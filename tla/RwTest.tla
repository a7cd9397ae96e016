------------------------------- MODULE RwTest -------------------------------
(***************************************************************************)
(* The endless read and write tests: the usb and sdcard menus of           *)
(* C/xunlei_test/xl_mnt_mng.c, the flash menu of flash.c, and the thread   *)
(* of the "allstart" menu of test.c, which stops the usb and sdcard tests  *)
(* when it ends.                                                           *)
(*                                                                         *)
(* A menu reads the partition record of its medium, starts worker threads  *)
(* on "allwrite" and "allread", and on "q" frees the record, then cancels  *)
(* and joins the workers.  Nothing is locked.  Whether a medium is found   *)
(* is the environment's choice here (it is UsbMng's subject).              *)
(***************************************************************************)
EXTENDS Naturals, FiniteSets

CONSTANTS Kinds,      \* the media that have a menu
          AllStart,   \* TRUE: the user may also enter the "allstart" menu
          MaxCmds,    \* bound: commands that open a menu or start a worker
          Faults      \* "pthread_create": it fails and leaves any tid behind

ASSUME RwTestAssumption ==
  /\ Kinds \subseteq {"usb", "sdcard", "flash"}
  /\ AllStart \in BOOLEAN /\ (AllStart => {"usb", "sdcard"} \subseteq Kinds)
  /\ MaxCmds \in Nat
  /\ Faults \subseteq {"pthread_create"}

Dir    == {"w", "r"}
Slot   == Kinds \X Dir
Thread == 1..MaxCmds           \* workers; a command starts one at most
Bad    == MaxCmds + 1          \* a tid that never was a thread
Actor  == {"main", "all"}

VARIABLES
  cmds,            \* commands so far
  pc, kind, dir, arg,  \* the two threads that run the menus and
                       \* mnt_*_term_data; arg: the thread they join
  tid, brk,        \* tid_w, tid_r, sdtid_w, ... and their _break flags
  data,            \* pDestData, pSDDestData: "null", "live" or "freed"
  wpc, wslot, canceled,            \* the workers
  asked,           \* history: the tests the user of this menu asked for
  all_tid, all_module_flag,        \* statics of test.c
  crashed

actorVars  == <<pc, kind, dir, arg>>
workerVars == <<wpc, wslot, canceled>>
allVars    == <<all_tid, all_module_flag>>
vars == <<cmds, actorVars, tid, brk, data, workerVars, asked, allVars, crashed>>

(***************************************************************************)
(* pc of "main": "top", "menu" (of kind), "allmenu"; of "all": "none",     *)
(* "loop", "done"; of both: "free", "test", "cancel", "join" and "wait"    *)
(* (in pthread_join) are the steps of mnt_*_term_data.  wpc: "none",       *)
(* "start", "run", "done" (ended, not joined), "joined".                   *)
(***************************************************************************)
Init ==
  /\ cmds = 0
  /\ pc = [a \in Actor |-> IF a = "main" THEN "top" ELSE "none"]
  /\ kind = [a \in Actor |-> "usb"] /\ dir = [a \in Actor |-> "w"]
  /\ arg = [a \in Actor |-> 0]
  /\ tid = [s \in Slot |-> 0] /\ brk = [s \in Slot |-> 0]
  /\ data = [k \in Kinds |-> "null"]
  /\ wpc = [t \in Thread |-> "none"] /\ wslot = [t \in Thread |-> <<"usb", "w">>]
  /\ canceled = {} /\ asked = {}
  /\ all_tid = 0 /\ all_module_flag = 0
  /\ crashed = FALSE

Live(t) == wpc[t] \in {"start", "run"}
Here(a) == <<kind[a], dir[a]>>

Goto(a, l) == pc' = [pc EXCEPT ![a] = l]

Command == ~crashed /\ cmds < MaxCmds /\ cmds' = cmds + 1

-----------------------------------------------------------------------------
(* The menus. *)

\* Mutant of OpenMenu: the menu opens whatever mnt_*_init_data returns.
OpenMenu_Unchecked(k) ==
  /\ Command
  /\ pc["main"] = "top"
  /\ \E d \in IF k = "flash" THEN {"null"} ELSE {"null", "live"} :
       data' = [data EXCEPT ![k] = d]
  /\ Goto("main", "menu")
  /\ kind' = [kind EXCEPT !["main"] = k]
  /\ asked' = {}
  /\ UNCHANGED <<dir, arg, tid, brk, workerVars, allVars, crashed>>

\* mnt_*_init_data; the menu opens only when the medium is there.  The
\* flash menu has no record to read.
OpenMenu(k) ==
  /\ Command
  /\ pc["main"] = "top"
  /\ \E d \in IF k = "flash" THEN {"null"} ELSE {"null", "live"} :
       /\ data' = [data EXCEPT ![k] = d]
       /\ IF k = "flash" \/ d = "live"
            THEN /\ Goto("main", "menu")
                 /\ kind' = [kind EXCEPT !["main"] = k]
            ELSE UNCHANGED <<pc, kind>>
  /\ brk' = [s \in Slot |-> IF k = "sdcard" /\ s[1] = k THEN 0 ELSE brk[s]]
  /\ asked' = {}
  /\ UNCHANGED <<dir, arg, tid, workerVars, allVars, crashed>>

\* Mutant of StartAll: the tid is not tested.
StartAll_Always(d) ==
  /\ Command
  /\ pc["main"] = "menu"
  /\ LET s == <<kind["main"], d>> IN
     /\ asked' = asked \cup {s}
     /\ tid' = [tid EXCEPT ![s] = cmds']
     /\ wpc' = [wpc EXCEPT ![cmds'] = "start"]
     /\ wslot' = [wslot EXCEPT ![cmds'] = s]
  /\ UNCHANGED <<actorVars, brk, data, canceled, allVars, crashed>>

\* do_write_*_all and do_read_*_all.
StartAll(d) ==
  /\ Command
  /\ pc["main"] = "menu"
  /\ LET s == <<kind["main"], d>> IN
     /\ asked' = asked \cup {s}
     /\ \/ /\ tid[s] # 0
           /\ UNCHANGED <<tid, wpc, wslot>>
        \/ /\ tid[s] = 0
           /\ tid' = [tid EXCEPT ![s] = cmds']
           /\ wpc' = [wpc EXCEPT ![cmds'] = "start"]
           /\ wslot' = [wslot EXCEPT ![cmds'] = s]
        \/ /\ tid[s] = 0 /\ "pthread_create" \in Faults
           /\ \E n \in {0, Bad} : tid' = [tid EXCEPT ![s] = n]
           /\ UNCHANGED <<wpc, wslot>>
  /\ UNCHANGED <<actorVars, brk, data, canceled, allVars, crashed>>

Quit ==
  /\ ~crashed
  /\ pc["main"] = "menu"
  /\ Goto("main", "free")
  /\ UNCHANGED <<cmds, kind, dir, arg, tid, brk, data, workerVars, asked, allVars,
                 crashed>>

\* all_module_test: the thread is created once; its tid is never reset.
EnterAll ==
  /\ AllStart /\ Command
  /\ pc["main"] = "top"
  /\ all_tid' = 1
  /\ pc' = [pc EXCEPT !["main"] = "allmenu",
                      !["all"] = IF all_tid = 0 THEN "loop" ELSE @]
  /\ UNCHANGED <<kind, dir, arg, tid, brk, data, workerVars, asked, all_module_flag,
                 crashed>>

QuitAll ==
  /\ ~crashed
  /\ pc["main"] = "allmenu"
  /\ all_module_flag' = 1
  /\ Goto("main", "top")
  /\ UNCHANGED <<cmds, kind, dir, arg, tid, brk, data, workerVars, asked, all_tid,
                 crashed>>

\* run_all_module sees the flag: usb_stop_run first, sdcard_stop_run next.
AllStop ==
  /\ ~crashed
  /\ pc["all"] = "loop" /\ all_module_flag = 1
  /\ Goto("all", "free")
  /\ kind' = [kind EXCEPT !["all"] = "usb"]
  /\ UNCHANGED <<cmds, dir, arg, tid, brk, data, workerVars, asked, allVars, crashed>>

-----------------------------------------------------------------------------
(* mnt_usb_term_data, mnt_sdcard_term_data, mnt_flash_term_data. *)

\* Mutant of TermFree: the flags are counted up.
TermFree_Count(a) ==
  /\ ~crashed
  /\ pc[a] = "free"
  /\ brk' = [s \in Slot |-> IF s[1] = kind[a] THEN brk[s] + 1 ELSE brk[s]]
  /\ data' = [data EXCEPT ![kind[a]] = IF @ = "null" THEN @ ELSE "freed"]
  /\ Goto(a, "test") /\ dir' = [dir EXCEPT ![a] = "w"]
  /\ UNCHANGED <<cmds, kind, arg, tid, workerVars, asked, allVars, crashed>>

\* The flags are raised and the record is freed; the pointer keeps its value.
TermFree(a) ==
  /\ ~crashed
  /\ pc[a] = "free"
  /\ brk' = [s \in Slot |-> IF s[1] = kind[a] THEN 1 ELSE brk[s]]
  /\ data' = [data EXCEPT ![kind[a]] = IF @ = "null" THEN @ ELSE "freed"]
  /\ Goto(a, "test") /\ dir' = [dir EXCEPT ![a] = "w"]
  /\ UNCHANGED <<cmds, kind, arg, tid, workerVars, asked, allVars, crashed>>

\* After the writer the reader; then main returns to its menu, and the other
\* thread goes from usb_stop_run to sdcard_stop_run.
NextSlot(a) ==
  \/ /\ dir[a] = "w"
     /\ dir' = [dir EXCEPT ![a] = "r"] /\ Goto(a, "test") /\ UNCHANGED kind
  \/ /\ dir[a] = "r" /\ a = "main"
     /\ Goto(a, "top") /\ UNCHANGED <<dir, kind>>
  \/ /\ dir[a] = "r" /\ a = "all" /\ kind[a] = "usb"
     /\ kind' = [kind EXCEPT ![a] = "sdcard"] /\ Goto(a, "free") /\ UNCHANGED dir
  \/ /\ dir[a] = "r" /\ a = "all" /\ kind[a] = "sdcard"
     /\ Goto(a, "done") /\ UNCHANGED <<dir, kind>>

TermTest(a) ==
  /\ ~crashed
  /\ pc[a] = "test"
  /\ \/ /\ tid[Here(a)] = 0
        /\ NextSlot(a)
     \/ /\ tid[Here(a)] # 0
        /\ Goto(a, "cancel") /\ UNCHANGED <<kind, dir>>
  /\ UNCHANGED <<cmds, arg, tid, brk, data, workerVars, asked, allVars, crashed>>

\* A tid that names no thread, or one that was joined: the call fails or the
\* process dies.
Stale(n) == n \in Thread => wpc[n] = "joined"

\* Mutant of TermCancel: the break flag alone must stop the worker.
TermCancel_FlagOnly(a) ==
  /\ ~crashed
  /\ pc[a] = "cancel"
  /\ Goto(a, "join")
  /\ UNCHANGED <<cmds, kind, dir, arg, tid, brk, data, workerVars, asked, allVars,
                 crashed>>

TermCancel(a) ==
  /\ ~crashed
  /\ pc[a] = "cancel"
  /\ canceled' = canceled \cup ({tid[Here(a)]} \cap Thread)
  /\ crashed' \in IF Stale(tid[Here(a)]) THEN BOOLEAN ELSE {FALSE}
  /\ Goto(a, "join")
  /\ UNCHANGED <<cmds, kind, dir, arg, tid, brk, data, wpc, wslot, asked, allVars>>

\* pthread_join reads the tid for the last time.
TermJoin(a) ==
  /\ ~crashed
  /\ pc[a] = "join"
  /\ arg' = [arg EXCEPT ![a] = tid[Here(a)]]
  /\ Goto(a, "wait")
  /\ UNCHANGED <<cmds, kind, dir, tid, brk, data, workerVars, asked, allVars,
                 crashed>>

\* Mutant of ResetSlot: the tid_w of flash.c is the one that is zeroed.
ResetSlot_Flash(s) == IF s[1] = "sdcard" THEN <<"flash", s[2]>> ELSE s

\* Mutant of ResetSlot: the writer's tid is zeroed twice, the reader's never.
ResetSlot_Writer(s) == <<s[1], "w">>

\* mnt_sdcard_term_data zeroes tid_w and tid_r, the variables of the usb test.
ResetSlot(s) == IF s[1] = "sdcard" THEN <<"usb", s[2]>> ELSE s

\* Mutant of TermWait: the canceled worker is not waited for.
TermWait_NoJoin(a) ==
  /\ ~crashed
  /\ pc[a] = "wait"
  /\ tid' = [s \in Slot |-> IF s = ResetSlot(Here(a)) THEN 0 ELSE tid[s]]
  /\ NextSlot(a)
  /\ UNCHANGED <<cmds, arg, brk, data, workerVars, asked, allVars, crashed>>

TermWait(a) ==
  /\ ~crashed
  /\ pc[a] = "wait"
  /\ \/ /\ Stale(arg[a])
        /\ crashed' \in BOOLEAN /\ UNCHANGED wpc
     \/ /\ ~Stale(arg[a]) /\ wpc[arg[a]] = "done"
        /\ wpc' = [wpc EXCEPT ![arg[a]] = "joined"] /\ UNCHANGED crashed
  /\ tid' = [s \in Slot |-> IF s = ResetSlot(Here(a)) THEN 0 ELSE tid[s]]
  /\ NextSlot(a)
  /\ UNCHANGED <<cmds, arg, brk, data, wslot, canceled, asked, allVars>>

-----------------------------------------------------------------------------
(* The worker threads. *)

\* Up to the loop: the mount directory is taken from the record, freed or not
\* (NULL kills the process, but the usb writer waits), and the flag is reset.
WorkerStart(t) ==
  /\ ~crashed
  /\ wpc[t] = "start"
  /\ wslot[t] = <<"usb", "w">> => data["usb"] # "null"
  /\ crashed' = (wslot[t][1] # "flash" /\ data[wslot[t][1]] = "null")
  /\ brk' = [brk EXCEPT ![wslot[t]] = 0]
  /\ wpc' = [wpc EXCEPT ![t] = "run"]
  /\ UNCHANGED <<cmds, actorVars, tid, data, wslot, canceled, asked, allVars>>

\* One round of the loop; only a raised flag or a cancellation ends it.
WorkerEnd(t) ==
  /\ ~crashed
  /\ wpc[t] = "run"
  /\ brk[wslot[t]] = 1 \/ t \in canceled
  /\ wpc' = [wpc EXCEPT ![t] = "done"]
  /\ UNCHANGED <<cmds, actorVars, tid, brk, data, wslot, canceled, asked, allVars,
                 crashed>>

-----------------------------------------------------------------------------
\* The loop of a menu: the tests of one file (write, read) read the record, which
\* RecordLive is about, and end before the next command.
MenuLoop == Quit \/ \E d \in Dir : StartAll(d)
User == (\E k \in Kinds : OpenMenu(k)) \/ MenuLoop \/ EnterAll \/ QuitAll

Term(a) == \/ TermFree(a) \/ TermTest(a) \/ TermCancel(a) \/ TermJoin(a)
           \/ TermWait(a)
Worker(t) == WorkerStart(t) \/ WorkerEnd(t)

Next == User \/ AllStop \/ (\E a \in Actor : Term(a)) \/ \E t \in Thread : Worker(t)

\* Every thread is scheduled; the user owes nothing.
Fairness == /\ WF_vars(Term("main"))
            /\ WF_vars(AllStop \/ Term("all"))
            /\ \A t \in Thread : WF_vars(Worker(t))

Spec == Init /\ [][Next]_vars
FairSpec == Spec /\ Fairness

-----------------------------------------------------------------------------
(* Properties. *)

TypeOK ==
  /\ cmds \in 0..MaxCmds
  /\ pc \in [Actor -> {"top", "menu", "allmenu", "none", "loop", "done", "free",
                       "test", "cancel", "join", "wait"}]
  /\ kind \in [Actor -> Kinds \cup {"usb"}] /\ dir \in [Actor -> Dir]
  /\ arg \in [Actor -> 0..Bad]
  /\ tid \in [Slot -> 0..Bad] /\ brk \in [Slot -> {0, 1}]
  /\ data \in [Kinds -> {"null", "live", "freed"}]
  /\ wpc \in [Thread -> {"none", "start", "run", "done", "joined"}]
  /\ wslot \in [Thread -> Slot \cup {<<"usb", "w">>}]
  /\ canceled \subseteq Thread /\ asked \subseteq Slot
  /\ all_tid \in {0, 1} /\ all_module_flag \in {0, 1} /\ crashed \in BOOLEAN

\* The allstart menu was not entered yet.
Alone == all_tid = 0

\* When the user is back in the main menu no worker is left behind (until the
\* allstart menu is entered, whose thread interferes).
WorkersStopped == Alone /\ pc["main"] = "top" => \A t \in Thread : ~Live(t)

\* A medium has one writer and one reader at most (until allstart).
OneWorker ==
  Alone => \A t, u \in Thread :
              Live(t) /\ Live(u) /\ wslot[t] = wslot[u] => t = u

(* The inductive invariant behind these two (see RwTestProofs). *)

Unjoined(t) == wpc[t] \in {"start", "run", "done"}
Stopping == pc["main"] \in {"test", "cancel", "join", "wait"}

\* Whoever is in a menu or stops its tests knows a medium that exists.
Placed ==
  /\ \A a \in Actor : pc[a] \in {"menu", "free", "test", "cancel", "join", "wait"}
       => kind[a] \in Kinds
  /\ pc["all"] # "none" => AllStart

\* Only main runs; it is in the menu of a medium, or back in the top menu.
MainOnly == /\ pc["all"] = "none"
            /\ pc["main"] \in {"top", "menu", "free"} \/ Stopping
            /\ pc["main"] # "top" => kind["main"] \in Kinds
            /\ pc["main"] = "wait" => arg["main"] = tid[Here("main")]

\* A worker that was not joined belongs to the medium of the open menu, its
\* tid names it, and mnt_*_term_data has yet to come to it.
WorkersOwned ==
  \A t \in Thread : Unjoined(t) =>
     /\ t <= cmds
     /\ pc["main"] # "top"
     /\ wslot[t] \in Slot /\ wslot[t][1] = kind["main"]
     /\ tid[wslot[t]] = t
     /\ Stopping /\ dir["main"] = "r" => wslot[t][2] = "r"

IInv == TypeOK /\ Placed /\ (Alone => MainOnly /\ WorkersOwned)

(* The inductive invariant behind RecordLive, AskedRuns and FlashIsolated. *)

\* A tid names the worker that was created for its slot; no future one.
TidsNamed ==
  /\ canceled \subseteq 1..cmds
  /\ \A s \in Slot : tid[s] \in Thread => tid[s] <= cmds /\ wslot[tid[s]] = s

\* The thread of the allstart menu keeps to the usb and sdcard tests.
AllElsewhere ==
  /\ pc["all"] \in {"free", "test", "cancel", "join", "wait"}
       => kind["all"] \in {"usb", "sdcard"}
  /\ arg["all"] \in Thread => /\ arg["all"] <= cmds
                              /\ wslot[arg["all"]][1] # "flash"

\* The record of the open menu is allocated; flash has none.
RecordKept ==
  /\ pc["main"] \in {"menu", "free"} /\ kind["main"] # "flash"
       => data[kind["main"]] = "live"
  /\ "flash" \in Kinds => data["flash"] = "null"

\* Main is in the menu of medium k or stops its tests.
Serving(k) == kind["main"] = k /\ (pc["main"] \in {"menu", "free"} \/ Stopping)

\* Nothing but the menu of medium k touches its tests.  A worker that was not
\* joined has its tid, and in the menu its flag stays down.
WorkersNamed(k) ==
  \A t \in Thread : Unjoined(t) /\ wslot[t][1] = k =>
    /\ t <= cmds /\ Serving(k) /\ wslot[t] \in Slot /\ tid[wslot[t]] = t
    /\ pc["main"] = "menu" /\ wpc[t] = "run" => brk[wslot[t]] = 0

\* Outside its menu both tids are 0, and a quit zeroes the writer's first.
TidsClean(k) ==
  \A d \in Dir : tid[<<k, d>>] # 0 =>
    Serving(k) /\ (Stopping /\ dir["main"] = "r" => d = "r")

\* The join waits for the thread whose tid it will zero.
JoinsOwn(k) == Serving(k) /\ pc["main"] = "wait" => arg["main"] = tid[Here("main")]

\* In the menu a tid that is set names a worker that nobody stops.
RunsOn(k) ==
  pc["main"] = "menu" =>
    \A d \in Dir : tid[<<k, d>>] \in Thread =>
       Live(tid[<<k, d>>]) /\ tid[<<k, d>>] \notin canceled

Isolated(k) == WorkersNamed(k) /\ TidsClean(k) /\ JoinsOwn(k) /\ RunsOn(k)

MediaInv ==
  /\ IInv /\ TidsNamed /\ AllElsewhere
  /\ Alone => RecordKept
  /\ \A k \in Kinds : k = "flash" \/ (k = "usb" /\ Alone) => Isolated(k)

\* The commands of an open menu find the partition record allocated, and so
\* does the free() of a quit (or a NULL): the record is freed once.  Only the
\* thread of the allstart menu breaks this.
RecordLive ==
  Alone =>
    /\ pc["main"] = "menu" /\ kind["main"] # "flash" => data[kind["main"]] = "live"
    /\ \A a \in Actor : pc[a] = "free" => data[kind[a]] # "freed"

\* The tests of medium k that were asked for in the open menu run, unless
\* pthread_create failed: then their tid names no thread.
Asked(k) ==
  Alone /\ pc["main"] = "menu" =>
    \A s \in asked : s[1] = k /\ tid[s] \in Thread
                       => \E t \in Thread : Live(t) /\ wslot[t] = s

\* In the usb and flash menus a test that was asked for runs, in every visit
\* of the menu: what the last visit left in tid_w and tid_r does not block it.
AskedRuns == Asked("usb") /\ Asked("flash")

\* A quit gets back to the main menu: the join of a worker ends, although the
\* worker resets the flag that was raised to stop it.
QuitReturns == pc["main"] = "free" ~> (pc["main"] = "top" \/ crashed)

\* The thread of the allstart menu, late to stop the usb and sdcard tests, and
\* the wrong variables that the sdcard test zeroes leave the flash test alone
\* (flash.c has its own tid_w and tid_r): in its menu a tid that is set names a
\* live worker, and every worker has its tid.
FlashIsolated ==
  pc["main"] = "menu" /\ kind["main"] = "flash" =>
    /\ \A d \in Dir : LET t == tid[<<"flash", d>>] IN
         t \in Thread => Live(t) /\ t \notin canceled /\ wslot[t] = <<"flash", d>>
    /\ \A t \in Thread :
         Live(t) /\ wslot[t][1] = "flash" => tid[wslot[t]] = t

=============================================================================
