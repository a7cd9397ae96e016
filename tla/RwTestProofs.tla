---------------------------- MODULE RwTestProofs ----------------------------
(***************************************************************************)
(* Proofs about RwTest: however many media, commands and failures of       *)
(* pthread_create there are, and as long as the allstart menu was not      *)
(* entered, a quit leaves no worker behind and a medium never has two      *)
(* writers; the records of the menus stay allocated and the tests that     *)
(* were asked for run.  Type correctness and the isolation of the flash    *)
(* test need no such condition.                                            *)
(***************************************************************************)
EXTENDS RwTest, TLAPS

\* Initially no menu is open and no worker exists.
LEMMA InitIInv == Init => IInv
<1> SUFFICES ASSUME Init PROVE IInv
  OBVIOUS
<1> USE RwTestAssumption
<1>a. pc \in [Actor -> {"top", "menu", "allmenu", "none", "loop", "done", "free",
                       "test", "cancel", "join", "wait"}]
  BY DEF Init
<1>b. /\ kind \in [Actor -> Kinds \cup {"usb"}] /\ dir \in [Actor -> Dir]
      /\ arg \in [Actor -> 0..Bad]
  BY DEF Init, Dir, Bad
<1>c. /\ tid \in [Slot -> 0..Bad] /\ brk \in [Slot -> {0, 1}]
      /\ data \in [Kinds -> {"null", "live", "freed"}]
  BY DEF Init, Bad
<1>d. /\ wpc \in [Thread -> {"none", "start", "run", "done", "joined"}]
      /\ wslot \in [Thread -> Slot \cup {<<"usb", "w">>}]
  BY DEF Init
<1>e. /\ cmds \in 0..MaxCmds /\ canceled \subseteq Thread /\ asked \subseteq Slot
      /\ all_tid \in {0, 1} /\ all_module_flag \in {0, 1}
  BY DEF Init
<1>f. crashed \in BOOLEAN
  BY DEF Init
<1>1. TypeOK
  BY <1>a, <1>b, <1>c, <1>d, <1>e, <1>f DEF TypeOK
<1>2. MainOnly
  BY DEF Init, MainOnly, Actor, Stopping
<1>3. WorkersOwned
  BY DEF Init, WorkersOwned, Unjoined
<1>4. Placed
  BY DEF Init, Placed, Actor
<1> QED BY <1>1, <1>2, <1>3, <1>4 DEF IInv

\* Steps of the user preserve the type invariant.
LEMMA TypeUser == ASSUME IInv, User PROVE TypeOK'
<1> USE RwTestAssumption DEF IInv, TypeOK, Actor
<1>1. ASSUME NEW k \in Kinds, OpenMenu(k) PROVE TypeOK'
  BY <1>1 DEF OpenMenu, Command, Goto, workerVars, allVars
<1>2. ASSUME NEW d \in Dir, StartAll(d) PROVE TypeOK'
  <2> DEFINE s == <<kind["main"], d>>
  <2>1. s \in Slot
    BY <1>2 DEF Placed, StartAll, Slot
  <2>2. cmds' \in Thread /\ cmds' \in 0..Bad
    BY <1>2 DEF StartAll, Command, Thread, Bad
  <2>3. tid' \in [Slot -> 0..Bad]
    BY <1>2, <2>1, <2>2 DEF StartAll, Bad
  <2>4. wpc' \in [Thread -> {"none", "start", "run", "done", "joined"}]
    BY <1>2, <2>1, <2>2 DEF StartAll
  <2>5. wslot' \in [Thread -> Slot \cup {<<"usb", "w">>}] /\ asked' \subseteq Slot
    BY <1>2, <2>1, <2>2 DEF StartAll
  <2> QED
    BY <1>2, <2>3, <2>4, <2>5 DEF StartAll, Command, actorVars, allVars
<1>3. ASSUME Quit PROVE TypeOK'
  BY <1>3 DEF Quit, Goto, workerVars, allVars
<1>4. ASSUME QuitAll PROVE TypeOK'
  BY <1>4 DEF QuitAll, Goto, workerVars
<1>5. ASSUME EnterAll PROVE TypeOK'
  BY <1>5 DEF EnterAll, Command, workerVars
<1> QED BY <1>1, <1>2, <1>3, <1>4, <1>5 DEF User, MenuLoop

\* Steps of mnt_*_term_data preserve the type invariant.
LEMMA TypeTerm == ASSUME IInv, NEW a \in Actor, Term(a) PROVE TypeOK'
<1> USE RwTestAssumption DEF IInv, TypeOK, Actor
<1>b. pc[a] \in {"free", "test", "cancel", "join", "wait"}
  BY DEF Term, TermFree, TermTest, TermCancel, TermJoin, TermWait
<1>a. kind[a] \in Kinds /\ Here(a) \in Slot
  BY <1>b DEF Placed, Here, Slot
<1>c. a = "all" => "sdcard" \in Kinds
  BY <1>b DEF Placed
<1>0. ASSUME NextSlot(a)
      PROVE /\ pc' \in [Actor -> {"top", "menu", "allmenu", "none", "loop", "done",
                           "free", "test", "cancel", "join", "wait"}]
            /\ kind' \in [Actor -> Kinds \cup {"usb"}] /\ dir' \in [Actor -> Dir]
  <2>1. CASE dir[a] = "w"
    BY <1>0, <2>1 DEF NextSlot, Goto, Dir
  <2>2. CASE dir[a] # "w"
    BY <1>0, <2>2, <1>c DEF NextSlot, Goto, Dir
  <2> QED BY <2>1, <2>2
<1>1. CASE TermFree(a)
  BY <1>1 DEF TermFree, Goto, Dir, workerVars, allVars
<1>2. CASE TermTest(a)
  <2>1. CASE tid[Here(a)] = 0
    BY <1>2, <2>1, <1>0 DEF TermTest, workerVars, allVars
  <2>2. CASE tid[Here(a)] # 0
    BY <1>2, <2>2 DEF TermTest, Goto, workerVars, allVars
  <2> QED BY <2>1, <2>2
<1>3. CASE TermCancel(a)
  BY <1>3 DEF TermCancel, Goto, allVars
<1>4. CASE TermJoin(a)
  BY <1>4, <1>a DEF TermJoin, Goto, workerVars, allVars
<1>5. CASE TermWait(a)
  <2>1. wpc' \in [Thread -> {"none", "start", "run", "done", "joined"}]
    BY <1>5 DEF TermWait
  <2>2. tid' \in [Slot -> 0..Bad]
    BY <1>5 DEF TermWait, Bad
  <2> QED BY <1>5, <2>1, <2>2, <1>0 DEF TermWait, allVars
<1> QED BY <1>1, <1>2, <1>3, <1>4, <1>5 DEF Term

\* The type invariant is kept.
LEMMA TypeStep == ASSUME IInv, Next PROVE TypeOK'
<1> USE RwTestAssumption
<1>1. ASSUME User PROVE TypeOK'
  BY <1>1, TypeUser
<1>2. ASSUME NEW a \in Actor, Term(a) PROVE TypeOK'
  BY <1>2, TypeTerm
<1>3. ASSUME NEW t \in Thread, WorkerStart(t) PROVE TypeOK'
  BY <1>3 DEF IInv, TypeOK, WorkerStart, actorVars, allVars
<1>4. ASSUME NEW t \in Thread, WorkerEnd(t) PROVE TypeOK'
  BY <1>4 DEF IInv, TypeOK, WorkerEnd, actorVars, allVars
<1>5. ASSUME AllStop PROVE TypeOK'
  BY <1>5 DEF IInv, TypeOK, AllStop, Goto, Actor, workerVars, allVars
<1> QED BY <1>1, <1>2, <1>3, <1>4, <1>5 DEF Next, Worker

\* A menu, and whoever stops its tests, keeps to a medium that exists.
LEMMA PlacedStep == ASSUME IInv, Next PROVE Placed'
<1> USE RwTestAssumption DEF IInv, TypeOK, Actor
<1>1. ASSUME User PROVE Placed'
  <2>1. ASSUME NEW k \in Kinds, OpenMenu(k) PROVE Placed'
    BY <2>1 DEF OpenMenu, Placed, Goto
  <2>2. ASSUME NEW d \in Dir, StartAll(d) PROVE Placed'
    BY <2>2 DEF StartAll, Placed, actorVars
  <2>3. ASSUME Quit \/ QuitAll PROVE Placed'
    BY <2>3 DEF Quit, QuitAll, Placed, Goto
  <2>4. ASSUME EnterAll PROVE Placed'
    BY <2>4 DEF EnterAll, Placed
  <2> QED BY <1>1, <2>1, <2>2, <2>3, <2>4 DEF User, MenuLoop
<1>2. ASSUME NEW a \in Actor, Term(a) PROVE Placed'
  <2>1. kind[a] \in Kinds /\ (a = "all" => AllStart /\ "sdcard" \in Kinds)
    BY <1>2 DEF Placed, Term, TermFree, TermTest, TermCancel, TermJoin, TermWait
  <2>2. CASE NextSlot(a)
    BY <2>1, <2>2 DEF NextSlot, Placed, Goto
  <2>3. CASE UNCHANGED kind /\ \E l \in {"test", "cancel", "join", "wait"} : Goto(a, l)
    BY <2>1, <2>3 DEF Placed, Goto
  <2> QED
    BY <1>2, <2>2, <2>3 DEF Term, TermFree, TermTest, TermCancel, TermJoin, TermWait
<1>3. ASSUME NEW t \in Thread, Worker(t) PROVE Placed'
  BY <1>3 DEF Worker, WorkerStart, WorkerEnd, Placed, actorVars
<1>4. ASSUME AllStop PROVE Placed'
  BY <1>4 DEF AllStop, Placed, Goto
<1> QED BY <1>1, <1>2, <1>3, <1>4 DEF Next

\* Steps of the user keep the workers accounted for: a new one gets a free
\* slot of the open menu.
LEMMA OwnedUser ==
  ASSUME TypeOK, MainOnly, WorkersOwned, User, ~EnterAll
  PROVE  MainOnly' /\ WorkersOwned'
<1> USE RwTestAssumption DEF TypeOK, Actor
<1>1. ASSUME NEW k \in Kinds, OpenMenu(k) PROVE MainOnly' /\ WorkersOwned'
  <2>1. MainOnly'
    BY <1>1 DEF OpenMenu, Command, Goto, MainOnly, Stopping, Here
  <2>2. \A t \in Thread : ~Unjoined(t)
    BY <1>1 DEF OpenMenu, WorkersOwned
  <2>3. WorkersOwned'
    BY <1>1, <2>2 DEF OpenMenu, WorkersOwned, Unjoined, workerVars
  <2> QED BY <2>1, <2>3
<1>2. ASSUME NEW d \in Dir, StartAll(d) PROVE MainOnly' /\ WorkersOwned'
  <2> DEFINE s == <<kind["main"], d>>
  <2>0. UNCHANGED <<pc, kind, dir, arg>> /\ pc["main"] = "menu" /\ cmds' = cmds + 1
        /\ cmds' \in Thread
    BY <1>2 DEF StartAll, actorVars, Command, Thread
  <2>1. MainOnly'
    BY <2>0 DEF MainOnly, Stopping, Here
  <2>2. s \in Slot
    BY <2>0 DEF MainOnly, Slot
  <2>3. ASSUME NEW t \in Thread, Unjoined(t)'
        PROVE /\ t <= cmds'
              /\ wslot'[t] \in Slot /\ wslot'[t][1] = kind["main"]
              /\ tid'[wslot'[t]] = t
    <3>1. CASE t = cmds' /\ tid[s] = 0 /\ wslot' = [wslot EXCEPT ![cmds'] = s]
               /\ tid' = [tid EXCEPT ![s] = cmds']
      BY <3>1, <2>0, <2>2
    <3>2. CASE Unjoined(t) /\ wslot'[t] = wslot[t]
               /\ \/ tid' = tid
                  \/ tid[s] = 0 /\ \E n \in {0, Bad, cmds'} : tid' = [tid EXCEPT ![s] = n]
      <4>1. t <= cmds /\ wslot[t] \in Slot /\ wslot[t][1] = kind["main"]
            /\ tid[wslot[t]] = t
        BY <3>2 DEF WorkersOwned
      <4>2. t # 0
        BY DEF Thread
      <4>3. tid'[wslot[t]] = t
        BY <3>2, <4>1, <4>2
      <4> QED BY <3>2, <4>1, <4>3, <2>0
    <3>3. Unjoined(cmds') => FALSE
      BY <2>0 DEF WorkersOwned
    <3>4. CASE tid[s] # 0
      BY <1>2, <2>3, <3>2, <3>4 DEF StartAll, Unjoined
    <3>5. CASE tid[s] = 0
      BY <1>2, <2>3, <3>1, <3>2, <3>3, <3>5, <2>0 DEF StartAll, Unjoined
    <3> QED BY <3>4, <3>5
  <2>4. WorkersOwned'
    BY <2>0, <2>3 DEF WorkersOwned, Stopping
  <2> QED BY <2>1, <2>4
<1>3. ASSUME Quit PROVE MainOnly' /\ WorkersOwned'
  <2>1. MainOnly'
    BY <1>3 DEF Quit, Goto, MainOnly, Stopping, Here
  <2>2. WorkersOwned'
    BY <1>3 DEF Quit, Goto, WorkersOwned, Unjoined, Stopping, workerVars
  <2> QED BY <2>1, <2>2
<1>4. ~QuitAll
  BY DEF QuitAll, MainOnly, Stopping
<1> QED BY <1>1, <1>2, <1>3, <1>4 DEF User, MenuLoop

\* The step from one worker to the next: none that was not joined stays behind.
LEMMA OwnedNext ==
  ASSUME TypeOK, MainOnly, WorkersOwned,
         Stopping, NextSlot("main"), UNCHANGED <<cmds, wslot>>,
         \A t \in Thread : Unjoined(t)' =>
            Unjoined(t) /\ wslot[t] # Here("main") /\ tid'[wslot[t]] = tid[wslot[t]],
         UNCHANGED <<pc["all"], arg>>
  PROVE  MainOnly' /\ WorkersOwned'
<1> USE RwTestAssumption DEF TypeOK, Actor
<1>1. CASE dir["main"] = "w"
  <2>0. pc'["main"] = "test" /\ dir'["main"] = "r" /\ kind' = kind
    BY <1>1 DEF NextSlot, Goto
  <2>1. MainOnly'
    BY <2>0 DEF MainOnly, Stopping
  <2>2. ASSUME NEW t \in Thread, Unjoined(t)' PROVE wslot[t][2] = "r"
    <3>1. wslot[t] \in Slot /\ wslot[t][1] = kind["main"] /\ wslot[t] # <<kind["main"], "w">>
      BY <2>2, <1>1 DEF WorkersOwned, Here
    <3> QED BY <3>1 DEF Slot, Dir
  <2>3. WorkersOwned'
    BY <2>0, <2>2 DEF WorkersOwned, Stopping
  <2> QED BY <2>1, <2>3
<1>2. CASE dir["main"] # "w"
  <2>0. dir["main"] = "r" /\ pc'["main"] = "top" /\ kind' = kind /\ dir' = dir
    BY <1>2 DEF NextSlot, Goto, Dir
  <2>1. MainOnly'
    BY <2>0 DEF MainOnly, Stopping
  <2>2. ASSUME NEW t \in Thread, Unjoined(t)' PROVE FALSE
    <3>1. wslot[t] \in Slot /\ wslot[t][1] = kind["main"] /\ wslot[t][2] = "r"
          /\ wslot[t] # <<kind["main"], "r">>
      BY <2>2, <2>0 DEF WorkersOwned, Here
    <3> QED BY <3>1 DEF Slot, Dir
  <2>3. WorkersOwned'
    BY <2>2 DEF WorkersOwned
  <2> QED BY <2>1, <2>3
<1> QED BY <1>1, <1>2

\* Steps of mnt_*_term_data: the tid that is tested, canceled and joined is
\* the only one a worker of this slot can have.
LEMMA OwnedTerm ==
  ASSUME TypeOK, MainOnly, WorkersOwned, NEW a \in Actor, Term(a)
  PROVE  MainOnly' /\ WorkersOwned'
<1> USE RwTestAssumption DEF TypeOK, Actor
<1>b. a = "main"
  BY DEF MainOnly, Term, TermFree, TermTest, TermCancel, TermJoin, TermWait
<1>1. CASE TermFree(a)
  <2>1. MainOnly'
    BY <1>1, <1>b DEF TermFree, Goto, MainOnly, Stopping
  <2>2. WorkersOwned'
    BY <1>1, <1>b DEF TermFree, Goto, WorkersOwned, Unjoined, Stopping, workerVars
  <2> QED BY <2>1, <2>2
<1>2. CASE TermTest(a) /\ tid[Here(a)] # 0
  <2>1. MainOnly'
    BY <1>2, <1>b DEF TermTest, Goto, MainOnly, Stopping
  <2>2. WorkersOwned'
    BY <1>2, <1>b DEF TermTest, Goto, WorkersOwned, Unjoined, Stopping, workerVars
  <2> QED BY <2>1, <2>2
<1>3. CASE TermTest(a) /\ tid[Here(a)] = 0
  <2>1. Stopping /\ NextSlot("main") /\ UNCHANGED <<cmds, wslot, wpc, tid, arg>>
    BY <1>3, <1>b DEF TermTest, Stopping, workerVars
  <2>2. pc'["all"] = pc["all"]
    BY <2>1 DEF NextSlot, Goto
  <2>3. ASSUME NEW t \in Thread, Unjoined(t)' PROVE Unjoined(t) /\ wslot[t] # Here("main")
    <3>1. Unjoined(t)
      BY <2>1, <2>3 DEF Unjoined
    <3>2. tid[wslot[t]] # 0
      BY <3>1 DEF WorkersOwned, Thread
    <3> QED BY <3>1, <3>2, <1>3, <1>b
  <2> QED BY <2>1, <2>2, <2>3, OwnedNext
<1>4. CASE TermCancel(a)
  <2>1. MainOnly'
    BY <1>4, <1>b DEF TermCancel, Goto, MainOnly, Stopping
  <2>2. WorkersOwned'
    BY <1>4, <1>b DEF TermCancel, Goto, WorkersOwned, Unjoined, Stopping
  <2> QED BY <2>1, <2>2
<1>5. CASE TermJoin(a)
  <2>1. MainOnly'
    BY <1>5, <1>b DEF TermJoin, Goto, MainOnly, Stopping, Here
  <2>2. WorkersOwned'
    BY <1>5, <1>b DEF TermJoin, Goto, WorkersOwned, Unjoined, Stopping, workerVars
  <2> QED BY <2>1, <2>2
<1>6. CASE TermWait(a)
  <2>1. Stopping /\ NextSlot("main") /\ UNCHANGED <<cmds, wslot, arg>>
    BY <1>6, <1>b DEF TermWait, Stopping
  <2>2. pc'["all"] = pc["all"]
    BY <2>1 DEF NextSlot, Goto
  <2>3. arg["main"] = tid[Here("main")] /\ kind["main"] \in Kinds
    BY <1>6, <1>b DEF TermWait, MainOnly
  <2>4. ASSUME NEW t \in Thread, Unjoined(t)'
        PROVE Unjoined(t) /\ wslot[t] # Here("main") /\ tid'[wslot[t]] = tid[wslot[t]]
    <3>1. Unjoined(t) /\ t # arg["main"]
      <4>1. CASE Stale(arg["main"])
        BY <1>6, <1>b, <2>4, <4>1 DEF TermWait, Unjoined, Stale
      <4>2. CASE ~Stale(arg["main"])
        BY <1>6, <1>b, <2>4, <4>2 DEF TermWait, Unjoined, Stale
      <4> QED BY <4>1, <4>2
    <3>2. tid[wslot[t]] = t /\ wslot[t] \in Slot /\ wslot[t][1] = kind["main"]
      BY <3>1 DEF WorkersOwned
    <3>3. wslot[t] # Here("main")
      BY <3>1, <3>2, <2>3
    <3>4. wslot[t] # ResetSlot(Here("main"))
      BY <3>2, <3>3 DEF ResetSlot, Here
    <3> QED BY <3>1, <3>2, <3>3, <3>4, <1>6, <1>b DEF TermWait
  <2> QED BY <2>1, <2>2, <2>4, OwnedNext
<1> QED BY <1>1, <1>2, <1>3, <1>4, <1>5, <1>6 DEF Term

\* A worker can only start and end.
LEMMA OwnedWorker ==
  ASSUME TypeOK, MainOnly, WorkersOwned, NEW t \in Thread, Worker(t)
  PROVE  MainOnly' /\ WorkersOwned'
<1> USE DEF TypeOK
<1>1. UNCHANGED <<cmds, pc, kind, dir, arg, tid, wslot>>
  BY DEF Worker, WorkerStart, WorkerEnd, actorVars
<1>2. \A u \in Thread : Unjoined(u)' => Unjoined(u)
  BY DEF Worker, WorkerStart, WorkerEnd, Unjoined
<1>3. MainOnly'
  BY <1>1 DEF MainOnly, Stopping, Here
<1>4. WorkersOwned'
  BY <1>1, <1>2 DEF WorkersOwned, Stopping
<1> QED BY <1>3, <1>4

\* A step keeps the invariant of the menus; entering allstart suspends its
\* second half.
LEMMA IInvStep == ASSUME IInv, Next PROVE IInv'
<1>1. TypeOK'
  BY TypeStep
<1>2. Placed'
  BY PlacedStep
<1>3. ASSUME Alone' PROVE MainOnly' /\ WorkersOwned'
  <2>1. ~EnterAll
    BY <1>3 DEF Alone, EnterAll
  <2>2. all_tid' = all_tid
    BY <2>1 DEF Next, User, MenuLoop, OpenMenu, StartAll, Quit, QuitAll, AllStop,
         Term, TermFree, TermTest, TermCancel, TermJoin, TermWait, Worker,
         WorkerStart, WorkerEnd, allVars
  <2>3. TypeOK /\ MainOnly /\ WorkersOwned
    BY <1>3, <2>2 DEF IInv, Alone
  <2>4. ~AllStop
    BY <2>3 DEF MainOnly, AllStop
  <2> QED BY <2>1, <2>3, <2>4, OwnedUser, OwnedTerm, OwnedWorker DEF Next
<1> QED BY <1>1, <1>2, <1>3 DEF IInv

\* The invariant of the menus.
THEOREM Invariance == Spec => []IInv
<1>1. Init => IInv
  BY InitIInv
<1>2. IInv /\ [Next]_vars => IInv'
  <2> SUFFICES ASSUME IInv, [Next]_vars PROVE IInv'
    OBVIOUS
  <2>1. CASE Next
    BY <2>1, IInvStep
  <2>2. CASE UNCHANGED vars
    BY <2>2 DEF vars, actorVars, workerVars, allVars, IInv, TypeOK, Placed, Alone,
                MainOnly, WorkersOwned, Unjoined, Stopping, Here
  <2> QED BY <2>1, <2>2
<1> QED BY <1>1, <1>2, PTL DEF Spec

\* Type correctness of the menus.
THEOREM TypeCorrect == Spec => []TypeOK
<1>1. IInv => TypeOK
  BY DEF IInv
<1> QED BY <1>1, Invariance, PTL

\* The quits of xl_mnt_mng.c and flash.c leave no worker behind, although the
\* sdcard test zeroes the wrong variables and failed creations leave any tid.
THEOREM NoWorkerLeft == Spec => []WorkersStopped
<1>1. IInv => WorkersStopped
  BY DEF IInv, WorkersOwned, WorkersStopped, Unjoined, Live
<1> QED BY <1>1, Invariance, PTL

\* A medium never has two writers or two readers.
THEOREM SingleWorker == Spec => []OneWorker
<1>1. IInv => OneWorker
  BY DEF IInv, WorkersOwned, OneWorker, Unjoined, Live
<1> QED BY <1>1, Invariance, PTL
-----------------------------------------------------------------------------
(* What the menu of one medium can rely on: RecordLive, AskedRuns and      *)
(* FlashIsolated, from MediaInv.  The tests of flash are isolated from     *)
(* every other thread, those of usb until the allstart menu is entered.    *)

\* A step keeps every tid on the worker created for its slot: only StartAll
\* writes one, with the number of a thread that is new.
LEMMA TidsNamedStep == ASSUME IInv, TidsNamed, Next PROVE TidsNamed'
<1> USE RwTestAssumption DEF IInv, TypeOK, Actor
<1>0. CASE cmds' \in Nat /\ cmds' >= cmds /\ canceled' = canceled /\ wslot' = wslot
           /\ \A s \in Slot : tid'[s] = tid[s] \/ tid'[s] = 0
  <2>1. canceled' \subseteq 1..cmds'
    BY <1>0 DEF TidsNamed
  <2>2. ASSUME NEW s \in Slot, tid'[s] \in Thread
        PROVE tid'[s] <= cmds' /\ wslot'[tid'[s]] = s
    <3>1. tid'[s] = tid[s] /\ tid[s] \in Thread
      BY <1>0, <2>2 DEF Thread
    <3>2. tid[s] <= cmds /\ wslot[tid[s]] = s
      BY <3>1 DEF TidsNamed
    <3>3. tid[s] \in Nat /\ cmds \in Nat
      BY <3>1 DEF Thread
    <3> QED BY <1>0, <3>1, <3>2, <3>3
  <2> QED BY <2>1, <2>2 DEF TidsNamed
<1>1. ASSUME NEW d \in Dir, StartAll(d) PROVE TidsNamed'
  <2> DEFINE s == <<kind["main"], d>>
  <2>1. s \in Slot /\ cmds' = cmds + 1 /\ cmds' \in Thread /\ canceled' = canceled
    BY <1>1 DEF Placed, StartAll, Slot, Command, Thread
  <2>2. canceled' \subseteq 1..cmds'
    BY <2>1 DEF TidsNamed
  <2>3. ASSUME NEW u \in Slot, tid'[u] \in Thread
        PROVE tid'[u] <= cmds' /\ wslot'[tid'[u]] = u
    <3>1. CASE u = s /\ tid' = [tid EXCEPT ![s] = cmds'] /\ wslot' = [wslot EXCEPT ![cmds'] = s]
      BY <3>1, <2>1
    <3>2. CASE tid'[u] = tid[u] /\ (wslot' = wslot \/ wslot' = [wslot EXCEPT ![cmds'] = s])
      <4>1. tid[u] <= cmds /\ wslot[tid[u]] = u /\ tid[u] # cmds'
        BY <3>2, <2>3, <2>1 DEF TidsNamed, Thread
      <4> QED BY <4>1, <3>2, <2>1, <2>3
    <3>3. CASE tid'[u] \in {0, Bad}
      BY <3>3, <2>3 DEF Thread, Bad
    <3> QED BY <1>1, <3>1, <3>2, <3>3, <2>1 DEF StartAll
  <2> QED BY <2>2, <2>3 DEF TidsNamed
<1>2. ASSUME NEW k \in Kinds, OpenMenu(k) PROVE TidsNamed'
  BY <1>0, <1>2 DEF OpenMenu, Command, workerVars
<1>3. ASSUME Quit \/ QuitAll \/ EnterAll \/ AllStop PROVE TidsNamed'
  BY <1>0, <1>3 DEF Quit, QuitAll, EnterAll, AllStop, Command, workerVars
<1>4. ASSUME NEW a \in Actor, Term(a) PROVE TidsNamed'
  <2>1. CASE TermFree(a) \/ TermTest(a) \/ TermJoin(a)
    BY <1>0, <2>1 DEF TermFree, TermTest, TermJoin, workerVars
  <2>2. CASE TermCancel(a)
    <3>0. Here(a) \in Slot
      BY <2>2 DEF TermCancel, Placed, Here, Slot
    <3>1. cmds' = cmds /\ tid' = tid /\ wslot' = wslot
          /\ canceled' = canceled \cup ({tid[Here(a)]} \cap Thread)
      BY <2>2 DEF TermCancel
    <3>2. tid[Here(a)] \in Thread => tid[Here(a)] \in 1..cmds
      BY <3>0 DEF TidsNamed, Thread
    <3> QED BY <3>0, <3>1, <3>2 DEF TidsNamed
  <2>3. CASE TermWait(a)
    BY <1>0, <2>3 DEF TermWait
  <2> QED BY <1>4, <2>1, <2>2, <2>3 DEF Term
<1>5. ASSUME NEW t \in Thread, Worker(t) PROVE TidsNamed'
  BY <1>0, <1>5 DEF Worker, WorkerStart, WorkerEnd
<1> QED BY <1>1, <1>2, <1>3, <1>4, <1>5 DEF Next, User, MenuLoop

\* The thread of the allstart menu stops the usb test and then the sdcard
\* test, and the threads it joins are theirs.
LEMMA AllElsewhereStep ==
  ASSUME IInv, TidsNamed, AllElsewhere, Next PROVE AllElsewhere'
<1> USE RwTestAssumption DEF IInv, TypeOK, Actor
<1>0. ASSUME cmds' \in Nat, cmds' >= cmds, arg'["all"] = arg["all"],
             \A t \in Thread : t <= cmds => wslot'[t] = wslot[t]
      PROVE  arg'["all"] \in Thread =>
               arg'["all"] <= cmds' /\ wslot'[arg'["all"]][1] # "flash"
  BY <1>0 DEF AllElsewhere, Thread
<1>1. ASSUME NEW d \in Dir, StartAll(d) PROVE AllElsewhere'
  <2>1. cmds' = cmds + 1 /\ UNCHANGED <<pc, kind, arg>>
    BY <1>1 DEF StartAll, Command, actorVars
  <2>2. \A t \in Thread : t <= cmds => wslot'[t] = wslot[t]
    BY <1>1, <2>1 DEF StartAll, Thread
  <2> QED BY <1>0, <2>1, <2>2 DEF AllElsewhere
<1>2. ASSUME NEW k \in Kinds, OpenMenu(k) PROVE AllElsewhere'
  BY <1>0, <1>2 DEF OpenMenu, Command, workerVars, Goto, AllElsewhere
<1>3. ASSUME Quit \/ QuitAll \/ EnterAll \/ AllStop PROVE AllElsewhere'
  BY <1>0, <1>3 DEF Quit, QuitAll, EnterAll, AllStop, Command, workerVars, Goto,
                    AllElsewhere
<1>4. ASSUME NEW a \in Actor, Term(a) PROVE AllElsewhere'
  <2>0. wslot' = wslot /\ cmds' = cmds
    BY <1>4 DEF Term, TermFree, TermTest, TermCancel, TermJoin, TermWait, workerVars
  <2>1. pc'["all"] \in {"free", "test", "cancel", "join", "wait"}
          => kind'["all"] \in {"usb", "sdcard"}
    <3>1. CASE NextSlot(a)
      BY <3>1, <1>4 DEF NextSlot, Goto, AllElsewhere, Term, TermFree, TermTest,
                        TermCancel, TermJoin, TermWait
    <3>2. CASE UNCHANGED kind /\ \E l \in {"test", "cancel", "join", "wait"} : Goto(a, l)
      BY <3>2, <1>4 DEF Goto, AllElsewhere, Term, TermFree, TermTest,
                        TermCancel, TermJoin, TermWait
    <3> QED BY <1>4, <3>1, <3>2 DEF Term, TermFree, TermTest, TermCancel, TermJoin,
                        TermWait
  <2>2. arg'["all"] \in Thread =>
               arg'["all"] <= cmds' /\ wslot'[arg'["all"]][1] # "flash"
    <3>1. CASE TermJoin(a) /\ a = "all"
      <4>1. Here(a) \in Slot /\ Here(a)[1] \in {"usb", "sdcard"}
        BY <3>1 DEF TermJoin, AllElsewhere, Placed, Here, Slot
      <4>2. arg'["all"] = tid[Here(a)]
        BY <3>1 DEF TermJoin
      <4> QED BY <4>1, <4>2, <2>0 DEF TidsNamed
    <3>2. CASE ~(TermJoin(a) /\ a = "all")
      <4>1. arg'["all"] = arg["all"]
        BY <1>4, <3>2 DEF Term, TermFree, TermTest, TermCancel, TermJoin, TermWait
      <4> QED BY <1>0, <4>1, <2>0
    <3> QED BY <3>1, <3>2
  <2> QED BY <2>1, <2>2 DEF AllElsewhere
<1>5. ASSUME NEW t \in Thread, Worker(t) PROVE AllElsewhere'
  BY <1>0, <1>5 DEF Worker, WorkerStart, WorkerEnd, AllElsewhere, actorVars
<1> QED BY <1>1, <1>2, <1>3, <1>4, <1>5 DEF Next, User, MenuLoop

\* mnt_*_init_data allocates the record before the menu opens, and only the
\* quit of that menu frees it.
LEMMA RecordKeptStep ==
  ASSUME IInv, Alone, RecordKept, Next PROVE RecordKept'
<1> USE RwTestAssumption DEF IInv, TypeOK, Actor
<1>1. ASSUME NEW d \in Dir, StartAll(d) PROVE RecordKept'
  BY <1>1 DEF StartAll, actorVars, RecordKept
<1>2. ASSUME NEW k \in Kinds, OpenMenu(k) PROVE RecordKept'
  BY <1>2 DEF OpenMenu, RecordKept, Goto
<1>3. ASSUME Quit \/ QuitAll \/ EnterAll \/ AllStop PROVE RecordKept'
  BY <1>3 DEF Quit, QuitAll, EnterAll, AllStop, Goto, RecordKept
<1>4. ASSUME NEW a \in Actor, Term(a) PROVE RecordKept'
  <2>1. a = "main" /\ pc'["main"] \notin {"menu", "free"}
    BY <1>4 DEF Term, TermFree, TermTest, TermCancel, TermJoin, TermWait, NextSlot,
                Goto, MainOnly
  <2>2. CASE TermFree(a)
    BY <2>1, <2>2 DEF TermFree, RecordKept
  <2>3. CASE ~TermFree(a)
    BY <1>4, <2>1, <2>3 DEF Term, TermTest, TermCancel, TermJoin, TermWait, RecordKept
  <2> QED BY <2>2, <2>3
<1>5. ASSUME NEW t \in Thread, Worker(t) PROVE RecordKept'
  BY <1>5 DEF Worker, WorkerStart, WorkerEnd, actorVars, RecordKept
<1> QED BY <1>1, <1>2, <1>3, <1>4, <1>5 DEF Next, User, MenuLoop

\* The commands of the menus keep the tests of medium k to themselves: a new
\* worker gets a fresh number and a slot whose tid was 0.
LEMMA IsolatedUser ==
  ASSUME IInv, TidsNamed, NEW k \in Kinds, Isolated(k), User PROVE Isolated(k)'
<1> USE RwTestAssumption DEF IInv, TypeOK, Actor
<1>1. ASSUME NEW m \in Kinds, OpenMenu(m) PROVE Isolated(k)'
  <2>0. /\ UNCHANGED <<tid, wpc, wslot, canceled>>
        /\ pc["main"] = "top" /\ pc'["main"] \in {"top", "menu"}
    BY <1>1 DEF OpenMenu, workerVars, Goto
  <2>1. ~Serving(k) /\ ~(Stopping)'
    BY <2>0 DEF Serving, Stopping
  <2>2. \A d \in Dir : tid[<<k, d>>] = 0
    BY <2>1 DEF Isolated, TidsClean
  <2>3. \A t \in Thread : ~(Unjoined(t) /\ wslot[t][1] = k)
    BY <2>1 DEF Isolated, WorkersNamed
  <2>4. WorkersNamed(k)'
    BY <2>0, <2>3 DEF WorkersNamed, Unjoined
  <2>5. TidsClean(k)' /\ JoinsOwn(k)' /\ RunsOn(k)'
    BY <2>0, <2>2 DEF TidsClean, JoinsOwn, RunsOn, Thread
  <2> QED BY <2>4, <2>5 DEF Isolated
<1>2. ASSUME NEW e \in Dir, StartAll(e) PROVE Isolated(k)'
  <2> DEFINE s == <<kind["main"], e>>
  <2>0. /\ UNCHANGED <<pc, kind, dir, arg, brk, canceled>>
        /\ pc["main"] = "menu" /\ cmds' = cmds + 1 /\ cmds' \in Thread /\ s \in Slot
    BY <1>2 DEF StartAll, actorVars, Command, Thread, Placed, Slot
  <2>1. ~Stopping /\ ~(Stopping)' /\ (Serving(k)' <=> Serving(k))
        /\ (Serving(k) <=> kind["main"] = k)
    BY <2>0 DEF Serving, Stopping
  <2>2. \A d \in Dir : <<k, d>> \in Slot
    BY DEF Slot
  <2>3. \A u \in Slot : u # s => tid'[u] = tid[u]
    BY <1>2, <2>0 DEF StartAll
  <2>4. \A t \in Thread : t <= cmds => wpc'[t] = wpc[t] /\ wslot'[t] = wslot[t]
    BY <1>2, <2>0 DEF StartAll, Thread
  <2>5. tid[s] # 0 => tid' = tid
    BY <1>2 DEF StartAll
  <2>6. TidsClean(k)' /\ JoinsOwn(k)'
    <3>1. \A d \in Dir : kind["main"] # k => tid'[<<k, d>>] = 0
      BY <2>1, <2>2, <2>3 DEF Isolated, TidsClean
    <3> QED BY <3>1, <2>0, <2>1 DEF TidsClean, JoinsOwn
  <2>7. tid'[s] \in Thread => tid'[s] = tid[s] \/ (tid'[s] = cmds' /\ wpc'[cmds'] = "start")
    BY <1>2, <2>0 DEF StartAll, Thread, Bad
  <2>8. RunsOn(k)'
    <3> SUFFICES ASSUME NEW d \in Dir, tid'[<<k, d>>] \in Thread
                 PROVE  Live(tid[<<k, d>>])' /\ tid'[<<k, d>>] \notin canceled
      BY <2>0 DEF RunsOn
    <3>1. CASE tid'[<<k, d>>] = tid[<<k, d>>]
      <4>1. tid[<<k, d>>] <= cmds
        BY <3>1, <2>2 DEF TidsNamed
      <4> QED BY <3>1, <4>1, <2>0, <2>4 DEF Isolated, RunsOn, Live
    <3>2. CASE tid'[<<k, d>>] = cmds' /\ wpc'[cmds'] = "start"
      BY <3>2, <2>0 DEF Live, TidsNamed
    <3> QED BY <3>1, <3>2, <2>2, <2>3, <2>7
  <2>9. WorkersNamed(k)'
    <3> SUFFICES ASSUME NEW t \in Thread, Unjoined(t)', wslot'[t][1] = k
                 PROVE  /\ t <= cmds' /\ Serving(k) /\ wslot'[t] \in Slot
                        /\ tid'[wslot'[t]] = t
                        /\ (wpc'[t] = "run" => brk[wslot'[t]] = 0)
      BY <2>0, <2>1 DEF WorkersNamed
    <3>1. CASE t = cmds' /\ wslot'[t] = s /\ tid'[s] = cmds' /\ wpc'[t] = "start"
      BY <3>1, <2>0, <2>1
    <3>2. CASE Unjoined(t) /\ wslot'[t] = wslot[t] /\ wpc'[t] = wpc[t]
      <4>1. /\ t <= cmds /\ Serving(k) /\ wslot[t] \in Slot /\ tid[wslot[t]] = t
            /\ (wpc[t] = "run" => brk[wslot[t]] = 0)
        BY <3>2, <2>0 DEF Isolated, WorkersNamed
      <4>2. t # 0
        BY DEF Thread
      <4>3. tid'[wslot[t]] = t
        BY <4>1, <4>2, <2>3, <2>5
      <4> QED BY <3>2, <4>1, <4>3, <2>0
    <3>3. t = cmds' => ~Unjoined(t) \/ wslot[t][1] # k
      BY <2>0 DEF Isolated, WorkersNamed
    <3> QED BY <1>2, <2>0, <3>1, <3>2, <3>3 DEF StartAll, Unjoined
  <2> QED BY <2>6, <2>8, <2>9 DEF Isolated
<1>3. ASSUME Quit PROVE Isolated(k)'
  <2>0. /\ UNCHANGED <<cmds, kind, tid, brk, wpc, wslot>>
        /\ pc["main"] = "menu" /\ pc'["main"] = "free"
    BY <1>3 DEF Quit, workerVars, Goto
  <2>1. WorkersNamed(k)'
    BY <2>0 DEF Isolated, WorkersNamed, Unjoined, Serving
  <2>2. TidsClean(k)' /\ JoinsOwn(k)' /\ RunsOn(k)'
    BY <2>0 DEF Isolated, TidsClean, JoinsOwn, RunsOn, Serving, Stopping
  <2> QED BY <2>1, <2>2 DEF Isolated
<1>4. ASSUME EnterAll \/ QuitAll PROVE Isolated(k)'
  <2>0. /\ UNCHANGED <<kind, tid, brk, wpc, wslot>>
        /\ pc["main"] \in {"top", "allmenu"} /\ pc'["main"] \in {"top", "allmenu"}
    BY <1>4 DEF EnterAll, QuitAll, workerVars, Goto
  <2>1. ~Serving(k) /\ ~Serving(k)'
    BY <2>0 DEF Serving, Stopping
  <2>2. WorkersNamed(k)'
    BY <2>0, <2>1 DEF Isolated, WorkersNamed, Unjoined
  <2>3. TidsClean(k)' /\ JoinsOwn(k)' /\ RunsOn(k)'
    BY <2>0, <2>1 DEF Isolated, TidsClean, JoinsOwn, RunsOn
  <2> QED BY <2>2, <2>3 DEF Isolated
<1> QED BY <1>1, <1>2, <1>3, <1>4 DEF User, MenuLoop

\* From the writer of medium k to its reader, or back to the top menu: the
\* slot that is left behind has tid 0.
LEMMA IsolatedNext ==
  ASSUME IInv, NEW k \in Kinds, Isolated(k), Stopping, NextSlot("main"),
         UNCHANGED <<cmds, wslot, brk, arg>>,
         \A t \in Thread : Unjoined(t)' => Unjoined(t) /\ wpc'[t] = wpc[t],
         \A t \in Thread : Unjoined(t)' /\ wslot[t][1] = k =>
            tid'[wslot[t]] = tid[wslot[t]],
         kind["main"] = k => tid'[Here("main")] = 0,
         \A d \in Dir : tid'[<<k, d>>] \in {0, tid[<<k, d>>]}
  PROVE  Isolated(k)'
<1> USE RwTestAssumption DEF IInv, TypeOK, Actor
<1>1. dir["main"] = "w" => pc'["main"] = "test" /\ dir'["main"] = "r" /\ kind' = kind
  BY DEF NextSlot, Goto
<1>2. dir["main"] # "w" => dir["main"] = "r" /\ pc'["main"] = "top" /\ kind' = kind
                           /\ dir' = dir
  BY DEF NextSlot, Goto, Dir
<1>3. Serving(k) <=> kind["main"] = k
  BY DEF Serving
<1>4. \A d \in Dir : tid'[<<k, d>>] # 0 => tid[<<k, d>>] # 0
  OBVIOUS
<1>5. dir["main"] # "w" => \A d \in Dir : tid'[<<k, d>>] = 0
  <2> SUFFICES ASSUME dir["main"] # "w", NEW d \in Dir, tid'[<<k, d>>] # 0 PROVE FALSE
    OBVIOUS
  <2>1. dir["main"] = "r"
    BY <1>2
  <2>2. kind["main"] = k /\ d = "r"
    BY <1>3, <1>4, <2>1 DEF Isolated, TidsClean
  <2> QED BY <2>1, <2>2 DEF Here
<1>6. TidsClean(k)'
  <2>1. CASE dir["main"] = "w"
    <3> SUFFICES ASSUME NEW d \in Dir, tid'[<<k, d>>] # 0 PROVE Serving(k)' /\ d = "r"
      BY DEF TidsClean
    <3>1. kind["main"] = k
      BY <1>3, <1>4 DEF Isolated, TidsClean
    <3>2. d # "w"
      BY <3>1, <2>1 DEF Here
    <3> QED BY <3>1, <3>2, <1>1, <2>1 DEF Dir, Serving, Stopping
  <2>2. CASE dir["main"] # "w"
    BY <2>2, <1>5 DEF TidsClean
  <2> QED BY <2>1, <2>2
<1>7. JoinsOwn(k)' /\ RunsOn(k)'
  BY <1>1, <1>2 DEF JoinsOwn, RunsOn
<1>8. WorkersNamed(k)'
  <2> SUFFICES ASSUME NEW t \in Thread, Unjoined(t)', wslot[t][1] = k
               PROVE  t <= cmds /\ Serving(k)' /\ wslot[t] \in Slot /\ tid'[wslot[t]] = t
    BY <1>1, <1>2 DEF WorkersNamed
  <2>1. t <= cmds /\ Serving(k) /\ wslot[t] \in Slot /\ tid'[wslot[t]] = t
    BY DEF Isolated, WorkersNamed
  <2>2. wslot[t] = <<k, wslot[t][2]>> /\ wslot[t][2] \in Dir /\ t # 0
    BY <2>1 DEF Slot, Thread
  <2>3. tid'[<<k, wslot[t][2]>>] # 0
    BY <2>1, <2>2
  <2>4. dir["main"] = "w"
    BY <2>2, <2>3, <1>5
  <2> QED BY <2>1, <2>4, <1>1, <1>3 DEF Serving, Stopping
<1> QED BY <1>6, <1>7, <1>8 DEF Isolated

\* The quit of a menu: main leaves the tests of the other media alone, except
\* that the sdcard quit zeroes the tids of the usb test, which are 0 then.
LEMMA IsolatedMain ==
  ASSUME IInv, NEW k \in Kinds, k # "sdcard", Isolated(k), Term("main")
  PROVE  Isolated(k)'
<1> USE RwTestAssumption DEF IInv, TypeOK, Actor
<1>0. kind["main"] \in Kinds /\ Here("main") \in Slot
  BY DEF Placed, Here, Slot, Term, TermFree, TermTest, TermCancel, TermJoin, TermWait
<1>s. \A d \in Dir : <<k, d>> \in Slot
  BY DEF Slot
<1>1. CASE TermFree("main") \/ (TermTest("main") /\ tid[Here("main")] # 0)
           \/ TermCancel("main") \/ TermJoin("main")
  <2>0. /\ UNCHANGED <<cmds, kind, tid, wpc, wslot>>
        /\ pc["main"] \in {"free", "test", "cancel", "join"}
        /\ pc'["main"] \in {"test", "cancel", "join", "wait"}
        /\ pc["main"] # "free" => dir' = dir
        /\ pc["main"] = "free" => dir'["main"] = "w"
    BY <1>1 DEF TermFree, TermTest, TermCancel, TermJoin, Goto, workerVars
  <2>1. Serving(k) <=> kind["main"] = k
    BY <2>0 DEF Serving, Stopping
  <2>2. Serving(k)' <=> kind["main"] = k
    BY <2>0 DEF Serving, Stopping
  <2>3. WorkersNamed(k)'
    BY <2>0, <2>1, <2>2 DEF Isolated, WorkersNamed, Unjoined
  <2>4. TidsClean(k)'
    BY <2>0, <2>1, <2>2 DEF Isolated, TidsClean, Stopping
  <2>5. JoinsOwn(k)'
    BY <1>1, <2>0 DEF JoinsOwn, Here, TermFree, TermTest, TermCancel, TermJoin, Goto
  <2>6. RunsOn(k)'
    BY <2>0 DEF RunsOn
  <2> QED BY <2>3, <2>4, <2>5, <2>6 DEF Isolated
<1>2. CASE TermTest("main") /\ tid[Here("main")] = 0
  <2>1. Stopping /\ NextSlot("main") /\ UNCHANGED <<cmds, wslot, brk, arg, tid, wpc>>
    BY <1>2 DEF TermTest, Stopping, workerVars
  <2>2. \A t \in Thread : Unjoined(t)' => Unjoined(t)
    BY <2>1 DEF Unjoined
  <2> QED BY <1>2, <2>1, <2>2, IsolatedNext
<1>3. CASE TermWait("main")
  <2>1. Stopping /\ NextSlot("main") /\ UNCHANGED <<cmds, wslot, brk, arg>>
    BY <1>3 DEF TermWait, Stopping
  <2>2. \A t \in Thread : Unjoined(t)' =>
           Unjoined(t) /\ wpc'[t] = wpc[t] /\ t # arg["main"]
    <3> SUFFICES ASSUME NEW t \in Thread, Unjoined(t)'
                 PROVE Unjoined(t) /\ wpc'[t] = wpc[t] /\ t # arg["main"]
      OBVIOUS
    <3>1. CASE Stale(arg["main"])
      BY <1>3, <3>1 DEF TermWait, Unjoined, Stale
    <3>2. CASE ~Stale(arg["main"])
      BY <1>3, <3>2 DEF TermWait, Unjoined, Stale
    <3> QED BY <3>1, <3>2
  <2>3. \A u \in Slot : tid'[u] = IF u = ResetSlot(Here("main")) THEN 0 ELSE tid[u]
    BY <1>3 DEF TermWait
  <2>4. kind["main"] = k => arg["main"] = tid[Here("main")]
    BY <1>3 DEF TermWait, Isolated, JoinsOwn, Serving, Stopping
  <2>5. kind["main"] = k => tid'[Here("main")] = 0
    <3>1. kind["main"] = k => ResetSlot(Here("main")) = Here("main")
      BY DEF ResetSlot, Here
    <3> QED BY <1>0, <2>3, <3>1
  <2>6. ASSUME NEW t \in Thread, Unjoined(t)', wslot[t][1] = k
        PROVE  tid'[wslot[t]] = tid[wslot[t]]
    <3>1. Serving(k) /\ wslot[t] \in Slot /\ tid[wslot[t]] = t
      BY <2>2, <2>6 DEF Isolated, WorkersNamed
    <3>2. kind["main"] = k /\ wslot[t] # Here("main")
      BY <3>1, <2>2, <2>4, <2>6 DEF Serving
    <3>3. wslot[t] # ResetSlot(Here("main"))
      BY <3>2 DEF ResetSlot, Here
    <3> QED BY <3>1, <3>3, <2>3
  <2>7. \A d \in Dir : tid'[<<k, d>>] \in {0, tid[<<k, d>>]}
    BY <2>3, <1>s
  <2> QED BY <2>1, <2>2, <2>5, <2>6, <2>7, IsolatedNext
<1> QED BY <1>1, <1>2, <1>3 DEF Term

\* The thread of the allstart menu cannot reach the tests of medium k: the
\* slots it cancels, joins and zeroes are those of usb and sdcard.
LEMMA IsolatedAll ==
  ASSUME IInv, TidsNamed, AllElsewhere, NEW k \in Kinds, k = "flash" \/ pc["all"] = "none",
         Isolated(k), Term("all") \/ AllStop
  PROVE  Isolated(k)'
<1> USE RwTestAssumption DEF IInv, TypeOK, Actor
<1>1. /\ UNCHANGED <<cmds, wslot>>
      /\ pc'["main"] = pc["main"] /\ kind'["main"] = kind["main"]
      /\ dir'["main"] = dir["main"] /\ arg'["main"] = arg["main"]
  BY DEF Term, TermFree, TermTest, TermCancel, TermJoin, TermWait, AllStop, NextSlot,
         Goto, workerVars
<1>2. k = "flash" /\ (~AllStop => kind["all"] \in {"usb", "sdcard"} /\ Here("all") \in Slot)
  BY DEF Term, TermFree, TermTest, TermCancel, TermJoin, TermWait, AllStop, AllElsewhere,
         Placed, Here, Slot
<1>3. \A u \in Slot : u[1] = k => tid'[u] = tid[u] /\ brk'[u] = brk[u]
  <2>1. CASE TermWait("all")
    <3>1. ResetSlot(Here("all"))[1] # k
      BY <1>2, <2>1 DEF ResetSlot, Here, TermWait, AllStop
    <3> QED BY <2>1, <3>1 DEF TermWait
  <2>2. CASE TermFree("all")
    <3>1. kind["all"] # k
      BY <1>2, <2>2 DEF TermFree, AllStop
    <3> QED BY <2>2, <3>1 DEF TermFree
  <2>3. CASE ~TermWait("all") /\ ~TermFree("all")
    BY <2>3 DEF Term, TermTest, TermCancel, TermJoin, AllStop
  <2> QED BY <2>1, <2>2, <2>3
<1>4. \A t \in Thread : wslot[t][1] = k =>
         wpc'[t] = wpc[t] /\ (t \notin canceled => t \notin canceled')
  <2>1. CASE TermCancel("all")
    <3>1. tid[Here("all")] \in Thread => wslot[tid[Here("all")]][1] # k
      BY <1>2, <2>1 DEF TidsNamed, Here, TermCancel, AllStop
    <3> QED BY <2>1, <3>1 DEF TermCancel
  <2>2. CASE TermWait("all")
    <3>1. arg["all"] \in Thread => wslot[arg["all"]][1] # k
      BY <1>2 DEF AllElsewhere
    <3> QED BY <2>2, <3>1 DEF TermWait, Stale
  <2>3. CASE ~TermCancel("all") /\ ~TermWait("all")
    BY <2>3 DEF Term, TermFree, TermTest, TermJoin, AllStop, workerVars
  <2> QED BY <2>1, <2>2, <2>3
<1>5. (Serving(k)' <=> Serving(k)) /\ (Stopping' <=> Stopping)
  BY <1>1 DEF Serving, Stopping
<1>6. \A d \in Dir : <<k, d>> \in Slot /\ <<k, d>>[1] = k
  BY DEF Slot
<1>7. WorkersNamed(k)'
  BY <1>1, <1>3, <1>4, <1>5 DEF Isolated, WorkersNamed, Unjoined
<1>8. TidsClean(k)'
  BY <1>1, <1>3, <1>5, <1>6 DEF Isolated, TidsClean
<1>9. JoinsOwn(k)'
  <2> SUFFICES ASSUME Serving(k), pc["main"] = "wait"
               PROVE  arg'["main"] = tid'[Here("main")']
    BY <1>1, <1>5 DEF JoinsOwn
  <2>1. Here("main")' = Here("main") /\ Here("main") = <<k, dir["main"]>>
    BY <1>1 DEF Here, Serving
  <2> QED BY <2>1, <1>1, <1>3, <1>6 DEF Isolated, JoinsOwn
<1>10. RunsOn(k)'
  <2> SUFFICES ASSUME pc["main"] = "menu", NEW d \in Dir, tid[<<k, d>>] \in Thread
               PROVE  Live(tid[<<k, d>>])' /\ tid[<<k, d>>] \notin canceled'
    BY <1>1, <1>3, <1>6 DEF RunsOn
  <2>1. wslot[tid[<<k, d>>]][1] = k
    BY <1>6 DEF TidsNamed
  <2>2. Live(tid[<<k, d>>]) /\ tid[<<k, d>>] \notin canceled
    BY DEF Isolated, RunsOn
  <2>3. tid'[<<k, d>>] = tid[<<k, d>>]
    BY <1>3, <1>6
  <2> QED BY <1>4, <2>1, <2>2, <2>3 DEF Live
<1> QED BY <1>7, <1>8, <1>9, <1>10 DEF Isolated

\* The workers: in the menu none of medium k is told to end.
LEMMA IsolatedWorker ==
  ASSUME IInv, TidsNamed, NEW k \in Kinds, Isolated(k), NEW t \in Thread, Worker(t)
  PROVE  Isolated(k)'
<1> USE RwTestAssumption DEF IInv, TypeOK, Actor
<1>1. UNCHANGED <<cmds, pc, kind, dir, arg, tid, wslot, canceled>>
  BY DEF Worker, WorkerStart, WorkerEnd, actorVars
<1>2. (Serving(k)' <=> Serving(k)) /\ (Stopping' <=> Stopping)
  BY <1>1 DEF Serving, Stopping
<1>3. TidsClean(k)' /\ JoinsOwn(k)'
  BY <1>1, <1>2 DEF Isolated, TidsClean, JoinsOwn, Here
<1>4. \A u \in Thread : (Unjoined(u)' <=> Unjoined(u)) /\ (u # t => wpc'[u] = wpc[u])
  BY DEF Worker, WorkerStart, WorkerEnd, Unjoined
<1>5. WorkersNamed(k)'
  <2> SUFFICES ASSUME NEW u \in Thread, Unjoined(u), wslot[u][1] = k, pc["main"] = "menu",
                      wpc'[u] = "run"
               PROVE  brk'[wslot[u]] = 0
    BY <1>1, <1>2, <1>4 DEF Isolated, WorkersNamed
  <2>1. wslot[u] \in Slot /\ (wpc[u] = "run" => brk[wslot[u]] = 0)
    BY DEF Isolated, WorkersNamed
  <2>2. CASE u = t /\ WorkerStart(t)
    BY <2>1, <2>2 DEF WorkerStart
  <2>3. CASE u # t \/ WorkerEnd(t)
    <3>1. wpc[u] = "run"
      BY <2>3, <1>4 DEF WorkerEnd
    <3> QED BY <2>1, <3>1 DEF Worker, WorkerStart, WorkerEnd
  <2> QED BY <2>2, <2>3 DEF Worker
<1>6. RunsOn(k)'
  <2> SUFFICES ASSUME pc["main"] = "menu", NEW d \in Dir, tid[<<k, d>>] \in Thread
               PROVE  Live(tid[<<k, d>>])'
    BY <1>1 DEF Isolated, RunsOn
  <2> DEFINE u == tid[<<k, d>>]
  <2>0. <<k, d>> \in Slot
    BY DEF Slot
  <2>1. Live(u) /\ u \notin canceled /\ wslot[u] = <<k, d>> /\ wslot[u][1] = k
    BY <2>0 DEF Isolated, RunsOn, TidsNamed
  <2>2. wpc[u] = "run" => brk[wslot[u]] = 0
    BY <2>1 DEF Isolated, WorkersNamed, Unjoined
  <2>3. ~(u = t /\ WorkerEnd(t))
    BY <2>1, <2>2 DEF WorkerEnd
  <2>4. wpc'[u] \in {"start", "run"}
    BY <2>1, <2>3 DEF Worker, WorkerStart, WorkerEnd, Live
  <2> QED BY <2>4, <1>1 DEF Live
<1> QED BY <1>3, <1>5, <1>6 DEF Isolated

\* The invariant of the media.
THEOREM MediaInvariance == Spec => []MediaInv
<1>1. Init => MediaInv
  <2> SUFFICES ASSUME Init PROVE MediaInv
    OBVIOUS
  <2> USE RwTestAssumption
  <2>1. IInv
    BY InitIInv
  <2>2. TidsNamed /\ AllElsewhere /\ RecordKept
    BY DEF Init, TidsNamed, AllElsewhere, RecordKept, Thread, Actor
  <2>3. ASSUME NEW k \in Kinds PROVE Isolated(k)
    BY DEF Init, Isolated, WorkersNamed, TidsClean, JoinsOwn, RunsOn, Serving, Stopping,
           Unjoined, Actor, Slot
  <2> QED BY <2>1, <2>2, <2>3 DEF MediaInv
<1>2. MediaInv /\ [Next]_vars => MediaInv'
  <2> SUFFICES ASSUME MediaInv, [Next]_vars PROVE MediaInv'
    OBVIOUS
  <2>1. CASE Next
    <3>0. IInv /\ TidsNamed /\ AllElsewhere
      BY DEF MediaInv
    <3>1. IInv'
      BY <2>1, <3>0, IInvStep
    <3>2. TidsNamed' /\ AllElsewhere'
      BY <2>1, <3>0, TidsNamedStep, AllElsewhereStep
    <3>3. Alone' => Alone
      <4>1. CASE EnterAll
        BY <4>1 DEF EnterAll, Alone
      <4>2. CASE ~EnterAll
        <5>1. all_tid' = all_tid
          BY <2>1, <4>2 DEF Next, User, MenuLoop, OpenMenu, StartAll, Quit, QuitAll, AllStop,
               Term, TermFree, TermTest, TermCancel, TermJoin, TermWait, Worker,
               WorkerStart, WorkerEnd, allVars
        <5> QED BY <5>1 DEF Alone
      <4> QED BY <4>1, <4>2
    <3>4. Alone' => RecordKept'
      BY <2>1, <3>0, <3>3, RecordKeptStep DEF MediaInv
    <3>5. ASSUME NEW k \in Kinds, k = "flash" \/ (k = "usb" /\ Alone') PROVE Isolated(k)'
      <4>1. Isolated(k) /\ k # "sdcard"
        BY <3>3, <3>5 DEF MediaInv
      <4>2. k = "flash" \/ pc["all"] = "none"
        BY <3>0, <3>3, <3>5 DEF IInv, MainOnly
      <4>3. CASE User
        BY <4>3, <4>1, <3>0, IsolatedUser
      <4>4. CASE Term("main")
        BY <4>4, <4>1, <3>0, IsolatedMain
      <4>5. CASE Term("all") \/ AllStop
        BY <4>5, <4>1, <4>2, <3>0, IsolatedAll
      <4>6. CASE \E t \in Thread : Worker(t)
        BY <4>6, <4>1, <3>0, IsolatedWorker
      <4> QED BY <2>1, <4>3, <4>4, <4>5, <4>6 DEF Next, Actor
    <3> QED BY <3>1, <3>2, <3>4, <3>5 DEF MediaInv
  <2>2. CASE UNCHANGED vars
    BY <2>2 DEF vars, actorVars, workerVars, allVars, MediaInv, IInv, TypeOK, Placed,
         Alone, MainOnly, WorkersOwned, Unjoined, Stopping, Here, TidsNamed,
         AllElsewhere, RecordKept, Isolated, WorkersNamed, TidsClean,
         JoinsOwn, RunsOn, Serving, Live
  <2> QED BY <2>1, <2>2
<1> QED BY <1>1, <1>2, PTL DEF Spec

\* The commands of a menu and its quit find the partition record allocated,
\* and mnt_*_term_data never frees a record twice, until allstart is entered.
THEOREM RecordsLive == Spec => []RecordLive
<1>1. MediaInv => RecordLive
  <2> SUFFICES ASSUME MediaInv, Alone PROVE RecordLive
    BY DEF RecordLive
  <2>1. TypeOK /\ MainOnly /\ Placed /\ RecordKept
    BY DEF MediaInv, IInv
  <2>2. ASSUME NEW a \in Actor, pc[a] = "free" PROVE data[kind[a]] # "freed"
    <3>1. a = "main"
      BY <2>1, <2>2 DEF MainOnly, Actor
    <3>2. kind[a] \in Kinds
      BY <2>1, <2>2 DEF Placed
    <3> QED BY <2>1, <2>2, <3>1, <3>2 DEF RecordKept
  <2> QED BY <2>1, <2>2 DEF RecordLive, RecordKept
<1> QED BY <1>1, MediaInvariance, PTL

\* In every visit of the usb and flash menus a test that was asked for runs:
\* the last visit left no tid that would block its start, and nothing ends it.
THEOREM AskedTestsRun == Spec => []AskedRuns
<1>1. MediaInv => AskedRuns
  <2> SUFFICES ASSUME MediaInv, NEW k \in {"usb", "flash"}, Alone, pc["main"] = "menu",
                      NEW s \in asked, s[1] = k, tid[s] \in Thread
               PROVE  \E t \in Thread : Live(t) /\ wslot[t] = s
    BY DEF AskedRuns, Asked
  <2>1. s \in Slot /\ TidsNamed
    BY DEF MediaInv, IInv, TypeOK
  <2>2. k \in Kinds /\ s = <<k, s[2]>> /\ s[2] \in Dir
    BY <2>1 DEF Slot
  <2>3. Isolated(k)
    BY <2>2 DEF MediaInv
  <2>4. Live(tid[s])
    BY <2>2, <2>3 DEF Isolated, RunsOn
  <2>5. wslot[tid[s]] = s
    BY <2>1 DEF TidsNamed
  <2> QED BY <2>4, <2>5
<1> QED BY <1>1, MediaInvariance, PTL

\* Neither the thread of the allstart menu nor the wrong variables zeroed by
\* mnt_sdcard_term_data reach the flash test, whatever the schedule.
THEOREM FlashAlone == Spec => []FlashIsolated
<1>1. MediaInv => FlashIsolated
  <2> SUFFICES ASSUME MediaInv, pc["main"] = "menu", kind["main"] = "flash"
               PROVE  FlashIsolated
    BY DEF FlashIsolated
  <2>1. TypeOK /\ Placed /\ TidsNamed
    BY DEF MediaInv, IInv
  <2>2. "flash" \in Kinds /\ Isolated("flash")
    BY <2>1 DEF MediaInv, Placed, Actor
  <2>3. \A d \in Dir : <<"flash", d>> \in Slot
    BY <2>2 DEF Slot
  <2>4. ASSUME NEW d \in Dir, tid[<<"flash", d>>] \in Thread
        PROVE  LET t == tid[<<"flash", d>>]
               IN  Live(t) /\ t \notin canceled /\ wslot[t] = <<"flash", d>>
    BY <2>1, <2>2, <2>3, <2>4 DEF Isolated, RunsOn, TidsNamed
  <2>5. ASSUME NEW t \in Thread, Live(t), wslot[t][1] = "flash" PROVE tid[wslot[t]] = t
    BY <2>2, <2>5 DEF Isolated, WorkersNamed, Live, Unjoined
  <2> QED BY <2>4, <2>5 DEF FlashIsolated
<1> QED BY <1>1, MediaInvariance, PTL
=============================================================================
