------------------------------- MODULE UsbMng -------------------------------
(***************************************************************************)
(* Partition management: the threads of C/xunlei_test/xl_usb_mng.c.        *)
(*                                                                         *)
(* mnt_usb_probe_partition_thread receives the detector's messages.  An    *)
(* ADD starts a query thread for the disk id; a RM cancels it (without a   *)
(* join) and deletes the id's partitions.  A query thread wakes up every   *)
(* few seconds, looks at the part of /proc/mounts that concerns its disk   *)
(* and, when the size of that text differs from the one seen last, enters  *)
(* the disk's partitions in the partition list.  The size seen last is a   *)
(* static variable, shared by the query threads of all disks.              *)
(*                                                                         *)
(* The detector is represented by what it promises (DiskQueue): Plug and   *)
(* Unplug insert or delete the node that mnt_usb_get_disk_name looks up,   *)
(* and send the message, in one step.  The list is a set of records; the   *)
(* pointers that make it up are the subject of PartList.                   *)
(***************************************************************************)
EXTENDS DiskQueue, Integers, FiniteSets

CONSTANTS NParts,      \* partitions of a disk
          MaxPlugs,    \* bound: ADD messages, and so query threads
          MaxMounts,   \* bound: mounts and unmounts in a behaviour
          Timeout,     \* polls until a disk counts as timed out (90 in the code)
          Faults       \* the library calls that may fail

ASSUME UsbMngAssumption ==
  /\ DiskId \subseteq Nat \ {0}
  /\ AnyTime = {}
  /\ NParts \in Nat \ {0}
  /\ MaxPlugs \in Nat
  /\ MaxMounts \in Nat
  /\ Timeout \in Nat \ {0}
  /\ Faults \subseteq {"malloc", "pthread_create"}

Part   == 1..NParts
Thread == 1..MaxPlugs
Stat   == {"NONE", "PLUG_IN", "QUERY", "REST", "PLUG_OUT", "TIMEOUT"}

\* A partition list entry; nUSBDiskId 0 is a record that was never filled in.
Entry  == [nUSBDiskId : DiskId \cup {0}, nPatitionId : Part, bMounted : BOOLEAN]

VARIABLES
  dev,          \* the ids whose disk is still there
  mounts,       \* the mounted partitions of each id's disk: /proc/mounts
  changes,      \* mounts and unmounts so far
  nRunState, detect_stat, tid,   \* s_UsbThread[id]; tid 0: no thread yet
  nthreads,     \* query threads created so far
  nPresize, nNowsize,            \* statics of mnt_usb_create_mount_log
  parts,        \* the partition list s_psPartHead
  pc, disk, canceled, flag, ticks, log   \* per query thread, and its locals

envVars  == <<dev, mounts, changes>>
slotVars == <<nRunState, tid, nthreads>>
sizeVars == <<nPresize, nNowsize>>
vars == <<msgq, announced, envVars, slotVars, detect_stat, sizeVars, parts,
          pc, disk, canceled, flag, ticks, log>>

(***************************************************************************)
(* pc: "none" (not created), "start" (at thread entry), "loop" (testing    *)
(* nRunState), "sleep", "log" (in the system() that writes the mount log), *)
(* "size" (about to stat it), "cmp" (comparing sizes), "count" (counting   *)
(* partitions), "collect" (reading about them), "done".                    *)
(***************************************************************************)
PC == {"none", "start", "loop", "sleep", "log", "size", "cmp", "count",
       "collect", "done"}

Live(t) == pc[t] \notin {"none", "done"}

Init ==
  /\ QueueInit
  /\ dev = {} /\ changes = 0
  /\ mounts = [i \in DiskId |-> {}]
  /\ nRunState = [i \in DiskId |-> 0]
  /\ detect_stat = [i \in DiskId |-> "NONE"]
  /\ tid = [i \in DiskId |-> 0]
  /\ nthreads = 0
  /\ nPresize = 0 /\ nNowsize = 0
  /\ parts = {}
  /\ pc = [t \in Thread |-> "none"]
  /\ disk = [t \in Thread |-> 0]
  /\ canceled = {}
  /\ flag = [t \in Thread |-> 0]
  /\ ticks = [t \in Thread |-> 0]
  /\ log = [t \in Thread |-> {}]

-----------------------------------------------------------------------------
(* The detector and the kernel (external). *)

threadVars == <<pc, disk, canceled, flag, ticks, log>>

Plug(i) ==
  /\ Announce(i)
  /\ dev' = dev \cup {i}
  /\ nthreads + Len(SelectSeq(msgq, LAMBDA m : m.eAction = "add")) < MaxPlugs
  /\ UNCHANGED <<mounts, changes, slotVars, detect_stat, sizeVars, parts,
                 threadVars>>

\* The disk's device nodes go away; its mounts may stay for a while.
Pull(i) ==
  /\ i \in dev
  /\ dev' = dev \ {i}
  /\ UNCHANGED <<msgq, announced, mounts, changes, slotVars, detect_stat,
                 sizeVars, parts, threadVars>>

\* Also of an id that was inserted but whose ADD was never sent.
Unplug(i) ==
  /\ i \notin dev
  /\ Retract(i)
  /\ UNCHANGED <<envVars, slotVars, detect_stat, sizeVars, parts, threadVars>>

Mount(i, p) ==
  /\ changes < MaxMounts
  /\ \/ /\ i \in dev /\ p \notin mounts[i]
        /\ mounts' = [mounts EXCEPT ![i] = @ \cup {p}]
     \/ /\ p \in mounts[i]
        /\ mounts' = [mounts EXCEPT ![i] = @ \ {p}]
  /\ changes' = changes + 1
  /\ UNCHANGED <<msgq, announced, dev, slotVars, detect_stat, sizeVars, parts,
                 threadVars>>

-----------------------------------------------------------------------------
(* mnt_usb_probe_partition_thread. *)

\* The bound on nthreads never holds an ADD back: see Plug.
RcvAdd ==
  /\ Deliver
  /\ nthreads < MaxPlugs
  /\ Head(msgq).eAction = "add"
  /\ LET i == Head(msgq).nDiskId  t == nthreads + 1 IN
     /\ nRunState' = [nRunState EXCEPT ![i] = 1]
     /\ detect_stat' = [detect_stat EXCEPT ![i] = "PLUG_IN"]
     /\ nthreads' = t
     /\ \/ /\ tid' = [tid EXCEPT ![i] = t]
           /\ pc' = [pc EXCEPT ![t] = "start"]
           /\ disk' = [disk EXCEPT ![t] = i]
        \/ /\ "pthread_create" \in Faults
           /\ UNCHANGED <<tid, pc, disk>>
  /\ UNCHANGED <<envVars, sizeVars, parts, canceled, flag, ticks, log>>

\* Mutant of RcvRm: the query thread is only told to stop.
RcvRm_NoCancel ==
  /\ Deliver
  /\ Head(msgq).eAction = "remove"
  /\ LET i == Head(msgq).nDiskId IN
     /\ nRunState' = [nRunState EXCEPT ![i] = 0]
     /\ detect_stat' = [detect_stat EXCEPT ![i] = "PLUG_OUT"]
     /\ parts' = {e \in parts : e.nUSBDiskId # i}
  /\ UNCHANGED <<envVars, tid, nthreads, sizeVars, threadVars>>

\* Mutant of RcvRm: nRunState is left as it is.
RcvRm_KeepRunning ==
  /\ Deliver
  /\ Head(msgq).eAction = "remove"
  /\ LET i == Head(msgq).nDiskId IN
     /\ canceled' = canceled \cup ({tid[i]} \cap Thread)
     /\ detect_stat' = [detect_stat EXCEPT ![i] = "PLUG_OUT"]
     /\ parts' = {e \in parts : e.nUSBDiskId # i}
  /\ UNCHANGED <<envVars, slotVars, sizeVars, pc, disk, flag, ticks, log>>

\* The thread is canceled, not joined; tid keeps its value.
RcvRm ==
  /\ Deliver
  /\ Head(msgq).eAction = "remove"
  /\ LET i == Head(msgq).nDiskId IN
     /\ canceled' = canceled \cup ({tid[i]} \cap Thread)
     /\ nRunState' = [nRunState EXCEPT ![i] = 0]
     /\ detect_stat' = [detect_stat EXCEPT ![i] = "PLUG_OUT"]
     /\ parts' = {e \in parts : e.nUSBDiskId # i}
  /\ UNCHANGED <<envVars, tid, nthreads, sizeVars, pc, disk, flag, ticks, log>>

-----------------------------------------------------------------------------
(* mnt_usb_query_mount_log_thread. *)

Goto(t, l) == pc' = [pc EXCEPT ![t] = l]

QueryStart(t) ==
  /\ pc[t] = "start"
  /\ detect_stat' = [detect_stat EXCEPT ![disk[t]] = "PLUG_IN"]
  /\ Goto(t, "loop")
  /\ UNCHANGED <<msgq, announced, envVars, slotVars, sizeVars, parts, disk,
                 canceled, flag, ticks, log>>

QueryLoop(t) ==
  /\ pc[t] = "loop"
  /\ Goto(t, IF nRunState[disk[t]] = 0 THEN "done" ELSE "sleep")
  /\ UNCHANGED <<msgq, announced, envVars, slotVars, detect_stat, sizeVars,
                 parts, disk, canceled, flag, ticks, log>>

\* The tail of the loop after mnt_usb_detect_partition.  The poll period is
\* one second until the first success, so only these polls are counted.
Result(t, ok) ==
  /\ flag' = [flag EXCEPT ![t] = IF ok THEN 1 ELSE @]
  /\ ticks' = [ticks EXCEPT ![t] = IF flag'[t] = 0 /\ @ < Timeout THEN @ + 1 ELSE @]
  /\ detect_stat' = [detect_stat EXCEPT ![disk[t]] =
                       IF flag[t] = 1 THEN @
                       ELSE IF ok THEN "REST"
                       ELSE IF ticks'[t] >= Timeout THEN "TIMEOUT" ELSE "QUERY"]
  /\ Goto(t, "loop")

\* usleep, system and the label commands are cancellation points.
QueryCanceled(t) ==
  /\ t \in canceled
  /\ pc[t] \in {"sleep", "log", "collect"}
  /\ Goto(t, "done")
  /\ UNCHANGED <<msgq, announced, envVars, slotVars, detect_stat, sizeVars,
                 parts, disk, canceled, flag, ticks, log>>

Wake(t) == pc[t] = "sleep" /\ t \notin canceled

\* usleep returns, but no node of the device list carries the id.
QueryNoDisk(t) ==
  /\ Wake(t)
  /\ disk[t] \notin announced
  /\ Result(t, FALSE)
  /\ UNCHANGED <<msgq, announced, envVars, slotVars, sizeVars, parts, disk,
                 canceled, log>>

\* Mutant of QueryReset: the sizes are never forgotten.
QueryReset_Never(t) ==
  /\ Wake(t)
  /\ disk[t] \in announced
  /\ Goto(t, "log")
  /\ UNCHANGED <<msgq, announced, envVars, slotVars, detect_stat, sizeVars,
                 parts, disk, canceled, flag, ticks, log>>

\* The head of mnt_usb_create_mount_log: a disk that was just plugged in
\* makes every query thread forget the size seen last.
QueryReset(t) ==
  /\ Wake(t)
  /\ disk[t] \in announced
  /\ \/ /\ detect_stat[disk[t]] = "PLUG_IN"
        /\ detect_stat' = [detect_stat EXCEPT ![disk[t]] = "NONE"]
        /\ nPresize' = 0 /\ nNowsize' = 0
     \/ /\ detect_stat[disk[t]] # "PLUG_IN"
        /\ UNCHANGED <<detect_stat, sizeVars>>
  /\ Goto(t, "log")
  /\ UNCHANGED <<msgq, announced, envVars, slotVars, parts, disk, canceled,
                 flag, ticks, log>>

\* system("cat /proc/mounts | grep ... > log").
QueryLog(t) ==
  /\ pc[t] = "log" /\ t \notin canceled
  /\ log' = [log EXCEPT ![t] = mounts[disk[t]]]
  /\ Goto(t, "size")
  /\ UNCHANGED <<msgq, announced, envVars, slotVars, detect_stat, sizeVars,
                 parts, disk, canceled, flag, ticks>>

\* Every line of the log has the same length: its size is its line count.
QuerySize(t) ==
  /\ pc[t] = "size"
  /\ nNowsize' = Cardinality(log[t])
  /\ Goto(t, "cmp")
  /\ UNCHANGED <<msgq, announced, envVars, slotVars, detect_stat, nPresize,
                 parts, disk, canceled, flag, ticks, log>>

\* The comparison reads both statics again.
QueryCmp(t) ==
  /\ pc[t] = "cmp"
  /\ nPresize' = IF nNowsize > 0 THEN nNowsize ELSE nPresize
  /\ \/ /\ nNowsize > 0 /\ nPresize # nNowsize
        /\ Goto(t, "count")
        /\ UNCHANGED <<detect_stat, flag, ticks>>
     \/ /\ nNowsize = 0 \/ nPresize = nNowsize
        /\ Result(t, FALSE)
  /\ UNCHANGED <<msgq, announced, envVars, slotVars, nNowsize, parts, disk,
                 canceled, log>>

\* mnt_usb_get_partition_cnt and the malloc of the result.
QueryCount(t) ==
  /\ pc[t] = "count"
  /\ \/ /\ disk[t] \in dev
        /\ Goto(t, "collect")
        /\ UNCHANGED <<detect_stat, flag, ticks>>
     \/ /\ disk[t] \notin dev \/ "malloc" \in Faults
        /\ Result(t, FALSE)
  /\ UNCHANGED <<msgq, announced, envVars, slotVars, sizeVars, parts, disk,
                 canceled, log>>

\* mnt_usb_get_mount_path finds a line of the log that starts with the name.
Mounted(t, p) == p \in log[t]

\* Mutant of Filled: partitions are numbered one too high.
Filled_OffByOne(t, p) == [nUSBDiskId |-> disk[t], nPatitionId |-> p + 1,
                          bMounted |-> Mounted(t, p)]

Filled(t, p) == [nUSBDiskId |-> disk[t], nPatitionId |-> p,
                 bMounted |-> Mounted(t, p)]

\* What the do loop of mnt_usb_detect_partition leaves in the array: all
\* partitions or, when the device nodes vanish meanwhile, the first k of
\* them.  The memset clears a few bytes only: the first record (its disk id
\* is 0), not the others, which hold what the heap held.
Collected(t) ==
  {[p \in Part |-> Filled(t, p)]}
    \cup (IF disk[t] \in dev THEN {}
          ELSE {a \in [Part -> Entry] :
                  \E k \in 0..(NParts - 1) :
                    /\ \A p \in 1..k : a[p] = Filled(t, p)
                    /\ k = 0 => a[1].nUSBDiskId = 0})

SameKey(e, f) == e.nUSBDiskId = f.nUSBDiskId /\ e.nPatitionId = f.nPatitionId

\* mnt_usb_insert_partition_list: a record replaces the one with its key,
\* except that an empty list takes all of them as they come.
Insert(list, a) ==
  {e \in list : \A p \in Part : ~SameKey(e, a[p])}
    \cup {a[p] : p \in {q \in Part : \/ list = {}
                                     \/ \A r \in Part : r > q => ~SameKey(a[q], a[r])}}

QueryInsert(t) ==
  /\ pc[t] = "collect"
  /\ \E a \in Collected(t) : parts' = Insert(parts, a)
  /\ Result(t, TRUE)
  /\ UNCHANGED <<msgq, announced, envVars, slotVars, sizeVars, disk, canceled,
                 log>>

\* A malloc fails while an empty list is filled: k records are in already.
\* (In a list that is not empty the code writes through NULL and dies.)
QueryNoMemory(t) ==
  /\ pc[t] = "collect"
  /\ "malloc" \in Faults /\ parts = {}
  /\ \E k \in 0..(NParts - 1), a \in Collected(t) :
       parts' = {a[p] : p \in 1..k}
  /\ Result(t, FALSE)
  /\ UNCHANGED <<msgq, announced, envVars, slotVars, sizeVars, disk, canceled,
                 log>>

Query(t) == \/ QueryStart(t) \/ QueryLoop(t) \/ QueryCanceled(t)
            \/ QueryNoDisk(t) \/ QueryReset(t) \/ QueryLog(t) \/ QuerySize(t)
            \/ QueryCmp(t) \/ QueryCount(t) \/ QueryInsert(t)
            \/ QueryNoMemory(t)

-----------------------------------------------------------------------------
Environment == \E i \in DiskId : \/ Plug(i) \/ Pull(i) \/ Unplug(i)
                                 \/ \E p \in Part : Mount(i, p)

Next == Environment \/ RcvAdd \/ RcvRm \/ \E t \in Thread : Query(t)

\* The scheduler runs the receiver and every query thread.
Fairness == /\ WF_vars(RcvAdd \/ RcvRm)
            /\ \A t \in Thread : WF_vars(Query(t))

Spec == Init /\ [][Next]_vars
FairSpec == Spec /\ Fairness

-----------------------------------------------------------------------------
(* Safety. *)

TypeOK ==
  /\ msgq \in Seq([eAction : {"add", "remove"}, nDiskId : DiskId])
  /\ Len(msgq) <= Capacity
  /\ announced \subseteq DiskId /\ dev \subseteq DiskId
  /\ mounts \in [DiskId -> SUBSET Part]
  /\ changes \in 0..MaxMounts
  /\ nRunState \in [DiskId -> {0, 1}]
  /\ detect_stat \in [DiskId -> Stat]
  /\ tid \in [DiskId -> Thread \cup {0}]
  /\ nthreads \in 0..MaxPlugs
  /\ nPresize \in 0..NParts /\ nNowsize \in 0..NParts
  /\ parts \subseteq Entry
  /\ pc \in [Thread -> PC]
  /\ disk \in [Thread -> DiskId \cup {0}]
  /\ canceled \subseteq Thread
  /\ flag \in [Thread -> {0, 1}]
  /\ ticks \in [Thread -> 0..Timeout]
  /\ log \in [Thread -> SUBSET Part]

\* An id is polled by one thread at a time (apart from threads that were
\* canceled and are on their way out), though a query thread is never joined
\* and an id is used again as soon as its removal is on the queue.
OneLiveThread ==
  \A t, u \in Thread :
     /\ Live(t) /\ t \notin canceled
     /\ Live(u) /\ u \notin canceled
     /\ disk[t] = disk[u]
     => t = u

\* Once the messages about an id are received, nRunState says what the
\* detector announced.
RunStateAgrees ==
  \A i \in DiskId :
     (\A k \in DOMAIN msgq : msgq[k].nDiskId # i)
       => (nRunState[i] = 1 <=> i \in announced)

(* The inductive invariant behind these (see UsbMngProofs). *)

IsAdd(q, k, i) == q[k].eAction = "add" /\ q[k].nDiskId = i
IsRm(q, k, i)  == q[k].eAction = "remove" /\ q[k].nDiskId = i

\* Two ADDs of an id have a removal between them, and the first ADD of an id
\* whose thread runs has a removal before it.
AddsSeparated(q, run) ==
  \A i \in DiskId : \A k \in 1..Len(q) : IsAdd(q, k, i) =>
     /\ \A j \in 1..(k - 1) : IsAdd(q, j, i) => \E l \in (j + 1)..(k - 1) : IsRm(q, l, i)
     /\ run[i] = 1 => \E l \in 1..(k - 1) : IsRm(q, l, i)

\* An id that is not announced has a removal after its last ADD ...
RetractedEnds(q, run, ann) ==
  \A i \in DiskId \ ann :
     /\ \A k \in 1..Len(q) : IsAdd(q, k, i) => \E l \in (k + 1)..Len(q) : IsRm(q, l, i)
     /\ run[i] = 1 => \E l \in 1..Len(q) : IsRm(q, l, i)

\* ... and an announced one an ADD after its last removal.
AnnouncedEnds(q, run, ann) ==
  \A i \in ann :
     /\ \A k \in 1..Len(q) : IsRm(q, k, i) => \E l \in (k + 1)..Len(q) : IsAdd(q, l, i)
     /\ run[i] = 0 => \E l \in 1..Len(q) : IsAdd(q, l, i)

\* A query thread that was not canceled is the one s_UsbThread knows.
QueryOwned ==
  \A t \in Thread :
     /\ pc[t] # "none" => disk[t] # 0 /\ t <= nthreads
     /\ Live(t) /\ t \notin canceled
          => tid[disk[t]] = t /\ nRunState[disk[t]] = 1

IInv == /\ TypeOK /\ QueryOwned
        /\ AddsSeparated(msgq, nRunState)
        /\ RetractedEnds(msgq, nRunState, announced)
        /\ AnnouncedEnds(msgq, nRunState, announced)

(* Liveness (FairSpec). *)

Listed(i) == \E e \in parts : e.nUSBDiskId = i

\* Every announced disk is in and has a partition mounted.
AllMounted == /\ announced # {}
              /\ \A i \in announced : i \in dev /\ mounts[i] # {}

\* The size seen last is forgotten, or will be by the thread of a disk that
\* was just plugged in.
SizeForgotten ==
  \/ nPresize = 0
  \/ \E i \in announced :
       \/ detect_stat[i] = "PLUG_IN"
       \/ \E k \in DOMAIN msgq : msgq[k] = [eAction |-> "add", nDiskId |-> i]

\* No thread of a disk that was removed is left to compare sizes, and no
\* removal is still to be received.
NoStragglers ==
  /\ \A t \in Thread : Live(t) => t \notin canceled /\ disk[t] \in announced
  /\ \A k \in DOMAIN msgq : msgq[k].eAction = "add"

\* The query threads of all disks compare with one pair of sizes, so that a
\* disk can go unlisted for ever when the thread of another one, or one that
\* was canceled and still runs, saw the same size first.  What is kept: when
\* the sizes are forgotten and no thread of a removed disk is left, the change
\* is not lost on everyone: as long as the announced disks stay in and mounted,
\* one of them gets into the partition list.  With one disk, it is that disk.
MountedListed ==
  (AllMounted /\ SizeForgotten /\ NoStragglers)
    ~> (~AllMounted \/ \E i \in announced : Listed(i))

(* What the comments of the source say. *)

\* xl_usb_mng.c:356: "delete the whole partitions in one disk from list": no
\* partition of a disk whose removal was received stays or comes back.
RemovedUnlisted == \A i \in DiskId : nRunState[i] = 0 => ~Listed(i)
=============================================================================
