----------------------------- MODULE UsbDevice -----------------------------
(***************************************************************************)
(* Hot-plug detection: C/xunlei_test/xl_usb_device.c.                      *)
(*                                                                         *)
(* The detect thread receives kernel uevents and runs a three-state        *)
(* machine; the probe thread it creates looks for device nodes, gives each *)
(* one a disk id, appends a node to the device list and announces the id   *)
(* on the message queue; on removal the detect thread cancels and joins    *)
(* the probe thread, walks the list and retracts the ids whose device node *)
(* is gone.  The list, the id table and tid are shared without a lock.     *)
(*                                                                         *)
(* A disk is its position in the probe order (sda .. sdp, mmcblk0 ..).     *)
(* Environment assumption: no disk is plugged or unplugged, and no uevent  *)
(* arrives, until the start-up probe of mnt_usb_init has returned.         *)
(***************************************************************************)
EXTENDS Integers, Sequences, FiniteSets, SequencesExt

CONSTANTS
  NDisks,           \* device names probed (32 in the code)
  NIds,             \* slots of g_DevID (128 in the code)
  QueueCap,         \* messages the System V queue holds before msgsnd blocks
  ProbeTries,       \* probe_cnt of the probe thread (50 in the code)
  RemoveTries,      \* probe_cnt of the detect thread (10 in the code)
  EventsPerChange,  \* uevents the kernel sends for one plug or unplug
  MaxChanges,       \* bound: plugs and unplugs in a behaviour
  MaxStrayEvents,   \* bound: uevents about something that is not a disk
  Faults            \* the library calls that may fail; "reuse": a block that
                    \* was just freed may be handed out and zeroed at once;
                    \* "rcvbuf": the 2048 byte socket buffer loses uevents

ASSUME UsbDeviceAssumption ==
  /\ NDisks \in Nat \ {0}
  /\ NIds \in Nat \ {0}
  /\ QueueCap \in Nat \ {0}
  /\ ProbeTries \in Nat
  /\ RemoveTries \in Nat
  /\ EventsPerChange \in Nat
  /\ MaxChanges \in Nat
  /\ MaxStrayEvents \in Nat
  /\ Faults \subseteq {"malloc", "pthread_create", "msgsnd", "reuse", "rcvbuf"}

Disk == 1..NDisks
Id   == 1..NIds
NoId == -1          \* mnt_usb_create_disk_id found every slot taken
Node == [nDiskId : Id \cup {NoId}, disk : Disk]
Uevent  == {"add", "remove", "change", "other"}
Action  == {"add", "remove", "change"}
Message == [eAction : {"add", "remove"}, nDiskId : Id \cup {NoId}]

VARIABLES
  dev,          \* the disks that have a node in /dev
  changes,      \* plugs and unplugs so far
  strays,       \* uevents about other devices so far
  uevents,      \* the netlink socket of the detect thread
  g_DevID,      \* the ids whose slot of g_DevID is TRUE
  g_psUSBDevHead,  \* the device list
  leaked,       \* history: 1 when a malloc of a node has failed
  msgq,         \* the message queue to mnt_usb_probe_partition_thread
  announced,    \* history: the ids whose last message sent is an ADD
  lost,         \* history: 1 when a msgsnd has failed
  main,         \* "probing" while mnt_usb_init is in mnt_usb_device_probe
  tid,          \* the static tid of the detect thread, 0 or 1
  probe_pc, probe_i, probe_id, probe_ret,  \* mnt_usb_device_probe and its locals
  probe_tries,  \* probe_cnt of the probe thread
  eSTATE, eAction_pre, probe_cnt,          \* statics of the detect thread
  detect_pc, detect_i, detect_ret          \* the detect thread and its locals

kernelVars == <<dev, changes, strays>>
idVars     == <<g_DevID, g_psUSBDevHead, leaked>>
queueVars  == <<msgq, announced, lost>>
probeVars  == <<probe_pc, probe_i, probe_id, probe_ret, probe_tries>>
stateVars  == <<eSTATE, eAction_pre, probe_cnt>>
walkVars   == <<detect_pc, detect_i, detect_ret>>
vars == <<kernelVars, uevents, idVars, queueVars, main, tid, probeVars,
          stateVars, walkVars>>

(***************************************************************************)
(* Program counters.  probe_pc: "none" (no thread), "access" (testing the  *)
(* device node of disk probe_i), "send" (about to announce probe_id),      *)
(* "sleep" (in the printf at thread entry, or in usleep between passes),   *)
(* "exit" (past the loop).  detect_pc: "recv", "cancel" and "join" (the    *)
(* two calls on tid), "walk" (at node detect_i of the list), "send" (about *)
(* to retract that node), "crashed" (the process died).                    *)
(***************************************************************************)
ProbePC  == {"none", "access", "send", "sleep", "exit"}
DetectPC == {"recv", "cancel", "join", "walk", "send", "crashed"}

\* The position of the first node that carries id.
FirstWith(list, id) == SelectInSeq(list, LAMBDA n : n.nDiskId = id)
IdsOf(list) == {list[k].nDiskId : k \in DOMAIN list}
FreeIds == Id \ g_DevID
Listed(d) == \E k \in DOMAIN g_psUSBDevHead : g_psUSBDevHead[k].disk = d

Init ==
  /\ dev \in SUBSET Disk
  /\ changes = 0 /\ strays = 0
  /\ uevents = <<>>
  /\ g_DevID = {} /\ g_psUSBDevHead = <<>> /\ leaked = 0
  /\ msgq = <<>> /\ announced = {} /\ lost = 0
  /\ main = "probing"
  /\ tid = 0
  /\ probe_pc = "access" /\ probe_i = 1 /\ probe_id = NoId
  /\ probe_ret = 1 /\ probe_tries = 0
  /\ eSTATE = "GET_ACTION" /\ eAction_pre = "change"
  /\ probe_cnt = RemoveTries
  /\ detect_pc = "recv" /\ detect_i = 1 /\ detect_ret = 1

Alive == detect_pc # "crashed"

\* pthread_cancel has been called on the probe thread.
Canceled == detect_pc = "join" /\ tid # 0

-----------------------------------------------------------------------------
(* The kernel (external). *)

Repeat(e, n) == [k \in 1..n |-> e]

\* How many uevents of a change get through the socket buffer.
Delivered == IF "rcvbuf" \in Faults THEN 0..EventsPerChange ELSE {EventsPerChange}

Plug(d) ==
  /\ main = "running"
  /\ changes < MaxChanges
  /\ d \notin dev
  /\ dev' = dev \cup {d}
  /\ changes' = changes + 1
  /\ \E n \in Delivered : uevents' = uevents \o Repeat("add", n)
  /\ UNCHANGED <<strays, idVars, queueVars, main, tid, probeVars, stateVars,
                 walkVars>>

Unplug(d) ==
  /\ main = "running"
  /\ changes < MaxChanges
  /\ d \in dev
  /\ dev' = dev \ {d}
  /\ changes' = changes + 1
  /\ \E n \in Delivered : uevents' = uevents \o Repeat("remove", n)
  /\ UNCHANGED <<strays, idVars, queueVars, main, tid, probeVars, stateVars,
                 walkVars>>

\* A uevent of a device that is not a disk; "other" is any ACTION value that
\* mnt_usb_get_action does not know, an empty read included.
StrayEvent(e) ==
  /\ main = "running"
  /\ strays < MaxStrayEvents
  /\ strays' = strays + 1
  /\ uevents' = Append(uevents, e)
  /\ UNCHANGED <<dev, changes, idVars, queueVars, main, tid, probeVars,
                 stateVars, walkVars>>

-----------------------------------------------------------------------------
(* The message queue. *)

Posted(m) == /\ msgq' = Append(msgq, m)
             /\ announced' = IF m.eAction = "add"
                               THEN announced \cup {m.nDiskId}
                               ELSE announced \ {m.nDiskId}
             /\ UNCHANGED lost

\* Mutant of MsgSend: msgsnd with IPC_NOWAIT drops what does not fit.
MsgSend_NoWait(m) ==
  \/ Len(msgq) < QueueCap /\ Posted(m)
  \/ Len(msgq) = QueueCap /\ UNCHANGED queueVars

\* mnt_usb_msg_send of m: msgsnd blocks while the queue is full, where a
\* signal handler makes it fail and the message is dropped.
MsgSend(m) ==
  \/ Len(msgq) < QueueCap /\ Posted(m)
  \/ /\ Len(msgq) = QueueCap
     /\ "msgsnd" \in Faults /\ lost' = 1
     /\ UNCHANGED <<msgq, announced>>

MsgRcv ==
  /\ Alive
  /\ msgq # <<>>
  /\ msgq' = Tail(msgq)
  /\ UNCHANGED <<kernelVars, uevents, idVars, announced, lost, main, tid,
                 probeVars, stateVars, walkVars>>

-----------------------------------------------------------------------------
(* mnt_usb_device_probe, run by mnt_usb_init and by the probe thread. *)

\* The device node of disk probe_i does not exist.
ProbeAbsent ==
  /\ Alive
  /\ probe_pc = "access" /\ probe_i <= NDisks
  /\ probe_i \notin dev
  /\ probe_i' = probe_i + 1
  /\ UNCHANGED <<kernelVars, uevents, idVars, queueVars, main, tid, probe_pc,
                 probe_id, probe_ret, probe_tries, stateVars, walkVars>>

\* mnt_usb_create_disk_id: the first free slot, if there is one.
NewId == IF FreeIds = {} THEN NoId ELSE Min(FreeIds)

\* Mutant of ProbeFound: the slot of the new id is not marked.
ProbeFound_Unmarked ==
  /\ Alive
  /\ probe_pc = "access" /\ probe_i \in dev
  /\ probe_id' = NewId /\ probe_ret' = 0 /\ probe_pc' = "send"
  /\ g_psUSBDevHead' = Append(g_psUSBDevHead,
                              [nDiskId |-> NewId, disk |-> probe_i])
  /\ UNCHANGED <<kernelVars, uevents, g_DevID, leaked, queueVars, main, tid,
                 probe_i, probe_tries, stateVars, walkVars>>

\* It exists: take an id, append a node.  When malloc fails only the node is
\* missing; the id stays taken and is announced all the same.
ProbeFound ==
  /\ Alive
  /\ probe_pc = "access" /\ probe_i \in dev
  /\ probe_id' = NewId /\ probe_ret' = 0 /\ probe_pc' = "send"
  /\ g_DevID' = g_DevID \cup (FreeIds \cap {NewId})
  /\ \/ /\ g_psUSBDevHead' = Append(g_psUSBDevHead,
                                    [nDiskId |-> NewId, disk |-> probe_i])
        /\ UNCHANGED leaked
     \/ /\ "malloc" \in Faults /\ leaked' = 1
        /\ UNCHANGED g_psUSBDevHead
  /\ UNCHANGED <<kernelVars, uevents, queueVars, main, tid, probe_i,
                 probe_tries, stateVars, walkVars>>

\* msgsnd is a cancellation point, so a canceled thread sends nothing.
ProbeSend ==
  /\ Alive
  /\ probe_pc = "send" /\ ~Canceled
  /\ MsgSend([eAction |-> "add", nDiskId |-> probe_id])
  /\ probe_pc' = "access" /\ probe_i' = probe_i + 1
  /\ UNCHANGED <<kernelVars, uevents, idVars, main, tid, probe_id, probe_ret,
                 probe_tries, stateVars, walkVars>>

\* All names tested.  mnt_usb_init goes on whatever the result.
BootProbeEnd ==
  /\ probe_pc = "access" /\ probe_i > NDisks
  /\ main = "probing" /\ main' = "running"
  /\ probe_pc' = "none"
  /\ UNCHANGED <<kernelVars, uevents, idVars, queueVars, tid, probe_i, probe_id,
                 probe_ret, probe_tries, stateVars, walkVars>>

\* The probe thread leaves its loop after a disk was found; else it sleeps
\* or, out of tries, starts over at once.
ProbePassEnd ==
  /\ Alive
  /\ probe_pc = "access" /\ probe_i > NDisks
  /\ main = "running"
  /\ \/ /\ probe_ret = 0
        /\ probe_pc' = "exit" /\ UNCHANGED <<probe_i, probe_tries>>
     \/ /\ probe_ret # 0 /\ probe_tries > 0
        /\ probe_pc' = "sleep" /\ probe_tries' = probe_tries - 1
        /\ UNCHANGED probe_i
     \/ /\ probe_ret # 0 /\ probe_tries = 0
        /\ probe_i' = 1 /\ UNCHANGED <<probe_pc, probe_tries>>
  /\ UNCHANGED <<kernelVars, uevents, idVars, queueVars, main, tid, probe_id,
                 probe_ret, stateVars, walkVars>>

ProbeWake ==
  /\ Alive
  /\ probe_pc = "sleep" /\ ~Canceled
  /\ probe_pc' = "access" /\ probe_i' = 1
  /\ UNCHANGED <<kernelVars, uevents, idVars, queueVars, main, tid, probe_id,
                 probe_ret, probe_tries, stateVars, walkVars>>

\* *(pthread_t *)tid = 0, the thread's last access to shared state.  After the
\* printf that precedes it a cancellation comes too late.
ProbeExit ==
  /\ Alive
  /\ probe_pc = "exit"
  /\ tid' = 0
  /\ probe_pc' = "none"
  /\ UNCHANGED <<kernelVars, uevents, idVars, queueVars, main, probe_i, probe_id,
                 probe_ret, probe_tries, stateVars, walkVars>>

\* The cancellation points: printf, usleep and msgsnd.
ProbeCanceled ==
  /\ probe_pc \in {"send", "sleep", "exit"} /\ Canceled
  /\ probe_pc' = "none"
  /\ UNCHANGED <<kernelVars, uevents, idVars, queueVars, main, tid, probe_i,
                 probe_id, probe_ret, probe_tries, stateVars, walkVars>>

ProbeThread == \/ ProbeAbsent \/ ProbeFound \/ ProbeSend \/ BootProbeEnd
               \/ ProbePassEnd \/ ProbeWake \/ ProbeExit \/ ProbeCanceled

-----------------------------------------------------------------------------
(* mnt_usb_detect_thread. *)

\* parse_event and mnt_usb_get_action, with "change" folded into "add".
ActionOf(e) == IF e = "change" THEN "add" ELSE e

\* Mutant of SwitchState: a new action does not restart the machine.
SwitchState_Sticky(a) == eSTATE

\* The state that the switch sees: a new action restarts the machine.
SwitchState(a) == IF a # eAction_pre THEN "GET_ACTION" ELSE eSTATE

\* Common to every receive: one uevent is taken off the socket.
Receive ==
  /\ detect_pc = "recv" /\ uevents # <<>>
  /\ uevents' = Tail(uevents)
  /\ UNCHANGED <<kernelVars, idVars, queueVars, main, probe_cnt>>

\* The action is unknown, or this round is over (STANDBY).
DetectIgnore ==
  /\ Receive
  /\ \/ Head(uevents) = "other"
     \/ SwitchState(ActionOf(Head(uevents))) = "STANDBY"
  /\ UNCHANGED <<tid, probeVars, eSTATE, eAction_pre, walkVars>>

\* Mutant of DetectGetAction: eAction_pre is not updated.
DetectGetAction_KeepPre ==
  /\ Receive
  /\ Head(uevents) # "other"
  /\ SwitchState(ActionOf(Head(uevents))) = "GET_ACTION"
  /\ eSTATE' = "IDENTIFY"
  /\ UNCHANGED <<tid, probeVars, eAction_pre, walkVars>>

DetectGetAction ==
  /\ Receive
  /\ Head(uevents) # "other"
  /\ SwitchState(ActionOf(Head(uevents))) = "GET_ACTION"
  /\ eAction_pre' = ActionOf(Head(uevents))
  /\ eSTATE' = "IDENTIFY"
  /\ UNCHANGED <<tid, probeVars, walkVars>>

\* While a probe thread is known, the event is dropped and the state kept.
DetectAdd ==
  /\ Receive
  /\ ActionOf(Head(uevents)) = "add" /\ SwitchState("add") = "IDENTIFY"
  /\ \/ /\ tid # 0
        /\ UNCHANGED <<tid, probeVars, eSTATE>>
     \/ /\ tid = 0 /\ tid' = 1
        /\ probe_pc' = "sleep" /\ probe_i' = 1 /\ probe_id' = NoId
        /\ probe_ret' = 1 /\ probe_tries' = ProbeTries
        /\ eSTATE' = "STANDBY"
     \/ /\ tid = 0 /\ "pthread_create" \in Faults
        /\ eSTATE' = "STANDBY"
        /\ UNCHANGED <<tid, probeVars>>
  /\ UNCHANGED <<eAction_pre, walkVars>>

DetectRemove ==
  /\ Receive
  /\ ActionOf(Head(uevents)) = "remove" /\ SwitchState("remove") = "IDENTIFY"
  /\ detect_pc' = IF tid # 0 THEN "cancel" ELSE "walk"
  /\ detect_i' = 1 /\ detect_ret' = 1
  /\ UNCHANGED <<tid, probeVars, eSTATE, eAction_pre>>

\* pthread_cancel(tid) and pthread_join(tid, NULL) read tid again: the probe
\* thread may have zeroed it, and a call on 0 fails or kills the process.
DetectCancel ==
  /\ detect_pc = "cancel"
  /\ \/ detect_pc' = "join"
     \/ tid = 0 /\ detect_pc' = "crashed"
  /\ UNCHANGED <<kernelVars, uevents, idVars, queueVars, main, tid, probeVars,
                 stateVars, detect_i, detect_ret>>

\* Mutant of DetectJoin: the canceled thread is not waited for.
DetectJoin_NoWait ==
  /\ detect_pc = "join"
  /\ detect_pc' = "walk"
  /\ tid' = 0
  /\ UNCHANGED <<kernelVars, uevents, idVars, queueVars, main, probeVars,
                 stateVars, detect_i, detect_ret>>

DetectJoin ==
  /\ detect_pc = "join"
  /\ \/ /\ tid # 0 => probe_pc = "none"
        /\ detect_pc' = "walk"
     \/ tid = 0 /\ detect_pc' = "crashed"
  /\ tid' = 0
  /\ UNCHANGED <<kernelVars, uevents, idVars, queueVars, main, probeVars,
                 stateVars, detect_i, detect_ret>>

(* mnt_usb_remove_dev_node, called by the detect thread. *)

WalkPresent ==
  /\ detect_pc = "walk" /\ detect_i <= Len(g_psUSBDevHead)
  /\ g_psUSBDevHead[detect_i].disk \in dev
  /\ detect_i' = detect_i + 1
  /\ UNCHANGED <<kernelVars, uevents, idVars, queueVars, main, tid, probeVars,
                 stateVars, detect_pc, detect_ret>>

WalkAbsent ==
  /\ detect_pc = "walk" /\ detect_i <= Len(g_psUSBDevHead)
  /\ g_psUSBDevHead[detect_i].disk \notin dev
  /\ detect_pc' = "send"
  /\ UNCHANGED <<kernelVars, uevents, idVars, queueVars, main, tid, probeVars,
                 stateVars, detect_i, detect_ret>>

\* The id of the node the walk is at.
WalkId == g_psUSBDevHead[detect_i].nDiskId

\* Mutant of WalkDelete: the node is freed but its id is not.
WalkDelete_KeepSlot ==
  /\ detect_pc = "send"
  /\ MsgSend([eAction |-> "remove", nDiskId |-> WalkId])
  /\ g_psUSBDevHead' = RemoveAt(g_psUSBDevHead, detect_i)
  /\ detect_pc' = "walk" /\ detect_ret' = 0
  /\ UNCHANGED <<kernelVars, uevents, g_DevID, leaked, main, tid, probeVars,
                 stateVars, detect_i>>

\* Mutant of WalkDelete: the removal is not sent.
WalkDelete_Unsent ==
  /\ detect_pc = "send"
  /\ g_DevID' = g_DevID \ {WalkId}
  /\ g_psUSBDevHead' = RemoveAt(g_psUSBDevHead, detect_i)
  /\ detect_pc' = "walk" /\ detect_ret' = 0
  /\ UNCHANGED <<kernelVars, uevents, leaked, queueVars, main, tid, probeVars,
                 stateVars, detect_i>>

\* Retract the id, then mnt_usb_delete_dev_node: the FIRST node with that id
\* goes and its slot is freed.  The walk then reads m_pNext of the node that
\* was just freed: the old link, or (memory reused) the end of the list.
WalkDelete ==
  /\ detect_pc = "send"
  /\ MsgSend([eAction |-> "remove", nDiskId |-> WalkId])
  /\ g_DevID' = g_DevID \ {WalkId}
  /\ g_psUSBDevHead' = RemoveAt(g_psUSBDevHead, FirstWith(g_psUSBDevHead, WalkId))
  /\ detect_pc' = "walk" /\ detect_ret' = 0
  /\ \/ UNCHANGED detect_i
     \/ /\ "reuse" \in Faults
        /\ FirstWith(g_psUSBDevHead, WalkId) = detect_i
        /\ detect_i' = Len(g_psUSBDevHead)
  /\ UNCHANGED <<kernelVars, uevents, leaked, main, tid, probeVars, stateVars>>

\* Mutant of WalkEnd: the tries are counted down without a test.
WalkEnd_NoTest ==
  /\ detect_pc = "walk" /\ detect_i > Len(g_psUSBDevHead)
  /\ IF detect_ret = 0 \/ g_psUSBDevHead = <<>>
       THEN eSTATE' = "STANDBY" /\ UNCHANGED probe_cnt
       ELSE probe_cnt' = probe_cnt - 1 /\ UNCHANGED eSTATE
  /\ detect_pc' = "recv"
  /\ UNCHANGED <<kernelVars, uevents, idVars, queueVars, main, tid, probeVars,
                 eAction_pre, detect_i, detect_ret>>

\* Nothing removed: wait for RemoveTries more events of this round.
WalkEnd ==
  /\ detect_pc = "walk" /\ detect_i > Len(g_psUSBDevHead)
  /\ \/ /\ detect_ret = 0 \/ g_psUSBDevHead = <<>>
        /\ eSTATE' = "STANDBY" /\ UNCHANGED probe_cnt
     \/ /\ detect_ret # 0 /\ g_psUSBDevHead # <<>> /\ probe_cnt > 0
        /\ probe_cnt' = probe_cnt - 1 /\ UNCHANGED eSTATE
     \/ /\ detect_ret # 0 /\ g_psUSBDevHead # <<>> /\ probe_cnt = 0
        /\ probe_cnt' = RemoveTries /\ eSTATE' = "STANDBY"
  /\ detect_pc' = "recv"
  /\ UNCHANGED <<kernelVars, uevents, idVars, queueVars, main, tid, probeVars,
                 eAction_pre, detect_i, detect_ret>>

DetectThread ==
  \/ DetectIgnore \/ DetectGetAction \/ DetectAdd \/ DetectRemove
  \/ DetectCancel \/ DetectJoin
  \/ WalkPresent \/ WalkAbsent \/ WalkDelete \/ WalkEnd

-----------------------------------------------------------------------------
Kernel == \/ \E d \in Disk : Plug(d) \/ Unplug(d)
          \/ \E e \in Uevent : StrayEvent(e)

Next == Kernel \/ ProbeThread \/ DetectThread \/ MsgRcv

\* The scheduler runs every thread that can run; the kernel owes nothing.
Fairness == WF_vars(ProbeThread) /\ WF_vars(DetectThread) /\ WF_vars(MsgRcv)

Spec == Init /\ [][Next]_vars
FairSpec == Spec /\ Fairness

-----------------------------------------------------------------------------
(* Safety. *)

TypeOK ==
  /\ dev \subseteq Disk
  /\ changes \in 0..MaxChanges /\ strays \in 0..MaxStrayEvents
  /\ uevents \in Seq(Uevent)
  /\ g_DevID \subseteq Id
  /\ g_psUSBDevHead \in Seq(Node)
  /\ msgq \in Seq(Message) /\ Len(msgq) <= QueueCap
  /\ announced \subseteq Id \cup {NoId}
  /\ leaked \in {0, 1} /\ lost \in {0, 1}
  /\ main \in {"probing", "running"} /\ tid \in {0, 1}
  /\ probe_pc \in ProbePC /\ probe_i \in 1..(NDisks + 1)
  /\ probe_id \in Id \cup {NoId}
  /\ probe_ret \in {0, 1} /\ probe_tries \in 0..ProbeTries
  /\ eSTATE \in {"GET_ACTION", "IDENTIFY", "STANDBY"}
  /\ eAction_pre \in Action
  /\ probe_cnt \in 0..RemoveTries
  /\ detect_pc \in DetectPC /\ detect_i \in Nat \ {0} /\ detect_ret \in {0, 1}

\* The device list and the id table have no lock: the create, cancel and join
\* calls on tid alone keep the detect thread, while it walks and edits the
\* list, and every run of mnt_usb_device_probe apart.
ListExclusive == detect_pc \in {"walk", "send"} => probe_pc = "none"

\* No two nodes of the device list carry the same id (ids that were really
\* handed out), so that deleting by id deletes the disk that is meant.
UniqueIds ==
  \A j, k \in DOMAIN g_psUSBDevHead :
     /\ g_psUSBDevHead[j].nDiskId = g_psUSBDevHead[k].nDiskId
     /\ g_psUSBDevHead[j].nDiskId # NoId
     => j = k

\* The id table is exact: a slot is taken iff a node of the list holds its id
\* (a failed malloc is the only way to leak one).
IdsOwned ==
  /\ IdsOf(g_psUSBDevHead) \ {NoId} \subseteq g_DevID
  /\ leaked = 0 => g_DevID \subseteq IdsOf(g_psUSBDevHead)

\* The receiver keys its per-disk threads by id: an id is never announced
\* again while its last message is still an ADD (until a message gets lost).
AddFresh ==
  /\ lost = 0
  /\ probe_pc = "send" /\ probe_id # NoId
  => probe_id \notin announced

\* An announced id can still be retracted: a node of the list carries it
\* (until a node could not be allocated or a message got lost).
AnnouncedListed ==
  leaked = 0 /\ lost = 0 => announced \ {NoId} \subseteq IdsOf(g_psUSBDevHead)

(* The inductive invariant behind these five (see UsbDeviceProofs). *)

\* The probe thread exists only while tid says so (or mnt_usb_init is still
\* probing), and the detect thread is past its join before it walks.
TidProtocol ==
  /\ main = "probing" => uevents = <<>> /\ detect_pc = "recv"
  /\ probe_pc # "none" => main = "probing" \/ tid # 0
  /\ detect_pc \in {"walk", "send"} => tid = 0
  /\ detect_pc = "send" => detect_i <= Len(g_psUSBDevHead)

\* What the id table says of the ids in flight and of the announced ones.
IdsInFlight ==
  /\ probe_pc = "send" => probe_i \in Disk
  /\ probe_pc = "send" /\ probe_id # NoId => probe_id \in g_DevID
  /\ lost = 0 => announced \ {NoId} \subseteq g_DevID
  /\ lost = 1 => "msgsnd" \in Faults

IInv == TypeOK /\ TidProtocol /\ UniqueIds /\ IdsOwned /\ IdsInFlight /\ AddFresh

(* Liveness (FairSpec). *)

Announced(d) == \E k \in DOMAIN g_psUSBDevHead :
                   /\ g_psUSBDevHead[k].disk = d
                   /\ g_psUSBDevHead[k].nDiskId \in announced

\* The action in force when the k-th queued uevent is received: eAction_pre is
\* the last known action received.
ActionBefore(k) == IF k = 1 THEN eAction_pre ELSE ActionOf(uevents[k - 1])

\* The queued uevents hold the start of a round of action a: the first uevent
\* of it makes the machine GET_ACTION, the second one IDENTIFY.
RoundDue(a) ==
  \E k \in 1..(Len(uevents) - 1) :
     /\ ActionBefore(k) # a
     /\ ActionOf(uevents[k]) = a /\ ActionOf(uevents[k + 1]) = a
     /\ a = "add" => \A j \in k..Len(uevents) : uevents[j] # "remove"

\* A pass of mnt_usb_device_probe is on its way to disk d, and no removal is
\* queued or under way that would cancel it.
ProbeDue(d) ==
  /\ detect_pc = "recv" /\ \A j \in DOMAIN uevents : uevents[j] # "remove"
  /\ \/ probe_pc = "sleep"
     \/ probe_pc \in {"access", "send"} /\ probe_i <= d

\* The walk of a removal is still to come to every node of disk d.
WalkDue(d) ==
  \/ detect_pc \in {"cancel", "join"}
  \/ /\ detect_pc \in {"walk", "send"}
     /\ \A k \in 1..(detect_i - 1) : g_psUSBDevHead[k].disk # d

\* The two ways the detect thread can be lost for good: the process died on a
\* zeroed tid, or it joins a probe thread that ran out of tries and, with no
\* disk to find, spins without a cancellation point.
DetectLost ==
  \/ ~Alive
  \/ /\ detect_pc = "join" /\ dev = {}
     /\ probe_pc = "access" /\ probe_ret # 0 /\ probe_tries = 0

\* The machine is shared by all disks, so a plugged disk is not always noticed:
\* an add uevent in STANDBY, or while a probe thread runs, is dropped.  What is
\* kept: a disk that is in while an add round is still to begin, or while a
\* probe pass is on its way to it, is announced, unless it or another disk is
\* pulled out meanwhile (which cancels the probe) or the process died.
PlugAnnounced ==
  \A d \in Disk, n \in 0..MaxChanges :
     d \in dev /\ (RoundDue("add") \/ ProbeDue(d)) /\ changes = n
     ~> \/ Announced(d) \/ d \notin dev \/ ~Alive
        \/ changes > n /\ "remove" \in ToSet(uevents)

\* In the same way a disk that is out while a removal round is still to begin,
\* or while the walk of one is still to come to its nodes, leaves the device
\* list, unless it is plugged in again, the detect thread is lost or the ids
\* ran out (nodes that share the id -1 are deleted for each other).  The
\* remove uevents of a second disk come in STANDBY and are dropped.
UnplugUnlisted ==
  \A d \in Disk :
     d \notin dev /\ (RoundDue("remove") \/ WalkDue(d))
     ~> \/ ~Listed(d) \/ d \in dev \/ DetectLost
        \/ NoId \in IdsOf(g_psUSBDevHead)

(* Refinement. *)

Abstract == INSTANCE DiskQueue WITH DiskId <- Id \cup {NoId}, AnyTime <- {NoId},
                                    Capacity <- QueueCap

\* As long as msgsnd does not fail ("msgsnd" is not in Faults), the detector
\* keeps the promise of DiskQueue to the receiver of its messages: a bounded
\* FIFO on which no id is announced twice without a removal in between.
ImplementsDiskQueue == Abstract!QueueSpec
=============================================================================
