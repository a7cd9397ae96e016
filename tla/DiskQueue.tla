----------------------------- MODULE DiskQueue -----------------------------
(***************************************************************************)
(* What the hot-plug detector promises to the partition manager: a bounded *)
(* first-in first-out queue on which a disk id is announced only when its  *)
(* last message, if any, was a removal.  UsbDevice implements this module; *)
(* UsbMng is written against it.                                           *)
(***************************************************************************)
EXTENDS Naturals, Sequences

CONSTANTS DiskId,    \* the ids that can be announced
          AnyTime,   \* the pseudo ids that may be announced again and again
          Capacity   \* messages the queue holds

ASSUME DiskQueueAssumption == Capacity \in Nat \ {0} /\ AnyTime \subseteq DiskId

VARIABLES msgq,      \* the messages that were sent and not received
          announced  \* the ids whose last message sent is an ADD

QueueInit == msgq = <<>> /\ announced = {}

Announce(id) ==
  /\ id \notin announced \/ id \in AnyTime
  /\ Len(msgq) < Capacity
  /\ msgq' = Append(msgq, [eAction |-> "add", nDiskId |-> id])
  /\ announced' = announced \cup {id}

\* A removal may also concern an id that was never announced: the probe
\* thread can be canceled between inserting a node and sending its message.
Retract(id) ==
  /\ Len(msgq) < Capacity
  /\ msgq' = Append(msgq, [eAction |-> "remove", nDiskId |-> id])
  /\ announced' = announced \ {id}

Deliver ==
  /\ msgq # <<>>
  /\ msgq' = Tail(msgq)
  /\ UNCHANGED announced

QueueNext == \/ \E id \in DiskId : Announce(id) \/ Retract(id)
             \/ Deliver

QueueSpec == QueueInit /\ [][QueueNext]_<<msgq, announced>>
=============================================================================
