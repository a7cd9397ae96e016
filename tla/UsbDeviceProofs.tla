-------------------------- MODULE UsbDeviceProofs --------------------------
(***************************************************************************)
(* Proofs about UsbDevice for any number of disks, ids, tries and events.  *)
(* IInv is inductive; each safety invariant follows from it.               *)
(***************************************************************************)
EXTENDS UsbDevice, ListLemmas

\* A list that contains an id has a first node with that id.
LEMMA FirstWithProperties ==
  ASSUME NEW S, NEW list \in Seq(S), NEW i \in 1..Len(list)
  PROVE  /\ FirstWith(list, list[i].nDiskId) \in 1..Len(list)
         /\ list[FirstWith(list, list[i].nDiskId)].nDiskId = list[i].nDiskId
<1> DEFINE I == {k \in 1..Len(list) : list[k].nDiskId = list[i].nDiskId}
<1>1. I \in SUBSET Nat /\ I # {} OBVIOUS
<1>2. FirstWith(list, list[i].nDiskId) = Min(I)
  BY <1>1 DEF FirstWith, SelectInSeq
<1>3. Min(I) \in I BY <1>1, MinIsMember
<1>4. QED BY <1>2, <1>3

\* mnt_usb_create_disk_id returns a slot that was free.
LEMMA FreshId ==
  ASSUME FreeIds # {}
  PROVE  NewId \in Id /\ NewId \in FreeIds /\ NewId \notin g_DevID
BY MinIsMember, UsbDeviceAssumption DEF FreeIds, Id, NewId

LEMMA NoIdIsNoId == NoId \notin Id
BY DEF NoId, Id

LEMMA NewIdType == NewId \in Id \cup {NoId}
BY FreshId DEF NewId

LEMMA InitIInv == Init => IInv
<1> SUFFICES ASSUME Init PROVE IInv OBVIOUS
<1> USE UsbDeviceAssumption DEF Init
<1>1. TypeOK BY DEF TypeOK, ProbePC, DetectPC, Action, Disk
<1>2. TidProtocol BY DEF TidProtocol
<1>3. UniqueIds /\ IdsOwned BY DEF UniqueIds, IdsOwned, IdsOf
<1>4. IdsInFlight /\ AddFresh BY DEF IdsInFlight, AddFresh
<1>5. QED BY <1>1, <1>2, <1>3, <1>4 DEF IInv

LEMMA RepeatType ==
  ASSUME NEW e \in Uevent, NEW n \in Delivered
  PROVE  Repeat(e, n) \in Seq(Uevent)
<1>1. n \in Nat BY UsbDeviceAssumption DEF Delivered
<1>2. QED BY <1>1 DEF Repeat

\* mnt_usb_msg_send keeps the queue within its capacity.
LEMMA SendType ==
  ASSUME TypeOK, NEW m \in Message, MsgSend(m)
  PROVE  /\ msgq' \in Seq(Message) /\ Len(msgq') <= QueueCap
         /\ announced' \subseteq Id \cup {NoId} /\ lost' \in {0, 1}
<1>1. CASE Len(msgq) < QueueCap /\ Posted(m)
  <2>1. m.nDiskId \in Id \cup {NoId} BY DEF Message
  <2>2. QED BY <1>1, <2>1, UsbDeviceAssumption DEF TypeOK, Posted
<1>2. CASE lost' = 1 /\ UNCHANGED <<msgq, announced>>
  BY <1>2 DEF TypeOK
<1>3. QED BY <1>1, <1>2 DEF MsgSend

\* Deleting the node that the walk is at, found again by its id.
LEMMA DeleteType ==
  ASSUME TypeOK, detect_i <= Len(g_psUSBDevHead)
  PROVE  /\ WalkId \in Id \cup {NoId}
         /\ FirstWith(g_psUSBDevHead, WalkId) \in 1..Len(g_psUSBDevHead)
         /\ g_psUSBDevHead[FirstWith(g_psUSBDevHead, WalkId)].nDiskId = WalkId
<1>1. g_psUSBDevHead \in Seq(Node) /\ detect_i \in 1..Len(g_psUSBDevHead)
  BY DEF TypeOK
<1>2. g_psUSBDevHead[detect_i] \in Node BY <1>1
<1>3. QED BY <1>1, <1>2, FirstWithProperties DEF WalkId, Node

\* The type invariant is preserved.
LEMMA TypeStep == IInv /\ Next => TypeOK'
<1> SUFFICES ASSUME IInv, Next PROVE TypeOK' OBVIOUS
<1> USE UsbDeviceAssumption
    DEF IInv, TypeOK, kernelVars, idVars, queueVars, probeVars, stateVars,
        walkVars
<1>1. ASSUME NEW d \in Disk, Plug(d) \/ Unplug(d) PROVE TypeOK'
  <2>1. \A e \in Uevent, n \in Delivered : uevents \o Repeat(e, n) \in Seq(Uevent)
    BY RepeatType, ConcatProperties
  <2>2. "add" \in Uevent /\ "remove" \in Uevent BY DEF Uevent
  <2>3. uevents' \in Seq(Uevent)
    <3>1. CASE Plug(d) BY <3>1, <2>1, <2>2 DEF Plug
    <3>2. CASE Unplug(d) BY <3>2, <2>1, <2>2 DEF Unplug
    <3>3. QED BY <1>1, <3>1, <3>2
  <2>4. CASE Plug(d) BY <2>4, <2>3 DEF Plug
  <2>5. CASE Unplug(d) BY <2>5, <2>3 DEF Unplug
  <2>6. QED BY <1>1, <2>4, <2>5
<1>2. ASSUME NEW e \in Uevent, StrayEvent(e) PROVE TypeOK'
  BY <1>2 DEF StrayEvent
<1>3. CASE ProbeAbsent
  BY <1>3 DEF ProbeAbsent
<1>4. CASE ProbeFound
  <2>1. [nDiskId |-> NewId, disk |-> probe_i] \in Node
    BY <1>4, NewIdType DEF ProbeFound, Node
  <2>2. g_psUSBDevHead' \in Seq(Node)
    <3>1. g_psUSBDevHead \in Seq(Node) OBVIOUS
    <3>2. Append(g_psUSBDevHead, [nDiskId |-> NewId, disk |-> probe_i]) \in Seq(Node)
      BY <2>1, <3>1, AppendProperties, Zenon
    <3>3. QED BY <1>4, <3>1, <3>2 DEF ProbeFound
  <2>3. g_DevID' \subseteq Id BY <1>4 DEF ProbeFound, FreeIds
  <2>4. QED BY <1>4, <2>2, <2>3, NewIdType DEF ProbeFound, ProbePC
<1>5. CASE ProbeSend
  <2>1. [eAction |-> "add", nDiskId |-> probe_id] \in Message
    BY DEF Message
  <2>2. /\ msgq' \in Seq(Message) /\ Len(msgq') <= QueueCap
        /\ announced' \subseteq Id \cup {NoId} /\ lost' \in {0, 1}
    BY <1>5, <2>1, SendType DEF ProbeSend
  <2>3. probe_i \in 1..NDisks BY <1>5 DEF ProbeSend, IdsInFlight, Disk
  <2>4. QED BY <1>5, <2>2, <2>3 DEF ProbeSend, ProbePC
<1>6. CASE BootProbeEnd
  BY <1>6 DEF BootProbeEnd, ProbePC
<1>7. CASE ProbePassEnd
  BY <1>7 DEF ProbePassEnd, ProbePC
<1>8. CASE ProbeWake
  BY <1>8 DEF ProbeWake, ProbePC
<1>9. CASE ProbeExit
  BY <1>9 DEF ProbeExit, ProbePC
<1>10. CASE ProbeCanceled
  BY <1>10 DEF ProbeCanceled, ProbePC
<1>11. CASE DetectIgnore
  BY <1>11 DEF DetectIgnore, Receive
<1>12. CASE DetectGetAction
  BY <1>12 DEF DetectGetAction, Receive, ActionOf, Uevent, Action
<1>13. CASE DetectAdd
  BY <1>13 DEF DetectAdd, Receive, ProbePC
<1>14. CASE DetectRemove
  BY <1>14 DEF DetectRemove, Receive, DetectPC
<1>15. CASE DetectCancel
  BY <1>15 DEF DetectCancel, DetectPC
<1>16. CASE DetectJoin
  BY <1>16 DEF DetectJoin, DetectPC
<1>17. CASE WalkPresent
  BY <1>17 DEF WalkPresent
<1>18. CASE WalkAbsent
  BY <1>18 DEF WalkAbsent, DetectPC
<1>19. CASE WalkDelete
  <2> DEFINE m == [eAction |-> "remove", nDiskId |-> WalkId]
             k == FirstWith(g_psUSBDevHead, WalkId)
  <2>1. detect_i <= Len(g_psUSBDevHead)
    BY <1>19 DEF WalkDelete, TidProtocol
  <2>2. m \in Message /\ k \in 1..Len(g_psUSBDevHead)
    BY <2>1, DeleteType DEF Message
  <2>3. /\ msgq' \in Seq(Message) /\ Len(msgq') <= QueueCap
        /\ announced' \subseteq Id \cup {NoId} /\ lost' \in {0, 1}
    BY <1>19, <2>2, SendType DEF WalkDelete
  <2>4. g_psUSBDevHead' \in Seq(Node)
    BY <1>19, <2>2, RemoveAtProperties DEF WalkDelete
  <2>5. detect_i' \in Nat \ {0}
    BY <1>19, <2>1 DEF WalkDelete
  <2>6. g_DevID' \subseteq Id BY <1>19 DEF WalkDelete
  <2>7. QED BY <1>19, <2>3, <2>4, <2>5, <2>6 DEF WalkDelete, DetectPC
<1>20. CASE WalkEnd
  BY <1>20 DEF WalkEnd, DetectPC
<1>21. CASE MsgRcv
  BY <1>21 DEF MsgRcv
<1>22. QED
  BY <1>1, <1>2, <1>3, <1>4, <1>5, <1>6, <1>7, <1>8, <1>9, <1>10, <1>11,
     <1>12, <1>13, <1>14, <1>15, <1>16, <1>17, <1>18, <1>19, <1>20, <1>21
     DEF Next, Kernel, ProbeThread, DetectThread

\* The create, cancel and join protocol on tid is preserved.
LEMMA TidStep == IInv /\ Next => TidProtocol'
<1> SUFFICES ASSUME IInv, Next PROVE TidProtocol' OBVIOUS
<1> USE UsbDeviceAssumption
    DEF IInv, TypeOK, TidProtocol, kernelVars, idVars, queueVars, probeVars,
        stateVars, walkVars
<1>1. ASSUME NEW d \in Disk, Plug(d) \/ Unplug(d) PROVE TidProtocol'
  BY <1>1 DEF Plug, Unplug
<1>2. ASSUME NEW e \in Uevent, StrayEvent(e) PROVE TidProtocol'
  BY <1>2 DEF StrayEvent
<1>3. CASE ProbeAbsent
  BY <1>3 DEF ProbeAbsent
<1>4. CASE ProbeFound
  BY <1>4 DEF ProbeFound, ProbePC
<1>5. CASE ProbeSend
  BY <1>5 DEF ProbeSend
<1>6. CASE BootProbeEnd
  BY <1>6 DEF BootProbeEnd
<1>7. CASE ProbePassEnd
  BY <1>7 DEF ProbePassEnd
<1>8. CASE ProbeWake
  BY <1>8 DEF ProbeWake
<1>9. CASE ProbeExit
  BY <1>9 DEF ProbeExit
<1>10. CASE ProbeCanceled
  BY <1>10 DEF ProbeCanceled
<1>11. CASE DetectIgnore
  BY <1>11 DEF DetectIgnore, Receive
<1>12. CASE DetectGetAction
  BY <1>12 DEF DetectGetAction, Receive
<1>13. CASE DetectAdd
  BY <1>13 DEF DetectAdd, Receive
<1>14. CASE DetectRemove
  BY <1>14 DEF DetectRemove, Receive
<1>15. CASE DetectCancel
  BY <1>15 DEF DetectCancel
<1>16. CASE DetectJoin
  BY <1>16 DEF DetectJoin
<1>17. CASE WalkPresent
  BY <1>17 DEF WalkPresent
<1>18. CASE WalkAbsent
  BY <1>18 DEF WalkAbsent
<1>19. CASE WalkDelete
  BY <1>19 DEF WalkDelete
<1>20. CASE WalkEnd
  BY <1>20 DEF WalkEnd
<1>21. CASE MsgRcv
  BY <1>21 DEF MsgRcv
<1>22. QED
  BY <1>1, <1>2, <1>3, <1>4, <1>5, <1>6, <1>7, <1>8, <1>9, <1>10, <1>11,
     <1>12, <1>13, <1>14, <1>15, <1>16, <1>17, <1>18, <1>19, <1>20, <1>21
     DEF Next, Kernel, ProbeThread, DetectThread

\* A new node with a free id keeps ids unique and the table exact.
LEMMA FoundIds ==
  ASSUME IInv, ProbeFound
  PROVE  UniqueIds' /\ IdsOwned' /\ IdsInFlight' /\ AddFresh'
<1> USE DEF IInv, kernelVars, idVars, queueVars, probeVars, stateVars, walkVars
<1> DEFINE lst == g_psUSBDevHead
           nod == [nDiskId |-> NewId, disk |-> probe_i]
<1>1. /\ lst \in Seq(Node)
      /\ \A k \in 1..Len(lst) : lst[k].nDiskId # NoId => lst[k].nDiskId \in g_DevID
  BY DEF TypeOK, IdsOwned, IdsOf
<1>2. NewId = NoId \/ (NewId \in Id /\ NewId \in FreeIds /\ NewId \notin g_DevID)
  BY FreshId DEF NewId
<1>3. g_DevID' = IF NewId = NoId THEN g_DevID ELSE g_DevID \cup {NewId}
  BY <1>2, NoIdIsNoId DEF ProbeFound, FreeIds
<1>4. IdsInFlight' /\ AddFresh'
  <2>1. probe_i' \in Disk BY DEF ProbeFound, TypeOK
  <2>2. QED BY <1>2, <1>3, <2>1 DEF ProbeFound, IdsInFlight, AddFresh
<1>5. CASE UNCHANGED g_psUSBDevHead /\ leaked' = 1
  BY <1>3, <1>4, <1>5 DEF UniqueIds, IdsOwned, IdsOf
<1>6. CASE g_psUSBDevHead' = Append(lst, nod) /\ leaked' = leaked
  <2>1. /\ Len(g_psUSBDevHead') = Len(lst) + 1
        /\ DOMAIN g_psUSBDevHead' = 1..(Len(lst) + 1)
        /\ \A k \in 1..Len(lst) : g_psUSBDevHead'[k] = lst[k]
        /\ g_psUSBDevHead'[Len(lst) + 1].nDiskId = NewId
    BY <1>1, <1>6
  <2>2. DOMAIN lst = 1..Len(lst) /\ Len(lst) \in Nat BY <1>1
  <2>3. UniqueIds'
    <3> SUFFICES ASSUME NEW j \in DOMAIN g_psUSBDevHead',
                        NEW k \in DOMAIN g_psUSBDevHead',
                        g_psUSBDevHead'[j].nDiskId = g_psUSBDevHead'[k].nDiskId,
                        g_psUSBDevHead'[j].nDiskId # NoId
                 PROVE  j = k
      BY DEF UniqueIds
    <3>1. CASE j \in 1..Len(lst) /\ k \in 1..Len(lst)
      BY <3>1, <2>1, <2>2 DEF UniqueIds
    <3>2. CASE j = Len(lst) + 1 \/ k = Len(lst) + 1
      BY <3>2, <2>1, <2>2, <1>1, <1>2
    <3>3. QED BY <3>1, <3>2, <2>1, <2>2
  <2>4. IdsOf(g_psUSBDevHead)' = IdsOf(lst) \cup {NewId}
    BY <2>1, <2>2 DEF IdsOf
  <2>5. IdsOwned' BY <2>4, <1>2, <1>3, <1>6 DEF IdsOwned
  <2>6. QED BY <1>4, <2>3, <2>5
<1>7. QED BY <1>5, <1>6 DEF ProbeFound

\* Deleting the first node with an id frees exactly that id.
LEMMA DeleteIds ==
  ASSUME IInv, WalkDelete
  PROVE  UniqueIds' /\ IdsOwned' /\ IdsInFlight' /\ AddFresh'
<1> USE DEF IInv, kernelVars, idVars, queueVars, probeVars, stateVars, walkVars
<1> DEFINE lst == g_psUSBDevHead
           k == FirstWith(g_psUSBDevHead, WalkId)
           new == g_psUSBDevHead'
<1>1. detect_i <= Len(lst) BY DEF WalkDelete, TidProtocol
<1>2. /\ WalkId \in Id \cup {NoId}
      /\ k \in 1..Len(lst) /\ lst[k].nDiskId = WalkId
  BY <1>1, DeleteType
<1>3. lst \in Seq(Node) /\ Len(lst) \in Nat /\ DOMAIN lst = 1..Len(lst)
  BY DEF TypeOK
<1>4. /\ new \in Seq(Node) /\ Len(new) = Len(lst) - 1
      /\ \A j \in 1..(Len(lst) - 1) :
           new[j] = IF j < k THEN lst[j] ELSE lst[j + 1]
  BY <1>2, <1>3, RemoveAtProperties DEF WalkDelete
<1>5. DOMAIN new = 1..(Len(lst) - 1) BY <1>3, <1>4
<1> HIDE DEF k, new
<1>6. UniqueIds'
  <2> SUFFICES ASSUME NEW i \in 1..(Len(lst) - 1), NEW j \in 1..(Len(lst) - 1),
                      new[i].nDiskId = new[j].nDiskId, new[i].nDiskId # NoId
               PROVE  i = j
    BY <1>5 DEF UniqueIds, new
  <2> DEFINE pos(x) == IF x < k THEN x ELSE x + 1
  <2>1. \A x \in 1..(Len(lst) - 1) :
           pos(x) \in 1..Len(lst) /\ new[x] = lst[pos(x)]
    BY <1>2, <1>3, <1>4, SMTT(30)
  <2>2. pos(i) = pos(j) BY <2>1, <1>3 DEF UniqueIds
  <2>3. QED BY <2>2, <1>2, <1>3
<1>7. IdsOf(new) \ {NoId} = IdsOf(lst) \ {NoId, WalkId}
  <2>1. ASSUME NEW j \in 1..(Len(lst) - 1), new[j].nDiskId # NoId
        PROVE  new[j].nDiskId \in IdsOf(lst) \ {NoId, WalkId}
    <3> DEFINE p == IF j < k THEN j ELSE j + 1
    <3>1. p \in 1..Len(lst) /\ new[j] = lst[p] /\ p # k
      BY <1>2, <1>3, <1>4
    <3>2. lst[p].nDiskId # WalkId
      BY <3>1, <2>1, <1>2, <1>3 DEF UniqueIds
    <3>3. QED BY <3>1, <3>2, <2>1, <1>3 DEF IdsOf
  <2>2. ASSUME NEW j \in 1..Len(lst), lst[j].nDiskId # WalkId
        PROVE  lst[j].nDiskId \in IdsOf(new)
    <3>1. CASE j < k
      <4>1. j \in 1..(Len(lst) - 1) /\ new[j] = lst[j]
        BY <3>1, <1>2, <1>3, <1>4
      <4>2. QED BY <4>1, <1>5 DEF IdsOf
    <3>2. CASE j > k
      <4>1. j - 1 \in 1..(Len(lst) - 1) /\ new[j - 1] = lst[j]
        BY <3>2, <1>2, <1>3, <1>4
      <4>2. QED BY <4>1, <1>5 DEF IdsOf
    <3>3. j # k BY <2>2, <1>2
    <3>4. QED BY <3>1, <3>2, <3>3, <1>2, <1>3
  <2>3. QED BY <2>1, <2>2, <1>3, <1>5 DEF IdsOf
<1>8. g_DevID' = g_DevID \ {WalkId} /\ g_DevID \subseteq Id /\ leaked' = leaked
  BY DEF WalkDelete, TypeOK
<1>9. IdsOwned'
  <2>1. IdsOf(g_psUSBDevHead)' = IdsOf(new) BY DEF IdsOf, new
  <2>2. QED BY <1>7, <1>8, <2>1, NoIdIsNoId DEF IdsOwned
<1>10. probe_pc' = "none"
  BY DEF WalkDelete, TidProtocol
<1>11. \/ lost' = lost /\ announced' = announced \ {WalkId}
       \/ lost' = 1 /\ "msgsnd" \in Faults
  BY DEF WalkDelete, MsgSend, Posted
<1>12. IdsInFlight' /\ AddFresh'
  BY <1>8, <1>10, <1>11 DEF IdsInFlight, AddFresh
<1>13. QED BY <1>6, <1>9, <1>12

\* The invariants on ids are preserved.
LEMMA IdsStep ==
  IInv /\ Next => UniqueIds' /\ IdsOwned' /\ IdsInFlight' /\ AddFresh'
<1> SUFFICES ASSUME IInv, Next
             PROVE  UniqueIds' /\ IdsOwned' /\ IdsInFlight' /\ AddFresh'
  OBVIOUS
<1> USE DEF IInv, kernelVars, idVars, queueVars, probeVars, stateVars, walkVars
<1>1. ASSUME UNCHANGED idVars PROVE UniqueIds' /\ IdsOwned'
  BY <1>1 DEF UniqueIds, IdsOwned, IdsOf
<1>2. ASSUME UNCHANGED <<g_DevID, announced, lost>>,
             probe_pc' = "send" => UNCHANGED <<probe_pc, probe_i, probe_id>>
      PROVE  IdsInFlight' /\ AddFresh'
  BY <1>2 DEF IdsInFlight, AddFresh
<1>3. ASSUME NEW d \in Disk, Plug(d) \/ Unplug(d)
      PROVE  UniqueIds' /\ IdsOwned' /\ IdsInFlight' /\ AddFresh'
  BY <1>1, <1>2, <1>3 DEF Plug, Unplug
<1>4. ASSUME NEW e \in Uevent, StrayEvent(e)
      PROVE  UniqueIds' /\ IdsOwned' /\ IdsInFlight' /\ AddFresh'
  BY <1>1, <1>2, <1>4 DEF StrayEvent
<1>5. CASE ProbeFound BY <1>5, FoundIds
<1>6. CASE WalkDelete BY <1>6, DeleteIds
<1>7. CASE ProbeSend
  <2>1. \/ lost' = lost /\ announced' = announced \cup {probe_id}
        \/ lost' = 1 /\ "msgsnd" \in Faults
    BY <1>7 DEF ProbeSend, MsgSend, Posted
  <2>2. probe_id # NoId => probe_id \in g_DevID
    BY <1>7 DEF ProbeSend, IdsInFlight
  <2>3. IdsInFlight' /\ AddFresh'
    BY <1>7, <2>1, <2>2 DEF ProbeSend, IdsInFlight, AddFresh
  <2>4. QED BY <1>1, <1>7, <2>3 DEF ProbeSend
<1>8. CASE ProbeAbsent BY <1>1, <1>2, <1>8 DEF ProbeAbsent
<1>9. CASE BootProbeEnd BY <1>1, <1>2, <1>9 DEF BootProbeEnd
<1>10. CASE ProbePassEnd BY <1>1, <1>2, <1>10 DEF ProbePassEnd
<1>11. CASE ProbeWake BY <1>1, <1>2, <1>11 DEF ProbeWake
<1>12. CASE ProbeExit BY <1>1, <1>2, <1>12 DEF ProbeExit
<1>13. CASE ProbeCanceled BY <1>1, <1>2, <1>13 DEF ProbeCanceled
<1>14. CASE DetectIgnore BY <1>1, <1>2, <1>14 DEF DetectIgnore, Receive
<1>15. CASE DetectGetAction BY <1>1, <1>2, <1>15 DEF DetectGetAction, Receive
<1>16. CASE DetectAdd BY <1>1, <1>2, <1>16 DEF DetectAdd, Receive
<1>17. CASE DetectRemove BY <1>1, <1>2, <1>17 DEF DetectRemove, Receive
<1>18. CASE DetectCancel BY <1>1, <1>2, <1>18 DEF DetectCancel
<1>19. CASE DetectJoin BY <1>1, <1>2, <1>19 DEF DetectJoin
<1>20. CASE WalkPresent BY <1>1, <1>2, <1>20 DEF WalkPresent
<1>21. CASE WalkAbsent BY <1>1, <1>2, <1>21 DEF WalkAbsent
<1>22. CASE WalkEnd BY <1>1, <1>2, <1>22 DEF WalkEnd
<1>23. CASE MsgRcv BY <1>1, <1>2, <1>23 DEF MsgRcv
<1>24. QED
  BY <1>3, <1>4, <1>5, <1>6, <1>7, <1>8, <1>9, <1>10, <1>11, <1>12, <1>13,
     <1>14, <1>15, <1>16, <1>17, <1>18, <1>19, <1>20, <1>21, <1>22, <1>23
     DEF Next, Kernel, ProbeThread, DetectThread

\* IInv is an invariant of mnt_usb_detect_thread and its probe threads.
THEOREM Invariance == Spec => []IInv
<1>1. ASSUME IInv, [Next]_vars PROVE IInv'
  <2>1. CASE Next
    BY <2>1, <1>1, TypeStep, TidStep, IdsStep DEF IInv
  <2>2. CASE UNCHANGED vars
    <3> USE <1>1, <2>2 DEF IInv, vars, kernelVars, idVars, queueVars, probeVars,
                           stateVars, walkVars
    <3>1. TypeOK' BY DEF TypeOK
    <3>2. TidProtocol' BY DEF TidProtocol
    <3>3. UniqueIds' /\ IdsOwned' BY DEF UniqueIds, IdsOwned, IdsOf
    <3>4. IdsInFlight' /\ AddFresh' BY DEF IdsInFlight, AddFresh
    <3>5. QED BY <3>1, <3>2, <3>3, <3>4 DEF IInv
  <2>3. QED BY <2>1, <2>2, <1>1
<1>2. QED BY <1>1, InitIInv, PTL DEF Spec

\* Every variable of the hot-plug detector keeps its type; the message queue
\* never exceeds its capacity.
THEOREM TypeCorrect == Spec => []TypeOK
BY Invariance, PTL DEF IInv

\* The detect thread never walks the device list while a probe runs.
THEOREM Exclusion == Spec => []ListExclusive
<1>1. IInv => ListExclusive
  BY DEF IInv, TidProtocol, ListExclusive
<1>2. QED BY <1>1, Invariance, PTL

\* No two nodes of the device list have the same id, unless it is the -1 that
\* mnt_usb_create_disk_id returns when all ids are taken.
THEOREM IdSafety == Spec => []UniqueIds
<1>1. IInv => UniqueIds BY DEF IInv
<1>2. QED BY <1>1, Invariance, PTL

\* The id table g_DevID and the device list agree, whatever call fails and
\* wherever the probe thread is canceled.
THEOREM TableMatchesList == Spec => []IdsOwned
<1>1. IInv => IdsOwned BY DEF IInv
<1>2. QED BY <1>1, Invariance, PTL

\* The probe thread is about to announce an id only while the receiver does not
\* know it.
THEOREM FreshlyAnnounced == Spec => []AddFresh
<1>1. IInv => AddFresh BY DEF IInv
<1>2. QED BY <1>1, Invariance, PTL

\* Without failing calls every announced id is still in the list.
THEOREM Retractable == Spec => []AnnouncedListed
<1>1. IInv => AnnouncedListed
  BY DEF IInv, IdsInFlight, IdsOwned, AnnouncedListed
<1>2. QED BY <1>1, Invariance, PTL

\* The detector implements the abstract queue: sending is an Announce or a
\* Retract, receiving is a Deliver, every other step leaves the queue alone.
THEOREM Refinement ==
  ASSUME "msgsnd" \notin Faults PROVE Spec => ImplementsDiskQueue
<1> DEFINE AV == <<msgq, announced>>
<1>1. Init => Abstract!QueueInit
  BY DEF Init, Abstract!QueueInit
<1>2. ASSUME IInv, Next PROVE Abstract!QueueNext \/ UNCHANGED AV
  <2> USE <1>2 DEF IInv, kernelVars, idVars, queueVars, probeVars, stateVars,
                   walkVars
  <2>1. CASE ProbeSend
    <3>1. probe_id \in Id \cup {NoId} BY DEF TypeOK
    <3>2. Len(msgq) < QueueCap /\ Posted([eAction |-> "add", nDiskId |-> probe_id])
      BY <2>1 DEF ProbeSend, MsgSend
    <3>3. probe_id \notin announced \/ probe_id \in {NoId}
      BY <2>1 DEF ProbeSend, AddFresh, IdsInFlight, TypeOK
    <3>4. Abstract!Announce(probe_id)
      BY <3>2, <3>3 DEF Posted, Abstract!Announce
    <3>5. QED BY <3>1, <3>4 DEF Abstract!QueueNext
  <2>2. CASE WalkDelete
    <3>1. WalkId \in Id \cup {NoId}
      BY <2>2, DeleteType DEF WalkDelete, TidProtocol
    <3>2. Len(msgq) < QueueCap /\ Posted([eAction |-> "remove", nDiskId |-> WalkId])
      BY <2>2 DEF WalkDelete, MsgSend
    <3>3. Abstract!Retract(WalkId)
      BY <3>2 DEF Posted, Abstract!Retract
    <3>4. QED BY <3>1, <3>3 DEF Abstract!QueueNext
  <2>3. CASE MsgRcv
    BY <2>3 DEF MsgRcv, Abstract!QueueNext, Abstract!Deliver
  <2>4. CASE Kernel
    BY <2>4 DEF Kernel, Plug, Unplug, StrayEvent
  <2>5. CASE ProbeThread /\ ~ProbeSend
    BY <2>5 DEF ProbeThread, ProbeAbsent, ProbeFound, BootProbeEnd,
                ProbePassEnd, ProbeWake, ProbeExit, ProbeCanceled
  <2>6. CASE DetectThread /\ ~WalkDelete
    BY <2>6 DEF DetectThread, DetectIgnore, DetectGetAction, DetectAdd,
                DetectRemove, Receive, DetectCancel, DetectJoin, WalkPresent,
                WalkAbsent, WalkEnd
  <2>7. QED BY <2>1, <2>2, <2>3, <2>4, <2>5, <2>6 DEF Next
<1>3. IInv /\ [Next]_vars => [Abstract!QueueNext]_AV
  BY <1>2 DEF vars, queueVars
<1>4. QED BY <1>1, <1>3, Invariance, PTL
       DEF Spec, Abstract!QueueSpec, ImplementsDiskQueue
=============================================================================
