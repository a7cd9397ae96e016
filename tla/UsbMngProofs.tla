---------------------------- MODULE UsbMngProofs ----------------------------
(***************************************************************************)
(* Proofs about UsbMng: its type invariant, one live query thread per disk *)
(* id, and the agreement of nRunState with what the detector announced.    *)
(*                                                                         *)
(* The last two rest on what the queue holds: between two ADDs of an id    *)
(* there is a removal (AddsSeparated), and the last message about an id    *)
(* tells whether it is announced (RetractedEnds, AnnouncedEnds).           *)
(***************************************************************************)
EXTENDS UsbMng, TLAPS, FiniteSetTheorems

USE UsbMngAssumption, DiskQueueAssumption

Msg == [eAction : {"add", "remove"}, nDiskId : DiskId]

QueueInv(q, run, ann) == /\ AddsSeparated(q, run)
                         /\ RetractedEnds(q, run, ann)
                         /\ AnnouncedEnds(q, run, ann)

\* Announcing an id that is not announced keeps the queue well formed.
LEMMA AppendAdd ==
  ASSUME NEW q \in Seq(Msg), NEW run \in [DiskId -> {0, 1}],
         NEW ann \in SUBSET DiskId, NEW i \in DiskId \ ann,
         QueueInv(q, run, ann)
  PROVE  QueueInv(Append(q, [eAction |-> "add", nDiskId |-> i]), run, ann \cup {i})
<1> DEFINE m == [eAction |-> "add", nDiskId |-> i]
           r == Append(q, m)
           n == Len(q)
<1>1. /\ Len(r) = n + 1 /\ n \in Nat
      /\ r[n + 1] = m /\ \A k \in 1..n : r[k] = q[k]
  OBVIOUS
<1> HIDE DEF r, n
<1>2. ASSUME NEW d \in DiskId, NEW k \in 1..n
      PROVE  (IsAdd(r, k, d) <=> IsAdd(q, k, d)) /\ (IsRm(r, k, d) <=> IsRm(q, k, d))
  BY <1>1 DEF IsAdd, IsRm
<1>3. ASSUME NEW d \in DiskId
      PROVE  (IsAdd(r, n + 1, d) <=> d = i) /\ ~IsRm(r, n + 1, d)
  BY <1>1 DEF IsAdd, IsRm
<1>4. AddsSeparated(r, run)
  <2> SUFFICES ASSUME NEW d \in DiskId, NEW k \in 1..Len(r), IsAdd(r, k, d)
               PROVE  /\ \A j \in 1..(k - 1) : IsAdd(r, j, d) =>
                           \E l \in (j + 1)..(k - 1) : IsRm(r, l, d)
                      /\ run[d] = 1 => \E l \in 1..(k - 1) : IsRm(r, l, d)
    BY DEF AddsSeparated
  <2>1. CASE k \in 1..n
    <3>1. ASSUME NEW j \in 1..(k - 1), IsAdd(r, j, d)
          PROVE  \E l \in (j + 1)..(k - 1) : IsRm(r, l, d)
      <4>1. j \in 1..n /\ IsAdd(q, j, d) BY <2>1, <3>1, <1>1, <1>2
      <4>2. PICK l \in (j + 1)..(k - 1) : IsRm(q, l, d)
        BY <2>1, <4>1, <1>1, <1>2 DEF QueueInv, AddsSeparated, n
      <4>3. l \in 1..n BY <2>1, <4>1, <4>2, <1>1
      <4>4. QED BY <4>2, <4>3, <1>2
    <3>2. ASSUME run[d] = 1 PROVE \E l \in 1..(k - 1) : IsRm(r, l, d)
      <4>1. PICK l \in 1..(k - 1) : IsRm(q, l, d)
        BY <2>1, <3>2, <1>1, <1>2 DEF QueueInv, AddsSeparated, n
      <4>2. l \in 1..n BY <2>1, <4>1, <1>1
      <4>3. QED BY <4>1, <4>2, <1>2
    <3>3. QED BY <3>1, <3>2
  <2>2. CASE k = n + 1
    <3>0. d \in DiskId \ ann /\ k - 1 = n BY <2>2, <1>1, <1>3
    <3>1. ASSUME NEW j \in 1..(k - 1), IsAdd(r, j, d)
          PROVE  \E l \in (j + 1)..(k - 1) : IsRm(r, l, d)
      <4>1. j \in 1..n /\ IsAdd(q, j, d) BY <3>0, <3>1, <1>1, <1>2
      <4>2. PICK l \in (j + 1)..(k - 1) : IsRm(q, l, d)
        BY <3>0, <4>1, <1>1, <1>2 DEF QueueInv, RetractedEnds, n
      <4>3. l \in 1..n BY <3>0, <4>1, <4>2, <1>1
      <4>4. QED BY <4>2, <4>3, <1>2
    <3>2. ASSUME run[d] = 1 PROVE \E l \in 1..(k - 1) : IsRm(r, l, d)
      <4>1. PICK l \in 1..(k - 1) : IsRm(q, l, d)
        BY <3>0, <3>2, <1>1, <1>2 DEF QueueInv, RetractedEnds, n
      <4>2. l \in 1..n BY <3>0, <4>1, <1>1
      <4>3. QED BY <4>1, <4>2, <1>2
    <3>3. QED BY <3>1, <3>2
  <2>3. QED BY <2>1, <2>2, <1>1
<1>5. RetractedEnds(r, run, ann \cup {i})
  <2> SUFFICES ASSUME NEW d \in DiskId \ (ann \cup {i})
               PROVE  /\ \A k \in 1..Len(r) : IsAdd(r, k, d) =>
                           \E l \in (k + 1)..Len(r) : IsRm(r, l, d)
                      /\ run[d] = 1 => \E l \in 1..Len(r) : IsRm(r, l, d)
    BY DEF RetractedEnds
  <2>1. d # i OBVIOUS
  <2>2. QED
    <3>1. ASSUME NEW k \in 1..Len(r), IsAdd(r, k, d)
          PROVE  \E l \in (k + 1)..Len(r) : IsRm(r, l, d)
      <4>1. k \in 1..n /\ IsAdd(q, k, d) BY <2>1, <3>1, <1>1, <1>2, <1>3
      <4>2. PICK l \in (k + 1)..n : IsRm(q, l, d)
        BY <2>1, <4>1 DEF QueueInv, RetractedEnds, n
      <4>3. l \in 1..n /\ l \in (k + 1)..Len(r) BY <4>1, <4>2, <1>1
      <4>4. QED BY <4>2, <4>3, <1>2
    <3>2. ASSUME run[d] = 1 PROVE \E l \in 1..Len(r) : IsRm(r, l, d)
      <4>1. PICK l \in 1..n : IsRm(q, l, d)
        BY <2>1, <3>2 DEF QueueInv, RetractedEnds, n
      <4>2. l \in 1..Len(r) BY <4>1, <1>1
      <4>3. QED BY <4>1, <4>2, <1>2
    <3>3. QED BY <3>1, <3>2
<1>6. AnnouncedEnds(r, run, ann \cup {i})
  <2> SUFFICES ASSUME NEW d \in ann \cup {i}
               PROVE  /\ \A k \in 1..Len(r) : IsRm(r, k, d) =>
                           \E l \in (k + 1)..Len(r) : IsAdd(r, l, d)
                      /\ run[d] = 0 => \E l \in 1..Len(r) : IsAdd(r, l, d)
    BY DEF AnnouncedEnds
  <2>1. CASE d = i
    <3>1. IsAdd(r, n + 1, d) BY <2>1, <1>3
    <3>2. \A k \in 1..Len(r) : IsRm(r, k, d) => n + 1 \in (k + 1)..Len(r)
      BY <2>1, <1>1, <1>3
    <3>3. n + 1 \in 1..Len(r) BY <1>1
    <3>4. QED BY <3>1, <3>2, <3>3
  <2>2. CASE d # i
    <3>1. ASSUME NEW k \in 1..Len(r), IsRm(r, k, d)
          PROVE  \E l \in (k + 1)..Len(r) : IsAdd(r, l, d)
      <4>1. k \in 1..n /\ IsRm(q, k, d) BY <2>2, <3>1, <1>1, <1>2, <1>3
      <4>2. PICK l \in (k + 1)..n : IsAdd(q, l, d)
        BY <2>2, <4>1 DEF QueueInv, AnnouncedEnds, n
      <4>3. l \in 1..n /\ l \in (k + 1)..Len(r) BY <4>1, <4>2, <1>1
      <4>4. QED BY <4>2, <4>3, <1>2
    <3>2. ASSUME run[d] = 0 PROVE \E l \in 1..Len(r) : IsAdd(r, l, d)
      <4>1. PICK l \in 1..n : IsAdd(q, l, d)
        BY <2>2, <3>2 DEF QueueInv, AnnouncedEnds, n
      <4>2. l \in 1..Len(r) BY <4>1, <1>1
      <4>3. QED BY <4>1, <4>2, <1>2
    <3>3. QED BY <3>1, <3>2
  <2>3. QED BY <2>1, <2>2
<1>7. QED BY <1>4, <1>5, <1>6 DEF QueueInv, r

\* So does a removal.
LEMMA AppendRm ==
  ASSUME NEW q \in Seq(Msg), NEW run \in [DiskId -> {0, 1}],
         NEW ann \in SUBSET DiskId, NEW i \in DiskId,
         QueueInv(q, run, ann)
  PROVE  QueueInv(Append(q, [eAction |-> "remove", nDiskId |-> i]), run, ann \ {i})
<1> DEFINE m == [eAction |-> "remove", nDiskId |-> i]
           r == Append(q, m)
           n == Len(q)
<1>1. /\ Len(r) = n + 1 /\ n \in Nat
      /\ r[n + 1] = m /\ \A k \in 1..n : r[k] = q[k]
  OBVIOUS
<1> HIDE DEF r, n
<1>2. ASSUME NEW d \in DiskId, NEW k \in 1..n
      PROVE  (IsAdd(r, k, d) <=> IsAdd(q, k, d)) /\ (IsRm(r, k, d) <=> IsRm(q, k, d))
  BY <1>1 DEF IsAdd, IsRm
<1>3. ASSUME NEW d \in DiskId
      PROVE  (IsRm(r, n + 1, d) <=> d = i) /\ ~IsAdd(r, n + 1, d)
  BY <1>1 DEF IsAdd, IsRm
<1>4. AddsSeparated(r, run)
  <2> SUFFICES ASSUME NEW d \in DiskId, NEW k \in 1..Len(r), IsAdd(r, k, d)
               PROVE  /\ \A j \in 1..(k - 1) : IsAdd(r, j, d) =>
                           \E l \in (j + 1)..(k - 1) : IsRm(r, l, d)
                      /\ run[d] = 1 => \E l \in 1..(k - 1) : IsRm(r, l, d)
    BY DEF AddsSeparated
  <2>1. k \in 1..n BY <1>1, <1>3
  <2>2. QED
    <3>1. ASSUME NEW j \in 1..(k - 1), IsAdd(r, j, d)
          PROVE  \E l \in (j + 1)..(k - 1) : IsRm(r, l, d)
      <4>1. j \in 1..n /\ IsAdd(q, j, d) BY <2>1, <3>1, <1>1, <1>2
      <4>2. PICK l \in (j + 1)..(k - 1) : IsRm(q, l, d)
        BY <2>1, <4>1, <1>1, <1>2 DEF QueueInv, AddsSeparated, n
      <4>3. l \in 1..n BY <2>1, <4>1, <4>2, <1>1
      <4>4. QED BY <4>2, <4>3, <1>2
    <3>2. ASSUME run[d] = 1 PROVE \E l \in 1..(k - 1) : IsRm(r, l, d)
      <4>1. PICK l \in 1..(k - 1) : IsRm(q, l, d)
        BY <2>1, <3>2, <1>1, <1>2 DEF QueueInv, AddsSeparated, n
      <4>2. l \in 1..n BY <2>1, <4>1, <1>1
      <4>3. QED BY <4>1, <4>2, <1>2
    <3>3. QED BY <3>1, <3>2
<1>5. RetractedEnds(r, run, ann \ {i})
  <2> SUFFICES ASSUME NEW d \in DiskId \ (ann \ {i})
               PROVE  /\ \A k \in 1..Len(r) : IsAdd(r, k, d) =>
                           \E l \in (k + 1)..Len(r) : IsRm(r, l, d)
                      /\ run[d] = 1 => \E l \in 1..Len(r) : IsRm(r, l, d)
    BY DEF RetractedEnds
  <2>1. CASE d = i
    <3>1. IsRm(r, n + 1, d) BY <2>1, <1>3
    <3>2. \A k \in 1..Len(r) : IsAdd(r, k, d) => n + 1 \in (k + 1)..Len(r)
      BY <2>1, <1>1, <1>3
    <3>3. n + 1 \in 1..Len(r) BY <1>1
    <3>4. QED BY <3>1, <3>2, <3>3
  <2>2. CASE d # i
    <3>1. ASSUME NEW k \in 1..Len(r), IsAdd(r, k, d)
          PROVE  \E l \in (k + 1)..Len(r) : IsRm(r, l, d)
      <4>1. k \in 1..n /\ IsAdd(q, k, d) BY <2>2, <3>1, <1>1, <1>2, <1>3
      <4>2. PICK l \in (k + 1)..n : IsRm(q, l, d)
        BY <2>2, <4>1 DEF QueueInv, RetractedEnds, n
      <4>3. l \in 1..n /\ l \in (k + 1)..Len(r) BY <4>1, <4>2, <1>1
      <4>4. QED BY <4>2, <4>3, <1>2
    <3>2. ASSUME run[d] = 1 PROVE \E l \in 1..Len(r) : IsRm(r, l, d)
      <4>1. PICK l \in 1..n : IsRm(q, l, d)
        BY <2>2, <3>2 DEF QueueInv, RetractedEnds, n
      <4>2. l \in 1..Len(r) BY <4>1, <1>1
      <4>3. QED BY <4>1, <4>2, <1>2
    <3>3. QED BY <3>1, <3>2
  <2>3. QED BY <2>1, <2>2
<1>6. AnnouncedEnds(r, run, ann \ {i})
  <2> SUFFICES ASSUME NEW d \in ann \ {i}
               PROVE  /\ \A k \in 1..Len(r) : IsRm(r, k, d) =>
                           \E l \in (k + 1)..Len(r) : IsAdd(r, l, d)
                      /\ run[d] = 0 => \E l \in 1..Len(r) : IsAdd(r, l, d)
    BY DEF AnnouncedEnds
  <2>1. d # i OBVIOUS
  <2>2. QED
    <3>1. ASSUME NEW k \in 1..Len(r), IsRm(r, k, d)
          PROVE  \E l \in (k + 1)..Len(r) : IsAdd(r, l, d)
      <4>1. k \in 1..n /\ IsRm(q, k, d) BY <2>1, <3>1, <1>1, <1>2, <1>3
      <4>2. PICK l \in (k + 1)..n : IsAdd(q, l, d)
        BY <2>1, <4>1 DEF QueueInv, AnnouncedEnds, n
      <4>3. l \in 1..n /\ l \in (k + 1)..Len(r) BY <4>1, <4>2, <1>1
      <4>4. QED BY <4>2, <4>3, <1>2
    <3>2. ASSUME run[d] = 0 PROVE \E l \in 1..Len(r) : IsAdd(r, l, d)
      <4>1. PICK l \in 1..n : IsAdd(q, l, d)
        BY <2>1, <3>2 DEF QueueInv, AnnouncedEnds, n
      <4>2. l \in 1..Len(r) BY <4>1, <1>1
      <4>3. QED BY <4>1, <4>2, <1>2
    <3>3. QED BY <3>1, <3>2
<1>7. QED BY <1>4, <1>5, <1>6 DEF QueueInv, r

\* So does receiving an ADD, whose id is not running before.
LEMMA TailAdd ==
  ASSUME NEW q \in Seq(Msg), NEW run \in [DiskId -> {0, 1}],
         NEW ann \in SUBSET DiskId, q # <<>>, Head(q).eAction = "add",
         QueueInv(q, run, ann)
  PROVE  /\ run[Head(q).nDiskId] = 0
         /\ QueueInv(Tail(q), [run EXCEPT ![Head(q).nDiskId] = 1], ann)
<1> DEFINE i == Head(q).nDiskId
           s == [run EXCEPT ![i] = 1]
           r == Tail(q)
<1>1. /\ Len(q) \in Nat \ {0} /\ Len(r) = Len(q) - 1
      /\ \A k \in 1..Len(r) : r[k] = q[k + 1]
      /\ i \in DiskId /\ IsAdd(q, 1, i)
  <2>1. Len(q) \in Nat \ {0} /\ q[1] \in Msg /\ Head(q) = q[1]
    <3>1. Len(q) \in Nat \ {0} OBVIOUS
    <3>2. 1 \in 1..Len(q) BY <3>1
    <3>3. QED BY <3>1, <3>2
  <2>2. Len(r) = Len(q) - 1 /\ \A k \in 1..Len(r) : r[k] = q[k + 1]
    BY <2>1
  <2>3. QED BY <2>1, <2>2 DEF IsAdd, Msg
<1>2. s[i] = 1 /\ \A j \in DiskId : j # i => s[j] = run[j]
  BY <1>1
<1> HIDE DEF r, s, i
<1>s. \A l \in 2..Len(q) : r[l - 1] = q[l]
  BY <1>1
<1>3. run[i] = 0
  BY <1>1 DEF QueueInv, AddsSeparated
<1>4. AddsSeparated(r, s)
  <2> SUFFICES ASSUME NEW d \in DiskId, NEW k \in 1..Len(r), IsAdd(r, k, d)
               PROVE  /\ \A j \in 1..(k - 1) : IsAdd(r, j, d) =>
                           \E l \in (j + 1)..(k - 1) : IsRm(r, l, d)
                      /\ s[d] = 1 => \E l \in 1..(k - 1) : IsRm(r, l, d)
    BY DEF AddsSeparated
  <2>1. IsAdd(q, k + 1, d) /\ k + 1 \in 1..Len(q) BY <1>1 DEF IsAdd
  <2>2. ASSUME NEW j \in 1..(k - 1), IsAdd(r, j, d)
        PROVE  \E l \in (j + 1)..(k - 1) : IsRm(r, l, d)
    <3>0. j \in 1..Len(r) BY <1>1
    <3>1. IsAdd(q, j + 1, d) BY <1>1, <2>2, <3>0 DEF IsAdd
    <3>2. PICK l \in (j + 2)..k : IsRm(q, l, d)
      BY <1>1, <2>1, <3>1 DEF QueueInv, AddsSeparated
    <3>3. l - 1 \in (j + 1)..(k - 1) /\ IsRm(r, l - 1, d)
      <4>1. l - 1 \in (j + 1)..(k - 1) /\ l \in 2..Len(q) BY <1>1, <3>2
      <4>2. r[l - 1] = q[l] BY <1>s, <4>1
      <4>3. QED BY <4>1, <4>2, <3>2 DEF IsRm
    <3>4. QED BY <3>3
  <2>3. ASSUME s[d] = 1
        PROVE  \E l \in 1..(k - 1) : IsRm(r, l, d)
    <3>1. PICK l \in 2..k : IsRm(q, l, d)
      <4>1. CASE d = i
        BY <4>1, <1>1, <2>1 DEF QueueInv, AddsSeparated
      <4>2. CASE d # i
        <5>1. PICK l \in 1..k : IsRm(q, l, d)
          BY <4>2, <1>1, <1>2, <2>1, <2>3 DEF QueueInv, AddsSeparated
        <5>2. l # 1 BY <5>1, <1>1 DEF IsRm, IsAdd
        <5>3. QED BY <5>1, <5>2
      <4>3. QED BY <4>1, <4>2
    <3>2. l - 1 \in 1..(k - 1) /\ IsRm(r, l - 1, d)
      <4>1. l - 1 \in 1..(k - 1) /\ l \in 2..Len(q) BY <1>1, <3>1
      <4>2. r[l - 1] = q[l] BY <1>s, <4>1
      <4>3. QED BY <4>1, <4>2, <3>1 DEF IsRm
    <3>3. QED BY <3>2
  <2>4. QED BY <2>2, <2>3
<1>5. RetractedEnds(r, s, ann)
  <2> SUFFICES ASSUME NEW d \in DiskId \ ann
               PROVE  /\ \A k \in 1..Len(r) : IsAdd(r, k, d) =>
                           \E l \in (k + 1)..Len(r) : IsRm(r, l, d)
                      /\ s[d] = 1 => \E l \in 1..Len(r) : IsRm(r, l, d)
    BY DEF RetractedEnds
  <2>1. ASSUME NEW k \in 1..Len(r), IsAdd(r, k, d)
        PROVE  \E l \in (k + 1)..Len(r) : IsRm(r, l, d)
    <3>1. IsAdd(q, k + 1, d) /\ k + 1 \in 1..Len(q) BY <1>1, <2>1 DEF IsAdd
    <3>2. PICK l \in (k + 2)..Len(q) : IsRm(q, l, d)
      BY <1>1, <3>1 DEF QueueInv, RetractedEnds
    <3>3. l - 1 \in (k + 1)..Len(r) /\ IsRm(r, l - 1, d)
      <4>1. l - 1 \in (k + 1)..Len(r) /\ l \in 2..Len(q) BY <1>1, <3>2
      <4>2. r[l - 1] = q[l] BY <1>s, <4>1
      <4>3. QED BY <4>1, <4>2, <3>2 DEF IsRm
    <3>4. QED BY <3>3
  <2>2. ASSUME s[d] = 1 PROVE \E l \in 1..Len(r) : IsRm(r, l, d)
    <3>1. PICK l \in 1..Len(q) : IsRm(q, l, d)
      BY <1>1, <1>2, <2>2 DEF QueueInv, RetractedEnds
    <3>2. l # 1 BY <3>1, <1>1 DEF IsRm, IsAdd
    <3>3. l - 1 \in 1..Len(r) /\ IsRm(r, l - 1, d)
      <4>1. l - 1 \in 1..Len(r) /\ l \in 2..Len(q) BY <1>1, <3>1, <3>2
      <4>2. r[l - 1] = q[l] BY <1>s, <4>1
      <4>3. QED BY <4>1, <4>2, <3>1, <3>2 DEF IsRm
    <3>4. QED BY <3>3
  <2>3. QED BY <2>1, <2>2
<1>6. AnnouncedEnds(r, s, ann)
  <2> SUFFICES ASSUME NEW d \in ann
               PROVE  /\ \A k \in 1..Len(r) : IsRm(r, k, d) =>
                           \E l \in (k + 1)..Len(r) : IsAdd(r, l, d)
                      /\ s[d] = 0 => \E l \in 1..Len(r) : IsAdd(r, l, d)
    BY DEF AnnouncedEnds
  <2>1. ASSUME NEW k \in 1..Len(r), IsRm(r, k, d)
        PROVE  \E l \in (k + 1)..Len(r) : IsAdd(r, l, d)
    <3>1. IsRm(q, k + 1, d) /\ k + 1 \in 1..Len(q) BY <1>1, <2>1 DEF IsRm
    <3>2. PICK l \in (k + 2)..Len(q) : IsAdd(q, l, d)
      BY <1>1, <3>1 DEF QueueInv, AnnouncedEnds
    <3>3. l - 1 \in (k + 1)..Len(r) /\ IsAdd(r, l - 1, d)
      <4>1. l - 1 \in (k + 1)..Len(r) /\ l \in 2..Len(q) BY <1>1, <3>2
      <4>2. r[l - 1] = q[l] BY <1>s, <4>1
      <4>3. QED BY <4>1, <4>2, <3>2 DEF IsAdd
    <3>4. QED BY <3>3
  <2>2. ASSUME s[d] = 0 PROVE \E l \in 1..Len(r) : IsAdd(r, l, d)
    <3>1. d # i /\ run[d] = 0 BY <1>2, <2>2
    <3>2. PICK l \in 1..Len(q) : IsAdd(q, l, d)
      BY <3>1 DEF QueueInv, AnnouncedEnds
    <3>3. l # 1 BY <3>1, <3>2, <1>1 DEF IsAdd
    <3>4. l - 1 \in 1..Len(r) /\ IsAdd(r, l - 1, d)
      <4>1. l - 1 \in 1..Len(r) /\ l \in 2..Len(q) BY <1>1, <3>2, <3>3
      <4>2. r[l - 1] = q[l] BY <1>s, <4>1
      <4>3. QED BY <4>1, <4>2, <3>2, <3>3 DEF IsAdd
    <3>5. QED BY <3>4
  <2>3. QED BY <2>1, <2>2
<1>7. QED BY <1>3, <1>4, <1>5, <1>6 DEF QueueInv, r, s, i

\* So does receiving a removal.
LEMMA TailRm ==
  ASSUME NEW q \in Seq(Msg), NEW run \in [DiskId -> {0, 1}],
         NEW ann \in SUBSET DiskId, q # <<>>, Head(q).eAction = "remove",
         QueueInv(q, run, ann)
  PROVE  QueueInv(Tail(q), [run EXCEPT ![Head(q).nDiskId] = 0], ann)
<1> DEFINE i == Head(q).nDiskId
           s == [run EXCEPT ![i] = 0]
           r == Tail(q)
<1>1. /\ Len(q) \in Nat \ {0} /\ Len(r) = Len(q) - 1
      /\ \A k \in 1..Len(r) : r[k] = q[k + 1]
      /\ i \in DiskId /\ IsRm(q, 1, i)
  <2>1. Len(q) \in Nat \ {0} /\ q[1] \in Msg /\ Head(q) = q[1]
    <3>1. Len(q) \in Nat \ {0} OBVIOUS
    <3>2. 1 \in 1..Len(q) BY <3>1
    <3>3. QED BY <3>1, <3>2
  <2>2. Len(r) = Len(q) - 1 /\ \A k \in 1..Len(r) : r[k] = q[k + 1]
    BY <2>1
  <2>3. QED BY <2>1, <2>2 DEF IsRm, Msg
<1>2. s[i] = 0 /\ \A j \in DiskId : j # i => s[j] = run[j]
  BY <1>1
<1> HIDE DEF r, s, i
<1>s. \A l \in 2..Len(q) : r[l - 1] = q[l]
  BY <1>1
<1>3. AddsSeparated(r, s)
  <2> SUFFICES ASSUME NEW d \in DiskId, NEW k \in 1..Len(r), IsAdd(r, k, d)
               PROVE  /\ \A j \in 1..(k - 1) : IsAdd(r, j, d) =>
                           \E l \in (j + 1)..(k - 1) : IsRm(r, l, d)
                      /\ s[d] = 1 => \E l \in 1..(k - 1) : IsRm(r, l, d)
    BY DEF AddsSeparated
  <2>1. IsAdd(q, k + 1, d) /\ k + 1 \in 1..Len(q) BY <1>1 DEF IsAdd
  <2>2. ASSUME NEW j \in 1..(k - 1), IsAdd(r, j, d)
        PROVE  \E l \in (j + 1)..(k - 1) : IsRm(r, l, d)
    <3>0. j \in 1..Len(r) BY <1>1
    <3>1. IsAdd(q, j + 1, d) BY <1>1, <2>2, <3>0 DEF IsAdd
    <3>2. PICK l \in (j + 2)..k : IsRm(q, l, d)
      BY <1>1, <2>1, <3>1 DEF QueueInv, AddsSeparated
    <3>3. l - 1 \in (j + 1)..(k - 1) /\ IsRm(r, l - 1, d)
      <4>1. l - 1 \in (j + 1)..(k - 1) /\ l \in 2..Len(q) BY <1>1, <3>2
      <4>2. r[l - 1] = q[l] BY <1>s, <4>1
      <4>3. QED BY <4>1, <4>2, <3>2 DEF IsRm
    <3>4. QED BY <3>3
  <2>3. ASSUME s[d] = 1
        PROVE  \E l \in 1..(k - 1) : IsRm(r, l, d)
    <3>1. d # i /\ run[d] = 1 BY <1>2, <2>3
    <3>2. PICK l \in 1..k : IsRm(q, l, d)
      BY <3>1, <1>1, <2>1 DEF QueueInv, AddsSeparated
    <3>3. l # 1 BY <3>1, <3>2, <1>1 DEF IsRm
    <3>4. l - 1 \in 1..(k - 1) /\ IsRm(r, l - 1, d)
      <4>1. l - 1 \in 1..(k - 1) /\ l \in 2..Len(q) BY <1>1, <3>2, <3>3
      <4>2. r[l - 1] = q[l] BY <1>s, <4>1
      <4>3. QED BY <4>1, <4>2, <3>2, <3>3 DEF IsRm
    <3>5. QED BY <3>4
  <2>4. QED BY <2>2, <2>3
<1>4. RetractedEnds(r, s, ann)
  <2> SUFFICES ASSUME NEW d \in DiskId \ ann
               PROVE  /\ \A k \in 1..Len(r) : IsAdd(r, k, d) =>
                           \E l \in (k + 1)..Len(r) : IsRm(r, l, d)
                      /\ s[d] = 1 => \E l \in 1..Len(r) : IsRm(r, l, d)
    BY DEF RetractedEnds
  <2>1. ASSUME NEW k \in 1..Len(r), IsAdd(r, k, d)
        PROVE  \E l \in (k + 1)..Len(r) : IsRm(r, l, d)
    <3>1. IsAdd(q, k + 1, d) /\ k + 1 \in 1..Len(q) BY <1>1, <2>1 DEF IsAdd
    <3>2. PICK l \in (k + 2)..Len(q) : IsRm(q, l, d)
      BY <1>1, <3>1 DEF QueueInv, RetractedEnds
    <3>3. l - 1 \in (k + 1)..Len(r) /\ IsRm(r, l - 1, d)
      <4>1. l - 1 \in (k + 1)..Len(r) /\ l \in 2..Len(q) BY <1>1, <3>2
      <4>2. r[l - 1] = q[l] BY <1>s, <4>1
      <4>3. QED BY <4>1, <4>2, <3>2 DEF IsRm
    <3>4. QED BY <3>3
  <2>2. ASSUME s[d] = 1 PROVE \E l \in 1..Len(r) : IsRm(r, l, d)
    <3>1. d # i /\ run[d] = 1 BY <1>2, <2>2
    <3>2. PICK l \in 1..Len(q) : IsRm(q, l, d)
      BY <3>1 DEF QueueInv, RetractedEnds
    <3>3. l # 1 BY <3>1, <3>2, <1>1 DEF IsRm
    <3>4. l - 1 \in 1..Len(r) /\ IsRm(r, l - 1, d)
      <4>1. l - 1 \in 1..Len(r) /\ l \in 2..Len(q) BY <1>1, <3>2, <3>3
      <4>2. r[l - 1] = q[l] BY <1>s, <4>1
      <4>3. QED BY <4>1, <4>2, <3>2, <3>3 DEF IsRm
    <3>5. QED BY <3>4
  <2>3. QED BY <2>1, <2>2
<1>5. AnnouncedEnds(r, s, ann)
  <2> SUFFICES ASSUME NEW d \in ann
               PROVE  /\ \A k \in 1..Len(r) : IsRm(r, k, d) =>
                           \E l \in (k + 1)..Len(r) : IsAdd(r, l, d)
                      /\ s[d] = 0 => \E l \in 1..Len(r) : IsAdd(r, l, d)
    BY DEF AnnouncedEnds
  <2>1. ASSUME NEW k \in 1..Len(r), IsRm(r, k, d)
        PROVE  \E l \in (k + 1)..Len(r) : IsAdd(r, l, d)
    <3>1. IsRm(q, k + 1, d) /\ k + 1 \in 1..Len(q) BY <1>1, <2>1 DEF IsRm
    <3>2. PICK l \in (k + 2)..Len(q) : IsAdd(q, l, d)
      BY <1>1, <3>1 DEF QueueInv, AnnouncedEnds
    <3>3. l - 1 \in (k + 1)..Len(r) /\ IsAdd(r, l - 1, d)
      <4>1. l - 1 \in (k + 1)..Len(r) /\ l \in 2..Len(q) BY <1>1, <3>2
      <4>2. r[l - 1] = q[l] BY <1>s, <4>1
      <4>3. QED BY <4>1, <4>2, <3>2 DEF IsAdd
    <3>4. QED BY <3>3
  <2>2. ASSUME s[d] = 0 PROVE \E l \in 1..Len(r) : IsAdd(r, l, d)
    <3>1. PICK l \in 2..Len(q) : IsAdd(q, l, d)
      <4>1. CASE d = i
        BY <4>1, <1>1 DEF QueueInv, AnnouncedEnds
      <4>2. CASE d # i
        <5>1. PICK l \in 1..Len(q) : IsAdd(q, l, d)
          BY <4>2, <1>2, <2>2 DEF QueueInv, AnnouncedEnds
        <5>2. l # 1 BY <5>1, <1>1 DEF IsRm, IsAdd
        <5>3. QED BY <5>1, <5>2
      <4>3. QED BY <4>1, <4>2
    <3>2. l - 1 \in 1..Len(r) /\ IsAdd(r, l - 1, d)
      <4>1. l - 1 \in 1..Len(r) /\ l \in 2..Len(q) BY <1>1, <3>1
      <4>2. r[l - 1] = q[l] BY <1>s, <4>1
      <4>3. QED BY <4>1, <4>2, <3>1 DEF IsAdd
    <3>3. QED BY <3>2
  <2>3. QED BY <2>1, <2>2
<1>6. QED BY <1>3, <1>4, <1>5 DEF QueueInv, r, s, i

-----------------------------------------------------------------------------
(* The inductive invariant. *)

LEMMA InitIInv == Init => IInv
<1> SUFFICES ASSUME Init PROVE IInv OBVIOUS
<1> USE DEF Init, QueueInit
<1>1. TypeOK BY DEF TypeOK, Stat, PC, Entry, Part, Thread
<1>2. QueryOwned BY DEF QueryOwned, Live
<1>3. Len(msgq) = 0 OBVIOUS
<1>4. /\ AddsSeparated(msgq, nRunState)
      /\ RetractedEnds(msgq, nRunState, announced)
      /\ AnnouncedEnds(msgq, nRunState, announced)
  BY <1>3 DEF AddsSeparated, RetractedEnds, AnnouncedEnds
<1>5. QED BY <1>1, <1>2, <1>4 DEF IInv

\* The size of a mount log is at most the number of partitions.
LEMMA LogSize ==
  ASSUME NEW S \in SUBSET Part
  PROVE  Cardinality(S) \in 0..NParts
<1>1. IsFiniteSet(Part) /\ Cardinality(Part) = NParts
  <2>1. IsFiniteSet(1..NParts) BY FS_Interval
  <2>2. Cardinality(1..NParts) = NParts BY FS_Interval
  <2>3. QED BY <2>1, <2>2 DEF Part
<1>2. IsFiniteSet(S) /\ Cardinality(S) <= Cardinality(Part) BY <1>1, FS_Subset
<1>3. Cardinality(S) \in Nat BY <1>2, FS_CardinalityType
<1>4. QED BY <1>1, <1>2, <1>3

\* What the common tail of a poll does to the variables it changes.
LEMMA ResultType ==
  ASSUME TypeOK, NEW t \in Thread, NEW ok \in BOOLEAN, Result(t, ok)
  PROVE  /\ pc' = [pc EXCEPT ![t] = "loop"]
         /\ flag' \in [Thread -> {0, 1}] /\ ticks' \in [Thread -> 0..Timeout]
         /\ detect_stat' \in [DiskId -> Stat]
<1> USE DEF TypeOK, Result, Goto
<1>1. pc' = [pc EXCEPT ![t] = "loop"] OBVIOUS
<1>2. flag' \in [Thread -> {0, 1}] OBVIOUS
<1>3. ticks' \in [Thread -> 0..Timeout] OBVIOUS
<1>4. detect_stat' \in [DiskId -> Stat] BY DEF Stat
<1>5. QED BY <1>1, <1>2, <1>3, <1>4

\* What a query thread inserts are entries.
LEMMA CollectedType ==
  ASSUME TypeOK, QueryOwned, NEW t \in Thread, pc[t] # "none",
         NEW a \in Collected(t)
  PROVE  a \in [Part -> Entry]
<1>1. disk[t] \in DiskId BY DEF TypeOK, QueryOwned
<1>2. \A p \in Part : Filled(t, p) \in Entry
  BY <1>1 DEF Filled, Mounted, Entry
<1>3. QED BY <1>2 DEF Collected
\* Appending to the queue keeps its type ...
LEMMA SendType ==
  ASSUME TypeOK, NEW i \in DiskId, Announce(i) \/ Retract(i)
  PROVE  /\ msgq' \in Seq(Msg) /\ Len(msgq') <= Capacity
         /\ announced' \subseteq DiskId
<1>1. msgq \in Seq(Msg) /\ announced \subseteq DiskId BY DEF TypeOK, Msg
<1>2. PICK m \in Msg : Len(msgq) < Capacity /\ msgq' = Append(msgq, m)
  <2>1. /\ [eAction |-> "add", nDiskId |-> i] \in Msg
        /\ [eAction |-> "remove", nDiskId |-> i] \in Msg
    BY DEF Msg
  <2>2. QED BY <2>1 DEF Announce, Retract
<1>3. announced' \subseteq DiskId BY <1>1 DEF Announce, Retract
<1>4. msgq' \in Seq(Msg) /\ Len(msgq') = Len(msgq) + 1 BY <1>1, <1>2
<1>5. Len(msgq) \in Nat BY <1>1
<1>6. QED BY <1>2, <1>3, <1>4, <1>5

\* ... and so does receiving from it.
LEMMA DeliverType ==
  ASSUME TypeOK, Deliver
  PROVE  /\ msgq' \in Seq(Msg) /\ Len(msgq') <= Capacity
         /\ announced' = announced /\ Head(msgq).nDiskId \in DiskId
<1>1. msgq \in Seq(Msg) /\ Len(msgq) <= Capacity BY DEF TypeOK, Msg
<1>2. msgq # <<>> /\ msgq' = Tail(msgq) /\ announced' = announced BY DEF Deliver
<1>3. Len(msgq) \in Nat \ {0} BY <1>1, <1>2
<1>4. msgq' \in Seq(Msg) /\ Len(msgq') = Len(msgq) - 1 BY <1>1, <1>2
<1>5. Head(msgq) \in Msg BY <1>1, <1>2
<1>6. Head(msgq).nDiskId \in DiskId BY <1>5 DEF Msg
<1>7. QED BY <1>1, <1>2, <1>3, <1>4, <1>6

LEMMA TypeStep == IInv /\ Next => TypeOK'
<1> SUFFICES ASSUME IInv, Next PROVE TypeOK' OBVIOUS
<1>0. TypeOK /\ QueryOwned BY DEF IInv
<1> USE <1>0 DEF envVars, slotVars, sizeVars, threadVars
<1>1. ASSUME NEW i \in DiskId, Plug(i) \/ Unplug(i) PROVE TypeOK'
  BY <1>1, SendType DEF Plug, Unplug, TypeOK, Msg
<1>2. ASSUME NEW i \in DiskId, Pull(i) PROVE TypeOK'
  BY <1>2 DEF Pull, TypeOK
<1>3. ASSUME NEW i \in DiskId, NEW p \in Part, Mount(i, p) PROVE TypeOK'
  BY <1>3 DEF Mount, TypeOK
<1>4. CASE RcvAdd
  <2> DEFINE i == Head(msgq).nDiskId
             t == nthreads + 1
  <2>1. i \in DiskId /\ t \in Thread
    <3>1. Deliver /\ nthreads < MaxPlugs BY <1>4 DEF RcvAdd
    <3>2. nthreads \in 0..MaxPlugs BY DEF TypeOK
    <3>3. i \in DiskId BY <3>1, DeliverType
    <3>4. QED BY <3>1, <3>2, <3>3 DEF Thread
  <2> HIDE DEF i, t
  <2>2. /\ nRunState' = [nRunState EXCEPT ![i] = 1]
        /\ detect_stat' = [detect_stat EXCEPT ![i] = "PLUG_IN"]
        /\ nthreads' = t
        /\ \/ /\ tid' = [tid EXCEPT ![i] = t]
              /\ pc' = [pc EXCEPT ![t] = "start"]
              /\ disk' = [disk EXCEPT ![t] = i]
           \/ UNCHANGED <<tid, pc, disk>>
    BY <1>4 DEF RcvAdd, i, t
  <2>3. nthreads' \in 0..MaxPlugs BY <2>1, <2>2 DEF Thread
  <2>4. msgq' \in Seq(Msg) /\ Len(msgq') <= Capacity /\ announced' = announced
    BY <1>4, DeliverType DEF RcvAdd
  <2>5. /\ nRunState' \in [DiskId -> {0, 1}]
        /\ detect_stat' \in [DiskId -> Stat]
        /\ tid' \in [DiskId -> Thread \cup {0}]
        /\ pc' \in [Thread -> PC] /\ disk' \in [Thread -> DiskId \cup {0}]
    <3>1. nRunState' \in [DiskId -> {0, 1}] BY <2>2 DEF TypeOK
    <3>2. "PLUG_IN" \in Stat /\ "start" \in PC BY DEF Stat, PC
    <3>3. detect_stat' \in [DiskId -> Stat] BY <2>2, <3>2 DEF TypeOK
    <3>4. tid' \in [DiskId -> Thread \cup {0}] BY <2>1, <2>2 DEF TypeOK
    <3>5. pc' \in [Thread -> PC] BY <2>2, <3>2 DEF TypeOK
    <3>6. disk' \in [Thread -> DiskId \cup {0}]
      <4>1. disk \in [Thread -> DiskId \cup {0}] BY DEF TypeOK
      <4>2. disk' = disk \/ disk' = [disk EXCEPT ![t] = i] BY <2>2
      <4>3. QED BY <4>1, <4>2, <2>1
    <3>7. QED BY <3>1, <3>3, <3>4, <3>5, <3>6
  <2>6. QED BY <1>4, <2>3, <2>4, <2>5 DEF RcvAdd, TypeOK, Msg
<1>5. CASE RcvRm
  <2>1. /\ msgq' \in Seq(Msg) /\ Len(msgq') <= Capacity
        /\ announced' = announced
    BY <1>5, DeliverType DEF RcvRm
  <2>2. QED BY <1>5, <2>1 DEF RcvRm, TypeOK, Msg, Stat
<1>6. ASSUME NEW t \in Thread, Query(t) PROVE TypeOK'
  <2>1. pc[t] # "none" => disk[t] \in DiskId BY DEF TypeOK, QueryOwned
  <2> USE DEF Goto
  <2>2. CASE QueryStart(t)
    BY <2>1, <2>2 DEF QueryStart, TypeOK, Stat, PC
  <2>3. CASE QueryLoop(t)
    BY <2>3 DEF QueryLoop, TypeOK, PC
  <2>4. CASE QueryCanceled(t)
    BY <2>4 DEF QueryCanceled, TypeOK, PC
  <2>5. CASE QueryNoDisk(t)
    BY <2>5, ResultType DEF QueryNoDisk, TypeOK, PC
  <2>6. CASE QueryReset(t)
    <3>1. detect_stat' \in [DiskId -> Stat]
      <4>1. detect_stat \in [DiskId -> Stat] BY DEF TypeOK
      <4>2. "NONE" \in Stat BY DEF Stat
      <4>3. \/ detect_stat' = [detect_stat EXCEPT ![disk[t]] = "NONE"]
            \/ detect_stat' = detect_stat
        BY <2>6 DEF QueryReset
      <4>4. QED BY <4>1, <4>2, <4>3
    <3>2. nPresize' \in 0..NParts /\ nNowsize' \in 0..NParts
      BY <2>6 DEF QueryReset, TypeOK
    <3>3. pc' \in [Thread -> PC] BY <2>6 DEF QueryReset, TypeOK, PC
    <3>4. QED BY <2>6, <3>1, <3>2, <3>3 DEF QueryReset, TypeOK
  <2>7. CASE QueryLog(t)
    <3>1. disk[t] \in DiskId BY <2>1, <2>7 DEF QueryLog
    <3>2. QED BY <2>7, <3>1 DEF QueryLog, TypeOK, PC
  <2>8. CASE QuerySize(t)
    <3>1. nNowsize' \in 0..NParts BY <2>8, LogSize DEF QuerySize, TypeOK
    <3>2. QED BY <2>8, <3>1 DEF QuerySize, TypeOK, PC
  <2>9. CASE QueryCmp(t)
    <3>1. nPresize' \in 0..NParts /\ nNowsize' = nNowsize
      BY <2>9 DEF QueryCmp, TypeOK
    <3>2. CASE Result(t, FALSE)
      <4>1. /\ pc' = [pc EXCEPT ![t] = "loop"]
            /\ flag' \in [Thread -> {0, 1}] /\ ticks' \in [Thread -> 0..Timeout]
            /\ detect_stat' \in [DiskId -> Stat]
        BY <3>2, ResultType
      <4>2. pc' \in [Thread -> PC] BY <4>1 DEF TypeOK, PC
      <4>3. UNCHANGED <<msgq, announced, envVars, slotVars, parts, disk,
                        canceled, log>>
        BY <2>9 DEF QueryCmp
      <4>4. QED BY <3>1, <4>1, <4>2, <4>3 DEF TypeOK
    <3>3. CASE ~Result(t, FALSE)
      BY <2>9, <3>1, <3>3 DEF QueryCmp, TypeOK, PC
    <3>4. QED BY <3>2, <3>3
  <2>10. CASE QueryCount(t)
    <3>2. CASE Result(t, FALSE)
      BY <2>10, <3>2, ResultType DEF QueryCount, TypeOK, PC
    <3>3. CASE ~Result(t, FALSE)
      BY <2>10, <3>3 DEF QueryCount, TypeOK, PC
    <3>4. QED BY <3>2, <3>3
  <2>11. CASE QueryInsert(t)
    <3>1. PICK a \in Collected(t) : parts' = Insert(parts, a)
      BY <2>11 DEF QueryInsert
    <3>2. a \in [Part -> Entry] BY <2>11, CollectedType DEF QueryInsert
    <3>3. parts' \subseteq Entry BY <3>1, <3>2 DEF Insert, TypeOK
    <3>4. QED
      <4>1. /\ pc' = [pc EXCEPT ![t] = "loop"]
            /\ flag' \in [Thread -> {0, 1}] /\ ticks' \in [Thread -> 0..Timeout]
            /\ detect_stat' \in [DiskId -> Stat]
        <5>1. Result(t, TRUE) BY <2>11 DEF QueryInsert
        <5>2. QED BY <5>1, ResultType
      <4>2. pc' \in [Thread -> PC] BY <4>1 DEF TypeOK, PC
      <4>3. UNCHANGED <<msgq, announced, envVars, slotVars, sizeVars, disk,
                        canceled, log>>
        BY <2>11 DEF QueryInsert
      <4>4. QED BY <3>3, <4>1, <4>2, <4>3 DEF TypeOK
  <2>12. CASE QueryNoMemory(t)
    <3>1. PICK k \in 0..(NParts - 1), a \in Collected(t) :
            parts' = {a[p] : p \in 1..k}
      BY <2>12 DEF QueryNoMemory
    <3>2. a \in [Part -> Entry] BY <2>12, CollectedType DEF QueryNoMemory
    <3>3. 1..k \subseteq Part BY DEF Part
    <3>4. parts' \subseteq Entry BY <3>1, <3>2, <3>3
    <3>5. QED BY <2>12, <3>4, ResultType DEF QueryNoMemory, TypeOK, PC
  <2>13. QED
    BY <1>6, <2>2, <2>3, <2>4, <2>5, <2>6, <2>7, <2>8, <2>9, <2>10, <2>11, <2>12
       DEF Query
<1>7. QED BY <1>1, <1>2, <1>3, <1>4, <1>5, <1>6 DEF Next, Environment

\* A step of a query thread touches its own pc only and neither the queue,
\* nor s_UsbThread[].nRunState and tid, nor who is canceled.
LEMMA QueryFrame ==
  ASSUME TypeOK, NEW t \in Thread, Query(t)
  PROVE  /\ UNCHANGED <<msgq, announced, nRunState, tid, nthreads, disk, canceled>>
         /\ pc[t] # "none"
         /\ \E l \in PC : l # "none" /\ pc' = [pc EXCEPT ![t] = l]
<1> USE DEF TypeOK, Query, slotVars, sizeVars, envVars, Wake, Result, Goto, PC
<1>1. CASE QueryStart(t) BY <1>1 DEF QueryStart
<1>2. CASE QueryLoop(t) BY <1>2 DEF QueryLoop
<1>3. CASE QueryCanceled(t) BY <1>3 DEF QueryCanceled
<1>4. CASE QueryNoDisk(t) BY <1>4 DEF QueryNoDisk
<1>5. CASE QueryReset(t) BY <1>5 DEF QueryReset
<1>6. CASE QueryLog(t) BY <1>6 DEF QueryLog
<1>7. CASE QuerySize(t) BY <1>7 DEF QuerySize
<1>8. CASE QueryCmp(t) BY <1>8 DEF QueryCmp
<1>9. CASE QueryCount(t) BY <1>9 DEF QueryCount
<1>10. CASE QueryInsert(t) BY <1>10 DEF QueryInsert
<1>11. CASE QueryNoMemory(t) BY <1>11 DEF QueryNoMemory
<1>12. QED BY <1>1, <1>2, <1>3, <1>4, <1>5, <1>6, <1>7, <1>8, <1>9, <1>10, <1>11

LEMMA OwnedStep == IInv /\ Next => QueryOwned'
<1> SUFFICES ASSUME IInv, Next PROVE QueryOwned' OBVIOUS
<1>0. TypeOK /\ QueryOwned /\ QueueInv(msgq, nRunState, announced)
  BY DEF IInv, QueueInv
<1> USE <1>0 DEF slotVars, threadVars
<1>1. ASSUME Environment PROVE QueryOwned'
  <2>1. UNCHANGED <<pc, disk, canceled, tid, nRunState, nthreads>>
    BY <1>1 DEF Environment, Plug, Pull, Unplug, Mount
  <2>2. QED BY <2>1 DEF QueryOwned, Live
<1>2. CASE RcvAdd
  <2> DEFINE i == Head(msgq).nDiskId
             t == nthreads + 1
  <2>1. i \in DiskId /\ t \in Thread
    <3>1. Deliver /\ nthreads < MaxPlugs BY <1>2 DEF RcvAdd
    <3>2. nthreads \in 0..MaxPlugs BY DEF TypeOK
    <3>3. i \in DiskId BY <3>1, DeliverType
    <3>4. QED BY <3>1, <3>2, <3>3 DEF Thread
  <2>2. nRunState[i] = 0
    BY <1>2, TailAdd DEF RcvAdd, Deliver, TypeOK, Msg
  <2> HIDE DEF i, t
  <2>3. /\ nRunState' = [nRunState EXCEPT ![i] = 1] /\ nthreads' = t
        /\ canceled' = canceled
        /\ \/ /\ tid' = [tid EXCEPT ![i] = t]
              /\ pc' = [pc EXCEPT ![t] = "start"]
              /\ disk' = [disk EXCEPT ![t] = i]
           \/ UNCHANGED <<tid, pc, disk>>
    BY <1>2 DEF RcvAdd, i, t
  <2>4. ASSUME NEW u \in Thread PROVE
          /\ pc'[u] # "none" => disk'[u] # 0 /\ u <= nthreads'
          /\ pc'[u] \notin {"none", "done"} /\ u \notin canceled'
               => tid'[disk'[u]] = u /\ nRunState'[disk'[u]] = 1
    <3>1. pc[u] # "none" => u # t /\ disk[u] \in DiskId
      BY <2>1 DEF QueryOwned, TypeOK, Thread, t
    <3>2. pc[u] \notin {"none", "done"} /\ u \notin canceled => disk[u] # i
      BY <2>2 DEF QueryOwned, Live
    <3>3. CASE u = t /\ pc[t] = "none" /\ pc'[t] # "none"
      <4>1. /\ tid' = [tid EXCEPT ![i] = t] /\ disk' = [disk EXCEPT ![t] = i]
        BY <3>3, <2>3
      <4>2. tid'[i] = t /\ disk'[t] = i /\ nRunState'[i] = 1
        BY <4>1, <2>1, <2>3 DEF TypeOK
      <4>3. i # 0 /\ t <= nthreads' BY <2>1, <2>3 DEF Thread
      <4>4. QED BY <3>3, <4>2, <4>3
    <3>4. CASE ~(u = t /\ pc[t] = "none" /\ pc'[t] # "none")
      <4>1. pc'[u] = pc[u] /\ (pc[u] # "none" => disk'[u] = disk[u])
        BY <3>4, <2>1, <2>3, <3>1 DEF TypeOK
      <4>2. pc[u] # "none" => u <= nthreads'
        BY <2>1, <2>3 DEF QueryOwned, TypeOK, Thread, t
      <4>3. ASSUME pc[u] \notin {"none", "done"}, u \notin canceled
            PROVE  tid'[disk[u]] = u /\ nRunState'[disk[u]] = 1
        BY <4>3, <3>1, <3>2, <2>1, <2>3 DEF QueryOwned, Live, TypeOK
      <4>4. QED BY <4>1, <4>2, <4>3, <2>3, <3>1 DEF QueryOwned
    <3>5. QED BY <3>3, <3>4
  <2>5. QED BY <2>4 DEF QueryOwned, Live
<1>3. CASE RcvRm
  <2> DEFINE i == Head(msgq).nDiskId
  <2>1. i \in DiskId BY <1>3, DeliverType DEF RcvRm
  <2> HIDE DEF i
  <2>2. /\ nRunState' = [nRunState EXCEPT ![i] = 0]
        /\ canceled' = canceled \cup ({tid[i]} \cap Thread)
        /\ UNCHANGED <<pc, disk, tid, nthreads>>
    BY <1>3 DEF RcvRm, i
  <2>3. QED BY <2>1, <2>2 DEF QueryOwned, Live, TypeOK
<1>4. ASSUME NEW t \in Thread, Query(t) PROVE QueryOwned'
  <2>1. PICK l \in PC : l # "none" /\ pc' = [pc EXCEPT ![t] = l]
    BY <1>4, QueryFrame
  <2>2. /\ UNCHANGED <<nRunState, tid, nthreads, disk, canceled>>
        /\ pc[t] # "none"
    BY <1>4, QueryFrame
  <2>3. pc[t] = "done" => pc'[t] = "done"
    BY <1>4 DEF Query, QueryStart, QueryLoop, QueryCanceled, QueryNoDisk,
          QueryReset, QueryLog, QuerySize, QueryCmp, QueryCount, QueryInsert,
          QueryNoMemory, Wake
  <2>4. QED BY <2>1, <2>2, <2>3 DEF QueryOwned, Live, TypeOK
<1>5. QED BY <1>1, <1>2, <1>3, <1>4 DEF Next

LEMMA QueueStep == IInv /\ Next => QueueInv(msgq, nRunState, announced)'
<1> SUFFICES ASSUME IInv, Next
             PROVE  QueueInv(msgq', nRunState', announced')
  BY DEF QueueInv, AddsSeparated, RetractedEnds, AnnouncedEnds, IsAdd, IsRm
<1>0. TypeOK /\ QueueInv(msgq, nRunState, announced)
  BY DEF IInv, QueueInv
<1>a. /\ msgq \in Seq(Msg) /\ nRunState \in [DiskId -> {0, 1}]
      /\ announced \in SUBSET DiskId
  BY <1>0 DEF TypeOK, Msg
<1> USE <1>0, <1>a DEF slotVars, threadVars
<1>1. ASSUME NEW i \in DiskId, Plug(i)
      PROVE  QueueInv(msgq', nRunState', announced')
  BY <1>1, AppendAdd DEF Plug, Announce
<1>2. ASSUME NEW i \in DiskId, Unplug(i)
      PROVE  QueueInv(msgq', nRunState', announced')
  BY <1>2, AppendRm DEF Unplug, Retract
<1>3. ASSUME NEW i \in DiskId, NEW p \in Part, Pull(i) \/ Mount(i, p)
      PROVE  QueueInv(msgq', nRunState', announced')
  <2>1. UNCHANGED <<msgq, nRunState, announced>> BY <1>3 DEF Pull, Mount
  <2>2. QED BY <2>1
<1>4. CASE RcvAdd
  BY <1>4, TailAdd DEF RcvAdd, Deliver
<1>5. CASE RcvRm
  BY <1>5, TailRm DEF RcvRm, Deliver
<1>6. ASSUME NEW t \in Thread, Query(t)
      PROVE  QueueInv(msgq', nRunState', announced')
  <2>1. UNCHANGED <<msgq, nRunState, announced>> BY <1>6, QueryFrame
  <2>2. QED BY <2>1
<1>7. Part # {}
  <2>1. 1 \in Part BY DEF Part
  <2>2. QED BY <2>1
<1>8. QED BY <1>1, <1>2, <1>3, <1>4, <1>5, <1>6, <1>7 DEF Next, Environment

-----------------------------------------------------------------------------
\* IInv is inductive.
THEOREM Invariance == Spec => []IInv
<1>1. IInv /\ [Next]_vars => IInv'
  <2> SUFFICES ASSUME IInv, [Next]_vars PROVE IInv' OBVIOUS
  <2>1. CASE Next
    BY <2>1, TypeStep, OwnedStep, QueueStep DEF IInv, QueueInv
  <2>2. CASE UNCHANGED vars
    BY <2>2 DEF vars, envVars, slotVars, sizeVars, IInv, TypeOK, QueryOwned,
          Live, AddsSeparated, RetractedEnds, AnnouncedEnds, IsAdd, IsRm
  <2>3. QED BY <2>1, <2>2
<1>2. QED BY <1>1, InitIInv, PTL DEF Spec

\* Every variable keeps its type: in particular the receiver indexes
\* s_UsbThread with ids of the queue only.
THEOREM TypeCorrect == Spec => []TypeOK
<1>1. IInv => TypeOK BY DEF IInv
<1>2. QED BY <1>1, Invariance, PTL

\* For any number of disks and plugs: an id is never polled by two query
\* threads that are not canceled.
THEOREM SingleQuery == Spec => []OneLiveThread
<1>1. IInv => OneLiveThread
  BY DEF IInv, QueryOwned, OneLiveThread
<1>2. QED BY <1>1, Invariance, PTL

\* Once the messages about an id are received, nRunState is what the detector
\* announced.
THEOREM Agreement == Spec => []RunStateAgrees
<1>1. IInv => RunStateAgrees
  <2> SUFFICES ASSUME IInv, NEW i \in DiskId,
                      \A k \in DOMAIN msgq : msgq[k].nDiskId # i
               PROVE  nRunState[i] = 1 <=> i \in announced
    BY DEF RunStateAgrees
  <2>1. \A k \in 1..Len(msgq) : ~IsAdd(msgq, k, i) /\ ~IsRm(msgq, k, i)
    BY DEF IInv, TypeOK, IsAdd, IsRm
  <2>2. nRunState[i] \in {0, 1} BY DEF IInv, TypeOK
  <2>3. i \in announced => nRunState[i] # 0
    BY <2>1 DEF IInv, AnnouncedEnds
  <2>4. i \notin announced => nRunState[i] # 1
    BY <2>1 DEF IInv, RetractedEnds
  <2>5. QED BY <2>2, <2>3, <2>4
<1>2. QED BY <1>1, Invariance, PTL
=============================================================================
