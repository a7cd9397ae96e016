----------------------------- MODULE ListLemmas -----------------------------
(* Facts about the operators the list and table models are built from. *)
EXTENDS Integers, Sequences, SequencesExt, SequenceTheorems,
        WellFoundedInduction, TLAPS

\* A non-empty set of naturals has its minimum as a member: Min, which the id
\* table uses to find the first free slot, really returns one.
LEMMA MinIsMember ==
  ASSUME NEW S \in SUBSET Nat, S # {}
  PROVE  Min(S) \in S /\ \A y \in S : Min(S) <= y
<1> DEFINE R == OpToRel(<, Nat)
<1>1. \E x \in S : \A y \in S : ~ (<<y, x>> \in R)
  BY NatLessThanWellFounded, WFMin
<1>2. \A x, y \in Nat : <<y, x>> \in R <=> y < x
  BY DEF OpToRel
<1> HIDE DEF R
<1>3. PICK x \in S : \A y \in S : ~ (<<y, x>> \in R)
  BY <1>1
<1>4. \A y \in S : ~ (y < x)
  BY <1>2, <1>3
<1>5. \A y \in S : x <= y
  BY <1>4
<1>6. QED BY <1>5 DEF Min

\* Induction over the naturals, stated of a set: what makes it possible to say
\* what a loop over a list computes, however long the list.
LEMMA SetInduction ==
  ASSUME NEW S \in SUBSET Nat, 0 \in S, \A n \in S : n + 1 \in S
  PROVE  \A n \in Nat : n \in S
<1> DEFINE T == Nat \ S
<1>1. SUFFICES ASSUME T # {} PROVE FALSE
  OBVIOUS
<1>2. T \in SUBSET Nat
  OBVIOUS
<1>3. Min(T) \in T /\ \A y \in T : Min(T) <= y
  BY <1>1, <1>2, MinIsMember
<1> DEFINE m == Min(T)
<1>4. m \in Nat /\ m \notin S /\ \A y \in T : m <= y
  BY <1>3
<1> HIDE DEF m
<1>5. m # 0 /\ m - 1 \in Nat /\ ~(m <= m - 1)
  BY <1>4
<1>6. m - 1 \in S
  BY <1>4, <1>5
<1> QED BY <1>4, <1>6

\* The values a, F[1, a], F[2, F[1, a]], ... of a loop with N rounds.
Loops(S, a, F, N) ==
  {g \in [0..N -> S] : g[0] = a /\ \A k \in 1..N : g[k] = F[<<k, g[k - 1]>>]}

\* A loop that computes its k-th value from the one before it does so for
\* every number of rounds: the recursive function that models it exists.
LEMMA LoopExists ==
  ASSUME NEW S, NEW a \in S, NEW F \in [Nat \X S -> S], NEW N \in Nat
  PROVE  Loops(S, a, F, N) # {}
<1> DEFINE Loop(n) == Loops(S, a, F, n)
           D == {n \in Nat : Loop(n) # {}}
<1>1. 0 \in D
  <2>1. [k \in 0..0 |-> a] \in Loop(0)
    BY DEF Loops
  <2> QED BY <2>1
<1>2. ASSUME NEW n \in D PROVE n + 1 \in D
  <2>1. PICK g \in [0..n -> S] : g[0] = a /\ \A k \in 1..n : g[k] = F[<<k, g[k - 1]>>]
    BY <1>2 DEF Loops
  <2> DEFINE h == [k \in 0..(n + 1) |-> IF k <= n THEN g[k] ELSE F[<<n + 1, g[n]>>]]
  <2>2. n \in Nat /\ n \in 0..n /\ g[n] \in S /\ F[<<n + 1, g[n]>>] \in S
    BY <1>2, <2>1
  <2>3. h \in [0..(n + 1) -> S] /\ h[0] = a
    BY <2>1, <2>2
  <2>4. ASSUME NEW k \in 1..(n + 1) PROVE h[k] = F[<<k, h[k - 1]>>]
    <3>1. k - 1 \in 0..(n + 1) /\ k - 1 <= n
      BY <2>2
    <3>2. h[k - 1] = g[k - 1]
      BY <3>1
    <3> HIDE DEF h
    <3>3. CASE k <= n
      <4>1. h[k] = g[k] /\ k \in 1..n
        BY <2>2, <3>3 DEF h
      <4> QED BY <2>1, <3>2, <4>1
    <3>4. CASE k = n + 1
      <4>1. h[k] = F[<<n + 1, g[n]>>] /\ k - 1 = n
        BY <2>2, <3>4 DEF h
      <4>2. h[k - 1] = g[n]
        BY <3>2, <4>1, Zenon
      <4> QED BY <3>4, <4>1, <4>2, Zenon
    <3> QED BY <2>2, <3>3, <3>4
  <2>5. h \in Loop(n + 1)
    BY <2>3, <2>4 DEF Loops
  <2> HIDE DEF h, Loop
  <2> QED BY <2>2, <2>5
<1> HIDE DEF Loop
<1>3. \A n \in Nat : n \in D
  <2>1. D \in SUBSET Nat
    OBVIOUS
  <2> HIDE DEF D
  <2> QED BY <1>1, <1>2, <2>1, SetInduction
<1>4. Loop(N) # {}
  BY <1>3
<1> QED BY <1>4 DEF Loop

\* Deleting position k of a list: the elements before k stay where they are,
\* the ones after it move up by one.
LEMMA RemoveAtProperties ==
  ASSUME NEW S, NEW s \in Seq(S), NEW k \in 1..Len(s)
  PROVE  /\ RemoveAt(s, k) \in Seq(S)
         /\ Len(RemoveAt(s, k)) = Len(s) - 1
         /\ \A j \in 1..(Len(s) - 1) :
              RemoveAt(s, k)[j] = IF j < k THEN s[j] ELSE s[j + 1]
<1> DEFINE a == SubSeq(s, 1, k - 1)
           b == SubSeq(s, k + 1, Len(s))
<1>1. /\ a \in Seq(S) /\ Len(a) = k - 1
      /\ \A i \in 1..(k - 1) : a[i] = s[i]
  <2>1. \A i \in 1..(k - 1) : s[i] \in S OBVIOUS
  <2>2. QED BY <2>1, SubSeqProperties, Z3
<1>2. /\ b \in Seq(S) /\ Len(b) = Len(s) - k
      /\ \A i \in 1..(Len(s) - k) : b[i] = s[k + i]
  <2>1. \A i \in (k + 1)..Len(s) : s[i] \in S OBVIOUS
  <2>2. /\ b \in Seq(S)
        /\ Len(b) = IF k + 1 <= Len(s) THEN Len(s) - (k + 1) + 1 ELSE 0
        /\ \A i \in 1..(Len(s) - (k + 1) + 1) : b[i] = s[(k + 1) + i - 1]
    BY <2>1, SubSeqProperties
  <2>3. QED BY <2>2
<1> HIDE DEF a, b
<1>3. /\ a \o b \in Seq(S)
      /\ Len(a \o b) = Len(a) + Len(b)
      /\ \A i \in 1..(Len(a) + Len(b)) :
           (a \o b)[i] = IF i <= Len(a) THEN a[i] ELSE b[i - Len(a)]
  BY <1>1, <1>2, ConcatProperties
<1>4. RemoveAt(s, k) = a \o b BY DEF RemoveAt, a, b
<1>5. \A j \in 1..(Len(s) - 1) :
         (a \o b)[j] = IF j < k THEN s[j] ELSE s[j + 1]
  <2> SUFFICES ASSUME NEW j \in 1..(Len(s) - 1)
               PROVE  (a \o b)[j] = IF j < k THEN s[j] ELSE s[j + 1]
    OBVIOUS
  <2>1. CASE j < k BY <2>1, <1>1, <1>2, <1>3
  <2>2. CASE j >= k
    <3>1. (a \o b)[j] = b[j - (k - 1)] BY <2>2, <1>1, <1>2, <1>3
    <3>2. j - (k - 1) \in 1..(Len(s) - k) BY <2>2
    <3>3. b[j - (k - 1)] = s[k + (j - (k - 1))] BY <3>2, <1>2
    <3>4. k + (j - (k - 1)) = j + 1 OBVIOUS
    <3>5. QED BY <3>1, <3>3, <3>4, <2>2
  <2>3. j < k \/ j >= k OBVIOUS
  <2>4. QED BY <2>1, <2>2, <2>3
<1>6. Len(a \o b) = Len(s) - 1
  BY <1>1, <1>2, <1>3
<1>7. QED BY <1>3, <1>4, <1>5, <1>6, Zenon
=============================================================================
