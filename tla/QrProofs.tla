------------------------------ MODULE QrProofs ------------------------------
(***************************************************************************)
(* Of every call of libqrencode, for every text and every request: the     *)
(* version that QRinput_estimateVersion and QRinput_convertData settle on  *)
(* is the smallest one with room, and a set of structured symbols keeps    *)
(* the version that was asked for.                                         *)
(*                                                                         *)
(* The argument is about lengths. A chunk takes a header, a length field   *)
(* whose width depends on the class of the version (1-9, 10-26, 27-40) and *)
(* its payload (Taken); the estimate counts a header more for every time   *)
(* the chunk is as long as the field can count (Estimated). Estimated for  *)
(* a class below, a list is at most one part in 138 too long, which is     *)
(* less than the step from one version to the next (EstimateAgainst,       *)
(* CapGrows), so a round of the loop never overtakes a version with room,  *)
(* but for the lists that Misjudged names (EstimateLeast). IInv says the   *)
(* same of the version at every stage of the encoding, and of what is      *)
(* dealt out over a set that it leaves room for the header.                *)
(***************************************************************************)
EXTENDS QrSymbol, ListLemmas, FiniteSetTheorems, TLAPS

-----------------------------------------------------------------------------
(* Sums.                                                                   *)

\* The partial sums of a sequence: what SumOf computes on its way.
LEMMA PartialSums ==
  ASSUME NEW s \in Seq(Nat)
  PROVE  \E P \in [0..Len(s) -> Nat] :
           P[0] = 0 /\ SumOf(s) = P[Len(s)] /\ \A i \in 0..(Len(s) - 1) : P[i + 1] = P[i] + s[i + 1]
<1> DEFINE N == Len(s)
           G == [u \in Nat \X Nat |-> IF u[1] \in 1..N THEN u[2] + s[u[1]] ELSE u[2]]
           f[i \in 0..Len(s)] == IF i = 0 THEN 0 ELSE f[i - 1] + s[i]
<1>1. SumOf(s) = f[N]
  BY DEF SumOf
<1> HIDE DEF f
<1>2. G \in [Nat \X Nat -> Nat] /\ N \in Nat
  OBVIOUS
<1> HIDE DEF G
<1>3. PICK g \in [0..N -> Nat] : g[0] = 0 /\ \A k \in 1..N : g[k] = G[<<k, g[k - 1]>>]
  <2>1. Loops(Nat, 0, G, N) # {}
    BY <1>2, LoopExists
  <2> QED BY <2>1 DEF Loops
<1>4. ASSUME NEW k \in 1..N PROVE g[k] = g[k - 1] + s[k]
  <2>1. k \in Nat /\ g[k - 1] \in Nat
    OBVIOUS
  <2>2. G[<<k, g[k - 1]>>] = g[k - 1] + s[k]
    BY <2>1 DEF G
  <2> QED BY <1>3, <2>2
<1>5. g = [k \in 0..N |-> IF k = 0 THEN 0 ELSE g[k - 1] + s[k]]
  <2>1. \A k \in 0..N : k = 0 \/ k \in 1..N
    OBVIOUS
  <2> QED BY <1>3, <1>4, <2>1
<1>6. f = [k \in 0..N |-> IF k = 0 THEN 0 ELSE f[k - 1] + s[k]]
  BY <1>5, Zenon DEF f
<1>7. f[0] = 0 /\ \A k \in 1..N : f[k] = f[k - 1] + s[k]
  <2>1. 0 \in 0..N /\ \A k \in 1..N : k \in 0..N /\ k # 0
    BY <1>2
  <2> QED BY <1>6, <2>1, Zenon
<1> DEFINE T == {k \in Nat : k <= N => f[k] \in Nat}
<1>8. N \in T /\ \A k \in 0..N : f[k] \in Nat
  <2>1. T \in SUBSET Nat /\ 0 \in T
    BY <1>7
  <2>2. ASSUME NEW k \in T PROVE k + 1 \in T
    <3>1. k \in Nat /\ (k + 1 <= N => k + 1 \in 1..N /\ (k + 1) - 1 = k /\ k <= N)
      BY <1>2
    <3>2. k + 1 <= N => f[k + 1] = f[k] + s[k + 1]
      BY <1>7, <3>1
    <3>3. k + 1 <= N => f[k + 1] \in Nat
      BY <3>1, <3>2
    <3> QED BY <3>1, <3>3
  <2> HIDE DEF T
  <2>3. \A k \in Nat : k \in T
    BY <2>1, <2>2, SetInduction
  <2> QED BY <1>2, <2>3 DEF T
<1>9. f \in [0..N -> Nat]
  <2>1. f = [k \in 0..N |-> f[k]]
    BY <1>6
  <2> QED BY <1>8, <2>1
<1>10. ASSUME NEW i \in 0..(N - 1) PROVE f[i + 1] = f[i] + s[i + 1]
  <2>1. i + 1 \in 1..N /\ (i + 1) - 1 = i
    BY <1>2
  <2> QED BY <1>7, <2>1
<1> QED BY <1>1, <1>7, <1>9, <1>10

\* Nothing is nothing, and a sum is a natural number that no term exceeds.
LEMMA SumNat ==
  ASSUME NEW s \in Seq(Nat)
  PROVE  SumOf(s) \in Nat /\ (s = <<>> => SumOf(s) = 0) /\ \A i \in 1..Len(s) : s[i] <= SumOf(s)
<1>1. PICK P \in [0..Len(s) -> Nat] :
        P[0] = 0 /\ SumOf(s) = P[Len(s)] /\ \A i \in 0..(Len(s) - 1) : P[i + 1] = P[i] + s[i + 1]
  BY PartialSums
<1>2. SumOf(s) \in Nat /\ (s = <<>> => SumOf(s) = 0)
  BY <1>1
<1>3. ASSUME NEW i \in 1..Len(s) PROVE s[i] <= SumOf(s)
  <2> DEFINE T == {k \in Nat : k >= i /\ k <= Len(s) => P[k] >= s[i]}
  <2>1. 0 \in T /\ T \in SUBSET Nat
    OBVIOUS
  <2>2. ASSUME NEW k \in T PROVE k + 1 \in T
    <3>1. k \in Nat /\ s[i] \in Nat
      OBVIOUS
    <3>2. ASSUME k + 1 >= i, k + 1 <= Len(s) PROVE P[k + 1] >= s[i]
      <4>1. k + 1 \in 1..Len(s) /\ k \in 0..(Len(s) - 1) /\ k \in 0..Len(s)
        BY <3>1, <3>2
      <4>2. P[k + 1] = P[k] + s[k + 1] /\ P[k] \in Nat /\ s[k + 1] \in Nat
        BY <1>1, <4>1
      <4>3. CASE k + 1 = i
        BY <4>2, <4>3
      <4>4. CASE k >= i
        BY <2>2, <4>1, <4>2, <4>4, <3>1
      <4> QED BY <3>1, <3>2, <4>3, <4>4
    <3> QED BY <3>1, <3>2
  <2> HIDE DEF T
  <2>3. \A k \in Nat : k \in T
    BY <2>1, <2>2, SetInduction
  <2>4. Len(s) \in T /\ Len(s) \in Nat
    BY <2>3
  <2> QED BY <2>4, <1>1 DEF T
<1> QED BY <1>2, <1>3

\* Two sums are compared term by term, with a factor for the terms' own slack.
LEMMA SumOrder ==
  ASSUME NEW s \in Seq(Nat), NEW t \in Seq(Nat), Len(s) = Len(t)
  PROVE  /\ (\A i \in 1..Len(s) : s[i] <= t[i]) => SumOf(s) <= SumOf(t)
         /\ (\A i \in 1..Len(s) : 138 * s[i] <= 139 * t[i]) => 138 * SumOf(s) <= 139 * SumOf(t)
<1>1. PICK P \in [0..Len(s) -> Nat] :
        P[0] = 0 /\ SumOf(s) = P[Len(s)] /\ \A i \in 0..(Len(s) - 1) : P[i + 1] = P[i] + s[i + 1]
  BY PartialSums
<1>2. PICK Q \in [0..Len(t) -> Nat] :
        Q[0] = 0 /\ SumOf(t) = Q[Len(t)] /\ \A i \in 0..(Len(t) - 1) : Q[i + 1] = Q[i] + t[i + 1]
  BY PartialSums
<1> DEFINE A == \A i \in 1..Len(s) : s[i] <= t[i]
           B == \A i \in 1..Len(s) : 138 * s[i] <= 139 * t[i]
           T == {k \in Nat : k <= Len(s) => (A => P[k] <= Q[k]) /\ (B => 138 * P[k] <= 139 * Q[k])}
<1>3. 0 \in T /\ T \in SUBSET Nat
  BY <1>1, <1>2
<1>4. ASSUME NEW k \in T PROVE k + 1 \in T
  <2>1. k \in Nat
    OBVIOUS
  <2>2. ASSUME k + 1 <= Len(s) PROVE (A => P[k + 1] <= Q[k + 1]) /\ (B => 138 * P[k + 1] <= 139 * Q[k + 1])
    <3>1. k + 1 \in 1..Len(s) /\ k \in 0..(Len(s) - 1) /\ k \in 0..Len(s)
      BY <2>1, <2>2
    <3>7. k <= Len(s) => (A => P[k] <= Q[k]) /\ (B => 138 * P[k] <= 139 * Q[k])
      BY <1>4
    <3> HIDE DEF T
    <3> k \in 0..(Len(t) - 1) /\ k \in 0..Len(t) /\ k + 1 \in 1..Len(t)
      BY <3>1
    <3>0. P[k] \in Nat /\ s[k + 1] \in Nat /\ Q[k] \in Nat /\ t[k + 1] \in Nat
      <4>1. s[k + 1] \in Nat /\ t[k + 1] \in Nat
        BY <3>1, ElementOfSeq
      <4>2. P[k] \in Nat /\ Q[k] \in Nat
        BY <3>1
      <4> QED BY <4>1, <4>2
    <3>2. P[k + 1] = P[k] + s[k + 1]
      BY <1>1, <3>1
    <3>3. Q[k + 1] = Q[k] + t[k + 1]
      BY <1>2, <3>1
    <3>4. (A => P[k] <= Q[k] /\ s[k + 1] <= t[k + 1]) /\ (B => 138 * P[k] <= 139 * Q[k] /\ 138 * s[k + 1] <= 139 * t[k + 1])
      BY <3>7, <2>1, <3>1
    <3> HIDE DEF A, B
    <3>5. ASSUME A PROVE P[k + 1] <= Q[k + 1]
      BY <3>0, <3>2, <3>3, <3>4, <3>5
    <3>6. ASSUME B PROVE 138 * P[k + 1] <= 139 * Q[k + 1]
      <4>1. \A a, b, c, e \in Nat : 138 * a <= 139 * c /\ 138 * b <= 139 * e => 138 * (a + b) <= 139 * (c + e)
        OBVIOUS
      <4> QED BY <3>0, <3>2, <3>3, <3>4, <3>6, <4>1
    <3> QED BY <3>5, <3>6
  <2> HIDE DEF A, B
  <2> QED BY <2>1, <2>2
<1> HIDE DEF T
<1>5. Len(s) \in T
  <2>1. \A k \in Nat : k \in T
    BY <1>3, <1>4, SetInduction
  <2> QED BY <2>1
<1>6. (A => P[Len(s)] <= Q[Len(s)]) /\ (B => 138 * P[Len(s)] <= 139 * Q[Len(s)])
  BY <1>5 DEF T
<1> HIDE DEF A, B
<1>7. (A => SumOf(s) <= SumOf(t)) /\ (B => 138 * SumOf(s) <= 139 * SumOf(t))
  BY <1>1, <1>2, <1>6
<1> QED BY <1>7 DEF A, B

\* A term more at the end, or in front, adds itself.
LEMMA SumMore ==
  ASSUME NEW s \in Seq(Nat), NEW t \in Seq(Nat), NEW x \in Nat, NEW d \in {0, 1}, Len(t) = Len(s) + 1,
         \A i \in 1..Len(s) : t[i + d] = s[i], t[IF d = 1 THEN 1 ELSE Len(t)] = x
  PROVE  SumOf(t) = SumOf(s) + x
<1>1. PICK P \in [0..Len(s) -> Nat] :
        P[0] = 0 /\ SumOf(s) = P[Len(s)] /\ \A i \in 0..(Len(s) - 1) : P[i + 1] = P[i] + s[i + 1]
  BY PartialSums
<1>2. PICK Q \in [0..Len(t) -> Nat] :
        Q[0] = 0 /\ SumOf(t) = Q[Len(t)] /\ \A i \in 0..(Len(t) - 1) : Q[i + 1] = Q[i] + t[i + 1]
  BY PartialSums
<1> DEFINE T == {k \in Nat : k <= Len(s) => Q[k + d] = P[k] + d * x}
<1>3. 0 \in T /\ T \in SUBSET Nat
  <2>1. CASE d = 0
    BY <1>1, <1>2, <2>1
  <2>2. CASE d = 1
    <3>1. 1 \in 1..Len(t) /\ t[1] = x /\ 0 \in 0..(Len(t) - 1) /\ 0 + 1 = 1 /\ Q[0 + 1] = Q[0] + t[0 + 1]
      BY <1>2, <2>2
    <3>2. Q[1] = x
      BY <1>2, <3>1
    <3> QED BY <1>1, <2>2, <3>2
  <2> QED BY <2>1, <2>2
<1>4. ASSUME NEW k \in T PROVE k + 1 \in T
  <2>1. k \in Nat
    OBVIOUS
  <2>2. ASSUME k + 1 <= Len(s) PROVE Q[k + 1 + d] = P[k + 1] + d * x
    <3>1. k + 1 \in 1..Len(s) /\ k \in 0..(Len(s) - 1) /\ k \in 0..Len(s) /\ k + d \in 0..Len(t)
          /\ k + d \in 0..(Len(t) - 1) /\ k + 1 + d = (k + d) + 1
      BY <2>1, <2>2
    <3>7. k <= Len(s) => Q[k + d] = P[k] + d * x
      BY <1>4
    <3> HIDE DEF T
    <3>6. P[k] \in Nat /\ s[k + 1] \in Nat
      <4>1. s[k + 1] \in Nat
        BY <3>1, ElementOfSeq
      <4>2. P[k] \in Nat
        BY <3>1
      <4> QED BY <4>1, <4>2
    <3>2. P[k + 1] = P[k] + s[k + 1]
      BY <1>1, <3>1
    <3>3. Q[k + 1 + d] = Q[k + d] + t[k + 1 + d] /\ Q[k + d] \in Nat
      BY <1>2, <3>1
    <3>4. t[k + 1 + d] = s[k + 1]
      BY <3>1
    <3>5. Q[k + d] = P[k] + d * x
      BY <3>7, <2>1, <3>1
    <3> QED BY <3>2, <3>3, <3>4, <3>5, <3>6
  <2> QED BY <2>1, <2>2
<1> HIDE DEF T
<1>5. Len(s) \in T
  <2>1. \A k \in Nat : k \in T
    BY <1>3, <1>4, SetInduction
  <2> QED BY <2>1
<1>6. Q[Len(s) + d] = P[Len(s)] + d * x
  BY <1>5 DEF T
<1>7. CASE d = 1
  BY <1>1, <1>2, <1>6, <1>7
<1>8. CASE d = 0
  <2>1. Len(s) \in 0..(Len(t) - 1) /\ Len(t) = Len(s) + 1 /\ t[Len(t)] = x
    BY <1>8
  <2>2. Q[Len(t)] = Q[Len(s)] + x
    BY <1>2, <2>1
  <2>3. Q[Len(s)] = P[Len(s)]
    <3>1. Len(s) \in Nat /\ Len(s) + 0 = Len(s) /\ 0 * x = 0 /\ P[Len(s)] \in Nat
      BY LenProperties
    <3>2. Q[Len(s) + 0] = P[Len(s)] + 0 * x
      BY <1>6, <1>8
    <3> QED BY <3>1, <3>2
  <2> QED BY <1>1, <1>2, <2>2, <2>3
<1> QED BY <1>7, <1>8

-----------------------------------------------------------------------------
(* Lengths of bit streams, whatever the bits.                              *)

IsSeq(s) == \E X : s \in Seq(X)

\* BitStream_newFromNum: as many bits as asked for.
LEMMA BitsLen ==
  ASSUME NEW n \in Nat, NEW num
  PROVE  IsSeq(Bits(n, num)) /\ Len(Bits(n, num)) = n
<1> DEFINE b(i) == (num \div 2^(n - i)) % 2
<1>1. Bits(n, num) = [i \in 1..n |-> b(i)]
  BY DEF Bits
<1> HIDE DEF b
<1>2. [i \in 1..n |-> b(i)] \in Seq({b(i) : i \in 1..n})
  OBVIOUS
<1>3. Len([i \in 1..n |-> b(i)]) = n
  OBVIOUS
<1> QED BY <1>1, <1>2, <1>3 DEF IsSeq

\* BitStream_append: the lengths add up.
LEMMA ConcatLen ==
  ASSUME NEW s, NEW t, IsSeq(s), IsSeq(t)
  PROVE  IsSeq(s \o t) /\ Len(s \o t) = Len(s) + Len(t)
<1>1. PICK X : s \in Seq(X)
  BY DEF IsSeq
<1>2. PICK Y : t \in Seq(Y)
  BY DEF IsSeq
<1>3. s \in Seq(X \cup Y) /\ t \in Seq(X \cup Y)
  BY <1>1, <1>2
<1>4. s \o t \in Seq(X \cup Y) /\ Len(s \o t) = Len(s) + Len(t)
  BY <1>3, ConcatProperties
<1> QED BY <1>4 DEF IsSeq

\* What Evaluated returns is as long as its argument.
LEMMA EvaluatedLen ==
  ASSUME NEW s, IsSeq(s)
  PROVE  IsSeq(Evaluated(s)) /\ Len(Evaluated(s)) = Len(s)
<1>1. PICK X : s \in Seq(X)
  BY DEF IsSeq
<1>2. Len(s) \in Nat /\ \A i \in 1..Len(s) : s[i] \in X
  BY <1>1
<1>3. SubSeq(s, 1, Len(s)) \in Seq(X) /\ Len(SubSeq(s, 1, Len(s))) = Len(s)
  BY <1>1, <1>2, SubSeqProperties
<1> QED BY <1>3 DEF IsSeq, Evaluated

\* A bit stream put together from others is as long as they are together.
LEMMA FlattenLen ==
  ASSUME NEW S, NEW q \in Seq(Seq(S))
  PROVE  FlattenSeq(q) \in Seq(S) /\ Len(FlattenSeq(q)) = SumOf([i \in 1..Len(q) |-> Len(q[i])])
<1> DEFINE N == Len(q)
           s == [i \in 1..N |-> Len(q[i])]
           G == [u \in Nat \X Seq(S) |-> IF u[1] \in 1..(N - 1) THEN u[2] \o q[u[1] + 1] ELSE u[2]]
           flatten[i \in 1..Len(q)] == IF i = 1 THEN q[i] ELSE flatten[i - 1] \o q[i]
<1>0. N \in Nat /\ (\A i \in 1..N : q[i] \in Seq(S)) /\ s \in Seq(Nat) /\ Len(s) = N
  <2>1. N \in Nat /\ \A i \in 1..N : q[i] \in Seq(S) /\ Len(q[i]) \in Nat
    BY ElementOfSeq, LenProperties
  <2> QED BY <2>1
<1>1. CASE N = 0
  <2>1. q = <<>> /\ FlattenSeq(q) = q
    BY <1>1, EmptySeq DEF FlattenSeq
  <2>2. s = <<>>
    BY <1>0, <1>1, EmptySeq
  <2>3. SumOf(s) = 0 /\ Len(q) = 0
    <3> HIDE DEF s
    <3> QED BY <1>0, <1>1, <2>2, SumNat
  <2>4. q \in Seq(S)
    BY <2>1
  <2> QED BY <2>1, <2>3, <2>4
<1>2. CASE N > 0
  <2>1. FlattenSeq(q) = flatten[N]
    BY <1>0, <1>2 DEF FlattenSeq
  <2> HIDE DEF flatten
  <2>2. G \in [Nat \X Seq(S) -> Seq(S)]
    <3>1. ASSUME NEW u \in Nat \X Seq(S) PROVE G[u] \in Seq(S)
      <4>1. u[2] \in Seq(S) /\ (u[1] \in 1..(N - 1) => q[u[1] + 1] \in Seq(S))
        BY <1>0
      <4> QED BY <4>1, ConcatProperties
    <3> QED BY <3>1
  <2>3. q[1] \in Seq(S) /\ N - 1 \in Nat
    BY <1>0, <1>2
  <2> HIDE DEF G
  <2>4. PICK g \in [0..(N - 1) -> Seq(S)] : g[0] = q[1] /\ \A k \in 1..(N - 1) : g[k] = G[<<k, g[k - 1]>>]
    <3>1. Loops(Seq(S), q[1], G, N - 1) # {}
      BY <2>2, <2>3, LoopExists
    <3> QED BY <3>1 DEF Loops
  <2>5. ASSUME NEW k \in 1..(N - 1) PROVE g[k] = g[k - 1] \o q[k + 1]
    <3>1. k \in Nat /\ k - 1 \in 0..(N - 1)
      BY <2>3
    <3>3. g[k - 1] \in Seq(S)
      BY <3>1, <2>4
    <3>2. G[<<k, g[k - 1]>>] = g[k - 1] \o q[k + 1]
      BY <3>1, <3>3 DEF G
    <3> QED BY <2>4, <3>2
  <2> DEFINE h == [i \in 1..N |-> g[i - 1]]
  <2>6. h = [i \in 1..Len(q) |-> IF i = 1 THEN q[i] ELSE h[i - 1] \o q[i]]
    <3>1. ASSUME NEW i \in 1..N, i # 1 PROVE h[i] = h[i - 1] \o q[i]
      <4>1. i - 1 \in 1..(N - 1) /\ i - 1 \in 1..N /\ (i - 1) + 1 = i
        BY <1>0, <3>1
      <4>2. g[i - 1] = g[(i - 1) - 1] \o q[(i - 1) + 1]
        BY <2>5, <4>1
      <4>3. h[i] = g[i - 1] /\ h[i - 1] = g[(i - 1) - 1]
        BY <4>1
      <4> QED BY <4>1, <4>2, <4>3
    <3>2. h[1] = q[1]
      <4>1. 1 \in 1..N /\ 1 - 1 = 0
        BY <1>0, <1>2
      <4> QED BY <2>4, <4>1
    <3> QED BY <3>1, <3>2
  <2> HIDE DEF h
  <2>7. flatten = [i \in 1..N |-> IF i = 1 THEN q[i] ELSE flatten[i - 1] \o q[i]]
    BY <2>6, Zenon DEF flatten
  <2>8. PICK P \in [0..N -> Nat] : P[0] = 0 /\ SumOf(s) = P[N] /\ \A i \in 0..(N - 1) : P[i + 1] = P[i] + s[i + 1]
    <3> HIDE DEF s
    <3> QED BY <1>0, PartialSums
  <2> DEFINE T == {k \in Nat : k + 1 <= N => flatten[k + 1] \in Seq(S) /\ Len(flatten[k + 1]) = P[k + 1]}
  <2>9. T \in SUBSET Nat /\ 0 \in T
    <3>1. 1 \in 1..N /\ 0 \in 0..(N - 1) /\ 0 + 1 = 1
      BY <1>0, <1>2
    <3>2. flatten[1] = q[1]
      BY <2>7, <3>1, Zenon
    <3>3. P[0 + 1] = P[0] + s[0 + 1] /\ s[1] = Len(q[1])
      BY <2>8, <3>1
    <3>4. P[1] = Len(q[1])
      BY <2>3, <2>8, <3>1, <3>3, LenProperties
    <3> QED BY <2>3, <3>1, <3>2, <3>4
  <2>10. ASSUME NEW k \in T PROVE k + 1 \in T
    <3>1. k \in Nat /\ (k + 1 <= N => flatten[k + 1] \in Seq(S) /\ Len(flatten[k + 1]) = P[k + 1])
      OBVIOUS
    <3> HIDE DEF T
    <3>2. ASSUME NEW j, j = k + 1, j + 1 <= N PROVE flatten[j + 1] \in Seq(S) /\ Len(flatten[j + 1]) = P[j + 1]
      <4>1. j \in Nat /\ j + 1 \in 1..N /\ j + 1 # 1 /\ (j + 1) - 1 = j /\ j \in 0..(N - 1) /\ j <= N
        BY <1>0, <3>1, <3>2
      <4>2. flatten[j + 1] = flatten[(j + 1) - 1] \o q[j + 1]
        BY <2>7, <4>1, Zenon
      <4>3. flatten[j] \in Seq(S) /\ Len(flatten[j]) = P[j] /\ q[j + 1] \in Seq(S)
        BY <1>0, <3>1, <3>2, <4>1
      <4>4. P[j + 1] = P[j] + s[j + 1] /\ s[j + 1] = Len(q[j + 1])
        BY <2>8, <4>1
      <4> DEFINE x == flatten[j]
                 y == q[j + 1]
      <4>5. x \o y \in Seq(S) /\ Len(x \o y) = Len(x) + Len(y)
        <5> HIDE DEF x, y
        <5>1. x \in Seq(S) /\ y \in Seq(S)
          BY <4>3 DEF x, y
        <5> QED BY <5>1, ConcatProperties
      <4>6. flatten[j + 1] = x \o y
        BY <4>1, <4>2
      <4> QED BY <4>3, <4>4, <4>5, <4>6, Zenon
    <3> QED BY <3>1, <3>2 DEF T
  <2>11. \A k \in Nat : k \in T
    <3> HIDE DEF T
    <3> QED BY <2>9, <2>10, SetInduction
  <2>12. N - 1 \in Nat /\ (N - 1) + 1 = N
    BY <1>0, <1>2
  <2>13. flatten[N] \in Seq(S) /\ Len(flatten[N]) = P[N]
    <3>3. N - 1 \in T
      <4> HIDE DEF T
      <4> QED BY <2>11, <2>12
    <3>1. N - 1 \in T /\ N <= N
      BY <3>3, <1>0
    <3>2. (N - 1) + 1 <= N => flatten[(N - 1) + 1] \in Seq(S) /\ Len(flatten[(N - 1) + 1]) = P[(N - 1) + 1]
      BY <3>1
    <3> QED BY <2>12, <3>1, <3>2, Zenon
  <2> QED BY <2>1, <2>8, <2>13
<1> QED BY <1>0, <1>1, <1>2

-----------------------------------------------------------------------------
(* Entries.                                                                *)

Pay(mode, n) ==
  CASE mode = "num" -> QRinput_estimateBitsModeNum(n)
    [] mode = "an" -> QRinput_estimateBitsModeAn(n)
    [] mode = "b8" -> n * 8
    [] mode = "kanji" -> QRinput_estimateBitsModeKanji(n)

\* A chunk cut into pieces of k.
LEMMA PiecesLen ==
  ASSUME NEW d \in Seq(Nat), NEW k \in Nat, k > 0, Len(d) > 0
  PROVE  /\ Pieces(d, k) \in Seq(Seq(Nat)) /\ Len(Pieces(d, k)) = (Len(d) + k - 1) \div k
         /\ Len(Pieces(d, k)) > 0
         /\ \A i \in 1..Len(Pieces(d, k)) :
              /\ Len(Pieces(d, k)[i]) > 0
              /\ Len(Pieces(d, k)[i]) = IF i * k <= Len(d) THEN k ELSE Len(d) - (i - 1) * k
<1> DEFINE n == Len(d)
           m == (n + k - 1) \div k
<1>1. n \in Nat /\ n > 0 /\ n + k - 1 \in Int
  OBVIOUS
<1>2. m \in Int /\ k * m <= n + k - 1 /\ n + k - 1 < k * m + k
  <2> HIDE DEF n
  <2> QED BY <1>1
<1> HIDE DEF m
<1>3. m > 0
  <2>1. ASSUME m <= 0 PROVE FALSE
    <3>1. k * m <= 0
      BY <1>2, <2>1
    <3> QED BY <1>1, <1>2, <3>1
  <2> QED BY <1>2, <2>1
<1> DEFINE end(i) == IF i * k <= n THEN i * k ELSE n
           p(i) == SubSeq(d, (i - 1) * k + 1, end(i))
<1>4. ASSUME NEW i \in 1..m
      PROVE p(i) \in Seq(Nat) /\ Len(p(i)) > 0 /\ Len(p(i)) = IF i * k <= n THEN k ELSE n - (i - 1) * k
  <2>1. i * k \in Nat /\ (i - 1) * k \in Nat /\ i * k = (i - 1) * k + k
    OBVIOUS
  <2>2. (i - 1) * k < n
    <3>1. i * k <= m * k /\ m * k = k * m
      BY <1>2, <1>3
    <3> HIDE DEF n
    <3> QED BY <1>1, <1>2, <2>1, <3>1
  <2> DEFINE a == (i - 1) * k + 1
             b == end(i)
  <2>3. a \in 1..n /\ b \in Nat /\ b <= n /\ a <= b /\ b - a + 1 = IF i * k <= n THEN k ELSE n - (i - 1) * k
    <3> HIDE DEF n
    <3> QED BY <1>1, <2>1, <2>2
  <2>4. p(i) = SubSeq(d, a, b)
    OBVIOUS
  <2> HIDE DEF a, b, p
  <2>5. \A j \in a..b : d[j] \in Nat
    BY <2>3
  <2>6. SubSeq(d, a, b) \in Seq(Nat) /\ Len(SubSeq(d, a, b)) = b - a + 1
    BY <2>3, <2>5, SubSeqProperties
  <2> QED BY <2>3, <2>4, <2>6
<1>5. Pieces(d, k) = [i \in 1..m |-> p(i)]
  BY DEF Pieces, m
<1> HIDE DEF p
<1>6. [i \in 1..m |-> p(i)] \in Seq(Seq(Nat)) /\ Len([i \in 1..m |-> p(i)]) = m
  BY <1>2, <1>3, <1>4
<1>7. Len(Pieces(d, k)) = m /\ \A i \in 1..m : Pieces(d, k)[i] = p(i)
  BY <1>5, <1>6
<1> QED BY <1>3, <1>4, <1>5, <1>6, <1>7 DEF m

\* Groups of which all but the last have the same width.
LEMMA JoinedLen ==
  ASSUME NEW b, NEW n \in Nat, n > 0, Len(b) = n, NEW w \in Nat, w > 0, Len(b[n]) \in Nat
  PROVE  IsSeq(Joined(b, w)) /\ Len(Joined(b, w)) = (n - 1) * w + Len(b[n])
<1> DEFINE x(k) == b[((k - 1) \div w) + 1][((k - 1) % w) + 1]
           N == (n - 1) * w + Len(b[n])
           s == [k \in 1..N |-> x(k)]
<1>1. Joined(b, w) = Evaluated(s) /\ N \in Nat
  <2>3. n # 0 /\ (n - 1) * w \in Nat
    OBVIOUS
  <2>4. \A i, j \in Nat : i + j \in Nat
    OBVIOUS
  <2>1. n # 0 /\ N \in Nat
    BY <2>3, <2>4, Zenon
  <2>2. Joined(b, w) = Evaluated(s)
    BY <2>1, Zenon DEF Joined
  <2> QED BY <2>1, <2>2
<1> HIDE DEF x, N
<1>2. s \in Seq({x(k) : k \in 1..N}) /\ Len(s) = N
  BY <1>1
<1>3. IsSeq(s)
  BY <1>2 DEF IsSeq
<1> HIDE DEF s
<1> QED BY <1>1, <1>2, <1>3, EvaluatedLen DEF N

\* A byte is eight bits.
LEMMA BytesLen ==
  ASSUME NEW d \in Seq(Nat)
  PROVE  IsSeq(BytesToBits(d)) /\ Len(BytesToBits(d)) = 8 * Len(d)
<1> DEFINE x(k) == (d[(k + 7) \div 8] \div 2^((8 * Len(d) - k) % 8)) % 2
           N == 8 * Len(d)
           s == [k \in 1..N |-> x(k)]
<1>1. BytesToBits(d) = Evaluated(s) /\ N \in Nat
  BY DEF BytesToBits
<1> HIDE DEF x, N
<1>2. s \in Seq({x(k) : k \in 1..N}) /\ Len(s) = N
  BY <1>1
<1>3. IsSeq(s)
  BY <1>2 DEF IsSeq
<1> HIDE DEF s
<1> QED BY <1>1, <1>2, <1>3, EvaluatedLen DEF N

\* The payload of a chunk is as long as the estimate says.
LEMMA PayloadLen ==
  ASSUME NEW mode \in Splittable, NEW d \in Seq(Nat), Len(d) > 0
  PROVE  IsSeq(Payload(mode, d)) /\ Len(Payload(mode, d)) = Pay(mode, Len(d))
<1> DEFINE n == Len(d)
<1>0. n \in Nat /\ n > 0
  OBVIOUS
<1>1. CASE mode = "num"
  <2> DEFINE g == Pieces(d, 3)
             m == Len(g)
             bits(i) == Bits(<<4, 7, 10>>[Len(g[i])], NumValue(g[i]))
             b == [i \in DOMAIN g |-> bits(i)]
             r == Len(g[m])
  <2>1. Payload(mode, d) = Joined(b, 10)
    BY <1>1 DEF Payload
  <2>2. /\ g \in Seq(Seq(Nat)) /\ m = (n + 3 - 1) \div 3 /\ m > 0
        /\ \A i \in 1..m : Len(g[i]) > 0 /\ Len(g[i]) = IF i * 3 <= n THEN 3 ELSE n - (i - 1) * 3
    <3>1. 3 \in Nat /\ 3 > 0
      OBVIOUS
    <3> QED BY <3>1, PiecesLen, Zenon
  <2> HIDE DEF g, n
  <2>3. m \in Nat /\ DOMAIN g = 1..m
    BY <2>2
  <2>4. r > 0 /\ r = IF m * 3 <= n THEN 3 ELSE n - (m - 1) * 3
    BY <2>2, <2>3
  <2> HIDE DEF bits, m
  <2>5. Len(b) = m /\ b[m] = bits(m)
    BY <2>2, <2>3
  <2> HIDE DEF r, b
  <2>6. r = 1 \/ r = 2 \/ r = 3
    BY <1>0, <2>2, <2>3, <2>4
  <2>7. Len(bits(m)) = <<4, 7, 10>>[r] /\ <<4, 7, 10>>[r] \in Nat
    <3>1. <<4, 7, 10>>[r] \in Nat
      BY <2>6
    <3> QED BY <3>1, BitsLen DEF bits, r
  <2>8. IsSeq(Joined(b, 10)) /\ Len(Joined(b, 10)) = (m - 1) * 10 + <<4, 7, 10>>[r]
    <3>1. 10 \in Nat /\ 10 > 0 /\ m > 0 /\ m \in Nat /\ Len(b) = m /\ Len(b[m]) \in Nat
      BY <2>2, <2>3, <2>5, <2>7
    <3>2. IsSeq(Joined(b, 10)) /\ Len(Joined(b, 10)) = (m - 1) * 10 + Len(b[m])
      BY <3>1, JoinedLen, Zenon
    <3> QED BY <3>2, <2>2, <2>3, <2>5, <2>7
  <2>9. (m - 1) * 10 + <<4, 7, 10>>[r] = (n \div 3) * 10 + <<0, 4, 7>>[(n % 3) + 1]
    <3>1. CASE r = 3
      <4>1. n % 3 = 0 /\ n \div 3 = m
        BY <1>0, <2>2, <2>3, <2>4, <3>1
      <4>2. <<4, 7, 10>>[r] = 10 /\ <<0, 4, 7>>[(n % 3) + 1] = 0
        BY <3>1, <4>1
      <4> QED BY <2>3, <4>1, <4>2
    <3>2. CASE r = 1
      <4>1. n % 3 = 1 /\ n \div 3 = m - 1
        BY <1>0, <2>2, <2>3, <2>4, <3>2
      <4>2. <<4, 7, 10>>[r] = 4 /\ <<0, 4, 7>>[(n % 3) + 1] = 4
        BY <3>2, <4>1
      <4> QED BY <2>3, <4>1, <4>2
    <3>3. CASE r = 2
      <4>1. n % 3 = 2 /\ n \div 3 = m - 1
        BY <1>0, <2>2, <2>3, <2>4, <3>3
      <4>2. <<4, 7, 10>>[r] = 7 /\ <<0, 4, 7>>[(n % 3) + 1] = 7
        BY <3>3, <4>1
      <4> QED BY <2>3, <4>1, <4>2
    <3> QED BY <2>6, <3>1, <3>2, <3>3
  <2> QED BY <1>1, <2>1, <2>8, <2>9 DEF Pay, QRinput_estimateBitsModeNum, n
<1>2. CASE mode = "an"
  <2> DEFINE g == Pieces(d, 2)
             m == Len(g)
             bits(i) == IF Len(g[i]) = 1 THEN Bits(6, QRinput_lookAnTable(g[i][1]))
                        ELSE Bits(11, QRinput_lookAnTable(g[i][1]) * 45 + QRinput_lookAnTable(g[i][2]))
             b == [i \in DOMAIN g |-> bits(i)]
             r == Len(g[m])
  <2>1. Payload(mode, d) = Joined(b, 11)
    BY <1>2 DEF Payload
  <2>2. /\ g \in Seq(Seq(Nat)) /\ m = (n + 2 - 1) \div 2 /\ m > 0
        /\ \A i \in 1..m : Len(g[i]) > 0 /\ Len(g[i]) = IF i * 2 <= n THEN 2 ELSE n - (i - 1) * 2
    <3>1. 2 \in Nat /\ 2 > 0
      OBVIOUS
    <3> QED BY <3>1, PiecesLen, Zenon
  <2> HIDE DEF g, n
  <2>3. m \in Nat /\ DOMAIN g = 1..m
    BY <2>2
  <2>4. r > 0 /\ r = IF m * 2 <= n THEN 2 ELSE n - (m - 1) * 2
    BY <2>2, <2>3
  <2>7. Len(bits(m)) = (IF r = 1 THEN 6 ELSE 11)
    BY BitsLen
  <2> HIDE DEF bits, m
  <2>5. Len(b) = m /\ b[m] = bits(m)
    BY <2>2, <2>3
  <2> HIDE DEF r, b
  <2>6. r = 1 \/ r = 2
    BY <1>0, <2>2, <2>3, <2>4
  <2>8. IsSeq(Joined(b, 11)) /\ Len(Joined(b, 11)) = (m - 1) * 11 + (IF r = 1 THEN 6 ELSE 11)
    <3>1. 11 \in Nat /\ 11 > 0 /\ m > 0 /\ m \in Nat /\ Len(b) = m /\ Len(b[m]) \in Nat
      BY <2>2, <2>3, <2>5, <2>7
    <3>2. IsSeq(Joined(b, 11)) /\ Len(Joined(b, 11)) = (m - 1) * 11 + Len(b[m])
      BY <3>1, JoinedLen, Zenon
    <3> QED BY <3>2, <2>2, <2>3, <2>5, <2>7
  <2>9. (m - 1) * 11 + (IF r = 1 THEN 6 ELSE 11) = (n \div 2) * 11 + (n % 2) * 6
    <3>1. CASE r = 2
      <4>1. n % 2 = 0 /\ n \div 2 = m
        BY <1>0, <2>2, <2>3, <2>4, <3>1
      <4> QED BY <2>3, <3>1, <4>1
    <3>2. CASE r = 1
      <4>1. n % 2 = 1 /\ n \div 2 = m - 1
        BY <1>0, <2>2, <2>3, <2>4, <3>2
      <4> QED BY <2>3, <3>2, <4>1
    <3> QED BY <2>6, <3>1, <3>2
  <2> QED BY <1>2, <2>1, <2>8, <2>9 DEF Pay, QRinput_estimateBitsModeAn, n
<1>3. CASE mode = "b8"
  <2>1. 8 * Len(d) = Len(d) * 8
    BY <1>0
  <2> QED BY <1>3, <2>1, BytesLen DEF Payload, Pay
<1>4. CASE mode = "kanji"
  <2> DEFINE m == n \div 2
             bits(i) == Bits(13, KanjiValue(d[2 * i - 1], d[2 * i]))
             b == [i \in 1..m |-> bits(i)]
  <2>1. Payload(mode, d) = Joined(b, 13)
    BY <1>4 DEF Payload
  <2>2. m \in Nat
    BY <1>0
  <2>3. Len(bits(m)) = 13
    BY BitsLen
  <2> HIDE DEF bits, m
  <2>4. Len(b) = m /\ (m > 0 => b[m] = bits(m))
    BY <2>2
  <2> HIDE DEF b
  <2>5. IsSeq(Joined(b, 13)) /\ Len(Joined(b, 13)) = m * 13
    <3>1. CASE m > 0
      <4>1. 13 \in Nat /\ 13 > 0 /\ Len(b[m]) \in Nat
        BY <2>3, <2>4, <3>1
      <4>2. IsSeq(Joined(b, 13)) /\ Len(Joined(b, 13)) = (m - 1) * 13 + Len(b[m])
        BY <2>2, <2>4, <3>1, <4>1, JoinedLen, Zenon
      <4>3. Len(b[m]) = 13 /\ (m - 1) * 13 + 13 = m * 13
        BY <2>2, <2>3, <2>4, <3>1
      <4> QED BY <4>2, <4>3
    <3>2. CASE m = 0
      <4>1. Joined(b, 13) = <<>>
        BY <2>4, <3>2 DEF Joined
      <4>2. <<>> \in Seq({}) /\ Len(<<>>) = 0 /\ m * 13 = 0
        BY <3>2
      <4> QED BY <4>1, <4>2 DEF IsSeq
    <3> QED BY <2>2, <3>1, <3>2
  <2> QED BY <1>4, <2>1, <2>5 DEF Pay, QRinput_estimateBitsModeKanji, m
<1> QED BY <1>1, <1>2, <1>3, <1>4 DEF Splittable

-----------------------------------------------------------------------------
(* The tables.                                                             *)

Cap(v, level) == 8 * QRspec_getDataLength(v, level)

\* The capacity grows with the version, and by more than one part in 138; the
\* last version of each of the three classes holds no more than this.
LEMMA CapTable ==
  ASSUME NEW v \in Int, 1 <= v, v <= 40, NEW level \in 1..4
  PROVE  /\ QRspec_getDataLength(v, level) \in Nat /\ QRspec_getDataLength(v, level) >= 9
         /\ v <= 39 => 139 * QRspec_getDataLength(v, level) < 138 * QRspec_getDataLength(v + 1, level)
         /\ QRspec_getDataLength(v, level) <= IF v <= 9 THEN 232 ELSE IF v <= 26 THEN 1370 ELSE 2956
<1>1. CASE level = 1
  BY <1>1, SMTT(60) DEF QRspec_getDataLength, qrspecWords, qrspecEc
<1>2. CASE level = 2
  BY <1>2, SMTT(60) DEF QRspec_getDataLength, qrspecWords, qrspecEc
<1>3. CASE level = 3
  BY <1>3, SMTT(60) DEF QRspec_getDataLength, qrspecWords, qrspecEc
<1>4. CASE level = 4
  BY <1>4, SMTT(60) DEF QRspec_getDataLength, qrspecWords, qrspecEc
<1> QED BY <1>1, <1>2, <1>3, <1>4

\* Versions of one class have length fields of one width.
Class(v) == IF v <= 9 THEN 1 ELSE IF v <= 26 THEN 2 ELSE 3
Field(mode, c) == lengthTableBits[mode][c]
Room(mode, c) == IF mode = "kanji" THEN (Shifted(Field(mode, c)) - 1) * 2 ELSE Shifted(Field(mode, c)) - 1

\* lengthTableBits of qrspec.c, written out.
LEMMA FieldTable ==
  /\ Field("num", 1) = 10 /\ Field("num", 2) = 12 /\ Field("num", 3) = 14
  /\ Field("an", 1) = 9 /\ Field("an", 2) = 11 /\ Field("an", 3) = 13
  /\ Field("b8", 1) = 8 /\ Field("b8", 2) = 16 /\ Field("b8", 3) = 16
  /\ Field("kanji", 1) = 8 /\ Field("kanji", 2) = 10 /\ Field("kanji", 3) = 12
BY DEF Field, lengthTableBits

\* The powers of two that the length fields can count to.
LEMMA ShiftTable ==
  /\ Shifted(8) = 256 /\ Shifted(9) = 512 /\ Shifted(10) = 1024 /\ Shifted(11) = 2048
  /\ Shifted(12) = 4096 /\ Shifted(13) = 8192 /\ Shifted(14) = 16384 /\ Shifted(16) = 65536
BY SMT DEF Shifted

\* QRspec_lengthIndicator and QRspec_maximumWords tell three classes of
\* versions apart.
LEMMA FieldOf ==
  ASSUME NEW mode \in Splittable, NEW v \in Int
  PROVE  /\ QRspec_lengthIndicator(mode, v) = Field(mode, Class(v))
         /\ QRspec_maximumWords(mode, v) = Room(mode, Class(v))
<1>1. QRspec_lengthIndicator(mode, v) = Field(mode, Class(v))
  BY DEF QRspec_lengthIndicator, Field, Class
<1> QED BY <1>1 DEF QRspec_maximumWords, Room

\* What the estimate says of n characters, and what a chunk of them takes.
Estimated(mode, c, n) ==
  Pay(mode, n) + ((n + Shifted(Field(mode, c)) - 1) \div Shifted(Field(mode, c))) * (4 + Field(mode, c))
Taken(mode, c, n) == 4 + Field(mode, c) + Pay(mode, n)

\* The payload, in numbers.
Payloads(n) ==
  /\ Pay("num", n) \in Nat /\ 3 * Pay("num", n) >= 10 * n /\ 3 * Pay("num", n) <= 10 * n + 2
  /\ Pay("an", n) \in Nat /\ 2 * Pay("an", n) >= 11 * n /\ 2 * Pay("an", n) <= 11 * n + 1
  /\ Pay("b8", n) = 8 * n
  /\ Pay("kanji", n) \in Nat /\ 2 * Pay("kanji", n) = 13 * n - 13 * (n % 2)
\* The four payloads, as linear bounds.
LEMMA PayIs ==
  ASSUME NEW n \in Nat
  PROVE  Payloads(n)
<1>1. Pay("num", n) \in Nat /\ 3 * Pay("num", n) >= 10 * n /\ 3 * Pay("num", n) <= 10 * n + 2
  <2>3. n \div 3 \in Nat /\ n % 3 \in 0..2
    OBVIOUS
  <2>4. n = 3 * (n \div 3) + (n % 3)
    OBVIOUS
  <2>1. n \div 3 \in Nat /\ (n % 3 = 0 \/ n % 3 = 1 \/ n % 3 = 2) /\ n = 3 * (n \div 3) + (n % 3)
    BY <2>3, <2>4
  <2>2. Pay("num", n) = (n \div 3) * 10 + <<0, 4, 7>>[(n % 3) + 1]
    BY DEF Pay, QRinput_estimateBitsModeNum
  <2> QED BY <2>1, <2>2
<1>2. Pay("an", n) \in Nat /\ 2 * Pay("an", n) >= 11 * n /\ 2 * Pay("an", n) <= 11 * n + 1
  BY DEF Pay, QRinput_estimateBitsModeAn
<1>3. Pay("b8", n) = 8 * n
  BY DEF Pay
<1>4. Pay("kanji", n) \in Nat /\ 2 * Pay("kanji", n) = 13 * n - 13 * (n % 2)
  <2>1. n \div 2 \in Nat /\ n % 2 \in Nat
    OBVIOUS
  <2>2. n = 2 * (n \div 2) + (n % 2)
    OBVIOUS
  <2>3. Pay("kanji", n) = (n \div 2) * 13
    BY DEF Pay, QRinput_estimateBitsModeKanji
  <2> QED BY <2>1, <2>2, <2>3
<1> QED BY <1>1, <1>2, <1>3, <1>4 DEF Payloads

\* A payload is a natural number.
LEMMA PayNat ==
  ASSUME NEW mode \in Splittable, NEW n \in Nat
  PROVE  Pay(mode, n) \in Nat
<1>1. Payloads(n)
  BY PayIs
<1> QED BY <1>1 DEF Payloads, Splittable

\* A chunk is estimated as long as it gets at the least, and exactly so if the
\* number of its characters is in the range of the field.
LEMMA EstimatedIs ==
  ASSUME NEW mode \in Splittable, NEW c \in {1, 2, 3}, NEW n \in Nat, n > 0
  PROVE  /\ Estimated(mode, c, n) \in Nat /\ Taken(mode, c, n) \in Nat
         /\ Estimated(mode, c, n) >= Taken(mode, c, n) /\ Taken(mode, c, n) >= Pay(mode, n)
         /\ n <= Shifted(Field(mode, c)) => Estimated(mode, c, n) = Taken(mode, c, n)
<1>0. Payloads(n)
  BY PayIs
<1> DEFINE p == Pay(mode, n)
           l == Field(mode, c)
           s == Shifted(Field(mode, c))
           q == (n + s - 1) \div s
<1>1. p \in Nat
  BY <1>0 DEF Payloads, Splittable
<1>2. l \in Nat /\ s \in Nat /\ s > 0
  BY FieldTable, ShiftTable, SMT DEF Splittable
<1>3. Estimated(mode, c, n) = p + q * (4 + l) /\ Taken(mode, c, n) = 4 + l + p
  BY DEF Estimated, Taken
<1> HIDE DEF p, l, s
<1>4. q \in Nat /\ q >= 1 /\ (n <= s => q = 1)
  <2>1. n + s - 1 \in Nat /\ n + s - 1 >= s /\ (n <= s => n + s - 1 < s + s)
    BY <1>2
  <2>2. \A a \in Nat : a >= s => a \div s \in Nat /\ a \div s >= 1 /\ (a < s + s => a \div s = 1)
    BY <1>2
  <2> QED BY <2>1, <2>2
<1> HIDE DEF q
<1>5. q * (4 + l) \in Nat /\ q * (4 + l) >= 4 + l /\ (q = 1 => q * (4 + l) = 4 + l)
  BY <1>2, <1>4
<1>6. Estimated(mode, c, n) \in Nat /\ Taken(mode, c, n) \in Nat /\ Estimated(mode, c, n) >= Taken(mode, c, n) /\ Taken(mode, c, n) >= p
      /\ (n <= s => Estimated(mode, c, n) = Taken(mode, c, n))
  BY <1>1, <1>2, <1>3, <1>4, <1>5
<1> QED BY <1>6 DEF p, s

\* The headers it counts too many are few.
LEMMA Slack ==
  ASSUME NEW mode \in Splittable, NEW c \in {1, 2, 3}, NEW d \in {1, 2, 3}, c <= d,
         NEW n \in Nat, n > 0, n <= Room(mode, d), mode = "kanji" => n % 2 = 0
  PROVE  138 * Estimated(mode, c, n) <= 139 * Taken(mode, d, n)
<1>0. Payloads(n)
  BY PayIs
<1>1. CASE mode = "num"
  BY <1>1, <1>0, FieldTable, ShiftTable, SMT DEF Payloads, Estimated, Taken, Room
<1>2. CASE mode = "an"
  BY <1>2, <1>0, FieldTable, ShiftTable, SMT DEF Payloads, Estimated, Taken, Room
<1>3. CASE mode = "b8"
  BY <1>3, <1>0, FieldTable, ShiftTable, SMT DEF Payloads, Estimated, Taken, Room
<1>4. CASE mode = "kanji"
  BY <1>4, <1>0, FieldTable, ShiftTable, SMT DEF Payloads, Estimated, Taken, Room
<1> QED BY <1>1, <1>2, <1>3, <1>4 DEF Splittable

\* Wider fields take more bits and more characters.
LEMMA Wider ==
  ASSUME NEW mode \in Splittable, NEW c \in {1, 2, 3}, NEW d \in {1, 2, 3}, c <= d, NEW n \in Nat, n > 0
  PROVE  /\ Taken(mode, c, n) <= Taken(mode, d, n) /\ Room(mode, c) <= Room(mode, d)
         /\ n <= Shifted(Field(mode, 1)) => Estimated(mode, 1, n) <= Taken(mode, d, n)
<1>0. Payloads(n)
  BY PayIs
<1>1. Field(mode, c) <= Field(mode, d) /\ Field(mode, 1) <= Field(mode, d) /\ Room(mode, c) <= Room(mode, d)
  BY FieldTable, ShiftTable, SMT DEF Splittable, Room
<1>2. Pay(mode, n) \in Nat /\ Field(mode, c) \in Nat /\ Field(mode, d) \in Nat /\ Field(mode, 1) \in Nat
  BY <1>0, FieldTable, SMT DEF Payloads, Splittable
<1>3. Taken(mode, c, n) <= Taken(mode, d, n) /\ Taken(mode, 1, n) <= Taken(mode, d, n)
  BY <1>1, <1>2 DEF Taken
<1>4. n <= Shifted(Field(mode, 1)) => Estimated(mode, 1, n) = Taken(mode, 1, n)
  <2>1. 1 \in {1, 2, 3}
    OBVIOUS
  <2> QED BY <2>1, EstimatedIs
<1> QED BY <1>1, <1>3, <1>4

\* No symbol of a class has room for a longer chunk, nor for the longest one.
LEMMA TooLong ==
  ASSUME NEW mode \in Splittable, NEW v \in Int, 1 <= v, v <= 40, NEW level \in 1..4, NEW n \in Nat, n >= Room(mode, Class(v))
  PROVE  Pay(mode, n) > Cap(v, level)
<1>0. Payloads(n)
  BY PayIs
<1> DEFINE c == Class(v)
<1>1. c \in {1, 2, 3} /\ Cap(v, level) \in Nat /\ Cap(v, level) <= IF c = 1 THEN 1856 ELSE IF c = 2 THEN 10960 ELSE 23648
  BY CapTable, SMT DEF Class, Cap
<1>3. n >= Room(mode, c)
  OBVIOUS
<1> HIDE DEF c
<1>2. Pay(mode, n) \in Nat /\ Pay(mode, n) > IF c = 1 THEN 1856 ELSE IF c = 2 THEN 10960 ELSE 23648
  BY <1>1, <1>3, FieldTable, ShiftTable, <1>0, SMT DEF Payloads, Splittable, Room
<1> QED BY <1>1, <1>2, SMT DEF c

-----------------------------------------------------------------------------
(* Chunks of an input, with the headers that may go before them.           *)

Entries == {e \in [mode : Splittable \cup {"structure", "fnc1second"}, data : Seq(Nat)] :
              /\ Len(e.data) > 0 /\ (e.mode = "kanji" => Len(e.data) % 2 = 0)
              /\ (e.mode = "fnc1second" => Len(e.data) = 1)}
Chunks == {e \in Entries : e.mode \in Splittable}

Enc(e, v) == Len(QRinput_encodeBitStream(e, v, FALSE))
Est(e, v) == QRinput_estimateBitStreamSizeOfEntry(e, v)
\* The length field of version v can say how long it is.
Short(e, v) == e.mode \in Splittable => Len(e.data) <= Room(e.mode, Class(v))

\* There are three classes.
LEMMA ClassIs ==
  ASSUME NEW v \in Int
  PROVE  Class(v) \in {1, 2, 3}
BY DEF Class

\* Every class has room for a chunk of every mode.
LEMMA RoomNat ==
  ASSUME NEW mode \in Splittable, NEW c \in {1, 2, 3}
  PROVE  Field(mode, c) \in Nat /\ Room(mode, c) \in Nat /\ Room(mode, c) > 0
BY FieldTable, ShiftTable, SMT DEF Splittable, Room

\* A piece that its length field can count takes its header and its payload.
LEMMA PieceLen ==
  ASSUME NEW mode \in Splittable, NEW d \in Seq(Nat), Len(d) > 0, NEW v \in Int
  PROVE  /\ IsSeq(EncodePiece(mode, d, v, FALSE))
         /\ Len(EncodePiece(mode, d, v, FALSE)) = Taken(mode, Class(v), Len(d))
<1> DEFINE l == QRspec_lengthIndicator(mode, v)
           a == Bits(4, ModeId[mode])
           b == Bits(l, Units(mode, d))
           p == Payload(mode, d)
<1>1. EncodePiece(mode, d, v, FALSE) = a \o b \o p
  BY DEF EncodePiece
<1>2. l = Field(mode, Class(v)) /\ l \in Nat
  BY FieldOf, RoomNat, ClassIs
<1>3. IsSeq(a) /\ Len(a) = 4
  BY BitsLen
<1>4. IsSeq(b) /\ Len(b) = l
  BY <1>2, BitsLen
<1>5. IsSeq(p) /\ Len(p) = Pay(mode, Len(d))
  BY PayloadLen
<1>7. Pay(mode, Len(d)) \in Nat
  BY PayNat, LenProperties
<1> HIDE DEF a, b, p, l
<1>8. IsSeq(a \o b) /\ Len(a \o b) = Len(a) + Len(b)
  BY <1>3, <1>4, ConcatLen
<1>9. IsSeq((a \o b) \o p) /\ Len((a \o b) \o p) = Len(a \o b) + Len(p)
  BY <1>5, <1>8, ConcatLen
<1>10. Len(a \o b \o p) = 4 + Field(mode, Class(v)) + Pay(mode, Len(d))
  BY <1>2, <1>3, <1>4, <1>5, <1>7, <1>8, <1>9
<1> QED BY <1>1, <1>9, <1>10 DEF Taken

\* A table of sequences is flattened to as many elements as they have.
LEMMA FlattenTable ==
  ASSUME NEW n \in Nat, NEW q, q = [i \in 1..n |-> q[i]], \A i \in 1..n : IsSeq(q[i])
  PROVE  /\ IsSeq(FlattenSeq(q)) /\ Len(FlattenSeq(q)) = SumOf([i \in 1..n |-> Len(q[i])])
         /\ [i \in 1..n |-> Len(q[i])] \in Seq(Nat) /\ Len([i \in 1..n |-> Len(q[i])]) = n
<1> DEFINE X == UNION {{q[i][j] : j \in 1..Len(q[i])} : i \in 1..n}
<1>1. ASSUME NEW i \in 1..n PROVE q[i] \in Seq(X) /\ Len(q[i]) \in Nat
  <2>1. PICK Y : q[i] \in Seq(Y)
    BY DEF IsSeq
  <2>2. Len(q[i]) \in Nat /\ q[i] = [j \in 1..Len(q[i]) |-> q[i][j]]
    BY <2>1, LenProperties
  <2>3. \A j \in 1..Len(q[i]) : q[i][j] \in X
    OBVIOUS
  <2> HIDE DEF X
  <2> QED BY <2>2, <2>3, IsASeq
<1> HIDE DEF X
<1>2. q \in Seq(Seq(X)) /\ Len(q) = n
  <2>1. [i \in 1..n |-> q[i]] \in Seq(Seq(X)) /\ Len([i \in 1..n |-> q[i]]) = n
    BY <1>1
  <2> QED BY <2>1
<1>3. FlattenSeq(q) \in Seq(X) /\ Len(FlattenSeq(q)) = SumOf([i \in 1..Len(q) |-> Len(q[i])])
  BY <1>2, FlattenLen
<1>4. [i \in 1..n |-> Len(q[i])] \in Seq(Nat) /\ Len([i \in 1..n |-> Len(q[i])]) = n
  BY <1>1
<1> QED BY <1>2, <1>3, <1>4 DEF IsSeq

\* What a chunk takes.
LEMMA ChunkEnc ==
  ASSUME NEW e \in Chunks, NEW v \in Int
  PROVE  /\ IsSeq(QRinput_encodeBitStream(e, v, FALSE)) /\ Enc(e, v) \in Nat
         /\ Short(e, v) => Enc(e, v) = Taken(e.mode, Class(v), Len(e.data))
         /\ ~Short(e, v) => Enc(e, v) >= Taken(e.mode, Class(v), Room(e.mode, Class(v)))
<1> DEFINE mode == e.mode
           d == e.data
           c == Class(v)
           k == Room(mode, c)
           g == Pieces(d, k)
           n == Len(g)
           x(i) == EncodePiece(mode, g[i], v, FALSE)
           q == [i \in 1..n |-> x(i)]
<1>1. mode \in Splittable /\ d \in Seq(Nat) /\ Len(d) \in Nat /\ Len(d) > 0
  BY DEF Chunks, Entries
<1>2. c \in {1, 2, 3} /\ k \in Nat /\ k > 0 /\ k = QRspec_maximumWords(mode, v)
  BY <1>1, ClassIs, RoomNat, FieldOf
<1>3. Short(e, v) <=> Len(d) <= k
  BY <1>1 DEF Short
<1>4. QRinput_encodeBitStream(e, v, FALSE) = FlattenSeq([i \in DOMAIN g |-> x(i)])
  <2>1. /\ e.mode \in Splittable /\ e.mode # "structure" /\ e.mode # "eci" /\ e.mode # "fnc1second"
    BY <1>1 DEF Splittable
  <2> DEFINE h == Pieces(e.data, QRspec_maximumWords(e.mode, v))
  <2>2. QRinput_encodeBitStream(e, v, FALSE) = FlattenSeq([i \in DOMAIN h |-> EncodePiece(e.mode, h[i], v, FALSE)])
    BY <2>1, Zenon DEF QRinput_encodeBitStream
  <2>3. h = g
    BY <1>2
  <2> QED BY <2>2, <2>3, Zenon
<1> HIDE DEF mode, d, c, k
<1>5. /\ g \in Seq(Seq(Nat)) /\ n = (Len(d) + k - 1) \div k /\ n > 0
      /\ \A i \in 1..n : Len(g[i]) > 0 /\ Len(g[i]) = IF i * k <= Len(d) THEN k ELSE Len(d) - (i - 1) * k
  BY <1>1, <1>2, PiecesLen
<1> HIDE DEF g
<1>6. n \in Nat /\ DOMAIN g = 1..n /\ \A i \in 1..n : g[i] \in Seq(Nat)
  BY <1>5
<1>7. ASSUME NEW i \in 1..n PROVE IsSeq(x(i)) /\ Len(x(i)) = Taken(mode, c, Len(g[i]))
  BY <1>1, <1>5, <1>6, PieceLen DEF c
<1> HIDE DEF x, n
<1>8. q = [i \in 1..n |-> q[i]] /\ \A i \in 1..n : q[i] = x(i)
  OBVIOUS
<1>9. QRinput_encodeBitStream(e, v, FALSE) = FlattenSeq(q)
  BY <1>4, <1>6
<1> DEFINE s == [i \in 1..n |-> Len(q[i])]
<1>10. IsSeq(FlattenSeq(q)) /\ Len(FlattenSeq(q)) = SumOf(s) /\ s \in Seq(Nat) /\ Len(s) = n
  <2>1. \A i \in 1..n : IsSeq(q[i])
    BY <1>7, <1>8
  <2> HIDE DEF q
  <2> QED BY <1>6, <1>8, <2>1, FlattenTable
<1>11. 1 \in 1..n /\ s[1] = Taken(mode, c, Len(g[1])) /\ Len(g[1]) = IF k <= Len(d) THEN k ELSE Len(d)
  <2>1. 1 \in 1..n /\ 1 * k = k /\ Len(d) - (1 - 1) * k = Len(d)
    BY <1>1, <1>2, <1>5, <1>6
  <2>2. Len(g[1]) = IF 1 * k <= Len(d) THEN k ELSE Len(d) - (1 - 1) * k
    BY <1>5, <2>1
  <2> QED BY <1>7, <1>8, <2>1, <2>2
<1> HIDE DEF q, s
<1>12. SumOf(s) \in Nat /\ s[1] <= SumOf(s)
  BY <1>10, <1>11, SumNat
<1>13. ASSUME Len(d) <= k PROVE SumOf(s) = Taken(mode, c, Len(d))
  <2>1. n = 1
    <3>1. Len(d) + k - 1 \in Nat /\ Len(d) + k - 1 >= k /\ Len(d) + k - 1 < k + k
      BY <1>1, <1>2, <1>13
    <3>2. \A y \in Nat : y >= k /\ y < k + k => y \div k = 1
      BY <1>2
    <3> QED BY <1>5, <3>1, <3>2
  <2>2. Len(g[1]) = Len(d)
    BY <1>1, <1>2, <1>11, <1>13
  <2>3. SumOf(s) = s[1]
    <3>1. PICK P \in [0..Len(s) -> Nat] :
            P[0] = 0 /\ SumOf(s) = P[Len(s)] /\ \A i \in 0..(Len(s) - 1) : P[i + 1] = P[i] + s[i + 1]
      BY <1>10, PartialSums
    <3>2. Len(s) = 1 /\ 0 \in 0..(Len(s) - 1) /\ 0 + 1 = 1
      BY <1>10, <2>1
    <3>3. P[1] = P[0] + s[1]
      BY <3>1, <3>2
    <3>4. s[1] \in Nat
      BY <1>10, <3>2
    <3> QED BY <3>1, <3>2, <3>3, <3>4
  <2> QED BY <1>11, <2>2, <2>3
<1>14. ASSUME ~(Len(d) <= k) PROVE SumOf(s) >= Taken(mode, c, k)
  <2>1. Len(g[1]) = k
    BY <1>1, <1>2, <1>11, <1>14
  <2> QED BY <1>11, <1>12, <2>1
<1>15. Enc(e, v) = SumOf(s)
  BY <1>9, <1>10 DEF Enc
<1> QED BY <1>3, <1>9, <1>10, <1>12, <1>13, <1>14, <1>15 DEF mode, d, c, k

\* The estimate of a chunk.
LEMMA ChunkEst ==
  ASSUME NEW e \in Chunks, NEW v \in Int
  PROVE  Est(e, v) = Estimated(e.mode, Class(v), Len(e.data)) /\ Est(e, v) \in Nat
<1> DEFINE w == IF v = 0 THEN 1 ELSE v
           n == Len(e.data)
           l == QRspec_lengthIndicator(e.mode, w)
           p == CASE e.mode = "num" -> QRinput_estimateBitsModeNum(n)
                  [] e.mode = "an" -> QRinput_estimateBitsModeAn(n)
                  [] e.mode = "b8" -> n * 8
                  [] e.mode = "kanji" -> QRinput_estimateBitsModeKanji(n)
                  [] e.mode = "eci" -> MODE_INDICATOR_SIZE + 8 * EciWords(e.data)
                  [] OTHER -> 0
<1>1. e.mode \in Splittable /\ n \in Nat /\ n > 0
  BY DEF Chunks, Entries
<1>2. e.mode # "structure" /\ e.mode # "fnc1second"
  BY <1>1 DEF Splittable
<1>3. Est(e, v) = p + ((n + Shifted(l) - 1) \div Shifted(l)) * (MODE_INDICATOR_SIZE + l)
  BY <1>2, Zenon DEF Est, QRinput_estimateBitStreamSizeOfEntry
<1>4. p = Pay(e.mode, n)
  BY <1>1 DEF Pay, Splittable
<1>5. Class(w) = Class(v) /\ w \in Int
  BY DEF Class
<1>6. l = Field(e.mode, Class(v))
  <2> HIDE DEF w
  <2> QED BY <1>1, <1>5, FieldOf
<1> HIDE DEF p, l, n
<1>7. Est(e, v) = Estimated(e.mode, Class(v), n)
  BY <1>3, <1>4, <1>6 DEF Estimated, MODE_INDICATOR_SIZE
<1>8. Class(v) \in {1, 2, 3}
  BY ClassIs
<1> QED BY <1>1, <1>7, <1>8, EstimatedIs DEF n

\* A header is as long as its estimate, whatever the version.
HeaderBits(mode) == IF mode = "structure" THEN 20 ELSE 12
\* The headers of a set and of FNC1 have a fixed length, and are estimated so.
LEMMA HeaderLen ==
  ASSUME NEW e \in Entries, e.mode \notin Splittable, NEW v \in Int
  PROVE  /\ IsSeq(QRinput_encodeBitStream(e, v, FALSE))
         /\ Enc(e, v) = HeaderBits(e.mode) /\ Est(e, v) = HeaderBits(e.mode)
<1>1. CASE e.mode = "structure"
  <2> DEFINE a == Bits(4, ModeId.structure)
             b == Bits(4, e.data[2] - 1)
             c == Bits(4, e.data[1] - 1)
             d == Bits(8, e.data[3])
  <2>1. QRinput_encodeBitStream(e, v, FALSE) = a \o b \o c \o d
    BY <1>1, Zenon DEF QRinput_encodeBitStream
  <2>2. IsSeq(a) /\ IsSeq(b) /\ IsSeq(c) /\ IsSeq(d) /\ Len(a) = 4 /\ Len(b) = 4 /\ Len(c) = 4 /\ Len(d) = 8
    BY BitsLen
  <2> HIDE DEF a, b, c, d
  <2>3. IsSeq(a \o b) /\ Len(a \o b) = Len(a) + Len(b)
    BY <2>2, ConcatLen, Zenon
  <2>4. IsSeq((a \o b) \o c) /\ Len((a \o b) \o c) = Len(a \o b) + Len(c)
    BY <2>2, <2>3, ConcatLen, Zenon
  <2>7. IsSeq(((a \o b) \o c) \o d) /\ Len(((a \o b) \o c) \o d) = Len((a \o b) \o c) + Len(d)
    BY <2>2, <2>4, ConcatLen, Zenon
  <2>5. IsSeq(((a \o b) \o c) \o d) /\ Len(((a \o b) \o c) \o d) = 20
    BY <2>2, <2>3, <2>4, <2>7
  <2>6. Est(e, v) = 20
    BY <1>1 DEF Est, QRinput_estimateBitStreamSizeOfEntry, STRUCTURE_HEADER_SIZE
  <2> QED BY <1>1, <2>1, <2>5, <2>6 DEF Enc, HeaderBits
<1>2. CASE e.mode = "fnc1second"
  <2> DEFINE a == Bits(4, ModeId.fnc1second)
             b == BytesToBits(e.data)
  <2>0. e.mode # "structure"
    BY <1>2
  <2>1. QRinput_encodeBitStream(e, v, FALSE) = a \o b
    BY <1>2, <2>0, Zenon DEF QRinput_encodeBitStream
  <2>2. e.data \in Seq(Nat) /\ Len(e.data) = 1
    BY <1>2 DEF Entries
  <2>3. IsSeq(a) /\ Len(a) = 4 /\ IsSeq(b) /\ Len(b) = 8
    <3>1. IsSeq(a) /\ Len(a) = 4
      BY BitsLen
    <3>2. IsSeq(b) /\ Len(b) = 8 * Len(e.data)
      BY <2>2, BytesLen, Zenon
    <3> HIDE DEF a, b
    <3> QED BY <2>2, <3>1, <3>2
  <2> HIDE DEF a, b
  <2>6. IsSeq(a \o b) /\ Len(a \o b) = Len(a) + Len(b)
    BY <2>3, ConcatLen, Zenon
  <2>4. IsSeq(a \o b) /\ Len(a \o b) = 12
    BY <2>3, <2>6
  <2>5. Est(e, v) = 12
    BY <1>2 DEF Est, QRinput_estimateBitStreamSizeOfEntry, MODE_INDICATOR_SIZE
  <2> QED BY <2>0, <2>1, <2>4, <2>5 DEF Enc, HeaderBits
<1> QED BY <1>1, <1>2 DEF Entries

\* The headers the estimate of a chunk may count too many.
Over(e, c) == e.mode \in Splittable /\ Len(e.data) > Shifted(Field(e.mode, c))

\* Every entry has a length, encoded and estimated.
LEMMA EntryLen ==
  ASSUME NEW e \in Entries, NEW v \in Int
  PROVE  IsSeq(QRinput_encodeBitStream(e, v, FALSE)) /\ Enc(e, v) \in Nat /\ Est(e, v) \in Nat
<1>0. v \in Int
  OBVIOUS
<1>1. CASE e.mode \in Splittable
  <2>1. e \in Chunks
    BY <1>1 DEF Chunks
  <2>2. IsSeq(QRinput_encodeBitStream(e, v, FALSE)) /\ Enc(e, v) \in Nat
    BY <1>0, <2>1, ChunkEnc, Zenon
  <2>3. Est(e, v) \in Nat
    BY <2>1, ChunkEst, Zenon
  <2> QED BY <2>2, <2>3
<1>2. CASE e.mode \notin Splittable
  <2>1. HeaderBits(e.mode) \in Nat
    BY DEF HeaderBits
  <2>2. /\ IsSeq(QRinput_encodeBitStream(e, v, FALSE))
        /\ Enc(e, v) = HeaderBits(e.mode) /\ Est(e, v) = HeaderBits(e.mode)
    BY <1>0, <1>2, HeaderLen, Zenon
  <2> QED BY <2>1, <2>2, Zenon
<1> QED BY <1>1, <1>2

\* The estimate with version r against what an entry takes in version w.
LEMMA EstimateAgainst ==
  ASSUME NEW e \in Entries, NEW r \in Int, NEW w \in Int, Class(r) <= Class(w), Short(e, w)
  PROVE  /\ 138 * Est(e, r) <= 139 * Enc(e, w)
         /\ Class(r) = Class(w) /\ ~(e.mode = "kanji" /\ Over(e, Class(w))) => Est(e, r) = Enc(e, w)
         /\ Class(r) = 1 /\ ~Over(e, 1) => Est(e, r) <= Enc(e, w)
<1>1. CASE e.mode \in Splittable
  <2> DEFINE n == Len(e.data)
             c == Class(r)
             d == Class(w)
  <2>1. e \in Chunks /\ n \in Nat /\ n > 0 /\ (e.mode = "kanji" => n % 2 = 0)
    BY <1>1 DEF Chunks, Entries
  <2>2. c \in {1, 2, 3} /\ d \in {1, 2, 3} /\ c <= d
    BY ClassIs
  <2>3. Est(e, r) = Estimated(e.mode, c, n) /\ Enc(e, w) = Taken(e.mode, d, n)
    <3>1. w \in Int
      OBVIOUS
    <3>2. Enc(e, w) = Taken(e.mode, d, n)
      BY <2>1, <3>1, ChunkEnc, Zenon
    <3> QED BY <2>1, <3>2, ChunkEst, Zenon
  <2>4. n <= Room(e.mode, d)
    BY <1>1 DEF Short
  <2>5. Over(e, 1) <=> n > Shifted(Field(e.mode, 1))
    BY <1>1 DEF Over
  <2>6. Over(e, d) <=> n > Shifted(Field(e.mode, d))
    BY <1>1 DEF Over
  <2> HIDE DEF n, c, d
  <2>7. 138 * Estimated(e.mode, c, n) <= 139 * Taken(e.mode, d, n)
    BY <1>1, <2>1, <2>2, <2>4, Slack
  <2>8. Shifted(Field(e.mode, d)) \in Nat /\ (e.mode # "kanji" => n <= Shifted(Field(e.mode, d))) /\ Shifted(Field(e.mode, 1)) \in Nat
    <3>1. Shifted(Field(e.mode, d)) \in Nat /\ Shifted(Field(e.mode, 1)) \in Nat
      BY <1>1, <2>2, FieldTable, ShiftTable, SMT DEF Splittable
    <3> QED BY <2>1, <2>4, <3>1 DEF Room
  <2>9. c = d /\ ~(e.mode = "kanji" /\ Over(e, d)) => Estimated(e.mode, c, n) = Taken(e.mode, d, n)
    <3> SUFFICES ASSUME c = d, ~(e.mode = "kanji" /\ Over(e, d)) PROVE Estimated(e.mode, c, n) = Taken(e.mode, d, n)
      OBVIOUS
    <3>1. n <= Shifted(Field(e.mode, d))
      BY <2>1, <2>6, <2>8
    <3> QED BY <1>1, <2>1, <2>2, <3>1, EstimatedIs
  <2>10. c = 1 /\ ~Over(e, 1) => Estimated(e.mode, c, n) <= Taken(e.mode, d, n)
    <3> SUFFICES ASSUME c = 1, ~Over(e, 1) PROVE Estimated(e.mode, c, n) <= Taken(e.mode, d, n)
      OBVIOUS
    <3>1. n <= Shifted(Field(e.mode, 1))
      BY <2>1, <2>5, <2>8
    <3> QED BY <1>1, <2>1, <2>2, <3>1, Wider
  <2> QED BY <2>3, <2>7, <2>9, <2>10 DEF c, d
<1>2. CASE e.mode \notin Splittable
  <2>1. Enc(e, w) = HeaderBits(e.mode) /\ Est(e, r) = HeaderBits(e.mode) /\ HeaderBits(e.mode) \in Nat
    <3>1. r \in Int /\ w \in Int
      OBVIOUS
    <3>2. Enc(e, w) = HeaderBits(e.mode) /\ Est(e, r) = HeaderBits(e.mode)
      BY <1>2, <3>1, HeaderLen, Zenon
    <3>3. HeaderBits(e.mode) \in Nat
      BY DEF HeaderBits
    <3> QED BY <3>2, <3>3
  <2> QED BY <2>1
<1> QED BY <1>1, <1>2

\* A larger version takes no fewer bits, and no chunk is too long for it that is
\* not too long for a smaller one.
LEMMA LargerVersion ==
  ASSUME NEW e \in Entries, NEW r \in Int, NEW w \in Int, Class(r) <= Class(w), Short(e, r)
  PROVE  Short(e, w) /\ Enc(e, r) <= Enc(e, w)
<1>1. CASE e.mode \in Splittable
  <2> DEFINE n == Len(e.data)
             c == Class(r)
             d == Class(w)
  <2>1. e \in Chunks /\ n \in Nat /\ n > 0 /\ n <= Room(e.mode, c)
    BY <1>1 DEF Chunks, Entries, Short
  <2>2. c \in {1, 2, 3} /\ d \in {1, 2, 3} /\ c <= d
    BY ClassIs
  <2>3. Taken(e.mode, c, n) <= Taken(e.mode, d, n) /\ Room(e.mode, c) <= Room(e.mode, d)
        /\ Room(e.mode, c) \in Nat /\ Room(e.mode, d) \in Nat
    <3> HIDE DEF c, d, n
    <3> QED BY <1>1, <2>1, <2>2, Wider, RoomNat
  <2>4. Short(e, w)
    BY <2>1, <2>3 DEF Short
  <2>5. r \in Int /\ w \in Int
    OBVIOUS
  <2>6. Enc(e, w) = Taken(e.mode, d, n) /\ Enc(e, r) = Taken(e.mode, c, n)
    BY <2>1, <2>4, <2>5, ChunkEnc, Zenon
  <2> QED BY <2>3, <2>4, <2>6, Zenon
<1>2. CASE e.mode \notin Splittable
  <2>1. Enc(e, w) = HeaderBits(e.mode) /\ Enc(e, r) = HeaderBits(e.mode) /\ HeaderBits(e.mode) \in Nat
    <3>1. r \in Int /\ w \in Int
      OBVIOUS
    <3>2. Enc(e, w) = HeaderBits(e.mode) /\ Enc(e, r) = HeaderBits(e.mode)
      BY <1>2, <3>1, HeaderLen, Zenon
    <3>3. HeaderBits(e.mode) \in Nat
      BY DEF HeaderBits
    <3> QED BY <3>2, <3>3
  <2> QED BY <1>2, <2>1 DEF Short
<1> QED BY <1>1, <1>2

\* A chunk that is too long for the length field is too long for the symbol, and
\* the estimate, whatever the version it is made with, says so.
LEMMA LongChunk ==
  ASSUME NEW e \in Entries, NEW r \in Int, NEW w \in Int, 1 <= w, w <= 40, NEW level \in 1..4, ~Short(e, w)
  PROVE  Enc(e, w) > Cap(w, level) /\ Est(e, r) > Cap(w, level)
<1> DEFINE n == Len(e.data)
           c == Class(w)
           k == Room(e.mode, c)
<1>1. e.mode \in Splittable /\ e \in Chunks /\ n \in Nat /\ n > 0
  BY DEF Chunks, Entries, Short
<1>2. c \in {1, 2, 3} /\ k \in Nat /\ k > 0 /\ ~(n <= k)
  BY <1>1, ClassIs, RoomNat DEF Short
<1>3. Pay(e.mode, n) > Cap(w, level) /\ Pay(e.mode, k) > Cap(w, level)
  <2>1. n >= Room(e.mode, Class(w)) /\ k >= Room(e.mode, Class(w))
    BY <1>1, <1>2
  <2> HIDE DEF n, k
  <2> QED BY <1>1, <1>2, <2>1, TooLong
<1>4. Enc(e, w) >= Taken(e.mode, c, k) /\ Enc(e, w) \in Nat
  BY <1>1, ChunkEnc
<1>5. Est(e, r) = Estimated(e.mode, Class(r), n) /\ Est(e, r) \in Nat
  BY <1>1, ChunkEst
<1>6. Class(r) \in {1, 2, 3}
  BY ClassIs
<1> HIDE DEF n, c, k
<1>7. Taken(e.mode, c, k) \in Nat /\ Taken(e.mode, c, k) >= Pay(e.mode, k)
  BY <1>1, <1>2, EstimatedIs
<1>8. Estimated(e.mode, Class(r), n) \in Nat /\ Estimated(e.mode, Class(r), n) >= Pay(e.mode, n)
  <2>1. /\ Estimated(e.mode, Class(r), n) >= Taken(e.mode, Class(r), n) /\ Taken(e.mode, Class(r), n) >= Pay(e.mode, n)
        /\ Estimated(e.mode, Class(r), n) \in Nat /\ Taken(e.mode, Class(r), n) \in Nat
    BY <1>1, <1>6, EstimatedIs
  <2>2. Pay(e.mode, n) \in Nat
    BY <1>1, PayNat
  <2> QED BY <2>1, <2>2
<1>9. Pay(e.mode, n) \in Nat /\ Pay(e.mode, k) \in Nat /\ Cap(w, level) \in Nat
  <2>1. Pay(e.mode, n) \in Nat /\ Pay(e.mode, k) \in Nat
    BY <1>1, <1>2, PayNat
  <2>2. Cap(w, level) \in Nat
    BY CapTable DEF Cap
  <2> QED BY <2>1, <2>2
<1> QED BY <1>3, <1>4, <1>5, <1>7, <1>8, <1>9

\* What is estimated to fit has no chunk that is too long, and takes no more.
LEMMA EstimatedFits ==
  ASSUME NEW e \in Entries, NEW v \in Int, 1 <= v, v <= 40, NEW level \in 1..4, Est(e, v) <= Cap(v, level)
  PROVE  Short(e, v) /\ Enc(e, v) <= Est(e, v)
<1>1. v \in Nat /\ Est(e, v) \in Nat /\ Cap(v, level) \in Nat
  <2>1. v \in Nat
    OBVIOUS
  <2>2. Est(e, v) \in Nat
    BY <2>1, EntryLen, Zenon
  <2>3. Cap(v, level) \in Nat
    BY CapTable DEF Cap
  <2> QED BY <2>1, <2>2, <2>3
<1>2. Short(e, v)
  <2>1. ASSUME ~Short(e, v) PROVE FALSE
    <3>1. Est(e, v) > Cap(v, level)
      BY <1>1, <2>1, LongChunk
    <3> QED BY <1>1, <3>1
  <2> QED BY <2>1
<1>3. CASE e.mode \in Splittable
  <2> DEFINE n == Len(e.data)
  <2>1. e \in Chunks /\ n \in Nat /\ n > 0 /\ Class(v) \in {1, 2, 3}
    BY <1>3, ClassIs DEF Chunks, Entries
  <2>2. Est(e, v) = Estimated(e.mode, Class(v), n) /\ Enc(e, v) = Taken(e.mode, Class(v), n)
    BY <1>1, <1>2, <2>1, ChunkEst, ChunkEnc
  <2> HIDE DEF n
  <2> QED BY <1>2, <1>3, <2>1, <2>2, EstimatedIs
<1>4. CASE e.mode \notin Splittable
  <2>1. Enc(e, v) = HeaderBits(e.mode) /\ Est(e, v) = HeaderBits(e.mode)
    BY <1>4, HeaderLen
  <2> QED BY <1>1, <1>2, <2>1
<1> QED BY <1>3, <1>4

\* Every version has room for the header of a set and for something after it.
LEMMA CapNat ==
  ASSUME NEW v \in Int, 1 <= v, v <= 40, NEW level \in 1..4
  PROVE  Cap(v, level) \in Nat /\ Cap(v, level) >= 72 /\ QRspec_getDataLength(v, level) \in Nat
<1>1. QRspec_getDataLength(v, level) \in Nat /\ QRspec_getDataLength(v, level) >= 9
  BY CapTable
<1> QED BY <1>1 DEF Cap

-----------------------------------------------------------------------------
(* Lists of entries.                                                       *)

EncAll(list, v) == Len(QRinput_mergeBitStream(list, v, FALSE))
EstAll(list, v) == QRinput_estimateBitStreamSize(list, v)
AllShort(list, v) == \A i \in 1..Len(list) : Short(list[i], v)

EncTerms(list, v) == [i \in 1..Len(list) |-> Enc(list[i], v)]
EstTerms(list, v) == [i \in 1..Len(list) |-> Est(list[i], v)]

\* The bits of a list are those of its entries; so are the estimated ones.
LEMMA Terms ==
  ASSUME NEW list \in Seq(Entries), NEW v \in Int
  PROVE  /\ EncTerms(list, v) \in Seq(Nat) /\ Len(EncTerms(list, v)) = Len(list)
         /\ EncAll(list, v) = SumOf(EncTerms(list, v)) /\ EncAll(list, v) \in Nat
         /\ EstTerms(list, v) \in Seq(Nat) /\ Len(EstTerms(list, v)) = Len(list)
         /\ EstAll(list, v) = SumOf(EstTerms(list, v)) /\ EstAll(list, v) \in Nat
<1> DEFINE n == Len(list)
           x(i) == QRinput_encodeBitStream(list[i], v, FALSE)
           q == [i \in 1..n |-> x(i)]
<1>1. n \in Nat /\ DOMAIN list = 1..n /\ \A i \in 1..n : list[i] \in Entries
  OBVIOUS
<1>2. ASSUME NEW i \in 1..n PROVE IsSeq(x(i)) /\ Len(x(i)) = Enc(list[i], v) /\ Enc(list[i], v) \in Nat /\ Est(list[i], v) \in Nat
  <2>1. list[i] \in Entries
    BY <1>1
  <2>2. IsSeq(x(i)) /\ Enc(list[i], v) \in Nat /\ Est(list[i], v) \in Nat
    BY <2>1, EntryLen, Zenon
  <2> QED BY <2>2 DEF Enc
<1>3. QRinput_mergeBitStream(list, v, FALSE) = FlattenSeq(q)
  BY <1>1 DEF QRinput_mergeBitStream
<1>4. EstAll(list, v) = SumOf(EstTerms(list, v))
  BY <1>1 DEF EstAll, EstTerms, QRinput_estimateBitStreamSize, Est
<1> HIDE DEF n, x
<1>5. q = [i \in 1..n |-> q[i]] /\ \A i \in 1..n : q[i] = x(i)
  OBVIOUS
<1> HIDE DEF q
<1>6. Len(FlattenSeq(q)) = SumOf([i \in 1..n |-> Len(q[i])])
  <2>1. \A i \in 1..n : IsSeq(q[i])
    BY <1>2, <1>5
  <2> QED BY <1>1, <1>5, <2>1, FlattenTable
<1>7. [i \in 1..n |-> Len(q[i])] = EncTerms(list, v)
  BY <1>2, <1>5 DEF EncTerms, n
<1>8. EncTerms(list, v) \in Seq(Nat) /\ Len(EncTerms(list, v)) = Len(list)
  BY <1>1, <1>2 DEF EncTerms, n
<1>9. EstTerms(list, v) \in Seq(Nat) /\ Len(EstTerms(list, v)) = Len(list)
  BY <1>1, <1>2 DEF EstTerms, n
<1>10. EncAll(list, v) = SumOf(EncTerms(list, v))
  BY <1>3, <1>6, <1>7 DEF EncAll
<1> QED BY <1>4, <1>8, <1>9, <1>10, SumNat

\* An empty list takes no bits.
LEMMA ListOfNone ==
  ASSUME NEW v \in Int
  PROVE  EncAll(<<>>, v) = 0
<1>1. <<>> \in Seq(Entries) /\ Len(<<>>) = 0
  OBVIOUS
<1>2. EncTerms(<<>>, v) = <<>>
  <2>1. EncTerms(<<>>, v) \in Seq(Nat) /\ Len(EncTerms(<<>>, v)) = 0
    BY <1>1, Terms
  <2> QED BY <2>1, EmptySeq
<1> QED BY <1>1, <1>2, Terms, SumNat

\* An entry more, at the end or in front.
LEMMA ListMore ==
  ASSUME NEW list \in Seq(Entries), NEW e \in Entries, NEW v \in Int
  PROVE  /\ Append(list, e) \in Seq(Entries) /\ EncAll(Append(list, e), v) = EncAll(list, v) + Enc(e, v)
         /\ <<e>> \o list \in Seq(Entries) /\ EncAll(<<e>> \o list, v) = EncAll(list, v) + Enc(e, v)
<1> DEFINE s == EncTerms(list, v)
           a == Append(list, e)
           b == <<e>> \o list
<1>1. Enc(e, v) \in Nat
  BY EntryLen
<1>2. s \in Seq(Nat) /\ Len(s) = Len(list) /\ EncAll(list, v) = SumOf(s) /\ \A i \in 1..Len(list) : s[i] = Enc(list[i], v)
  BY Terms DEF EncTerms
<1>3. /\ a \in Seq(Entries) /\ Len(a) = Len(list) + 1 /\ a[Len(list) + 1] = e
      /\ \A i \in 1..Len(list) : a[i] = list[i]
  BY AppendProperties
<1>4. /\ b \in Seq(Entries) /\ Len(b) = Len(list) + 1 /\ b[1] = e
      /\ \A i \in 1..Len(list) : b[i + 1] = list[i]
  <2>1. <<e>> \in Seq(Entries) /\ Len(<<e>>) = 1 /\ <<e>>[1] = e /\ Len(list) \in Nat
    OBVIOUS
  <2>2. /\ b \in Seq(Entries) /\ Len(b) = Len(<<e>>) + Len(list)
        /\ \A i \in 1..(Len(<<e>>) + Len(list)) : b[i] = IF i <= Len(<<e>>) THEN <<e>>[i] ELSE list[i - Len(<<e>>)]
    BY <2>1, ConcatProperties
  <2> HIDE DEF b
  <2>3. \A i \in 1..(1 + Len(list)) : b[i] = IF i <= 1 THEN <<e>>[i] ELSE list[i - 1]
    BY <2>1, <2>2
  <2>4. b[1] = e
    BY <2>1, <2>3
  <2>5. ASSUME NEW i \in 1..Len(list) PROVE b[i + 1] = list[i]
    <3>1. i + 1 \in 1..(1 + Len(list)) /\ ~(i + 1 <= 1) /\ (i + 1) - 1 = i
      BY <2>1
    <3> QED BY <2>3, <3>1
  <2> QED BY <2>1, <2>2, <2>4, <2>5
<1> DEFINE sa == EncTerms(a, v)
           sb == EncTerms(b, v)
<1> HIDE DEF a, b, s
<1>5. /\ sa \in Seq(Nat) /\ Len(sa) = Len(list) + 1 /\ EncAll(a, v) = SumOf(sa)
      /\ \A i \in 1..(Len(list) + 1) : sa[i] = Enc(a[i], v)
  BY <1>3, Terms DEF EncTerms
<1>6. /\ sb \in Seq(Nat) /\ Len(sb) = Len(list) + 1 /\ EncAll(b, v) = SumOf(sb)
      /\ \A i \in 1..(Len(list) + 1) : sb[i] = Enc(b[i], v)
  BY <1>4, Terms DEF EncTerms
<1> HIDE DEF sa, sb
<1>7. SumOf(sa) = SumOf(s) + Enc(e, v)
  <2>1. \A i \in 1..Len(s) : sa[i + 0] = s[i]
    BY <1>2, <1>3, <1>5
  <2>2. sa[IF 0 = 1 THEN 1 ELSE Len(sa)] = Enc(e, v)
    <3>1. Len(list) + 1 \in 1..(Len(list) + 1)
      BY LenProperties
    <3> QED BY <1>3, <1>5, <3>1
  <2>3. 0 \in {0, 1} /\ Len(sa) = Len(s) + 1
    BY <1>2, <1>5
  <2> QED BY <1>1, <1>2, <1>5, <2>1, <2>2, <2>3, SumMore, Zenon
<1>8. SumOf(sb) = SumOf(s) + Enc(e, v)
  <2>1. \A i \in 1..Len(s) : sb[i + 1] = s[i]
    <3>1. ASSUME NEW i \in 1..Len(s) PROVE sb[i + 1] = s[i]
      <4>1. i \in 1..Len(list) /\ i + 1 \in 1..(Len(list) + 1)
        BY <1>2
      <4> QED BY <1>2, <1>4, <1>6, <4>1
    <3> QED BY <3>1
  <2>2. sb[IF 1 = 1 THEN 1 ELSE Len(sb)] = Enc(e, v)
    <3>1. 1 \in 1..(Len(list) + 1)
      BY LenProperties
    <3> QED BY <1>4, <1>6, <3>1
  <2>3. 1 \in {0, 1} /\ Len(sb) = Len(s) + 1
    BY <1>2, <1>6
  <2> QED BY <1>1, <1>2, <1>6, <2>1, <2>2, <2>3, SumMore, Zenon
<1> QED BY <1>2, <1>3, <1>4, <1>5, <1>6, <1>7, <1>8 DEF a, b

\* A list with a chunk that is too long takes more than any symbol has.
LEMMA ListLong ==
  ASSUME NEW list \in Seq(Entries), NEW w \in Int, 1 <= w, w <= 40, NEW level \in 1..4, ~AllShort(list, w)
  PROVE  EncAll(list, w) > Cap(w, level)
<1>1. PICK i \in 1..Len(list) : ~Short(list[i], w)
  BY DEF AllShort
<1>2. list[i] \in Entries
  BY <1>1
<1>3. Enc(list[i], w) > Cap(w, level) /\ Enc(list[i], w) \in Nat /\ Cap(w, level) \in Nat
  <2>1. Enc(list[i], w) > Cap(w, level)
    <3>1. 0 \in Int
      OBVIOUS
    <3> QED BY <1>1, <1>2, <3>1, LongChunk, Zenon
  <2>2. Enc(list[i], w) \in Nat
    BY <1>2, EntryLen
  <2>3. Cap(w, level) \in Nat
    BY CapNat, Zenon
  <2> QED BY <2>1, <2>2, <2>3
<1>4. Enc(list[i], w) <= EncAll(list, w) /\ EncAll(list, w) \in Nat
  <2> DEFINE s == EncTerms(list, w)
  <2>1. s \in Seq(Nat) /\ Len(s) = Len(list) /\ EncAll(list, w) = SumOf(s) /\ EncAll(list, w) \in Nat /\ s[i] = Enc(list[i], w)
    BY <1>1, Terms DEF EncTerms
  <2> HIDE DEF s
  <2> QED BY <1>1, <2>1, SumNat
<1> QED BY <1>3, <1>4

\* A larger version takes no fewer bits.
LEMMA ListLarger ==
  ASSUME NEW list \in Seq(Entries), NEW r \in Int, NEW w \in Int, Class(r) <= Class(w), AllShort(list, r)
  PROVE  AllShort(list, w) /\ EncAll(list, r) <= EncAll(list, w)
<1>1. ASSUME NEW i \in 1..Len(list) PROVE Short(list[i], w) /\ Enc(list[i], r) <= Enc(list[i], w)
  <2>1. list[i] \in Entries /\ Short(list[i], r)
    BY DEF AllShort
  <2> QED BY <2>1, LargerVersion
<1> DEFINE s == EncTerms(list, r)
           t == EncTerms(list, w)
<1>2. s \in Seq(Nat) /\ t \in Seq(Nat) /\ Len(s) = Len(list) /\ Len(t) = Len(list)
      /\ EncAll(list, r) = SumOf(s) /\ EncAll(list, w) = SumOf(t)
  BY Terms
<1>3. \A i \in 1..Len(list) : s[i] <= t[i]
  BY <1>1 DEF EncTerms
<1> HIDE DEF s, t
<1> QED BY <1>1, <1>2, <1>3, SumOrder DEF AllShort

\* The estimate with version r against what a list takes in version w.
LEMMA ListAgainst ==
  ASSUME NEW list \in Seq(Entries), NEW r \in Int, NEW w \in Int, Class(r) <= Class(w), AllShort(list, w)
  PROVE  /\ 138 * EstAll(list, r) <= 139 * EncAll(list, w)
         /\ (Class(r) = Class(w) /\ \A i \in 1..Len(list) : ~(list[i].mode = "kanji" /\ Over(list[i], Class(w))))
              => EstAll(list, r) <= EncAll(list, w)
         /\ (Class(r) = 1 /\ \A i \in 1..Len(list) : ~Over(list[i], 1)) => EstAll(list, r) <= EncAll(list, w)
<1> DEFINE s == EstTerms(list, r)
           t == EncTerms(list, w)
<1>1. s \in Seq(Nat) /\ t \in Seq(Nat) /\ Len(s) = Len(list) /\ Len(t) = Len(list)
      /\ EstAll(list, r) = SumOf(s) /\ EncAll(list, w) = SumOf(t)
  BY Terms
<1>2. ASSUME NEW i \in 1..Len(list)
      PROVE  /\ s[i] \in Nat /\ t[i] \in Nat /\ 138 * s[i] <= 139 * t[i]
             /\ Class(r) = Class(w) /\ ~(list[i].mode = "kanji" /\ Over(list[i], Class(w))) => s[i] = t[i]
             /\ Class(r) = 1 /\ ~Over(list[i], 1) => s[i] <= t[i]
  <2>1. list[i] \in Entries /\ Short(list[i], w)
    BY DEF AllShort
  <2>2. s[i] = Est(list[i], r) /\ t[i] = Enc(list[i], w)
    BY DEF EstTerms, EncTerms
  <2>3. s[i] \in Nat /\ t[i] \in Nat
    BY <2>1, <2>2, EntryLen
  <2>4. /\ 138 * Est(list[i], r) <= 139 * Enc(list[i], w)
        /\ Class(r) = Class(w) /\ ~(list[i].mode = "kanji" /\ Over(list[i], Class(w))) => Est(list[i], r) = Enc(list[i], w)
        /\ Class(r) = 1 /\ ~Over(list[i], 1) => Est(list[i], r) <= Enc(list[i], w)
    BY <2>1, EstimateAgainst, Zenon
  <2> QED BY <2>2, <2>3, <2>4, Zenon
<1> HIDE DEF s, t
<1>3. (\A i \in 1..Len(s) : s[i] <= t[i]) => SumOf(s) <= SumOf(t)
  BY <1>1, SumOrder
<1>4. (\A i \in 1..Len(s) : 138 * s[i] <= 139 * t[i]) => 138 * SumOf(s) <= 139 * SumOf(t)
  BY <1>1, SumOrder
<1>5. 138 * EstAll(list, r) <= 139 * EncAll(list, w)
  BY <1>1, <1>2, <1>4
<1>6. ASSUME Class(r) = Class(w), \A i \in 1..Len(list) : ~(list[i].mode = "kanji" /\ Over(list[i], Class(w)))
      PROVE  EstAll(list, r) <= EncAll(list, w)
  <2>1. ASSUME NEW i \in 1..Len(s) PROVE s[i] <= t[i]
    <3>1. s[i] \in Nat /\ s[i] = t[i]
      BY <1>1, <1>2, <1>6, <2>1, Zenon
    <3> QED BY <3>1
  <2> QED BY <1>1, <1>3, <2>1
<1>7. ASSUME Class(r) = 1, \A i \in 1..Len(list) : ~Over(list[i], 1)
      PROVE  EstAll(list, r) <= EncAll(list, w)
  <2>1. ASSUME NEW i \in 1..Len(s) PROVE s[i] <= t[i]
    BY <1>1, <1>2, <1>7, <2>1, Zenon
  <2> QED BY <1>1, <1>3, <2>1
<1> QED BY <1>5, <1>6, <1>7, Zenon

-----------------------------------------------------------------------------
(* The version.                                                            *)

\* A larger version has more room, and by more than the estimate's slack.
LEMMA CapGrows ==
  ASSUME NEW v \in Int, NEW w \in Int, 1 <= v, v < w, w <= 40, NEW level \in 1..4
  PROVE  /\ Cap(v, level) \in Nat /\ Cap(w, level) \in Nat /\ Cap(v, level) < Cap(w, level)
         /\ 139 * Cap(v, level) < 138 * Cap(w, level)
<1> DEFINE T == {k \in Nat : v + 1 + k <= 40 => Cap(v + 1, level) <= Cap(v + 1 + k, level)}
<1>1. ASSUME NEW x \in Int, 1 <= x, x <= 40 PROVE Cap(x, level) \in Nat
  BY <1>1, CapTable DEF Cap
<1>2. ASSUME NEW x \in Int, 1 <= x, x <= 39
      PROVE  139 * Cap(x, level) < 138 * Cap(x + 1, level) /\ Cap(x, level) < Cap(x + 1, level)
  <2>1. /\ QRspec_getDataLength(x, level) \in Nat
        /\ 139 * QRspec_getDataLength(x, level) < 138 * QRspec_getDataLength(x + 1, level)
    BY <1>2, CapTable
  <2>2. x + 1 \in Int /\ 1 <= x + 1 /\ x + 1 <= 40
    BY <1>2
  <2>3. QRspec_getDataLength(x + 1, level) \in Nat
    BY <2>2, CapTable
  <2> QED BY <2>1, <2>3 DEF Cap
<1>3. T \in SUBSET Nat /\ 0 \in T
  <2>1. v + 1 \in Int /\ v + 1 + 0 = v + 1 /\ 1 <= v + 1
    OBVIOUS
  <2>2. v + 1 <= 40 => Cap(v + 1, level) \in Nat
    BY <1>1, <2>1
  <2>3. v + 1 + 0 <= 40 => Cap(v + 1, level) <= Cap(v + 1 + 0, level)
    BY <2>1, <2>2
  <2> QED BY <2>3
<1>4. ASSUME NEW k \in T PROVE k + 1 \in T
  <2>1. k \in Nat /\ (v + 1 + k <= 40 => Cap(v + 1, level) <= Cap(v + 1 + k, level))
    OBVIOUS
  <2> HIDE DEF T
  <2>2. ASSUME v + 1 + (k + 1) <= 40 PROVE Cap(v + 1, level) <= Cap(v + 1 + (k + 1), level)
    <3> DEFINE x == v + 1 + k
    <3>1. x \in Int /\ 1 <= x /\ x <= 39 /\ x + 1 = v + 1 + (k + 1) /\ v + 1 \in Int /\ 1 <= v + 1 /\ v + 1 <= 40 /\ x <= 40
      BY <2>1, <2>2
    <3>2. Cap(v + 1, level) <= Cap(x, level)
      BY <2>1, <3>1
    <3> HIDE DEF x
    <3>3. Cap(x, level) < Cap(x + 1, level) /\ Cap(x, level) \in Nat /\ Cap(v + 1, level) \in Nat
      BY <1>1, <1>2, <3>1
    <3>4. x + 1 \in Int /\ 1 <= x + 1 /\ x + 1 <= 40
      BY <3>1
    <3>5. Cap(x + 1, level) \in Nat
      BY <1>1, <3>4
    <3>6. Cap(v + 1, level) <= Cap(x + 1, level)
      BY <3>2, <3>3, <3>5
    <3> QED BY <3>1, <3>6
  <2> QED BY <2>1, <2>2 DEF T
<1>5. w - v - 1 \in T
  <2>1. w - v - 1 \in Nat
    OBVIOUS
  <2> HIDE DEF T
  <2>2. \A k \in Nat : k \in T
    BY <1>3, <1>4, SetInduction
  <2> QED BY <2>1, <2>2
<1>6. v + 1 + (w - v - 1) = w /\ v + 1 \in Int /\ 1 <= v + 1 /\ v + 1 <= 40 /\ v <= 39
  OBVIOUS
<1>7. Cap(v + 1, level) <= Cap(w, level)
  <2>1. v + 1 + (w - v - 1) <= 40 => Cap(v + 1, level) <= Cap(v + 1 + (w - v - 1), level)
    BY <1>5
  <2> QED BY <1>6, <2>1
<1>8. Cap(v, level) \in Nat /\ Cap(w, level) \in Nat /\ Cap(v + 1, level) \in Nat
  BY <1>1, <1>6
<1>9. 139 * Cap(v, level) < 138 * Cap(v + 1, level) /\ Cap(v, level) < Cap(v + 1, level)
  BY <1>2, <1>6
<1> QED BY <1>7, <1>8, <1>9

\* The smallest version that has room for so many bits, -1 if there is none.
LEMMA MinVersion ==
  ASSUME NEW bits \in Nat, NEW level \in 1..4, NEW m, m = QRspec_getMinimumVersion((bits + 7) \div 8, level)
  PROVE  /\ m \in Int /\ (m = -1 \/ (1 <= m /\ m <= 40 /\ bits <= Cap(m, level)))
         /\ \A w \in Int : 1 <= w /\ w <= 40 /\ (m = -1 \/ w < m) => bits > Cap(w, level)
<1> DEFINE size == (bits + 7) \div 8
           fits == {v \in 1..QRSPEC_VERSION_MAX : QRspec_getDataLength(v, level) >= size}
<1>1. ASSUME NEW v \in Int, 1 <= v, v <= 40 PROVE v \in fits <=> bits <= Cap(v, level)
  <2>1. QRspec_getDataLength(v, level) \in Nat
    BY <1>1, CapTable
  <2>2. QRspec_getDataLength(v, level) >= size <=> bits <= 8 * QRspec_getDataLength(v, level)
    BY <2>1
  <2> QED BY <1>1, <2>2 DEF Cap, QRSPEC_VERSION_MAX
<1>2. m = IF fits = {} THEN -1 ELSE Min(fits)
  BY DEF QRspec_getMinimumVersion, Min
<1>3. fits \in SUBSET Nat /\ \A v \in fits : v \in Int /\ 1 <= v /\ v <= 40
  BY DEF QRSPEC_VERSION_MAX
<1>4. \A v \in Int : 1 <= v /\ v <= 40 => Cap(v, level) \in Nat
  BY CapTable DEF Cap
<1> HIDE DEF fits
<1>5. CASE fits = {}
  <2>1. m = -1
    BY <1>2, <1>5
  <2>2. \A w \in Int : 1 <= w /\ w <= 40 => bits > Cap(w, level)
    BY <1>1, <1>4, <1>5
  <2> QED BY <2>1, <2>2
<1>6. CASE fits # {}
  <2>1. m \in fits /\ \A y \in fits : m <= y
    <3>1. m = Min(fits)
      BY <1>2, <1>6
    <3>2. Min(fits) \in fits /\ \A y \in fits : Min(fits) <= y
      BY <1>3, <1>6, MinIsMember, Zenon
    <3> QED BY <3>1, <3>2, Zenon
  <2>2. m \in Int /\ 1 <= m /\ m <= 40 /\ bits <= Cap(m, level)
    BY <1>1, <1>3, <2>1
  <2>3. ASSUME NEW w \in Int, 1 <= w, w <= 40, w < m PROVE bits > Cap(w, level)
    <3>1. w \notin fits
      BY <2>1, <2>2, <2>3
    <3> QED BY <1>1, <1>4, <2>3, <3>1
  <2>4. m # -1
    BY <2>2
  <2> QED BY <2>2, <2>3, <2>4
<1> QED BY <1>5, <1>6

\* One round of QRinput_estimateVersion.
LEMMA RoundIs ==
  ASSUME NEW list \in Seq(Entries), NEW level \in 1..4, NEW r \in Int, NEW m, m = EstimateRound(list, level, r)
  PROVE  /\ m \in Int /\ (m = -1 \/ (1 <= m /\ m <= 40 /\ EstAll(list, r) <= Cap(m, level)))
         /\ \A w \in Int : 1 <= w /\ w <= 40 /\ (m = -1 \/ w < m) => EstAll(list, r) > Cap(w, level)
<1>1. EstAll(list, r) \in Nat
  BY Terms
<1>2. m = QRspec_getMinimumVersion((EstAll(list, r) + 7) \div 8, level)
  BY DEF EstimateRound, EstAll
<1> QED BY <1>1, <1>2, MinVersion

\* Rounds that start from 0 and never reach N come to an end within N.
LEMMA RoundsEnd ==
  ASSUME NEW N \in Nat, N > 0, NEW h \in [0..N -> Int], h[0] = 0, \A k \in 0..(N - 1) : h[k + 1] < N
  PROVE  \E k \in 1..N : h[k] <= h[k - 1] /\ \A j \in 1..(k - 1) : h[j] > h[j - 1]
<1>3. h[N] \in Int /\ h[N] < N
  <2>1. N - 1 \in 0..(N - 1) /\ (N - 1) + 1 = N /\ N \in 0..N
    OBVIOUS
  <2>2. h[(N - 1) + 1] < N
    BY <2>1, Zenon
  <2> QED BY <2>1, <2>2
<1> DEFINE E == {k \in 1..N : h[k] <= h[k - 1]}
<1>5. E # {}
  <2> SUFFICES ASSUME E = {} PROVE FALSE
    OBVIOUS
  <2>1. ASSUME NEW k \in 0..(N - 1) PROVE h[k + 1] > h[k] /\ h[k] \in Int /\ h[k + 1] \in Int
    <3>1. k + 1 \in 1..N /\ (k + 1) - 1 = k /\ k \in 0..N /\ k + 1 \in 0..N
      OBVIOUS
    <3>2. ~(h[k + 1] <= h[(k + 1) - 1])
      BY <3>1
    <3>3. h[k + 1] \in Int /\ h[k] \in Int
      BY <3>1
    <3> HIDE DEF E
    <3>4. ~(h[k + 1] <= h[k])
      BY <3>1, <3>2
    <3> QED BY <3>3, <3>4
  <2> DEFINE U == {k \in Nat : k <= N => h[k] >= k}
  <2>2. U \in SUBSET Nat /\ 0 \in U
    OBVIOUS
  <2>3. ASSUME NEW k \in U PROVE k + 1 \in U
    <3>1. k \in Nat /\ (k <= N => h[k] >= k)
      OBVIOUS
    <3>2. ASSUME k + 1 <= N PROVE h[k + 1] >= k + 1
      <4>1. k \in 0..(N - 1) /\ h[k] >= k
        BY <3>1, <3>2
      <4>2. h[k + 1] \in Int /\ h[k] \in Int /\ h[k + 1] > h[k]
        BY <2>1, <4>1
      <4> HIDE DEF U, E
      <4> QED BY <3>1, <4>1, <4>2
    <3> QED BY <3>1, <3>2
  <2> HIDE DEF U
  <2>4. \A k \in Nat : k \in U
    BY <2>2, <2>3, SetInduction
  <2>5. h[N] >= N
    BY <2>4 DEF U
  <2> QED BY <1>3, <2>5
<1>6. \E k \in 1..N : h[k] <= h[k - 1] /\ \A j \in 1..(k - 1) : h[j] > h[j - 1]
  <2> DEFINE k == Min(E)
  <2>1. E \in SUBSET Nat
    OBVIOUS
  <2>2. k \in E /\ \A y \in E : k <= y
    <3> HIDE DEF E
    <3> QED BY <1>5, <2>1, MinIsMember
  <2>3. k \in 1..N /\ h[k] <= h[k - 1] /\ \A y \in 1..N : h[y] <= h[y - 1] => k <= y
    BY <2>2
  <2> HIDE DEF k, E
  <2>4. ASSUME NEW j \in 1..(k - 1) PROVE h[j] > h[j - 1]
    <3>1. j \in 1..N /\ ~(k <= j) /\ j \in 0..N /\ j - 1 \in 0..N
      BY <2>3
    <3>2. ~(h[j] <= h[j - 1])
      BY <2>3, <3>1
    <3>3. h[j] \in Int /\ h[j - 1] \in Int
      BY <3>1
    <3> QED BY <3>2, <3>3
  <2> QED BY <2>3, <2>4
<1> QED BY <1>6

\* The rounds of the estimate: each grows but the last.
Rounds(list, level, k, f) ==
  /\ f \in [0..k -> Int] /\ f[0] = 0 /\ \A j \in 0..(k - 1) : f[j + 1] = EstimateRound(list, level, f[j])
  /\ f[k] <= f[k - 1] /\ \A j \in 1..(k - 1) : f[j] > f[j - 1]
  /\ QRinput_estimateVersion(list, level) = f[k]
\* The loop of QRinput_estimateVersion ends.
LEMMA EstimateRounds ==
  ASSUME NEW list \in Seq(Entries), NEW level \in 1..4
  PROVE  \E k \in Nat : \E f : k > 0 /\ Rounds(list, level, k, f)
<1> DEFINE N == QRSPEC_VERSION_MAX + 1
           R == [x \in Int |-> EstimateRound(list, level, x)]
           G == [u \in Nat \X Int |-> R[u[2]]]
           version[k \in 0..(QRSPEC_VERSION_MAX + 1)] == IF k = 0 THEN 0 ELSE EstimateRound(list, level, version[k - 1])
           Last_(k) == version[k] <= version[k - 1] /\ \A j \in 1..(k - 1) : version[j] > version[j - 1]
<1>1. QRinput_estimateVersion(list, level) = version[CHOOSE k \in 1..N : Last_(k)]
  BY DEF QRinput_estimateVersion
<1> HIDE DEF version
<1>2. N \in Nat /\ N > 0
  BY DEF QRSPEC_VERSION_MAX
<1>0. N = 41
  BY DEF QRSPEC_VERSION_MAX
<1> HIDE DEF N
<1>3. ASSUME NEW x \in Int PROVE EstimateRound(list, level, x) \in Int /\ EstimateRound(list, level, x) < N
  <2> DEFINE m == EstimateRound(list, level, x)
  <2>1. m \in Int /\ (m = -1 \/ (1 <= m /\ m <= 40 /\ EstAll(list, x) <= Cap(m, level)))
    BY RoundIs, Zenon
  <2> HIDE DEF m
  <2>2. m < N
    BY <1>0, <2>1
  <2> QED BY <2>1, <2>2 DEF m
<1>4. /\ R \in [Int -> Int] /\ (\A x \in Int : R[x] < N)
      /\ \A x \in Int : R[x] = EstimateRound(list, level, x)
  BY <1>3
<1>5. G \in [Nat \X Int -> Int]
  BY <1>4
<1> HIDE DEF R
<1>6. PICK g \in [0..N -> Int] : g[0] = 0 /\ \A k \in 1..N : g[k] = G[<<k, g[k - 1]>>]
  <2> HIDE DEF G
  <2>1. 0 \in Int
    OBVIOUS
  <2>2. Loops(Int, 0, G, N) # {}
    BY <1>2, <1>5, <2>1, LoopExists, Zenon
  <2> QED BY <2>2, Zenon DEF Loops
<1>7. ASSUME NEW k \in 1..N PROVE g[k] = EstimateRound(list, level, g[k - 1])
  <2>1. k \in Nat /\ k - 1 \in 0..N /\ g[k - 1] \in Int
    BY <1>2
  <2>2. G[<<k, g[k - 1]>>] = R[g[k - 1]]
    BY <2>1
  <2> HIDE DEF G
  <2> QED BY <1>4, <1>6, <2>1, <2>2
<1> HIDE DEF G
<1>8. g = [k \in 0..N |-> IF k = 0 THEN 0 ELSE EstimateRound(list, level, g[k - 1])]
  <2>1. \A k \in 0..N : k = 0 \/ k \in 1..N
    BY <1>2
  <2> QED BY <1>6, <1>7, <2>1
<1>9. version = [k \in 0..N |-> IF k = 0 THEN 0 ELSE EstimateRound(list, level, version[k - 1])]
  <2>1. \E h : h = [k \in 0..(QRSPEC_VERSION_MAX + 1) |-> IF k = 0 THEN 0 ELSE EstimateRound(list, level, h[k - 1])]
    BY <1>8, Zenon DEF N
  <2>2. version = [k \in 0..(QRSPEC_VERSION_MAX + 1) |-> IF k = 0 THEN 0 ELSE EstimateRound(list, level, version[k - 1])]
    BY <2>1, Zenon DEF version
  <2> QED BY <2>2, Zenon DEF N
<1>10. \A k \in 0..N : version[k] \in Int
  <2> DEFINE T == {k \in Nat : k <= N => version[k] \in Int}
  <2>1. T \in SUBSET Nat /\ 0 \in T
    BY <1>2, <1>9
  <2>2. ASSUME NEW k \in T PROVE k + 1 \in T
    <3>1. k \in Nat /\ (k <= N => version[k] \in Int)
      OBVIOUS
    <3>2. ASSUME k + 1 <= N PROVE version[k + 1] \in Int
      <4>1. version[k] \in Int /\ k + 1 \in 0..N /\ k + 1 # 0 /\ (k + 1) - 1 = k
        BY <1>2, <3>1, <3>2
      <4>2. version[k + 1] = EstimateRound(list, level, version[(k + 1) - 1])
        BY <1>9, <4>1, Zenon
      <4> HIDE DEF T
      <4> QED BY <1>3, <4>1, <4>2
    <3> QED BY <3>1, <3>2
  <2> HIDE DEF T
  <2>3. \A k \in Nat : k \in T
    BY <2>1, <2>2, SetInduction
  <2> QED BY <1>2, <2>3 DEF T
<1>11. version \in [0..N -> Int] /\ version[0] = 0 /\ \A k \in 0..(N - 1) : version[k + 1] = R[version[k]]
  <2>1. version = [k \in 0..N |-> version[k]] /\ version[0] = 0
    BY <1>2, <1>9
  <2>2. version \in [0..N -> Int]
    BY <1>10, <2>1
  <2>3. ASSUME NEW k \in 0..(N - 1) PROVE version[k + 1] = R[version[k]]
    <3>1. k + 1 \in 0..N /\ k + 1 # 0 /\ (k + 1) - 1 = k /\ k \in 0..N
      BY <1>2
    <3>2. version[k + 1] = EstimateRound(list, level, version[(k + 1) - 1])
      BY <1>9, <3>1, Zenon
    <3>3. version[k] \in Int
      BY <1>10, <3>1, Zenon
    <3> QED BY <1>4, <3>1, <3>2, <3>3
  <2> QED BY <2>1, <2>2, <2>3, Zenon
<1>12. \E k \in 1..N : Last_(k)
  <2>1. ASSUME NEW k \in 0..(N - 1) PROVE version[k + 1] < N
    <3>1. k \in 0..N
      BY <1>2
    <3>2. version[k] \in Int
      BY <1>10, <3>1, Zenon
    <3> QED BY <1>4, <1>11, <3>2
  <2> QED BY <1>2, <1>11, <2>1, RoundsEnd, Zenon
<1> DEFINE k == CHOOSE k \in 1..N : Last_(k)
<1>13. k \in 1..N /\ Last_(k) /\ QRinput_estimateVersion(list, level) = version[k]
  BY <1>1, <1>12, Zenon
<1> HIDE DEF k
<1> DEFINE f == [j \in 0..k |-> version[j]]
<1>14. k \in Nat /\ k > 0 /\ \A j \in 0..k : j \in 0..N
  BY <1>2, <1>13
<1>15. f \in [0..k -> Int] /\ \A j \in 0..k : f[j] = version[j]
  BY <1>10, <1>14
<1> HIDE DEF f
<1>16. f[0] = 0 /\ f[k] <= f[k - 1] /\ QRinput_estimateVersion(list, level) = f[k]
  <2>1. 0 \in 0..k /\ k \in 0..k /\ k - 1 \in 0..k
    BY <1>14
  <2> QED BY <1>11, <1>13, <1>15, <2>1, Zenon
<1>17. ASSUME NEW j \in 0..(k - 1) PROVE f[j + 1] = EstimateRound(list, level, f[j])
  <2>1. j \in 0..k /\ j + 1 \in 0..k /\ j \in 0..(N - 1)
    BY <1>2, <1>13, <1>14
  <2>2. version[j + 1] = R[version[j]] /\ version[j] \in Int
    BY <1>10, <1>11, <1>14, <2>1, Zenon
  <2> QED BY <1>4, <1>15, <2>1, <2>2, Zenon
<1>18. ASSUME NEW j \in 1..(k - 1) PROVE f[j] > f[j - 1]
  <2>1. j \in 0..k /\ j - 1 \in 0..k
    BY <1>14
  <2>2. version[j] > version[j - 1]
    BY <1>13, Zenon
  <2> QED BY <1>15, <2>1, <2>2, Zenon
<1>19. Rounds(list, level, k, f)
  BY <1>15, <1>16, <1>17, <1>18, Zenon DEF Rounds
<1> QED BY <1>14, <1>19, Zenon

-----------------------------------------------------------------------------
(* The estimate passes no version over that has room, but for Misjudged.   *)

Ok(list, level, w) == EncAll(list, w) > Cap(w, level) \/ Misjudged(list, w)

\* What a list that is not Misjudged has none of.
LEMMA NotMisjudged ==
  ASSUME NEW list \in Seq(Entries), NEW w \in Int, ~Misjudged(list, w)
  PROVE  /\ \A i \in 1..Len(list) : ~(list[i].mode = "kanji" /\ Over(list[i], Class(w)))
         /\ w = 26 => \A i \in 1..Len(list) : ~Over(list[i], 1)
<1>1. DOMAIN list = 1..Len(list)
  OBVIOUS
<1>2. ASSUME NEW i \in 1..Len(list), list[i].mode = "kanji", Over(list[i], Class(w)) PROVE FALSE
  <2>1. "kanji" \in Splittable
    BY DEF Splittable
  <2>2. QRspec_lengthIndicator("kanji", w) = Field("kanji", Class(w))
    BY <2>1, FieldOf
  <2>3. Len(list[i].data) > Shifted(QRspec_lengthIndicator("kanji", w))
    BY <1>2, <2>2, Zenon DEF Over
  <2> QED BY <1>1, <1>2, <2>3, Zenon DEF Misjudged
<1>3. ASSUME w = 26, NEW i \in 1..Len(list), Over(list[i], 1) PROVE FALSE
  <2>1. 1 \in Int /\ Class(1) = 1
    BY DEF Class
  <2>2. list[i].mode \in Splittable /\ Len(list[i].data) > Shifted(Field(list[i].mode, 1))
    BY <1>3 DEF Over
  <2>3. QRspec_lengthIndicator(list[i].mode, 1) = Field(list[i].mode, 1)
    BY <2>1, <2>2, FieldOf
  <2>4. Len(list[i].data) > Shifted(QRspec_lengthIndicator(list[i].mode, 1))
    BY <2>2, <2>3, Zenon
  <2> QED BY <1>1, <1>3, <2>2, <2>4, Zenon DEF Misjudged
<1> QED BY <1>2, <1>3, Zenon

\* What the estimate with version x is, if the list fits in version w.
LEMMA EstimateBound ==
  ASSUME NEW list \in Seq(Entries), NEW level \in 1..4, NEW w \in Int, 1 <= w, w <= 39, ~Ok(list, level, w),
         NEW x \in Int, Class(x) <= Class(w)
  PROVE  /\ \A u \in Int : w < u /\ u <= 40 => ~(EstAll(list, x) > Cap(u, level))
         /\ Class(x) = Class(w) \/ (w = 26 /\ Class(x) = 1) => ~(EstAll(list, x) > Cap(w, level))
<1>1. ~(EncAll(list, w) > Cap(w, level)) /\ ~Misjudged(list, w)
  BY DEF Ok
<1>2. EncAll(list, w) \in Nat /\ EstAll(list, x) \in Nat
  BY Terms
<1>3. w <= 40
  OBVIOUS
<1>4. AllShort(list, w)
  BY <1>1, <1>3, ListLong, Zenon
<1>5. Cap(w, level) \in Nat
  BY <1>3, CapNat, Zenon
<1>6. 138 * EstAll(list, x) <= 139 * EncAll(list, w)
  BY <1>4, ListAgainst, Zenon
<1>7. ASSUME NEW u \in Int, w < u, u <= 40 PROVE ~(EstAll(list, x) > Cap(u, level))
  <2>1. Cap(u, level) \in Nat /\ 139 * Cap(w, level) < 138 * Cap(u, level)
    BY <1>7, CapGrows, Zenon
  <2> QED BY <1>1, <1>2, <1>5, <1>6, <2>1
<1>8. ASSUME Class(x) = Class(w) \/ (w = 26 /\ Class(x) = 1) PROVE EstAll(list, x) <= EncAll(list, w)
  <2>1. CASE Class(x) = Class(w)
    BY <1>1, <1>4, <2>1, ListAgainst, NotMisjudged, Zenon
  <2>2. CASE w = 26 /\ Class(x) = 1
    BY <1>1, <1>4, <2>2, ListAgainst, NotMisjudged, Zenon
  <2> QED BY <1>8, <2>1, <2>2
<1>9. ASSUME Class(x) = Class(w) \/ (w = 26 /\ Class(x) = 1) PROVE ~(EstAll(list, x) > Cap(w, level))
  <2>1. EstAll(list, x) <= EncAll(list, w)
    BY <1>8, <1>9, Zenon
  <2> QED BY <1>1, <1>2, <1>5, <2>1
<1> QED BY <1>7, <1>9, Zenon

\* The classes are in the order of their versions.
LEMMA ClassOrder ==
  ASSUME NEW x \in Int, NEW w \in Int
  PROVE  /\ x <= w => Class(x) <= Class(w)
         /\ Class(x) < Class(w) => x < w
         /\ Class(x) > Class(w) => x > w
         /\ Class(x) <= Class(w) /\ Class(x) # Class(w) /\ Class(w) < 3 => Class(x) = 1 /\ Class(w) = 2
         /\ Class(w) = 2 => 10 <= w /\ w <= 26
         /\ 10 <= w /\ w <= 26 => Class(w) = 2
         /\ Class(x) > Class(w) => Class(w) < 3
BY DEF Class

\* A version that is not Ok is not passed over: each round of the loop stays at or
\* below it.
LEMMA EstimateLeast ==
  ASSUME NEW list \in Seq(Entries), NEW level \in 1..4, NEW w \in Int, 1 <= w, w <= 39, ~Ok(list, level, w)
  PROVE  QRinput_estimateVersion(list, level) # -1 /\ QRinput_estimateVersion(list, level) <= w
<1>0. PICK k \in Nat : \E f : k > 0 /\ Rounds(list, level, k, f)
  BY EstimateRounds, Zenon
<1>1. PICK f : k > 0 /\ Rounds(list, level, k, f)
  BY <1>0, Zenon
<1> DEFINE E == QRinput_estimateVersion(list, level)
           q == f[k - 1]
<1>2. /\ f \in [0..k -> Int] /\ f[0] = 0 /\ E = f[k] /\ f[k] <= f[k - 1]
      /\ \A j \in 0..(k - 1) : f[j + 1] = EstimateRound(list, level, f[j])
      /\ \A j \in 1..(k - 1) : f[j] > f[j - 1]
  BY <1>1, Zenon DEF Rounds
<1> HIDE DEF E
<1>3. ASSUME NEW j \in 0..(k - 1)
      PROVE  /\ f[j] \in Int /\ f[j + 1] \in Int
             /\ \A u \in Int : 1 <= u /\ u <= 40 /\ (f[j + 1] = -1 \/ u < f[j + 1]) => EstAll(list, f[j]) > Cap(u, level)
  <2>1. j \in 0..k /\ j + 1 \in 0..k
    BY <1>1
  <2>2. f[j] \in Int /\ f[j + 1] = EstimateRound(list, level, f[j])
    BY <1>2, <2>1, Zenon
  <2> QED BY <2>2, RoundIs, Zenon
<1>4. k - 1 \in 0..(k - 1) /\ (k - 1) + 1 = k
  BY <1>1
<1>5. /\ q \in Int /\ E \in Int /\ E <= q
      /\ \A u \in Int : 1 <= u /\ u <= 40 /\ (E = -1 \/ u < E) => EstAll(list, q) > Cap(u, level)
  <2>1. /\ f[k - 1] \in Int /\ f[(k - 1) + 1] \in Int
        /\ \A u \in Int : 1 <= u /\ u <= 40 /\ (f[(k - 1) + 1] = -1 \/ u < f[(k - 1) + 1]) => EstAll(list, f[k - 1]) > Cap(u, level)
    BY <1>3, <1>4, Zenon
  <2> QED BY <1>2, <1>4, <2>1
<1> HIDE DEF q
<1>6. w <= 40 /\ 40 \in Int /\ 1 <= 40 /\ 40 <= 40 /\ w < 40
  OBVIOUS
<1>7. CASE Class(q) = Class(w)
  <2>1. Class(q) <= Class(w)
    BY <1>7 DEF Class
  <2>2. ~(EstAll(list, q) > Cap(w, level))
    BY <1>5, <1>7, <2>1, EstimateBound, Zenon
  <2>3. ~(E = -1 \/ w < E)
    BY <1>5, <1>6, <2>2, Zenon
  <2> QED BY <1>5, <2>3 DEF E
<1>8. CASE Class(q) < Class(w)
  <2>1. q < w /\ Class(q) <= Class(w)
    BY <1>5, <1>8, ClassOrder DEF Class
  <2>2. ~(EstAll(list, q) > Cap(40, level))
    BY <1>5, <1>6, <2>1, EstimateBound, Zenon
  <2>3. E # -1
    BY <1>5, <1>6, <2>2, Zenon
  <2> QED BY <1>5, <2>1, <2>3 DEF E
<1>9. ASSUME Class(q) > Class(w) PROVE FALSE
  <2>1. q > w
    BY <1>5, <1>9, ClassOrder
  <2> DEFINE J == {i \in Nat : i + 1 \in 0..(k - 1) /\ f[i + 1] > w}
             i == Min(J)
             x == f[i]
             y == f[i + 1]
  <2>2. J \in SUBSET Nat /\ J # {}
    <3>1. k # 1
      BY <1>2, <2>1 DEF q
    <3>2. k - 2 \in Nat /\ (k - 2) + 1 = k - 1
      BY <1>1, <3>1
    <3>3. k - 2 \in J
      BY <1>4, <2>1, <3>2 DEF q
    <3> QED BY <3>3
  <2>3. i \in J /\ \A m \in J : i <= m
    <3> HIDE DEF J
    <3> QED BY <2>2, MinIsMember, Zenon
  <2>4. i \in Nat /\ i + 1 \in 0..(k - 1) /\ i \in 0..(k - 1) /\ y > w
    BY <1>1, <2>3
  <2>5. i > 0 => i - 1 \in Nat /\ (i - 1) + 1 = i /\ i - 1 \notin J
    <3> HIDE DEF i, J
    <3>1. i \in Nat /\ \A m \in J : i <= m
      BY <2>3, <2>4
    <3>2. ASSUME i > 0 PROVE i - 1 \in Nat /\ (i - 1) + 1 = i /\ ~(i <= i - 1)
      BY <3>1, <3>2
    <3> QED BY <3>1, <3>2
  <2>6. x \in Int /\ y \in Int
    BY <1>3, <2>4, Zenon
  <2>7. x <= w
    <3>1. CASE i = 0
      BY <1>2, <3>1
    <3>2. CASE i > 0
      <4>1. ~(f[(i - 1) + 1] > w)
        BY <2>4, <2>5, <3>2
      <4> HIDE DEF i
      <4>2. ~(f[i] > w)
        BY <2>5, <3>2, <4>1
      <4> QED BY <2>6, <4>2
    <3> HIDE DEF i
    <3> QED BY <2>4, <3>1, <3>2
  <2>8. \A u \in Int : 1 <= u /\ u <= 40 /\ (y = -1 \/ u < y) => EstAll(list, x) > Cap(u, level)
    BY <1>3, <2>4, Zenon
  <2>9. i + 1 # k - 1 => /\ f[(i + 1) + 1] > y /\ f[(i + 1) + 1] \in Int
                         /\ \A u \in Int : 1 <= u /\ u <= 40 /\ (f[(i + 1) + 1] = -1 \/ u < f[(i + 1) + 1]) => EstAll(list, y) > Cap(u, level)
    <3> HIDE DEF i
    <3>1. ASSUME i + 1 # k - 1 PROVE (i + 1) + 1 \in 1..(k - 1) /\ ((i + 1) + 1) - 1 = i + 1
      BY <1>1, <2>4, <3>1
    <3>2. ASSUME i + 1 # k - 1 PROVE f[(i + 1) + 1] > f[i + 1]
      <4>1. f[(i + 1) + 1] > f[((i + 1) + 1) - 1]
        BY <1>2, <3>1, <3>2, Zenon
      <4> QED BY <3>1, <3>2, <4>1
    <3> QED BY <1>3, <2>4, <3>2, Zenon
  <2>10. i + 1 = k - 1 => y = q
    BY DEF q
  <2> DEFINE z == f[(i + 1) + 1]
  <2> HIDE DEF i, J, z, x, y
  <2>11. Class(x) <= Class(w)
    BY <2>6, <2>7, ClassOrder
  <2>12. EstAll(list, x) > Cap(w, level)
    BY <1>6, <2>4, <2>8, Zenon
  <2>13. Class(x) # Class(w)
    BY <2>6, <2>11, <2>12, EstimateBound, Zenon
  <2>14. Class(x) = 1 /\ Class(w) = 2 /\ 10 <= w /\ w <= 26
    BY <1>5, <1>9, <2>6, <2>11, <2>13, ClassOrder
  <2>15. CASE y <= 26
    <3>1. Class(y) = Class(w)
      BY <2>4, <2>6, <2>14, <2>15, ClassOrder
    <3>2. Class(y) <= Class(w)
      BY <2>14, <3>1
    <3>3. ~(EstAll(list, y) > Cap(w, level))
      BY <2>6, <3>1, <3>2, EstimateBound, Zenon
    <3>4. i + 1 # k - 1
      BY <1>5, <1>9, <2>10, <2>14, <3>1
    <3>5. z > y /\ z \in Int /\ ~(w < z)
      BY <1>6, <2>9, <3>3, <3>4, Zenon DEF z
    <3> QED BY <2>4, <2>6, <3>5
  <2>16. CASE y > 26
    <3>1. 26 \in Int /\ 1 <= 26 /\ 26 <= 40
      OBVIOUS
    <3>2. EstAll(list, x) > Cap(26, level)
      BY <2>8, <2>16, <3>1, Zenon
    <3>3. w = 26 \/ w < 26
      BY <2>14
    <3>4. CASE w = 26
      BY <2>6, <2>11, <2>14, <3>2, <3>4, EstimateBound, Zenon
    <3>5. CASE w < 26
      BY <2>6, <2>11, <3>1, <3>2, <3>5, EstimateBound, Zenon
    <3> QED BY <3>3, <3>4, <3>5
  <2> QED BY <2>6, <2>15, <2>16
<1>10. Class(q) = Class(w) \/ Class(q) < Class(w) \/ Class(q) > Class(w)
  BY <1>5 DEF Class
<1> QED BY <1>7, <1>8, <1>9, <1>10

\* What the estimate gives has length fields that are wide enough.
LEMMA EstimateIs ==
  ASSUME NEW list \in Seq(Entries), NEW level \in 1..4, NEW E, E = QRinput_estimateVersion(list, level)
  PROVE  E \in Int /\ (E = -1 \/ (1 <= E /\ E <= 40 /\ AllShort(list, E)))
<1>0. PICK k \in Nat : \E f : k > 0 /\ Rounds(list, level, k, f)
  BY EstimateRounds, Zenon
<1>1. PICK f : k > 0 /\ Rounds(list, level, k, f)
  BY <1>0, Zenon
<1> DEFINE q == f[k - 1]
<1>2. q \in Int /\ E = EstimateRound(list, level, q)
  <2>1. k - 1 \in 0..(k - 1) /\ (k - 1) + 1 = k /\ k - 1 \in 0..k
    BY <1>1
  <2>2. f \in [0..k -> Int] /\ E = f[k] /\ f[(k - 1) + 1] = EstimateRound(list, level, f[k - 1])
    BY <1>1, <2>1, Zenon DEF Rounds
  <2> QED BY <2>1, <2>2
<1> HIDE DEF q
<1>3. E \in Int /\ (E = -1 \/ (1 <= E /\ E <= 40 /\ EstAll(list, q) <= Cap(E, level)))
  BY <1>2, RoundIs, Zenon
<1>4. ASSUME E # -1 PROVE AllShort(list, E)
  <2>1. 1 <= E /\ E <= 40 /\ EstAll(list, q) <= Cap(E, level)
    BY <1>3, <1>4
  <2>2. ASSUME NEW i \in 1..Len(list), ~Short(list[i], E) PROVE FALSE
    <3>1. list[i] \in Entries
      BY <2>2
    <3>2. Est(list[i], q) > Cap(E, level)
      BY <1>2, <1>3, <2>1, <2>2, <3>1, LongChunk, Zenon
    <3> DEFINE s == EstTerms(list, q)
    <3>3. s \in Seq(Nat) /\ Len(s) = Len(list) /\ EstAll(list, q) = SumOf(s) /\ s[i] = Est(list[i], q)
      BY <1>2, <2>2, Terms DEF EstTerms
    <3> HIDE DEF s
    <3>4. s[i] <= SumOf(s) /\ SumOf(s) \in Nat /\ s[i] \in Nat
      BY <2>2, <3>3, SumNat
    <3>5. Cap(E, level) \in Nat
      BY <1>3, <2>1, CapNat, Zenon
    <3> QED BY <2>1, <3>2, <3>3, <3>4, <3>5
  <2> QED BY <2>2, Zenon DEF AllShort
<1> QED BY <1>3, <1>4

-----------------------------------------------------------------------------
(* The parity of a set of symbols.                                         *)

\* The number that bits spell is a natural number.
LEMMA NumberNat ==
  ASSUME NEW b \in Seq(Nat)
  PROVE  Number(b) \in Nat
<1> DEFINE N == Len(b)
           G == [u \in Nat \X Nat |-> IF u[1] \in 1..N THEN 2 * u[2] + b[u[1]] ELSE u[2]]
           f[i \in 0..Len(b)] == IF i = 0 THEN 0 ELSE 2 * f[i - 1] + b[i]
<1>1. Number(b) = f[N]
  BY DEF Number
<1> HIDE DEF f
<1>2. G \in [Nat \X Nat -> Nat] /\ N \in Nat
  OBVIOUS
<1> HIDE DEF G
<1>3. PICK g \in [0..N -> Nat] : g[0] = 0 /\ \A k \in 1..N : g[k] = G[<<k, g[k - 1]>>]
  <2>1. Loops(Nat, 0, G, N) # {}
    BY <1>2, LoopExists
  <2> QED BY <2>1 DEF Loops
<1>4. ASSUME NEW k \in 1..N PROVE g[k] = 2 * g[k - 1] + b[k]
  <2>1. k \in Nat /\ g[k - 1] \in Nat
    OBVIOUS
  <2>2. G[<<k, g[k - 1]>>] = 2 * g[k - 1] + b[k]
    BY <2>1 DEF G
  <2> QED BY <1>3, <2>2
<1>5. g = [k \in 0..N |-> IF k = 0 THEN 0 ELSE 2 * g[k - 1] + b[k]]
  <2>1. \A k \in 0..N : k = 0 \/ k \in 1..N
    OBVIOUS
  <2> QED BY <1>3, <1>4, <2>1
<1>6. f = [k \in 0..N |-> IF k = 0 THEN 0 ELSE 2 * f[k - 1] + b[k]]
  BY <1>5, Zenon DEF f
<1>7. f[0] = 0 /\ \A k \in 1..N : f[k] = 2 * f[k - 1] + b[k]
  <2>1. 0 \in 0..N /\ \A k \in 1..N : k \in 0..N /\ k # 0
    BY <1>2
  <2> QED BY <1>6, <2>1, Zenon
<1> DEFINE T == {k \in Nat : k <= N => f[k] \in Nat}
<1>8. N \in T
  <2>1. T \in SUBSET Nat /\ 0 \in T
    BY <1>7
  <2>2. ASSUME NEW k \in T PROVE k + 1 \in T
    <3>1. k \in Nat /\ (k + 1 <= N => k + 1 \in 1..N /\ (k + 1) - 1 = k /\ k <= N)
      BY <1>2
    <3>2. k + 1 <= N => f[k + 1] = 2 * f[k] + b[k + 1]
      BY <1>7, <3>1
    <3>3. k + 1 <= N => f[k + 1] \in Nat
      BY <3>1, <3>2
    <3> QED BY <3>1, <3>3
  <2> HIDE DEF T
  <2>3. \A k \in Nat : k \in T
    BY <2>1, <2>2, SetInduction
  <2> QED BY <1>2, <2>3
<1> QED BY <1>1, <1>2, <1>8

\* QRinput_calcParity returns a number.
LEMMA ParityNat ==
  ASSUME NEW list \in Seq(Entries)
  PROVE  QRinput_calcParity(list) \in Nat
<1> DEFINE q == [i \in DOMAIN list |-> list[i].data]
           d == FlattenSeq(q)
           B(k) == {i \in DOMAIN d : (d[i] \div 2^(8 - k)) % 2 = 1}
           b == [k \in 1..8 |-> Cardinality(B(k)) % 2]
<1>1. q \in Seq(Seq(Nat))
  <2>1. DOMAIN list = 1..Len(list) /\ Len(list) \in Nat /\ \A i \in 1..Len(list) : list[i] \in Entries
    BY LenProperties, ElementOfSeq
  <2>2. \A e \in Entries : e.data \in Seq(Nat)
    BY DEF Entries
  <2> QED BY <2>1, <2>2
<1>2. d \in Seq(Nat)
  <2> HIDE DEF q
  <2> QED BY <1>1, FlattenLen, Zenon
<1>3. QRinput_calcParity(list) = Number(b)
  BY DEF QRinput_calcParity, ParityOf
<1>4. IsFiniteSet(DOMAIN d)
  <2> HIDE DEF d
  <2>1. DOMAIN d = 1..Len(d) /\ Len(d) \in Nat
    BY <1>2
  <2>2. 1 \in Int /\ Len(d) \in Int
    BY <2>1
  <2>3. IsFiniteSet(1..Len(d))
    BY <2>2, FS_Interval, Zenon
  <2> QED BY <2>1, <2>3
<1>5. ASSUME NEW k PROVE Cardinality(B(k)) \in Nat
  <2>1. B(k) \in SUBSET (DOMAIN d)
    <3> HIDE DEF d
    <3> QED OBVIOUS
  <2> HIDE DEF B, d
  <2>2. IsFiniteSet(B(k))
    BY <1>4, <2>1, FS_Subset, Zenon
  <2> QED BY <2>2, FS_CardinalityType, Zenon
<1> HIDE DEF B
<1>6. b \in Seq(Nat)
  <2> DEFINE N == 8
  <2>1. N \in Nat
    OBVIOUS
  <2>2. ASSUME NEW k PROVE Cardinality(B(k)) % 2 \in Nat
    BY <1>5
  <2> DEFINE c(k) == Cardinality(B(k)) % 2
  <2> HIDE DEF c
  <2> HIDE DEF N
  <2>3. [k \in 1..N |-> c(k)] \in Seq(Nat)
    BY <2>1, <2>2 DEF c
  <2> QED BY <2>3 DEF c, N
<1> HIDE DEF b
<1> QED BY <1>3, <1>6, NumberNat

-----------------------------------------------------------------------------
(* Where a chunk of a string ends.                                         *)

\* A loop that goes on to a later place of 1..N until it stops has an end.
GoesOn(N, S, next) == \A q \in (1..N) \ S : next[q] \in (q + 1)..N
EndsAt(N, S, next, h) == h = [q \in 1..N |-> IF q \in S THEN q ELSE h[next[q]]]
\* The induction behind Jumps, over the places that are left.
LEMMA JumpsEnd ==
  ASSUME NEW N \in Nat, NEW S \in SUBSET (1..N), NEW next, GoesOn(N, S, next)
  PROVE  \E h : EndsAt(N, S, next, h)
<1> USE DEF GoesOn
<1> DEFINE Go(h, q) == h[q] = IF q \in S THEN q ELSE h[next[q]]
           W(n) == \E h \in [1..N -> 1..N] : \A q \in (N - n + 1)..N : Go(h, q)
           T == {n \in Nat : n <= N => W(n)}
<1>1. N \in T
  <2>1. T \in SUBSET Nat /\ 0 \in T
    <3>1. [q \in 1..N |-> q] \in [1..N -> 1..N] /\ \A q \in (N - 0 + 1)..N : FALSE
      OBVIOUS
    <3> HIDE DEF Go
    <3> QED BY <3>1
  <2>2. ASSUME NEW n \in T PROVE n + 1 \in T
    <3>0. n \in Nat
      BY <2>2
    <3> SUFFICES ASSUME n + 1 <= N PROVE W(n + 1)
      <4> HIDE DEF W
      <4> QED BY <3>0
    <3>1. n \in Nat /\ n <= N
      BY <3>0
    <3>2. PICK h \in [1..N -> 1..N] : \A q \in (N - n + 1)..N : Go(h, q)
      BY <2>2, <3>1
    <3> DEFINE p == N - n
               x == IF p \in S THEN p ELSE h[next[p]]
               g == [q \in 1..N |-> IF q = p THEN x ELSE h[q]]
    <3>3. p \in 1..N /\ x \in 1..N
      <4>1. p \in 1..N
        BY <3>1
      <4> HIDE DEF p
      <4>2. p \notin S => next[p] \in (p + 1)..N
        BY <4>1
      <4>3. ASSUME p \notin S PROVE next[p] \in 1..N
        <5> DEFINE y == next[p]
        <5>1. y \in (p + 1)..N
          BY <4>2, <4>3
        <5> HIDE DEF y
        <5>2. y \in 1..N
          BY <4>1, <5>1
        <5> QED BY <5>2 DEF y
      <4> QED BY <3>2, <4>1, <4>3
    <3>4. g \in [1..N -> 1..N] /\ g[p] = x /\ \A q \in 1..N : q # p => g[q] = h[q]
      <4> HIDE DEF p, x
      <4> QED BY <3>2, <3>3
    <3>5. ASSUME NEW q \in p..N PROVE Go(g, q)
      <4>1. q \in 1..N /\ q \in Int /\ p \in Int /\ q >= p /\ (q \notin S => next[q] \in 1..N /\ next[q] # p)
        <5> HIDE DEF p, x, g, T, Go
        <5>1. q \in 1..N /\ q \in Int /\ p \in Int /\ q >= p
          BY <3>3
        <5>2. q \notin S => next[q] \in (q + 1)..N
          BY <5>1
        <5>3. ASSUME q \notin S PROVE next[q] \in 1..N /\ next[q] # p
          <6> DEFINE y == next[q]
          <6>1. y \in (q + 1)..N
            BY <5>2, <5>3
          <6> HIDE DEF y
          <6>2. y \in 1..N /\ y # p
            BY <5>1, <6>1
          <6> QED BY <6>2 DEF y
        <5> QED BY <5>1, <5>3
      <4>2. g[q] = IF q \in S THEN q ELSE h[next[q]]
        <5>1. CASE q = p
          BY <3>4, <5>1
        <5>2. CASE q # p
          <6>1. q \in (N - n + 1)..N
            BY <3>1, <4>1, <5>2
          <6> HIDE DEF g, p
          <6> QED BY <3>2, <3>4, <4>1, <5>2, <6>1
        <5> QED BY <5>1, <5>2
      <4> HIDE DEF g, p
      <4> QED BY <3>4, <4>1, <4>2
    <3>6. p = N - (n + 1) + 1
      BY <3>1
    <3> HIDE DEF g, p, Go
    <3> QED BY <3>4, <3>5, <3>6
  <2> HIDE DEF T
  <2> QED BY <2>1, <2>2, SetInduction
<1>2. PICK h \in [1..N -> 1..N] : \A q \in 1..N : Go(h, q)
  <2>1. N - N + 1 = 1 /\ N <= N
    OBVIOUS
  <2> HIDE DEF Go
  <2> QED BY <1>1, <2>1
<1>3. h = [q \in 1..N |-> IF q \in S THEN q ELSE h[next[q]]]
  BY <1>2
<1> QED BY <1>3 DEF EndsAt

\* What it returns is one of the places.
LEMMA Jumps ==
  ASSUME NEW N \in Nat, NEW S \in SUBSET (1..N), NEW next, GoesOn(N, S, next), NEW f, EndsAt(N, S, next, f)
  PROVE  \A q \in 1..N : f[q] \in 1..N
<1> USE DEF GoesOn
<1>5. \A q \in 1..N : f[q] = IF q \in S THEN q ELSE f[next[q]]
  BY DEF EndsAt
<1> DEFINE U == {n \in Nat : \A q \in 1..N : q > N - n => f[q] \in 1..N}
<1>6. U \in SUBSET Nat /\ 0 \in U
  OBVIOUS
<1>7. ASSUME NEW n \in U PROVE n + 1 \in U
  <2>1. n \in Nat /\ \A q \in 1..N : q > N - n => f[q] \in 1..N
    BY <1>7
  <2>2. ASSUME NEW q \in 1..N, q > N - (n + 1) PROVE f[q] \in 1..N
    <3>1. CASE q \in S
      BY <1>5, <3>1, Zenon
    <3>2. CASE q \notin S
      <4>1. next[q] \in 1..N /\ next[q] > N - n
        <5>1. next[q] \in (q + 1)..N
          BY <3>2
        <5> QED BY <2>1, <2>2, <5>1
      <4>2. f[next[q]] \in 1..N
        BY <2>1, <4>1
      <4> QED BY <1>5, <3>2, <4>2, Zenon
    <3> QED BY <3>1, <3>2
  <2> QED BY <2>1, <2>2
<1> HIDE DEF U
<1>8. N \in U
  BY <1>6, <1>7, SetInduction
<1> QED BY <1>8 DEF U

\* The first of the places of a set.
LEMMA FirstPlace ==
  ASSUME NEW N \in Nat, NEW p \in 1..N, NEW Q \in SUBSET (p..N), Q # {}
  PROVE  /\ Min(Q) \in p..N /\ Min(Q) \in 1..N
         /\ p \notin Q => Min(Q) \in (p + 1)..N
<1>1. Q \in SUBSET Nat
  OBVIOUS
<1>2. Min(Q) \in Q
  BY <1>1, MinIsMember, Zenon
<1> DEFINE m == Min(Q)
<1>3. m \in p..N /\ (p \notin Q => m # p)
  BY <1>2
<1> HIDE DEF m
<1>4. m \in 1..N
  BY <1>3
<1>5. ASSUME p \notin Q PROVE m \in (p + 1)..N
  BY <1>3, <1>5
<1> QED BY <1>3, <1>4, <1>5 DEF m

\* What the mode of a character says of it; the end of the string has none.
LEMMA ModeIs ==
  ASSUME NEW s \in Seq(Nat), NEW p \in Nat, NEW hint
  PROVE  /\ Split_identifyMode(s, p, hint) = "num" => isdigit(At(s, p))
         /\ Split_identifyMode(s, p, hint) = "an" => isalnum(At(s, p))
         /\ Split_identifyMode(s, p, hint) \in {"nul", "num", "an", "b8", "kanji"}
         /\ p > Len(s) => At(s, p) = 0 /\ Split_identifyMode(s, p, hint) = "nul"
         /\ p + 1 > Len(s) => Split_identifyMode(s, p, hint) # "kanji"
         /\ ~isdigit(0) /\ ~isalnum(0)
<1> DEFINE c == At(s, p)
           k == hint = "kanji" /\ At(s, p + 1) # 0 /\ isKanji(c, At(s, p + 1))
<1>1. ~isdigit(0)
  BY DEF isdigit
<1>2. ~isalnum(0)
  <2>1. 0 \notin ToSet(anOthers)
    BY DEF ToSet, anOthers
  <2> QED BY <2>1 DEF isalnum
<1>3. /\ p > Len(s) => c = 0
      /\ p + 1 > Len(s) => At(s, p + 1) = 0
  BY DEF At
<1>4. Split_identifyMode(s, p, hint) =
        CASE c = 0 -> "nul" [] isdigit(c) -> "num" [] isalnum(c) /\ ~isdigit(c) -> "an"
          [] OTHER -> IF k THEN "kanji" ELSE "b8"
  BY DEF Split_identifyMode
<1>5. c = 0 => Split_identifyMode(s, p, hint) = "nul"
  <2> HIDE DEF k, c
  <2> QED BY <1>1, <1>2, <1>4
<1>6. ASSUME c # 0 PROVE Split_identifyMode(s, p, hint) = IF isdigit(c) THEN "num" ELSE IF isalnum(c) THEN "an" ELSE IF k THEN "kanji" ELSE "b8"
  <2> HIDE DEF k, c
  <2>1. CASE isdigit(c)
    BY <1>4, <1>6, <2>1
  <2>2. CASE ~isdigit(c) /\ isalnum(c)
    BY <1>4, <1>6, <2>2
  <2>3. CASE ~isdigit(c) /\ ~isalnum(c)
    BY <1>4, <1>6, <2>3
  <2> QED BY <2>1, <2>2, <2>3
<1>7. p + 1 > Len(s) => ~k
  BY <1>3
<1> DEFINE m == Split_identifyMode(s, p, hint)
<1> HIDE DEF k, c, m
<1>8. m \in {"nul", "num", "an", "b8", "kanji"} /\ (m = "num" => isdigit(c)) /\ (m = "an" => isalnum(c)) /\ (m = "kanji" => k)
  BY <1>5, <1>6 DEF m
<1> QED BY <1>1, <1>2, <1>3, <1>5, <1>7, <1>8 DEF m, c

\* Runs of digits, of alphanumeric characters and of bytes end in the string, or at
\* its end.
LEMMA Ends ==
  ASSUME NEW s \in Seq(Nat), NEW N, N = Len(s) + 1, NEW p \in 1..N, NEW hint
  PROVE  /\ N \in Nat
         /\ DigitsEnd(s, p) \in 1..N /\ (isdigit(At(s, p)) => DigitsEnd(s, p) \in (p + 1)..N)
         /\ isalnum(At(s, p)) => AlnumEnd(s, p) \in (p + 1)..N
         /\ Split_identifyMode(s, p, hint) = "b8" => BytesEnd(s, p, hint) \in (p + 1)..N
<1>1. N \in Nat /\ p \in Nat /\ N > Len(s) /\ N \in p..N /\ p \in p..N
  BY LenProperties
<1>2. At(s, N) = 0 /\ Split_identifyMode(s, N, hint) = "nul" /\ ~isdigit(At(s, N)) /\ ~isalnum(At(s, N))
  BY <1>1, ModeIs
<1> DEFINE A == {q \in p..(Len(s) + 1) : ~isdigit(At(s, q))}
           B == {q \in p..(Len(s) + 1) : ~isalnum(At(s, q))}
           C == {q \in p..(Len(s) + 1) : Split_identifyMode(s, q, hint) # "b8"}
<1>3. A \in SUBSET (p..N) /\ A # {} /\ (isdigit(At(s, p)) => p \notin A)
  BY <1>1, <1>2
<1>4. B \in SUBSET (p..N) /\ B # {} /\ (isalnum(At(s, p)) => p \notin B)
  BY <1>1, <1>2
<1>5. C \in SUBSET (p..N) /\ C # {} /\ (Split_identifyMode(s, p, hint) = "b8" => p \notin C)
  BY <1>1, <1>2
<1>6. DigitsEnd(s, p) = Min(A) /\ AlnumEnd(s, p) = Min(B) /\ BytesEnd(s, p, hint) = Min(C)
  BY DEF DigitsEnd, AlnumEnd, BytesEnd
<1> HIDE DEF A, B, C
<1>7. Min(A) \in 1..N /\ (p \notin A => Min(A) \in (p + 1)..N)
  BY <1>1, <1>3, FirstPlace, Zenon
<1>8. p \notin B => Min(B) \in (p + 1)..N
  BY <1>1, <1>4, FirstPlace, Zenon
<1>9. p \notin C => Min(C) \in (p + 1)..N
  BY <1>1, <1>5, FirstPlace, Zenon
<1> QED BY <1>1, <1>3, <1>4, <1>5, <1>6, <1>7, <1>8, <1>9, Zenon

\* Split_eat8 stays in the string.
LEMMA Eat8 ==
  ASSUME NEW s \in Seq(Nat), NEW N, N = Len(s) + 1, NEW p \in 1..Len(s), NEW v, NEW hint
  PROVE  Split_eat8(s, p, v, hint)[1] = "b8" /\ Split_eat8(s, p, v, hint)[2] \in 1..N
<1> DEFINE Stops(q) == \/ Split_identifyMode(s, q, hint) \in {"nul", "kanji"}
                       \/ Split_identifyMode(s, q, hint) \in {"num", "an"} /\ RunIsCheaper(s, q, v, hint)
           end[q \in 1..(Len(s) + 1)] == IF Stops(q) THEN q ELSE end[RunEnd(s, q, hint)]
           S == {q \in 1..N : Stops(q)}
           next == [q \in 1..N |-> RunEnd(s, q, hint)]
<1>1. Split_eat8(s, p, v, hint) = <<"b8", end[p + 1]>>
  BY DEF Split_eat8
<1> HIDE DEF end
<1>2. N \in Nat /\ p + 1 \in 1..N
  BY LenProperties
<1>3. ASSUME NEW q \in (1..N) \ S PROVE RunEnd(s, q, hint) \in (q + 1)..N
  <2> DEFINE m == Split_identifyMode(s, q, hint)
  <2>1. q \in 1..N /\ q \in Nat /\ m \notin {"nul", "kanji"}
    <3> HIDE DEF m
    <3> QED BY <1>2, <1>3 DEF m
  <2> HIDE DEF S, m, next
  <2>2. m = "num" \/ m = "an" \/ m = "b8"
    <3>1. m \in {"nul", "num", "an", "b8", "kanji"}
      BY <2>1, ModeIs, Zenon DEF m
    <3> QED BY <2>1, <3>1
  <2>3. CASE m = "num"
    <3>1. RunEnd(s, q, hint) = DigitsEnd(s, q)
      BY <2>3, Zenon DEF RunEnd, m
    <3>2. isdigit(At(s, q))
      BY <2>1, <2>3, ModeIs, Zenon DEF m
    <3>3. DigitsEnd(s, q) \in (q + 1)..N
      BY <2>1, <3>2, Ends, Zenon
    <3> QED BY <3>1, <3>3
  <2>4. CASE m = "an"
    <3>0. m # "num"
      BY <2>4
    <3>1. RunEnd(s, q, hint) = AlnumEnd(s, q)
      BY <2>4, <3>0, Zenon DEF RunEnd, m
    <3>2. isalnum(At(s, q))
      BY <2>1, <2>4, ModeIs, Zenon DEF m
    <3>3. AlnumEnd(s, q) \in (q + 1)..N
      BY <2>1, <3>2, Ends, Zenon
    <3> QED BY <3>1, <3>3
  <2>5. CASE m = "b8"
    <3>0. m # "num" /\ m # "an"
      BY <2>5
    <3>1. RunEnd(s, q, hint) = BytesEnd(s, q, hint)
      BY <2>5, <3>0, Zenon DEF RunEnd, m
    <3>3. BytesEnd(s, q, hint) \in (q + 1)..N
      BY <2>1, <2>5, Ends, Zenon DEF m
    <3> QED BY <3>1, <3>3
  <2> QED BY <2>2, <2>3, <2>4, <2>5
<1>4. S \in SUBSET (1..N)
  OBVIOUS
<1>5. \A q \in 1..N : next[q] = RunEnd(s, q, hint) /\ (q \in S <=> Stops(q))
  <2> HIDE DEF Stops
  <2> QED OBVIOUS
<1>6. GoesOn(N, S, next)
  <2> HIDE DEF S, next, Stops
  <2> QED BY <1>3, <1>5 DEF GoesOn
<1> HIDE DEF S, next, Stops
<1>7. \E h : EndsAt(N, S, next, h)
  BY <1>2, <1>4, <1>6, JumpsEnd, Zenon
<1>8. PICK h : h = [q \in 1..N |-> IF Stops(q) THEN q ELSE h[RunEnd(s, q, hint)]]
  <2>1. PICK h : h = [q \in 1..N |-> IF q \in S THEN q ELSE h[next[q]]]
    BY <1>7, Zenon DEF EndsAt
  <2>2. [q \in 1..N |-> IF q \in S THEN q ELSE h[next[q]]] = [q \in 1..N |-> IF Stops(q) THEN q ELSE h[RunEnd(s, q, hint)]]
    BY <1>5, Zenon
  <2> QED BY <2>1, <2>2, Zenon
<1>9. end = [q \in 1..N |-> IF Stops(q) THEN q ELSE end[RunEnd(s, q, hint)]]
  <2>1. \E g : g = [q \in 1..(Len(s) + 1) |-> IF Stops(q) THEN q ELSE g[RunEnd(s, q, hint)]]
    BY <1>8, Zenon
  <2>2. end = [q \in 1..(Len(s) + 1) |-> IF Stops(q) THEN q ELSE end[RunEnd(s, q, hint)]]
    BY <2>1, Zenon DEF end
  <2> QED BY <2>2, Zenon
<1>10. EndsAt(N, S, next, end)
  BY <1>5, <1>9, Zenon DEF EndsAt
<1>11. end[p + 1] \in 1..N
  BY <1>2, <1>4, <1>6, <1>10, Jumps, Zenon
<1> QED BY <1>1, <1>11

\* Split_eatAn stays in the string.
LEMMA EatAn ==
  ASSUME NEW s \in Seq(Nat), NEW N, N = Len(s) + 1, NEW p \in 1..Len(s), NEW v, NEW hint
  PROVE  Split_eatAn(s, p, v, hint)[1] \in Splittable /\ Split_eatAn(s, p, v, hint)[2] \in 1..N
<1> DEFINE Stops(r) == ~isalnum(At(s, r)) \/ (isdigit(At(s, r)) /\ DigitsAreCheaper(s, p, r, v))
           Next(r) == IF isdigit(At(s, r)) THEN DigitsEnd(s, r) ELSE r + 1
           end[r \in 1..(Len(s) + 1)] ==
             IF Stops(r) THEN r ELSE end[IF isdigit(At(s, r)) THEN DigitsEnd(s, r) ELSE r + 1]
           S == {q \in 1..N : Stops(q)}
           next == [q \in 1..N |-> Next(q)]
           dif == QRinput_estimateBitsModeAn(end[p] - p) + 4 + QRspec_lengthIndicator("an", v) + 8 - 8 * (end[p] - p + 1)
<1>1. Split_eatAn(s, p, v, hint) =
        IF At(s, end[p]) # 0 /\ ~isalnum(At(s, end[p])) /\ dif > 0 THEN Split_eat8(s, p, v, hint) ELSE <<"an", end[p]>>
  BY DEF Split_eatAn
<1> HIDE DEF end, dif
<1>2. N \in Nat /\ p \in 1..N
  BY LenProperties
<1>3. ASSUME NEW q \in (1..N) \ S PROVE Next(q) \in (q + 1)..N
  <2>1. q \in 1..N /\ isalnum(At(s, q))
    BY <1>3
  <2> HIDE DEF S, next
  <2>2. CASE isdigit(At(s, q))
    BY <2>1, <2>2, Ends, Zenon
  <2>3. CASE ~isdigit(At(s, q))
    <3>1. q # N
      <4>1. N \in Nat /\ N > Len(s) /\ hint = hint
        BY <1>2, LenProperties
      <4>2. At(s, N) = 0 /\ ~isalnum(0)
        BY <4>1, ModeIs
      <4> QED BY <2>1, <4>2
    <3>2. q + 1 \in (q + 1)..N
      BY <1>2, <2>1, <3>1
    <3> QED BY <2>3, <3>2
  <2> QED BY <2>2, <2>3
<1>4. S \in SUBSET (1..N)
  OBVIOUS
<1>5. \A q \in 1..N : next[q] = Next(q) /\ (q \in S <=> Stops(q))
  <2> HIDE DEF Stops, Next
  <2> QED OBVIOUS
<1>6. GoesOn(N, S, next)
  <2> HIDE DEF S, next, Stops, Next
  <2> QED BY <1>3, <1>5 DEF GoesOn
<1> HIDE DEF S, next, Stops
<1>7. \E h : EndsAt(N, S, next, h)
  BY <1>2, <1>4, <1>6, JumpsEnd, Zenon
<1>8. PICK h : h = [q \in 1..N |-> IF Stops(q) THEN q ELSE h[Next(q)]]
  <2> HIDE DEF Next
  <2>1. PICK h : h = [q \in 1..N |-> IF q \in S THEN q ELSE h[next[q]]]
    BY <1>7, Zenon DEF EndsAt
  <2>2. [q \in 1..N |-> IF q \in S THEN q ELSE h[next[q]]] = [q \in 1..N |-> IF Stops(q) THEN q ELSE h[Next(q)]]
    BY <1>5, Zenon
  <2> QED BY <2>1, <2>2, Zenon
<1>9. end = [q \in 1..N |-> IF Stops(q) THEN q ELSE end[Next(q)]]
  <2>1. \E g : g = [q \in 1..(Len(s) + 1) |-> IF Stops(q) THEN q ELSE g[IF isdigit(At(s, q)) THEN DigitsEnd(s, q) ELSE q + 1]]
    BY <1>8, Zenon
  <2>2. end = [q \in 1..(Len(s) + 1) |-> IF Stops(q) THEN q ELSE end[IF isdigit(At(s, q)) THEN DigitsEnd(s, q) ELSE q + 1]]
    BY <2>1, Zenon DEF end
  <2> QED BY <2>2, Zenon
<1> HIDE DEF Next
<1>10. EndsAt(N, S, next, end)
  BY <1>5, <1>9, Zenon DEF EndsAt
<1>11. end[p] \in 1..N
  BY <1>2, <1>4, <1>6, <1>10, Jumps, Zenon
<1>12. Split_eat8(s, p, v, hint)[1] = "b8" /\ Split_eat8(s, p, v, hint)[2] \in 1..N
  BY Eat8, Zenon
<1>13. CASE Split_eatAn(s, p, v, hint) = Split_eat8(s, p, v, hint)
  BY <1>12, <1>13, Zenon DEF Splittable
<1>14. CASE Split_eatAn(s, p, v, hint) = <<"an", end[p]>>
  BY <1>11, <1>14 DEF Splittable
<1> QED BY <1>1, <1>13, <1>14, Zenon

\* Split_eatNum stays in the string.
LEMMA EatNum ==
  ASSUME NEW s \in Seq(Nat), NEW N, N = Len(s) + 1, NEW p \in 1..Len(s), NEW v, NEW hint
  PROVE  Split_eatNum(s, p, v, hint)[1] \in Splittable /\ Split_eatNum(s, p, v, hint)[2] \in 1..N
<1>1. \/ Split_eatNum(s, p, v, hint) = Split_eat8(s, p, v, hint)
      \/ Split_eatNum(s, p, v, hint) = Split_eatAn(s, p, v, hint)
      \/ Split_eatNum(s, p, v, hint) = <<"num", DigitsEnd(s, p)>>
  BY Zenon DEF Split_eatNum
<1>2. p \in 1..N
  BY LenProperties
<1>3. DigitsEnd(s, p) \in 1..N
  BY <1>2, Ends, Zenon
<1>4. Split_eat8(s, p, v, hint)[1] = "b8" /\ Split_eat8(s, p, v, hint)[2] \in 1..N
  BY Eat8, Zenon
<1>5. Split_eatAn(s, p, v, hint)[1] \in Splittable /\ Split_eatAn(s, p, v, hint)[2] \in 1..N
  BY EatAn, Zenon
<1>6. CASE Split_eatNum(s, p, v, hint) = Split_eat8(s, p, v, hint)
  BY <1>4, <1>6, Zenon DEF Splittable
<1>7. CASE Split_eatNum(s, p, v, hint) = Split_eatAn(s, p, v, hint)
  BY <1>5, <1>7, Zenon
<1>8. CASE Split_eatNum(s, p, v, hint) = <<"num", DigitsEnd(s, p)>>
  BY <1>3, <1>8 DEF Splittable
<1> QED BY <1>1, <1>6, <1>7, <1>8

\* Split_eatKanji stays in the string.
LEMMA EatKanji ==
  ASSUME NEW s \in Seq(Nat), NEW N, N = Len(s) + 1, NEW p \in 1..Len(s), NEW hint
  PROVE  Split_eatKanji(s, p, hint)[1] = "kanji" /\ Split_eatKanji(s, p, hint)[2] \in 1..N
<1> DEFINE Q == {q \in p..(Len(s) + 1) : (q - p) % 2 = 0 /\ Split_identifyMode(s, q, hint) # "kanji"}
<1>1. N \in Nat /\ p \in 1..N /\ N \in p..N /\ Len(s) \in p..N /\ Len(s) \in Nat
  BY LenProperties
<1>2. Split_identifyMode(s, N, hint) # "kanji" /\ Split_identifyMode(s, Len(s), hint) # "kanji"
  <2>1. N > Len(s) /\ Len(s) + 1 > Len(s) /\ N + 1 > Len(s)
    BY <1>1
  <2> QED BY <1>1, <2>1, ModeIs, Zenon
<1>3. (N - p) % 2 = 0 \/ (Len(s) - p) % 2 = 0
  BY <1>1
<1>4. Q \in SUBSET (p..N) /\ Q # {}
  <2>1. N \in Q \/ Len(s) \in Q
    BY <1>1, <1>2, <1>3
  <2> QED BY <2>1
<1>5. Split_eatKanji(s, p, hint) = <<"kanji", Min(Q)>>
  BY DEF Split_eatKanji
<1> HIDE DEF Q
<1>6. Min(Q) \in 1..N
  BY <1>1, <1>4, FirstPlace, Zenon
<1> QED BY <1>5, <1>6

\* A chunk of a string has a mode, and ends within the string.
LEMMA EatIs ==
  ASSUME NEW s \in Seq(Nat), NEW p \in 1..Len(s), NEW v, NEW hint
  PROVE  Split_eat(s, p, v, hint)[1] \in Splittable /\ Split_eat(s, p, v, hint)[2] \in 1..(Len(s) + 1)
<1> DEFINE N == Len(s) + 1
           mode == Split_identifyMode(s, p, hint)
<1>1. Split_eat(s, p, v, hint) =
        CASE mode = "num" -> Split_eatNum(s, p, v, hint)
          [] mode = "an"  -> Split_eatAn(s, p, v, hint)
          [] mode = "kanji" -> Split_eatKanji(s, p, hint)
          [] OTHER -> Split_eat8(s, p, v, hint)
  BY DEF Split_eat
<1> HIDE DEF mode
<1>2. CASE mode = "num"
  <2>1. Split_eat(s, p, v, hint) = Split_eatNum(s, p, v, hint)
    BY <1>1, <1>2
  <2> QED BY <2>1, EatNum, Zenon
<1>3. CASE mode = "an"
  <2>1. Split_eat(s, p, v, hint) = Split_eatAn(s, p, v, hint)
    BY <1>1, <1>3
  <2> QED BY <2>1, EatAn, Zenon
<1>4. CASE mode = "kanji"
  <2>1. Split_eat(s, p, v, hint) = Split_eatKanji(s, p, hint)
    BY <1>1, <1>4
  <2> QED BY <2>1, EatKanji, Zenon DEF Splittable
<1>5. CASE mode \notin {"num", "an", "kanji"}
  <2>1. Split_eat(s, p, v, hint) = Split_eat8(s, p, v, hint)
    BY <1>1, <1>5
  <2>2. Split_eat8(s, p, v, hint)[1] = "b8" /\ Split_eat8(s, p, v, hint)[2] \in 1..N
    BY Eat8, Zenon
  <2> QED BY <2>1, <2>2, Zenon DEF Splittable
<1> QED BY <1>2, <1>3, <1>4, <1>5

\* The string it is cut from.
LEMMA RaisedIs ==
  ASSUME NEW s \in Seq(Nat), NEW hint
  PROVE  dupAndToUpper(s, hint) \in Seq(Nat)
<1> DEFINE Kanji(p) == Split_identifyMode(s, p, hint) = "kanji"
           second[p \in 1..Len(s)] == p > 1 /\ Kanji(p - 1) /\ ~second[p - 1]
           d(p) == IF second[p] \/ Kanji(p) THEN s[p] ELSE Upper(s[p])
<1>1. dupAndToUpper(s, hint) = [p \in 1..Len(s) |-> d(p)]
  BY DEF dupAndToUpper
<1>2. ASSUME NEW p \in 1..Len(s) PROVE d(p) \in Nat
  <2> HIDE DEF second, Kanji
  <2>0. ASSUME NEW c \in Nat PROVE Upper(c) \in Nat
    BY SMT DEF Upper
  <2>2. s[p] \in Nat
    OBVIOUS
  <2>1. s[p] \in Nat /\ Upper(s[p]) \in Nat
    BY <2>0, <2>2, Zenon
  <2> QED BY <2>1, Zenon
<1> HIDE DEF d
<1> QED BY <1>1, <1>2

-----------------------------------------------------------------------------
(* Cutting chunks.                                                         *)

\* What QRinput_check lets through is a chunk.
LEMMA CheckedChunk ==
  ASSUME NEW mode \in Splittable, NEW d \in Seq(Nat), QRinput_check(mode, d)
  PROVE  Entry(mode, d) \in Chunks
<1>1. Len(d) > 0
  BY DEF QRinput_check
<1>2. mode = "kanji" => Len(d) % 2 = 0
  BY DEF QRinput_check
<1>3. mode # "fnc1second"
  BY DEF Splittable
<1>4. Entry(mode, d) \in [mode : Splittable \cup {"structure", "fnc1second"}, data : Seq(Nat)]
  BY DEF Entry
<1>5. Entry(mode, d).mode = mode /\ Entry(mode, d).data = d
  BY DEF Entry
<1> DEFINE e == Entry(mode, d)
<1> HIDE DEF e
<1> QED BY <1>1, <1>2, <1>3, <1>4, <1>5, Zenon DEF Entries, Chunks

\* How many characters go in so many bits: as many as the length field can say,
\* and no more than there is room for.
LEMMA LengthOfCode ==
  ASSUME NEW mode \in Splittable, NEW v \in Int, NEW bits \in Nat, NEW n, n = QRinput_lengthOfCode(mode, v, bits)
  PROVE  /\ n \in Nat /\ n <= Room(mode, Class(v)) /\ (mode = "kanji" => n % 2 = 0)
         /\ n > 0 => Taken(mode, Class(v), n) <= bits
         /\ bits >= 52 => n > 0
<1> DEFINE l == Field(mode, Class(v))
           max == Room(mode, Class(v))
           p == bits - 4 - l
           m == IF p < 0 THEN 0
                ELSE CASE mode = "num" -> (p \div 10) * 3 + (IF p % 10 >= 7 THEN 2 ELSE IF p % 10 >= 4 THEN 1 ELSE 0)
                       [] mode = "an" -> (p \div 11) * 2 + (IF p % 11 >= 6 THEN 1 ELSE 0)
                       [] mode \in {"b8", "structure"} -> p \div 8
                       [] mode = "kanji" -> (p \div 13) * 2
                       [] OTHER -> 0
<1>0. Class(v) \in {1, 2, 3}
  BY ClassIs
<1>1. l \in Nat /\ max \in Nat /\ max > 0
  BY <1>0, RoomNat, Zenon
<1>2. l <= 16 /\ (mode = "kanji" => max % 2 = 0)
  <2> DEFINE c == Class(v)
  <2>1. c = 1 \/ c = 2 \/ c = 3
    BY <1>0
  <2> HIDE DEF c
  <2>2. Field(mode, c) <= 16
    BY <2>1, FieldTable, SMT DEF Splittable
  <2>3. ASSUME mode = "kanji" PROVE Room(mode, c) % 2 = 0
    <3>1. Room(mode, c) = (Shifted(Field(mode, c)) - 1) * 2
      BY <2>3 DEF Room
    <3>2. Shifted(Field(mode, c)) = 256 \/ Shifted(Field(mode, c)) = 1024 \/ Shifted(Field(mode, c)) = 4096
      BY <2>1, <2>3, FieldTable, ShiftTable, SMT
    <3> QED BY <3>1, <3>2, SMT
  <2> QED BY <2>2, <2>3 DEF c
<1>3. n = IF max > 0 /\ m > max THEN max ELSE m
  BY FieldOf, Zenon DEF QRinput_lengthOfCode
<1> HIDE DEF l, max
<1>4. p \in Int /\ (bits >= 52 => p >= 32) /\ bits = p + 4 + l
  BY <1>1, <1>2
<1> DEFINE Fit(k) == p >= 0 => Pay(mode, k) <= p
<1>5. /\ m \in Nat /\ (mode = "kanji" => m % 2 = 0) /\ (p >= 32 => m > 0) /\ (p < 0 => m = 0)
      /\ \A k \in Nat : k <= m => Fit(k)
  <2> HIDE DEF p
  <2>0. CASE p < 0
    BY <1>4, <2>0
  <2>1. CASE p >= 0 /\ mode = "num"
    <3> DEFINE a == p \div 10
               r == p % 10
    <3>1. p \in Nat
      BY <1>4, <2>1
    <3>2. a \in Nat /\ r \in Nat /\ r <= 9
      BY <3>1
    <3>3. p = 10 * a + r
      BY <3>1
    <3>4. m = a * 3 + (IF r >= 7 THEN 2 ELSE IF r >= 4 THEN 1 ELSE 0)
      BY <1>4, <2>1
    <3> HIDE DEF a, r, m
    <3>5. m \in Nat /\ (p >= 32 => m > 0)
      BY <3>2, <3>3, <3>4
    <3>6. ASSUME NEW k \in Nat, k <= m PROVE Fit(k)
      <4>1. Pay("num", k) \in Nat /\ 3 * Pay("num", k) <= 10 * k + 2
        BY PayIs DEF Payloads
      <4>2. Pay("num", k) <= p
        BY <3>2, <3>3, <3>4, <3>6, <4>1
      <4> QED BY <2>1, <4>2
    <3> QED BY <2>1, <3>1, <3>5, <3>6
  <2>2. CASE p >= 0 /\ mode = "an"
    <3> DEFINE a == p \div 11
               r == p % 11
    <3>1. p \in Nat
      BY <1>4, <2>2
    <3>2. a \in Nat /\ r \in Nat /\ r <= 10
      BY <3>1
    <3>3. p = 11 * a + r
      BY <3>1
    <3>4. m = a * 2 + (IF r >= 6 THEN 1 ELSE 0)
      BY <1>4, <2>2
    <3> HIDE DEF a, r, m
    <3>5. m \in Nat /\ (p >= 32 => m > 0)
      BY <3>2, <3>3, <3>4
    <3>6. ASSUME NEW k \in Nat, k <= m PROVE Fit(k)
      <4>1. Pay("an", k) \in Nat /\ 2 * Pay("an", k) <= 11 * k + 1
        BY PayIs DEF Payloads
      <4>2. Pay("an", k) <= p
        BY <3>2, <3>3, <3>4, <3>6, <4>1
      <4> QED BY <2>2, <4>2
    <3> QED BY <2>2, <3>1, <3>5, <3>6
  <2>3. CASE p >= 0 /\ mode = "b8"
    <3> DEFINE a == p \div 8
    <3>1. p \in Nat
      BY <1>4, <2>3
    <3>2. a \in Nat /\ 8 * a <= p /\ p <= 8 * a + 7
      BY <3>1
    <3>4. m = a
      BY <1>4, <2>3
    <3> HIDE DEF a, m
    <3>5. m \in Nat /\ (p >= 32 => m > 0)
      BY <3>1, <3>2, <3>4
    <3>6. ASSUME NEW k \in Nat, k <= m PROVE Fit(k)
      <4>1. Pay("b8", k) = 8 * k
        BY PayIs DEF Payloads
      <4>2. Pay("b8", k) <= p
        BY <3>1, <3>2, <3>4, <3>6, <4>1
      <4> QED BY <2>3, <4>2
    <3> QED BY <2>3, <3>1, <3>5, <3>6
  <2>4. CASE p >= 0 /\ mode = "kanji"
    <3> DEFINE a == p \div 13
    <3>1. p \in Nat
      BY <1>4, <2>4
    <3>2. a \in Nat /\ 13 * a <= p /\ p <= 13 * a + 12
      BY <3>1
    <3>4. m = a * 2
      BY <1>4, <2>4
    <3> HIDE DEF a, m
    <3>5. m \in Nat /\ (p >= 32 => m > 0) /\ m % 2 = 0
      BY <3>1, <3>2, <3>4
    <3>6. ASSUME NEW k \in Nat, k <= m PROVE Fit(k)
      <4>0. k % 2 \in Nat
        OBVIOUS
      <4>3. Payloads(k)
        BY PayIs
      <4>1. Pay("kanji", k) \in Nat /\ 2 * Pay("kanji", k) = 13 * k - 13 * (k % 2) /\ k % 2 \in Nat
        BY <4>0, <4>3, Zenon DEF Payloads
      <4>2. Pay("kanji", k) <= p
        BY <3>1, <3>2, <3>4, <3>6, <4>1
      <4> QED BY <2>4, <4>2
    <3> QED BY <2>4, <3>1, <3>5, <3>6
  <2> HIDE DEF m, Fit
  <2> QED BY <1>4, <2>0, <2>1, <2>2, <2>3, <2>4 DEF Splittable
<1> HIDE DEF m
<1>6. n \in Nat /\ n <= m /\ n <= max /\ (n = m \/ n = max)
  BY <1>1, <1>3, <1>5
<1>7. n > 0 => Taken(mode, Class(v), n) <= bits
  <2>1. ASSUME n > 0 PROVE p >= 0
    BY <1>4, <1>5, <1>6, <2>1
  <2>2. ASSUME n > 0 PROVE Pay(mode, n) <= p
    BY <1>5, <1>6, <2>1, <2>2, Zenon
  <2>3. Pay(mode, n) \in Nat
    BY <1>6, PayNat
  <2>4. Taken(mode, Class(v), n) = 4 + l + Pay(mode, n)
    BY DEF Taken, l
  <2> HIDE DEF p
  <2> QED BY <1>1, <1>4, <2>2, <2>3, <2>4
<1>8. bits >= 52 => n > 0
  BY <1>1, <1>3, <1>4, <1>5
<1>9. mode = "kanji" => n % 2 = 0
  BY <1>2, <1>5, <1>6
<1> QED BY <1>6, <1>7, <1>8, <1>9 DEF max

\* A chunk that is cut in two.
LEMMA CutChunk ==
  ASSUME NEW e \in Chunks, NEW v \in Int, NEW bits \in Nat, NEW n, n = QRinput_lengthOfCode(e.mode, v, bits), n > 0,
         QRinput_check(e.mode, SubSeq(e.data, n + 1, Len(e.data)))
  PROVE  /\ Entry(e.mode, SubSeq(e.data, 1, n)) \in Chunks /\ Enc(Entry(e.mode, SubSeq(e.data, 1, n)), v) <= bits
         /\ Entry(e.mode, SubSeq(e.data, n + 1, Len(e.data))) \in Chunks
<1> DEFINE d == e.data
           mode == e.mode
           a == SubSeq(d, 1, n)
           b == SubSeq(d, n + 1, Len(d))
<1>1. mode \in Splittable /\ d \in Seq(Nat) /\ Len(d) \in Nat /\ \A i \in 1..Len(d) : d[i] \in Nat
  BY DEF Chunks, Entries
<1> HIDE DEF d, mode
<1>2. /\ n \in Nat /\ n <= Room(mode, Class(v)) /\ (mode = "kanji" => n % 2 = 0)
      /\ Taken(mode, Class(v), n) <= bits
  BY <1>1, LengthOfCode, Zenon DEF mode
<1>3. b \in Seq(Nat)
  <2>1. \A i \in (n + 1)..Len(d) : d[i] \in Nat
    BY <1>1, <1>2
  <2> QED BY <1>1, <1>2, <2>1, SubSeqProperties
<1>4. Entry(mode, b) \in Chunks
  BY <1>1, <1>3, CheckedChunk DEF mode, d
<1>5. n < Len(d)
  <2>1. Len(b) > 0
    BY DEF QRinput_check, mode, d
  <2>2. Len(b) = IF n + 1 <= Len(d) THEN Len(d) - (n + 1) + 1 ELSE 0
    <3>1. \A i \in (n + 1)..Len(d) : d[i] \in Nat
      BY <1>1, <1>2
    <3> QED BY <1>1, <1>2, <3>1, SubSeqProperties
  <2> HIDE DEF b
  <2> QED BY <1>1, <1>2, <2>1, <2>2
<1>6. a \in Seq(Nat) /\ Len(a) = n
  <2>1. \A i \in 1..n : d[i] \in Nat
    BY <1>1, <1>2, <1>5
  <2> QED BY <1>1, <1>2, <2>1, SubSeqProperties
<1> HIDE DEF a, b
<1> DEFINE x == Entry(mode, a)
<1>7. x.mode = mode /\ x.data = a /\ x \in [mode : Splittable \cup {"structure", "fnc1second"}, data : Seq(Nat)]
  BY <1>1, <1>6 DEF Entry
<1> HIDE DEF x
<1>8. x \in Chunks
  <2>1. mode # "fnc1second"
    BY <1>1 DEF Splittable
  <2> QED BY <1>1, <1>2, <1>6, <1>7, <2>1, Zenon DEF Entries, Chunks
<1>9. Short(x, v)
  BY <1>2, <1>6, <1>7, Zenon DEF Short
<1>10. Enc(x, v) = Taken(mode, Class(v), n)
  <2>1. Enc(x, v) = Taken(x.mode, Class(v), Len(x.data))
    BY <1>8, <1>9, ChunkEnc, Zenon
  <2> QED BY <1>6, <1>7, <2>1, Zenon
<1> QED BY <1>2, <1>4, <1>8, <1>10 DEF x, a, b, mode, d

-----------------------------------------------------------------------------
(* The version of a symbol.                                                *)

PartRecs(level) == [version : {v \in Int : 0 <= v /\ v <= 40}, level : {level}, mqr : {FALSE},
                    fnc1 : Nat, list : Seq(Entries)]

\* No version from V on that has room is passed over.
Passed(p, V) == \A w \in Int : 1 <= w /\ w <= 39 /\ V <= w /\ w < p.version => Ok(p.list, p.level, w)
\* The length fields of the version are wide enough, or the chunks do not fit
\* where wider ones are.
Growing(p) == \/ AllShort(p.list, p.version)
              \/ \A w \in Int : 1 <= w /\ w <= 39 /\ p.version <= w /\ Class(w) > Class(p.version) => Ok(p.list, p.level, w)
Kept(p, V) == EncAll(p.list, V) <= Cap(V, p.level) /\ (p.version = V \/ Misjudged(p.list, V))

\* The fields of an input.
LEMMA PartIs ==
  ASSUME NEW level, NEW p \in PartRecs(level)
  PROVE  /\ p.version \in Int /\ 0 <= p.version /\ p.version <= 40 /\ p.level = level /\ p.mqr = FALSE
         /\ p.fnc1 \in Nat /\ p.list \in Seq(Entries)
BY DEF PartRecs

\* An input with another version.
LEMMA PartVersion ==
  ASSUME NEW level, NEW p \in PartRecs(level), NEW v \in Int, 0 <= v, v <= 40
  PROVE  /\ [p EXCEPT !.version = v] \in PartRecs(level) /\ [p EXCEPT !.version = v].version = v
         /\ [p EXCEPT !.version = v].list = p.list /\ [p EXCEPT !.version = v].fnc1 = p.fnc1
BY DEF PartRecs

\* An input with another list.
LEMMA PartList ==
  ASSUME NEW level, NEW p \in PartRecs(level), NEW l \in Seq(Entries)
  PROVE  /\ [p EXCEPT !.list = l] \in PartRecs(level) /\ [p EXCEPT !.list = l].version = p.version
         /\ [p EXCEPT !.list = l].list = l /\ [p EXCEPT !.list = l].fnc1 = p.fnc1
BY DEF PartRecs

\* QRinput_setVersion, if the version is larger than that of the input.
AtLeast(p, v) == [p EXCEPT !.version = IF v > @ THEN v ELSE @]

\* QRinput_mergeBitStream: the estimate.
LEMMA EstimateStep ==
  ASSUME NEW level \in 1..4, NEW p \in PartRecs(level), NEW v, v = QRinput_estimateVersion(p.list, p.level),
         NEW r, r = AtLeast(p, v)
  PROVE  /\ r \in PartRecs(level) /\ r.list = p.list /\ Passed(r, p.version) /\ Growing(r)
         /\ 1 <= p.version /\ EncAll(p.list, p.version) <= Cap(p.version, level) => Kept(r, p.version)
<1> DEFINE P == p.version
           list == p.list
           R == IF v > P THEN v ELSE P
<1>1. P \in Int /\ 0 <= P /\ P <= 40 /\ p.level = level /\ list \in Seq(Entries)
  BY PartIs, Zenon
<1>0. v = QRinput_estimateVersion(list, level)
  BY <1>1, Zenon
<1>2. v \in Int /\ (v = -1 \/ (1 <= v /\ v <= 40 /\ AllShort(list, v)))
  BY <1>0, <1>1, EstimateIs, Zenon
<1>3. R \in Int /\ 0 <= R /\ R <= 40 /\ R >= P /\ (R = P \/ R = v) /\ (v > P => R = v) /\ (~(v > P) => R = P) /\ R >= v
  <2> HIDE DEF P, list
  <2> QED BY <1>1, <1>2
<1>4. r = [p EXCEPT !.version = R]
  BY DEF AtLeast
<1> HIDE DEF R, list, P
<1>5. r \in PartRecs(level) /\ r.version = R /\ r.list = list /\ r.level = level
  <2>0. [p EXCEPT !.version = R] \in PartRecs(level) /\ [p EXCEPT !.version = R].version = R /\ [p EXCEPT !.version = R].list = p.list
    BY <1>3, PartVersion, Zenon
  <2>1. r \in PartRecs(level) /\ r.version = R /\ r.list = p.list
    BY <1>4, <2>0, Zenon
  <2> QED BY <2>1, PartIs, Zenon DEF list
<1>6. Passed(r, P)
  <2> SUFFICES ASSUME NEW w \in Int, 1 <= w, w <= 39, P <= w, w < R PROVE Ok(list, level, w)
    BY <1>5, Zenon DEF Passed
  <2>1. v > w
    BY <1>1, <1>2, <1>3
  <2>2. ~(v <= w)
    BY <1>2, <2>1
  <2> QED BY <1>0, <1>1, <2>2, EstimateLeast, Zenon
<1>7. Growing(r)
  <2>1. CASE v = -1
    <3>1. \A w \in Int : 1 <= w /\ w <= 39 => Ok(list, level, w)
      BY <1>0, <1>1, <2>1, EstimateLeast, Zenon
    <3> QED BY <1>5, <3>1, Zenon DEF Growing
  <2>2. CASE v # -1
    <3>1. Class(v) <= Class(R)
      BY <1>2, <1>3, ClassOrder
    <3>2. AllShort(list, R)
      BY <1>1, <1>2, <1>3, <2>2, <3>1, ListLarger, Zenon
    <3> QED BY <1>5, <3>2, Zenon DEF Growing
  <2> QED BY <2>1, <2>2
<1>8. ASSUME 1 <= P, EncAll(list, P) <= Cap(P, level) PROVE Kept(r, P)
  <2>1. CASE P = 40
    <3>1. R = P
      BY <1>3, <2>1
    <3> QED BY <1>5, <1>8, <3>1, Zenon DEF Kept
  <2>2. CASE P # 40 /\ Misjudged(list, P)
    BY <1>5, <1>8, <2>2, Zenon DEF Kept
  <2>3. CASE P # 40 /\ ~Misjudged(list, P)
    <3>1. P <= 39
      BY <1>1, <2>3
    <3>2. ~(EncAll(list, P) > Cap(P, level))
      <4>1. EncAll(list, P) \in Nat /\ Cap(P, level) \in Nat
        <5>1. EncAll(list, P) \in Nat
          BY <1>1, Terms, Zenon
        <5>2. Cap(P, level) \in Nat
          BY <1>1, <1>8, CapNat, Zenon
        <5> QED BY <5>1, <5>2
      <4> QED BY <1>8, <4>1
    <3>3. ~Ok(list, level, P)
      BY <2>3, <3>2, Zenon DEF Ok
    <3>4. v <= P
      BY <1>0, <1>1, <1>8, <3>1, <3>3, EstimateLeast, Zenon
    <3>5. R = P
      BY <1>1, <1>2, <1>3, <3>4
    <3> QED BY <1>5, <1>8, <3>5, Zenon DEF Kept
  <2> QED BY <2>1, <2>2, <2>3
<1> QED BY <1>5, <1>6, <1>7, <1>8, Zenon DEF P, list

\* The version the bits of a symbol call for.
Needed(p) == QRspec_getMinimumVersion((EncAll(p.list, p.version) + 7) \div 8, p.level)

\* QRinput_convertData, one round.
LEMMA ConvertStep ==
  ASSUME NEW level \in 1..4, NEW p \in PartRecs(level), NEW V \in Int, Passed(p, V), Growing(p),
         NEW v, v = Needed(p), ~(v < 0),
         NEW r, r = AtLeast(p, v)
  PROVE  /\ r \in PartRecs(level) /\ r.list = p.list /\ 1 <= r.version /\ Passed(r, V) /\ Growing(r)
         /\ 1 <= V /\ V <= 40 /\ Kept(p, V) => Kept(r, V)
<1> DEFINE P == p.version
           list == p.list
           R == IF v > P THEN v ELSE P
           bits == EncAll(list, P)
<1>1. P \in Int /\ 0 <= P /\ P <= 40 /\ p.level = level /\ list \in Seq(Entries)
  BY PartIs, Zenon
<1>2. bits \in Nat
  BY <1>1, Terms, Zenon
<1>0. v = QRspec_getMinimumVersion((bits + 7) \div 8, level)
  BY <1>1, Zenon DEF Needed
<1> HIDE DEF bits
<1>3. /\ v \in Int /\ (v = -1 \/ (1 <= v /\ v <= 40 /\ bits <= Cap(v, level)))
      /\ \A w \in Int : 1 <= w /\ w <= 40 /\ (v = -1 \/ w < v) => bits > Cap(w, level)
  BY <1>0, <1>2, MinVersion, Zenon
<1>4. r = [p EXCEPT !.version = R]
  BY DEF AtLeast
<1> HIDE DEF R, list, P
<1>5. v # -1 /\ 1 <= v /\ v <= 40
  BY <1>3
<1>6. R \in Int /\ 0 <= R /\ R <= 40 /\ R >= P /\ (v > P => R = v) /\ (~(v > P) => R = P)
  BY <1>1, <1>3, <1>5 DEF R
<1>7. r \in PartRecs(level) /\ r.version = R /\ r.list = list /\ r.level = level
  <2>0. [p EXCEPT !.version = R] \in PartRecs(level) /\ [p EXCEPT !.version = R].version = R /\ [p EXCEPT !.version = R].list = p.list
    BY <1>6, PartVersion, Zenon
  <2>1. r \in PartRecs(level) /\ r.version = R /\ r.list = p.list
    BY <1>4, <2>0, Zenon
  <2> QED BY <2>1, PartIs, Zenon DEF list
<1>8. \A w \in Int : 1 <= w /\ w <= 39 /\ V <= w /\ w < P => Ok(list, level, w)
  BY <1>1, Zenon DEF Passed, P, list
<1>9. \/ AllShort(list, P)
      \/ \A w \in Int : 1 <= w /\ w <= 39 /\ P <= w /\ Class(w) > Class(P) => Ok(list, level, w)
  BY <1>1, Zenon DEF Growing, P, list
<1>10. Passed(r, V)
  <2> SUFFICES ASSUME NEW w \in Int, 1 <= w, w <= 39, V <= w, w < R PROVE Ok(list, level, w)
    BY <1>7, Zenon DEF Passed
  <2>1. CASE w < P
    BY <1>8, <2>1, Zenon
  <2>2. CASE ~(w < P)
    <3>1. w < v /\ P <= w /\ w <= 40
      BY <1>1, <1>3, <1>6, <2>2
    <3>2. bits > Cap(w, level) /\ Cap(w, level) \in Nat
      BY <1>3, <3>1, CapNat, Zenon
    <3>3. Class(P) <= Class(w) /\ (Class(P) = Class(w) \/ Class(w) > Class(P))
      BY <1>1, <3>1 DEF Class
    <3>4. CASE AllShort(list, P)
      <4>1. bits <= EncAll(list, w)
        BY <1>1, <3>3, <3>4, ListLarger, Zenon DEF bits
      <4>2. EncAll(list, w) \in Nat
        BY <1>1, Terms, Zenon
      <4>3. EncAll(list, w) > Cap(w, level)
        BY <1>2, <3>2, <4>1, <4>2
      <4> QED BY <4>3 DEF Ok
    <3>5. CASE ~AllShort(list, P) /\ Class(w) > Class(P)
      BY <1>9, <3>1, <3>5, Zenon
    <3>6. CASE ~AllShort(list, P) /\ Class(P) = Class(w)
      <4>1. ~AllShort(list, w)
        <5>1. Class(w) <= Class(P)
          BY <1>1, <3>6 DEF Class
        <5> QED BY <1>1, <3>6, <5>1, ListLarger, Zenon
      <4>2. EncAll(list, w) > Cap(w, level)
        BY <1>1, <3>1, <4>1, ListLong, Zenon
      <4> QED BY <4>2 DEF Ok
    <3> QED BY <3>3, <3>4, <3>5, <3>6
  <2> QED BY <2>1, <2>2
<1>11. Growing(r)
  <2>1. Class(P) <= Class(R)
    BY <1>1, <1>6, ClassOrder
  <2>2. CASE AllShort(list, P)
    <3>1. AllShort(list, R)
      BY <1>1, <1>6, <2>1, <2>2, ListLarger, Zenon
    <3> QED BY <1>7, <3>1, Zenon DEF Growing
  <2>3. CASE \A w \in Int : 1 <= w /\ w <= 39 /\ P <= w /\ Class(w) > Class(P) => Ok(list, level, w)
    <3>1. ASSUME NEW w \in Int, 1 <= w, w <= 39, R <= w, Class(w) > Class(R) PROVE Ok(list, level, w)
      <4>1. P <= w /\ Class(w) > Class(P)
        BY <1>1, <1>6, <3>1 DEF Class
      <4> QED BY <2>3, <3>1, <4>1, Zenon
    <3> QED BY <1>7, <3>1, Zenon DEF Growing
  <2> QED BY <1>9, <2>2, <2>3
<1>12. ASSUME 1 <= V, V <= 40, Kept(p, V) PROVE Kept(r, V)
  <2>1. EncAll(list, V) <= Cap(V, level) /\ (P = V \/ Misjudged(list, V))
    BY <1>1, <1>12, Zenon DEF Kept, P, list
  <2>2. CASE Misjudged(list, V)
    BY <1>7, <2>1, <2>2, Zenon DEF Kept
  <2>3. CASE P = V
    <3>1. ~(bits > Cap(V, level))
      <4>1. Cap(V, level) \in Nat
        BY <1>12, CapNat, Zenon
      <4> QED BY <1>2, <2>1, <2>3, <4>1 DEF bits
    <3>2. ~(V < v)
      BY <1>3, <1>12, <3>1, Zenon
    <3>3. R = V
      BY <1>1, <1>3, <1>6, <2>3, <3>2
    <3> QED BY <1>7, <2>1, <3>3, Zenon DEF Kept
  <2> QED BY <2>1, <2>2, <2>3
<1>13. 1 <= R
  BY <1>1, <1>3, <1>5, <1>6
<1> QED BY <1>7, <1>10, <1>11, <1>12, <1>13, Zenon DEF list

-----------------------------------------------------------------------------
(* The inductive invariant.                                                *)

IsStructured(c) == c.api \in {"string_structured", "data_structured"}
Plain(c) == c.eci = -1 /\ c.mqr = FALSE
Encoding == {"merge", "convert", "pad", "bytes", "fill", "mask", "judge", "drawn"}

\* The request was accepted, and the input is about it.
Request(c, i) ==
  /\ c.version \in Int /\ 0 <= c.version /\ c.version <= 40 /\ c.level \in 1..4
  /\ IsStructured(c) => 1 <= c.version
  /\ i \in PartRecs(c.level) /\ i.version = c.version /\ i.list \in Seq(Chunks)
\* Nothing has been dealt out.
Untouched(ct, ps, pt) == ct = [cur |-> <<>>, rest |-> <<>>, bits |-> 0] /\ ps = <<>> /\ pt = 1
\* A symbol of a set as it is dealt out, with room for its header.
Dealt(c) == {p \in PartRecs(c.level) : /\ p.version = c.version /\ p.fnc1 = 0 /\ p.list \in Seq(Chunks)
                                       /\ EncAll(p.list, c.version) <= Cap(c.version, c.level) - 20}
Dealing(c, ct, ps, pt) ==
  /\ ct \in [cur : Seq(Chunks), rest : Seq(Chunks), bits : Nat]
  /\ ct.bits = EncAll(ct.cur, c.version) /\ ct.bits <= Cap(c.version, c.level) - 20
  /\ ps \in Seq(Dealt(c)) /\ pt = 1
\* A symbol whose turn is still to come.
Fresh(c) == {p \in PartRecs(c.level) : /\ p.version = c.version
                                       /\ IsStructured(c) => p.fnc1 = 0 /\ EncAll(p.list, c.version) <= Cap(c.version, c.level)}
InHand(c, st, ps, pt) ==
  /\ ps \in Seq(PartRecs(c.level)) /\ pt \in 1..Len(ps)
  /\ \A i \in 1..Len(ps) : i > pt => ps[i] \in Fresh(c)
  /\ st = "merge" => ps[pt] \in Fresh(c)
  /\ st \in {"convert", "pad", "bytes"} =>
       Passed(ps[pt], c.version) /\ (IsStructured(c) => Kept(ps[pt], c.version))
  /\ st = "convert" => Growing(ps[pt])
  /\ st = "pad" => 1 <= ps[pt].version
  /\ st = "bytes" => Fits(ps[pt], ps[pt].version)

PlainInv(c, st, td, i, ct, ps, pt) ==
  /\ st \notin {"called", "failed"} => Request(c, i)
  /\ st \in {"called", "split", "listed"} => Untouched(ct, ps, pt)
  /\ st = "called" => td = [s |-> <<>>, pos |-> 1]
  /\ st = "split" => td \in [s : Seq(Nat), pos : Nat] /\ td.pos \in 1..(Len(td.s) + 1)
  /\ st = "cut" => Dealing(c, ct, ps, pt)
  /\ st \in Encoding => InHand(c, st, ps, pt)
IInv ==
  /\ call \in Calls
  /\ stage = "cut" => IsStructured(call)
  /\ stage = "failed" => stream[1] # "shared"
  /\ Plain(call) => PlainInv(call, stage, todo, input, cut, parts, part)

\* What is assumed of a call; one for a set of symbols has no ECI and is no
\* Micro QR.
LEMMA CallIs ==
  ASSUME NEW c \in Calls
  PROVE  /\ c.text \in Seq(Nat) /\ c.version \in Int /\ c.level \in Int /\ c.eci \in Int /\ c.fnc1 \in Nat /\ c.mqr \in BOOLEAN
         /\ IsStructured(c) => Plain(c)
<1>1. /\ c.text \in Seq(Nat) /\ c.version \in Int /\ c.level \in Int /\ c.eci \in Int /\ c.fnc1 \in Nat
      /\ c.mqr \in BOOLEAN
      /\ c.api \in {"string_structured", "data_structured"} => c.eci = -1 /\ ~c.mqr
  BY CallsAssumption, Zenon
<1>2. ~c.mqr => c.mqr = FALSE
  BY <1>1, Zenon
<1> QED BY <1>1, <1>2, Zenon DEF IsStructured, Plain

\* A call that fails has nothing more to keep.
LEMMA FailKeeps ==
  ASSUME IInv, call' = call, stage' = "failed", NEW why, stream' = <<why>>, why # "shared"
  PROVE  IInv'
<1>1. call' \in Calls /\ stream'[1] = why
  BY DEF IInv
<1>2. /\ stage' # "cut" /\ stage' \notin {"called", "split", "listed"} /\ stage' # "called" /\ stage' # "split"
      /\ stage' \notin Encoding /\ stage' \in {"called", "failed"}
  BY DEF Encoding
<1>3. PlainInv(call', stage', todo', input', cut', parts', part')
  BY <1>2, Zenon DEF PlainInv
<1> QED BY <1>1, <1>2, <1>3, Zenon DEF IInv

\* How IInv is shown of a step that does not fail.
LEMMA StepKeeps ==
  ASSUME IInv, call' = call, stage' # "failed", stage' = "cut" => IsStructured(call),
         Plain(call) => PlainInv(call, stage', todo', input', cut', parts', part')
  PROVE  IInv'
BY Zenon DEF IInv

\* A call begins in IInv.
LEMMA Begins ==
  ASSUME QrInit
  PROVE  IInv
<1>1. call \in Calls /\ stage = "called" /\ todo = [s |-> <<>>, pos |-> 1]
      /\ cut = [cur |-> <<>>, rest |-> <<>>, bits |-> 0] /\ parts = <<>> /\ part = 1
  BY Zenon DEF QrInit, QrInputInit
<1>2. "called" # "cut" /\ "called" # "failed" /\ "called" # "split" /\ "called" \in {"called", "failed"} /\ "called" \notin Encoding
  BY DEF Encoding
<1>3. PlainInv(call, stage, todo, input, cut, parts, part)
  BY <1>1, <1>2, Zenon DEF PlainInv, Untouched
<1> QED BY <1>1, <1>2, <1>3, Zenon DEF IInv

\* The request is checked and the input made.
LEMMA BeginCallKeeps ==
  ASSUME IInv, BeginCall
  PROVE  IInv'
<1>1. call \in Calls /\ call' = call /\ stage = "called" /\ UNCHANGED <<cut, parts, part>>
  BY Zenon DEF IInv, BeginCall
<1>2. CASE ~Accepted(call)
  <2>1. stage' = "failed" /\ stream' = <<"EINVAL">>
    BY <1>2, Zenon DEF BeginCall, QrFail
  <2>2. "EINVAL" # "shared"
    OBVIOUS
  <2> QED BY <1>1, <2>1, <2>2, FailKeeps, Zenon
<1>3. CASE Accepted(call)
  <2> DEFINE text == IF call.cs THEN call.text ELSE dupAndToUpper(call.text, call.hint)
             string == call.api \in {"string", "string_structured"}
             list == IF string THEN <<>>
                     ELSE (IF call.eci = -1 THEN <<>> ELSE <<Entry("eci", LittleEndian(call.eci))>>) \o <<Entry("b8", call.text)>>
  <2>1. /\ stage' = IF string THEN "split" ELSE "listed"
        /\ todo' = [todo EXCEPT !.s = text]
        /\ input' = [version |-> call.version, level |-> call.level, mqr |-> call.mqr, fnc1 |-> call.fnc1, list |-> list]
    BY <1>3, Zenon DEF BeginCall
  <2> HIDE DEF string
  <2>2. stage' \in {"split", "listed"}
    BY <2>1, Zenon
  <2>3. stage' # "failed" /\ stage' # "cut" /\ stage' # "called" /\ stage' \notin Encoding
    BY <2>2 DEF Encoding
  <2>4. ASSUME Plain(call) PROVE PlainInv(call, stage', todo', input', cut', parts', part')
    <3>1. PlainInv(call, stage, todo, input, cut, parts, part)
      BY <2>4, Zenon DEF IInv
    <3>2. Untouched(cut, parts, part) /\ todo = [s |-> <<>>, pos |-> 1]
      BY <1>1, <3>1, Zenon DEF PlainInv
    <3>3. /\ call.text \in Seq(Nat) /\ call.version \in Int /\ call.level \in Int /\ call.fnc1 \in Nat
          /\ call.mqr = FALSE /\ call.eci = -1
      BY <1>1, <2>4, CallIs, Zenon DEF Plain
    <3>4. /\ call.version \in 0..QRSPEC_VERSION_MAX /\ call.level \in 1..4 /\ call.text # <<>>
          /\ (IsStructured(call) => call.version > 0)
      BY <1>3, SMT DEF Accepted, NewAccepts, Structured, IsStructured
    <3>5. 0 <= call.version /\ call.version <= 40 /\ (IsStructured(call) => 1 <= call.version)
      <4>1. \A x \in Int : (x \in 0..QRSPEC_VERSION_MAX => 0 <= x /\ x <= 40) /\ (x > 0 => 1 <= x)
        BY SMT DEF QRSPEC_VERSION_MAX
      <4> QED BY <3>3, <3>4, <4>1, Zenon
    <3>6. Entry("b8", call.text) \in Chunks
      <4>1. Len(call.text) > 0
        BY <3>3, <3>4, EmptySeq, LenProperties
      <4>2. QRinput_check("b8", call.text)
        BY <4>1 DEF QRinput_check
      <4>3. "b8" \in Splittable
        BY DEF Splittable
      <4> QED BY <3>3, <4>2, <4>3, CheckedChunk, Zenon
    <3>7. list \in Seq(Chunks)
      <4> DEFINE x == <<Entry("b8", call.text)>>
      <4>1. x \in Seq(Chunks) /\ <<>> \in Seq(Chunks)
        BY <3>6
      <4> HIDE DEF x
      <4>2. <<>> \o x \in Seq(Chunks)
        BY <4>1, ConcatProperties
      <4>3. list = <<>> \/ list = <<>> \o x
        BY <3>3, Zenon DEF x
      <4> HIDE DEF list
      <4> QED BY <4>1, <4>2, <4>3, Zenon
    <3> HIDE DEF list
    <3>8. Request(call, input')
      <4>1. list \in Seq(Entries)
        BY <3>7 DEF Chunks
      <4>2. call.version \in {v \in Int : 0 <= v /\ v <= 40}
        BY <3>3, <3>5
      <4>3. input' \in PartRecs(call.level) /\ input'.version = call.version /\ input'.list = list
        BY <2>1, <3>3, <4>1, <4>2 DEF PartRecs
      <4> QED BY <3>3, <3>4, <3>5, <3>7, <4>3, Zenon DEF Request
    <3>9. todo' \in [s : Seq(Nat), pos : Nat] /\ todo'.pos \in 1..(Len(todo'.s) + 1)
      <4>1. text \in Seq(Nat)
        BY <3>3, RaisedIs, Zenon
      <4> HIDE DEF text
      <4>2. todo' = [s |-> text, pos |-> 1]
        BY <2>1, <3>2
      <4> QED BY <4>1, <4>2, LenProperties
    <3>10. Untouched(cut', parts', part')
      BY <1>1, <3>2, Zenon DEF Untouched
    <3> QED BY <2>3, <3>8, <3>9, <3>10, Zenon DEF PlainInv
  <2> QED BY <1>1, <2>3, <2>4, StepKeeps, Zenon
<1> QED BY <1>2, <1>3

\* A chunk of the string is appended to the input.
LEMMA SplitStringKeeps ==
  ASSUME IInv, SplitString
  PROVE  IInv'
<1> DEFINE s == todo.s
           p == todo.pos
           e == Split_eat(s, p, input.version, call.hint)
           d == SubSeq(s, p, e[2] - 1)
<1>1. call \in Calls /\ call' = call /\ stage = "split" /\ UNCHANGED <<cut, parts, part>>
  BY Zenon DEF IInv, SplitString
<1>2. \/ At(s, p) = 0 /\ stage' = "listed" /\ UNCHANGED <<todo, input, stream>>
      \/ At(s, p) # 0 /\ ~QRinput_check(e[1], d) /\ QrFail("EINVAL")
      \/ /\ At(s, p) # 0 /\ QRinput_check(e[1], d) /\ UNCHANGED stage
         /\ input' = [input EXCEPT !.list = Append(@, Entry(e[1], d))] /\ todo' = [todo EXCEPT !.pos = e[2]]
  BY Zenon DEF SplitString
<1> HIDE DEF e, d
<1>3. ASSUME Plain(call)
      PROVE  /\ Request(call, input) /\ Untouched(cut, parts, part)
             /\ todo \in [s : Seq(Nat), pos : Nat] /\ p \in 1..(Len(s) + 1)
  <2>1. PlainInv(call, stage, todo, input, cut, parts, part)
    BY <1>3, Zenon DEF IInv
  <2>2. "split" \in {"called", "split", "listed"} /\ "split" \notin {"called", "failed"}
    OBVIOUS
  <2> QED BY <1>1, <2>1, <2>2, Zenon DEF PlainInv
<1>4. CASE At(s, p) = 0 /\ stage' = "listed" /\ UNCHANGED <<todo, input, stream>>
  <2>1. /\ stage' # "failed" /\ stage' # "cut" /\ stage' # "called" /\ stage' # "split" /\ stage' \notin Encoding
    BY <1>4 DEF Encoding
  <2>2. ASSUME Plain(call) PROVE PlainInv(call, stage', todo', input', cut', parts', part')
    <3>1. Request(call, input') /\ Untouched(cut', parts', part')
      BY <1>1, <1>3, <1>4, <2>2, Zenon
    <3> QED BY <2>1, <3>1, Zenon DEF PlainInv
  <2> QED BY <1>1, <2>1, <2>2, StepKeeps, Zenon
<1>5. CASE QrFail("EINVAL")
  <2>1. stage' = "failed" /\ stream' = <<"EINVAL">>
    BY <1>5, Zenon DEF QrFail
  <2>2. "EINVAL" # "shared"
    OBVIOUS
  <2> QED BY <1>1, <2>1, <2>2, FailKeeps, Zenon
<1>6. CASE /\ At(s, p) # 0 /\ QRinput_check(e[1], d) /\ UNCHANGED stage
           /\ input' = [input EXCEPT !.list = Append(@, Entry(e[1], d))] /\ todo' = [todo EXCEPT !.pos = e[2]]
  <2>1. stage' = "split" /\ stage' # "failed" /\ stage' # "cut" /\ stage' # "called" /\ stage' \notin Encoding
    BY <1>1, <1>6 DEF Encoding
  <2>2. ASSUME Plain(call) PROVE PlainInv(call, stage', todo', input', cut', parts', part')
    <3>1. /\ Request(call, input) /\ Untouched(cut', parts', part')
          /\ todo \in [s : Seq(Nat), pos : Nat] /\ p \in 1..(Len(s) + 1)
      BY <1>1, <1>3, <2>2, Zenon
    <3>2. s \in Seq(Nat) /\ p \in Nat /\ Len(s) \in Nat
      BY <3>1
    <3>3. p \in 1..Len(s)
      <4>1. ~(p > Len(s))
        BY <1>6 DEF At
      <4> HIDE DEF p, s
      <4> QED BY <3>1, <3>2, <4>1
    <3>4. e[1] \in Splittable /\ e[2] \in 1..(Len(s) + 1)
      BY <3>2, <3>3, EatIs, Zenon DEF e
    <3> HIDE DEF s, p
    <3>5. d \in Seq(Nat)
      <4> DEFINE x == e[2]
      <4>1. x \in 1..(Len(s) + 1)
        BY <3>4
      <4> HIDE DEF x
      <4>2. x - 1 \in Int /\ \A i \in p..(x - 1) : i \in 1..Len(s)
        BY <3>2, <3>3, <4>1
      <4>3. \A i \in p..(x - 1) : s[i] \in Nat
        BY <3>2, <4>2
      <4>4. SubSeq(s, p, x - 1) \in Seq(Nat)
        BY <3>2, <4>2, <4>3, SubSeqProperties
      <4> QED BY <4>4 DEF d, x
    <3>6. Entry(e[1], d) \in Chunks
      BY <1>6, <3>4, <3>5, CheckedChunk, Zenon
    <3>7. Request(call, input')
      <4> DEFINE l == Append(input.list, Entry(e[1], d))
      <4>1. input \in PartRecs(call.level) /\ input.list \in Seq(Chunks) /\ input.version = call.version
        BY <3>1, Zenon DEF Request
      <4>2. l \in Seq(Chunks)
        BY <3>6, <4>1
      <4>3. input' = [input EXCEPT !.list = l]
        BY <1>6, <4>1
      <4> HIDE DEF l
      <4>4. l \in Seq(Entries)
        BY <4>2 DEF Chunks
      <4>5. input' \in PartRecs(call.level) /\ input'.version = input.version /\ input'.list = l
        <5>1. [input EXCEPT !.list = l] \in PartRecs(call.level) /\ [input EXCEPT !.list = l].version = input.version
              /\ [input EXCEPT !.list = l].list = l
          BY <4>1, <4>4, PartList
        <5> QED BY <4>3, <5>1, Zenon
      <4> QED BY <3>1, <4>1, <4>2, <4>5, Zenon DEF Request
    <3>8. todo' \in [s : Seq(Nat), pos : Nat] /\ todo'.pos \in 1..(Len(todo'.s) + 1)
      <4> DEFINE x == e[2]
      <4>1. x \in Nat /\ x \in 1..(Len(s) + 1)
        BY <3>2, <3>4
      <4> HIDE DEF x
      <4>2. todo' = [todo EXCEPT !.pos = x]
        BY <1>6 DEF x
      <4>3. todo' \in [s : Seq(Nat), pos : Nat] /\ todo'.pos = x /\ todo'.s = s
        BY <3>1, <4>1, <4>2 DEF s
      <4> QED BY <4>1, <4>3
    <3> QED BY <2>1, <3>1, <3>7, <3>8, Zenon DEF PlainInv
  <2> QED BY <1>1, <2>1, <2>2, StepKeeps, Zenon
<1> QED BY <1>2, <1>4, <1>5, <1>6, Zenon

\* What IInv says of a call without ECI at each stage.
LEMMA AtStage ==
  ASSUME IInv, Plain(call)
  PROVE  /\ stage \in {"listed", "cut"} \cup Encoding => Request(call, input)
         /\ stage = "listed" => Untouched(cut, parts, part)
         /\ stage = "cut" => Dealing(call, cut, parts, part)
         /\ stage \in Encoding => InHand(call, stage, parts, part)
<1>1. PlainInv(call, stage, todo, input, cut, parts, part)
  BY Zenon DEF IInv
<1>2. stage \in {"listed", "cut"} \cup Encoding => stage \notin {"called", "failed"}
  BY DEF Encoding
<1>3. stage = "listed" => stage \in {"called", "split", "listed"}
  OBVIOUS
<1> QED BY <1>1, <1>2, <1>3, Zenon DEF PlainInv

\* PlainInv of the later stages.
LEMMA LaterStage ==
  ASSUME NEW c, NEW st, NEW td, NEW i, NEW ct, NEW ps, NEW pt, Request(c, i),
         \/ st = "cut" /\ Dealing(c, ct, ps, pt)
         \/ st \in Encoding /\ InHand(c, st, ps, pt)
         \/ st = "done"
  PROVE  PlainInv(c, st, td, i, ct, ps, pt)
<1>1. /\ st \in Encoding => st \notin {"called", "split", "listed", "cut"}
      /\ st = "cut" => st \notin Encoding \cup {"called", "split", "listed"}
      /\ st = "done" => st \notin Encoding \cup {"called", "split", "listed", "cut"}
  BY DEF Encoding
<1>2. st \notin {"called", "split", "listed"} /\ st # "called" /\ st # "split"
  BY <1>1
<1>3. st = "cut" => Dealing(c, ct, ps, pt)
  BY <1>1
<1>4. st \in Encoding => InHand(c, st, ps, pt)
  BY <1>1
<1> QED BY <1>2, <1>3, <1>4, Zenon DEF PlainInv

\* The list is complete: it is dealt out, or it is the list of the only symbol.
LEMMA ListedKeeps ==
  ASSUME IInv, Listed
  PROVE  IInv'
<1>1. call' = call /\ stage = "listed" /\ UNCHANGED <<todo, input, part>>
  BY Zenon DEF Listed
<1>2. \/ IsStructured(call) /\ stage' = "cut" /\ cut' = [cut EXCEPT !.rest = input.list] /\ UNCHANGED parts
      \/ ~IsStructured(call) /\ stage' = "merge" /\ parts' = <<input>> /\ UNCHANGED cut
  BY Zenon DEF Listed, Structured, IsStructured
<1>3. stage' # "failed" /\ (stage' = "cut" => IsStructured(call))
  BY <1>2
<1>4. ASSUME Plain(call) PROVE PlainInv(call, stage', todo', input', cut', parts', part')
  <2>1. Request(call, input) /\ Untouched(cut, parts, part)
    <3>1. stage \in {"listed", "cut"} \cup Encoding
      BY <1>1
    <3> QED BY <1>1, <1>4, <3>1, AtStage, Zenon
  <2>2. /\ call.version \in Int /\ 0 <= call.version /\ call.version <= 40 /\ call.level \in 1..4
        /\ input \in PartRecs(call.level) /\ input.version = call.version /\ input.list \in Seq(Chunks)
        /\ (IsStructured(call) => 1 <= call.version)
    BY <2>1, Zenon DEF Request
  <2>3. Request(call, input')
    BY <1>1, <2>1, Zenon
  <2>4. ASSUME IsStructured(call), stage' = "cut", cut' = [cut EXCEPT !.rest = input.list], UNCHANGED parts
        PROVE  Dealing(call, cut', parts', part')
    <3>1. cut' = [cur |-> <<>>, rest |-> input.list, bits |-> 0] /\ parts' = <<>> /\ part' = 1
      BY <1>1, <2>1, <2>4 DEF Untouched
    <3>2. EncAll(<<>>, call.version) = 0
      BY <2>2, ListOfNone, Zenon
    <3>3. Cap(call.version, call.level) \in Nat /\ Cap(call.version, call.level) >= 72
      BY <2>2, <2>4, CapNat, Zenon
    <3>4. cut' \in [cur : Seq(Chunks), rest : Seq(Chunks), bits : Nat] /\ cut'.cur = <<>> /\ cut'.bits = 0
      BY <2>2, <3>1
    <3>5. parts' \in Seq(Dealt(call))
      BY <3>1
    <3>6. 0 <= Cap(call.version, call.level) - 20
      BY <3>3
    <3> QED BY <3>1, <3>2, <3>4, <3>5, <3>6, Zenon DEF Dealing
  <2>5. ASSUME ~IsStructured(call), stage' = "merge", parts' = <<input>>
        PROVE  InHand(call, stage', parts', part')
    <3>1. part' = 1
      BY <1>1, <2>1 DEF Untouched
    <3>2. parts' \in Seq(PartRecs(call.level)) /\ Len(parts') = 1 /\ parts'[1] = input
      BY <2>2, <2>5
    <3>3. input \in Fresh(call)
      BY <2>2, <2>5, Zenon DEF Fresh
    <3>4. part' \in 1..Len(parts') /\ \A i \in 1..Len(parts') : ~(i > part')
      BY <3>1, <3>2
    <3>5. stage' \notin {"convert", "pad", "bytes"} /\ stage' # "convert" /\ stage' # "pad" /\ stage' # "bytes"
      BY <2>5
    <3> QED BY <3>1, <3>2, <3>3, <3>4, <3>5, Zenon DEF InHand
  <2>6. "merge" \in Encoding
    BY DEF Encoding
  <2> QED BY <1>2, <2>3, <2>4, <2>5, <2>6, LaterStage, Zenon
<1> QED BY <1>1, <1>3, <1>4, StepKeeps, Zenon

\* A part as it is dealt out.
LEMMA PartDealt ==
  ASSUME Request(call, input), NEW list \in Seq(Chunks), EncAll(list, call.version) <= Cap(call.version, call.level) - 20
  PROVE  Part(list) \in Dealt(call)
<1>1. input \in PartRecs(call.level) /\ input.version = call.version
  BY Zenon DEF Request
<1>2. list \in Seq(Entries)
  BY DEF Chunks
<1>3. Part(list) \in PartRecs(call.level) /\ Part(list).version = input.version /\ Part(list).list = list /\ Part(list).fnc1 = 0
  BY <1>1, <1>2 DEF Part, PartRecs
<1> QED BY <1>1, <1>3, Zenon DEF Dealt

\* A chunk goes into the symbol, a part of it, or none: what is dealt out leaves room
\* for the header, and an empty symbol takes the start of any chunk.
LEMMA CutStepKeeps ==
  ASSUME IInv, CutStep
  PROVE  IInv'
<1> DEFINE V == call.version
           L == call.level
           M == Cap(V, L) - 20
           e == Head(cut.rest)
           n == QRinput_lengthOfCode(e.mode, V, M - cut.bits)
           more == SubSeq(e.data, n + 1, Len(e.data))
           first == SubSeq(e.data, 1, n)
<1>1. call' = call /\ stage = "cut" /\ cut.rest # <<>> /\ UNCHANGED <<todo, input, part>>
  BY Zenon DEF CutStep
<1>2. IsStructured(call) /\ call \in Calls
  BY <1>1, Zenon DEF IInv
<1>3. Plain(call)
  BY <1>2, CallIs, Zenon
<1>4. Request(call, input) /\ Dealing(call, cut, parts, part)
  <2>1. stage \in {"listed", "cut"} \cup Encoding
    BY <1>1
  <2> QED BY <1>1, <1>3, <2>1, AtStage, Zenon
<1>5. /\ V \in Int /\ 1 <= V /\ V <= 40 /\ L \in 1..4 /\ input.version = V /\ input.level = L
      /\ input.list \in Seq(Chunks)
  <2>1. /\ V \in Int /\ 1 <= V /\ V <= 40 /\ L \in 1..4 /\ input.version = V /\ input \in PartRecs(L) /\ input.list \in Seq(Chunks)
    BY <1>2, <1>4, Zenon DEF Request
  <2> QED BY <2>1, PartIs, Zenon
<1>6. MaxBits = M
  <2>1. MaxBits = QRspec_getDataLength(V, L) * 8 - 20
    BY <1>5, Zenon DEF MaxBits, STRUCTURE_HEADER_SIZE
  <2>2. QRspec_getDataLength(V, L) \in Nat
    BY <1>5, CapNat, Zenon
  <2> QED BY <2>1, <2>2 DEF Cap
<1>7. /\ cut \in [cur : Seq(Chunks), rest : Seq(Chunks), bits : Nat] /\ cut.bits = EncAll(cut.cur, V) /\ cut.bits <= M
      /\ parts \in Seq(Dealt(call)) /\ part = 1
  BY <1>4, Zenon DEF Dealing
<1>8. M \in Nat /\ M >= 52
  <2>1. Cap(V, L) \in Nat /\ Cap(V, L) >= 72
    BY <1>5, CapNat, Zenon
  <2> HIDE DEF V, L
  <2> QED BY <2>1
<1>9. \/ /\ cut.bits + Est(e, V) <= M /\ UNCHANGED <<parts, stage>>
         /\ cut' = [cur |-> Append(cut.cur, e), rest |-> Tail(cut.rest), bits |-> cut.bits + Enc(e, V)]
      \/ /\ n > 0 /\ QRinput_check(e.mode, more) /\ UNCHANGED stage
         /\ parts' = Append(parts, Part(Append(cut.cur, Entry(e.mode, first))))
         /\ cut' = [cur |-> <<>>, bits |-> 0, rest |-> <<Entry(e.mode, more)>> \o Tail(cut.rest)]
      \/ /\ parts' = Append(parts, Part(cut.cur)) /\ UNCHANGED stage
         /\ cut' = [cut EXCEPT !.cur = <<>>, !.bits = 0]
      \/ /\ ~(cut.bits + Est(e, V) <= M) /\ ~(n = 0 /\ cut.cur # <<>>)
         /\ QrFail(IF n > 0 THEN "EINVAL" ELSE "shared")
  BY <1>5, <1>6, Zenon DEF CutStep, Est, Enc
<1>10. e \in Chunks /\ Tail(cut.rest) \in Seq(Chunks) /\ cut.cur \in Seq(Chunks) /\ cut.bits \in Nat /\ cut.rest \in Seq(Chunks)
  <2>1. cut.rest \in Seq(Chunks) /\ cut.cur \in Seq(Chunks) /\ cut.bits \in Nat
    BY <1>7
  <2>2. Head(cut.rest) \in Chunks /\ Tail(cut.rest) \in Seq(Chunks)
    BY <1>1, <2>1, HeadTailProperties
  <2> QED BY <2>1, <2>2
<1>11. e \in Entries /\ e.mode \in Splittable /\ cut.cur \in Seq(Entries)
  <2> HIDE DEF e
  <2> QED BY <1>10 DEF Chunks
<1>12. M - cut.bits \in Nat
  <2> HIDE DEF M
  <2> QED BY <1>7, <1>8, <1>10
<1>13. ASSUME stage' = "cut", Dealing(call, cut', parts', part') PROVE IInv'
  <2>1. stage' # "failed"
    BY <1>13
  <2>2. Request(call, input')
    BY <1>1, <1>4, Zenon
  <2>3. PlainInv(call, stage', todo', input', cut', parts', part')
    BY <1>13, <2>2, LaterStage, Zenon
  <2> QED BY <1>1, <1>2, <2>1, <2>3, StepKeeps, Zenon
<1> HIDE DEF V, L, M, e, n, more, first
<1>14. ASSUME cut' \in [cur : Seq(Chunks), rest : Seq(Chunks), bits : Nat], cut'.bits = EncAll(cut'.cur, V), cut'.bits <= M,
              parts' \in Seq(Dealt(call)), UNCHANGED stage
       PROVE  IInv'
  <2>1. Dealing(call, cut', parts', part')
    BY <1>1, <1>7, <1>14, Zenon DEF Dealing, V, L, M
  <2> QED BY <1>1, <1>13, <1>14, <2>1, Zenon
<1>15. ASSUME NEW list \in Seq(Chunks), EncAll(list, V) <= M PROVE Append(parts, Part(list)) \in Seq(Dealt(call))
  <2>1. Part(list) \in Dealt(call)
    BY <1>4, <1>15, PartDealt, Zenon DEF V, L, M
  <2> QED BY <1>7, <2>1
<1>16. EncAll(<<>>, V) = 0 /\ 0 <= M /\ <<>> \in Seq(Chunks)
  <2>1. EncAll(<<>>, V) = 0
    BY <1>5, ListOfNone, Zenon
  <2> QED BY <1>8, <2>1
<1>17. CASE /\ cut.bits + Est(e, V) <= M /\ UNCHANGED <<parts, stage>>
            /\ cut' = [cur |-> Append(cut.cur, e), rest |-> Tail(cut.rest), bits |-> cut.bits + Enc(e, V)]
  <2>1. Est(e, V) \in Nat /\ Enc(e, V) \in Nat
    BY <1>5, <1>11, EntryLen, Zenon
  <2>2. Est(e, V) <= Cap(V, L)
    <3>1. Cap(V, L) \in Nat
      BY <1>5, CapNat, Zenon
    <3> QED BY <1>10, <1>17, <2>1, <3>1 DEF M
  <2>3. Enc(e, V) <= Est(e, V)
    BY <1>5, <1>11, <2>2, EstimatedFits, Zenon
  <2> DEFINE a == Append(cut.cur, e)
             b == cut.bits + Enc(e, V)
  <2>4. a \in Seq(Chunks) /\ EncAll(a, V) = EncAll(cut.cur, V) + Enc(e, V)
    <3>1. a \in Seq(Chunks)
      BY <1>10
    <3>2. EncAll(a, V) = EncAll(cut.cur, V) + Enc(e, V)
      BY <1>5, <1>11, ListMore, Zenon
    <3> QED BY <3>1, <3>2
  <2>5. b \in Nat /\ b <= M
    BY <1>8, <1>10, <1>17, <2>1, <2>3
  <2> HIDE DEF a
  <2>6. b = EncAll(a, V)
    BY <1>7, <2>4
  <2> HIDE DEF b
  <2>7. cut' = [cur |-> a, rest |-> Tail(cut.rest), bits |-> b]
    BY <1>17 DEF a, b
  <2>8. cut' \in [cur : Seq(Chunks), rest : Seq(Chunks), bits : Nat] /\ cut'.cur = a /\ cut'.bits = b
    BY <1>10, <2>4, <2>5, <2>7
  <2>9. parts' \in Seq(Dealt(call)) /\ UNCHANGED stage
    BY <1>7, <1>17
  <2> QED BY <1>14, <2>5, <2>6, <2>8, <2>9, Zenon
<1>18. CASE /\ n > 0 /\ QRinput_check(e.mode, more) /\ UNCHANGED stage
            /\ parts' = Append(parts, Part(Append(cut.cur, Entry(e.mode, first))))
            /\ cut' = [cur |-> <<>>, bits |-> 0, rest |-> <<Entry(e.mode, more)>> \o Tail(cut.rest)]
  <2> DEFINE x == Entry(e.mode, first)
             y == Entry(e.mode, more)
             z == M - cut.bits
  <2>1. x \in Chunks /\ Enc(x, V) <= z /\ y \in Chunks
    <3>1. n = QRinput_lengthOfCode(e.mode, V, z)
      BY DEF n
    <3> HIDE DEF z
    <3>2. z \in Nat
      BY <1>12 DEF z
    <3> QED BY <1>5, <1>10, <1>18, <3>1, <3>2, CutChunk, Zenon DEF more, first
  <2> HIDE DEF x, y
  <2>2. x \in Entries
    BY <2>1 DEF Chunks
  <2>3. EncAll(Append(cut.cur, x), V) = EncAll(cut.cur, V) + Enc(x, V) /\ Enc(x, V) \in Nat
    <3>1. Enc(x, V) \in Nat
      BY <1>5, <2>2, EntryLen, Zenon
    <3>2. EncAll(Append(cut.cur, x), V) = EncAll(cut.cur, V) + Enc(x, V)
      BY <1>5, <1>11, <2>2, ListMore, Zenon
    <3> QED BY <3>1, <3>2
  <2>4. EncAll(Append(cut.cur, x), V) <= M
    BY <1>7, <1>8, <1>10, <2>1, <2>3
  <2>5. Append(cut.cur, x) \in Seq(Chunks)
    BY <1>10, <2>1
  <2>6. parts' \in Seq(Dealt(call))
    BY <1>15, <1>18, <2>4, <2>5, Zenon DEF x
  <2> DEFINE r == <<y>> \o Tail(cut.rest)
  <2>7. r \in Seq(Chunks)
    <3>1. <<y>> \in Seq(Chunks)
      BY <2>1
    <3> QED BY <1>10, <3>1, ConcatProperties
  <2> HIDE DEF r
  <2>8. cut' = [cur |-> <<>>, bits |-> 0, rest |-> r]
    BY <1>18 DEF r, y
  <2>9. cut' \in [cur : Seq(Chunks), rest : Seq(Chunks), bits : Nat] /\ cut'.cur = <<>> /\ cut'.bits = 0
    BY <2>7, <2>8
  <2> QED BY <1>14, <1>16, <1>18, <2>6, <2>9, Zenon
<1>19. CASE /\ parts' = Append(parts, Part(cut.cur)) /\ UNCHANGED stage
            /\ cut' = [cut EXCEPT !.cur = <<>>, !.bits = 0]
  <2>1. parts' \in Seq(Dealt(call))
    BY <1>7, <1>10, <1>15, <1>19, Zenon
  <2>2. cut' \in [cur : Seq(Chunks), rest : Seq(Chunks), bits : Nat] /\ cut'.cur = <<>> /\ cut'.bits = 0
    <3>1. cut \in [cur : Seq(Chunks), rest : Seq(Chunks), bits : Nat] /\ cut' = [cut EXCEPT !.cur = <<>>, !.bits = 0]
      BY <1>7, <1>19, Zenon
    <3>2. cut' = [cur |-> <<>>, rest |-> cut.rest, bits |-> 0]
      BY <3>1
    <3> QED BY <1>10, <3>2
  <2> QED BY <1>14, <1>16, <1>19, <2>1, <2>2, Zenon
<1>20. CASE /\ ~(cut.bits + Est(e, V) <= M) /\ ~(n = 0 /\ cut.cur # <<>>)
            /\ QrFail(IF n > 0 THEN "EINVAL" ELSE "shared")
  <2>1. n \in Nat /\ (M - cut.bits >= 52 => n > 0)
    BY <1>5, <1>11, <1>12, LengthOfCode, Zenon DEF n
  <2>2. n > 0
    <3> SUFFICES ASSUME ~(n > 0) PROVE FALSE
      OBVIOUS
    <3>1. n = 0
      BY <2>1
    <3>2. cut.cur = <<>>
      BY <1>20, <3>1, Zenon
    <3>3. cut.bits = 0
      BY <1>7, <1>16, <3>2, Zenon
    <3>4. M - cut.bits >= 52
      BY <1>8, <3>3
    <3> QED BY <2>1, <3>4, Zenon
  <2>3. stage' = "failed" /\ stream' = <<"EINVAL">>
    BY <1>20, <2>2, Zenon DEF QrFail
  <2>4. "EINVAL" # "shared"
    OBVIOUS
  <2> QED BY <1>1, <2>3, <2>4, FailKeeps, Zenon
<1> QED BY <1>9, <1>17, <1>18, <1>19, <1>20, Zenon

\* The last symbol of a set; the headers take the room that was left for them.
LEMMA CutEndKeeps ==
  ASSUME IInv, CutEnd
  PROVE  IInv'
<1> DEFINE V == call.version
           L == call.level
           all == Append(parts, Part(cut.cur))
           n == Len(all)
           header(i) == Entry("structure", <<n, i, QRinput_calcParity(input.list)>>)
<1>1. call' = call /\ stage = "cut" /\ UNCHANGED <<todo, input, cut, part>>
  BY Zenon DEF CutEnd
<1>2. IsStructured(call) /\ call \in Calls
  BY <1>1, Zenon DEF IInv
<1>3. Plain(call)
  BY <1>2, CallIs, Zenon
<1>4. Request(call, input) /\ Dealing(call, cut, parts, part)
  <2>1. stage \in {"listed", "cut"} \cup Encoding
    BY <1>1
  <2> QED BY <1>1, <1>3, <2>1, AtStage, Zenon
<1>5. V \in Int /\ 1 <= V /\ V <= 40 /\ L \in 1..4 /\ input.list \in Seq(Chunks)
  BY <1>2, <1>4, Zenon DEF Request
<1>6. /\ cut \in [cur : Seq(Chunks), rest : Seq(Chunks), bits : Nat] /\ EncAll(cut.cur, V) <= Cap(V, L) - 20
      /\ parts \in Seq(Dealt(call)) /\ part = 1
  BY <1>4, Zenon DEF Dealing
<1>7. cut.cur \in Seq(Chunks)
  BY <1>6
<1>8. Part(cut.cur) \in Dealt(call)
  BY <1>4, <1>6, <1>7, PartDealt, Zenon
<1>9. all \in Seq(Dealt(call)) /\ n \in Nat /\ n >= 1
  BY <1>6, <1>8
<1>10. \/ QrFail("ERANGE")
       \/ /\ stage' = "merge"
          /\ parts' = IF n = 1 THEN all ELSE [i \in 1..n |-> [all[i] EXCEPT !.list = <<header(i)>> \o @]]
  BY Zenon DEF CutEnd
<1> HIDE DEF V, L
<1>11. CASE QrFail("ERANGE")
  <2>1. stage' = "failed" /\ stream' = <<"ERANGE">>
    BY <1>11, Zenon DEF QrFail
  <2>2. "ERANGE" # "shared"
    OBVIOUS
  <2> QED BY <1>1, <2>1, <2>2, FailKeeps, Zenon
<1>12. CASE /\ stage' = "merge"
            /\ parts' = IF n = 1 THEN all ELSE [i \in 1..n |-> [all[i] EXCEPT !.list = <<header(i)>> \o @]]
  <2>1. Cap(V, L) \in Nat
    BY <1>5, CapNat, Zenon
  <2>2. ASSUME NEW p \in Dealt(call) PROVE /\ p \in PartRecs(call.level) /\ p.version = V /\ p.fnc1 = 0 /\ p.list \in Seq(Chunks)
                                           /\ p.list \in Seq(Entries) /\ EncAll(p.list, V) \in Nat /\ EncAll(p.list, V) <= Cap(V, L) - 20
    <3>1. p \in PartRecs(call.level) /\ p.version = V /\ p.fnc1 = 0 /\ p.list \in Seq(Chunks) /\ EncAll(p.list, V) <= Cap(V, L) - 20
      BY Zenon DEF Dealt, V, L
    <3>2. p.list \in Seq(Entries)
      BY <3>1 DEF Chunks
    <3>3. EncAll(p.list, V) \in Nat
      BY <1>5, <3>2, Terms, Zenon
    <3> QED BY <3>1, <3>2, <3>3
  <2>3. ASSUME NEW p \in Dealt(call) PROVE p \in Fresh(call)
    <3>1. EncAll(p.list, V) <= Cap(V, L)
      BY <2>1, <2>2
    <3> QED BY <2>2, <3>1, Zenon DEF Fresh, V, L
  <2>4. ASSUME NEW i \in 1..n, NEW p \in Dealt(call)
        PROVE  [p EXCEPT !.list = <<header(i)>> \o p.list] \in Fresh(call)
    <3> DEFINE h == header(i)
               l == <<h>> \o p.list
               r == [p EXCEPT !.list = l]
    <3>1. h \in Entries /\ h.mode = "structure" /\ h.mode \notin Splittable
      <4> DEFINE x == QRinput_calcParity(input.list)
                 t == <<n, i, x>>
      <4>1. x \in Nat
        <5>1. input.list \in Seq(Entries)
          BY <1>5 DEF Chunks
        <5> QED BY <5>1, ParityNat, Zenon
      <4> HIDE DEF x, n
      <4>2. i \in Nat
        BY <1>9
      <4>3. t \in Seq(Nat) /\ Len(t) = 3
        BY <1>9, <4>1, <4>2
      <4> HIDE DEF t
      <4>4. h = [mode |-> "structure", data |-> t]
        BY DEF Entry, t, x, n
      <4> HIDE DEF h
      <4>5. h.mode = "structure" /\ h.data = t
        BY <4>4
      <4>6. h \in [mode : Splittable \cup {"structure", "fnc1second"}, data : Seq(Nat)]
        BY <4>3, <4>4
      <4>7. "structure" # "kanji" /\ "structure" # "fnc1second" /\ "structure" \notin Splittable
        BY DEF Splittable
      <4>8. Len(h.data) > 0
        <5>1. Len(h.data) = 3
          BY <4>3, <4>5, Zenon
        <5> HIDE DEF h, t, x, n
        <5> QED BY <5>1
      <4> QED BY <4>5, <4>6, <4>7, <4>8, Zenon DEF Entries
    <3> HIDE DEF h
    <3>2. Enc(h, V) = 20
      <4>1. Enc(h, V) = HeaderBits(h.mode)
        BY <1>5, <3>1, HeaderLen, Zenon
      <4> QED BY <3>1, <4>1 DEF HeaderBits
    <3>3. l \in Seq(Entries) /\ EncAll(l, V) = EncAll(p.list, V) + Enc(h, V)
      BY <1>5, <2>2, <3>1, ListMore, Zenon
    <3> HIDE DEF l
    <3>4. EncAll(l, V) <= Cap(V, L)
      BY <2>1, <2>2, <3>2, <3>3
    <3>5. r \in PartRecs(call.level) /\ r.version = p.version /\ r.list = l /\ r.fnc1 = p.fnc1
      BY <2>2, <3>3, PartList
    <3> HIDE DEF r
    <3>6. r \in Fresh(call)
      BY <2>2, <3>4, <3>5, Zenon DEF Fresh, V, L
    <3> QED BY <3>6 DEF r, l, h
  <2> HIDE DEF header
  <2>5. \A i \in 1..n : all[i] \in Dealt(call) /\ all[i] \in Fresh(call)
    <3>1. \A i \in 1..n : all[i] \in Dealt(call)
      BY <1>9
    <3> QED BY <2>3, <3>1, Zenon
  <2> HIDE DEF all
  <2>6. Len(parts') = n /\ parts' \in Seq(Fresh(call))
    <3>1. CASE n = 1
      <4>1. parts' = all
        BY <1>12, <3>1
      <4> QED BY <1>9, <2>5, <4>1
    <3>2. CASE n # 1
      <4> DEFINE x(i) == [all[i] EXCEPT !.list = <<header(i)>> \o all[i].list]
      <4>1. ASSUME NEW i \in 1..n PROVE x(i) \in Fresh(call)
        BY <2>4, <2>5
      <4>2. parts' = [i \in 1..n |-> x(i)]
        BY <1>12, <3>2, Zenon
      <4> HIDE DEF x, n
      <4> QED BY <1>9, <4>1, <4>2
    <3> QED BY <3>1, <3>2
  <2> HIDE DEF n
  <2>7. parts' \in Seq(PartRecs(call.level)) /\ (\A i \in 1..n : parts'[i] \in Fresh(call)) /\ part' \in 1..Len(parts') /\ part' = 1
    <3>1. \A i \in 1..n : parts'[i] \in Fresh(call)
      BY <2>6
    <3>2. Fresh(call) \subseteq PartRecs(call.level)
      BY Zenon DEF Fresh
    <3>3. parts' \in Seq(PartRecs(call.level))
      BY <2>6, <3>2
    <3>4. part' = 1
      BY <1>1, <1>6
    <3> QED BY <1>9, <2>6, <3>1, <3>3, <3>4
  <2>8. InHand(call, stage', parts', part')
    <3>1. stage' \notin {"convert", "pad", "bytes"} /\ stage' # "convert" /\ stage' # "pad" /\ stage' # "bytes"
      BY <1>12
    <3> QED BY <2>6, <2>7, <3>1, Zenon DEF InHand
  <2>9. stage' # "failed" /\ stage' # "cut" /\ stage' \in Encoding
    BY <1>12 DEF Encoding
  <2>10. Request(call, input')
    BY <1>1, <1>4, Zenon
  <2>11. PlainInv(call, stage', todo', input', cut', parts', part')
    BY <2>8, <2>9, <2>10, LaterStage, Zenon
  <2> QED BY <1>1, <2>9, <2>11, StepKeeps, Zenon
<1> QED BY <1>10, <1>11, <1>12, Zenon

\* A step of the encoding that changes the part in hand and the stage.
LEMMA PartStep ==
  ASSUME IInv, stage \in Encoding, stage' \in {"convert", "pad", "bytes"}, call' = call, input' = input, part' = part,
         NEW r, parts' = [parts EXCEPT ![part] = r],
         Plain(call) => /\ r \in PartRecs(call.level) /\ Passed(r, call.version) /\ (IsStructured(call) => Kept(r, call.version))
                        /\ (stage' = "convert" => Growing(r)) /\ (stage' = "pad" => 1 <= r.version)
                        /\ (stage' = "bytes" => Fits(r, r.version))
  PROVE  IInv'
<1>1. stage' # "failed" /\ stage' # "cut" /\ stage' \in Encoding /\ stage' # "merge"
  BY DEF Encoding
<1>2. ASSUME Plain(call) PROVE PlainInv(call, stage', todo', input', cut', parts', part')
  <2>1. Request(call, input) /\ InHand(call, stage, parts, part)
    <3>1. stage \in {"listed", "cut"} \cup Encoding
      OBVIOUS
    <3> QED BY <1>2, <3>1, AtStage, Zenon
  <2>2. /\ parts \in Seq(PartRecs(call.level)) /\ part \in 1..Len(parts)
        /\ \A i \in 1..Len(parts) : i > part => parts[i] \in Fresh(call)
    BY <2>1, Zenon DEF InHand
  <2>3. r \in PartRecs(call.level)
    BY <1>2, Zenon
  <2>4. /\ parts' \in Seq(PartRecs(call.level)) /\ Len(parts') = Len(parts) /\ parts'[part] = r
        /\ \A i \in 1..Len(parts) : i > part => parts'[i] = parts[i]
    BY <2>2, <2>3
  <2>5. InHand(call, stage', parts', part')
    <3>1. part' \in 1..Len(parts') /\ parts'[part'] = r
      BY <2>2, <2>4, Zenon
    <3>2. \A i \in 1..Len(parts') : i > part' => parts'[i] \in Fresh(call)
      BY <2>2, <2>4, Zenon
    <3> QED BY <1>1, <1>2, <2>4, <3>1, <3>2, Zenon DEF InHand
  <2>6. Request(call, input')
    BY <2>1, Zenon
  <2> QED BY <1>1, <2>5, <2>6, LaterStage, Zenon
<1> QED BY <1>1, <1>2, StepKeeps, Zenon

\* The part in hand, if the call has no ECI.
LEMMA PartInHand ==
  ASSUME IInv, stage \in Encoding, Plain(call)
  PROVE  /\ call.version \in Int /\ call.version <= 40 /\ call.level \in 1..4 /\ (IsStructured(call) => 1 <= call.version)
         /\ InHand(call, stage, parts, part)
         /\ parts[part] \in PartRecs(call.level) /\ parts[part].mqr = FALSE /\ parts[part].level = call.level
         /\ \E S : parts \in [1..Len(parts) -> S] /\ part \in 1..Len(parts)
<1>1. stage \in {"listed", "cut"} \cup Encoding
  OBVIOUS
<1>2. Request(call, input) /\ InHand(call, stage, parts, part)
  BY <1>1, AtStage, Zenon
<1>3. parts \in Seq(PartRecs(call.level)) /\ part \in 1..Len(parts)
  BY <1>2, Zenon DEF InHand
<1>4. parts[part] \in PartRecs(call.level)
  BY <1>3
<1>5. parts[part].mqr = FALSE /\ parts[part].level = call.level
  BY <1>4, PartIs, Zenon
<1>6. parts \in [1..Len(parts) -> PartRecs(call.level)]
  BY <1>3, LenProperties
<1>7. call.version \in Int /\ call.version <= 40 /\ call.level \in 1..4 /\ (IsStructured(call) => 1 <= call.version)
  BY <1>2, Zenon DEF Request
<1> QED BY <1>2, <1>3, <1>4, <1>5, <1>6, <1>7, Zenon

\* The header of FNC1 in the second position.
LEMMA Fnc1Header ==
  ASSUME NEW level, NEW p \in PartRecs(level)
  PROVE  WithFnc1(p) \in PartRecs(level) /\ WithFnc1(p).version = p.version
<1> DEFINE d == <<p.fnc1>>
           h == Entry("fnc1second", d)
<1>1. p.fnc1 \in Nat /\ p.list \in Seq(Entries)
  BY PartIs, Zenon
<1>2. d \in Seq(Nat) /\ Len(d) = 1
  BY <1>1
<1> HIDE DEF d
<1>3. h = [mode |-> "fnc1second", data |-> d]
  BY Zenon DEF Entry
<1> HIDE DEF h
<1>4. h \in [mode : Splittable \cup {"structure", "fnc1second"}, data : Seq(Nat)] /\ h.mode = "fnc1second" /\ h.data = d
  BY <1>2, <1>3
<1>5. Len(h.data) = 1 /\ 1 > 0
  BY <1>2, <1>4
<1>6. "fnc1second" # "kanji"
  OBVIOUS
<1>7. h \in Entries
  BY <1>4, <1>5, <1>6, Zenon DEF Entries
<1> DEFINE l == <<h>> \o p.list
<1>8. l \in Seq(Entries)
  <2>1. 0 \in Int
    OBVIOUS
  <2> QED BY <1>1, <1>7, <2>1, ListMore, Zenon
<1>9. WithFnc1(p) = [p EXCEPT !.list = l]
  BY Zenon DEF WithFnc1, h, d
<1> HIDE DEF l
<1>10. [p EXCEPT !.list = l] \in PartRecs(level) /\ [p EXCEPT !.list = l].version = p.version
  BY <1>8, PartList, Zenon
<1> QED BY <1>9, <1>10, Zenon

\* The estimate sets the version.
LEMMA MergeKeeps ==
  ASSUME IInv, Merge
  PROVE  IInv'
<1> DEFINE p == parts[part]
           p2 == IF p.fnc1 > 1 THEN WithFnc1(p) ELSE p
           v == QRinput_estimateVersion(p2.list, p2.level)
           r == [p2 EXCEPT !.version = IF v > @ THEN v ELSE @]
<1>1. call' = call /\ stage = "merge" /\ UNCHANGED <<todo, input, cut, part>>
  BY Zenon DEF Merge
<1>2. \/ p.mqr /\ stage' = "pad"
      \/ QrFail("EINVAL")
      \/ stage' = "convert" /\ parts' = [parts EXCEPT ![part] = r]
  BY Zenon DEF Merge
<1>3. stage \in Encoding /\ "pad" # "failed" /\ "pad" # "cut" /\ "EINVAL" # "shared"
  BY <1>1 DEF Encoding
<1> HIDE DEF p2, v, r
<1>4. CASE p.mqr /\ stage' = "pad"
  <2>1. ~Plain(call)
    <3>1. ASSUME Plain(call) PROVE FALSE
      BY <1>3, <1>4, <3>1, PartInHand, Zenon
    <3> QED BY <3>1, Zenon
  <2> QED BY <1>1, <1>3, <1>4, <2>1, StepKeeps, Zenon
<1>5. CASE QrFail("EINVAL")
  <2>1. stage' = "failed" /\ stream' = <<"EINVAL">>
    BY <1>5, Zenon DEF QrFail
  <2> QED BY <1>1, <1>3, <2>1, FailKeeps, Zenon
<1>6. CASE stage' = "convert" /\ parts' = [parts EXCEPT ![part] = r]
  <2>1. stage' \in {"convert", "pad", "bytes"} /\ stage' # "pad" /\ stage' # "bytes"
    BY <1>6
  <2>2. ASSUME Plain(call)
        PROVE  /\ r \in PartRecs(call.level) /\ Passed(r, call.version) /\ (IsStructured(call) => Kept(r, call.version))
               /\ Growing(r)
    <3>1. /\ call.version \in Int /\ call.version <= 40 /\ call.level \in 1..4 /\ (IsStructured(call) => 1 <= call.version)
          /\ InHand(call, stage, parts, part) /\ p \in PartRecs(call.level)
      BY <1>3, <2>2, PartInHand, Zenon
    <3>2. p \in Fresh(call)
      BY <1>1, <3>1, Zenon DEF InHand
    <3>3. /\ p.version = call.version
          /\ IsStructured(call) => p.fnc1 = 0 /\ EncAll(p.list, call.version) <= Cap(call.version, call.level)
      BY <3>2, Zenon DEF Fresh
    <3>4. p2 \in PartRecs(call.level) /\ p2.version = call.version
      BY <3>1, <3>3, Fnc1Header, Zenon DEF p2
    <3>5. IsStructured(call) => p2 = p
      <4>1. ~(0 > 1)
        OBVIOUS
      <4> QED BY <3>3, <4>1, Zenon DEF p2
    <3>6. v = QRinput_estimateVersion(p2.list, p2.level)
      BY DEF v
    <3>7. r = AtLeast(p2, v)
      BY DEF r, AtLeast
    <3>8. /\ r \in PartRecs(call.level) /\ Passed(r, p2.version) /\ Growing(r)
          /\ 1 <= p2.version /\ EncAll(p2.list, p2.version) <= Cap(p2.version, call.level) => Kept(r, p2.version)
      BY <3>1, <3>4, <3>6, <3>7, EstimateStep, Zenon
    <3> QED BY <3>1, <3>3, <3>4, <3>5, <3>8, Zenon
  <2> QED BY <1>1, <1>3, <1>6, <2>1, <2>2, PartStep, Zenon
<1> QED BY <1>2, <1>4, <1>5, <1>6, Zenon

\* A round of the encoding raises the version, or ends.
LEMMA ConvertDataKeeps ==
  ASSUME IInv, ConvertData
  PROVE  IInv'
<1> DEFINE p == parts[part]
           bits == EncAll(p.list, p.version)
           v == QRspec_getMinimumVersion((bits + 7) \div 8, p.level)
           r == [p EXCEPT !.version = IF v > @ THEN v ELSE @]
<1>1. call' = call /\ stage = "convert" /\ UNCHANGED <<todo, input, cut, part>>
  BY Zenon DEF ConvertData
<1>2. \/ QrFail("ERANGE")
      \/ /\ ~(v < 0) /\ parts' = [parts EXCEPT ![part].version = IF v > @ THEN v ELSE @]
         /\ stage' = IF v > p.version THEN "convert" ELSE "pad"
  BY Zenon DEF ConvertData, EncAll
<1>3. stage \in Encoding /\ "ERANGE" # "shared"
  BY <1>1 DEF Encoding
<1> HIDE DEF v
<1>4. CASE QrFail("ERANGE")
  <2>1. stage' = "failed" /\ stream' = <<"ERANGE">>
    BY <1>4, Zenon DEF QrFail
  <2> QED BY <1>1, <1>3, <2>1, FailKeeps, Zenon
<1>5. CASE /\ ~(v < 0) /\ parts' = [parts EXCEPT ![part].version = IF v > @ THEN v ELSE @]
           /\ stage' = IF v > p.version THEN "convert" ELSE "pad"
  <2>1. stage' \in {"convert", "pad", "bytes"} /\ stage' # "bytes"
    <3>1. stage' = "convert" \/ stage' = "pad"
      BY <1>5, Zenon
    <3> QED BY <3>1
  <2>2. parts' = [parts EXCEPT ![part] = r]
    BY <1>5, Zenon
  <2>3. ASSUME Plain(call)
        PROVE  /\ r \in PartRecs(call.level) /\ Passed(r, call.version) /\ (IsStructured(call) => Kept(r, call.version))
               /\ Growing(r) /\ 1 <= r.version
    <3>1. /\ call.version \in Int /\ call.version <= 40 /\ call.level \in 1..4 /\ (IsStructured(call) => 1 <= call.version)
          /\ InHand(call, stage, parts, part) /\ p \in PartRecs(call.level)
      BY <1>3, <2>3, PartInHand, Zenon
    <3>2. stage \in {"convert", "pad", "bytes"}
      BY <1>1
    <3>3. Passed(p, call.version) /\ (IsStructured(call) => Kept(p, call.version)) /\ Growing(p)
      BY <1>1, <3>1, <3>2, Zenon DEF InHand
    <3>4. v = Needed(p)
      BY DEF v, Needed
    <3>5. r = AtLeast(p, v)
      BY DEF AtLeast
    <3> HIDE DEF r, p
    <3>6. /\ r \in PartRecs(call.level) /\ 1 <= r.version /\ Passed(r, call.version) /\ Growing(r)
          /\ 1 <= call.version /\ call.version <= 40 /\ Kept(p, call.version) => Kept(r, call.version)
      <4>1. p \in PartRecs(call.level) /\ call.version \in Int /\ call.level \in 1..4 /\ ~(v < 0)
        BY <1>5, <3>1, Zenon
      <4> QED BY <3>3, <3>4, <3>5, <4>1, ConvertStep, Zenon
    <3> QED BY <3>1, <3>3, <3>6, Zenon
  <2> HIDE DEF r
  <2> QED BY <1>1, <1>3, <2>1, <2>2, <2>3, PartStep, Zenon
<1> QED BY <1>2, <1>4, <1>5, Zenon

\* What is padded fits.
LEMMA PadKeeps ==
  ASSUME IInv, Pad
  PROVE  IInv'
<1> DEFINE p == parts[part]
<1>1. call' = call /\ stage = "pad" /\ UNCHANGED <<todo, input, cut, parts, part>>
  BY Zenon DEF Pad
<1>2. \/ QrFail("ERANGE")
      \/ /\ stage' = "bytes"
         /\ p.mqr = FALSE => ~(EncAll(p.list, p.version) > Cap(p.version, p.level))
  <2>1. p.mqr = FALSE => ~p.mqr
    OBVIOUS
  <2> QED BY <2>1, Zenon DEF Pad, EncAll, Cap
<1>3. stage \in Encoding /\ "ERANGE" # "shared"
  BY <1>1 DEF Encoding
<1>4. CASE QrFail("ERANGE")
  <2>1. stage' = "failed" /\ stream' = <<"ERANGE">>
    BY <1>4, Zenon DEF QrFail
  <2> QED BY <1>1, <1>3, <2>1, FailKeeps, Zenon
<1>5. CASE /\ stage' = "bytes"
           /\ p.mqr = FALSE => ~(EncAll(p.list, p.version) > Cap(p.version, p.level))
  <2>1. stage' # "failed" /\ stage' # "cut" /\ stage' \in {"convert", "pad", "bytes"} /\ stage' # "convert" /\ stage' # "pad"
    BY <1>5
  <2>2. CASE ~Plain(call)
    BY <1>1, <2>1, <2>2, StepKeeps, Zenon
  <2>3. CASE Plain(call)
    <3>1. /\ call.version \in Int /\ call.version <= 40 /\ call.level \in 1..4 /\ (IsStructured(call) => 1 <= call.version)
          /\ InHand(call, stage, parts, part) /\ p \in PartRecs(call.level) /\ p.mqr = FALSE /\ p.level = call.level
          /\ \E S : parts \in [1..Len(parts) -> S] /\ part \in 1..Len(parts)
      BY <1>3, <2>3, PartInHand, Zenon
    <3>2. stage \in {"convert", "pad", "bytes"}
      BY <1>1
    <3>3. Passed(p, call.version) /\ (IsStructured(call) => Kept(p, call.version)) /\ 1 <= p.version
      BY <1>1, <3>1, <3>2, Zenon DEF InHand
    <3>4. parts' = [parts EXCEPT ![part] = p]
      BY <1>1, <3>1, Zenon
    <3> HIDE DEF p
    <3>5. p.version \in Int /\ p.version <= 40 /\ p.list \in Seq(Entries)
      BY <3>1, PartIs, Zenon
    <3>6. EncAll(p.list, p.version) \in Nat
      BY <3>5, Terms, Zenon
    <3>7. Cap(p.version, p.level) \in Nat
      BY <3>1, <3>3, <3>5, CapNat, Zenon
    <3>8. EncAll(p.list, p.version) <= Cap(p.version, p.level)
      BY <1>5, <3>1, <3>6, <3>7
    <3>9. Fits(p, p.version)
      BY <3>8, Zenon DEF Fits, EncAll, Cap
    <3> QED BY <1>1, <1>3, <2>1, <3>1, <3>3, <3>4, <3>9, PartStep, Zenon
  <2> QED BY <2>2, <2>3
<1> QED BY <1>2, <1>4, <1>5, Zenon

-----------------------------------------------------------------------------
(* Drawing the symbol leaves its input alone.                              *)

\* A step that leaves the inputs alone.
LEMMA SymbolStep ==
  ASSUME IInv, UNCHANGED <<call, todo, input, cut, parts, part>>,
         stage \in {"bytes", "fill", "mask", "judge"}, stage' \in {"fill", "mask", "judge", "drawn"}
  PROVE  IInv'
<1>1. stage' # "failed" /\ stage' # "cut" /\ stage \in Encoding /\ stage' \in Encoding
  BY DEF Encoding
<1>2. /\ stage' # "merge" /\ stage' \notin {"convert", "pad", "bytes"} /\ stage' # "convert" /\ stage' # "pad" /\ stage' # "bytes"
  OBVIOUS
<1>3. ASSUME Plain(call) PROVE PlainInv(call, stage', todo', input', cut', parts', part')
  <2>1. stage \in {"listed", "cut"} \cup Encoding
    BY <1>1
  <2>2. Request(call, input) /\ InHand(call, stage, parts, part)
    BY <1>1, <1>3, <2>1, AtStage, Zenon
  <2>3. InHand(call, stage', parts', part')
    BY <1>2, <2>2, Zenon DEF InHand
  <2>4. Request(call, input')
    BY <2>2, Zenon
  <2> QED BY <1>1, <2>3, <2>4, LaterStage, Zenon
<1> QED BY <1>1, <1>3, StepKeeps, Zenon

\* The symbol is filled, masked and judged.
LEMMA DrawingKeeps ==
  ASSUME IInv, RawNew \/ FillCode \/ FillRemainder \/ MakeMask \/ JudgeMask \/ Drawn
  PROVE  IInv'
<1> USE DEF Fill
<1>1. UNCHANGED <<call, todo, input, cut, parts, part>>
  BY Zenon DEF RawNew, FillCode, FillRemainder, MakeMask, JudgeMask, Drawn
<1>2. stage = "bytes" \/ stage = "fill" \/ stage = "mask" \/ stage = "judge"
  BY Zenon DEF RawNew, FillCode, FillRemainder, MakeMask, JudgeMask, Drawn
<1>3. \/ QrFail("filler") \/ QrFail("no mask")
      \/ stage' = "fill" \/ stage' = "mask" \/ stage' = "judge" \/ stage' = "drawn"
  <2>1. CASE RawNew
    BY <2>1, Zenon DEF RawNew
  <2>2. CASE FillCode
    BY <2>2, Zenon DEF FillCode
  <2>3. CASE FillRemainder
    BY <2>3, Zenon DEF FillRemainder
  <2>4. CASE MakeMask
    BY <2>4, Zenon DEF MakeMask
  <2>5. CASE JudgeMask
    BY <2>5, Zenon DEF JudgeMask
  <2>6. CASE Drawn
    BY <2>6, Zenon DEF Drawn
  <2> QED BY <2>1, <2>2, <2>3, <2>4, <2>5, <2>6
<1>4. "filler" # "shared" /\ "no mask" # "shared"
  OBVIOUS
<1>5. ASSUME NEW why \in {"filler", "no mask"}, QrFail(why) PROVE IInv'
  <2>1. stage' = "failed" /\ stream' = <<why>> /\ why # "shared"
    BY <1>4, <1>5, Zenon DEF QrFail
  <2> QED BY <1>1, <2>1, FailKeeps, Zenon
<1>6. CASE stage' = "fill" \/ stage' = "mask" \/ stage' = "judge" \/ stage' = "drawn"
  <2>1. stage \in {"bytes", "fill", "mask", "judge"} /\ stage' \in {"fill", "mask", "judge", "drawn"}
    BY <1>2, <1>6
  <2> QED BY <1>1, <2>1, SymbolStep, Zenon
<1> QED BY <1>3, <1>5, <1>6, Zenon

\* The next symbol of the set has not been touched.
LEMMA NextPartKeeps ==
  ASSUME IInv, NextPart
  PROVE  IInv'
<1>1. UNCHANGED <<call, todo, input, cut, parts>> /\ (stage = "drawn" \/ stage = "bytes")
  BY Zenon DEF NextPart
<1>2. \/ part < Len(parts) /\ stage' = "merge" /\ part' = part + 1
      \/ stage' = "done" /\ part' = part
  BY Zenon DEF NextPart
<1>3. stage \in Encoding /\ stage \in {"listed", "cut"} \cup Encoding
  BY <1>1 DEF Encoding
<1>4. stage' # "failed" /\ stage' # "cut"
  BY <1>2
<1>5. ASSUME Plain(call) PROVE PlainInv(call, stage', todo', input', cut', parts', part')
  <2>1. Request(call, input) /\ InHand(call, stage, parts, part)
    BY <1>3, <1>5, AtStage, Zenon
  <2>2. Request(call, input')
    BY <1>1, <2>1, Zenon
  <2>3. CASE stage' = "done"
    BY <2>2, <2>3, LaterStage, Zenon
  <2>4. CASE part < Len(parts) /\ stage' = "merge" /\ part' = part + 1
    <3>1. /\ parts \in Seq(PartRecs(call.level)) /\ part \in 1..Len(parts)
          /\ \A i \in 1..Len(parts) : i > part => parts[i] \in Fresh(call)
      BY <2>1, Zenon DEF InHand
    <3>2. part' \in 1..Len(parts) /\ part' > part /\ \A i \in 1..Len(parts) : i > part' => i > part
      BY <2>4, <3>1
    <3>3. parts'[part'] \in Fresh(call) /\ \A i \in 1..Len(parts) : i > part' => parts'[i] \in Fresh(call)
      BY <1>1, <3>1, <3>2, Zenon
    <3>4. /\ stage' \notin {"convert", "pad", "bytes"} /\ stage' # "convert" /\ stage' # "pad" /\ stage' # "bytes"
      BY <2>4
    <3>5. InHand(call, stage', parts', part')
      BY <1>1, <3>1, <3>2, <3>3, <3>4, Zenon DEF InHand
    <3>6. stage' \in Encoding
      BY <2>4 DEF Encoding
    <3> QED BY <2>2, <3>5, <3>6, LaterStage, Zenon
  <2> QED BY <1>2, <2>3, <2>4
<1> QED BY <1>1, <1>4, <1>5, StepKeeps, Zenon

-----------------------------------------------------------------------------
\* The inductive invariant holds of every call of the library.
THEOREM Invariance == QrSpec => []IInv
<1>1. QrInit => IInv
  BY Begins, Zenon
<1>2. IInv /\ [QrNext]_qrVars => IInv'
  <2> SUFFICES ASSUME IInv, [QrNext]_qrVars PROVE IInv'
    OBVIOUS
  <2>1. CASE BeginCall
    BY <2>1, BeginCallKeeps, Zenon
  <2>2. CASE SplitString
    BY <2>2, SplitStringKeeps, Zenon
  <2>3. CASE Listed
    BY <2>3, ListedKeeps, Zenon
  <2>4. CASE CutStep
    BY <2>4, CutStepKeeps, Zenon
  <2>5. CASE CutEnd
    BY <2>5, CutEndKeeps, Zenon
  <2>6. CASE Merge
    BY <2>6, MergeKeeps, Zenon
  <2>7. CASE ConvertData
    BY <2>7, ConvertDataKeeps, Zenon
  <2>8. CASE Pad
    BY <2>8, PadKeeps, Zenon
  <2>9. CASE RawNew \/ FillCode \/ FillRemainder \/ MakeMask \/ JudgeMask \/ Drawn
    BY <2>9, DrawingKeeps, Zenon
  <2>10. CASE NextPart
    BY <2>10, NextPartKeeps, Zenon
  <2>11. CASE UNCHANGED qrVars
    <3>1. UNCHANGED <<call, stage, todo, input, cut, parts, part, stream>>
      BY <2>11, Zenon DEF qrVars, qrInputVars
    <3> QED BY <3>1, Zenon DEF IInv
  <2> QED BY <2>1, <2>2, <2>3, <2>4, <2>5, <2>6, <2>7, <2>8, <2>9, <2>10, <2>11, Zenon DEF QrNext, QrInputNext
<1> QED BY <1>1, <1>2, PTL DEF QrSpec

\* The version of every symbol of a call without ECI is the smallest, from the
\* requested one on, that has room for the text, unless the estimate passes it
\* over (QRinput_estimateVersion, QRinput_convertData).
THEOREM LeastVersion == QrSpec => []VersionLeast
<1>1. IInv => VersionLeast
  <2> SUFFICES ASSUME IInv, stage = "bytes", ~call.mqr, call.eci = -1,
                      NEW p, p = parts[part]
               PROVE  /\ Fits(p, p.version)
                      /\ \A v \in 1..(p.version - 1) : v >= call.version => ~Fits(p, v) \/ Misjudged(p.list, v)
    BY Zenon DEF VersionLeast
  <2>1. Plain(call)
    <3>1. call \in Calls
      BY Zenon DEF IInv
    <3>2. call.mqr \in BOOLEAN
      BY <3>1, CallIs, Zenon
    <3> QED BY <3>2, Zenon DEF Plain
  <2>2. stage \in Encoding /\ stage \in {"convert", "pad", "bytes"}
    BY DEF Encoding
  <2>3. /\ call.version \in Int /\ call.level \in 1..4 /\ InHand(call, stage, parts, part) /\ p \in PartRecs(call.level)
        /\ p.level = call.level
    BY <2>1, <2>2, PartInHand, Zenon
  <2>4. Passed(p, call.version) /\ Fits(p, p.version)
    BY <2>2, <2>3, Zenon DEF InHand
  <2>5. p.version \in Int /\ p.version <= 40 /\ p.list \in Seq(Entries)
    BY <2>3, PartIs, Zenon
  <2>6. ASSUME NEW v \in 1..(p.version - 1), v >= call.version PROVE ~Fits(p, v) \/ Misjudged(p.list, v)
    <3>1. v \in Int /\ 1 <= v /\ v <= 39 /\ v <= 40 /\ call.version <= v /\ v < p.version
      BY <2>3, <2>5, <2>6
    <3>2. Ok(p.list, p.level, v)
      BY <2>4, <3>1, Zenon DEF Passed
    <3>3. CASE Misjudged(p.list, v)
      BY <3>3
    <3>4. CASE EncAll(p.list, v) > Cap(v, p.level)
      <4>1. EncAll(p.list, v) \in Nat
        BY <2>5, <3>1, Terms, Zenon
      <4>2. Cap(v, p.level) \in Nat
        BY <2>3, <3>1, CapNat, Zenon
      <4>3. ~(EncAll(p.list, v) <= Cap(v, p.level))
        BY <3>4, <4>1, <4>2
      <4> QED BY <4>3, Zenon DEF Fits, EncAll, Cap
    <3> QED BY <3>2, <3>3, <3>4, Zenon DEF Ok
  <2> QED BY <2>4, <2>6, Zenon
<1> QED BY <1>1, Invariance, PTL

\* The symbols of a structured set keep the version that was asked for, unless
\* the estimate counts a header too many, and no chunk fails to start in an empty
\* symbol (QRinput_splitQRinputToStruct, QRinput_insertStructuredAppendHeaders).
THEOREM OneVersion == QrSpec => []PartsOneVersion
<1>1. IInv => PartsOneVersion
  <2> SUFFICES ASSUME IInv PROVE PartsOneVersion
    OBVIOUS
  <2>1. stage = "failed" => stream[1] # "shared"
    BY Zenon DEF IInv
  <2>2. ASSUME stage = "bytes", Structured
        PROVE  parts[part].version = call.version \/ Misjudged(parts[part].list, call.version)
    <3>1. call \in Calls /\ IsStructured(call)
      BY <2>2, Zenon DEF IInv, Structured, IsStructured
    <3>2. Plain(call)
      BY <3>1, CallIs, Zenon
    <3>3. stage \in Encoding /\ stage \in {"convert", "pad", "bytes"}
      BY <2>2 DEF Encoding
    <3>4. InHand(call, stage, parts, part)
      BY <3>2, <3>3, PartInHand, Zenon
    <3>5. Kept(parts[part], call.version)
      BY <3>1, <3>3, <3>4, Zenon DEF InHand
    <3> QED BY <3>5, Zenon DEF Kept
  <2> QED BY <2>1, <2>2, Zenon DEF PartsOneVersion
<1> QED BY <1>1, Invariance, PTL
=============================================================================
