----------------------------- MODULE FsckProofs -----------------------------
(***************************************************************************)
(* Proofs about the two parts of dosfsck that keep something between calls.*)
(* FsIo, for every size of the device, every list of changes and every way *)
(* in which they overlap: what io.c's fs_read patches together is what the *)
(* writers wrote. Lfn, for directories of any length and names of any      *)
(* number of slots, whatever the user answers: what lfn.c keeps in its     *)
(* variables from one directory entry to the next never costs a sound long *)
(* name.                                                                   *)
(***************************************************************************)
EXTENDS FsIo, Lfn, ListLemmas, TLAPS

-----------------------------------------------------------------------------
(* io.c: the inductive invariant.                                         *)

Change == {c \in Pos \X Seq(Nat) : c[1] + Len(c[2]) <= DevSize}

\* A change holds the byte at x, and this is what it says of it.
Covers(c, x) == x \in c[1]..(c[1] + Len(c[2]) - 1)
ByteOf(c, x) == c[2][x - c[1] + 1]

\* b is the byte at x of device d with the first k changes of cs applied: it
\* comes from the last one of them that holds x.
Seen(cs, k, x, d, b) ==
  \/ b = d[x] /\ \A j \in 1..k : ~Covers(cs[j], x)
  \/ \E m \in 1..k : /\ Covers(cs[m], x) /\ b = ByteOf(cs[m], x)
                     /\ \A j \in (m + 1)..k : ~Covers(cs[j], x)

FsIoTypeOK ==
  /\ device \in [Pos -> Nat] /\ view \in [Pos -> Nat]
  /\ changes \in Seq(Change)
  /\ did_change \in BOOLEAN /\ write_immed \in BOOLEAN /\ lost \in BOOLEAN
  /\ io \in {"open", "flush", "closed", "dead"} /\ written \in 0..MaxWrites

\* The changes still to be written turn the device into what readers see.
Replayed == \A x \in Pos : Seen(changes, Len(changes), x, device, view[x])

IoInv ==
  /\ FsIoTypeOK
  /\ (write_immed \/ io = "closed" => changes = <<>>)
  /\ (io # "dead" /\ ~lost => Replayed)

-----------------------------------------------------------------------------
(* Bytes and changes. *)

\* Writing to the device replaces the bytes of the change and no others.
LEMMA PokeByte ==
  ASSUME NEW d \in [Pos -> Nat], NEW c \in Change
  PROVE  /\ Poke(d, c[1], c[2]) \in [Pos -> Nat]
         /\ \A x \in Pos : Poke(d, c[1], c[2])[x] = IF Covers(c, x) THEN ByteOf(c, x) ELSE d[x]
<1>1. ASSUME NEW x \in Pos, Covers(c, x) PROVE ByteOf(c, x) \in Nat
  <2>1. c[1] \in Int /\ Len(c[2]) \in Nat /\ x \in Int
    BY FsIoAssumption DEF Change, Pos
  <2>2. x - c[1] + 1 \in 1..Len(c[2])
    BY <1>1, <2>1 DEF Covers
  <2> QED BY <2>2 DEF ByteOf, Change
<1> QED BY <1>1 DEF Poke, Covers, ByteOf

\* Only one byte is the one a list of changes says.
LEMMA SeenUnique ==
  ASSUME NEW cs \in Seq(Change), NEW k \in 0..Len(cs), NEW x \in Pos, NEW d, NEW a, NEW b,
         Seen(cs, k, x, d, a), Seen(cs, k, x, d, b)
  PROVE  a = b
<1>1. CASE a = d[x] /\ \A j \in 1..k : ~Covers(cs[j], x)
  BY <1>1 DEF Seen
<1>2. CASE \E m \in 1..k : /\ Covers(cs[m], x) /\ a = ByteOf(cs[m], x)
                           /\ \A j \in (m + 1)..k : ~Covers(cs[j], x)
  <2>1. PICK m \in 1..k : /\ Covers(cs[m], x) /\ a = ByteOf(cs[m], x)
                          /\ \A j \in (m + 1)..k : ~Covers(cs[j], x)
    BY <1>2
  <2>2. PICK n \in 1..k : /\ Covers(cs[n], x) /\ b = ByteOf(cs[n], x)
                          /\ \A j \in (n + 1)..k : ~Covers(cs[j], x)
    BY <2>1 DEF Seen
  <2>3. ~(m < n) /\ ~(n < m)
    BY <2>1, <2>2
  <2>4. m = n
    BY <2>3
  <2> QED BY <2>1, <2>2, <2>4
<1> QED BY <1>1, <1>2 DEF Seen

\* One change more, at the end of the list or of the part of it applied.
LEMMA SeenMore ==
  ASSUME NEW cs \in Seq(Change), NEW k \in Nat, k + 1 <= Len(cs), NEW x \in Pos,
         NEW d, NEW b, Seen(cs, k, x, d, b)
  PROVE  Seen(cs, k + 1, x, d, IF Covers(cs[k + 1], x) THEN ByteOf(cs[k + 1], x) ELSE b)
<1>1. CASE Covers(cs[k + 1], x)
  <2>1. k + 1 \in 1..(k + 1) /\ (k + 1 + 1)..(k + 1) = {}
    OBVIOUS
  <2> QED BY <1>1, <2>1 DEF Seen
<1>2. CASE ~Covers(cs[k + 1], x)
  <2>1. CASE b = d[x] /\ \A j \in 1..k : ~Covers(cs[j], x)
    <3>1. \A j \in 1..(k + 1) : j \in 1..k \/ j = k + 1
      OBVIOUS
    <3> QED BY <1>2, <2>1, <3>1 DEF Seen
  <2>2. CASE \E m \in 1..k : /\ Covers(cs[m], x) /\ b = ByteOf(cs[m], x)
                             /\ \A j \in (m + 1)..k : ~Covers(cs[j], x)
    <3>1. PICK m \in 1..k : /\ Covers(cs[m], x) /\ b = ByteOf(cs[m], x)
                            /\ \A j \in (m + 1)..k : ~Covers(cs[j], x)
      BY <2>2
    <3>2. m \in 1..(k + 1) /\ \A j \in (m + 1)..(k + 1) : j \in (m + 1)..k \/ j = k + 1
      OBVIOUS
    <3> QED BY <1>2, <3>1, <3>2 DEF Seen
  <2> QED BY <2>1, <2>2, <1>2 DEF Seen
<1> QED BY <1>1, <1>2

\* The changes applied so far do not depend on the ones appended later.
LEMMA SeenPrefix ==
  ASSUME NEW cs \in Seq(Change), NEW c \in Change, NEW x \in Pos, NEW d, NEW b,
         Seen(cs, Len(cs), x, d, b)
  PROVE  Seen(Append(cs, c), Len(cs), x, d, b)
<1>1. \A j \in 1..Len(cs) : Append(cs, c)[j] = cs[j]
  OBVIOUS
<1> HIDE DEF Change
<1> QED BY <1>1 DEF Seen

\* The first change goes to the device: the bytes to be seen stay the same.
LEMMA SeenFlush ==
  ASSUME NEW cs \in Seq(Change), cs # <<>>, NEW x \in Pos, NEW d \in [Pos -> Nat], NEW b,
         Seen(cs, Len(cs), x, d, b)
  PROVE  Seen(Tail(cs), Len(Tail(cs)), x, Poke(d, Head(cs)[1], Head(cs)[2]), b)
<1> DEFINE e == Poke(d, Head(cs)[1], Head(cs)[2])
           ts == Tail(cs)
<1>1. /\ Head(cs) = cs[1] /\ Head(cs) \in Change /\ Len(cs) \in Nat \ {0}
      /\ Len(ts) = Len(cs) - 1 /\ \A j \in 1..Len(ts) : ts[j] = cs[j + 1]
  OBVIOUS
<1>2. e[x] = IF Covers(cs[1], x) THEN ByteOf(cs[1], x) ELSE d[x]
  BY <1>1, PokeByte
<1> HIDE DEF e, ts
<1>3. CASE b = d[x] /\ \A j \in 1..Len(cs) : ~Covers(cs[j], x)
  <2>1. 1 \in 1..Len(cs) /\ \A j \in 1..Len(ts) : j + 1 \in 1..Len(cs)
    BY <1>1
  <2>2. b = e[x] /\ \A j \in 1..Len(ts) : ~Covers(ts[j], x)
    BY <1>1, <1>2, <1>3, <2>1
  <2> QED BY <2>2 DEF Seen, e, ts
<1>4. CASE \E m \in 1..Len(cs) : /\ Covers(cs[m], x) /\ b = ByteOf(cs[m], x)
                                 /\ \A j \in (m + 1)..Len(cs) : ~Covers(cs[j], x)
  <2>1. PICK m \in 1..Len(cs) : /\ Covers(cs[m], x) /\ b = ByteOf(cs[m], x)
                                /\ \A j \in (m + 1)..Len(cs) : ~Covers(cs[j], x)
    BY <1>4
  <2>2. CASE m = 1
    <3>1. \A j \in 1..Len(ts) : j + 1 \in (m + 1)..Len(cs)
      BY <1>1, <2>2
    <3>2. b = e[x] /\ \A j \in 1..Len(ts) : ~Covers(ts[j], x)
      BY <1>1, <1>2, <2>1, <2>2, <3>1
    <3> QED BY <3>2 DEF Seen, e, ts
  <2>3. CASE m # 1
    <3>1. m - 1 \in 1..Len(ts) /\ m - 1 + 1 = m
      BY <1>1, <2>3
    <3>2. ts[m - 1] = cs[m]
      BY <1>1, <3>1
    <3>3. ASSUME NEW j \in (m - 1 + 1)..Len(ts) PROVE ~Covers(ts[j], x)
      <4>1. j \in 1..Len(ts) /\ j + 1 \in (m + 1)..Len(cs)
        BY <1>1, <3>1
      <4> QED BY <1>1, <2>1, <4>1
    <3>4. Seen(ts, Len(ts), x, e, b)
      BY <2>1, <3>1, <3>2, <3>3 DEF Seen
    <3> QED BY <3>4 DEF e, ts
  <2> QED BY <2>2, <2>3
<1> QED BY <1>3, <1>4 DEF Seen

-----------------------------------------------------------------------------
(* fs_read. *)

\* One round of the loop of fs_read copies the bytes of the change that lie in
\* the buffer, wherever the change begins and ends.
LEMMA PatchByte ==
  ASSUME NEW at \in Pos, NEW size \in 1..(DevSize - at), NEW c \in Change,
         NEW buf \in [1..size -> Nat]
  PROVE  /\ Patch(buf, at, size, c) \in [1..size -> Nat]
         /\ \A i \in 1..size :
              Patch(buf, at, size, c)[i] =
                IF Covers(c, at + i - 1) THEN ByteOf(c, at + i - 1) ELSE buf[i]
<1> DEFINE w == c[1]
           n == Len(c[2])
<1>0. w \in Nat /\ n \in Nat /\ at \in Nat /\ size \in Nat /\ c[2] \in Seq(Nat)
  BY FsIoAssumption DEF Change, Pos
<1>1. \A i \in 1..n : c[2][i] \in Nat
  BY <1>0
<1>c. \A x \in Int : Covers(c, x) <=> w <= x /\ x <= w + n - 1
  BY <1>0 DEF Covers
<1>b. \A x : ByteOf(c, x) = c[2][x - w + 1]
  BY Zenon DEF ByteOf
<1> HIDE DEF w, n
<1>2. CASE ~(w < at + size /\ w + n > at)
  <2>1. Patch(buf, at, size, c) = buf
    BY <1>2 DEF Patch, w, n
  <2>2. ASSUME NEW i \in 1..size, NEW x, x = at + i - 1 PROVE ~Covers(c, x)
    BY <1>0, <1>2, <1>c, <2>2
  <2> QED BY <2>1, <2>2
<1>3. CASE w < at + size /\ w + n > at /\ w < at
  <2> DEFINE s == IF size < n - (at - w) THEN size ELSE n - (at - w)
  <2>1. Patch(buf, at, size, c)
          = [i \in 1..size |-> IF i <= s THEN c[2][i + (at - w)] ELSE buf[i]]
    BY <1>3 DEF Patch, w, n
  <2>2. ASSUME NEW i \in 1..size, NEW x, x = at + i - 1
        PROVE  /\ i <= s <=> Covers(c, x)
               /\ x - w + 1 = i + (at - w)
               /\ i <= s => i + (at - w) \in 1..n
    BY <1>0, <1>3, <1>c, <2>2
  <2> HIDE DEF s
  <2> DEFINE P == Patch(buf, at, size, c)
  <2>3. ASSUME NEW i \in 1..size, NEW x, x = at + i - 1
        PROVE  P[i] = (IF Covers(c, x) THEN ByteOf(c, x) ELSE buf[i]) /\ P[i] \in Nat
    <3>1. CASE Covers(c, x)
      <4>1. P[i] = c[2][i + (at - w)] /\ ByteOf(c, x) = c[2][i + (at - w)]
        BY <1>b, <2>1, <2>2, <2>3, <3>1
      <4> QED BY <1>1, <2>2, <2>3, <3>1, <4>1
    <3>2. CASE ~Covers(c, x)
      BY <2>1, <2>2, <2>3, <3>2
    <3> QED BY <3>1, <3>2
  <2>4. DOMAIN P = 1..size /\ P = [i \in DOMAIN P |-> P[i]]
    BY <2>1
  <2> QED BY <2>3, <2>4
<1>4. CASE w < at + size /\ w + n > at /\ ~(w < at)
  <2> DEFINE s == IF n < size + at - w THEN n ELSE size + at - w
  <2>1. Patch(buf, at, size, c)
          = [i \in 1..size |-> IF i \in (w - at + 1)..(w - at + s)
                               THEN c[2][i - (w - at)] ELSE buf[i]]
    BY <1>4 DEF Patch, w, n
  <2>2. ASSUME NEW i \in 1..size, NEW x, x = at + i - 1
        PROVE  /\ i \in (w - at + 1)..(w - at + s) <=> Covers(c, x)
               /\ x - w + 1 = i - (w - at)
               /\ i \in (w - at + 1)..(w - at + s) => i - (w - at) \in 1..n
    BY <1>0, <1>4, <1>c, <2>2
  <2> HIDE DEF s
  <2> DEFINE P == Patch(buf, at, size, c)
  <2>3. ASSUME NEW i \in 1..size, NEW x, x = at + i - 1
        PROVE  P[i] = (IF Covers(c, x) THEN ByteOf(c, x) ELSE buf[i]) /\ P[i] \in Nat
    <3>1. CASE Covers(c, x)
      <4>1. P[i] = c[2][i - (w - at)] /\ ByteOf(c, x) = c[2][i - (w - at)]
        BY <1>b, <2>1, <2>2, <2>3, <3>1
      <4> QED BY <1>1, <2>2, <2>3, <3>1, <4>1
    <3>2. CASE ~Covers(c, x)
      BY <2>1, <2>2, <2>3, <3>2
    <3> QED BY <3>1, <3>2
  <2>4. DOMAIN P = 1..size /\ P = [i \in DOMAIN P |-> P[i]]
    BY <2>1
  <2> QED BY <2>3, <2>4
<1> QED BY <1>2, <1>3, <1>4

\* Buffer b holds the bytes from at on of device d with all of cs applied.
SeenAll(cs, d, at, size, b) ==
  /\ b \in [1..size -> Nat]
  /\ \A i \in 1..size : Seen(cs, Len(cs), at + i - 1, d, b[i])

\* Every byte fs_read returns is the one of the last change that holds it, or
\* the one on the device.
LEMMA ReadByte ==
  ASSUME NEW cs \in Seq(Change), NEW d \in [Pos -> Nat], NEW at \in Pos,
         NEW size \in 1..(DevSize - at), NEW buf,
         buf = [i \in 1..size |-> d[at + i - 1]]
  PROVE  SeenAll(cs, d, at, size, PatchAll(buf, at, size, cs))
<1> DEFINE Buf == [1..size -> Nat]
           N == Len(cs)
           b == PatchAll(buf, at, size, cs)
           F == [u \in Nat \X Buf |-> IF u[1] \in 1..N THEN Patch(u[2], at, size, cs[u[1]])
                                       ELSE u[2]]
           after[k \in 0..N] == IF k = 0 THEN buf ELSE Patch(after[k - 1], at, size, cs[k])
<1>a. \A i \in 1..size : at + i - 1 \in Pos
  BY FsIoAssumption DEF Pos
<1>b. N \in Nat /\ \A k \in 1..N : cs[k] \in Change
  OBVIOUS
<1>c. buf \in Buf
  BY <1>a
<1>d. b = after[N]
  BY DEF PatchAll
<1> HIDE DEF N, b, after
<1>1. F \in [Nat \X Buf -> Buf]
  BY <1>b, PatchByte
<1> HIDE DEF F, Buf
<1>2. PICK g \in [0..N -> Buf] : g[0] = buf /\ \A k \in 1..N : g[k] = F[<<k, g[k - 1]>>]
  <2>1. N \in Nat
    BY <1>b
  <2>2. Loops(Buf, buf, F, N) # {}
    BY <1>1, <1>c, <2>1, LoopExists
  <2> QED BY <2>2 DEF Loops
<1>3. ASSUME NEW k \in 1..N PROVE g[k] = Patch(g[k - 1], at, size, cs[k])
  <2>1. k \in Nat /\ g[k - 1] \in Buf
    BY <1>b
  <2>2. F[<<k, g[k - 1]>>] = Patch(g[k - 1], at, size, cs[k])
    BY <2>1 DEF F
  <2> QED BY <1>2, <2>2
<1>4. g = [k \in 0..N |-> IF k = 0 THEN buf ELSE Patch(g[k - 1], at, size, cs[k])]
  <2>1. \A k \in 0..N : k = 0 \/ k \in 1..N
    BY <1>b
  <2> QED BY <1>2, <1>3, <2>1
<1>5. after = [k \in 0..N |-> IF k = 0 THEN buf ELSE Patch(after[k - 1], at, size, cs[k])]
  BY <1>4, Zenon DEF after
<1>6. after[0] = buf /\ \A k \in Nat : k + 1 <= N => after[k + 1] = Patch(after[k], at, size, cs[k + 1])
  <2>1. 0 \in 0..N
    BY <1>b
  <2>2. ASSUME NEW k \in Nat, NEW j, j = k + 1, j <= N
        PROVE  after[j] = Patch(after[k], at, size, cs[j])
    <3>1. j \in 0..N /\ j # 0 /\ j - 1 = k
      BY <1>b, <2>2
    <3>2. after[j] = Patch(after[j - 1], at, size, cs[j])
      BY <1>5, <3>1, Zenon
    <3> QED BY <3>1, <3>2, Zenon
  <2>3. after[0] = buf
    BY <1>5, <2>1, Zenon
  <2> QED BY <2>2, <2>3
<1> DEFINE S == {k \in Nat : k <= N => /\ after[k] \in Buf
                                       /\ \A i \in 1..size : Seen(cs, k, at + i - 1, d, after[k][i])}
<1>7. 0 \in S
  <2>1. ASSUME NEW i \in 1..size PROVE Seen(cs, 0, at + i - 1, d, buf[i])
    BY DEF Seen
  <2> QED BY <1>6, <1>c, <2>1
<1>8. ASSUME NEW k \in S PROVE k + 1 \in S
  <2>0. k \in Nat
    BY <1>8
  <2> SUFFICES ASSUME k + 1 <= N
               PROVE  /\ after[k + 1] \in Buf
                      /\ \A i \in 1..size : Seen(cs, k + 1, at + i - 1, d, after[k + 1][i])
    BY <2>0
  <2>1. after[k] \in Buf /\ \A i \in 1..size : Seen(cs, k, at + i - 1, d, after[k][i])
    BY <1>b, <1>8, <2>0
  <2>2. cs[k + 1] \in Change
    BY <1>b, <2>0
  <2>3. /\ after[k + 1] \in Buf
        /\ \A i \in 1..size :
             after[k + 1][i] = IF Covers(cs[k + 1], at + i - 1)
                               THEN ByteOf(cs[k + 1], at + i - 1) ELSE after[k][i]
    <3> DEFINE P == Patch(after[k], at, size, cs[k + 1])
    <3>1. after[k + 1] = P
      BY <1>6, <2>0
    <3>2. /\ P \in Buf
          /\ \A i \in 1..size : P[i] = IF Covers(cs[k + 1], at + i - 1)
                                      THEN ByteOf(cs[k + 1], at + i - 1) ELSE after[k][i]
      BY <2>1, <2>2, PatchByte, Zenon DEF Buf
    <3> HIDE DEF P
    <3> QED BY <3>1, <3>2, Zenon
  <2>4. ASSUME NEW i \in 1..size, NEW x, x = at + i - 1
        PROVE  Seen(cs, k + 1, x, d, after[k + 1][i])
    <3>1. Seen(cs, k + 1, x, d, IF Covers(cs[k + 1], x) THEN ByteOf(cs[k + 1], x)
                                ELSE after[k][i])
      BY <1>a, <2>0, <2>1, <2>4, SeenMore DEF N
    <3> QED BY <2>3, <2>4, <3>1
  <2> QED BY <2>3, <2>4
<1>9. N \in S
  <2>1. S \in SUBSET Nat
    OBVIOUS
  <2> HIDE DEF S
  <2> QED BY <1>7, <1>8, <1>b, <2>1, SetInduction
<1>10. after[N] \in Buf /\ \A i \in 1..size : Seen(cs, N, at + i - 1, d, after[N][i])
  BY <1>9, <1>b
<1> QED BY <1>10, <1>d, Zenon DEF N, Buf, SeenAll, b

-----------------------------------------------------------------------------
(* The theorems. *)

\* The device as it is found is what readers see.
LEMMA InitIoInv == FsIoInit => IoInv
<1> SUFFICES ASSUME FsIoInit PROVE IoInv
  OBVIOUS
<1>1. FsIoTypeOK
  <2>1. did_change \in BOOLEAN /\ write_immed \in BOOLEAN /\ lost \in BOOLEAN
    BY Zenon DEF FsIoInit
  <2>2. device \in [Pos -> Nat] /\ view \in [Pos -> Nat]
    BY DEF FsIoInit
  <2>3. changes \in Seq(Change) /\ io \in {"open", "flush", "closed", "dead"}
    BY DEF FsIoInit
  <2>4. written \in 0..MaxWrites
    BY FsIoAssumption DEF FsIoInit
  <2> QED BY <2>1, <2>2, <2>3, <2>4, Zenon DEF FsIoTypeOK
<1>2. Replayed
  BY DEF FsIoInit, Replayed, Seen
<1> QED BY <1>1, <1>2 DEF FsIoInit, IoInv

\* A write that reaches the device at once, one that is stopped half way and
\* one that is kept for later.
LEMMA WriteIoInv == ASSUME IoInv, fs_write PROVE IoInv'
<1> DEFINE
  Outcome(p, n, data) ==
    \/ /\ write_immed
       /\ did_change' = TRUE /\ device' = Poke(device, p, data)
       /\ view' = Poke(view, p, data) /\ UNCHANGED <<changes, io>>
    \/ /\ write_immed
       /\ did_change' = TRUE /\ io' = "dead"
       /\ \E k \in 0..(n - 1) : device' = Poke(device, p, SubSeq(data, 1, k))
       /\ UNCHANGED <<changes, view>>
    \/ /\ ~write_immed
       /\ changes' = Append(changes, <<p, data>>)
       /\ view' = Poke(view, p, data) /\ UNCHANGED <<device, did_change, io>>
<1>1. PICK p \in Pos : \E n \in 1..(DevSize - p) : Outcome(p, n, [i \in 1..n |-> written + 1])
  BY DEF fs_write
<1>2. PICK n \in 1..(DevSize - p) : Outcome(p, n, [i \in 1..n |-> written + 1])
  BY <1>1
<1> DEFINE data == [i \in 1..n |-> written + 1]
           c == <<p, data>>
<1>3. /\ io = "open" /\ written < MaxWrites /\ written' = written + 1
      /\ UNCHANGED <<write_immed, lost>>
  BY DEF fs_write
<1>4. FsIoTypeOK /\ (write_immed => changes = <<>>) /\ (~lost => Replayed)
  BY <1>3 DEF IoInv
<1>5. written' \in 0..MaxWrites
  BY <1>3, <1>4, FsIoAssumption DEF FsIoTypeOK
<1>6. p \in Nat /\ n \in Nat /\ p + n <= DevSize /\ data \in Seq(Nat) /\ Len(data) = n
  BY <1>4, FsIoAssumption DEF Pos, FsIoTypeOK
<1>7. c \in Change /\ c[1] = p /\ c[2] = data
  BY <1>6 DEF Change
<1>8. ASSUME NEW dv \in [Pos -> Nat]
      PROVE  /\ Poke(dv, p, data) \in [Pos -> Nat]
             /\ \A x \in Pos : Poke(dv, p, data)[x] = IF Covers(c, x) THEN ByteOf(c, x) ELSE dv[x]
  BY <1>7, PokeByte
<1>9. CASE /\ write_immed
           /\ did_change' = TRUE /\ device' = Poke(device, p, data)
           /\ view' = Poke(view, p, data) /\ UNCHANGED <<changes, io>>
  <2> HIDE DEF data, c
  <2>1. device' \in [Pos -> Nat] /\ view' \in [Pos -> Nat]
    BY <1>4, <1>8, <1>9 DEF FsIoTypeOK
  <2>2. FsIoTypeOK'
    BY <1>3, <1>4, <1>5, <1>9, <2>1 DEF FsIoTypeOK
  <2>3. ASSUME ~lost, NEW x \in Pos PROVE Seen(changes, Len(changes), x, device', view'[x])
    <3>1. changes = <<>> /\ Len(changes) = 0
      BY <1>4, <1>9
    <3>2. view[x] = device[x]
      BY <1>4, <2>3, <3>1 DEF Replayed, Seen
    <3>3. view'[x] = device'[x]
      BY <1>4, <1>8, <1>9, <3>2 DEF FsIoTypeOK
    <3> QED BY <3>1, <3>3 DEF Seen
  <2>4. ~lost' => Replayed'
    BY <1>3, <1>9, <2>3 DEF Replayed
  <2> QED BY <1>3, <1>4, <1>9, <2>2, <2>4 DEF IoInv
<1>10. CASE /\ write_immed
            /\ did_change' = TRUE /\ io' = "dead"
            /\ \E k \in 0..(n - 1) : device' = Poke(device, p, SubSeq(data, 1, k))
            /\ UNCHANGED <<changes, view>>
  <2>1. PICK k \in 0..(n - 1) : device' = Poke(device, p, SubSeq(data, 1, k))
    BY <1>10
  <2> DEFINE half == SubSeq(data, 1, k)
  <2>2. half \in Seq(Nat) /\ Len(half) = k
    BY <1>6
  <2> HIDE DEF data, c, half
  <2>3. <<p, half>> \in Change
    BY <1>6, <2>2, FsIoAssumption DEF Change
  <2>4. device' \in [Pos -> Nat]
    BY <1>4, <2>1, <2>3, PokeByte DEF FsIoTypeOK, half
  <2>5. FsIoTypeOK'
    BY <1>3, <1>4, <1>5, <1>10, <2>4 DEF FsIoTypeOK
  <2> QED BY <1>3, <1>4, <1>10, <2>5 DEF IoInv
<1>11. CASE /\ ~write_immed
            /\ changes' = Append(changes, c)
            /\ view' = Poke(view, p, data) /\ UNCHANGED <<device, did_change, io>>
  <2> HIDE DEF data, c
  <2>0. changes \in Seq(Change) /\ view \in [Pos -> Nat]
    BY <1>4 DEF FsIoTypeOK
  <2>1. /\ changes' \in Seq(Change) /\ Len(changes') = Len(changes) + 1
        /\ changes'[Len(changes) + 1] = c /\ Len(changes) \in Nat
    BY <1>7, <1>11, <2>0
  <2>2. FsIoTypeOK'
    BY <1>3, <1>4, <1>5, <1>8, <1>11, <2>1 DEF FsIoTypeOK
  <2>3. ASSUME ~lost, NEW x \in Pos PROVE Seen(changes', Len(changes'), x, device, view'[x])
    <3>1. Seen(changes', Len(changes), x, device, view[x])
      BY <1>4, <1>7, <1>11, <2>0, <2>3, SeenPrefix DEF Replayed
    <3>2. Seen(changes', Len(changes) + 1, x, device, IF Covers(c, x) THEN ByteOf(c, x) ELSE view[x])
      <4> DEFINE k == Len(changes)
      <4>1. k \in Nat /\ k + 1 <= Len(changes') /\ changes'[k + 1] = c
        BY <2>1
      <4>2. Seen(changes', k, x, device, view[x])
        BY <3>1
      <4> HIDE DEF k
      <4>3. Seen(changes', k + 1, x, device,
                 IF Covers(changes'[k + 1], x) THEN ByteOf(changes'[k + 1], x) ELSE view[x])
        BY <2>1, <4>1, <4>2, SeenMore
      <4> QED BY <4>1, <4>3 DEF k
    <3>3. view'[x] = IF Covers(c, x) THEN ByteOf(c, x) ELSE view[x]
      BY <1>8, <1>11, <2>0
    <3> QED BY <2>1, <3>2, <3>3
  <2>4. ~lost' => Replayed'
    BY <1>3, <1>11, <2>3 DEF Replayed
  <2> QED BY <1>3, <1>4, <1>11, <2>2, <2>4 DEF IoInv
<1> QED BY <1>2, <1>9, <1>10, <1>11

\* Closing: the flush begins, or the changes are dropped and with them what
\* readers saw of them.
LEMMA CloseIoInv == ASSUME IoInv, fs_close PROVE IoInv'
<1>1. CASE io' = "flush" /\ UNCHANGED <<changes, view>>
  BY <1>1 DEF fs_close, IoInv, FsIoTypeOK, Replayed
<1>2. CASE io' = "closed" /\ changes' = <<>> /\ view' = device
  <2>1. FsIoTypeOK'
    BY <1>2 DEF fs_close, IoInv, FsIoTypeOK
  <2>2. Replayed'
    BY <1>2 DEF fs_close, Replayed, Seen
  <2> QED BY <1>2, <2>1, <2>2 DEF IoInv
<1> QED BY <1>1, <1>2 DEF fs_close

\* One round of fs_flush: the oldest change goes to the device, or the program
\* has said that it did not.
LEMMA FlushIoInv == ASSUME IoInv, fs_flush PROVE IoInv'
<1> DEFINE c == Head(changes)
<1>1. /\ io = "flush" /\ changes # <<>> /\ changes' = Tail(changes)
      /\ UNCHANGED <<did_change, write_immed, io, written, view>>
  BY DEF fs_flush
<1>2. FsIoTypeOK /\ ~write_immed /\ (~lost => Replayed)
  BY <1>1 DEF IoInv
<1>3. changes \in Seq(Change) /\ c \in Change /\ changes' \in Seq(Change)
  BY <1>1, <1>2 DEF FsIoTypeOK
<1>4. CASE device' = Poke(device, c[1], c[2]) /\ UNCHANGED lost
  <2>1. device' \in [Pos -> Nat]
    BY <1>2, <1>3, <1>4, PokeByte DEF FsIoTypeOK
  <2>2. FsIoTypeOK'
    BY <1>1, <1>2, <1>3, <1>4, <2>1 DEF FsIoTypeOK
  <2>3. ASSUME ~lost, NEW x \in Pos PROVE Seen(changes', Len(changes'), x, device', view[x])
    <3>1. Seen(changes, Len(changes), x, device, view[x]) /\ device \in [Pos -> Nat]
      BY <1>2, <2>3 DEF Replayed, FsIoTypeOK
    <3>2. Seen(Tail(changes), Len(Tail(changes)), x, Poke(device, c[1], c[2]), view[x])
      BY <1>1, <1>3, <3>1, SeenFlush
    <3> QED BY <1>1, <1>4, <3>2
  <2>4. ~lost' => Replayed'
    BY <1>1, <1>4, <2>3 DEF Replayed
  <2> QED BY <1>1, <1>2, <2>2, <2>4 DEF IoInv
<1>5. CASE /\ \E k \in 0..(Len(c[2]) - 1) : device' = Poke(device, c[1], SubSeq(c[2], 1, k))
           /\ lost' = TRUE
  <2>1. PICK k \in 0..(Len(c[2]) - 1) : device' = Poke(device, c[1], SubSeq(c[2], 1, k))
    BY <1>5
  <2> DEFINE half == SubSeq(c[2], 1, k)
  <2>2. c[1] \in Pos /\ c[2] \in Seq(Nat) /\ c[1] + Len(c[2]) <= DevSize
    BY <1>3 DEF Change
  <2> HIDE DEF c
  <2>3. half \in Seq(Nat) /\ Len(half) = k
    BY <2>2
  <2> HIDE DEF half
  <2>4. <<c[1], half>> \in Change
    BY <2>2, <2>3, FsIoAssumption DEF Change, Pos
  <2>5. device' \in [Pos -> Nat]
    BY <1>2, <2>1, <2>4, PokeByte DEF FsIoTypeOK, half
  <2>6. FsIoTypeOK'
    BY <1>1, <1>2, <1>3, <1>5, <2>5 DEF FsIoTypeOK
  <2> QED BY <1>1, <1>2, <1>5, <2>6 DEF IoInv
<1> QED BY <1>4, <1>5 DEF fs_flush

\* The invariant of the cached device.
THEOREM IoInvariance == FsIoSpec => []IoInv
<1>1. ASSUME IoInv, FsIoNext PROVE IoInv'
  <2>1. ASSUME Closed PROVE IoInv'
    BY <1>1, <2>1 DEF Closed, IoInv, FsIoTypeOK, Replayed
  <2> QED BY <1>1, <2>1, WriteIoInv, CloseIoInv, FlushIoInv DEF FsIoNext
<1>2. ASSUME IoInv, UNCHANGED ioVars PROVE IoInv'
  BY <1>2 DEF ioVars, IoInv, FsIoTypeOK, Replayed
<1>3. IoInv /\ [FsIoNext]_ioVars => IoInv'
  BY <1>1, <1>2
<1> QED BY <1>3, InitIoInv, PTL DEF FsIoSpec

\* io.c: however reads, writes and pending changes overlap, a read returns the
\* bytes written last, and closing with a flush that succeeds leaves on the
\* device what the readers saw.
THEOREM WritesSeen == FsIoSpec => []ReadsSeeWrites
<1>1. IoInv => ReadsSeeWrites
  <2> SUFFICES ASSUME IoInv PROVE ReadsSeeWrites
    OBVIOUS
  <2>0. /\ device \in [Pos -> Nat] /\ view \in [Pos -> Nat] /\ changes \in Seq(Change)
        /\ (io # "dead" /\ ~lost => Replayed) /\ (io = "closed" => changes = <<>>)
    BY DEF IoInv, FsIoTypeOK
  <2>1. ASSUME io \in {"open", "closed"}, ~lost,
               NEW p \in Pos, NEW n \in 1..(DevSize - p)
        PROVE  fs_read(p, n) = [i \in 1..n |-> view[p + i - 1]]
    <3> DEFINE b == fs_read(p, n)
               buf == [i \in 1..n |-> device[p + i - 1]]
    <3>1. b = PatchAll(buf, p, n, changes)
      BY DEF fs_read
    <3>a. buf = [i \in 1..n |-> device[p + i - 1]]
      OBVIOUS
    <3> HIDE DEF b, buf
    <3>b. SeenAll(changes, device, p, n, PatchAll(buf, p, n, changes))
      BY <2>0, <3>a, ReadByte
    <3>2. b \in [1..n -> Nat] /\ \A i \in 1..n : Seen(changes, Len(changes), p + i - 1, device, b[i])
      BY <3>1, <3>b DEF SeenAll
    <3>3. ASSUME NEW i \in 1..n, NEW x, x = p + i - 1 PROVE b[i] = view[x]
      <4>1. x \in Pos
        BY <3>3, FsIoAssumption DEF Pos
      <4>2. Seen(changes, Len(changes), x, device, view[x])
        BY <2>0, <2>1, <4>1 DEF Replayed
      <4>3. Len(changes) \in 0..Len(changes)
        BY <2>0
      <4> QED BY <2>0, <3>2, <3>3, <4>1, <4>2, <4>3, SeenUnique
    <3>4. b = [i \in 1..n |-> view[p + i - 1]]
      BY <3>2, <3>3
    <3> QED BY <3>4 DEF b
  <2>2. ASSUME io = "closed", ~lost PROVE device = view
    <3>1. ASSUME NEW x \in Pos PROVE view[x] = device[x]
      BY <2>0, <2>2 DEF Replayed, Seen
    <3> QED BY <2>0, <3>1
  <2> QED BY <2>1, <2>2 DEF ReadsSeeWrites
<1> QED BY <1>1, IoInvariance, PTL

-----------------------------------------------------------------------------
(* lfn.c: the inductive invariant.                                        *)

CheckSum  == Sums \cup {0, 1}
IsSlot(e) ==
  /\ e = [kind |-> "lfn", start |-> e.start, num |-> e.num, sum |-> e.sum, junk |-> e.junk]
  /\ e.num \in Nat /\ e.sum \in CheckSum

\* The variables of lfn.c.
State == {l \in [slot : Int, sum : CheckSum, offs : Seq(Nat), uni : Seq(Int), end : Int] :
            -1 <= l.slot /\ l.slot <= Len(l.uni)}

\* The entries not yet read are as they were.
Unread == \A i \in DOMAIN old : pos <= i => entries[i] = old[i]

\* The slots collected so far stand in one run of slots, which ends here.
OneRun ==
  /\ lfn.slot = -1 => lfn.offs = <<>>
  /\ \A i \in ToSet(lfn.offs) :
       i \in 1..(pos - 1) /\ \A j \in i..(pos - 1) : old[j].kind = "lfn"

\* The user had the start bit of the name's first slot cleared.
Touched(a) == Field(entries[a]) # Field(old[a])

\* In the middle of a sound name lfn.c holds the pieces read so far.
Track(a, b) ==
  /\ lfn.slot = b - pos /\ lfn.sum = old[b].sum /\ Len(lfn.uni) = b - a
  /\ \A k \in (b - pos + 1)..(b - a) : lfn.uni[k] = b - k
  /\ lfn.end = b - a \/ Touched(a)
Tracked == \A a, b \in DOMAIN old : a < pos /\ pos <= b /\ Proper(old, a, b) => Track(a, b)

\* Behind a sound name its short entry has the name.
Named ==
  \A a, b \in DOMAIN old : b < pos /\ Proper(old, a, b) =>
    names[b] = [i \in 1..(b - a) |-> b - i] \/ Touched(a)

\* An automatic run has left the slots of all sound names alone.
Untouched ==
  ~interactive => \A a, b \in DOMAIN old : Proper(old, a, b) =>
    \A i \in a..b : Field(entries[i]) = Field(old[i])

Shape ==
  /\ old \in Seq(EntryTypes) /\ lfn \in State
  /\ entries = [i \in DOMAIN old |-> entries[i]] /\ names = [i \in DOMAIN old |-> names[i]]
  /\ pos \in 1..(Len(old) + 1) /\ (st = "done" => pos = Len(old) + 1)

Scanned == Shape /\ Unread /\ OneRun /\ Tracked /\ Named /\ Untouched

LfnInv ==
  /\ st \in {"fill", "scan", "done", "wild"}
  /\ st = "fill" => entries \in Seq(EntryTypes) /\ pos = 1 /\ lfn = Reset
  /\ st \in {"scan", "done"} => Scanned

-----------------------------------------------------------------------------
(* Entries and slots. *)

\* The kinds of entries a directory is made of.
LEMMA EntryKinds ==
  ASSUME NEW e \in EntryTypes
  PROVE  /\ e.kind \in {"free", "short", "lfn"}
         /\ e.kind = "lfn" => IsSlot(e) /\ e.num >= 1
<1>1. CASE e = Erased
  BY <1>1 DEF Erased
<1>2. CASE e \in [kind : {"short"}, sum : Sums]
  BY <1>2
<1>3. ASSUME NEW B, NEW N \in SUBSET Nat, NEW S \in SUBSET CheckSum, NEW J, 0 \notin N,
             e \in [kind : {"lfn"}, start : B, num : N, sum : S, junk : J]
      PROVE  e.kind = "lfn" /\ IsSlot(e) /\ e.num >= 1
  <2>1. e.kind = "lfn" /\ e.num \in N /\ e.sum \in S
    BY <1>3
  <2>2. e = [kind |-> "lfn", start |-> e.start, num |-> e.num, sum |-> e.sum, junk |-> e.junk]
    BY <1>3
  <2>3. e.num \in Nat /\ e.num # 0
    BY <1>3, <2>1
  <2> QED BY <2>1, <2>2, <2>3 DEF IsSlot
<1>4. CASE e \in [kind : {"lfn"}, start : BOOLEAN, num : 1..MaxSlot, sum : Sums, junk : {FALSE}]
  <2>1. 1..MaxSlot \in SUBSET Nat /\ 0 \notin 1..MaxSlot /\ Sums \in SUBSET CheckSum
    BY LfnAssumption DEF CheckSum
  <2> QED BY <1>3, <1>4, <2>1
<1>5. CASE e \in [kind : {"lfn"}, start : {TRUE}, num : {1}, sum : {1}, junk : {TRUE}]
  <2>1. {1} \in SUBSET Nat /\ 0 \notin {1} /\ {1} \in SUBSET CheckSum
    BY DEF CheckSum
  <2> QED BY <1>3, <1>5, <2>1
<1> QED BY <1>1, <1>2, <1>4, <1>5 DEF EntryTypes

\* A slot appended to the list of slots is one more of its members.
LEMMA ToSetAppend ==
  ASSUME NEW s \in Seq(Nat), NEW x \in Nat
  PROVE  ToSet(Append(s, x)) = ToSet(s) \cup {x}
<1>1. /\ DOMAIN Append(s, x) = 1..(Len(s) + 1) /\ DOMAIN s = 1..Len(s) /\ Len(s) \in Nat
      /\ Append(s, x)[Len(s) + 1] = x /\ \A i \in 1..Len(s) : Append(s, x)[i] = s[i]
  OBVIOUS
<1>2. \A i \in 1..(Len(s) + 1) : i \in 1..Len(s) \/ i = Len(s) + 1
  BY <1>1
<1>3. \A i \in 1..Len(s) : i \in 1..(Len(s) + 1)
  BY <1>1
<1>4. Len(s) + 1 \in 1..(Len(s) + 1)
  BY <1>1
<1> QED BY <1>1, <1>2, <1>3, <1>4 DEF ToSet

\* lfn_reset and the start of a name leave lfn.c in a state it can go on from.
LEMMA ResetBegin ==
  /\ \A l \in State : /\ lfn_reset(l) \in State /\ lfn_reset(l).slot = -1
                       /\ lfn_reset(l).offs = <<>>
  /\ \A e : IsSlot(e) => /\ Begin(e) \in State /\ Begin(e).slot = e.num /\ Begin(e).sum = e.sum
                        /\ Begin(e).offs = <<>> /\ Len(Begin(e).uni) = e.num /\ Begin(e).end = 0
<1>1. ASSUME NEW l \in State
      PROVE  lfn_reset(l) \in State /\ lfn_reset(l).slot = -1 /\ lfn_reset(l).offs = <<>>
  <2>1. lfn_reset(l) = [slot |-> -1, sum |-> l.sum, offs |-> <<>>, uni |-> <<>>, end |-> 0]
    BY DEF lfn_reset, Reset
  <2>2. l.sum \in CheckSum
    BY DEF State
  <2> QED BY <2>1, <2>2 DEF State
<1>2. ASSUME NEW e, IsSlot(e)
      PROVE  /\ Begin(e) \in State /\ Begin(e).slot = e.num /\ Begin(e).sum = e.sum
             /\ Begin(e).offs = <<>> /\ Len(Begin(e).uni) = e.num /\ Begin(e).end = 0
  <2>1. e.num \in Nat /\ e.sum \in CheckSum
    BY <1>2 DEF IsSlot
  <2>2. [i \in 1..e.num |-> 0] \in Seq(Int) /\ Len([i \in 1..e.num |-> 0]) = e.num
    BY <2>1
  <2> QED BY <2>1, <2>2 DEF Begin, State
<1> QED BY <1>1, <1>2

\* The end of lfn_add_slot: nothing if no name is in progress, else the piece is
\* one more of the name.
Stored(l, started) ==
  /\ lfn'.slot = l.slot - 1 /\ lfn'.sum = l.sum /\ lfn'.offs = Append(l.offs, pos)
  /\ Len(lfn'.uni) = Len(l.uni)
  /\ \A k \in 1..Len(l.uni) : lfn'.uni[k] = IF k = l.slot THEN pos ELSE l.uni[k]
  /\ lfn'.end = IF started THEN l.slot ELSE l.end

\* What Store does to the directory and to the variables of lfn.c, as long as it
\* does not write in front of the buffer.
LEMMA StoreEffect ==
  ASSUME NEW d, NEW D, d = [i \in D |-> d[i]], pos \in D, IsSlot(d[pos]), pos \in Nat,
         NEW l \in State, NEW zero \in BOOLEAN, Store(d, l, zero), st' # "wild"
  PROVE  /\ entries' = [i \in D |-> entries'[i]]
         /\ \A i \in D : i # pos => entries'[i] = d[i]
         /\ \A i \in D : Field(entries'[i]) = Field(d[i])
         /\ lfn' \in State /\ st' = st
         /\ \/ l.slot = -1 /\ lfn' = l
            \/ l.slot >= 1 /\ Stored(l, d[pos].start)
<1>1. entries' = [d EXCEPT ![pos].junk = IF zero THEN FALSE ELSE @]
  BY DEF Store
<1>2. /\ entries' = [i \in D |-> entries'[i]]
      /\ \A i \in D : i # pos => entries'[i] = d[i]
      /\ entries'[pos] = [d[pos] EXCEPT !.junk = IF zero THEN FALSE ELSE @]
  BY <1>1
<1>3. Field(entries'[pos]) = Field(d[pos])
  <2>1. /\ entries'[pos].kind = "lfn" /\ entries'[pos].start = d[pos].start
        /\ entries'[pos].num = d[pos].num /\ entries'[pos].sum = d[pos].sum
        /\ d[pos].kind = "lfn"
    BY <1>2 DEF IsSlot
  <2> QED BY <2>1 DEF Field
<1>4. \A i \in D : Field(entries'[i]) = Field(d[i])
  BY <1>2, <1>3
<1>5. l.slot # 0 /\ st' = st
  BY DEF Store
<1>6. l.slot \in Int /\ -1 <= l.slot /\ l.slot <= Len(l.uni)
  BY DEF State
<1>7. CASE l.slot = -1
  <2>1. lfn' = l
    BY <1>7 DEF Store
  <2> QED BY <1>2, <1>4, <1>5, <1>7, <2>1
<1>8. CASE l.slot >= 1
  <2> DEFINE s == d[pos].start
             o == Append(l.offs, pos)
             u == [l.uni EXCEPT ![l.slot] = pos]
             e == IF s THEN l.slot ELSE l.end
  <2>1. lfn' = [l EXCEPT !.slot = l.slot - 1, !.uni[l.slot] = pos, !.offs = Append(@, pos),
                         !.end = IF d[pos].start THEN l.slot ELSE @]
    BY <1>6, <1>8 DEF Store
  <2>2. /\ lfn'.slot = l.slot - 1 /\ lfn'.sum = l.sum /\ lfn'.offs = o /\ lfn'.uni = u
        /\ lfn'.end = e
        /\ lfn' \in [slot : {l.slot - 1}, sum : {l.sum}, offs : {o}, uni : {u}, end : {e}]
    BY <2>1 DEF State
  <2>3. l.offs \in Seq(Nat) /\ l.uni \in Seq(Int) /\ l.end \in Int /\ l.sum \in CheckSum
    BY DEF State
  <2>4. o \in Seq(Nat) /\ e \in Int
    BY <1>6, <2>3
  <2>5. /\ u \in Seq(Int) /\ Len(u) = Len(l.uni)
        /\ \A k \in 1..Len(l.uni) : u[k] = IF k = l.slot THEN pos ELSE l.uni[k]
    BY <1>6, <1>8, <2>3
  <2> HIDE DEF s, o, u, e
  <2>6. lfn' \in State
    BY <1>6, <1>8, <2>2, <2>3, <2>4, <2>5 DEF State
  <2>7. Stored(l, d[pos].start)
    BY <2>2, <2>5 DEF Stored, o, e, s
  <2> QED BY <1>2, <1>4, <1>5, <1>8, <2>6, <2>7
<1> QED BY <1>5, <1>6, <1>7, <1>8

-----------------------------------------------------------------------------
(* lfn_add_slot. *)

\* What it does with the variables of lfn.c: it begins a name, goes on with one,
\* or gives up.
Begun ==
  LET e == entries[pos] IN
  /\ lfn'.slot = e.num - 1 /\ lfn'.sum = e.sum /\ lfn'.offs = <<pos>>
  /\ Len(lfn'.uni) = e.num /\ lfn'.uni[e.num] = pos
  /\ lfn'.end = e.num \/ Field(entries'[pos]) # Field(e)
Continued ==
  /\ lfn.slot >= 1 /\ lfn'.slot = lfn.slot - 1 /\ lfn'.sum = lfn.sum
  /\ lfn'.offs = Append(lfn.offs, pos) /\ Len(lfn'.uni) = Len(lfn.uni)
  /\ \A k \in 1..Len(lfn.uni) : lfn'.uni[k] = IF k = lfn.slot THEN pos ELSE lfn.uni[k]
Dropped == lfn'.slot = -1 /\ lfn'.offs = <<>>

\* The slots it may change are the one at hand and those collected before it;
\* an automatic run changes none.
Reach ==
  /\ entries' = [i \in DOMAIN old |-> entries'[i]]
  /\ \A i \in DOMAIN old : i # pos /\ i \notin ToSet(lfn.offs) => entries'[i] = entries[i]
  /\ ~interactive => \A i \in DOMAIN old : Field(entries'[i]) = Field(entries[i])

Effect ==
  LET e == entries[pos] IN
  /\ Reach /\ lfn' \in State /\ st' = st
  /\ Begun \/ Continued \/ Dropped
  /\ e.start => Begun
  /\ ~e.start /\ lfn.slot # -1 /\ e.num = lfn.slot /\ e.sum = lfn.sum =>
       /\ Continued /\ lfn'.end = lfn.end
       /\ \A i \in DOMAIN old : Field(entries'[i]) = Field(entries[i])

\* Where lfn.c stands when it reads a slot.
LEMMA AtSlot ==
  ASSUME Scanned, st = "scan", pos <= Len(entries), entries[pos].kind = "lfn"
  PROVE  /\ pos \in DOMAIN old /\ pos \in Nat /\ entries[pos] = old[pos]
         /\ IsSlot(entries[pos]) /\ entries[pos].num >= 1 /\ pos \notin ToSet(lfn.offs)
<1>1. old \in Seq(EntryTypes) /\ pos \in 1..(Len(old) + 1) /\ DOMAIN entries = DOMAIN old
  BY DEF Scanned, Shape
<1>2. Len(entries) = Len(old)
  BY <1>1
<1>3. pos \in DOMAIN old /\ pos \in Nat
  BY <1>1, <1>2
<1>4. entries[pos] = old[pos]
  BY <1>3 DEF Scanned, Unread
<1>5. old[pos] \in EntryTypes
  BY <1>1, <1>3
<1>6. pos \notin ToSet(lfn.offs)
  BY <1>3 DEF Scanned, OneRun
<1> QED BY <1>3, <1>4, <1>5, <1>6, EntryKinds

\* A name begins with the slot at hand.
LEMMA BeginEffect ==
  ASSUME Scanned, pos \in DOMAIN old, pos \in Nat, IsSlot(entries[pos]), entries[pos].num >= 1,
         NEW d, d = [i \in DOMAIN old |-> d[i]], IsSlot(d[pos]), NEW zero \in BOOLEAN,
         Store(d, Begin(entries[pos]), zero), st' # "wild",
         \A i \in DOMAIN old : i # pos /\ i \notin ToSet(lfn.offs) => d[i] = entries[i],
         ~interactive => d = entries,
         d[pos].start \/ Field(d[pos]) # Field(entries[pos])
  PROVE  Reach /\ lfn' \in State /\ st' = st /\ Begun
<1> DEFINE l == Begin(entries[pos])
<1>1. /\ l \in State /\ l.slot = entries[pos].num /\ l.sum = entries[pos].sum /\ l.offs = <<>>
      /\ Len(l.uni) = entries[pos].num /\ l.slot \in Nat
  BY ResetBegin DEF IsSlot
<1> HIDE DEF l
<1>2. /\ entries' = [i \in DOMAIN old |-> entries'[i]]
      /\ \A i \in DOMAIN old : i # pos => entries'[i] = d[i]
      /\ \A i \in DOMAIN old : Field(entries'[i]) = Field(d[i])
      /\ lfn' \in State /\ st' = st /\ Stored(l, d[pos].start)
  <2>1. Store(d, l, zero)
    BY DEF l
  <2> QED BY <1>1, <2>1, StoreEffect
<1>3. Reach
  BY <1>2 DEF Reach
<1>4. Begun
  <2>1. lfn'.offs = <<pos>> /\ lfn'.uni[l.slot] = pos
    BY <1>1, <1>2 DEF Stored
  <2>2. lfn'.end = l.slot \/ Field(entries'[pos]) # Field(entries[pos])
    BY <1>2 DEF Stored
  <2> QED BY <1>1, <1>2, <2>1, <2>2 DEF Begun, Stored
<1> QED BY <1>2, <1>3, <1>4

\* The slot at hand goes on with what lfn.c is collecting, if anything.
LEMMA ChecksumEffect ==
  ASSUME Scanned, pos \in DOMAIN old, pos \in Nat, IsSlot(entries[pos]),
         NEW d, d = [i \in DOMAIN old |-> d[i]], IsSlot(d[pos]), NEW zero \in BOOLEAN,
         \A i \in DOMAIN old : i # pos => d[i] = entries[i],
         ~interactive => d = entries,
         Checksum(d, lfn, zero), st' # "wild"
  PROVE  /\ Reach /\ lfn' \in State /\ st' = st
         /\ Continued \/ Dropped
         /\ d = entries /\ ~d[pos].start /\ lfn.slot # -1 /\ d[pos].sum = lfn.sum =>
              /\ Continued /\ lfn'.end = lfn.end
              /\ \A i \in DOMAIN old : Field(entries'[i]) = Field(entries[i])
<1>0. lfn \in State /\ (lfn.slot = -1 => lfn.offs = <<>>) /\ lfn.offs \in Seq(Nat)
  BY DEF Scanned, Shape, OneRun, State
<1>1. ASSUME NEW f, f = [i \in DOMAIN old |-> f[i]], IsSlot(f[pos]),
             \A i \in DOMAIN old : i # pos => f[i] = entries[i],
             ~interactive => f = entries, Store(f, lfn, zero)
      PROVE  /\ Reach /\ lfn' \in State /\ st' = st /\ (Continued \/ Dropped)
             /\ lfn.slot # -1 => Continued
             /\ lfn.slot # -1 /\ ~f[pos].start => lfn'.end = lfn.end
             /\ f = entries => \A i \in DOMAIN old : Field(entries'[i]) = Field(entries[i])
  <2>1. /\ entries' = [i \in DOMAIN old |-> entries'[i]]
        /\ \A i \in DOMAIN old : i # pos => entries'[i] = f[i]
        /\ \A i \in DOMAIN old : Field(entries'[i]) = Field(f[i])
        /\ lfn' \in State /\ st' = st
        /\ \/ lfn.slot = -1 /\ lfn' = lfn
           \/ lfn.slot >= 1 /\ Stored(lfn, f[pos].start)
    BY <1>0, <1>1, StoreEffect
  <2>2. Reach
    BY <1>1, <2>1 DEF Reach
  <2>3. lfn.slot >= 1 /\ Stored(lfn, f[pos].start) => Continued
    BY DEF Stored, Continued
  <2>4. lfn.slot >= 1 /\ Stored(lfn, f[pos].start) /\ ~f[pos].start => lfn'.end = lfn.end
    BY DEF Stored
  <2>5. lfn.slot = -1 /\ lfn' = lfn => Dropped
    BY <1>0 DEF Dropped
  <2> QED BY <2>1, <2>2, <2>3, <2>4, <2>5
<1>2. CASE d[pos].sum = lfn.sum /\ Store(d, lfn, zero)
  BY <1>1, <1>2
<1>3. CASE d[pos].sum # lfn.sum /\ Store(d, lfn, zero)
  BY <1>1, <1>3
<1>4. CASE interactive /\ d[pos].sum # lfn.sum /\ Store([d EXCEPT ![pos].sum = lfn.sum], lfn, zero)
  <2> DEFINE f == [d EXCEPT ![pos].sum = lfn.sum]
  <2>1. /\ f = [i \in DOMAIN old |-> f[i]] /\ f[pos] = [d[pos] EXCEPT !.sum = lfn.sum]
        /\ \A i \in DOMAIN old : i # pos => f[i] = d[i]
    OBVIOUS
  <2>2. IsSlot(f[pos])
    <3>1. lfn.sum \in CheckSum
      BY <1>0 DEF State
    <3> QED BY <2>1, <3>1 DEF IsSlot
  <2> HIDE DEF f
  <2> QED BY <1>1, <1>4, <2>1, <2>2 DEF f
<1>5. CASE interactive /\ d[pos].sum # lfn.sum /\ Abandon(clear_lfn_slots(d, Append(lfn.offs, pos)), lfn)
  <2>1. entries' = clear_lfn_slots(d, Append(lfn.offs, pos)) /\ lfn' = lfn_reset(lfn) /\ st' = st
    BY <1>5 DEF Abandon
  <2>2. DOMAIN d = DOMAIN old /\ ToSet(Append(lfn.offs, pos)) = ToSet(lfn.offs) \cup {pos}
    BY <1>0, ToSetAppend
  <2>3. Reach
    BY <1>5, <2>1, <2>2 DEF Reach, clear_lfn_slots
  <2>4. lfn' \in State /\ Dropped
    BY <1>0, <2>1, ResetBegin DEF Dropped
  <2> QED BY <1>5, <2>1, <2>3, <2>4
<1>6. ~interactive => Keys(1..3) = {0}
  BY DEF Keys
<1>7. interactive => Keys(1..3) = 1..3
  BY DEF Keys
<1> QED BY <1>2, <1>3, <1>4, <1>5, <1>6, <1>7 DEF Checksum

\* A name that is given up: the slots to be cleared are among the ones lfn.c
\* may change.
LEMMA AbandonEffect ==
  ASSUME Scanned, pos \in DOMAIN old, NEW offs,
         ToSet(offs) \subseteq ToSet(lfn.offs) \cup {pos}, interactive,
         Abandon(clear_lfn_slots(entries, offs), lfn) \/ Abandon(entries, lfn)
  PROVE  Reach /\ lfn' \in State /\ st' = st /\ Dropped
<1>1. lfn \in State /\ DOMAIN entries = DOMAIN old /\ entries = [i \in DOMAIN old |-> entries[i]]
  BY DEF Scanned, Shape
<1>2. lfn' = lfn_reset(lfn) /\ st' = st
  BY DEF Abandon
<1>3. Reach
  BY <1>1 DEF Abandon, Reach, clear_lfn_slots
<1>4. lfn' \in State /\ Dropped
  BY <1>1, <1>2, ResetBegin DEF Dropped
<1> QED BY <1>2, <1>3, <1>4

\* Every way through lfn_add_slot.
LEMMA SlotEffect ==
  ASSUME Scanned, AddSlot, st' # "wild"
  PROVE  Effect
<1> DEFINE e == entries[pos]
           D == DOMAIN old
<1>0. /\ pos \in D /\ pos \in Nat /\ IsSlot(e) /\ e.num >= 1 /\ e.kind = "lfn"
  BY AtSlot DEF AddSlot
<1>a. entries = [i \in D |-> entries[i]] /\ lfn \in State /\ lfn.offs \in Seq(Nat)
  BY DEF Scanned, Shape, State
<1>b. PICK zero \in BOOLEAN : \/ FirstSlot(e, zero) \/ StartWithin(e, zero) \/ Fragment(e, zero)
                              \/ WrongNumber(e, zero) \/ NextSlot(e, zero)
  BY DEF AddSlot
<1>c. \A K : (interactive => Keys(K) = K) /\ (~interactive => Keys(K) = {0})
  BY DEF Keys
<1>1. ASSUME NEW d, d = [i \in D |-> d[i]], IsSlot(d[pos]),
             \A i \in D : i # pos /\ i \notin ToSet(lfn.offs) => d[i] = entries[i],
             ~interactive => d = entries,
             d[pos].start \/ Field(d[pos]) # Field(e),
             Store(d, Begin(e), zero)
      PROVE  Reach /\ lfn' \in State /\ st' = st /\ Begun
  BY <1>0, <1>1, BeginEffect
<1>2. CASE e.start
  <2>1. CASE Store(entries, Begin(e), zero)
    <3>1. Reach /\ lfn' \in State /\ st' = st /\ Begun
      BY <1>0, <1>1, <1>2, <1>a, <2>1
    <3> QED BY <1>2, <3>1 DEF Effect
  <2>2. CASE interactive /\ Store(clear_lfn_slots(entries, lfn.offs), Begin(e), zero)
    <3> DEFINE d == clear_lfn_slots(entries, lfn.offs)
    <3>1. pos \notin ToSet(lfn.offs)
      BY AtSlot DEF AddSlot
    <3>2. d = [i \in D |-> d[i]] /\ \A i \in D : i \notin ToSet(lfn.offs) => d[i] = entries[i]
      BY <1>a DEF clear_lfn_slots
    <3>3. d[pos] = e
      BY <1>0, <3>1, <3>2
    <3> HIDE DEF d
    <3>4. Reach /\ lfn' \in State /\ st' = st /\ Begun
      BY <1>0, <1>1, <1>2, <2>2, <3>2, <3>3 DEF d
    <3> QED BY <1>2, <3>4 DEF Effect
  <2>3. CASE interactive /\ Store([entries EXCEPT ![pos].start = FALSE], Begin(e), zero)
    <3> DEFINE d == [entries EXCEPT ![pos].start = FALSE]
    <3>1. /\ d = [i \in D |-> d[i]] /\ \A i \in D : i # pos => d[i] = entries[i]
          /\ d[pos] = [e EXCEPT !.start = FALSE]
      BY <1>0, <1>a
    <3>2. IsSlot(d[pos]) /\ d[pos].start = FALSE /\ d[pos].kind = "lfn"
      BY <1>0, <3>1 DEF IsSlot
    <3> HIDE DEF d
    <3>3. Field(d[pos]) # Field(e)
      <4>1. Field(d[pos])[1] = FALSE /\ Field(e)[1] = e.start
        BY <1>0, <3>2 DEF Field
      <4>2. Field(d[pos])[1] # Field(e)[1]
        BY <1>2, <4>1, Zenon
      <4> QED BY <4>2, Zenon
    <3>4. Reach /\ lfn' \in State /\ st' = st /\ Begun
      BY <1>0, <1>1, <1>2, <2>3, <3>1, <3>2, <3>3 DEF d
    <3> QED BY <1>2, <3>4 DEF Effect
  <2>4. StartWithin(e, zero) \/ FirstSlot(e, zero)
    BY <1>2, <1>b DEF Fragment, WrongNumber, NextSlot
  <2>5. ASSUME StartWithin(e, zero)
        PROVE  \/ Store(entries, Begin(e), zero)
               \/ interactive /\ Store(clear_lfn_slots(entries, lfn.offs), Begin(e), zero)
               \/ interactive /\ Store([entries EXCEPT ![pos].start = FALSE], Begin(e), zero)
    <3>1. PICK key \in Keys({1, 2} \cup (IF e.num = lfn.slot /\ e.sum = lfn.sum THEN {3} ELSE {})) :
            \/ key \in {0, 2} /\ Store(entries, Begin(e), zero)
            \/ key = 1 /\ Store(clear_lfn_slots(entries, lfn.offs), Begin(e), zero)
            \/ key = 3 /\ Store([entries EXCEPT ![pos].start = FALSE], Begin(e), zero)
      BY <2>5 DEF StartWithin
    <3>2. interactive \/ key = 0
      BY <1>c
    <3> QED BY <3>1, <3>2
  <2> QED BY <2>1, <2>2, <2>3, <2>4, <2>5 DEF FirstSlot
<1>3. CASE ~e.start
  <2>1. CASE Fragment(e, zero)
    <3>1. PICK key \in Keys(1..3) :
            \/ key = 0 /\ Checksum(entries, lfn, zero)
            \/ key = 1 /\ Abandon(clear_lfn_slots(entries, <<pos>>), lfn)
            \/ key = 2 /\ Abandon(entries, lfn)
            \/ key = 3 /\ Store([entries EXCEPT ![pos].start = TRUE], Begin(e), zero)
      BY <2>1 DEF Fragment
    <3>2. (interactive \/ key = 0) /\ lfn.slot = -1
      BY <1>c, <2>1 DEF Fragment
    <3>3. CASE key = 0 /\ Checksum(entries, lfn, zero)
      <4>1. Reach /\ lfn' \in State /\ st' = st /\ (Continued \/ Dropped)
        BY <1>0, <1>a, <3>3, ChecksumEffect
      <4> QED BY <1>3, <3>2, <4>1 DEF Effect
    <3>4. CASE key \in {1, 2} /\ (Abandon(clear_lfn_slots(entries, <<pos>>), lfn) \/ Abandon(entries, lfn))
      <4>1. ToSet(<<pos>>) \subseteq ToSet(lfn.offs) \cup {pos}
        BY DEF ToSet
      <4>2. Reach /\ lfn' \in State /\ st' = st /\ Dropped
        BY <1>0, <3>2, <3>4, <4>1, AbandonEffect
      <4> QED BY <1>3, <3>2, <4>2 DEF Effect
    <3>5. CASE key = 3 /\ Store([entries EXCEPT ![pos].start = TRUE], Begin(e), zero)
      <4> DEFINE d == [entries EXCEPT ![pos].start = TRUE]
      <4>1. /\ d = [i \in D |-> d[i]] /\ \A i \in D : i # pos => d[i] = entries[i]
            /\ d[pos] = [e EXCEPT !.start = TRUE]
        BY <1>0, <1>a
      <4>2. IsSlot(d[pos]) /\ d[pos].start
        BY <1>0, <4>1 DEF IsSlot
      <4> HIDE DEF d
      <4>3. Reach /\ lfn' \in State /\ st' = st /\ Begun
        <5>1. Store(d, Begin(e), zero)
          BY <3>5 DEF d
        <5>2. interactive
          BY <3>2, <3>5
        <5> QED BY <1>0, <1>1, <4>1, <4>2, <5>1, <5>2
      <4> QED BY <1>3, <3>2, <4>3 DEF Effect
    <3> QED BY <3>1, <3>3, <3>4, <3>5
  <2>2. CASE WrongNumber(e, zero)
    <3>1. PICK key \in Keys({1, 2} \cup (IF e.sum = lfn.sum THEN {3} ELSE {})) :
            \/ key = 0 /\ Checksum(entries, lfn, zero)
            \/ key = 1 /\ Abandon(clear_lfn_slots(entries, Append(lfn.offs, pos)), lfn)
            \/ key = 2 /\ Abandon(entries, lfn)
            \/ key = 3 /\ Checksum([entries EXCEPT ![pos].num = lfn.slot], lfn, zero)
      BY <2>2 DEF WrongNumber
    <3>2. (interactive \/ key = 0) /\ lfn.slot # -1 /\ e.num # lfn.slot
      BY <1>c, <2>2 DEF WrongNumber
    <3>3. CASE key = 0 /\ Checksum(entries, lfn, zero)
      <4>1. Reach /\ lfn' \in State /\ st' = st /\ (Continued \/ Dropped)
        BY <1>0, <1>a, <3>3, ChecksumEffect
      <4> QED BY <1>3, <3>2, <4>1 DEF Effect
    <3>4. CASE /\ key \in {1, 2}
               /\ \/ Abandon(clear_lfn_slots(entries, Append(lfn.offs, pos)), lfn)
                  \/ Abandon(entries, lfn)
      <4>1. ToSet(Append(lfn.offs, pos)) \subseteq ToSet(lfn.offs) \cup {pos}
        BY <1>0, <1>a, ToSetAppend
      <4>2. Reach /\ lfn' \in State /\ st' = st /\ Dropped
        BY <1>0, <3>2, <3>4, <4>1, AbandonEffect
      <4> QED BY <1>3, <3>2, <4>2 DEF Effect
    <3>5. CASE key = 3 /\ Checksum([entries EXCEPT ![pos].num = lfn.slot], lfn, zero)
      <4> DEFINE d == [entries EXCEPT ![pos].num = lfn.slot]
      <4>1. /\ d = [i \in D |-> d[i]] /\ \A i \in D : i # pos => d[i] = entries[i]
            /\ d[pos] = [e EXCEPT !.num = lfn.slot]
        BY <1>0, <1>a
      <4>2. lfn.slot \in Nat
        BY <1>a, <3>2 DEF State
      <4>3. IsSlot(d[pos])
        BY <1>0, <4>1, <4>2 DEF IsSlot
      <4> HIDE DEF d
      <4>4. Reach /\ lfn' \in State /\ st' = st /\ (Continued \/ Dropped)
        BY <1>0, <3>2, <3>5, <4>1, <4>3, ChecksumEffect DEF d
      <4> QED BY <1>3, <3>2, <4>4 DEF Effect
    <3> QED BY <3>1, <3>3, <3>4, <3>5
  <2>3. CASE NextSlot(e, zero)
    <3>1. Checksum(entries, lfn, zero) /\ lfn.slot # -1
      BY <2>3 DEF NextSlot
    <3>2. /\ Reach /\ lfn' \in State /\ st' = st
          /\ Continued \/ Dropped
          /\ ~e.start /\ lfn.slot # -1 /\ e.sum = lfn.sum =>
               /\ Continued /\ lfn'.end = lfn.end
               /\ \A i \in D : Field(entries'[i]) = Field(entries[i])
      BY <1>0, <1>a, <3>1, ChecksumEffect
    <3> QED BY <1>3, <3>2 DEF Effect
  <2> QED BY <1>3, <1>b, <2>1, <2>2, <2>3 DEF FirstSlot, StartWithin
<1> QED BY <1>2, <1>3

\* Reading a slot keeps the invariant.
LEMMA SlotScanned ==
  ASSUME Scanned, AddSlot, st' # "wild"
  PROVE  Scanned'
<1> DEFINE e == entries[pos]
           D == DOMAIN old
<1>0. /\ pos \in D /\ pos \in Nat /\ e = old[pos] /\ IsSlot(e) /\ e.num >= 1 /\ e.kind = "lfn"
  BY AtSlot DEF AddSlot
<1>1. Effect
  BY SlotEffect
<1>2. /\ pos' = pos + 1 /\ UNCHANGED <<old, interactive, names>> /\ st = "scan"
      /\ Reach /\ lfn' \in State /\ st' = st
  BY <1>1 DEF AddSlot, Effect
<1>a. /\ old \in Seq(EntryTypes) /\ D = 1..Len(old) /\ Len(old) \in Nat
      /\ names = [i \in D |-> names[i]] /\ lfn \in State
  BY DEF Scanned, Shape
<1>b. lfn.offs \in Seq(Nat) /\ lfn.slot \in Int /\ lfn.uni \in Seq(Int)
  BY <1>a DEF State
<1>3. Shape'
  BY <1>0, <1>2, <1>a DEF Shape, Reach
<1>4. \A i \in ToSet(lfn.offs) : i \in 1..(pos - 1) /\ \A j \in i..(pos - 1) : old[j].kind = "lfn"
  BY DEF Scanned, OneRun
<1>5. Unread'
  <2>1. ASSUME NEW i \in D, pos + 1 <= i PROVE entries'[i] = old[i]
    <3>1. i # pos /\ i \notin ToSet(lfn.offs) /\ pos <= i
      BY <1>0, <1>4, <1>a, <2>1
    <3> QED BY <1>2, <3>1 DEF Reach, Scanned, Unread
  <2> QED BY <1>2, <2>1 DEF Unread
<1>6. OneRun'
  <2>1. lfn'.slot = -1 => lfn'.offs = <<>>
    BY <1>0, <1>1, <1>b DEF Effect, Begun, Continued, Dropped, IsSlot
  <2>2. ToSet(lfn'.offs) \subseteq ToSet(lfn.offs) \cup {pos}
    <3>1. CASE Begun
      BY <3>1 DEF Begun, ToSet
    <3>2. CASE Continued
      BY <1>0, <1>b, <3>2, ToSetAppend DEF Continued
    <3>3. CASE Dropped
      BY <3>3 DEF Dropped, ToSet
    <3> QED BY <1>1, <3>1, <3>2, <3>3 DEF Effect
  <2>3. ASSUME NEW i \in ToSet(lfn.offs) \cup {pos}
        PROVE  i \in 1..pos /\ \A j \in i..pos : old[j].kind = "lfn"
    <3>1. CASE i = pos
      BY <1>0, <1>a, <3>1
    <3>2. CASE i \in ToSet(lfn.offs)
      <4>1. i \in 1..(pos - 1) /\ \A j \in i..pos : j = pos \/ j \in i..(pos - 1)
        BY <1>0, <1>4, <3>2
      <4> QED BY <1>0, <1>4, <3>2, <4>1
    <3> QED BY <3>1, <3>2
  <2>4. pos' - 1 = pos
    BY <1>0, <1>2
  <2> QED BY <1>2, <2>1, <2>2, <2>3, <2>4 DEF OneRun
<1>7. ASSUME NEW a \in D, NEW b \in D, b < pos, Proper(old, a, b) PROVE entries'[a] = entries[a]
  <2>1. a \in Int /\ b \in Int /\ old[b].kind # "lfn" /\ a < b
    BY <1>7, <1>a DEF Proper
  <2>2. a \notin ToSet(lfn.offs)
    BY <1>0, <1>4, <1>7, <2>1
  <2> QED BY <1>0, <1>2, <1>7, <2>1, <2>2 DEF Reach
<1>8. Named'
  <2>1. ASSUME NEW a \in D, NEW b \in D, b < pos + 1, Proper(old, a, b)
        PROVE  names[b] = [i \in 1..(b - a) |-> b - i] \/ Field(entries'[a]) # Field(old[a])
    <3>1. b # pos
      BY <1>0, <2>1 DEF Proper
    <3>2. b < pos
      BY <1>0, <1>a, <2>1, <3>1
    <3> QED BY <1>7, <2>1, <3>2 DEF Scanned, Named, Touched
  <2> QED BY <1>2, <2>1 DEF Named, Touched
<1>9. Untouched'
  <2>1. ASSUME ~interactive, NEW a \in D, NEW b \in D, Proper(old, a, b), NEW i \in a..b
        PROVE  Field(entries'[i]) = Field(old[i])
    <3>1. i \in D
      BY <1>a, <2>1
    <3>2. Field(entries[i]) = Field(old[i])
      BY <2>1, Zenon DEF Scanned, Untouched
    <3> QED BY <1>2, <2>1, <3>1, <3>2, Zenon DEF Reach
  <2> QED BY <1>2, <2>1, Zenon DEF Untouched
<1>10. Tracked'
  <2> SUFFICES ASSUME NEW a \in D, NEW b \in D, a < pos + 1, pos + 1 <= b, Proper(old, a, b)
               PROVE  Track(a, b)'
    BY <1>2 DEF Tracked
  <2>0. a \in Nat /\ b \in Nat /\ pos \in a..(b - 1)
    BY <1>0, <1>a
  <2>1. old[pos].num = b - pos /\ old[pos].sum = old[b].sum /\ (old[pos].start <=> pos = a)
    BY <2>0 DEF Proper
  <2>2. CASE pos = a
    <3>1. Begun
      BY <1>0, <1>1, <2>1, <2>2 DEF Effect
    <3>2. /\ lfn'.slot = b - pos' /\ lfn'.sum = old[b].sum /\ Len(lfn'.uni) = b - a
          /\ lfn'.uni[b - a] = a
      BY <1>0, <1>2, <2>0, <2>1, <2>2, <3>1 DEF Begun
    <3>3. \A k \in (b - pos' + 1)..(b - a) : lfn'.uni[k] = b - k
      <4>1. \A k \in (b - pos' + 1)..(b - a) : k = b - a /\ b - k = a
        BY <1>2, <2>0, <2>2
      <4> QED BY <3>2, <4>1
    <3>4. lfn'.end = b - a \/ Field(entries'[a]) # Field(old[a])
      BY <1>0, <2>1, <2>2, <3>1 DEF Begun
    <3> QED BY <1>2, <3>2, <3>3, <3>4 DEF Track, Touched
  <2>3. CASE a < pos
    <3>1. Track(a, b)
      BY <2>0, <2>3 DEF Scanned, Tracked
    <3>2. ~e.start /\ lfn.slot = b - pos /\ e.num = lfn.slot /\ e.sum = lfn.sum
      BY <1>0, <2>0, <2>1, <2>3, <3>1 DEF Track
    <3>3. /\ Continued /\ lfn'.end = lfn.end
          /\ \A i \in D : Field(entries'[i]) = Field(entries[i])
      BY <1>1, <2>0, <3>2 DEF Effect
    <3>4. lfn'.slot = b - pos' /\ lfn'.sum = old[b].sum /\ Len(lfn'.uni) = b - a
      BY <1>0, <1>2, <2>0, <3>1, <3>2, <3>3 DEF Continued, Track
    <3>5. ASSUME NEW k \in (b - pos' + 1)..(b - a) PROVE lfn'.uni[k] = b - k
      <4>1. k \in 1..Len(lfn.uni)
        BY <1>2, <2>0, <3>1 DEF Track
      <4>2. CASE k = b - pos
        BY <2>0, <3>2, <3>3, <4>1, <4>2 DEF Continued
      <4>3. CASE k # b - pos
        <5>1. k \in (b - pos + 1)..(b - a)
          BY <1>2, <2>0, <4>3
        <5> QED BY <3>1, <3>2, <3>3, <4>1, <4>3, <5>1 DEF Continued, Track
      <4> QED BY <4>2, <4>3
    <3>6. lfn'.end = b - a \/ Field(entries'[a]) # Field(old[a])
      BY <3>1, <3>3 DEF Track, Touched
    <3> QED BY <1>2, <3>4, <3>5, <3>6 DEF Track, Touched
  <2> QED BY <2>0, <2>2, <2>3
<1> QED BY <1>3, <1>5, <1>6, <1>8, <1>9, <1>10 DEF Scanned

-----------------------------------------------------------------------------
(* lfn_get and lfn_check_orphaned. *)

\* Between two names: no sound name lies across an entry that is no slot, and
\* none that has been read holds a slot still collected.
LEMMA Between ==
  ASSUME Scanned, pos \in DOMAIN old, old[pos].kind # "lfn",
         NEW a \in DOMAIN old, NEW b \in DOMAIN old, Proper(old, a, b)
  PROVE  /\ ~(a <= pos /\ pos < b)
         /\ b < pos \/ (b = pos /\ old[pos].kind = "short") => a < b
         /\ b < pos => \A i \in a..b : i \notin ToSet(lfn.offs)
<1>1. /\ a \in Nat /\ b \in Nat /\ pos \in Nat
  BY DEF Scanned, Shape
<1>2. a < b /\ old[b].kind = "short" /\ \A i \in a..(b - 1) : old[i].kind = "lfn"
  BY DEF Proper
<1>3. ~(a <= pos /\ pos < b)
  BY <1>1, <1>2
<1>4. ASSUME b < pos, NEW i \in a..b PROVE i \notin ToSet(lfn.offs)
  <2>1. i \in ToSet(lfn.offs) => \A j \in i..(pos - 1) : old[j].kind = "lfn"
    BY DEF Scanned, OneRun
  <2>2. b \in i..(pos - 1)
    BY <1>1, <1>4
  <2> QED BY <1>2, <2>1, <2>2
<1> QED BY <1>2, <1>3, <1>4

\* The entries and the names after lfn_get has compared the checksums.
LEMMA GotEffect ==
  ASSUME Scanned, NEW d, NEW l, Got(d, l), l.offs = lfn.offs, d = [i \in DOMAIN old |-> d[i]],
         \A i \in DOMAIN old : i \notin ToSet(lfn.offs) => d[i] = entries[i],
         ~interactive => d = entries
  PROVE  /\ entries' = [i \in DOMAIN old |-> entries'[i]]
         /\ \A i \in DOMAIN old : i \notin ToSet(lfn.offs) => entries'[i] = entries[i]
         /\ ~interactive => entries' = entries
         /\ names' = [i \in DOMAIN old |-> names'[i]]
         /\ \A i \in DOMAIN old : i # pos => names'[i] = names[i]
         /\ d[pos].sum = l.sum => entries' = d /\ names' = [names EXCEPT ![pos] = LongName(l)]
<1>0. names = [i \in DOMAIN old |-> names[i]] /\ DOMAIN d = DOMAIN old
  BY DEF Scanned, Shape
<1>1. \/ names' = names
      \/ names' = [names EXCEPT ![pos] = LongName(l)]
  BY DEF Got
<1>2. /\ names' = [i \in DOMAIN old |-> names'[i]]
      /\ \A i \in DOMAIN old : i # pos => names'[i] = names[i]
  BY <1>0, <1>1
<1>3. (interactive => Keys(1..3) = 1..3) /\ (~interactive => Keys(1..3) = {0})
  BY DEF Keys
<1>4. \/ entries' = d
      \/ interactive /\ entries' = clear_lfn_slots(d, lfn.offs)
      \/ interactive /\ entries' = [i \in DOMAIN d |-> IF i \in ToSet(lfn.offs)
                                      THEN [d[i] EXCEPT !.sum = d[pos].sum] ELSE d[i]]
  BY <1>3 DEF Got
<1>5. /\ entries' = [i \in DOMAIN old |-> entries'[i]]
      /\ \A i \in DOMAIN old : i \notin ToSet(lfn.offs) => entries'[i] = entries[i]
  BY <1>0, <1>4 DEF clear_lfn_slots
<1>6. ~interactive => entries' = entries
  BY <1>4
<1>7. d[pos].sum = l.sum => entries' = d /\ names' = [names EXCEPT ![pos] = LongName(l)]
  BY DEF Got
<1> QED BY <1>2, <1>5, <1>6, <1>7

\* Every way through lfn_get.
LEMMA GetEffect ==
  ASSUME Scanned, LfnGet
  PROVE  /\ entries' = [i \in DOMAIN old |-> entries'[i]]
         /\ \A i \in DOMAIN old : i \notin ToSet(lfn.offs) => entries'[i] = entries[i]
         /\ ~interactive => entries' = entries
         /\ names' = [i \in DOMAIN old |-> names'[i]]
         /\ \A i \in DOMAIN old : i # pos => names'[i] = names[i]
         /\ lfn.slot = 0 /\ entries[pos].sum = lfn.sum =>
              entries' = entries /\ names' = [names EXCEPT ![pos] = LongName(lfn)]
<1>0. /\ entries = [i \in DOMAIN old |-> entries[i]] /\ names = [i \in DOMAIN old |-> names[i]]
      /\ DOMAIN entries = DOMAIN old
  BY DEF Scanned, Shape
<1>1. CASE lfn.slot # 0 /\ UNCHANGED <<entries, names>>
  BY <1>0, <1>1
<1>2. CASE Got(entries, lfn)
  BY <1>0, <1>2, GotEffect
<1>3. CASE /\ lfn.slot # 0 /\ interactive
           /\ entries' = clear_lfn_slots(entries, lfn.offs) /\ UNCHANGED names
  BY <1>0, <1>3 DEF clear_lfn_slots
<1>4. CASE lfn.slot # 0 /\ interactive /\ Got(Renumbered(entries, lfn.offs), MovedUp(lfn))
  <2> DEFINE d == Renumbered(entries, lfn.offs)
             l == MovedUp(lfn)
  <2>1. d = [i \in DOMAIN old |-> d[i]]
    BY <1>0 DEF Renumbered
  <2>2. \A i \in DOMAIN old : i \notin ToSet(lfn.offs) => d[i] = entries[i]
    BY <1>0 DEF Renumbered
  <2>3. l.offs = lfn.offs
    BY DEF MovedUp, Scanned, Shape, State
  <2> HIDE DEF d, l
  <2>4. Got(d, l)
    BY <1>4 DEF d, l
  <2> QED BY <1>4, <2>1, <2>2, <2>3, <2>4, GotEffect
<1>5. (interactive => Keys(1..3) = 1..3) /\ (~interactive => Keys(1..3) = {0})
  BY DEF Keys
<1>6. lfn.slot = -1 \/ lfn.slot > 0 => lfn.slot # 0
  BY DEF Scanned, Shape, State
<1>7. CASE lfn.slot = -1 /\ UNCHANGED <<entries, names>>
  BY <1>1, <1>6, <1>7
<1>8. CASE lfn.slot > 0 /\ \E key \in Keys(1..3) :
             \/ key = 0 /\ Got(entries, lfn)
             \/ /\ key = 1
                /\ entries' = clear_lfn_slots(entries, lfn.offs) /\ UNCHANGED names
             \/ key = 2 /\ UNCHANGED <<entries, names>>
             \/ key = 3 /\ Got(Renumbered(entries, lfn.offs), MovedUp(lfn))
  <2>1. \/ Got(entries, lfn)
        \/ interactive /\ entries' = clear_lfn_slots(entries, lfn.offs) /\ UNCHANGED names
        \/ UNCHANGED <<entries, names>>
        \/ interactive /\ Got(Renumbered(entries, lfn.offs), MovedUp(lfn))
    BY <1>5, <1>8
  <2> QED BY <1>1, <1>2, <1>3, <1>4, <1>6, <1>8, <2>1
<1> QED BY <1>2, <1>7, <1>8 DEF LfnGet

\* Reading a short entry keeps the invariant.
LEMMA GetScanned == ASSUME Scanned, LfnGet PROVE Scanned'
<1> DEFINE D == DOMAIN old
<1>a. /\ old \in Seq(EntryTypes) /\ D = 1..Len(old) /\ Len(old) \in Nat /\ DOMAIN entries = D
      /\ lfn \in State /\ (lfn.slot = -1 => lfn.offs = <<>>) /\ pos \in 1..(Len(old) + 1)
  BY DEF Scanned, Shape, OneRun
<1>b. Len(entries) = Len(old)
  BY <1>a
<1>0. /\ pos \in D /\ pos \in Nat /\ pos' = pos + 1 /\ UNCHANGED <<old, interactive, st>>
      /\ st = "scan" /\ entries[pos] = old[pos] /\ old[pos].kind = "short"
  <2>1. pos \in D /\ pos <= pos
    BY <1>a, <1>b DEF LfnGet
  <2>2. entries[pos] = old[pos]
    BY <2>1 DEF Scanned, Unread
  <2> QED BY <1>a, <2>1, <2>2 DEF LfnGet
<1>1. /\ entries' = [i \in D |-> entries'[i]]
      /\ \A i \in D : i \notin ToSet(lfn.offs) => entries'[i] = entries[i]
      /\ ~interactive => entries' = entries
      /\ names' = [i \in D |-> names'[i]]
      /\ \A i \in D : i # pos => names'[i] = names[i]
      /\ lfn.slot = 0 /\ entries[pos].sum = lfn.sum =>
           entries' = entries /\ names' = [names EXCEPT ![pos] = LongName(lfn)]
  BY GetEffect
<1>2. lfn' \in State /\ lfn'.slot = -1 /\ lfn'.offs = <<>>
  <2>1. lfn' = IF lfn.slot = -1 THEN lfn ELSE lfn_reset(lfn)
    BY DEF LfnGet
  <2> QED BY <1>a, <2>1, ResetBegin
<1>3. Shape'
  BY <1>0, <1>1, <1>2, <1>a DEF Shape
<1>4. Unread'
  <2>1. ASSUME NEW i \in D, pos + 1 <= i PROVE entries'[i] = old[i]
    <3>1. i \notin ToSet(lfn.offs) /\ pos <= i
      BY <1>0, <1>a, <2>1 DEF Scanned, OneRun
    <3> QED BY <1>1, <3>1 DEF Scanned, Unread
  <2> QED BY <1>0, <2>1 DEF Unread
<1>5. OneRun'
  BY <1>2 DEF OneRun, ToSet
<1>6. Tracked'
  <2>1. ASSUME NEW a \in D, NEW b \in D, a < pos + 1, pos + 1 <= b, Proper(old, a, b) PROVE FALSE
    BY <1>0, <1>a, <2>1, Between
  <2> QED BY <1>0, <2>1 DEF Tracked
<1>7. Named'
  <2>1. ASSUME NEW a \in D, NEW b \in D, b < pos + 1, Proper(old, a, b)
        PROVE  names'[b] = [i \in 1..(b - a) |-> b - i] \/ Field(entries'[a]) # Field(old[a])
    <3>0. a \in Nat /\ b \in Nat /\ a < b /\ old[b].kind = "short"
      BY <1>a, <2>1 DEF Proper
    <3>1. CASE b < pos
      <4>1. a \in a..b /\ a \notin ToSet(lfn.offs) /\ b # pos
        BY <1>0, <2>1, <3>0, <3>1, Between
      <4> QED BY <1>1, <2>1, <3>1, <4>1 DEF Scanned, Named, Touched
    <3>2. CASE b = pos
      <4>1. Track(a, b)
        BY <1>0, <2>1, <3>0, <3>2 DEF Scanned, Tracked
      <4>2. lfn.slot = 0 /\ entries[pos].sum = lfn.sum
        BY <1>0, <3>2, <4>1 DEF Track
      <4>3. entries' = entries /\ names'[b] = LongName(lfn)
        BY <1>0, <1>1, <3>2, <4>2 DEF Scanned, Shape
      <4>4. CASE lfn.end = b - a
        <5>1. lfn.uni \in Seq(Int) /\ Len(lfn.uni) = b - a /\ b - a # 0
          BY <1>a, <3>0, <4>1 DEF State, Track
        <5>2. \A k \in 1..(b - a) : lfn.uni[k] = b - k
          BY <1>0, <3>0, <3>2, <4>1 DEF Track
        <5>3. lfn.uni = [i \in 1..(b - a) |-> b - i]
          BY <5>1, <5>2
        <5>4. LongName(lfn) = SubSeq(lfn.uni, 1, Len(lfn.uni))
          BY <4>4, <5>1 DEF LongName
        <5>5. SubSeq(lfn.uni, 1, Len(lfn.uni)) = lfn.uni
          BY <5>1
        <5> QED BY <4>3, <5>3, <5>4, <5>5
      <4>5. CASE Touched(a)
        BY <4>3, <4>5 DEF Touched
      <4> QED BY <4>1, <4>4, <4>5 DEF Track
    <3> QED BY <1>0, <2>1, <3>0, <3>1, <3>2
  <2> QED BY <1>0, <2>1 DEF Named, Touched
<1>8. Untouched'
  BY <1>0, <1>1 DEF Scanned, Untouched
<1> QED BY <1>3, <1>4, <1>5, <1>6, <1>7, <1>8 DEF Scanned

\* At a free entry and at the end of the directory the slots collected belong to
\* no sound name: they may be deleted, in an automatic run too.
LEMMA OrphanScanned ==
  ASSUME Scanned, FreeEntry \/ EndOfDir
  PROVE  Scanned'
<1> DEFINE D == DOMAIN old
<1>a. /\ old \in Seq(EntryTypes) /\ D = 1..Len(old) /\ Len(old) \in Nat /\ DOMAIN entries = D
      /\ lfn \in State /\ (lfn.slot = -1 => lfn.offs = <<>>) /\ pos \in 1..(Len(old) + 1)
      /\ entries = [i \in D |-> entries[i]] /\ names = [i \in D |-> names[i]]
  BY DEF Scanned, Shape, OneRun
<1>b. Len(entries) = Len(old)
  BY <1>a
<1>0. /\ UNCHANGED <<old, interactive, names>> /\ st = "scan" /\ pos \in Nat
      /\ \/ pos \in D /\ old[pos].kind = "free" /\ pos' = pos + 1 /\ st' = st
         \/ pos = Len(old) + 1 /\ pos' = pos /\ st' = "done"
  <2>1. CASE FreeEntry
    <3>1. pos \in D /\ pos <= pos
      BY <1>a, <1>b, <2>1 DEF FreeEntry
    <3>2. entries[pos] = old[pos]
      BY <3>1 DEF Scanned, Unread
    <3> QED BY <1>a, <2>1, <3>1, <3>2 DEF FreeEntry, CheckOrphaned
  <2>2. CASE EndOfDir
    BY <1>a, <1>b, <2>2 DEF EndOfDir, CheckOrphaned
  <2> QED BY <2>1, <2>2
<1>1. /\ entries' = [i \in D |-> entries'[i]]
      /\ \A i \in D : i \notin ToSet(lfn.offs) => entries'[i] = entries[i]
  BY <1>a DEF FreeEntry, EndOfDir, CheckOrphaned, clear_lfn_slots
<1>2. lfn' \in State /\ lfn'.slot = -1 /\ lfn'.offs = <<>>
  BY <1>a, ResetBegin DEF FreeEntry, EndOfDir, CheckOrphaned
<1>3. ASSUME NEW a \in D, NEW b \in D, Proper(old, a, b), NEW i \in a..b
      PROVE  i \notin ToSet(lfn.offs) /\ entries'[i] = entries[i]
  <2>0. a \in Nat /\ b \in Nat /\ old[b].kind = "short" /\ i \in D
    BY <1>3, <1>a DEF Proper
  <2>1. i \notin ToSet(lfn.offs)
    <3>1. CASE pos \in D /\ old[pos].kind = "free"
      <4>1. ~(a <= pos /\ pos < b) /\ b # pos
             /\ (b < pos => i \notin ToSet(lfn.offs))
        BY <1>3, <2>0, <3>1, Between
      <4>2. i \in ToSet(lfn.offs) => i < pos
        BY <1>0, <2>0 DEF Scanned, OneRun
      <4> QED BY <1>0, <1>3, <2>0, <4>1, <4>2
    <3>2. CASE pos = Len(old) + 1
      <4>1. i \in ToSet(lfn.offs) => \A j \in i..(pos - 1) : old[j].kind = "lfn"
        BY DEF Scanned, OneRun
      <4>2. b \in i..(pos - 1)
        BY <1>3, <1>a, <2>0, <3>2
      <4> QED BY <2>0, <4>1, <4>2
    <3> QED BY <1>0, <3>1, <3>2
  <2> QED BY <1>1, <2>0, <2>1
<1>4. Shape'
  BY <1>0, <1>1, <1>2, <1>a DEF Shape
<1>5. Unread'
  <2>1. ASSUME NEW i \in D, pos' <= i PROVE entries'[i] = old[i]
    <3>1. i \notin ToSet(lfn.offs) /\ pos <= i
      BY <1>0, <1>a, <2>1 DEF Scanned, OneRun
    <3> QED BY <1>1, <3>1 DEF Scanned, Unread
  <2> QED BY <1>0, <2>1 DEF Unread
<1>6. OneRun'
  BY <1>2 DEF OneRun, ToSet
<1>7. Tracked'
  <2>1. ASSUME NEW a \in D, NEW b \in D, a < pos', pos' <= b, Proper(old, a, b) PROVE FALSE
    BY <1>0, <1>a, <2>1, Between
  <2> QED BY <1>0, <2>1 DEF Tracked
<1>8. Named'
  <2>1. ASSUME NEW a \in D, NEW b \in D, b < pos', Proper(old, a, b)
        PROVE  names[b] = [i \in 1..(b - a) |-> b - i] \/ Field(entries'[a]) # Field(old[a])
    <3>1. a \in a..b /\ b < pos
      BY <1>0, <1>a, <2>1 DEF Proper
    <3> QED BY <1>3, <2>1, <3>1 DEF Scanned, Named, Touched
  <2> QED BY <1>0, <2>1 DEF Named, Touched
<1>9. Untouched'
  BY <1>0, <1>3 DEF Scanned, Untouched
<1> QED BY <1>4, <1>5, <1>6, <1>7, <1>8, <1>9 DEF Scanned

-----------------------------------------------------------------------------
(* The theorems. *)

\* The scan begins with nothing collected and nothing changed.
LEMMA StartScanned ==
  ASSUME LfnInv, ScanDir
  PROVE  Scanned'
<1>1. /\ entries \in Seq(EntryTypes) /\ pos = 1 /\ lfn = Reset
      /\ st' = "scan" /\ old' = entries /\ lfn' = lfn_reset(lfn)
      /\ names' = [i \in DOMAIN entries |-> <<>>] /\ UNCHANGED <<entries, interactive, pos>>
  BY DEF LfnInv, ScanDir
<1>2. lfn' = [slot |-> -1, sum |-> 0, offs |-> <<>>, uni |-> <<>>, end |-> 0]
  BY <1>1 DEF lfn_reset, Reset
<1>3. lfn' \in State
  BY <1>2 DEF State, CheckSum
<1>4. DOMAIN entries = 1..Len(entries) /\ Len(entries) \in Nat
  BY <1>1
<1>5. Shape'
  BY <1>1, <1>3, <1>4 DEF Shape
<1>6. OneRun'
  BY <1>2 DEF OneRun, ToSet
<1>7. Unread' /\ Untouched'
  BY <1>1 DEF Unread, Untouched
<1>8. Tracked' /\ Named'
  BY <1>1, <1>4 DEF Tracked, Named
<1> QED BY <1>5, <1>6, <1>7, <1>8 DEF Scanned

\* The invariant of reading a directory.
THEOREM LfnInvariance == LfnSpec => []LfnInv
<1>1. LfnInit => LfnInv
  BY DEF LfnInit, LfnInv
<1>2. ASSUME LfnInv, LfnNext PROVE LfnInv'
  <2>1. CASE AddEntry
    BY <1>2, <2>1 DEF AddEntry, LfnInv
  <2>2. CASE ScanDir
    BY <1>2, <2>2, StartScanned DEF ScanDir, LfnInv
  <2>3. CASE AddSlot
    <3>1. Scanned
      BY <1>2, <2>3 DEF AddSlot, LfnInv
    <3>2. CASE st' = "wild"
      BY <3>2 DEF LfnInv
    <3>3. CASE st' # "wild"
      <4>1. st' = "scan"
        BY <2>3, <3>1, <3>3, SlotEffect DEF Effect, AddSlot
      <4> QED BY <2>3, <3>1, <3>3, <4>1, SlotScanned DEF LfnInv
    <3> QED BY <3>2, <3>3
  <2>4. CASE LfnGet
    BY <1>2, <2>4, GetScanned DEF LfnGet, LfnInv
  <2>5. CASE FreeEntry \/ EndOfDir
    BY <1>2, <2>5, OrphanScanned DEF FreeEntry, EndOfDir, LfnInv
  <2> QED BY <1>2, <2>1, <2>2, <2>3, <2>4, <2>5 DEF LfnNext
<1>3. ASSUME LfnInv, UNCHANGED lfnVars PROVE LfnInv'
  BY <1>3 DEF lfnVars, LfnInv, Scanned, Shape, Unread, OneRun, Tracked, Track, Touched, Named,
              Untouched
<1>4. LfnInv /\ [LfnNext]_lfnVars => LfnInv'
  BY <1>2, <1>3
<1> QED BY <1>1, <1>4, PTL DEF LfnSpec

\* lfn.c: whatever damaged names surround it and whatever the user answers, a
\* long name whose slots are in order is read as it is unless its own slots
\* were changed, and an automatic run changes none of them.
THEOREM SoundNamesKept == LfnSpec => []LongNamesKept
<1>1. LfnInv => LongNamesKept
  <2> SUFFICES ASSUME LfnInv, st = "done", NEW a \in DOMAIN old, NEW b \in DOMAIN old,
                      a < b, Proper(old, a, b)
               PROVE  /\ ~interactive => \A i \in a..b : Field(entries[i]) = Field(old[i])
                      /\ (\A i \in a..b : Field(entries[i]) = Field(old[i]))
                           => names[b] = [i \in 1..(b - a) |-> b - i]
    BY DEF LongNamesKept
  <2>1. Scanned
    BY DEF LfnInv
  <2>2. b < pos /\ a \in a..b
    BY <2>1 DEF Scanned, Shape
  <2> QED BY <2>1, <2>2 DEF Scanned, Named, Touched, Untouched
<1> QED BY <1>1, LfnInvariance, PTL
=============================================================================
