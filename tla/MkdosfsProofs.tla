--------------------------- MODULE MkdosfsProofs ---------------------------
(***************************************************************************)
(* Proofs about Mkdosfs, for every device below one GByte and every        *)
(* command line: boot.c computes from the boot sector the layout that      *)
(* mkdosfs.c had in mind, accepts it unless it is one of those Supported   *)
(* leaves out, and repairs the reserved sectors once.                      *)
(***************************************************************************)
EXTENDS Mkdosfs, ListLemmas, TLAPS

-----------------------------------------------------------------------------
(* The inductive invariant. *)

\* Command lines that main accepts, and sector sizes.
Legal == {o \in MkOptions : FatOptions(o) /\ SizeOptions(o)}
LargestSector == 32768
SectorSize == {s \in Nat : s > 0 /\ s % 512 = 0}

\* The globals of mkdosfs.c from the end of main's options on.
Stages == {"establish", "setup", "try", "atari", "finish", "check", "write", "done"}
MkState ==
  [pc : Stages, why : {"none"}, o : Legal, blocks : Nat, size_fat : {0, 12, 16, 32},
   sector_size : SectorSize, reserved : Nat, root : Nat, def_root : Nat, cl : Nat,
   secs_track : Nat, heads : Nat, nsec : Nat, clusters : Nat, fat_length : Int, bad : SUBSET Int]

\* len sectors per FAT leave room for n clusters, and the FAT has an entry for
\* each of them and the two reserved ones.
Fits(n, len, bits) ==
  /\ n \in Nat /\ len \in Nat /\ len > 0
  /\ mk.o.nr_fats * len <= FatData
  /\ n = (FatData - mk.o.nr_fats * len) \div mk.cl
  /\ n <= (len * mk.sector_size * 8) \div bits - 2

\* boot.c finds the kind of the FAT by the number of clusters.
KindFits(n, bits) ==
  ~mk.o.atari => /\ bits = 12 => n < FAT12_THRESHOLD
                 /\ bits = 16 => n >= FAT12_THRESHOLD \/ mk.o.size_fat = 16

Sized ==
  /\ mk.size_fat \in {12, 16, 32}
  /\ mk.clusters > 0 /\ (mk.o.atari => mk.size_fat # 32) =>
       /\ Fits(mk.clusters, mk.fat_length, mk.size_fat)
       /\ KindFits(mk.clusters, mk.size_fat)

\* What each stage of mkdosfs.c has settled.
Settled ==
  /\ mk.o.kind # "disk"
  /\ mk.pc # "establish" /\ GeometryGiven /\ ~mk.o.atari => mk.secs_track > 0 /\ mk.heads > 0
  /\ mk.pc \in {"establish", "setup"} => mk.sector_size <= LargestSector
  /\ mk.pc = "establish" => mk.size_fat = mk.o.size_fat
  /\ mk.pc = "setup" =>
       mk.size_fat \in {mk.o.size_fat, 32} /\ mk.cl \in 1..32 /\ mk.def_root > 0
  /\ mk.pc \notin {"establish", "setup"} =>
       /\ mk.cl \in 1..128 /\ (mk.size_fat = 32 <=> mk.root = 0)
       /\ mk.size_fat = 32 => mk.reserved >= 2
       /\ ~mk.o.atari => mk.sector_size <= LargestSector
  /\ mk.pc = "try" => ~mk.o.atari /\ mk.size_fat \in {0, 32, mk.o.size_fat}
  /\ mk.pc = "atari" => mk.o.atari /\ mk.size_fat # 0
  /\ mk.pc \in {"finish", "check", "write", "done"} => Sized
  /\ mk.pc \in {"check", "write", "done"} => mk.clusters > 0
Formatting ==
  /\ mk.pc \in Stages \cup {"start", "dead"}
  /\ mk.pc = "start" => mk = [pc |-> "start", why |-> "none"]
  /\ mk.pc \in Stages => mk \in MkState /\ Settled

\* boot.c is yet to run, or has its DOS_FS.
FsShape ==
  \/ fs.pc = "none" /\ fs.runs = 0
  \/ /\ fs.pc \in {"backup", "info", "read", "dead"} /\ fs.runs \in {1, 2} /\ fs.wrote \in BOOLEAN
     /\ fs = [pc |-> fs.pc, l |-> fs.l, b |-> fs.b, interactive |-> fs.interactive,
              wrote |-> fs.wrote, fsinfo_start |-> fs.fsinfo_start, free |-> fs.free,
              runs |-> fs.runs]

\* Nothing has been written to a file system that was not damaged.
Intact == damage = "none" /\ (fs.runs = 0 \/ Supported) => dev = Tables
Found ==
  damage = "none" /\ Supported /\ fs.runs # 0 =>
    /\ fs.pc # "dead" /\ fs.wrote = FALSE /\ fs.b = BootSector /\ fs.l = Layout(BootSector)
    /\ fs.pc \in {"backup", "info"} => mk.size_fat = 32
    /\ fs.pc = "read" /\ mk.size_fat = 32 => fs.free = mk.clusters - 1

\* The reserved sectors of a 32 bit file system, and how far an automatic run
\* has come with them: the backup first, then FSINFO.
Boot ==
  [sector_size : Int, cluster_size : Int, reserved : Int, fats : Int, dir_entries : Int,
   sectors : Int, total_sect : Int, fat_length : Int, fat32_length : Int,
   root_cluster : Int, info_sector : Int, backup_boot : Int, secs_track : Int, heads : Int]
Area ==
  /\ dev = [b |-> dev.b, kind |-> dev.kind, atari |-> dev.atari, sect |-> dev.sect]
  /\ dev.sect = [s \in 1..(mk.reserved - 1) |-> dev.sect[s]]
  /\ dev.b \in Boot /\ dev.b.reserved = mk.reserved
  /\ dev.b.fat_length = 0 /\ dev.b.fat32_length # 0
  /\ dev.b.info_sector \in {0, 1} /\ dev.b.backup_boot \in 0..(mk.reserved - 1)
HasInfo == dev.b.info_sector = 0 \/ dev.sect[dev.b.info_sector].t = "info"
Repaired ==
  /\ fs.pc \in {"backup", "info"} => fs.b = dev.b
  /\ fs.pc \in {"info", "read"} \/ fs.runs = 2 => dev.b.backup_boot # 0
  /\ fs.pc = "read" \/ fs.runs = 2 => HasInfo
  /\ fs.runs = 2 => fs.wrote = FALSE
Automatic ==
  mk.size_fat = 32 /\ Supported /\ (fs.runs = 0 \/ ~fs.interactive) => Area /\ Repaired

Checking ==
  /\ FsShape /\ Intact /\ Found /\ Automatic
  /\ mk.size_fat # 32 => damage = "none"

IInv ==
  /\ Formatting
  /\ mk.pc # "done" => fs.pc = "none" /\ fs.runs = 0 /\ damage = "none"
  /\ mk.pc = "done" => Checking

-----------------------------------------------------------------------------
(* Division and loops. *)

\* The quotient of C's integer division of positive numbers.
LEMMA DivDef ==
  ASSUME NEW a \in Int, NEW b \in Nat, b > 0
  PROVE  a \div b \in Int /\ b * (a \div b) <= a /\ a < b * (a \div b) + b
OBVIOUS

\* There is only one.
LEMMA DivUnique ==
  ASSUME NEW a \in Int, NEW b \in Nat, b > 0, NEW q \in Int, b * q <= a, a < b * q + b
  PROVE  a \div b = q
OBVIOUS

\* mkdosfs.c counts in sectors where boot.c counts in bytes.
LEMMA DivScale ==
  ASSUME NEW a \in Int, NEW b \in Nat, NEW c \in Nat, b > 0, c > 0
  PROVE  (a * c) \div (b * c) = a \div b
<1> DEFINE q == a \div b
<1>1. q \in Int /\ b * q <= a /\ a < b * q + b
  BY DivDef
<1> HIDE DEF q
<1>2. b * c \in Nat /\ b * c > 0 /\ a * c \in Int
  OBVIOUS
<1>3. (b * c) * q <= a * c
  BY <1>1
<1>4. a * c < (b * c) * q + b * c
  BY <1>1
<1> QED BY <1>1, <1>2, <1>3, <1>4, DivUnique DEF q

\* A quotient from below.
LEMMA DivAtLeast ==
  ASSUME NEW a \in Int, NEW b \in Nat, b > 0, NEW m \in Int, b * m <= a
  PROVE  m <= a \div b
<1> DEFINE q == a \div b
<1>1. q \in Int /\ a < b * q + b
  BY DivDef
<1> HIDE DEF q
<1>2. b * m < b * (q + 1)
  BY <1>1
<1>3. m < q + 1
  BY <1>1, <1>2
<1> QED BY <1>1, <1>3 DEF q

\* A quotient of naturals is a natural.
LEMMA DivNat ==
  ASSUME NEW a \in Nat, NEW b \in Nat, b > 0
  PROVE  a \div b \in Nat
BY DivDef

\* cdiv rounds up.
LEMMA CdivUp ==
  ASSUME NEW a \in Int, NEW b \in Nat, b > 0
  PROVE  Cdiv(a, b) \in Int /\ a <= Cdiv(a, b) * b /\ Cdiv(a, b) * b < a + b
<1>1. a + b - 1 \in Int
  OBVIOUS
<1> DEFINE q == (a + b - 1) \div b
<1>2. q \in Int /\ b * q <= a + b - 1 /\ a + b - 1 < b * q + b
  BY <1>1, DivDef
<1> HIDE DEF q
<1>3. q * b = b * q
  BY <1>2
<1>4. Cdiv(a, b) = q
  BY DEF Cdiv, q
<1> QED BY <1>2, <1>3, <1>4

\* The values of a loop that never leaves S lie in S.
LEMMA RoundsIn ==
  ASSUME NEW S, NEW F, NEW first \in S, NEW N \in Nat, \A x \in S : F[x] \in S
  PROVE  Rounds(F, first, N) \in S
<1> DEFINE G == [u \in Nat \X S |-> F[u[2]]]
           after[k \in 0..N] == IF k = 0 THEN first ELSE F[after[k - 1]]
<1>1. Rounds(F, first, N) = after[N]
  BY DEF Rounds
<1> HIDE DEF after
<1>2. G \in [Nat \X S -> S]
  OBVIOUS
<1> HIDE DEF G
<1>3. PICK g \in [0..N -> S] : g[0] = first /\ \A k \in 1..N : g[k] = G[<<k, g[k - 1]>>]
  <2>1. Loops(S, first, G, N) # {}
    BY <1>2, LoopExists
  <2> QED BY <2>1 DEF Loops
<1>4. ASSUME NEW k \in 1..N PROVE g[k] = F[g[k - 1]]
  <2>1. k \in Nat /\ g[k - 1] \in S
    OBVIOUS
  <2>2. G[<<k, g[k - 1]>>] = F[g[k - 1]]
    BY <2>1 DEF G
  <2> QED BY <1>3, <2>2
<1>5. g = [k \in 0..N |-> IF k = 0 THEN first ELSE F[g[k - 1]]]
  <2>1. \A k \in 0..N : k = 0 \/ k \in 1..N
    OBVIOUS
  <2> QED BY <1>3, <1>4, <2>1
<1>6. after = [k \in 0..N |-> IF k = 0 THEN first ELSE F[after[k - 1]]]
  BY <1>5, Zenon DEF after
<1> DEFINE T == {k \in Nat : k <= N => after[k] \in S}
<1>7. 0 \in T
  <2>1. 0 \in 0..N
    OBVIOUS
  <2>2. after[0] = first
    BY <1>6, <2>1, Zenon
  <2> QED BY <2>2
<1>8. ASSUME NEW k \in T PROVE k + 1 \in T
  <2>1. k \in Nat
    BY <1>8
  <2>2. ASSUME NEW j, j = k + 1, j <= N PROVE after[j] \in S
    <3>1. j \in 0..N /\ j # 0 /\ j - 1 = k /\ after[k] \in S
      BY <1>8, <2>1, <2>2
    <3>2. after[j] = F[after[j - 1]]
      BY <1>6, <3>1, Zenon
    <3> QED BY <3>1, <3>2
  <2> QED BY <2>1, <2>2
<1>9. N \in T
  <2>1. T \in SUBSET Nat
    OBVIOUS
  <2> HIDE DEF T
  <2> QED BY <1>7, <1>8, <2>1, SetInduction
<1>10. after[N] \in S
  BY <1>9
<1> QED BY <1>1, <1>10

-----------------------------------------------------------------------------
(* The layout. *)

\* The clusters there is room for are a natural number; a difference that
\* wrapped around gives more of them than any FAT has entries.
LEMMA CountRoom ==
  ASSUME mk \in MkState, mk.cl \in 1..128, NEW len \in Int
  PROVE  /\ FatData \in Int /\ mk.o.nr_fats \in 1..4 /\ Count(len) \in Nat
         /\ \/ /\ mk.o.nr_fats * len <= FatData
               /\ Count(len) = (FatData - mk.o.nr_fats * len) \div mk.cl
            \/ mk.o.nr_fats * len > FatData /\ Count(len) >= 8388608
<1>1. mk.o.nr_fats \in 1..4 /\ mk.cl \in Nat /\ mk.cl > 0
  BY DEF MkState, Legal, FatOptions
<1>2. FatData \in Int
  <2>1. /\ mk.nsec \in Int /\ mk.reserved \in Int /\ mk.root * 32 \in Int
        /\ mk.sector_size \in Nat /\ mk.sector_size > 0
    BY DEF MkState, SectorSize
  <2>2. Cdiv(mk.root * 32, mk.sector_size) \in Int
    BY <2>1, CdivUp
  <2> QED BY <2>1, <2>2 DEF FatData
<1> DEFINE p == mk.o.nr_fats * len
<1>3. p \in Int
  BY <1>1
<1> HIDE DEF p
<1>4. CASE p <= FatData
  <2>1. FatData - p \in Nat
    BY <1>2, <1>3, <1>4
  <2>2. Count(len) = (FatData - p) \div mk.cl
    BY <1>2, <1>3, <1>4 DEF Count, SubU, p
  <2>3. Count(len) \in Nat
    BY <1>1, <2>1, <2>2, DivNat
  <2> QED BY <1>1, <1>2, <1>4, <2>2, <2>3 DEF p
<1>5. CASE p > FatData
  <2>1. Count(len) = 1073741824 \div mk.cl
    BY <1>2, <1>3, <1>5 DEF Count, SubU, p
  <2>2. mk.cl * 8388608 <= 1073741824
    BY SMT
  <2>3. Count(len) \in Int /\ Count(len) >= 8388608
    BY <1>1, <2>1, <2>2, DivDef, DivAtLeast, SMT
  <2> QED BY <1>1, <1>2, <1>5, <2>3, SMT DEF p
<1> QED BY <1>2, <1>3, <1>4, <1>5

\* The test at the end of the computations for 12 and 16 bits, and of the one
\* for the Atari, is exact.
LEMMA TestFits ==
  ASSUME mk \in MkState, mk.cl \in 1..128, NEW len \in Int, NEW bits \in Nat, bits > 0,
         Count(len) <= (len * mk.sector_size * 8) \div bits - 2, Count(len) < 8388608
  PROVE  Fits(Count(len), len, bits)
<1> DEFINE ss == mk.sector_size
           e == len * ss * 8
           room == e \div bits
<1>1. ss \in Nat /\ ss > 0
  BY DEF MkState, SectorSize
<1>2. e \in Int
  BY <1>1
<1>3. room \in Int /\ bits * room <= e
  BY <1>2, DivDef
<1>4. /\ mk.o.nr_fats * len <= FatData /\ Count(len) \in Nat
      /\ Count(len) = (FatData - mk.o.nr_fats * len) \div mk.cl
  BY CountRoom, SMT
<1>5. room >= 2
  BY <1>3, <1>4
<1> HIDE DEF room, e
<1>6. e > 0
  <2>1. bits * room >= bits
    BY <1>3, <1>5
  <2> QED BY <1>2, <1>3, <2>1
<1>7. len > 0
  <2>1. ASSUME len <= 0 PROVE FALSE
    <3>1. len * ss <= 0
      BY <1>1, <2>1
    <3>2. len * ss \in Int
      BY <1>1
    <3> QED BY <1>6, <3>1, <3>2 DEF e
  <2> QED BY <2>1
<1> QED BY <1>4, <1>7 DEF Fits

\* 12 bit FATs.
LEMMA FatTwelve ==
  ASSUME mk \in MkState, mk.cl \in 1..128
  PROVE  /\ Fit12[1] \in Nat /\ Fit12[2] \in Int
         /\ Fit12[1] # 0 => Fits(Fit12[1], Fit12[2], 12) /\ Fit12[1] < FAT12_THRESHOLD
<1> DEFINE ss == mk.sector_size
           nf == mk.o.nr_fats
           c0 == (2 * (FatData * ss + nf * 3)) \div (2 * mk.cl * ss + nf * 3)
           len == Cdiv(((c0 + 2) * 3 + 1) \div 2, ss)
           room == (len * 2 * ss) \div 3
<1>1. ss \in Nat /\ ss > 0 /\ nf \in 1..4 /\ FatData \in Int /\ mk.cl \in Nat /\ mk.cl > 0
  <2>1. 0 \in Int
    OBVIOUS
  <2> QED BY <2>1, CountRoom, SMT DEF MkState, SectorSize
<1>2. c0 \in Int
  <2>1. FatData * ss \in Int /\ mk.cl * ss \in Nat
    BY <1>1
  <2>2. 2 * mk.cl * ss = 2 * (mk.cl * ss)
    BY <1>1
  <2>3. 2 * (FatData * ss + nf * 3) \in Int /\ 2 * mk.cl * ss + nf * 3 \in Nat
        /\ 2 * mk.cl * ss + nf * 3 > 0
    BY <1>1, <2>1, <2>2
  <2> QED BY <2>3, DivDef
<1>3. len \in Int
  <2>1. ((c0 + 2) * 3 + 1) \div 2 \in Int
    BY <1>2
  <2> QED BY <1>1, <2>1, CdivUp
<1>4. Fit12 = <<IF Count(len) > Least(room, MAX_CLUST_12) - 2 THEN 0 ELSE Count(len), len>>
  BY DEF Fit12
<1>5. room \in Int /\ (len * ss * 8) \div 12 = room
  <2>1. len * 2 * ss \in Int /\ len * ss * 8 = (len * 2 * ss) * 4
    BY <1>1, <1>3
  <2>2. ((len * 2 * ss) * 4) \div (3 * 4) = (len * 2 * ss) \div 3
    BY <2>1, DivScale
  <2> QED BY <2>1, <2>2
<1> HIDE DEF c0, len, room
<1>6. Count(len) \in Nat
  BY <1>3, CountRoom, SMT
<1>7. CASE ~(Count(len) > Least(room, MAX_CLUST_12) - 2)
  <2>1. Count(len) <= room - 2 /\ Count(len) <= 4078
    BY <1>5, <1>6, <1>7 DEF Least, MAX_CLUST_12
  <2>2. Count(len) < 8388608
    BY <1>6, <2>1, SMT
  <2>3. Fits(Count(len), len, 12)
    BY <1>3, <1>5, <2>1, <2>2, TestFits, SMT
  <2> QED BY <1>3, <1>4, <1>6, <1>7, <2>1, <2>3 DEF FAT12_THRESHOLD
<1> QED BY <1>3, <1>4, <1>7

\* 16 bit FATs: as many clusters as boot.c takes for 16 bits, unless -F 16.
LEMMA FatSixteen ==
  ASSUME mk \in MkState, mk.cl \in 1..128
  PROVE  /\ Fit16[1] \in Nat /\ Fit16[2] \in Int
         /\ Fit16[1] # 0 => /\ Fits(Fit16[1], Fit16[2], 16)
                            /\ Fit16[1] >= FAT12_THRESHOLD \/ Forced(16)
<1> DEFINE ss == mk.sector_size
           nf == mk.o.nr_fats
           c0 == (FatData * ss + nf * 4) \div (mk.cl * ss + nf * 2)
           len == Cdiv((c0 + 2) * 2, ss)
           room == (len * ss) \div 2
           n == IF Count(len) > Least(room, MAX_CLUST_16) - 2 THEN 0 ELSE Count(len)
<1>1. ss \in Nat /\ ss > 0 /\ nf \in 1..4 /\ FatData \in Int /\ mk.cl \in Nat /\ mk.cl > 0
  <2>1. 0 \in Int
    OBVIOUS
  <2> QED BY <2>1, CountRoom, SMT DEF MkState, SectorSize
<1>2. c0 \in Int
  <2>1. FatData * ss \in Int /\ mk.cl * ss \in Nat
    BY <1>1
  <2>2. FatData * ss + nf * 4 \in Int /\ mk.cl * ss + nf * 2 \in Nat /\ mk.cl * ss + nf * 2 > 0
    BY <1>1, <2>1
  <2> QED BY <2>2, DivDef
<1>3. len \in Int
  <2>1. (c0 + 2) * 2 \in Int
    BY <1>2
  <2> QED BY <1>1, <2>1, CdivUp
<1>4. Fit16 = <<IF n < FAT12_THRESHOLD /\ ~Forced(16) THEN 0 ELSE n, len>>
  BY DEF Fit16
<1>5. room \in Int /\ (len * ss * 8) \div 16 = room
  <2>1. len * ss \in Int /\ len * ss * 8 = (len * ss) * 8
    BY <1>1, <1>3
  <2>2. ((len * ss) * 8) \div (2 * 8) = (len * ss) \div 2
    BY <2>1, DivScale
  <2> QED BY <2>1, <2>2
<1> HIDE DEF c0, len, room
<1>6. Count(len) \in Nat
  BY <1>3, CountRoom, SMT
<1>7. n \in Nat
  BY <1>6
<1>8. ASSUME n # 0 PROVE Fits(n, len, 16)
  <2>1. Count(len) <= room - 2 /\ Count(len) < 8388608 /\ n = Count(len)
    BY <1>5, <1>6, <1>8, SMT DEF Least, MAX_CLUST_16
  <2> QED BY <1>3, <1>5, <2>1, TestFits, SMT
<1> HIDE DEF n
<1> QED BY <1>3, <1>4, <1>7, <1>8, SMT DEF FAT12_THRESHOLD

\* The clusters of a 32 bit FAT, in bytes: W for a cluster, F for all the data, L
\* for a FAT that was sized for k clusters.
LEMMA ThirtyTwoFits ==
  ASSUME NEW n \in Nat, NEW k \in Int, NEW W \in Nat, NEW F \in Int, NEW L \in Int,
         NEW nf \in 1..4, W > 0,
         F + nf * 8 < (W + nf * 4) * k + (W + nf * 4),
         4 * (k + 2) <= L, n * W <= F - nf * L
  PROVE  n <= k
<1> DEFINE p == nf * k
           q == W * k
<1>1. p \in Int /\ q \in Int
  OBVIOUS
<1>2. nf * L >= 4 * p + 8 * nf
  <2>1. nf * L >= nf * (4 * (k + 2))
    OBVIOUS
  <2>2. nf * (4 * (k + 2)) = 4 * p + 8 * nf
    OBVIOUS
  <2> QED BY <2>1, <2>2
<1>3. (W + nf * 4) * k = q + 4 * p
  OBVIOUS
<1>4. n * W < q + W
  <2>1. n * W \in Int /\ nf * L \in Int
    OBVIOUS
  <2> HIDE DEF p, q
  <2> QED BY <1>1, <1>2, <1>3, <2>1
<1>5. n * W < (k + 1) * W
  BY <1>4
<1>6. n < k + 1
  BY <1>5
<1> QED BY <1>6

\* A FAT that is larger than the data is for few clusters.
LEMMA ThirtyTwoWraps ==
  ASSUME NEW k \in Int, NEW W \in Nat, NEW F \in Int, NEW L \in Int, NEW ss \in Nat,
         NEW nf \in 1..4, ss >= 64, W >= ss,
         (W + nf * 4) * k <= F + nf * 8,
         L < 4 * (k + 2) + ss, F < nf * L
  PROVE  k < 5
<1> DEFINE p == nf * k
           q == W * k
<1>1. p \in Int /\ q \in Int
  OBVIOUS
<1>2. nf * L <= 4 * p + 8 * nf + nf * ss
  <2>1. nf * L <= nf * (4 * (k + 2) + ss)
    OBVIOUS
  <2>2. nf * (4 * (k + 2) + ss) = 4 * p + 8 * nf + nf * ss
    OBVIOUS
  <2> QED BY <2>1, <2>2
<1>3. (W + nf * 4) * k = q + 4 * p
  OBVIOUS
<1>4. nf * ss <= 4 * ss /\ nf * ss \in Int
  OBVIOUS
<1>5. q < 64 + 4 * ss
  <2>1. nf * L \in Int
    OBVIOUS
  <2> HIDE DEF p, q
  <2> QED BY <1>1, <1>2, <1>3, <1>4, <2>1
<1>6. SUFFICES ASSUME k >= 5 PROVE FALSE
  OBVIOUS
<1>7. W * k >= W * 5
  BY <1>6
<1> QED BY <1>5, <1>7

\* 32 bit FATs: their test compares with all entries of the FAT, but the size
\* the FAT was given makes room for the two reserved ones.
LEMMA FatThirtyTwo ==
  ASSUME mk \in MkState, mk.cl \in 1..128, mk.sector_size <= LargestSector
  PROVE  /\ Fit32[1] \in Nat /\ Fit32[2] \in Int
         /\ Fit32[1] # 0 => Fits(Fit32[1], Fit32[2], 32)
<1> DEFINE ss == mk.sector_size
           nf == mk.o.nr_fats
           W == mk.cl * ss
           F == FatData * ss
           k == (F + nf * 8) \div (W + nf * 4)
           len == Cdiv((k + 2) * 4, ss)
           L == len * ss
           room == L \div 4
           m == IF Count(len) < MIN_CLUST_32 /\ ~Forced(32) THEN 0 ELSE Count(len)
           n == IF m > Least(room, MAX_CLUST_32) THEN 0 ELSE m
<1>1. ss \in Nat /\ ss >= 512 /\ nf \in 1..4 /\ FatData \in Int /\ mk.cl \in Nat /\ mk.cl > 0
  <2>1. 0 \in Int
    OBVIOUS
  <2>2. ss \in Nat /\ ss > 0 /\ ss % 512 = 0
    BY DEF MkState, SectorSize
  <2>3. ss >= 512
    <3> HIDE DEF ss
    <3> QED BY <2>2
  <2> QED BY <2>1, <2>2, <2>3, CountRoom, SMT
<1>2. W \in Nat /\ W >= ss /\ F \in Int
  BY <1>1
<1> HIDE DEF W, F
<1>3. /\ k \in Int /\ (W + nf * 4) * k <= F + nf * 8
      /\ F + nf * 8 < (W + nf * 4) * k + (W + nf * 4)
  <2>1. F + nf * 8 \in Int /\ W + nf * 4 \in Nat /\ W + nf * 4 > 0
    BY <1>1, <1>2
  <2> DEFINE A == F + nf * 8
             D == W + nf * 4
  <2>2. A \in Int /\ D \in Nat /\ D > 0
    BY <2>1
  <2> HIDE DEF A, D
  <2>3. A \div D \in Int /\ D * (A \div D) <= A /\ A < D * (A \div D) + D
    BY <2>2, DivDef
  <2> QED BY <2>3 DEF A, D
<1>4. len \in Int /\ 4 * (k + 2) <= L /\ L < 4 * (k + 2) + ss
  <2>1. (k + 2) * 4 \in Int /\ (k + 2) * 4 = 4 * (k + 2)
    BY <1>3
  <2> DEFINE A == (k + 2) * 4
  <2>2. A \in Int /\ ss \in Nat /\ ss > 0
    BY <1>1, <2>1
  <2> HIDE DEF A
  <2>3. Cdiv(A, ss) \in Int /\ A <= Cdiv(A, ss) * ss /\ Cdiv(A, ss) * ss < A + ss
    BY <2>2, CdivUp
  <2> QED BY <2>1, <2>3 DEF A
<1>5. Fit32 = <<n, len>>
  BY DEF Fit32, k, F, W
<1> HIDE DEF k, len
<1>6. L \in Int
  BY <1>1, <1>4
<1>7. Count(len) \in Nat /\ m \in Nat /\ n \in Nat
  <2>1. Count(len) \in Nat
    BY <1>4, CountRoom, SMT
  <2> QED BY <2>1
<1>8. ASSUME n # 0 PROVE Fits(n, len, 32)
  <2>1. room \in Int /\ 4 * room <= L /\ L < 4 * room + 4
    BY <1>6, DivDef
  <2> HIDE DEF L, room
  <2>2. n = Count(len) /\ n <= room /\ n > 0
    BY <1>7, <1>8, <2>1, SMT DEF Least, MAX_CLUST_32
  <2> HIDE DEF n, m
  <2>3. CASE nf * len > FatData /\ Count(len) >= 8388608
    <3>1. L >= 33554432
      <4>1. n >= 8388608 /\ n \in Nat
        BY <1>7, <2>2, <2>3, SMT
      <4> QED BY <1>6, <2>1, <2>2, <4>1, SMT
    <3>2. k >= 5
      BY <1>1, <1>3, <1>4, <1>6, <3>1, SMT DEF LargestSector
    <3>3. F < nf * L
      <4>1. FatData * ss < (nf * len) * ss
        BY <1>1, <1>4, <2>3, SMT
      <4>2. (nf * len) * ss = nf * (len * ss)
        BY <1>1, <1>4
      <4> QED BY <4>1, <4>2 DEF F, L
    <3>4. k < 5
      <4>1. ss >= 64
        BY <1>1
      <4> QED BY <1>1, <1>2, <1>3, <1>4, <1>6, <3>3, <4>1, ThirtyTwoWraps
    <3> QED BY <1>3, <3>2, <3>4
  <2>4. CASE nf * len <= FatData /\ Count(len) = (FatData - nf * len) \div mk.cl
    <3>1. n * mk.cl <= FatData - nf * len
      <4>1. FatData - nf * len \in Int
        BY <1>1, <1>4
      <4>2. mk.cl * Count(len) <= FatData - nf * len
        BY <1>1, <2>4, <4>1, DivDef
      <4> QED BY <1>1, <1>7, <2>2, <4>2
    <3>2. n * W <= F - nf * L
      <4> DEFINE d == FatData - nf * len
      <4>1. d \in Int /\ n * mk.cl \in Int
        BY <1>1, <1>4, <1>7
      <4>2. (n * mk.cl) * ss <= d * ss
        <5> HIDE DEF d
        <5> QED BY <1>1, <3>1, <4>1 DEF d
      <4>3. (n * mk.cl) * ss = n * (mk.cl * ss)
        BY <1>1, <1>7
      <4>4. d * ss = FatData * ss - nf * (len * ss)
        BY <1>1, <1>4
      <4> QED BY <4>2, <4>3, <4>4 DEF W, F, L
    <3>3. n <= k
      <4>1. W > 0
        BY <1>1, <1>2
      <4>2. n \in Nat /\ k \in Int /\ W \in Nat /\ F \in Int /\ L \in Int /\ nf \in 1..4
        BY <1>1, <1>2, <1>3, <1>6, <1>7
      <4>3. F + nf * 8 < (W + nf * 4) * k + (W + nf * 4) /\ 4 * (k + 2) <= L
        BY <1>3, <1>4
      <4> HIDE DEF nf
      <4> QED BY <3>2, <4>1, <4>2, <4>3, ThirtyTwoFits, Zenon
    <3>4. (L * 8) \div 32 = room
      <4>1. (L * 8) \div (4 * 8) = L \div 4
        BY <1>6, DivScale
      <4> QED BY <4>1 DEF room
    <3>5. len > 0
      <4>1. L > 0
        BY <1>3, <1>4, <1>6, <1>7, <2>2, <3>3
      <4>2. ASSUME len <= 0 PROVE len * ss <= 0
        BY <1>1, <1>4, <4>2
      <4> QED BY <1>4, <1>6, <4>1, <4>2 DEF L
    <3>6. n <= room - 2
      BY <1>3, <1>4, <1>6, <1>7, <2>1, <3>3
    <3> QED BY <1>4, <1>7, <2>2, <2>4, <3>4, <3>5, <3>6 DEF Fits, L
  <2> QED BY <1>4, <2>3, <2>4, CountRoom, SMT
<1> QED BY <1>4, <1>5, <1>7, <1>8

\* boot.c computes the layout that mkdosfs.c has written down, in bytes.
LEMMA LayoutFound ==
  ASSUME mk \in MkState, mk.cl \in 1..128, mk.size_fat \in {12, 16, 32},
         Fits(mk.clusters, mk.fat_length, mk.size_fat),
         NEW l, l = Layout(BootSector)
  PROVE  /\ l.clusters = mk.clusters /\ l.fat_size = mk.fat_length * mk.sector_size
         /\ l.bits \in {12, 16, 32} /\ (l.bits = 32 <=> mk.size_fat = 32)
         /\ mk.size_fat # 32 /\ ~dev.atari => (l.bits = 12 <=> mk.clusters < FAT12_THRESHOLD)
         /\ mk.size_fat # 32 /\ dev.atari /\ l.bits = 16
              => mk.clusters + 2 <= (l.fat_size * 8) \div 16
         /\ mk.size_fat # 32 /\ dev.atari /\ l.bits = 12 /\ dev.kind \notin {"floppy", "loop"}
              => mk.clusters + 2 > (l.fat_size * 8) \div 16
<1> DEFINE b == BootSector
           ss == mk.sector_size
           nf == mk.o.nr_fats
           dirs == Cdiv(mk.root * 32, ss)
           total == IF b.sectors # 0 THEN b.sectors ELSE b.total_sect
           len == IF b.fat_length # 0 THEN b.fat_length ELSE b.fat32_length
           rootdir == (b.reserved + b.fats * len) * b.sector_size
           data == rootdir + MultipleOf(b.dir_entries * 32, b.sector_size)
           n == (total * b.sector_size - data) \div (b.cluster_size * b.sector_size)
           small == dev.kind = "floppy" \/ (dev.kind = "loop" /\ total \in {720, 1440, 2880})
           bits == IF b.fat_length = 0 /\ b.fat32_length # 0 THEN 32
                   ELSE IF ~dev.atari THEN IF n > MSDOS_FAT12 THEN 16 ELSE 12
                   ELSE IF n + 2 > (len * b.sector_size * 8) \div 16 \/ small THEN 12 ELSE 16
<1>1. l = [clusters |-> n, bits |-> bits, fat_size |-> len * b.sector_size, data_start |-> data]
  BY DEF Layout
<1>2. /\ b.sector_size = ss /\ b.cluster_size = mk.cl /\ b.reserved = mk.reserved
      /\ b.fats = nf /\ b.dir_entries = mk.root
      /\ b.sectors = (IF mk.nsec >= 65536 THEN 0 ELSE mk.nsec)
      /\ b.total_sect = (IF mk.nsec >= 65536 THEN mk.nsec ELSE 0)
      /\ b.fat_length = (IF mk.size_fat = 32 THEN 0 ELSE mk.fat_length)
      /\ b.fat32_length = (IF mk.size_fat = 32 THEN mk.fat_length ELSE 0)
  BY SMT DEF BootSector
<1>3. /\ ss \in Nat /\ ss > 0 /\ nf \in 1..4 /\ mk.cl \in Nat /\ mk.cl > 0 /\ mk.nsec \in Nat
      /\ mk.reserved \in Nat /\ mk.root \in Nat /\ FatData \in Int
  <2>1. 0 \in Int
    OBVIOUS
  <2> QED BY <2>1, CountRoom, SMT DEF MkState, SectorSize
<1>4. mk.fat_length \in Nat /\ mk.fat_length > 0 /\ mk.clusters \in Nat
  BY DEF Fits
<1> HIDE DEF b, ss, nf
<1>5. total = mk.nsec /\ len = mk.fat_length
  BY <1>2, <1>3, <1>4, SMT
<1> HIDE DEF total, len
<1>6. dirs \in Int /\ MultipleOf(mk.root * 32, ss) = dirs * ss
  <2>1. mk.root * 32 \in Int
    BY <1>3
  <2>2. dirs \in Int /\ mk.root * 32 <= dirs * ss /\ dirs * ss < mk.root * 32 + ss
    BY <1>3, <2>1, CdivUp
  <2>3. CASE mk.root * 32 = 0
    <3>1. dirs * ss < ss /\ dirs * ss >= 0
      BY <1>3, <2>2, <2>3
    <3>2. dirs = 0
      <4> HIDE DEF dirs
      <4> QED BY <1>3, <2>2, <3>1
    <3> QED BY <1>3, <2>3, <3>2 DEF MultipleOf
  <2>4. CASE mk.root * 32 # 0
    BY <2>2, <2>4 DEF MultipleOf
  <2> QED BY <2>2, <2>3, <2>4
<1>7. FatData = mk.nsec - dirs - mk.reserved
  BY DEF FatData, ss
<1> DEFINE left == FatData - nf * mk.fat_length
<1>8. total * ss - data = left * ss /\ left \in Int
  <2>1. data = (mk.reserved + nf * mk.fat_length) * ss + dirs * ss
    BY <1>2, <1>5, <1>6
  <2> DEFINE p == nf * mk.fat_length
  <2>2. p \in Int
    BY <1>3, <1>4
  <2> HIDE DEF p, dirs, data
  <2>3. left = mk.nsec - dirs - mk.reserved - p
    BY <1>7 DEF p
  <2>4. data = (mk.reserved + p) * ss + dirs * ss
    BY <2>1 DEF p
  <2>5. mk.nsec * ss - ((mk.reserved + p) * ss + dirs * ss) = (mk.nsec - dirs - mk.reserved - p) * ss
    BY <1>3, <1>6, <2>2
  <2> QED BY <1>3, <1>5, <1>6, <2>2, <2>3, <2>4, <2>5
<1>9. n = mk.clusters
  <2>1. mk.clusters = left \div mk.cl
    BY DEF Fits, nf
  <2> HIDE DEF left, data
  <2>2. (left * ss) \div (mk.cl * ss) = left \div mk.cl
    BY <1>3, <1>8, DivScale
  <2> QED BY <1>2, <1>8, <2>1, <2>2
<1>13. small => dev.kind \in {"floppy", "loop"}
  OBVIOUS
<1> HIDE DEF n, small
<1>10. /\ bits \in {12, 16, 32} /\ (bits = 32 <=> mk.size_fat = 32)
       /\ mk.size_fat # 32 /\ ~dev.atari => (bits = 12 <=> mk.clusters < FAT12_THRESHOLD)
  BY <1>2, <1>4, <1>9, SMT DEF MSDOS_FAT12, FAT12_THRESHOLD
<1>11. /\ mk.size_fat # 32 /\ dev.atari /\ bits = 16
            => mk.clusters + 2 <= (mk.fat_length * ss * 8) \div 16
       /\ mk.size_fat # 32 /\ dev.atari /\ bits = 12 /\ dev.kind \notin {"floppy", "loop"}
            => mk.clusters + 2 > (mk.fat_length * ss * 8) \div 16
  <2> DEFINE e == (mk.fat_length * ss * 8) \div 16
  <2>1. e \in Int
    <3>1. mk.fat_length * ss \in Int
      BY <1>3, <1>4
    <3> QED BY <3>1
  <2>2. (len * b.sector_size * 8) \div 16 = e
    BY <1>2, <1>5
  <2> HIDE DEF e
  <2>3. mk.size_fat # 32 /\ dev.atari /\ bits = 16 => ~(mk.clusters + 2 > e)
    BY <1>2, <1>4, <1>9, <2>2
  <2>4. mk.size_fat # 32 /\ dev.atari /\ bits = 12 /\ dev.kind \notin {"floppy", "loop"}
          => mk.clusters + 2 > e
    BY <1>2, <1>4, <1>9, <1>13, <2>2
  <2> QED BY <1>4, <2>1, <2>3, <2>4 DEF e
<1> HIDE DEF bits, data
<1>12. /\ l.clusters = mk.clusters /\ l.fat_size = mk.fat_length * ss /\ l.bits = bits
  BY <1>1, <1>2, <1>5, <1>9
<1> QED BY <1>10, <1>11, <1>12 DEF ss

-----------------------------------------------------------------------------
(* mkdosfs.c. *)

\* A fatal error ends the run.
LEMMA Dies ==
  ASSUME mk.pc = "start" \/ mk \in MkState, NEW why, MkDie(why),
         mk.pc = "start" => mk = [pc |-> "start", why |-> "none"]
  PROVE  Formatting' /\ mk'.pc = "dead"
<1>1. mk'.pc = "dead"
  BY DEF MkDie, MkState
<1> QED BY <1>1 DEF Formatting, Stages

\* count_blocks returns a number of blocks.
LEMMA BlocksNat ==
  ASSUME NEW n \in Nat, NEW seekable \in BOOLEAN
  PROVE  count_blocks(n, seekable) \in Nat
<1>1. ASSUME NEW r \in Nat \X Nat PROVE Search(n)[r] \in Nat \X Nat
  <2> DEFINE low == r[1]
             high == r[2]
             mid == (low + high) \div 2
  <2>1. low \in Nat /\ high \in Nat /\ high * 2 \in Nat /\ mid \in Nat
    OBVIOUS
  <2>2. Search(n)[r] \in {<<high, high * 2>>, r, <<mid, high>>, <<low, mid>>}
    BY DEF Search
  <2> HIDE DEF low, high, mid
  <2> QED BY <2>1, <2>2
<1>2. SEARCH_ROUNDS \in Nat /\ <<0, 1>> \in Nat \X Nat
  BY DEF SEARCH_ROUNDS
<1> DEFINE r == Rounds(Search(n), <<0, 1>>, SEARCH_ROUNDS)
<1>3. r \in Nat \X Nat
  BY <1>1, <1>2, RoundsIn
<1> HIDE DEF r
<1>4. r[1] + 1 \in Nat
  BY <1>3
<1>5. n \div 1024 \in Nat /\ (r[1] + 1) \div 1024 \in Nat
  BY <1>4, SMT
<1> QED BY <1>5, SMT DEF count_blocks, r, BLOCK_SIZE

\* The options are numbers, and legal ones are in range.
LEMMA OptionTypes ==
  ASSUME NEW o \in MkOptions
  PROVE  /\ o.size \in Nat /\ o.nr_fats \in Nat /\ o.size_fat \in Nat /\ o.root \in Nat
         /\ o.sectors_per_cluster \in Nat /\ o.reserved \in Nat /\ o.sector_size \in Nat
         /\ o.atari \in BOOLEAN /\ o.bad \in Int
         /\ SizeOptions(o) => /\ o.sector_size \in SectorSize /\ o.sector_size <= LargestSector
                              /\ o.sectors_per_cluster \in 0..128
<1>1. o \in CommandLine
  BY MkAssumption, Zenon
<1>2. /\ o.size \in 0..(ONE_GBYTE - 1) /\ o.nr_fats \in Nat /\ o.size_fat \in Nat /\ o.root \in Nat
      /\ o.sectors_per_cluster \in Nat /\ o.reserved \in Nat /\ o.sector_size \in Nat
      /\ o.atari \in BOOLEAN /\ o.bad \in Int
  BY <1>1 DEF CommandLine
<1>3. o.size \in Nat
  <2>1. o.size \in 0..(ONE_GBYTE - 1)
    BY <1>2
  <2>2. ONE_GBYTE - 1 \in Int
    BY SMT DEF ONE_GBYTE
  <2> QED BY <2>1, <2>2
<1>4. ASSUME SizeOptions(o)
      PROVE  /\ o.sector_size \in SectorSize /\ o.sector_size <= LargestSector
             /\ o.sectors_per_cluster \in 0..128
  <2> DEFINE s == o.sector_size
             c == o.sectors_per_cluster
  <2>1. s \in SectorSizes /\ c \in ClusterSizes \cup {0}
    BY <1>4, SMT DEF SizeOptions
  <2> HIDE DEF s, c
  <2>2. s % 512 = 0
    BY <2>1, SMT DEF SectorSizes
  <2>3. s \in Nat /\ s > 0 /\ s <= LargestSector
    BY <2>1, SMT DEF LargestSector, SectorSizes
  <2>4. c \in 0..128
    BY <2>1, SMT DEF ClusterSizes
  <2> QED BY <2>2, <2>3, <2>4 DEF s, c, SectorSize
<1> QED BY <1>2, <1>3, <1>4

\* main reads its options.
LEMMA KeepParse ==
  ASSUME mk = [pc |-> "start", why |-> "none"], ParseOptions
  PROVE  Formatting' /\ mk'.pc # "done"
<1>1. PICK o \in MkOptions, seekable \in BOOLEAN :
        IF ~FatOptions(o) \/ ~SizeOptions(o) THEN MkDie("usage")
        ELSE IF o.kind = "disk" THEN MkDie("full disk")
        ELSE mk' = [pc |-> "establish", why |-> "none", o |-> o,
                    blocks |-> count_blocks(o.size * BLOCK_SIZE, seekable),
                    size_fat |-> o.size_fat, sector_size |-> o.sector_size,
                    reserved |-> o.reserved, root |-> o.root, def_root |-> 0,
                    secs_track |-> 0, heads |-> 0,
                    cl |-> 0, nsec |-> 0, clusters |-> 0, fat_length |-> 0, bad |-> {}]
  BY DEF ParseOptions
<1>2. ASSUME NEW why, MkDie(why) PROVE Formatting' /\ mk'.pc # "done"
  <2>1. mk.pc = "start"
    OBVIOUS
  <2>2. Formatting' /\ mk'.pc = "dead"
    BY <1>2, <2>1, Dies
  <2> QED BY <2>2
<1>3. CASE ~FatOptions(o) \/ ~SizeOptions(o)
  BY <1>1, <1>2, <1>3, Zenon
<1>4. CASE o.kind = "disk"
  BY <1>1, <1>2, <1>3, <1>4, Zenon
<1>5. CASE FatOptions(o) /\ SizeOptions(o) /\ o.kind # "disk"
  <2>1. /\ o \in Legal /\ o.size \in Nat /\ o.root \in Nat /\ o.reserved \in Nat
        /\ o.size_fat \in {0, 12, 16, 32}
    BY <1>5, OptionTypes DEF Legal, FatOptions
  <2>2. o.sector_size \in SectorSize /\ o.sector_size <= LargestSector
    BY <1>5, OptionTypes
  <2> DEFINE blocks == count_blocks(o.size * BLOCK_SIZE, seekable)
  <2>3. blocks \in Nat
    <3>1. o.size * BLOCK_SIZE \in Nat
      BY <2>1, SMT DEF BLOCK_SIZE
    <3> QED BY <3>1, BlocksNat, SMT
  <2>4. mk' = [pc |-> "establish", why |-> "none", o |-> o, blocks |-> blocks,
               size_fat |-> o.size_fat, sector_size |-> o.sector_size,
               reserved |-> o.reserved, root |-> o.root, def_root |-> 0,
               secs_track |-> 0, heads |-> 0,
               cl |-> 0, nsec |-> 0, clusters |-> 0, fat_length |-> 0, bad |-> {}]
    BY <1>1, <1>5, Zenon
  <2> HIDE DEF blocks
  <2>5. mk' \in MkState /\ mk'.pc = "establish"
    BY <2>1, <2>2, <2>3, <2>4, SMT DEF MkState, Stages
  <2>6. mk'.sector_size <= LargestSector /\ mk'.size_fat = mk'.o.size_fat /\ mk'.o.kind # "disk"
    BY <1>5, <2>2, <2>4, SMT
  <2> QED BY <2>5, <2>6 DEF Formatting, Settled, Stages
<1> QED BY <1>3, <1>4, <1>5

\* establish_params.
LEMMA KeepEstablish ==
  ASSUME Formatting, EstablishParams
  PROVE  Formatting' /\ mk'.pc # "done"
<1> DEFINE bits == AutoBits
           p    == Params
           g    == Geometry
<1>1. mk.pc = "establish" /\ mk \in MkState /\ Settled
  BY DEF EstablishParams, Formatting, Stages
<1>2. CASE MkDie("diskette geometry")
  <2>1. Formatting' /\ mk'.pc = "dead"
    BY <1>1, <1>2, Dies, Zenon
  <2> QED BY <2>1
<1>3. CASE mk' = [mk EXCEPT !.pc = "setup", !.size_fat = bits, !.secs_track = g[1], !.heads = g[2],
                            !.cl = p.cluster_size, !.def_root = p.root]
  <2>1. bits \in {mk.size_fat, 32}
    BY DEF AutoBits
  <2>2. p.cluster_size \in 1..32 /\ p.root \in Nat /\ p.root > 0
    <3>1. ASSUME NEW n
          PROVE  /\ FloppyParams(n).cluster_size \in {1, 2} /\ FloppyParams(n).root \in {112, 224}
                 /\ HdParams(n).cluster_size \in {1, 4, 8, 16, 32} /\ HdParams(n).root = 512
      BY SMT DEF FloppyParams, HdParams
    <3> QED BY <3>1, SMT DEF Params
  <2>3. /\ g[1] \in Nat /\ g[2] \in Nat
        /\ GeometryGiven /\ ~mk.o.atari => g[1] > 0 /\ g[2] > 0
    <3>1. /\ mk.o.kind \in {"image", "hd", "disk", "floppy", "loop"}
          /\ mk.o.sect \in Nat /\ mk.o.head \in Nat
      <4>1. mk.o \in CommandLine
        BY <1>1, MkAssumption DEF MkState, Legal
      <4>2. mk.o.sect \in 0..255 /\ mk.o.head \in 0..255
        BY <4>1 DEF CommandLine
      <4> QED BY <4>1, <4>2 DEF CommandLine
    <3>2. mk.o.kind # "disk"
      BY <1>1 DEF Settled
    <3>3. CASE mk.o.kind \in {"image", "loop"}
      <4>1. LikeFloppy => DeviceSectors \in {720, 1440, 2400, 2880, 5760}
        BY <3>3 DEF LikeFloppy, FloppySizes
      <4> QED BY <3>3, <4>1, SMT DEF Geometry
    <3>4. CASE mk.o.kind \in {"hd", "floppy"}
      BY <3>1, <3>4, SMT DEF Geometry, GeometryGiven
    <3> QED BY <3>1, <3>2, <3>3, <3>4
  <2> HIDE DEF bits, p, g
  <2>4. mk' \in MkState /\ mk'.pc = "setup"
    <3>1. /\ "setup" \in Stages /\ bits \in {0, 12, 16, 32} /\ p.cluster_size \in Nat
          /\ p.root \in Nat
      BY <1>1, <2>1, <2>2 DEF MkState, Stages
    <3> QED BY <1>1, <1>3, <2>3, <3>1 DEF MkState
  <2>5. /\ mk'.secs_track = g[1] /\ mk'.heads = g[2]
        /\ mk'.sector_size = mk.sector_size /\ mk'.o = mk.o /\ mk'.size_fat = bits
        /\ mk'.cl = p.cluster_size /\ mk'.def_root = p.root
    BY <1>1, <1>3, SMT DEF MkState
  <2> QED BY <1>1, <2>1, <2>2, <2>3, <2>4, <2>5 DEF Formatting, Settled, GeometryGiven, Stages
<1> QED BY <1>2, <1>3 DEF EstablishParams

\* GEMDOS sectors grow until there are few enough of them.
LEMMA GemdosKeeps ==
  ASSUME NEW r \in Nat \X SectorSize
  PROVE  Gemdos[r] \in Nat \X SectorSize
<1>1. r \in Nat \X Nat /\ r[1] \in Nat /\ r[2] \in Nat /\ r[2] > 0 /\ r[2] % 512 = 0
  BY DEF SectorSize
<1> DEFINE s == r[2]
<1>2. s * 2 \in Nat /\ s * 2 > 0 /\ (s * 2) % 512 = 0
  <2>1. s \in Nat /\ s > 0 /\ s % 512 = 0
    BY <1>1
  <2> HIDE DEF s
  <2> QED BY <2>1
<1>3. r[1] \div 2 \in Nat
  BY <1>1
<1>4. Gemdos[r] \in {<<r[1] \div 2, s * 2>>, r}
  BY <1>1, SMT DEF Gemdos
<1> QED BY <1>2, <1>3, <1>4 DEF SectorSize

\* setup_tables, its first part.
LEMMA KeepSetup ==
  ASSUME Formatting, SetupTables
  PROVE  Formatting' /\ mk'.pc # "done"
<1> DEFINE root == IF mk.size_fat = 32 THEN 0 ELSE IF mk.root # 0 THEN mk.root ELSE mk.def_root
           res  == IF mk.reserved # 0 THEN mk.reserved ELSE IF mk.size_fat = 32 THEN 32 ELSE 1
           n    == Sectors(mk.sector_size)
           bits == IF ~mk.o.atari \/ mk.size_fat # 0 THEN mk.size_fat
                   ELSE IF n \in {1440, 2400, 2880, 5760} THEN 12 ELSE 16
           geo  == IF mk.o.atari /\ ~mk.o.sector_size_set
                   THEN Rounds(Gemdos, <<n, mk.sector_size>>, SEARCH_ROUNDS) ELSE <<n, mk.sector_size>>
           spc  == mk.o.sectors_per_cluster
           cl   == IF spc # 0 THEN spc ELSE IF mk.o.atari THEN 2 ELSE mk.cl
           pc   == IF mk.o.atari THEN "atari" ELSE "try"
<1>1. mk.pc = "setup" /\ mk \in MkState /\ Settled
  BY DEF SetupTables, Formatting, Stages
<1>2. IF mk.size_fat = 32 /\ res < 2 THEN MkDie("reserved")
      ELSE mk' = [mk EXCEPT !.pc = pc, !.root = root, !.reserved = res, !.size_fat = bits,
                            !.nsec = geo[1], !.sector_size = geo[2], !.cl = cl]
  <2>1. mk = [mk EXCEPT !.cl = mk.cl]
    BY <1>1 DEF MkState
  <2> QED BY <1>1, SMT DEF SetupTables, MkState
<1>3. /\ mk.o \in Legal /\ mk.size_fat \in {0, 12, 16, 32} /\ mk.sector_size \in SectorSize
      /\ mk.blocks \in Nat /\ mk.reserved \in Nat /\ mk.root \in Nat
      /\ mk.def_root \in Nat /\ mk.def_root > 0 /\ mk.cl \in 1..32
      /\ mk.size_fat \in {mk.o.size_fat, 32} /\ mk.sector_size <= LargestSector
  BY <1>1 DEF MkState, Settled, GeometryGiven
<1>4. n \in Nat
  <2>1. mk.blocks * BLOCK_SIZE \in Nat /\ mk.sector_size \in Nat /\ mk.sector_size > 0
    BY <1>3 DEF BLOCK_SIZE, SectorSize
  <2> QED BY <2>1, DivNat DEF Sectors
<1>5. geo \in Nat \X SectorSize /\ (~mk.o.atari => geo[2] = mk.sector_size)
  <2> DEFINE first == <<n, mk.sector_size>>
  <2>1. first \in Nat \X SectorSize /\ first[2] = mk.sector_size
    BY <1>3, <1>4
  <2>2. Rounds(Gemdos, first, SEARCH_ROUNDS) \in Nat \X SectorSize
    <3>1. SEARCH_ROUNDS \in Nat
      BY DEF SEARCH_ROUNDS
    <3>2. \A r \in Nat \X SectorSize : Gemdos[r] \in Nat \X SectorSize
      BY GemdosKeeps
    <3> HIDE DEF first
    <3> QED BY <2>1, <3>1, <3>2, RoundsIn
  <2> HIDE DEF first
  <2> QED BY <2>1, <2>2, Zenon DEF first
<1>6. /\ bits \in {0, 12, 16, 32} /\ (~mk.o.atari => bits = mk.size_fat)
      /\ (mk.o.atari => bits # 0) /\ (bits = 32 <=> mk.size_fat = 32)
  <2> HIDE DEF n
  <2> QED BY <1>3
<1>7. root \in Nat /\ res \in Nat /\ (mk.size_fat = 32 <=> root = 0)
  BY <1>3
<1>8. cl \in 1..128
  <2>1. spc \in 0..128
    BY <1>3, OptionTypes DEF Legal
  <2> HIDE DEF spc
  <2> QED BY <1>3, <2>1
<1>9. pc \in Stages /\ pc # "done" /\ (pc = "try" <=> ~mk.o.atari) /\ (pc = "atari" <=> mk.o.atari)
      /\ pc \in {"try", "atari"}
  BY Zenon DEF Stages
<1>10. CASE mk.size_fat = 32 /\ res < 2
  <2>1. Formatting' /\ mk'.pc = "dead"
    BY <1>1, <1>2, <1>10, Dies, Zenon
  <2> QED BY <2>1
<1>11. CASE ~(mk.size_fat = 32 /\ res < 2)
  <2>1. mk' = [mk EXCEPT !.pc = pc, !.root = root, !.reserved = res, !.size_fat = bits,
                         !.nsec = geo[1], !.sector_size = geo[2], !.cl = cl]
    BY <1>2, <1>11, Zenon
  <2>2. geo[1] \in Nat /\ geo[2] \in SectorSize /\ cl \in Nat
    BY <1>5, <1>8
  <2>3. mk.size_fat = 32 => res >= 2
    BY <1>7, <1>11
  <2> HIDE DEF pc, root, res, bits, geo, cl
  <2>4. mk' \in MkState /\ mk'.pc = pc
    BY <1>1, <1>6, <1>7, <1>9, <2>1, <2>2 DEF MkState
  <2>5. /\ mk'.root = root /\ mk'.reserved = res /\ mk'.size_fat = bits
        /\ mk'.sector_size = geo[2] /\ mk'.cl = cl /\ mk'.o = mk.o /\ mk'.secs_track = mk.secs_track /\ mk'.heads = mk.heads
    BY <1>1, <2>1 DEF MkState
  <2>6. Settled'
    <3>1. /\ mk'.cl \in 1..128 /\ (mk'.size_fat = 32 <=> mk'.root = 0)
          /\ mk'.size_fat = 32 => mk'.reserved >= 2
      BY <1>6, <1>7, <1>8, <2>3, <2>5
    <3>2. ~mk'.o.atari => mk'.sector_size <= LargestSector
      BY <1>3, <1>5, <2>5
    <3>3. mk'.pc = "try" => ~mk'.o.atari /\ mk'.size_fat \in {0, 32, mk'.o.size_fat}
      BY <1>3, <1>6, <1>9, <2>4, <2>5
    <3>4. mk'.pc = "atari" => mk'.o.atari /\ mk'.size_fat # 0
      BY <1>6, <1>9, <2>4, <2>5
    <3>5. /\ mk'.o.kind # "disk"
          /\ GeometryGiven' /\ ~mk'.o.atari => mk'.secs_track > 0 /\ mk'.heads > 0
      <4>1. GeometryGiven' = GeometryGiven
        BY <2>5, Zenon DEF GeometryGiven
      <4>2. /\ mk.o.kind # "disk"
            /\ GeometryGiven /\ ~mk.o.atari => mk.secs_track > 0 /\ mk.heads > 0
        BY <1>1 DEF Settled
      <4> QED BY <2>5, <4>1, <4>2
    <3> QED BY <1>9, <2>4, <3>1, <3>2, <3>3, <3>4, <3>5 DEF Settled
  <2> QED BY <1>9, <2>4, <2>6 DEF Formatting
<1> QED BY <1>10, <1>11

\* The number of clusters and the length of a FAT, once found, go with the rest.
LEMMA SizedNow ==
  ASSUME mk \in MkState, mk.cl \in 1..128, NEW n \in Nat, NEW len \in Int, NEW bits \in {12, 16, 32},
         n > 0 /\ (mk.o.atari => bits # 32) => Fits(n, len, bits) /\ KindFits(n, bits),
         mk' = [mk EXCEPT !.pc = "finish", !.size_fat = bits, !.clusters = n, !.fat_length = len],
         bits = 32 <=> mk.root = 0, bits = 32 => mk.reserved >= 2, Settled, mk.pc \in {"try", "atari"},
         ~mk.o.atari => mk.sector_size <= LargestSector
  PROVE  Formatting' /\ mk'.pc # "done"
<1>1. mk' \in MkState /\ mk'.pc = "finish"
  <2>1. "finish" \in Stages /\ bits \in {0, 12, 16, 32}
    BY DEF Stages
  <2> QED BY <2>1 DEF MkState
<1>2. /\ mk'.o = mk.o /\ mk'.secs_track = mk.secs_track /\ mk'.heads = mk.heads
      /\ mk'.cl = mk.cl /\ mk'.sector_size = mk.sector_size /\ mk'.root = mk.root
      /\ mk'.reserved = mk.reserved /\ mk'.nsec = mk.nsec
      /\ mk'.size_fat = bits /\ mk'.clusters = n /\ mk'.fat_length = len
  BY DEF MkState
<1>3. FatData' = FatData
  BY <1>2, Zenon DEF FatData
<1>4. Sized'
  <2>1. Fits(n, len, bits) => Fits(mk.clusters, mk.fat_length, mk.size_fat)'
    BY <1>2, <1>3 DEF Fits
  <2>2. KindFits(n, bits) => KindFits(mk.clusters, mk.size_fat)'
    BY <1>2 DEF KindFits
  <2> QED BY <1>2, <2>1, <2>2 DEF Sized
<1> QED BY <1>1, <1>2, <1>4 DEF Formatting, Settled, GeometryGiven, Stages

\* setup_tables, the search for a cluster size.
LEMMA KeepTry ==
  ASSUME Formatting, TryClusterSize
  PROVE  Formatting' /\ mk'.pc # "done"
<1> DEFINE max  == IF mk.o.sectors_per_cluster # 0 THEN mk.o.sectors_per_cluster ELSE 128
           fits == \/ Fit12[1] # 0 /\ mk.size_fat \in {0, 12}
                   \/ Fit16[1] # 0 /\ mk.size_fat \in {0, 16}
                   \/ Fit32[1] # 0 /\ mk.size_fat = 32
           bits == IF mk.size_fat # 0 THEN mk.size_fat ELSE IF Fit16[1] > Fit12[1] THEN 16 ELSE 12
           f    == CASE bits = 12 -> Fit12 [] bits = 16 -> Fit16 [] OTHER -> Fit32
           few  == bits = 16 /\ f[1] < FAT12_THRESHOLD /\ mk.o.size_fat = 0
<1>1. mk.pc = "try" /\ mk \in MkState /\ Settled
  BY DEF TryClusterSize, Formatting, Stages
<1>2. IF ~fits /\ mk.cl * 2 <= max THEN mk' = [mk EXCEPT !.cl = mk.cl * 2]
      ELSE IF few THEN MkDie("unfortunate size")
      ELSE mk' = [mk EXCEPT !.pc = "finish", !.size_fat = bits,
                            !.clusters = f[1], !.fat_length = f[2]]
  <2> HIDE DEF fits, bits, f
  <2> QED BY <1>1, Zenon DEF TryClusterSize, fits, bits, f
<1>3. /\ mk.o \in Legal /\ ~mk.o.atari /\ mk.size_fat \in {0, 12, 16, 32}
      /\ mk.cl \in 1..128 /\ mk.sector_size <= LargestSector
      /\ (mk.size_fat = 32 <=> mk.root = 0) /\ (mk.size_fat = 32 => mk.reserved >= 2)
      /\ mk.size_fat \in {0, 32, mk.o.size_fat}
  BY <1>1, Zenon DEF MkState, Settled, GeometryGiven
<1>4. CASE ~fits /\ mk.cl * 2 <= max
  <2>1. mk' = [mk EXCEPT !.cl = mk.cl * 2]
    BY <1>2, <1>4, Zenon
  <2>2. max <= 128 /\ max \in Nat
    <3>1. mk.o.sectors_per_cluster \in 0..128
      BY <1>3, OptionTypes DEF Legal
    <3> QED BY <3>1
  <2>3. mk.cl * 2 \in 1..128
    BY <1>3, <1>4, <2>2
  <2> DEFINE c == mk.cl * 2
  <2>4. mk' \in MkState /\ mk'.cl = c
    <3>1. c \in Nat
      BY <2>3
    <3> HIDE DEF c
    <3> QED BY <1>1, <2>1, <3>1 DEF MkState, c
  <2>5. /\ mk'.pc = mk.pc /\ mk'.o = mk.o /\ mk'.secs_track = mk.secs_track /\ mk'.heads = mk.heads
      /\ mk'.sector_size = mk.sector_size /\ mk'.root = mk.root
        /\ mk'.size_fat = mk.size_fat /\ mk'.reserved = mk.reserved
    BY <1>1, <2>1 DEF MkState
  <2>6. Settled'
    BY <1>1, <1>3, <2>3, <2>4, <2>5 DEF Settled, GeometryGiven
  <2> QED BY <1>1, <2>4, <2>5, <2>6 DEF Formatting, Stages
<1>5. CASE few
  <2>1. CASE ~(~fits /\ mk.cl * 2 <= max)
    <3>1. MkDie("unfortunate size")
      BY <1>2, <1>5, <2>1, Zenon
    <3>2. Formatting' /\ mk'.pc = "dead"
      BY <1>1, <3>1, Dies, Zenon
    <3> QED BY <3>2
  <2> QED BY <1>4, <2>1
<1>6. CASE ~(~fits /\ mk.cl * 2 <= max) /\ ~few
  <2>1. mk' = [mk EXCEPT !.pc = "finish", !.size_fat = bits,
                         !.clusters = f[1], !.fat_length = f[2]]
    BY <1>2, <1>6, Zenon
  <2>2. bits \in {12, 16, 32} /\ (bits = 32 <=> mk.size_fat = 32)
    BY <1>3
  <2> HIDE DEF bits
  <2>3. f[1] \in Nat /\ f[2] \in Int /\ (f[1] > 0 => Fits(f[1], f[2], bits) /\ KindFits(f[1], bits))
    <3>1. CASE bits = 12
      <4>1. f = Fit12
        BY <3>1
      <4> QED BY <1>1, <1>3, <3>1, <4>1, FatTwelve DEF KindFits
    <3>2. CASE bits = 16
      <4>1. f = Fit16
        BY <3>2
      <4> QED BY <1>1, <1>3, <3>2, <4>1, FatSixteen DEF KindFits, Forced
    <3>3. CASE bits = 32
      <4>1. f = Fit32
        BY <3>3
      <4> QED BY <1>1, <1>3, <3>3, <4>1, FatThirtyTwo DEF KindFits
    <3> QED BY <2>2, <3>1, <3>2, <3>3
  <2> HIDE DEF f
  <2> QED BY <1>1, <1>3, <2>1, <2>2, <2>3, SizedNow, Zenon
<1> QED BY <1>4, <1>5, <1>6

\* setup_tables, the search for a sector size.
LEMMA KeepAtari ==
  ASSUME Formatting, TryAtari
  PROVE  Formatting' /\ mk'.pc # "done"
<1> DEFINE b   == mk.size_fat
           nf  == mk.o.nr_fats
           ss  == mk.sector_size
           c0  == (2 * (FatData * ss - (2 * nf * b) \div 8)) \div (2 * (mk.cl * ss + (nf * b) \div 8))
           len == Cdiv(((c0 + 2) * b) \div 8, ss)
           max == (len * ss * 8) \div b
           lim == CASE b = 32 -> MAX_CLUST_32 [] b = 16 -> MAX_CLUST_16 [] b = 12 -> MAX_CLUST_12
           fits == max <= lim /\ Count(len) <= max - 2
           stop == fits \/ mk.o.sector_size_set \/ mk.sector_size * 2 > GEMDOS_MAX_SECTOR_SIZE
<1>1. mk.pc = "atari" /\ mk \in MkState /\ Settled
  <2>1. mk.pc = "atari"
    BY DEF TryAtari
  <2> QED BY <2>1 DEF Formatting, Stages
<1>2. IF fits /\ mk.sector_size <= GEMDOS_MAX_SECTOR_SIZE
      THEN mk' = [mk EXCEPT !.pc = "finish", !.clusters = Count(len), !.fat_length = len]
      ELSE IF stop THEN MkDie("sector size")
      ELSE mk' = [mk EXCEPT !.nsec = mk.nsec \div 2, !.sector_size = mk.sector_size * 2]
  BY <1>1, Zenon DEF TryAtari
<1> HIDE DEF stop
<1>3. /\ mk.o \in Legal /\ mk.o.atari /\ b \in {12, 16, 32} /\ mk.nsec \in Nat
      /\ mk.cl \in 1..128 /\ ss \in Nat /\ ss > 0 /\ ss % 512 = 0
      /\ (b = 32 <=> mk.root = 0) /\ (b = 32 => mk.reserved >= 2)
  BY <1>1 DEF MkState, Settled, GeometryGiven, SectorSize
<1>4. c0 \in Int
  <2>1. FatData \in Int /\ nf \in 1..4
    <3>1. 0 \in Int
      OBVIOUS
    <3> QED BY <1>1, <1>3, <3>1, CountRoom, SMT
  <2>2. FatData * ss \in Int /\ mk.cl * ss \in Nat /\ mk.cl * ss > 0
    BY <1>3, <2>1
  <2>3. nf * b \in Nat /\ 2 * nf * b \in Nat
    BY <1>3, <2>1
  <2>4. (nf * b) \div 8 \in Nat /\ (2 * nf * b) \div 8 \in Nat
    BY <2>3, DivNat
  <2>5. /\ 2 * (FatData * ss - (2 * nf * b) \div 8) \in Int
        /\ 2 * (mk.cl * ss + (nf * b) \div 8) \in Nat /\ 2 * (mk.cl * ss + (nf * b) \div 8) > 0
    <3> DEFINE x == FatData * ss
               y == mk.cl * ss
               u == (2 * nf * b) \div 8
               v == (nf * b) \div 8
    <3>1. x \in Int /\ y \in Nat /\ y > 0 /\ u \in Nat /\ v \in Nat
      BY <2>2, <2>4
    <3> HIDE DEF x, y, u, v
    <3>2. 2 * (x - u) \in Int /\ 2 * (y + v) \in Nat /\ 2 * (y + v) > 0
      BY <3>1
    <3> QED BY <3>2 DEF x, y, u, v
  <2> QED BY <2>5, DivDef
<1> HIDE DEF c0
<1>5. len \in Int
  <2>1. (c0 + 2) * b \in Int
    BY <1>3, <1>4
  <2>2. ((c0 + 2) * b) \div 8 \in Int
    BY <2>1, DivDef
  <2> QED BY <1>3, <2>2, CdivUp
<1> HIDE DEF len
<1>6. Count(len) \in Nat
  BY <1>1, <1>3, <1>5, CountRoom, SMT
<1>7. CASE fits /\ mk.sector_size <= GEMDOS_MAX_SECTOR_SIZE
  <2>1. mk' = [mk EXCEPT !.pc = "finish", !.size_fat = b, !.clusters = Count(len), !.fat_length = len]
    <3>1. mk' = [mk EXCEPT !.pc = "finish", !.clusters = Count(len), !.fat_length = len]
      BY <1>2, <1>7, Zenon
    <3> QED BY <1>1, <3>1 DEF MkState
  <2>2. ASSUME b \in {12, 16} PROVE Fits(Count(len), len, b)
    <3>1. lim \in {4080, 65520}
      BY <2>2, SMT DEF MAX_CLUST_12, MAX_CLUST_16
    <3>2. max \in Int
      <4>1. len * ss * 8 \in Int
        BY <1>3, <1>5
      <4> QED BY <1>3, <4>1, DivDef
    <3> HIDE DEF lim, max
    <3>3. max <= 65520 /\ Count(len) <= max - 2
      BY <1>7, <3>1, <3>2, SMT
    <3>4. Count(len) < 8388608
      BY <1>6, <3>2, <3>3, SMT
    <3>5. Count(len) <= (len * mk.sector_size * 8) \div b - 2
      BY <2>2, <3>3 DEF max
    <3> QED BY <1>1, <1>3, <1>5, <3>4, <3>5, TestFits, SMT
  <2>3. KindFits(Count(len), b)
    BY <1>3 DEF KindFits
  <2> DEFINE n == Count(len)
             bits == b
  <2>4. /\ n \in Nat /\ bits \in {12, 16, 32} /\ (n > 0 /\ (mk.o.atari => bits # 32) => Fits(n, len, bits) /\ KindFits(n, bits))
        /\ (bits = 32 <=> mk.root = 0) /\ (bits = 32 => mk.reserved >= 2)
    BY <1>3, <1>6, <2>2, <2>3
  <2>5. mk' = [mk EXCEPT !.pc = "finish", !.size_fat = bits, !.clusters = n, !.fat_length = len]
    BY <2>1, Zenon
  <2> HIDE DEF n, bits
  <2> QED BY <1>1, <1>3, <1>5, <2>4, <2>5, SizedNow, Zenon
<1>8. CASE ~(fits /\ mk.sector_size <= GEMDOS_MAX_SECTOR_SIZE) /\ stop
  <2>1. MkDie("sector size")
    BY <1>2, <1>8, Zenon
  <2>2. Formatting' /\ mk'.pc = "dead"
    BY <1>1, <2>1, Dies, Zenon
  <2> QED BY <2>2
<1>9. CASE ~(fits /\ mk.sector_size <= GEMDOS_MAX_SECTOR_SIZE) /\ ~stop
  <2> DEFINE half == mk.nsec \div 2
             double == ss * 2
  <2>1. mk' = [mk EXCEPT !.nsec = half, !.sector_size = double]
    BY <1>2, <1>9, Zenon
  <2>2. half \in Nat /\ double \in SectorSize
    <3>1. half \in Nat
      BY <1>3, DivNat
    <3> HIDE DEF ss
    <3>2. ss * 2 \in Nat /\ ss * 2 > 0 /\ (ss * 2) % 512 = 0
      BY <1>3
    <3> QED BY <3>1, <3>2 DEF SectorSize
  <2> HIDE DEF half, double
  <2>3. mk' \in MkState
    BY <1>1, <2>1, <2>2 DEF MkState
  <2>4. /\ mk'.pc = "atari" /\ mk'.o = mk.o /\ mk'.secs_track = mk.secs_track /\ mk'.heads = mk.heads
      /\ mk'.root = mk.root /\ mk'.cl = mk.cl
        /\ mk'.size_fat = b /\ mk'.reserved = mk.reserved
    BY <1>1, <2>1 DEF MkState
  <2>5. Settled'
    BY <1>1, <1>3, <2>4 DEF Settled, GeometryGiven
  <2> QED BY <2>3, <2>4, <2>5 DEF Formatting, Stages
<1> QED BY <1>7, <1>8, <1>9

\* setup_tables, its end.
LEMMA KeepFinish ==
  ASSUME Formatting, FinishTables
  PROVE  Formatting' /\ mk'.pc # "done"
<1>1. mk.pc = "finish" /\ mk \in MkState /\ Settled
  BY DEF FinishTables, Formatting, Stages
<1>2. ASSUME NEW why, MkDie(why) PROVE Formatting' /\ mk'.pc # "done"
  <2>1. Formatting' /\ mk'.pc = "dead"
    BY <1>1, <1>2, Dies, Zenon
  <2> QED BY <2>1
<1>3. ASSUME mk' = [mk EXCEPT !.pc = "check"], mk.clusters # 0
      PROVE  Formatting' /\ mk'.pc # "done"
  <2>1. mk' \in MkState /\ mk'.pc = "check"
    <3>1. "check" \in Stages
      BY DEF Stages
    <3> QED BY <1>1, <1>3, <3>1 DEF MkState
  <2>2. /\ mk'.o = mk.o /\ mk'.secs_track = mk.secs_track /\ mk'.heads = mk.heads
      /\ mk'.cl = mk.cl /\ mk'.sector_size = mk.sector_size /\ mk'.root = mk.root
        /\ mk'.reserved = mk.reserved /\ mk'.nsec = mk.nsec /\ mk'.size_fat = mk.size_fat
        /\ mk'.clusters = mk.clusters /\ mk'.fat_length = mk.fat_length
    BY <1>1, <1>3 DEF MkState
  <2>3. FatData' = FatData
    BY <2>2, Zenon DEF FatData
  <2>4. Sized'
    BY <1>1, <2>2, <2>3 DEF Settled, GeometryGiven, Sized, Fits, KindFits
  <2>5. mk.clusters > 0
    BY <1>1, <1>3 DEF MkState
  <2> QED BY <1>1, <2>1, <2>2, <2>4, <2>5 DEF Formatting, Settled, GeometryGiven, Stages
<1>4. \/ \E why \in {"gemdos", "too large", "too few blocks"} : MkDie(why)
      \/ mk' = [mk EXCEPT !.pc = "check"] /\ mk.clusters # 0
  BY Zenon DEF FinishTables
<1> QED BY <1>2, <1>3, <1>4

\* mark_FAT_sector marks entries of the FAT.
LEMMA ClusterInt ==
  ASSUME mk \in MkState, mk.cl \in 1..128
  PROVE  DataSector \in Int /\ DataBlock \in Int /\ \A s \in Int : ClusterOf(s) \in Int
<1> DEFINE k == mk.sector_size \div HARD_SECTOR_SIZE
<1>1. k \in Nat /\ k > 0
  <2> DEFINE ss == mk.sector_size
  <2>1. ss \in Nat /\ ss > 0 /\ ss % 512 = 0
    BY DEF MkState, SectorSize
  <2> HIDE DEF ss
  <2>2. ss \div 512 \in Nat /\ ss \div 512 > 0
    BY <2>1
  <2> QED BY <2>2 DEF ss, HARD_SECTOR_SIZE
<1> HIDE DEF k
<1>2. DataSector \in Int
  <2>1. mk.o.nr_fats \in 1..4 /\ mk.fat_length \in Int /\ mk.reserved \in Nat
    BY DEF MkState, Legal, FatOptions
  <2>2. mk.reserved + mk.o.nr_fats * mk.fat_length \in Int
    BY <2>1
  <2> DEFINE p == mk.reserved + mk.o.nr_fats * mk.fat_length
  <2>3. p * k \in Int
    <3> HIDE DEF p
    <3> QED BY <1>1, <2>2 DEF p
  <2> QED BY <2>3 DEF DataSector, k
<1>3. DataBlock \in Int
  <2>1. SECTORS_PER_BLOCK \in Nat /\ SECTORS_PER_BLOCK > 0
    BY DEF SECTORS_PER_BLOCK, BLOCK_SIZE, HARD_SECTOR_SIZE
  <2> QED BY <1>2, <2>1, CdivUp DEF DataBlock
<1>4. ASSUME NEW a \in Int, NEW b \in Nat, b > 0 PROVE TowardsZero(a, b) \in Int
  <2>1. a \div b \in Int /\ -a \in Int
    BY <1>4, DivDef
  <2>2. -((-a) \div b) \in Int
    <3>1. (-a) \div b \in Int
      BY <1>4, <2>1, DivDef
    <3> QED BY <3>1
  <2> QED BY <2>1, <2>2 DEF TowardsZero
<1>5. ASSUME NEW s \in Int PROVE ClusterOf(s) \in Int
  <2>1. s - DataSector \in Int /\ mk.cl \in Nat /\ mk.cl > 0
    BY <1>2
  <2>2. TowardsZero(s - DataSector, mk.cl) \in Int
    BY <1>4, <2>1
  <2>3. TowardsZero(TowardsZero(s - DataSector, mk.cl), k) \in Int
    BY <1>1, <1>4, <2>2
  <2> QED BY <2>3 DEF ClusterOf, k
<1> QED BY <1>2, <1>3, <1>5

\* What is settled stays so when mkdosfs goes on.
LEMMA GoesOn ==
  ASSUME mk \in MkState, Settled, NEW bad \in SUBSET Int, NEW pc \in {"check", "write", "done"},
         mk.pc \in {"check", "write", "done"}, mk' = [mk EXCEPT !.pc = pc, !.bad = bad]
  PROVE  Formatting' /\ mk'.pc = pc /\ Tables' = Tables /\ BootSector' = BootSector
<1>1. mk' \in MkState /\ mk'.pc = pc
  <2>1. pc \in Stages
    BY DEF Stages
  <2> QED BY <2>1 DEF MkState
<1>2. /\ mk'.o = mk.o /\ mk'.secs_track = mk.secs_track /\ mk'.heads = mk.heads
      /\ mk'.cl = mk.cl /\ mk'.sector_size = mk.sector_size /\ mk'.root = mk.root
      /\ mk'.reserved = mk.reserved /\ mk'.nsec = mk.nsec /\ mk'.size_fat = mk.size_fat
      /\ mk'.clusters = mk.clusters /\ mk'.fat_length = mk.fat_length
  BY DEF MkState
<1>3. FatData' = FatData
  BY <1>2, Zenon DEF FatData
<1>4. Sized'
  BY <1>2, <1>3 DEF Settled, GeometryGiven, Sized, Fits, KindFits
<1>5. Formatting'
  <2>1. Settled'
    BY <1>1, <1>2, <1>4 DEF Settled, GeometryGiven
  <2> QED BY <1>1, <2>1 DEF Formatting, Stages
<1>6. BackupBoot' = BackupBoot
  BY <1>2 DEF BackupBoot
<1>7. BootSector' = BootSector
  BY <1>2, <1>6, SMT DEF BootSector
<1>8. Tables' = Tables
  BY <1>2, <1>7, Zenon DEF Tables
<1> QED BY <1>1, <1>5, <1>7, <1>8

\* check_blocks and get_list_blocks.
LEMMA KeepCheck ==
  ASSUME Formatting, CheckBlocks
  PROVE  Formatting' /\ mk'.pc # "done"
<1> DEFINE b == DataBlock + mk.o.bad - 1
           marked == IF mk.o.kind = "image" /\ ~mk.o.listed THEN {}
                     ELSE {ClusterOf(s) : s \in SectorsOf(b)}
<1>1. mk.pc = "check" /\ mk \in MkState /\ Settled
  BY DEF CheckBlocks, Formatting, Stages
<1>2. ASSUME NEW why, MkDie(why) PROVE Formatting' /\ mk'.pc # "done"
  <2>1. Formatting' /\ mk'.pc = "dead"
    BY <1>1, <1>2, Dies, Zenon
  <2> QED BY <2>1
<1>3. ASSUME NEW bad \in SUBSET Int, mk' = [mk EXCEPT !.pc = "write", !.bad = bad]
      PROVE  Formatting' /\ mk'.pc # "done"
  BY <1>1, <1>3, GoesOn
<1>4. marked \in SUBSET Int
  <2>1. mk.cl \in 1..128 /\ mk.o.bad \in Int
    BY <1>1, OptionTypes DEF Settled, GeometryGiven, MkState, Legal
  <2>2. DataBlock \in Int /\ \A s \in Int : ClusterOf(s) \in Int
    BY <1>1, <2>1, ClusterInt
  <2>3. SectorsOf(b) \in SUBSET Int
    BY <2>1, <2>2 DEF SectorsOf, SECTORS_PER_BLOCK, BLOCK_SIZE, HARD_SECTOR_SIZE
  <2> HIDE DEF b
  <2> QED BY <2>2, <2>3
<1>5. \/ MkDie("bad block") \/ MkDie("bug") \/ mk' = [mk EXCEPT !.pc = "write"]
      \/ mk' = [mk EXCEPT !.pc = "write", !.bad = marked]
  BY Zenon DEF CheckBlocks
<1>6. ASSUME mk' = [mk EXCEPT !.pc = "write"] PROVE mk.bad \in SUBSET Int /\ mk' = [mk EXCEPT !.pc = "write", !.bad = mk.bad]
  BY <1>1, <1>6 DEF MkState
<1> HIDE DEF marked
<1> QED BY <1>2, <1>3, <1>4, <1>5, <1>6

\* The boot sector of a 32 bit file system, and what is next to it.
LEMMA TablesShape ==
  ASSUME mk \in MkState, Settled, mk.pc \in {"write", "done"}, mk.size_fat = 32, Supported
  PROVE  /\ Tables.b = BootSector /\ BootSector \in Boot /\ BootSector.reserved = mk.reserved
         /\ BootSector.fat_length = 0 /\ BootSector.fat32_length # 0
         /\ BootSector.info_sector = 1 /\ BootSector.backup_boot \in 2..(mk.reserved - 1)
         /\ Tables.sect[BootSector.backup_boot] = ToBoot(BootSector)
         /\ Tables.sect[1] = [t |-> "info", free |-> mk.clusters - 1]
         /\ Tables.sect = [s \in 1..(mk.reserved - 1) |-> Tables.sect[s]]
         /\ Tables = [b |-> Tables.b, kind |-> Tables.kind, atari |-> Tables.atari, sect |-> Tables.sect]
<1> DEFINE b == BootSector
<1>1. mk.reserved \in Nat /\ mk.reserved >= 3
  BY DEF MkState, Settled, GeometryGiven, Supported
<1>2. BackupBoot \in 2..(mk.reserved - 1)
  BY <1>1 DEF BackupBoot
<1>3. mk.fat_length \in Int /\ mk.fat_length > 0
  BY DEF Settled, GeometryGiven, Sized, Fits, Supported
<1>4. mk.o.nr_fats \in Int
  BY DEF MkState, Legal, FatOptions
<1>5. /\ mk.sector_size \in Int /\ mk.cl \in Int /\ mk.root \in Int /\ mk.nsec \in Int
      /\ mk.secs_track \in Int /\ mk.heads \in Int
  BY DEF MkState, SectorSize
<1>6. /\ b \in Boot /\ b.reserved = mk.reserved /\ b.fat_length = 0 /\ b.fat32_length = mk.fat_length
      /\ b.info_sector = 1 /\ b.backup_boot = BackupBoot
  BY <1>1, <1>2, <1>3, <1>4, <1>5, SMT DEF BootSector, Boot
<1>7. /\ Tables.b = b
      /\ Tables.sect = [s \in 1..(mk.reserved - 1) |->
               IF s = BootSector.backup_boot THEN [t |-> "boot", b |-> BootSector]
               ELSE IF s = BootSector.info_sector
               THEN [t |-> "info", free |-> mk.clusters - 1] ELSE [t |-> "blank"]]
  BY DEF Tables
<1>8. Tables = [b |-> Tables.b, kind |-> Tables.kind, atari |-> Tables.atari, sect |-> Tables.sect]
  BY DEF Tables
<1> HIDE DEF b
<1>9. 1 \in 1..(mk.reserved - 1) /\ BackupBoot \in 1..(mk.reserved - 1) /\ 1 # BackupBoot
  BY <1>1, <1>2
<1>10. /\ Tables.sect[b.backup_boot] = ToBoot(b)
       /\ Tables.sect[1] = [t |-> "info", free |-> mk.clusters - 1]
       /\ Tables.sect = [s \in 1..(mk.reserved - 1) |-> Tables.sect[s]]
  BY <1>6, <1>7, <1>9, Zenon DEF ToBoot, b
<1> QED BY <1>2, <1>3, <1>6, <1>7, <1>8, <1>10 DEF b

\* write_tables.
LEMMA KeepWrite ==
  ASSUME IInv, WriteTables
  PROVE  IInv'
<1>1. mk.pc = "write" /\ mk \in MkState /\ Settled /\ fs.pc = "none" /\ fs.runs = 0 /\ damage = "none"
  BY DEF WriteTables, IInv, Formatting, Stages
<1>2. mk' = [mk EXCEPT !.pc = "done", !.bad = mk.bad] /\ mk.bad \in SUBSET Int
  BY <1>1 DEF WriteTables, MkState
<1>3. Formatting' /\ mk'.pc = "done" /\ Tables' = Tables /\ BootSector' = BootSector
  BY <1>1, <1>2, GoesOn
<1>4. dev' = Tables /\ fs' = fs /\ damage' = damage
  BY DEF WriteTables
<1>5. FsShape' /\ Intact' /\ Found' /\ (mk.size_fat # 32 => damage = "none")'
  BY <1>1, <1>3, <1>4, Zenon DEF FsShape, Intact, Found
<1>6. Automatic'
  <2>1. SUFFICES ASSUME mk'.size_fat = 32, Supported' PROVE Area' /\ Repaired'
    BY DEF Automatic
  <2>2. mk' \in MkState /\ Settled'
    BY <1>3 DEF Formatting, Stages
  <2>3. /\ mk'.o = mk.o /\ mk'.secs_track = mk.secs_track /\ mk'.heads = mk.heads
      /\ mk'.reserved = mk.reserved /\ mk'.size_fat = mk.size_fat /\ mk'.root = mk.root
    BY <1>1, <1>2 DEF MkState
  <2>4. Supported
    BY <2>1, <2>3, Zenon DEF Supported, GeometryGiven
  <2>5. Area'
    <3>1. /\ dev'.b = BootSector /\ BootSector \in Boot /\ BootSector.reserved = mk.reserved
          /\ BootSector.fat_length = 0 /\ BootSector.fat32_length # 0
          /\ BootSector.info_sector = 1 /\ BootSector.backup_boot \in 2..(mk.reserved - 1)
          /\ dev'.sect = [s \in 1..(mk.reserved - 1) |-> dev'.sect[s]]
          /\ dev' = [b |-> dev'.b, kind |-> dev'.kind, atari |-> dev'.atari, sect |-> dev'.sect]
      BY <1>1, <1>4, <2>1, <2>3, <2>4, TablesShape, Zenon
    <3>2. mk.reserved \in Nat
      BY <1>1 DEF MkState
    <3>3. BootSector.backup_boot \in 0..(mk.reserved - 1)
      BY <3>1, <3>2
    <3> QED BY <2>3, <3>1, <3>3, Zenon DEF Area
  <2>6. Repaired'
    BY <1>1, <1>4 DEF Repaired
  <2> QED BY <2>5, <2>6
<1> QED BY <1>3, <1>5, <1>6 DEF IInv, Checking

-----------------------------------------------------------------------------
(* boot.c. *)

\* read_boot accepts what mkdosfs has written.
LEMMA Accepted ==
  ASSUME mk \in MkState, Settled, mk.pc = "done", Supported, dev = Tables, NEW l, l = Layout(BootSector)
  PROVE  /\ ~BootDies(BootSector, l) /\ l.clusters = mk.clusters
         /\ (l.bits = 32 <=> mk.size_fat = 32)
         /\ KindAgrees(l.bits)
<1> DEFINE b == BootSector
           e == mk.fat_length * mk.sector_size * 8
<1>1. /\ mk.size_fat \in {12, 16, 32} /\ mk.cl \in 1..128 /\ (mk.size_fat = 32 <=> mk.root = 0)
      /\ Fits(mk.clusters, mk.fat_length, mk.size_fat) /\ KindFits(mk.clusters, mk.size_fat)
  BY DEF Settled, GeometryGiven, Sized, Supported
<1>2. dev.atari = mk.o.atari /\ dev.kind = mk.o.kind
  BY DEF Tables
<1>3. /\ l.clusters = mk.clusters /\ l.fat_size = mk.fat_length * mk.sector_size
      /\ l.bits \in {12, 16, 32} /\ (l.bits = 32 <=> mk.size_fat = 32)
      /\ mk.size_fat # 32 /\ ~dev.atari => (l.bits = 12 <=> mk.clusters < FAT12_THRESHOLD)
      /\ mk.size_fat # 32 /\ dev.atari /\ l.bits = 16
           => mk.clusters + 2 <= (l.fat_size * 8) \div 16
      /\ mk.size_fat # 32 /\ dev.atari /\ l.bits = 12 /\ dev.kind \notin {"floppy", "loop"}
           => mk.clusters + 2 > (l.fat_size * 8) \div 16
  BY <1>1, LayoutFound, Zenon
<1>4. /\ mk.sector_size \in Nat /\ mk.sector_size > 0 /\ mk.sector_size % 512 = 0
      /\ mk.o.nr_fats \in 1..4 /\ mk.fat_length \in Nat /\ mk.clusters \in Nat
      /\ mk.clusters <= e \div mk.size_fat - 2
  BY <1>1 DEF MkState, SectorSize, Fits, Legal, FatOptions
<1>5. e \in Nat
  <2>1. mk.fat_length * mk.sector_size \in Nat
    BY <1>4
  <2> QED BY <2>1
<1>6. l.fat_size * 8 = e
  BY <1>3
<1> HIDE DEF e
<1>7. e \div 16 \in Int /\ e \div 12 \in Int /\ e \div 16 <= e \div 12
  <2> DEFINE q == e \div 16
  <2>1. q \in Int /\ 16 * q <= e
    BY <1>5, DivDef
  <2>2. q \in Nat
    BY <1>5, DivNat
  <2> HIDE DEF q
  <2>3. 12 * q <= e
    BY <1>5, <2>1, <2>2
  <2>4. q <= e \div 12
    BY <1>5, <2>1, <2>3, DivAtLeast
  <2>5. e \div 12 \in Int
    BY <1>5, DivDef
  <2> QED BY <2>1, <2>4, <2>5 DEF q
<1>8. KindAgrees(l.bits) /\ mk.clusters <= e \div l.bits - 2
  <2>1. CASE l.bits = mk.size_fat
    BY <1>4, <2>1 DEF KindAgrees
  <2>2. CASE mk.size_fat = 16 /\ l.bits = 12
    <3>1. mk.clusters <= e \div 16 - 2 /\ mk.clusters <= e \div 12 - 2
      BY <1>4, <1>7, <2>2
    <3>2. CASE ~mk.o.atari
      <4>1. mk.o.size_fat = 16 /\ mk.clusters < FAT12_THRESHOLD
        BY <1>1, <1>2, <1>3, <1>4, <2>2, <3>2, SMT DEF KindFits, FAT12_THRESHOLD
      <4> QED BY <2>2, <3>1, <4>1 DEF KindAgrees
    <3>3. CASE mk.o.atari
      <4>1. mk.o.kind \in {"floppy", "loop"}
        BY <1>2, <1>3, <1>4, <1>6, <1>7, <2>2, <3>1, <3>3
      <4> QED BY <2>2, <3>1, <3>3, <4>1 DEF KindAgrees
    <3> QED BY <3>2, <3>3
  <2>3. CASE mk.size_fat = 12 /\ l.bits = 16
    <3>1. mk.o.atari
      BY <1>1, <1>2, <1>3, <2>3 DEF KindFits
    <3>2. mk.clusters + 2 <= e \div 16
      BY <1>2, <1>3, <1>6, <2>3, <3>1
    <3> QED BY <1>4, <1>7, <2>3, <3>1, <3>2 DEF KindAgrees
  <2> QED BY <1>1, <1>3, <2>1, <2>2, <2>3
<1>9. ~BootDies(b, l)
  <2>1. /\ b.sector_size = mk.sector_size /\ b.cluster_size = mk.cl /\ b.fats = mk.o.nr_fats
        /\ b.dir_entries = mk.root /\ (mk.size_fat = 32 => b.root_cluster = 2)
        /\ b.secs_track = mk.secs_track /\ b.heads = mk.heads
    BY SMT DEF BootSector
  <2> HIDE DEF b
  <2>2. b.sector_size # 0 /\ b.cluster_size # 0 /\ b.sector_size % 512 = 0
    BY <1>1, <1>4, <2>1
  <2>3. b.fats \in {1, 2}
    BY <1>4, <2>1 DEF Supported
  <2>4. ~(l.clusters > (l.fat_size * 8) \div l.bits - 2)
    <3>1. e \div l.bits \in Int
      BY <1>3, <1>5, DivDef
    <3>2. mk.clusters <= e \div l.bits - 2
      BY <1>8
    <3> QED BY <1>3, <1>4, <1>6, <3>1, <3>2
  <2>5. b.dir_entries % 16 = 0 /\ ~(b.dir_entries = 0 /\ b.root_cluster = 0)
    BY <1>1, <2>1 DEF Supported
  <2>6. ~(~dev.atari /\ (b.secs_track = 0 \/ b.heads = 0))
    <3>1. ~mk.o.atari => mk.secs_track > 0 /\ mk.heads > 0
      BY DEF Settled, Supported, GeometryGiven
    <3> QED BY <1>2, <2>1, <3>1
  <2> QED BY <2>2, <2>3, <2>4, <2>5, <2>6, Zenon DEF BootDies
<1> QED BY <1>3, <1>8, <1>9 DEF b

\* dosfsck leaves what mkdosfs knows alone.
LEMMA SameFormat ==
  ASSUME mk' = mk
  PROVE  /\ (Formatting => Formatting') /\ Tables' = Tables /\ BootSector' = BootSector
         /\ Supported' = Supported
<1>1. BackupBoot' = BackupBoot /\ FatData' = FatData
  BY DEF BackupBoot, FatData
<1>2. BootSector' = BootSector
  BY <1>1, SMT DEF BootSector
<1>3. Tables' = Tables
  BY <1>2 DEF Tables
<1>4. Sized => Sized'
  BY <1>1 DEF Sized, Fits, KindFits
<1>5. Formatting => Formatting'
  BY <1>4 DEF Formatting, Settled, GeometryGiven
<1>6. Supported' = Supported
  BY DEF Supported, GeometryGiven
<1> QED BY <1>2, <1>3, <1>5, <1>6

\* read_boot.
LEMMA KeepRead ==
  ASSUME IInv, ReadBoot
  PROVE  IInv'
<1> DEFINE l == Layout(dev.b)
           pc == IF BootDies(dev.b, l) THEN "dead" ELSE IF l.bits = 32 THEN "backup" ELSE "read"
<1>1. /\ mk.pc = "done" /\ mk \in MkState /\ Settled /\ Checking /\ Formatting
      /\ fs.pc \in {"none", "read"} /\ fs.runs < 2
      /\ mk' = mk /\ dev' = dev /\ damage' = damage
  BY DEF ReadBoot, IInv, Formatting, Stages
<1>2. PICK i \in IF fs.runs = 0 THEN BOOLEAN ELSE {fs.interactive} :
        fs' = [pc |-> pc, l |-> l, b |-> dev.b, interactive |-> i, wrote |-> FALSE,
               fsinfo_start |-> 0, free |-> -1, runs |-> fs.runs + 1]
  BY DEF ReadBoot
<1>3. pc \in {"dead", "backup", "read"} /\ (pc = "read" => l.bits # 32)
  OBVIOUS
<1>4. Formatting' /\ Tables' = Tables /\ BootSector' = BootSector /\ Supported' = Supported
  BY <1>1, SameFormat
<1>5. fs.runs \in {0, 1} /\ (fs.runs = 0 <=> fs.pc = "none")
  BY <1>1 DEF Checking, FsShape
<1>6. fs.runs + 1 \in {1, 2} /\ (fs.runs + 1 = 2 <=> fs.pc = "read")
  BY <1>1, <1>5
<1> DEFINE r == fs.runs + 1
<1> HIDE DEF l, pc, r
<1>7. /\ fs' = [pc |-> pc, l |-> l, b |-> dev.b, interactive |-> i, wrote |-> FALSE,
                 fsinfo_start |-> 0, free |-> -1, runs |-> r]
      /\ fs'.pc = pc /\ fs'.l = l /\ fs'.b = dev.b /\ fs'.interactive = i /\ fs'.wrote = FALSE
      /\ fs'.runs = r
  BY <1>2 DEF r
<1>8. r \in {1, 2} /\ (r = 2 <=> fs.pc = "read")
  BY <1>6 DEF r
<1>9. FsShape'
  BY <1>3, <1>7, <1>8 DEF FsShape
<1>10. Intact'
  BY <1>1, <1>4, <1>7, <1>8 DEF Checking, Intact
<1>11. Found'
  <2>1. SUFFICES ASSUME damage = "none", Supported
        PROVE  /\ pc # "dead" /\ dev.b = BootSector /\ l = Layout(BootSector)'
               /\ pc = "backup" => mk.size_fat = 32
               /\ ~(pc = "read" /\ mk.size_fat = 32)
    BY <1>1, <1>3, <1>4, <1>7 DEF Found
  <2>2. dev = Tables
    BY <1>1, <2>1 DEF Checking, Intact
  <2>3. dev.b = BootSector
    BY <2>2 DEF Tables
  <2>4. l = Layout(BootSector)
    BY <2>3 DEF l
  <2>5. l = Layout(BootSector)'
    BY <1>1, <1>4, <2>4, SMT DEF Layout
  <2>6. ~BootDies(BootSector, l) /\ (l.bits = 32 <=> mk.size_fat = 32)
    BY <1>1, <2>1, <2>2, <2>4, Accepted
  <2> QED BY <2>3, <2>5, <2>6, Zenon DEF pc
<1>12. Automatic'
  <2>1. SUFFICES ASSUME mk.size_fat = 32, Supported, ~i PROVE Area' /\ Repaired'
    <3>1. r # 0
      BY <1>8
    <3> QED BY <1>1, <1>4, <1>7, <3>1, Zenon DEF Automatic
  <2>2. fs.runs = 0 \/ ~fs.interactive
    BY <1>2, <2>1, Zenon
  <2>3. Area /\ Repaired
    BY <1>1, <2>1, <2>2 DEF Checking, Automatic
  <2>4. Area'
    BY <1>1, <2>3, Zenon DEF Area
  <2>5. l.bits = 32
    BY <2>3, SMT DEF Area, Layout, l
  <2>6. r = 2 => dev.b.backup_boot # 0 /\ HasInfo
    BY <1>8, <2>3 DEF Repaired
  <2>7. HasInfo' = HasInfo
    BY <1>1 DEF HasInfo
  <2> QED BY <1>1, <1>3, <1>7, <2>4, <2>5, <2>6, <2>7 DEF Repaired
<1>13. Checking'
  BY <1>1, <1>9, <1>10, <1>11, <1>12 DEF Checking
<1> QED BY <1>1, <1>4, <1>13 DEF IInv

\* Another boot sector of the same file system, and another content of a sector.
LEMMA AreaKept ==
  ASSUME Area, mk' = mk, NEW b \in Boot, b.reserved = mk.reserved, b.fat_length = 0,
         b.fat32_length # 0, b.info_sector \in {0, 1}, b.backup_boot \in 0..(mk.reserved - 1),
         NEW x \in 1..(mk.reserved - 1), NEW v,
         dev' = [dev EXCEPT !.b = b, !.sect = [dev.sect EXCEPT ![x] = v]]
  PROVE  Area' /\ dev'.b = b /\ dev'.sect[x] = v
<1> DEFINE f == [dev.sect EXCEPT ![x] = v]
<1>1. f = [s \in 1..(mk.reserved - 1) |-> f[s]] /\ f[x] = v
  BY DEF Area
<1> HIDE DEF f
<1>2. dev' = [dev EXCEPT !.b = b, !.sect = f]
  BY DEF f
<1>3. /\ dev'.b = b /\ dev'.sect = f
      /\ dev' = [b |-> dev'.b, kind |-> dev'.kind, atari |-> dev'.atari, sect |-> dev'.sect]
  BY <1>2 DEF Area
<1> QED BY <1>1, <1>3, Zenon DEF Area

\* Between mkdosfs and dosfsck.
LEMMA KeepDamage ==
  ASSUME IInv, DamageBoot
  PROVE  IInv'
<1> DEFINE b0 == [dev.b EXCEPT !.backup_boot = 0]
           i0 == [dev.b EXCEPT !.info_sector = 0]
           x  == dev.b.backup_boot
<1>1. /\ mk.pc = "done" /\ mk \in MkState /\ Settled /\ Checking /\ Formatting
      /\ fs.runs = 0 /\ damage = "none" /\ dev.b.fat32_length # 0
      /\ dev.b.backup_boot # dev.b.info_sector /\ mk' = mk /\ fs' = fs
  BY DEF DamageBoot, IInv, Formatting, Stages
<1>2. /\ damage' # "none"
      /\ \/ dev' = [dev EXCEPT !.b = b0, !.sect[x] = [t |-> "blank"]]
         \/ dev' = [dev EXCEPT !.b = i0, !.sect[x].b = i0]
         \/ dev' = [dev EXCEPT !.sect[dev.b.info_sector] = [t |-> "blank"]]
         \/ dev' = [dev EXCEPT !.sect[x].b.root_cluster = 3]
  BY DEF DamageBoot
<1>3. Formatting' /\ Tables' = Tables /\ BootSector' = BootSector /\ Supported' = Supported
  BY <1>1, SameFormat
<1>4. fs.pc = "none"
  BY <1>1 DEF Checking, FsShape
<1>5. mk.size_fat = 32
  <2>1. dev.b = BootSector
    BY <1>1 DEF Checking, Intact, Tables
  <2> QED BY <1>1, <2>1, SMT DEF BootSector
<1>6. FsShape' /\ Intact' /\ Found'
  BY <1>1, <1>2, <1>4 DEF FsShape, Intact, Found
<1>7. Automatic'
  <2>1. SUFFICES ASSUME Supported PROVE Area' /\ Repaired'
    BY <1>3 DEF Automatic
  <2>2. Area /\ dev = Tables
    BY <1>1, <1>5, <2>1 DEF Checking, Automatic, Intact
  <2>3. x \in 2..(mk.reserved - 1) /\ dev.b.info_sector = 1 /\ mk.reserved \in Nat
    BY <1>1, <1>5, <2>1, <2>2, TablesShape DEF MkState
  <2>4. x \in 1..(mk.reserved - 1) /\ 1 \in 1..(mk.reserved - 1) /\ 0 \in 0..(mk.reserved - 1)
    BY <2>3
  <2>5. /\ b0 \in Boot /\ i0 \in Boot /\ b0.reserved = mk.reserved /\ i0.reserved = mk.reserved
        /\ b0.fat_length = 0 /\ b0.fat32_length # 0 /\ i0.fat_length = 0 /\ i0.fat32_length # 0
        /\ b0.info_sector = 1 /\ b0.backup_boot = 0 /\ i0.info_sector = 0 /\ i0.backup_boot = x
    BY <2>2, <2>3 DEF Area, Boot
  <2>6. /\ dev.b \in Boot /\ dev.b.reserved = mk.reserved /\ dev.b.fat_length = 0
        /\ dev.b.info_sector \in {0, 1} /\ x \in 0..(mk.reserved - 1)
    BY <2>2, Zenon DEF Area
  <2> DEFINE Kept(b, y, v) == dev' = [dev EXCEPT !.b = b, !.sect = [dev.sect EXCEPT ![y] = v]]
  <2>7. /\ DOMAIN dev.sect = 1..(mk.reserved - 1)
        /\ dev = [b |-> dev.b, kind |-> dev.kind, atari |-> dev.atari, sect |-> dev.sect]
    BY <2>2, Zenon DEF Area
  <2>8. \/ Kept(b0, x, [t |-> "blank"])
        \/ \E v : Kept(i0, x, v)
        \/ Kept(dev.b, 1, [t |-> "blank"])
        \/ \E v : Kept(dev.b, x, v)
    <3> HIDE DEF b0, i0, x
    <3>1. ASSUME dev' = [dev EXCEPT !.b = b0, !.sect[x] = [t |-> "blank"]]
          PROVE  Kept(b0, x, [t |-> "blank"])
      BY <2>7, <3>1
    <3>2. ASSUME dev' = [dev EXCEPT !.b = i0, !.sect[x].b = i0]
          PROVE  Kept(i0, x, [dev.sect[x] EXCEPT !.b = i0])
      BY <2>7, <3>2
    <3>3. ASSUME dev' = [dev EXCEPT !.sect[dev.b.info_sector] = [t |-> "blank"]]
          PROVE  Kept(dev.b, 1, [t |-> "blank"])
      BY <2>3, <2>7, <3>3
    <3>4. ASSUME dev' = [dev EXCEPT !.sect[x].b.root_cluster = 3]
          PROVE  Kept(dev.b, x, [dev.sect[x] EXCEPT !.b.root_cluster = 3])
      BY <2>7, <3>4
    <3> HIDE DEF Kept
    <3> QED BY <1>2, <3>1, <3>2, <3>3, <3>4, Zenon
  <2>9. Area'
    <3> HIDE DEF b0, i0
    <3>1. ASSUME NEW y \in 1..(mk.reserved - 1), NEW v,
                 \E b \in {b0, i0, dev.b} : Kept(b, y, v)
          PROVE  Area'
      <4>1. PICK b \in {b0, i0, dev.b} : Kept(b, y, v)
        BY <3>1, Zenon
      <4>2. /\ b \in Boot /\ b.reserved = mk.reserved /\ b.fat_length = 0 /\ b.fat32_length # 0
            /\ b.info_sector \in {0, 1} /\ b.backup_boot \in 0..(mk.reserved - 1)
        BY <1>1, <2>4, <2>5, <2>6
      <4> QED BY <1>1, <2>2, <4>1, <4>2, AreaKept
    <3> HIDE DEF Kept
    <3> QED BY <2>4, <2>8, <3>1, Zenon
  <2>10. Repaired'
    BY <1>1, <1>4 DEF Repaired
  <2> QED BY <2>9, <2>10
<1>8. Checking'
  BY <1>1, <1>5, <1>6, <1>7 DEF Checking
<1> QED BY <1>1, <1>3, <1>8 DEF IInv

\* A step of dosfsck that leaves an undamaged file system alone and takes the
\* repair of a 32 bit one further keeps the invariant.
LEMMA RepairStep ==
  ASSUME IInv, fs.pc \in {"backup", "info"}, mk' = mk, damage' = damage,
         FsShape', fs'.runs = fs.runs, fs'.interactive = fs.interactive, fs'.pc \in {"info", "read"},
         damage = "none" /\ Supported => dev' = dev /\ fs'.wrote = fs.wrote /\ fs'.b = fs.b
                                       /\ fs'.l = fs.l,
         damage = "none" /\ Supported /\ fs'.pc = "read" => fs'.free = mk.clusters - 1,
         mk.size_fat = 32 /\ Supported /\ ~fs.interactive => Area' /\ Repaired'
  PROVE  IInv'
<1>1. mk.pc = "done" /\ Formatting /\ Checking
  BY DEF IInv
<1>2. fs.runs # 0 /\ fs.pc # "dead" /\ fs.pc # "read"
  BY <1>1 DEF Checking, FsShape
<1>3. Formatting' /\ Tables' = Tables /\ BootSector' = BootSector /\ Supported' = Supported
  BY <1>1, SameFormat
<1>4. Intact'
  BY <1>1, <1>2, <1>3 DEF Checking, Intact
<1>5. Found'
  <2>1. SUFFICES ASSUME damage = "none", Supported PROVE Found'
    BY <1>3 DEF Found
  <2>2. /\ fs.wrote = FALSE /\ fs.b = BootSector /\ fs.l = Layout(BootSector)
        /\ mk.size_fat = 32
    BY <1>1, <1>2, <2>1 DEF Checking, Found
  <2>3. dev' = dev /\ fs'.wrote = FALSE /\ fs'.b = BootSector /\ fs'.l = Layout(BootSector)
    BY <2>1, <2>2
  <2>4. Layout(BootSector)' = Layout(BootSector)
    BY <1>3, <2>3, SMT DEF Layout
  <2>5. fs'.pc # "dead"
    OBVIOUS
  <2> QED BY <1>3, <2>1, <2>2, <2>3, <2>4, <2>5, Zenon DEF Found
<1>6. Automatic'
  BY <1>2, <1>3 DEF Automatic
<1>7. Checking'
  BY <1>1, <1>4, <1>5, <1>6 DEF Checking
<1> QED BY <1>1, <1>3, <1>7 DEF IInv

\* check_backup_boot.
LEMMA KeepBackup ==
  ASSUME IInv, CheckBackupBoot
  PROVE  IInv'
<1> DEFINE b == fs.b
           c == [b EXCEPT !.backup_boot = NewBackup(b)]
           None == /\ b.backup_boot = 0 /\ b.reserved < 3
                   /\ fs' = [fs EXCEPT !.pc = "info"] /\ UNCHANGED dev
           New == /\ b.backup_boot = 0 /\ b.reserved >= 3
                  /\ \E key \in FsKeys({1, 2}, 1) :
                       \/ /\ key = 1
                          /\ dev' = [dev EXCEPT !.sect[NewBackup(b)] = ToBoot(c), !.b = c]
                          /\ fs' = [fs EXCEPT !.pc = "info", !.b = c, !.wrote = TRUE]
                       \/ key = 2 /\ fs' = [fs EXCEPT !.pc = "info"] /\ UNCHANGED dev
           Same == dev.sect[b.backup_boot] = ToBoot(b)
           Old == /\ b.backup_boot # 0
                  /\ \E key \in IF Same THEN {3} ELSE FsKeys(1..3, 3) :
                       /\ dev' = CASE key = 1 -> [dev EXCEPT !.sect[b.backup_boot] = ToBoot(b)]
                                   [] key = 2 -> [dev EXCEPT !.b = Contents(dev.sect[b.backup_boot])]
                                   [] OTHER   -> dev
                       /\ fs' = [fs EXCEPT !.pc = "info", !.wrote = fs.wrote \/ key # 3]
<1>1. /\ fs.pc = "backup" /\ mk.pc = "done" /\ mk \in MkState /\ Settled /\ Checking
      /\ mk' = mk /\ damage' = damage
  <2>1. fs.pc = "backup" /\ mk' = mk /\ damage' = damage
    BY Zenon DEF CheckBackupBoot
  <2> QED BY <2>1 DEF IInv, Formatting, Stages
<1>2. None \/ New \/ Old
  BY Zenon DEF CheckBackupBoot
<1>3. /\ fs.runs \in {1, 2} /\ fs.wrote \in BOOLEAN
      /\ fs = [pc |-> fs.pc, l |-> fs.l, b |-> fs.b, interactive |-> fs.interactive,
               wrote |-> fs.wrote, fsinfo_start |-> fs.fsinfo_start, free |-> fs.free,
               runs |-> fs.runs]
  BY <1>1 DEF Checking, FsShape
<1> HIDE DEF b, c
<1>4. \E w \in BOOLEAN : \E d : fs' = [fs EXCEPT !.pc = "info", !.b = d, !.wrote = w]
  <2>1. ASSUME fs' = [fs EXCEPT !.pc = "info"]
        PROVE  fs' = [fs EXCEPT !.pc = "info", !.b = fs.b, !.wrote = fs.wrote]
    BY <1>3, <2>1
  <2>2. ASSUME NEW w \in BOOLEAN, fs' = [fs EXCEPT !.pc = "info", !.wrote = w]
        PROVE  fs' = [fs EXCEPT !.pc = "info", !.b = fs.b, !.wrote = w]
    BY <1>3, <2>2
  <2>3. ASSUME NEW key PROVE (fs.wrote \/ key # 3) \in BOOLEAN
    BY Zenon
  <2>4. \/ fs' = [fs EXCEPT !.pc = "info"]
        \/ \E w \in BOOLEAN : fs' = [fs EXCEPT !.pc = "info", !.wrote = w]
        \/ fs' = [fs EXCEPT !.pc = "info", !.b = c, !.wrote = TRUE]
    BY <1>2, <2>3, Zenon
  <2> QED BY <1>3, <2>1, <2>2, <2>4, Zenon
<1>5. /\ FsShape' /\ fs'.runs = fs.runs /\ fs'.interactive = fs.interactive /\ fs'.pc = "info"
      /\ fs'.l = fs.l
  <2>1. PICK w \in BOOLEAN : \E d : fs' = [fs EXCEPT !.pc = "info", !.b = d, !.wrote = w]
    BY <1>4, Zenon
  <2>2. PICK d : fs' = [fs EXCEPT !.pc = "info", !.b = d, !.wrote = w]
    BY <2>1, Zenon
  <2>3. fs' = [pc |-> "info", l |-> fs.l, b |-> d, interactive |-> fs.interactive,
                  wrote |-> w, fsinfo_start |-> fs.fsinfo_start, free |-> fs.free, runs |-> fs.runs]
    BY <1>3, <2>2
  <2> QED BY <1>3, <2>3 DEF FsShape
<1>6. ASSUME Old, Same \/ ~fs.interactive
      PROVE  dev' = dev /\ fs'.wrote = fs.wrote /\ fs'.b = fs.b
  <2>1. PICK key \in IF Same THEN {3} ELSE FsKeys(1..3, 3) :
          /\ dev' = CASE key = 1 -> [dev EXCEPT !.sect[b.backup_boot] = ToBoot(b)]
                      [] key = 2 -> [dev EXCEPT !.b = Contents(dev.sect[b.backup_boot])]
                      [] OTHER   -> dev
          /\ fs' = [fs EXCEPT !.pc = "info", !.wrote = fs.wrote \/ key # 3]
    BY <1>6, Zenon
  <2>2. key = 3
    BY <1>6, Zenon DEF FsKeys
  <2>3. dev' = dev
    BY <2>1, <2>2
  <2>4. fs' = [fs EXCEPT !.pc = "info", !.wrote = fs.wrote]
    <3>1. (fs.wrote \/ key # 3) = fs.wrote
      BY <1>3, <2>2, Zenon
    <3> QED BY <2>1, <3>1, Zenon
  <2> QED BY <1>3, <2>3, <2>4
<1>7. ASSUME damage = "none", Supported
      PROVE  dev' = dev /\ fs'.wrote = fs.wrote /\ fs'.b = fs.b
  <2>1. dev = Tables /\ b = BootSector /\ mk.size_fat = 32
    BY <1>1, <1>3, <1>7 DEF Checking, Intact, Found, b
  <2>2. b.backup_boot \in 2..(mk.reserved - 1) /\ Same
    BY <1>1, <1>7, <2>1, TablesShape
  <2>3. b.backup_boot # 0
    BY <2>2
  <2>4. Old
    BY <1>2, <2>3, Zenon
  <2> HIDE DEF Old, Same
  <2> QED BY <1>6, <2>2, <2>4
<1>8. ASSUME mk.size_fat = 32, Supported, ~fs.interactive PROVE Area' /\ Repaired'
  <2>1. Area /\ Repaired /\ b = dev.b
    BY <1>1, <1>8 DEF Checking, Automatic, Repaired, b
  <2>2. mk.reserved \in Nat /\ mk.reserved >= 3 /\ b.reserved = mk.reserved
    BY <1>1, <1>8, <2>1 DEF MkState, Settled, GeometryGiven, Supported, Area
  <2>3. New \/ Old
    <3>1. ~(b.reserved < 3)
      BY <2>2
    <3> QED BY <1>2, <3>1, Zenon
  <2>4. CASE Old
    <3>1. dev' = dev /\ fs'.wrote = fs.wrote /\ fs'.b = fs.b
      <4> HIDE DEF Old
      <4> QED BY <1>6, <1>8, <2>4
    <3>2. dev.b.backup_boot # 0
      BY <2>1, <2>4, Zenon
    <3>3. Area' /\ HasInfo' = HasInfo
      BY <1>1, <2>1, <3>1 DEF Area, HasInfo
    <3>4. Repaired'
      BY <1>1, <1>5, <2>1, <3>1, <3>2, <3>3 DEF Repaired, b
    <3> QED BY <3>3, <3>4
  <2>5. CASE New
    <3> DEFINE x == NewBackup(b)
    <3>1. dev.b.backup_boot = 0
      BY <2>1, <2>5, Zenon
    <3>2. fs.runs = 1
      BY <1>3, <2>1, <3>1 DEF Repaired
    <3>3. /\ dev' = [dev EXCEPT !.sect[x] = ToBoot(c), !.b = c]
          /\ fs' = [fs EXCEPT !.pc = "info", !.b = c, !.wrote = TRUE]
      <4>1. FsKeys({1, 2}, 1) = {1}
        BY <1>8, Zenon DEF FsKeys
      <4> QED BY <2>5, <4>1
    <3>4. x \in 2..(mk.reserved - 1)
      <4>1. b.info_sector \in {0, 1}
        BY <2>1 DEF Area
      <4> QED BY <2>2, <4>1 DEF NewBackup
    <3>5. x \in 1..(mk.reserved - 1) /\ x \in 0..(mk.reserved - 1) /\ x \in Int /\ x # 0
      BY <2>2, <3>4
    <3> HIDE DEF x
    <3>6. c = [dev.b EXCEPT !.backup_boot = x]
      BY <2>1 DEF c, x
    <3>7. /\ c \in Boot /\ c.reserved = mk.reserved /\ c.fat_length = 0 /\ c.fat32_length # 0
          /\ c.info_sector \in {0, 1} /\ c.backup_boot = x
      BY <2>1, <3>5, <3>6 DEF Area, Boot
    <3>8. dev' = [dev EXCEPT !.b = c, !.sect = [dev.sect EXCEPT ![x] = ToBoot(c)]]
      <4>1. /\ DOMAIN dev.sect = 1..(mk.reserved - 1)
            /\ dev = [b |-> dev.b, kind |-> dev.kind, atari |-> dev.atari, sect |-> dev.sect]
        BY <2>1, Zenon DEF Area
      <4> QED BY <3>3, <4>1
    <3>9. Area' /\ dev'.b = c
      BY <1>1, <2>1, <3>5, <3>7, <3>8, AreaKept
    <3>10. fs'.b = c /\ fs'.runs = 1 /\ fs'.pc = "info"
      BY <1>3, <3>2, <3>3
    <3>11. Repaired'
      BY <3>5, <3>7, <3>9, <3>10 DEF Repaired
    <3> QED BY <3>9, <3>11
  <2> QED BY <2>3, <2>4, <2>5
<1>9. fs'.pc \in {"info", "read"} /\ fs'.pc # "read"
  BY <1>5
<1> HIDE DEF None, New, Old, Same
<1> QED BY <1>1, <1>5, <1>7, <1>8, <1>9, RepairStep

\* read_fsinfo.
LEMMA KeepInfo ==
  ASSUME IInv, ReadFsinfo
  PROVE  IInv'
<1> DEFINE s == fs.b.info_sector
           n == NewInfo(fs.b)
           d == [dev EXCEPT !.sect[n] = init_fsinfo, !.b.info_sector = n]
           New == /\ s = 0
                  /\ \E key \in FsKeys({1, 2}, 2) :
                       \/ /\ key = 2 \/ n >= fs.b.reserved
                          /\ fs' = [fs EXCEPT !.pc = "read"] /\ UNCHANGED dev
                       \/ /\ key = 1 /\ n < fs.b.reserved
                          /\ dev' = IF fs.b.backup_boot = 0 THEN d
                                    ELSE [d EXCEPT !.sect[fs.b.backup_boot].b.info_sector = n]
                          /\ fs' = [fs EXCEPT !.pc = "read", !.b.info_sector = n, !.wrote = TRUE,
                                              !.fsinfo_start = n]
           good == dev.sect[s].t = "info"
           Old == /\ s # 0
                  /\ \E key \in IF good THEN {0} ELSE FsKeys({1, 2}, 1) :
                       /\ dev' = IF key = 1 THEN [dev EXCEPT !.sect[s] = init_fsinfo] ELSE dev
                       /\ fs' = [fs EXCEPT !.pc = "read", !.wrote = fs.wrote \/ key = 1,
                                           !.fsinfo_start = IF key = 2 THEN 0 ELSE s,
                                           !.free = IF good THEN dev.sect[s].free ELSE -1]
<1>1. /\ fs.pc = "info" /\ mk.pc = "done" /\ mk \in MkState /\ Settled /\ Checking
      /\ mk' = mk /\ damage' = damage
  <2>1. fs.pc = "info" /\ mk' = mk /\ damage' = damage
    BY Zenon DEF ReadFsinfo
  <2> QED BY <2>1 DEF IInv, Formatting, Stages
<1>2. New \/ Old
  BY Zenon DEF ReadFsinfo
<1>3. /\ fs.runs \in {1, 2} /\ fs.wrote \in BOOLEAN
      /\ fs = [pc |-> fs.pc, l |-> fs.l, b |-> fs.b, interactive |-> fs.interactive,
               wrote |-> fs.wrote, fsinfo_start |-> fs.fsinfo_start, free |-> fs.free,
               runs |-> fs.runs]
  BY <1>1 DEF Checking, FsShape
<1> HIDE DEF s, n, d, good
<1> DEFINE Read == \E w \in BOOLEAN : \E b, at, free :
             fs' = [pc |-> "read", l |-> fs.l, b |-> b, interactive |-> fs.interactive,
                    wrote |-> w, fsinfo_start |-> at, free |-> free, runs |-> fs.runs]
<1>4. Read
  <2>1. ASSUME fs' = [fs EXCEPT !.pc = "read"]
        PROVE  fs' = [pc |-> "read", l |-> fs.l, b |-> fs.b, interactive |-> fs.interactive,
                      wrote |-> fs.wrote, fsinfo_start |-> fs.fsinfo_start, free |-> fs.free,
                      runs |-> fs.runs]
    BY <1>3, <2>1
  <2>2. ASSUME fs' = [fs EXCEPT !.pc = "read", !.b.info_sector = n, !.wrote = TRUE, !.fsinfo_start = n]
        PROVE  fs' = [pc |-> "read", l |-> fs.l, b |-> [fs.b EXCEPT !.info_sector = n],
                      interactive |-> fs.interactive, wrote |-> TRUE, fsinfo_start |-> n,
                      free |-> fs.free, runs |-> fs.runs]
    BY <1>3, <2>2
  <2>3. ASSUME NEW w \in BOOLEAN, NEW at, NEW free,
               fs' = [fs EXCEPT !.pc = "read", !.wrote = w, !.fsinfo_start = at, !.free = free]
        PROVE  fs' = [pc |-> "read", l |-> fs.l, b |-> fs.b, interactive |-> fs.interactive,
                      wrote |-> w, fsinfo_start |-> at, free |-> free, runs |-> fs.runs]
    BY <1>3, <2>3
  <2>4. ASSUME NEW key PROVE (fs.wrote \/ key = 1) \in BOOLEAN
    BY Zenon
  <2>5. \/ fs' = [fs EXCEPT !.pc = "read"]
        \/ fs' = [fs EXCEPT !.pc = "read", !.b.info_sector = n, !.wrote = TRUE, !.fsinfo_start = n]
        \/ \E w \in BOOLEAN : \E at, free :
              fs' = [fs EXCEPT !.pc = "read", !.wrote = w, !.fsinfo_start = at, !.free = free]
    <3>1. CASE New
      BY <3>1, Zenon
    <3>2. CASE Old
      BY <2>4, <3>2, Zenon
    <3> HIDE DEF New, Old
    <3> QED BY <1>2, <3>1, <3>2
  <2>6. ASSUME fs' = [fs EXCEPT !.pc = "read"] PROVE Read
    BY <1>3, <2>1, <2>6, Zenon
  <2>7. ASSUME fs' = [fs EXCEPT !.pc = "read", !.b.info_sector = n, !.wrote = TRUE, !.fsinfo_start = n]
        PROVE  Read
    BY <2>2, <2>7, Zenon
  <2>8. ASSUME NEW w \in BOOLEAN, NEW at, NEW free,
               fs' = [fs EXCEPT !.pc = "read", !.wrote = w, !.fsinfo_start = at, !.free = free]
        PROVE  Read
    BY <2>3, <2>8, Zenon
  <2> HIDE DEF Read
  <2> QED BY <2>5, <2>6, <2>7, <2>8, Zenon
<1>5. /\ FsShape' /\ fs'.runs = fs.runs /\ fs'.interactive = fs.interactive /\ fs'.pc = "read"
      /\ fs'.l = fs.l
  <2>1. PICK w \in BOOLEAN : \E b, at, free :
          fs' = [pc |-> "read", l |-> fs.l, b |-> b, interactive |-> fs.interactive,
                 wrote |-> w, fsinfo_start |-> at, free |-> free, runs |-> fs.runs]
    BY <1>4, Zenon
  <2>2. PICK b, at, free :
          fs' = [pc |-> "read", l |-> fs.l, b |-> b, interactive |-> fs.interactive,
                 wrote |-> w, fsinfo_start |-> at, free |-> free, runs |-> fs.runs]
    BY <2>1, Zenon
  <2> QED BY <1>3, <2>2 DEF FsShape
<1>6. ASSUME Old, good
      PROVE  dev' = dev /\ fs'.wrote = fs.wrote /\ fs'.b = fs.b /\ fs'.free = dev.sect[s].free
  <2>1. \E at : dev' = dev /\ fs' = [fs EXCEPT !.pc = "read", !.wrote = fs.wrote,
                                      !.fsinfo_start = at, !.free = dev.sect[s].free]
    <3>1. PICK key \in {0} :
            /\ dev' = IF key = 1 THEN [dev EXCEPT !.sect[s] = init_fsinfo] ELSE dev
            /\ fs' = [fs EXCEPT !.pc = "read", !.wrote = fs.wrote \/ key = 1,
                                !.fsinfo_start = IF key = 2 THEN 0 ELSE s,
                                !.free = IF good THEN dev.sect[s].free ELSE -1]
      BY <1>6, Zenon
    <3>2. key # 1
      OBVIOUS
    <3>3. (fs.wrote \/ key = 1) = fs.wrote
      BY <1>3, <3>2, Zenon
    <3>4. (IF good THEN dev.sect[s].free ELSE -1) = dev.sect[s].free
      BY <1>6, Zenon
    <3>5. dev' = dev
      BY <3>1, <3>2, Zenon
    <3> DEFINE at == IF key = 2 THEN 0 ELSE s
    <3>6. fs' = [fs EXCEPT !.pc = "read", !.wrote = fs.wrote, !.fsinfo_start = at,
                           !.free = dev.sect[s].free]
      BY <3>1, <3>3, <3>4, Zenon
    <3> HIDE DEF at
    <3> QED BY <3>5, <3>6, Zenon
  <2>2. PICK at : dev' = dev /\ fs' = [fs EXCEPT !.pc = "read", !.wrote = fs.wrote,
                                       !.fsinfo_start = at, !.free = dev.sect[s].free]
    BY <2>1, Zenon
  <2> QED BY <1>3, <2>2
<1>7. ASSUME damage = "none", Supported
      PROVE  /\ dev' = dev /\ fs'.wrote = fs.wrote /\ fs'.b = fs.b
             /\ fs'.free = mk.clusters - 1
  <2>1. dev = Tables /\ fs.b = BootSector /\ mk.size_fat = 32
    BY <1>1, <1>3, <1>7 DEF Checking, Intact, Found
  <2>2. s = 1 /\ dev.sect[s] = [t |-> "info", free |-> mk.clusters - 1]
    <3>1. BootSector.info_sector = 1 /\ Tables.sect[1] = [t |-> "info", free |-> mk.clusters - 1]
      BY <1>1, <1>7, <2>1, TablesShape
    <3> QED BY <2>1, <3>1 DEF s
  <2>3. good /\ dev.sect[s].free = mk.clusters - 1
    BY <2>2 DEF good
  <2>4. Old
    <3>1. s # 0
      BY <2>2
    <3> QED BY <1>2, <3>1, Zenon
  <2> HIDE DEF Old
  <2> QED BY <1>6, <2>3, <2>4
<1>8. ASSUME mk.size_fat = 32, Supported, ~fs.interactive PROVE Area' /\ Repaired'
  <2>1. /\ Area /\ Repaired /\ fs.b = dev.b /\ dev.b.backup_boot # 0
        /\ (fs.runs = 2 => HasInfo /\ fs.wrote = FALSE)
    BY <1>1, <1>8 DEF Checking, Automatic, Repaired
  <2>2. s \in {0, 1} /\ s = dev.b.info_sector
    BY <2>1 DEF Area, s
  <2>3. ASSUME dev' = dev, fs.runs = 2 => fs'.wrote = FALSE, HasInfo PROVE Area' /\ Repaired'
    <3>1. Area' /\ HasInfo'
      BY <1>1, <2>1, <2>3 DEF Area, HasInfo
    <3> QED BY <1>5, <2>1, <2>3, <3>1 DEF Repaired
  <2>4. CASE New
    <3>1. s = 0
      BY <2>4, Zenon
    <3>2. FsKeys({1, 2}, 2) = {2}
      BY <1>8, Zenon DEF FsKeys
    <3>3. dev' = dev /\ fs' = [fs EXCEPT !.pc = "read"]
      <4>1. PICK key \in {2} :
              \/ fs' = [fs EXCEPT !.pc = "read"] /\ UNCHANGED dev
              \/ key = 1
        BY <2>4, <3>2, Zenon
      <4>2. key # 1
        OBVIOUS
      <4> QED BY <4>1, <4>2, Zenon
    <3>4. fs'.wrote = fs.wrote
      BY <1>3, <3>3
    <3>5. HasInfo
      BY <2>2, <3>1 DEF HasInfo
    <3> QED BY <2>1, <2>3, <3>3, <3>4, <3>5, Zenon
  <2>5. CASE Old /\ good
    <3>1. dev' = dev /\ fs'.wrote = fs.wrote
      <4> HIDE DEF Old
      <4> QED BY <1>6, <2>5
    <3>2. HasInfo
      BY <2>2, <2>5 DEF HasInfo, good
    <3> HIDE DEF Old
    <3> QED BY <2>1, <2>3, <3>1, <3>2, Zenon
  <2>6. CASE Old /\ ~good
    <3>1. s = 1 /\ dev.b.info_sector = 1
      <4>1. s # 0
        BY <2>6, Zenon
      <4> HIDE DEF Old
      <4> QED BY <2>2, <4>1
    <3>2. fs.runs = 1
      <4>1. ~HasInfo
        <5>1. dev.b.info_sector # 0 /\ dev.b.info_sector = s
          BY <2>2, <3>1
        <5> HIDE DEF Old
        <5> QED BY <2>6, <5>1, Zenon DEF HasInfo, good
      <4> HIDE DEF Old
      <4> QED BY <1>3, <2>1, <4>1
    <3>3. dev' = [dev EXCEPT !.sect[s] = init_fsinfo]
      <4>1. FsKeys({1, 2}, 1) = {1}
        BY <1>8, Zenon DEF FsKeys
      <4>2. PICK key \in {1} :
              dev' = IF key = 1 THEN [dev EXCEPT !.sect[s] = init_fsinfo] ELSE dev
        BY <2>6, <4>1, Zenon
      <4>3. key = 1
        OBVIOUS
      <4> QED BY <4>2, <4>3, Zenon
    <3> HIDE DEF Old
    <3>4. dev' = [dev EXCEPT !.b = dev.b, !.sect = [dev.sect EXCEPT ![s] = init_fsinfo]]
      <4>1. /\ DOMAIN dev.sect = 1..(mk.reserved - 1)
            /\ dev = [b |-> dev.b, kind |-> dev.kind, atari |-> dev.atari, sect |-> dev.sect]
        BY <2>1, Zenon DEF Area
      <4> QED BY <3>1, <3>3, <4>1
    <3>5. s \in 1..(mk.reserved - 1)
      <4>1. mk.reserved \in Nat /\ mk.reserved >= 2
        BY <1>1, <1>8 DEF MkState, Settled, GeometryGiven
      <4> QED BY <3>1, <4>1
    <3>6. Area' /\ dev'.b = dev.b /\ dev'.sect[s] = init_fsinfo
      <4> DEFINE b == dev.b
                 v == init_fsinfo
      <4>1. /\ b \in Boot /\ b.reserved = mk.reserved /\ b.fat_length = 0
            /\ b.fat32_length # 0 /\ b.info_sector \in {0, 1}
            /\ b.backup_boot \in 0..(mk.reserved - 1)
        BY <2>1, Zenon DEF Area
      <4>2. dev' = [dev EXCEPT !.b = b, !.sect = [dev.sect EXCEPT ![s] = v]]
        BY <3>4
      <4>3. Area /\ mk' = mk
        BY <1>1, <2>1, Zenon
      <4> HIDE DEF b, v
      <4>4. Area' /\ dev'.b = b /\ dev'.sect[s] = v
        BY <3>5, <4>1, <4>2, <4>3, AreaKept
      <4> QED BY <4>4 DEF b, v
    <3>7. HasInfo'
      BY <3>1, <3>6 DEF HasInfo, init_fsinfo
    <3>8. Repaired'
      BY <1>5, <2>1, <3>2, <3>6, <3>7 DEF Repaired
    <3> QED BY <3>6, <3>8
  <2> HIDE DEF New, Old
  <2> QED BY <1>2, <2>4, <2>5, <2>6
<1>9. fs.pc \in {"backup", "info"} /\ fs'.pc \in {"info", "read"}
  BY <1>1, <1>5
<1> HIDE DEF New, Old
<1> QED BY <1>1, <1>5, <1>7, <1>8, <1>9, RepairStep

-----------------------------------------------------------------------------
(* The theorems. *)

\* Before mkdosfs is done there is no run of dosfsck.
LEMMA KeepFormat ==
  ASSUME IInv, Format
  PROVE  IInv'
<1>1. CASE WriteTables
  BY <1>1, KeepWrite
<1>2. ASSUME Formatting', mk'.pc # "done", UNCHANGED <<dev, fs, damage>>, mk.pc # "done"
      PROVE  IInv'
  BY <1>2 DEF IInv
<1>3. Formatting
  BY DEF IInv
<1>4. CASE ParseOptions
  <2>1. mk.pc = "start" /\ UNCHANGED <<dev, fs, damage>>
    BY <1>4 DEF ParseOptions
  <2>2. mk = [pc |-> "start", why |-> "none"]
    BY <1>3, <2>1 DEF Formatting
  <2> QED BY <1>2, <1>4, <2>1, <2>2, KeepParse
<1>5. CASE EstablishParams
  <2>1. mk.pc = "establish" /\ UNCHANGED <<dev, fs, damage>>
    BY <1>5, Zenon DEF EstablishParams
  <2> QED BY <1>2, <1>3, <1>5, <2>1, KeepEstablish
<1>6. CASE SetupTables
  <2>1. mk.pc = "setup" /\ UNCHANGED <<dev, fs, damage>>
    BY <1>6, SMT DEF SetupTables
  <2> QED BY <1>2, <1>3, <1>6, <2>1, KeepSetup
<1>7. CASE TryClusterSize
  <2>1. mk.pc = "try" /\ UNCHANGED <<dev, fs, damage>>
    BY <1>7, Zenon DEF TryClusterSize
  <2> QED BY <1>2, <1>3, <1>7, <2>1, KeepTry
<1>8. CASE TryAtari
  <2>1. mk.pc = "atari" /\ UNCHANGED <<dev, fs, damage>>
    BY <1>8, Zenon DEF TryAtari
  <2> QED BY <1>2, <1>3, <1>8, <2>1, KeepAtari
<1>9. CASE FinishTables
  <2>1. mk.pc = "finish" /\ UNCHANGED <<dev, fs, damage>>
    BY <1>9, Zenon DEF FinishTables
  <2> QED BY <1>2, <1>3, <1>9, <2>1, KeepFinish
<1>10. CASE CheckBlocks
  <2>1. mk.pc = "check" /\ UNCHANGED <<dev, fs, damage>>
    BY <1>10, Zenon DEF CheckBlocks
  <2> QED BY <1>2, <1>3, <1>10, <2>1, KeepCheck
<1> QED BY <1>1, <1>4, <1>5, <1>6, <1>7, <1>8, <1>9, <1>10 DEF Format

\* mkdosfs.c and boot.c, for every device and command line: the layout mkdosfs
\* settles on has room for its clusters and an entry of the FAT for each of them
\* (32 bit FATs of an Atari left out), and boot.c finds a supported one again.
THEOREM LayoutsAgree == MkSpec => []IInv
<1>1. MkInit => IInv
  <2> SUFFICES ASSUME MkInit PROVE IInv
    OBVIOUS
  <2>1. mk = [pc |-> "start", why |-> "none"] /\ fs = [pc |-> "none", runs |-> 0] /\ damage = "none"
    BY DEF MkInit
  <2>2. mk.pc = "start" /\ fs.pc = "none" /\ fs.runs = 0
    BY <2>1
  <2> QED BY <2>1, <2>2 DEF IInv, Formatting, Stages
<1>2. IInv /\ [MkNext]_mkVars => IInv'
  <2> SUFFICES ASSUME IInv, [MkNext]_mkVars PROVE IInv'
    OBVIOUS
  <2>1. CASE Format
    BY <2>1, KeepFormat
  <2>2. CASE DamageBoot
    BY <2>2, KeepDamage
  <2>3. CASE ReadBoot
    BY <2>3, KeepRead
  <2>4. CASE CheckBackupBoot
    BY <2>4, KeepBackup
  <2>5. CASE ReadFsinfo
    BY <2>5, KeepInfo
  <2>6. CASE UNCHANGED mkVars
    <3>1. mk' = mk /\ dev' = dev /\ fs' = fs /\ damage' = damage
      BY <2>6 DEF mkVars
    <3>2. Formatting' /\ Tables' = Tables /\ BootSector' = BootSector /\ Supported' = Supported
      BY <3>1, SameFormat DEF IInv
    <3>3. Layout(BootSector)' = Layout(BootSector)
      BY <3>1, <3>2, SMT DEF Layout
    <3>4. (FsShape => FsShape') /\ (Intact => Intact') /\ (Found => Found')
      BY <3>1, <3>2, <3>3, Zenon DEF FsShape, Intact, Found
    <3>5. Automatic => Automatic'
      BY <3>1, <3>2, Zenon DEF Automatic, Area, Repaired, HasInfo
    <3>6. Checking => Checking'
      BY <3>1, <3>4, <3>5 DEF Checking
    <3> QED BY <3>1, <3>2, <3>6 DEF IInv
  <2> QED BY <2>1, <2>2, <2>3, <2>4, <2>5, <2>6 DEF MkNext
<1> QED BY <1>1, <1>2, PTL DEF MkSpec

\* dosfsck accepts every supported file system that mkdosfs has made, finds the
\* same clusters and the same kind of FAT in it, and changes nothing, whatever
\* the device and the command line.
THEOREM FormatsAccepted == MkSpec => []FormatAccepted
<1>1. IInv => FormatAccepted
  <2> SUFFICES ASSUME IInv, fs.pc \in {"read", "dead"}, fs.runs = 1, damage = "none", Supported
               PROVE  /\ fs.pc = "read" /\ ~fs.wrote
                      /\ fs.l.clusters = mk.clusters
                      /\ KindAgrees(fs.l.bits)
                      /\ fs.l.bits = 32 => fs.free = mk.clusters - 1
    BY DEF FormatAccepted
  <2>1. mk.pc = "done" /\ mk \in MkState /\ Settled /\ Checking
    BY DEF IInv, Formatting, Stages
  <2>2. /\ dev = Tables /\ fs.pc = "read" /\ fs.wrote = FALSE /\ fs.l = Layout(BootSector)
        /\ mk.size_fat = 32 => fs.free = mk.clusters - 1
    BY <2>1 DEF Checking, Intact, Found
  <2>3. /\ fs.l.clusters = mk.clusters /\ (fs.l.bits = 32 <=> mk.size_fat = 32)
        /\ KindAgrees(fs.l.bits)
    BY <2>1, <2>2, Accepted, Zenon
  <2> QED BY <2>2, <2>3, Zenon
<1> QED BY <1>1, LayoutsAgree, PTL

\* A second automatic run of dosfsck finds the backup boot sector and the FSINFO
\* sector in order, whatever the first one had to repair.
THEOREM RepairedOnce == MkSpec => []BootFixedOnce
<1>1. IInv => BootFixedOnce
  <2> SUFFICES ASSUME IInv, fs.pc = "read", fs.runs = 2, ~fs.interactive, Supported
               PROVE  ~fs.wrote
    BY DEF BootFixedOnce
  <2>1. mk.pc = "done" /\ Checking
    BY DEF IInv
  <2>2. CASE mk.size_fat = 32
    <3>1. fs.wrote = FALSE
      BY <2>1, <2>2 DEF Checking, Automatic, Repaired
    <3> QED BY <3>1, Zenon
  <2>3. CASE mk.size_fat # 32
    <3>1. fs.wrote = FALSE
      BY <2>1, <2>3 DEF Checking, Found
    <3> QED BY <3>1, Zenon
  <2> QED BY <2>2, <2>3
<1> QED BY <1>1, LayoutsAgree, PTL
=============================================================================
