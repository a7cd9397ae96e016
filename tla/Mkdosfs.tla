------------------------------ MODULE Mkdosfs ------------------------------
(***************************************************************************)
(* mkdosfs (mkdosfs.c) lays out a FAT file system for a device and its     *)
(* options; dosfsck (boot.c) then reads the boot sector back, works out    *)
(* the same layout from it, and on FAT32 looks after the backup boot       *)
(* sector and the FSINFO sector. All sizes are those of the code; devices  *)
(* are below one GByte and no smaller than their reserved sectors and root *)
(* directory, so that only the differences marked SubU can wrap.           *)
(***************************************************************************)
EXTENDS Integers, Sequences, FiniteSets

CONSTANT MkOptions    \* the devices and command lines that are tried

BLOCK_SIZE == 1024
ONE_GBYTE == 1048576    \* bound: in blocks
\* geometry, sect, head: whether the drive says what its geometry is, and what
\* it says (HDIO_GETGEO of a hard disk, FDGETPRM of a floppy).
CommandLine ==
  [kind : {"image", "hd", "disk", "floppy", "loop"}, size : 0..(ONE_GBYTE - 1),
   atari : BOOLEAN, nr_fats : Nat, size_fat : Nat, sectors_per_cluster : Nat,
   root : Nat, reserved : Nat, sector_size : Nat, sector_size_set : BOOLEAN,
   bad : Int, listed : BOOLEAN, geometry : BOOLEAN, sect : 0..255, head : 0..255]
\* The reserved sectors and the root directory, in bytes.
SmallestSize(o) ==
  (IF o.reserved # 0 THEN o.reserved ELSE 32) * o.sector_size
    + (IF o.root # 0 THEN o.root ELSE 512) * 32 + o.sector_size
ASSUME MkAssumption ==
  /\ MkOptions \subseteq CommandLine
  /\ \A o \in MkOptions : o.size * BLOCK_SIZE >= SmallestSize(o)

HARD_SECTOR_SIZE == 512
SECTORS_PER_BLOCK == BLOCK_SIZE \div HARD_SECTOR_SIZE
MAX_CLUST_12 == 4096 - 16
MAX_CLUST_16 == 65536 - 16
MIN_CLUST_32 == 65529
MAX_CLUST_32 == 268435456 - 16
FAT12_THRESHOLD == 4085
GEMDOS_MAX_SECTORS == 65531
GEMDOS_MAX_SECTOR_SIZE == 16 * 1024
MSDOS_FAT12 == 4084
SEARCH_ROUNDS == 64    \* bound: rounds of a loop that doubles or halves a number

VARIABLES
  mk,       \* mkdosfs: its options, its globals and how far it has come
  dev,      \* the boot sector and the other reserved sectors
  fs,       \* dosfsck: the DOS_FS read_boot fills in, and whether it wrote
  damage    \* history: what happened to the file system in between

mkVars == <<mk, dev, fs, damage>>

Cdiv(a, b) == (a + b - 1) \div b
Least(a, b) == IF a < b THEN a ELSE b
\* unsigned a - b; a wrapped difference is larger than any count.
SubU(a, b) == IF a >= b THEN a - b ELSE 1073741824

MkDie(why) == mk' = [mk EXCEPT !.pc = "dead", !.why = why]

MkInit ==
  /\ mk = [pc |-> "start", why |-> "none"]
  /\ dev = <<>> /\ fs = [pc |-> "none", runs |-> 0] /\ damage = "none"

\* A loop of N rounds, each of which takes the variables to F of them.
Rounds(F, first, N) ==
  LET after[k \in 0..N] == IF k = 0 THEN first ELSE F[after[k - 1]]
  IN after[N]

\* main: the options. count_blocks agrees with the size n the device really has:
\* it doubles high until that is not a valid offset, then halves the interval.
Search(n) ==
  [r \in Nat \X Nat |->
     LET low == r[1]  high == r[2]  mid == (low + high) \div 2
     IN IF high < n THEN <<high, high * 2>>
        ELSE IF low >= high - 1 THEN r
        ELSE IF mid < n THEN <<mid, high>> ELSE <<low, mid>>]
count_blocks(n, seekable) ==
  IF seekable /\ n > 0 THEN n \div BLOCK_SIZE
  ELSE (Rounds(Search(n), <<0, 1>>, SEARCH_ROUNDS)[1] + 1) \div BLOCK_SIZE

\* An option that is not given is 0; the others have their defaults.
FatOptions(o) == o.nr_fats \in 1..4 /\ o.size_fat \in {0, 12, 16, 32}
ClusterSizes == {1, 2, 4, 8, 16, 32, 64, 128}
SectorSizes == {512, 1024, 2048, 4096, 8192, 16384, 32768}
SizeOptions(o) ==
  /\ o.root = 0 \/ (o.root >= 16 /\ o.root <= 32768)
  /\ o.reserved >= 0 /\ o.reserved <= 65535
  /\ o.sectors_per_cluster \in ClusterSizes \cup {0}
  /\ o.sector_size \in SectorSizes
\* kind "disk" is a whole disk without -I.
ParseOptions ==
  /\ mk.pc = "start"
  /\ \E o \in MkOptions, seekable \in BOOLEAN :
       IF ~FatOptions(o) \/ ~SizeOptions(o) THEN MkDie("usage")
       ELSE IF o.kind = "disk" THEN MkDie("full disk")
       ELSE mk' = [pc |-> "establish", why |-> "none", o |-> o,
                   blocks |-> count_blocks(o.size * BLOCK_SIZE, seekable),
                   size_fat |-> o.size_fat, sector_size |-> o.sector_size,
                   reserved |-> o.reserved, root |-> o.root, def_root |-> 0,
                   secs_track |-> 0, heads |-> 0,
                   cl |-> 0, nsec |-> 0, clusters |-> 0, fat_length |-> 0, bad |-> {}]
  /\ UNCHANGED <<dev, fs, damage>>

\* establish_params: a floppy's size decides, if the device is one or is an
\* image or a loop device of such a size; anything else is a hard disk.
FloppySizes == {720, 1440, 2400, 2880, 5760}
FloppyParams(n) ==
  [cluster_size |-> IF n \in {720, 1440, 5760} THEN 2 ELSE IF mk.o.atari THEN 2 ELSE 1,
   root |-> IF n \in {720, 1440} THEN 112 ELSE 224]
HdParams(bits) ==
  LET mb == (mk.blocks + 1023) \div 1024 IN
  [cluster_size |-> IF bits # 32 THEN 4 ELSE IF mb >= 16384 THEN 32
                    ELSE IF mb >= 8192 THEN 16 ELSE IF mb >= 256 THEN 8 ELSE 1,
   root |-> 512]
DeviceSectors == mk.o.size * SECTORS_PER_BLOCK
LikeFloppy == \/ mk.o.kind = "floppy"
              \/ mk.o.kind \in {"image", "loop"} /\ DeviceSectors \in FloppySizes
AutoBits == IF ~LikeFloppy /\ mk.size_fat = 0 /\ mk.blocks * SECTORS_PER_BLOCK > 1064960
            THEN 32 ELSE mk.size_fat
Params == IF LikeFloppy THEN FloppyParams(DeviceSectors) ELSE HdParams(AutoBits)
\* What the drive says is taken as it is; images and loop devices get the
\* geometry of the floppy of their size (80 or 40 tracks, 2 heads), or a fake one.
Geometry ==
  IF mk.o.kind \in {"image", "loop"}
  THEN IF ~LikeFloppy THEN <<32, 64>>
       ELSE <<IF DeviceSectors \in {720, 1440} THEN 9 ELSE DeviceSectors \div 160, 2>>
  ELSE IF mk.o.geometry THEN <<mk.o.sect, mk.o.head>> ELSE <<63, 255>>
EstablishParams ==
  /\ mk.pc = "establish"
  /\ IF mk.o.kind = "floppy" /\ ~mk.o.geometry THEN MkDie("diskette geometry")
     ELSE mk' = [mk EXCEPT !.pc = "setup", !.size_fat = AutoBits,
                           !.secs_track = Geometry[1], !.heads = Geometry[2],
                           !.cl = Params.cluster_size, !.def_root = Params.root]
  /\ UNCHANGED <<dev, fs, damage>>

\* setup_tables, up to the number of sectors for the FATs and the data.
Sectors(ss) == (mk.blocks * BLOCK_SIZE) \div ss
Gemdos == [r \in Nat \X Nat |-> IF r[1] > GEMDOS_MAX_SECTORS THEN <<r[1] \div 2, r[2] * 2>> ELSE r]
SetupTables ==
  /\ mk.pc = "setup" /\ UNCHANGED <<dev, fs, damage>>
  /\ LET root == IF mk.size_fat = 32 THEN 0 ELSE IF mk.root # 0 THEN mk.root ELSE mk.def_root
         res  == IF mk.reserved # 0 THEN mk.reserved ELSE IF mk.size_fat = 32 THEN 32 ELSE 1
         n    == Sectors(mk.sector_size)
         bits == IF ~mk.o.atari \/ mk.size_fat # 0 THEN mk.size_fat
                 ELSE IF n \in {1440, 2400, 2880, 5760} THEN 12 ELSE 16
         geo  == IF mk.o.atari /\ ~mk.o.sector_size_set
                 THEN Rounds(Gemdos, <<n, mk.sector_size>>, SEARCH_ROUNDS) ELSE <<n, mk.sector_size>>
         spc  == mk.o.sectors_per_cluster
     IN IF mk.size_fat = 32 /\ res < 2 THEN MkDie("reserved")
        ELSE mk' = [mk EXCEPT !.pc = IF mk.o.atari THEN "atari" ELSE "try",
                              !.root = root, !.reserved = res, !.size_fat = bits,
                              !.nsec = geo[1], !.sector_size = geo[2],
                              !.cl = IF spc # 0 THEN spc ELSE IF mk.o.atari THEN 2 ELSE @]

FatData == mk.nsec - Cdiv(mk.root * 32, mk.sector_size) - mk.reserved
Forced(bits) == mk.o.size_fat = bits

\* The clusters and sectors per FAT of each kind of FAT; 0 clusters if it does
\* not fit. The number of clusters is taken again once the FATs have their size.
Count(len) == SubU(FatData, mk.o.nr_fats * len) \div mk.cl
Fit12 ==
  LET c0  == (2 * (FatData * mk.sector_size + mk.o.nr_fats * 3))
               \div (2 * mk.cl * mk.sector_size + mk.o.nr_fats * 3)
      len == Cdiv(((c0 + 2) * 3 + 1) \div 2, mk.sector_size)
      max == Least((len * 2 * mk.sector_size) \div 3, MAX_CLUST_12)
  IN <<IF Count(len) > max - 2 THEN 0 ELSE Count(len), len>>
X_Fit16 ==
  LET c0  == (FatData * mk.sector_size + mk.o.nr_fats * 4)
               \div (mk.cl * mk.sector_size + mk.o.nr_fats * 2)
      len == Cdiv(c0 * 2, mk.sector_size)
  IN <<IF Count(len) > MAX_CLUST_16 \/ Count(len) < FAT12_THRESHOLD THEN 0 ELSE Count(len), len>>
Fit16 ==
  LET c0  == (FatData * mk.sector_size + mk.o.nr_fats * 4)
               \div (mk.cl * mk.sector_size + mk.o.nr_fats * 2)
      len == Cdiv((c0 + 2) * 2, mk.sector_size)
      max == Least((len * mk.sector_size) \div 2, MAX_CLUST_16)
      n   == IF Count(len) > max - 2 THEN 0 ELSE Count(len)
  IN <<IF n < FAT12_THRESHOLD /\ ~Forced(16) THEN 0 ELSE n, len>>
Fit32 ==
  LET c0  == (FatData * mk.sector_size + mk.o.nr_fats * 8)
               \div (mk.cl * mk.sector_size + mk.o.nr_fats * 4)
      len == Cdiv((c0 + 2) * 4, mk.sector_size)
      max == Least((len * mk.sector_size) \div 4, MAX_CLUST_32)
      n   == IF Count(len) < MIN_CLUST_32 /\ ~Forced(32) THEN 0 ELSE Count(len)
  IN <<IF n > max THEN 0 ELSE n, len>>

\* One round of the search for a cluster size, and the choice at its end.
TryClusterSize ==
  /\ mk.pc = "try" /\ UNCHANGED <<dev, fs, damage>>
  /\ LET max  == IF mk.o.sectors_per_cluster # 0 THEN mk.o.sectors_per_cluster ELSE 128
         fits == \/ Fit12[1] # 0 /\ mk.size_fat \in {0, 12}
                 \/ Fit16[1] # 0 /\ mk.size_fat \in {0, 16}
                 \/ Fit32[1] # 0 /\ mk.size_fat = 32
         bits == IF mk.size_fat # 0 THEN mk.size_fat ELSE IF Fit16[1] > Fit12[1] THEN 16 ELSE 12
         f    == CASE bits = 12 -> Fit12 [] bits = 16 -> Fit16 [] OTHER -> Fit32
     IN IF ~fits /\ mk.cl * 2 <= max THEN mk' = [mk EXCEPT !.cl = @ * 2]
        ELSE IF bits = 16 /\ f[1] < FAT12_THRESHOLD /\ mk.o.size_fat = 0 THEN MkDie("unfortunate size")
        ELSE mk' = [mk EXCEPT !.pc = "finish", !.size_fat = bits,
                              !.clusters = f[1], !.fat_length = f[2]]

\* The same for the Atari, where the sector size grows instead.
TryAtari ==
  /\ mk.pc = "atari" /\ UNCHANGED <<dev, fs, damage>>
  /\ LET b   == mk.size_fat
         nf  == mk.o.nr_fats
         c0  == (2 * (FatData * mk.sector_size - (2 * nf * b) \div 8))
                  \div (2 * (mk.cl * mk.sector_size + (nf * b) \div 8))
         len == Cdiv(((c0 + 2) * b) \div 8, mk.sector_size)
         max == (len * mk.sector_size * 8) \div b
         lim == CASE b = 32 -> MAX_CLUST_32 [] b = 16 -> MAX_CLUST_16 [] b = 12 -> MAX_CLUST_12
         fits == max <= lim /\ Count(len) <= max - 2
     IN IF fits /\ mk.sector_size <= GEMDOS_MAX_SECTOR_SIZE
        THEN mk' = [mk EXCEPT !.pc = "finish", !.clusters = Count(len), !.fat_length = len]
        ELSE IF fits \/ mk.o.sector_size_set \/ mk.sector_size * 2 > GEMDOS_MAX_SECTOR_SIZE
        THEN MkDie("sector size")
        ELSE mk' = [mk EXCEPT !.nsec = @ \div 2, !.sector_size = @ * 2]

\* The rest of setup_tables: the boot sector, the first FAT entries.
DataSector == (mk.reserved + mk.o.nr_fats * mk.fat_length) * (mk.sector_size \div HARD_SECTOR_SIZE)
DataBlock  == Cdiv(DataSector, SECTORS_PER_BLOCK)
BackupBoot == IF mk.reserved >= 7 THEN 6 ELSE mk.reserved - 1
BootSector ==
  LET f32 == mk.size_fat = 32 IN
  [sector_size |-> mk.sector_size, cluster_size |-> mk.cl, reserved |-> mk.reserved,
   fats |-> mk.o.nr_fats, dir_entries |-> mk.root,
   secs_track |-> mk.secs_track, heads |-> mk.heads,
   sectors |-> IF mk.nsec >= 65536 THEN 0 ELSE mk.nsec,
   total_sect |-> IF mk.nsec >= 65536 THEN mk.nsec ELSE 0,
   fat_length |-> IF f32 THEN 0 ELSE mk.fat_length,
   fat32_length |-> IF f32 THEN mk.fat_length ELSE 0,
   root_cluster |-> IF f32 THEN 2 ELSE 0, info_sector |-> IF f32 THEN 1 ELSE 0,
   backup_boot |-> IF f32 THEN BackupBoot ELSE 0]
FinishTables ==
  /\ mk.pc = "finish" /\ UNCHANGED <<dev, fs, damage>>
  /\ IF mk.o.atari /\ mk.nsec >= GEMDOS_MAX_SECTORS THEN MkDie("gemdos")
     ELSE IF mk.clusters = 0 THEN MkDie("too large")
     ELSE IF mk.blocks < DataBlock + 32 THEN MkDie("too few blocks")
     ELSE mk' = [mk EXCEPT !.pc = "check"]

\* mark_FAT_sector and, for one unreadable block, check_blocks or (-l)
\* get_list_blocks. C divides towards zero.
TowardsZero(a, b) == IF a >= 0 THEN a \div b ELSE -((-a) \div b)
ClusterOf(sector) ==
  TowardsZero(TowardsZero(sector - DataSector, mk.cl), mk.sector_size \div HARD_SECTOR_SIZE)
SectorsOf(block) == {block * SECTORS_PER_BLOCK + i : i \in 0..(SECTORS_PER_BLOCK - 1)}
CheckBlocks ==
  /\ mk.pc = "check" /\ UNCHANGED <<dev, fs, damage>>
  /\ LET b == DataBlock + mk.o.bad - 1 IN
     IF mk.o.bad = 0 THEN mk' = [mk EXCEPT !.pc = "write"]
     ELSE IF ~mk.o.listed /\ mk.o.kind # "image" /\ b < DataBlock THEN MkDie("bad block")
     ELSE IF \E s \in SectorsOf(b) : ClusterOf(s) < 0 THEN MkDie("bug")
     ELSE mk' = [mk EXCEPT !.pc = "write",
                   !.bad = IF mk.o.kind = "image" /\ ~mk.o.listed THEN {}
                           ELSE {ClusterOf(s) : s \in SectorsOf(b)}]

\* write_tables: reserved sectors are cleared, then the FSINFO sector and the
\* backup of the boot sector are written, in this order.
Tables ==
  [b |-> BootSector, kind |-> mk.o.kind, atari |-> mk.o.atari,
   sect |-> [s \in 1..(mk.reserved - 1) |->
               IF s = BootSector.backup_boot THEN [t |-> "boot", b |-> BootSector]
               ELSE IF s = BootSector.info_sector
               THEN [t |-> "info", free |-> mk.clusters - 1] ELSE [t |-> "blank"]]]
WriteTables ==
  /\ mk.pc = "write" /\ UNCHANGED <<fs, damage>>
  /\ mk' = [mk EXCEPT !.pc = "done"] /\ dev' = Tables

-----------------------------------------------------------------------------
(* boot.c. What may have happened to a FAT32 file system since.            *)

DamageBoot ==
  /\ mk.pc = "done" /\ fs.runs = 0 /\ damage = "none" /\ dev.b.fat32_length # 0
  /\ dev.b.backup_boot # dev.b.info_sector
  /\ LET b0 == [dev.b EXCEPT !.backup_boot = 0]
         i0 == [dev.b EXCEPT !.info_sector = 0]
     IN \/ /\ damage' = "no backup"
           /\ dev' = [dev EXCEPT !.b = b0, !.sect[dev.b.backup_boot] = [t |-> "blank"]]
        \/ /\ damage' = "no info"
           /\ dev' = [dev EXCEPT !.b = i0, !.sect[dev.b.backup_boot].b = i0]
        \/ /\ damage' = "bad info"
           /\ dev' = [dev EXCEPT !.sect[dev.b.info_sector] = [t |-> "blank"]]
        \/ /\ damage' = "differ"
           /\ dev' = [dev EXCEPT !.sect[dev.b.backup_boot].b.root_cluster = 3]
  /\ UNCHANGED <<mk, fs>>

\* read_boot, the part common to all file systems.
MultipleOf(n, k) == IF n = 0 THEN 0 ELSE Cdiv(n, k) * k
Layout(b) ==
  LET total == IF b.sectors # 0 THEN b.sectors ELSE b.total_sect
      len   == IF b.fat_length # 0 THEN b.fat_length ELSE b.fat32_length
      root  == (b.reserved + b.fats * len) * b.sector_size
      data  == root + MultipleOf(b.dir_entries * 32, b.sector_size)
      n     == (total * b.sector_size - data) \div (b.cluster_size * b.sector_size)
      small == dev.kind = "floppy" \/ (dev.kind = "loop" /\ total \in {720, 1440, 2880})
      bits  == IF b.fat_length = 0 /\ b.fat32_length # 0 THEN 32
               ELSE IF ~dev.atari THEN IF n > MSDOS_FAT12 THEN 16 ELSE 12
               ELSE IF n + 2 > (len * b.sector_size * 8) \div 16 \/ small THEN 12 ELSE 16
  IN [clusters |-> n, bits |-> bits, fat_size |-> len * b.sector_size, data_start |-> data]
BootDies(b, l) ==
  \/ b.sector_size = 0 \/ b.cluster_size = 0 \/ b.fats \notin {1, 2}
  \/ l.clusters > ((l.fat_size * 8) \div l.bits) - 2
  \/ b.dir_entries = 0 /\ b.root_cluster = 0
  \/ b.dir_entries % 16 # 0 \/ b.sector_size % 512 # 0
  \/ ~dev.atari /\ (b.secs_track = 0 \/ b.heads = 0)
ReadBoot ==
  /\ mk.pc = "done" /\ fs.pc \in {"none", "read"} /\ fs.runs < 2
  /\ LET l == Layout(dev.b) IN
     \E i \in IF fs.runs = 0 THEN BOOLEAN ELSE {fs.interactive} :
       fs' = [pc |-> IF BootDies(dev.b, l) THEN "dead" ELSE IF l.bits = 32 THEN "backup" ELSE "read",
              l |-> l, b |-> dev.b, interactive |-> i, wrote |-> FALSE,
              fsinfo_start |-> 0, free |-> -1, runs |-> fs.runs + 1]
  /\ UNCHANGED <<mk, dev, damage>>

FsKeys(K, default) == IF fs.interactive THEN K ELSE {default}
ToBoot(b) == [t |-> "boot", b |-> b]
Contents(s) == IF s.t = "boot" THEN s.b ELSE s

\* check_backup_boot
NewBackup(b) ==
  IF b.reserved >= 7 /\ b.info_sector # 6 THEN 6
  ELSE IF b.reserved - 1 = b.info_sector THEN b.reserved - 2 ELSE b.reserved - 1
CheckBackupBoot ==
  /\ fs.pc = "backup" /\ UNCHANGED <<mk, damage>>
  /\ LET b == fs.b
         c == [b EXCEPT !.backup_boot = NewBackup(b)]
     IN \/ /\ b.backup_boot = 0 /\ b.reserved < 3
           /\ fs' = [fs EXCEPT !.pc = "info"] /\ UNCHANGED dev
        \/ /\ b.backup_boot = 0 /\ b.reserved >= 3
           /\ \E key \in FsKeys({1, 2}, 1) :
                \/ /\ key = 1
                   /\ dev' = [dev EXCEPT !.sect[NewBackup(b)] = ToBoot(c), !.b = c]
                   /\ fs' = [fs EXCEPT !.pc = "info", !.b = c, !.wrote = TRUE]
                \/ key = 2 /\ fs' = [fs EXCEPT !.pc = "info"] /\ UNCHANGED dev
        \/ /\ b.backup_boot # 0
           /\ \E key \in IF dev.sect[b.backup_boot] = ToBoot(b) THEN {3} ELSE FsKeys(1..3, 3) :
                /\ dev' = CASE key = 1 -> [dev EXCEPT !.sect[b.backup_boot] = ToBoot(b)]
                            [] key = 2 -> [dev EXCEPT !.b = Contents(dev.sect[b.backup_boot])]
                            [] OTHER   -> dev
                /\ fs' = [fs EXCEPT !.pc = "info", !.wrote = @ \/ key # 3]

\* init_fsinfo and read_fsinfo
X_init_fsinfo == [t |-> "blank"]
init_fsinfo == [t |-> "info", free |-> -1]
NewInfo(b) == IF b.backup_boot = 1 THEN 2 ELSE 1
ReadFsinfo ==
  /\ fs.pc = "info" /\ UNCHANGED <<mk, damage>>
  /\ \/ /\ fs.b.info_sector = 0
        /\ \E key \in FsKeys({1, 2}, 2) :
             LET s == NewInfo(fs.b)
                 d == [dev EXCEPT !.sect[s] = init_fsinfo,
                                  !.b.info_sector = s]
             IN \/ /\ key = 2 \/ s >= fs.b.reserved
                   /\ fs' = [fs EXCEPT !.pc = "read"] /\ UNCHANGED dev
                \/ /\ key = 1 /\ s < fs.b.reserved
                   /\ dev' = IF fs.b.backup_boot = 0 THEN d
                             ELSE [d EXCEPT !.sect[fs.b.backup_boot].b.info_sector = s]
                   /\ fs' = [fs EXCEPT !.pc = "read", !.b.info_sector = s, !.wrote = TRUE,
                                       !.fsinfo_start = s]
     \/ /\ fs.b.info_sector # 0
        /\ LET s == fs.b.info_sector
               good == dev.sect[s].t = "info"
           IN \E key \in IF good THEN {0} ELSE FsKeys({1, 2}, 1) :
                /\ dev' = IF key = 1 THEN [dev EXCEPT !.sect[s] = init_fsinfo] ELSE dev
                /\ fs' = [fs EXCEPT !.pc = "read", !.wrote = @ \/ key = 1,
                                    !.fsinfo_start = IF key = 2 THEN 0 ELSE s,
                                    !.free = IF good THEN dev.sect[s].free ELSE -1]

Format   == ParseOptions \/ EstablishParams \/ SetupTables \/ TryClusterSize \/ TryAtari
              \/ FinishTables \/ CheckBlocks \/ WriteTables
MkNext   == Format \/ DamageBoot \/ ReadBoot \/ CheckBackupBoot \/ ReadFsinfo

MkSpec == MkInit /\ [][MkNext]_mkVars

-----------------------------------------------------------------------------
\* A drive that is asked for its geometry does not say zero (an Atari need not).
GeometryGiven ==
  mk.o.kind \in {"hd", "floppy"} /\ mk.o.geometry /\ ~mk.o.atari
    => mk.o.sect # 0 /\ mk.o.head # 0

\* The file systems dosfsck is meant for. mkdosfs also makes ones with three or
\* four FATs, with a root directory that does not fill its sectors, and with a
\* geometry of zero when that is what the drive says, all of which dosfsck
\* refuses. With two reserved sectors it puts the backup boot sector on top of
\* the FSINFO sector. A 32 bit FAT on an Atari is left out.
Supported == /\ mk.o.nr_fats <= 2 /\ mk.root % 16 = 0
             /\ ~(mk.size_fat = 32 /\ mk.reserved = 2)
             /\ mk.o.atari => mk.size_fat # 32
             /\ GeometryGiven

\* dosfsck tells the kind of FAT by the number of clusters or, on an Atari, by
\* the device and the room in the FAT.
KindAgrees(bits) ==
  \/ bits = mk.size_fat
  \/ mk.o.size_fat = 16 /\ mk.clusters < FAT12_THRESHOLD
  \/ mk.o.atari /\ (mk.size_fat = 12 \/ mk.o.kind \in {"floppy", "loop"})

\* mkdosfs.c against boot.c: a supported file system that mkdosfs has just made
\* is accepted by dosfsck, which finds the same number of clusters, room for all
\* of them in the FAT and the same kind of FAT (unless a 16 bit FAT that is too
\* small was asked for, or it is a 12 bit FAT, a floppy or a loop device of an
\* Atari, where dosfsck guesses), and changes nothing on its own.
FormatAccepted ==
  fs.pc \in {"read", "dead"} /\ fs.runs = 1 /\ damage = "none" /\ Supported =>
    /\ fs.pc = "read" /\ ~fs.wrote
    /\ fs.l.clusters = mk.clusters
    /\ KindAgrees(fs.l.bits)
    /\ fs.l.bits = 32 => fs.free = mk.clusters - 1

\* boot.c: the backup boot sector and the FSINFO sector get places of their own;
\* an automatic run that repaired them leaves nothing for the next run to change.
BootFixedOnce ==
  fs.pc = "read" /\ fs.runs = 2 /\ ~fs.interactive /\ Supported => ~fs.wrote

\* mkdosfs.c "Mark all of the sectors in the block as bad": an unreadable block
\* of the data area belongs to a cluster that is marked.
BadBlocksMarked ==
  mk.pc = "done" /\ mk.o.bad # 0 /\ (mk.o.kind # "image" \/ mk.o.listed) =>
    LET l    == Layout(dev.b)
        unit == mk.cl * mk.sector_size
        byte == (DataBlock + mk.o.bad - 1) * BLOCK_SIZE
    IN byte >= l.data_start =>
         \E c \in mk.bad : c = (byte - l.data_start) \div unit + 2
=============================================================================
