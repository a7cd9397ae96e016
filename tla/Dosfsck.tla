------------------------------ MODULE Dosfsck ------------------------------
(***************************************************************************)
(* dosfsck (check.c, fat.c, file.c, dosfsck.c): a FAT file system that has *)
(* taken some damage is checked and repaired, automatically or with a user *)
(* who chooses, and the changes are written when the program ends.         *)
(*                                                                         *)
(* A directory slot is a number: the slots of the old-style root directory *)
(* first, then DirSlots slots for each cluster. A DOS_FILE is known by the *)
(* slot it was read from (its offset); 0 is the fake entry that stands for *)
(* the FAT32 root directory. FAT entries are those of 16 and 32 bits: the  *)
(* value 1, which the code never tests for, is left out.                   *)
(***************************************************************************)
EXTENDS Integers, Sequences, FiniteSets, SequencesExt

CONSTANTS
  NClusters,     \* fs->clusters
  ClusterSize,   \* fs->cluster_size
  DirSlots,      \* directory entries in a cluster
  RootEntries,   \* fs->root_entries of the old-style root directory
  MaxFaults,     \* bound: places where the file system is damaged
  MaxRuns,       \* bound: runs of dosfsck, by the number of damaged places
  Options        \* the sets of command line options, by the same number

ASSUME DosfsckAssumption ==
  /\ {NClusters, ClusterSize, DirSlots, RootEntries} \subseteq Nat \ {0}
  /\ MaxFaults \in Nat /\ MaxRuns \in [0..MaxFaults -> Nat]

Cluster == 2..(NClusters + 1)
EOF     == -1
BAD     == -2
Beyond  == NClusters + 2           \* any cluster number that is too large
NoFile  == -1
Dummy   == -3                      \* reclaim_file's owner of lost clusters
NoEntry == [del |-> TRUE, name |-> "", dir |-> FALSE, start |-> 0, size |-> 0]

SlotAt(c, k) == RootEntries + (c - 2) * DirSlots + k
RootSlots    == 1..RootEntries
Slot         == 1..(RootEntries + NClusters * DirSlots)

\* The names auto_rename and alloc_rootdir_entry make up: FSCK0000.REN, ...
Ren(n) == <<"REN0", "REN1", "REN2", "REN3", "REN4", "REN5", "REN6">>[n + 1]
Rec(n) == <<"REC0", "REC1", "REC2", "REC3", "REC4", "REC5", "REC6">>[n + 1]
Dots == {".", ".."}

VARIABLES
  disk,     \* what is on the device
  m,        \* the file system as this run sees it: fs_read over its changes
  opts,     \* the command line options of this run
  pc, pass, \* where the run is; 1 is the repair, 2 the verification pass
  dir,      \* the directory being read: <<DOS_FILE, its parent>>
  at,       \* the next slot to read: <<cluster, index>>
  list,     \* this->first: the files of the directory
  todo,     \* directories still to be scanned, in depth-first order
  w,        \* position in list
  scan,     \* position of the second entry when looking for duplicates
  ck,       \* check_file's curr, prev and clusters; <<>> between files
  prev,     \* fat[].prev: predecessors within the lost clusters
  faults, runs,
  origin    \* history: the disk as it was when the run started

vars == <<disk, m, opts, pc, pass, dir, at, list, todo, w, scan, ck, prev,
          faults, runs, origin>>
place == <<dir, at, list, todo, w, scan, ck, prev>>

-----------------------------------------------------------------------------
(* fat.c *)

\* dir_ent of a DOS_FILE; add_file makes one up for the FAT32 root directory.
Ent(s, f) == IF f # 0 THEN s.slot[f]
             ELSE [del |-> FALSE, name |-> "/", dir |-> TRUE, start |-> s.root, size |-> 0]
Fstart(s, f) == Ent(s, f).start
IsDir(s, f)  == Ent(s, f).dir

Die(s, why) == [s EXCEPT !.die = IF @ = "" THEN why ELSE @]

set_fat(s, c, v) == [s EXCEPT !.fat[c] = v, !.wrote = TRUE]

\* next_cluster: a bad cluster ends the program.
Next_(s, c)   == IF s.fat[c] = BAD THEN EOF ELSE s.fat[c]
DieIfBad(s, c) == IF s.fat[c] = BAD THEN Die(s, "bad") ELSE s

set_owner(s, c, f) ==
  IF f # NoFile /\ s.owner[c] # NoFile THEN Die(s, "internal")
  ELSE [s EXCEPT !.owner[c] = f]

\* MODIFY and MODIFY_START: the FAT32 root directory has no entry on disk.
Modify(s, f, e) ==
  IF f = 0 THEN s ELSE [s EXCEPT !.slot[f] = e, !.wrote = TRUE]
ModifyStart(s, f, v) ==
  LET c == IF v = EOF THEN Beyond ELSE v IN
  IF f # 0 THEN Modify(s, f, [s.slot[f] EXCEPT !.start = c])
  ELSE IF c = 0 THEN Die(s, "root")
  ELSE [s EXCEPT !.root = c, !.wrote = TRUE]
SetSize(s, f, n) == Modify(s, f, [s.slot[f] EXCEPT !.size = n])

\* read_fat: the copy to use when the two differ, then the entries beyond the
\* last cluster.
PickFat(d, first) ==
  IF d.fat2 = d.fat /\ d.ok[1] = d.ok[2] THEN d.fat
  ELSE IF d.ok[1] /\ (first \/ ~d.ok[2]) THEN d.fat ELSE d.fat2
ReadFat(s, first) ==
  LET use   == PickFat(s, first)
      gone  == ~s.ok[1] /\ ~s.ok[2] /\ s.fat2 # s.fat
      f     == [c \in Cluster |-> IF use[c] = Beyond THEN EOF ELSE use[c]]
      fixed == f # use \/ s.fat2 # s.fat \/ s.ok[1] # s.ok[2]
      ok2   == IF s.fat2 = s.fat /\ s.ok[1] = s.ok[2] THEN s.ok
               ELSE <<TRUE, TRUE>>
      s2    == [s EXCEPT !.fat = f, !.fat2 = f, !.ok = ok2,
                         !.owner = [c \in Cluster |-> NoFile],
                         !.wrote = @ \/ fixed]
  IN IF gone THEN Die(s, "fats") ELSE s2

\* fix_bad (-t): clusters no file owns that cannot be read.
FixBad(s) ==
  LET B == {c \in s.unreadable : s.owner[c] = NoFile /\ s.fat[c] # BAD} IN
  [s EXCEPT !.fat = [c \in Cluster |-> IF c \in B THEN BAD ELSE @[c]],
            !.wrote = @ \/ B # {}]

Lost(s) == {c \in Cluster : s.owner[c] = NoFile /\ s.fat[c] \notin {0, BAD}}

reclaim_free(s) ==
  [s EXCEPT !.fat = [c \in Cluster |-> IF c \in Lost(s) THEN 0 ELSE @[c]],
            !.wrote = @ \/ Lost(s) # {}]

\* reclaim_file: a lost chain ends where it runs into a file, a free or a bad
\* cluster; fat[].prev counts the lost clusters that lead to a cluster.
RunsInto(s, c) == s.fat[c] \in Cluster
                    /\ (s.owner[s.fat[c]] # NoFile \/ s.fat[s.fat[c]] \in {0, BAD})
CutLost(s) ==
  LET C == {c \in Lost(s) : RunsInto(s, c)} IN
  [s EXCEPT !.fat = [c \in Cluster |-> IF c \in C THEN EOF ELSE @[c]],
            !.wrote = @ \/ C # {}]
Predecessors(s) ==
  [c \in Cluster |-> Cardinality({p \in Lost(s) : s.fat[p] = c})]

\* tag_free: the chains from the clusters without predecessor; one that joins
\* another is cut before the junction.
RECURSIVE TagChain(_, _, _)
TagChain(s, c, last) ==
  IF c \notin Cluster THEN s
  ELSE IF s.owner[c] = NoFile THEN
    LET s2 == DieIfBad(set_owner(s, c, Dummy), c) IN TagChain(s2, Next_(s2, c), c)
  ELSE IF s.owner[c] = Dummy THEN set_fat(s, last, EOF)
  ELSE Die(s, "internal")
tag_free(s, pr) ==
  FoldLeft(LAMBDA t, c : IF c \in Lost(t) /\ pr[c] = 0 THEN TagChain(t, c, 0) ELSE t,
           s, [i \in 1..NClusters |-> i + 1])

RECURSIVE ChainLen(_, _)
ChainLen(s, c) == IF c \notin Cluster THEN 0 ELSE 1 + ChainLen(s, Next_(s, c))

\* update_free: the count in the FSINFO sector (FAT32 only; -1 if unknown).
X_FreeCount(s) == Cardinality({c \in Cluster : s.owner[c] = NoFile})
FreeCount(s) == Cardinality({c \in Cluster : s.owner[c] = NoFile /\ s.fat[c] # BAD})

-----------------------------------------------------------------------------
(* check.c *)

RECURSIVE DirChain(_, _)
DirChain(s, c) ==
  IF c \notin Cluster THEN <<>> ELSE <<c>> \o DirChain(s, Next_(s, c))
SlotsOf(c)  == [k \in 1..DirSlots |-> SlotAt(c, k)]
RootList(s) == IF s.root = 0 THEN [k \in 1..RootEntries |-> k]
               ELSE FlattenSeq([i \in DOMAIN DirChain(s, s.root) |->
                                  SlotsOf(DirChain(s, s.root)[i])])

\* alloc_rootdir_entry: a free slot of the root directory; a FAT32 root
\* directory that is full grows by the next free cluster. When the search for
\* one starts behind cluster 2 and finds none, it never ends.
GrowRoot(s) ==
  LET last == Last(DirChain(s, s.root))
      free == {c \in Cluster : s.fat[c] = 0}
      up   == {c \in free : c > last}
      new  == Min(IF up # {} THEN up ELSE free)
      s2   == set_fat(set_fat(s, last, new), new, EOF)
      s3   == set_owner(s2, new, s.owner[s.root])
  IN IF free = {} THEN Die(s, IF last = 2 THEN "hang" ELSE "full")
     ELSE [s3 EXCEPT !.slot = [x \in Slot |->
             IF x \in ToSet(SlotsOf(new)) THEN NoEntry ELSE @[x]]]
alloc_rootdir_entry(s, start, size) ==
  LET full(t) == \A i \in DOMAIN RootList(t) : ~t.slot[RootList(t)[i]].del
      s2   == IF ~full(s) THEN s
              ELSE IF s.root = 0 THEN Die(s, "full") ELSE GrowRoot(s)
      pos  == CHOOSE i \in DOMAIN RootList(s2) :
                /\ s2.slot[RootList(s2)[i]].del
                /\ \A j \in 1..(i - 1) : ~s2.slot[RootList(s2)[j]].del
      used == {s2.slot[RootList(s2)[i]].name : i \in
                 {j \in DOMAIN RootList(s2) : ~s2.slot[RootList(s2)[j]].del}}
      n    == CHOOSE k \in s.curr_num..6 :
                /\ Rec(k) \notin used
                /\ \A j \in s.curr_num..(k - 1) : Rec(j) \in used
      s3   == Modify(s2, RootList(s2)[pos],
                [del |-> FALSE, name |-> Rec(n), dir |-> FALSE,
                 start |-> start, size |-> size])
  IN IF s2.die # "" THEN s2 ELSE [s3 EXCEPT !.curr_num = n]

Drop(s, f) == Modify(s, f, [s.slot[f] EXCEPT !.del = TRUE])

\* drop_file: the entry is deleted and its clusters lose their owner.
RECURSIVE Disown(_, _, _)
Disown(s, c, f) ==
  IF c \notin Cluster \/ s.fat[c] = BAD THEN IF c \in Cluster THEN DieIfBad(s, c) ELSE s
  ELSE Disown(set_owner(s, c, NoFile), s.fat[c], f)
drop_file(s, f) == Disown(Drop(s, f), Fstart(s, f), f)

\* truncate_file: every cluster of the chain after the first n is freed,
\* whoever owns it.
RECURSIVE Truncate(_, _, _)
Truncate(s, c, n) ==
  IF c \notin Cluster THEN s
  ELSE LET s2 == DieIfBad(s, c)
           s3 == IF n = 0 THEN set_fat(s2, c, 0)
                 ELSE IF n = 1 THEN set_fat(s2, c, EOF) ELSE s2
       IN Truncate(s3, Next_(s, c), IF n = 0 THEN 0 ELSE n - 1)
truncate_file(s, f, n) ==
  Truncate(IF n = 0 THEN ModifyStart(s, f, 0) ELSE s, Fstart(s, f), n)

\* auto_rename: the first made-up name no other file of the directory has.
auto_rename(s, f, files) ==
  LET used == {s.slot[files[i]].name : i \in {j \in DOMAIN files : files[j] # f}}
      n == CHOOSE k \in 0..6 : Ren(k) \notin used /\ \A j \in 0..(k - 1) : Ren(j) \in used
  IN IF f = 0 THEN s ELSE Modify(s, f, [s.slot[f] EXCEPT !.name = Ren(n)])

\* test_file: loops within a chain and, with -t, clusters that cannot be read.
\* Only the reading test advances prev: without it the loop is "cut" at the
\* start of the file, and the clusters keep the file as their owner.
RECURSIVE TestChain(_, _, _, _)
TestChain(s, f, c, last) ==
  LET nxt == Next_(s, c)
      cut == IF last # 0 THEN set_fat(s, last, EOF)
             ELSE IF f = 0 THEN Die(s, "root") ELSE ModifyStart(s, f, 0)
      skip == set_fat(IF last # 0 THEN set_fat(s, last, nxt) ELSE ModifyStart(s, f, nxt),
                      c, BAD)
      okay == ~s.opt.test \/ c \notin s.unreadable
  IN IF c \notin Cluster \/ s.die # "" THEN s
     ELSE IF s.fat[c] = BAD THEN DieIfBad(s, c)
     ELSE IF s.owner[c] # NoFile THEN IF s.owner[c] = f THEN cut ELSE s
     ELSE TestChain(set_owner(IF okay THEN s ELSE skip, c, f), f, nxt,
                    IF s.opt.test /\ okay THEN c ELSE last)
RECURSIVE Untest(_, _, _)
Untest(s, f, c) ==
  IF c \in Cluster /\ s.fat[c] # BAD /\ s.owner[c] = f
  THEN Untest(set_owner(s, c, NoFile), f, s.fat[c]) ELSE s
test_file(s, f) ==
  LET t == TestChain(s, f, Fstart(s, f), 0) IN Untest(t, f, Fstart(t, f))

\* undelete: a chain of free clusters from the start of the file on.
undelete(s, f) ==
  LET st   == Fstart(s, f)
      want == (s.slot[f].size + ClusterSize - 1) \div ClusterSize
      have == IF st \notin Cluster THEN 0
              ELSE CHOOSE n \in 0..want :
                     /\ \A i \in 0..(n - 1) : st + i \in Cluster /\ s.fat[st + i] = 0
                     /\ n = want \/ st + n \notin Cluster \/ s.fat[st + n] # 0
  IN IF have = 0 THEN ModifyStart(s, f, 0)
     ELSE [s EXCEPT !.fat = [c \in Cluster |->
                        IF c \in st..(st + have - 2) THEN c + 1
                        ELSE IF c = st + have - 1 THEN EOF ELSE @[c]],
                    !.wrote = TRUE]

-----------------------------------------------------------------------------
(* The steps of a run. get_key lets the user choose in interactive mode.   *)

Ask(keys, default) == IF m.opt.interactive THEN keys ELSE {default}
UserName == "new"              \* what the user types in rename_file
ReqName  == "a"                \* the file named by -d or -u

Goto(l) == pc' = IF m'.die = "" THEN l ELSE "dead"

\* scan_root: read_fat, then the root directory.
ReadRoot ==
  /\ pc = "read"
  /\ \E key \in Ask({1, 2}, 1) :
       LET s == ReadFat(m, key = 1) IN
       IF s.root = 0 \/ s.die # ""
       THEN /\ m' = s /\ list' = <<>> /\ at' = <<0, 1>>
            /\ Goto("add")
       ELSE /\ m' = test_file(s, 0) /\ list' = <<0>> /\ at' = <<0, 1>>
            /\ Goto("dir")
  /\ dir' = <<NoFile, NoFile>> /\ todo' = <<>>
  /\ w' = 1 /\ scan' = <<0, FALSE>>
  /\ UNCHANGED <<disk, opts, pass, ck, prev, faults, runs, origin>>

\* add_file: -d and -u change the entry as it is read. Entries of a FAT32
\* root directory are never found by their path (file_cd has no name for it).
Requested(e) == dir[1] = NoFile /\ m.req # "none" /\ e.name = ReqName
Added(x) ==
  LET e  == m.slot[x]
      s1 == IF ~Requested(e) THEN m
            ELSE IF m.req = "undelete" /\ e.dir THEN Die(m, "undelete")
            ELSE [Modify(m, x, [e EXCEPT !.del = (m.req = "drop")]) EXCEPT !.req = "none"]
      s2 == IF Requested(e) /\ m.req = "undelete" THEN undelete(s1, x) ELSE s1
  IN IF s1.slot[x].del \/ s1.die # "" THEN s1 ELSE test_file(s2, x)

AddFile ==
  /\ pc = "add"
  /\ LET x    == IF at[1] = 0 THEN at[2] ELSE SlotAt(at[1], at[2])
         s    == Added(x)
         size == IF at[1] = 0 THEN RootEntries ELSE DirSlots
         nxt  == IF at[1] = 0 THEN EOF ELSE Next_(s, at[1])
     IN /\ m' = IF at[1] # 0 /\ at[2] = size THEN DieIfBad(s, at[1]) ELSE s
        /\ list' = IF s.slot[x].del THEN list ELSE Append(list, x)
        /\ \/ /\ at[2] < size
              /\ at' = <<at[1], at[2] + 1>> /\ Goto("add")
           \/ /\ at[2] = size /\ nxt \in Cluster
              /\ at' = <<nxt, 1>> /\ Goto("add")
           \/ /\ at[2] = size /\ nxt \notin Cluster
              /\ at' = <<0, 1>> /\ Goto("dir")
  /\ UNCHANGED <<disk, opts, pass, dir, todo, w, scan, ck, prev, faults, runs, origin>>

\* check_dir. A directory has . and .. unless it is a root (dots).
HasDots == dir[1] \notin {NoFile, 0}
Rename(s, f, n) == Modify(s, f, [s.slot[f] EXCEPT !.name = n])
DirStep ==
  /\ pc = "dir"
  /\ UNCHANGED <<disk, opts, pass, dir, at, todo, ck, prev, faults, runs, origin>>

\* handle_dot: . and .. must be directories and have no place in a root.
HandleDot ==
  /\ DirStep /\ scan[1] = 0 /\ w <= Len(list)
  /\ LET f == list[w] e == Ent(m, f) IN
     /\ e.name \in Dots /\ ~e.del
     /\ \E key \in IF e.dir THEN {0} ELSE Ask({1, 2, 3, 4}, 2) :
          LET s    == CASE key = 2 -> auto_rename(m, f, list)
                        [] key = 3 -> Rename(m, f, UserName)
                        [] key = 4 -> Modify(m, f, [e EXCEPT !.size = 0, !.dir = TRUE])
                        [] OTHER   -> m
              drop == key = 1 \/ (key \in {0, 4} /\ ~HasDots)
          IN IF drop
             THEN /\ m' = drop_file(s, f) /\ list' = RemoveAt(list, w)
                  /\ UNCHANGED <<w, scan>>
             ELSE /\ m' = s /\ scan' = <<w + 1, scan[2]>> /\ UNCHANGED <<list, w>>
  /\ Goto("dir")

\* A bad name. A file the user drops here stays in the list.
BadName ==
  /\ DirStep /\ scan[1] = 0 /\ w <= Len(list) /\ UNCHANGED list
  /\ LET f == list[w] IN
     /\ Ent(m, f).del \/ Ent(m, f).name \notin Dots
     /\ \/ /\ Ent(m, f).name # "bad"
           /\ scan' = <<w + 1, scan[2]>> /\ UNCHANGED <<m, w>>
        \/ /\ Ent(m, f).name = "bad"
           /\ \E key \in Ask({1, 2, 3, 4}, 3) :
                /\ m' = CASE key = 1 -> drop_file(m, f)
                          [] key = 2 -> Rename(m, f, UserName)
                          [] key = 3 -> auto_rename(m, f, list)
                          [] key = 4 -> m
                /\ w' = IF key = 1 THEN w + 1 ELSE w
                /\ scan' = IF key = 1 THEN scan ELSE <<w + 1, scan[2] \/ key = 2>>
  /\ Goto("dir")

\* Two entries with one name.
Duplicate ==
  /\ DirStep /\ scan[1] \in 1..Len(list)
  /\ LET f == list[w] g == list[scan[1]]
         same == m.slot[f].name = m.slot[g].name /\ m.slot[f].del = m.slot[g].del
     IN \/ /\ ~same
           /\ scan' = <<scan[1] + 1, scan[2]>> /\ UNCHANGED <<m, list, w>>
        \/ /\ same
           /\ UNCHANGED w
           /\ \E key \in Ask(1..6, 6) :
                /\ m' = CASE key = 1 -> drop_file(m, f)
                          [] key = 2 -> drop_file(m, g)
                          [] key = 3 -> Rename(m, f, UserName)
                          [] key = 4 -> Rename(m, g, UserName)
                          [] key = 5 -> auto_rename(m, f, list)
                          [] key = 6 -> auto_rename(m, g, list)
                /\ list' = CASE key = 1 -> RemoveAt(list, w)
                             [] key = 2 -> RemoveAt(list, scan[1])
                             [] OTHER   -> list
                /\ scan' = CASE key = 1 -> <<0, scan[2]>>
                             [] key = 2 -> scan
                             [] OTHER   -> <<scan[1] + 1, scan[2] \/ key \in {3, 4}>>
  /\ Goto("dir")

DirNext ==
  /\ DirStep /\ scan[1] > Len(list)
  /\ w' = IF scan[2] THEN 1 ELSE w + 1
  /\ scan' = <<0, FALSE>>
  /\ UNCHANGED <<m, list, pc>>

CheckDirEnd ==
  /\ DirStep /\ scan[1] = 0 /\ w > Len(list)
  /\ w' = 1 /\ scan' = <<0, FALSE>> /\ pc' = "file"
  /\ UNCHANGED <<m, list>>

\* check_file, up to its loop: a directory's size, the targets of . and ..,
\* a directory without clusters, a start that is too large.
ParentStart == IF dir[1] = NoFile THEN 0 ELSE Fstart(m, dir[1])
GrandStart  == LET g == IF dir[2] = NoFile THEN 0 ELSE Fstart(m, dir[2])
               IN IF m.root # 0 /\ g = m.root THEN 0 ELSE g
FileStep ==
  /\ pc = "file" /\ w <= Len(list)
  /\ UNCHANGED <<disk, opts, pass, dir, at, list, todo, scan, prev, faults, runs, origin>>

CheckStart ==
  /\ FileStep /\ ck = <<>>
  /\ LET f    == list[w]
         s    == IF IsDir(m, f) /\ Ent(m, f).size # 0 THEN SetSize(m, f, 0) ELSE m
         name == IF Ent(m, f).del THEN "" ELSE Ent(m, f).name
         dot  == IsDir(m, f) /\ dir[1] # NoFile /\ name \in Dots
         want == IF name = "." THEN ParentStart ELSE GrandStart
         over == Fstart(s, f) = Beyond
         s2   == IF ~over THEN s
                 ELSE IF f = 0 THEN Die(s, "root") ELSE ModifyStart(s, f, 0)
     IN \/ /\ dot
           /\ m' = IF Fstart(s, f) = want THEN s ELSE ModifyStart(s, f, want)
           /\ w' = w + 1 /\ UNCHANGED ck
        \/ /\ ~dot /\ IsDir(m, f) /\ Fstart(s, f) = 0
           /\ m' = Drop(s, f)
           /\ w' = w + 1 /\ UNCHANGED ck
        \/ /\ ~dot /\ ~(IsDir(m, f) /\ Fstart(s, f) = 0)
           /\ m' = s2
           /\ ck' = <<IF Fstart(s2, f) = 0 THEN EOF ELSE Fstart(s2, f), 0, 0>>
           /\ UNCHANGED w
  /\ Goto("file")

\* The end of check_file: a size beyond the chain is reduced to the chain.
X_Finished(s, f, n) ==
  IF ~IsDir(s, f) /\ s.slot[f].size >= n * ClusterSize
  THEN SetSize(s, f, n * ClusterSize) ELSE s
Finished(s, f, n) ==
  IF ~IsDir(s, f) /\ s.slot[f].size > n * ClusterSize
  THEN SetSize(s, f, n * ClusterSize) ELSE s
EndFile(s, n) == /\ m' = Finished(s, list[w], n)
                 /\ ck' = <<>> /\ w' = w + 1

\* What is left of a file whose chain ends before its next cluster.
CutBefore(s, f, p) == IF p # 0 THEN set_fat(s, p, EOF) ELSE ModifyStart(s, f, 0)

CheckLoopEnd == FileStep /\ ck # <<>> /\ ck[1] = EOF /\ EndFile(m, ck[3]) /\ Goto("file")

\* Contains a free or bad cluster.
CheckFree ==
  /\ FileStep /\ ck # <<>> /\ ck[1] \in Cluster /\ m.fat[ck[1]] \in {0, BAD}
  /\ EndFile(IF ck[2] = 0 /\ list[w] = 0 THEN Die(m, "root")
             ELSE CutBefore(m, list[w], ck[2]), ck[3])
  /\ Goto("file")

Usable  == ck # <<>> /\ ck[1] \in Cluster /\ m.fat[ck[1]] \notin {0, BAD}
X_TooLong == ~IsDir(m, list[w]) /\ m.slot[list[w]].size <= (ck[3] + 1) * ClusterSize
TooLong == ~IsDir(m, list[w]) /\ m.slot[list[w]].size <= ck[3] * ClusterSize

\* The chain is longer than the size says: this comes before the question
\* whose clusters they are.
CheckLong ==
  /\ FileStep /\ Usable /\ TooLong
  /\ EndFile(truncate_file(m, list[w], ck[3]), ck[3])
  /\ Goto("file")

CheckOwn ==
  /\ FileStep /\ Usable /\ ~TooLong /\ m.owner[ck[1]] = NoFile
  /\ m' = set_owner(m, ck[1], list[w])
  /\ ck' = <<m.fat[ck[1]], ck[1], ck[3] + 1>>
  /\ UNCHANGED w /\ Goto("file")

\* Two files share a cluster: the second one loses it, or (the user's choice,
\* or the FAT32 root directory) the first one. prev and clusters are then
\* those of the first one. A second one that is a directory restarts it all.
Shared == Usable /\ ~TooLong /\ m.owner[ck[1]] # NoFile
FirstKey(o) == IF o = 0 THEN {2} ELSE IF list[w] = 0 THEN {1} ELSE Ask({1, 2}, 2)
CheckSharedSecond ==
  /\ FileStep /\ Shared /\ 2 \in FirstKey(m.owner[ck[1]])
  /\ EndFile(CutBefore(m, list[w], ck[2]), ck[3])
  /\ Goto("file")
RECURSIVE Position(_, _, _)
Position(s, c, target) ==            \* <<found, predecessor, number before it>>
  IF c \notin Cluster THEN <<FALSE, 0, 0>>
  ELSE IF c = target THEN <<TRUE, 0, 0>>
  ELSE LET r == Position(s, Next_(s, c), target)
       IN <<r[1], IF r[2] = 0 THEN c ELSE r[2], r[3] + 1>>
CheckSharedFirst ==
  /\ FileStep /\ Shared /\ 1 \in FirstKey(m.owner[ck[1]])
  /\ LET o == m.owner[ck[1]]
         r == Position(m, Fstart(m, o), ck[1])
         s == SetSize(CutBefore(m, o, r[2]), o, r[3] * ClusterSize)
     IN \/ /\ ~r[1]
           /\ m' = Die(m, "internal") /\ UNCHANGED <<ck, w>>
           /\ Goto("file")
        \/ /\ r[1] /\ IsDir(m, list[w])
           /\ m' = [s EXCEPT !.fat2 = s.fat] /\ ck' = <<>> /\ w' = 1
           /\ Goto(IF pass = 1 THEN "read" ELSE "lost")
        \/ /\ r[1] /\ ~IsDir(m, list[w])
           /\ m' = set_owner(Disown(s, ck[1], o), ck[1], list[w])
           /\ ck' = <<m.fat[ck[1]], ck[1], r[3] + 1>> /\ UNCHANGED w
           /\ Goto("file")

\* subdirs: the directories of this list come before those still waiting.
Subdirs == SelectSeq(list, LAMBDA f : IsDir(m, f) /\ (Ent(m, f).del
                                                      \/ Ent(m, f).name \notin Dots))
NextDir ==
  /\ pc = "file" /\ w > Len(list)
  /\ LET q == [i \in DOMAIN Subdirs |-> <<Subdirs[i], dir[1]>>] \o todo IN
     IF q = <<>>
     THEN pc' = "lost" /\ UNCHANGED <<dir, at, todo>>
     ELSE LET c == Fstart(m, Head(q)[1]) IN
          /\ dir' = Head(q) /\ todo' = Tail(q)
          /\ at' = IF c \in Cluster THEN <<c, 1>> ELSE <<0, 1>>
          /\ pc' = IF c \in Cluster THEN "add" ELSE "dir"
  /\ list' = <<>> /\ w' = 1
  /\ UNCHANGED <<disk, m, opts, pass, scan, ck, prev, faults, runs, origin>>

\* After the scan: fix_bad, then the lost clusters are freed or salvaged.
LostStep == UNCHANGED <<disk, opts, dir, at, list, todo, w, scan, ck, faults, runs, origin>>
FixAndReclaim ==
  /\ pc = "lost" /\ LostStep
  /\ LET s == IF m.opt.test /\ pass = 1 THEN FixBad(m) ELSE m IN
     \/ /\ m.opt.salvage /\ pass = 1
        /\ m' = CutLost(s) /\ prev' = Predecessors(m') /\ Goto("tag")
     \/ /\ ~m.opt.salvage \/ pass = 2
        /\ m' = reclaim_free(s) /\ UNCHANGED prev
        /\ Goto(IF pass = 1 THEN "free" ELSE "close")
  /\ UNCHANGED pass

\* reclaim_file: tag the lost chains, break a cycle, tag again, ...
TagLost ==
  /\ pc = "tag" /\ LostStep /\ UNCHANGED pass
  /\ LET s == tag_free(m, prev) IN
     IF Lost(s) = {}
     THEN m' = s /\ UNCHANGED prev /\ Goto("salvage")
     ELSE LET c == Min(Lost(s)) IN
          /\ m' = IF prev[s.fat[c]] = 0 THEN Die(s, "internal") ELSE set_fat(s, c, EOF)
          /\ prev' = [prev EXCEPT ![s.fat[c]] = @ - 1]
          /\ Goto("tag")
\* ... and give each chain an entry in the root directory.
Heads(s) == {c \in Cluster : s.owner[c] = Dummy /\ prev[c] = 0}
Salvage ==
  /\ pc = "salvage" /\ LostStep /\ UNCHANGED pass
  /\ IF Heads(m) = {}
     THEN UNCHANGED <<m, prev>> /\ pc' = "free"
     ELSE LET c == Min(Heads(m)) IN
          /\ m' = alloc_rootdir_entry(m, c, ChainLen(m, c) * ClusterSize)
          /\ prev' = [prev EXCEPT ![c] = -1]
          /\ Goto("salvage")

UpdateFree ==
  /\ pc = "free" /\ LostStep /\ UNCHANGED prev
  /\ \E key \in Ask({1, 2}, 1) :
       LET s == IF m.root = 0 \/ m.free = FreeCount(m) \/ key = 2 THEN m
                ELSE [m EXCEPT !.free = FreeCount(m), !.wrote = TRUE]
       IN IF ~m.opt.verify
          THEN m' = s /\ pc' = "close" /\ UNCHANGED pass
          ELSE /\ m' = [s EXCEPT !.fat2 = s.fat, !.first = s.wrote, !.wrote = FALSE]
               /\ pc' = "read" /\ pass' = 2

\* fs_changed, fs_close.
Close ==
  /\ pc = "close" /\ pc' = "done"
  /\ \E save \in IF m.opt.interactive THEN BOOLEAN ELSE {m.opt.rw} :
       disk' = IF ~save THEN disk
               ELSE [d \in DOMAIN disk |-> IF d = "fat2" THEN m.fat ELSE m[d]]
  /\ UNCHANGED <<m, opts, pass, place, faults, runs, origin>>

-----------------------------------------------------------------------------
(* The file system before the run: a, and d with ., .. and b in it, sound  *)
(* until clusters, entries or FAT copies are damaged.                      *)

File(n, c, size) == [del |-> FALSE, name |-> n, dir |-> FALSE, start |-> c, size |-> size]
Dir(n, c)        == [del |-> FALSE, name |-> n, dir |-> TRUE, start |-> c, size |-> 0]
RootDir(r, k)    == IF r = 0 THEN k ELSE SlotAt(r, k)

\* r is 0 for an old-style root directory, its first cluster for FAT32.
Image(r) ==
  LET f == [c \in Cluster |-> CASE c = 2 -> 3 [] c \in {3, 4, 5, r} -> EOF [] OTHER -> 0]
      e == [x \in Slot |->
              CASE x = RootDir(r, 1) -> File("a", 2, ClusterSize + 1)
                [] x = RootDir(r, 2) -> Dir("d", 4)
                [] x = SlotAt(4, 1)  -> Dir(".", 4)
                [] x = SlotAt(4, 2)  -> Dir("..", 0)
                [] x = SlotAt(4, 3)  -> File("b", 5, 1)
                [] OTHER             -> NoEntry]
  IN [fat |-> f, fat2 |-> f, ok |-> <<TRUE, TRUE>>, slot |-> e, root |-> r,
      free |-> Cardinality({c \in Cluster : f[c] = 0}), unreadable |-> {}]

Idle == [die |-> ""]
Init ==
  /\ disk \in {Image(0), Image(NClusters + 1)}
  /\ m = Idle /\ opts = <<>> /\ pc = "idle" /\ pass = 1
  /\ dir = <<NoFile, NoFile>> /\ at = <<0, 1>> /\ list = <<>> /\ todo = <<>>
  /\ w = 1 /\ scan = <<0, FALSE>> /\ ck = <<>>
  /\ prev = [c \in Cluster |-> 0]
  /\ faults = 0 /\ runs = 0 /\ origin = disk

Damage(d) ==
  /\ pc = "idle" /\ runs = 0 /\ faults < MaxFaults
  /\ disk' = d /\ d # disk /\ faults' = faults + 1
  /\ UNCHANGED <<m, opts, pc, pass, place, runs, origin>>

\* Both copies of the FAT, the second one alone, a media byte.
CorruptFat ==
  \E c \in Cluster, v \in Cluster \cup {0, EOF, BAD, Beyond} :
    Damage([disk EXCEPT !.fat[c] = v, !.fat2[c] = v])
CorruptCopy == \E c \in Cluster : Damage([disk EXCEPT !.fat2[c] = IF @ = 0 THEN EOF ELSE 0])
CorruptMedia == \E i \in 1..2 : Damage([disk EXCEPT !.ok[i] = FALSE])
CorruptSlot ==
  \E x \in {y \in Slot : ~disk.slot[y].del} :
    \/ \E v \in Cluster \cup {0, Beyond} : Damage([disk EXCEPT !.slot[x].start = v])
    \/ \E v \in 0..(2 * ClusterSize + 1) : Damage([disk EXCEPT !.slot[x].size = v])
    \/ \E v \in {"a", "bad", "."} : Damage([disk EXCEPT !.slot[x].name = v])
    \/ Damage([disk EXCEPT !.slot[x].dir = ~@])
    \/ Damage([disk EXCEPT !.slot[x].del = TRUE])
CorruptFree == disk.root # 0 /\ \E v \in {-1, 0} : Damage([disk EXCEPT !.free = v])
Unreadable  == \E c \in Cluster : Damage([disk EXCEPT !.unreadable = @ \cup {c}])

\* main: the options, then fs_open and read_boot.
StartRun ==
  /\ pc \in {"idle", "done"} /\ runs < MaxRuns[faults]
  /\ \E o \in IF runs = 0 THEN Options[faults] ELSE {opts} :
       /\ opts' = o
       /\ m' = [d \in DOMAIN disk \cup {"owner", "wrote", "first", "die", "opt", "req", "curr_num"} |->
                  CASE d \in DOMAIN disk -> disk[d]
                    [] d = "owner" -> [c \in Cluster |-> NoFile]
                    [] d \in {"wrote", "first"} -> FALSE
                    [] d = "die" -> ""
                    [] d = "opt" -> o
                    [] d = "req" -> IF runs = 0 THEN o.req ELSE "none"
                    [] d = "curr_num" -> 0]
  /\ pc' = "read" /\ pass' = 1 /\ runs' = runs + 1 /\ origin' = disk
  /\ dir' = <<NoFile, NoFile>> /\ at' = <<0, 1>> /\ list' = <<>> /\ todo' = <<>>
  /\ w' = 1 /\ scan' = <<0, FALSE>> /\ ck' = <<>>
  /\ prev' = [c \in Cluster |-> 0]
  /\ UNCHANGED <<disk, faults>>

Corrupt   == CorruptFat \/ CorruptCopy \/ CorruptMedia \/ CorruptSlot \/ CorruptFree \/ Unreadable
CheckDir  == HandleDot \/ BadName \/ Duplicate \/ DirNext \/ CheckDirEnd
CheckFile == CheckStart \/ CheckLoopEnd \/ CheckFree \/ CheckLong \/ CheckOwn
               \/ CheckSharedSecond \/ CheckSharedFirst
Reclaim   == FixAndReclaim \/ TagLost \/ Salvage \/ UpdateFree \/ Close

Next == Corrupt \/ StartRun \/ ReadRoot \/ AddFile \/ CheckDir \/ CheckFile
          \/ NextDir \/ Reclaim
Spec == Init /\ [][Next]_vars

-----------------------------------------------------------------------------
(* What a sound file system is, said without walking it the way the code   *)
(* does.                                                                   *)

RECURSIVE Closure(_, _, _)
Closure(d, C, n) ==
  IF n = 0 THEN C ELSE Closure(d, C \cup ({d.fat[c] : c \in C} \cap Cluster), n - 1)
Reach(d, c) == Closure(d, {c} \cap Cluster, NClusters)

EntriesIn(d, C) == {x \in Slot : /\ ~d.slot[x].del
                                 /\ \E c \in C, k \in 1..DirSlots : x = SlotAt(c, k)}
Children(d, f) ==
  IF f = 0 /\ d.root = 0 THEN {x \in RootSlots : ~d.slot[x].del}
  ELSE EntriesIn(d, Reach(d, Fstart(d, f)))
SubDirs(d, f) == {x \in Children(d, f) : d.slot[x].dir /\ d.slot[x].name \notin Dots}

RECURSIVE Dirs(_, _, _)
Dirs(d, D, n) ==
  IF n = 0 THEN D ELSE Dirs(d, D \cup UNION {SubDirs(d, f) : f \in D}, n - 1)
AllDirs(d) == Dirs(d, {0}, NClusters)
\* A directory named . or .. is no file of its own, unless there are two.
IsDot(d, f, x) == /\ d.slot[x].dir /\ d.slot[x].name \in Dots
                  /\ \A y \in Children(d, f) : d.slot[y].name = d.slot[x].name => y = x
Files(d) == UNION {{x \in Children(d, f) : ~IsDot(d, f, x)} : f \in AllDirs(d)}
              \cup (IF d.root = 0 THEN {} ELSE {0})

ChainSound(d, c) ==
  /\ c \in Cluster
  /\ \A x \in Reach(d, c) : d.fat[x] \in Cluster \cup {EOF}
  /\ \E x \in Reach(d, c) : d.fat[x] = EOF
FileSound(d, f) ==
  IF IsDir(d, f) THEN ChainSound(d, Fstart(d, f)) /\ Ent(d, f).size = 0
  ELSE \/ d.slot[f].start = 0 /\ d.slot[f].size = 0
       \/ /\ ChainSound(d, d.slot[f].start)
          /\ LET n == Cardinality(Reach(d, d.slot[f].start))
             IN d.slot[f].size \in ((n - 1) * ClusterSize + 1)..(n * ClusterSize)
DotSound(d, f, p, x) ==
  /\ f # 0 /\ d.slot[x].size = 0
  /\ d.slot[x].start = IF d.slot[x].name = "." THEN Fstart(d, f)
                       ELSE IF p = 0 THEN 0 ELSE Fstart(d, p)
DirSound(d, f) ==
  /\ \A x, y \in Children(d, f) : d.slot[x].name = d.slot[y].name => x = y
  /\ \A x \in Children(d, f) :
       /\ d.slot[x].name # "bad"
       /\ d.slot[x].name \in Dots =>
            /\ d.slot[x].dir
            /\ \A p \in AllDirs(d) : f \in SubDirs(d, p) => DotSound(d, f, p, x)
            /\ f # 0
Disjoint(d, f) == \A g \in Files(d) \ {f} :
                    Reach(d, Fstart(d, f)) \cap Reach(d, Fstart(d, g)) = {}
InUse(d) == UNION {Reach(d, Fstart(d, f)) : f \in Files(d)}
Sound(d) ==
  /\ d.fat2 = d.fat /\ d.ok[1] = d.ok[2]
  /\ \A c \in Cluster : d.fat[c] # Beyond
  /\ \A f \in Files(d) : FileSound(d, f) /\ Disjoint(d, f)
  /\ \A f \in AllDirs(d) : DirSound(d, f)
  /\ \A c \in Cluster \ InUse(d) : d.fat[c] \in {0, BAD}
  /\ d.root # 0 => d.free = Cardinality({c \in Cluster : d.fat[c] = 0})

Plain == ~opts.interactive /\ ~opts.test /\ opts.req = "none"

\* check.c and fat.c: an automatic run finds something to change exactly when
\* the file system is not sound.
CleanIffSound ==
  pc = "done" /\ Plain => ((m.wrote \/ m.first) <=> ~Sound(origin))

\* Directories that can be reached through sound chains no other file shares.
RECURSIVE IntactDirs(_, _, _)
IntactDirs(d, D, n) ==
  IF n = 0 THEN D
  ELSE IntactDirs(d, D \cup {x \in UNION {SubDirs(d, f) : f \in D} :
                               ChainSound(d, Fstart(d, x)) /\ Disjoint(d, x)}, n - 1)
IntactRoot(d) == IF d.root = 0 \/ (ChainSound(d, d.root) /\ Disjoint(d, 0)) THEN {0} ELSE {}
IntactFiles(d) ==
  {x \in UNION {Children(d, f) : f \in IntactDirs(d, IntactRoot(d), NClusters)} :
     ~d.slot[x].dir /\ FileSound(d, x) /\ Disjoint(d, x)}

\* check.c: a file that is sound and shares no cluster with another file comes
\* through an automatic repair with its size, its clusters and its directory.
IntactFilesKept ==
  pc = "done" /\ Plain /\ opts.rw =>
    LET d == [origin EXCEPT !.fat = PickFat(origin, TRUE)] IN
    \A x \in IntactFiles(d) :
      /\ x \in Files(disk) /\ ~disk.slot[x].dir
      /\ disk.slot[x].start = d.slot[x].start /\ disk.slot[x].size = d.slot[x].size
      /\ \A c \in Reach(d, d.slot[x].start) : disk.fat[c] = d.fat[c]

\* A third automatic run leaves a sound file system, whatever the first met.
ThirdRunSound == pc = "done" /\ Plain /\ opts.rw /\ runs = 3 => Sound(disk)

\* dosfsck.8: the verification pass finds nothing left to fix.
VerifyClean == pc = "done" /\ Plain /\ opts.verify => ~m.wrote
=============================================================================
