------------------------------ MODULE PartList ------------------------------
(***************************************************************************)
(* The partition list s_psPartHead of C/xunlei_test/xl_usb_mng.c, pointer  *)
(* by pointer: insertion by the query threads, deletion by the receiver of *)
(* the detector's messages, and the count-then-copy of the test menu.      *)
(* Nothing locks the list.  UsbMng uses it as a set of records, which is   *)
(* what it is as long as calls do not overlap.                             *)
(***************************************************************************)
EXTENDS Naturals, FiniteSets

CONSTANTS Ids,       \* disk ids
          UsbIds,    \* the ids of /dev/sd* disks; the others are /dev/mmcblk*
          NParts,    \* partitions of a disk
          NNodes,    \* bound: memory blocks for list nodes
          Writers,   \* query threads
          MaxOps,    \* bound: calls in a behaviour
          MaxSerial, \* bound: calls as long as none overlaps another or fails
          Faults     \* "malloc" may fail; "reuse": a freed block may be handed
                     \* out and zeroed before its m_pNext is read again

ASSUME PartListAssumption ==
  /\ Ids \subseteq Nat \ {0} /\ UsbIds \subseteq Ids
  /\ NParts \in Nat \ {0} /\ NNodes \in Nat
  /\ MaxOps \in Nat /\ MaxSerial \in Nat
  /\ Faults \subseteq {"malloc", "reuse"}

Null == 0
Node == 1..NNodes
Key  == Ids \X (1..NParts)      \* nUSBDiskId and nPatitionId
NoKey == <<0, 0>>

VARIABLES
  head, next, key,     \* s_psPartHead, m_pNext and m_sStorageInfo
  alloc,               \* the blocks that malloc has handed out
  ops,                 \* calls so far
  before,              \* history: the keys in the list when a call began
  serial,              \* history: no call has overlapped another or met a fault
  w_pc, w_id, w_i, w_cur,          \* mnt_usb_insert_partition_list
  d_pc, d_id, d_cur, d_prev,       \* mnt_usb_delete_partitions_from_list
  r_pc, r_kind, r_cur, r_n, r_cnt  \* mnt_usb_read_partition, mnt_sdcard_...

callVars  == <<ops, before, serial>>
listVars  == <<head, next, key, alloc>>
writeVars == <<w_pc, w_id, w_i, w_cur>>
delVars   == <<d_pc, d_id, d_cur, d_prev>>
readVars  == <<r_pc, r_kind, r_cur, r_n, r_cnt>>
vars == <<listVars, callVars, writeVars, delVars, readVars>>

(***************************************************************************)
(* Program counters.  A writer: "idle", "fill" (building a list that was   *)
(* empty), "item" (about to look for record w_i), "walk", "link" (at the   *)
(* end of the list), "store" (filling in the node just linked).  The       *)
(* deleter: "idle", "walk".  The reader: "idle", "count", "copy", "over"   *)
(* (it stopped because its buffer is full).  "dead": a NULL pointer was    *)
(* used and the process died.                                              *)
(***************************************************************************)
Init ==
  /\ head = Null
  /\ next = [n \in Node |-> Null] /\ key = [n \in Node |-> NoKey]
  /\ alloc = {} /\ ops = 0 /\ before = {} /\ serial = TRUE
  /\ w_pc = [w \in Writers |-> "idle"] /\ w_id = [w \in Writers |-> 0]
  /\ w_i = [w \in Writers |-> 1] /\ w_cur = [w \in Writers |-> Null]
  /\ d_pc = "idle" /\ d_id = 0 /\ d_cur = Null /\ d_prev = Null
  /\ r_pc = "idle" /\ r_kind = "usb" /\ r_cur = Null /\ r_n = 0 /\ r_cnt = 0

\* The nodes a walk along the links nx meets from h on: the least set that
\* holds h and, with a node, the one it points to.
Closed(S, h, nx) == h \in S \cup {Null} /\ \A m \in S : nx[m] \in S \cup {Null}
ChainFrom(h, nx) == LET closed == {S \in SUBSET Node : Closed(S, h, nx)}
                    IN  {n \in Node : \A S \in closed : n \in S}

Chain == ChainFrom(head, next)
Keys  == {key[n] : n \in Chain}

Dead  == d_pc = "dead" \/ \E w \in Writers : w_pc[w] = "dead"
Quiet == /\ \A w \in Writers : w_pc[w] = "idle"
         /\ d_pc = "idle" /\ r_pc = "idle"

\* Any call: not after the process died.
Begin ==
  /\ ~Dead
  /\ serial' = (serial /\ Quiet)
  /\ ops < (IF serial' THEN MaxSerial ELSE MaxOps) /\ ops' = ops + 1
  /\ before' = Keys

-----------------------------------------------------------------------------
(* mnt_usb_insert_partition_list. *)

Item(w) == <<w_id[w], w_i[w]>>

\* Mutant of NextItem: the loop runs once too often.
NextItem_OneMore(w, pc) ==
  /\ w_i' = [w_i EXCEPT ![w] = @ + 1]
  /\ w_pc' = [w_pc EXCEPT ![w] = IF w_i[w] > NParts THEN "idle" ELSE pc]

\* On to the next record, or return after the last one.
NextItem(w, pc) ==
  /\ w_i' = [w_i EXCEPT ![w] = @ + 1]
  /\ w_pc' = [w_pc EXCEPT ![w] = IF w_i[w] = NParts THEN "idle" ELSE pc]

InsertCall(w, i) ==
  /\ Begin
  /\ w_pc[w] = "idle"
  /\ w_pc' = [w_pc EXCEPT ![w] = IF head = Null THEN "fill" ELSE "item"]
  /\ w_id' = [w_id EXCEPT ![w] = i]
  /\ w_i' = [w_i EXCEPT ![w] = 1]
  /\ w_cur' = [w_cur EXCEPT ![w] = Null]
  /\ UNCHANGED <<listVars, delVars, readVars>>

\* The list was empty: a node per record, the first one becomes the head.
InsertFill(w) ==
  /\ w_pc[w] = "fill"
  /\ \/ \E n \in Node \ alloc :
          /\ alloc' = alloc \cup {n}
          /\ key' = [key EXCEPT ![n] = Item(w)]
          /\ next' = [m \in Node |-> IF m = n THEN Null
                                     ELSE IF m = w_cur[w] THEN n ELSE next[m]]
          /\ head' = IF w_i[w] = 1 THEN n ELSE head
          /\ w_cur' = [w_cur EXCEPT ![w] = n]
          /\ NextItem(w, "fill")
          /\ UNCHANGED serial
     \/ /\ "malloc" \in Faults /\ serial' = FALSE
        /\ w_pc' = [w_pc EXCEPT ![w] = "idle"]
        /\ UNCHANGED <<listVars, w_i, w_cur>>
  /\ UNCHANGED <<ops, before, w_id, delVars, readVars>>

\* The search for a record starts at the head, which may be gone by now.
InsertItem(w) ==
  /\ w_pc[w] = "item"
  /\ w_cur' = [w_cur EXCEPT ![w] = head]
  /\ w_pc' = [w_pc EXCEPT ![w] = IF head = Null THEN "dead" ELSE "walk"]
  /\ UNCHANGED <<listVars, callVars, w_id, w_i, delVars, readVars>>

\* Mutant of InsertWalk: the records of the list are not compared.
InsertWalk_NoMatch(w) ==
  /\ w_pc[w] = "walk"
  /\ IF next[w_cur[w]] = Null
       THEN w_pc' = [w_pc EXCEPT ![w] = "link"] /\ UNCHANGED w_cur
       ELSE w_cur' = [w_cur EXCEPT ![w] = next[w_cur[w]]] /\ UNCHANGED w_pc
  /\ UNCHANGED <<listVars, callVars, w_id, w_i, delVars, readVars>>

\* Mutant of InsertWalk: only the disk ids are compared.
InsertWalk_IdOnly(w) ==
  /\ w_pc[w] = "walk"
  /\ \/ /\ key[w_cur[w]][1] = w_id[w]
        /\ NextItem(w, "item") /\ UNCHANGED w_cur
     \/ /\ key[w_cur[w]][1] # w_id[w]
        /\ IF next[w_cur[w]] = Null
             THEN w_pc' = [w_pc EXCEPT ![w] = "link"] /\ UNCHANGED w_cur
             ELSE w_cur' = [w_cur EXCEPT ![w] = next[w_cur[w]]] /\ UNCHANGED w_pc
        /\ UNCHANGED w_i
  /\ UNCHANGED <<listVars, callVars, w_id, delVars, readVars>>

\* The record is there and is overwritten; or this is the last node.
InsertWalk(w) ==
  /\ w_pc[w] = "walk"
  /\ \/ /\ key[w_cur[w]] = Item(w)
        /\ NextItem(w, "item") /\ UNCHANGED w_cur
     \/ /\ key[w_cur[w]] # Item(w)
        /\ IF next[w_cur[w]] = Null
             THEN w_pc' = [w_pc EXCEPT ![w] = "link"] /\ UNCHANGED w_cur
             ELSE w_cur' = [w_cur EXCEPT ![w] = next[w_cur[w]]] /\ UNCHANGED w_pc
        /\ UNCHANGED w_i
  /\ UNCHANGED <<listVars, callVars, w_id, delVars, readVars>>

\* The new block is linked before it is filled in: it still holds the key
\* and the link of its last use.  A failed malloc is not tested.
InsertLink(w) ==
  /\ w_pc[w] = "link"
  /\ \/ \E n \in Node \ alloc :
          /\ alloc' = alloc \cup {n}
          /\ next' = [next EXCEPT ![w_cur[w]] = n]
          /\ w_cur' = [w_cur EXCEPT ![w] = n]
          /\ w_pc' = [w_pc EXCEPT ![w] = "store"]
     \/ /\ "malloc" \in Faults
        /\ w_pc' = [w_pc EXCEPT ![w] = "dead"]
        /\ UNCHANGED <<alloc, next, w_cur>>
  /\ UNCHANGED <<head, key, callVars, w_id, w_i, delVars, readVars>>

InsertStore(w) ==
  /\ w_pc[w] = "store"
  /\ key' = [key EXCEPT ![w_cur[w]] = Item(w)]
  /\ next' = [next EXCEPT ![w_cur[w]] = Null]
  /\ NextItem(w, "item")
  /\ UNCHANGED <<head, alloc, callVars, w_id, w_cur, delVars, readVars>>

Insert(w) == \/ \E i \in Ids : InsertCall(w, i)
             \/ InsertFill(w) \/ InsertItem(w) \/ InsertWalk(w)
             \/ InsertLink(w) \/ InsertStore(w)

-----------------------------------------------------------------------------
(* mnt_usb_delete_partitions_from_list. *)

DeleteCall(i) ==
  /\ Begin
  /\ d_pc = "idle"
  /\ d_pc' = "walk" /\ d_id' = i /\ d_cur' = head /\ d_prev' = Null
  /\ UNCHANGED <<listVars, writeVars, readVars>>

DeleteKeep ==
  /\ d_pc = "walk" /\ d_cur # Null
  /\ key[d_cur][1] # d_id
  /\ d_prev' = d_cur /\ d_cur' = next[d_cur]
  /\ UNCHANGED <<listVars, callVars, d_pc, d_id, writeVars, readVars>>

\* Mutant of DeleteNode: the node before the deleted one is not kept.
DeleteNode_Skip ==
  /\ d_pc = "walk" /\ d_cur # Null
  /\ key[d_cur][1] = d_id
  /\ IF head = d_cur THEN head' = next[d_cur] /\ UNCHANGED next
     ELSE next' = [next EXCEPT ![d_prev] = next[d_cur]] /\ UNCHANGED head
  /\ alloc' = alloc \ {d_cur}
  /\ d_prev' = next[d_cur]
  /\ d_cur' = IF next[d_cur] = Null THEN Null ELSE next[next[d_cur]]
  /\ UNCHANGED <<key, callVars, d_pc, d_id, writeVars, readVars>>

\* Mutant of DeleteNode: the node is unlinked but not freed.
DeleteNode_NoFree ==
  /\ d_pc = "walk" /\ d_cur # Null
  /\ key[d_cur][1] = d_id
  /\ IF head = d_cur THEN head' = next[d_cur] /\ UNCHANGED next
     ELSE next' = [next EXCEPT ![d_prev] = next[d_cur]] /\ UNCHANGED head
  /\ d_cur' = next[d_cur]
  /\ UNCHANGED <<alloc, key, callVars, d_pc, d_id, d_prev, writeVars, readVars>>

\* Unlink and free the node, then read its m_pNext once more.
DeleteNode ==
  /\ d_pc = "walk" /\ d_cur # Null
  /\ key[d_cur][1] = d_id
  /\ \/ /\ head = d_cur
        /\ head' = next[d_cur] /\ d_prev' = Null
        /\ UNCHANGED <<next, d_pc>>
     \/ /\ head # d_cur /\ d_prev # Null
        /\ next' = [next EXCEPT ![d_prev] = next[d_cur]]
        /\ UNCHANGED <<head, d_prev, d_pc>>
     \/ /\ head # d_cur /\ d_prev = Null
        /\ d_pc' = "dead" /\ UNCHANGED <<head, next, d_prev>>
  /\ alloc' = alloc \ {d_cur}
  /\ \/ d_cur' = next[d_cur] /\ UNCHANGED serial
     \/ "reuse" \in Faults /\ d_cur' = Null /\ serial' = FALSE
  /\ UNCHANGED <<key, ops, before, d_id, writeVars, readVars>>

DeleteReturn ==
  /\ d_pc = "walk" /\ d_cur = Null
  /\ d_pc' = "idle"
  /\ UNCHANGED <<listVars, callVars, d_id, d_cur, d_prev, writeVars, readVars>>

Delete == \/ \E i \in Ids : DeleteCall(i)
          \/ DeleteKeep \/ DeleteNode \/ DeleteReturn

-----------------------------------------------------------------------------
(* mnt_usb_read_partition and mnt_sdcard_read_partition, of all disks. *)

Wanted(kind, k) == /\ k[1] \in Ids
                   /\ k[1] \in UsbIds <=> kind = "usb"

ReadCall(kind) ==
  /\ Begin
  /\ r_pc \in {"idle", "over"}
  /\ r_pc' = "count" /\ r_kind' = kind /\ r_cur' = head
  /\ r_n' = 0 /\ r_cnt' = 0
  /\ UNCHANGED <<listVars, writeVars, delVars>>

\* Bound: a node linked but not yet filled in may close a cycle, and the count
\* then goes round until the writer stores.
MaxCount == NNodes + 1

\* mnt_usb_get_partition_count.
ReadCount ==
  /\ r_pc = "count" /\ r_cur # Null /\ r_n < MaxCount
  /\ r_n' = r_n + (IF Wanted(r_kind, key[r_cur]) THEN 1 ELSE 0)
  /\ r_cur' = next[r_cur]
  /\ UNCHANGED <<listVars, callVars, r_pc, r_kind, r_cnt, writeVars, delVars>>

\* A buffer of r_n records is allocated, or there is nothing to read.
ReadAlloc ==
  /\ r_pc = "count" /\ r_cur = Null
  /\ \/ /\ r_n > 0 /\ r_pc' = "copy" /\ r_cur' = head
     \/ /\ r_n = 0 \/ "malloc" \in Faults
        /\ r_pc' = "idle" /\ UNCHANGED r_cur
  /\ UNCHANGED <<listVars, callVars, r_kind, r_n, r_cnt, writeVars, delVars>>

\* Mutant of ReadCopy: the record after a match is skipped.
ReadCopy_Skip ==
  /\ r_pc = "copy" /\ r_cur # Null
  /\ r_cnt' = r_cnt + (IF Wanted(r_kind, key[r_cur]) THEN 1 ELSE 0)
  /\ r_cur' = IF next[r_cur] = Null THEN Null ELSE next[next[r_cur]]
  /\ UNCHANGED <<listVars, callVars, r_pc, r_kind, r_n, writeVars, delVars>>

\* The record is copied first; then the count is compared with r_n.
ReadCopy ==
  /\ r_pc = "copy" /\ r_cur # Null
  /\ r_cnt' = r_cnt + (IF Wanted(r_kind, key[r_cur]) THEN 1 ELSE 0)
  /\ \/ /\ r_cnt' > r_n
        /\ r_pc' = "over" /\ UNCHANGED r_cur
     \/ /\ r_cnt' <= r_n
        /\ r_cur' = next[r_cur] /\ UNCHANGED r_pc
  /\ UNCHANGED <<listVars, callVars, r_kind, r_n, writeVars, delVars>>

ReadReturn ==
  /\ r_pc = "copy" /\ r_cur = Null
  /\ r_pc' = "idle"
  /\ UNCHANGED <<listVars, callVars, r_kind, r_cur, r_n, r_cnt, writeVars,
                 delVars>>

Read == \/ \E kind \in {"usb", "sdcard"} : ReadCall(kind)
        \/ ReadCount \/ ReadAlloc \/ ReadCopy \/ ReadReturn

-----------------------------------------------------------------------------
Next == ~Dead /\ ((\E w \in Writers : Insert(w)) \/ Delete \/ Read)

Spec == Init /\ [][Next]_vars

-----------------------------------------------------------------------------
(* Properties. *)

TypeOK ==
  /\ head \in Node \cup {Null}
  /\ next \in [Node -> Node \cup {Null}] /\ key \in [Node -> Key \cup {NoKey}]
  /\ alloc \subseteq Node /\ ops \in Nat /\ serial \in BOOLEAN /\ before \subseteq Key \cup {NoKey}
  /\ w_pc \in [Writers -> {"idle", "fill", "item", "walk", "link", "store", "dead"}]
  /\ w_id \in [Writers -> Ids \cup {0}] /\ w_i \in [Writers -> 1..(NParts + 1)]
  /\ w_cur \in [Writers -> Node \cup {Null}]
  /\ d_pc \in {"idle", "walk", "dead"} /\ d_id \in Ids \cup {0}
  /\ d_cur \in Node \cup {Null} /\ d_prev \in Node \cup {Null}
  /\ r_pc \in {"idle", "count", "copy", "over"} /\ r_kind \in {"usb", "sdcard"}
  /\ r_cur \in Node \cup {Null} /\ r_n \in 0..MaxCount
  /\ r_cnt \in 0..(MaxCount + 1)

\* One node per partition: an insertion that finds its record overwrites it,
\* so that the menu does not see a partition twice.
NoDuplicates ==
  serial /\ (\A w \in Writers : w_pc[w] # "store") =>
     \A m, n \in Chain : key[m] = key[n] => m = n

\* Between calls that do not overlap every block in use is in the list and
\* no block of the list is free.
NoLeak == serial /\ Quiet /\ ~Dead => Chain = alloc

\* What UsbMng takes for granted: mnt_usb_insert_partition_list adds the disk's
\* partitions and nothing else.
InsertExact ==
  [][\A w \in Writers :
       w_pc[w] # "idle" /\ w_pc'[w] = "idle" /\ serial'
         => Keys' = before \cup ({w_id[w]} \X (1..NParts))]_vars
\* mnt_usb_delete_partitions_from_list removes all partitions of its disk and
\* nothing else, although it frees nodes while it walks over them.
DeleteExact ==
  [][d_pc = "walk" /\ d_pc' = "idle" /\ serial'
       => Keys' = {k \in before : k[1] # d_id}]_vars

\* The menu gets the partitions of its kind of disk, all of them.
ReadExact ==
  [][r_pc = "copy" /\ r_pc' = "idle" /\ serial'
       => r_cnt = r_n /\ r_n = Cardinality({k \in before : Wanted(r_kind, k)})]_vars
=============================================================================
