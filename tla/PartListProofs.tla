--------------------------- MODULE PartListProofs ---------------------------
(***************************************************************************)
(* Proofs about PartList, for every number of disks, partitions, blocks    *)
(* and threads: as long as the calls do not overlap, the pointer code of   *)
(* xl_usb_mng.c is a set of partitions.  Only type correctness holds of    *)
(* overlapping calls as well.                                              *)
(***************************************************************************)
EXTENDS PartList, FiniteSetTheorems, TLAPS

-----------------------------------------------------------------------------
(* The inductive invariant. *)

\* A writer, the deleter and the reader hold what their next step uses.
Placed ==
  /\ \A w \in Writers :
       /\ w_pc[w] \in {"fill", "item", "walk", "link", "store"}
            => w_i[w] <= NParts /\ w_id[w] \in Ids
       /\ w_pc[w] \in {"walk", "link", "store"} => w_cur[w] \in Node
  /\ (r_pc = "count" => r_cnt = 0) /\ (r_pc = "copy" => r_cnt <= r_n)

\* The node w_cur is linked and waits to be filled in.
Pending(n) == \E w \in Writers : w_pc[w] = "store" /\ w_cur[w] = n

\* The links, the nodes and the filled-in nodes of the list as they will be
\* once a node that was linked has been filled in.
Links  == [n \in Node |-> IF Pending(n) THEN Null ELSE next[n]]
List   == ChainFrom(head, Links)
Filled == {n \in List : ~Pending(n)}
FilledKeys == {key[n] : n \in Filled}

\* One call at a time.
OneCall ==
  /\ \A v, w \in Writers : w_pc[v] # "idle" /\ w_pc[w] # "idle" => v = w
  /\ (\E w \in Writers : w_pc[w] # "idle") => d_pc = "idle" /\ r_pc = "idle"
  /\ d_pc # "idle" => r_pc = "idle"

\* No two nodes point to the same one, and none to the head.
Linear(h, nx) == LET C == ChainFrom(h, nx) IN
  /\ \A m, n \in C : nx[m] = nx[n] /\ nx[m] # Null => m = n
  /\ \A m \in C : nx[m] # h

\* The blocks in use are the nodes of a linear list without duplicates.
Sound == /\ alloc = List
         /\ Linear(head, Links)
         /\ \A m, n \in Filled : key[m] = key[n] => m = n

\* What insertion has written, and what it knows about the node it looks at.
Written(w) == FilledKeys = before \cup ({w_id[w]} \X (1..(w_i[w] - 1)))
Unseen(w, S) == \A n \in S : key[n] # Item(w)

Inserting(w) ==
  /\ w_pc[w] # "idle" => Written(w)
  /\ w_pc[w] = "fill" =>
       /\ before = {}
       /\ IF w_i[w] = 1 THEN head = Null /\ w_cur[w] = Null
          ELSE w_cur[w] \in List /\ Links[w_cur[w]] = Null
  /\ w_pc[w] = "walk" =>
       w_cur[w] \in List /\ Unseen(w, List \ ChainFrom(w_cur[w], Links))
  /\ w_pc[w] = "link" =>
       w_cur[w] \in List /\ Links[w_cur[w]] = Null /\ Unseen(w, List)
  /\ w_pc[w] = "store" => w_cur[w] \in List /\ Unseen(w, Filled)

\* The deleter has removed what it has passed of its disk, and nothing else.
Deleting ==
  d_pc # "idle" =>
    /\ d_pc = "walk"
    /\ FilledKeys \subseteq before
    /\ \A k \in before : k[1] # d_id => k \in FilledKeys
    /\ \A n \in List \ ChainFrom(d_cur, Links) : key[n][1] # d_id
    /\ d_cur # Null => /\ d_cur \in List
                       /\ d_cur = head \/ (/\ d_prev \in List /\ d_prev # d_cur
                                           /\ Links[d_prev] = d_cur)

\* The reader has counted, or copied, what it has passed.
WantedIn(S) == {n \in S : Wanted(r_kind, key[n])}
Ahead == Cardinality(WantedIn(ChainFrom(r_cur, Links)))
Reading ==
  /\ r_pc # "idle" => before = FilledKeys
  /\ r_pc = "count" => /\ r_cur \in List \cup {Null}
                       /\ r_n + Ahead = Cardinality(WantedIn(List))
  /\ r_pc = "copy"  => /\ r_cur \in List \cup {Null}
                       /\ r_n = Cardinality(WantedIn(List))
                       /\ r_cnt + Ahead = r_n

Serial == OneCall /\ Sound /\ (\A w \in Writers : Inserting(w)) /\ Deleting /\ Reading

IInv == TypeOK /\ Placed /\ (serial => Serial)

-----------------------------------------------------------------------------
(* Linked lists: what following m_pNext reaches. *)

Link == Node \cup {Null}

\* The NULL pointer is no block.
LEMMA NullNoNode == Null \notin Node
BY DEF Null, Node

\* The nodes reached are closed under the links.
LEMMA ChainClosed ==
  ASSUME NEW h \in Link, NEW nx \in [Node -> Link]
  PROVE  /\ ChainFrom(h, nx) \subseteq Node
         /\ h # Null => h \in ChainFrom(h, nx)
         /\ \A m \in ChainFrom(h, nx) : nx[m] # Null => nx[m] \in ChainFrom(h, nx)
<1>1. ChainFrom(h, nx) \subseteq Node
  BY DEF ChainFrom
<1>2. h # Null => h \in ChainFrom(h, nx)
  BY DEF ChainFrom, Closed, Link
<1>3. ASSUME NEW m \in ChainFrom(h, nx), nx[m] # Null PROVE nx[m] \in ChainFrom(h, nx)
  <2>1. ASSUME NEW S \in SUBSET Node, Closed(S, h, nx) PROVE nx[m] \in S
    <3>1. m \in S
      BY <2>1 DEF ChainFrom
    <3> QED BY <2>1, <3>1, <1>3 DEF Closed
  <2>2. nx[m] \in Node
    BY <1>1, <1>3 DEF Link
  <2>3. ChainFrom(h, nx) = {n \in Node : \A S \in SUBSET Node :
                                 Closed(S, h, nx) => n \in S}
    BY DEF ChainFrom
  <2> QED BY <2>1, <2>2, <2>3
<1> QED BY <1>1, <1>2, <1>3

\* They are the least set that is.
LEMMA ChainLeast ==
  ASSUME NEW h, NEW nx, NEW S \in SUBSET Node, h # Null => h \in S,
         \A m \in S : nx[m] # Null => nx[m] \in S
  PROVE  ChainFrom(h, nx) \subseteq S
BY DEF ChainFrom, Closed

\* Nothing is reached from NULL.
LEMMA ChainNull == ASSUME NEW nx PROVE ChainFrom(Null, nx) = {}
<1>1. {} \in SUBSET Node /\ Closed({}, Null, nx)
  BY DEF Closed
<1>2. \A n \in ChainFrom(Null, nx) : n \in {}
  BY <1>1 DEF ChainFrom
<1> QED BY <1>2

\* One step of a walk: the node it stands on and what is ahead of it.
LEMMA ChainStep ==
  ASSUME NEW x \in Node, NEW nx \in [Node -> Link]
  PROVE  ChainFrom(x, nx) = {x} \cup ChainFrom(nx[x], nx)
<1> DEFINE A == ChainFrom(x, nx)
           B == ChainFrom(nx[x], nx)
<1>0. x \in Link /\ nx[x] \in Link /\ x # Null
  BY NullNoNode DEF Link
<1>1. B \subseteq Node /\ (nx[x] # Null => nx[x] \in B)
      /\ \A m \in B : nx[m] # Null => nx[m] \in B
  BY <1>0, ChainClosed
<1>2. A \subseteq Node /\ x \in A /\ \A m \in A : nx[m] # Null => nx[m] \in A
  BY <1>0, ChainClosed
<1> HIDE DEF A, B
<1>3. ChainFrom(x, nx) \subseteq {x} \cup B
  <2>1. {x} \cup B \in SUBSET Node
    BY <1>1
  <2>2. \A m \in {x} \cup B : nx[m] # Null => nx[m] \in {x} \cup B
    BY <1>1
  <2> QED BY <2>1, <2>2, ChainLeast
<1>4. ChainFrom(nx[x], nx) \subseteq A
  BY <1>2, ChainLeast
<1> QED BY <1>2, <1>3, <1>4 DEF A, B

\* A walk that starts at a node of the list stays in the list.
LEMMA ChainSub ==
  ASSUME NEW h \in Link, NEW nx \in [Node -> Link],
         NEW x \in ChainFrom(h, nx) \cup {Null}
  PROVE  ChainFrom(x, nx) \subseteq ChainFrom(h, nx)
<1> DEFINE A == ChainFrom(h, nx)
<1>1. A \in SUBSET Node /\ \A m \in A : nx[m] # Null => nx[m] \in A
  BY ChainClosed
<1>2. x # Null => x \in A
  OBVIOUS
<1> HIDE DEF A
<1>3. ChainFrom(x, nx) \subseteq A
  BY <1>1, <1>2, ChainLeast
<1> QED BY <1>3 DEF A

\* A node of a chain is its first one or has a predecessor in it.
LEMMA ChainPred ==
  ASSUME NEW h \in Link, NEW nx \in [Node -> Link], NEW y \in ChainFrom(h, nx), y # h
  PROVE  \E p \in ChainFrom(h, nx) : nx[p] = y
<1> SUFFICES ASSUME \A p \in ChainFrom(h, nx) : nx[p] # y PROVE FALSE
  OBVIOUS
<1> DEFINE A == ChainFrom(h, nx)
           S == A \ {y}
<1>1. A \in SUBSET Node /\ (h # Null => h \in A)
      /\ \A m \in A : nx[m] # Null => nx[m] \in A
  BY ChainClosed
<1>2. S \in SUBSET Node /\ (h # Null => h \in S)
      /\ \A m \in S : nx[m] # Null => nx[m] \in S
  BY <1>1
<1> HIDE DEF A, S
<1>3. ChainFrom(h, nx) \subseteq S
  BY <1>2, ChainLeast
<1> QED BY <1>3 DEF S, A

\* A linear list has no cycle: no node is ahead of itself.
LEMMA ChainAcyclic ==
  ASSUME NEW h \in Link, NEW nx \in [Node -> Link], Linear(h, nx),
         NEW x \in ChainFrom(h, nx)
  PROVE  x \notin ChainFrom(nx[x], nx)
<1> DEFINE C == ChainFrom(h, nx)
           F(m) == ChainFrom(nx[m], nx)
           S == {m \in C : m \notin F(m)}
<1>1. C \in SUBSET Node /\ (h # Null => h \in C)
      /\ \A m \in C : nx[m] # Null => nx[m] \in C
  BY ChainClosed
<1>2. (\A m, n \in C : nx[m] = nx[n] /\ nx[m] # Null => m = n) /\ \A m \in C : nx[m] # h
  BY DEF Linear
<1>3. \A m \in C : F(m) \subseteq C
  <2> SUFFICES ASSUME NEW m \in C PROVE F(m) \subseteq C
    OBVIOUS
  <2>1. nx[m] \in C \cup {Null}
    BY <1>1
  <2> QED BY <2>1, ChainSub
<1>4. h # Null => h \in S
  <2> SUFFICES ASSUME h # Null, h \in F(h) PROVE FALSE
    BY <1>1
  <2>1. nx[h] \in Link
    BY <1>1
  <2>2. h # nx[h] /\ F(h) \subseteq C
    BY <1>1, <1>2, <1>3
  <2>3. \E p \in F(h) : nx[p] = h
    BY <2>1, <2>2, ChainPred
  <2> QED BY <2>2, <2>3, <1>2
<1>5. ASSUME NEW m \in S, nx[m] # Null PROVE nx[m] \in S
  <2> DEFINE y == nx[m]
  <2>1. m \in C /\ y \in C /\ m \in Node /\ y \in Node /\ nx[y] \in Link
    BY <1>1, <1>5
  <2> SUFFICES ASSUME y \in F(y) PROVE FALSE
    BY <2>1
  <2>2. ChainFrom(y, nx) = {y} \cup F(y)
    BY <2>1, ChainStep
  <2>3. CASE y = nx[y]
    <3>1. m = y
      BY <2>1, <2>3, <1>2, <1>5
    <3> QED BY <3>1, <1>5
  <2>4. CASE y # nx[y]
    <3>1. PICK p \in F(y) : nx[p] = y
      BY <2>1, <2>4, ChainPred
    <3>2. p = m
      BY <3>1, <2>1, <1>2, <1>3, <1>5
    <3> QED BY <3>1, <3>2, <2>2, <1>5
  <2> QED BY <2>3, <2>4
<1>6. S \in SUBSET Node
  BY <1>1
<1> HIDE DEF S, C
<1>7. ChainFrom(h, nx) \subseteq S
  BY <1>4, <1>5, <1>6, ChainLeast
<1> QED BY <1>7 DEF S

\* A node that is not in the list is linked behind its last one.
LEMMA ChainAppend ==
  ASSUME NEW h \in Link, NEW nx \in [Node -> Link], NEW ny \in [Node -> Link],
         Linear(h, nx), NEW c \in ChainFrom(h, nx), nx[c] = Null,
         NEW n \in Node \ ChainFrom(h, nx), ny[c] = n, ny[n] = Null,
         \A m \in ChainFrom(h, nx) \ {c} : ny[m] = nx[m]
  PROVE  ChainFrom(h, ny) = ChainFrom(h, nx) \cup {n} /\ Linear(h, ny)
<1> DEFINE A == ChainFrom(h, nx)
           B == ChainFrom(h, ny)
           S == A \cap B
           T == A \cup {n}
<1>1. A \in SUBSET Node /\ (h # Null => h \in A)
      /\ \A m \in A : nx[m] # Null => nx[m] \in A
  BY ChainClosed
<1>2. B \in SUBSET Node /\ (h # Null => h \in B)
      /\ \A m \in B : ny[m] # Null => ny[m] \in B
  BY ChainClosed
<1>3. S \in SUBSET Node /\ (h # Null => h \in S)
      /\ (\A m \in S : nx[m] # Null => nx[m] \in S)
  BY <1>1, <1>2
<1>4. T \in SUBSET Node /\ (h # Null => h \in T)
      /\ (\A m \in T : ny[m] # Null => ny[m] \in T)
  BY <1>1
<1>l. (\A m, k \in A : nx[m] = nx[k] /\ nx[m] # Null => m = k) /\ \A m \in A : nx[m] # h
  BY DEF Linear
<1>c. c \in A /\ n \notin A /\ n # Null
  BY NullNoNode
<1> HIDE DEF A, B, S, T
<1>5. ChainFrom(h, nx) \subseteq S
  BY <1>3, ChainLeast
<1>6. ChainFrom(h, ny) \subseteq T
  BY <1>4, ChainLeast
<1>7. n \in B
  BY <1>2, <1>5, <1>c DEF S, A
<1>8. B = T
  BY <1>5, <1>6, <1>7 DEF A, B, S, T
<1>9. \A m \in A \ {c} : ny[m] = nx[m]
  BY DEF A
<1>10. \A m, k \in T : ny[m] = ny[k] /\ ny[m] # Null => m = k
  BY <1>1, <1>9, <1>l, <1>c DEF T
<1>11. h = Null => A = {}
  BY ChainNull DEF A
<1>12. \A m \in T : ny[m] # h
  BY <1>1, <1>9, <1>l, <1>c, <1>11 DEF T
<1> QED BY <1>8, <1>10, <1>12 DEF A, B, T, Linear

\* The first node is unlinked.
LEMMA ChainTail ==
  ASSUME NEW h \in Node, NEW nx \in [Node -> Link], Linear(h, nx)
  PROVE  /\ ChainFrom(nx[h], nx) = ChainFrom(h, nx) \ {h}
         /\ Linear(nx[h], nx)
<1>0. h \in Link /\ h # Null /\ nx[h] \in Link
  BY NullNoNode DEF Link
<1>1. h \in ChainFrom(h, nx) /\ ChainFrom(h, nx) \subseteq Node
  BY <1>0, ChainClosed
<1>2. h \notin ChainFrom(nx[h], nx)
  BY <1>0, <1>1, ChainAcyclic
<1>3. ChainFrom(h, nx) = {h} \cup ChainFrom(nx[h], nx)
  BY ChainStep
<1>4. ChainFrom(nx[h], nx) = ChainFrom(h, nx) \ {h}
  BY <1>2, <1>3
<1>5. nx[h] = Null => ChainFrom(nx[h], nx) = {}
  BY ChainNull
<1>6. Linear(nx[h], nx)
  BY <1>1, <1>4, <1>5 DEF Linear
<1> QED BY <1>4, <1>6

\* A later node is unlinked: its predecessor now points to its successor.
LEMMA ChainUnlink ==
  ASSUME NEW h \in Link, NEW nx \in [Node -> Link], NEW ny \in [Node -> Link],
         Linear(h, nx), NEW p \in ChainFrom(h, nx), NEW x \in ChainFrom(h, nx),
         p # x, nx[p] = x, ny[p] = nx[x], \A m \in Node \ {p} : ny[m] = nx[m]
  PROVE  /\ ChainFrom(h, ny) = ChainFrom(h, nx) \ {x}
         /\ Linear(h, ny)
         /\ nx[x] # p
         /\ ChainFrom(nx[x], nx) \ {x} \subseteq ChainFrom(nx[x], ny)
<1> DEFINE A == ChainFrom(h, nx)
           B == ChainFrom(h, ny)
           S == A \ {x}
           T == B \cup {x}
           y == nx[x]
           D == ChainFrom(y, ny)
           U == D \cup {x}
<1>1. A \in SUBSET Node /\ (h # Null => h \in A)
      /\ \A m \in A : nx[m] # Null => nx[m] \in A
  BY ChainClosed
<1>2. B \in SUBSET Node /\ (h # Null => h \in B)
      /\ \A m \in B : ny[m] # Null => ny[m] \in B
  BY ChainClosed
<1>l. (\A m, k \in A : nx[m] = nx[k] /\ nx[m] # Null => m = k) /\ \A m \in A : nx[m] # h
  BY DEF Linear
<1>c. p \in A /\ x \in A /\ x # Null /\ x \in Node /\ p \in Node /\ y \in Link
  BY <1>1, NullNoNode
<1>n. ny[p] = y /\ \A m \in Node : m # p => ny[m] = nx[m]
  BY <1>c
<1>d. D \in SUBSET Node /\ (y # Null => y \in D)
      /\ \A m \in D : ny[m] # Null => ny[m] \in D
  BY <1>c, ChainClosed
<1>p. y # p
  <2> SUFFICES ASSUME y = p PROVE FALSE
    OBVIOUS
  <2>1. ChainFrom(nx[p], nx) = {x} \cup ChainFrom(y, nx)
    BY <1>c, ChainStep
  <2>2. p \in ChainFrom(y, nx)
    BY <1>c, ChainClosed, NullNoNode
  <2>3. p \notin ChainFrom(nx[p], nx)
    BY ChainAcyclic
  <2> QED BY <2>1, <2>2, <2>3
<1> HIDE DEF A, B, S, T, y, D, U
<1>3. S \in SUBSET Node /\ (h # Null => h \in S)
      /\ (\A m \in S : ny[m] # Null => ny[m] \in S)
  BY <1>1, <1>l, <1>c, <1>n DEF S, y
<1>4. ChainFrom(h, ny) \subseteq S
  BY <1>3, ChainLeast
<1>5. p \in B
  <2> SUFFICES ASSUME p \notin B PROVE FALSE
    OBVIOUS
  <2>1. \A m \in B : nx[m] # Null => nx[m] \in B
    BY <1>2, <1>n
  <2>2. ChainFrom(h, nx) \subseteq B
    BY <1>2, <2>1, ChainLeast
  <2> QED BY <2>2, <1>c DEF A
<1>6. T \in SUBSET Node /\ (h # Null => h \in T)
      /\ (\A m \in T : nx[m] # Null => nx[m] \in T)
  BY <1>2, <1>5, <1>c, <1>n DEF T, y
<1>7. ChainFrom(h, nx) \subseteq T
  BY <1>6, ChainLeast
<1>8. ChainFrom(h, ny) = ChainFrom(h, nx) \ {x}
  BY <1>4, <1>7 DEF A, B, S, T
<1>9. Linear(h, ny)
  <2>1. \A m, k \in S : ny[m] = ny[k] /\ ny[m] # Null => m = k
    BY <1>1, <1>l, <1>c, <1>n DEF S, y
  <2>2. \A m \in S : ny[m] # h
    BY <1>1, <1>l, <1>c, <1>n DEF S, y
  <2>3. ChainFrom(h, ny) = S
    BY <1>8 DEF S, A
  <2> QED BY <2>1, <2>2, <2>3 DEF Linear
<1>10. ChainFrom(y, nx) \subseteq U
  <2>1. U \in SUBSET Node /\ (y # Null => y \in U)
    BY <1>d, <1>c DEF U
  <2>2. \A m \in U : nx[m] # Null => nx[m] \in U
    BY <1>d, <1>c, <1>n DEF U, y
  <2> QED BY <2>1, <2>2, ChainLeast
<1> QED BY <1>8, <1>9, <1>10, <1>p DEF D, U, y

-----------------------------------------------------------------------------
(* Type correctness, for overlapping calls too. *)

\* The keys in the list are keys.
LEMMA KeysType == TypeOK => Keys \subseteq Key \cup {NoKey}
<1> SUFFICES ASSUME TypeOK PROVE Keys \subseteq Key \cup {NoKey}
  OBVIOUS
<1>1. Chain \subseteq Node
  BY ChainClosed DEF TypeOK, Chain, Link
<1> QED BY <1>1 DEF Keys, TypeOK

\* The record a writer is at is a key of its disk.
LEMMA ItemType ==
  ASSUME TypeOK, Placed, NEW w \in Writers,
         w_pc[w] \in {"fill", "item", "walk", "link", "store"}
  PROVE  Item(w) \in Key /\ w_i[w] + 1 \in 1..(NParts + 1)
BY PartListAssumption DEF TypeOK, Placed, Item, Key

\* A step of mnt_usb_insert_partition_list keeps the types, and a record to
\* go on with for whoever is in a call.
LEMMA TypeInsert ==
  ASSUME TypeOK, Placed, NEW w \in Writers, Insert(w) PROVE TypeOK' /\ Placed'
<1> USE PartListAssumption DEF TypeOK, Placed
<1>1. ASSUME NEW i \in Ids, InsertCall(w, i) PROVE TypeOK' /\ Placed'
  <2>1. ops' \in Nat /\ serial' \in BOOLEAN /\ before' \subseteq Key \cup {NoKey}
    BY <1>1, KeysType DEF InsertCall, Begin
  <2> QED BY <1>1, <2>1 DEF InsertCall, listVars, delVars, readVars
<1>2. ASSUME InsertFill(w) PROVE TypeOK' /\ Placed'
  <2>0. Item(w) \in Key /\ w_i[w] + 1 \in 1..(NParts + 1)
    BY <1>2, ItemType DEF InsertFill
  <2>1. head' \in Node \cup {Null} /\ next' \in [Node -> Node \cup {Null}]
        /\ key' \in [Node -> Key \cup {NoKey}] /\ alloc' \subseteq Node
    BY <1>2, <2>0 DEF InsertFill, listVars
  <2>2. /\ w_pc' \in [Writers -> {"idle", "fill", "item", "walk", "link", "store", "dead"}]
        /\ w_i' \in [Writers -> 1..(NParts + 1)]
        /\ w_cur' \in [Writers -> Node \cup {Null}]
    BY <1>2, <2>0 DEF InsertFill, NextItem
  <2>s. serial' \in BOOLEAN
    BY <1>2 DEF InsertFill
  <2>3. Placed'
    <3>1. \A v \in Writers \ {w} : w_pc'[v] = w_pc[v] /\ w_i'[v] = w_i[v] /\ w_cur'[v] = w_cur[v]
      BY <1>2 DEF InsertFill, NextItem
    <3>2. w_pc'[w] = "idle" \/ (w_pc'[w] = "fill" /\ w_i[w] # NParts /\ w_i'[w] = w_i[w] + 1)
      BY <1>2 DEF InsertFill, NextItem
    <3>3. w_id' = w_id /\ UNCHANGED readVars /\ w_id[w] \in Ids /\ w_i[w] <= NParts
      BY <1>2 DEF InsertFill
    <3> QED BY <3>1, <3>2, <3>3 DEF readVars
  <2> QED BY <1>2, <2>1, <2>2, <2>s, <2>3 DEF InsertFill, delVars, readVars
<1>3. ASSUME InsertItem(w) PROVE TypeOK' /\ Placed'
  BY <1>3 DEF InsertItem, listVars, callVars, delVars, readVars
<1>4. ASSUME InsertWalk(w) PROVE TypeOK' /\ Placed'
  <2>0. w_i[w] + 1 \in 1..(NParts + 1) /\ w_cur[w] \in Node
    BY <1>4, ItemType DEF InsertWalk
  <2>1. UNCHANGED <<listVars, callVars, w_id, delVars, readVars>>
    BY <1>4 DEF InsertWalk
  <2>2. CASE key[w_cur[w]] = Item(w)
    BY <1>4, <2>0, <2>1, <2>2 DEF InsertWalk, NextItem, listVars, callVars, delVars, readVars
  <2>3. CASE key[w_cur[w]] # Item(w) /\ next[w_cur[w]] = Null
    BY <1>4, <2>0, <2>1, <2>3 DEF InsertWalk, listVars, callVars, delVars, readVars
  <2>4. CASE key[w_cur[w]] # Item(w) /\ next[w_cur[w]] # Null
    BY <1>4, <2>0, <2>1, <2>4 DEF InsertWalk, listVars, callVars, delVars, readVars
  <2> QED BY <2>2, <2>3, <2>4
<1>5. ASSUME InsertLink(w) PROVE TypeOK' /\ Placed'
  BY <1>5 DEF InsertLink, callVars, delVars, readVars
<1>6. ASSUME InsertStore(w) PROVE TypeOK' /\ Placed'
  <2>0. Item(w) \in Key /\ w_i[w] + 1 \in 1..(NParts + 1) /\ w_cur[w] \in Node
    BY <1>6, ItemType DEF InsertStore
  <2> QED BY <1>6, <2>0 DEF InsertStore, NextItem, callVars, delVars, readVars
<1> QED BY <1>1, <1>2, <1>3, <1>4, <1>5, <1>6 DEF Insert

\* So does a step of mnt_usb_delete_partitions_from_list,
LEMMA TypeDelete ==
  ASSUME TypeOK, Placed, Delete PROVE TypeOK' /\ Placed'
<1> USE PartListAssumption DEF TypeOK, Placed
<1>1. ASSUME NEW i \in Ids, DeleteCall(i) PROVE TypeOK' /\ Placed'
  <2>1. ops' \in Nat /\ serial' \in BOOLEAN /\ before' \subseteq Key \cup {NoKey}
    BY <1>1, KeysType DEF DeleteCall, Begin
  <2> QED BY <1>1, <2>1 DEF DeleteCall, listVars, writeVars, readVars
<1>2. ASSUME DeleteKeep PROVE TypeOK' /\ Placed'
  BY <1>2 DEF DeleteKeep, listVars, callVars, writeVars, readVars
<1>3. ASSUME DeleteNode PROVE TypeOK' /\ Placed'
  <2>1. UNCHANGED <<key, ops, before, d_id, writeVars, readVars>> /\ d_cur \in Node
    BY <1>3 DEF DeleteNode
  <2>2. head' \in Node \cup {Null} /\ next' \in [Node -> Node \cup {Null}]
        /\ d_prev' \in Node \cup {Null} /\ d_pc' \in {"idle", "walk", "dead"}
    BY <1>3, <2>1 DEF DeleteNode
  <2>3. alloc' \subseteq Node /\ serial' \in BOOLEAN /\ d_cur' \in Node \cup {Null}
    BY <1>3, <2>1 DEF DeleteNode
  <2> QED BY <2>1, <2>2, <2>3 DEF writeVars, readVars
<1>4. ASSUME DeleteReturn PROVE TypeOK' /\ Placed'
  BY <1>4 DEF DeleteReturn, listVars, callVars, writeVars, readVars
<1> QED BY <1>1, <1>2, <1>3, <1>4 DEF Delete

\* and a step of the two readers.
LEMMA TypeRead ==
  ASSUME TypeOK, Placed, Read PROVE TypeOK' /\ Placed'
<1> USE PartListAssumption DEF TypeOK, Placed
<1>0. MaxCount \in Nat
  BY DEF MaxCount
<1>1. ASSUME NEW kind \in {"usb", "sdcard"}, ReadCall(kind) PROVE TypeOK' /\ Placed'
  <2>1. ops' \in Nat /\ serial' \in BOOLEAN /\ before' \subseteq Key \cup {NoKey}
    BY <1>1, KeysType DEF ReadCall, Begin
  <2> QED BY <1>0, <1>1, <2>1 DEF ReadCall, listVars, writeVars, delVars
<1>2. ASSUME ReadCount PROVE TypeOK' /\ Placed'
  BY <1>0, <1>2 DEF ReadCount, listVars, callVars, writeVars, delVars
<1>3. ASSUME ReadAlloc PROVE TypeOK' /\ Placed'
  BY <1>0, <1>3 DEF ReadAlloc, listVars, callVars, writeVars, delVars
<1>4. ASSUME ReadCopy PROVE TypeOK' /\ Placed'
  BY <1>0, <1>4 DEF ReadCopy, listVars, callVars, writeVars, delVars
<1>5. ASSUME ReadReturn PROVE TypeOK' /\ Placed'
  BY <1>5 DEF ReadReturn, listVars, callVars, writeVars, delVars
<1> QED BY <1>1, <1>2, <1>3, <1>4, <1>5 DEF Read

-----------------------------------------------------------------------------
(* Calls that do not overlap. *)

\* Links and list of any state are well typed.
LEMMA ListType ==
  TypeOK => Links \in [Node -> Link] /\ head \in Link /\ List \subseteq Node
            /\ Filled \subseteq List
<1> SUFFICES ASSUME TypeOK
             PROVE  Links \in [Node -> Link] /\ head \in Link /\ List \subseteq Node
                    /\ Filled \subseteq List
  OBVIOUS
<1>1. Links \in [Node -> Link] /\ head \in Link
  BY DEF TypeOK, Links, Link
<1> QED BY <1>1, ChainClosed DEF List, Filled

\* When no node waits to be filled in, the list is what the pointers say.
Stored == \A w \in Writers : w_pc[w] # "store"
Plain  == Links = next /\ List = Chain /\ Filled = Chain /\ FilledKeys = Keys

\* With no node waiting to be filled in, the list is the one in memory.
LEMMA NoPending == TypeOK /\ Stored => Plain
<1> SUFFICES ASSUME TypeOK, Stored PROVE Plain
  OBVIOUS
<1>1. \A n \in Node : ~Pending(n)
  BY DEF Pending, Stored
<1>2. Links = next
  BY <1>1 DEF Links, TypeOK
<1>3. List = Chain
  BY <1>2 DEF List, Chain
<1>4. Filled = Chain
  BY <1>1, <1>3, ListType DEF Filled
<1> QED BY <1>2, <1>3, <1>4 DEF FilledKeys, Keys, Plain

\* The same of the state after a step.
LEMMA NoPendingNext == TypeOK' /\ Stored' => Plain'
BY NoPending, PTL

\* The same of its types.
LEMMA ListTypeNext ==
  TypeOK' => (Links \in [Node -> Link] /\ head \in Link /\ List \subseteq Node
              /\ Filled \subseteq List)'
BY ListType, PTL

\* A step that leaves the pointers and the node in work alone.
LEMMA ListSame ==
  ASSUME UNCHANGED listVars, \A n \in Node : Pending(n)' <=> Pending(n), TypeOK
  PROVE  UNCHANGED <<Links, List, Filled, FilledKeys>> /\ (Sound => Sound')
<1>1. Links' = Links
  BY DEF Links, listVars
<1>2. List' = List
  BY <1>1 DEF List, listVars
<1>3. Filled' = Filled
  BY <1>2, ListType DEF Filled
<1>4. FilledKeys' = FilledKeys
  BY <1>3 DEF FilledKeys, listVars
<1>5. Sound => Sound'
  BY <1>1, <1>2, <1>3 DEF Sound, listVars
<1> QED BY <1>1, <1>2, <1>3, <1>4, <1>5

\* While writer w works nobody else does.
LEMMA Solo ==
  ASSUME TypeOK, Serial, NEW w \in Writers, w_pc[w] # "idle"
  PROVE  /\ \A v \in Writers : v # w => w_pc[v] = "idle"
         /\ d_pc = "idle" /\ r_pc = "idle"
         /\ \A n : Pending(n) <=> w_pc[w] = "store" /\ w_cur[w] = n
<1>1. \A v \in Writers : v # w => w_pc[v] = "idle"
  BY DEF Serial, OneCall
<1>2. d_pc = "idle" /\ r_pc = "idle"
  BY DEF Serial, OneCall
<1>3. \A n : Pending(n) <=> w_pc[w] = "store" /\ w_cur[w] = n
  BY <1>1 DEF Pending
<1> QED BY <1>1, <1>2, <1>3

\* A step of writer w while the others are idle.
LEMMA SoloStep ==
  ASSUME TypeOK, NEW w \in Writers, \A v \in Writers : v # w => w_pc[v] = "idle",
         d_pc = "idle", r_pc = "idle", UNCHANGED <<delVars, readVars>>,
         \A v \in Writers : v # w => w_pc'[v] = w_pc[v], Sound', Inserting(w)'
  PROVE  Serial'
<1>1. \A v \in Writers : v # w => w_pc'[v] = "idle"
  OBVIOUS
<1>2. d_pc' = "idle" /\ r_pc' = "idle"
  BY DEF delVars, readVars
<1>3. OneCall' /\ Deleting' /\ Reading'
  BY <1>1, <1>2 DEF OneCall, Deleting, Reading
<1>4. \A v \in Writers : Inserting(v)'
  BY <1>1 DEF Inserting
<1> QED BY <1>3, <1>4 DEF Serial

\* The records of a disk up to j are those up to j - 1 and the j-th one.
LEMMA OneMore ==
  ASSUME NEW i, NEW j \in Nat \ {0}
  PROVE  {i} \X (1..j) = ({i} \X (1..(j - 1))) \cup {<<i, j>>}
<1>1. 1..j = (1..(j - 1)) \cup {j}
  OBVIOUS
<1> QED BY <1>1

\* One more record is written.
LEMMA WrittenNext ==
  ASSUME TypeOK, NEW w \in Writers, Written(w), UNCHANGED <<before, w_id>>,
         FilledKeys' = FilledKeys \cup {Item(w)}, w_i'[w] = w_i[w] + 1
  PROVE  Written(w)'
<1>1. w_i[w] \in Nat \ {0} /\ w_i'[w] - 1 = w_i[w]
  BY PartListAssumption DEF TypeOK
<1>2. {w_id[w]} \X (1..w_i[w]) = ({w_id[w]} \X (1..(w_i[w] - 1))) \cup {Item(w)}
  BY <1>1, OneMore DEF Item
<1> QED BY <1>1, <1>2 DEF Written

\* An insertion begins with the list as it is.
LEMMA CallInsert ==
  ASSUME IInv, NEW w \in Writers, NEW i \in Ids, InsertCall(w, i), serial', TypeOK'
  PROVE  Sound' /\ Written(w)' /\ Inserting(w)' /\ Quiet
<1>1. Quiet /\ Serial /\ TypeOK /\ before' = Keys
  BY DEF InsertCall, Begin, IInv
<1>2. Stored /\ Stored'
  BY <1>1 DEF Stored, Quiet, InsertCall, TypeOK
<1>3. Plain
  BY <1>1, <1>2, NoPending
<1>4. UNCHANGED <<Links, List, Filled, FilledKeys>> /\ Sound'
  <2>1. \A n \in Node : Pending(n)' <=> Pending(n)
    BY <1>2 DEF Pending, Stored
  <2>2. UNCHANGED listVars
    BY DEF InsertCall
  <2> QED BY <1>1, <2>1, <2>2, ListSame DEF Serial
<1>5. w_i'[w] = 1 /\ w_cur'[w] = Null /\ w_pc'[w] \in {"fill", "item"}
      /\ (w_pc'[w] = "fill" => head' = Null)
  BY <1>1 DEF InsertCall, listVars, TypeOK
<1>6. Written(w)'
  <2>1. 1..(w_i'[w] - 1) = {}
    BY <1>5
  <2> QED BY <2>1, <1>1, <1>3, <1>4 DEF Plain, Written
<1>7. w_pc'[w] = "fill" => before' = {}
  <2> SUFFICES ASSUME head' = Null PROVE before' = {}
    BY <1>5
  <2>1. Chain = {}
    BY ChainNull DEF Chain, InsertCall, listVars
  <2> QED BY <1>1, <2>1 DEF Keys
<1>8. Inserting(w)'
  BY <1>5, <1>6, <1>7 DEF Inserting
<1> QED BY <1>1, <1>4, <1>6, <1>8

\* The list was empty: every node goes to its end.
LEMMA FillInsert ==
  ASSUME IInv, NEW w \in Writers, InsertFill(w), serial', TypeOK'
  PROVE  Sound' /\ Written(w)' /\ Inserting(w)'
<1>1. TypeOK /\ Placed /\ w_pc[w] = "fill"
  BY DEF IInv, InsertFill
<1>2. Serial /\ Sound /\ Inserting(w)
  <2>1. serial
    BY DEF InsertFill
  <2> QED BY <2>1 DEF IInv, Serial
<1>3. Stored /\ \A v \in Writers : v # w => w_pc[v] = "idle"
  BY <1>1, <1>2, Solo DEF Stored
<1>4. PICK n \in Node \ alloc :
          /\ alloc' = alloc \cup {n}
          /\ key' = [key EXCEPT ![n] = Item(w)]
          /\ next' = [m \in Node |-> IF m = n THEN Null
                                     ELSE IF m = w_cur[w] THEN n ELSE next[m]]
          /\ head' = IF w_i[w] = 1 THEN n ELSE head
          /\ w_cur' = [w_cur EXCEPT ![w] = n]
          /\ NextItem(w, "fill")
  BY DEF InsertFill
<1>5. w_pc'[w] \in {"idle", "fill"} /\ w_i'[w] = w_i[w] + 1 /\ w_cur'[w] = n
      /\ UNCHANGED <<before, w_id>>
  BY <1>1, <1>4 DEF NextItem, TypeOK, InsertFill
<1>6. Stored'
  <2>1. \A v \in Writers : v # w => w_pc'[v] = w_pc[v]
    BY <1>1, <1>4 DEF NextItem, TypeOK
  <2> QED BY <1>3, <1>5, <2>1 DEF Stored
<1>7. Plain /\ Plain'
  BY <1>1, <1>3, <1>6, NoPending, NoPendingNext
<1>8. before = {} /\ Written(w) /\ alloc = Chain /\ Linear(head, next)
      /\ n \notin Chain /\ n # Null
  BY <1>1, <1>2, <1>4, <1>7, NullNoNode DEF Inserting, Sound, Plain
<1>9. next \in [Node -> Link] /\ next' \in [Node -> Link] /\ head \in Link /\ head' \in Link
  BY <1>1 DEF TypeOK, Link
<1>10. next'[n] = Null
  BY <1>4
<1>11. Chain' = Chain \cup {n} /\ Linear(head', next')
  <2>1. CASE w_i[w] = 1
    <3>1. head = Null /\ head' = n /\ n \in Node
      BY <1>1, <1>2, <1>4, <2>1 DEF Inserting
    <3>2. Chain = {}
      BY <3>1, ChainNull DEF Chain
    <3>3. ChainFrom(n, next') = {n}
      BY <1>9, <1>10, <3>1, ChainStep, ChainNull
    <3>4. Linear(n, next')
      BY <3>3, <1>8, <1>10 DEF Linear
    <3> QED BY <3>1, <3>2, <3>3, <3>4 DEF Chain
  <2>2. CASE w_i[w] # 1
    <3>1. w_cur[w] \in Chain /\ next[w_cur[w]] = Null /\ head' = head
      BY <1>1, <1>2, <1>4, <1>7, <2>2 DEF Inserting, Plain
    <3>2. Chain \subseteq Node
      BY <1>9, ChainClosed DEF Chain
    <3>3. next'[w_cur[w]] = n /\ \A m \in Chain \ {w_cur[w]} : next'[m] = next[m]
      BY <1>4, <1>8, <3>1, <3>2
    <3>4. ChainFrom(head, next') = ChainFrom(head, next) \cup {n} /\ Linear(head, next')
      BY <1>8, <1>9, <1>10, <3>1, <3>3, ChainAppend DEF Chain
    <3> QED BY <3>1, <3>4 DEF Chain
  <2> QED BY <2>1, <2>2
<1>12. key'[n] = Item(w) /\ \A m \in Chain : key'[m] = key[m]
  <2>1. Chain \subseteq Node
    BY <1>9, ChainClosed DEF Chain
  <2> QED BY <1>1, <1>4, <1>8, <2>1 DEF TypeOK
<1>13. Keys' = Keys \cup {Item(w)}
  BY <1>11, <1>12 DEF Keys
<1>14. Written(w)'
  BY <1>1, <1>5, <1>7, <1>8, <1>13, WrittenNext DEF Plain
<1>15. \A m \in Chain : key[m] # Item(w)
  <2>1. Keys = {w_id[w]} \X (1..(w_i[w] - 1))
    BY <1>7, <1>8 DEF Written, Plain
  <2>2. w_i[w] \in Nat
    BY <1>1, PartListAssumption DEF TypeOK
  <2>3. Item(w) \notin {w_id[w]} \X (1..(w_i[w] - 1))
    BY <2>2 DEF Item
  <2> QED BY <2>1, <2>3 DEF Keys
<1>16. \A m, k \in Chain : key[m] = key[k] => m = k
  BY <1>2, <1>7 DEF Sound, Plain
<1>17. Sound'
  <2>1. \A m, k \in Chain' : key'[m] = key'[k] => m = k
    BY <1>11, <1>12, <1>15, <1>16
  <2>2. alloc' = Chain'
    BY <1>4, <1>8, <1>11
  <2> QED BY <1>7, <1>11, <2>1, <2>2 DEF Sound, Plain
<1>18. Inserting(w)'
  <2>1. w_i'[w] # 1
    BY <1>1, <1>5, PartListAssumption DEF TypeOK
  <2>2. w_cur'[w] \in List' /\ Links'[w_cur'[w]] = Null
    BY <1>5, <1>7, <1>10, <1>11 DEF Plain
  <2> QED BY <1>5, <1>8, <1>14, <2>1, <2>2 DEF Inserting
<1> QED BY <1>14, <1>17, <1>18

\* The search looks at every node from the head on, and passes those that
\* hold another record.
LEMMA WalkInsert ==
  ASSUME IInv, NEW w \in Writers, InsertItem(w) \/ InsertWalk(w), serial', TypeOK'
  PROVE  Sound' /\ Written(w)' /\ Inserting(w)'
<1>1. TypeOK /\ Placed /\ w_pc[w] \in {"item", "walk"} /\ serial
      /\ UNCHANGED <<listVars, before, w_id>>
  BY DEF IInv, InsertItem, InsertWalk, callVars
<1>2. Serial /\ Sound /\ Inserting(w) /\ Written(w)
  BY <1>1 DEF IInv, Serial, Inserting
<1>3. Stored /\ \A v \in Writers : v # w => w_pc[v] = "idle"
  BY <1>1, <1>2, Solo DEF Stored
<1>4. Stored'
  BY <1>1, <1>3 DEF Stored, InsertItem, InsertWalk, NextItem, TypeOK
<1>5. Plain /\ Plain'
  BY <1>1, <1>3, <1>4, NoPending, NoPendingNext
<1>6. UNCHANGED <<Links, List, Filled, FilledKeys>> /\ Sound'
  <2>1. \A n \in Node : Pending(n)' <=> Pending(n)
    BY <1>3, <1>4 DEF Pending, Stored
  <2> QED BY <1>1, <1>2, <2>1, ListSame
<1>7. head \in Link /\ Links \in [Node -> Link] /\ List \subseteq Node
  BY <1>1, ListType
<1>8. CASE InsertItem(w)
  <2>1. w_i' = w_i /\ w_pc'[w] \in {"walk", "dead"} /\ w_cur'[w] = head
        /\ (w_pc'[w] = "walk" => head # Null)
    BY <1>1, <1>8 DEF InsertItem, TypeOK
  <2>2. Written(w)'
    BY <1>1, <1>2, <1>6, <2>1 DEF Written
  <2>3. w_pc'[w] = "walk" => w_cur'[w] \in List'
    BY <1>6, <1>7, <2>1, ChainClosed DEF List
  <2>4. List' \ ChainFrom(w_cur'[w], Links') = {}
    BY <1>6, <2>1 DEF List
  <2>5. Inserting(w)'
    BY <2>1, <2>2, <2>3, <2>4 DEF Inserting, Unseen
  <2> QED BY <1>6, <2>2, <2>5
<1>9. CASE InsertWalk(w)
  <2> DEFINE c == w_cur[w]
  <2>0. c \in List /\ c \in Node /\ Unseen(w, List \ ChainFrom(c, Links)) /\ Links = next
    BY <1>2, <1>5, <1>7, <1>9 DEF InsertWalk, Inserting, Plain
  <2>1. CASE key[c] = Item(w)
    <3>1. w_i'[w] = w_i[w] + 1 /\ w_pc'[w] \in {"idle", "item"}
      BY <1>1, <1>9, <2>1 DEF InsertWalk, NextItem, TypeOK
    <3>2. Item(w) \in FilledKeys
      BY <1>5, <2>0, <2>1 DEF Plain, Keys
    <3>3. FilledKeys' = FilledKeys \cup {Item(w)}
      BY <1>6, <3>2
    <3>4. Written(w)'
      BY <1>1, <1>2, <3>1, <3>3, WrittenNext
    <3>5. Inserting(w)'
      BY <3>1, <3>4 DEF Inserting
    <3> QED BY <1>6, <3>4, <3>5
  <2>2. CASE key[c] # Item(w)
    <3>1. w_i' = w_i /\ Item(w)' = Item(w)
      BY <1>1, <1>9, <2>2 DEF InsertWalk, Item
    <3>2. Written(w)'
      BY <1>1, <1>2, <1>6, <3>1 DEF Written
    <3>3. ChainFrom(c, Links) = {c} \cup ChainFrom(Links[c], Links)
      BY <1>7, <2>0, ChainStep
    <3>4. \A n \in List \ ChainFrom(Links[c], Links) : key[n] # Item(w)
      BY <2>0, <2>2, <3>3 DEF Unseen
    <3>5. CASE next[c] = Null
      <4>1. w_pc'[w] = "link" /\ w_cur' = w_cur
        BY <1>1, <1>9, <2>2, <3>5 DEF InsertWalk, TypeOK
      <4>2. Unseen(w, List)'
        BY <2>0, <3>4, <3>5, <1>6, <1>1, <3>1, ChainNull DEF Unseen, listVars
      <4> QED BY <1>6, <2>0, <3>2, <3>5, <4>1, <4>2 DEF Inserting
    <3>6. CASE next[c] # Null
      <4>1. w_pc'[w] = "walk" /\ w_cur'[w] = next[c]
        BY <1>1, <1>9, <2>2, <3>6 DEF InsertWalk, TypeOK
      <4>2. next[c] \in List
        BY <1>7, <2>0, <3>6, ChainClosed DEF List
      <4>3. Unseen(w, List \ ChainFrom(w_cur[w], Links))'
        BY <2>0, <3>4, <1>6, <1>1, <3>1, <4>1 DEF Unseen, listVars
      <4> QED BY <1>6, <3>2, <4>1, <4>2, <4>3 DEF Inserting
    <3> QED BY <3>5, <3>6
  <2> QED BY <2>1, <2>2
<1> QED BY <1>8, <1>9

\* The new node is linked behind the last one.
LEMMA LinkInsert ==
  ASSUME IInv, NEW w \in Writers, InsertLink(w), serial', TypeOK'
  PROVE  Sound' /\ Written(w)' /\ Inserting(w)'
<1>1. TypeOK /\ Placed /\ w_pc[w] = "link" /\ serial
      /\ UNCHANGED <<head, key, before, w_id, w_i>>
  BY DEF IInv, InsertLink, callVars
<1>2. Serial /\ Sound /\ Inserting(w) /\ Written(w)
  BY <1>1 DEF IInv, Serial, Inserting
<1>3. Stored /\ \A v \in Writers : v # w => w_pc[v] = "idle"
  BY <1>1, <1>2, Solo DEF Stored
<1>4. Plain
  BY <1>1, <1>3, NoPending
<1>5. CASE UNCHANGED <<alloc, next, w_cur>> /\ w_pc' = [w_pc EXCEPT ![w] = "dead"]
  <2>1. UNCHANGED listVars /\ w_pc'[w] = "dead" /\ Stored'
    BY <1>1, <1>3, <1>5 DEF listVars, Stored, TypeOK
  <2>2. UNCHANGED <<Links, List, Filled, FilledKeys>> /\ Sound'
    <3>1. \A n \in Node : Pending(n)' <=> Pending(n)
      BY <1>3, <2>1 DEF Pending, Stored
    <3> QED BY <1>1, <1>2, <2>1, <3>1, ListSame
  <2>3. Written(w)'
    BY <1>1, <1>2, <2>2 DEF Written
  <2> QED BY <2>1, <2>2, <2>3 DEF Inserting
<1>6. ASSUME NEW n \in Node \ alloc,
             /\ alloc' = alloc \cup {n}
             /\ next' = [next EXCEPT ![w_cur[w]] = n]
             /\ w_cur' = [w_cur EXCEPT ![w] = n]
             /\ w_pc' = [w_pc EXCEPT ![w] = "store"]
      PROVE  Sound' /\ Written(w)' /\ Inserting(w)'
  <2> DEFINE c == w_cur[w]
  <2>1. c \in List /\ Links[c] = Null /\ Unseen(w, List) /\ alloc = List
        /\ Linear(head, Links) /\ n \notin List /\ Filled = List
    BY <1>1, <1>2, <1>4, <1>6 DEF Inserting, Sound, Plain
  <2>2. head \in Link /\ Links \in [Node -> Link] /\ List \subseteq Node
        /\ Links' \in [Node -> Link]
    BY <1>1, ListType, ListTypeNext
  <2>3. w_pc'[w] = "store" /\ w_cur'[w] = n /\ \A v \in Writers : v # w => w_pc'[v] = "idle"
    BY <1>1, <1>3, <1>6 DEF TypeOK
  <2>4. \A m : Pending(m)' <=> m = n
    BY <2>3 DEF Pending
  <2>5. Links'[n] = Null /\ Links'[c] = n /\ \A m \in List \ {c} : Links'[m] = Links[m]
    BY <1>1, <1>4, <1>6, <2>1, <2>2, <2>4 DEF Links, Plain, TypeOK
  <2>6. ChainFrom(head, Links') = ChainFrom(head, Links) \cup {n} /\ Linear(head, Links')
    BY <2>1, <2>2, <2>5, ChainAppend DEF List
  <2>7. List' = List \cup {n} /\ Linear(head', Links')
    BY <1>1, <2>6 DEF List
  <2>8. Filled' = Filled
    BY <2>1, <2>4, <2>7 DEF Filled
  <2>9. FilledKeys' = FilledKeys
    BY <1>1, <2>8 DEF FilledKeys
  <2>10. Sound'
    BY <1>1, <1>2, <1>6, <2>1, <2>7, <2>8 DEF Sound
  <2>11. Written(w)'
    BY <1>1, <1>2, <2>9 DEF Written
  <2>12. Unseen(w, Filled)'
    BY <1>1, <2>1, <2>8 DEF Unseen, Item
  <2> QED BY <2>3, <2>7, <2>10, <2>11, <2>12 DEF Inserting
<1> QED BY <1>5, <1>6 DEF InsertLink

\* The node that was linked gets its record.
LEMMA StoreInsert ==
  ASSUME IInv, NEW w \in Writers, InsertStore(w), serial', TypeOK'
  PROVE  Sound' /\ Written(w)' /\ Inserting(w)'
<1> DEFINE c == w_cur[w]
<1>1. TypeOK /\ Placed /\ w_pc[w] = "store" /\ serial
      /\ UNCHANGED <<head, alloc, before, w_id, w_cur>>
      /\ key' = [key EXCEPT ![c] = Item(w)] /\ next' = [next EXCEPT ![c] = Null]
      /\ NextItem(w, "item")
  BY DEF IInv, InsertStore, callVars
<1>2. Serial /\ Sound /\ Inserting(w) /\ Written(w)
  BY <1>1 DEF IInv, Serial, Inserting
<1>3. (\A v \in Writers : v # w => w_pc[v] = "idle") /\ \A n : Pending(n) <=> n = c
  BY <1>1, <1>2, Solo
<1>4. w_pc'[w] \in {"idle", "item"} /\ w_i'[w] = w_i[w] + 1
  BY <1>1 DEF NextItem, TypeOK
<1>5. Stored'
  BY <1>1, <1>3, <1>4 DEF Stored, NextItem, TypeOK
<1>6. Plain' /\ \A n : ~Pending(n)'
  BY <1>5, NoPendingNext DEF Stored, Pending
<1>7. c \in List /\ List \subseteq Node /\ Unseen(w, Filled)
  BY <1>1, <1>2, ListType DEF Inserting
<1>8. Links' = Links
  <2>1. \A m \in Node : Links'[m] = Links[m]
    BY <1>1, <1>3, <1>6 DEF Links, TypeOK
  <2> QED BY <2>1 DEF Links
<1>9. List' = List
  BY <1>1, <1>8 DEF List
<1>10. Filled = List \ {c} /\ Filled' = List
  BY <1>3, <1>6, <1>9 DEF Filled
<1>11. key'[c] = Item(w) /\ \A m \in Filled : key'[m] = key[m]
  BY <1>1, <1>7, <1>10 DEF TypeOK
<1>12. FilledKeys' = FilledKeys \cup {Item(w)}
  BY <1>7, <1>10, <1>11 DEF FilledKeys
<1>13. Written(w)'
  BY <1>1, <1>2, <1>4, <1>12, WrittenNext
<1>14. Sound'
  <2>1. \A m, k \in Filled' : key'[m] = key'[k] => m = k
    BY <1>2, <1>7, <1>10, <1>11 DEF Sound, Unseen
  <2> QED BY <1>1, <1>2, <1>8, <1>9, <2>1 DEF Sound
<1>15. Inserting(w)'
  BY <1>4, <1>13 DEF Inserting
<1> QED BY <1>13, <1>14, <1>15

\* Every step of an insertion.
LEMMA SerialInsert ==
  ASSUME IInv, NEW w \in Writers, Insert(w), serial', TypeOK'
  PROVE  Serial' /\ Written(w)'
<1>1. Sound' /\ Written(w)' /\ Inserting(w)'
  BY CallInsert, FillInsert, WalkInsert, LinkInsert, StoreInsert DEF Insert
<1>2. TypeOK
  BY DEF IInv
<1>3. (\A v \in Writers : v # w => w_pc[v] = "idle") /\ d_pc = "idle" /\ r_pc = "idle"
  <2>1. CASE \E i \in Ids : InsertCall(w, i)
    BY <2>1, CallInsert DEF Quiet
  <2>2. CASE InsertFill(w) \/ InsertItem(w) \/ InsertWalk(w) \/ InsertLink(w)
             \/ InsertStore(w)
    <3>1. w_pc[w] # "idle"
      BY <2>2 DEF InsertFill, InsertItem, InsertWalk, InsertLink, InsertStore
    <3>2. serial
      BY <2>2 DEF InsertFill, InsertItem, InsertWalk, InsertLink, InsertStore, callVars
    <3> QED BY <3>1, <3>2, <1>2, Solo DEF IInv
  <2> QED BY <2>1, <2>2 DEF Insert
<1>4. UNCHANGED <<delVars, readVars>>
  BY DEF Insert, InsertCall, InsertFill, InsertItem, InsertWalk, InsertLink, InsertStore
<1>5. \A v \in Writers : v # w => w_pc'[v] = w_pc[v]
  BY <1>2 DEF Insert, InsertCall, InsertFill, InsertItem, InsertWalk, InsertLink,
              InsertStore, NextItem, TypeOK
<1> QED BY <1>1, <1>2, <1>3, <1>4, <1>5, SoloStep

\* A deletion: the deleter works alone, and no node waits to be filled in.
LEMMA DeleteAlone ==
  ASSUME IInv, Delete, serial', TypeOK'
  PROVE  /\ TypeOK /\ Serial /\ serial /\ Stored /\ Stored' /\ Plain /\ Plain'
         /\ \A w \in Writers : w_pc[w] = "idle" /\ w_pc'[w] = "idle"
         /\ r_pc = "idle" /\ r_pc' = "idle"
         /\ Sound' /\ Deleting' => Serial'
<1>1. UNCHANGED <<writeVars, readVars>> /\ serial
  BY DEF Delete, DeleteCall, DeleteKeep, DeleteNode, DeleteReturn, Begin, callVars
<1>2. TypeOK /\ Serial
  BY <1>1 DEF IInv
<1>3. (\A w \in Writers : w_pc[w] = "idle") /\ r_pc = "idle"
  BY <1>2 DEF Delete, DeleteCall, DeleteKeep, DeleteNode, DeleteReturn, Begin, Quiet,
              Serial, OneCall
<1>4. (\A w \in Writers : w_pc'[w] = "idle") /\ r_pc' = "idle"
  BY <1>1, <1>3 DEF writeVars, readVars
<1>5. Stored /\ Stored'
  BY <1>3, <1>4 DEF Stored
<1>6. Plain /\ Plain'
  BY <1>2, <1>5, NoPending, NoPendingNext
<1>7. Sound' /\ Deleting' => Serial'
  BY <1>4 DEF Serial, OneCall, Inserting, Reading
<1> QED BY <1>1, <1>2, <1>3, <1>4, <1>5, <1>6, <1>7

\* What is left of the keys when a node of the deleted disk goes.
LEMMA DeletedKeys ==
  ASSUME Plain', NEW x, Chain' = Chain \ {x}, key[x][1] = d_id, x \in Chain,
         UNCHANGED <<key, before, d_id>>, alloc' = Chain \ {x}, d_pc' = "walk",
         Linear(head', next'), \A m, n \in Chain : key[m] = key[n] => m = n,
         Keys \subseteq before, \A k \in before : k[1] # d_id => k \in Keys,
         \A n \in Chain' \ ChainFrom(d_cur', next') : key[n][1] # d_id,
         d_cur' # Null => /\ d_cur' \in Chain'
                          /\ d_cur' = head' \/ (/\ d_prev' \in Chain' /\ d_prev' # d_cur'
                                                /\ next'[d_prev'] = d_cur')
  PROVE  Sound' /\ Deleting'
<1>1. Sound'
  BY DEF Sound, Plain
<1>2. Keys' \subseteq before'
  BY DEF Keys
<1>3. \A k \in before' : k[1] # d_id' => k \in Keys'
  BY DEF Keys
<1> QED BY <1>1, <1>2, <1>3 DEF Deleting, Plain

\* Unlinking and freeing a node removes it from the list, and nothing else.
LEMMA SerialDeleteNode ==
  ASSUME IInv, DeleteNode, serial', TypeOK' PROVE Sound' /\ Deleting'
<1> DEFINE x == d_cur
           y == next[d_cur]
<1>1. TypeOK /\ Serial /\ Plain /\ Plain' /\ Sound /\ Deleting
  BY DeleteAlone DEF Delete, Serial
<1>2. d_pc = "walk" /\ x # Null /\ key[x][1] = d_id /\ alloc' = alloc \ {x} /\ d_cur' = y
      /\ UNCHANGED <<key, before, d_id>> /\ x \in Node
  BY <1>1 DEF DeleteNode, TypeOK
<1>3. next \in [Node -> Link] /\ head \in Link /\ Chain \subseteq Node
      /\ next' \in [Node -> Link]
  BY <1>1, ListType, ListTypeNext DEF Plain
<1>4. alloc = Chain /\ Linear(head, next) /\ x \in Chain
      /\ \A m, n \in Chain : key[m] = key[n] => m = n
  BY <1>1, <1>2 DEF Sound, Deleting, Plain
<1>5. /\ Keys \subseteq before
      /\ \A k \in before : k[1] # d_id => k \in Keys
      /\ \A n \in Chain \ ChainFrom(x, next) : key[n][1] # d_id
      /\ x = head \/ (d_prev \in Chain /\ d_prev # x /\ next[d_prev] = x)
  BY <1>1, <1>2 DEF Deleting, Plain
<1>6. ChainFrom(x, next) = {x} \cup ChainFrom(y, next)
  BY <1>2, <1>3, ChainStep
<1>7. CASE head = x
  <2>1. head' = y /\ next' = next /\ d_pc' = "walk"
    BY <1>2, <1>7 DEF DeleteNode
  <2>2. Chain' = Chain \ {x} /\ Linear(head', next')
    BY <1>2, <1>3, <1>4, <1>7, <2>1, ChainTail DEF Chain
  <2>3. \A n \in Chain' \ ChainFrom(y, next') : key[n][1] # d_id
    BY <1>5, <1>6, <2>1, <2>2
  <2>4. d_cur' # Null => d_cur' \in Chain' /\ d_cur' = head'
    BY <1>2, <1>3, <2>1, ChainClosed DEF Chain, Link
  <2> QED BY <2>1, <2>2, <2>3, <2>4, <1>1, <1>2, <1>4, <1>5, DeletedKeys
<1>8. CASE head # x
  <2>0. d_prev \in Chain /\ d_prev # x /\ next[d_prev] = x /\ d_prev # Null
    BY <1>3, <1>5, <1>8, NullNoNode
  <2>1. head' = head /\ next' = [next EXCEPT ![d_prev] = y] /\ d_pc' = "walk" /\ d_prev' = d_prev
    BY <1>2, <1>8, <2>0 DEF DeleteNode
  <2>2. next'[d_prev] = y /\ \A m \in Node \ {d_prev} : next'[m] = next[m]
    BY <1>3, <2>0, <2>1
  <2>3. /\ ChainFrom(head, next') = ChainFrom(head, next) \ {x}
        /\ Linear(head, next') /\ y # d_prev
        /\ ChainFrom(y, next) \ {x} \subseteq ChainFrom(y, next')
    BY <1>3, <1>4, <2>0, <2>2, ChainUnlink DEF Chain
  <2>4. Chain' = Chain \ {x} /\ Linear(head', next')
    BY <2>1, <2>3 DEF Chain
  <2>5. \A n \in Chain' \ ChainFrom(y, next') : key[n][1] # d_id
    BY <1>5, <1>6, <2>3, <2>4
  <2>6. d_prev' \in Chain' /\ next'[d_prev'] = y /\ d_prev' # y
    BY <2>0, <2>1, <2>2, <2>3, <2>4
  <2>7. y # Null => y \in Chain'
    BY <1>3, <2>1, <2>6, ChainClosed DEF Chain, Link
  <2> QED BY <2>1, <2>4, <2>5, <2>6, <2>7, <1>1, <1>2, <1>4, <1>5, DeletedKeys
<1> QED BY <1>7, <1>8

\* Every step of a deletion.
LEMMA SerialDelete == ASSUME IInv, Delete, serial', TypeOK' PROVE Serial'
<1>1. /\ TypeOK /\ Serial /\ Sound /\ Deleting /\ Plain /\ Plain' /\ Stored /\ Stored'
      /\ (Sound' /\ Deleting' => Serial')
  BY DeleteAlone DEF Serial
<1>2. next \in [Node -> Link] /\ head \in Link /\ Chain \subseteq Node
  BY <1>1, ListType DEF Plain
<1>3. ASSUME UNCHANGED listVars
      PROVE  UNCHANGED <<Links, List, Filled, FilledKeys>> /\ Sound'
  <2>1. \A n \in Node : Pending(n)' <=> Pending(n)
    BY <1>1 DEF Pending, Stored
  <2> QED BY <1>1, <1>3, <2>1, ListSame
<1>4. ASSUME NEW i \in Ids, DeleteCall(i) PROVE Sound' /\ Deleting'
  <2>1. UNCHANGED listVars /\ before' = Keys /\ d_pc' = "walk" /\ d_cur' = head /\ head' = head
    BY <1>4 DEF DeleteCall, Begin, listVars
  <2>2. UNCHANGED <<Links, List, FilledKeys>> /\ Sound' /\ FilledKeys' = before'
    BY <1>1, <1>3, <2>1 DEF Plain
  <2>3. List' \ ChainFrom(d_cur', Links') = {}
    BY <2>1, <2>2 DEF List
  <2>4. d_cur' # Null => d_cur' \in List'
    BY <1>1, <1>2, <2>1, <2>2, ChainClosed DEF List, Plain
  <2> QED BY <2>1, <2>2, <2>3, <2>4 DEF Deleting
<1>5. ASSUME DeleteKeep PROVE Sound' /\ Deleting'
  <2> DEFINE x == d_cur
  <2>1. UNCHANGED listVars /\ UNCHANGED <<before, d_pc, d_id>> /\ d_cur' = next[x]
        /\ d_prev' = x /\ key[x][1] # d_id /\ d_pc = "walk" /\ x # Null /\ x \in Node
    BY <1>1, <1>5 DEF DeleteKeep, callVars, TypeOK
  <2>2. UNCHANGED <<Links, List, FilledKeys>> /\ Sound'
    BY <1>3, <2>1
  <2>3. x \in List /\ Linear(head, Links) /\ Links = next
    BY <1>1, <2>1 DEF Sound, Deleting, Plain
  <2>4. ChainFrom(x, next) = {x} \cup ChainFrom(next[x], next)
    BY <1>2, <2>1, ChainStep
  <2>5. \A n \in List' \ ChainFrom(d_cur', Links') : key'[n][1] # d_id'
    BY <1>1, <2>1, <2>2, <2>3, <2>4 DEF Deleting, listVars
  <2>6. next[x] # x
    <3>1. x \notin ChainFrom(next[x], next)
      BY <1>2, <2>3, ChainAcyclic DEF List
    <3> QED BY <2>4, <3>1
  <2>7. next[x] # Null => next[x] \in List
    BY <1>2, <2>3, ChainClosed DEF List
  <2> QED BY <1>1, <2>1, <2>2, <2>3, <2>5, <2>6, <2>7 DEF Deleting
<1>6. ASSUME DeleteReturn PROVE Sound' /\ Deleting'
  BY <1>3, <1>6 DEF DeleteReturn, Deleting
<1> QED BY <1>1, <1>4, <1>5, <1>6, SerialDeleteNode DEF Delete

\* Nodes are finitely many, and so are the wanted ones among them.
LEMMA WantedFinite ==
  ASSUME NEW S \in SUBSET Node
  PROVE  IsFiniteSet(WantedIn(S)) /\ Cardinality(WantedIn(S)) \in Nat
<1>1. IsFiniteSet(Node)
  BY FS_Interval, PartListAssumption DEF Node
<1>2. WantedIn(S) \in SUBSET Node
  BY DEF WantedIn
<1> QED BY <1>1, <1>2, FS_Subset, FS_CardinalityType

\* One node further there is one wanted node less ahead, if this one was.
LEMMA AheadStep ==
  ASSUME TypeOK, Sound, r_cur \in List, NEW y, y = Links[r_cur]
  PROVE  Ahead = Cardinality(WantedIn(ChainFrom(y, Links)))
                 + (IF Wanted(r_kind, key[r_cur]) THEN 1 ELSE 0)
<1> DEFINE x == r_cur
           S == ChainFrom(y, Links)
<1>1. Links \in [Node -> Link] /\ head \in Link /\ x \in Node /\ y \in Link
  BY ListType
<1>2. ChainFrom(x, Links) = {x} \cup S
  BY <1>1, ChainStep
<1>3. x \notin S
  BY <1>1, ChainAcyclic DEF Sound, List
<1>4. S \in SUBSET Node
  BY <1>1, ChainClosed
<1> HIDE DEF S
<1>5. IsFiniteSet(WantedIn(S)) /\ Cardinality(WantedIn(S)) \in Nat
  BY <1>4, WantedFinite
<1>6. CASE Wanted(r_kind, key[x])
  <2>1. WantedIn({x} \cup S) = WantedIn(S) \cup {x} /\ x \notin WantedIn(S)
    BY <1>3, <1>6 DEF WantedIn
  <2>2. Cardinality(WantedIn(S) \cup {x}) = Cardinality(WantedIn(S)) + 1
    BY <1>5, <2>1, FS_AddElement
  <2> QED BY <1>2, <1>6, <2>1, <2>2 DEF Ahead, S
<1>7. CASE ~Wanted(r_kind, key[x])
  <2>1. WantedIn({x} \cup S) = WantedIn(S)
    BY <1>7 DEF WantedIn
  <2> QED BY <1>2, <1>5, <1>7, <2>1 DEF Ahead, S
<1> QED BY <1>6, <1>7

\* Every step of a read: it works alone and changes nothing of the list.
LEMMA SerialRead == ASSUME IInv, Read, serial', TypeOK' PROVE Serial'
<1>1. UNCHANGED <<listVars, writeVars, delVars>> /\ serial
  BY DEF Read, ReadCall, ReadCount, ReadAlloc, ReadCopy, ReadReturn, Begin, callVars
<1>2. TypeOK /\ Serial /\ Sound /\ Reading /\ Placed
  BY <1>1 DEF IInv, Serial
<1>3. (\A w \in Writers : w_pc[w] = "idle") /\ d_pc = "idle"
  BY <1>2 DEF Read, ReadCall, ReadCount, ReadAlloc, ReadCopy, ReadReturn, Begin, Quiet,
              Serial, OneCall
<1>4. (\A w \in Writers : w_pc'[w] = "idle") /\ d_pc' = "idle"
  BY <1>1, <1>3 DEF writeVars, delVars
<1>5. Reading' /\ Sound' => Serial'
  BY <1>4 DEF Serial, OneCall, Inserting, Deleting
<1>6. UNCHANGED <<Links, List, Filled, FilledKeys>> /\ Sound'
  <2>1. \A n \in Node : Pending(n)' <=> Pending(n)
    BY <1>3, <1>4 DEF Pending
  <2> QED BY <1>1, <1>2, <2>1, ListSame
<1>7. Plain
  BY <1>2, <1>3, NoPending DEF Stored
<1>8. head \in Link /\ Links \in [Node -> Link] /\ List \in SUBSET Node /\ next = Links
      /\ head' = head /\ key' = key
  BY <1>1, <1>2, <1>7, ListType DEF listVars, Plain
<1>9. head \in List \cup {Null}
  BY <1>8, ChainClosed DEF List
<1>10. Cardinality(WantedIn(List)) \in Nat
  BY <1>8, WantedFinite
<1>11. ASSUME NEW kind \in {"usb", "sdcard"}, ReadCall(kind) PROVE Reading'
  <2>1. before' = FilledKeys' /\ r_pc' = "count" /\ r_cur' = head /\ r_n' = 0
    BY <1>6, <1>7, <1>11 DEF ReadCall, Begin, Plain
  <2>2. ChainFrom(r_cur', Links') = List'
    BY <1>8, <2>1 DEF List
  <2>3. Ahead' = Cardinality(WantedIn(List))'
    BY <2>2 DEF Ahead, WantedIn
  <2>4. (Cardinality(WantedIn(List)))' \in Nat
    <3>1. List' \in SUBSET Node /\ IsFiniteSet(Node)
      BY <1>6, <1>8, FS_Interval, PartListAssumption DEF Node
    <3>2. (WantedIn(List))' \in SUBSET Node
      BY <3>1 DEF WantedIn
    <3> QED BY <3>1, <3>2, FS_Subset, FS_CardinalityType
  <2> QED BY <1>6, <1>9, <2>1, <2>3, <2>4 DEF Reading
<1>12. ASSUME r_kind' = r_kind
       PROVE  (Cardinality(WantedIn(List)))' = Cardinality(WantedIn(List))
  BY <1>6, <1>8, <1>12 DEF WantedIn
<1>13. ASSUME r_kind' = r_kind, r_cur \in List, r_cur' = next[r_cur]
       PROVE  /\ Ahead = Ahead' + (IF Wanted(r_kind, key[r_cur]) THEN 1 ELSE 0)
              /\ Ahead' \in Nat /\ r_cur' \in List' \cup {Null}
  <2>1. r_cur' = Links[r_cur] /\ r_cur' \in Link /\ r_cur \in Node
    BY <1>8, <1>13
  <2>2. Ahead' = Cardinality(WantedIn(ChainFrom(r_cur', Links)))
    BY <1>6, <1>8, <1>13 DEF Ahead, WantedIn
  <2>3. ChainFrom(r_cur', Links) \in SUBSET Node
    BY <1>8, <2>1, ChainClosed
  <2>4. r_cur' \in List \cup {Null}
    BY <1>8, <1>13, <2>1, ChainClosed DEF List
  <2>5. Ahead' \in Nat
    BY <2>2, <2>3, WantedFinite
  <2> QED BY <1>2, <1>6, <1>13, <2>1, <2>2, <2>4, <2>5, AheadStep
<1>14. ASSUME ReadCount PROVE Reading'
  <2>1. r_cur \in List /\ r_n + Ahead = Cardinality(WantedIn(List)) /\ before = FilledKeys
        /\ before' = before /\ r_pc' = "count" /\ r_kind' = r_kind /\ r_cur' = next[r_cur]
        /\ r_n' = r_n + (IF Wanted(r_kind, key[r_cur]) THEN 1 ELSE 0) /\ r_n \in Nat
    BY <1>2, <1>14 DEF ReadCount, Reading, callVars, TypeOK
  <2>2. r_n' + Ahead' = Cardinality(WantedIn(List))
    BY <1>13, <2>1
  <2> QED BY <1>6, <1>12, <1>13, <2>1, <2>2 DEF Reading
<1>15. ASSUME ReadAlloc PROVE Reading'
  <2>1. r_cur = Null /\ r_n + Ahead = Cardinality(WantedIn(List)) /\ before = FilledKeys
        /\ before' = before /\ r_kind' = r_kind /\ r_n' = r_n /\ r_cnt' = 0 /\ r_n \in Nat
        /\ (r_pc' = "idle" \/ (r_pc' = "copy" /\ r_cur' = head))
    BY <1>2, <1>15 DEF ReadAlloc, Reading, callVars, TypeOK, Placed
  <2>2. Ahead = 0
    <3>1. WantedIn(ChainFrom(r_cur, Links)) = {}
      BY <2>1, ChainNull DEF WantedIn
    <3> QED BY <3>1, FS_EmptySet DEF Ahead
  <2>3. CASE r_pc' = "idle"
    BY <2>3 DEF Reading
  <2>4. CASE r_pc' = "copy" /\ r_cur' = head
    <3>1. Ahead' = Cardinality(WantedIn(List))
      BY <1>6, <1>8, <2>1, <2>4 DEF Ahead, WantedIn, List
    <3> QED BY <1>6, <1>9, <1>10, <1>12, <2>1, <2>2, <2>4, <3>1 DEF Reading
  <2> QED BY <2>1, <2>3, <2>4
<1>16. ASSUME ReadCopy PROVE Reading'
  <2>1. r_cur \in List /\ r_n = Cardinality(WantedIn(List)) /\ r_cnt + Ahead = r_n
        /\ before = FilledKeys /\ before' = before /\ r_kind' = r_kind /\ r_n' = r_n
        /\ r_cnt' = r_cnt + (IF Wanted(r_kind, key[r_cur]) THEN 1 ELSE 0)
        /\ r_n \in Nat /\ r_cnt \in Nat
    BY <1>2, <1>16 DEF ReadCopy, Reading, callVars, TypeOK
  <2>2. CASE r_pc' = "over"
    BY <1>6, <2>1, <2>2 DEF Reading
  <2>3. CASE r_pc' = "copy" /\ r_cur' = next[r_cur]
    <3>1. r_cnt' + Ahead' = r_n
      BY <1>13, <2>1, <2>3
    <3> QED BY <1>6, <1>12, <1>13, <2>1, <2>3, <3>1 DEF Reading
  <2> QED BY <1>16, <2>2, <2>3 DEF ReadCopy
<1>17. ASSUME ReadReturn PROVE Reading'
  BY <1>17 DEF ReadReturn, Reading
<1> QED BY <1>5, <1>6, <1>11, <1>14, <1>15, <1>16, <1>17 DEF Read

-----------------------------------------------------------------------------
(* The theorems. *)

\* The module starts with an empty list, and nobody in a call.
LEMMA InitIInv == Init => IInv
<1> SUFFICES ASSUME Init PROVE IInv
  OBVIOUS
<1> USE PartListAssumption DEF Init
<1>1. TypeOK /\ Placed
  BY DEF TypeOK, Placed, MaxCount
<1>2. Stored /\ Plain
  BY <1>1, NoPending DEF Stored
<1>3. Chain = {}
  BY ChainNull DEF Chain
<1>4. Sound
  BY <1>2, <1>3 DEF Sound, Linear, Plain, Chain
<1>5. OneCall /\ Deleting /\ Reading /\ \A w \in Writers : Inserting(w)
  BY DEF OneCall, Deleting, Reading, Inserting
<1> QED BY <1>1, <1>4, <1>5 DEF IInv, Serial

\* Every step of a writer, of the deleter and of a reader keeps the invariant.
LEMMA NextIInv == ASSUME IInv, Next PROVE IInv'
<1>1. TypeOK' /\ Placed'
  BY TypeInsert, TypeDelete, TypeRead DEF Next, IInv
<1>2. serial' => Serial'
  BY <1>1, SerialInsert, SerialDelete, SerialRead DEF Next
<1> QED BY <1>1, <1>2 DEF IInv

\* A step that leaves the variables alone keeps it too.
LEMMA StutterIInv == ASSUME IInv, UNCHANGED vars PROVE IInv'
<1>1. UNCHANGED listVars /\ UNCHANGED callVars /\ UNCHANGED writeVars
      /\ UNCHANGED delVars /\ UNCHANGED readVars
  BY DEF vars
<1>2. TypeOK' /\ Placed'
  BY <1>1 DEF IInv, TypeOK, Placed, listVars, callVars, writeVars, delVars, readVars
<1>3. ASSUME serial' PROVE Serial'
  <2>1. Serial /\ Sound
    BY <1>1, <1>3 DEF IInv, Serial, callVars
  <2>2. UNCHANGED <<Links, List, Filled, FilledKeys>> /\ Sound'
    <3>1. \A n \in Node : Pending(n)' <=> Pending(n)
      BY <1>1 DEF Pending, writeVars
    <3> QED BY <1>1, <2>1, <3>1, ListSame DEF IInv
  <2>3. OneCall' /\ Deleting'
    BY <1>1, <2>1, <2>2 DEF Serial, OneCall, Deleting, listVars, callVars, writeVars,
                            delVars, readVars
  <2>4. Reading'
    BY <1>1, <2>1, <2>2 DEF Serial, Reading, Ahead, WantedIn, listVars, callVars, readVars
  <2>5. ASSUME NEW w \in Writers PROVE Inserting(w)'
    BY <1>1, <2>1, <2>2 DEF Serial, Inserting, Written, Unseen, Item, listVars, callVars,
                            writeVars
  <2> QED BY <2>2, <2>3, <2>4, <2>5 DEF Serial
<1> QED BY <1>2, <1>3 DEF IInv

\* The invariant of the partition list.
THEOREM Invariance == Spec => []IInv
<1>1. IInv /\ [Next]_vars => IInv'
  BY NextIInv, StutterIInv
<1> QED BY <1>1, InitIInv, PTL DEF Spec

\* Whatever calls overlap, the variables of xl_usb_mng.c keep their types: no
\* pointer leaves the nodes, and no writer runs past its records.
THEOREM TypeCorrect == Spec => []TypeOK
<1>1. IInv => TypeOK
  BY DEF IInv
<1> QED BY <1>1, Invariance, PTL

\* mnt_usb_insert_partition_list never makes a second node for a partition.
THEOREM Unduplicated == Spec => []NoDuplicates
<1>1. IInv => NoDuplicates
  BY NoPending DEF IInv, Serial, Sound, NoDuplicates, Stored, Plain
<1> QED BY <1>1, Invariance, PTL

\* Between calls the blocks in use are exactly the nodes of the list.
THEOREM Unleaked == Spec => []NoLeak
<1>1. IInv => NoLeak
  <2> SUFFICES ASSUME IInv, serial, Quiet PROVE Chain = alloc
    BY DEF NoLeak
  <2>1. Plain
    BY NoPending DEF IInv, Quiet, Stored
  <2> QED BY <2>1 DEF IInv, Serial, Sound, Plain
<1> QED BY <1>1, Invariance, PTL

\* mnt_usb_insert_partition_list adds the partitions of its disk and nothing
\* else, as UsbMng has it in one step.
THEOREM InsertsExactly == Spec => InsertExact
<1>1. ASSUME IInv, [Next]_vars, NEW w \in Writers, w_pc[w] # "idle", w_pc'[w] = "idle",
             serial'
      PROVE  Keys' = before \cup ({w_id[w]} \X (1..NParts))
  <2>0. TypeOK /\ Placed /\ IInv' /\ TypeOK'
    BY <1>1, NextIInv, StutterIInv DEF IInv
  <2>1. Next
    BY <1>1 DEF vars, writeVars
  <2>2. Insert(w)
    <3>1. ~Delete /\ ~Read
      BY <1>1 DEF Delete, DeleteCall, DeleteKeep, DeleteNode, DeleteReturn, Read, ReadCall,
                  ReadCount, ReadAlloc, ReadCopy, ReadReturn, writeVars
    <3>2. ASSUME NEW v \in Writers, v # w, Insert(v) PROVE FALSE
      BY <1>1, <2>0, <3>2 DEF Insert, InsertCall, InsertFill, InsertItem, InsertWalk,
           InsertLink, InsertStore, NextItem, TypeOK
    <3> QED BY <2>1, <3>1, <3>2 DEF Next
  <2>3. Serial' /\ Written(w)'
    BY <1>1, <2>0, <2>2, SerialInsert
  <2>4. /\ serial /\ UNCHANGED <<before, w_id>> /\ w_i'[w] = NParts + 1
        /\ \A v \in Writers : v # w => w_pc'[v] = w_pc[v]
    <3>1. ~ \E i \in Ids : InsertCall(w, i)
      BY <1>1 DEF InsertCall
    <3>2. CASE InsertFill(w)
      <4>1. PICK n \in Node \ alloc : NextItem(w, "fill")
        BY <1>1, <3>2 DEF InsertFill
      <4>2. serial /\ UNCHANGED <<before, w_id>>
        BY <1>1, <3>2 DEF InsertFill
      <4> QED BY <1>1, <2>0, <4>1, <4>2 DEF NextItem, TypeOK
    <3>3. CASE InsertItem(w) \/ InsertLink(w)
      BY <1>1, <2>0, <3>3 DEF InsertItem, InsertLink, TypeOK
    <3>4. CASE InsertWalk(w)
      BY <1>1, <2>0, <3>4 DEF InsertWalk, NextItem, TypeOK, callVars
    <3>5. CASE InsertStore(w)
      BY <1>1, <2>0, <3>5 DEF InsertStore, NextItem, TypeOK, callVars
    <3> QED BY <2>2, <3>1, <3>2, <3>3, <3>4, <3>5 DEF Insert
  <2>5. Stored'
    <3>1. \A v \in Writers : v # w => w_pc[v] = "idle"
      BY <1>1, <2>4 DEF IInv, Serial, OneCall
    <3> QED BY <1>1, <2>4, <3>1 DEF Stored
  <2>6. FilledKeys' = Keys'
    BY <2>0, <2>5, NoPendingNext DEF Plain
  <2>7. w_i'[w] - 1 = NParts
    BY <2>4, PartListAssumption
  <2> QED BY <2>3, <2>4, <2>6, <2>7 DEF Written
<1>2. IInv /\ [Next]_vars =>
        [\A w \in Writers :
           w_pc[w] # "idle" /\ w_pc'[w] = "idle" /\ serial'
             => Keys' = before \cup ({w_id[w]} \X (1..NParts))]_vars
  BY <1>1
<1> QED BY <1>2, Invariance, PTL DEF Spec, InsertExact

\* mnt_usb_delete_partitions_from_list removes the partitions of its disk and
\* nothing else, although it frees nodes while it walks over them.
THEOREM DeletesExactly == Spec => DeleteExact
<1>1. ASSUME IInv, [Next]_vars, d_pc = "walk", d_pc' = "idle", serial'
      PROVE  Keys' = {k \in before : k[1] # d_id}
  <2>1. DeleteReturn
    BY <1>1 DEF vars, delVars, Next, Insert, InsertCall, InsertFill, InsertItem, InsertWalk,
                InsertLink, InsertStore, Delete, DeleteCall, DeleteKeep, DeleteNode, Read,
                ReadCall, ReadCount, ReadAlloc, ReadCopy, ReadReturn
  <2>2. TypeOK' /\ TypeOK
    BY <1>1, NextIInv, StutterIInv DEF IInv
  <2>3. Serial /\ Deleting /\ Plain /\ Plain'
    BY <1>1, <2>1, <2>2, DeleteAlone DEF Delete, Serial
  <2>4. Chain' = Chain /\ Keys' = Keys /\ d_cur = Null
    BY <2>1 DEF DeleteReturn, listVars, Chain, Keys
  <2>5. \A n \in Chain : key[n][1] # d_id
    BY <1>1, <2>3, <2>4, ChainNull DEF Deleting, Plain
  <2>6. Keys \subseteq before /\ \A k \in before : k[1] # d_id => k \in Keys
    BY <1>1, <2>3 DEF Deleting, Plain
  <2>7. \A k \in Keys : k[1] # d_id
    BY <2>5 DEF Keys
  <2> QED BY <2>4, <2>6, <2>7
<1>2. IInv /\ [Next]_vars =>
        [d_pc = "walk" /\ d_pc' = "idle" /\ serial'
           => Keys' = {k \in before : k[1] # d_id}]_vars
  BY <1>1
<1> QED BY <1>2, Invariance, PTL DEF Spec, DeleteExact

\* mnt_usb_read_partition and mnt_sdcard_read_partition return every partition
\* of their kind once: the second walk copies what the first one counted.
THEOREM ReadsExactly == Spec => ReadExact
<1>1. ASSUME IInv, [Next]_vars, r_pc = "copy", r_pc' = "idle", serial'
      PROVE  r_cnt = r_n /\ r_n = Cardinality({k \in before : Wanted(r_kind, k)})
  <2>1. ReadReturn
    BY <1>1 DEF vars, readVars, Next, Insert, InsertCall, InsertFill, InsertItem, InsertWalk,
                InsertLink, InsertStore, Delete, DeleteCall, DeleteKeep, DeleteNode,
                DeleteReturn, Read, ReadCall, ReadCount, ReadAlloc, ReadCopy
  <2>2. TypeOK /\ Serial /\ r_cur = Null
    BY <1>1, <2>1 DEF IInv, ReadReturn, callVars
  <2>3. Stored /\ Plain
    BY <1>1, <2>2, NoPending DEF Serial, OneCall, Stored
  <2>4. before = Keys /\ r_n = Cardinality(WantedIn(Chain)) /\ r_cnt + Ahead = r_n
    BY <1>1, <2>2, <2>3 DEF Serial, Reading, Plain
  <2>5. Ahead = 0
    <3>1. WantedIn(ChainFrom(r_cur, Links)) = {}
      BY <2>2, ChainNull DEF WantedIn
    <3> QED BY <3>1, FS_EmptySet DEF Ahead
  <2>6. r_cnt \in Nat /\ r_n \in Nat
    BY <2>2 DEF TypeOK
  <2>7. Cardinality({k \in Keys : Wanted(r_kind, k)}) = Cardinality(WantedIn(Chain))
    <3> DEFINE S == WantedIn(Chain)
               T == {k \in Keys : Wanted(r_kind, k)}
               f == [n \in S |-> key[n]]
    <3>1. IsFiniteSet(S)
      BY <2>2, <2>3, ListType, WantedFinite DEF Plain
    <3>2. \A m, n \in Chain : key[m] = key[n] => m = n
      BY <2>2, <2>3 DEF Serial, Sound, Plain
    <3>3. f \in Injection(S, T)
      BY <3>2 DEF WantedIn, Keys, Injection, IsInjective
    <3>4. f \in Surjection(S, T)
      BY DEF WantedIn, Keys, Surjection
    <3>5. ExistsBijection(S, T)
      BY <3>3, <3>4 DEF ExistsBijection, Bijection
    <3> QED BY <3>1, <3>5, FS_Bijection
  <2> QED BY <2>4, <2>5, <2>6, <2>7
<1>2. IInv /\ [Next]_vars =>
        [r_pc = "copy" /\ r_pc' = "idle" /\ serial'
           => r_cnt = r_n /\ r_n = Cardinality({k \in before : Wanted(r_kind, k)})]_vars
  BY <1>1
<1> QED BY <1>2, Invariance, PTL DEF Spec, ReadExact
=============================================================================
