----------------------------- MODULE CjsonItems -----------------------------
(***************************************************************************)
(* The items of cJSON.c and the memory they lie in. A function that calls  *)
(* malloc or free takes a memory m and returns the memory after it, with   *)
(* what it returns in m.p; 0 is NULL. m.fail says which malloc to come     *)
(* fails (0: none), m.bad that memory was misused, m.null that NULL was    *)
(* dereferenced, which ends the program.                                   *)
(***************************************************************************)
EXTENDS Integers, Sequences, FiniteSets, SequencesExt, TLC

JsonMem == [cells |-> <<>>, fail |-> 0, p |-> 0, end |-> 0, bad |-> FALSE, null |-> FALSE]
Item == [t |-> "item", type |-> "False", ref |-> FALSE, next |-> 0, prev |-> 0, child |-> 0,
         valuestring |-> 0, string |-> 0, num |-> [neg |-> FALSE, digits |-> <<>>, point |-> 0]]

IsItem(m, i) == i \in DOMAIN m.cells /\ m.cells[i].t = "item"
IsText(m, i) == i \in DOMAIN m.cells /\ m.cells[i].t = "text"

malloc(m, cell) ==
  IF m.fail = 1 THEN [m EXCEPT !.fail = 0, !.p = 0]
  ELSE LET i == CHOOSE k \in 1..(Cardinality(DOMAIN m.cells) + 1) :
                  /\ k \notin DOMAIN m.cells
                  /\ \A j \in 1..(k - 1) : j \in DOMAIN m.cells
       IN [m EXCEPT !.fail = IF @ = 0 THEN 0 ELSE @ - 1, !.cells = (i :> cell) @@ @, !.p = i]
\* free of NULL is never called.
free(m, i) ==
  IF i \notin DOMAIN m.cells THEN [m EXCEPT !.bad = TRUE]
  ELSE [m EXCEPT !.cells = [j \in DOMAIN @ \ {i} |-> @[j]]]
\* A string of s in a buffer of the given size.
MallocText(m, s, size) ==
  [malloc(m, [t |-> "text", text |-> s]) EXCEPT !.bad = @ \/ Len(s) + 1 > size]
cJSON_strdup(m, s) == MallocText(m, s, Len(s) + 1)
cJSON_New_Item(m) == malloc(m, Item)
Return(m, i) == [m EXCEPT !.p = i]

\* The items of a list from i on; a step on freed memory ends it.
RECURSIVE Chain(_, _)
Chain(m, i) == IF ~IsItem(m, i) THEN <<>> ELSE <<i>> \o Chain(m, m.cells[i].next)
cJSON_GetArraySize(m, a) == Len(Chain(m, m.cells[a].child))
cJSON_GetArrayItem(m, a, which) ==
  LET c == Chain(m, m.cells[a].child) IN IF which < Len(c) THEN c[which + 1] ELSE 0

ToLower(c) == IF c \in 65..90 THEN c + 32 ELSE c
cJSON_strcasecmp(s, t) ==
  Len(s) = Len(t) /\ \A i \in DOMAIN s : ToLower(s[i]) = ToLower(t[i])
\* The place of the first member of that name, or the size. A member without
\* a name is never the one.
MemberIndex(m, o, name) ==
  LET c == Chain(m, m.cells[o].child)
      Named(i) == m.cells[i].string # 0 /\ cJSON_strcasecmp(m.cells[m.cells[i].string].text, name)
  IN CHOOSE k \in 0..Len(c) : /\ k < Len(c) => Named(c[k + 1])
                              /\ \A j \in 1..k : ~Named(c[j])

-----------------------------------------------------------------------------
\* A reference owns its name, never its value or children.
RECURSIVE cJSON_Delete(_, _)
X_cJSON_Delete(m, c) ==
  IF c = 0 THEN m
  ELSE IF ~IsItem(m, c) THEN [m EXCEPT !.bad = TRUE]
  ELSE LET it == m.cells[c]
           m1 == IF it.child # 0 THEN cJSON_Delete(m, it.child) ELSE m
           m2 == IF ~it.ref /\ it.valuestring # 0 THEN free(m1, it.valuestring) ELSE m1
           m3 == IF it.string # 0 THEN free(m2, it.string) ELSE m2
       IN cJSON_Delete(free(m3, c), it.next)
cJSON_Delete(m, c) ==
  IF c = 0 THEN m
  ELSE IF ~IsItem(m, c) THEN [m EXCEPT !.bad = TRUE]
  ELSE LET it == m.cells[c]
           m1 == IF ~it.ref /\ it.child # 0 THEN cJSON_Delete(m, it.child) ELSE m
           m2 == IF ~it.ref /\ it.valuestring # 0 THEN free(m1, it.valuestring) ELSE m1
           m3 == IF it.string # 0 THEN free(m2, it.string) ELSE m2
       IN cJSON_Delete(free(m3, c), it.next)

suffix_object(m, prev, i) ==
  IF prev = 0 \/ i = 0 THEN [m EXCEPT !.null = TRUE]
  ELSE [m EXCEPT !.cells[prev].next = i, !.cells[i].prev = prev]
create_reference(m, i) ==
  LET m1 == cJSON_New_Item(m)
  IN IF m1.p = 0 THEN m1
     ELSE [m1 EXCEPT !.cells[m1.p] = [m.cells[i] EXCEPT !.string = 0, !.ref = TRUE, !.next = 0, !.prev = 0]]

cJSON_AddItemToArray(m, a, i) ==
  LET c == Chain(m, m.cells[a].child)
  IN IF i = 0 THEN m
     ELSE IF c = <<>> THEN [m EXCEPT !.cells[a].child = i]
     ELSE suffix_object(m, Last(c), i)
cJSON_AddItemToObject(m, o, name, i) ==
  LET m1 == IF m.cells[i].string # 0 THEN free(m, m.cells[i].string) ELSE m
      m2 == cJSON_strdup(m1, name)
  IN IF i = 0 THEN m
     ELSE cJSON_AddItemToArray([m2 EXCEPT !.cells[i].string = m2.p], o, i)
cJSON_AddItemReferenceToArray(m, a, i) ==
  LET m1 == create_reference(m, i) IN cJSON_AddItemToArray(m1, a, m1.p)
cJSON_AddItemReferenceToObject(m, o, name, i) ==
  LET m1 == create_reference(m, i) IN cJSON_AddItemToObject(m1, o, name, m1.p)

Relink(m, i, field, to) == IF i = 0 THEN m ELSE [m EXCEPT !.cells[i][field] = to]
cJSON_DetachItemFromArray(m, a, which) ==
  LET c  == cJSON_GetArrayItem(m, a, which)
      it == m.cells[c]
      m1 == Relink(Relink(m, it.prev, "next", it.next), it.next, "prev", it.prev)
      m2 == IF m.cells[a].child = c THEN [m1 EXCEPT !.cells[a].child = it.next] ELSE m1
  IN IF c = 0 THEN Return(m, 0)
     ELSE Return([m2 EXCEPT !.cells[c].prev = 0, !.cells[c].next = 0], c)
cJSON_DetachItemFromObject(m, o, name) == cJSON_DetachItemFromArray(m, o, MemberIndex(m, o, name))
cJSON_DeleteItemFromArray(m, a, which) ==
  LET m1 == cJSON_DetachItemFromArray(m, a, which) IN cJSON_Delete(m1, m1.p)
cJSON_DeleteItemFromObject(m, o, name) ==
  LET m1 == cJSON_DetachItemFromObject(m, o, name) IN cJSON_Delete(m1, m1.p)

cJSON_ReplaceItemInArray(m, a, which, new) ==
  LET c  == cJSON_GetArrayItem(m, a, which)
      it == m.cells[c]
      m1 == Relink([m EXCEPT !.cells[new].next = it.next, !.cells[new].prev = it.prev], it.next, "prev", new)
      m2 == IF m.cells[a].child = c THEN [m1 EXCEPT !.cells[a].child = new] ELSE Relink(m1, it.prev, "next", new)
  IN IF c = 0 THEN m ELSE cJSON_Delete([m2 EXCEPT !.cells[c].next = 0, !.cells[c].prev = 0], c)
cJSON_ReplaceItemInObject(m, o, name, new) ==
  LET k  == MemberIndex(m, o, name)
      m1 == cJSON_strdup(m, name)
  IN IF k = cJSON_GetArraySize(m, o) THEN m
     ELSE cJSON_ReplaceItemInArray([m1 EXCEPT !.cells[new].string = m1.p], o, k, new)

-----------------------------------------------------------------------------
\* The Create functions; value is the number or the string.
cJSON_Create(m, type, value) ==
  LET m1 == cJSON_New_Item(m)
      m2 == [m1 EXCEPT !.cells[m1.p].type = type]
      m3 == cJSON_strdup(m2, value)
  IN CASE m1.p = 0 -> m1
       [] m1.p # 0 /\ type = "Number" -> [m2 EXCEPT !.cells[m1.p].num = value]
       [] m1.p # 0 /\ type = "String" -> Return([m3 EXCEPT !.cells[m1.p].valuestring = m3.p], m1.p)
       [] OTHER -> m2

\* cJSON_CreateIntArray and its kin: the results of CreateNumber and
\* CreateString are linked without looking at them.
CreateArrayOf(m, type, values) ==
  LET m0 == cJSON_Create(m, "Array", 0)
      a  == m0.p
      Element(s, v) ==
        IF s.m.null THEN s
        ELSE LET m1 == cJSON_Create(s.m, type, v)
             IN [m |-> IF s.first THEN [m1 EXCEPT !.cells[a].child = m1.p] ELSE suffix_object(m1, s.last, m1.p),
                 last |-> m1.p, first |-> FALSE]
  IN IF a = 0 THEN m0
     ELSE Return(FoldLeft(Element, [m |-> m0, last |-> 0, first |-> TRUE], values).m, a)

RECURSIVE cJSON_Duplicate(_, _, _)
cJSON_Duplicate(m, i, recurse) ==
  LET it == m.cells[i]
      m0 == cJSON_New_Item(m)
      n  == m0.p
      m1 == [m0 EXCEPT !.cells[n].type = it.type, !.cells[n].num = it.num]
      \* A copy of one string of the item, unless a copy before failed.
      Copy(s, field) ==
        IF s.p = 0 \/ it[field] = 0 THEN s
        ELSE LET c == cJSON_strdup(s, s.cells[it[field]].text)
             IN IF c.p = 0 THEN Return(cJSON_Delete(c, n), 0)
                ELSE Return([c EXCEPT !.cells[n][field] = c.p], n)
      Child(s, k) ==
        IF s.p = 0 THEN s
        ELSE LET c    == cJSON_Duplicate(s, k, TRUE)
                 kids == Chain(c, c.cells[n].child)
             IN IF c.p = 0 THEN Return(cJSON_Delete(c, n), 0)
                ELSE Return(IF kids = <<>> THEN [c EXCEPT !.cells[n].child = c.p]
                            ELSE suffix_object(c, Last(kids), c.p), n)
      m2 == Copy(Copy(m1, "valuestring"), "string")
  IN IF n = 0 THEN m0
     ELSE IF ~recurse THEN m2 ELSE FoldLeft(Child, m2, Chain(m, it.child))
=============================================================================
