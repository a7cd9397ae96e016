------------------------------- MODULE Cjson --------------------------------
(***************************************************************************)
(* A program that uses cJSON: it keeps some items, adds an item only while *)
(* it holds it, and adds nothing to a reference. Any malloc may fail.      *)
(***************************************************************************)
EXTENDS CjsonText

CONSTANTS Texts, Values, Names,   \* what is parsed; <<type, value>>s; names of members
          LoneTexts,              \* what is parsed by programs that make few other calls
          MaxFail, MaxOps         \* bounds: the last malloc of a call that may fail; calls

\* A \u with fewer than four characters up to the closing quote is taken to go on
\* behind it (cJSON.c:180), past what the first pass measured (cJSON.c:160): no
\* text has one.
ShortEscape(s) ==
  \E i \in DOMAIN s : /\ s[i] = Ascii.backslash /\ Char(s, i + 1) = Ascii.u
                     /\ \E k \in 2..5 : Char(s, i + k) \in {Ascii.quote, 0}
ASSUME TextsAssumption == \A s \in Texts \cup LoneTexts : ~ShortEscape(s)

VARIABLES mem,    \* the memory
          held,   \* the items the program holds, each the root of a tree
          calls   \* how many calls there have been

cjsonVars == <<mem, held, calls>>

CjsonInit == mem = JsonMem /\ held = {} /\ calls = 0

\* What an item owns: its name, its successor, and unless it is a reference its
\* value and its children.
Owns(m, i) ==
  LET it == m.cells[i]
      fields == {"string", "next"} \cup (IF it.ref THEN {} ELSE {"child", "valuestring"})
  IN IF it.t # "item" THEN {} ELSE {f \in fields : it[f] # 0}
Owned(m, i) == {m.cells[i][f] : f \in Owns(m, i)}
\* What reading an item goes through.
Reads(m, i) ==
  IF ~IsItem(m, i) THEN {} ELSE {m.cells[i].child, m.cells[i].next} \ {0}
RECURSIVE AllOwned(_, _), AllRead(_, _)
AllOwned(m, S) ==
  LET T == S \cup UNION {Owned(m, i) : i \in S \cap DOMAIN m.cells}
  IN IF T = S THEN S ELSE AllOwned(m, T)
AllRead(m, S) ==
  LET T == S \cup UNION {Reads(m, i) : i \in S} IN IF T = S THEN S ELSE AllRead(m, T)
TreeOf(m, i) == AllOwned(m, {i})
Items(m) == {i \in DOMAIN m.cells : IsItem(m, i)}
Containers(m) == {i \in Items(m) : m.cells[i].type \in {"Array", "Object"} /\ ~m.cells[i].ref}

\* Whether an item can be read: no reference below it leads to freed memory or
\* back to where it came from.
Sound(m, i) ==
  LET below == AllRead(m, {m.cells[i].child} \ {0})
      it(k) == m.cells[k]
  IN /\ i \notin below
     /\ \A k \in below : IsItem(m, k) /\ k \notin AllRead(m, Reads(m, k))
     /\ \A k \in below \cup {i} : {it(k).string, it(k).valuestring} \subseteq {0} \cup {x \in DOMAIN m.cells : IsText(m, x)}

-----------------------------------------------------------------------------
\* A call: the memory it leaves, what the program gives up and what it gains.
Call(m, given, gained) ==
  /\ mem' = [m EXCEPT !.fail = 0, !.p = 0, !.end = 0]
  /\ held' = (held \ given) \cup ({gained} \ {0})
  /\ calls' = calls + 1
Failing(k) == [mem EXCEPT !.fail = k]
\* Which malloc of a call fails: none of them, or any one that it makes.
Fails(Op(_)) == 0..(MaxFail - Op(Failing(MaxFail)).fail)

Create ==
  \E v \in Values :
    LET Op(m) == cJSON_Create(m, v[1], v[2])
    IN \E k \in Fails(Op) : LET m == Op(Failing(k)) IN Call(m, {}, m.p)
CreateArrays ==
  \E v \in Values, n \in 1..2 :
    LET Op(m) == CreateArrayOf(m, v[1], [i \in 1..n |-> v[2]])
    IN v[1] \in {"Number", "String"} /\ \E k \in Fails(Op) : LET m == Op(Failing(k)) IN Call(m, {}, m.p)
Parse ==
  \E s \in Texts, strict \in BOOLEAN :
    LET Op(m) == cJSON_ParseWithOpts(m, s, strict)
    IN \E k \in Fails(Op) : LET m == Op(Failing(k)) IN Call(m, {}, m.p)
\* Bound: a lone text is parsed first, and one call comes after it.
ParseAlone ==
  \E s \in LoneTexts :
    LET m == cJSON_ParseWithOpts(mem, s, TRUE)
    IN calls = 0 /\ mem' = [m EXCEPT !.p = 0, !.end = 0] /\ held' = {m.p} \ {0} /\ calls' = MaxOps - 1
\* The text is given back at once.
PrintItem ==
  \E i \in Items(mem), fmt \in BOOLEAN :
    LET Op(m) == print_value(m, i, 0, fmt)
    IN Sound(mem, i) /\ \E k \in Fails(Op) :
         LET m == Op(Failing(k)) IN Call(IF m.p = 0 THEN m ELSE free(m, m.p), {}, 0)
Duplicate ==
  \E i \in Items(mem), recurse \in BOOLEAN :
    LET Op(m) == cJSON_Duplicate(m, i, recurse)
    IN Sound(mem, i) /\ \E k \in Fails(Op) : LET m == Op(Failing(k)) IN Call(m, {}, m.p)
DeleteItem == \E i \in held : Call(cJSON_Delete(mem, i), {i}, 0)

Add ==
  \E i \in held : \E a \in Containers(mem) \ TreeOf(mem, i) :
    \/ Call(cJSON_AddItemToArray(mem, a, i), {i}, 0)
    \/ \E n \in Names, k \in 0..1 : Call(cJSON_AddItemToObject(Failing(k), a, n, i), {i}, 0)
AddReference ==
  \E i \in Items(mem), a \in Containers(mem) :
    \/ \E k \in 0..1 : Call(cJSON_AddItemReferenceToArray(Failing(k), a, i), {}, 0)
    \/ \E n \in Names, k \in 0..2 : Call(cJSON_AddItemReferenceToObject(Failing(k), a, n, i), {}, 0)
Detach ==
  \E a \in Containers(mem) :
    \/ \E which \in 0..cJSON_GetArraySize(mem, a) :
         \/ LET m == cJSON_DetachItemFromArray(mem, a, which) IN Call(m, {}, m.p)
         \/ Call(cJSON_DeleteItemFromArray(mem, a, which), {}, 0)
    \/ \E n \in Names :
         \/ LET m == cJSON_DetachItemFromObject(mem, a, n) IN Call(m, {}, m.p)
         \/ Call(cJSON_DeleteItemFromObject(mem, a, n), {}, 0)
\* The new item has no name yet, and the old one is there.
Replace ==
  \E i \in held : \E a \in Containers(mem) \ TreeOf(mem, i) :
    /\ mem.cells[i].string = 0
    /\ \/ \E which \in 0..(cJSON_GetArraySize(mem, a) - 1) :
            Call(cJSON_ReplaceItemInArray(mem, a, which, i), {i}, 0)
       \/ \E n \in Names, k \in 0..1 :
            /\ MemberIndex(mem, a, n) < cJSON_GetArraySize(mem, a)
            /\ Call(cJSON_ReplaceItemInObject(Failing(k), a, n, i), {i}, 0)

CjsonNext ==
  /\ ~mem.null /\ calls < MaxOps
  /\ \/ Create \/ CreateArrays \/ Parse \/ ParseAlone \/ PrintItem \/ Duplicate \/ DeleteItem
     \/ Add \/ AddReference \/ Detach \/ Replace

-----------------------------------------------------------------------------
\* cJSON.c: whatever the calls and whichever one malloc of each fails (print_object
\* with some of its entries printed, Parse and Duplicate deep in a tree), nothing
\* is freed twice or written past its buffer (but see ShortEscape), what is not
\* freed belongs to exactly one owner that the program can still reach, and every
\* list is linked both ways.
MemoryOwned ==
  LET live == DOMAIN mem.cells
      it(i) == mem.cells[i]
      links == UNION {{<<i, f>> : f \in Owns(mem, i)} : i \in live}
      Owners(c) == {l \in links : it(l[1])[l[2]] = c}
  IN /\ ~mem.bad
     /\ ~mem.null =>
          /\ AllOwned(mem, held) = live
          /\ \A c \in live : Cardinality(Owners(c)) = IF c \in held THEN 0 ELSE 1
          /\ \A i \in Items(mem) :
               /\ it(i).next # 0 => it(it(i).next).prev = i
               /\ it(i).prev # 0 => it(it(i).prev).next = i
               /\ ~it(i).ref /\ it(i).child # 0 => it(it(i).child).prev = 0

\* What is left of a number when it is printed: the integers below 1.0e60, six
\* places behind the point from 1.0e-6 to 1.0e9, seven digits otherwise, and
\* nothing of what DBL_EPSILON passes over.
Shown(n) ==
  IF Tiny(n) THEN Zero
  ELSE IF Whole(n) /\ n.point <= 60 THEN n
  ELSE Rounded(n, IF Scientific(n) THEN 7 ELSE n.point + 6)
\* The value an item stands for, without the shape of its memory; or what is left
\* of it when it is printed.
RECURSIVE ValueOf(_, _, _)
ValueOf(m, i, shown) ==
  LET it == m.cells[i]
      kids == Chain(m, it.child)
      Name(k) == m.cells[m.cells[k].string].text
  IN CASE it.type = "Number" -> <<"Number", IF shown THEN Shown(it.num) ELSE it.num>>
       [] it.type = "String" -> <<"String", m.cells[it.valuestring].text>>
       [] it.type = "Array"  -> <<"Array", [k \in DOMAIN kids |-> ValueOf(m, kids[k], shown)]>>
       [] it.type = "Object" -> <<"Object", [k \in DOMAIN kids |-> <<Name(kids[k]), ValueOf(m, kids[k], shown)>>]>>
       [] OTHER -> <<it.type>>
\* Every member of an object has a name, every string a text (one that malloc
\* failed for is printed as nothing at all), and every number is one a double
\* holds (an infinite one is printed as "inf", which is no JSON).
Complete(m, i) ==
  \A k \in AllRead(m, {m.cells[i].child} \ {0}) \cup {i} :
    /\ m.cells[k].type = "String" => m.cells[k].valuestring # 0
    /\ m.cells[k].type = "Number" => ~Infinite(m.cells[k].num)
    /\ m.cells[k].type = "Object" => \A c \in ToSet(Chain(m, m.cells[k].child)) : m.cells[c].string # 0

\* cJSON.c: an item that was put together or changed by any calls prints, with and
\* without formatting, as a text that fits its buffers and is parsed back to the
\* same value, its numbers rounded as Shown says; minifying the formatted text
\* gives the plain one.
PrintParses ==
  ~mem.null => \A i \in held : Sound(mem, i) /\ Complete(mem, i) =>
    LET Text(m) == [text |-> m.cells[m.p].text, bad |-> m.bad]
        Same(m) == m.p # 0 /\ ~m.bad /\ ValueOf(m, m.p, FALSE) = ValueOf(mem, i, TRUE)
        Agree(pretty, plain) ==
          /\ ~pretty.bad /\ ~plain.bad
          /\ \A s \in {pretty.text, plain.text} : Same(cJSON_ParseWithOpts(JsonMem, s, TRUE))
          /\ cJSON_Minify(pretty.text) = plain.text
    IN Agree(Text(print_value(mem, i, 0, TRUE)), Text(print_value(mem, i, 0, FALSE)))
=============================================================================
