----------------------------- MODULE CjsonText ------------------------------
(***************************************************************************)
(* The texts of cJSON.c: printing, parsing, minifying. A text is a         *)
(* sequence of character codes; a number is the decimal a double stands    *)
(* for, to the 15 digits that a double keeps. A parser returns where it    *)
(* stopped in m.end, 0 when it failed.                                     *)
(***************************************************************************)
EXTENDS CjsonItems

Ascii == [quote |-> 34, backslash |-> 92, tab |-> 9, lf |-> 10, cr |-> 13, blank |-> 32, comma |-> 44,
          colon |-> 58, minus |-> 45, plus |-> 43, dot |-> 46, slash |-> 47, star |-> 42, e |-> 101,
          E |-> 69, u |-> 117]
null_  == <<110, 117, 108, 108>>
false_ == <<102, 97, 108, 115, 101>>
true_  == <<116, 114, 117, 101>>
inf_   == <<105, 110, 102>>    \* what printf makes of an infinite number
\* A character of a text, 0 behind its end.
Char(s, i) == IF i \in DOMAIN s THEN s[i] ELSE 0
IsDigit(c) == c \in 48..57
If(c, s) == IF c THEN s ELSE <<>>

-----------------------------------------------------------------------------
(* Numbers                                                                 *)

\* 0.d1d2... times ten to the point, without zeros in front or behind.
Zero == [neg |-> FALSE, digits |-> <<>>, point |-> 0]
Normal(neg, ds, point) ==
  LET nz == {i \in DOMAIN ds : ds[i] # 0}
  IN IF nz = {} THEN Zero
     ELSE [neg |-> neg, digits |-> SubSeq(ds, Min(nz), Max(nz)), point |-> point - Min(nz) + 1]
Digit(ds, i) == IF i \in DOMAIN ds THEN ds[i] ELSE 0
\* |n| <= limit, for n other than zero.
NotAbove(n, limit) ==
  \/ n.point < limit.point
  \/ /\ n.point = limit.point
     /\ \/ n.digits = limit.digits
        \/ \E i \in DOMAIN limit.digits : /\ Digit(n.digits, i) < limit.digits[i]
                                          /\ \A j \in 1..(i - 1) : Digit(n.digits, j) = limit.digits[j]
DBL_EPSILON == [digits |-> <<2, 2, 2, 0, 4, 4, 6, 0, 4, 9, 2, 5, 0, 3, 1>>, point |-> -15]
DBL_MAX     == [digits |-> <<1, 7, 9, 7, 6, 9, 3, 1, 3, 4, 8, 6, 2, 3, 1>>, point |-> 309]
INT_MAX     == [digits |-> <<2, 1, 4, 7, 4, 8, 3, 6, 4, 7>>, point |-> 10]
INT_MIN     == [digits |-> <<2, 1, 4, 7, 4, 8, 3, 6, 4, 8>>, point |-> 10]

\* The first k digits, the last of them rounded.
Rounded(n, k) ==
  LET ds   == <<0>> \o SubSeq(n.digits, 1, Min({k, Len(n.digits)}))
      last == Max({i \in DOMAIN ds : ds[i] # 9})     \* where the carry ends
      up   == [i \in DOMAIN ds |-> IF i < last THEN ds[i] ELSE IF i = last THEN ds[i] + 1 ELSE 0]
  IN Normal(n.neg, IF Digit(n.digits, k + 1) < 5 THEN ds ELSE up, n.point + 1)

\* The tests of print_number. A number of at most 15 digits is within DBL_EPSILON
\* of an integer only when it is one, or when it is next to zero.
Whole(n)    == Len(n.digits) <= n.point
Tiny(n)     == n # Zero /\ NotAbove(n, DBL_EPSILON)
InInt(n)    == n = Zero \/ NotAbove(n, IF n.neg THEN INT_MIN ELSE INT_MAX)
Infinite(n) == n # Zero /\ ~NotAbove(n, DBL_MAX)
Scientific(n) == n.point < -5 \/ n.point > 9     \* below 1.0e-6, above 1.0e9

\* The exponent of %e has two digits or three.
Decimal(k) == If(k > 99, <<48 + (k \div 100)>>) \o <<48 + ((k \div 10) % 10), 48 + (k % 10)>>
Places(n, from, to) == [k \in 1..(to - from + 1) |-> 48 + Digit(n.digits, from + k - 1)]
\* %d and %.0f; %f; %e. Digits behind the 15th are taken to be zeros.
Integer(n) == Places(n, IF n.point < 1 THEN n.point ELSE 1, n.point)
FixedPoint(n) == LET r == Rounded(n, n.point + 6) IN Integer(r) \o <<Ascii.dot>> \o Places(r, r.point + 1, r.point + 6)
Exponential(n) ==
  LET r == Rounded(n, 7)
      x == r.point - 1
  IN Places(r, 1, 1) \o <<Ascii.dot>> \o Places(r, 2, 7) \o <<Ascii.e>>
       \o (IF x < 0 THEN <<Ascii.minus>> \o Decimal(-x) ELSE <<Ascii.plus>> \o Decimal(x))
print_number(m, n) ==
  LET sign == If(n.neg, <<Ascii.minus>>)
  IN IF Tiny(n) THEN MallocText(m, Integer(Zero), 21)
     ELSE IF Whole(n) /\ InInt(n) THEN MallocText(m, sign \o Integer(n), 21)
     ELSE MallocText(m, sign \o (IF Whole(n) /\ n.point <= 60 THEN Integer(n)
                                 ELSE IF Infinite(n) THEN inf_
                                 ELSE IF Scientific(n) THEN Exponential(n) ELSE FixedPoint(n)), 64)

DigitRun(s, i) ==
  LET end == CHOOSE j \in i..(Len(s) + 1) : ~IsDigit(Char(s, j)) /\ \A k \in i..(j - 1) : IsDigit(s[k])
  IN [end |-> end, ds |-> [k \in 1..(end - i) |-> s[i + k - 1] - 48]]
\* The parts of a number, each from where the part before it ended: its digits so
\* far, and where its point is.
WholePart(s, i) ==
  LET k == IF Char(s, i) = 48 THEN i + 1 ELSE i
      d == IF Char(s, k) \in 49..57 THEN DigitRun(s, k) ELSE [end |-> k, ds |-> <<>>]
  IN [end |-> d.end, ds |-> d.ds, point |-> Len(d.ds)]
FractionPart(s, w) ==
  LET d == DigitRun(s, w.end + 1)
  IN IF Char(s, w.end) = Ascii.dot /\ IsDigit(Char(s, w.end + 1))
     THEN [w EXCEPT !.end = d.end, !.ds = @ \o d.ds] ELSE w
ExponentPart(s, f) ==
  LET sign == Char(s, f.end + 1)
      d    == DigitRun(s, IF sign \in {Ascii.plus, Ascii.minus} THEN f.end + 2 ELSE f.end + 1)
      n    == FoldLeft(LAMBDA k, c : 10 * k + c, 0, d.ds)
  IN IF Char(s, f.end) \notin {Ascii.e, Ascii.E} THEN f
     ELSE [f EXCEPT !.end = d.end, !.point = @ + (IF sign = Ascii.minus THEN -n ELSE n)]
parse_number(m, item, s, start) ==
  LET neg == Char(s, start) = Ascii.minus
      x   == ExponentPart(s, FractionPart(s, WholePart(s, IF neg THEN start + 1 ELSE start)))
  IN [m EXCEPT !.cells[item].num = Normal(neg, x.ds, x.point),
               !.cells[item].type = "Number", !.end = x.end]

-----------------------------------------------------------------------------
(* Strings                                                                 *)

\* The control characters with an escape letter of their own.
EscapeLetter == (8 :> 98) @@ (12 :> 102) @@ (10 :> 110) @@ (13 :> 114) @@ (9 :> 116)
HexDigit(k) == IF k < 10 THEN 48 + k ELSE 87 + k
Escaped(c) ==
  CASE c \in {Ascii.quote, Ascii.backslash} -> <<Ascii.backslash, c>>
    [] c \in DOMAIN EscapeLetter -> <<Ascii.backslash, EscapeLetter[c]>>
    [] c < 32 /\ c \notin DOMAIN EscapeLetter -> <<Ascii.backslash, Ascii.u, 48, 48, HexDigit(c \div 16), HexDigit(c % 16)>>
    [] OTHER -> <<c>>
\* The buffer is measured before anything is written to it.
EscapedLength(c) ==
  IF c \in {Ascii.quote, Ascii.backslash} \cup DOMAIN EscapeLetter THEN 2 ELSE IF c < 32 THEN 6 ELSE 1
print_string_ptr(m, p) ==
  IF p = 0 THEN cJSON_strdup(m, <<>>)
  ELSE LET s   == m.cells[p].text
           len == FoldLeft(LAMBDA n, c : n + EscapedLength(c), 0, s)
       IN MallocText(m, <<Ascii.quote>> \o FlattenSeq([i \in DOMAIN s |-> Escaped(s[i])]) \o <<Ascii.quote>>, len + 3)

HexValue(c) ==
  IF IsDigit(c) THEN c - 48 ELSE IF c \in 65..70 THEN c - 55 ELSE IF c \in 97..102 THEN c - 87 ELSE -1
parse_hex4(s, i) ==
  LET h == [k \in 0..3 |-> HexValue(Char(s, i + k))]
  IN IF \E k \in 0..3 : h[k] < 0 THEN 0 ELSE h[0] * 4096 + h[1] * 256 + h[2] * 16 + h[3]
Utf8(uc) ==
  LET Tail6(shift) == 128 + ((uc \div shift) % 64)
  IN IF uc < 128 THEN <<uc>>
     ELSE IF uc < 2048 THEN <<192 + uc \div 64, Tail6(1)>>
     ELSE IF uc < 65536 THEN <<224 + uc \div 4096, Tail6(64), Tail6(1)>>
     ELSE <<240 + uc \div 262144, Tail6(4096), Tail6(64), Tail6(1)>>
\* What an escape whose letter is at i stands for, and the character behind it;
\* uc and uc2 are the numbers of \u escapes at i and at i + 6.
Unicode(s, i, uc, uc2) ==
  LET Pair == Char(s, i + 5) = Ascii.backslash /\ Char(s, i + 6) = Ascii.u
  IN IF uc \in 56320..57343 \/ uc = 0 THEN [out |-> <<>>, end |-> i + 5]
     ELSE IF uc \notin 55296..56319 THEN [out |-> Utf8(uc), end |-> i + 5]
     ELSE IF ~Pair THEN [out |-> <<>>, end |-> i + 5]
     ELSE IF uc2 \notin 56320..57343 THEN [out |-> <<>>, end |-> i + 11]
     ELSE [out |-> Utf8(65536 + (uc % 1024) * 1024 + (uc2 % 1024)), end |-> i + 11]
Unescaped(s, i) ==
  LET c == Char(s, i)
      meant == {k \in DOMAIN EscapeLetter : EscapeLetter[k] = c}
  IN IF c = Ascii.u THEN Unicode(s, i, parse_hex4(s, i + 1), parse_hex4(s, i + 7))
     ELSE [out |-> <<IF meant = {} THEN c ELSE CHOOSE k \in meant : TRUE>>, end |-> i + 1]

\* The first pass: how many characters, an escape counted as one.
RECURSIVE StringLength(_, _)
StringLength(s, i) ==
  IF Char(s, i) \in {Ascii.quote, 0} THEN 0
  ELSE 1 + StringLength(s, IF Char(s, i) = Ascii.backslash THEN i + 2 ELSE i + 1)
\* The second pass, with what it has written so far.
RECURSIVE Unquote(_, _, _)
Unquote(s, i, out) ==
  LET Go(u) == Unquote(s, u.end, out \o u.out)
  IN CASE Char(s, i) \in {Ascii.quote, 0} -> [out |-> out, end |-> IF Char(s, i) = 0 THEN i ELSE i + 1]
       [] Char(s, i) = Ascii.backslash -> Go(Unescaped(s, i + 1))
       [] OTHER -> Unquote(s, i + 1, Append(out, s[i]))
parse_string(m, item, s, i) ==
  LET Keep(m1, end) ==
        IF m1.p = 0 THEN [m1 EXCEPT !.end = 0]
        ELSE [m1 EXCEPT !.cells[item].valuestring = m1.p, !.cells[item].type = "String", !.end = end]
      Store(u) == Keep(MallocText(m, u.out, StringLength(s, i + 1) + 1), u.end)
  IN IF Char(s, i) # Ascii.quote THEN [m EXCEPT !.end = 0] ELSE Store(Unquote(s, i + 1, <<>>))

-----------------------------------------------------------------------------
(* Values                                                                  *)

RECURSIVE skip(_, _), X_skip(_, _)
X_skip(s, i) == IF i # 0 /\ Char(s, i) \in 1..31 THEN X_skip(s, i + 1) ELSE i
skip(s, i) == IF i # 0 /\ Char(s, i) \in 1..32 THEN skip(s, i + 1) ELSE i
StartsWith(s, i, word) == \A k \in DOMAIN word : Char(s, i + k - 1) = word[k]

RECURSIVE parse_value(_, _, _, _), parse_members(_, _, _, _, _, _)
parse_value(m, item, s, i) ==
  LET Word(w, type) == [m EXCEPT !.cells[item].type = type, !.end = i + Len(w)]
      Container(type, close) ==
        LET j  == skip(s, i + 1)
            m0 == [m EXCEPT !.cells[item].type = type]
            Fill(m1) == IF m1.p = 0 THEN [m1 EXCEPT !.end = 0]
                        ELSE parse_members([m1 EXCEPT !.cells[item].child = m1.p], type, m1.p, s, j, close)
        IN IF Char(s, j) = close THEN [m0 EXCEPT !.end = j + 1] ELSE Fill(cJSON_New_Item(m0))
  IN IF StartsWith(s, i, null_) THEN Word(null_, "NULL")
     ELSE IF StartsWith(s, i, false_) THEN Word(false_, "False")
     ELSE IF StartsWith(s, i, true_) THEN Word(true_, "True")
     ELSE IF Char(s, i) = Ascii.quote THEN parse_string(m, item, s, i)
     ELSE IF Char(s, i) = Ascii.minus \/ IsDigit(Char(s, i)) THEN parse_number(m, item, s, i)
     ELSE IF Char(s, i) = 91 THEN Container("Array", 93)
     ELSE IF Char(s, i) = 123 THEN Container("Object", 125)
     ELSE [m EXCEPT !.end = 0]

\* parse_array and parse_object: the member item c, its text from i on, and the
\* members behind it. After the name of a member; after its value.
AfterName(m, c, s) ==
  LET colon == skip(s, m.end)
      named == [m EXCEPT !.cells[c].string = m.p, !.cells[c].valuestring = 0]
  IN IF m.end = 0 THEN m
     ELSE IF Char(s, colon) # Ascii.colon THEN [named EXCEPT !.end = 0]
     ELSE parse_value(named, c, s, skip(s, colon + 1))
AfterMember(m, type, c, s, close) ==
  LET j    == skip(s, m.end)
      more == cJSON_New_Item(m)
  IN IF j = 0 THEN [m EXCEPT !.end = 0]
     ELSE IF Char(s, j) = Ascii.comma
     THEN IF more.p = 0 THEN [more EXCEPT !.end = 0]
          ELSE parse_members(suffix_object(more, c, more.p), type, more.p, s, j + 1, close)
     ELSE [m EXCEPT !.end = IF Char(s, j) = close THEN j + 1 ELSE 0]
parse_members(m, type, c, s, i, close) ==
  LET start == skip(s, i)
  IN AfterMember(IF type = "Array" THEN parse_value(m, c, s, start)
                 ELSE AfterName(parse_string(m, c, s, start), c, s), type, c, s, close)

cJSON_ParseWithOpts(m, s, require_null_terminated) ==
  LET Result(m1, c) ==
        IF m1.end = 0 \/ (require_null_terminated /\ Char(s, skip(s, m1.end)) # 0)
        THEN Return(cJSON_Delete(m1, c), 0) ELSE Return(m1, c)
      Root(m0) == IF m0.p = 0 THEN m0 ELSE Result(parse_value(m0, m0.p, s, skip(s, 1)), m0.p)
  IN Root(cJSON_New_Item(m))

\* The texts of children, each with its name (an array prints no name). An
\* array gives up at the first one that fails, an object prints on.
FreeAll(m, ps) == FoldLeft(LAMBDA s, p : IF p = 0 THEN s ELSE free(s, p), m, ps)
RECURSIVE print_value(_, _, _, _)
Entries(m, kids, obj, depth, fmt) ==
  LET Printed(s, name, m1) ==
        [m |-> m1, names |-> Append(s.names, name), entries |-> Append(s.entries, m1.p),
         fail |-> s.fail \/ m1.p = 0 \/ (obj /\ name = 0)]
      Named(s, m1, k) == Printed(s, m1.p, print_value(m1, k, depth, fmt))
      Entry(s, k) ==
        IF s.fail /\ ~obj THEN s
        ELSE Named(s, IF obj THEN print_string_ptr(s.m, s.m.cells[k].string) ELSE Return(s.m, 0), k)
  IN FoldLeft(Entry, [m |-> m, names |-> <<>>, entries |-> <<>>, fail |-> FALSE], kids)

Tabs(k) == IF k < 1 THEN <<>> ELSE [i \in 1..k |-> Ascii.tab]
SumOfLengths(ss) == FoldLeft(LAMBDA n, s : n + Len(s), 0, ss)
\* The text around the entries, and the size its buffer is given.
ListText(obj, names, ret, depth, fmt) ==
  LET n == Len(ret)
      Behind(k) == If(k # n, <<Ascii.comma>>) \o If(fmt /\ (obj \/ k # n), <<IF obj THEN Ascii.lf ELSE Ascii.blank>>)
      Before(k) == If(obj, If(fmt, Tabs(depth)) \o names[k] \o <<Ascii.colon>> \o If(fmt, <<Ascii.tab>>))
      all == FlattenSeq([k \in 1..n |-> Before(k) \o ret[k] \o Behind(k)])
  IN IF obj THEN <<123>> \o If(fmt, <<Ascii.lf>>) \o all \o If(fmt, Tabs(depth - 1)) \o <<125>>
     ELSE <<91>> \o all \o <<93>>
ListSize(obj, names, ret, depth, fmt) ==
  LET n == Len(ret)
  IN IF obj THEN 7 + SumOfLengths(names) + SumOfLengths(ret) + 2 * n + (IF fmt THEN depth + n * (2 + depth) ELSE 0)
     ELSE 5 + SumOfLengths(ret) + n * (IF fmt THEN 3 ELSE 2)

\* The table(s) of entries are allocated, all entries printed, the text put
\* together, and everything but the text freed.
PrintList(m, kids, obj, depth, fmt) ==
  LET Finish(m1, ps) == Return(FreeAll(m1, ps), m1.p)
      Join(m1, names, ret) ==
        MallocText(m1, ListText(obj, names, ret, depth, fmt), ListSize(obj, names, ret, depth, fmt))
      Fill(es, tables) ==
        Finish(IF es.fail THEN Return(es.m, 0)
               ELSE Join(es.m, IF obj THEN [k \in DOMAIN kids |-> es.m.cells[es.names[k]].text] ELSE <<>>,
                         [k \in DOMAIN kids |-> es.m.cells[es.entries[k]].text]),
               es.names \o es.entries \o tables)
      Second(t1, t2) ==
        IF obj /\ t2.p = 0 THEN Return(free(t2, t1), 0)
        ELSE Fill(Entries(t2, kids, obj, depth, fmt), <<t1, t2.p>>)
      First(t1) ==
        IF t1.p = 0 THEN t1 ELSE Second(t1.p, IF obj THEN malloc(t1, [t |-> "table"]) ELSE Return(t1, 0))
  IN First(malloc(m, [t |-> "table"]))

print_array(m, item, depth, fmt) ==
  LET kids == Chain(m, m.cells[item].child)
  IN IF kids = <<>> THEN MallocText(m, <<91, 93>>, 3) ELSE PrintList(m, kids, FALSE, depth + 1, fmt)
print_object(m, item, depth, fmt) ==
  LET kids == Chain(m, m.cells[item].child)
  IN IF kids = <<>>
     THEN MallocText(m, <<123>> \o If(fmt, <<Ascii.lf>> \o Tabs(depth - 1)) \o <<125>>, IF fmt THEN depth + 4 ELSE 3)
     ELSE PrintList(m, kids, TRUE, depth + 1, fmt)

print_value(m, item, depth, fmt) ==
  LET it == m.cells[item]
  IN CASE it.type = "NULL"   -> cJSON_strdup(m, null_)
       [] it.type = "False"  -> cJSON_strdup(m, false_)
       [] it.type = "True"   -> cJSON_strdup(m, true_)
       [] it.type = "Number" -> print_number(m, it.num)
       [] it.type = "String" -> print_string_ptr(m, it.valuestring)
       [] it.type = "Array"  -> print_array(m, item, depth, fmt)
       [] it.type = "Object" -> print_object(m, item, depth, fmt)

-----------------------------------------------------------------------------
RECURSIVE Minified(_, _, _), LiteralEnd(_, _), CommentEnd(_, _, _)
\* The closing quote of a string literal whose text goes on at i.
LiteralEnd(s, i) ==
  IF Char(s, i) \in {0, Ascii.quote} THEN i
  ELSE LiteralEnd(s, IF Char(s, i) = Ascii.backslash THEN i + 2 ELSE i + 1)
CommentEnd(s, i, star) ==
  CASE Char(s, i) = 0 -> i
    [] ~star /\ Char(s, i) = Ascii.lf -> i
    [] star /\ Char(s, i) = Ascii.star /\ Char(s, i + 1) = Ascii.slash -> i + 2
    [] OTHER -> CommentEnd(s, i + 1, star)
Minified(s, i, into) ==
  CASE Char(s, i) = 0 -> into
    [] Char(s, i) \in {Ascii.blank, Ascii.tab, Ascii.cr, Ascii.lf} -> Minified(s, i + 1, into)
    [] Char(s, i) = Ascii.slash /\ Char(s, i + 1) \in {Ascii.slash, Ascii.star} ->
         Minified(s, CommentEnd(s, i, Char(s, i + 1) = Ascii.star), into)
    [] Char(s, i) = Ascii.quote -> LET e == LiteralEnd(s, i + 1) IN Minified(s, e + 1, into \o SubSeq(s, i, e))
    [] OTHER -> Minified(s, i + 1, Append(into, s[i]))
cJSON_Minify(s) == Minified(s, 1, <<>>)
=============================================================================
