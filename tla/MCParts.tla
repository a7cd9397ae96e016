------------------------------ MODULE MCParts -------------------------------
(***************************************************************************)
(* Parts that share no state: mkdosfs with the boot sector check of        *)
(* dosfsck, QR symbols, and cJSON. The one that runs is chosen at the      *)
(* start; the others stand still.                                          *)
(***************************************************************************)
EXTENDS Mkdosfs, QrReader, Cjson

CONSTANT Progs    \* the parts a run is about

VARIABLE prog

vars == <<mkVars, qrVars, cjsonVars, prog>>

MCMkOptions ==
  LET Plain == [kind : {"image", "hd"}, size : {100, 1440, 8000, 8225, 16383, 33000, 70000, 600000},
                atari : {FALSE}, nr_fats : {1, 2, 3}, size_fat : {0, 12, 16, 32},
                sectors_per_cluster : {0, 1}, root : {0}, reserved : {0, 3},
                sector_size : {512}, sector_size_set : {FALSE}, bad : {0}, listed : {FALSE}, geometry : {TRUE},
                sect : {63}, head : {255}]
      Dirs  == [kind : {"image"}, size : {100, 16383, 34000}, atari : {FALSE}, nr_fats : {2},
                size_fat : {0, 16, 32}, sectors_per_cluster : {0, 8}, root : {48, 50},
                reserved : {1, 2, 9}, sector_size : {512, 2048}, sector_size_set : {TRUE},
                bad : {0}, listed : {FALSE}, geometry : {TRUE},
                sect : {63}, head : {255}]
      Small == [kind : {"image", "floppy", "loop"}, size : {360, 720, 1440, 2880}, atari : BOOLEAN,
                nr_fats : {2}, size_fat : {0, 12}, sectors_per_cluster : {0}, root : {0},
                reserved : {0}, sector_size : {512}, sector_size_set : {FALSE},
                bad : {0}, listed : {FALSE}, geometry : {TRUE},
                sect : {63}, head : {255}]
      Atari == [kind : {"hd"}, size : {16383, 70000, 600000}, atari : {TRUE}, nr_fats : {2},
                size_fat : {0, 12, 16}, sectors_per_cluster : {0}, root : {0}, reserved : {0},
                sector_size : {512, 32768}, sector_size_set : BOOLEAN, bad : {0}, listed : {FALSE}, geometry : {TRUE},
                sect : {63}, head : {255}]
      Worn  == [kind : {"image", "hd"}, size : {1440, 70000}, atari : {FALSE}, nr_fats : {2},
                size_fat : {0, 16}, sectors_per_cluster : {0}, root : {0}, reserved : {0},
                sector_size : {512}, sector_size_set : {FALSE}, bad : {-8, 1, 40}, listed : BOOLEAN, geometry : {TRUE},
                sect : {63}, head : {255}]
      Drive == [kind : {"hd", "floppy", "image"}, size : {1440, 70000, 600000}, atari : BOOLEAN,
                nr_fats : {2}, size_fat : {0}, sectors_per_cluster : {0}, root : {0},
                reserved : {0}, sector_size : {512}, sector_size_set : {FALSE}, bad : {0},
                listed : {FALSE}, geometry : BOOLEAN, sect : {0, 63}, head : {0, 255}]
      Wrong == [kind : {"disk"}, size : {1440}, atari : {FALSE}, nr_fats : {2, 5}, size_fat : {12, 20},
                sectors_per_cluster : {3, 4}, root : {8, 16}, reserved : {0}, sector_size : {512, 600},
                sector_size_set : {TRUE}, bad : {0}, listed : {FALSE}, geometry : {TRUE},
                sect : {63}, head : {255}]
  IN Drive \cup Wrong \cup Plain \cup Dirs \cup Small \cup Atari \cup Worn

\* Texts are put together from runs of characters of one kind.
Run(kind, n) ==
  CASE kind = "digit" -> [i \in 1..n |-> 48 + (i % 10)]
    [] kind = "upper" -> [i \in 1..n |-> 64 + i]
    [] kind = "lower" -> [i \in 1..n |-> 96 + i]
    [] kind = "kanji" -> [i \in 1..(2 * n) |-> IF i % 2 = 1 THEN 147 ELSE 97 + (i % 25)]
    [] kind = "high"  -> [i \in 1..n |-> 232]
Runs(kinds, lengths) == {Run(k, n) : k \in kinds, n \in lengths}
Concat(A, B) == {a \o b : a \in A, b \in B}

Base == [api |-> "string", version |-> 0, level |-> 1, mqr |-> FALSE, hint |-> "b8", cs |-> TRUE,
         eci |-> -1, fnc1 |-> 0, draw |-> FALSE]
With(r, f) == [x \in DOMAIN r \cup DOMAIN f |-> IF x \in DOMAIN f THEN f[x] ELSE r[x]]

Two == LET R == Runs({"digit", "upper", "lower", "kanji"}, {1, 4, 6, 13}) IN Concat(R, R)
Three == Concat(Concat(Runs({"lower", "upper", "kanji"}, {1, 3}), Runs({"digit", "upper"}, {2, 5, 8})),
                Runs({"lower", "digit"}, {1, 4}))
MCCalls ==
  {With(Base, [text |-> t, level |-> l, hint |-> h, cs |-> c]) :
      t \in Two, l \in {1, 4}, h \in {"b8", "kanji"}, c \in BOOLEAN}
  \cup {With(Base, [text |-> t, hint |-> h]) : t \in Three, h \in {"b8", "kanji"}}
  \cup {With(Base, [text |-> t, api |-> "string_structured", version |-> v, level |-> 4, hint |-> "kanji"]) :
          t \in Two \cup Three, v \in {0, 1, 2}}
  \cup {With(Base, [text |-> Run("high", n), api |-> "data_structured", version |-> 1, level |-> 4]) :
          n \in {1, 5, 6, 40, 79, 80, 81}}
  \cup {With(Base, [text |-> Run(k, n), level |-> l, draw |-> FALSE]) :
          k \in {"digit", "high"}, l \in {1, 4}, n \in {97, 98, 99, 230, 231, 272}}
  \cup {With(Base, [text |-> Run("high", n), api |-> "input", eci |-> e, fnc1 |-> f]) :
          n \in {3, 17}, e \in {-1, 9, 500, 16384, 1000000}, f \in {0, 1, 65}}
  \cup {With(Base, [text |-> t, mqr |-> TRUE, version |-> v, level |-> l, hint |-> "kanji"]) :
          t \in Runs({"digit", "upper", "lower", "kanji"}, 1..9), v \in 0..4, l \in 1..4}
  \cup {With(Base, [text |-> t, hint |-> h]) : t \in {<<>>, <<65>>}, h \in {"num", "b8"}}
  \cup {With(Base, [text |-> t, version |-> v, level |-> l, draw |-> TRUE]) :
          t \in {Run("digit", 5) \o Run("lower", 3)}, v \in {1, 2, 7}, l \in {1, 4}}
  \cup {With(Base, [text |-> Run("upper", 20) \o Run("lower", 30), version |-> v, level |-> l, draw |-> TRUE]) :
          v \in {5, 8}, l \in {3}}
  \cup {With(Base, [text |-> Run("digit", n), mqr |-> TRUE, version |-> v, draw |-> TRUE]) : n \in {2, 5}, v \in 1..4}
  \cup {With(Base, [text |-> Run("kanji", n), hint |-> "kanji"]) : n \in {141, 528}}
  \cup {With(Base, [text |-> Run("kanji", c[1]), hint |-> "kanji", api |-> "string_structured", version |-> c[2]]) :
          c \in {<<140, 9>>, <<300, 9>>}}
  \cup {With(Base, [text |-> Run("digit", n)]) : n \in {1100, 3282, 3283}}
  \cup {With(Base, [text |-> Run("upper", 12), api |-> "string_structured", version |-> 1, level |-> 4, draw |-> TRUE])}

\* Texts of arrays and objects, from the texts of what is in them.
Quoted(s) == <<34>> \o s \o <<34>>
Between(s, k, ss) == IF k < Len(ss) THEN s ELSE <<>>
ArrayText(ss) ==
  <<91>> \o FlattenSeq([k \in DOMAIN ss |-> ss[k] \o Between(<<44, 32>>, k, ss)]) \o <<93>>
ObjectText(ss) ==
  <<123>> \o FlattenSeq([k \in DOMAIN ss |->
               Quoted(ss[k][1]) \o <<58>> \o ss[k][2] \o Between(<<44, 10>>, k, ss)]) \o <<125>>

MCValues == {<<"Number", Normal(FALSE, <<1, 2>>, 2)>>, <<"String", <<34, 9, 65>>>>, <<"Array", 0>>, <<"Object", 0>>}
MCNames == {<<97>>, <<65>>}
\* -7, 1.5, 0, 5e-7, 1.2E+2, -0.04
Numbers == {<<45, 55>>, <<49, 46, 53>>, <<48>>, <<53, 101, 45, 55>>, <<49, 46, 50, 69, 43, 50>>, <<45, 48, 46, 48, 52>>}
Strings == {Quoted(<<92, 117, 50, 48, 97, 67, 92, 110>>),
            Quoted(<<92, 117, 100, 56, 51, 100, 92, 117, 100, 101, 48, 48, 1, 92, 47>>),
            Quoted(<<92, 117, 48, 48, 101, 57, 92, 34, 92, 92>>)}
\* Numbers around the limits of int, %.0f, %f and double, and DBL_EPSILON.
Ds(k) == [i \in 1..k |-> 48 + (i % 10)]
Scaled(ds, e) == ds \o <<101>> \o (IF e < 0 THEN <<45>> ELSE <<>>) \o Decimal(IF e < 0 THEN -e ELSE e)
MCLoneTexts ==
  Numbers \cup Strings \cup {<<32>> \o true_, <<91, 32, 93>>}
  \cup {Scaled(<<57>>, e) : e \in {8, 9, 59, 60, 300, 400, -5, -6, -7, -17, -16, -15}}
  \cup {Scaled(<<45>> \o Ds(12), e) : e \in {0, -2, -3, -6, -11, -18, 47, 48, 49}}
  \cup {<<50, 49, 52, 55, 52, 56, 51, 54, 52>> \o <<d>> : d \in 55..56}
  \cup {<<45, 50, 49, 52, 55, 52, 56, 51, 54, 52>> \o <<d>> : d \in 56..57}
  \cup {Scaled(<<57, 57, 57, 57, 57, 57, 57, 57, 57>>, e) : e \in {-1, -2, -7, -9, -14, -15, -16}}
  \cup {Scaled(<<50, 50, 50, 48, 52, 52, d>>, -22) : d \in 54..55}
Broken == {<<91, 49, 44, 93>>, <<123, 34, 97, 34, 32, 49, 125>>, <<34, 120>>, <<91, 34, 120, 34, 32, 50, 93>>,
           <<49, 32, 120>>, <<123, 97>>, <<>>, <<123, 34, 97, 34, 58, 49, 59>>}
Nested == ObjectText(<<<<<<97>>, ArrayText(<<<<49>>, ObjectText(<<<<<<65>>, null_>>>>)>>)>>, <<<<98>>, Quoted(<<120>>)>>>>)
MCTexts ==
  {Nested, ArrayText(<<<<123, 125>>, false_>>),
   <<49, 46, 53>>, Quoted(<<92, 117, 48, 48, 101, 57, 92, 34, 92, 92>>)} \cup Broken

Init ==
  /\ prog \in Progs
  /\ MkInit /\ QrInit /\ CjsonInit
  /\ prog # "qr" => call = CHOOSE c \in MCCalls : TRUE

Next ==
  /\ UNCHANGED prog
  /\ \/ prog = "mkdosfs" /\ MkNext /\ UNCHANGED <<qrVars, cjsonVars>>
     \/ prog = "qr" /\ QrNext /\ UNCHANGED <<mkVars, cjsonVars>>
     \/ prog = "cjson" /\ CjsonNext /\ UNCHANGED <<mkVars, qrVars>>

Spec == Init /\ [][Next]_vars
=============================================================================
