------------------------------ MODULE QrReader ------------------------------
(***************************************************************************)
(* The reader's side of a QR code, written down from the layout the        *)
(* symbols have (as tests/decoder.c of libqrencode does), independently of *)
(* the encoder's loops, and what libqrencode promises in its terms.        *)
(***************************************************************************)
EXTENDS QrSymbol

\* Appending many sequences, by halves.
RECURSIVE Halves(_, _, _)
Halves(b, i, j) ==
  IF i > j THEN <<>> ELSE IF i = j THEN b[i]
  ELSE Halves(b, i, (i + j) \div 2) \o Halves(b, (i + j) \div 2 + 1, j)

\* Parsing a data bit stream into segments [mode, data].
Rest(b, n) == SubSeq(b, n + 1, Len(b))
Digits(n, v) == [i \in 1..n |-> 48 + ((v \div 10^(n - i)) % 10)]
AnChar(v) == CHOOSE c \in 32..90 : isalnum(c) /\ QRinput_lookAnTable(c) = v
KanjiChar(v) ==
  LET x == (v \div 192) * 256 + (v % 192)
      w == IF x <= 7868 THEN x + 33088 ELSE x + 49472
  IN <<w \div 256, w % 256>>
UnitBits == [num |-> 10, an |-> 11, b8 |-> 8, kanji |-> 13]
PerUnit  == [num |-> 3, an |-> 2, b8 |-> 1, kanji |-> 1]
TailBits(mode, k) == IF k = 0 THEN 0 ELSE IF mode = "num" THEN <<4, 7>>[k] ELSE 6
SegmentBits(mode, n) == (n \div PerUnit[mode]) * UnitBits[mode] + TailBits(mode, n % PerUnit[mode])
Characters(mode, n, v) ==
  CASE mode = "num" -> Digits(n, v)
    [] mode = "an" -> IF n = 1 THEN <<AnChar(v)>> ELSE <<AnChar(v \div 45), AnChar(v % 45)>>
    [] mode = "b8" -> <<v>> [] mode = "kanji" -> KanjiChar(v)
SegmentData(mode, n, b) ==
  LET k == PerUnit[mode]
      full == n \div k
      unit(i) == Characters(mode, k, Number(SubSeq(b, (i - 1) * UnitBits[mode] + 1, i * UnitBits[mode])))
  IN Halves([i \in 1..full |-> unit(i)], 1, full)
       \o (IF n % k = 0 THEN <<>> ELSE Characters(mode, n % k, Number(SubSeq(b, full * UnitBits[mode] + 1, Len(b)))))
Segment(mode, b, lenbits) ==    \* <<segment, the bits after it>>, or <<>>
  LET n    == Number(SubSeq(b, 1, lenbits))
      bits == SegmentBits(mode, n)
  IN IF Len(b) < lenbits + bits THEN <<>>
     ELSE <<Entry(mode, SegmentData(mode, n, SubSeq(b, lenbits + 1, lenbits + bits))), Rest(b, lenbits + bits)>>
ModeOf(id) == CHOOSE m \in DOMAIN ModeId : ModeId[m] = id
Fixed(mode, b, n) == <<Entry(mode, BitStream_toByte(SubSeq(b, 1, n))), Rest(b, n)>>
EciBits(b) == IF b[1] = 0 THEN 8 ELSE IF b[2] = 0 THEN 16 ELSE 24
RECURSIVE ReadSegments(_, _, _)
ReadSegments(b, v, mqr) ==
  LET id   == Number(SubSeq(b, 1, IF mqr THEN v - 1 ELSE 4))
      body == Rest(b, IF mqr THEN v - 1 ELSE 4)
      mode == IF mqr THEN <<"num", "an", "b8", "kanji">>[id + 1] ELSE ModeOf(id)
      lb   == IF mqr THEN MQRspec_lengthIndicator(mode, v) ELSE QRspec_lengthIndicator(mode, v)
      one  == CASE mode \in Splittable -> Segment(mode, body, lb)
                [] mode = "structure" -> Fixed(mode, body, 16)
                [] mode = "fnc1second" -> Fixed(mode, body, 8)
                [] mode = "eci" -> Fixed(mode, body, EciBits(body))
      end  == IF mqr THEN \/ Len(b) < 2 * v + 1 \/ \A i \in 1..(2 * v + 1) : b[i] = 0
              ELSE Len(b) < 4 \/ id = 0
  IN IF end THEN <<>> ELSE IF one = <<>> THEN <<Entry("broken", <<>>)>>
     ELSE <<one[1]>> \o ReadSegments(one[2], v, mqr)

TextOf(segments) ==
  LET T == SelectSeq(segments, LAMBDA e : e.mode \in Splittable)
  IN FlattenSeq([i \in DOMAIN T |-> T[i].data])
Heads(segments) == SelectSeq(segments, LAMBDA e : e.mode \notin Splittable)

-----------------------------------------------------------------------------
\* The data modules of a symbol in reading order: two columns at a time from the
\* right, alternately upwards and downwards, without the vertical timing pattern.
Version13(v) == {6, 10 + 4 * v} \cup (IF v >= 7 THEN {8 + 2 * v} ELSE {})
IsFunction(p, x, y) ==
  LET w == Width(p)  v == p.version IN
  IF p.mqr THEN x = 0 \/ y = 0 \/ (x <= 8 /\ y <= 8)
  ELSE \/ x = 6 \/ y = 6
       \/ x <= 8 /\ (y <= 8 \/ y >= w - 8)
       \/ x >= w - 8 /\ y <= 8
       \/ v >= 7 /\ ((x >= w - 11 /\ y <= 5) \/ (y >= w - 11 /\ x <= 5))
       \/ /\ v >= 2
          /\ \E cx, cy \in Version13(v) :
               /\ Distance(x, y, cx, cy) <= 2
               /\ <<cx, cy>> \notin {<<6, 6>>, <<6, 10 + 4 * v>>, <<10 + 4 * v, 6>>}
Columns(p) ==
  LET w == Width(p)
      n == (w - 1) \div 2
  IN [i \in 1..n |-> LET x == w + 1 - 2 * i IN IF ~p.mqr /\ x <= 6 THEN x - 1 ELSE x]
ColumnModules(p, i) ==
  LET w == Width(p)
      x == Columns(p)[i]
      y(j) == IF i % 2 = 1 THEN w - j ELSE j - 1
  IN SelectSeq(FlattenSeq([j \in 1..w |-> <<<<x, y(j)>>, <<x - 1, y(j)>>>>]),
               LAMBDA c : ~IsFunction(p, c[1], c[2]))
ReadingOrder(p) == Halves([i \in DOMAIN Columns(p) |-> ColumnModules(p, i)], 1, Len(Columns(p)))

\* The format information, both copies of it; then the codes.
FormatBits(fr, Place(_)) == Number([k \in 1..15 |-> fr[Place(15 - k)] % 2])
Corner(i) == IF i < 6 THEN <<8, i>> ELSE IF i < 8 THEN <<8, i + 1>> ELSE IF i = 8 THEN <<7, 8>> ELSE <<14 - i, 8>>
Edges(w, i) == IF i < 8 THEN <<w - 1 - i, 8>> ELSE <<8, w - 15 + i>>
MqrCorner(i) == IF i < 8 THEN <<8, i + 1>> ELSE <<15 - i, 8>>
MaskRead(p, fr) ==
  IF p.mqr THEN {m \in 0..3 : mqrFormatInfo[m + 1][typeTable[p.version][p.level]] = FormatBits(fr, MqrCorner)}
  ELSE {m \in 0..7 : /\ formatInfo[p.level][m + 1] = FormatBits(fr, Corner)
                     /\ formatInfo[p.level][m + 1] = FormatBits(fr, LAMBDA i : Edges(Width(p), i))}
ReadBits(p, fr, m) ==
  LET order == ReadingOrder(p)
      mm    == IF p.mqr THEN MqrMask[m + 1] ELSE m
  IN Evaluated([i \in DOMAIN order |-> LET c == order[i] IN
                  IF MaskBit(mm, c[1], c[2]) THEN 1 - (fr[c] % 2) ELSE fr[c] % 2])

\* The blocks, and whether each is a code word: zero at every root.
Code(bits, i) == Number(SubSeq(bits, 8 * i + 1, 8 * i + 8))
ReadBlocks(p, bits) ==
  LET s  == QRspec_getEccSpec(p.version, p.level)
      nb == s.b1 + s.b2
      nd == QRspec_getDataLength(p.version, p.level)
      Dl(j) == IF j > s.b1 THEN s.dl + 1 ELSE s.dl
      Place(j, c) == IF c <= s.dl THEN (c - 1) * nb + j - 1 ELSE s.dl * nb + (j - s.b1) - 1
  IN IF p.mqr
     THEN LET max == MQRspec_getDataLengthBit(p.version, p.level)
              d   == SubSeq(bits, 1, max)
          IN <<[data |-> BitStream_toByte(d), ecc |-> BitStream_toByte(Rest(bits, max))]>>
     ELSE [j \in 1..nb |-> [data |-> [c \in 1..Dl(j) |-> Code(bits, Place(j, c))],
                            ecc |-> [c \in 1..s.el |-> Code(bits, nd + (c - 1) * nb + j - 1)]]]
RECURSIVE Horner(_, _, _)
Horner(word, root, acc) ==
  IF word = <<>> THEN acc
  ELSE Horner(Tail(word), root, Xor(Head(word), IF acc = 0 THEN 0 ELSE ALPHA_TO(IndexOf[acc] + root)))
IsCodeWord(b) == \A root \in 0..(Len(b.ecc) - 1) : Horner(b.data \o b.ecc, root, 0) = 0
DataBits(p, bits, blocks) ==
  IF p.mqr THEN SubSeq(bits, 1, MQRspec_getDataLengthBit(p.version, p.level))
  ELSE BytesToBits(FlattenSeq([j \in DOMAIN blocks |-> blocks[j].data]))

-----------------------------------------------------------------------------
\* Micro QR has no ECI, and no kanji below M3 (the code refuses them below M2);
\* an ECI number of three bytes is written with its marker in the wrong place.
Readable == /\ call.mqr => /\ call.eci = -1
                           /\ call.version = 2 => \A i \in DOMAIN parts[part].list :
                                parts[part].list[i].mode # "kanji"
            /\ call.eci < 16384

Folded(s) == [i \in DOMAIN s |-> Upper(s[i])]

\* split.c, qrinput.c: however a text is cut into modes, pieces and structured
\* symbols, the bit streams hold all of it and in order: each is parsed back
\* into the chunks of its list, and the chunks together are the text (with
\* letters raised if case does not matter, but never the half of a kanji).
TextKept ==
  /\ stage = "merge" /\ part = 1 =>
       LET all == FlattenSeq([i \in DOMAIN parts |-> parts[i].list])
           t   == TextOf(all)
       IN /\ Folded(t) = Folded(call.text)
          /\ call.cs \/ call.api \notin {"string", "string_structured"} => t = call.text
          /\ \A i \in DOMAIN t : t[i] # call.text[i] => call.hint # "kanji" \/ i = 1 \/ t[i - 1] < 129
          /\ \A i \in DOMAIN parts : Len(parts) > 1 =>
               Heads(parts[i].list)[1].data = <<Len(parts), i, ParityOf(TextOf(all))>>
  /\ stage = "bytes" /\ Readable =>
       LET p == parts[part]
           b == ReadSegments(stream, p.version, p.mqr)
       IN /\ TextOf(b) = TextOf(p.list) /\ Len(Heads(b)) = Len(Heads(p.list))
          /\ \A i \in DOMAIN b : b[i].mode = "structure" =>
               LET h == p.list[1].data IN b[i].data = <<(h[2] - 1) * 16 + h[1] - 1, h[3]>>

\* qrencode.c, rscode.c, qrspec.c, mqrspec.c, mask.c, mmask.c: a finished symbol
\* can be read: its format tells the mask, the modules in reading order hold
\* blocks that are code words, and their data is the bit stream; every bit found
\* its place and some mask was chosen.
SymbolReadable ==
  /\ stage = "failed" => stream[1] \notin {"filler", "no mask"}
  /\ stage = "drawn" =>
    LET p  == parts[part]
        fr == symbols[Len(symbols)]
        ms == MaskRead(p, fr)
    IN /\ ms # {}
       /\ LET bits   == ReadBits(p, fr, CHOOSE m \in ms : TRUE)
              blocks == ReadBlocks(p, bits)
          IN /\ \A j \in DOMAIN blocks : IsCodeWord(blocks[j])
             /\ DataBits(p, bits, blocks) = SubSeq(stream, 1, Len(DataBits(p, bits, blocks)))
=============================================================================
