------------------------------ MODULE QrInput ------------------------------
(***************************************************************************)
(* libqrencode up to the byte stream of a symbol: a call of the library    *)
(* cuts a string into chunks of one mode each (split.c), deals them out    *)
(* over structured symbols if asked to, and encodes the chunks of a symbol *)
(* as a bit stream with the smallest version it fits in (qrinput.c,        *)
(* bitstream.c and the tables of qrspec.c and mqrspec.c). Characters are   *)
(* their codes, levels L, M, Q, H are 1..4; malloc does not fail.          *)
(***************************************************************************)
EXTENDS Integers, Sequences, SequencesExt

CONSTANT Calls
  \* calls of the API: [api, text, version, level, mqr, hint, cs, eci, fnc1, draw]

\* The functions for structured symbols take no ECI number and have no form for
\* Micro QR.
ASSUME CallsAssumption ==
  \A c \in Calls :
    /\ c.text \in Seq(Nat) /\ c.version \in Int /\ c.level \in Int /\ c.eci \in Int /\ c.fnc1 \in Nat
    /\ c.mqr \in BOOLEAN
    /\ c.api \in {"string_structured", "data_structured"} => c.eci = -1 /\ ~c.mqr

QRSPEC_VERSION_MAX == 40
MQRSPEC_VERSION_MAX == 4
MODE_INDICATOR_SIZE == 4
STRUCTURE_HEADER_SIZE == 20
MAX_STRUCTURED_SYMBOLS == 16

\* qrspecCapacity: words and error correction words of each version.
qrspecWords == <<26, 44, 70, 100, 134, 172, 196, 242, 292, 346, 404, 466, 532, 581, 655, 733, 815,
  901, 991, 1085, 1156, 1258, 1364, 1474, 1588, 1706, 1828, 1921, 2051, 2185, 2323, 2465, 2611,
  2761, 2876, 3034, 3196, 3362, 3532, 3706>>
qrspecEc == <<
  <<7, 10, 15, 20, 26, 36, 40, 48, 60, 72, 80, 96, 104, 120, 132, 144, 168, 180, 196, 224, 224, 252,
    270, 300, 312, 336, 360, 390, 420, 450, 480, 510, 540, 570, 570, 600, 630, 660, 720, 750>>,
  <<10, 16, 26, 36, 48, 64, 72, 88, 110, 130, 150, 176, 198, 216, 240, 280, 308, 338, 364, 416, 442,
    476, 504, 560, 588, 644, 700, 728, 784, 812, 868, 924, 980, 1036, 1064, 1120, 1204, 1260, 1316,
    1372>>,
  <<13, 22, 36, 52, 72, 96, 108, 132, 160, 192, 224, 260, 288, 320, 360, 408, 448, 504, 546, 600,
    644, 690, 750, 810, 870, 952, 1020, 1050, 1140, 1200, 1290, 1350, 1440, 1530, 1590, 1680, 1770,
    1860, 1950, 2040>>,
  <<17, 28, 44, 64, 88, 112, 130, 156, 192, 224, 264, 308, 352, 384, 432, 480, 532, 588, 650, 700,
    750, 816, 900, 960, 1050, 1110, 1200, 1260, 1350, 1440, 1530, 1620, 1710, 1800, 1890, 1980, 2100,
    2220, 2310, 2430>>>>
QRspec_getECCLength(v, level) == qrspecEc[level][v]
QRspec_getDataLength(v, level) == qrspecWords[v] - qrspecEc[level][v]
\* -1: no version is large enough.
X_QRspec_getMinimumVersion(size, level) ==
  LET fits == {v \in 1..QRSPEC_VERSION_MAX : QRspec_getDataLength(v, level) > size}
  IN IF fits = {} THEN -1 ELSE CHOOSE v \in fits : \A w \in fits : v <= w
QRspec_getMinimumVersion(size, level) ==
  LET fits == {v \in 1..QRSPEC_VERSION_MAX : QRspec_getDataLength(v, level) >= size}
  IN IF fits = {} THEN -1 ELSE CHOOSE v \in fits : \A w \in fits : v <= w

Splittable == {"num", "an", "b8", "kanji"}
lengthTableBits == [num |-> <<10, 12, 14>>, an |-> <<9, 11, 13>>,
                    b8 |-> <<8, 16, 16>>, kanji |-> <<8, 10, 12>>]
QRspec_lengthIndicator(mode, v) ==
  IF mode \notin Splittable THEN 0
  ELSE lengthTableBits[mode][IF v <= 9 THEN 1 ELSE IF v <= 26 THEN 2 ELSE 3]
\* 1 << l, for these lengths.
Shifted(l) ==
  CASE l = 8 -> 256 [] l = 9 -> 512 [] l = 10 -> 1024 [] l = 11 -> 2048 [] l = 12 -> 4096
    [] l = 13 -> 8192 [] l = 14 -> 16384 [] l = 16 -> 65536 [] OTHER -> 1
QRspec_maximumWords(mode, v) ==
  LET n == Shifted(QRspec_lengthIndicator(mode, v)) - 1
  IN IF mode \notin Splittable THEN 0 ELSE IF mode = "kanji" THEN n * 2 ELSE n

mqrspecWidth == <<11, 13, 15, 17>>
mqrspecEc == <<<<2, 0, 0, 0>>, <<5, 6, 0, 0>>, <<6, 8, 0, 0>>, <<8, 10, 14, 0>>>>
MQRspec_getECCLength(v, level) == mqrspecEc[v][level]
MQRspec_getDataLengthBit(v, level) ==
  LET ecc == mqrspecEc[v][level]
  IN IF ecc = 0 THEN 0 ELSE (mqrspecWidth[v] - 1)^2 - 64 - ecc * 8
MQRspec_getDataLength(v, level) == (MQRspec_getDataLengthBit(v, level) + 4) \div 8
MQRspec_lengthIndicator(mode, v) ==
  [num |-> <<3, 4, 5, 6>>, an |-> <<0, 3, 4, 5>>,
   b8 |-> <<0, 0, 4, 5>>, kanji |-> <<0, 0, 3, 4>>][mode][v]

\* bitstream.c: a bit stream is a sequence of bits.
Bits(n, num) == [i \in 1..n |-> (num \div 2^(n - i)) % 2]
Number(b) == LET f[i \in 0..Len(b)] == IF i = 0 THEN 0 ELSE 2 * f[i - 1] + b[i] IN f[Len(b)]
XorTable == [a \in 0..15 |-> [b \in 0..15 |-> Number([i \in 1..4 |-> (Bits(4, a)[i] + Bits(4, b)[i]) % 2])]]
Xor(a, b) == 16 * XorTable[a \div 16][b \div 16] + XorTable[a % 16][b % 16]
\* s itself: TLC evaluates its elements here and not at every use.
Evaluated(s) == SubSeq(s, 1, Len(s))
\* BitStream_append of one short stream after the other; each but the last has
\* width bits.
Joined(b, width) ==
  LET n == Len(b) IN
  IF n = 0 THEN <<>>
  ELSE Evaluated([k \in 1..((n - 1) * width + Len(b[n])) |->
                    b[((k - 1) \div width) + 1][((k - 1) % width) + 1]])
BytesToBits(d) ==
  Evaluated([k \in 1..(8 * Len(d)) |-> (d[(k + 7) \div 8] \div 2^((8 * Len(d) - k) % 8)) % 2])
BitStream_toByte(b) ==
  Evaluated([i \in 1..((Len(b) + 7) \div 8) |->
               Number(SubSeq(b, 8 * i - 7, IF 8 * i <= Len(b) THEN 8 * i ELSE Len(b)))])

-----------------------------------------------------------------------------
(* The characters of each mode.                                            *)

isdigit(c) == c \in 48..57
anOthers == <<32, 36, 37, 42, 43, 45, 46, 47, 58>>    \* space $ % * + - . / :
isalnum(c) == c \in 48..57 \/ c \in 65..90 \/ c \in ToSet(anOthers)
QRinput_lookAnTable(c) ==
  IF isdigit(c) THEN c - 48 ELSE IF c \in 65..90 THEN c - 55
  ELSE 35 + CHOOSE i \in DOMAIN anOthers : anOthers[i] = c
isKanji(c, d) == LET w == c * 256 + d IN w \in 33088..40956 \/ w \in 57408..60351

QRinput_check(mode, d) ==
  /\ Len(d) > 0
  /\ CASE mode = "num"   -> \A i \in DOMAIN d : isdigit(d[i])
       [] mode = "an"    -> \A i \in DOMAIN d : isalnum(d[i])
       [] mode = "kanji" -> /\ Len(d) % 2 = 0
                            /\ \A i \in DOMAIN d : i % 2 = 1 => isKanji(d[i], d[i + 1])
       [] mode = "fnc1second" -> Len(d) = 1
       [] OTHER -> TRUE

\* The estimates, exact for the payload of one chunk.
QRinput_estimateBitsModeNum(n) == (n \div 3) * 10 + <<0, 4, 7>>[(n % 3) + 1]
QRinput_estimateBitsModeAn(n) == (n \div 2) * 11 + (n % 2) * 6
QRinput_estimateBitsModeKanji(n) == (n \div 2) * 13
EciWords(d) == IF Number(BytesToBits(Reverse(d))) < 128 THEN 1
               ELSE IF Number(BytesToBits(Reverse(d))) < 16384 THEN 2 ELSE 3
QRinput_estimateBitStreamSizeOfEntry(e, version) ==
  LET v == IF version = 0 THEN 1 ELSE version
      n == Len(e.data)
      l == QRspec_lengthIndicator(e.mode, v)
      p == CASE e.mode = "num" -> QRinput_estimateBitsModeNum(n)
             [] e.mode = "an" -> QRinput_estimateBitsModeAn(n)
             [] e.mode = "b8" -> n * 8
             [] e.mode = "kanji" -> QRinput_estimateBitsModeKanji(n)
             [] e.mode = "eci" -> MODE_INDICATOR_SIZE + 8 * EciWords(e.data)
             [] OTHER -> 0
  IN CASE e.mode = "structure" -> STRUCTURE_HEADER_SIZE
       [] e.mode = "fnc1second" -> MODE_INDICATOR_SIZE + 8
       [] OTHER -> p + ((n + Shifted(l) - 1) \div Shifted(l)) * (MODE_INDICATOR_SIZE + l)
SumOf(s) == LET f[i \in 0..Len(s)] == IF i = 0 THEN 0 ELSE f[i - 1] + s[i] IN f[Len(s)]
QRinput_estimateBitStreamSize(list, v) ==
  SumOf([i \in DOMAIN list |-> QRinput_estimateBitStreamSizeOfEntry(list[i], v)])
\* One round with the version of the round before, and the rounds of the loop:
\* it ends with the first one that gives no larger version.
EstimateRound(list, level, prev) ==
  QRspec_getMinimumVersion((QRinput_estimateBitStreamSize(list, prev) + 7) \div 8, level)
QRinput_estimateVersion(list, level) ==
  LET version[k \in 0..(QRSPEC_VERSION_MAX + 1)] ==
        IF k = 0 THEN 0 ELSE EstimateRound(list, level, version[k - 1])
      Last_(k) == version[k] <= version[k - 1] /\ \A j \in 1..(k - 1) : version[j] > version[j - 1]
  IN version[CHOOSE k \in 1..(QRSPEC_VERSION_MAX + 1) : Last_(k)]

\* How many characters of a mode fit in so many bits.
QRinput_lengthOfCode(mode, v, bits) ==
  LET p == bits - 4 - QRspec_lengthIndicator(mode, v)
      n == IF p < 0 THEN 0
           ELSE CASE mode = "num" -> (p \div 10) * 3 + (IF p % 10 >= 7 THEN 2 ELSE IF p % 10 >= 4 THEN 1 ELSE 0)
                  [] mode = "an" -> (p \div 11) * 2 + (IF p % 11 >= 6 THEN 1 ELSE 0)
                  [] mode \in {"b8", "structure"} -> p \div 8
                  [] mode = "kanji" -> (p \div 13) * 2
                  [] OTHER -> 0
      max == QRspec_maximumWords(mode, v)
  IN IF max > 0 /\ n > max THEN max ELSE n

-----------------------------------------------------------------------------
(* Encoding a chunk. A chunk longer than its length field can say is       *)
(* encoded as several. <<>> stands for an error: no chunk has no bits.     *)

Pieces(d, k) == [i \in 1..((Len(d) + k - 1) \div k) |->
                   SubSeq(d, (i - 1) * k + 1, IF i * k <= Len(d) THEN i * k ELSE Len(d))]
NumValue(g) == LET f[i \in 0..Len(g)] == IF i = 0 THEN 0 ELSE f[i - 1] * 10 + g[i] - 48 IN f[Len(g)]
KanjiValue(c, d) ==
  LET w == c * 256 + d
      x == w - (IF w <= 40956 THEN 33088 ELSE 49472)
  IN (x % 256) + (x \div 256) * 192
Payload(mode, d) ==
  CASE mode = "num" ->
         LET g == Pieces(d, 3)
         IN Joined([i \in DOMAIN g |-> Bits(<<4, 7, 10>>[Len(g[i])], NumValue(g[i]))], 10)
    [] mode = "an" ->
         LET g == Pieces(d, 2)
         IN Joined([i \in DOMAIN g |->
              IF Len(g[i]) = 1 THEN Bits(6, QRinput_lookAnTable(g[i][1]))
              ELSE Bits(11, QRinput_lookAnTable(g[i][1]) * 45 + QRinput_lookAnTable(g[i][2]))], 11)
    [] mode = "b8" -> BytesToBits(d)
    [] mode = "kanji" ->
         Joined([i \in 1..(Len(d) \div 2) |-> Bits(13, KanjiValue(d[2 * i - 1], d[2 * i]))], 13)

Units(mode, d) == IF mode = "kanji" THEN Len(d) \div 2 ELSE Len(d)
ModeId == [num |-> 1, an |-> 2, b8 |-> 4, kanji |-> 8, structure |-> 3, eci |-> 7, fnc1second |-> 9]
MqrModeId == [num |-> 0, an |-> 1, b8 |-> 2, kanji |-> 3]
MqrLeast == [num |-> 1, an |-> 2, b8 |-> 3, kanji |-> 2]

X_EncodePiece(mode, d, v, mqr) ==
  Bits(4, ModeId[mode]) \o Bits(QRspec_lengthIndicator(mode, v), Len(d)) \o Payload(mode, d)
EncodePiece(mode, d, v, mqr) ==
  IF ~mqr
  THEN Bits(4, ModeId[mode]) \o Bits(QRspec_lengthIndicator(mode, v), Units(mode, d)) \o Payload(mode, d)
  ELSE IF v < MqrLeast[mode] THEN <<>>
  ELSE Bits(v - 1, MqrModeId[mode]) \o Bits(MQRspec_lengthIndicator(mode, v), Units(mode, d))
         \o Payload(mode, d)
EncodeEci(d) ==
  LET n == Number(BytesToBits(Reverse(d)))
      w == EciWords(d)
  IN Bits(4, ModeId.eci) \o Bits(8 * w, n + <<0, 32768, 786432>>[w])
QRinput_encodeBitStream(e, v, mqr) ==
  CASE e.mode \in Splittable ->
         LET g == Pieces(e.data, QRspec_maximumWords(e.mode, v))
         IN FlattenSeq([i \in DOMAIN g |-> EncodePiece(e.mode, g[i], v, mqr)])
    [] e.mode = "structure" ->
         IF mqr THEN <<>>
         ELSE Bits(4, ModeId.structure) \o Bits(4, e.data[2] - 1) \o Bits(4, e.data[1] - 1) \o Bits(8, e.data[3])
    [] e.mode = "fnc1second" -> Bits(4, ModeId.fnc1second) \o BytesToBits(e.data)
    [] e.mode = "eci" -> EncodeEci(e.data)
Encodable(list, v, mqr) == \A i \in DOMAIN list : QRinput_encodeBitStream(list[i], v, mqr) # <<>>
QRinput_mergeBitStream(list, v, mqr) ==
  FlattenSeq([i \in DOMAIN list |-> QRinput_encodeBitStream(list[i], v, mqr)])

\* Padding to the capacity of the symbol.
PadBytes(n) == BytesToBits([i \in 1..n |-> IF i % 2 = 1 THEN 236 ELSE 17])
QRinput_appendPaddingBit(b, v, level) ==
  LET maxwords == QRspec_getDataLength(v, level)
      free     == maxwords * 8 - Len(b)
      words    == (Len(b) + 4 + 7) \div 8
  IN IF free <= 4 THEN b \o Bits(free, 0)
     ELSE b \o Bits(words * 8 - Len(b), 0) \o PadBytes(maxwords - words)
QRinput_appendPaddingBitMQR(b, v, level) ==
  LET maxbits  == MQRspec_getDataLengthBit(v, level)
      maxwords == maxbits \div 8
      term     == v * 2 + 1
      words    == (Len(b) + term + 7) \div 8
      fill     == words * 8 - Len(b)
  IN IF maxbits - Len(b) <= term THEN b \o Bits(maxbits - Len(b), 0)
     ELSE IF words < maxwords
     THEN b \o Bits(fill, 0) \o PadBytes(maxwords - words) \o Bits(maxbits - maxwords * 8, 0)
     ELSE b \o Bits(IF maxbits > words * 8 /\ words = maxwords THEN fill + maxbits - words * 8 ELSE fill, 0)

-----------------------------------------------------------------------------
(* split.c: the chunk that starts at p, as <<mode, the place after it>>.   *)

At(s, p) == IF p > Len(s) THEN 0 ELSE s[p]
Split_identifyMode(s, p, hint) ==
  LET c == At(s, p) IN
  CASE c = 0 -> "nul" [] isdigit(c) -> "num" [] isalnum(c) /\ ~isdigit(c) -> "an"
    [] OTHER -> IF hint = "kanji" /\ At(s, p + 1) # 0 /\ isKanji(c, At(s, p + 1)) THEN "kanji" ELSE "b8"

\* The first place from p on that has no digit; nothing alphanumeric; no byte.
DigitsEnd(s, p) == Min({q \in p..(Len(s) + 1) : ~isdigit(At(s, q))})
AlnumEnd(s, p)  == Min({q \in p..(Len(s) + 1) : ~isalnum(At(s, q))})
BytesEnd(s, p, hint) == Min({q \in p..(Len(s) + 1) : Split_identifyMode(s, q, hint) # "b8"})

\* A run of another mode within bytes is left to a chunk of its own if that is
\* cheaper, the way back to bytes included.
RunEnd(s, p, hint) ==
  LET mode == Split_identifyMode(s, p, hint)
  IN IF mode = "num" THEN DigitsEnd(s, p) ELSE IF mode = "an" THEN AlnumEnd(s, p) ELSE BytesEnd(s, p, hint)
RunIsCheaper(s, p, v, hint) ==
  LET mode == Split_identifyMode(s, p, hint)
      q    == RunEnd(s, p, hint)
      back == IF Split_identifyMode(s, q, hint) = "b8" THEN 4 + QRspec_lengthIndicator("b8", v) ELSE 0
      cost == IF mode = "num" THEN QRinput_estimateBitsModeNum(q - p) ELSE QRinput_estimateBitsModeAn(q - p)
  IN cost + 4 + QRspec_lengthIndicator(mode, v) + back - 8 * (q - p) < 0
Split_eat8(s, p, v, hint) ==
  LET Stops(q) == \/ Split_identifyMode(s, q, hint) \in {"nul", "kanji"}
                  \/ Split_identifyMode(s, q, hint) \in {"num", "an"} /\ RunIsCheaper(s, q, v, hint)
      end[q \in 1..(Len(s) + 1)] == IF Stops(q) THEN q ELSE end[RunEnd(s, q, hint)]
  IN <<"b8", end[p + 1]>>

\* So are digits within alphanumeric characters.
DigitsAreCheaper(s, start, p, v) ==
  LET q  == DigitsEnd(s, p)
      ln == QRspec_lengthIndicator("num", v)
  IN QRinput_estimateBitsModeAn(p - start) + QRinput_estimateBitsModeNum(q - p) + 4 + ln
       + (IF isalnum(At(s, q)) THEN 4 + ln ELSE 0) - QRinput_estimateBitsModeAn(q - start) < 0
Split_eatAn(s, p, v, hint) ==
  LET Stops(r) == ~isalnum(At(s, r)) \/ (isdigit(At(s, r)) /\ DigitsAreCheaper(s, p, r, v))
      end[r \in 1..(Len(s) + 1)] ==
        IF Stops(r) THEN r ELSE end[IF isdigit(At(s, r)) THEN DigitsEnd(s, r) ELSE r + 1]
      q   == end[p]
      dif == QRinput_estimateBitsModeAn(q - p) + 4 + QRspec_lengthIndicator("an", v) + 8 - 8 * (q - p + 1)
  IN IF At(s, q) # 0 /\ ~isalnum(At(s, q)) /\ dif > 0 THEN Split_eat8(s, p, v, hint) ELSE <<"an", q>>

Split_eatNum(s, p, v, hint) ==
  LET q    == DigitsEnd(s, p)
      mode == Split_identifyMode(s, q, hint)
      own  == QRinput_estimateBitsModeNum(q - p) + 4 + QRspec_lengthIndicator("num", v)
  IN IF mode = "b8" /\ own + 8 - 8 * (q - p + 1) > 0 THEN Split_eat8(s, p, v, hint)
     ELSE IF mode = "an" /\ own + 6 - QRinput_estimateBitsModeAn(q - p + 1) > 0
     THEN Split_eatAn(s, p, v, hint) ELSE <<"num", q>>

Split_eatKanji(s, p, hint) ==
  <<"kanji", Min({q \in p..(Len(s) + 1) : (q - p) % 2 = 0 /\ Split_identifyMode(s, q, hint) # "kanji"})>>
Split_eat(s, p, v, hint) ==
  LET mode == Split_identifyMode(s, p, hint) IN
  CASE mode = "num" -> Split_eatNum(s, p, v, hint)
    [] mode = "an"  -> Split_eatAn(s, p, v, hint)
    [] mode = "kanji" -> Split_eatKanji(s, p, hint)
    [] OTHER -> Split_eat8(s, p, v, hint)

\* Letters are raised, but neither byte of a kanji is.
Upper(c) == IF c \in 97..122 THEN c - 32 ELSE c
dupAndToUpper(s, hint) ==
  LET Kanji(p) == Split_identifyMode(s, p, hint) = "kanji"
      second[p \in 1..Len(s)] == p > 1 /\ Kanji(p - 1) /\ ~second[p - 1]
  IN [p \in 1..Len(s) |-> IF second[p] \/ Kanji(p) THEN s[p] ELSE Upper(s[p])]

-----------------------------------------------------------------------------
(* A call of the library.                                                  *)

VARIABLES
  call,      \* the call
  stage,     \* how far it has come
  todo,      \* [s, pos]: the string that is cut, and where
  input,     \* the QRinput
  cut,       \* [cur, rest, bits]: its list, dealt out over structured symbols
  parts,     \* the inputs that are encoded, one symbol each
  part,      \* the one in hand
  stream     \* its bit stream, padded

qrInputVars == <<call, stage, todo, input, cut, parts, part, stream>>

Entry(mode, d) == [mode |-> mode, data |-> d]
Structured == call.api \in {"string_structured", "data_structured"}
QrFail(why) == stage' = "failed" /\ stream' = <<why>>

QrInputInit ==
  /\ call \in Calls /\ stage = "called" /\ todo = [s |-> <<>>, pos |-> 1]
  /\ input = [version |-> 0, level |-> 1, mqr |-> FALSE, fnc1 |-> 0, list |-> <<>>]
  /\ cut = [cur |-> <<>>, rest |-> <<>>, bits |-> 0] /\ parts = <<>> /\ part = 1 /\ stream = <<>>

\* QRinput_newMQR and QRinput_new2
NewAccepts(c) ==
  /\ c.version \in 0..QRSPEC_VERSION_MAX /\ c.level \in 1..4
  /\ c.mqr => c.version \in 1..MQRSPEC_VERSION_MAX /\ MQRspec_getECCLength(c.version, c.level) # 0

\* QRcode_encodeString*, QRcode_encodeData*, and their structured forms; "input"
\* is a program that builds its QRinput itself.
Accepted(c) ==
  /\ NewAccepts(c) /\ c.text # <<>>
  /\ c.api \in {"string", "string_structured"} => c.hint \in {"b8", "kanji"}
  /\ Structured => c.version > 0
  /\ c.eci # -1 => c.eci <= 999999
  /\ c.mqr => c.fnc1 = 0
LittleEndian(n) == <<n % 256, (n \div 256) % 256, (n \div 65536) % 256, 0>>
BeginCall ==
  /\ stage = "called"
  /\ IF ~Accepted(call) THEN QrFail("EINVAL") /\ UNCHANGED <<todo, input>>
     ELSE /\ stage' = IF call.api \in {"string", "string_structured"} THEN "split" ELSE "listed"
          /\ todo' = [todo EXCEPT !.s = IF call.cs THEN call.text ELSE dupAndToUpper(call.text, call.hint)]
          /\ input' = [version |-> call.version, level |-> call.level, mqr |-> call.mqr, fnc1 |-> call.fnc1,
                       list |-> IF call.api \in {"string", "string_structured"} THEN <<>>
                                ELSE (IF call.eci = -1 THEN <<>> ELSE <<Entry("eci", LittleEndian(call.eci))>>)
                                       \o <<Entry("b8", call.text)>>]
          /\ UNCHANGED stream
  /\ UNCHANGED <<call, cut, parts, part>>

\* Split_splitString, one chunk.
SplitString ==
  /\ stage = "split"
  /\ LET e == Split_eat(todo.s, todo.pos, input.version, call.hint)
         d == SubSeq(todo.s, todo.pos, e[2] - 1)
     IN IF At(todo.s, todo.pos) = 0 THEN stage' = "listed" /\ UNCHANGED <<todo, input, stream>>
        ELSE IF ~QRinput_check(e[1], d) THEN QrFail("EINVAL") /\ UNCHANGED <<todo, input>>
        ELSE /\ input' = [input EXCEPT !.list = Append(@, Entry(e[1], d))]
             /\ todo' = [todo EXCEPT !.pos = e[2]] /\ UNCHANGED <<stage, stream>>
  /\ UNCHANGED <<call, cut, parts, part>>

Listed ==
  /\ stage = "listed"
  /\ IF Structured
     THEN stage' = "cut" /\ cut' = [cut EXCEPT !.rest = input.list] /\ UNCHANGED parts
     ELSE stage' = "merge" /\ parts' = <<input>> /\ UNCHANGED cut
  /\ UNCHANGED <<call, todo, input, part, stream>>

\* QRinput_splitQRinputToStruct, one round. The copy it works on has no FNC1
\* flag. An entry that does not even start in an empty symbol would leave its
\* list shared by two inputs.
X_MaxBits == QRspec_getDataLength(input.version, input.level) * 8
MaxBits == QRspec_getDataLength(input.version, input.level) * 8 - STRUCTURE_HEADER_SIZE
Part(list) == [input EXCEPT !.list = list, !.fnc1 = 0]
CutStep ==
  /\ stage = "cut" /\ cut.rest # <<>>
  /\ LET e == Head(cut.rest)
         n == QRinput_lengthOfCode(e.mode, input.version, MaxBits - cut.bits)
         more == SubSeq(e.data, n + 1, Len(e.data))
     IN IF cut.bits + QRinput_estimateBitStreamSizeOfEntry(e, input.version) <= MaxBits
        THEN /\ cut' = [cur |-> Append(cut.cur, e), rest |-> Tail(cut.rest),
                        bits |-> cut.bits + Len(QRinput_encodeBitStream(e, input.version, FALSE))]
             /\ UNCHANGED <<parts, stage, stream>>
        ELSE IF n > 0 /\ QRinput_check(e.mode, more)
        THEN /\ parts' = Append(parts, Part(Append(cut.cur, Entry(e.mode, SubSeq(e.data, 1, n)))))
             /\ cut' = [cur |-> <<>>, bits |-> 0, rest |-> <<Entry(e.mode, more)>> \o Tail(cut.rest)]
             /\ UNCHANGED <<stage, stream>>
        ELSE IF n = 0 /\ cut.cur # <<>>
        THEN /\ parts' = Append(parts, Part(cut.cur))
             /\ cut' = [cut EXCEPT !.cur = <<>>, !.bits = 0] /\ UNCHANGED <<stage, stream>>
        ELSE QrFail(IF n > 0 THEN "EINVAL" ELSE "shared") /\ UNCHANGED <<cut, parts>>
  /\ UNCHANGED <<call, todo, input, part>>

\* Its end, with QRinput_Struct_insertStructuredAppendHeaders.
ParityOf(d) ==    \* the bytes, exclusive-ored
  Number([k \in 1..8 |-> Cardinality({i \in DOMAIN d : (d[i] \div 2^(8 - k)) % 2 = 1}) % 2])
QRinput_calcParity(list) == ParityOf(FlattenSeq([i \in DOMAIN list |-> list[i].data]))
CutEnd ==
  /\ stage = "cut" /\ cut.rest = <<>>
  /\ LET all == Append(parts, Part(cut.cur))
         n   == Len(all)
     IN IF n > MAX_STRUCTURED_SYMBOLS THEN QrFail("ERANGE") /\ UNCHANGED parts
        ELSE /\ stage' = "merge" /\ UNCHANGED stream
             /\ parts' = IF n = 1 THEN all
                         ELSE [i \in 1..n |-> [all[i] EXCEPT !.list =
                                <<Entry("structure", <<n, i, QRinput_calcParity(input.list)>>)>> \o @]]
  /\ UNCHANGED <<call, todo, input, cut, part>>

-----------------------------------------------------------------------------
(* QRinput_getByteStream of the part in hand.                              *)

\* FNC1 in the first position has no data, which QRinput_check refuses.
WithFnc1(p) == [p EXCEPT !.list = <<Entry("fnc1second", <<p.fnc1>>)>> \o @]
Merge ==
  /\ stage = "merge"
  /\ LET p  == parts[part]
         p2 == IF p.fnc1 > 1 THEN WithFnc1(p) ELSE p
         v  == QRinput_estimateVersion(p2.list, p2.level)
     IN IF p.mqr
        THEN IF Encodable(p.list, p.version, TRUE) THEN stage' = "pad" /\ UNCHANGED <<parts, stream>>
             ELSE QrFail("EINVAL") /\ UNCHANGED parts
        ELSE IF p.fnc1 = 1 THEN QrFail("EINVAL") /\ UNCHANGED parts
        ELSE /\ parts' = [parts EXCEPT ![part] = [p2 EXCEPT !.version = IF v > @ THEN v ELSE @]]
             /\ stage' = "convert" /\ UNCHANGED stream
  /\ UNCHANGED <<call, todo, input, cut, part>>

\* QRinput_convertData, one round: a larger version may need more bits.
ConvertData ==
  /\ stage = "convert"
  /\ LET p    == parts[part]
         bits == Len(QRinput_mergeBitStream(p.list, p.version, FALSE))
         v    == QRspec_getMinimumVersion((bits + 7) \div 8, p.level)
     IN IF v < 0 THEN QrFail("ERANGE") /\ UNCHANGED parts
        ELSE /\ parts' = [parts EXCEPT ![part].version = IF v > @ THEN v ELSE @]
             /\ stage' = IF v > p.version THEN "convert" ELSE "pad"
             /\ UNCHANGED stream
  /\ UNCHANGED <<call, todo, input, cut, part>>

Pad ==
  /\ stage = "pad"
  /\ LET p   == parts[part]
         b   == QRinput_mergeBitStream(p.list, p.version, p.mqr)
         max == IF p.mqr THEN MQRspec_getDataLengthBit(p.version, p.level)
                ELSE 8 * QRspec_getDataLength(p.version, p.level)
     IN IF Len(b) > max THEN QrFail("ERANGE")
        ELSE /\ stage' = "bytes"
             /\ stream' = IF p.mqr THEN QRinput_appendPaddingBitMQR(b, p.version, p.level)
                          ELSE QRinput_appendPaddingBit(b, p.version, p.level)
  /\ UNCHANGED <<call, todo, input, cut, parts, part>>

QrInputNext == BeginCall \/ SplitString \/ Listed \/ CutStep \/ CutEnd \/ Merge \/ ConvertData \/ Pad

-----------------------------------------------------------------------------
\* Where the estimate counts a header too many: a chunk of kanji is held to be as
\* long as it has bytes, and a chunk that is long for version 1 as long as that
\* for every version up to 26.
Misjudged(list, v) ==
  \E i \in DOMAIN list :
    \/ list[i].mode = "kanji" /\ Len(list[i].data) > Shifted(QRspec_lengthIndicator("kanji", v))
    \/ /\ v = 26 /\ list[i].mode \in Splittable
       /\ Len(list[i].data) > Shifted(QRspec_lengthIndicator(list[i].mode, 1))

Fits(p, v) == Len(QRinput_mergeBitStream(p.list, v, FALSE)) <= 8 * QRspec_getDataLength(v, p.level)
\* qrencode.h:408 "the library chooses the minimum version for the given input
\* data": no smaller version has room for the symbol's bits. The code breaks
\* this, where the estimate passes a version over (qrinput.c:944).
MinimumVersion ==
  stage = "bytes" /\ ~call.mqr /\ call.eci = -1 /\ call.version = 0 /\ call.api = "string" =>
    \A v \in 1..(parts[part].version - 1) : ~Fits(parts[part], v)

\* What does hold (qrinput.c "it is increased automatically"): the symbol has room
\* for the text, and a smaller version, from the requested one on, that has room
\* too is passed over only where the estimate is Misjudged (ECI headers are
\* always estimated too long).
VersionLeast ==
  stage = "bytes" /\ ~call.mqr /\ call.eci = -1 =>
    LET p == parts[part]
    IN /\ Fits(p, p.version)
       /\ \A v \in 1..(p.version - 1) : v >= call.version => ~Fits(p, v) \/ Misjudged(p.list, v)

\* qrinput.c: text dealt out over structured symbols fits them as estimated:
\* all symbols of a set keep the version that was asked for, unless the estimate
\* counts a header too many; and no chunk fails to start in an empty symbol.
PartsOneVersion ==
  /\ stage = "bytes" /\ Structured =>
       parts[part].version = call.version \/ Misjudged(parts[part].list, call.version)
  /\ stage = "failed" => stream[1] # "shared"
=============================================================================
