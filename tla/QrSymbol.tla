------------------------------ MODULE QrSymbol ------------------------------
(***************************************************************************)
(* libqrencode from the byte stream to the symbol (qrencode.c): error      *)
(* correction (rscode.c), interleaving, the frame with its function        *)
(* patterns (qrspec.c, mqrspec.c), the filler that winds through it, and   *)
(* the choice of a mask (mask.c, mmask.c). A module of the symbol is 0     *)
(* (empty), 2 + bit (data) or 128 + bit (function pattern, bit 0x80).      *)
(***************************************************************************)
EXTENDS QrInput

\* Bound: the tables are given up to this version, and so are drawn symbols.
DrawnVersionMax == 13

\* rscode.c: tables of GF(256), 0x11d; alpha_to[i] is AlphaTo[i + 1].
TimesAlpha(sr) == IF sr * 2 < 256 THEN sr * 2 ELSE Xor(sr * 2 - 256, 29)
AlphaTo ==
  LET powers[done \in Seq(1..255)] ==
        IF Len(done) = 255 THEN done ELSE powers[Append(done, TimesAlpha(Last(done)))]
  IN powers[<<1>>]
IndexOf ==
  LET alpha_to == AlphaTo
  IN [x \in 0..255 |-> IF x = 0 THEN 255 ELSE (CHOOSE i \in 1..255 : alpha_to[i] = x) - 1]
ALPHA_TO(i) == AlphaTo[(i % 255) + 1]

\* init_rs_char: the generator polynomial, lowest coefficient first, as indices.
TimesRoot(g, root) ==
  LET n == Len(g)
      Up(c) == IF c = 0 THEN 0 ELSE ALPHA_TO(IndexOf[c] + root)
  IN Evaluated([j \in 1..(n + 1) |-> IF j = 1 THEN Up(g[1]) ELSE IF j = n + 1 THEN 1
                                     ELSE Xor(g[j - 1], Up(g[j]))])
init_rs(nroots) ==
  LET poly[k \in 0..nroots] == IF k = 0 THEN <<1>> ELSE TimesRoot(poly[k - 1], k - 1)
      g == poly[nroots]
  IN Evaluated([i \in 1..(nroots + 1) |-> IndexOf[g[i]]])

encode_rs_char(data, nroots) ==
  LET gen == init_rs(nroots)
      Feed(par, c) ==
        LET f == Xor(c, par[1])
            Shift(j) == IF j < nroots THEN par[j + 1] ELSE 0
        IN Evaluated([j \in 1..nroots |->
             IF f = 0 THEN Shift(j) ELSE Xor(Shift(j), ALPHA_TO(IndexOf[f] + gen[nroots - j + 1]))])
      fed[k \in 1..(Len(data) + 1), par \in Seq(0..255)] ==
        IF k > Len(data) THEN par ELSE fed[k + 1, Feed(par, data[k])]
  IN fed[1, [i \in 1..nroots |-> 0]]

\* eccTable and QRspec_getEccSpec
eccTable == <<
  <<<<1, 0>>, <<1, 0>>, <<1, 0>>, <<1, 0>>, <<1, 0>>, <<2, 0>>, <<2, 0>>, <<2, 0>>, <<2, 0>>, <<2, 2>>,
    <<4, 0>>, <<2, 2>>, <<4, 0>>>>,
  <<<<1, 0>>, <<1, 0>>, <<1, 0>>, <<2, 0>>, <<2, 0>>, <<4, 0>>, <<4, 0>>, <<2, 2>>, <<3, 2>>, <<4, 1>>,
    <<1, 4>>, <<6, 2>>, <<8, 1>>>>,
  <<<<1, 0>>, <<1, 0>>, <<2, 0>>, <<2, 0>>, <<2, 2>>, <<4, 0>>, <<2, 4>>, <<4, 2>>, <<4, 4>>, <<6, 2>>,
    <<4, 4>>, <<4, 6>>, <<8, 4>>>>,
  <<<<1, 0>>, <<1, 0>>, <<2, 0>>, <<4, 0>>, <<2, 2>>, <<4, 0>>, <<4, 1>>, <<4, 2>>, <<4, 4>>, <<6, 2>>,
    <<3, 8>>, <<7, 4>>, <<12, 4>>>>>>
QRspec_getEccSpec(v, level) ==
  LET t == eccTable[level][v] IN
  [b1 |-> t[1], b2 |-> t[2], dl |-> QRspec_getDataLength(v, level) \div (t[1] + t[2]),
   el |-> QRspec_getECCLength(v, level) \div (t[1] + t[2])]

Width(p) == IF p.mqr THEN mqrspecWidth[p.version] ELSE 17 + 4 * p.version
Remainder == <<0, 7, 7, 7, 7, 7, 0, 0, 0, 0, 0, 0, 0>>

-----------------------------------------------------------------------------
(* QRspec_createFrame and MQRspec_createFrame. Later patterns are drawn    *)
(* over earlier ones.                                                      *)

Square(x, y, ox, oy, n) == x \in ox..(ox + n - 1) /\ y \in oy..(oy + n - 1)
Ring(d) == IF d = 2 THEN 128 ELSE 129      \* of a finder, by distance from its centre
Distance(x, y, cx, cy) ==
  LET dx == IF x > cx THEN x - cx ELSE cx - x  dy == IF y > cy THEN y - cy ELSE cy - y
  IN IF dx > dy THEN dx ELSE dy

alignmentPattern == <<<<0, 0>>, <<18, 0>>, <<22, 0>>, <<26, 0>>, <<30, 0>>, <<34, 0>>, <<22, 38>>, <<24, 42>>,
  <<26, 46>>, <<28, 50>>, <<30, 54>>, <<32, 58>>, <<34, 62>>>>
AlignmentCentres(v) ==
  LET a == alignmentPattern[v][1]
      d == alignmentPattern[v][2] - a
      w == IF d < 0 THEN 2 ELSE (17 + 4 * v - a) \div d + 2
      c == {a + i * d : i \in 0..(w - 2)}
      e == {a + i * d : i \in 0..(w - 3)}
  IN IF v < 2 THEN {} ELSE IF w = 2 THEN {<<a, a>>}
     ELSE (c \X c) \cup ({6} \X e) \cup (e \X {6})
versionPattern == <<31892, 34236, 39577, 42195, 48118, 51042, 55367>>
VersionBit(v, long, short) == (versionPattern[v - 6] \div 2^(3 * long + short)) % 2

QRspec_createFrame(v) ==
  LET w == 17 + 4 * v
      M(x, y) ==
        IF <<x, y>> = <<8, w - 8>> THEN 129
        ELSE IF v >= 7 /\ x \in (w - 11)..(w - 9) /\ y < 6 THEN 128 + VersionBit(v, y, x - (w - 11))
        ELSE IF v >= 7 /\ y \in (w - 11)..(w - 9) /\ x < 6 THEN 128 + VersionBit(v, x, y - (w - 11))
        ELSE IF \E c \in AlignmentCentres(v) : Distance(x, y, c[1], c[2]) <= 2
        THEN LET c == CHOOSE c \in AlignmentCentres(v) : Distance(x, y, c[1], c[2]) <= 2
             IN IF Distance(x, y, c[1], c[2]) = 1 THEN 128 ELSE 129
        ELSE IF y = 6 /\ x \in 8..(w - 9) THEN 128 + ((x - 7) % 2)
        ELSE IF x = 6 /\ y \in 8..(w - 9) THEN 128 + ((y - 7) % 2)
        ELSE IF y = 8 /\ (x <= 8 \/ x >= w - 8) THEN 128
        ELSE IF x = 8 /\ (y <= 7 \/ y >= w - 7) THEN 128
        ELSE IF \/ x <= 7 /\ y <= 7 /\ (x = 7 \/ y = 7)
                \/ x >= w - 8 /\ y <= 7 /\ (x = w - 8 \/ y = 7)
                \/ x <= 7 /\ y >= w - 8 /\ (x = 7 \/ y = w - 8) THEN 128
        ELSE IF Square(x, y, 0, 0, 7) THEN Ring(Distance(x, y, 3, 3))
        ELSE IF Square(x, y, w - 7, 0, 7) THEN Ring(Distance(x, y, w - 4, 3))
        ELSE IF Square(x, y, 0, w - 7, 7) THEN Ring(Distance(x, y, 3, w - 4))
        ELSE 0
  IN [p \in (0..(w - 1)) \X (0..(w - 1)) |-> M(p[1], p[2])]

MQRspec_createFrame(v) ==
  LET w == mqrspecWidth[v]
      M(x, y) ==
        IF y = 0 /\ x >= 8 THEN 128 + ((x - 7) % 2)
        ELSE IF x = 0 /\ y >= 8 THEN 128 + ((y - 7) % 2)
        ELSE IF (y = 8 /\ x \in 1..8) \/ (x = 8 /\ y \in 1..7) THEN 128
        ELSE IF (x = 7 /\ y <= 6) \/ (y = 7 /\ x <= 7) THEN 128
        ELSE IF Square(x, y, 0, 0, 7) THEN Ring(Distance(x, y, 3, 3))
        ELSE 0
  IN [p \in (0..(w - 1)) \X (0..(w - 1)) |-> M(p[1], p[2])]

-----------------------------------------------------------------------------
(* FrameFiller_next                                                        *)

FrameFiller_new(w) == [x |-> w - 1, y |-> w - 1, dir |-> -1, bit |-> -1, over |-> FALSE]
FillerStep(f, w, mqr) ==
  LET x1   == IF f.bit = 0 THEN f.x - 1 ELSE f.x + 1
      y1   == IF f.bit = 0 THEN f.y ELSE f.y + f.dir
      turn == (f.dir < 0 /\ y1 < 0) \/ (f.dir > 0 /\ y1 = w)
      skip == turn /\ ~mqr /\ x1 - 2 = 6
      x2   == IF skip THEN x1 - 3 ELSE IF turn THEN x1 - 2 ELSE x1
      y2   == IF ~turn THEN y1 ELSE IF f.dir < 0 THEN IF skip THEN 9 ELSE 0
              ELSE IF skip THEN w - 9 ELSE w - 1
  IN IF x2 < 0 \/ y2 < 0 THEN [f EXCEPT !.over = TRUE]
     ELSE [f EXCEPT !.x = x2, !.y = y2, !.bit = 1 - @, !.dir = IF turn THEN -@ ELSE @]
FrameFiller_next(f, fr, w, mqr) ==
  LET next[g \in [x : 0..w, y : 0..w, dir : {-1, 1}, bit : {0, 1}, over : BOOLEAN]] ==
        LET h == FillerStep(g, w, mqr)
        IN IF h.over \/ fr[<<h.x, h.y>>] < 128 THEN h ELSE next[h]
  IN IF f.bit = -1 THEN [f EXCEPT !.bit = 0] ELSE next[f]

\* The loop that puts the bits of one code in their places.
Put(fr, f, bits, w, mqr) ==
  LET PutBit(s, bit) ==
        LET g == FrameFiller_next(s[2], s[1], w, mqr)
        IN IF s[2].over \/ g.over THEN <<s[1], g>> ELSE <<[s[1] EXCEPT ![<<g.x, g.y>>] = 2 + bit], g>>
  IN FoldLeft(PutBit, <<fr, f>>, bits)

-----------------------------------------------------------------------------
(* Masks.                                                                  *)

MaskBit(m, x, y) ==
  CASE m = 0 -> (x + y) % 2 = 0 [] m = 1 -> y % 2 = 0 [] m = 2 -> x % 3 = 0 [] m = 3 -> (x + y) % 3 = 0
    [] m = 4 -> (y \div 2 + x \div 3) % 2 = 0
    [] m = 5 -> ((x * y) % 2) + ((x * y) % 3) = 0
    [] m = 6 -> (((x * y) % 2) + ((x * y) % 3)) % 2 = 0
    [] m = 7 -> (((x * y) % 3) + ((x + y) % 2)) % 2 = 0
MqrMask == <<1, 4, 6, 7>>      \* which of them the four masks of Micro QR are
MaskFrame(fr, m) ==
  [p \in DOMAIN fr |-> IF fr[p] >= 128 \/ ~MaskBit(m, p[1], p[2]) THEN fr[p]
                       ELSE IF fr[p] % 2 = 0 THEN fr[p] + 1 ELSE fr[p] - 1]

formatInfo == <<<<30660, 29427, 32170, 30877, 26159, 25368, 27713, 26998>>,
  <<21522, 20773, 24188, 23371, 17913, 16590, 20375, 19104>>,
  <<13663, 12392, 16177, 14854, 9396, 8579, 11994, 11245>>, <<5769, 5054, 7399, 6608, 1890, 597, 3340, 2107>>>>
mqrFormatInfo == <<<<17477, 21934, 26515, 30328, 1758, 5941, 9480, 13539>>,
  <<16754, 20633, 25252, 29519, 1001, 4610, 8255, 12756>>,
  <<20011, 24512, 28157, 31766, 3248, 7515, 12134, 16013>>,
  <<19228, 23287, 26826, 31009, 2439, 6252, 10833, 15290>>>>
typeTable == <<<<1>>, <<2, 3>>, <<4, 5>>, <<6, 7, 8>>>>

\* Mask_writeFormatInformation: where bit i of the format is written.
FormatPlaces(w, i) ==
  IF i < 8 THEN {<<w - 1 - i, 8>>, <<8, IF i < 6 THEN i ELSE i + 1>>}
  ELSE {<<8, w - 15 + i>>, <<IF i = 8 THEN 7 ELSE 14 - i, 8>>}
MqrFormatPlaces(w, i) == IF i < 8 THEN {<<8, i + 1>>} ELSE {<<15 - i, 8>>}
WriteFormat(fr, w, format, mqr) ==
  [p \in DOMAIN fr |->
     IF p[1] # 8 /\ p[2] # 8 THEN fr[p]
     ELSE LET is == {i \in 0..14 : p \in IF mqr THEN MqrFormatPlaces(w, i) ELSE FormatPlaces(w, i)}
          IN IF is = {} THEN fr[p] ELSE 128 + ((format \div 2^(CHOOSE i \in is : TRUE)) % 2)]
getFormatInfo(p, m) ==
  IF p.mqr THEN mqrFormatInfo[m + 1][typeTable[p.version][p.level]] ELSE formatInfo[p.level][m + 1]
X_Masked(p, fr, m) ==
  MaskFrame(WriteFormat(fr, Width(p), getFormatInfo(p, 0), p.mqr), IF p.mqr THEN MqrMask[m + 1] ELSE m)
Masked(p, fr, m) ==
  WriteFormat(MaskFrame(fr, IF p.mqr THEN MqrMask[m + 1] ELSE m), Width(p), getFormatInfo(p, m), p.mqr)

\* Mask_calcRunLength: runs start with a light one, -1 if the line starts dark.
Mask_calcRunLength(line) ==
  LET runs[i \in 1..Len(line)] ==
        IF i = 1 THEN IF line[1] = 1 THEN <<-1, 1>> ELSE <<1>>
        ELSE LET r == runs[i - 1]
             IN IF line[i] = line[i - 1] THEN [r EXCEPT ![Len(r)] = @ + 1] ELSE Append(r, 1)
  IN runs[Len(line)]
SumOver(n, F(_)) == LET sum[i \in 0..n] == IF i = 0 THEN 0 ELSE sum[i - 1] + F(i - 1) IN sum[n]
Mask_calcN1N3(r) ==
  LET n == Len(r)
      N1(i) == IF r[i] >= 5 THEN r[i] - 2 ELSE 0
      N3(i) == IF /\ i % 2 = 0 /\ i >= 4 /\ i <= n - 2 /\ r[i] % 3 = 0
                  /\ \A j \in {i - 2, i - 1, i + 1, i + 2} : r[j] = r[i] \div 3
                  /\ \/ i = 4 \/ r[i - 3] >= 4 * (r[i] \div 3)
                     \/ i + 3 >= n \/ r[i + 3] >= 4 * (r[i] \div 3)
               THEN 40 ELSE 0
  IN SumOver(n, LAMBDA i : N1(i + 1) + N3(i + 1))
Dark(fr, x, y) == fr[<<x, y>>] % 2
Mask_calcN2(w, fr) ==
  3 * SumOver(w - 1, LAMBDA y : SumOver(w - 1, LAMBDA x :
        IF Dark(fr, x, y) + Dark(fr, x + 1, y) + Dark(fr, x, y + 1) + Dark(fr, x + 1, y + 1) \in {0, 4}
        THEN 1 ELSE 0))
Mask_evaluateSymbol(w, fr) ==
  Mask_calcN2(w, fr)
    + SumOver(w, LAMBDA y : Mask_calcN1N3(Mask_calcRunLength(Evaluated([x \in 1..w |-> Dark(fr, x - 1, y)]))))
    + SumOver(w, LAMBDA x : Mask_calcN1N3(Mask_calcRunLength(Evaluated([y \in 1..w |-> Dark(fr, x, y - 1)]))))
Demerit(w, fr) ==
  LET blacks == SumOver(w, LAMBDA y : SumOver(w, LAMBDA x : Dark(fr, x, y)))
      bratio == ((200 * blacks + w * w) \div (w * w)) \div 2
  IN ((IF bratio > 50 THEN bratio - 50 ELSE 50 - bratio) \div 5) * 10 + Mask_evaluateSymbol(w, fr)
MMask_evaluateSymbol(w, fr) ==
  LET s1 == SumOver(w - 1, LAMBDA i : Dark(fr, i + 1, w - 1))
      s2 == SumOver(w - 1, LAMBDA i : Dark(fr, w - 1, i + 1))
  IN IF s1 <= s2 THEN s1 * 16 + s2 ELSE s2 * 16 + s1

-----------------------------------------------------------------------------
VARIABLES
  raw,       \* the codes of the symbol in hand: [blocks, count, total]
  frame,     \* its frame
  filler,    \* the FrameFiller
  best,      \* the best mask so far: [n (masks tried), made, score, frame]
  symbols    \* the finished symbols of the call

qrSymbolVars == <<raw, frame, filler, best, symbols>>
qrVars == <<qrInputVars, qrSymbolVars>>

QrInit ==
  /\ QrInputInit
  /\ raw = <<>> /\ frame = <<>> /\ filler = <<>> /\ best = <<>> /\ symbols = <<>>

\* QRraw_new, MQRraw_new: the blocks and their error correction.
Blocks(p, bytes) ==
  IF p.mqr THEN <<[data |-> bytes, ecc |-> encode_rs_char(bytes, MQRspec_getECCLength(p.version, p.level))]>>
  ELSE LET s == QRspec_getEccSpec(p.version, p.level)
           Start(i) == (i - 1) * s.dl + (IF i > s.b1 + 1 THEN i - 1 - s.b1 ELSE 0)
           Data(i) == SubSeq(bytes, Start(i) + 1, Start(i) + s.dl + (IF i > s.b1 THEN 1 ELSE 0))
       IN [i \in 1..(s.b1 + s.b2) |-> [data |-> Data(i), ecc |-> encode_rs_char(Data(i), s.el)]]
RawNew ==
  /\ stage = "bytes" /\ call.draw
  /\ LET p == parts[part]
         n == IF p.mqr THEN MQRspec_getDataLength(p.version, p.level) + MQRspec_getECCLength(p.version, p.level)
              ELSE qrspecWords[p.version]
     IN /\ raw' = [blocks |-> Blocks(p, BitStream_toByte(stream)), count |-> 0, total |-> n]
        /\ frame' = IF p.mqr THEN MQRspec_createFrame(p.version) ELSE QRspec_createFrame(p.version)
        /\ filler' = FrameFiller_new(Width(p))
  /\ stage' = "fill" /\ UNCHANGED <<call, todo, input, cut, parts, part, stream, best, symbols>>

\* QRraw_getCode and MQRraw_getCode: the codes of the blocks in turns; the last
\* data code of a Micro QR symbol may have four bits.
getCode(b, b1, i) ==
  LET n    == Len(b)
      data == SumOf([j \in 1..n |-> Len(b[j].data)])
      row  == IF i \div n >= Len(b[1].data) THEN (i % n) + b1 ELSE i % n
  IN IF i < data THEN b[row + 1].data[i \div n + 1] ELSE b[((i - data) % n) + 1].ecc[(i - data) \div n + 1]
\* Bits that find no place make the call fail.
Fill(bits, next) ==
  LET p   == parts[part]
      put == Put(frame, filler, bits, Width(p), p.mqr)
  IN IF put[2].over THEN QrFail("filler") /\ UNCHANGED <<frame, filler>>
     ELSE frame' = put[1] /\ filler' = put[2] /\ stage' = next /\ UNCHANGED stream
FillCode ==
  /\ stage = "fill" /\ raw.count < raw.total
  /\ LET p    == parts[part]
         dl   == IF p.mqr THEN MQRspec_getDataLength(p.version, p.level) ELSE 0
         odd  == IF p.mqr THEN dl * 8 - MQRspec_getDataLengthBit(p.version, p.level) ELSE 0
         code == getCode(raw.blocks, IF p.mqr THEN 1 ELSE eccTable[p.level][p.version][1], raw.count)
     IN Fill(IF odd # 0 /\ raw.count = dl - 1 THEN Bits(odd, code) ELSE Bits(8, code), "fill")
  /\ raw' = [raw EXCEPT !.count = @ + 1]
  /\ UNCHANGED <<call, todo, input, cut, parts, part, best, symbols>>
FillRemainder ==
  /\ stage = "fill" /\ raw.count = raw.total
  /\ Fill(IF parts[part].mqr THEN <<>> ELSE Bits(Remainder[parts[part].version], 0), "mask")
  /\ best' = [n |-> 0, made |-> <<>>, score |-> -1, frame |-> <<>>]
  /\ UNCHANGED <<raw, call, todo, input, cut, parts, part, symbols>>

\* Mask_mask and MMask_mask, one mask: it is made and then judged. The first with
\* the fewest demerits is kept, or with the highest score if that is above 0.
Masks == IF parts[part].mqr THEN 4 ELSE 8
MakeMask ==
  /\ stage = "mask" /\ best.n < Masks
  /\ stage' = "judge" /\ best' = [best EXCEPT !.made = Masked(parts[part], frame, best.n)]
  /\ UNCHANGED <<raw, frame, filler, call, todo, input, cut, parts, part, stream, symbols>>
JudgeMask ==
  /\ stage = "judge"
  /\ LET p == parts[part]
         s == IF p.mqr THEN MMask_evaluateSymbol(Width(p), best.made) ELSE Demerit(Width(p), best.made)
         better == IF p.mqr THEN s > 0 /\ s > best.score ELSE best.frame = <<>> \/ s < best.score
     IN best' = [n |-> best.n + 1, made |-> <<>>, score |-> IF better THEN s ELSE best.score,
                 frame |-> IF better THEN best.made ELSE best.frame]
  /\ stage' = "mask"
  /\ UNCHANGED <<raw, frame, filler, call, todo, input, cut, parts, part, stream, symbols>>
Drawn ==
  /\ stage = "mask" /\ best.n = Masks
  /\ IF best.frame = <<>> THEN QrFail("no mask") /\ UNCHANGED symbols
     ELSE stage' = "drawn" /\ symbols' = Append(symbols, best.frame) /\ UNCHANGED stream
  /\ UNCHANGED <<raw, frame, filler, best, call, todo, input, cut, parts, part>>

\* QRcode_encodeInputStructured goes on to the next symbol.
NextPart ==
  /\ stage = IF call.draw THEN "drawn" ELSE "bytes"
  /\ IF part < Len(parts) THEN stage' = "merge" /\ part' = part + 1
     ELSE stage' = "done" /\ UNCHANGED part
  /\ raw' = <<>> /\ frame' = <<>> /\ filler' = <<>> /\ best' = <<>> /\ stream' = <<>>
  /\ UNCHANGED <<call, todo, input, cut, parts, symbols>>

QrNext ==
  \/ QrInputNext /\ UNCHANGED qrSymbolVars
  \/ RawNew \/ FillCode \/ FillRemainder \/ MakeMask \/ JudgeMask \/ Drawn \/ NextPart

QrSpec == QrInit /\ [][QrNext]_qrVars
=============================================================================
