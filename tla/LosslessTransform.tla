-------------------------- MODULE LosslessTransform --------------------------
(* transform_file of verbs/encode.rs and the lossless path of jpegtran.rs under it: *)
(* read a baseline JPEG down to its coefficients, rearrange them, and write them    *)
(* with the standard Huffman tables; whatever is out of scope is decoded to pixels   *)
(* and encoded anew. The user may turn the edited file again, any number of times.   *)
(*                                                                                   *)
(* A file is a record: the segments before the first scan, the components the scan   *)
(* names, and its bytes with their stuffing and markers. A byte has BITS bits; a symbol *)
(* of a Huffman table is a category (DC) or a pair of a run and a category (AC).      *)
EXTENDS BlockMap, Sequences, FiniteSetsExt, SequencesExt

CONSTANTS
    BITS,       \* the bits of a byte: 8
    ZIGZAG,     \* the cells of a block in zig-zag order, by their natural numbers
    RunMax,     \* the longest run of a pair: 15, whose pair with category 0 is ZRL
    StdDc,      \* the tables it writes with: luma and chroma, of DC ...
    StdAc,      \* ... and of AC coefficients
    MaxDim,     \* MAX_DIM, the longest edge
    MaxCells,   \* MAX_TOTAL_CELLS
    RST, EOI,   \* the second bytes of the markers inside and after a scan
    Sources,    \* the files the user may turn
    Nothing

ASSUME ByteAssumption == BITS \in Nat \ {0} /\ {RST, EOI} \subseteq 1..2^BITS - 2 /\ RST # EOI
ASSUME ZigzagAssumption ==
    ZIGZAG \in [1..EDGE * EDGE -> 0..EDGE * EDGE - 1] /\ ToSet(ZIGZAG) = 0..EDGE * EDGE - 1

VARIABLES
    edited, \* the file last written, at first the source
    wanted  \* history: the picture the user should see

turnVars == <<edited, wanted>>

CELLS == EDGE * EDGE
FF == 2^BITS - 1
Zig(k) == <<ZIGZAG[k + 1] \div EDGE, ZIGZAG[k + 1] % EDGE>>
Number(bits) == FoldLeft(LAMBDA a, b : 2 * a + b, 0, bits)
BitsOf(v, n) == [j \in 1..n |-> (v \div 2^(n - j)) % 2]
Total(s) == FoldLeft(LAMBDA a, b : a + b, 0, s)
Repeat(s, n) == FlattenSeq([j \in 1..n |-> s])
Abs(v) == IF v < 0 THEN -v ELSE v

-----------------------------------------------------------------------------
(* Huffman codes *)

Sizes(t) == FlattenSeq([l \in DOMAIN t.bits |-> Repeat(<<l>>, t.bits[l])])

\* codes of one length are consecutive, and a longer one continues after them
canonical(t) ==
    LET size == Sizes(t)
        code[k \in DOMAIN size] ==
            IF k = 1 THEN 0 ELSE (code[k - 1] + 1) * 2^(size[k] - size[k - 1])
    IN  code

\* maxcode is -1 for a length no code has; valptr is the index before the first of a length
build_dec(t) ==
    LET code == canonical(t)
        before == [l \in DOMAIN t.bits |-> Total(SubSeq(t.bits, 1, l - 1))]
        At(l, k) == IF t.bits[l] > 0 THEN code[before[l] + k] ELSE -1
    IN  [mincode |-> [l \in DOMAIN t.bits |-> At(l, 1)],
         maxcode |-> [l \in DOMAIN t.bits |-> At(l, t.bits[l])],
         valptr  |-> before,
         vals    |-> t.vals]

Has(t, sym) == sym \in ToSet(t.vals)

\* build_enc, as the bits of one symbol
CodeOf(t, sym) ==
    LET k == CHOOSE j \in DOMAIN t.vals : t.vals[j] = sym
    IN  BitsOf(canonical(t)[k], Sizes(t)[k])

NumberAt(bits, i, n) == Number(SubSeq(bits, i + 1, i + n))

\* the lengths at which the bits from i on are no more than the last code of that length
Lengths(bits, i, h) ==
    {l \in DOMAIN h.maxcode :
        i + l <= Len(bits) /\ h.maxcode[l] >= 0 /\ NumberAt(bits, i, l) <= h.maxcode[l]}

SymbolOf(bits, i, h, l) ==
    [sym |-> h.vals[h.valptr[l] + NumberAt(bits, i, l) - h.mincode[l] + 1], next |-> i + l]

decode_huff(bits, i, h) ==
    IF Lengths(bits, i, h) = {} THEN Nothing ELSE SymbolOf(bits, i, h, Min(Lengths(bits, i, h)))

-----------------------------------------------------------------------------
(* Blocks *)

extend(v, s) == IF s > 0 /\ v < 2^(s - 1) THEN v - 2^s + 1 ELSE v
Receive(bits, i, s) == extend(NumberAt(bits, i, s), s)

\* What is left of a block to read: k is the next coefficient, CELLS when the block is over.
Stop(st) == [st EXCEPT !.k = CELLS]
Fail(st) == [st EXCEPT !.k = CELLS, !.ok = FALSE]

\* Symbol a says how many coefficients are 0 and how many bits the next one has.
Coefficient(st, bits, a) ==
    LET k == st.k + a.sym[1]
        s == a.sym[2]
    IN  IF a = Nothing THEN Fail(st)
        ELSE IF a.sym = <<RunMax, 0>> THEN [st EXCEPT !.k = k + 1, !.i = a.next]
        ELSE IF s = 0 \/ k >= CELLS THEN [Stop(st) EXCEPT !.i = a.next]
        ELSE IF a.next + s > Len(bits) THEN Fail(st)
        ELSE [st EXCEPT !.k = k + 1, !.i = a.next + s,
                        !.block[Zig(k)] = Receive(bits, a.next, s)]

NextCoefficient(st, bits, ac) ==
    IF st.k >= CELLS THEN st ELSE Coefficient(st, bits, decode_huff(bits, st.i, ac))

BlockAfter(d, bits, pred, ac) ==
    IF d = Nothing THEN Nothing
    ELSE IF d.next + d.sym > Len(bits) THEN Nothing
    ELSE FoldLeft(LAMBDA st, n : NextCoefficient(st, bits, ac),
                  [ok |-> TRUE, k |-> 1, i |-> d.next + d.sym,
                   block |-> [c \in Cells |->
                        IF c = Zig(0) THEN pred + Receive(bits, d.next, d.sym) ELSE 0]],
                  [n \in 1..CELLS |-> n])

\* One block from bit i on: its coefficients and where it ends, or Nothing.
decode_block(bits, i, pred, dc, ac) == BlockAfter(decode_huff(bits, i, dc), bits, pred, ac)

Category(v) == Min({s \in 0..Abs(v) : Abs(v) < 2^s})
Magnitude(v) == BitsOf(IF v >= 0 THEN v ELSE v + 2^Category(v) - 1, Category(v))

Nonzero(block) == {k \in 1..CELLS - 1 : block[Zig(k)] # 0}
RunBefore(block, k) == k - Max({0} \union {j \in Nonzero(block) : j < k}) - 1

\* the pair that codes coefficient k, after as many ZRL as its run takes
PairOf(block, k) == <<RunBefore(block, k) % (RunMax + 1), Category(block[Zig(k)])>>

\* Are all the codes of the block in the standard tables?
Encodable(block, pred, dc, ac) ==
    /\ Has(dc, Category(block[Zig(0)] - pred))
    /\ \A k \in Nonzero(block) : Has(ac, PairOf(block, k))

encode_block(block, pred, dc, ac) ==
    LET diff == block[Zig(0)] - pred
        Coded(k) ==
            IF k \notin Nonzero(block) THEN <<>>
            ELSE Repeat(CodeOf(ac, <<RunMax, 0>>), RunBefore(block, k) \div (RunMax + 1))
                 \o CodeOf(ac, PairOf(block, k)) \o Magnitude(block[Zig(k)])
    IN  CodeOf(dc, Category(diff)) \o Magnitude(diff)
        \o FlattenSeq([k \in 1..CELLS - 1 |-> Coded(k)])
        \o IF CELLS - 1 \in Nonzero(block) THEN <<>> ELSE CodeOf(ac, <<0, 0>>)

-----------------------------------------------------------------------------
(* The bytes of a scan *)

\* BitWriter: whole bytes, the last one filled up with ones, a zero after each FF
pack(bits) ==
    LET whole == bits \o Repeat(<<1>>, (BITS - (Len(bits) % BITS)) % BITS)
        byte(j) == Number(SubSeq(whole, (j - 1) * BITS + 1, j * BITS))
    IN  FlattenSeq([j \in 1..Len(whole) \div BITS |->
            IF byte(j) = FF THEN <<FF, 0>> ELSE <<byte(j)>>])

\* Where the first marker from p on starts.
MarkerFrom(data, p) ==
    Min({q \in p..Len(data) : data[q] = FF /\ (q = Len(data) \/ data[q + 1] # 0)}
        \union {Len(data) + 1})

\* BitReader: the bits up to the next marker, without the stuffed zeroes
BitsFrom(data, p) ==
    LET end == MarkerFrom(data, p)
        stuffed(j) == j > p /\ data[j] = 0 /\ data[j - 1] = FF
    IN  FlattenSeq([n \in 1..end - p |->
            IF stuffed(p + n - 1) THEN <<>> ELSE BitsOf(data[p + n - 1], BITS)])

\* restart: all bytes are used up, and RST follows, perhaps after more bytes FF
AfterRestart(data, p, i) ==
    LET end == MarkerFrom(data, p)
        mark == Min({q \in end..Len(data) : data[q] # FF} \union {Len(data) + 1})
    IN  IF i + BITS <= Len(BitsFrom(data, p)) \/ mark > Len(data) THEN Nothing
        ELSE IF data[mark] # RST THEN Nothing ELSE mark + 1

\* The blocks of a scan in its order, MCU by MCU and in it component by component.
Units(comps, mcus_x, mcus_y) ==
    LET McuUnits(m) ==
            FlattenSeq([c \in DOMAIN comps |->
                [j \in 1..comps[c].h * comps[c].v |->
                    [comp |-> c, mcu |-> m, first |-> c = 1 /\ j = 1,
                     x |-> (m % mcus_x) * comps[c].h + ((j - 1) % comps[c].h),
                     y |-> (m \div mcus_x) * comps[c].v + (j - 1) \div comps[c].h]]])
    IN  FlattenSeq([m \in 1..mcus_x * mcus_y |-> McuUnits(m - 1)])

-----------------------------------------------------------------------------
(* The header *)

NoHeader == [ok |-> TRUE, kept |-> <<>>, dqt |-> <<>>, huff |-> {}, interval |-> 0,
             width |-> 0, height |-> 0, comps |-> <<>>]

\* One segment; a later Huffman table takes the place of one with its class and number.
ReadSegment(hd, s) ==
    CASE s.is = "APPn" -> [hd EXCEPT !.kept = Append(@, s)]
      [] s.is = "DQT"  -> [hd EXCEPT !.dqt = @ \o s.tables, !.ok = @ /\ ~s.wide]
      [] s.is = "DHT"  -> [hd EXCEPT !.huff =
                {t \in @ : \A u \in ToSet(s.tables) : <<u.class, u.id>> # <<t.class, t.id>>}
                    \union ToSet(s.tables)]
      [] s.is = "SOF0" -> [hd EXCEPT !.width = s.width, !.height = s.height,
                                     !.comps = @ \o s.comps]
      [] s.is = "DRI"  -> [hd EXCEPT !.interval = s.interval]
      [] s.is = "SOF2" -> [hd EXCEPT !.ok = FALSE]
      [] OTHER         -> hd

Header(f) == FoldLeft(ReadSegment, NoHeader, f.segments)

\* the number of a component's table, 0 if the scan does not name the component
TableOf(f, class, id) ==
    IF \E s \in ToSet(f.sos) : s.id = id
    THEN (CHOOSE s \in ToSet(f.sos) : s.id = id)[class] ELSE 0

Huff(hd, f, class, comp) ==
    {t \in hd.huff : t.class = class /\ t.id = TableOf(f, class, comp.id)}

Hmax(comps) == Max({comps[c].h : c \in DOMAIN comps})
Vmax(comps) == Max({comps[c].v : c \in DOMAIN comps})
McusX(hd) == hd.width \div (EDGE * Hmax(hd.comps))
McusY(hd) == hd.height \div (EDGE * Vmax(hd.comps))
GridW(hd, c) == McusX(hd) * hd.comps[c].h
GridH(hd, c) == McusY(hd) * hd.comps[c].v

\* Baseline, no block cut by the edge, and not too large.
InScope(hd) ==
    /\ hd.ok /\ hd.width > 0 /\ hd.height > 0 /\ hd.comps # <<>>
    /\ hd.width <= MaxDim /\ hd.height <= MaxDim
    /\ Hmax(hd.comps) > 0 /\ Vmax(hd.comps) > 0
    /\ hd.width % (EDGE * Hmax(hd.comps)) = 0
    /\ hd.height % (EDGE * Vmax(hd.comps)) = 0
    /\ Total([c \in DOMAIN hd.comps |-> GridW(hd, c) * GridH(hd, c)]) <= MaxCells

-----------------------------------------------------------------------------
(* The scan *)

\* The reader of a scan: the stretch of bits it is in, which starts at p, its place in it,
\* the predictors and the blocks read so far.
StartAt(data, p, st) ==
    [st EXCEPT !.p = p, !.bits = BitsFrom(data, p), !.i = 0,
               !.preds = [c \in DOMAIN @ |-> 0]]

AtInterval(hd, u) ==
    u.first /\ hd.interval > 0 /\ u.mcu > 0 /\ u.mcu % hd.interval = 0

\* the reader at a unit: after a restart marker if an interval is over there
Here(hd, f, st, u, from) ==
    IF ~AtInterval(hd, u) THEN st
    ELSE IF from = Nothing THEN [st EXCEPT !.ok = FALSE]
    ELSE StartAt(f.scan, from, st)

TakeBlock(st, u, b) ==
    IF b = Nothing THEN [st EXCEPT !.ok = FALSE]
    ELSE [st EXCEPT !.ok = b.ok, !.i = b.i, !.preds[u.comp] = b.block[Zig(0)],
                    !.blocks[u.comp][<<u.x, u.y>>] = b.block]

ReadBlock(st, u, dc, ac) ==
    IF ~st.ok \/ dc = {} \/ ac = {} THEN [st EXCEPT !.ok = FALSE]
    ELSE TakeBlock(st, u, decode_block(st.bits, st.i, st.preds[u.comp],
                        build_dec(CHOOSE t \in dc : TRUE), build_dec(CHOOSE t \in ac : TRUE)))

ReadUnit(hd, f, st, u) ==
    ReadBlock(Here(hd, f, st, u, AfterRestart(f.scan, st.p, st.i)), u,
              Huff(hd, f, "dc", hd.comps[u.comp]), Huff(hd, f, "ac", hd.comps[u.comp]))

\* The blocks of each component, or Nothing where the data ends or has no such code.
BlocksOf(end) == IF end.ok THEN end.blocks ELSE Nothing

decode_scan(hd, f) ==
    BlocksOf(FoldLeft(LAMBDA st, u : IF st.ok THEN ReadUnit(hd, f, st, u) ELSE st,
                      [ok |-> TRUE, p |-> 1, bits |-> BitsFrom(f.scan, 1), i |-> 0,
                       preds |-> [c \in DOMAIN hd.comps |-> 0],
                       blocks |-> [c \in DOMAIN hd.comps |->
                            [g \in Grid(GridW(hd, c), GridH(hd, c)) |-> [k \in Cells |-> 0]]]],
                      Units(hd.comps, McusX(hd), McusY(hd))))

\* The block of unit u is coded against the one before it of its component.
Before(units, n) ==
    LET same == {m \in 1..n - 1 : units[m].comp = units[n].comp}
    IN  IF same = {} THEN 0 ELSE Max(same)

\* component 0 is written with the luma tables, the others with those of chroma
Std(tables, c) == IF c = 1 THEN tables[1] ELSE tables[2]

\* The data of a scan, or Nothing if a coefficient has no code.
encode_scan(comps, mcus_x, mcus_y, blocks) ==
    LET units == Units(comps, mcus_x, mcus_y)
        block(n) == blocks[units[n].comp][<<units[n].x, units[n].y>>]
        pred(n) == IF Before(units, n) = 0 THEN 0 ELSE block(Before(units, n))[Zig(0)]
    IN  IF \A n \in DOMAIN units :
                Encodable(block(n), pred(n), Std(StdDc, units[n].comp), Std(StdAc, units[n].comp))
        THEN pack(FlattenSeq([n \in DOMAIN units |->
                encode_block(block(n), pred(n), Std(StdDc, units[n].comp), Std(StdAc, units[n].comp))]))
        ELSE Nothing

-----------------------------------------------------------------------------
(* The transform *)

\* mutant: the quantization table stays as it is
transpose_qtable_not(zz) == zz

transpose_qtable(zz) ==
    LET nat == [c \in Cells |-> zz[CHOOSE k \in 1..CELLS : Zig(k - 1) = c]]
    IN  [k \in 1..CELLS |-> nat[Swap(Zig(k - 1))]]

build_dqt(dqt, transpose) ==
    [is |-> "DQT", wide |-> FALSE,
     tables |-> [n \in DOMAIN dqt |->
        [dqt[n] EXCEPT !.values = IF transpose THEN transpose_qtable(@) ELSE @]]]

build_dht ==
    [is |-> "DHT", tables |->
        <<[StdDc[1] EXCEPT !.id = 0], [StdDc[2] EXCEPT !.id = 1],
          [StdAc[1] EXCEPT !.id = 0], [StdAc[2] EXCEPT !.id = 1]>>]

build_sos(comps) ==
    [c \in DOMAIN comps |-> LET t == IF c = 1 THEN 0 ELSE 1
                            IN  [id |-> comps[c].id, dc |-> t, ac |-> t]]

Upended(comps) == [c \in DOMAIN comps |-> [comps[c] EXCEPT !.h = comps[c].v, !.v = comps[c].h]]

\* the new file around a new scan
Assembled(hd, comps, op, scan) ==
    LET t == Transposes(op)
        frame == [is |-> "SOF0", comps |-> comps,
                  width |-> IF t THEN hd.height ELSE hd.width,
                  height |-> IF t THEN hd.width ELSE hd.height]
    IN  IF scan = Nothing THEN Nothing
        ELSE [is |-> "jpeg",
              segments |-> hd.kept \o <<build_dqt(hd.dqt, t), build_dht, frame>>,
              sos |-> build_sos(comps), scan |-> scan \o <<FF, EOI>>, picture |-> Nothing]

TurnedScan(hd, comps, op, blocks) ==
    IF blocks = Nothing THEN Nothing
    ELSE encode_scan(comps, IF Transposes(op) THEN McusY(hd) ELSE McusX(hd),
                     IF Transposes(op) THEN McusX(hd) ELSE McusY(hd),
                     [c \in DOMAIN comps |-> turn_blocks(op, GridW(hd, c), GridH(hd, c), blocks[c])])

Transformed(hd, comps, f, op) ==
    IF InScope(hd)
    THEN Assembled(hd, comps, op, TurnedScan(hd, comps, op, decode_scan(hd, f)))
    ELSE Nothing

TransformedBy(hd, f, op) ==
    Transformed(hd, IF Transposes(op) THEN Upended(hd.comps) ELSE hd.comps, f, op)

\* The new file, or Nothing.
transform(f, op) == TransformedBy(Header(f), f, op)

-----------------------------------------------------------------------------
(* What a decoder shows: a picture has a width, a height and a tuple of samples at *)
(* each place. The turns of a picture are the image crate's.                         *)

\* the quantizer of a component by cells; a later table takes the place of an earlier one
Quantizer(hd, comp) ==
    LET n == Max({k \in DOMAIN hd.dqt : hd.dqt[k].id = comp.tq})
    IN  [c \in Cells |-> hd.dqt[n].values[CHOOSE k \in 1..CELLS : Zig(k - 1) = c]]

\* what a decoder shows at a place of a block
ShownAt(block, q, x, y) ==
    SumFunctionOnSet([p \in Cells |-> block[p] * q[p] * Wave[p[1]][y] * Wave[p[2]][x]], Cells)

Sample(hd, blocks, c, x, y) ==
    ShownAt(blocks[c][<<x \div EDGE, y \div EDGE>>], Quantizer(hd, hd.comps[c]), x % EDGE, y % EDGE)

\* A component has fewer samples than the picture has places if it is sampled coarser.
Picture(hd, blocks) ==
    [w |-> hd.width, h |-> hd.height,
     at |-> [p \in Grid(hd.width, hd.height) |->
        [c \in DOMAIN hd.comps |->
            Sample(hd, blocks, c, (p[1] * hd.comps[c].h) \div Hmax(hd.comps),
                                  (p[2] * hd.comps[c].v) \div Vmax(hd.comps))]]]

Turned(pic, op) ==
    CASE op = "Rot90"  -> [w |-> pic.h, h |-> pic.w,
                           at |-> [p \in Grid(pic.h, pic.w) |-> pic.at[<<p[2], pic.h - 1 - p[1]>>]]]
      [] op = "FlipH"  -> [pic EXCEPT !.at = [p \in DOMAIN @ |-> @[<<pic.w - 1 - p[1], p[2]>>]]]
      [] op = "FlipV"  -> [pic EXCEPT !.at = [p \in DOMAIN @ |-> @[<<p[1], pic.h - 1 - p[2]>>]]]
      [] op = "Rot180" -> [pic EXCEPT !.at = [p \in DOMAIN @ |-> @[<<pic.w - 1 - p[1], pic.h - 1 - p[2]>>]]]
      [] op = "Rot270" -> [w |-> pic.h, h |-> pic.w,
                           at |-> [p \in Grid(pic.h, pic.w) |-> pic.at[<<pic.w - 1 - p[2], p[1]>>]]]

apply_exif_orientation(pic, o) ==
    CASE o = 2 -> Turned(pic, "FlipH")
      [] o = 3 -> Turned(pic, "Rot180")
      [] o = 4 -> Turned(pic, "FlipV")
      [] o = 5 -> Turned(Turned(pic, "Rot90"), "FlipH")
      [] o = 6 -> Turned(pic, "Rot90")
      [] o = 7 -> Turned(Turned(pic, "Rot270"), "FlipH")
      [] o = 8 -> Turned(pic, "Rot270")
      [] OTHER -> pic

\* the orientation among the kept segments, 1 where there is none
exif_orientation(f) ==
    LET tags == Header(f).kept
    IN  IF tags = <<>> THEN 1 ELSE Head(tags).orientation

PictureOf(hd, blocks) == IF blocks = Nothing THEN Nothing ELSE Picture(hd, blocks)
DecodedBy(hd, f) == PictureOf(hd, decode_scan(hd, f))
Oriented(pic, o) == IF pic = Nothing THEN Nothing ELSE apply_exif_orientation(pic, o)

\* The decoded file as the program and every viewer show it.
decode_full(f) ==
    Oriented(IF f.picture # Nothing THEN f.picture ELSE DecodedBy(Header(f), f), exif_orientation(f))

-----------------------------------------------------------------------------
(* The verb *)

TurnInit == edited \in Sources /\ wanted = decode_full(edited)

\* What is encoded anew carries no tag, and its coefficients are not followed further.
Reencoded(pic) == [is |-> "pixels", segments |-> <<>>, sos |-> <<>>, scan |-> <<>>, picture |-> pic]

OrElse(out, pixels) == IF out # Nothing THEN out ELSE pixels

transform_file(op) ==
    /\ edited.is = "jpeg"
    /\ wanted' = Turned(wanted, op)
    /\ edited' = OrElse(transform(edited, op), Reencoded(Turned(decode_full(edited), op)))

TurnNext == \E op \in Ops : transform_file(op)
TurnSpec == TurnInit /\ [][TurnNext]_turnVars

-----------------------------------------------------------------------------
(* Properties *)

TurnTypeOK ==
    /\ edited.is \in {"jpeg", "pixels"}
    /\ DOMAIN wanted.at = Grid(wanted.w, wanted.h)

\* However often a picture is turned, and whichever of the two paths takes it each time, what
\* a decoder shows is the picture turned just so: the blocks, the signs in them, the quantizer,
\* the sampling and the codes agree (jpegtran.rs:13, "decode(transform(jpeg)) equals
\* rotate(decode(jpeg)) exactly"). A tag that is applied after the turn and does not commute
\* with it is left out: such a picture is turned otherwise by this path than by the pixels'.
PlainAsTurned == exif_orientation(edited) \in {1, 3} => decode_full(edited) = wanted
=============================================================================
