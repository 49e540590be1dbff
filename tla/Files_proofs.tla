---------------------------- MODULE Files_proofs ----------------------------
(* Theorems about what writes files. The folder verbs lose no file and count what     *)
(* they moved, and the batch of the command line made what it says, for any runs,     *)
(* files and other programs; the lossless turns lose no block, and compose as turns   *)
(* of pictures do, for any sizes; ImageMagick's children stay within their permits,   *)
(* for any calls and length of output.                                                *)
EXTENDS LosslessTransform, Batch, FolderVerbs, Magick, ListLemmas, FiniteSetTheorems, TLAPS

-----------------------------------------------------------------------------
(* The turns                                                                          *)

Block == [Cells -> Int]

\* The turn that undoes op.
UndoOf(op) == CASE op = "Rot90"  -> "Rot270"
                 [] op = "Rot270" -> "Rot90"
                 [] op \in {"Rot180", "FlipH", "FlipV"} -> op

NewWidth(op, gw, gh) == IF Transposes(op) THEN gh ELSE gw
NewHeight(op, gw, gh) == IF Transposes(op) THEN gw ELSE gh

LEMMA GridPairs ==
    ASSUME NEW gw \in Nat, NEW gh \in Nat, NEW p \in Grid(gw, gh)
    PROVE  /\ p = <<p[1], p[2]>>
           /\ p[1] \in 0..gw - 1 /\ p[2] \in 0..gh - 1
  BY DEF Grid

LEMMA DstAt ==
    ASSUME NEW gw, NEW gh, NEW p
    PROVE  /\ dst_pos("Rot90", gw, gh, p) = <<gh - 1 - p[2], p[1]>>
           /\ dst_pos("Rot270", gw, gh, p) = <<p[2], gw - 1 - p[1]>>
           /\ dst_pos("Rot180", gw, gh, p) = <<gw - 1 - p[1], gh - 1 - p[2]>>
           /\ dst_pos("FlipH", gw, gh, p) = <<gw - 1 - p[1], p[2]>>
           /\ dst_pos("FlipV", gw, gh, p) = <<p[1], gh - 1 - p[2]>>
  BY DEF dst_pos

LEMMA DstInGrid ==
    ASSUME NEW op \in Ops, NEW gw \in Nat, NEW gh \in Nat, NEW p \in Grid(gw, gh)
    PROVE  dst_pos(op, gw, gh, p) \in NewGrid(op, gw, gh)
  <1>1. p[1] \in 0..gw - 1 /\ p[2] \in 0..gh - 1
    BY GridPairs
  <1>2. CASE op \in {"Rot90", "Rot270"}
    BY <1>1, <1>2 DEF dst_pos, NewGrid, Transposes, Grid
  <1>3. CASE op \in {"Rot180", "FlipH", "FlipV"}
    BY <1>1, <1>3 DEF dst_pos, NewGrid, Transposes, Grid
  <1>4. QED
    BY <1>2, <1>3 DEF Ops

LEMMA DstInjective ==
    ASSUME NEW op \in Ops, NEW gw \in Nat, NEW gh \in Nat,
           NEW p \in Grid(gw, gh), NEW q \in Grid(gw, gh),
           dst_pos(op, gw, gh, p) = dst_pos(op, gw, gh, q)
    PROVE  p = q
  <1>1. /\ p = <<p[1], p[2]>> /\ p[1] \in 0..gw - 1 /\ p[2] \in 0..gh - 1
        /\ q = <<q[1], q[2]>> /\ q[1] \in 0..gw - 1 /\ q[2] \in 0..gh - 1
    BY GridPairs
  <1>2. p[1] = q[1] /\ p[2] = q[2]
    <2>1. CASE op = "Rot90"   BY <1>1, <2>1 DEF dst_pos
    <2>2. CASE op = "Rot270"  BY <1>1, <2>2 DEF dst_pos
    <2>3. CASE op = "Rot180"  BY <1>1, <2>3 DEF dst_pos
    <2>4. CASE op = "FlipH"   BY <1>1, <2>4 DEF dst_pos
    <2>5. CASE op = "FlipV"   BY <1>1, <2>5 DEF dst_pos
    <2>6. QED BY <2>1, <2>2, <2>3, <2>4, <2>5 DEF Ops
  <1>3. QED
    BY <1>1, <1>2

\* What is at a place of the new grid came from the place the inverse turn sends it to.
LEMMA DstBack ==
    ASSUME NEW op \in Ops, NEW gw \in Nat, NEW gh \in Nat, NEW q \in NewGrid(op, gw, gh)
    PROVE  LET p == dst_pos(UndoOf(op), NewWidth(op, gw, gh), NewHeight(op, gw, gh), q)
           IN  p \in Grid(gw, gh) /\ dst_pos(op, gw, gh, p) = q
  <1> DEFINE p == dst_pos(UndoOf(op), NewWidth(op, gw, gh), NewHeight(op, gw, gh), q)
  <1>1. CASE op \in {"Rot90", "Rot270"}
    <2>1. q \in Grid(gh, gw)
      BY <1>1 DEF NewGrid, Transposes
    <2>2. q = <<q[1], q[2]>> /\ q[1] \in 0..gh - 1 /\ q[2] \in 0..gw - 1
      BY <2>1, GridPairs
    <2>3. CASE op = "Rot90"
      <3>1. p = <<q[2], gh - 1 - q[1]>>
        BY <2>3 DEF dst_pos, UndoOf, NewWidth, Transposes
      <3>2. p \in Grid(gw, gh)
        BY <3>1, <2>2 DEF Grid
      <3> HIDE DEF p
      <3>3. dst_pos(op, gw, gh, p) = <<gh - 1 - p[2], p[1]>>
        BY <2>3, DstAt
      <3>4. p[1] = q[2] /\ p[2] = gh - 1 - q[1]
        BY <3>1
      <3>5. dst_pos(op, gw, gh, p) = q
        BY <3>3, <3>4, <2>2
      <3>6. QED BY <3>2, <3>5 DEF p
    <2>4. CASE op = "Rot270"
      <3>1. p = <<gw - 1 - q[2], q[1]>>
        BY <2>4 DEF dst_pos, UndoOf, NewHeight, Transposes
      <3>2. p \in Grid(gw, gh)
        BY <3>1, <2>2 DEF Grid
      <3> HIDE DEF p
      <3>3. dst_pos(op, gw, gh, p) = <<p[2], gw - 1 - p[1]>>
        BY <2>4, DstAt
      <3>4. p[1] = gw - 1 - q[2] /\ p[2] = q[1]
        BY <3>1
      <3>5. dst_pos(op, gw, gh, p) = q
        BY <3>3, <3>4, <2>2
      <3>6. QED BY <3>2, <3>5 DEF p
    <2>5. QED BY <1>1, <2>3, <2>4
  <1>2. CASE op \in {"Rot180", "FlipH", "FlipV"}
    <2>1. q \in Grid(gw, gh)
      BY <1>2 DEF NewGrid, Transposes
    <2>2. q = <<q[1], q[2]>> /\ q[1] \in 0..gw - 1 /\ q[2] \in 0..gh - 1
      BY <2>1, GridPairs
    <2>3. p = dst_pos(op, gw, gh, q)
      BY <1>2 DEF UndoOf, NewWidth, NewHeight, Transposes
    <2>4. p \in Grid(gw, gh)
      BY <1>2, <2>1, <2>3, DstInGrid DEF NewGrid, Transposes
    <2>5. dst_pos(op, gw, gh, p) = q
      <3> HIDE DEF p
      <3>1. CASE op = "Rot180"
        <4>1. p = <<gw - 1 - q[1], gh - 1 - q[2]>>
          BY <3>1, <2>3, DstAt
        <4>2. dst_pos(op, gw, gh, p) = <<gw - 1 - p[1], gh - 1 - p[2]>>
          BY <3>1, DstAt
        <4>3. QED BY <4>1, <4>2, <2>2
      <3>2. CASE op = "FlipH"
        <4>1. p = <<gw - 1 - q[1], q[2]>>
          BY <3>2, <2>3, DstAt
        <4>2. dst_pos(op, gw, gh, p) = <<gw - 1 - p[1], p[2]>>
          BY <3>2, DstAt
        <4>3. QED BY <4>1, <4>2, <2>2
      <3>3. CASE op = "FlipV"
        <4>1. p = <<q[1], gh - 1 - q[2]>>
          BY <3>3, <2>3, DstAt
        <4>2. dst_pos(op, gw, gh, p) = <<p[1], gh - 1 - p[2]>>
          BY <3>3, DstAt
        <4>3. QED BY <4>1, <4>2, <2>2
      <3>4. QED BY <1>2, <3>1, <3>2, <3>3
    <2>6. QED BY <2>4, <2>5
  <1>3. QED
    BY <1>1, <1>2 DEF Ops

\* Every place of the new grid takes exactly one block: none is lost, none written over, and
\* none of the zeroes a new grid starts with is left (the loop of jpegtran.rs over the grid).
THEOREM EveryBlockHasOnePlace ==
    ASSUME NEW op \in Ops, NEW gw \in Nat, NEW gh \in Nat
    PROVE  \A q \in NewGrid(op, gw, gh) :
             \E p \in Grid(gw, gh) :
               /\ dst_pos(op, gw, gh, p) = q
               /\ \A o \in Grid(gw, gh) : dst_pos(op, gw, gh, o) = q => o = p
  <1> SUFFICES ASSUME NEW q \in NewGrid(op, gw, gh)
               PROVE  \E p \in Grid(gw, gh) :
                        /\ dst_pos(op, gw, gh, p) = q
                        /\ \A o \in Grid(gw, gh) : dst_pos(op, gw, gh, o) = q => o = p
    OBVIOUS
  <1>1. PICK p \in Grid(gw, gh) : dst_pos(op, gw, gh, p) = q
    BY DstBack
  <1>2. \A o \in Grid(gw, gh) : dst_pos(op, gw, gh, o) = q => o = p
    BY <1>1, DstInjective
  <1>3. QED
    BY <1>1, <1>2

LEMMA BlockLands ==
    ASSUME NEW op \in Ops, NEW gw \in Nat, NEW gh \in Nat, NEW blocks, NEW p \in Grid(gw, gh)
    PROVE  turn_blocks(op, gw, gh, blocks)[dst_pos(op, gw, gh, p)] = xform_block(blocks[p], op)
  <1> DEFINE q == dst_pos(op, gw, gh, p)
             From == CHOOSE o \in Grid(gw, gh) : dst_pos(op, gw, gh, o) = q
  <1>1. q \in NewGrid(op, gw, gh)
    BY DstInGrid
  <1>2. From \in Grid(gw, gh) /\ dst_pos(op, gw, gh, From) = q
    OBVIOUS
  <1>3. From = p
    BY <1>2, DstInjective
  <1>4. turn_blocks(op, gw, gh, blocks)[q] = xform_block(blocks[From], op)
    BY <1>1, <1>2 DEF turn_blocks
  <1>5. QED
    BY <1>3, <1>4

LEMMA CellPairs ==
    ASSUME NEW c \in Cells
    PROVE  /\ c = <<c[1], c[2]>> /\ c[1] \in Nat /\ c[2] \in Nat
           /\ Swap(c) \in Cells /\ Swap(Swap(c)) = c
           /\ Swap(c)[1] = c[2] /\ Swap(c)[2] = c[1]
  BY EdgeAssumption DEF Cells, Swap

LEMMA XformType ==
    ASSUME NEW op \in Ops, NEW b \in Block
    PROVE  xform_block(b, op) \in Block
  <1>1. \A c \in Cells : b[c] \in Int /\ -b[c] \in Int /\ b[Swap(c)] \in Int /\ -b[Swap(c)] \in Int
    BY CellPairs DEF Block
  <1>2. QED
    BY <1>1 DEF xform_block, Block

\* One coefficient of a turned block.
LEMMA XformAt ==
    ASSUME NEW op \in Ops, NEW b, NEW c \in Cells
    PROVE  xform_block(b, op)[c] =
             LET p == IF Transposes(op) THEN Swap(c) ELSE c
             IN  IF Negates(op, p) THEN -b[p] ELSE b[p]
  BY DEF xform_block

\* A block turned and turned back is what it was.
LEMMA XformBack ==
    ASSUME NEW op \in Ops, NEW b \in Block
    PROVE  xform_block(xform_block(b, op), UndoOf(op)) = b
  <1> DEFINE t == xform_block(b, op)
             u == xform_block(t, UndoOf(op))
  <1>1. ASSUME NEW c \in Cells
        PROVE  u[c] = b[c]
    <2>1. /\ c[1] \in Nat /\ c[2] \in Nat /\ Swap(c) \in Cells /\ Swap(Swap(c)) = c
          /\ Swap(c)[1] = c[2] /\ Swap(c)[2] = c[1]
      BY CellPairs
    <2>2. b[c] \in Int
      BY DEF Block
    <2>3. CASE op = "Rot90"
      <3>1. u[c] = IF c[1] % 2 = 1 THEN -t[Swap(c)] ELSE t[Swap(c)]
        BY <2>1, <2>3, XformAt DEF UndoOf, Transposes, Negates, Ops
      <3>2. t[Swap(c)] = IF c[1] % 2 = 1 THEN -b[c] ELSE b[c]
        <4>1. t[Swap(c)] = IF Negates(op, c) THEN -b[c] ELSE b[c]
          BY <2>1, <2>3, XformAt DEF Transposes
        <4>2. Negates(op, c) <=> c[1] % 2 = 1
          BY <2>3 DEF Negates
        <4>3. QED BY <4>1, <4>2
      <3>3. QED BY <2>2, <3>1, <3>2
    <2>4. CASE op = "Rot270"
      <3>1. u[c] = IF c[2] % 2 = 1 THEN -t[Swap(c)] ELSE t[Swap(c)]
        BY <2>1, <2>4, XformAt DEF UndoOf, Transposes, Negates, Ops
      <3>2. t[Swap(c)] = IF c[2] % 2 = 1 THEN -b[c] ELSE b[c]
        <4>1. t[Swap(c)] = IF Negates(op, c) THEN -b[c] ELSE b[c]
          BY <2>1, <2>4, XformAt DEF Transposes
        <4>2. Negates(op, c) <=> c[2] % 2 = 1
          BY <2>4 DEF Negates
        <4>3. QED BY <4>1, <4>2
      <3>3. QED BY <2>2, <3>1, <3>2
    <2>5. CASE op \in {"Rot180", "FlipH", "FlipV"}
      <3>1. u[c] = IF Negates(op, c) THEN -t[c] ELSE t[c]
        BY <2>5, XformAt DEF UndoOf, Transposes
      <3>2. t[c] = IF Negates(op, c) THEN -b[c] ELSE b[c]
        BY <2>5, XformAt DEF Transposes
      <3>3. QED BY <2>2, <3>1, <3>2
    <2>6. QED
      BY <2>3, <2>4, <2>5 DEF Ops
  <1>2. u = [c \in Cells |-> u[c]] /\ b = [c \in Cells |-> b[c]]
    BY DEF xform_block, Block
  <1>3. QED
    BY <1>1, <1>2

\* A turn followed by its inverse gives back every block of every component unchanged, so
\* that no number of turns loses anything (jpegtran.rs:3, "zero quality loss").
THEOREM TurnsBack ==
    ASSUME NEW op \in Ops, NEW gw \in Nat, NEW gh \in Nat, NEW blocks \in [Grid(gw, gh) -> Block]
    PROVE  turn_blocks(UndoOf(op), NewWidth(op, gw, gh), NewHeight(op, gw, gh),
                       turn_blocks(op, gw, gh, blocks)) = blocks
  <1> DEFINE nw == NewWidth(op, gw, gh)
             nh == NewHeight(op, gw, gh)
             turned == turn_blocks(op, gw, gh, blocks)
             back == turn_blocks(UndoOf(op), nw, nh, turned)
  <1>1. /\ nw \in Nat /\ nh \in Nat /\ UndoOf(op) \in Ops
        /\ NewGrid(op, gw, gh) = Grid(nw, nh)
        /\ NewGrid(UndoOf(op), nw, nh) = Grid(gw, gh)
        /\ UndoOf(UndoOf(op)) = op
        /\ NewWidth(UndoOf(op), nw, nh) = gw /\ NewHeight(UndoOf(op), nw, nh) = gh
    <2>1. CASE op \in {"Rot90", "Rot270"}
      BY <2>1 DEF NewWidth, NewHeight, NewGrid, UndoOf, Ops, Transposes
    <2>2. CASE op \in {"Rot180", "FlipH", "FlipV"}
      BY <2>2 DEF NewWidth, NewHeight, NewGrid, UndoOf, Ops, Transposes
    <2>3. QED
      BY <2>1, <2>2 DEF Ops
  <1> HIDE DEF nw, nh
  <1>2. ASSUME NEW p \in Grid(gw, gh)
        PROVE  back[p] = blocks[p]
    <2> DEFINE q == dst_pos(op, gw, gh, p)
    <2>1. q \in Grid(nw, nh)
      BY <1>1, DstInGrid
    <2>2. dst_pos(UndoOf(op), nw, nh, q) = p
      <3>1. p \in NewGrid(UndoOf(op), nw, nh)
        BY <1>1
      <3>2. LET o == dst_pos(UndoOf(UndoOf(op)), NewWidth(UndoOf(op), nw, nh),
                             NewHeight(UndoOf(op), nw, nh), p)
            IN  o \in Grid(nw, nh) /\ dst_pos(UndoOf(op), nw, nh, o) = p
        BY <1>1, <3>1, DstBack
      <3>3. QED BY <1>1, <3>2
    <2>3. back[p] = xform_block(turned[q], UndoOf(op))
      <3>1. back[dst_pos(UndoOf(op), nw, nh, q)] = xform_block(turned[q], UndoOf(op))
        BY <1>1, <2>1, BlockLands
      <3>2. QED BY <2>2, <3>1
    <2>4. turned[q] = xform_block(blocks[p], op)
      BY BlockLands
    <2>5. blocks[p] \in Block
      OBVIOUS
    <2>6. QED
      BY <2>3, <2>4, <2>5, XformBack
  <1>3. back = [p \in Grid(gw, gh) |-> back[p]] /\ blocks = [p \in Grid(gw, gh) |-> blocks[p]]
    BY <1>1 DEF turn_blocks
  <1>4. QED
    BY <1>2, <1>3 DEF nw, nh

\* At each place of a turned block each wave has the height it had at the place the turn
\* brought there: so the block shows its picture turned, and no pixel need be decoded
\* (jpegtran.rs:12, "negating the odd-frequency rows/cols equals mirroring them").
THEOREM EachWaveTurns ==
    ASSUME NEW op \in Ops, NEW b \in Block, NEW c \in Cells,
           NEW x \in 0..EDGE - 1, NEW y \in 0..EDGE - 1
    PROVE  LET p == IF Transposes(op) THEN Swap(c) ELSE c
               from == dst_pos(UndoOf(op), EDGE, EDGE, <<x, y>>)
           IN  xform_block(b, op)[c] * Wave[c[1]][y] * Wave[c[2]][x]
                 = b[p] * Wave[p[1]][from[2]] * Wave[p[2]][from[1]]
  <1> DEFINE p == IF Transposes(op) THEN Swap(c) ELSE c
             from == dst_pos(UndoOf(op), EDGE, EDGE, <<x, y>>)
             mx == EDGE - 1 - x
             my == EDGE - 1 - y
  <1> SUFFICES xform_block(b, op)[c] * Wave[c[1]][y] * Wave[c[2]][x]
                 = b[p] * Wave[p[1]][from[2]] * Wave[p[2]][from[1]]
    OBVIOUS
  <1>1. /\ c[1] \in 0..EDGE - 1 /\ c[2] \in 0..EDGE - 1 /\ Swap(c) \in Cells
        /\ Swap(c)[1] = c[2] /\ Swap(c)[2] = c[1]
    BY CellPairs DEF Cells
  <1>2. b[c] \in Int /\ b[Swap(c)] \in Int
    BY <1>1 DEF Block
  <1>3. xform_block(b, op)[c] = IF Negates(op, p) THEN -b[p] ELSE b[p]
    BY XformAt
  <1>4. ASSUME NEW u \in 0..EDGE - 1, NEW z \in 0..EDGE - 1
        PROVE  /\ Wave[u][z] \in Int
               /\ Wave[u][EDGE - 1 - z] = IF u % 2 = 1 THEN -Wave[u][z] ELSE Wave[u][z]
    BY WaveAssumption
  <1>5. ASSUME NEW a \in Int, NEW v \in Int, NEW w \in Int
        PROVE  /\ (-a) * v * w = a * (-v) * w /\ (-a) * v * w = a * v * (-w)
               /\ a * (-v) * (-w) = a * v * w /\ a * v * w = a * w * v
    OBVIOUS
  <1>6. CASE op = "Rot90"
    <2>1. p = Swap(c) /\ p[1] = c[2] /\ p[2] = c[1] /\ b[p] \in Int
      BY <1>1, <1>2, <1>6 DEF Transposes
    <2>2. from[1] = y /\ from[2] = mx
      BY <1>6, DstAt DEF UndoOf
    <2>3. Negates(op, p) <=> c[2] % 2 = 1
      <3> HIDE DEF p
      <3>1. QED BY <1>6, <2>1 DEF Negates
    <2>4. /\ Wave[c[1]][y] \in Int /\ Wave[c[2]][x] \in Int
          /\ Wave[c[2]][mx] = IF c[2] % 2 = 1 THEN -Wave[c[2]][x] ELSE Wave[c[2]][x]
      BY <1>1, <1>4
    <2> HIDE DEF p, from, mx, my
    <2>5. b[p] * Wave[p[1]][from[2]] * Wave[p[2]][from[1]] = b[p] * Wave[c[2]][mx] * Wave[c[1]][y]
      BY <2>1, <2>2
    <2>6. CASE c[2] % 2 = 1
      <3>1. xform_block(b, op)[c] = -b[p] /\ Wave[c[2]][mx] = -Wave[c[2]][x]
        BY <1>3, <2>3, <2>4, <2>6
      <3>2. QED BY <1>5, <2>1, <2>4, <2>5, <3>1
    <2>7. CASE c[2] % 2 # 1
      <3>1. xform_block(b, op)[c] = b[p] /\ Wave[c[2]][mx] = Wave[c[2]][x]
        BY <1>3, <2>3, <2>4, <2>7
      <3>2. QED BY <1>5, <2>1, <2>4, <2>5, <3>1
    <2>8. QED BY <2>6, <2>7
  <1>7. CASE op = "Rot270"
    <2>1. p = Swap(c) /\ p[1] = c[2] /\ p[2] = c[1] /\ b[p] \in Int
      BY <1>1, <1>2, <1>7 DEF Transposes
    <2>2. from[1] = my /\ from[2] = x
      BY <1>7, DstAt DEF UndoOf
    <2>3. Negates(op, p) <=> c[1] % 2 = 1
      <3> HIDE DEF p
      <3>1. QED BY <1>7, <2>1 DEF Negates
    <2>4. /\ Wave[c[1]][y] \in Int /\ Wave[c[2]][x] \in Int
          /\ Wave[c[1]][my] = IF c[1] % 2 = 1 THEN -Wave[c[1]][y] ELSE Wave[c[1]][y]
      BY <1>1, <1>4
    <2> HIDE DEF p, from, mx, my
    <2>5. b[p] * Wave[p[1]][from[2]] * Wave[p[2]][from[1]] = b[p] * Wave[c[2]][x] * Wave[c[1]][my]
      BY <2>1, <2>2
    <2>6. CASE c[1] % 2 = 1
      <3>1. xform_block(b, op)[c] = -b[p] /\ Wave[c[1]][my] = -Wave[c[1]][y]
        BY <1>3, <2>3, <2>4, <2>6
      <3>2. QED BY <1>5, <2>1, <2>4, <2>5, <3>1
    <2>7. CASE c[1] % 2 # 1
      <3>1. xform_block(b, op)[c] = b[p] /\ Wave[c[1]][my] = Wave[c[1]][y]
        BY <1>3, <2>3, <2>4, <2>7
      <3>2. QED BY <1>5, <2>1, <2>4, <2>5, <3>1
    <2>8. QED BY <2>6, <2>7
  <1>8. CASE op = "FlipH"
    <2>1. p = c /\ from[1] = mx /\ from[2] = y /\ (Negates(op, p) <=> c[2] % 2 = 1)
      BY <1>8, DstAt DEF UndoOf, Transposes, Negates
    <2>2. /\ Wave[c[1]][y] \in Int /\ Wave[c[2]][x] \in Int
          /\ Wave[c[2]][mx] = IF c[2] % 2 = 1 THEN -Wave[c[2]][x] ELSE Wave[c[2]][x]
      BY <1>1, <1>4
    <2>3. QED
      BY <1>2, <1>3, <1>5, <2>1, <2>2
  <1>9. CASE op = "FlipV"
    <2>1. p = c /\ from[1] = x /\ from[2] = my /\ (Negates(op, p) <=> c[1] % 2 = 1)
      BY <1>9, DstAt DEF UndoOf, Transposes, Negates
    <2>2. /\ Wave[c[1]][y] \in Int /\ Wave[c[2]][x] \in Int
          /\ Wave[c[1]][my] = IF c[1] % 2 = 1 THEN -Wave[c[1]][y] ELSE Wave[c[1]][y]
      BY <1>1, <1>4
    <2>3. QED
      BY <1>2, <1>3, <1>5, <2>1, <2>2
  <1>10. CASE op = "Rot180"
    <2>1. p = c /\ from[1] = mx /\ from[2] = my
      BY <1>10, DstAt DEF UndoOf, Transposes
    <2>2. Negates(op, p) <=> ~(c[1] % 2 = 1 <=> c[2] % 2 = 1)
      <3>1. Negates(op, p) <=> (c[1] + c[2]) % 2 = 1
        BY <1>10, <2>1 DEF Negates
      <3>2. QED BY <1>1, <3>1
    <2>3. /\ Wave[c[1]][y] \in Int /\ Wave[c[2]][x] \in Int
          /\ Wave[c[1]][my] = IF c[1] % 2 = 1 THEN -Wave[c[1]][y] ELSE Wave[c[1]][y]
          /\ Wave[c[2]][mx] = IF c[2] % 2 = 1 THEN -Wave[c[2]][x] ELSE Wave[c[2]][x]
      BY <1>1, <1>4
    <2>4. QED
      BY <1>2, <1>3, <1>5, <2>1, <2>2, <2>3
  <1>11. QED
    BY <1>6, <1>7, <1>8, <1>9, <1>10 DEF Ops

\* Two quarter turns make a half turn of every block.
LEMMA XformTwice ==
    ASSUME NEW b \in Block
    PROVE  xform_block(xform_block(b, "Rot90"), "Rot90") = xform_block(b, "Rot180")
  <1> DEFINE t == xform_block(b, "Rot90")
             u == xform_block(t, "Rot90")
             h == xform_block(b, "Rot180")
  <1>1. ASSUME NEW c \in Cells
        PROVE  u[c] = h[c]
    <2>1. /\ c[1] \in Nat /\ c[2] \in Nat /\ Swap(c) \in Cells /\ Swap(Swap(c)) = c
          /\ Swap(c)[1] = c[2] /\ Swap(c)[2] = c[1]
      BY CellPairs
    <2>2. b[c] \in Int
      BY DEF Block
    <2>3. u[c] = IF c[2] % 2 = 1 THEN -t[Swap(c)] ELSE t[Swap(c)]
      BY <2>1, XformAt DEF Transposes, Negates, Ops
    <2>4. t[Swap(c)] = IF c[1] % 2 = 1 THEN -b[c] ELSE b[c]
      BY <2>1, XformAt DEF Transposes, Negates, Ops
    <2>5. h[c] = IF (c[1] + c[2]) % 2 = 1 THEN -b[c] ELSE b[c]
      BY XformAt DEF Transposes, Negates, Ops
    <2>6. (c[1] + c[2]) % 2 = 1 <=> ~(c[1] % 2 = 1 <=> c[2] % 2 = 1)
      BY <2>1
    <2>7. QED
      BY <2>2, <2>3, <2>4, <2>5, <2>6
  <1>2. u = [c \in Cells |-> u[c]] /\ h = [c \in Cells |-> h[c]]
    BY DEF xform_block
  <1>3. QED
    BY <1>1, <1>2

\* Two quarter turns of a component are its half turn, whichever way the grid is shaped
\* (the test rot90_four_times_is_identity goes round twice).
THEOREM TwoQuartersAreAHalf ==
    ASSUME NEW gw \in Nat, NEW gh \in Nat, NEW blocks \in [Grid(gw, gh) -> Block]
    PROVE  turn_blocks("Rot90", gh, gw, turn_blocks("Rot90", gw, gh, blocks))
             = turn_blocks("Rot180", gw, gh, blocks)
  <1> DEFINE once == turn_blocks("Rot90", gw, gh, blocks)
             twice == turn_blocks("Rot90", gh, gw, once)
             half == turn_blocks("Rot180", gw, gh, blocks)
  <1>1. "Rot90" \in Ops /\ "Rot180" \in Ops
    BY DEF Ops
  <1>2. /\ NewGrid("Rot90", gw, gh) = Grid(gh, gw) /\ NewGrid("Rot90", gh, gw) = Grid(gw, gh)
        /\ NewGrid("Rot180", gw, gh) = Grid(gw, gh)
    BY DEF NewGrid, Transposes
  <1>3. ASSUME NEW q \in Grid(gw, gh)
        PROVE  twice[q] = half[q]
    <2>1. PICK p \in Grid(gw, gh) : dst_pos("Rot180", gw, gh, p) = q
      BY <1>1, <1>2, DstBack
    <2>2. p[1] \in 0..gw - 1 /\ p[2] \in 0..gh - 1
      BY GridPairs
    <2> DEFINE o == dst_pos("Rot90", gw, gh, p)
    <2>3. o \in Grid(gh, gw)
      BY <1>1, <1>2, DstInGrid
    <2>4. dst_pos("Rot90", gh, gw, o) = q
      BY <2>1, <2>2 DEF dst_pos
    <2>5. twice[q] = xform_block(once[o], "Rot90")
      <3>1. twice[dst_pos("Rot90", gh, gw, o)] = xform_block(once[o], "Rot90")
        BY <1>1, <2>3, BlockLands
      <3>2. QED BY <2>4, <3>1
    <2>6. once[o] = xform_block(blocks[p], "Rot90")
      BY <1>1, BlockLands
    <2>7. half[q] = xform_block(blocks[p], "Rot180")
      BY <1>1, <2>1, BlockLands
    <2>8. blocks[p] \in Block
      OBVIOUS
    <2>9. QED
      BY <2>5, <2>6, <2>7, <2>8, XformTwice
  <1>4. twice = [q \in Grid(gw, gh) |-> twice[q]] /\ half = [q \in Grid(gw, gh) |-> half[q]]
    BY <1>2 DEF turn_blocks
  <1>5. QED
    BY <1>3, <1>4

-----------------------------------------------------------------------------
(* The places of a turned picture                                                     *)

\* A number has one quotient and one rest.
LEMMA QuotientIs ==
    ASSUME NEW e \in Nat \ {0}, NEW a \in Int, NEW b \in 0..e - 1, NEW n \in Int, n = e * a + b
    PROVE  n \div e = a /\ n % e = b
<1>1. PICK q \in Int : q = n \div e OBVIOUS
<1>2. PICK r \in 0..e - 1 : r = n % e OBVIOUS
<1>3. n = e * q + r BY <1>1, <1>2
<1>4. e * (q - a) = b - r BY <1>3
<1>5. q = a
  <2>1. CASE q >= a + 1
    <3>1. PICK k \in Nat : q - a = k + 1 BY <2>1
    <3>2. e * (k + 1) = e * k + e /\ e * k \in Nat OBVIOUS
    <3> QED BY <1>4, <3>1, <3>2
  <2>2. CASE q <= a - 1
    <3>1. PICK k \in Nat : q - a = -(k + 1) BY <2>2
    <3>2. e * (-(k + 1)) = -(e * k) - e /\ e * k \in Nat OBVIOUS
    <3> QED BY <1>4, <3>1, <3>2
  <2> QED BY <2>1, <2>2
<1> QED BY <1>1, <1>2, <1>3, <1>5

\* A place in one of w stretches of r, and its mirror image.
LEMMA MirrorSplits ==
    ASSUME NEW r \in Nat \ {0}, NEW w \in Nat, NEW p \in 0..r * w - 1
    PROVE  /\ p \div r \in 0..w - 1 /\ p % r \in 0..r - 1
           /\ (r * w - 1 - p) \div r = w - 1 - (p \div r)
           /\ (r * w - 1 - p) % r = r - 1 - (p % r)
<1>0. r * w \in Nat /\ p \in Nat OBVIOUS
<1>1. PICK a \in Int : a = p \div r BY <1>0
<1>2. PICK b \in 0..r - 1 : b = p % r BY <1>0
<1>3. p = r * a + b BY <1>0, <1>1, <1>2
<1>4. a >= 0
  <2>1. SUFFICES ASSUME a <= -1 PROVE FALSE OBVIOUS
  <2>2. PICK k \in Nat : a = -(k + 1) BY <2>1
  <2>3. r * (-(k + 1)) = -(r * k) - r /\ r * k \in Nat OBVIOUS
  <2> QED BY <1>0, <1>3, <2>2, <2>3
<1>5. a <= w - 1
  <2>1. SUFFICES ASSUME a >= w PROVE FALSE OBVIOUS
  <2>2. PICK k \in Nat : a = w + k BY <2>1
  <2>3. r * (w + k) = r * w + r * k /\ r * k \in Nat OBVIOUS
  <2> QED BY <1>0, <1>3, <2>2, <2>3
<1>6. r * w - 1 - p = r * (w - 1 - a) + (r - 1 - b)
  <2>1. r * (w - 1 - a) = r * w - r - r * a OBVIOUS
  <2> QED BY <1>3, <2>1
<1>7. w - 1 - a \in Int /\ r - 1 - b \in 0..r - 1 /\ r * w - 1 - p \in Int OBVIOUS
<1>8. (r * w - 1 - p) \div r = w - 1 - a /\ (r * w - 1 - p) % r = r - 1 - b
  <2>1. PICK n \in Int : n = r * w - 1 - p BY <1>7
  <2>2. PICK c \in Int : c = w - 1 - a OBVIOUS
  <2>3. PICK d \in 0..r - 1 : d = r - 1 - b BY <1>7
  <2>4. n = r * c + d BY <1>6, <2>1, <2>2, <2>3
  <2>5. n \div r = c /\ n % r = d BY <2>4, QuotientIs
  <2> QED BY <2>1, <2>2, <2>3, <2>5
<1> QED BY <1>1, <1>2, <1>4, <1>5, <1>8

\* Sampling factors count only by what divides them.
LEMMA Scaled ==
    ASSUME NEW h \in Nat \ {0}, NEW r \in Nat \ {0}, NEW p \in Nat
    PROVE  (p * h) \div (r * h) = p \div r
<1>1. PICK a \in Int : a = p \div r OBVIOUS
<1>2. PICK b \in 0..r - 1 : b = p % r OBVIOUS
<1>3. p = r * a + b BY <1>1, <1>2
<1>4. PICK e \in Nat \ {0} : e = r * h OBVIOUS
<1>5. p * h = e * a + b * h BY <1>3, <1>4
<1>6. b * h \in 0..e - 1
  <2>9. r - b - 1 \in Nat BY <1>2
  <2>1. PICK k \in Nat : k = r - b - 1 BY <2>9
  <2>0. r = b + 1 + k BY <1>2, <2>1
  <2>2. e = b * h + h + k * h BY <1>4, <2>0
  <2>3. b * h \in Nat /\ k * h \in Nat OBVIOUS
  <2> QED BY <2>2, <2>3
<1>7. (p * h) \div e = a BY <1>5, <1>6, QuotientIs
<1> QED BY <1>1, <1>4, <1>7

-----------------------------------------------------------------------------
(* One axis of a picture: its length, the largest factor of sampling along it, the     *)
(* factor of a component and the number of the component's blocks.                     *)

Axis(t) ==
    /\ t.factor \in Nat \ {0}
    /\ \E r \in Nat \ {0}, m \in Nat :
        t.most = r * t.factor /\ t.len = (EDGE * t.most) * m /\ t.blocks = m * t.factor

\* the place in a component of a place of the picture
Along(p, t) == (p * t.factor) \div t.most

\* Mirroring an axis mirrors the block a place is in and its place there.
LEMMA AxisMirrors ==
    ASSUME NEW t, Axis(t), NEW p \in 0..t.len - 1
    PROVE  LET a == Along(p, t)
               b == Along(t.len - 1 - p, t)
           IN  /\ t.len \in Nat /\ t.blocks \in Nat
               /\ a \div EDGE \in 0..t.blocks - 1 /\ a % EDGE \in 0..EDGE - 1
               /\ b \div EDGE = t.blocks - 1 - (a \div EDGE) /\ b % EDGE = EDGE - 1 - (a % EDGE)
<1>0. PICK w : w = t.len OBVIOUS
<1>1. PICK h \in Nat \ {0} : h = t.factor BY DEF Axis
<1>2. PICK r \in Nat \ {0}, m \in Nat : t.most = r * h /\ w = (EDGE * t.most) * m /\ t.blocks = m * h
  BY <1>0, <1>1 DEF Axis
<1>3. PICK n \in Nat : n = t.blocks BY <1>1, <1>2
<1>4. PICK s \in Nat : s = EDGE * n BY <1>3, EdgeAssumption
<1>5. w = r * s /\ w \in Nat BY <1>1, <1>2, <1>3, <1>4, EdgeAssumption
<1>6. p \in 0..r * s - 1 /\ p \in Nat /\ w - 1 - p \in Nat BY <1>0, <1>5
<1>12. ASSUME NEW i \in Nat PROVE Along(i, t) = i \div r
  <2>1. Along(i, t) = (i * h) \div (r * h) BY <1>1, <1>2 DEF Along
  <2> QED BY <2>1, Scaled
<1>7. Along(p, t) = p \div r BY <1>6, <1>12
<1>8. Along(w - 1 - p, t) = (w - 1 - p) \div r BY <1>6, <1>12
<1>9. PICK a \in Int : a = p \div r BY <1>6
<1>10. a \in 0..EDGE * n - 1 /\ (w - 1 - p) \div r = EDGE * n - 1 - a
  BY <1>4, <1>5, <1>6, <1>9, MirrorSplits
<1>11. /\ a \div EDGE \in 0..n - 1 /\ a % EDGE \in 0..EDGE - 1
       /\ (EDGE * n - 1 - a) \div EDGE = n - 1 - (a \div EDGE)
       /\ (EDGE * n - 1 - a) % EDGE = EDGE - 1 - (a % EDGE)
  BY <1>3, <1>10, EdgeAssumption, MirrorSplits
<1> QED BY <1>0, <1>3, <1>5, <1>7, <1>8, <1>9, <1>10, <1>11

\* a and b are the place in a component that was at from before op swapped its axes, now s and t.
OldPlace(op, from, a, b, s, t) ==
    /\ a = IF Transposes(op) THEN Along(from[1], t) ELSE Along(from[1], s)
    /\ b = IF Transposes(op) THEN Along(from[2], s) ELSE Along(from[2], t)

\* The block of a place of a component and the place in it, x and y now and a and b before op.
BlocksTurn(op, s, t, x, y, a, b) ==
    /\ <<a \div EDGE, b \div EDGE>>
         = dst_pos(UndoOf(op), s.blocks, t.blocks, <<x \div EDGE, y \div EDGE>>)
    /\ <<a % EDGE, b % EDGE>> = dst_pos(UndoOf(op), EDGE, EDGE, <<x % EDGE, y % EDGE>>)
    /\ <<x \div EDGE, y \div EDGE>> \in Grid(s.blocks, t.blocks)
    /\ x % EDGE \in 0..EDGE - 1 /\ y % EDGE \in 0..EDGE - 1
    /\ s.blocks \in Nat /\ t.blocks \in Nat

\* Turning back a place of the picture turns back the block it is in and its place there.
LEMMA PlacesTurn ==
    ASSUME NEW op \in Ops, NEW s, Axis(s), NEW t, Axis(t), NEW p \in Grid(s.len, t.len),
           NEW from, from = dst_pos(UndoOf(op), s.len, t.len, p),
           NEW a, NEW b, OldPlace(op, from, a, b, s, t),
           NEW x, x = Along(p[1], s), NEW y, y = Along(p[2], t)
    PROVE  BlocksTurn(op, s, t, x, y, a, b)
<1>0. PICK w1, w2, n1, n2 : w1 = s.len /\ w2 = t.len /\ n1 = s.blocks /\ n2 = t.blocks OBVIOUS
<1>1. p[1] \in 0..w1 - 1 /\ p[2] \in 0..w2 - 1 BY <1>0 DEF Grid
<1>2. PICK u : u = Along(w1 - 1 - p[1], s) OBVIOUS
<1>3. PICK v : v = Along(w2 - 1 - p[2], t) OBVIOUS
<1>4. /\ n1 \in Nat /\ x \div EDGE \in 0..n1 - 1 /\ x % EDGE \in 0..EDGE - 1
      /\ u \div EDGE = n1 - 1 - (x \div EDGE) /\ u % EDGE = EDGE - 1 - (x % EDGE)
  BY <1>0, <1>1, <1>2, AxisMirrors
<1>5. /\ n2 \in Nat /\ y \div EDGE \in 0..n2 - 1 /\ y % EDGE \in 0..EDGE - 1
      /\ v \div EDGE = n2 - 1 - (y \div EDGE) /\ v % EDGE = EDGE - 1 - (y % EDGE)
  BY <1>0, <1>1, <1>3, AxisMirrors
<1>6. PICK k1 : k1 = x \div EDGE OBVIOUS
<1>7. PICK k2 : k2 = y \div EDGE OBVIOUS
<1>8. PICK r1 : r1 = x % EDGE OBVIOUS
<1>9. PICK r2 : r2 = y % EDGE OBVIOUS
<1>10. <<k1, k2>>[1] = k1 /\ <<k1, k2>>[2] = k2 /\ <<r1, r2>>[1] = r1 /\ <<r1, r2>>[2] = r2 OBVIOUS
<1>11. /\ <<a \div EDGE, b \div EDGE>> = dst_pos(UndoOf(op), n1, n2, <<k1, k2>>)
       /\ <<a % EDGE, b % EDGE>> = dst_pos(UndoOf(op), EDGE, EDGE, <<r1, r2>>)
  <2>1. CASE op = "Rot90"
    <3>1. UndoOf(op) = "Rot270" /\ Transposes(op) BY <2>1 DEF UndoOf, Transposes
    <3>2. from = <<p[2], w1 - 1 - p[1]>> BY <1>0, <3>1, DstAt
    <3>3. a = y /\ b = u BY <1>2, <3>1, <3>2 DEF OldPlace
    <3>4. /\ dst_pos("Rot270", n1, n2, <<k1, k2>>) = <<k2, n1 - 1 - k1>>
          /\ dst_pos("Rot270", EDGE, EDGE, <<r1, r2>>) = <<r2, EDGE - 1 - r1>>
      BY <1>10, DstAt
    <3> QED BY <1>4, <1>6, <1>7, <1>8, <1>9, <3>1, <3>3, <3>4
  <2>2. CASE op = "Rot270"
    <3>1. UndoOf(op) = "Rot90" /\ Transposes(op) BY <2>2 DEF UndoOf, Transposes
    <3>2. from = <<w2 - 1 - p[2], p[1]>> BY <1>0, <3>1, DstAt
    <3>3. a = v /\ b = x BY <1>3, <3>1, <3>2 DEF OldPlace
    <3>4. /\ dst_pos("Rot90", n1, n2, <<k1, k2>>) = <<n2 - 1 - k2, k1>>
          /\ dst_pos("Rot90", EDGE, EDGE, <<r1, r2>>) = <<EDGE - 1 - r2, r1>>
      BY <1>10, DstAt
    <3> QED BY <1>5, <1>6, <1>7, <1>8, <1>9, <3>1, <3>3, <3>4
  <2>3. CASE op = "Rot180"
    <3>1. UndoOf(op) = "Rot180" /\ ~Transposes(op) BY <2>3 DEF UndoOf, Transposes
    <3>2. from = <<w1 - 1 - p[1], w2 - 1 - p[2]>> BY <1>0, <3>1, DstAt
    <3>3. a = u /\ b = v BY <1>2, <1>3, <3>1, <3>2 DEF OldPlace
    <3>4. /\ dst_pos("Rot180", n1, n2, <<k1, k2>>) = <<n1 - 1 - k1, n2 - 1 - k2>>
          /\ dst_pos("Rot180", EDGE, EDGE, <<r1, r2>>) = <<EDGE - 1 - r1, EDGE - 1 - r2>>
      BY <1>10, DstAt
    <3> QED BY <1>4, <1>5, <1>6, <1>7, <1>8, <1>9, <3>1, <3>3, <3>4
  <2>4. CASE op = "FlipH"
    <3>1. UndoOf(op) = "FlipH" /\ ~Transposes(op) BY <2>4 DEF UndoOf, Transposes
    <3>2. from = <<w1 - 1 - p[1], p[2]>> BY <1>0, <3>1, DstAt
    <3>3. a = u /\ b = y BY <1>2, <3>1, <3>2 DEF OldPlace
    <3>4. /\ dst_pos("FlipH", n1, n2, <<k1, k2>>) = <<n1 - 1 - k1, k2>>
          /\ dst_pos("FlipH", EDGE, EDGE, <<r1, r2>>) = <<EDGE - 1 - r1, r2>>
      BY <1>10, DstAt
    <3> QED BY <1>4, <1>6, <1>7, <1>8, <1>9, <3>1, <3>3, <3>4
  <2>5. CASE op = "FlipV"
    <3>1. UndoOf(op) = "FlipV" /\ ~Transposes(op) BY <2>5 DEF UndoOf, Transposes
    <3>2. from = <<p[1], w2 - 1 - p[2]>> BY <1>0, <3>1, DstAt
    <3>3. a = x /\ b = v BY <1>3, <3>1, <3>2 DEF OldPlace
    <3>4. /\ dst_pos("FlipV", n1, n2, <<k1, k2>>) = <<k1, n2 - 1 - k2>>
          /\ dst_pos("FlipV", EDGE, EDGE, <<r1, r2>>) = <<r1, EDGE - 1 - r2>>
      BY <1>10, DstAt
    <3> QED BY <1>5, <1>6, <1>7, <1>8, <1>9, <3>1, <3>3, <3>4
  <2> QED BY <2>1, <2>2, <2>3, <2>4, <2>5 DEF Ops
<1> QED BY <1>0, <1>4, <1>5, <1>6, <1>7, <1>8, <1>9, <1>11 DEF Grid, BlocksTurn

-----------------------------------------------------------------------------
(* Blocks                                                                              *)

\* a quantizer by cells, and the one a turn leaves
Matrix == [Cells -> Int]

TurnedQuantizer(op, q) == IF Transposes(op) THEN [c \in Cells |-> q[Swap(c)]] ELSE q

Named(name, s) == {name[x] : x \in s}

\* The same numbers under other names have the same sum.
LEMMA SumRenamed ==
    ASSUME NEW f, NEW e, NEW S, IsFiniteSet(S), NEW name \in [S -> S],
           \A x \in S, y \in S : name[x] = name[y] => x = y,
           Counts(e, S), \A x \in S : f[x] = e[name[x]]
    PROVE  \A s \in SUBSET S : SumFunctionOnSet(f, s) = SumFunctionOnSet(e, Named(name, s))
<1> DEFINE Bad == {Cardinality(s) : s \in {t \in SUBSET S : SumFunctionOnSet(f, t) # SumFunctionOnSet(e, Named(name, t))}}
<1> SUFFICES ASSUME Bad # {} PROVE FALSE OBVIOUS
<1>1. Bad \subseteq Nat BY FS_Subset, FS_CardinalityType
<1>2. PICK k \in Bad : \A j \in Bad : k <= j
  <2> HIDE DEF Bad
  <2> QED BY <1>1, LeastOf
<1>3. PICK s \in SUBSET S : SumFunctionOnSet(f, s) # SumFunctionOnSet(e, Named(name, s)) /\ k = Cardinality(s) BY <1>2
<1>4. IsFiniteSet(s) BY <1>3, FS_Subset
<1>5. s # {}
  <2>1. SUFFICES ASSUME s = {} PROVE FALSE OBVIOUS
  <2>2. Named(name, s) = {} BY <2>1 DEF Named
  <2> QED BY <1>3, <2>1, <2>2, SumOfNone
<1>6. PICK x : x = Foremost(s) OBVIOUS
<1>7. PICK t : t = s \ {x} OBVIOUS
<1>8. x \in s /\ t \in SUBSET S BY <1>5, <1>6, <1>7 DEF Foremost
<1>9. Cardinality(t) = k - 1 BY <1>3, <1>4, <1>7, <1>8, FS_RemoveElement
<1>10. SumFunctionOnSet(f, t) = SumFunctionOnSet(e, Named(name, t))
  <2>1. SUFFICES ASSUME SumFunctionOnSet(f, t) # SumFunctionOnSet(e, Named(name, t)) PROVE FALSE OBVIOUS
  <2>2. k - 1 \in Bad BY <1>8, <1>9, <2>1
  <2> HIDE DEF Bad
  <2> QED BY <1>1, <1>2, <2>2
<1>11. SumFunctionOnSet(f, s) = f[x] + SumFunctionOnSet(f, t) BY <1>4, <1>5, <1>6, <1>7, SumTakes
<1>12. name[x] \in Named(name, s) /\ Named(name, s) \subseteq S /\ f[x] = e[name[x]] BY <1>3, <1>8 DEF Named
<1>13. Named(name, s) \ {name[x]} = Named(name, t) BY <1>3, <1>7, <1>8 DEF Named
<1>14. IsFiniteSet(Named(name, s)) /\ Counts(e, Named(name, s))
  BY <1>12, FS_Subset DEF Counts
<1>15. SumFunctionOnSet(e, Named(name, s)) = e[name[x]] + SumFunctionOnSet(e, Named(name, t))
  <2>1. SumFunctionOnSet(e, Named(name, s)) = e[name[x]] + SumFunctionOnSet(e, Named(name, s) \ {name[x]})
    BY <1>12, <1>14, SumWithout
  <2> QED BY <1>13, <2>1
<1> QED BY <1>3, <1>10, <1>11, <1>12, <1>15

LEMMA CellsFinite == IsFiniteSet(Cells)
<1>1. IsFiniteSet(0..EDGE - 1) BY EdgeAssumption, FS_Interval
<1> QED BY <1>1, FS_Product DEF Cells

\* Turning a block, and with it the quantizer, turns what a decoder shows of it: each wave
\* is turned, and the sum takes the waves in another order only.
LEMMA BlockTurns ==
    ASSUME NEW op \in Ops, NEW b \in Block, NEW q \in Matrix,
           NEW x \in 0..EDGE - 1, NEW y \in 0..EDGE - 1,
           NEW from, from = dst_pos(UndoOf(op), EDGE, EDGE, <<x, y>>)
    PROVE  ShownAt(xform_block(b, op), TurnedQuantizer(op, q), x, y) = ShownAt(b, q, from[1], from[2])
<1> DEFINE f == [p \in Cells |-> xform_block(b, op)[p] * TurnedQuantizer(op, q)[p] * Wave[p[1]][y] * Wave[p[2]][x]]
           e == [p \in Cells |-> b[p] * q[p] * Wave[p[1]][from[2]] * Wave[p[2]][from[1]]]
           name == [c \in Cells |-> IF Transposes(op) THEN Swap(c) ELSE c]
<1>1. from[1] \in 0..EDGE - 1 /\ from[2] \in 0..EDGE - 1
  <2>1. <<x, y>> \in Grid(EDGE, EDGE) /\ EDGE \in Nat /\ UndoOf(op) \in Ops
    BY EdgeAssumption DEF Grid, UndoOf, Ops
  <2>2. from \in NewGrid(UndoOf(op), EDGE, EDGE) BY <2>1, DstInGrid
  <2>3. from \in Grid(EDGE, EDGE) BY <2>2 DEF NewGrid
  <2> QED BY <2>3 DEF Grid
<1>2. ASSUME NEW p \in Cells, NEW i \in 0..EDGE - 1, NEW j \in 0..EDGE - 1
      PROVE  p[1] \in 0..EDGE - 1 /\ p[2] \in 0..EDGE - 1 /\ Wave[p[1]][i] \in Int /\ Wave[p[2]][j] \in Int
  BY WaveAssumption DEF Cells
<1>3. Counts(e, Cells)
  <2>1. SUFFICES ASSUME NEW p \in Cells PROVE e[p] \in Int BY DEF Counts
  <2>2. b[p] \in Int /\ q[p] \in Int BY DEF Block, Matrix
  <2>3. Wave[p[1]][from[2]] \in Int /\ Wave[p[2]][from[1]] \in Int BY <1>1, <1>2
  <2> QED BY <2>2, <2>3
<1>4. name \in [Cells -> Cells] BY CellPairs
<1>5. \A c \in Cells, d \in Cells : name[c] = name[d] => c = d BY CellPairs
<1>6. ASSUME NEW c \in Cells PROVE f[c] = e[name[c]]
  <2>1. PICK p \in Cells : p = name[c] BY <1>4
  <2>2. p = IF Transposes(op) THEN Swap(c) ELSE c BY <2>1
  <2>3. xform_block(b, op)[c] * Wave[c[1]][y] * Wave[c[2]][x]
          = b[p] * Wave[p[1]][from[2]] * Wave[p[2]][from[1]]
    BY <2>2, EachWaveTurns
  <2>4. TurnedQuantizer(op, q)[c] = q[p] BY <2>2 DEF TurnedQuantizer
  <2>5. /\ xform_block(b, op)[c] \in Int /\ b[p] \in Int /\ q[p] \in Int
        /\ Wave[c[1]][y] \in Int /\ Wave[c[2]][x] \in Int
        /\ Wave[p[1]][from[2]] \in Int /\ Wave[p[2]][from[1]] \in Int
    BY <1>1, <1>2, XformType DEF Block, Matrix
  <2>6. f[c] = xform_block(b, op)[c] * q[p] * Wave[c[1]][y] * Wave[c[2]][x] BY <2>4
  <2>7. e[p] = b[p] * q[p] * Wave[p[1]][from[2]] * Wave[p[2]][from[1]] OBVIOUS
  <2>8. ASSUME NEW i \in Int, NEW j \in Int, NEW k \in Int, NEW l \in Int
        PROVE  i * j * k * l = j * (i * k * l)
    OBVIOUS
  <2> HIDE DEF f, e, name
  <2>9. f[c] = q[p] * (xform_block(b, op)[c] * Wave[c[1]][y] * Wave[c[2]][x]) BY <2>5, <2>6, <2>8
  <2>10. e[p] = q[p] * (b[p] * Wave[p[1]][from[2]] * Wave[p[2]][from[1]]) BY <2>5, <2>7, <2>8
  <2> QED BY <2>1, <2>3, <2>9, <2>10
<1>7. Named(name, Cells) = Cells
  <2>1. ASSUME NEW c \in Cells PROVE \E d \in Cells : name[d] = c
    <3>1. Swap(c) \in Cells /\ Swap(Swap(c)) = c BY CellPairs
    <3> QED BY <3>1
  <2> QED BY <1>4, <2>1 DEF Named
<1> HIDE DEF f, e, name
<1>8. SumFunctionOnSet(f, Cells) = SumFunctionOnSet(e, Named(name, Cells))
  BY <1>3, <1>4, <1>5, <1>6, CellsFinite, SumRenamed
<1> QED BY <1>7, <1>8 DEF ShownAt, f, e

-----------------------------------------------------------------------------
(* The quantizer                                                                       *)

LEMMA MaxIs ==
    ASSUME NEW n \in Nat, NEW S, S \subseteq 0..n, S # {} PROVE Max(S) \in S /\ \A y \in S : Max(S) >= y
<1>1. PICK T : T = {n - y : y \in S} OBVIOUS
<1>2. T \subseteq Nat /\ T # {}
  <2>1. PICK y \in S : TRUE OBVIOUS
  <2>2. n - y \in T BY <1>1
  <2>3. ASSUME NEW t \in T PROVE t \in Nat BY <1>1
  <2> QED BY <2>2, <2>3
<1>3. PICK t \in T : \A u \in T : t <= u BY <1>2, LeastOf
<1>4. PICK m \in S : t = n - m BY <1>1, <1>3
<1>5. ASSUME NEW y \in S PROVE m >= y
  <2>1. n - y \in T BY <1>1
  <2>2. t <= n - y BY <1>3, <2>1
  <2> QED BY <1>4, <2>2
<1> QED BY <1>5 DEF Max

\* where a cell is in zig-zag order
Nth(c) == CHOOSE k \in 1..CELLS : Zig(k - 1) = c

LEMMA ZigzagReaches ==
    ASSUME NEW c \in Cells PROVE Nth(c) \in 1..CELLS /\ Zig(Nth(c) - 1) = c
<1>1. EDGE \in Nat \ {0} /\ c[1] \in 0..EDGE - 1 /\ c[2] \in 0..EDGE - 1 /\ c = <<c[1], c[2]>>
  BY EdgeAssumption DEF Cells
<1>2. PICK i \in 0..EDGE - 1 : i = c[1] BY <1>1
<1>3. PICK j \in 0..EDGE - 1 : j = c[2] BY <1>1
<1>4. PICK n \in Int : n = EDGE * i + j BY <1>1
<1>5. n \div EDGE = i /\ n % EDGE = j BY <1>1, <1>4, QuotientIs
<1>6. n \in 0..EDGE * EDGE - 1
  <2>1. PICK k \in Nat : k = EDGE - 1 - i
    <3>1. EDGE - 1 - i \in Nat BY <1>1
    <3> QED BY <3>1
  <2>2. EDGE = i + 1 + k BY <1>1, <2>1
  <2>3. EDGE * EDGE = EDGE * i + EDGE + EDGE * k
    <3>1. EDGE * (i + 1 + k) = EDGE * i + EDGE + EDGE * k BY <1>1
    <3> QED BY <2>2, <3>1
  <2>4. EDGE * i \in Nat /\ EDGE * k \in Nat BY <1>1
  <2> QED BY <1>1, <1>4, <2>3, <2>4
<1>7. PICK k \in DOMAIN ZIGZAG : ZIGZAG[k] = n BY <1>6, ZigzagAssumption DEF ToSet
<1>8. k \in 1..CELLS BY <1>7, ZigzagAssumption DEF CELLS
<1>9. Zig(k - 1) = c BY <1>1, <1>2, <1>3, <1>5, <1>7, <1>8 DEF Zig
<1> QED BY <1>8, <1>9 DEF Nth

QuantTable == [id : Nat, values : [1..CELLS -> Int]]
Component == [id : Nat, h : Nat \ {0}, v : Nat \ {0}, tq : Nat]

TransposedTables(dqt, transpose) ==
    [n \in DOMAIN dqt |-> [dqt[n] EXCEPT !.values = IF transpose THEN transpose_qtable(@) ELSE @]]

LEMMA TableTransposes ==
    ASSUME NEW zz \in [1..CELLS -> Int], NEW c \in Cells
    PROVE  transpose_qtable(zz)[Nth(c)] = zz[Nth(Swap(c))]
<1>1. PICK k \in 1..CELLS : k = Nth(c) /\ Zig(k - 1) = c BY ZigzagReaches
<1>2. transpose_qtable(zz)[k] = [d \in Cells |-> zz[CHOOSE j \in 1..CELLS : Zig(j - 1) = d]][Swap(Zig(k - 1))]
  BY DEF transpose_qtable
<1>3. Swap(c) \in Cells BY CellPairs
<1> QED BY <1>1, <1>2, <1>3 DEF Nth

HasQuantizer(hd, comp) == \E k \in DOMAIN hd.dqt : hd.dqt[k].id = comp.tq

\* The quantizer of a component in the new header is the turned one, whichever table is its last.
LEMMA QuantizerTurns ==
    ASSUME NEW op \in Ops, NEW hd, hd.dqt \in Seq(QuantTable), NEW comp, HasQuantizer(hd, comp),
           NEW turned, turned.dqt = TransposedTables(hd.dqt, Transposes(op)),
           NEW new, new.tq = comp.tq
    PROVE  /\ Quantizer(hd, comp) \in Matrix
           /\ Quantizer(turned, new) = TurnedQuantizer(op, Quantizer(hd, comp))
<1>1. PICK d \in Seq(QuantTable) : d = hd.dqt OBVIOUS
<1>2. PICK e : e = turned.dqt OBVIOUS
<1>3. DOMAIN e = DOMAIN d /\ \A k \in DOMAIN d : e[k].id = d[k].id
  BY <1>1, <1>2 DEF TransposedTables, QuantTable
<1>4. PICK n : n = Max({k \in DOMAIN d : d[k].id = comp.tq}) OBVIOUS
<1>5. n = Max({k \in DOMAIN e : e[k].id = new.tq})
  <2>1. {k \in DOMAIN e : e[k].id = new.tq} = {k \in DOMAIN d : d[k].id = comp.tq} BY <1>3
  <2> QED BY <1>4, <2>1
<1>6. n \in DOMAIN d
  <2>1. {k \in DOMAIN d : d[k].id = comp.tq} \subseteq 0..Len(d) /\ Len(d) \in Nat OBVIOUS
  <2>2. {k \in DOMAIN d : d[k].id = comp.tq} # {} BY <1>1 DEF HasQuantizer
  <2>3. n \in {k \in DOMAIN d : d[k].id = comp.tq} BY <1>4, <2>1, <2>2, MaxIs
  <2> QED BY <2>3
<1>7. PICK zz \in [1..CELLS -> Int] : zz = d[n].values
  <2>1. d[n] \in QuantTable BY <1>6
  <2>2. d[n].values \in [1..CELLS -> Int] BY <2>1 DEF QuantTable
  <2> QED BY <2>2
<1>8. e[n].values = IF Transposes(op) THEN transpose_qtable(zz) ELSE zz
  <2>1. d[n] \in QuantTable BY <1>6
  <2> QED BY <1>1, <1>2, <1>6, <1>7, <2>1 DEF TransposedTables, QuantTable
<1>9. Quantizer(hd, comp) = [c \in Cells |-> zz[Nth(c)]] BY <1>1, <1>4, <1>7 DEF Quantizer, Nth
<1>10. Quantizer(turned, new) = [c \in Cells |-> e[n].values[Nth(c)]] BY <1>2, <1>5 DEF Quantizer, Nth
<1>11. Quantizer(hd, comp) \in Matrix BY <1>9, ZigzagReaches DEF Matrix
<1>12. CASE Transposes(op)
  <2>1. ASSUME NEW c \in Cells PROVE e[n].values[Nth(c)] = Quantizer(hd, comp)[Swap(c)]
    <3>1. Quantizer(hd, comp)[Swap(c)] = zz[Nth(Swap(c))] BY <1>9, CellPairs
    <3> QED BY <1>8, <1>12, <3>1, TableTransposes
  <2> QED BY <1>10, <1>11, <1>12, <2>1 DEF TurnedQuantizer
<1>13. CASE ~Transposes(op) BY <1>8, <1>9, <1>10, <1>11, <1>13 DEF TurnedQuantizer
<1> QED BY <1>12, <1>13

-----------------------------------------------------------------------------
(* Headers                                                                             *)

\* A header that a decoder can show: each component has a quantizer, and no factor of
\* sampling is a broken part of the largest.
Divides(a, b) == \E r \in Nat \ {0} : b = r * a
WellFormed(hd) ==
    /\ hd.width \in Nat /\ hd.height \in Nat
    /\ hd.comps \in Seq(Component) /\ hd.dqt \in Seq(QuantTable)
    /\ \A c \in DOMAIN hd.comps :
        /\ HasQuantizer(hd, hd.comps[c])
        /\ Divides(hd.comps[c].h, Hmax(hd.comps)) /\ Divides(hd.comps[c].v, Vmax(hd.comps))
        /\ \A d \in DOMAIN hd.comps : hd.comps[c].id = hd.comps[d].id => c = d

CompsAfter(hd, op) == IF Transposes(op) THEN Upended(hd.comps) ELSE hd.comps

\* the header that op makes of hd, as far as a decoder reads it
HeaderTurns(turned, hd, op) ==
    /\ turned.width = NewWidth(op, hd.width, hd.height)
    /\ turned.height = NewHeight(op, hd.width, hd.height)
    /\ turned.comps = CompsAfter(hd, op)
    /\ turned.dqt = TransposedTables(hd.dqt, Transposes(op))

BlocksAfter(hd, op, blocks) ==
    [c \in DOMAIN hd.comps |-> turn_blocks(op, GridW(hd, c), GridH(hd, c), blocks[c])]

\* the two axes of a component
Across(hd, c) == [len |-> hd.width, most |-> Hmax(hd.comps), factor |-> hd.comps[c].h, blocks |-> GridW(hd, c)]
Down(hd, c) == [len |-> hd.height, most |-> Vmax(hd.comps), factor |-> hd.comps[c].v, blocks |-> GridH(hd, c)]

LEMMA AxisOf ==
    ASSUME NEW w \in Nat, NEW h \in Nat \ {0}, NEW most, Divides(h, most), w % (EDGE * most) = 0
    PROVE  Axis([len |-> w, most |-> most, factor |-> h, blocks |-> (w \div (EDGE * most)) * h])
<1>1. PICK r \in Nat \ {0} : most = r * h BY DEF Divides
<1>2. PICK e \in Nat \ {0} : e = EDGE * most BY <1>1, EdgeAssumption
<1>3. PICK m \in Int : m = w \div e BY <1>2
<1>4. w = e * m BY <1>2, <1>3
<1>5. m \in Nat
  <2>1. SUFFICES ASSUME m <= -1 PROVE FALSE OBVIOUS
  <2>2. PICK k \in Nat : k = -m - 1
    <3>1. -m - 1 \in Nat BY <2>1
    <3> QED BY <3>1
  <2>3. m = -(k + 1) BY <2>2
  <2>4. e * (-(k + 1)) = -(e * k) - e /\ e * k \in Nat OBVIOUS
  <2> QED BY <1>4, <2>3, <2>4
<1> QED BY <1>1, <1>2, <1>3, <1>4, <1>5 DEF Axis

LEMMA AxesOf ==
    ASSUME NEW hd, WellFormed(hd), InScope(hd), NEW c \in DOMAIN hd.comps
    PROVE  Axis(Across(hd, c)) /\ Axis(Down(hd, c))
<1>1. hd.comps[c] \in Component BY DEF WellFormed
<1>2. hd.comps[c].h \in Nat \ {0} /\ hd.comps[c].v \in Nat \ {0} BY <1>1 DEF Component
<1>3. /\ hd.width \in Nat /\ hd.height \in Nat
      /\ Divides(hd.comps[c].h, Hmax(hd.comps)) /\ Divides(hd.comps[c].v, Vmax(hd.comps))
  BY DEF WellFormed
<1>4. hd.width % (EDGE * Hmax(hd.comps)) = 0 /\ hd.height % (EDGE * Vmax(hd.comps)) = 0 BY DEF InScope
<1>5. Axis(Across(hd, c)) BY <1>2, <1>3, <1>4, AxisOf DEF GridW, McusX, Across
<1>6. Axis(Down(hd, c)) BY <1>2, <1>3, <1>4, AxisOf DEF GridH, McusY, Down
<1> QED BY <1>5, <1>6

LEMMA UpendedIs ==
    ASSUME NEW comps \in Seq(Component)
    PROVE  /\ Upended(comps) \in Seq(Component) /\ DOMAIN Upended(comps) = DOMAIN comps
           /\ Hmax(Upended(comps)) = Vmax(comps) /\ Vmax(Upended(comps)) = Hmax(comps)
           /\ \A c \in DOMAIN comps : /\ Upended(comps)[c].h = comps[c].v /\ Upended(comps)[c].v = comps[c].h
                                      /\ Upended(comps)[c].tq = comps[c].tq /\ Upended(comps)[c].id = comps[c].id
<1>1. PICK new : new = Upended(comps) OBVIOUS
<1>2. PICK n \in Nat : n = Len(comps) OBVIOUS
<1>3. DOMAIN comps = 1..n BY <1>2
<1>4. DOMAIN new = 1..n BY <1>1, <1>3 DEF Upended
<1>5. ASSUME NEW c \in 1..n
      PROVE  new[c] \in Component /\ new[c].h = comps[c].v /\ new[c].v = comps[c].h /\ new[c].tq = comps[c].tq
             /\ new[c].id = comps[c].id
  <2>1. comps[c] \in Component BY <1>3
  <2>2. new[c] = [comps[c] EXCEPT !.h = comps[c].v, !.v = comps[c].h] BY <1>1, <1>3 DEF Upended
  <2> QED BY <2>1, <2>2 DEF Component
<1>6. new \in Seq(Component)
  <2>1. new = [c \in 1..n |-> new[c]] BY <1>1, <1>3 DEF Upended
  <2>2. new \in [1..n -> Component] BY <1>5, <2>1
  <2> QED BY <2>2, FunctionIsList
<1>7. /\ {new[c].h : c \in DOMAIN new} = {comps[c].v : c \in DOMAIN comps}
      /\ {new[c].v : c \in DOMAIN new} = {comps[c].h : c \in DOMAIN comps}
  BY <1>3, <1>4, <1>5
<1>8. Hmax(new) = Vmax(comps) /\ Vmax(new) = Hmax(comps) BY <1>7 DEF Hmax, Vmax
<1> QED BY <1>1, <1>3, <1>4, <1>5, <1>6, <1>8

-----------------------------------------------------------------------------
(* Pictures                                                                            *)

LEMMA NewAxes ==
    ASSUME NEW op \in Ops, NEW hd, WellFormed(hd),
           NEW turned, HeaderTurns(turned, hd, op), NEW c \in DOMAIN hd.comps
    PROVE  /\ Across(turned, c) = IF Transposes(op) THEN Down(hd, c) ELSE Across(hd, c)
           /\ Down(turned, c) = IF Transposes(op) THEN Across(hd, c) ELSE Down(hd, c)
           /\ turned.comps[c].tq = hd.comps[c].tq
<1>1. PICK comps \in Seq(Component) : comps = hd.comps BY DEF WellFormed
<1>2. CASE Transposes(op)
  <2>1. turned.width = hd.height /\ turned.height = hd.width /\ turned.comps = Upended(comps)
    BY <1>1, <1>2 DEF HeaderTurns, NewWidth, NewHeight, CompsAfter
  <2>2. /\ Hmax(turned.comps) = Vmax(comps) /\ Vmax(turned.comps) = Hmax(comps)
        /\ turned.comps[c].h = comps[c].v /\ turned.comps[c].v = comps[c].h /\ turned.comps[c].tq = comps[c].tq
    BY <1>1, <2>1, UpendedIs
  <2>3. GridW(turned, c) = GridH(hd, c) /\ GridH(turned, c) = GridW(hd, c)
    BY <1>1, <2>1, <2>2 DEF GridW, GridH, McusX, McusY
  <2> QED BY <1>1, <1>2, <2>1, <2>2, <2>3 DEF Across, Down
<1>3. CASE ~Transposes(op)
  <2>1. turned.width = hd.width /\ turned.height = hd.height /\ turned.comps = comps
    BY <1>1, <1>3 DEF HeaderTurns, NewWidth, NewHeight, CompsAfter
  <2> QED BY <1>1, <1>3, <2>1 DEF Across, Down, GridW, GridH, McusX, McusY
<1> QED BY <1>2, <1>3

\* Each sample of the new file is the one the old file has at the place the turn undoes.
LEMMA SampleTurns ==
    ASSUME NEW op \in Ops, NEW hd, WellFormed(hd), InScope(hd),
           NEW turned, HeaderTurns(turned, hd, op), NEW c \in DOMAIN hd.comps,
           NEW blocks, blocks[c] \in [Grid(GridW(hd, c), GridH(hd, c)) -> Block],
           NEW p \in Grid(turned.width, turned.height),
           NEW from, from = dst_pos(UndoOf(op), turned.width, turned.height, p),
           NEW x, x = Along(p[1], Across(turned, c)), NEW y, y = Along(p[2], Down(turned, c)),
           NEW a, a = Along(from[1], Across(hd, c)), NEW b, b = Along(from[2], Down(hd, c))
    PROVE  Sample(turned, BlocksAfter(hd, op, blocks), c, x, y) = Sample(hd, blocks, c, a, b)
<1>1. PICK gw, gh : gw = GridW(hd, c) /\ gh = GridH(hd, c) OBVIOUS
<1>2. PICK s : s = Across(turned, c) OBVIOUS
<1>3. PICK t : t = Down(turned, c) OBVIOUS
<1>4. /\ s = IF Transposes(op) THEN Down(hd, c) ELSE Across(hd, c)
      /\ t = IF Transposes(op) THEN Across(hd, c) ELSE Down(hd, c)
      /\ turned.comps[c].tq = hd.comps[c].tq
  BY <1>2, <1>3, NewAxes
<1>5. Axis(s) /\ Axis(t) BY <1>4, AxesOf
<1>6. s.len = turned.width /\ t.len = turned.height BY <1>2, <1>3 DEF Across, Down
<1>7. PICK n1, n2 : n1 = s.blocks /\ n2 = t.blocks OBVIOUS
<1>8. n1 = NewWidth(op, gw, gh) /\ n2 = NewHeight(op, gw, gh)
  BY <1>1, <1>4, <1>7 DEF NewWidth, NewHeight, Across, Down
<1>20. PICK k : k = <<x \div EDGE, y \div EDGE>> OBVIOUS
<1>21. PICK o : o = <<a \div EDGE, b \div EDGE>> OBVIOUS
<1>9. /\ o = dst_pos(UndoOf(op), n1, n2, k) /\ k \in Grid(n1, n2)
      /\ <<a % EDGE, b % EDGE>> = dst_pos(UndoOf(op), EDGE, EDGE, <<x % EDGE, y % EDGE>>)
      /\ x % EDGE \in 0..EDGE - 1 /\ y % EDGE \in 0..EDGE - 1
      /\ n1 \in Nat /\ n2 \in Nat
  <2>1. p \in Grid(s.len, t.len) /\ from = dst_pos(UndoOf(op), s.len, t.len, p) BY <1>6
  <2>2. x = Along(p[1], s) /\ y = Along(p[2], t) BY <1>2, <1>3
  <2>3. OldPlace(op, from, a, b, s, t) BY <1>4 DEF OldPlace
  <2>4. BlocksTurn(op, s, t, x, y, a, b) BY <1>5, <2>1, <2>2, <2>3, PlacesTurn
  <2> QED BY <1>7, <1>20, <1>21, <2>4 DEF BlocksTurn
<1>10. gw \in Nat /\ gh \in Nat /\ NewGrid(op, gw, gh) = Grid(n1, n2)
  BY <1>8, <1>9 DEF NewWidth, NewHeight, NewGrid
<1>11. o \in Grid(gw, gh) /\ dst_pos(op, gw, gh, o) = k
  <2>1. k \in NewGrid(op, gw, gh) BY <1>9, <1>10
  <2> QED BY <1>8, <1>9, <1>10, <2>1, DstBack
<1>12. PICK old \in Block : old = blocks[c][o] BY <1>1, <1>11
<1>13. BlocksAfter(hd, op, blocks)[c][k] = xform_block(old, op)
  <2>1. BlocksAfter(hd, op, blocks)[c] = turn_blocks(op, gw, gh, blocks[c]) BY <1>1 DEF BlocksAfter
  <2>2. turn_blocks(op, gw, gh, blocks[c])[dst_pos(op, gw, gh, o)] = xform_block(blocks[c][o], op)
    BY <1>10, <1>11, BlockLands
  <2> QED BY <1>11, <1>12, <2>1, <2>2
<1>14. PICK q \in Matrix : q = Quantizer(hd, hd.comps[c]) /\ Quantizer(turned, turned.comps[c]) = TurnedQuantizer(op, q)
  <2>1. HasQuantizer(hd, hd.comps[c]) /\ hd.dqt \in Seq(QuantTable) BY DEF WellFormed
  <2>2. turned.dqt = TransposedTables(hd.dqt, Transposes(op)) BY DEF HeaderTurns
  <2>3. /\ Quantizer(hd, hd.comps[c]) \in Matrix
        /\ Quantizer(turned, turned.comps[c]) = TurnedQuantizer(op, Quantizer(hd, hd.comps[c]))
    BY <1>4, <2>1, <2>2, QuantizerTurns
  <2> QED BY <2>3
<1>15. PICK i \in 0..EDGE - 1 : i = x % EDGE BY <1>9
<1>16. PICK j \in 0..EDGE - 1 : j = y % EDGE BY <1>9
<1>17. ShownAt(xform_block(old, op), TurnedQuantizer(op, q), i, j) = ShownAt(old, q, a % EDGE, b % EDGE)
  <2>1. PICK back : back = <<a % EDGE, b % EDGE>> OBVIOUS
  <2>2. back[1] = a % EDGE /\ back[2] = b % EDGE BY <2>1
  <2>3. back = dst_pos(UndoOf(op), EDGE, EDGE, <<i, j>>) BY <1>9, <1>15, <1>16, <2>1
  <2>4. ShownAt(xform_block(old, op), TurnedQuantizer(op, q), i, j) = ShownAt(old, q, back[1], back[2])
    BY <2>3, BlockTurns
  <2> QED BY <2>2, <2>4
<1>18. Sample(turned, BlocksAfter(hd, op, blocks), c, x, y) = ShownAt(xform_block(old, op), TurnedQuantizer(op, q), i, j)
  BY <1>13, <1>14, <1>15, <1>16, <1>20 DEF Sample
<1>19. Sample(hd, blocks, c, a, b) = ShownAt(old, q, a % EDGE, b % EDGE) BY <1>12, <1>14, <1>21 DEF Sample
<1> QED BY <1>17, <1>18, <1>19

\* a picture of this size whose samples come from where the turn undoes
Brought(at, op, nw, nh) ==
    [w |-> nw, h |-> nh, at |-> [p \in Grid(nw, nh) |-> at[dst_pos(UndoOf(op), nw, nh, p)]]]

\* The turns of the image crate take each sample from where dst_pos undoes the turn.
LEMMA TurnedIs ==
    ASSUME NEW op \in Ops, NEW w \in Nat, NEW h \in Nat, NEW at, DOMAIN at = Grid(w, h),
           NEW nw, nw = NewWidth(op, w, h), NEW nh, nh = NewHeight(op, w, h)
    PROVE  Turned([w |-> w, h |-> h, at |-> at], op) = Brought(at, op, nw, nh)
<1>1. CASE op = "Rot90"
  <2>1. nw = h /\ nh = w /\ UndoOf(op) = "Rot270" BY <1>1 DEF NewWidth, NewHeight, UndoOf, Transposes
  <2>2. \A p : dst_pos("Rot270", nw, nh, p) = <<p[2], h - 1 - p[1]>> BY <2>1, DstAt
  <2> QED BY <1>1, <2>1, <2>2 DEF Turned, Brought
<1>2. CASE op = "Rot270"
  <2>1. nw = h /\ nh = w /\ UndoOf(op) = "Rot90" BY <1>2 DEF NewWidth, NewHeight, UndoOf, Transposes
  <2>2. \A p : dst_pos("Rot90", nw, nh, p) = <<w - 1 - p[2], p[1]>> BY <2>1, DstAt
  <2> QED BY <1>2, <2>1, <2>2 DEF Turned, Brought
<1>3. CASE op \in {"FlipH", "FlipV", "Rot180"}
  <2>1. nw = w /\ nh = h /\ UndoOf(op) = op BY <1>3 DEF NewWidth, NewHeight, UndoOf, Transposes
  <2>2. \A p : /\ dst_pos("FlipH", w, h, p) = <<w - 1 - p[1], p[2]>>
               /\ dst_pos("FlipV", w, h, p) = <<p[1], h - 1 - p[2]>>
               /\ dst_pos("Rot180", w, h, p) = <<w - 1 - p[1], h - 1 - p[2]>>
    BY DstAt
  <2>3. CASE op = "FlipH" BY <2>1, <2>2, <2>3 DEF Turned, Brought
  <2>4. CASE op = "FlipV" BY <2>1, <2>2, <2>4 DEF Turned, Brought
  <2>5. CASE op = "Rot180" BY <2>1, <2>2, <2>5 DEF Turned, Brought
  <2> QED BY <1>3, <2>3, <2>4, <2>5
<1> QED BY <1>1, <1>2, <1>3 DEF Ops

\* The turned header and blocks show the picture turned.
LEMMA PictureTurns ==
    ASSUME NEW op \in Ops, NEW hd, WellFormed(hd), InScope(hd),
           NEW turned, HeaderTurns(turned, hd, op),
           NEW blocks, \A c \in DOMAIN hd.comps : blocks[c] \in [Grid(GridW(hd, c), GridH(hd, c)) -> Block]
    PROVE  Picture(turned, BlocksAfter(hd, op, blocks)) = Turned(Picture(hd, blocks), op)
<1>1. PICK w \in Nat : w = hd.width BY DEF WellFormed
<1>2. PICK h \in Nat : h = hd.height BY DEF WellFormed
<1>3. PICK nw : nw = NewWidth(op, w, h) /\ nw = turned.width BY <1>1, <1>2 DEF HeaderTurns
<1>4. PICK nh : nh = NewHeight(op, w, h) /\ nh = turned.height BY <1>1, <1>2 DEF HeaderTurns
<1> DEFINE SamplesBefore(p) == [c \in DOMAIN hd.comps |->
                    Sample(hd, blocks, c, Along(p[1], Across(hd, c)),
                                          Along(p[2], Down(hd, c)))]
           SamplesAfter(p) == [c \in DOMAIN turned.comps |->
                    Sample(turned, BlocksAfter(hd, op, blocks), c,
                           Along(p[1], Across(turned, c)),
                           Along(p[2], Down(turned, c)))]
<1>5. PICK at : at = [p \in Grid(w, h) |-> SamplesBefore(p)] OBVIOUS
<1>6. Picture(hd, blocks) = [w |-> w, h |-> h, at |-> at] BY <1>1, <1>2, <1>5 DEF Picture, Along, Across, Down
<1>7. Picture(turned, BlocksAfter(hd, op, blocks)) = [w |-> nw, h |-> nh, at |-> [p \in Grid(nw, nh) |-> SamplesAfter(p)]]
  BY <1>3, <1>4 DEF Picture, Along, Across, Down
<1>8. Turned(Picture(hd, blocks), op)
        = [w |-> nw, h |-> nh, at |-> [p \in Grid(nw, nh) |-> at[dst_pos(UndoOf(op), nw, nh, p)]]]
  <2>1. DOMAIN at = Grid(w, h) BY <1>5
  <2>2. nw = NewWidth(op, w, h) /\ nh = NewHeight(op, w, h) BY <1>3, <1>4
  <2>3. Turned([w |-> w, h |-> h, at |-> at], op) = Brought(at, op, nw, nh) BY <2>1, <2>2, TurnedIs
  <2> QED BY <1>6, <2>3 DEF Brought
<1>9. DOMAIN turned.comps = DOMAIN hd.comps
  BY UpendedIs DEF HeaderTurns, CompsAfter, WellFormed
<1>10. NewGrid(op, w, h) = Grid(nw, nh) BY <1>3, <1>4 DEF NewGrid, NewWidth, NewHeight
<1>11. ASSUME NEW p \in Grid(nw, nh) PROVE SamplesAfter(p) = at[dst_pos(UndoOf(op), nw, nh, p)]
  <2>1. PICK from : from = dst_pos(UndoOf(op), nw, nh, p) OBVIOUS
  <2>2. from \in Grid(w, h)
    <3>1. p \in NewGrid(op, w, h) BY <1>10
    <3>2. dst_pos(UndoOf(op), NewWidth(op, w, h), NewHeight(op, w, h), p) \in Grid(w, h) BY <3>1, DstBack
    <3> QED BY <1>3, <1>4, <2>1, <3>2
  <2>3. ASSUME NEW c \in DOMAIN hd.comps
        PROVE  Sample(turned, BlocksAfter(hd, op, blocks), c,
                      Along(p[1], Across(turned, c)),
                      Along(p[2], Down(turned, c)))
                 = Sample(hd, blocks, c, Along(from[1], Across(hd, c)),
                                         Along(from[2], Down(hd, c)))
    <3>1. PICK x : x = Along(p[1], Across(turned, c)) OBVIOUS
    <3>2. PICK y : y = Along(p[2], Down(turned, c)) OBVIOUS
    <3>3. PICK a : a = Along(from[1], Across(hd, c)) OBVIOUS
    <3>4. PICK b : b = Along(from[2], Down(hd, c)) OBVIOUS
    <3>5. Sample(turned, BlocksAfter(hd, op, blocks), c, x, y) = Sample(hd, blocks, c, a, b)
      BY <1>3, <1>4, <2>1, <3>1, <3>2, <3>3, <3>4, SampleTurns
    <3> QED BY <3>1, <3>2, <3>3, <3>4, <3>5
  <2>4. SamplesAfter(p) = SamplesBefore(from) BY <1>9, <2>3
  <2> HIDE DEF SamplesAfter, SamplesBefore
  <2> QED BY <1>5, <2>1, <2>2, <2>4
<1> HIDE DEF SamplesAfter
<1> QED BY <1>7, <1>8, <1>11

-----------------------------------------------------------------------------
(* What the fold over the segments of a file gives                                     *)

\* The recursion of FoldLeft over the first n segments.
HeaderFold(g, segs, n) ==
    g = [s \in SUBSET (1..n) |->
            IF s = {} THEN NoHeader ELSE ReadSegment(g[s \ {Max(s)}], segs[Max(s)])]

LEMMA FoldLess ==
    ASSUME NEW n \in Nat, NEW s \in SUBSET (1..n), s # {}
    PROVE  /\ Max(s) \in s /\ n # 0 /\ n - 1 \in Nat
           /\ s \ {Max(s)} \in SUBSET (1..n - 1) /\ s \ {Max(s)} \in SUBSET (1..n)
<1>1. s \subseteq 0..n OBVIOUS
<1>2. Max(s) \in s /\ \A y \in s : Max(s) >= y BY <1>1, MaxIs
<1>3. PICK m \in 1..n : m = Max(s) BY <1>2
<1>4. ASSUME NEW y \in s \ {m} PROVE y \in 1..n - 1
  <2>1. y \in 1..n /\ m >= y /\ y # m BY <1>2, <1>3
  <2> QED BY <1>3, <2>1
<1>5. n # 0 /\ n - 1 \in Nat BY <1>3
<1>6. s \ {m} \in SUBSET (1..n - 1) /\ s \ {m} \in SUBSET (1..n) BY <1>4
<1> QED BY <1>2, <1>3, <1>5, <1>6

LEMMA FoldExist == ASSUME NEW segs, NEW n \in Nat PROVE \E g : HeaderFold(g, segs, n)
<1> DEFINE Bad == {m \in Nat : ~\E g : HeaderFold(g, segs, m)}
<1> SUFFICES ASSUME Bad # {} PROVE FALSE OBVIOUS
<1>1. PICK m \in Bad : \A k \in Bad : m <= k BY LeastOf
<1>2. PICK h : m # 0 => HeaderFold(h, segs, m - 1)
  <2>1. CASE m = 0 BY <2>1
  <2>2. CASE m # 0
    <3>1. m - 1 \in Nat /\ m - 1 \notin Bad BY <1>1, <2>2
    <3> QED BY <3>1
  <2> QED BY <2>1, <2>2
<1>3. PICK g : g = [s \in SUBSET (1..m) |->
            IF s = {} THEN NoHeader ELSE ReadSegment(h[s \ {Max(s)}], segs[Max(s)])]
  OBVIOUS
<1>4. ASSUME NEW s \in SUBSET (1..m), s # {} PROVE g[s \ {Max(s)}] = h[s \ {Max(s)}]
  <2>1. PICK t : t = s \ {Max(s)} OBVIOUS
  <2>2. m # 0 /\ t \in SUBSET (1..m - 1) /\ t \in SUBSET (1..m) BY <1>1, <1>4, <2>1, FoldLess
  <2>3. h[t] = IF t = {} THEN NoHeader ELSE ReadSegment(h[t \ {Max(t)}], segs[Max(t)])
    BY <1>2, <2>2 DEF HeaderFold
  <2>4. g[t] = IF t = {} THEN NoHeader ELSE ReadSegment(h[t \ {Max(t)}], segs[Max(t)])
    BY <1>3, <2>2
  <2> QED BY <2>1, <2>3, <2>4
<1>5. HeaderFold(g, segs, m)
  <2>1. ASSUME NEW s \in SUBSET (1..m)
        PROVE  g[s] = IF s = {} THEN NoHeader ELSE ReadSegment(g[s \ {Max(s)}], segs[Max(s)])
    <3>1. g[s] = IF s = {} THEN NoHeader ELSE ReadSegment(h[s \ {Max(s)}], segs[Max(s)]) BY <1>3
    <3> QED BY <1>4, <3>1
  <2> QED BY <1>3, <2>1 DEF HeaderFold
<1> QED BY <1>1, <1>5

\* What such a function says of a set does not depend on how far it goes.
LEMMA FoldAgree ==
    ASSUME NEW segs, NEW m \in Nat, NEW n \in Nat, m <= n,
           NEW g, NEW h, HeaderFold(g, segs, m), HeaderFold(h, segs, n)
    PROVE  \A s \in SUBSET (1..m) : g[s] = h[s]
<1> DEFINE Bad == {k \in Nat : k <= m /\ \E s \in SUBSET (1..k) : g[s] # h[s]}
<1> SUFFICES ASSUME Bad # {} PROVE FALSE
  OBVIOUS
<1>1. PICK k \in Bad : \A j \in Bad : k <= j BY LeastOf
<1>2. PICK s \in SUBSET (1..k) : g[s] # h[s] BY <1>1
<1>3. k \in Nat /\ s \in SUBSET (1..m) /\ s \in SUBSET (1..n) BY <1>1, <1>2
<1>4. g[s] = IF s = {} THEN NoHeader ELSE ReadSegment(g[s \ {Max(s)}], segs[Max(s)]) BY <1>3 DEF HeaderFold
<1>5. h[s] = IF s = {} THEN NoHeader ELSE ReadSegment(h[s \ {Max(s)}], segs[Max(s)]) BY <1>3 DEF HeaderFold
<1>6. s # {} BY <1>2, <1>4, <1>5
<1>7. PICK t : t = s \ {Max(s)} OBVIOUS
<1>8. k # 0 /\ k - 1 \in Nat /\ t \in SUBSET (1..k - 1) BY <1>2, <1>3, <1>6, <1>7, FoldLess
<1>9. g[t] = h[t]
  <2>1. SUFFICES ASSUME g[t] # h[t] PROVE FALSE OBVIOUS
  <2>2. k - 1 \in Bad BY <1>1, <1>8, <2>1
  <2> QED BY <1>1, <1>8, <2>2
<1> QED BY <1>2, <1>4, <1>5, <1>6, <1>7, <1>9

\* the header after n segments
HeaderTo(segs, n) == (CHOOSE g : HeaderFold(g, segs, n))[1..n]

LEMMA HeaderIs ==
    ASSUME NEW f, NEW S, f.segments \in Seq(S)
    PROVE  Header(f) = HeaderTo(f.segments, Len(f.segments))
<1>1. PICK segs \in Seq(S) : segs = f.segments OBVIOUS
<1>2. PICK n \in Nat : n = Len(segs) /\ DOMAIN segs = 1..n OBVIOUS
<1>3. PICK g : g = CHOOSE h : h = [s \in SUBSET (1..n) |->
            IF s = {} THEN NoHeader ELSE ReadSegment(h[s \ {Max(s)}], segs[Max(s)])]
  OBVIOUS
<1>4. g = CHOOSE h : HeaderFold(h, segs, n) BY <1>3 DEF HeaderFold
<1>5. FoldLeft(ReadSegment, NoHeader, segs) = g[1..n] BY <1>2, <1>3 DEF FoldLeft, MapThenFoldSet
<1> QED BY <1>1, <1>2, <1>4, <1>5 DEF Header, HeaderTo

LEMMA HeaderStarts == ASSUME NEW segs PROVE HeaderTo(segs, 0) = NoHeader
<1>1. PICK g : g = CHOOSE h : HeaderFold(h, segs, 0) OBVIOUS
<1>2. HeaderFold(g, segs, 0) BY <1>1, FoldExist
<1>3. g[{}] = NoHeader /\ 1..0 = {} BY <1>2 DEF HeaderFold
<1> QED BY <1>1, <1>3 DEF HeaderTo

LEMMA HeaderSteps ==
    ASSUME NEW segs, NEW n \in Nat \ {0}
    PROVE  HeaderTo(segs, n) = ReadSegment(HeaderTo(segs, n - 1), segs[n])
<1>1. PICK g : g = CHOOSE h : HeaderFold(h, segs, n) OBVIOUS
<1>2. PICK e : e = CHOOSE h : HeaderFold(h, segs, n - 1) OBVIOUS
<1>3. n - 1 \in Nat /\ n - 1 <= n OBVIOUS
<1>4. HeaderFold(g, segs, n) BY <1>1, FoldExist
<1>5. HeaderFold(e, segs, n - 1) BY <1>2, <1>3, FoldExist
<1>6. PICK s : s = 1..n OBVIOUS
<1>7. Max(s) = n
  <2>1. s \subseteq 0..n /\ s # {} /\ n \in s BY <1>6
  <2>2. Max(s) \in s /\ Max(s) >= n BY <2>1, MaxIs
  <2> QED BY <1>6, <2>2
<1>8. s \ {n} = 1..n - 1 /\ s # {} /\ s \in SUBSET (1..n) BY <1>6
<1>9. g[s] = ReadSegment(g[s \ {n}], segs[n]) BY <1>4, <1>7, <1>8 DEF HeaderFold
<1>10. e[1..n - 1] = g[1..n - 1]
  <2>1. PICK m \in Nat : m = n - 1 /\ m <= n BY <1>3
  <2>4. HeaderFold(e, segs, m) BY <1>5, <2>1
  <2>2. \A u \in SUBSET (1..m) : e[u] = g[u] BY <1>4, <2>1, <2>4, FoldAgree
  <2>3. 1..m \in SUBSET (1..m) OBVIOUS
  <2> QED BY <2>1, <2>2, <2>3
<1> QED BY <1>1, <1>2, <1>6, <1>8, <1>9, <1>10 DEF HeaderTo

\* a header, and one that has kept segments and read nothing else
IsHeader(hd) ==
    hd = [ok |-> hd.ok, kept |-> hd.kept, dqt |-> hd.dqt, huff |-> hd.huff, interval |-> hd.interval,
          width |-> hd.width, height |-> hd.height, comps |-> hd.comps]
Keeps(hd, kept, n) ==
    /\ IsHeader(hd) /\ hd.dqt = <<>> /\ hd.comps = <<>>
    /\ hd.kept = [i \in 1..n |-> kept[i]]

Kept(S) == {s \in S : s.is = "APPn"}

LEMMA ReadKeeps ==
    ASSUME NEW hd, IsHeader(hd), NEW S, hd.kept \in Seq(Kept(S)), NEW s \in S
    PROVE  IsHeader(ReadSegment(hd, s)) /\ ReadSegment(hd, s).kept \in Seq(Kept(S))
<1>1. CASE s.is = "APPn"
  <2>1. ReadSegment(hd, s) = [hd EXCEPT !.kept = Append(@, s)] BY <1>1 DEF ReadSegment
  <2>2. s \in Kept(S) BY <1>1 DEF Kept
  <2>3. Append(hd.kept, s) \in Seq(Kept(S)) BY <2>2
  <2> QED BY <2>1, <2>3 DEF IsHeader
<1>2. CASE s.is = "DQT" BY <1>2 DEF ReadSegment, IsHeader
<1>3. CASE s.is = "DHT" BY <1>3 DEF ReadSegment, IsHeader
<1>4. CASE s.is = "SOF0" BY <1>4 DEF ReadSegment, IsHeader
<1>5. CASE s.is = "DRI" BY <1>5 DEF ReadSegment, IsHeader
<1>6. CASE s.is = "SOF2" BY <1>6 DEF ReadSegment, IsHeader
<1>7. CASE s.is \notin {"APPn", "DQT", "DHT", "SOF0", "DRI", "SOF2"} BY <1>7 DEF ReadSegment
<1> QED BY <1>1, <1>2, <1>3, <1>4, <1>5, <1>6, <1>7

LEMMA KeptIs ==
    ASSUME NEW f, NEW S, f.segments \in Seq(S)
    PROVE  IsHeader(Header(f)) /\ Header(f).kept \in Seq(Kept(S))
<1>1. PICK segs \in Seq(S) : segs = f.segments OBVIOUS
<1> DEFINE Good(n) == IsHeader(HeaderTo(segs, n)) /\ HeaderTo(segs, n).kept \in Seq(Kept(S))
           Bad == {n \in Nat : n <= Len(segs) /\ ~Good(n)}
<1>2. Bad = {}
  <2> SUFFICES ASSUME Bad # {} PROVE FALSE OBVIOUS
  <2>1. PICK n \in Bad : \A m \in Bad : n <= m BY LeastOf
  <2>2. n # 0
    <3>1. HeaderTo(segs, 0) = NoHeader BY HeaderStarts
    <3>2. IsHeader(NoHeader) /\ NoHeader.kept = <<>> BY DEF NoHeader, IsHeader
    <3>3. <<>> \in Seq(Kept(S)) OBVIOUS
    <3>4. Good(0) BY <3>1, <3>2, <3>3
    <3> QED BY <2>1, <3>4
  <2>3. n \in Nat /\ n - 1 \in Nat /\ n - 1 \notin Bad /\ n - 1 <= Len(segs) /\ n \in 1..Len(segs) BY <2>1, <2>2
  <2>4. Good(n - 1) BY <2>3
  <2>5. segs[n] \in S BY <2>3
  <2>6. PICK h : h = HeaderTo(segs, n - 1) OBVIOUS
  <2>7. HeaderTo(segs, n) = ReadSegment(h, segs[n]) BY <2>3, <2>2, <2>6, HeaderSteps
  <2>8. IsHeader(h) /\ h.kept \in Seq(Kept(S)) BY <2>4, <2>6
  <2>9. Good(n) BY <2>5, <2>7, <2>8, ReadKeeps
  <2> QED BY <2>1, <2>9
<1>3. Good(Len(segs)) BY <1>2
<1> QED BY <1>1, <1>3, HeaderIs

LEMMA FirstKept ==
    ASSUME NEW S, NEW kept \in Seq(Kept(S)), NEW segs, \A i \in 1..Len(kept) : segs[i] = kept[i],
           NEW n \in 0..Len(kept)
    PROVE  Keeps(HeaderTo(segs, n), kept, n)
<1> DEFINE Bad == {m \in Nat : m <= Len(kept) /\ ~Keeps(HeaderTo(segs, m), kept, m)}
<1> SUFFICES ASSUME Bad # {} PROVE FALSE OBVIOUS
<1>1. PICK m \in Bad : \A k \in Bad : m <= k BY LeastOf
<1>2. m # 0
  <2>1. Keeps(HeaderTo(segs, 0), kept, 0) BY HeaderStarts DEF NoHeader, IsHeader, Keeps
  <2> QED BY <1>1, <2>1
<1>3. m \in Nat /\ m - 1 \in Nat /\ m - 1 \notin Bad /\ m - 1 <= Len(kept) /\ m \in 1..Len(kept) BY <1>1, <1>2
<1>4. PICK h : h = HeaderTo(segs, m - 1) OBVIOUS
<1>5. Keeps(h, kept, m - 1) BY <1>3, <1>4
<1>6. PICK s \in Kept(S) : s = kept[m] BY <1>3
<1>7. HeaderTo(segs, m) = ReadSegment(h, s) BY <1>2, <1>3, <1>4, <1>6, HeaderSteps
<1>8. ReadSegment(h, s) = [h EXCEPT !.kept = Append(@, s)] BY <1>6 DEF ReadSegment, Kept
<1>9. Append(h.kept, s) = [i \in 1..m |-> kept[i]]
  <2>1. PICK k \in Nat : k = m - 1 BY <1>3
  <2>2. PICK t : t = h.kept OBVIOUS
  <2>3. t = [i \in 1..k |-> kept[i]] BY <1>5, <2>1, <2>2 DEF Keeps
  <2>4. \A i \in 1..k : kept[i] \in Kept(S) BY <1>3, <2>1
  <2>5. t \in [1..k -> Kept(S)] BY <2>3, <2>4
  <2>6. t \in Seq(Kept(S)) /\ Len(t) = k BY <2>5, FunctionIsList
  <2>7. /\ Append(t, s) \in Seq(Kept(S)) /\ DOMAIN Append(t, s) = 1..k + 1
        /\ \A i \in 1..k : Append(t, s)[i] = t[i]
        /\ Append(t, s)[k + 1] = s
    BY <2>6, AppendedList
  <2>8. Append(t, s) = [i \in 1..k + 1 |-> Append(t, s)[i]] BY <2>7, ListIs DEF IsList
  <2>9. ASSUME NEW i \in 1..k + 1 PROVE Append(t, s)[i] = kept[i]
    <3>1. CASE i = k + 1 BY <1>6, <2>1, <2>7, <3>1
    <3>2. CASE i # k + 1
      <4>1. i \in 1..k BY <3>2
      <4> QED BY <2>3, <2>7, <4>1
    <3> QED BY <3>1, <3>2
  <2>10. k + 1 = m BY <1>3, <2>1
  <2> QED BY <2>2, <2>8, <2>9, <2>10
<1>10. Keeps(ReadSegment(h, s), kept, m) BY <1>5, <1>8, <1>9 DEF Keeps, IsHeader
<1> QED BY <1>1, <1>7, <1>10

-----------------------------------------------------------------------------
(* The header of the new file                                                          *)

LEMMA ZigInCells == ASSUME NEW k \in 1..CELLS PROVE Zig(k - 1) \in Cells
<1>1. PICK v \in 0..EDGE * EDGE - 1 : v = ZIGZAG[k] BY ZigzagAssumption DEF CELLS
<1>2. EDGE \in Nat \ {0} BY EdgeAssumption
<1>3. v \div EDGE \in 0..EDGE - 1 /\ v % EDGE \in 0..EDGE - 1 BY <1>2, MirrorSplits
<1>4. Zig(k - 1) = <<v \div EDGE, v % EDGE>> BY <1>1 DEF Zig
<1> QED BY <1>3, <1>4 DEF Cells

LEMMA TransposedTyped ==
    ASSUME NEW zz \in [1..CELLS -> Int] PROVE transpose_qtable(zz) \in [1..CELLS -> Int]
<1>1. ASSUME NEW c \in Cells PROVE zz[CHOOSE k \in 1..CELLS : Zig(k - 1) = c] \in Int
  BY ZigzagReaches DEF Nth
<1>2. ASSUME NEW k \in 1..CELLS
      PROVE [c \in Cells |-> zz[CHOOSE j \in 1..CELLS : Zig(j - 1) = c]][Swap(Zig(k - 1))] \in Int
  <2>1. Swap(Zig(k - 1)) \in Cells BY ZigInCells, CellPairs
  <2> QED BY <1>1, <2>1
<1> QED BY <1>2 DEF transpose_qtable

LEMMA TablesTyped ==
    ASSUME NEW dqt \in Seq(QuantTable), NEW transpose
    PROVE  /\ TransposedTables(dqt, transpose) \in Seq(QuantTable)
           /\ DOMAIN TransposedTables(dqt, transpose) = DOMAIN dqt
           /\ \A n \in DOMAIN dqt : TransposedTables(dqt, transpose)[n].id = dqt[n].id
<1>1. PICK m \in Nat : m = Len(dqt) /\ DOMAIN dqt = 1..m OBVIOUS
<1>2. PICK new : new = TransposedTables(dqt, transpose) OBVIOUS
<1>3. new = [n \in 1..m |-> [dqt[n] EXCEPT !.values = IF transpose THEN transpose_qtable(@) ELSE @]]
  BY <1>1, <1>2 DEF TransposedTables
<1>4. ASSUME NEW n \in 1..m PROVE new[n] \in QuantTable /\ new[n].id = dqt[n].id
  <2>1. dqt[n] \in QuantTable BY <1>1
  <2>2. PICK zz \in [1..CELLS -> Int] : zz = dqt[n].values
    <3>1. dqt[n].values \in [1..CELLS -> Int] BY <2>1 DEF QuantTable
    <3> QED BY <3>1
  <2>3. PICK vs \in [1..CELLS -> Int] : vs = IF transpose THEN transpose_qtable(zz) ELSE zz
    <3>1. transpose_qtable(zz) \in [1..CELLS -> Int] BY TransposedTyped
    <3> QED BY <3>1
  <2>4. new[n] = [dqt[n] EXCEPT !.values = vs] BY <1>3, <2>2, <2>3
  <2> QED BY <2>1, <2>4 DEF QuantTable
<1>5. new \in [1..m -> QuantTable] BY <1>3, <1>4
<1>6. new \in Seq(QuantTable) BY <1>5, FunctionIsList
<1> QED BY <1>1, <1>2, <1>3, <1>4, <1>6

LEMMA CompsTyped ==
    ASSUME NEW op \in Ops, NEW hd, WellFormed(hd)
    PROVE  CompsAfter(hd, op) \in Seq(Component) /\ DOMAIN CompsAfter(hd, op) = DOMAIN hd.comps
BY UpendedIs DEF WellFormed, CompsAfter

LEMMA WithThree ==
    ASSUME NEW S, NEW s \in Seq(S), NEW a \in S, NEW b \in S, NEW c \in S, NEW n \in Nat, n = Len(s)
    PROVE  /\ s \o <<a, b, c>> \in Seq(S) /\ Len(s \o <<a, b, c>>) = n + 3
           /\ \A i \in 1..n : (s \o <<a, b, c>>)[i] = s[i]
           /\ (s \o <<a, b, c>>)[n + 1] = a /\ (s \o <<a, b, c>>)[n + 2] = b /\ (s \o <<a, b, c>>)[n + 3] = c
<1>0. <<a, b, c>> \in Seq(S) OBVIOUS
<1>1. PICK t \in Seq(S) : t = <<a, b, c>> BY <1>0
<1>2. Len(t) = 3 /\ t[1] = a /\ t[2] = b /\ t[3] = c BY <1>1
<1>3. PICK u : u = s \o t OBVIOUS
<1>4. /\ u \in Seq(S) /\ Len(u) = Len(s) + Len(t)
      /\ \A i \in 1..Len(s) + Len(t) : u[i] = IF i <= Len(s) THEN s[i] ELSE t[i - Len(s)]
  BY <1>3, ConcatProperties
<1>5. Len(u) = n + 3 /\ \A i \in 1..n + 3 : u[i] = IF i <= n THEN s[i] ELSE t[i - n] BY <1>2, <1>4
<1>6. \A i \in 1..n : u[i] = s[i] BY <1>5
<1>7. ASSUME NEW j \in 1..3 PROVE u[n + j] = t[j]
  <2>1. n + j \in 1..n + 3 /\ ~(n + j <= n) /\ n + j - n = j OBVIOUS
  <2> QED BY <1>5, <2>1
<1>8. u[n + 1] = a /\ u[n + 2] = b /\ u[n + 3] = c BY <1>2, <1>7
<1> QED BY <1>1, <1>3, <1>4, <1>5, <1>6, <1>8

\* What is read back from a file just assembled is the turned header, and the kept segments.
LEMMA HeaderWritten ==
    ASSUME NEW op \in Ops, NEW hd, WellFormed(hd), NEW S, hd.kept \in Seq(Kept(S)),
           NEW scan, scan # Nothing, NEW out, out = Assembled(hd, CompsAfter(hd, op), op, scan)
    PROVE  /\ \E T : out.segments \in Seq(T)
           /\ HeaderTurns(Header(out), hd, op) /\ Header(out).kept = hd.kept
<1>1. PICK kept \in Seq(Kept(S)) : kept = hd.kept OBVIOUS
<1>2. PICK n \in Nat : n = Len(kept) /\ DOMAIN kept = 1..n OBVIOUS
<1>3. PICK q : q = build_dqt(hd.dqt, Transposes(op)) OBVIOUS
<1>4. PICK d : d = build_dht OBVIOUS
<1>5. PICK r : r = [is |-> "SOF0", comps |-> CompsAfter(hd, op),
                    width |-> IF Transposes(op) THEN hd.height ELSE hd.width,
                    height |-> IF Transposes(op) THEN hd.width ELSE hd.height]
  OBVIOUS
<1>6. out.segments = kept \o <<q, d, r>> BY <1>1, <1>3, <1>4, <1>5 DEF Assembled
<1>7. PICK T : T = Kept(S) \union {q, d, r} OBVIOUS
<1>8. kept \in Seq(T) /\ q \in T /\ d \in T /\ r \in T BY <1>7
<1>9. PICK segs : segs = kept \o <<q, d, r>> OBVIOUS
<1>10. /\ segs \in Seq(T) /\ Len(segs) = n + 3
       /\ \A i \in 1..n : segs[i] = kept[i]
       /\ segs[n + 1] = q /\ segs[n + 2] = d /\ segs[n + 3] = r
  BY <1>2, <1>8, <1>9, WithThree
<1>28. segs = out.segments BY <1>6, <1>9
<1>11. PICK h0 : h0 = HeaderTo(segs, n) OBVIOUS
<1>12. Keeps(h0, kept, n) BY <1>2, <1>10, <1>11, FirstKept
<1>13. h0.kept = kept BY <1>2, <1>12, ListIs DEF Keeps, IsList
<1>14. PICK h1 : h1 = ReadSegment(h0, q) OBVIOUS
<1>15. PICK tables \in Seq(QuantTable) : tables = TransposedTables(hd.dqt, Transposes(op))
  BY TablesTyped DEF WellFormed
<1>16. /\ q.is = "DQT" /\ q.tables = tables
  BY <1>3, <1>15 DEF build_dqt, TransposedTables
<1>17. IsHeader(h1) /\ h1.kept = kept /\ h1.dqt = tables /\ h1.comps = <<>>
  <2>1. h1 = [h0 EXCEPT !.dqt = @ \o q.tables, !.ok = @ /\ ~q.wide] BY <1>14, <1>16 DEF ReadSegment
  <2>2. h0.dqt \o q.tables = tables BY <1>12, <1>15, <1>16 DEF Keeps
  <2> QED BY <1>12, <1>13, <2>1, <2>2 DEF Keeps, IsHeader
<1>18. PICK h2 : h2 = ReadSegment(h1, d) OBVIOUS
<1>19. IsHeader(h2) /\ h2.kept = kept /\ h2.dqt = tables /\ h2.comps = <<>>
  <2>1. d.is = "DHT" BY <1>4 DEF build_dht
  <2>2. PICK huff : h2 = [h1 EXCEPT !.huff = huff]
    BY <1>18, <2>1 DEF ReadSegment
  <2> QED BY <1>17, <2>2 DEF IsHeader
<1>20. PICK h3 : h3 = ReadSegment(h2, r) OBVIOUS
<1>21. PICK comps \in Seq(Component) : comps = CompsAfter(hd, op) BY CompsTyped
<1>22. /\ h3.kept = kept /\ h3.dqt = tables /\ h3.comps = comps
       /\ h3.width = r.width /\ h3.height = r.height
  <2>1. r.is = "SOF0" /\ r.comps = comps BY <1>5, <1>21
  <2>2. h3 = [h2 EXCEPT !.width = r.width, !.height = r.height, !.comps = @ \o r.comps]
    BY <1>20, <2>1 DEF ReadSegment
  <2>3. h2.comps \o r.comps = comps BY <1>19, <1>21, <2>1
  <2> QED BY <1>19, <2>2, <2>3 DEF IsHeader
<1>23. HeaderTo(segs, n + 1) = h1
  <2>1. n + 1 \in Nat \ {0} /\ n + 1 - 1 = n OBVIOUS
  <2>2. HeaderTo(segs, n + 1) = ReadSegment(HeaderTo(segs, n + 1 - 1), segs[n + 1]) BY <2>1, HeaderSteps
  <2> QED BY <1>10, <1>11, <1>14, <2>1, <2>2
<1>24. HeaderTo(segs, n + 2) = h2
  <2>1. n + 2 \in Nat \ {0} /\ n + 2 - 1 = n + 1 OBVIOUS
  <2>2. HeaderTo(segs, n + 2) = ReadSegment(HeaderTo(segs, n + 2 - 1), segs[n + 2]) BY <2>1, HeaderSteps
  <2> QED BY <1>10, <1>18, <1>23, <2>1, <2>2
<1>25. HeaderTo(segs, n + 3) = h3
  <2>1. n + 3 \in Nat \ {0} /\ n + 3 - 1 = n + 2 OBVIOUS
  <2>2. HeaderTo(segs, n + 3) = ReadSegment(HeaderTo(segs, n + 3 - 1), segs[n + 3]) BY <2>1, HeaderSteps
  <2> QED BY <1>10, <1>20, <1>24, <2>1, <2>2
<1>26. Header(out) = h3 BY <1>10, <1>25, <1>28, HeaderIs
<1>27. HeaderTurns(h3, hd, op)
  BY <1>5, <1>15, <1>21, <1>22 DEF HeaderTurns, NewWidth, NewHeight
<1> QED BY <1>1, <1>10, <1>22, <1>26, <1>27, <1>28

-----------------------------------------------------------------------------
(* The turned file                                                                     *)

\* A turned header is one a decoder can show.
LEMMA WellFormedAfter ==
    ASSUME NEW op \in Ops, NEW hd, WellFormed(hd), NEW turned, HeaderTurns(turned, hd, op)
    PROVE  WellFormed(turned) /\ DOMAIN turned.comps = DOMAIN hd.comps
<1>1. PICK comps \in Seq(Component) : comps = hd.comps BY DEF WellFormed
<1>2. PICK new \in Seq(Component) : new = turned.comps /\ new = CompsAfter(hd, op) /\ DOMAIN new = DOMAIN comps
  BY <1>1, CompsTyped DEF HeaderTurns
<1>3. turned.width \in Nat /\ turned.height \in Nat
  BY DEF HeaderTurns, WellFormed, NewWidth, NewHeight
<1>4. turned.dqt \in Seq(QuantTable) /\ DOMAIN turned.dqt = DOMAIN hd.dqt
      /\ \A n \in DOMAIN hd.dqt : turned.dqt[n].id = hd.dqt[n].id
  BY TablesTyped DEF HeaderTurns, WellFormed
<1>5. \A c \in DOMAIN comps : new[c].tq = comps[c].tq /\ new[c].id = comps[c].id
  BY <1>1, <1>2, UpendedIs DEF CompsAfter
<1>6. ASSUME NEW c \in DOMAIN new
      PROVE  /\ HasQuantizer(turned, new[c])
             /\ Divides(new[c].h, Hmax(new)) /\ Divides(new[c].v, Vmax(new))
             /\ \A d \in DOMAIN new : new[c].id = new[d].id => c = d
  <2>1. /\ HasQuantizer(hd, comps[c])
        /\ Divides(comps[c].h, Hmax(comps)) /\ Divides(comps[c].v, Vmax(comps))
        /\ \A d \in DOMAIN comps : comps[c].id = comps[d].id => c = d
    BY <1>1, <1>2 DEF WellFormed
  <2>2. HasQuantizer(turned, new[c]) BY <1>2, <1>4, <1>5, <2>1 DEF HasQuantizer
  <2>3. Divides(new[c].h, Hmax(new)) /\ Divides(new[c].v, Vmax(new))
    <3>1. CASE Transposes(op)
      <4>1. new = Upended(comps) BY <1>1, <1>2, <3>1 DEF CompsAfter
      <4>2. /\ Hmax(new) = Vmax(comps) /\ Vmax(new) = Hmax(comps)
            /\ new[c].h = comps[c].v /\ new[c].v = comps[c].h
        BY <1>2, <4>1, UpendedIs
      <4> QED BY <2>1, <4>2
    <3>2. CASE ~Transposes(op)
      <4>1. new = comps BY <1>1, <1>2, <3>2 DEF CompsAfter
      <4> QED BY <2>1, <4>1
    <3> QED BY <3>1, <3>2
  <2> QED BY <1>2, <1>5, <2>1, <2>2, <2>3
<1> QED BY <1>1, <1>2, <1>3, <1>4, <1>6 DEF WellFormed

\* The blocks of a header's components, as far as their shape goes.
HasBlocks(hd, blocks) ==
    \A c \in DOMAIN hd.comps : blocks[c] \in [Grid(GridW(hd, c), GridH(hd, c)) -> Block]

LEMMA ZeroBlock == [c \in Cells |-> 0] \in Block
BY DEF Block

LEMMA BlocksTyped ==
    ASSUME NEW op \in Ops, NEW hd, WellFormed(hd), InScope(hd), NEW blocks, HasBlocks(hd, blocks),
           NEW turned, HeaderTurns(turned, hd, op)
    PROVE  HasBlocks(turned, BlocksAfter(hd, op, blocks))
<1>1. SUFFICES ASSUME NEW c \in DOMAIN hd.comps
               PROVE  BlocksAfter(hd, op, blocks)[c] \in [Grid(GridW(turned, c), GridH(turned, c)) -> Block]
  BY WellFormedAfter DEF HasBlocks
<1>2. PICK gw, gh : gw = GridW(hd, c) /\ gh = GridH(hd, c) OBVIOUS
<1>3. /\ Across(turned, c) = IF Transposes(op) THEN Down(hd, c) ELSE Across(hd, c)
      /\ Down(turned, c) = IF Transposes(op) THEN Across(hd, c) ELSE Down(hd, c)
  BY NewAxes
<1>4. /\ GridW(turned, c) = NewWidth(op, gw, gh) /\ GridH(turned, c) = NewHeight(op, gw, gh)
  <2>1. /\ Across(turned, c).blocks = GridW(turned, c) /\ Down(turned, c).blocks = GridH(turned, c)
        /\ Across(hd, c).blocks = gw /\ Down(hd, c).blocks = gh
    BY <1>2 DEF Across, Down
  <2> QED BY <1>3, <2>1 DEF NewWidth, NewHeight
<1>5. NewGrid(op, gw, gh) = Grid(GridW(turned, c), GridH(turned, c))
  BY <1>4 DEF NewGrid, NewWidth, NewHeight
<1>6. gw \in Nat /\ gh \in Nat
  <2>1. Axis(Across(hd, c)) /\ Axis(Down(hd, c)) BY AxesOf
  <2>2. Across(hd, c).blocks = gw /\ Down(hd, c).blocks = gh
        /\ Across(hd, c).factor \in Nat /\ Down(hd, c).factor \in Nat
    BY <1>2, <2>1 DEF Across, Down, Axis
  <2> QED BY <2>1, <2>2 DEF Axis
<1>7. PICK bs \in [Grid(gw, gh) -> Block] : bs = blocks[c] BY <1>2 DEF HasBlocks
<1>8. ASSUME NEW q \in NewGrid(op, gw, gh) PROVE turn_blocks(op, gw, gh, bs)[q] \in Block
  <2>1. PICK p \in Grid(gw, gh) : dst_pos(op, gw, gh, p) = q BY <1>6, EveryBlockHasOnePlace
  <2>2. turn_blocks(op, gw, gh, bs)[q] = xform_block(bs[p], op) BY <1>6, <2>1, BlockLands
  <2> QED BY <2>2, XformType
<1>9. turn_blocks(op, gw, gh, bs) \in [NewGrid(op, gw, gh) -> Block]
  BY <1>8 DEF turn_blocks
<1> QED BY <1>2, <1>5, <1>7, <1>9 DEF BlocksAfter

\* A half turn and any other commute.
LEMMA HalfCommutes ==
    ASSUME NEW op \in Ops, NEW w \in Nat, NEW h \in Nat, NEW at, DOMAIN at = Grid(w, h),
           NEW pic, pic = [w |-> w, h |-> h, at |-> at]
    PROVE  Turned(Turned(pic, "Rot180"), op) = Turned(Turned(pic, op), "Rot180")
<1>1. PICK nw : nw = NewWidth(op, w, h) OBVIOUS
<1>2. PICK nh : nh = NewHeight(op, w, h) OBVIOUS
<1>3. nw \in Nat /\ nh \in Nat BY <1>1, <1>2 DEF NewWidth, NewHeight
<1>4. PICK a1 : a1 = [p \in Grid(w, h) |-> at[dst_pos("Rot180", w, h, p)]] OBVIOUS
<1>5. PICK a2 : a2 = [p \in Grid(nw, nh) |-> at[dst_pos(UndoOf(op), nw, nh, p)]] OBVIOUS
<1>6. "Rot180" \in Ops /\ UndoOf("Rot180") = "Rot180" BY DEF Ops, UndoOf
<1>7. \A m, n : NewWidth("Rot180", m, n) = m /\ NewHeight("Rot180", m, n) = n
  BY DEF NewWidth, NewHeight, Transposes
<1>8. Turned(pic, "Rot180") = [w |-> w, h |-> h, at |-> a1]
  <2>1. Turned([w |-> w, h |-> h, at |-> at], "Rot180") = Brought(at, "Rot180", w, h) BY <1>6, <1>7, TurnedIs
  <2> QED BY <1>4, <1>6, <2>1 DEF Brought
<1>9. Turned(pic, op) = [w |-> nw, h |-> nh, at |-> a2]
  <2>1. Turned([w |-> w, h |-> h, at |-> at], op) = Brought(at, op, nw, nh) BY <1>1, <1>2, TurnedIs
  <2> QED BY <1>5, <2>1 DEF Brought
<1>10. Turned([w |-> w, h |-> h, at |-> a1], op) = Brought(a1, op, nw, nh)
  <2>1. DOMAIN a1 = Grid(w, h) BY <1>4
  <2> QED BY <1>1, <1>2, <2>1, TurnedIs
<1>11. Turned([w |-> nw, h |-> nh, at |-> a2], "Rot180") = Brought(a2, "Rot180", nw, nh)
  <2>1. DOMAIN a2 = Grid(nw, nh) BY <1>5
  <2> QED BY <1>3, <1>6, <1>7, <2>1, TurnedIs
<1>12. ASSUME NEW p \in Grid(nw, nh)
       PROVE  a1[dst_pos(UndoOf(op), nw, nh, p)] = a2[dst_pos("Rot180", nw, nh, p)]
  <2>1. p[1] \in 0..nw - 1 /\ p[2] \in 0..nh - 1 BY <1>3, GridPairs
  <2>2. PICK q : q = <<nw - 1 - p[1], nh - 1 - p[2]>> OBVIOUS
  <2>3. q = dst_pos("Rot180", nw, nh, p) BY <2>2, DstAt
  <2>4. q \in Grid(nw, nh) /\ q[1] = nw - 1 - p[1] /\ q[2] = nh - 1 - p[2] BY <1>3, <2>1, <2>2 DEF Grid
  <2>5. a2[q] = at[dst_pos(UndoOf(op), nw, nh, q)] BY <1>5, <2>4
  <2>6. PICK r : r = dst_pos(UndoOf(op), nw, nh, p) OBVIOUS
  <2>7. r \in Grid(w, h)
    <3>1. p \in NewGrid(op, w, h) BY <1>1, <1>2 DEF NewGrid, NewWidth, NewHeight
    <3>2. dst_pos(UndoOf(op), NewWidth(op, w, h), NewHeight(op, w, h), p) \in Grid(w, h) BY <3>1, DstBack
    <3> QED BY <1>1, <1>2, <2>6, <3>2
  <2>8. a1[r] = at[<<w - 1 - r[1], h - 1 - r[2]>>] BY <1>4, <2>7, DstAt
  <2>9. dst_pos(UndoOf(op), nw, nh, q) = <<w - 1 - r[1], h - 1 - r[2]>>
    <3>1. CASE op = "Rot90"
      <4>1. nw = h /\ nh = w /\ UndoOf(op) = "Rot270" BY <1>1, <1>2, <3>1 DEF NewWidth, NewHeight, Transposes, UndoOf
      <4>2. r = <<p[2], nw - 1 - p[1]>> /\ dst_pos(UndoOf(op), nw, nh, q) = <<q[2], nw - 1 - q[1]>>
        BY <2>6, <4>1, DstAt
      <4> QED BY <2>1, <2>4, <4>1, <4>2
    <3>2. CASE op = "Rot270"
      <4>1. nw = h /\ nh = w /\ UndoOf(op) = "Rot90" BY <1>1, <1>2, <3>2 DEF NewWidth, NewHeight, Transposes, UndoOf
      <4>2. r = <<nh - 1 - p[2], p[1]>> /\ dst_pos(UndoOf(op), nw, nh, q) = <<nh - 1 - q[2], q[1]>>
        BY <2>6, <4>1, DstAt
      <4> QED BY <2>1, <2>4, <4>1, <4>2
    <3>3. CASE op \in {"FlipH", "FlipV", "Rot180"}
      <4>1. nw = w /\ nh = h /\ UndoOf(op) = op BY <1>1, <1>2, <3>3 DEF NewWidth, NewHeight, Transposes, UndoOf
      <4>2. CASE op = "FlipH"
        <5>1. r = <<nw - 1 - p[1], p[2]>> /\ dst_pos(UndoOf(op), nw, nh, q) = <<nw - 1 - q[1], q[2]>>
          BY <2>6, <4>1, <4>2, DstAt
        <5> QED BY <2>1, <2>4, <4>1, <5>1
      <4>3. CASE op = "FlipV"
        <5>1. r = <<p[1], nh - 1 - p[2]>> /\ dst_pos(UndoOf(op), nw, nh, q) = <<q[1], nh - 1 - q[2]>>
          BY <2>6, <4>1, <4>3, DstAt
        <5> QED BY <2>1, <2>4, <4>1, <5>1
      <4>4. CASE op = "Rot180"
        <5>1. r = <<nw - 1 - p[1], nh - 1 - p[2]>> /\ dst_pos(UndoOf(op), nw, nh, q) = <<nw - 1 - q[1], nh - 1 - q[2]>>
          BY <2>6, <4>1, <4>4, DstAt
        <5> QED BY <2>1, <2>4, <4>1, <5>1
      <4> QED BY <3>3, <4>2, <4>3, <4>4
    <3> QED BY <3>1, <3>2, <3>3 DEF Ops
  <2> QED BY <2>3, <2>5, <2>6, <2>8, <2>9
<1>13. Brought(a1, op, nw, nh) = Brought(a2, "Rot180", nw, nh) BY <1>6, <1>12 DEF Brought
<1> QED BY <1>8, <1>9, <1>10, <1>11, <1>13

-----------------------------------------------------------------------------
(* Any number of turns                                                                 *)

\* A file the lossless path reads, and what such a file is: a header a decoder can show,
\* whole blocks, and the picture they show.
Readable(f) == InScope(Header(f)) /\ decode_scan(Header(f), f) # Nothing
ShowsItsBlocks(f) ==
    /\ WellFormed(Header(f)) /\ HasBlocks(Header(f), decode_scan(Header(f), f))
    /\ f.picture \in {Nothing, Picture(Header(f), decode_scan(Header(f), f))}

Sound(f) ==
    /\ \E S : f.segments \in Seq(S)
    /\ exif_orientation(f) \in {1, 3}
    /\ Readable(f) => ShowsItsBlocks(f)

\* Nothing is no function, so neither a picture nor a file.
NothingApart == Nothing # [x \in DOMAIN Nothing |-> Nothing[x]]

\* What the codes and the packing of bits owe a file: where a turn of it is written, the
\* blocks that were to be written are read back.
CodesKeepBlocks(f) ==
    \A op \in Ops :
        LET out == transform(f, op)
        IN  f.is = "jpeg" /\ Readable(f) /\ out # Nothing =>
                decode_scan(Header(out), out) = BlocksAfter(Header(f), op, decode_scan(Header(f), f))

TurnInv == Sound(edited) /\ decode_full(edited) = wanted

LEMMA OrientedIs ==
    ASSUME NEW pic, pic # Nothing
    PROVE  Oriented(pic, 1) = pic /\ Oriented(pic, 3) = Turned(pic, "Rot180")
BY DEF Oriented, apply_exif_orientation

LEMMA PictureIs ==
    ASSUME NothingApart, NEW hd, NEW blocks
    PROVE  Picture(hd, blocks) # Nothing
<1>1. PICK at : Picture(hd, blocks) = [w |-> hd.width, h |-> hd.height, at |-> at] BY DEF Picture
<1> QED BY <1>1 DEF NothingApart

LEMMA PictureHas ==
    ASSUME NEW hd, NEW blocks
    PROVE  \E at : Picture(hd, blocks) = [w |-> hd.width, h |-> hd.height, at |-> at]
                     /\ DOMAIN at = Grid(hd.width, hd.height)
<1>1. PICK at : at = [p \in Grid(hd.width, hd.height) |->
        [c \in DOMAIN hd.comps |->
            Sample(hd, blocks, c, (p[1] * hd.comps[c].h) \div Hmax(hd.comps),
                                  (p[2] * hd.comps[c].v) \div Vmax(hd.comps))]]
  OBVIOUS
<1>2. DOMAIN at = Grid(hd.width, hd.height) BY <1>1
<1>3. Picture(hd, blocks) = [w |-> hd.width, h |-> hd.height, at |-> at] BY <1>1 DEF Picture
<1> QED BY <1>2, <1>3

LEMMA TurnedIsSome ==
    ASSUME NothingApart, NEW pic, NEW op \in Ops PROVE Turned(pic, op) # Nothing
<1>1. CASE op \in {"Rot90", "Rot270"} BY <1>1 DEF Turned, NothingApart
<1>2. CASE op \in {"FlipH", "FlipV", "Rot180"}
  <2>1. PICK at : Turned(pic, op) = [pic EXCEPT !.at = at] BY <1>2 DEF Turned
  <2> QED BY <2>1 DEF NothingApart
<1> QED BY <1>1, <1>2 DEF Ops

\* The lossless path turns what a decoder shows, and leaves a file it can turn again.
LEMMA LosslessKeeps ==
    ASSUME NothingApart, NEW op \in Ops, NEW f, Sound(f), CodesKeepBlocks(f), f.is = "jpeg",
           NEW out, out = transform(f, op), out # Nothing
    PROVE  Sound(out) /\ decode_full(out) = Turned(decode_full(f), op)
<1>1. PICK hd : hd = Header(f) OBVIOUS
<1>2. PICK blocks : blocks = decode_scan(hd, f) OBVIOUS
<1>3. PICK comps : comps = CompsAfter(hd, op) OBVIOUS
<1>4. out = Transformed(hd, comps, f, op) BY <1>1, <1>3 DEF transform, TransformedBy, CompsAfter
<1>5. InScope(hd) BY <1>4 DEF Transformed
<1>6. PICK scan : scan = TurnedScan(hd, comps, op, blocks) OBVIOUS
<1>7. out = Assembled(hd, comps, op, scan) BY <1>2, <1>4, <1>5, <1>6 DEF Transformed
<1>8. scan # Nothing BY <1>7 DEF Assembled
<1>9. blocks # Nothing BY <1>6, <1>8 DEF TurnedScan
<1>10. WellFormed(hd) /\ HasBlocks(hd, blocks) /\ f.picture \in {Nothing, Picture(hd, blocks)}
  BY <1>1, <1>2, <1>5, <1>9 DEF Sound, Readable, ShowsItsBlocks
<1>11. PICK S : f.segments \in Seq(S) BY DEF Sound
<1>12. hd.kept \in Seq(Kept(S)) BY <1>1, <1>11, KeptIs
<1>13. PICK new : new = Header(out) OBVIOUS
<1>14. (\E T : out.segments \in Seq(T)) /\ HeaderTurns(new, hd, op) /\ new.kept = hd.kept
  BY <1>3, <1>7, <1>8, <1>10, <1>12, <1>13, HeaderWritten
<1>15. WellFormed(new) /\ HasBlocks(new, BlocksAfter(hd, op, blocks))
  BY <1>5, <1>10, <1>14, WellFormedAfter, BlocksTyped
<1>16. decode_scan(new, out) = BlocksAfter(hd, op, blocks)
  BY <1>1, <1>2, <1>5, <1>9, <1>13 DEF CodesKeepBlocks, Readable
<1>17. exif_orientation(out) = exif_orientation(f) BY <1>1, <1>13, <1>14 DEF exif_orientation
<1>18. out.picture = Nothing BY <1>7, <1>8 DEF Assembled
<1>19. Sound(out) BY <1>13, <1>14, <1>15, <1>16, <1>17, <1>18 DEF Sound, ShowsItsBlocks
<1>20. PICK pic : pic = Picture(hd, blocks) OBVIOUS
<1>21. Picture(new, BlocksAfter(hd, op, blocks)) = Turned(pic, op)
  BY <1>5, <1>10, <1>14, <1>20, PictureTurns DEF HasBlocks
<1>22. BlocksAfter(hd, op, blocks) # Nothing BY DEF BlocksAfter, NothingApart
<1>23. pic # Nothing /\ Turned(pic, op) # Nothing BY <1>20, PictureIs, TurnedIsSome
<1>24. PICK o \in {1, 3} : o = exif_orientation(f) BY DEF Sound
<1>25. decode_full(f) = Oriented(pic, o)
  <2>1. DecodedBy(Header(f), f) = pic BY <1>1, <1>2, <1>9, <1>20 DEF DecodedBy, PictureOf
  <2> QED BY <1>10, <1>20, <1>24, <2>1 DEF decode_full
<1>26. decode_full(out) = Oriented(Turned(pic, op), o)
  <2>1. DecodedBy(Header(out), out) = Turned(pic, op) BY <1>13, <1>16, <1>21, <1>22 DEF DecodedBy, PictureOf
  <2> QED BY <1>17, <1>18, <1>24, <2>1 DEF decode_full
<1>27. CASE o = 1
  <2>1. decode_full(f) = pic BY <1>23, <1>25, <1>27, OrientedIs
  <2>2. decode_full(out) = Turned(pic, op) BY <1>23, <1>26, <1>27, OrientedIs
  <2> QED BY <1>19, <2>1, <2>2
<1>28. CASE o = 3
  <2>1. decode_full(f) = Turned(pic, "Rot180") /\ decode_full(out) = Turned(Turned(pic, op), "Rot180")
    BY <1>23, <1>25, <1>26, <1>28, OrientedIs
  <2>2. PICK at : pic = [w |-> hd.width, h |-> hd.height, at |-> at] /\ DOMAIN at = Grid(hd.width, hd.height)
    BY <1>20, PictureHas
  <2>3. hd.width \in Nat /\ hd.height \in Nat BY <1>10 DEF WellFormed
  <2>4. Turned(Turned(pic, "Rot180"), op) = Turned(Turned(pic, op), "Rot180") BY <2>2, <2>3, HalfCommutes
  <2> QED BY <1>19, <2>1, <2>4
<1> QED BY <1>19, <1>24, <1>27, <1>28

\* The path by pixels does too.
LEMMA PixelsKeep ==
    ASSUME NothingApart, NEW op \in Ops, NEW pic, NEW out, out = Reencoded(Turned(pic, op))
    PROVE  Sound(out) /\ decode_full(out) = Turned(pic, op)
<1>1. out.segments = <<>> /\ out.picture = Turned(pic, op) BY DEF Reencoded
<1>2. out.segments \in Seq({}) /\ Len(out.segments) = 0 BY <1>1
<1>3. Header(out) = NoHeader BY <1>1, <1>2, HeaderIs, HeaderStarts
<1>4. exif_orientation(out) = 1 BY <1>3 DEF exif_orientation, NoHeader
<1>5. ~Readable(out) BY <1>3 DEF Readable, InScope, NoHeader
<1>6. Turned(pic, op) # Nothing BY TurnedIsSome
<1> QED BY <1>1, <1>2, <1>4, <1>5, <1>6, OrientedIs DEF Sound, decode_full

\* However often a picture is turned, by whichever path, a decoder shows the picture turned
\* just so (jpegtran.rs:13), for any sizes, sampling, quantizers, coefficients and tables, in
\* every behaviour whose files keep their blocks through the codes.
THEOREM TurnedAsPixelsAre ==
    ASSUME NothingApart, \A f \in Sources : Sound(f)
    PROVE  TurnSpec /\ []CodesKeepBlocks(edited) => []PlainAsTurned
<1>1. TurnInit => TurnInv BY DEF TurnInit, TurnInv
<1>2. TurnInv /\ CodesKeepBlocks(edited) /\ [TurnNext]_turnVars => TurnInv'
  <2>1. SUFFICES ASSUME TurnInv, CodesKeepBlocks(edited), [TurnNext]_turnVars PROVE TurnInv' OBVIOUS
  <2>2. CASE UNCHANGED turnVars
    BY <2>1, <2>2 DEF turnVars, TurnInv
  <2>3. CASE TurnNext
    <3>1. PICK op \in Ops : transform_file(op) BY <2>3 DEF TurnNext
    <3>2. PICK f : f = edited /\ Sound(f) /\ CodesKeepBlocks(f) /\ f.is = "jpeg" /\ decode_full(f) = wanted
      BY <2>1, <3>1 DEF TurnInv, transform_file
    <3>3. PICK e : e = edited' /\ e = OrElse(transform(f, op), Reencoded(Turned(decode_full(f), op)))
      BY <3>1, <3>2 DEF transform_file
    <3>4. wanted' = Turned(decode_full(f), op) BY <3>1, <3>2 DEF transform_file
    <3>5. Sound(e) /\ decode_full(e) = Turned(decode_full(f), op)
      <4>1. CASE transform(f, op) # Nothing BY <3>2, <3>3, <4>1, LosslessKeeps DEF OrElse
      <4>2. CASE transform(f, op) = Nothing BY <3>3, <4>2, PixelsKeep DEF OrElse
      <4> QED BY <4>1, <4>2
    <3>6. Sound(edited') /\ decode_full(edited') = wanted' BY <3>3, <3>4, <3>5
    <3> QED BY <3>6 DEF TurnInv
  <2> QED BY <2>1, <2>2, <2>3
<1>3. TurnInv => PlainAsTurned BY DEF TurnInv, PlainAsTurned
<1> QED BY <1>1, <1>2, <1>3, PTL DEF TurnSpec

-----------------------------------------------------------------------------
(* The batch                                                                          *)

States == {"todo", "writing", "renaming", "done", "skipped", "failed"}
Dirs == {batch.out_dir} \union {batch.files[k].dir : k \in 1..NumFiles}
Outputs == {OutputName(d, batch.files[k].name, n) : d \in Dirs, k \in 1..NumFiles, n \in Nat}

\* No two stems of a command differ only as the file system does not.
Apart(list) ==
    \A j, k \in DOMAIN list :
        Folded[list[j].name[1]] = Folded[list[k].name[1]] => list[j].name[1] = list[k].name[1]

\* The files of the command are a list, and so is each name.
Listed ==
    /\ NumFiles \in Nat /\ DOMAIN batch.files = 1..NumFiles
    /\ \A k \in 1..NumFiles :
        /\ batch.files[k].name \in Seq(ToSet(batch.files[k].name))
        /\ batch.files[k].name # <<>>
    /\ Apart(batch.files)

\* The outputs are chosen one by one, and no two are one file.
Chosen ==
    /\ outs \in Seq(Outputs) /\ Len(outs) <= NumFiles
    /\ \A j, k \in 1..Len(outs) : OnDisk(outs[j]) = OnDisk(outs[k]) => j = k

\* While they are chosen nothing is written: there are sources, and what other programs add.
Waiting ==
    /\ foreign \in Nat
    /\ Len(outs) < NumFiles =>
        /\ \A k \in 1..NumFiles : item[k] = "todo"
        /\ IsFiniteSet(DOMAIN disk) /\ Cardinality(DOMAIN disk) <= NumFiles + foreign

\* An output is whole at its name exactly when its file is done, and in its part before that.
MadeIsDone ==
    /\ \A k \in 1..NumFiles : item[k] # "todo" => Len(outs) = NumFiles
    /\ \A p \in DOMAIN disk, k \in 1..NumFiles :
        disk[p] = Whole(k) => item[k] = "done" /\ p = OnDisk(outs[k])
    /\ \A k \in 1..NumFiles : item[k] = "done" =>
        OnDisk(outs[k]) \in DOMAIN disk /\ disk[OnDisk(outs[k])] = Whole(k)
    /\ \A k \in 1..NumFiles : item[k] = "renaming" =>
        OnDisk(outs[k]) \in DOMAIN parts /\ parts[OnDisk(outs[k])] = Whole(k)

Final == \A k \in 1..NumFiles : item[k] \in {"done", "skipped", "failed"}
Told == said # <<>> => Final /\ said = <<Summary>>

BatchInv ==
    /\ Listed /\ Chosen /\ Waiting /\ MadeIsDone /\ Told
    /\ item \in [1..NumFiles -> States]

\* What BatchAssumption says of a name makes it a list.
LEMMA StemAndCounters ==
    ASSUME NEW stem, NEW counters \in Seq(Nat), NEW name, name = <<stem>> \o counters
    PROVE  name \in Seq(ToSet(name)) /\ name # <<>>
<1>1. PICK S : S = {stem} \cup Nat OBVIOUS
<1>7. <<stem>> \in Seq(S) /\ Len(<<stem>>) = 1
  <2>1. stem \in S BY <1>1
  <2> QED BY <2>1
<1>8. counters \in Seq(S)
  <2>1. Nat \subseteq S BY <1>1
  <2>2. PICK n \in Nat : n = Len(counters) OBVIOUS
  <2>3. counters = [i \in 1..n |-> counters[i]] /\ \A i \in 1..n : counters[i] \in Nat BY <2>2
  <2>4. counters \in [1..n -> S] BY <2>1, <2>3
  <2> QED BY <2>4
<1>2. name \in Seq(S) /\ Len(name) = 1 + Len(counters) BY <1>7, <1>8
<1>3. Len(name) \in Nat /\ name = [i \in 1..Len(name) |-> name[i]] /\ DOMAIN name = 1..Len(name) BY <1>2
<1>4. \A i \in 1..Len(name) : name[i] \in ToSet(name) BY <1>3 DEF ToSet
<1>5. name \in Seq(ToSet(name))
  <2>1. PICK T : T = ToSet(name) OBVIOUS
  <2>2. PICK n \in Nat : n = Len(name) BY <1>3
  <2>3. name = [i \in 1..n |-> name[i]] /\ \A i \in 1..n : name[i] \in T BY <1>3, <1>4, <2>1, <2>2
  <2>4. name \in [1..n -> T] BY <2>3
  <2> QED BY <2>1, <2>4, FunctionIsList
<1>6. name # <<>> BY <1>2
<1> QED BY <1>5, <1>6

LEMMA OutputIs ==
    ASSUME Listed, NEW k \in 1..NumFiles, NEW d, NEW n \in Nat
    PROVE  LET name == batch.files[k].name
               path == OutputName(d, name, n)
           IN  /\ path[1] = d
               /\ Len(name) \in Nat \ {0} /\ DOMAIN name = 1..Len(name)
               /\ DOMAIN path[2] = 1..Len(path[2])
               /\ Len(path[2]) = IF n = 0 THEN Len(name) ELSE Len(name) + 1
               /\ \A i \in 1..Len(name) : path[2][i] = name[i]
               /\ n # 0 => path[2][Len(name) + 1] = n
               /\ path = <<d, path[2]>> /\ IsList(path[2])
<1> DEFINE name == batch.files[k].name
<1>1. PICK S : name \in Seq(S) /\ name # <<>> BY DEF Listed
<1>2. Len(name) \in Nat /\ DOMAIN name = 1..Len(name) /\ Len(name) # 0 BY <1>1
<1>3. CASE n = 0
  <2>1. OutputName(d, name, n) = <<d, name>> BY <1>3 DEF OutputName
  <2>2. IsList(name) BY <1>1, ListIs
  <2> QED BY <1>2, <1>3, <2>1, <2>2
<1>4. CASE n # 0
  <2>1. OutputName(d, name, n) = <<d, Append(name, n)>> BY <1>4 DEF OutputName
  <2>3. Append(name, n) \in Seq(S \union {n}) BY <1>1, AppendedList
  <2>4. IsList(Append(name, n)) BY <2>3, ListIs
  <2>5. /\ Len(Append(name, n)) = Len(name) + 1
        /\ DOMAIN Append(name, n) = 1..Len(name) + 1
        /\ \A i \in 1..Len(name) : Append(name, n)[i] = name[i]
        /\ Append(name, n)[Len(name) + 1] = n
    BY <1>1, AppendedList
  <2> QED BY <1>2, <1>4, <2>1, <2>4, <2>5
<1> QED BY <1>3, <1>4

LEMMA FirstOfOutput ==
    ASSUME Listed, NEW k \in 1..NumFiles, NEW d, NEW n \in Nat,
           NEW p, p = OutputName(d, batch.files[k].name, n)
    PROVE  /\ p = <<d, p[2]>> /\ IsList(p[2]) /\ p[1] = d
           /\ 1 \in DOMAIN p[2] /\ p[2][1] = batch.files[k].name[1]
<1> DEFINE name == batch.files[k].name
<1>1. /\ p = <<d, p[2]>> /\ IsList(p[2]) /\ p[1] = d
      /\ Len(name) \in Nat \ {0} /\ DOMAIN p[2] = 1..Len(p[2])
      /\ Len(p[2]) = IF n = 0 THEN Len(name) ELSE Len(name) + 1
      /\ \A i \in 1..Len(name) : p[2][i] = name[i]
  BY OutputIs
<1> QED BY <1>1

\* The file system takes two outputs for one file only if they are spelled alike.
LEMMA OneSpelling ==
    ASSUME Listed, NEW p \in Outputs, NEW q \in Outputs, OnDisk(p) = OnDisk(q)
    PROVE  p = q
<1>1. PICK d \in Dirs, k \in 1..NumFiles, n \in Nat : p = OutputName(d, batch.files[k].name, n)
  BY DEF Outputs
<1>2. PICK e \in Dirs, j \in 1..NumFiles, m \in Nat : q = OutputName(e, batch.files[j].name, m)
  BY DEF Outputs
<1>3. /\ p = <<d, p[2]>> /\ IsList(p[2]) /\ q = <<e, q[2]>> /\ IsList(q[2])
      /\ p[1] = d /\ q[1] = e
      /\ 1 \in DOMAIN p[2] /\ 1 \in DOMAIN q[2]
      /\ p[2][1] = batch.files[k].name[1] /\ q[2][1] = batch.files[j].name[1]
  <2>1. /\ p = <<d, p[2]>> /\ IsList(p[2]) /\ p[1] = d
        /\ 1 \in DOMAIN p[2] /\ p[2][1] = batch.files[k].name[1]
    BY <1>1, FirstOfOutput
  <2>2. /\ q = <<e, q[2]>> /\ IsList(q[2]) /\ q[1] = e
        /\ 1 \in DOMAIN q[2] /\ q[2][1] = batch.files[j].name[1]
    BY <1>2, FirstOfOutput
  <2> QED BY <2>1, <2>2
<1> DEFINE F(s) == [i \in DOMAIN s |-> IF i = 1 THEN Folded[s[1]] ELSE s[i]]
<1>4. d = e /\ F(p[2]) = F(q[2]) BY <1>3 DEF OnDisk
<1>5. DOMAIN p[2] = DOMAIN q[2] /\ \A i \in DOMAIN p[2] : F(p[2])[i] = F(q[2])[i] BY <1>4
<1>6. p[2][1] = q[2][1]
  <2>1. Folded[p[2][1]] = Folded[q[2][1]] BY <1>3, <1>5
  <2> QED BY <1>3, <2>1 DEF Listed, Apart
<1>7. \A i \in DOMAIN p[2] : p[2][i] = q[2][i] BY <1>5, <1>6
<1>8. p[2] = q[2] BY <1>3, <1>5, <1>7, ListsEqual
<1> QED BY <1>3, <1>4, <1>8

LEMMA CountTo == ASSUME NEW n \in Nat PROVE IsFiniteSet(1..n) /\ Cardinality(1..n) = n
  BY FS_Interval

\* Every counter makes a file of its own.
LEMMA CountersDiffer ==
    ASSUME Listed, NEW k \in 1..NumFiles, NEW d \in Dirs, NEW m \in Nat, NEW n \in Nat,
           OnDisk(OutputName(d, batch.files[k].name, m)) = OnDisk(OutputName(d, batch.files[k].name, n))
    PROVE  m = n
<1> DEFINE name == batch.files[k].name
           p == OutputName(d, name, m)
           q == OutputName(d, name, n)
<1>1. p = q
  <2>1. p \in Outputs /\ q \in Outputs BY DEF Outputs
  <2> QED BY <2>1, OneSpelling
<1>2. /\ Len(name) \in Nat
      /\ Len(p[2]) = IF m = 0 THEN Len(name) ELSE Len(name) + 1
      /\ m # 0 => p[2][Len(name) + 1] = m
  BY OutputIs
<1>3. /\ Len(q[2]) = IF n = 0 THEN Len(name) ELSE Len(name) + 1
      /\ n # 0 => q[2][Len(name) + 1] = n
  BY OutputIs
<1> HIDE DEF name, p, q
<1> QED BY <1>1, <1>2, <1>3

\* The files there are and the outputs chosen cannot take all the candidates.
LEMMA SomeFree ==
    ASSUME BatchInv, Len(outs) < NumFiles, NEW k \in 1..NumFiles, NEW d \in Dirs
    PROVE  \E m \in 0..NumFiles + Len(outs) + foreign :
                ~Taken(OutputName(d, batch.files[k].name, m))
<1> DEFINE Out(m) == OutputName(d, batch.files[k].name, m)
           K == NumFiles + Len(outs) + foreign
           A == {m \in 0..K : OnDisk(Out(m)) \in DOMAIN disk}
           B == {m \in 0..K : Out(m) \in ToSet(outs)}
<1>1. SUFFICES ASSUME \A m \in 0..K : Taken(Out(m)) PROVE FALSE OBVIOUS
<1>2. NumFiles \in Nat /\ Len(outs) \in Nat /\ foreign \in Nat /\ K \in Nat
  BY DEF BatchInv, Listed, Chosen, Waiting
<1>3. A \union B = 0..K BY <1>1 DEF Taken, Exists
<1>4. Cardinality(0..K) = K + 1 /\ IsFiniteSet(0..K) BY <1>2, FS_Interval
<1>5. IsFiniteSet(A) /\ IsFiniteSet(B)
  <2>1. A \subseteq 0..K /\ B \subseteq 0..K OBVIOUS
  <2> QED BY <1>4, <2>1, FS_Subset
<1>6. \A m, n \in 0..K : OnDisk(Out(m)) = OnDisk(Out(n)) => m = n
  <2> SUFFICES ASSUME NEW m \in 0..K, NEW n \in 0..K, OnDisk(Out(m)) = OnDisk(Out(n)) PROVE m = n
    OBVIOUS
  <2>1. m \in Nat /\ n \in Nat BY <1>2
  <2> QED BY <2>1, CountersDiffer DEF BatchInv
<1>7. Cardinality(A) <= NumFiles + foreign
  <2> DEFINE f == [m \in A |-> OnDisk(Out(m))]
  <2>1. f \in [A -> DOMAIN disk] OBVIOUS
  <2>2. \A m, n \in A : f[m] = f[n] => m = n BY <1>6
  <2>3. f \in Injection(A, DOMAIN disk) BY <2>1, <2>2 DEF Injection, IsInjective
  <2>4. IsFiniteSet(DOMAIN disk) /\ Cardinality(DOMAIN disk) <= NumFiles + foreign
    BY DEF BatchInv, Waiting
  <2>5. Cardinality(A) <= Cardinality(DOMAIN disk) BY <2>3, <2>4, FS_Injection
  <2>6. Cardinality(A) \in Nat /\ Cardinality(DOMAIN disk) \in Nat BY <1>5, <2>4, FS_CardinalityType
  <2> QED BY <1>2, <2>4, <2>5, <2>6
<1>8. Cardinality(B) <= Len(outs)
  <2>1. IsFiniteSet(ToSet(outs)) /\ Cardinality(ToSet(outs)) <= Len(outs)
    <3>1. outs \in [1..Len(outs) -> ToSet(outs)] /\ DOMAIN outs = 1..Len(outs)
      BY DEF BatchInv, Chosen, ToSet
    <3>2. outs \in Surjection(1..Len(outs), ToSet(outs)) BY <3>1 DEF Surjection, ToSet
    <3>3. IsFiniteSet(1..Len(outs)) /\ Cardinality(1..Len(outs)) = Len(outs) BY <1>2, CountTo
    <3> QED BY <3>2, <3>3, FS_Surjection
  <2> DEFINE f == [m \in B |-> Out(m)]
  <2>2. f \in [B -> ToSet(outs)] OBVIOUS
  <2>3. \A m, n \in B : f[m] = f[n] => m = n BY <1>6
  <2>4. f \in Injection(B, ToSet(outs)) BY <2>2, <2>3 DEF Injection, IsInjective
  <2>5. Cardinality(B) <= Cardinality(ToSet(outs)) BY <2>1, <2>4, FS_Injection
  <2>6. Cardinality(B) \in Nat /\ Cardinality(ToSet(outs)) \in Nat BY <1>5, <2>1, FS_CardinalityType
  <2> QED BY <1>2, <2>1, <2>5, <2>6
<1>9. Cardinality(A \union B) <= Cardinality(A) + Cardinality(B)
  <2>1. Cardinality(A \union B) = Cardinality(A) + Cardinality(B) - Cardinality(A \cap B)
    BY <1>5, FS_Union
  <2>2. Cardinality(A \cap B) \in Nat BY <1>5, FS_Intersection, FS_CardinalityType
  <2>3. Cardinality(A) \in Nat /\ Cardinality(B) \in Nat BY <1>5, FS_CardinalityType
  <2> QED BY <2>1, <2>2, <2>3
<1>10. Cardinality(A) \in Nat /\ Cardinality(B) \in Nat BY <1>5, FS_CardinalityType
<1>11. Cardinality(A \union B) = K + 1 BY <1>3, <1>4
<1> HIDE DEF A, B
<1> QED BY <1>2, <1>7, <1>8, <1>9, <1>10, <1>11

\* What Choose appends: an output of the next file that no earlier one is.
LEMMA ChooseTakes ==
    ASSUME BatchInv, Choose
    PROVE  \E new \in Outputs : outs' = Append(outs, new) /\ ~Taken(new)
<1> DEFINE f == batch.files[Len(outs) + 1]
           dir == IF batch.out_dir = "" THEN f.dir ELSE batch.out_dir
           K == NumFiles + Len(outs) + foreign
           Free(n) == ~Taken(OutputName(dir, f.name, n))
           First(m) == Free(m) /\ \A i \in 0..m - 1 : ~Free(i)
           n == CHOOSE m \in 0..K : First(m)
           T == {m \in 0..K : Free(m)}
<1>1. Len(outs) < NumFiles /\ outs' = Append(outs, OutputName(dir, f.name, n)) BY DEF Choose
<1>2. NumFiles \in Nat /\ Len(outs) \in Nat /\ foreign \in Nat /\ K \in Nat
  BY DEF BatchInv, Listed, Chosen, Waiting
<1>3. Len(outs) + 1 \in 1..NumFiles
  <2>1. \A a, b \in Nat : a < b => a + 1 \in 1..b OBVIOUS
  <2>2. Len(outs) < NumFiles BY <1>1
  <2> QED BY <1>2, <2>1, <2>2
<1>4. dir \in Dirs
  <2>1. f.dir \in {batch.files[k].dir : k \in 1..NumFiles} BY <1>3
  <2> QED BY <2>1 DEF Dirs
<1>5. \E m \in 0..K : Free(m) BY <1>1, <1>3, <1>4, SomeFree
<1> HIDE DEF K, Free
<1>6. T # {} /\ T \subseteq Nat BY <1>2, <1>5
<1>7. PICK m \in T : \A i \in T : m <= i BY <1>6, LeastOf
<1>8. m \in 0..K /\ First(m)
  <2>1. m \in 0..K /\ Free(m) /\ m \in Nat BY <1>6, <1>7
  <2>2. \A i \in 0..m - 1 : i \in 0..K /\ i < m /\ i \in Nat BY <1>2, <2>1
  <2>3. \A i \in 0..m - 1 : ~Free(i)
    <3> SUFFICES ASSUME NEW i \in 0..m - 1, Free(i) PROVE FALSE OBVIOUS
    <3>1. i \in T /\ i < m BY <2>2
    <3> QED BY <1>7, <2>1, <2>2, <3>1
  <2> QED BY <2>1, <2>3
<1>9. n \in 0..K /\ First(n)
  <2> HIDE DEF First
  <2> QED BY <1>8
<1>10. OutputName(dir, f.name, n) \in Outputs
  <2>1. n \in Nat BY <1>2, <1>9 DEF K
  <2> HIDE DEF n, dir
  <2> QED BY <1>3, <1>4, <2>1 DEF Outputs
<1>11. ~Taken(OutputName(dir, f.name, n)) BY <1>9 DEF Free
<1> HIDE DEF n, dir
<1> QED BY <1>1, <1>10, <1>11

\* The theorems about a batch are for commands whose stems differ by more than their case.
AllApart == \A b \in Batches : Apart(b.files)

LEMMA BatchStarts == ASSUME AllApart, BatchInit PROVE BatchInv
<1>1. PICK b \in Batches, op \in BatchOps : batch = [op |-> op, files |-> b.files, out_dir |-> b.out_dir]
  BY DEF BatchInit
<1>2. batch.files = b.files BY <1>1
<1>3. Listed
  <2>1. /\ b.files \in Seq(ToSet(b.files))
        /\ \A f \in ToSet(b.files) : f.name \in Seq(ToSet(f.name)) /\ f.name # <<>>
    <3>1. ASSUME NEW f \in ToSet(b.files) PROVE f.name \in Seq(ToSet(f.name)) /\ f.name # <<>>
      <4>1. f.name = <<Head(f.name)>> \o Tail(f.name) /\ Tail(f.name) \in Seq(Nat) BY BatchAssumption
      <4> QED BY <4>1, StemAndCounters
    <3> QED BY <3>1, BatchAssumption
  <2>2. NumFiles \in Nat /\ DOMAIN batch.files = 1..NumFiles BY <1>2, <2>1 DEF NumFiles
  <2>3. \A k \in 1..NumFiles : batch.files[k] \in ToSet(b.files) BY <1>2, <2>2 DEF ToSet
  <2>4. Apart(batch.files) BY <1>2 DEF AllApart
  <2> QED BY <2>1, <2>2, <2>3, <2>4 DEF Listed
<1>4. Len(outs) = 0 /\ outs \in Seq(Outputs) BY DEF BatchInit
<1>5. NumFiles \in Nat BY <1>3 DEF Listed
<1>6. Chosen BY <1>4, <1>5 DEF Chosen
<1>7. item = [k \in 1..NumFiles |-> "todo"] BY DEF BatchInit
<1>8. Waiting
  <2> DEFINE S == SameExt(batch)
             at(k) == OnDisk(<<batch.files[k].dir, batch.files[k].name>>)
             f == [k \in S |-> at(k)]
  <2>1. S \subseteq 1..NumFiles BY <1>3 DEF SameExt, Listed
  <2>2. DOMAIN disk = {at(k) : k \in S} /\ foreign = 0 BY DEF BatchInit
  <2>3. f \in Surjection(S, DOMAIN disk) BY <2>2 DEF Surjection
  <2>4. IsFiniteSet(1..NumFiles) /\ Cardinality(1..NumFiles) = NumFiles BY <1>5, CountTo
  <2>5. IsFiniteSet(S) /\ Cardinality(S) <= NumFiles BY <2>1, <2>4, FS_Subset
  <2>6. IsFiniteSet(DOMAIN disk) /\ Cardinality(DOMAIN disk) <= Cardinality(S)
    BY <2>3, <2>5, FS_Surjection
  <2>7. Cardinality(S) \in Nat /\ Cardinality(DOMAIN disk) \in Nat BY <2>5, <2>6, FS_CardinalityType
  <2>8. Cardinality(DOMAIN disk) <= NumFiles + foreign
    <3> HIDE DEF S
    <3> QED BY <1>5, <2>2, <2>5, <2>6, <2>7
  <2> QED BY <1>7, <2>2, <2>6, <2>8 DEF Waiting
<1>9. \A p \in DOMAIN disk : disk[p] = Foreign BY DEF BatchInit
<1>10. \A k \in 1..NumFiles : Foreign # Whole(k) BY <1>5 DEF Foreign, Whole
<1>11. MadeIsDone BY <1>7, <1>9, <1>10 DEF MadeIsDone
<1>12. Told BY DEF Told, BatchInit
<1>13. item \in [1..NumFiles -> States] BY <1>7 DEF States
<1> QED BY <1>3, <1>6, <1>8, <1>11, <1>12, <1>13 DEF BatchInv

LEMMA BatchSame ==
    ASSUME BatchInv, UNCHANGED <<batch, outs>>
    PROVE  NumFiles' = NumFiles /\ Outputs' = Outputs /\ Listed' /\ Chosen'
<1>1. NumFiles' = NumFiles BY DEF NumFiles
<1>2. Dirs' = Dirs BY <1>1 DEF Dirs
<1>3. Outputs' = Outputs BY <1>1, <1>2 DEF Outputs
<1>4. Listed' BY <1>1 DEF BatchInv, Listed
<1> QED BY <1>1, <1>3, <1>4 DEF BatchInv, Chosen

LEMMA ChooseKeeps == ASSUME BatchInv, Choose PROVE BatchInv'
<1>1. PICK new \in Outputs : outs' = Append(outs, new) /\ ~Taken(new) BY ChooseTakes
<1>2. /\ UNCHANGED <<batch, item, disk, parts, foreign, said>>
      /\ Len(outs) < NumFiles
  BY DEF Choose
<1>3. NumFiles' = NumFiles BY <1>2 DEF NumFiles
<1>4. Dirs' = Dirs BY <1>2, <1>3 DEF Dirs
<1>5. Outputs' = Outputs BY <1>2, <1>3, <1>4 DEF Outputs
<1>6. Listed' BY <1>2, <1>3 DEF BatchInv, Listed
<1>7. outs \in Seq(Outputs) /\ Len(outs) \in Nat /\ NumFiles \in Nat BY DEF BatchInv, Chosen, Listed
<1>8. /\ outs' \in Seq(Outputs) /\ Len(outs') = Len(outs) + 1
      /\ \A i \in 1..Len(outs) : outs'[i] = outs[i]
      /\ outs'[Len(outs) + 1] = new
  <2> HIDE DEF Outputs
  <2> QED BY <1>1, <1>7
<1>9. \A i \in 1..Len(outs) : OnDisk(outs[i]) # OnDisk(new)
  <2> SUFFICES ASSUME NEW i \in 1..Len(outs), OnDisk(outs[i]) = OnDisk(new) PROVE FALSE OBVIOUS
  <2>1. outs[i] \in Outputs BY <1>7
  <2>2. outs[i] = new BY <2>1, OneSpelling DEF BatchInv
  <2>3. new \in ToSet(outs) BY <1>7, <2>2 DEF ToSet
  <2> QED BY <1>1, <2>3 DEF Taken
<1>10. Chosen'
  <2>1. \A j, k \in 1..Len(outs) : OnDisk(outs[j]) = OnDisk(outs[k]) => j = k BY DEF BatchInv, Chosen
  <2>2. \A j, k \in 1..Len(outs) + 1 : OnDisk(outs'[j]) = OnDisk(outs'[k]) => j = k
    <3> SUFFICES ASSUME NEW j \in 1..Len(outs) + 1, NEW k \in 1..Len(outs) + 1,
                        OnDisk(outs'[j]) = OnDisk(outs'[k])
                 PROVE  j = k
      OBVIOUS
    <3>1. /\ j \in 1..Len(outs) \/ j = Len(outs) + 1
          /\ k \in 1..Len(outs) \/ k = Len(outs) + 1
      BY <1>7
    <3> QED BY <1>8, <1>9, <2>1, <3>1
  <2>3. Len(outs') <= NumFiles' BY <1>2, <1>3, <1>7, <1>8
  <2> QED BY <1>5, <1>8, <2>2, <2>3 DEF Chosen
<1>11. \A k \in 1..NumFiles : item[k] = "todo" BY <1>2 DEF BatchInv, Waiting
<1>12. Waiting' BY <1>2, <1>3, <1>11 DEF BatchInv, Waiting
<1>13. MadeIsDone' BY <1>2, <1>3, <1>11 DEF BatchInv, MadeIsDone, Whole
<1>14. Told'
  <2>1. ~Final BY <1>2, <1>7, <1>11 DEF Final
  <2> QED BY <1>2, <2>1 DEF BatchInv, Told
<1>15. item' \in [1..NumFiles' -> States] BY <1>2, <1>3 DEF BatchInv
<1> QED BY <1>6, <1>10, <1>12, <1>13, <1>14, <1>15 DEF BatchInv

\* A file that is neither done nor given up goes on, when all outputs are chosen.
LEMMA ItemKeeps ==
    ASSUME BatchInv, NEW k \in 1..NumFiles, NEW state \in States, Len(outs) = NumFiles,
           item[k] \notin {"done", "skipped", "failed"}, Becomes(k, state),
           UNCHANGED <<batch, outs, foreign, said>>, MadeIsDone'
    PROVE  BatchInv'
<1>1. NumFiles' = NumFiles /\ Listed' /\ Chosen' BY BatchSame
<1>2. item' \in [1..NumFiles' -> States] BY <1>1 DEF BatchInv, Becomes
<1>3. NumFiles \in Nat BY DEF BatchInv, Listed
<1>4. Waiting' BY <1>1, <1>3 DEF BatchInv, Waiting
<1>5. said = <<>> BY DEF BatchInv, Told, Final
<1>6. Told' BY <1>5 DEF Told
<1> QED BY <1>1, <1>2, <1>4, <1>6 DEF BatchInv

\* Where the outputs of the files are: each at a place of its own.
LEMMA PlacesApart ==
    ASSUME BatchInv, Len(outs) = NumFiles, NEW j \in 1..NumFiles, NEW k \in 1..NumFiles, j # k
    PROVE  OnDisk(outs[j]) # OnDisk(outs[k])
  BY DEF BatchInv, Chosen

LEMMA ItemIs ==
    ASSUME BatchInv, NEW k \in 1..NumFiles, NEW state, Becomes(k, state)
    PROVE  item'[k] = state /\ \A j \in 1..NumFiles : j # k => item'[j] = item[j]
  BY DEF BatchInv, Becomes

LEMMA HalfIsNot == ASSUME NEW j, NEW k PROVE Half(j) # Whole(k) /\ (Whole(j) = Whole(k) => j = k)
  BY DEF Half, Whole


LEMMA MadeMoves ==
    ASSUME Len(outs) = NumFiles, NumFiles' = NumFiles, UNCHANGED outs,
           \A p \in DOMAIN disk', j \in 1..NumFiles :
                disk'[p] = Whole(j) => item'[j] = "done" /\ p = OnDisk(outs[j]),
           \A j \in 1..NumFiles : item'[j] = "done" =>
                OnDisk(outs[j]) \in DOMAIN disk' /\ disk'[OnDisk(outs[j])] = Whole(j),
           \A j \in 1..NumFiles : item'[j] = "renaming" =>
                OnDisk(outs[j]) \in DOMAIN parts' /\ parts'[OnDisk(outs[j])] = Whole(j)
    PROVE  MadeIsDone'
<1>1. \A j \in 1..NumFiles : OnDisk(outs'[j]) = OnDisk(outs[j]) OBVIOUS
<1>2. \A k \in 1..NumFiles' : item'[k] # "todo" => Len(outs') = NumFiles' OBVIOUS
<1> QED BY <1>1, <1>2 DEF MadeIsDone

\* What a step that writes at the place of file k leaves on the disk.
LEMMA DiskMoves ==
    ASSUME BatchInv, Len(outs) = NumFiles, NEW k \in 1..NumFiles, NEW content,
           disk' = Put(disk, outs[k], content), item[k] # "done",
           \A j \in 1..NumFiles : j # k => item'[j] = item[j],
           \A j \in 1..NumFiles : content = Whole(j) => j = k /\ item'[k] = "done",
           item'[k] = "done" => content = Whole(k)
    PROVE  /\ \A p \in DOMAIN disk', j \in 1..NumFiles :
                  disk'[p] = Whole(j) => item'[j] = "done" /\ p = OnDisk(outs[j])
           /\ \A j \in 1..NumFiles : item'[j] = "done" =>
                  OnDisk(outs[j]) \in DOMAIN disk' /\ disk'[OnDisk(outs[j])] = Whole(j)
<1>1. PICK at : at = OnDisk(outs[k]) OBVIOUS
<1>2. /\ DOMAIN disk' = DOMAIN disk \union {at} /\ disk'[at] = content
      /\ \A p \in DOMAIN disk : p # at => disk'[p] = disk[p]
  BY <1>1 DEF Put
<1>3. \A p \in DOMAIN disk, j \in 1..NumFiles :
          disk[p] = Whole(j) => item[j] = "done" /\ p = OnDisk(outs[j])
  BY DEF BatchInv, MadeIsDone
<1>4. \A j \in 1..NumFiles : item[j] = "done" =>
          OnDisk(outs[j]) \in DOMAIN disk /\ disk[OnDisk(outs[j])] = Whole(j)
  BY DEF BatchInv, MadeIsDone
<1>5. ASSUME NEW p \in DOMAIN disk', NEW j \in 1..NumFiles, disk'[p] = Whole(j)
      PROVE  item'[j] = "done" /\ p = OnDisk(outs[j])
  <2>1. CASE p = at BY <1>1, <1>2, <1>5, <2>1
  <2>2. CASE p # at
    <3>1. p \in DOMAIN disk /\ disk[p] = Whole(j) BY <1>2, <1>5, <2>2
    <3>2. item[j] = "done" /\ p = OnDisk(outs[j]) BY <1>3, <3>1
    <3> QED BY <3>2
  <2> QED BY <2>1, <2>2
<1>6. ASSUME NEW j \in 1..NumFiles, item'[j] = "done"
      PROVE  OnDisk(outs[j]) \in DOMAIN disk' /\ disk'[OnDisk(outs[j])] = Whole(j)
  <2>1. CASE j = k BY <1>1, <1>2, <1>6, <2>1
  <2>2. CASE j # k
    <3>1. OnDisk(outs[j]) \in DOMAIN disk /\ disk[OnDisk(outs[j])] = Whole(j) BY <1>4, <1>6, <2>2
    <3>2. OnDisk(outs[j]) # at BY <1>1, <2>2, PlacesApart
    <3> QED BY <1>2, <3>1, <3>2
  <2> QED BY <2>1, <2>2
<1> QED BY <1>5, <1>6

\* The same of a step that writes or removes the part of file k.
LEMMA PartsMove ==
    ASSUME BatchInv, Len(outs) = NumFiles, NEW k \in 1..NumFiles, NEW content,
           parts' = Put(parts, outs[k], content) \/ parts' = Without(parts, outs[k]),
           \A j \in 1..NumFiles : j # k => item'[j] = item[j],
           item'[k] = "renaming" => content = Whole(k) /\ parts' = Put(parts, outs[k], content)
    PROVE  \A j \in 1..NumFiles : item'[j] = "renaming" =>
               OnDisk(outs[j]) \in DOMAIN parts' /\ parts'[OnDisk(outs[j])] = Whole(j)
<1>1. PICK at : at = OnDisk(outs[k]) OBVIOUS
<1>2. \A p \in DOMAIN parts : p # at => p \in DOMAIN parts' /\ parts'[p] = parts[p]
  <2>1. CASE parts' = Put(parts, outs[k], content)
    <3>1. /\ DOMAIN parts' = DOMAIN parts \union {at}
          /\ \A p \in DOMAIN parts : p # at => parts'[p] = parts[p]
      BY <1>1, <2>1 DEF Put
    <3> QED BY <3>1
  <2>2. CASE parts' = Without(parts, outs[k])
    <3>1. /\ DOMAIN parts' = DOMAIN parts \ {at}
          /\ \A p \in DOMAIN parts : p # at => parts'[p] = parts[p]
      BY <1>1, <2>2 DEF Without
    <3> QED BY <3>1
  <2> QED BY <2>1, <2>2
<1>3. \A j \in 1..NumFiles : item[j] = "renaming" =>
          OnDisk(outs[j]) \in DOMAIN parts /\ parts[OnDisk(outs[j])] = Whole(j)
  BY DEF BatchInv, MadeIsDone
<1>4. ASSUME NEW j \in 1..NumFiles, item'[j] = "renaming"
      PROVE  OnDisk(outs[j]) \in DOMAIN parts' /\ parts'[OnDisk(outs[j])] = Whole(j)
  <2>1. CASE j = k
    <3>1. content = Whole(k) /\ parts' = Put(parts, outs[k], content) BY <1>4, <2>1
    <3>2. DOMAIN parts' = DOMAIN parts \union {at} /\ parts'[at] = content BY <1>1, <3>1 DEF Put
    <3> QED BY <1>1, <2>1, <3>1, <3>2
  <2>2. CASE j # k
    <3>1. OnDisk(outs[j]) \in DOMAIN parts /\ parts[OnDisk(outs[j])] = Whole(j) BY <1>3, <1>4, <2>2
    <3>2. OnDisk(outs[j]) # at BY <1>1, <2>2, PlacesApart
    <3> QED BY <1>2, <3>1, <3>2
  <2> QED BY <2>1, <2>2
<1> QED BY <1>4

\* A step of file k that leaves the disk alone, and no longer or not yet has it done.
LEMMA DiskStays ==
    ASSUME BatchInv, NEW k \in 1..NumFiles, UNCHANGED disk,
           item[k] # "done", item'[k] # "done",
           \A j \in 1..NumFiles : j # k => item'[j] = item[j]
    PROVE  /\ \A p \in DOMAIN disk', j \in 1..NumFiles :
                  disk'[p] = Whole(j) => item'[j] = "done" /\ p = OnDisk(outs[j])
           /\ \A j \in 1..NumFiles : item'[j] = "done" =>
                  OnDisk(outs[j]) \in DOMAIN disk' /\ disk'[OnDisk(outs[j])] = Whole(j)
<1>1. \A p \in DOMAIN disk, j \in 1..NumFiles :
          disk[p] = Whole(j) => item[j] = "done" /\ p = OnDisk(outs[j])
  BY DEF BatchInv, MadeIsDone
<1>2. \A j \in 1..NumFiles : item[j] = "done" =>
          OnDisk(outs[j]) \in DOMAIN disk /\ disk[OnDisk(outs[j])] = Whole(j)
  BY DEF BatchInv, MadeIsDone
<1>3. \A j \in 1..NumFiles : (item'[j] = "done") <=> (item[j] = "done") OBVIOUS
<1> QED BY <1>1, <1>2, <1>3

LEMMA PartsStay ==
    ASSUME BatchInv, NEW k \in 1..NumFiles, UNCHANGED parts, item'[k] # "renaming",
           \A j \in 1..NumFiles : j # k => item'[j] = item[j]
    PROVE  \A j \in 1..NumFiles : item'[j] = "renaming" =>
               OnDisk(outs[j]) \in DOMAIN parts' /\ parts'[OnDisk(outs[j])] = Whole(j)
<1>1. \A j \in 1..NumFiles : item[j] = "renaming" =>
          OnDisk(outs[j]) \in DOMAIN parts /\ parts[OnDisk(outs[j])] = Whole(j)
  BY DEF BatchInv, MadeIsDone
<1> QED BY <1>1

LEMMA BeginsKeeps == ASSUME BatchInv, NEW k \in 1..NumFiles, Begins(k) PROVE BatchInv'
<1>1. /\ item[k] = "todo" /\ Len(outs) = NumFiles /\ Becomes(k, "writing")
      /\ UNCHANGED <<batch, outs, foreign, said>>
  BY DEF Begins
<1>2. item'[k] = "writing" /\ \A j \in 1..NumFiles : j # k => item'[j] = item[j] BY <1>1, ItemIs
<1>3. NumFiles' = NumFiles BY <1>1, BatchSame
<1>4. \A j \in 1..NumFiles : Half(k) # Whole(j) BY HalfIsNot
<1>5. CASE batch.op # "thumbnail"
  <2>1. UNCHANGED disk /\ parts' = Put(parts, outs[k], Half(k)) BY <1>5 DEF Begins
  <2>2. MadeIsDone' BY <1>1, <1>2, <1>3, <2>1, DiskStays, PartsMove, MadeMoves
  <2> QED BY <1>1, <2>2, ItemKeeps DEF States
<1>6. CASE batch.op = "thumbnail"
  <2>1. disk' = Put(disk, outs[k], Half(k)) /\ UNCHANGED parts BY <1>6 DEF Begins
  <2>2. MadeIsDone' BY <1>1, <1>2, <1>3, <1>4, <2>1, DiskMoves, PartsStay, MadeMoves
  <2> QED BY <1>1, <2>2, ItemKeeps DEF States
<1> QED BY <1>5, <1>6

LEMMA RefusedKeeps == ASSUME BatchInv, NEW k \in 1..NumFiles, Refused(k) PROVE BatchInv'
<1>1. /\ item[k] = "todo" /\ Len(outs) = NumFiles
      /\ UNCHANGED <<batch, outs, disk, parts, foreign, said>>
  BY DEF Refused
<1>2. PICK state \in {"failed", "skipped"} : Becomes(k, state) BY DEF Refused
<1>3. item'[k] = state /\ \A j \in 1..NumFiles : j # k => item'[j] = item[j] BY <1>2, ItemIs
<1>4. NumFiles' = NumFiles BY <1>1, BatchSame
<1>5. MadeIsDone' BY <1>1, <1>3, <1>4, DiskStays, PartsStay, MadeMoves
<1> QED BY <1>1, <1>2, <1>5, ItemKeeps DEF States

LEMMA WrittenKeeps == ASSUME BatchInv, NEW k \in 1..NumFiles, Written(k) PROVE BatchInv'
<1>1. item[k] = "writing" /\ UNCHANGED <<batch, outs, foreign, said>> BY DEF Written
<1>2. Len(outs) = NumFiles BY <1>1 DEF BatchInv, MadeIsDone
<1>3. NumFiles' = NumFiles BY <1>1, BatchSame
<1>4. \A j \in 1..NumFiles : Whole(k) = Whole(j) => j = k BY HalfIsNot
<1>5. CASE batch.op # "thumbnail"
  <2>1. UNCHANGED disk /\ parts' = Put(parts, outs[k], Whole(k)) /\ Becomes(k, "renaming")
    BY <1>5 DEF Written
  <2>2. item'[k] = "renaming" /\ \A j \in 1..NumFiles : j # k => item'[j] = item[j] BY <2>1, ItemIs
  <2>3. MadeIsDone' BY <1>1, <1>2, <1>3, <2>1, <2>2, DiskStays, PartsMove, MadeMoves
  <2> QED BY <1>1, <1>2, <2>1, <2>3, ItemKeeps DEF States
<1>6. CASE batch.op = "thumbnail"
  <2>1. disk' = Put(disk, outs[k], Whole(k)) /\ UNCHANGED parts /\ Becomes(k, "done")
    BY <1>6 DEF Written
  <2>2. item'[k] = "done" /\ \A j \in 1..NumFiles : j # k => item'[j] = item[j] BY <2>1, ItemIs
  <2>3. MadeIsDone' BY <1>1, <1>2, <1>3, <1>4, <2>1, <2>2, DiskMoves, PartsStay, MadeMoves
  <2> QED BY <1>1, <1>2, <2>1, <2>3, ItemKeeps DEF States
<1> QED BY <1>5, <1>6

LEMMA RenamedKeeps == ASSUME BatchInv, NEW k \in 1..NumFiles, Renamed(k) PROVE BatchInv'
<1>1. /\ item[k] = "renaming" /\ Becomes(k, "done") /\ UNCHANGED <<batch, outs, foreign, said>>
      /\ disk' = Put(disk, outs[k], parts[OnDisk(outs[k])]) /\ parts' = Without(parts, outs[k])
  BY DEF Renamed
<1>2. Len(outs) = NumFiles /\ parts[OnDisk(outs[k])] = Whole(k) BY <1>1 DEF BatchInv, MadeIsDone
<1>3. NumFiles' = NumFiles BY <1>1, BatchSame
<1>4. \A j \in 1..NumFiles : Whole(k) = Whole(j) => j = k BY HalfIsNot
<1>5. item'[k] = "done" /\ \A j \in 1..NumFiles : j # k => item'[j] = item[j] BY <1>1, ItemIs
<1>6. disk' = Put(disk, outs[k], Whole(k)) BY <1>1, <1>2
<1>7. MadeIsDone' BY <1>1, <1>2, <1>3, <1>4, <1>5, <1>6, DiskMoves, PartsMove, MadeMoves
<1> QED BY <1>1, <1>2, <1>7, ItemKeeps DEF States

LEMMA FailsKeeps == ASSUME BatchInv, NEW k \in 1..NumFiles, Fails(k) PROVE BatchInv'
<1>1. /\ item[k] \in {"writing", "renaming"} /\ Becomes(k, "failed")
      /\ UNCHANGED <<batch, outs, disk, foreign, said>> /\ parts' = Without(parts, outs[k])
  BY DEF Fails
<1>2. Len(outs) = NumFiles BY <1>1 DEF BatchInv, MadeIsDone
<1>3. NumFiles' = NumFiles BY <1>1, BatchSame
<1>4. item'[k] = "failed" /\ \A j \in 1..NumFiles : j # k => item'[j] = item[j] BY <1>1, ItemIs
<1>5. MadeIsDone' BY <1>1, <1>2, <1>3, <1>4, DiskStays, PartsMove, MadeMoves
<1> QED BY <1>1, <1>2, <1>5, ItemKeeps DEF States

LEMMA SaysKeeps == ASSUME BatchInv, Says PROVE BatchInv'
<1>1. UNCHANGED <<batch, outs, item, disk, parts, foreign>> /\ said' = <<Summary>> /\ Final
  BY DEF Says, Final
<1>2. NumFiles' = NumFiles /\ Listed' /\ Chosen' BY <1>1, BatchSame
<1>3. Waiting' BY <1>1, <1>2 DEF BatchInv, Waiting
<1>4. MadeIsDone' BY <1>1, <1>2 DEF BatchInv, MadeIsDone, Whole
<1>5. Told'
  <2>1. Summary' = Summary BY <1>1, <1>2 DEF Summary, Count
  <2>2. Final' BY <1>1, <1>2 DEF Final
  <2> QED BY <1>1, <2>1, <2>2 DEF Told
<1> QED BY <1>1, <1>2, <1>3, <1>4, <1>5 DEF BatchInv

LEMMA ForeignKeeps == ASSUME BatchInv, ForeignFile PROVE BatchInv'
<1>1. UNCHANGED <<batch, outs, item, parts, said>> /\ foreign' = foreign + 1 BY DEF ForeignFile
<1>2. PICK path : ~Exists(path) /\ disk' = Put(disk, path, Foreign) BY DEF ForeignFile
<1>3. NumFiles' = NumFiles /\ Listed' /\ Chosen' BY <1>1, BatchSame
<1>4. foreign \in Nat /\ NumFiles \in Nat BY DEF BatchInv, Waiting, Listed
<1>5. /\ DOMAIN disk' = DOMAIN disk \union {OnDisk(path)} /\ disk'[OnDisk(path)] = Foreign
      /\ \A p \in DOMAIN disk : p # OnDisk(path) => disk'[p] = disk[p]
  BY <1>2 DEF Put
<1>6. Waiting'
  <2> SUFFICES ASSUME Len(outs) < NumFiles
               PROVE  /\ IsFiniteSet(DOMAIN disk') /\ Cardinality(DOMAIN disk') <= NumFiles + foreign + 1
                      /\ \A k \in 1..NumFiles : item[k] = "todo"
    BY <1>1, <1>3, <1>4 DEF Waiting
  <2>1. IsFiniteSet(DOMAIN disk) /\ Cardinality(DOMAIN disk) <= NumFiles + foreign
    BY DEF BatchInv, Waiting
  <2>2. /\ IsFiniteSet(DOMAIN disk \union {OnDisk(path)})
        /\ \/ Cardinality(DOMAIN disk \union {OnDisk(path)}) = Cardinality(DOMAIN disk)
           \/ Cardinality(DOMAIN disk \union {OnDisk(path)}) = Cardinality(DOMAIN disk) + 1
    BY <2>1, FS_AddElement
  <2>3. Cardinality(DOMAIN disk) \in Nat BY <2>1, FS_CardinalityType
  <2>4. \A c, d \in Nat : c <= NumFiles + foreign /\ (d = c \/ d = c + 1) => d <= NumFiles + foreign + 1
    BY <1>4
  <2>5. Cardinality(DOMAIN disk \union {OnDisk(path)}) \in Nat BY <2>2, FS_CardinalityType
  <2>6. Cardinality(DOMAIN disk \union {OnDisk(path)}) <= NumFiles + foreign + 1
    BY <2>1, <2>2, <2>3, <2>4, <2>5
  <2> QED BY <1>5, <2>2, <2>6 DEF BatchInv, Waiting
<1>7. OnDisk(path) \notin DOMAIN disk BY <1>2 DEF Exists
<1>8. \A k \in 1..NumFiles : Foreign # Whole(k) BY <1>4 DEF Foreign, Whole
<1>9. MadeIsDone'
  <2>1. ASSUME NEW p \in DOMAIN disk', NEW k \in 1..NumFiles, disk'[p] = Whole(k)
        PROVE  item[k] = "done" /\ p = OnDisk(outs[k])
    <3>1. p # OnDisk(path) /\ p \in DOMAIN disk /\ disk[p] = Whole(k) BY <1>5, <1>8, <2>1
    <3> QED BY <3>1 DEF BatchInv, MadeIsDone
  <2>2. ASSUME NEW k \in 1..NumFiles, item[k] = "done"
        PROVE  OnDisk(outs[k]) \in DOMAIN disk' /\ disk'[OnDisk(outs[k])] = Whole(k)
    <3>1. OnDisk(outs[k]) \in DOMAIN disk /\ disk[OnDisk(outs[k])] = Whole(k)
      BY <2>2 DEF BatchInv, MadeIsDone
    <3> QED BY <1>5, <1>7, <3>1
  <2>3. /\ \A k \in 1..NumFiles : item[k] # "todo" => Len(outs) = NumFiles
        /\ \A k \in 1..NumFiles : item[k] = "renaming" =>
              OnDisk(outs[k]) \in DOMAIN parts /\ parts[OnDisk(outs[k])] = Whole(k)
    BY DEF BatchInv, MadeIsDone
  <2>4. \A k \in 1..NumFiles : OnDisk(outs'[k]) = OnDisk(outs[k]) BY <1>1
  <2> QED BY <1>1, <1>3, <2>1, <2>2, <2>3, <2>4 DEF MadeIsDone
<1>10. Told'
  <2>1. Summary' = Summary BY <1>1, <1>3 DEF Summary, Count
  <2> QED BY <1>1, <1>3, <2>1 DEF BatchInv, Told, Final
<1> QED BY <1>1, <1>3, <1>6, <1>9, <1>10 DEF BatchInv

LEMMA BatchStepKeeps == ASSUME BatchInv, BatchNext PROVE BatchInv'
<1>1. CASE Choose BY <1>1, ChooseKeeps
<1>2. CASE Says BY <1>2, SaysKeeps
<1>3. CASE ForeignFile BY <1>3, ForeignKeeps
<1>4. CASE \E k \in 1..NumFiles : Begins(k) \/ Refused(k) \/ Written(k) \/ Renamed(k) \/ Fails(k)
  <2>1. PICK k \in 1..NumFiles : Begins(k) \/ Refused(k) \/ Written(k) \/ Renamed(k) \/ Fails(k)
    BY <1>4
  <2> QED BY <2>1, BeginsKeeps, RefusedKeeps, WrittenKeeps, RenamedKeeps, FailsKeeps
<1> QED BY <1>1, <1>2, <1>3, <1>4 DEF BatchNext

\* A batch that stutters keeps what is so of its state.
LEMMA BatchStutters == ASSUME BatchInv, UNCHANGED batchVars PROVE BatchInv'
<1>1. UNCHANGED <<batch, outs, item, disk, parts, foreign, said>> BY DEF batchVars
<1>2. NumFiles' = NumFiles /\ Listed' /\ Chosen' BY <1>1, BatchSame
<1>3. Waiting' BY <1>1, <1>2 DEF BatchInv, Waiting
<1>4. MadeIsDone' BY <1>1, <1>2 DEF BatchInv, MadeIsDone, Whole
<1>5. Summary' = Summary BY <1>1, <1>2 DEF Summary, Count
<1>6. Told' BY <1>1, <1>2, <1>5 DEF BatchInv, Told, Final
<1> QED BY <1>1, <1>2, <1>3, <1>4, <1>6 DEF BatchInv

\* There is one whole file for each that is done.
LEMMA MadeCounted ==
    ASSUME BatchInv
    PROVE  /\ Count("done") \in Nat /\ Count("skipped") \in 0..NumFiles
           /\ Count("done") = Cardinality(Made)
           /\ Count("done") = 0 <=> Made = {}
<1> DEFINE D == {k \in 1..NumFiles : item[k] = "done"}
           S == {k \in 1..NumFiles : item[k] = "skipped"}
           f == [k \in D |-> OnDisk(outs[k])]
<1>1. IsFiniteSet(1..NumFiles) /\ Cardinality(1..NumFiles) = NumFiles /\ NumFiles \in Nat
  BY CountTo DEF BatchInv, Listed
<1>2. D \subseteq 1..NumFiles /\ S \subseteq 1..NumFiles OBVIOUS
<1>3. IsFiniteSet(D) /\ IsFiniteSet(S) /\ Cardinality(S) <= NumFiles BY <1>1, <1>2, FS_Subset
<1>4. Cardinality(D) \in Nat /\ Cardinality(S) \in Nat BY <1>3, FS_CardinalityType
<1>5. \A k \in D : OnDisk(outs[k]) \in Made
  <2>1. \A k \in D : OnDisk(outs[k]) \in DOMAIN disk /\ disk[OnDisk(outs[k])] = Whole(k)
    BY DEF BatchInv, MadeIsDone
  <2> QED BY <2>1 DEF Made
<1>6. \A p \in Made : \E k \in D : p = OnDisk(outs[k]) BY DEF BatchInv, MadeIsDone, Made
<1>7. \A j, k \in D : f[j] = f[k] => j = k
  <2>1. \A k \in D : Len(outs) = NumFiles BY DEF BatchInv, MadeIsDone
  <2> QED BY <2>1, PlacesApart
<1>8. f \in Bijection(D, Made)
  <2>1. f \in [D -> Made] BY <1>5
  <2>2. \A p \in Made : \E k \in D : f[k] = p BY <1>6
  <2> HIDE DEF f, D
  <2> QED BY <1>7, <2>1, <2>2 DEF Bijection, Injection, Surjection, IsInjective
<1>9. Cardinality(D) = Cardinality(Made) BY <1>3, <1>8, FS_Bijection DEF ExistsBijection
<1>10. Cardinality(D) = 0 <=> D = {} BY <1>3, FS_EmptySet
<1>11. D = {} <=> Made = {} BY <1>5, <1>6
<1>12. Count("done") = Cardinality(D) /\ Count("skipped") = Cardinality(S) BY DEF Count
<1> HIDE DEF D, S
<1> QED BY <1>1, <1>3, <1>4, <1>9, <1>10, <1>11, <1>12

LEMMA SaidIsMade == ASSUME BatchInv PROVE SaysWhatItMade
<1> SUFFICES ASSUME said # <<>>
             PROVE  /\ said[1].done = Cardinality(Made)
                    /\ said[1].ok <=> Made # {}
                    /\ \A k \in 1..NumFiles : item[k] = "done" => disk[OnDisk(outs[k])] = Whole(k)
  BY DEF SaysWhatItMade
<1>1. said[1] = Summary BY DEF BatchInv, Told
<1>2. /\ Count("done") \in Nat /\ Count("skipped") \in 0..NumFiles /\ NumFiles \in Nat
      /\ Count("done") = Cardinality(Made) /\ (Count("done") = 0 <=> Made = {})
  BY MadeCounted DEF BatchInv, Listed
<1>3. Summary.done = Count("done") BY DEF Summary
<1>4. Summary.ok <=> Count("done") # 0
  <2>1. Summary.ok = ~(/\ Count("done") = 0
                       /\ \/ NumFiles - Count("done") - Count("skipped") > 0
                          \/ Count("skipped") = NumFiles)
    BY DEF Summary
  <2>2. \A c \in 0..NumFiles : NumFiles - 0 - c > 0 \/ c = NumFiles BY <1>2
  <2> QED BY <1>2, <2>1, <2>2
<1>5. \A k \in 1..NumFiles : item[k] = "done" => disk[OnDisk(outs[k])] = Whole(k)
  BY DEF BatchInv, MadeIsDone
<1> QED BY <1>1, <1>2, <1>3, <1>4, <1>5

\* What the command line says it made is there when it says so: as many whole files as it
\* counts, each of an input of its own, and an error exactly when there is none (cli.rs:427).
\* For any files and any other programs, if no two stems differ only in case.
THEOREM BatchSaysWhatItMade == ASSUME AllApart PROVE BatchSpec => []SaysWhatItMade
<1>1. BatchInit => BatchInv BY BatchStarts
<1>2. BatchInv /\ [BatchNext]_batchVars => BatchInv' BY BatchStepKeeps, BatchStutters
<1>3. BatchInv => SaysWhatItMade BY SaidIsMade
<1> QED BY <1>1, <1>2, <1>3, PTL DEF BatchSpec

-----------------------------------------------------------------------------
(* The folder verbs                                                                   *)

Ids == ToSet(Selected) \union {"theirs"}
News == {Numbered("new", n) : n \in Nat}
KnownSizes == {WantedDir[id] : id \in Ids} \union {<<>>}
DirNames == KnownSizes \union News \union {Home}
FileNames == ToSet(Selected) \union {WantedName[id] : id \in Ids} \union {""}
Candidates == {<<d, Numbered(name, n)>> : d \in DirNames, name \in FileNames, n \in Nat}

\* The folders the verbs make are none but below the home folder, the new folder is not
\* named as a size or as tags, and no file asks for the name of another selected one.
NamesApart ==
    /\ Home \notin News
    /\ \A id \in Ids : WantedDir[id] \notin News \union {Home}
    /\ \A id \in Ids, k \in DOMAIN Selected : WantedName[id] = Selected[k] => id = Selected[k]

PCs == {"off", "look", "create", "probe", "file", "reserve", "land", "refused", "told"}
TaskState ==
    [verb : AllVerbs, pc : PCs, k : Nat \ {0}, seen : Seq(KnownSizes), dir : DirNames, name : FileNames,
     slot : Candidates \union {<<>>}, landed : Nat, skipped : Nat, errored : Nat]

\* Where a file is aimed at: the folder and the name the verb gives it.
Aims(t) ==
    /\ t.k \in DOMAIN Selected
    /\ t.verb = "rename_by_exif" =>
        t.dir = Home /\ t.name \in {WantedName[Selected[t.k]], WantedName["theirs"]}
    /\ t.verb # "rename_by_exif" => t.name = Selected[t.k] /\ t.dir # Home
    /\ t.verb \notin {"rename_by_exif", "files_to_folder"} => t.dir \notin News

Shape(t) ==
    /\ t.pc \in {"look", "create"} => t.verb = "files_to_folder"
    /\ t.pc = "probe" => t.verb = "sort_by_dimensions" /\ Len(t.seen) <= Len(Selected)
    /\ t.pc \in {"file", "reserve", "land"} /\ t.verb = "sort_by_dimensions" =>
        Len(t.seen) = Len(Selected)
    /\ t.pc \in {"create", "file", "reserve", "land"} /\ t.verb = "files_to_folder" => t.dir \in News
    /\ t.pc \in {"reserve", "land"} => Aims(t)
    /\ t.pc = "land" =>
        /\ t.slot # SourceOf(t.k)
        /\ \E n \in Nat : t.slot = <<t.dir, Numbered(t.name, n)>>

Tasks ==
    /\ task \in [Runs -> TaskState]
    /\ \A r \in Runs : Shape(task[r])

OneFolder == \A r, s \in Runs : Does(r, {"files_to_folder"}) /\ Does(s, {"files_to_folder"}) => r = s

\* Whose folder stands: a folder the verb made where the file goes, or its own new one.
Stands(r) ==
    \/ task[r].pc \in {"reserve", "land"} /\ ~Does(r, {"files_to_folder"})
    \/ OneFolder /\ task[r].pc \in {"file", "reserve", "land"} /\ Does(r, {"files_to_folder"})
Standing ==
    /\ IsFiniteSet(folders) /\ Home \in folders
    /\ \A r \in Runs : Stands(r) => task[r].dir \in folders

\* A slot is held by its placeholder until the file is there.
Holding ==
    \A r \in Runs : task[r].pc = "land" /\ (OneFolder \/ Does(r, {"rename_by_exif"})) =>
        task[r].slot \in DOMAIN files /\ files[task[r].slot] = Placeholder(r)

\* Where a selected file was there is that file, or one other programs saved.
AtSources ==
    /\ IsFiniteSet(DOMAIN files) /\ saved \in Nat
    /\ \A k \in DOMAIN Selected : SourceOf(k) \in DOMAIN files =>
        \/ files[SourceOf(k)] = Content(Selected[k])
        \/ saved > 0 /\ files[SourceOf(k)] = Content("theirs")

\* If no other program saves, a file keeps its name in every folder but its own.
NamesKept ==
    saved = 0 => \A p \in DOMAIN files, id \in Ids :
        files[p] = Content(id) /\ p[1] # Home => p[2][1] = id

AllKept == saved = 0 \/ OneFolder => KeptAll

FolderInv == Tasks /\ Standing /\ Holding /\ AtSources /\ NamesKept /\ AllKept

LEMMA SelectedIs ==
    /\ Len(Selected) \in Nat /\ DOMAIN Selected = 1..Len(Selected)
    /\ \A k \in DOMAIN Selected : Selected[k] \in Ids /\ Selected[k] # "theirs"
    /\ \A j, k \in DOMAIN Selected : Selected[j] = Selected[k] => j = k
    /\ "theirs" \in Ids
<1>1. Selected \in Seq(ToSet(Selected)) /\ IsInjective(Selected) /\ "theirs" \notin ToSet(Selected)
  BY SelectionAssumption
<1>2. Len(Selected) \in Nat /\ DOMAIN Selected = 1..Len(Selected) BY <1>1
<1>3. \A k \in DOMAIN Selected : Selected[k] \in ToSet(Selected) BY <1>2 DEF ToSet
<1> QED BY <1>1, <1>2, <1>3 DEF Ids, IsInjective

LEMMA NumberedIs ==
    ASSUME NEW a, NEW b, NEW m \in Nat, NEW n \in Nat
    PROVE  /\ Numbered(a, m)[1] = a
           /\ Numbered(a, m) = Numbered(b, n) => a = b /\ m = n
           /\ Numbered(a, m) = <<b>> => a = b /\ m = 0
           /\ Numbered(a, 0) = <<a>>
<1>1. Len(<<a>>) = 1 /\ Len(<<a, m + 1>>) = 2 /\ Len(<<b>>) = 1 /\ Len(<<b, n + 1>>) = 2 OBVIOUS
<1> QED BY <1>1 DEF Numbered

\* Among more candidates than there are names in use, there is a first free one.
LEMMA FirstFreeOne ==
    ASSUME NEW D, IsFiniteSet(D), NEW f, \A m, n \in Nat : f[m] = f[n] => m = n
    PROVE  \E m \in 0..Cardinality(D) : f[m] \notin D /\ \A i \in 0..m - 1 : f[i] \in D
<1> DEFINE K == Cardinality(D)
           T == {m \in 0..K : f[m] \notin D}
<1>1. K \in Nat BY FS_CardinalityType
<1>2. T # {}
  <2> SUFFICES ASSUME T = {} PROVE FALSE OBVIOUS
  <2> DEFINE g == [m \in 0..K |-> f[m]]
  <2>1. g \in [0..K -> D] /\ \A m, n \in 0..K : g[m] = g[n] => m = n BY <1>1
  <2>2. g \in Injection(0..K, D) BY <2>1 DEF Injection, IsInjective
  <2>3. Cardinality(0..K) = K + 1 /\ IsFiniteSet(0..K) BY <1>1, FS_Interval
  <2>4. Cardinality(0..K) <= Cardinality(D) BY <2>2, FS_Injection
  <2> HIDE DEF T, g
  <2> QED BY <1>1, <2>3, <2>4
<1>3. T \subseteq Nat BY <1>1
<1>4. PICK m \in T : \A y \in T : m <= y BY <1>2, <1>3, LeastOf
<1>5. \A i \in 0..m - 1 : i \in 0..K /\ i < m BY <1>1, <1>4
<1>6. \A i \in 0..m - 1 : f[i] \in D
  <2> SUFFICES ASSUME NEW i \in 0..m - 1, f[i] \notin D PROVE FALSE OBVIOUS
  <2>1. i \in T /\ i < m BY <1>5
  <2>2. i \in Nat /\ m \in Nat BY <1>3, <1>4, <2>1
  <2> QED BY <1>4, <2>1, <2>2
<1> QED BY <1>4, <1>6

\* The candidate that reserve_dest takes is free.
LEMMA FirstFreeIs ==
    ASSUME IsFiniteSet(DOMAIN files), NEW dir, NEW name
    PROVE  \E n \in Nat : /\ FirstFree(dir, name) = <<dir, Numbered(name, n)>>
                          /\ FirstFree(dir, name) \notin DOMAIN files
<1> DEFINE Free(n) == <<dir, Numbered(name, n)>> \notin DOMAIN files
           First(m) == Free(m) /\ \A i \in 0..m - 1 : ~Free(i)
           n == CHOOSE m \in 0..Cardinality(DOMAIN files) : First(m)
           f == [m \in Nat |-> <<dir, Numbered(name, m)>>]
<1>1. \A i, j \in Nat : f[i] = f[j] => i = j
  <2> SUFFICES ASSUME NEW i \in Nat, NEW j \in Nat, f[i] = f[j] PROVE i = j OBVIOUS
  <2>1. Numbered(name, i) = Numbered(name, j) OBVIOUS
  <2> QED BY <2>1, NumberedIs
<1>2. PICK m \in 0..Cardinality(DOMAIN files) :
          f[m] \notin DOMAIN files /\ \A i \in 0..m - 1 : f[i] \in DOMAIN files
  BY <1>1, FirstFreeOne
<1>3. Cardinality(DOMAIN files) \in Nat BY FS_CardinalityType
<1>4. First(m) BY <1>2, <1>3
<1>5. n \in 0..Cardinality(DOMAIN files) /\ First(n)
  <2> HIDE DEF First
  <2> QED BY <1>2, <1>4
<1>6. FirstFree(dir, name) = <<dir, Numbered(name, n)>> BY DEF FirstFree
<1>7. n \in Nat BY <1>3, <1>5
<1>8. Free(n) BY <1>5
<1> HIDE DEF n
<1> QED BY <1>6, <1>7, <1>8

\* The new folder's name is one that no folder has.
LEMMA LooksTakes ==
    ASSUME FolderInv, NEW r \in Runs, Looks(r)
    PROVE  /\ task[r].pc = "look"
           /\ \E d \in News : NowIs(r, [task[r] EXCEPT !.pc = "create", !.dir = d])
<1> DEFINE Free(n) == Numbered("new", n) \notin folders
           First(m) == Free(m) /\ \A i \in 0..m - 1 : ~Free(i)
           n == CHOOSE m \in 0..Cardinality(folders) : First(m)
           f == [m \in Nat |-> Numbered("new", m)]
<1>1. \A i, j \in Nat : f[i] = f[j] => i = j BY NumberedIs
<1>2. IsFiniteSet(folders) BY DEF FolderInv, Standing
<1>3. PICK m \in 0..Cardinality(folders) :
          f[m] \notin folders /\ \A i \in 0..m - 1 : f[i] \in folders
  BY <1>1, <1>2, FirstFreeOne
<1>4. Cardinality(folders) \in Nat BY <1>2, FS_CardinalityType
<1>5. First(m) BY <1>3, <1>4
<1>6. n \in 0..Cardinality(folders) /\ First(n)
  <2> HIDE DEF First
  <2> QED BY <1>3, <1>5
<1>7. task[r].pc = "look" /\ NowIs(r, [task[r] EXCEPT !.pc = "create", !.dir = Numbered("new", n)])
  BY DEF Looks
<1>8. n \in Nat BY <1>4, <1>6
<1> HIDE DEF n
<1> QED BY <1>7, <1>8 DEF News

LEMMA TaskMoves ==
    ASSUME Tasks, NEW r \in Runs, NEW new \in TaskState, Shape(new), new.verb = task[r].verb,
           NowIs(r, new)
    PROVE  /\ Tasks' /\ task'[r] = new
           /\ \A s \in Runs : s # r => task'[s] = task[s]
           /\ \A s \in Runs : task'[s].verb = task[s].verb
           /\ OneFolder' <=> OneFolder
<1>1. task' = [task EXCEPT ![r] = new] /\ task \in [Runs -> TaskState] BY DEF NowIs, Tasks
<1>2. /\ task' \in [Runs -> TaskState] /\ task'[r] = new
      /\ \A s \in Runs : s # r => task'[s] = task[s]
  BY <1>1
<1>3. \A s \in Runs : task'[s].verb = task[s].verb BY <1>2
<1>4. \A s \in Runs : Shape(task'[s]) BY <1>2 DEF Tasks
<1> QED BY <1>2, <1>3, <1>4 DEF Tasks, OneFolder, Does

\* A file is done with: the next is looked at.
LEMMA NextFile ==
    ASSUME Tasks, NEW r \in Runs, task[r].pc \in {"file", "reserve", "land"},
           NEW new \in {Landed1(task[r]), Skipped1(task[r]), Errored1(task[r])}
    PROVE  /\ new \in TaskState /\ Shape(new) /\ new.verb = task[r].verb
           /\ new.pc = "file" /\ new.dir = task[r].dir
<1>1. PICK t : t = task[r] OBVIOUS
<1>2. t \in TaskState /\ Shape(t) BY <1>1 DEF Tasks
<1>3. t.k + 1 \in Nat \ {0} /\ t.landed + 1 \in Nat /\ t.skipped + 1 \in Nat /\ t.errored + 1 \in Nat
  BY <1>2 DEF TaskState
<1> DEFINE Good(u) == u \in TaskState /\ u.verb = t.verb /\ u.seen = t.seen /\ u.dir = t.dir /\ u.pc = "file"
<1>4. Good(Landed1(t)) BY <1>2, <1>3 DEF TaskState, PCs, Landed1
<1>5. Good(Skipped1(t)) BY <1>2, <1>3 DEF TaskState, PCs, Skipped1
<1>6. Good(Errored1(t)) BY <1>2, <1>3 DEF TaskState, PCs, Errored1
<1>7. Good(new) BY <1>1, <1>4, <1>5, <1>6
<1> QED BY <1>1, <1>2, <1>7 DEF Shape

\* The folders that are needed still stand when none is taken away.
LEMMA StandingStays ==
    ASSUME FolderInv, NEW r \in Runs, NEW new, task'[r] = new,
           \A s \in Runs : s # r => task'[s] = task[s],
           \A s \in Runs : task'[s].verb = task[s].verb,
           OneFolder' <=> OneFolder,
           folders \subseteq folders', IsFiniteSet(folders'),
           Stands(r)' => new.dir \in folders'
    PROVE  Standing'
<1>1. ASSUME NEW s \in Runs, Stands(s)' PROVE task'[s].dir \in folders'
  <2>1. CASE s = r BY <1>1, <2>1
  <2>2. CASE s # r
    <3>1. Stands(s) BY <1>1, <2>2 DEF Stands, Does
    <3> QED BY <2>2, <3>1 DEF FolderInv, Standing
  <2> QED BY <2>1, <2>2
<1> QED BY <1>1 DEF FolderInv, Standing

\* A step that leaves the files alone and does not make its run land on a name.
LEMMA FilesStay ==
    ASSUME FolderInv, NEW r \in Runs, NEW new \in TaskState, Shape(new), new.verb = task[r].verb,
           NowIs(r, new), UNCHANGED <<files, saved>>, Standing',
           new.pc = "land" => ~OneFolder /\ new.verb # "rename_by_exif"
    PROVE  FolderInv'
<1>1. /\ Tasks' /\ task'[r] = new
      /\ \A s \in Runs : s # r => task'[s] = task[s]
      /\ \A s \in Runs : task'[s].verb = task[s].verb
      /\ OneFolder' <=> OneFolder
  BY TaskMoves DEF FolderInv
<1>2. Holding'
  <2> SUFFICES ASSUME NEW s \in Runs, task'[s].pc = "land", OneFolder \/ task[s].verb = "rename_by_exif"
               PROVE  task'[s].slot \in DOMAIN files /\ files[task'[s].slot] = Placeholder(s)
    BY <1>1 DEF Holding, Does, Placeholder
  <2>1. s # r BY <1>1
  <2> QED BY <1>1, <2>1 DEF FolderInv, Holding, Does
<1>3. AtSources' BY DEF FolderInv, AtSources, SourceOf, Content
<1>4. NamesKept' BY DEF FolderInv, NamesKept, Content
<1>5. AllKept' BY <1>1 DEF FolderInv, AllKept, KeptAll, PlacesOf, Content
<1> QED BY <1>1, <1>2, <1>3, <1>4, <1>5 DEF FolderInv

\* What a run is before it starts.
LEMMA IdleIs == ASSUME NEW verb \in AllVerbs PROVE IdleTask(verb) \in TaskState /\ IdleTask(verb).pc = "off"
<1>1. "" \in FileNames /\ <<>> \in DirNames BY DEF FileNames, DirNames, KnownSizes
<1>2. <<>> \in Seq(KnownSizes) OBVIOUS
<1>3. 1 \in Nat \ {0} /\ 0 \in Nat /\ "off" \in PCs /\ <<>> \in Candidates \union {<<>>}
  BY DEF PCs
<1> HIDE DEF Candidates, PCs, FileNames, DirNames, KnownSizes
<1> QED BY <1>1, <1>2, <1>3 DEF TaskState, IdleTask

LEMMA StartsKeeps == ASSUME FolderInv, NEW r \in Runs, Starts(r) PROVE FolderInv'
<1> DEFINE pc == CASE Does(r, {"files_to_folder"}) -> "look"
                   [] Does(r, {"sort_by_dimensions"}) -> "probe"
                   [] OTHER -> "file"
           new == [IdleTask(task[r].verb) EXCEPT !.pc = pc]
<1>1. NowIs(r, new) /\ UNCHANGED <<files, folders, saved>> BY DEF Starts
<1>2. task[r] \in TaskState BY DEF FolderInv, Tasks
<1>3. /\ pc \in {"look", "probe", "file"}
      /\ pc = "file" => task[r].verb \notin {"files_to_folder", "sort_by_dimensions"}
      /\ pc = "look" => task[r].verb = "files_to_folder"
      /\ pc = "probe" => task[r].verb = "sort_by_dimensions"
  BY DEF Does
<1>4. new \in TaskState
  <2>1. task[r].verb \in AllVerbs BY <1>2 DEF TaskState
  <2>2. IdleTask(task[r].verb) \in TaskState BY <2>1, IdleIs
  <2> HIDE DEF pc
  <2> QED BY <1>3, <2>2 DEF TaskState, PCs
<1>5. new.verb = task[r].verb /\ new.pc = pc /\ Len(new.seen) = 0 BY DEF IdleTask
<1> HIDE DEF new, pc
<1>6. Shape(new) BY <1>3, <1>5, SelectedIs DEF Shape
<1>7. /\ task'[r] = new
      /\ \A s \in Runs : s # r => task'[s] = task[s]
      /\ \A s \in Runs : task'[s].verb = task[s].verb
      /\ OneFolder' <=> OneFolder
  BY <1>1, <1>4, <1>5, <1>6, TaskMoves DEF FolderInv
<1>8. ~Stands(r)' BY <1>3, <1>5, <1>7 DEF Stands, Does
<1>9. Standing' BY <1>1, <1>7, <1>8, StandingStays DEF FolderInv, Standing
<1> QED BY <1>1, <1>3, <1>4, <1>5, <1>6, <1>9, FilesStay

LEMMA LooksKeeps == ASSUME FolderInv, NEW r \in Runs, Looks(r) PROVE FolderInv'
<1>1. PICK d \in News : NowIs(r, [task[r] EXCEPT !.pc = "create", !.dir = d]) BY LooksTakes
<1> DEFINE new == [task[r] EXCEPT !.pc = "create", !.dir = d]
<1>2. UNCHANGED <<files, folders, saved>> BY DEF Looks
<1>3. task[r] \in TaskState BY DEF FolderInv, Tasks
<1>4. new \in TaskState /\ new.verb = task[r].verb /\ new.pc = "create" /\ new.dir = d
  <2>1. d \in DirNames BY DEF DirNames
  <2> QED BY <1>3, <2>1 DEF TaskState, PCs
<1>5. NowIs(r, new) BY <1>1
<1> HIDE DEF new
<1>6. Shape(new)
  <2>1. task[r].pc = "look" BY DEF Looks
  <2>2. Shape(task[r]) BY DEF FolderInv, Tasks
  <2> QED BY <1>4, <2>1, <2>2 DEF Shape
<1>7. /\ task'[r] = new
      /\ \A s \in Runs : s # r => task'[s] = task[s]
      /\ \A s \in Runs : task'[s].verb = task[s].verb
      /\ OneFolder' <=> OneFolder
  BY <1>4, <1>5, <1>6, TaskMoves DEF FolderInv
<1>8. ~Stands(r)' BY <1>4, <1>7 DEF Stands, Does
<1>9. Standing' BY <1>2, <1>7, <1>8, StandingStays DEF FolderInv, Standing
<1> QED BY <1>2, <1>4, <1>5, <1>6, <1>9, FilesStay

LEMMA CreatesKeeps == ASSUME FolderInv, NEW r \in Runs, Creates(r) PROVE FolderInv'
<1>1. PICK pc \in {"file", "refused"} :
        /\ NowIs(r, [task[r] EXCEPT !.pc = pc])
        /\ folders' = folders \union (IF pc = "file" THEN {task[r].dir} ELSE {})
  BY DEF Creates
<1> DEFINE new == [task[r] EXCEPT !.pc = pc]
<1>2. UNCHANGED <<files, saved>> /\ task[r].pc = "create" BY DEF Creates
<1>3. task[r] \in TaskState /\ Shape(task[r]) BY DEF FolderInv, Tasks
<1>4. /\ new \in TaskState /\ new.verb = task[r].verb /\ new.pc = pc /\ new.dir = task[r].dir
  BY <1>3 DEF TaskState, PCs
<1>5. NowIs(r, new) BY <1>1
<1>6. task[r].verb = "files_to_folder" BY <1>2, <1>3 DEF Shape
<1> HIDE DEF new
<1>7. Shape(new) BY <1>2, <1>3, <1>4, <1>6 DEF Shape
<1>8. /\ task'[r] = new
      /\ \A s \in Runs : s # r => task'[s] = task[s]
      /\ \A s \in Runs : task'[s].verb = task[s].verb
      /\ OneFolder' <=> OneFolder
  BY <1>4, <1>5, <1>7, TaskMoves DEF FolderInv
<1>9. Stands(r)' => new.dir \in folders' BY <1>1, <1>4, <1>8 DEF Stands, Does
<1>10. IsFiniteSet(folders') /\ folders \subseteq folders'
  BY <1>1, FS_AddElement DEF FolderInv, Standing
<1>11. Standing' BY <1>8, <1>9, <1>10, StandingStays
<1> QED BY <1>1, <1>2, <1>4, <1>5, <1>7, <1>11, FilesStay

\* What is read at a selected path is the size or name of that file, or of another program's.
LEMMA ReadIs ==
    ASSUME FolderInv, NEW k \in DOMAIN Selected, NEW asked, NEW none
    PROVE  Read(k, asked, none) \in {asked[Selected[k]], asked["theirs"], none}
<1>1. SourceOf(k) \in DOMAIN files =>
          files[SourceOf(k)] = Content(Selected[k]) \/ files[SourceOf(k)] = Content("theirs")
  BY DEF FolderInv, AtSources
<1>2. Content(Selected[k]).of = Selected[k] /\ Content("theirs").of = "theirs" BY DEF Content
<1> QED BY <1>1, <1>2 DEF Read

LEMMA SizeRead ==
    ASSUME FolderInv, NEW k \in DOMAIN Selected PROVE Read(k, WantedDir, <<>>) \in KnownSizes
<1>1. Read(k, WantedDir, <<>>) \in {WantedDir[Selected[k]], WantedDir["theirs"], <<>>} BY ReadIs
<1> QED BY <1>1, SelectedIs DEF KnownSizes

LEMMA ProbesKeeps == ASSUME FolderInv, NEW r \in Runs, Probes(r) PROVE FolderInv'
<1>1. task[r].pc = "probe" /\ UNCHANGED <<files, folders, saved>> BY DEF Probes
<1>2. PICK t : t = task[r] OBVIOUS
<1>3. t \in TaskState /\ Shape(t) BY <1>2 DEF FolderInv, Tasks
<1>4. t.seen \in Seq(KnownSizes) /\ t.verb = "sort_by_dimensions" BY <1>1, <1>2, <1>3 DEF TaskState, Shape
<1>5. CASE Len(t.seen) = Len(Selected)
  <2> DEFINE new == [t EXCEPT !.pc = "file"]
  <2>1. NowIs(r, new) BY <1>2, <1>5 DEF Probes
  <2>2. new \in TaskState /\ new.verb = t.verb /\ new.pc = "file" /\ new.seen = t.seen
    BY <1>3 DEF TaskState, PCs
  <2> HIDE DEF new
  <2>3. Shape(new) BY <1>4, <1>5, <2>2 DEF Shape
  <2>4. /\ task'[r] = new
        /\ \A s \in Runs : s # r => task'[s] = task[s]
        /\ \A s \in Runs : task'[s].verb = task[s].verb
        /\ OneFolder' <=> OneFolder
    BY <1>2, <2>1, <2>2, <2>3, TaskMoves DEF FolderInv
  <2>5. ~Stands(r)' BY <1>4, <2>2, <2>4 DEF Stands, Does
  <2>6. Standing' BY <1>1, <2>4, <2>5, StandingStays DEF FolderInv, Standing
  <2> QED BY <1>1, <1>2, <2>1, <2>2, <2>3, <2>6, FilesStay
<1>6. CASE Len(t.seen) # Len(Selected)
  <2> DEFINE new == [t EXCEPT !.seen = Append(@, Read(Len(@) + 1, WantedDir, <<>>))]
  <2>1. NowIs(r, new) BY <1>2, <1>6 DEF Probes
  <2>2. t.pc = "probe" /\ Len(t.seen) <= Len(Selected) BY <1>1, <1>2, <1>3 DEF Shape
  <2>3. PICK size : size = Read(Len(t.seen) + 1, WantedDir, <<>>) OBVIOUS
  <2>4. Len(t.seen) \in Nat BY <1>4
  <2>5. Len(t.seen) + 1 \in DOMAIN Selected BY <1>6, <2>2, <2>4, SelectedIs
  <2>6. size \in KnownSizes BY <2>3, <2>5, SizeRead
  <2>7. PICK seen : seen = Append(t.seen, size) OBVIOUS
  <2>8. seen \in Seq(KnownSizes) /\ Len(seen) = Len(t.seen) + 1
    <3> HIDE DEF KnownSizes
    <3> QED BY <1>4, <2>6, <2>7
  <2>9. new = [t EXCEPT !.seen = seen] BY <1>3, <2>3, <2>7 DEF TaskState
  <2>10. new \in TaskState /\ new.verb = t.verb /\ new.pc = "probe" /\ new.seen = seen
    BY <1>3, <2>2, <2>8, <2>9 DEF TaskState
  <2> HIDE DEF new
  <2>11. Len(new.seen) <= Len(Selected) BY <1>6, <2>2, <2>4, <2>8, <2>10, SelectedIs
  <2>12. Shape(new) BY <1>4, <2>10, <2>11 DEF Shape
  <2>13. /\ task'[r] = new
         /\ \A s \in Runs : s # r => task'[s] = task[s]
         /\ \A s \in Runs : task'[s].verb = task[s].verb
         /\ OneFolder' <=> OneFolder
    BY <1>2, <2>1, <2>10, <2>12, TaskMoves DEF FolderInv
  <2>14. ~Stands(r)' BY <2>10, <2>13 DEF Stands, Does
  <2>15. Standing' BY <1>1, <2>13, <2>14, StandingStays DEF FolderInv, Standing
  <2> QED BY <1>1, <1>2, <2>1, <2>10, <2>12, <2>15, FilesStay
<1> QED BY <1>5, <1>6

\* The next file, when the files stay as they are.
LEMMA NextKeeps ==
    ASSUME FolderInv, NEW r \in Runs, task[r].pc \in {"file", "reserve", "land"},
           NEW new \in {Landed1(task[r]), Skipped1(task[r]), Errored1(task[r])}, NowIs(r, new),
           UNCHANGED <<files, folders, saved>>
    PROVE  FolderInv'
<1>1. /\ new \in TaskState /\ Shape(new) /\ new.verb = task[r].verb
      /\ new.pc = "file" /\ new.dir = task[r].dir
  BY NextFile DEF FolderInv
<1>2. /\ task'[r] = new
      /\ \A s \in Runs : s # r => task'[s] = task[s]
      /\ \A s \in Runs : task'[s].verb = task[s].verb
      /\ OneFolder' <=> OneFolder
  BY <1>1, TaskMoves DEF FolderInv
<1>3. Stands(r)' => new.dir \in folders'
  <2>1. Stands(r)' => Stands(r) BY <1>1, <1>2 DEF Stands, Does
  <2> QED BY <1>1, <2>1 DEF FolderInv, Standing
<1>4. Standing' BY <1>2, <1>3, StandingStays DEF FolderInv, Standing
<1> QED BY <1>1, <1>4, FilesStay

LEMMA NothingToDoKeeps == ASSUME FolderInv, NEW r \in Runs, NothingToDo(r) PROVE FolderInv'
<1>1. /\ task[r].pc = "file" /\ NowIs(r, Skipped1(task[r])) /\ UNCHANGED <<files, folders, saved>>
  BY DEF NothingToDo, AtFile
<1> QED BY <1>1, NextKeeps

\* Where a verb aims a file that it is at.
LEMMA Aimed ==
    ASSUME NamesApart, FolderInv, NEW r \in Runs, AtFile(r), IsWanted(r)
    PROVE  /\ FolderFor(r) \in DirNames /\ NameFor(r) \in FileNames
           /\ task[r].k \in DOMAIN Selected
           /\ task[r].verb = "rename_by_exif" =>
                /\ FolderFor(r) = Home
                /\ NameFor(r) \in {WantedName[Selected[task[r].k]], WantedName["theirs"]}
           /\ task[r].verb # "rename_by_exif" =>
                NameFor(r) = Selected[task[r].k] /\ FolderFor(r) # Home
           /\ task[r].verb \notin {"rename_by_exif", "files_to_folder"} => FolderFor(r) \notin News
           /\ task[r].verb = "files_to_folder" => FolderFor(r) = task[r].dir /\ task[r].dir \in News
<1>1. PICK t : t = task[r] OBVIOUS
<1>2. t \in TaskState /\ Shape(t) /\ t.pc = "file" /\ t.k <= Len(Selected)
  BY <1>1 DEF FolderInv, Tasks, AtFile
<1>3. t.k \in DOMAIN Selected BY <1>2, SelectedIs DEF TaskState
<1>4. Selected[t.k] \in FileNames /\ Selected[t.k] \in Ids /\ "theirs" \in Ids
  BY <1>3, SelectedIs DEF FileNames, ToSet
<1>5. CASE t.verb = "rename_by_exif"
  <2>1. FolderFor(r) = Home BY <1>1, <1>5 DEF FolderFor, Does
  <2>2. NameFor(r) = Read(t.k, WantedName, "") BY <1>1, <1>5 DEF NameFor, Does
  <2>3. NameFor(r) # "" BY DEF IsWanted
  <2>4. NameFor(r) \in {WantedName[Selected[t.k]], WantedName["theirs"]} BY <1>3, <2>2, <2>3, ReadIs
  <2>5. FolderFor(r) \in DirNames /\ NameFor(r) \in FileNames BY <1>4, <2>1, <2>4 DEF DirNames, FileNames
  <2> QED BY <1>1, <1>3, <1>5, <2>1, <2>4, <2>5
<1>6. CASE t.verb # "rename_by_exif"
  <2>1. NameFor(r) = Selected[t.k] BY <1>1, <1>6 DEF NameFor, Does
  <2>2. CASE t.verb = "files_to_folder"
    <3>1. FolderFor(r) = t.dir BY <1>1, <2>2 DEF FolderFor, Does
    <3>2. t.dir \in News /\ t.dir \in DirNames BY <1>2, <2>2 DEF Shape, TaskState
    <3>3. t.dir # Home BY <3>2 DEF NamesApart
    <3> QED BY <1>1, <1>3, <1>4, <1>6, <2>1, <2>2, <3>1, <3>2, <3>3
  <2>3. CASE t.verb # "files_to_folder"
    <3>1. FolderFor(r) \in KnownSizes
      <4>1. CASE t.verb = "sort_by_dimensions"
        <5>1. FolderFor(r) = t.seen[t.k] BY <1>1, <4>1 DEF FolderFor, Does
        <5>2. t.seen \in Seq(KnownSizes) /\ Len(t.seen) = Len(Selected) BY <1>2, <4>1 DEF Shape, TaskState
        <5>3. t.k \in 1..Len(t.seen) BY <1>3, <5>2, SelectedIs
        <5> HIDE DEF KnownSizes
        <5> QED BY <5>1, <5>2, <5>3
      <4>2. CASE t.verb \in {"tags_move", "tags_copy"}
        <5>1. FolderFor(r) = Read(t.k, WantedDir, <<>>) BY <1>1, <4>2 DEF FolderFor, Does
        <5> QED BY <1>3, <5>1, SizeRead
      <4>3. t.verb \in AllVerbs BY <1>2 DEF TaskState
      <4> QED BY <1>6, <2>3, <4>1, <4>2, <4>3 DEF AllVerbs
    <3>2. FolderFor(r) # <<>> BY DEF IsWanted
    <3>3. FolderFor(r) \notin News /\ FolderFor(r) # Home BY <3>1, <3>2 DEF KnownSizes, NamesApart
    <3>4. FolderFor(r) \in DirNames BY <3>1 DEF DirNames
    <3> QED BY <1>1, <1>3, <1>4, <1>6, <2>1, <2>3, <3>3, <3>4
  <2> QED BY <2>2, <2>3
<1> QED BY <1>5, <1>6

LEMMA MakesFolderKeeps == ASSUME NamesApart, FolderInv, NEW r \in Runs, MakesFolder(r) PROVE FolderInv'
<1>1. AtFile(r) /\ IsWanted(r) /\ UNCHANGED <<files, saved>> BY DEF MakesFolder
<1>2. PICK dir, name : dir = FolderFor(r) /\ name = NameFor(r) OBVIOUS
<1>3. task[r].pc = "file" BY <1>1 DEF AtFile
<1>4. CASE NowIs(r, Skipped1(task[r])) /\ UNCHANGED folders BY <1>1, <1>3, <1>4, NextKeeps
<1>5. CASE /\ NowIs(r, [task[r] EXCEPT !.pc = "reserve", !.dir = dir, !.name = name])
           /\ folders' = IF Does(r, {"files_to_folder"}) THEN folders ELSE folders \union {dir}
  <2>1. PICK t : t = task[r] OBVIOUS
  <2> DEFINE new == [t EXCEPT !.pc = "reserve", !.dir = dir, !.name = name]
  <2>2. t \in TaskState /\ Shape(t) BY <2>1 DEF FolderInv, Tasks
  <2>3. /\ dir \in DirNames /\ name \in FileNames /\ t.k \in DOMAIN Selected
        /\ t.verb = "rename_by_exif" =>
              dir = Home /\ name \in {WantedName[Selected[t.k]], WantedName["theirs"]}
        /\ t.verb # "rename_by_exif" => name = Selected[t.k] /\ dir # Home
        /\ t.verb \notin {"rename_by_exif", "files_to_folder"} => dir \notin News
        /\ t.verb = "files_to_folder" => dir = t.dir /\ dir \in News
    BY <1>1, <1>2, <2>1, Aimed
  <2>4. /\ new \in TaskState /\ new.verb = t.verb /\ new.pc = "reserve" /\ new.dir = dir
        /\ new.name = name /\ new.k = t.k /\ new.seen = t.seen
    BY <2>2, <2>3 DEF TaskState, PCs
  <2>5. NowIs(r, new) BY <1>5, <2>1
  <2> HIDE DEF new
  <2>6. Shape(new)
    <3>1. t.verb = "sort_by_dimensions" => Len(t.seen) = Len(Selected)
      BY <1>3, <2>1, <2>2 DEF Shape
    <3>2. Aims(new) BY <2>3, <2>4 DEF Aims
    <3> QED BY <2>3, <2>4, <3>1, <3>2 DEF Shape
  <2>7. /\ task'[r] = new
        /\ \A s \in Runs : s # r => task'[s] = task[s]
        /\ \A s \in Runs : task'[s].verb = task[s].verb
        /\ OneFolder' <=> OneFolder
    BY <2>1, <2>4, <2>5, <2>6, TaskMoves DEF FolderInv
  <2>8. Stands(r)' => new.dir \in folders'
    <3>1. CASE t.verb = "files_to_folder"
      <4>1. Stands(r)' => Stands(r) BY <1>3, <2>1, <2>4, <2>7, <3>1 DEF Stands, Does
      <4>2. folders' = folders BY <1>5, <2>1, <3>1 DEF Does
      <4> QED BY <2>1, <2>3, <2>4, <3>1, <4>1, <4>2 DEF FolderInv, Standing
    <3>2. CASE t.verb # "files_to_folder" BY <1>5, <2>1, <2>4, <3>2 DEF Does
    <3> QED BY <3>1, <3>2
  <2>9. IsFiniteSet(folders') /\ folders \subseteq folders'
    BY <1>5, FS_AddElement DEF FolderInv, Standing
  <2>10. Standing' BY <2>7, <2>8, <2>9, StandingStays
  <2> QED BY <1>1, <2>1, <2>4, <2>5, <2>6, <2>10, FilesStay
<1> QED BY <1>2, <1>4, <1>5 DEF MakesFolder

LEMMA ReportsKeeps == ASSUME NamesApart, FolderInv, NEW r \in Runs, Reports(r) PROVE FolderInv'
<1>1. task[r].pc = "file" /\ UNCHANGED <<files, saved>> BY DEF Reports
<1>2. PICK pc \in {"refused", "told"} :
        /\ NowIs(r, [task[r] EXCEPT !.pc = pc])
        /\ \/ folders' = folders
           \/ folders' = folders \ {task[r].dir} /\ Does(r, {"files_to_folder"})
  BY DEF Reports
<1>3. PICK t : t = task[r] OBVIOUS
<1> DEFINE new == [t EXCEPT !.pc = pc]
<1>4. t \in TaskState /\ Shape(t) BY <1>3 DEF FolderInv, Tasks
<1>5. new \in TaskState /\ new.verb = t.verb /\ new.pc = pc BY <1>4 DEF TaskState, PCs
<1>6. NowIs(r, new) BY <1>2, <1>3
<1> HIDE DEF new
<1>7. Shape(new) BY <1>5 DEF Shape
<1>8. /\ task'[r] = new
      /\ \A s \in Runs : s # r => task'[s] = task[s]
      /\ \A s \in Runs : task'[s].verb = task[s].verb
      /\ OneFolder' <=> OneFolder
  BY <1>3, <1>5, <1>6, <1>7, TaskMoves DEF FolderInv
<1>9. ~Stands(r)' BY <1>5, <1>8 DEF Stands, Does
<1>10. Standing'
  <2>1. CASE folders' = folders BY <1>8, <1>9, <2>1, StandingStays DEF FolderInv, Standing
  <2>2. CASE folders' = folders \ {t.dir} /\ t.verb = "files_to_folder"
    <3>1. t.dir \in News BY <1>1, <1>3, <1>4, <2>2 DEF Shape
    <3>2. IsFiniteSet(folders') /\ Home \in folders'
      <4>1. folders' \subseteq folders /\ IsFiniteSet(folders) BY <2>2 DEF FolderInv, Standing
      <4>2. IsFiniteSet(folders') BY <4>1, FS_Subset
      <4> QED BY <2>2, <3>1, <4>2 DEF FolderInv, Standing, NamesApart
    <3>3. ASSUME NEW s \in Runs, Stands(s)' PROVE task'[s].dir \in folders'
      <4>1. s # r BY <1>9, <3>3
      <4>2. task'[s] = task[s] /\ Stands(s) BY <1>8, <3>3, <4>1 DEF Stands, Does
      <4>3. task[s].dir \in folders BY <4>2 DEF FolderInv, Standing
      <4>4. task[s].verb # "files_to_folder"
        <5> SUFFICES ASSUME task[s].verb = "files_to_folder" PROVE FALSE OBVIOUS
        <5>1. OneFolder BY <4>2 DEF Stands, Does
        <5> QED BY <1>3, <2>2, <4>1, <5>1 DEF OneFolder, Does
      <4>5. task[s].pc \in {"reserve", "land"} BY <4>2, <4>4 DEF Stands, Does
      <4>6. Aims(task[s]) BY <4>5 DEF FolderInv, Tasks, Shape
      <4>7. task[s].dir \notin News BY <4>4, <4>6 DEF Aims, NamesApart
      <4> QED BY <2>2, <3>1, <4>2, <4>3, <4>7
    <3> QED BY <3>2, <3>3 DEF Standing
  <2> QED BY <1>2, <1>3, <2>1, <2>2 DEF Does
<1> QED BY <1>1, <1>3, <1>5, <1>6, <1>7, <1>10, FilesStay

\* No slot is a place of the selection, where only sources and other programs' files are.
LEMMA SlotIsNoSource ==
    ASSUME NamesApart, NEW t, Shape(t), t.pc = "land", NEW j \in DOMAIN Selected
    PROVE  t.slot # SourceOf(j)
<1> SUFFICES ASSUME t.slot = SourceOf(j) PROVE FALSE OBVIOUS
<1>1. Aims(t) /\ t.slot # SourceOf(t.k) BY DEF Shape
<1>2. PICK n \in Nat : t.slot = <<t.dir, Numbered(t.name, n)>> BY DEF Shape
<1>3. t.dir = Home /\ Numbered(t.name, n) = <<Selected[j]>> BY <1>2 DEF SourceOf
<1>4. t.name = Selected[j] BY <1>3, NumberedIs
<1>5. t.verb = "rename_by_exif" BY <1>1, <1>3 DEF Aims
<1>6. t.k \in DOMAIN Selected /\ t.name \in {WantedName[Selected[t.k]], WantedName["theirs"]}
  BY <1>1, <1>5 DEF Aims
<1>7. Selected[j] = Selected[t.k] BY <1>4, <1>6, SelectedIs DEF NamesApart
<1>8. j = t.k BY <1>6, <1>7, SelectedIs
<1> QED BY <1>1, <1>8

\* What a slot keeps of its name.
LEMMA SlotNamed ==
    ASSUME NEW t, Shape(t), t.pc = "land"
    PROVE  t.slot[1] = t.dir /\ t.slot[2][1] = t.name
<1>1. PICK n \in Nat : t.slot = <<t.dir, Numbered(t.name, n)>> BY DEF Shape
<1> QED BY <1>1, NumberedIs

LEMMA HeldIsNoFile == ASSUME NEW r, NEW s, NEW id
    PROVE  Placeholder(r) # Content(id) /\ (Placeholder(r) = Placeholder(s) => r = s)
           /\ Placeholder(r).is = "held" /\ Content(id).is = "file"
  BY DEF Placeholder, Content

LEMMA ContentsDiffer == ASSUME NEW a, NEW b, Content(a) = Content(b) PROVE a = b
  BY DEF Content

\* A slot that is held is no other run's.
LEMMA SlotsApart ==
    ASSUME FolderInv, NEW r \in Runs, NEW s \in Runs, s # r, task[r].pc = "land", task[s].pc = "land",
           OneFolder \/ Does(s, {"rename_by_exif"})
    PROVE  task[s].slot # task[r].slot
<1>1. task[s].slot \in DOMAIN files /\ files[task[s].slot] = Placeholder(s) BY DEF FolderInv, Holding
<1>2. CASE OneFolder \/ Does(r, {"rename_by_exif"})
  <2>1. files[task[r].slot] = Placeholder(r) BY <1>2 DEF FolderInv, Holding
  <2> QED BY <1>1, <2>1, HeldIsNoFile
<1>3. CASE ~OneFolder /\ ~Does(r, {"rename_by_exif"})
  <2>1. Shape(task[r]) /\ Shape(task[s]) BY DEF FolderInv, Tasks
  <2>2. task[r].slot[1] = task[r].dir /\ task[s].slot[1] = task[s].dir BY <2>1, SlotNamed
  <2>3. task[r].dir # Home /\ task[s].dir = Home BY <1>3, <2>1 DEF Shape, Aims, Does
  <2> QED BY <2>2, <2>3
<1> QED BY <1>2, <1>3

\* Whatever keeps each content somewhere keeps all, if nobody saves.
LEMMA KeptStays ==
    ASSUME KeptAll, UNCHANGED saved, \A id \in Ids : PlacesOf(id) # {} => PlacesOf(id)' # {}
    PROVE  KeptAll'
<1>1. \A k \in DOMAIN Selected : PlacesOf(Selected[k])' # {} BY SelectedIs DEF KeptAll
<1>2. saved > 0 => PlacesOf("theirs")' # {} BY SelectedIs DEF KeptAll
<1> QED BY <1>1, <1>2 DEF KeptAll

\* A slot is given up: only its placeholder goes, and only if no file is there.
LEMMA CannotLandKeeps == ASSUME NamesApart, FolderInv, NEW r \in Runs, CannotLand(r) PROVE FolderInv'
<1>1. task[r].pc = "land" /\ UNCHANGED <<folders, saved>> /\ files' = Dropped(r) BY DEF CannotLand
<1>2. PICK new \in {Skipped1(task[r]), Errored1(task[r])} : NowIs(r, new) BY DEF CannotLand
<1>3. /\ new \in TaskState /\ Shape(new) /\ new.verb = task[r].verb
      /\ new.pc = "file" /\ new.dir = task[r].dir
  BY <1>1, NextFile DEF FolderInv
<1>4. /\ Tasks' /\ task'[r] = new
      /\ \A s \in Runs : s # r => task'[s] = task[s]
      /\ \A s \in Runs : task'[s].verb = task[s].verb
      /\ OneFolder' <=> OneFolder
  BY <1>2, <1>3, TaskMoves DEF FolderInv
<1>5. Standing'
  <2>1. Stands(r)' => Stands(r) BY <1>1, <1>3, <1>4 DEF Stands, Does
  <2>2. Stands(r)' => new.dir \in folders' BY <1>1, <1>3, <2>1 DEF FolderInv, Standing
  <2> QED BY <1>1, <1>4, <2>2, StandingStays DEF FolderInv, Standing
<1>6. /\ \A p \in DOMAIN files' : p \in DOMAIN files /\ files'[p] = files[p]
      /\ \A p \in DOMAIN files : p # task[r].slot \/ files[p].is = "file" => p \in DOMAIN files'
  BY <1>1 DEF Dropped
<1>7. Holding'
  <2> SUFFICES ASSUME NEW s \in Runs, task'[s].pc = "land", OneFolder \/ task[s].verb = "rename_by_exif"
               PROVE  task'[s].slot \in DOMAIN files' /\ files'[task'[s].slot] = Placeholder(s)
    BY <1>4 DEF Holding, Does, Placeholder
  <2>1. s # r /\ task'[s] = task[s] BY <1>3, <1>4
  <2>2. task[s].slot \in DOMAIN files /\ files[task[s].slot] = Placeholder(s)
    BY <2>1 DEF FolderInv, Holding, Does
  <2>3. task[s].slot # task[r].slot BY <1>1, <2>1, SlotsApart DEF Does
  <2> QED BY <1>6, <2>1, <2>2, <2>3
<1>8. AtSources'
  <2>1. IsFiniteSet(DOMAIN files')
    <3>1. DOMAIN files' \subseteq DOMAIN files BY <1>6
    <3> QED BY <3>1, FS_Subset DEF FolderInv, AtSources
  <2> QED BY <1>1, <1>6, <2>1 DEF FolderInv, AtSources, SourceOf, Content
<1>9. NamesKept' BY <1>1, <1>6 DEF FolderInv, NamesKept, Content
<1>10. \A id \in Ids : PlacesOf(id) # {} => PlacesOf(id)' # {}
  <2> SUFFICES ASSUME NEW id \in Ids, NEW p \in DOMAIN files, files[p] = Content(id)
               PROVE  \E q \in DOMAIN files' : files'[q] = Content(id)
    BY DEF PlacesOf, Content
  <2>1. p \in DOMAIN files' BY <1>6, HeldIsNoFile
  <2> QED BY <1>6, <2>1
<1>11. AllKept'
  <2>1. KeptAll => KeptAll' BY <1>1, <1>10, KeptStays
  <2> QED BY <1>1, <1>4, <2>1 DEF FolderInv, AllKept
<1> QED BY <1>4, <1>5, <1>7, <1>8, <1>9, <1>11 DEF FolderInv

LEMMA ReserveKeeps == ASSUME NamesApart, FolderInv, NEW r \in Runs, reserve_dest(r) PROVE FolderInv'
<1>1. PICK t : t = task[r] OBVIOUS
<1>2. PICK path : path = FirstFree(t.dir, t.name) OBVIOUS
<1>3. PICK plain : plain = <<t.dir, <<t.name>>>> OBVIOUS
<1>4. t.pc = "reserve" /\ UNCHANGED <<folders, saved>> BY <1>1 DEF reserve_dest
<1>5. t \in TaskState /\ Shape(t) /\ Aims(t) BY <1>1, <1>4 DEF FolderInv, Tasks, Shape
<1>6. PICK n \in Nat : path = <<t.dir, Numbered(t.name, n)>> /\ path \notin DOMAIN files
  BY <1>2, FirstFreeIs DEF FolderInv, AtSources
<1>7. plain = <<t.dir, Numbered(t.name, 0)>> BY <1>3, NumberedIs
<1>8. CASE plain = SourceOf(t.k)
  <2>1. PICK new \in {Skipped1(t), Landed1(t)} : NowIs(r, new) /\ UNCHANGED files
    BY <1>1, <1>3, <1>8 DEF reserve_dest
  <2> QED BY <1>1, <1>4, <2>1, NextKeeps
<1>9. CASE plain # SourceOf(t.k)
  <2>1. PICK slot \in {plain, path} :
          /\ NowIs(r, [t EXCEPT !.pc = "land", !.slot = slot])
          /\ \/ t.dir \notin folders /\ UNCHANGED files
             \/ slot = path /\ files' = Reserved(r, path)
    BY <1>1, <1>2, <1>3, <1>9 DEF reserve_dest
  <2> DEFINE new == [t EXCEPT !.pc = "land", !.slot = slot]
  <2>2. \E m \in Nat : slot = <<t.dir, Numbered(t.name, m)>> BY <1>6, <1>7
  <2>3. slot \in Candidates
    <3>1. t.dir \in DirNames /\ t.name \in FileNames BY <1>5 DEF TaskState
    <3> QED BY <2>2, <3>1 DEF Candidates
  <2>4. slot # SourceOf(t.k)
    <3>1. CASE slot = plain BY <1>9, <3>1
    <3>2. CASE slot = path
      <4> SUFFICES ASSUME path = SourceOf(t.k) PROVE FALSE BY <3>2
      <4>1. t.dir = Home /\ Numbered(t.name, n) = <<Selected[t.k]>> BY <1>6 DEF SourceOf
      <4>2. n = 0 BY <4>1, NumberedIs
      <4> QED BY <1>6, <1>7, <1>9, <4>2
    <3> QED BY <3>1, <3>2
  <2>5. /\ new \in TaskState /\ new.verb = t.verb /\ new.pc = "land" /\ new.slot = slot
        /\ new.dir = t.dir /\ new.name = t.name /\ new.k = t.k /\ new.seen = t.seen
    BY <1>5, <2>3 DEF TaskState, PCs
  <2>6. NowIs(r, new) BY <2>1
  <2> HIDE DEF new
  <2>7. Shape(new)
    <3>1. Aims(new) BY <1>5, <2>5 DEF Aims
    <3>2. /\ t.verb = "sort_by_dimensions" => Len(t.seen) = Len(Selected)
          /\ t.verb = "files_to_folder" => t.dir \in News
      BY <1>4, <1>5 DEF Shape
    <3> QED BY <2>2, <2>4, <2>5, <3>1, <3>2 DEF Shape
  <2>8. /\ Tasks' /\ task'[r] = new
        /\ \A s \in Runs : s # r => task'[s] = task[s]
        /\ \A s \in Runs : task'[s].verb = task[s].verb
        /\ OneFolder' <=> OneFolder
    BY <1>1, <2>5, <2>6, <2>7, TaskMoves DEF FolderInv
  <2>9. Standing'
    <3>1. Stands(r)' => Stands(r) BY <1>1, <1>4, <2>5, <2>8 DEF Stands, Does
    <3>2. Stands(r)' => new.dir \in folders'
      BY <1>1, <1>4, <2>5, <3>1 DEF FolderInv, Standing
    <3> QED BY <1>4, <2>8, <3>2, StandingStays DEF FolderInv, Standing
  <2>10. CASE t.dir \notin folders /\ UNCHANGED files
    <3>1. ~Stands(r) BY <1>1, <2>10 DEF FolderInv, Standing
    <3>2. ~OneFolder /\ t.verb = "files_to_folder" BY <1>1, <1>4, <3>1 DEF Stands, Does
    <3> QED BY <1>1, <1>4, <2>5, <2>6, <2>7, <2>9, <2>10, <3>2, FilesStay
  <2>11. CASE slot = path /\ files' = Reserved(r, path)
    <3>1. /\ DOMAIN files' = DOMAIN files \union {path} /\ files'[path] = Placeholder(r)
          /\ \A p \in DOMAIN files : files'[p] = files[p]
      BY <1>6, <2>11 DEF Reserved
    <3>2. Holding'
      <4> SUFFICES ASSUME NEW s \in Runs, task'[s].pc = "land", OneFolder \/ task[s].verb = "rename_by_exif"
                   PROVE  task'[s].slot \in DOMAIN files' /\ files'[task'[s].slot] = Placeholder(s)
        BY <2>8 DEF Holding, Does, Placeholder
      <4>1. CASE s = r BY <2>5, <2>8, <2>11, <3>1, <4>1
      <4>2. CASE s # r
        <5>1. task[s].slot \in DOMAIN files /\ files[task[s].slot] = Placeholder(s)
          BY <2>8, <4>2 DEF FolderInv, Holding, Does
        <5> QED BY <2>8, <3>1, <4>2, <5>1
      <4> QED BY <4>1, <4>2
    <3>3. AtSources'
      <4>1. IsFiniteSet(DOMAIN files') BY <3>1, FS_AddElement DEF FolderInv, AtSources
      <4>2. \A k \in DOMAIN Selected : SourceOf(k) # path BY <2>5, <2>7, <2>11, SlotIsNoSource
      <4> QED BY <1>4, <3>1, <4>1, <4>2 DEF FolderInv, AtSources, SourceOf, Content
    <3>4. NamesKept' BY <1>4, <3>1, HeldIsNoFile DEF FolderInv, NamesKept, Content
    <3>5. \A id \in Ids : PlacesOf(id) # {} => PlacesOf(id)' # {}
      <4> SUFFICES ASSUME NEW id \in Ids, NEW p \in DOMAIN files, files[p] = Content(id)
                   PROVE  \E q \in DOMAIN files' : files'[q] = Content(id)
        BY DEF PlacesOf, Content
      <4> QED BY <3>1
    <3>6. AllKept'
      <4>1. KeptAll => KeptAll' BY <1>4, <3>5, KeptStays
      <4> QED BY <1>4, <2>8, <4>1 DEF FolderInv, AllKept
    <3> QED BY <2>8, <2>9, <3>2, <3>3, <3>4, <3>6 DEF FolderInv
  <2> QED BY <2>1, <2>10, <2>11
<1> QED BY <1>8, <1>9

\* A file lands: its content is at the slot, where there was a placeholder, or, in a folder
\* that was taken away and made again, the same file.
LEMMA LandsKeeps == ASSUME NamesApart, FolderInv, NEW r \in Runs, Lands(r) PROVE FolderInv'
<1>1. PICK t : t = task[r] OBVIOUS
<1>2. PICK src, slot : src = SourceOf(t.k) /\ slot = t.slot OBVIOUS
<1>3. /\ t.pc = "land" /\ src \in DOMAIN files /\ UNCHANGED <<folders, saved>>
      /\ NowIs(r, Landed1(t))
  BY <1>1, <1>2 DEF Lands
<1>4. /\ t \in TaskState /\ Shape(t) /\ Aims(t) BY <1>1, <1>3 DEF FolderInv, Tasks, Shape
<1>5. PICK gone \in SUBSET {src} :
          files' = [p \in (DOMAIN files \union {slot}) \ gone |->
                        IF p = slot THEN files[src] ELSE files[p]]
  <2>1. files' = [p \in (DOMAIN files \union {slot}) \ (IF Does(r, {"tags_copy"}) THEN {} ELSE {src}) |->
                      IF p = slot THEN files[src] ELSE files[p]]
    BY <1>1, <1>2 DEF Lands
  <2> QED BY <2>1
<1>6. \A j \in DOMAIN Selected : SourceOf(j) # slot BY <1>2, <1>3, <1>4, SlotIsNoSource
<1>7. t.k \in DOMAIN Selected /\ src # slot BY <1>2, <1>4, <1>6 DEF Aims
<1>8. /\ slot \in DOMAIN files' /\ files'[slot] = files[src]
      /\ \A p \in DOMAIN files' : p # slot => p \in DOMAIN files /\ files'[p] = files[p]
      /\ \A p \in DOMAIN files : p # slot /\ p # src => p \in DOMAIN files'
  BY <1>5, <1>7
<1> DEFINE new == Landed1(t)
<1>9. /\ new \in TaskState /\ Shape(new) /\ new.verb = t.verb
      /\ new.pc = "file" /\ new.dir = t.dir
  BY <1>1, <1>3, NextFile DEF FolderInv
<1> HIDE DEF new
<1>10. /\ Tasks' /\ task'[r] = new
       /\ \A s \in Runs : s # r => task'[s] = task[s]
       /\ \A s \in Runs : task'[s].verb = task[s].verb
       /\ OneFolder' <=> OneFolder
  <2>1. NowIs(r, new) BY <1>3 DEF new
  <2> QED BY <1>1, <1>9, <2>1, TaskMoves DEF FolderInv
<1>11. Standing'
  <2>1. Stands(r)' => Stands(r) BY <1>1, <1>3, <1>9, <1>10 DEF Stands, Does
  <2>2. Stands(r)' => new.dir \in folders' BY <1>1, <1>3, <1>9, <2>1 DEF FolderInv, Standing
  <2> QED BY <1>3, <1>10, <2>2, StandingStays DEF FolderInv, Standing
<1>12. Holding'
  <2> SUFFICES ASSUME NEW s \in Runs, task'[s].pc = "land", OneFolder \/ task[s].verb = "rename_by_exif"
               PROVE  task'[s].slot \in DOMAIN files' /\ files'[task'[s].slot] = Placeholder(s)
    BY <1>10 DEF Holding, Does, Placeholder
  <2>1. s # r /\ task'[s] = task[s] BY <1>9, <1>10
  <2>2. task[s].slot \in DOMAIN files /\ files[task[s].slot] = Placeholder(s)
    BY <2>1 DEF FolderInv, Holding, Does
  <2>3. task[s].slot # slot BY <1>1, <1>2, <1>3, <2>1, SlotsApart DEF Does
  <2>4. task[s].slot # src
    <3>1. Shape(task[s]) /\ task[s].pc = "land" BY <2>1 DEF FolderInv, Tasks
    <3> QED BY <1>2, <1>7, <3>1, SlotIsNoSource
  <2> QED BY <1>8, <2>1, <2>2, <2>3, <2>4
<1>13. AtSources'
  <2>1. IsFiniteSet(DOMAIN files')
    <3>1. DOMAIN files' \subseteq DOMAIN files \union {slot} BY <1>8
    <3>2. IsFiniteSet(DOMAIN files \union {slot}) BY FS_AddElement DEF FolderInv, AtSources
    <3> QED BY <3>1, <3>2, FS_Subset
  <2>2. ASSUME NEW k \in DOMAIN Selected, SourceOf(k) \in DOMAIN files'
        PROVE  SourceOf(k) \in DOMAIN files /\ files'[SourceOf(k)] = files[SourceOf(k)]
    BY <1>6, <1>8, <2>2
  <2> QED BY <1>3, <2>1, <2>2 DEF FolderInv, AtSources, SourceOf, Content
<1>14. saved = 0 => files[src] = Content(Selected[t.k])
  BY <1>2, <1>3, <1>7 DEF FolderInv, AtSources
<1>15. slot[1] = t.dir /\ slot[2][1] = t.name BY <1>2, <1>3, <1>4, SlotNamed
<1>16. t.dir # Home => t.name = Selected[t.k] BY <1>4 DEF Aims
<1>17. NamesKept'
  <2> SUFFICES ASSUME saved = 0, NEW p \in DOMAIN files', NEW id \in Ids,
                      files'[p] = Content(id), p[1] # Home
               PROVE  p[2][1] = id
    BY <1>3 DEF NamesKept, Content
  <2>1. CASE p = slot
    <3>1. Content(Selected[t.k]) = Content(id) BY <1>8, <1>14, <2>1
    <3>2. Selected[t.k] = id BY <3>1, ContentsDiffer
    <3> QED BY <1>15, <1>16, <2>1, <3>2
  <2>2. CASE p # slot BY <1>8, <2>2 DEF FolderInv, NamesKept
  <2> QED BY <2>1, <2>2
<1>18. AllKept'
  <2> SUFFICES ASSUME saved = 0 \/ OneFolder PROVE KeptAll' BY <1>3, <1>10 DEF AllKept
  <2>1. \A id \in Ids : PlacesOf(id) # {} => PlacesOf(id)' # {}
    <3> SUFFICES ASSUME NEW id \in Ids, NEW p \in DOMAIN files, files[p] = Content(id)
                 PROVE  \E q \in DOMAIN files' : files'[q] = Content(id)
      BY DEF PlacesOf, Content
    <3>1. CASE p = src BY <1>8, <3>1
    <3>2. CASE p = slot
      <4>1. ~OneFolder /\ t.verb # "rename_by_exif"
        <5> SUFFICES ASSUME OneFolder \/ t.verb = "rename_by_exif" PROVE FALSE OBVIOUS
        <5>1. files[slot] = Placeholder(r)
          BY <1>1, <1>2, <1>3 DEF FolderInv, Holding, Does
        <5> QED BY <3>2, <5>1, HeldIsNoFile
      <4>2. saved = 0 /\ t.dir # Home BY <1>4, <4>1 DEF Aims
      <4>3. slot[2][1] = id BY <1>15, <3>2, <4>2 DEF FolderInv, NamesKept
      <4>4. files[src] = Content(id) BY <1>14, <1>15, <1>16, <4>2, <4>3
      <4> QED BY <1>8, <4>4
    <3>3. CASE p # src /\ p # slot BY <1>8, <3>3
    <3> QED BY <3>1, <3>2, <3>3
  <2> QED BY <1>3, <2>1, KeptStays DEF FolderInv, AllKept
<1> QED BY <1>10, <1>11, <1>12, <1>13, <1>17, <1>18 DEF FolderInv

LEMMA SavesKeeps == ASSUME FolderInv, Saves PROVE FolderInv'
<1>1. saved' = saved + 1 /\ UNCHANGED <<folders, task>> BY DEF Saves
<1>2. PICK path :
        /\ path \notin DOMAIN files
        /\ files' = [p \in DOMAIN files \union {path} |-> IF p = path THEN Content("theirs") ELSE files[p]]
  BY DEF Saves
<1>3. /\ DOMAIN files' = DOMAIN files \union {path} /\ files'[path] = Content("theirs")
      /\ \A p \in DOMAIN files : files'[p] = files[p]
  BY <1>2
<1>4. saved \in Nat /\ saved' \in Nat /\ saved' > 0 /\ saved' # 0 BY <1>1 DEF FolderInv, AtSources
<1>5. Tasks' BY <1>1 DEF FolderInv, Tasks
<1>6. OneFolder' <=> OneFolder BY <1>1 DEF OneFolder, Does
<1>7. Standing'
  <2>1. \A s \in Runs : Stands(s)' <=> Stands(s) BY <1>1, <1>6 DEF Stands, Does
  <2> QED BY <1>1, <2>1 DEF FolderInv, Standing
<1>8. Holding'
  <2> SUFFICES ASSUME NEW s \in Runs, task[s].pc = "land", OneFolder \/ Does(s, {"rename_by_exif"})
               PROVE  task[s].slot \in DOMAIN files' /\ files'[task[s].slot] = Placeholder(s)
    BY <1>1, <1>6 DEF Holding, Does, Placeholder
  <2> QED BY <1>3 DEF FolderInv, Holding
<1>9. AtSources'
  <2>1. IsFiniteSet(DOMAIN files') BY <1>3, FS_AddElement DEF FolderInv, AtSources
  <2>2. ASSUME NEW k \in DOMAIN Selected, SourceOf(k) \in DOMAIN files'
        PROVE  files'[SourceOf(k)] = Content(Selected[k]) \/ files'[SourceOf(k)] = Content("theirs")
    BY <1>3, <2>2 DEF FolderInv, AtSources
  <2> QED BY <1>4, <2>1, <2>2 DEF AtSources, SourceOf, Content
<1>10. NamesKept' BY <1>4 DEF NamesKept
<1>11. AllKept'
  <2> SUFFICES ASSUME OneFolder PROVE KeptAll' BY <1>4, <1>6 DEF AllKept
  <2>1. KeptAll BY DEF FolderInv, AllKept
  <2>2. \A id \in Ids : PlacesOf(id) # {} => PlacesOf(id)' # {}
    <3> SUFFICES ASSUME NEW id \in Ids, NEW p \in DOMAIN files, files[p] = Content(id)
                 PROVE  \E q \in DOMAIN files' : files'[q] = Content(id)
      BY DEF PlacesOf, Content
    <3> QED BY <1>3
  <2>3. PlacesOf("theirs")' # {} BY <1>3 DEF PlacesOf, Content
  <2>4. \A k \in DOMAIN Selected : PlacesOf(Selected[k])' # {} BY <2>1, <2>2, SelectedIs DEF KeptAll
  <2> QED BY <2>3, <2>4 DEF KeptAll
<1> QED BY <1>5, <1>7, <1>8, <1>9, <1>10, <1>11 DEF FolderInv

LEMMA FolderStarts == ASSUME FolderInit PROVE FolderInv
<1>1. /\ files = [p \in {SourceOf(k) : k \in DOMAIN Selected} |-> Content(p[2][1])]
      /\ folders = {Home} /\ saved = 0
      /\ task \in [Runs -> {IdleTask(verb) : verb \in Verbs}]
  BY DEF FolderInit
<1>2. \A r \in Runs : \E verb \in AllVerbs : task[r] = IdleTask(verb)
  BY <1>1, VerbsAssumption
<1>3. \A r \in Runs : task[r] \in TaskState /\ task[r].pc = "off" BY <1>2, IdleIs
<1>4. Tasks
  <2>1. \A r \in Runs : Shape(task[r]) BY <1>3 DEF Shape
  <2>2. task \in [Runs -> TaskState]
    <3> HIDE DEF TaskState
    <3> QED BY <1>1, <1>3
  <2> QED BY <2>1, <2>2 DEF Tasks
<1>5. Standing BY <1>1, <1>3, FS_Singleton DEF Standing, Stands
<1>6. Holding BY <1>3 DEF Holding
<1>7. \A k \in DOMAIN Selected :
        SourceOf(k) \in DOMAIN files /\ files[SourceOf(k)] = Content(Selected[k])
  <2>1. \A k \in DOMAIN Selected : SourceOf(k)[2][1] = Selected[k] BY DEF SourceOf
  <2> QED BY <1>1, <2>1
<1>8. AtSources
  <2> DEFINE f == [k \in DOMAIN Selected |-> SourceOf(k)]
  <2>1. f \in Surjection(DOMAIN Selected, DOMAIN files) BY <1>1 DEF Surjection
  <2>2. IsFiniteSet(DOMAIN Selected) BY SelectedIs, FS_Interval
  <2>3. IsFiniteSet(DOMAIN files) BY <2>1, <2>2, FS_Surjection
  <2> QED BY <1>1, <1>7, <2>3 DEF AtSources
<1>9. \A p \in DOMAIN files : p[1] = Home BY <1>1 DEF SourceOf
<1>10. NamesKept BY <1>9 DEF NamesKept
<1>11. \A k \in DOMAIN Selected : SourceOf(k) \in PlacesOf(Selected[k]) BY <1>7 DEF PlacesOf
<1>12. ~(saved > 0) BY <1>1
<1>13. AllKept BY <1>11, <1>12 DEF AllKept, KeptAll
<1> QED BY <1>4, <1>5, <1>6, <1>8, <1>10, <1>13 DEF FolderInv

LEMMA FolderStepKeeps == ASSUME NamesApart, FolderInv, FolderNext PROVE FolderInv'
<1>1. CASE Saves BY <1>1, SavesKeeps
<1>2. CASE ~Saves
  <2>1. PICK r \in Runs :
            \/ Starts(r) \/ Looks(r) \/ Creates(r) \/ Probes(r) \/ NothingToDo(r) \/ MakesFolder(r)
            \/ reserve_dest(r) \/ Lands(r) \/ CannotLand(r) \/ Reports(r)
    BY <1>2 DEF FolderNext
  <2>2. CASE Starts(r) \/ Looks(r) \/ Creates(r) \/ Probes(r)
    BY <2>2, StartsKeeps, LooksKeeps, CreatesKeeps, ProbesKeeps
  <2>3. CASE NothingToDo(r) \/ MakesFolder(r) \/ Reports(r)
    BY <2>3, NothingToDoKeeps, MakesFolderKeeps, ReportsKeeps
  <2>4. CASE reserve_dest(r) \/ Lands(r) \/ CannotLand(r)
    BY <2>4, ReserveKeeps, LandsKeeps, CannotLandKeeps
  <2> QED BY <2>1, <2>2, <2>3, <2>4
<1> QED BY <1>1, <1>2

LEMMA FolderStutters == ASSUME FolderInv, UNCHANGED folderVars PROVE FolderInv'
<1>1. UNCHANGED <<files, folders, task, saved>> BY DEF folderVars
<1>2. Tasks' BY <1>1 DEF FolderInv, Tasks
<1>3. OneFolder' <=> OneFolder BY <1>1 DEF OneFolder, Does
<1>4. Standing'
  <2>1. \A s \in Runs : Stands(s)' <=> Stands(s) BY <1>1, <1>3 DEF Stands, Does
  <2> QED BY <1>1, <2>1 DEF FolderInv, Standing
<1>5. Holding' BY <1>1, <1>3 DEF FolderInv, Holding, Does, Placeholder
<1>6. AtSources' BY <1>1 DEF FolderInv, AtSources, SourceOf, Content
<1>7. NamesKept' BY <1>1 DEF FolderInv, NamesKept, Content
<1>8. AllKept' BY <1>1, <1>3 DEF FolderInv, AllKept, KeptAll, PlacesOf, Content
<1> QED BY <1>2, <1>4, <1>5, <1>6, <1>7, <1>8 DEF FolderInv

\* At most one new folder is what the property says it with a cardinality.
LEMMA AtMostOne ==
    ASSUME Cardinality({r \in Runs : Does(r, {"files_to_folder"})}) <= 1
    PROVE  OneFolder
<1> DEFINE F == {r \in Runs : Does(r, {"files_to_folder"})}
<1> SUFFICES ASSUME NEW r \in F, NEW s \in F, r # s PROVE FALSE BY DEF OneFolder
<1>1. IsFiniteSet(F) /\ F \subseteq Runs
  <2>1. F \subseteq Runs OBVIOUS
  <2> QED BY <2>1, SelectionAssumption, FS_Subset
<1>2. IsFiniteSet({r}) /\ Cardinality({r}) = 1 BY FS_Singleton
<1>3. Cardinality({r} \union {s}) = 2
  <2>1. s \notin {r} OBVIOUS
  <2>2. Cardinality({r} \union {s}) = Cardinality({r}) + 1 BY <1>2, <2>1, FS_AddElement
  <2> QED BY <1>2, <2>2
<1>4. {r} \union {s} \in SUBSET F OBVIOUS
<1>5. Cardinality({r} \union {s}) <= Cardinality(F) BY <1>1, <1>4, FS_Subset
<1>6. Cardinality(F) \in Nat BY <1>1, FS_CardinalityType
<1>7. Cardinality(F) <= 1 OBVIOUS
<1> HIDE DEF F
<1> QED BY <1>3, <1>5, <1>6, <1>7

\* No selected file and none of another program is ever lost by the folder verbs and the
\* renaming (fileops.rs:121), for any number of runs, any selection and any files saved in
\* between, if names are apart; of runs that make new folders, one, or nobody else saves.
THEOREM FolderNothingLost == ASSUME NamesApart PROVE FolderSpec => []NothingLost
<1>1. FolderInit => FolderInv BY FolderStarts
<1>2. FolderInv /\ [FolderNext]_folderVars => FolderInv' BY FolderStepKeeps, FolderStutters
<1>3. FolderInv => NothingLost BY AtMostOne DEF FolderInv, AllKept, NothingLost
<1> QED BY <1>1, <1>2, <1>3, PTL DEF FolderSpec

-----------------------------------------------------------------------------
(* What the verbs that move files report                                              *)

Landings == [r \in Runs |-> task[r].landed]
Movers == {r \in Runs : Does(r, Moving)}
Landed == SumFunctionOnSet(Landings, Movers)

\* the selected files that are where they were no more, if nobody else saves there
Gone == {k \in DOMAIN Selected : SourceOf(k) \notin DOMAIN files}
\* a file is somewhere else as well, or instead
Away(k) == \E p \in DOMAIN files : p # SourceOf(k) /\ files[p] = Content(Selected[k])
Copied == {k \in DOMAIN Selected : Away(k)}
UpTo(A, k) == {j \in A : j < k}

\* Before its first file a run has landed none.
NothingYet == \A r \in Runs : task[r].pc \in {"off", "look", "create", "refused"} => task[r].landed = 0
\* A placeholder is the slot of the run that holds it.
HeldBySlots ==
    \A p \in DOMAIN files :
        \/ files[p].is = "file"
        \/ \E s \in Runs : files[p] = Placeholder(s) /\ task[s].pc = "land" /\ task[s].slot = p
\* The files that are gone are those the moving runs landed.
GoneCounted == Cardinality(Gone) = Landed
\* What a copying run landed is still in some place of its own.
CopiesThere ==
    \A r \in Runs : Does(r, {"tags_copy"}) => task[r].landed <= Cardinality(UpTo(Copied, task[r].k))

CountInv == NothingYet /\ HeldBySlots /\ (saved = 0 => GoneCounted /\ CopiesThere)

LEMMA CopiedFinite == IsFiniteSet(Copied) /\ Copied \subseteq DOMAIN Selected /\ Copied \subseteq Nat
<1>1. IsFiniteSet(DOMAIN Selected) /\ DOMAIN Selected \subseteq Nat BY SelectedIs, FS_Interval
<1>2. Copied \subseteq DOMAIN Selected BY DEF Copied
<1> QED BY <1>1, <1>2, FS_Subset

LEMMA UpToGrows ==
    ASSUME NEW A, NEW B, A \subseteq B, IsFiniteSet(B), B \subseteq Nat, NEW j \in Nat, NEW k \in Nat, j <= k
    PROVE  /\ Cardinality(UpTo(A, j)) \in Nat /\ Cardinality(UpTo(B, k)) \in Nat
           /\ Cardinality(UpTo(A, j)) <= Cardinality(UpTo(B, k))
           /\ j < k /\ j \in B => Cardinality(UpTo(A, j)) + 1 <= Cardinality(UpTo(B, k))
<1>1. PICK a, b : a = UpTo(A, j) /\ b = UpTo(B, k) OBVIOUS
<1>2. a \subseteq b /\ b \subseteq B
  <2>1. ASSUME NEW i \in a PROVE i \in b
    <3>1. i \in A /\ i < j BY <1>1 DEF UpTo
    <3>2. i \in B /\ i \in Nat BY <3>1
    <3>3. i < k BY <3>1, <3>2
    <3> QED BY <1>1, <3>2, <3>3 DEF UpTo
  <2> QED BY <1>1, <2>1 DEF UpTo
<1>3. IsFiniteSet(b) /\ Cardinality(b) \in Nat BY <1>2, FS_Subset, FS_CardinalityType
<1>4. IsFiniteSet(a) /\ Cardinality(a) \in Nat /\ Cardinality(a) <= Cardinality(b)
  BY <1>2, <1>3, FS_Subset, FS_CardinalityType
<1>5. ASSUME j < k, j \in B PROVE Cardinality(a) + 1 <= Cardinality(b)
  <2>1. j \notin a BY <1>1 DEF UpTo
  <2>2. a \union {j} \subseteq b BY <1>1, <1>2, <1>5 DEF UpTo
  <2>3. Cardinality(a \union {j}) = Cardinality(a) + 1 BY <1>4, <2>1, FS_AddElement
  <2>4. Cardinality(a \union {j}) <= Cardinality(b) BY <1>3, <2>2, FS_Subset
  <2> QED BY <2>3, <2>4
<1> QED BY <1>1, <1>3, <1>4, <1>5

LEMMA GoneFinite == IsFiniteSet(Gone) /\ Cardinality(Gone) \in Nat
<1>1. IsFiniteSet(DOMAIN Selected) BY SelectedIs, FS_Interval
<1>2. Gone \subseteq DOMAIN Selected BY DEF Gone
<1> QED BY <1>1, <1>2, FS_Subset, FS_CardinalityType

\* What one run lands more, the moving runs land more if it is one of them.
LEMMA LandedMoves ==
    ASSUME Tasks, Tasks', NEW r \in Runs, NEW new, NowIs(r, new), new.verb = task[r].verb
    PROVE  /\ Landed \in Int /\ task[r].landed \in Nat /\ new.landed \in Nat
           /\ Does(r, Moving) => Landed' = Landed + new.landed - task[r].landed
           /\ ~Does(r, Moving) => Landed' = Landed
<1>1. /\ task' = [task EXCEPT ![r] = new] /\ task \in [Runs -> TaskState] /\ task' \in [Runs -> TaskState]
  BY DEF NowIs, Tasks
<1>2. task'[r] = new /\ \A s \in Runs : s # r => task'[s] = task[s] BY <1>1
<1>3. \A s \in Runs : task[s].landed \in Nat /\ task'[s].landed \in Nat
  <2>1. \A s \in Runs : task[s] \in TaskState /\ task'[s] \in TaskState BY <1>1
  <2> QED BY <2>1 DEF TaskState
<1>4. PICK M : M = Movers OBVIOUS
<1>5. Movers' = M BY <1>2, <1>4 DEF Movers, Does
<1>6. IsFiniteSet(M) /\ M \subseteq Runs
  <2>1. M \subseteq Runs BY <1>4 DEF Movers
  <2> QED BY <2>1, SelectionAssumption, FS_Subset
<1>7. PICK f, e : f = Landings /\ e = Landings' OBVIOUS
<1>8. /\ \A s \in Runs : f[s] = task[s].landed /\ e[s] = task'[s].landed
      /\ \A s \in M : f[s] \in Int /\ e[s] \in Int
  BY <1>3, <1>6, <1>7 DEF Landings
<1>9. Landed = SumFunctionOnSet(f, M) /\ Landed' = SumFunctionOnSet(e, M) BY <1>4, <1>5, <1>7 DEF Landed
<1>10. Counts(f, M) BY <1>8 DEF Counts
<1>11. Landed \in Int BY <1>6, <1>9, <1>10, SumTyped
<1>12. CASE r \in M
  <2>1. \A s \in M \ {r} : e[s] = f[s] BY <1>2, <1>6, <1>8
  <2>2. SumFunctionOnSet(e, M) = SumFunctionOnSet(f, M) + e[r] - f[r]
    BY <1>6, <1>8, <1>10, <1>12, <2>1, SumMoves
  <2>3. Does(r, Moving) BY <1>4, <1>12 DEF Movers
  <2> QED BY <1>2, <1>3, <1>8, <1>9, <1>11, <2>2, <2>3
<1>13. CASE r \notin M
  <2>1. \A s \in M : f[s] = e[s] BY <1>2, <1>6, <1>8, <1>13
  <2>2. SumFunctionOnSet(f, M) = SumFunctionOnSet(e, M) BY <1>6, <2>1, SumSame
  <2>3. ~Does(r, Moving) BY <1>4, <1>13 DEF Movers
  <2> QED BY <1>2, <1>3, <1>9, <1>11, <2>2, <2>3
<1> QED BY <1>12, <1>13

\* The counts of copies still stand if each copy is still there.
LEMMA CopiesStay ==
    ASSUME Tasks, Tasks', CopiesThere, NEW r \in Runs, NEW new, NowIs(r, new), new.verb = task[r].verb,
           Copied \subseteq Copied',
           \/ new.landed = 0
           \/ new.landed = task[r].landed /\ new.k >= task[r].k
           \/ /\ new.landed = task[r].landed + 1 /\ new.k = task[r].k + 1
              /\ task[r].k \in DOMAIN Selected
              /\ Does(r, {"tags_copy"}) => task[r].k \in Copied'
    PROVE  CopiesThere'
<1>1. /\ task' = [task EXCEPT ![r] = new] /\ task \in [Runs -> TaskState] /\ task' \in [Runs -> TaskState]
  BY DEF NowIs, Tasks
<1>2. task'[r] = new /\ \A s \in Runs : s # r => task'[s] = task[s] BY <1>1
<1>3. \A s \in Runs : task[s].landed \in Nat /\ task[s].k \in Nat /\ task'[s].landed \in Nat /\ task'[s].k \in Nat
  <2>1. \A s \in Runs : task[s] \in TaskState /\ task'[s] \in TaskState BY <1>1
  <2> QED BY <2>1 DEF TaskState
<1>4. PICK A, B : A = Copied /\ B = Copied' OBVIOUS
<1>5. A \subseteq B /\ IsFiniteSet(B) /\ B \subseteq Nat
  <2>1. B \subseteq DOMAIN Selected BY <1>4 DEF Copied
  <2>3. IsFiniteSet(DOMAIN Selected) /\ DOMAIN Selected \subseteq Nat BY SelectedIs, FS_Interval
  <2>2. A \subseteq B BY <1>4
  <2> QED BY <2>1, <2>2, <2>3, FS_Subset
<1>6. ASSUME NEW s \in Runs, Does(s, {"tags_copy"})'
      PROVE  task'[s].landed <= Cardinality(UpTo(B, task'[s].k))
  <2>1. Does(s, {"tags_copy"}) BY <1>2, <1>6 DEF Does
  <2>2. task[s].landed <= Cardinality(UpTo(A, task[s].k)) BY <1>4, <2>1 DEF CopiesThere
  <2>3. PICK j, k, m, n : j = task[s].k /\ k = task'[s].k /\ m = task[s].landed /\ n = task'[s].landed OBVIOUS
  <2>4. {j, k, m, n} \subseteq Nat BY <1>3, <2>3
  <2>5. \/ n = 0
        \/ n = m /\ j <= k
        \/ n = m + 1 /\ j < k /\ j \in B
    <3>1. CASE s # r BY <1>2, <2>3, <2>4, <3>1
    <3>2. CASE s = r
      <4>1. new.k = k /\ new.landed = n BY <1>2, <2>3, <3>2
      <4>2. task[r].k \in Copied' => j \in B BY <1>4, <2>3, <3>2
      <4> QED BY <2>1, <2>3, <2>4, <3>2, <4>1, <4>2
    <3> QED BY <3>1, <3>2
  <2>6. n <= Cardinality(UpTo(B, k))
    <3>1. CASE n = 0
      <4>1. B \subseteq B /\ k <= k BY <2>4
      <4>2. Cardinality(UpTo(B, k)) \in Nat BY <1>5, <2>4, <4>1, UpToGrows
      <4> QED BY <3>1, <4>2
    <3>2. CASE n = m /\ j <= k
      <4>1. Cardinality(UpTo(A, j)) <= Cardinality(UpTo(B, k)) /\ Cardinality(UpTo(A, j)) \in Nat
            /\ Cardinality(UpTo(B, k)) \in Nat
        BY <1>5, <2>4, <3>2, UpToGrows
      <4> QED BY <2>2, <2>3, <2>4, <3>2, <4>1
    <3>3. CASE n = m + 1 /\ j < k /\ j \in B
      <4>0. j <= k BY <2>4, <3>3
      <4>1. Cardinality(UpTo(A, j)) + 1 <= Cardinality(UpTo(B, k)) /\ Cardinality(UpTo(A, j)) \in Nat
            /\ Cardinality(UpTo(B, k)) \in Nat
        BY <1>5, <2>4, <3>3, <4>0, UpToGrows
      <4> QED BY <2>2, <2>3, <2>4, <3>3, <4>1
    <3> QED BY <2>5, <3>1, <3>2, <3>3
  <2> QED BY <2>3, <2>6
<1> QED BY <1>4, <1>6 DEF CopiesThere

\* A step of a run that holds no slot and leaves the files alone keeps the count if it lands nothing.
LEMMA CountStays ==
    ASSUME FolderInv, FolderInv', CountInv, NEW r \in Runs, NEW new, NowIs(r, new), UNCHANGED <<files, saved>>,
           task[r].pc # "land", new.verb = task[r].verb,
           new.pc \in {"off", "look", "create", "refused"} => new.landed = 0,
           new.landed = task[r].landed,
           new.landed = 0 \/ new.k >= task[r].k
    PROVE  CountInv'
<1>1. Tasks /\ Tasks' BY DEF FolderInv
<1>2. task'[r] = new /\ \A s \in Runs : s # r => task'[s] = task[s] BY <1>1 DEF NowIs, Tasks
<1>3. NothingYet' BY <1>2 DEF CountInv, NothingYet
<1>4. HeldBySlots'
  <2> SUFFICES ASSUME NEW p \in DOMAIN files, files[p].is # "file"
               PROVE  \E s \in Runs : files[p] = Placeholder(s) /\ task'[s].pc = "land" /\ task'[s].slot = p
    BY DEF HeldBySlots, Placeholder
  <2>1. PICK s \in Runs : files[p] = Placeholder(s) /\ task[s].pc = "land" /\ task[s].slot = p
    BY DEF CountInv, HeldBySlots
  <2>2. s # r BY <2>1
  <2> QED BY <1>2, <2>1, <2>2
<1>5. ASSUME saved = 0 PROVE GoneCounted' /\ CopiesThere'
  <2>1. GoneCounted /\ CopiesThere BY <1>5 DEF CountInv
  <2>2. Gone' = Gone /\ Copied' = Copied BY DEF Gone, Copied, Away, SourceOf, Content
  <2>3. Landed' = Landed BY <1>1, LandedMoves
  <2>4. CopiesThere' BY <1>1, <2>1, <2>2, CopiesStay
  <2> QED BY <2>1, <2>2, <2>3, <2>4 DEF GoneCounted
<1> QED BY <1>3, <1>4, <1>5 DEF CountInv

LEMMA StartsCounts == ASSUME FolderInv, FolderInv', CountInv, NEW r \in Runs, Starts(r) PROVE CountInv'
<1> DEFINE pc == CASE Does(r, {"files_to_folder"}) -> "look"
                   [] Does(r, {"sort_by_dimensions"}) -> "probe"
                   [] OTHER -> "file"
           new == [IdleTask(task[r].verb) EXCEPT !.pc = pc]
<1>1. NowIs(r, new) /\ UNCHANGED <<files, saved>> /\ task[r].pc \in {"off", "refused"} BY DEF Starts
<1>2. new.verb = task[r].verb /\ new.landed = 0 BY DEF IdleTask
<1> HIDE DEF new
<1>3. task[r].landed = 0 BY <1>1 DEF CountInv, NothingYet
<1> QED BY <1>1, <1>2, <1>3, CountStays

LEMMA EarlyCounts ==
    ASSUME FolderInv, FolderInv', CountInv, NEW r \in Runs,
           Looks(r) \/ Creates(r) \/ Probes(r) \/ NothingToDo(r) \/ MakesFolder(r) \/ Reports(r)
    PROVE  CountInv'
<1>1. PICK t : t = task[r] OBVIOUS
<1>2. t \in TaskState BY <1>1 DEF FolderInv, Tasks
<1>3. t.landed \in Nat /\ t.k \in Nat BY <1>2 DEF TaskState
<1> DEFINE Fits(new) ==
        /\ NowIs(r, new) /\ t.pc # "land" /\ new.verb = t.verb
        /\ new.pc \in {"off", "look", "create", "refused"} => new.landed = 0
        /\ new.landed = t.landed /\ new.k >= t.k
<1>4. CASE Looks(r)
  <2>1. PICK d : NowIs(r, [t EXCEPT !.pc = "create", !.dir = d]) BY <1>1, <1>4, LooksTakes
  <2>2. t.pc = "look" /\ UNCHANGED <<files, saved>> BY <1>1, <1>4 DEF Looks
  <2>3. t.landed = 0 BY <1>1, <2>2 DEF CountInv, NothingYet
  <2> DEFINE new == [t EXCEPT !.pc = "create", !.dir = d]
  <2>4. Fits(new) BY <1>2, <1>3, <2>1, <2>2, <2>3 DEF TaskState
  <2> HIDE DEF new
  <2> QED BY <1>1, <2>2, <2>4, CountStays
<1>5. CASE Creates(r)
  <2>1. PICK pc : NowIs(r, [t EXCEPT !.pc = pc]) BY <1>1, <1>5 DEF Creates
  <2>2. t.pc = "create" /\ UNCHANGED <<files, saved>> BY <1>1, <1>5 DEF Creates
  <2>3. t.landed = 0 BY <1>1, <2>2 DEF CountInv, NothingYet
  <2> DEFINE new == [t EXCEPT !.pc = pc]
  <2>4. Fits(new) BY <1>2, <1>3, <2>1, <2>2, <2>3 DEF TaskState
  <2> HIDE DEF new
  <2> QED BY <1>1, <2>2, <2>4, CountStays
<1>6. CASE Probes(r)
  <2>1. t.pc = "probe" /\ UNCHANGED <<files, saved>> BY <1>1, <1>6 DEF Probes
  <2>2. PICK new : NowIs(r, new) /\ (\/ new = [t EXCEPT !.pc = "file"]
                                     \/ new = [t EXCEPT !.seen = Append(@, Read(Len(@) + 1, WantedDir, <<>>))])
    BY <1>1, <1>6 DEF Probes
  <2>3. Fits(new)
    <3>1. CASE new = [t EXCEPT !.pc = "file"] BY <1>2, <1>3, <2>1, <2>2, <3>1 DEF TaskState
    <3>2. CASE new = [t EXCEPT !.seen = Append(@, Read(Len(@) + 1, WantedDir, <<>>))]
      <4>1. PICK s : new = [t EXCEPT !.seen = s] BY <3>2
      <4> QED BY <1>2, <1>3, <2>1, <2>2, <4>1 DEF TaskState
    <3> QED BY <2>2, <3>1, <3>2
  <2> QED BY <1>1, <2>1, <2>3, CountStays
<1>7. CASE NothingToDo(r) \/ (MakesFolder(r) /\ NowIs(r, Skipped1(t)))
  <2>1. t.pc = "file" /\ UNCHANGED <<files, saved>> /\ NowIs(r, Skipped1(t))
    BY <1>1, <1>7 DEF NothingToDo, MakesFolder, AtFile
  <2> DEFINE new == Skipped1(t)
  <2>2. Fits(new) BY <1>2, <1>3, <2>1 DEF TaskState, Skipped1
  <2> HIDE DEF new
  <2>3. NowIs(r, new) BY <2>2
  <2> QED BY <1>1, <2>1, <2>2, <2>3, CountStays
<1>8. CASE MakesFolder(r) /\ ~NowIs(r, Skipped1(t))
  <2>1. t.pc = "file" /\ UNCHANGED <<files, saved>>
        /\ NowIs(r, [t EXCEPT !.pc = "reserve", !.dir = FolderFor(r), !.name = NameFor(r)])
    BY <1>1, <1>8 DEF MakesFolder, AtFile
  <2>2. PICK d, n : d = FolderFor(r) /\ n = NameFor(r) OBVIOUS
  <2> DEFINE new == [t EXCEPT !.pc = "reserve", !.dir = d, !.name = n]
  <2>3. Fits(new) BY <1>2, <1>3, <2>1, <2>2 DEF TaskState
  <2> HIDE DEF new
  <2> QED BY <1>1, <2>1, <2>3, CountStays
<1>9. CASE Reports(r)
  <2>1. PICK pc \in {"refused", "told"} :
            NowIs(r, [t EXCEPT !.pc = pc]) /\ (pc = "refused" => t.landed = 0)
    BY <1>1, <1>9 DEF Reports
  <2>2. t.pc = "file" /\ UNCHANGED <<files, saved>> BY <1>1, <1>9 DEF Reports
  <2> DEFINE new == [t EXCEPT !.pc = pc]
  <2>3. Fits(new) BY <1>2, <1>3, <2>1, <2>2 DEF TaskState
  <2> HIDE DEF new
  <2> QED BY <1>1, <2>2, <2>3, CountStays
<1> QED BY <1>4, <1>5, <1>6, <1>7, <1>8, <1>9

\* A name is held: a run takes a slot, which no source is, and nothing else changes.
LEMMA ReserveCounts ==
    ASSUME NamesApart, FolderInv, FolderInv', CountInv, NEW r \in Runs, reserve_dest(r) PROVE CountInv'
<1>1. PICK t : t = task[r] OBVIOUS
<1>2. PICK path : path = FirstFree(t.dir, t.name) OBVIOUS
<1>3. PICK plain : plain = <<t.dir, <<t.name>>>> OBVIOUS
<1>4. t.pc = "reserve" /\ UNCHANGED <<folders, saved>> BY <1>1 DEF reserve_dest
<1>5. t \in TaskState /\ Shape(t) /\ Aims(t) BY <1>1, <1>4 DEF FolderInv, Tasks, Shape
<1>6. t.landed \in Nat /\ t.k \in Nat BY <1>5 DEF TaskState
<1>7. PICK n \in Nat : path = <<t.dir, Numbered(t.name, n)>> /\ path \notin DOMAIN files
  BY <1>2, FirstFreeIs DEF FolderInv, AtSources
<1>8. CASE plain = SourceOf(t.k)
  <2>1. t.dir = Home BY <1>3, <1>8 DEF SourceOf
  <2>2. t.verb = "rename_by_exif" BY <1>5, <2>1 DEF Aims
  <2>3. NowIs(r, Skipped1(t)) /\ UNCHANGED files BY <1>1, <1>3, <1>8, <2>2 DEF reserve_dest, Does
  <2> DEFINE new == Skipped1(t)
  <2>4. new.verb = t.verb /\ new.pc = "file" /\ new.landed = t.landed /\ new.k >= t.k
    BY <1>5, <1>6 DEF Skipped1, TaskState
  <2>5. NowIs(r, new) BY <2>3
  <2> HIDE DEF new
  <2> QED BY <1>1, <1>4, <2>3, <2>4, <2>5, CountStays
<1>9. CASE plain # SourceOf(t.k)
  <2>1. PICK slot \in {plain, path} :
          /\ NowIs(r, [t EXCEPT !.pc = "land", !.slot = slot])
          /\ \/ UNCHANGED files
             \/ slot = path /\ files' = Reserved(r, path)
    BY <1>1, <1>2, <1>3, <1>9 DEF reserve_dest
  <2> DEFINE new == [t EXCEPT !.pc = "land", !.slot = slot]
  <2>2. /\ new.verb = t.verb /\ new.pc = "land" /\ new.slot = slot /\ new.landed = t.landed /\ new.k = t.k
    BY <1>5 DEF TaskState
  <2>3. NowIs(r, new) BY <2>1
  <2> HIDE DEF new
  <2>4. CASE UNCHANGED files BY <1>1, <1>4, <1>6, <2>2, <2>3, <2>4, CountStays
  <2>5. CASE slot = path /\ files' = Reserved(r, path)
    <3>1. /\ DOMAIN files' = DOMAIN files \union {path} /\ files'[path] = Placeholder(r)
          /\ \A p \in DOMAIN files : files'[p] = files[p]
      BY <1>7, <2>5 DEF Reserved
    <3>2. Tasks /\ Tasks' BY DEF FolderInv
    <3>3. task'[r] = new /\ \A s \in Runs : s # r => task'[s] = task[s] BY <2>3, <3>2 DEF NowIs, Tasks
    <3>4. NothingYet' BY <2>2, <3>3 DEF CountInv, NothingYet
    <3>5. HeldBySlots'
      <4> SUFFICES ASSUME NEW p \in DOMAIN files', files'[p].is # "file"
                   PROVE  \E s \in Runs : files'[p] = Placeholder(s) /\ task'[s].pc = "land" /\ task'[s].slot = p
        BY DEF HeldBySlots, Placeholder
      <4>1. CASE p = path BY <2>2, <2>5, <3>1, <3>3, <4>1
      <4>2. CASE p # path
        <5>1. PICK s \in Runs : files[p] = Placeholder(s) /\ task[s].pc = "land" /\ task[s].slot = p
          BY <3>1, <4>2 DEF CountInv, HeldBySlots
        <5>2. s # r BY <1>1, <1>4, <5>1
        <5> QED BY <3>1, <3>3, <4>2, <5>1, <5>2
      <4> QED BY <4>1, <4>2
    <3>6. ASSUME saved = 0 PROVE GoneCounted' /\ CopiesThere'
      <4>1. GoneCounted /\ CopiesThere BY <3>6 DEF CountInv
      <4>2. \A k \in DOMAIN Selected : SourceOf(k) # path
        <5>1. Shape(new) BY <3>2, <3>3 DEF Tasks
        <5> QED BY <2>2, <2>5, <5>1, SlotIsNoSource
      <4>3. Gone' = Gone
        <5>1. \A k \in DOMAIN Selected : SourceOf(k) \in DOMAIN files' <=> SourceOf(k) \in DOMAIN files
          BY <3>1, <4>2
        <5> QED BY <5>1 DEF Gone, SourceOf
      <4>4. Copied \subseteq Copied' BY <3>1 DEF Copied, Away, SourceOf, Content
      <4>5. Landed' = Landed BY <1>1, <2>2, <2>3, <3>2, LandedMoves
      <4>6. CopiesThere' BY <1>1, <1>6, <2>2, <2>3, <3>2, <4>1, <4>4, CopiesStay
      <4> QED BY <4>1, <4>3, <4>5, <4>6 DEF GoneCounted
    <3> QED BY <1>4, <3>4, <3>5, <3>6 DEF CountInv
  <2> QED BY <2>1, <2>4, <2>5
<1> QED BY <1>8, <1>9

\* A slot is given up: only a placeholder goes.
LEMMA CannotLandCounts ==
    ASSUME NamesApart, FolderInv, FolderInv', CountInv, NEW r \in Runs, CannotLand(r) PROVE CountInv'
<1>1. PICK t : t = task[r] OBVIOUS
<1>2. t.pc = "land" /\ UNCHANGED saved /\ files' = Dropped(r) BY <1>1 DEF CannotLand
<1>3. t \in TaskState /\ Shape(t) BY <1>1 DEF FolderInv, Tasks
<1>4. t.landed \in Nat /\ t.k \in Nat BY <1>3 DEF TaskState
<1>5. PICK new \in {Skipped1(t), Errored1(t)} : NowIs(r, new) BY <1>1 DEF CannotLand
<1>6. new.verb = t.verb /\ new.pc = "file" /\ new.landed = t.landed /\ new.k >= t.k
  <2>1. CASE new = Skipped1(t) BY <1>3, <1>4, <2>1 DEF Skipped1, TaskState
  <2>2. CASE new = Errored1(t) BY <1>3, <1>4, <2>2 DEF Errored1, TaskState
  <2> QED BY <1>5, <2>1, <2>2
<1>7. /\ \A p \in DOMAIN files' : p \in DOMAIN files /\ files'[p] = files[p] /\ (p = t.slot => files[p].is = "file")
      /\ \A p \in DOMAIN files : p # t.slot \/ files[p].is = "file" => p \in DOMAIN files'
  BY <1>1, <1>2 DEF Dropped
<1>8. Tasks /\ Tasks' BY DEF FolderInv
<1>9. task'[r] = new /\ \A s \in Runs : s # r => task'[s] = task[s] BY <1>5, <1>8 DEF NowIs, Tasks
<1>10. NothingYet' BY <1>6, <1>9 DEF CountInv, NothingYet
<1>11. HeldBySlots'
  <2> SUFFICES ASSUME NEW p \in DOMAIN files', files'[p].is # "file"
               PROVE  \E s \in Runs : files'[p] = Placeholder(s) /\ task'[s].pc = "land" /\ task'[s].slot = p
    BY DEF HeldBySlots, Placeholder
  <2>1. p # t.slot /\ p \in DOMAIN files /\ files'[p] = files[p] BY <1>7
  <2>2. PICK s \in Runs : files[p] = Placeholder(s) /\ task[s].pc = "land" /\ task[s].slot = p
    BY <2>1 DEF CountInv, HeldBySlots
  <2>3. s # r BY <1>1, <2>1, <2>2
  <2> QED BY <1>9, <2>1, <2>2, <2>3
<1>12. ASSUME saved = 0 PROVE GoneCounted' /\ CopiesThere'
  <2>1. GoneCounted /\ CopiesThere BY <1>12 DEF CountInv
  <2>2. \A k \in DOMAIN Selected : SourceOf(k) # t.slot BY <1>2, <1>3, SlotIsNoSource
  <2>3. Gone' = Gone
    <3>1. \A k \in DOMAIN Selected : SourceOf(k) \in DOMAIN files' <=> SourceOf(k) \in DOMAIN files
      BY <1>7, <2>2
    <3> QED BY <3>1 DEF Gone, SourceOf
  <2>4. Copied \subseteq Copied'
    <3>1. ASSUME NEW k \in Copied PROVE k \in Copied'
      <4>1. PICK p \in DOMAIN files : p # SourceOf(k) /\ files[p] = Content(Selected[k]) BY DEF Copied, Away
      <4>2. p \in DOMAIN files' /\ files'[p] = Content(Selected[k])
        <5>1. files[p].is = "file" BY <4>1, HeldIsNoFile
        <5> QED BY <1>7, <4>1, <5>1
      <4> QED BY <4>1, <4>2 DEF Copied, Away, SourceOf, Content
    <3> QED BY <3>1
  <2>5. Landed' = Landed BY <1>1, <1>5, <1>6, <1>8, LandedMoves
  <2>6. CopiesThere' BY <1>1, <1>4, <1>5, <1>6, <1>8, <2>1, <2>4, CopiesStay
  <2> QED BY <2>1, <2>3, <2>5, <2>6 DEF GoneCounted
<1> QED BY <1>2, <1>10, <1>11, <1>12 DEF CountInv

\* A file lands: a run that moves it counts it, and it is gone from where it was; a copy is
\* where its slot was.
LEMMA LandsCounts ==
    ASSUME NamesApart, FolderInv, FolderInv', CountInv, NEW r \in Runs, Lands(r) PROVE CountInv'
<1>1. PICK t : t = task[r] OBVIOUS
<1>2. PICK src, slot : src = SourceOf(t.k) /\ slot = t.slot OBVIOUS
<1>3. /\ t.pc = "land" /\ src \in DOMAIN files /\ UNCHANGED saved
      /\ NowIs(r, Landed1(t))
  BY <1>1, <1>2 DEF Lands
<1>4. /\ t \in TaskState /\ Shape(t) /\ Aims(t) BY <1>1, <1>3 DEF FolderInv, Tasks, Shape
<1>5. t.landed \in Nat /\ t.k \in Nat /\ t.verb \in AllVerbs BY <1>4 DEF TaskState
<1>6. PICK gone : gone = (IF t.verb = "tags_copy" THEN {} ELSE {src}) OBVIOUS
<1>7. files' = [p \in (DOMAIN files \union {slot}) \ gone |-> IF p = slot THEN files[src] ELSE files[p]]
  BY <1>1, <1>2, <1>6 DEF Lands, Does
<1>8. \A j \in DOMAIN Selected : SourceOf(j) # slot BY <1>2, <1>3, <1>4, SlotIsNoSource
<1>9. t.k \in DOMAIN Selected /\ src # slot BY <1>2, <1>4, <1>8 DEF Aims
<1>10. /\ slot \in DOMAIN files' /\ files'[slot] = files[src]
       /\ \A p \in DOMAIN files' : p # slot => p \in DOMAIN files /\ files'[p] = files[p]
       /\ \A p \in DOMAIN files : p # slot /\ p # src => p \in DOMAIN files'
       /\ src \in DOMAIN files' <=> t.verb = "tags_copy"
  BY <1>3, <1>6, <1>7, <1>9
<1> DEFINE new == Landed1(t)
<1>11. new.verb = t.verb /\ new.pc = "file" /\ new.landed = t.landed + 1 /\ new.k = t.k + 1
  BY <1>4, <1>5 DEF Landed1, TaskState
<1>12. NowIs(r, new) BY <1>3
<1> HIDE DEF new
<1>13. Tasks /\ Tasks' BY DEF FolderInv
<1>14. task'[r] = new /\ \A s \in Runs : s # r => task'[s] = task[s] BY <1>12, <1>13 DEF NowIs, Tasks
<1>15. NothingYet' BY <1>11, <1>14 DEF CountInv, NothingYet
<1>16. files[src].is = "file" /\ (saved = 0 => files[src] = Content(Selected[t.k]))
  <2>1. \/ files[src] = Content(Selected[t.k])
        \/ saved > 0 /\ files[src] = Content("theirs")
    BY <1>2, <1>3, <1>9 DEF FolderInv, AtSources
  <2> QED BY <2>1, HeldIsNoFile
<1>17. HeldBySlots'
  <2> SUFFICES ASSUME NEW p \in DOMAIN files', files'[p].is # "file"
               PROVE  \E s \in Runs : files'[p] = Placeholder(s) /\ task'[s].pc = "land" /\ task'[s].slot = p
    BY DEF HeldBySlots, Placeholder
  <2>1. p # slot BY <1>10, <1>16
  <2>2. p \in DOMAIN files /\ files'[p] = files[p] BY <1>10, <2>1
  <2>3. PICK s \in Runs : files[p] = Placeholder(s) /\ task[s].pc = "land" /\ task[s].slot = p
    BY <2>2 DEF CountInv, HeldBySlots
  <2>4. s # r BY <1>1, <1>2, <2>1, <2>3
  <2> QED BY <1>14, <2>2, <2>3, <2>4
<1>18. ASSUME saved = 0 PROVE GoneCounted' /\ CopiesThere'
  <2>1. GoneCounted /\ CopiesThere BY <1>18 DEF CountInv
  <2>2. \A j \in DOMAIN Selected : SourceOf(j) = src => j = t.k
    <3>1. \A j \in DOMAIN Selected : SourceOf(j) = src => Selected[j] = Selected[t.k] BY <1>2 DEF SourceOf
    <3> QED BY <1>9, <3>1, SelectedIs
  <2>3. Gone' = (IF t.verb = "tags_copy" THEN Gone ELSE Gone \union {t.k}) /\ t.k \notin Gone
    <3>1. \A j \in DOMAIN Selected : j # t.k =>
            (SourceOf(j) \in DOMAIN files' <=> SourceOf(j) \in DOMAIN files)
      BY <1>8, <1>10, <2>2
    <3>2. t.k \notin Gone /\ (t.k \in Gone' <=> t.verb # "tags_copy")
      BY <1>2, <1>3, <1>9, <1>10 DEF Gone, SourceOf
    <3>3. \A j \in DOMAIN Selected : j # t.k => (j \in Gone' <=> j \in Gone) BY <3>1 DEF Gone, SourceOf
    <3>4. Gone \subseteq DOMAIN Selected /\ Gone' \subseteq DOMAIN Selected BY DEF Gone
    <3> QED BY <1>9, <3>2, <3>3, <3>4
  <2>4. ASSUME NEW k \in Copied PROVE k \in Copied'
    <3>1. PICK p \in DOMAIN files : p # SourceOf(k) /\ files[p] = Content(Selected[k]) BY DEF Copied, Away
    <3>2. k \in DOMAIN Selected BY DEF Copied
    <3>3. \E q \in DOMAIN files' : q # SourceOf(k) /\ files'[q] = Content(Selected[k])
      <4>1. CASE p = src
        <5>1. Content(Selected[k]) = Content(Selected[t.k]) BY <1>16, <1>18, <3>1, <4>1
        <5>2. k = t.k BY <1>9, <3>2, <5>1, ContentsDiffer, SelectedIs
        <5> QED BY <1>2, <3>1, <4>1, <5>2
      <4>2. CASE p = slot
        <5>1. ~OneFolder /\ t.verb # "rename_by_exif"
          <6> SUFFICES ASSUME OneFolder \/ t.verb = "rename_by_exif" PROVE FALSE OBVIOUS
          <6>1. files[slot] = Placeholder(r) BY <1>1, <1>2, <1>3 DEF FolderInv, Holding, Does
          <6> QED BY <3>1, <4>2, <6>1, HeldIsNoFile
        <5>2. t.dir # Home /\ t.name = Selected[t.k] BY <1>4, <5>1 DEF Aims
        <5>3. slot[1] = t.dir /\ slot[2][1] = t.name BY <1>2, <1>3, <1>4, SlotNamed
        <5>4. Selected[k] \in Ids BY <3>2, SelectedIs
        <5>5. slot[2][1] = Selected[k] BY <1>18, <3>1, <4>2, <5>2, <5>3, <5>4 DEF FolderInv, NamesKept
        <5>6. files'[slot] = Content(Selected[k]) BY <1>10, <1>16, <1>18, <5>2, <5>3, <5>5
        <5> QED BY <1>8, <1>10, <3>2, <5>6
      <4>3. CASE p # src /\ p # slot BY <1>10, <3>1, <4>3
      <4> QED BY <4>1, <4>2, <4>3
    <3> QED BY <3>2, <3>3 DEF Copied, Away, SourceOf, Content
  <2>5. t.k \in Copied'
    <3>1. files'[slot] = Content(Selected[t.k]) /\ SourceOf(t.k) # slot BY <1>8, <1>9, <1>10, <1>16, <1>18
    <3> QED BY <1>9, <1>10, <3>1 DEF Copied, Away, SourceOf, Content
  <2>6. CopiesThere'
    <3>1. Copied \subseteq Copied' BY <2>4
    <3> QED BY <1>1, <1>9, <1>11, <1>12, <1>13, <2>1, <2>5, <3>1, CopiesStay
  <2>7. GoneCounted'
    <3>1. /\ Landed \in Int
          /\ Does(r, Moving) => Landed' = Landed + new.landed - task[r].landed
          /\ ~Does(r, Moving) => Landed' = Landed
      BY <1>1, <1>11, <1>12, <1>13, LandedMoves
    <3>2. Does(r, Moving) <=> t.verb # "tags_copy" BY <1>1, <1>5 DEF Does, Moving
    <3>3. CASE t.verb = "tags_copy"
      <4>1. Gone' = Gone BY <2>3, <3>3
      <4>2. Landed' = Landed BY <3>1, <3>2, <3>3
      <4> QED BY <2>1, <4>1, <4>2 DEF GoneCounted
    <3>4. CASE t.verb # "tags_copy"
      <4>1. Gone' = Gone \union {t.k} /\ t.k \notin Gone BY <2>3, <3>4
      <4>2. Cardinality(Gone \union {t.k}) = Cardinality(Gone) + 1
        BY <4>1, GoneFinite, FS_AddElement
      <4>3. Landed' = Landed + 1 BY <1>1, <1>5, <1>11, <3>1, <3>2, <3>4
      <4> QED BY <2>1, <4>1, <4>2, <4>3 DEF GoneCounted
    <3> QED BY <3>3, <3>4
  <2> QED BY <2>6, <2>7
<1> QED BY <1>3, <1>15, <1>17, <1>18 DEF CountInv

LEMMA SavesCounts == ASSUME FolderInv, CountInv, Saves PROVE CountInv'
<1>1. saved' = saved + 1 /\ UNCHANGED task BY DEF Saves
<1>2. PICK path :
        /\ path \notin DOMAIN files
        /\ files' = [p \in DOMAIN files \union {path} |-> IF p = path THEN Content("theirs") ELSE files[p]]
  BY DEF Saves
<1>3. saved' # 0 BY <1>1 DEF FolderInv, AtSources
<1>4. NothingYet' BY <1>1 DEF CountInv, NothingYet
<1>5. HeldBySlots'
  <2> SUFFICES ASSUME NEW p \in DOMAIN files', files'[p].is # "file"
               PROVE  \E s \in Runs : files'[p] = Placeholder(s) /\ task[s].pc = "land" /\ task[s].slot = p
    BY <1>1 DEF HeldBySlots, Placeholder
  <2>1. p \in DOMAIN files /\ files'[p] = files[p] BY <1>2, HeldIsNoFile
  <2> QED BY <2>1 DEF CountInv, HeldBySlots
<1> QED BY <1>3, <1>4, <1>5 DEF CountInv

LEMMA CountStarts == ASSUME FolderInit PROVE CountInv
<1>1. /\ files = [p \in {SourceOf(k) : k \in DOMAIN Selected} |-> Content(p[2][1])]
      /\ task \in [Runs -> {IdleTask(verb) : verb \in Verbs}]
  BY DEF FolderInit
<1>2. \A r \in Runs : task[r].landed = 0 /\ task[r].k = 1
  <2>1. ASSUME NEW r \in Runs PROVE task[r].landed = 0 /\ task[r].k = 1
    <3>1. PICK verb \in Verbs : task[r] = IdleTask(verb) BY <1>1
    <3>2. IdleTask(verb).landed = 0 /\ IdleTask(verb).k = 1 BY DEF IdleTask
    <3> QED BY <3>1, <3>2
  <2> QED BY <2>1
<1>3. NothingYet BY <1>2 DEF NothingYet
<1>4. HeldBySlots BY <1>1 DEF HeldBySlots, Content
<1>5. Gone = {} BY <1>1 DEF Gone
<1>6. Landed = 0
  <2>1. PICK f, M : f = Landings /\ M = Movers OBVIOUS
  <2>2. IsFiniteSet(M) /\ \A x \in M : f[x] = 0
    <3>1. M \subseteq Runs BY <2>1 DEF Movers
    <3> QED BY <1>2, <2>1, <3>1, SelectionAssumption, FS_Subset DEF Landings
  <2>3. SumFunctionOnSet(f, M) = 0 BY <2>2, SumOfZeros
  <2> QED BY <2>1, <2>3 DEF Landed
<1>7. GoneCounted BY <1>5, <1>6, FS_EmptySet DEF GoneCounted
<1>8. CopiesThere
  <2>1. Cardinality(UpTo(Copied, 1)) \in Nat
    <3>1. UpTo(Copied, 1) \subseteq Copied BY DEF UpTo
    <3> QED BY <3>1, CopiedFinite, FS_Subset, FS_CardinalityType
  <2> QED BY <1>2, <2>1 DEF CopiesThere
<1> QED BY <1>3, <1>4, <1>7, <1>8 DEF CountInv

LEMMA CountStepKeeps ==
    ASSUME NamesApart, FolderInv, FolderInv', CountInv, FolderNext PROVE CountInv'
<1>1. CASE Saves BY <1>1, SavesCounts
<1>2. CASE ~Saves
  <2>1. PICK r \in Runs :
            \/ Starts(r) \/ Looks(r) \/ Creates(r) \/ Probes(r) \/ NothingToDo(r) \/ MakesFolder(r)
            \/ reserve_dest(r) \/ Lands(r) \/ CannotLand(r) \/ Reports(r)
    BY <1>2 DEF FolderNext
  <2>2. CASE Starts(r) BY <2>2, StartsCounts
  <2>3. CASE Looks(r) \/ Creates(r) \/ Probes(r) \/ NothingToDo(r) \/ MakesFolder(r) \/ Reports(r)
    BY <2>3, EarlyCounts
  <2>4. CASE reserve_dest(r) BY <2>4, ReserveCounts
  <2>5. CASE Lands(r) BY <2>5, LandsCounts
  <2>6. CASE CannotLand(r) BY <2>6, CannotLandCounts
  <2> QED BY <2>1, <2>2, <2>3, <2>4, <2>5, <2>6
<1> QED BY <1>1, <1>2

LEMMA CountStutters == ASSUME CountInv, UNCHANGED folderVars PROVE CountInv'
<1>1. UNCHANGED <<files, folders, task, saved>> BY DEF folderVars
<1>2. NothingYet' BY <1>1 DEF CountInv, NothingYet
<1>3. HeldBySlots' BY <1>1 DEF CountInv, HeldBySlots, Placeholder
<1>4. Gone' = Gone /\ Copied' = Copied BY <1>1 DEF Gone, Copied, Away, SourceOf, Content
<1>5. Landed' = Landed BY <1>1 DEF Landed, Landings, Movers, Does, Moving
<1>6. saved = 0 => GoneCounted' BY <1>4, <1>5 DEF CountInv, GoneCounted
<1>7. saved = 0 => CopiesThere' BY <1>1, <1>4 DEF CountInv, CopiesThere, UpTo, Does
<1> QED BY <1>1, <1>2, <1>3, <1>6, <1>7 DEF CountInv

\* What the counts mean when no verb is at work.
LEMMA CountedIsTrue == ASSUME FolderInv, CountInv PROVE CountsTrue
<1> SUFFICES ASSUME \A r \in Runs : task[r].pc \in {"off", "refused", "told"}, saved = 0
             PROVE  /\ Cardinality({k \in DOMAIN Selected : SourceOf(k) \notin PlacesOf(Selected[k])})
                        = SumFunctionOnSet([r \in Runs |-> task[r].landed], {r \in Runs : Does(r, Moving)})
                    /\ \A r \in Runs : Does(r, {"tags_copy"}) =>
                        SumFunction([k \in DOMAIN Selected |-> Cardinality(PlacesOf(Selected[k]) \ {SourceOf(k)})])
                            >= task[r].landed
                    /\ \A p \in DOMAIN files : files[p].is = "file"
  BY DEF CountsTrue
<1>1. GoneCounted /\ CopiesThere /\ HeldBySlots BY DEF CountInv
<1>2. \A p \in DOMAIN files : files[p].is = "file" BY <1>1 DEF HeldBySlots
<1>3. {k \in DOMAIN Selected : SourceOf(k) \notin PlacesOf(Selected[k])} = Gone
  <2>1. ASSUME NEW k \in DOMAIN Selected
        PROVE  SourceOf(k) \notin PlacesOf(Selected[k]) <=> SourceOf(k) \notin DOMAIN files
    BY DEF FolderInv, AtSources, PlacesOf
  <2> QED BY <2>1 DEF Gone
<1>4. ASSUME NEW r \in Runs, Does(r, {"tags_copy"})
      PROVE  SumFunction([k \in DOMAIN Selected |-> Cardinality(PlacesOf(Selected[k]) \ {SourceOf(k)})])
                >= task[r].landed
  <2>1. task[r].landed <= Cardinality(UpTo(Copied, task[r].k)) BY <1>1, <1>4 DEF CopiesThere
  <2>2. PICK f : f = [k \in DOMAIN Selected |-> Cardinality(PlacesOf(Selected[k]) \ {SourceOf(k)})] OBVIOUS
  <2>3. DOMAIN f = DOMAIN Selected /\ IsFiniteSet(DOMAIN Selected) BY <2>2, SelectedIs, FS_Interval
  <2>4. ASSUME NEW k \in DOMAIN Selected
        PROVE  f[k] \in Nat /\ (k \in Copied => f[k] # 0)
    <3>1. PICK S : S = PlacesOf(Selected[k]) \ {SourceOf(k)} OBVIOUS
    <3>2. IsFiniteSet(S)
      <4>1. S \subseteq DOMAIN files BY <3>1 DEF PlacesOf
      <4> QED BY <4>1, FS_Subset DEF FolderInv, AtSources
    <3>3. f[k] = Cardinality(S) /\ Cardinality(S) \in Nat BY <2>2, <3>1, <3>2, FS_CardinalityType
    <3>4. k \in Copied => S # {} BY <3>1 DEF Copied, Away, PlacesOf
    <3> QED BY <3>2, <3>3, <3>4, FS_EmptySet
  <2>5. PICK T : T = UpTo(Copied, task[r].k) OBVIOUS
  <2>6. T \subseteq DOMAIN Selected /\ \A k \in T : f[k] # 0
    <3>1. T \subseteq Copied BY <2>5 DEF UpTo
    <3> QED BY <2>4, <3>1, CopiedFinite
  <2>7. Cardinality(T) \in Nat /\ Cardinality(T) <= SumFunctionOnSet(f, DOMAIN Selected)
    BY <2>3, <2>4, <2>6, SumCounts
  <2>8. SumFunctionOnSet(f, DOMAIN Selected) \in Int
    <3>1. Counts(f, DOMAIN Selected) BY <2>4 DEF Counts
    <3> QED BY <2>3, <3>1, SumTyped
  <2>9. SumFunction(f) = SumFunctionOnSet(f, DOMAIN Selected) BY <2>3 DEF SumFunction
  <2>10. task[r].landed \in Nat
    <3>1. task[r] \in TaskState BY DEF FolderInv, Tasks
    <3> QED BY <3>1 DEF TaskState
  <2>11. SumFunction(f) >= task[r].landed BY <2>1, <2>5, <2>7, <2>8, <2>9, <2>10
  <2> QED BY <2>2, <2>11
<1>5. Cardinality(Gone) = SumFunctionOnSet([r \in Runs |-> task[r].landed], {r \in Runs : Does(r, Moving)})
  BY <1>1 DEF GoneCounted, Landed, Landings, Movers
<1> QED BY <1>2, <1>3, <1>4, <1>5

\* A verb that moves files counts those that went and no others, a verb that copies has made at least
\* the copies it counts, and no placeholder stays behind (fileops.rs:236), for any number of
\* runs, any selection and any steps that fail, if names are apart and nobody else saves.
THEOREM FolderCountsTrue == ASSUME NamesApart PROVE FolderSpec => []CountsTrue
<1> DEFINE Inv == FolderInv /\ CountInv
<1>1. FolderInit => Inv BY FolderStarts, CountStarts
<1>2. Inv /\ [FolderNext]_folderVars => Inv'
  <2>1. ASSUME Inv, FolderNext PROVE Inv' BY <2>1, FolderStepKeeps, CountStepKeeps
  <2>2. ASSUME Inv, UNCHANGED folderVars PROVE Inv' BY <2>2, FolderStutters, CountStutters
  <2> QED BY <2>1, <2>2
<1>3. Inv => CountsTrue BY CountedIsTrue
<1> QED BY <1>1, <1>2, <1>3, PTL DEF FolderSpec

-----------------------------------------------------------------------------
(* The children: permits are conserved, the cap holds, a call that has returned       *)
(* left nothing behind, and an encode reports truly.                                  *)

PermitHolders == {c \in Calls : call[c].permit}

Typed ==
    /\ permits \in Nat /\ leaked \in Nat
    /\ call \in [Calls -> CallState]
    /\ child \in [Calls -> ChildState]
    /\ pipe \in [Calls -> PipeState]
    /\ thread \in [Calls -> ThreadState]

Conserved == permits + leaked + Cardinality(PermitHolders) = MAX

\* What each place of a call implies for its permit, its child and its threads.
Good(c) ==
    /\ call[c].pc \in {"idle", "gate", "spawn", "join"} => child[c].is # "running"
    /\ call[c].pc \in {"idle", "gate", "dead"} => ~call[c].permit
    /\ call[c].pc \in {"spawn", "wait", "poll", "kill", "reap", "join"} =>
          call[c].permit \/ call[c].uncapped
    /\ call[c].pc \in {"idle", "gate", "spawn", "dead"} => thread[c].running = {}
    /\ call[c].pc \in {"gate", "spawn"} => child[c].wrote = 0
    /\ child[c].is = "ok" /\ call[c].pc # "idle" => child[c].wrote = Chunks
    /\ call[c].pc = "join" /\ call[c].status = "ok" => child[c].is = "ok"
    /\ call[c].pc \in {"gate", "spawn", "wait", "poll", "kill", "reap"} => call[c].status = "none"
    /\ c \in Encodes /\ call[c].pc = "idle" =>
          /\ call[c].result = "ok" => child[c].wrote = Chunks
          /\ call[c].result = "err" => child[c].wrote = 0

IInv == Typed /\ Conserved /\ \A c \in Calls : Good(c)

\* A step of c leaves the other calls alone.
Frame(c) ==
    \A d \in Calls \ {c} :
        call'[d] = call[d] /\ child'[d] = child[d] /\ thread'[d] = thread[d]

-----------------------------------------------------------------------------
(* The calls a step does not touch, and the permits *)

\* A step of c that leaves c good leaves every call good.
LEMMA GoodFrame ==
    ASSUME IInv, NEW c \in Calls, Frame(c), Good(c)' PROVE \A d \in Calls : Good(d)'
<1> SUFFICES ASSUME NEW d \in Calls, d # c PROVE Good(d)'
    OBVIOUS
<1>1. call'[d] = call[d] /\ child'[d] = child[d] /\ thread'[d] = thread[d]
    BY DEF Frame
<1>2. Good(d)
    BY DEF IInv
<1> QED BY <1>1, <1>2 DEF Good

\* The permits held are finitely many.
LEMMA HoldingFinite == PermitHolders \subseteq Calls /\ IsFiniteSet(PermitHolders) /\ Cardinality(PermitHolders) \in Nat
<1>1. PermitHolders \subseteq Calls
    BY DEF PermitHolders
<1>2. IsFiniteSet(PermitHolders)
    BY <1>1, CallsAssumption, FS_Subset
<1> QED BY <1>1, <1>2, FS_CardinalityType

\* A step that moves no permit conserves them.
LEMMA PermitsUntouched ==
    ASSUME IInv, NEW c \in Calls, Frame(c), call'[c].permit = call[c].permit,
           permits' = permits, leaked' = leaked
    PROVE  Conserved'
<1>1. PermitHolders' = PermitHolders
    BY DEF PermitHolders, Frame
<1> QED BY <1>1 DEF IInv, Conserved

\* Taking a permit from the gate conserves them.
LEMMA PermitTaken ==
    ASSUME IInv, NEW c \in Calls, Frame(c), ~call[c].permit, call'[c].permit,
           permits > 0, permits' = permits - 1, leaked' = leaked
    PROVE  Conserved' /\ permits' \in Nat
<1>1. PermitHolders' = PermitHolders \union {c} /\ c \notin PermitHolders
    BY DEF PermitHolders, Frame
<1>2. Cardinality(PermitHolders') = Cardinality(PermitHolders) + 1
    BY <1>1, HoldingFinite, FS_AddElement
<1> QED BY <1>2, HoldingFinite DEF IInv, Typed, Conserved

\* A call that loses its permit gives it back or leaks it.
LEMMA PermitDropped ==
    ASSUME IInv, NEW c \in Calls, Frame(c), ~call'[c].permit,
           permits' \in Nat, leaked' \in Nat,
           call[c].permit => permits' + leaked' = permits + leaked + 1,
           ~call[c].permit => permits' + leaked' = permits + leaked
    PROVE  Conserved'
<1> DEFINE n == Cardinality(PermitHolders)
           left == permits + leaked
           left2 == permits' + leaked'
<1>1. n \in Nat /\ left \in Nat /\ left + n = MAX
    BY HoldingFinite DEF IInv, Typed, Conserved
<1>2. CASE call[c].permit
    <2>1. PermitHolders' = PermitHolders \ {c} /\ c \in PermitHolders
        BY <1>2 DEF PermitHolders, Frame
    <2>2. Cardinality(PermitHolders') = n - 1
        BY <2>1, HoldingFinite, FS_RemoveElement
    <2>3. left2 = left + 1
        BY <1>2
    <2>4. left2 + (n - 1) = MAX
        <3> HIDE DEF n, left, left2
        <3> QED BY <1>1, <2>3
    <2> QED BY <2>2, <2>4 DEF Conserved
<1>3. CASE ~call[c].permit
    <2>1. PermitHolders' = PermitHolders
        BY <1>3 DEF PermitHolders, Frame
    <2>2. left2 = left
        BY <1>3
    <2>3. left2 + n = MAX
        <3> HIDE DEF n, left, left2
        <3> QED BY <1>1, <2>2
    <2> QED BY <2>1, <2>3 DEF Conserved
<1> QED BY <1>2, <1>3

-----------------------------------------------------------------------------
(* The initial states *)

LEMMA InitInv == Init => IInv
<1> SUFFICES ASSUME Init PROVE IInv
    OBVIOUS
<1>1. Typed
    BY SizesAssumption DEF Init, Typed, NewCall, NoChild, NoPipes, NoThreads, CallState, ChildState,
       PipeState, ThreadState
<1>2. PermitHolders = {}
    BY DEF Init, PermitHolders, NewCall
<1>3. Conserved
    BY <1>2, FS_EmptySet, SizesAssumption DEF Init, Conserved
<1>4. \A c \in Calls : Good(c)
    BY DEF Init, Good, NewCall, NoChild, NoThreads
<1> QED BY <1>1, <1>3, <1>4 DEF IInv

-----------------------------------------------------------------------------
(* One lemma for each action *)

\* A call begins.
LEMMA BeginInv == ASSUME IInv, NEW c \in Calls, Begin(c) PROVE IInv'
<1>1. call[c] \in CallState /\ child[c] \in ChildState /\ pipe[c] \in PipeState
      /\ thread[c] \in ThreadState /\ Good(c)
    BY DEF IInv, Typed
<1>2. Typed'
    <2>1. [NewCall EXCEPT !.pc = "gate"] \in CallState
        BY DEF NewCall, CallState
    <2>2. NoChild \in ChildState
        BY SizesAssumption DEF NoChild, ChildState
    <2> QED BY <2>1, <2>2 DEF IInv, Typed, Begin, gate
<1>3. Frame(c)
    BY DEF IInv, Typed, Frame, Begin, EndThread
<1>4. Good(c)'
    BY <1>1 DEF IInv, Typed, Good, Begin, At, Running, gate, EndThread, NewCall, NoChild, NoPipes,
       NoThreads, CallState, ChildState, ThreadState
<1>5. call'[c].permit = call[c].permit
    BY <1>1 DEF IInv, Typed, Good, Begin, At, NewCall, CallState
<1>6. Conserved'
    BY <1>3, <1>5, PermitsUntouched DEF Begin, gate
<1> QED BY <1>2, <1>3, <1>4, <1>6, GoodFrame DEF IInv

\* A call goes on without a permit.
LEMMA acquire_gives_upInv == ASSUME IInv, NEW c \in Calls, acquire_gives_up(c) PROVE IInv'
<1>1. call[c] \in CallState /\ child[c] \in ChildState /\ pipe[c] \in PipeState
      /\ thread[c] \in ThreadState /\ Good(c)
    BY DEF IInv, Typed
<1>2. Typed'
    BY <1>1 DEF IInv, Typed, acquire_gives_up, At, Running, gate, EndThread, NewCall, NoChild, NoPipes, NoThreads,
       CallState, ChildState, PipeState, ThreadState, Pipes
<1>3. Frame(c)
    BY DEF IInv, Typed, Frame, acquire_gives_up, EndThread
<1>4. Good(c)'
    BY <1>1 DEF IInv, Typed, Good, acquire_gives_up, At, Running, gate, EndThread, NewCall, NoChild, NoPipes,
       NoThreads, CallState, ChildState, ThreadState
<1>5. call'[c].permit = call[c].permit
    BY <1>1 DEF IInv, Typed, Good, acquire_gives_up, At, NewCall, CallState
<1>6. Conserved'
    BY <1>3, <1>5, PermitsUntouched DEF acquire_gives_up, gate
<1> QED BY <1>2, <1>3, <1>4, <1>6, GoodFrame DEF IInv

\* The child starts.
LEMMA SpawnInv == ASSUME IInv, NEW c \in Calls, Spawn(c) PROVE IInv'
<1>1. call[c] \in CallState /\ child[c] \in ChildState /\ pipe[c] \in PipeState
      /\ thread[c] \in ThreadState /\ Good(c)
    BY DEF IInv, Typed
<1>2. Typed'
    <2>1. [call[c] EXCEPT !.pc = "wait"] \in CallState
        BY <1>1 DEF CallState
    <2>2. [child[c] EXCEPT !.is = "running"] \in ChildState
        BY <1>1 DEF ChildState
    <2>3. \A fits \in BOOLEAN : [taken |-> fits, open |-> Pipes] \in PipeState
        BY DEF PipeState
    <2>4. [thread[c] EXCEPT !.running = {"writer", "reader"}] \in ThreadState
        BY <1>1 DEF ThreadState
    <2>5. pipe' \in [Calls -> PipeState]
        BY <2>3 DEF Spawn, IInv, Typed
    <2> QED BY <2>1, <2>2, <2>4, <2>5 DEF IInv, Typed, Spawn, gate
<1>3. Frame(c)
    BY DEF IInv, Typed, Frame, Spawn, EndThread
<1>4. Good(c)'
    BY <1>1 DEF IInv, Typed, Good, Spawn, At, Running, gate, EndThread, NewCall, NoChild, NoPipes,
       NoThreads, CallState, ChildState, ThreadState
<1>5. call'[c].permit = call[c].permit
    BY <1>1 DEF IInv, Typed, Good, Spawn, At, NewCall, CallState
<1>6. Conserved'
    BY <1>3, <1>5, PermitsUntouched DEF Spawn, gate
<1> QED BY <1>2, <1>3, <1>4, <1>6, GoodFrame DEF IInv

\* The reader has answered.
LEMMA GotInv == ASSUME IInv, NEW c \in Calls, Got(c) PROVE IInv'
<1>1. call[c] \in CallState /\ child[c] \in ChildState /\ pipe[c] \in PipeState
      /\ thread[c] \in ThreadState /\ Good(c)
    BY DEF IInv, Typed
<1>2. Typed'
    BY <1>1 DEF IInv, Typed, Got, At, Running, gate, EndThread, NewCall, NoChild, NoPipes, NoThreads,
       CallState, ChildState, PipeState, ThreadState, Pipes
<1>3. Frame(c)
    BY DEF IInv, Typed, Frame, Got, EndThread
<1>4. Good(c)'
    BY <1>1 DEF IInv, Typed, Good, Got, At, Running, gate, EndThread, NewCall, NoChild, NoPipes,
       NoThreads, CallState, ChildState, ThreadState
<1>5. call'[c].permit = call[c].permit
    BY <1>1 DEF IInv, Typed, Good, Got, At, NewCall, CallState
<1>6. Conserved'
    BY <1>3, <1>5, PermitsUntouched DEF Got, gate
<1> QED BY <1>2, <1>3, <1>4, <1>6, GoodFrame DEF IInv

\* The deadline passes.
LEMMA ExpiresInv == ASSUME IInv, NEW c \in Calls, Expires(c) PROVE IInv'
<1>1. call[c] \in CallState /\ child[c] \in ChildState /\ pipe[c] \in PipeState
      /\ thread[c] \in ThreadState /\ Good(c)
    BY DEF IInv, Typed
<1>2. Typed'
    BY <1>1 DEF IInv, Typed, Expires, At, Running, gate, EndThread, NewCall, NoChild, NoPipes, NoThreads,
       CallState, ChildState, PipeState, ThreadState, Pipes
<1>3. Frame(c)
    BY DEF IInv, Typed, Frame, Expires, EndThread
<1>4. Good(c)'
    BY <1>1 DEF IInv, Typed, Good, Expires, At, Running, gate, EndThread, NewCall, NoChild, NoPipes,
       NoThreads, CallState, ChildState, ThreadState
<1>5. call'[c].permit = call[c].permit
    BY <1>1 DEF IInv, Typed, Good, Expires, At, NewCall, CallState
<1>6. Conserved'
    BY <1>3, <1>5, PermitsUntouched DEF Expires, gate
<1> QED BY <1>2, <1>3, <1>4, <1>6, GoodFrame DEF IInv

\* try_wait sees the end of the child.
LEMMA PollExitedInv == ASSUME IInv, NEW c \in Calls, PollExited(c) PROVE IInv'
<1>1. call[c] \in CallState /\ child[c] \in ChildState /\ pipe[c] \in PipeState
      /\ thread[c] \in ThreadState /\ Good(c)
    BY DEF IInv, Typed
<1>2. Typed'
    BY <1>1 DEF IInv, Typed, PollExited, At, Running, gate, EndThread, NewCall, NoChild, NoPipes, NoThreads,
       CallState, ChildState, PipeState, ThreadState, Pipes
<1>3. Frame(c)
    BY DEF IInv, Typed, Frame, PollExited, EndThread
<1>4. Good(c)'
    BY <1>1 DEF IInv, Typed, Good, PollExited, At, Running, gate, EndThread, NewCall, NoChild, NoPipes,
       NoThreads, CallState, ChildState, ThreadState
<1>5. call'[c].permit = call[c].permit
    BY <1>1 DEF IInv, Typed, Good, PollExited, At, NewCall, CallState
<1>6. Conserved'
    BY <1>3, <1>5, PermitsUntouched DEF PollExited, gate
<1> QED BY <1>2, <1>3, <1>4, <1>6, GoodFrame DEF IInv

\* try_wait fails.
LEMMA PollFailsInv == ASSUME IInv, NEW c \in Calls, PollFails(c) PROVE IInv'
<1>1. call[c] \in CallState /\ child[c] \in ChildState /\ pipe[c] \in PipeState
      /\ thread[c] \in ThreadState /\ Good(c)
    BY DEF IInv, Typed
<1>2. Typed'
    BY <1>1 DEF IInv, Typed, PollFails, At, Running, gate, EndThread, NewCall, NoChild, NoPipes, NoThreads,
       CallState, ChildState, PipeState, ThreadState, Pipes
<1>3. Frame(c)
    BY DEF IInv, Typed, Frame, PollFails, EndThread
<1>4. Good(c)'
    BY <1>1 DEF IInv, Typed, Good, PollFails, At, Running, gate, EndThread, NewCall, NoChild, NoPipes,
       NoThreads, CallState, ChildState, ThreadState
<1>5. call'[c].permit = call[c].permit
    BY <1>1 DEF IInv, Typed, Good, PollFails, At, NewCall, CallState
<1>6. Conserved'
    BY <1>3, <1>5, PermitsUntouched DEF PollFails, gate
<1> QED BY <1>2, <1>3, <1>4, <1>6, GoodFrame DEF IInv

\* The child is killed.
LEMMA KillInv == ASSUME IInv, NEW c \in Calls, Kill(c) PROVE IInv'
<1>1. call[c] \in CallState /\ child[c] \in ChildState /\ pipe[c] \in PipeState
      /\ thread[c] \in ThreadState /\ Good(c)
    BY DEF IInv, Typed
<1>2. Typed'
    <2>1. [call[c] EXCEPT !.pc = IF c \in Decodes THEN "join" ELSE "reap"] \in CallState
        BY <1>1 DEF CallState
    <2>2. [child[c] EXCEPT !.is = "failed"] \in ChildState
        BY <1>1 DEF ChildState
    <2>3. [pipe[c] EXCEPT !.open = {}] \in PipeState
        BY <1>1 DEF PipeState
    <2>4. call' \in [Calls -> CallState]
        BY <2>1 DEF IInv, Typed, Kill
    <2>5. child' \in [Calls -> ChildState] /\ pipe' \in [Calls -> PipeState]
        BY <2>2, <2>3 DEF IInv, Typed, Kill
    <2> QED BY <2>4, <2>5 DEF IInv, Typed, Kill, gate
<1>3. Frame(c)
    BY DEF IInv, Typed, Frame, Kill, EndThread
<1>4. Good(c)'
    <2>1. /\ call'[c].pc \in {"join", "reap"} /\ (c \in Encodes => call'[c].pc = "reap")
          /\ call'[c].permit = call[c].permit /\ call'[c].uncapped = call[c].uncapped
          /\ call'[c].status = call[c].status /\ call[c].pc = "kill"
        BY <1>1, CallsAssumption DEF IInv, Typed, Kill, At, CallState
    <2>2. /\ child'[c].is # "running" /\ child'[c].wrote = child[c].wrote
          /\ child'[c].is = "ok" => child[c].is = "ok"
          /\ thread'[c] = thread[c]
        BY <1>1 DEF IInv, Typed, Kill, Running, ChildState
    <2>3. call'[c].pc = "join" => call'[c].status # "ok"
        BY <1>1, CallsAssumption DEF IInv, Typed, Kill, At, CallState, Good
    <2> QED BY <1>1, <2>1, <2>2, <2>3 DEF Good
<1>5. call'[c].permit = call[c].permit
    BY <1>1 DEF IInv, Typed, Good, Kill, At, NewCall, CallState
<1>6. Conserved'
    BY <1>3, <1>5, PermitsUntouched DEF Kill, gate
<1> QED BY <1>2, <1>3, <1>4, <1>6, GoodFrame DEF IInv

\* The child has ended.
LEMMA ReapInv == ASSUME IInv, NEW c \in Calls, Reap(c) PROVE IInv'
<1>1. call[c] \in CallState /\ child[c] \in ChildState /\ pipe[c] \in PipeState
      /\ thread[c] \in ThreadState /\ Good(c)
    BY DEF IInv, Typed
<1>2. Typed'
    BY <1>1 DEF IInv, Typed, Reap, At, Running, gate, EndThread, NewCall, NoChild, NoPipes, NoThreads,
       CallState, ChildState, PipeState, ThreadState, Pipes
<1>3. Frame(c)
    BY DEF IInv, Typed, Frame, Reap, EndThread
<1>4. Good(c)'
    BY <1>1 DEF IInv, Typed, Good, Reap, At, Running, gate, EndThread, NewCall, NoChild, NoPipes,
       NoThreads, CallState, ChildState, ThreadState
<1>5. call'[c].permit = call[c].permit
    BY <1>1 DEF IInv, Typed, Good, Reap, At, NewCall, CallState
<1>6. Conserved'
    BY <1>3, <1>5, PermitsUntouched DEF Reap, gate
<1> QED BY <1>2, <1>3, <1>4, <1>6, GoodFrame DEF IInv

\* The writer ends.
LEMMA WritesInv == ASSUME IInv, NEW c \in Calls, Writes(c) PROVE IInv'
<1>1. call[c] \in CallState /\ child[c] \in ChildState /\ pipe[c] \in PipeState
      /\ thread[c] \in ThreadState /\ Good(c)
    BY DEF IInv, Typed
<1>2. Typed'
    BY <1>1 DEF IInv, Typed, Writes, At, Running, gate, EndThread, NewCall, NoChild, NoPipes, NoThreads,
       CallState, ChildState, PipeState, ThreadState, Pipes
<1>3. Frame(c)
    BY DEF IInv, Typed, Frame, Writes, EndThread
<1>4. Good(c)'
    BY <1>1 DEF IInv, Typed, Good, Writes, At, Running, gate, EndThread, NewCall, NoChild, NoPipes,
       NoThreads, CallState, ChildState, ThreadState
<1>5. call'[c].permit = call[c].permit
    BY <1>1 DEF IInv, Typed, Good, Writes, At, NewCall, CallState
<1>6. Conserved'
    BY <1>3, <1>5, PermitsUntouched DEF Writes, gate
<1> QED BY <1>2, <1>3, <1>4, <1>6, GoodFrame DEF IInv

\* The reader ends.
LEMMA ReadsInv == ASSUME IInv, NEW c \in Calls, Reads(c) PROVE IInv'
<1>1. call[c] \in CallState /\ child[c] \in ChildState /\ pipe[c] \in PipeState
      /\ thread[c] \in ThreadState /\ Good(c)
    BY DEF IInv, Typed
<1>2. Typed'
    BY <1>1 DEF IInv, Typed, Reads, At, Running, gate, EndThread, NewCall, NoChild, NoPipes, NoThreads,
       CallState, ChildState, PipeState, ThreadState, Pipes
<1>3. Frame(c)
    BY DEF IInv, Typed, Frame, Reads, EndThread
<1>4. Good(c)'
    BY <1>1 DEF IInv, Typed, Good, Reads, At, Running, gate, EndThread, NewCall, NoChild, NoPipes,
       NoThreads, CallState, ChildState, ThreadState
<1>5. call'[c].permit = call[c].permit
    BY <1>1 DEF IInv, Typed, Good, Reads, At, NewCall, CallState
<1>6. Conserved'
    BY <1>3, <1>5, PermitsUntouched DEF Reads, gate
<1> QED BY <1>2, <1>3, <1>4, <1>6, GoodFrame DEF IInv

\* The child reads.
LEMMA ChildReadsInv == ASSUME IInv, NEW c \in Calls, ChildReads(c) PROVE IInv'
<1>1. call[c] \in CallState /\ child[c] \in ChildState /\ pipe[c] \in PipeState
      /\ thread[c] \in ThreadState /\ Good(c)
    BY DEF IInv, Typed
<1>2. Typed'
    BY <1>1 DEF IInv, Typed, ChildReads, At, Running, gate, EndThread, NewCall, NoChild, NoPipes, NoThreads,
       CallState, ChildState, PipeState, ThreadState, Pipes
<1>3. Frame(c)
    BY DEF IInv, Typed, Frame, ChildReads, EndThread
<1>4. Good(c)'
    BY <1>1 DEF IInv, Typed, Good, ChildReads, At, Running, gate, EndThread, NewCall, NoChild, NoPipes,
       NoThreads, CallState, ChildState, ThreadState
<1>5. call'[c].permit = call[c].permit
    BY <1>1 DEF IInv, Typed, Good, ChildReads, At, NewCall, CallState
<1>6. Conserved'
    BY <1>3, <1>5, PermitsUntouched DEF ChildReads, gate
<1> QED BY <1>2, <1>3, <1>4, <1>6, GoodFrame DEF IInv

\* The child writes.
LEMMA ChildWritesInv == ASSUME IInv, NEW c \in Calls, ChildWrites(c) PROVE IInv'
<1>1. call[c] \in CallState /\ child[c] \in ChildState /\ pipe[c] \in PipeState
      /\ thread[c] \in ThreadState /\ Good(c)
    BY DEF IInv, Typed
<1>2. Typed'
    <2>1. child[c].wrote + 1 \in 0..Chunks
        BY <1>1, SizesAssumption DEF ChildWrites, ChildState
    <2>2. [child[c] EXCEPT !.wrote = @ + 1] \in ChildState
        BY <1>1, <2>1 DEF ChildState
    <2> QED BY <2>2 DEF IInv, Typed, ChildWrites, gate
<1>3. Frame(c)
    BY DEF IInv, Typed, Frame, ChildWrites, EndThread
<1>4. Good(c)'
    BY <1>1 DEF IInv, Typed, Good, ChildWrites, At, Running, gate, EndThread, NewCall, NoChild, NoPipes,
       NoThreads, CallState, ChildState, ThreadState
<1>5. call'[c].permit = call[c].permit
    BY <1>1 DEF IInv, Typed, Good, ChildWrites, At, NewCall, CallState
<1>6. Conserved'
    BY <1>3, <1>5, PermitsUntouched DEF ChildWrites, gate
<1> QED BY <1>2, <1>3, <1>4, <1>6, GoodFrame DEF IInv

\* The child closes a pipe.
LEMMA ChildClosesInv == ASSUME IInv, NEW c \in Calls, ChildCloses(c) PROVE IInv'
<1>1. call[c] \in CallState /\ child[c] \in ChildState /\ pipe[c] \in PipeState
      /\ thread[c] \in ThreadState /\ Good(c)
    BY DEF IInv, Typed
<1>2. Typed'
    <2>1. \A p \in pipe[c].open : [pipe[c] EXCEPT !.open = @ \ {p}] \in PipeState
        BY <1>1 DEF PipeState
    <2> QED BY <2>1 DEF IInv, Typed, ChildCloses, gate
<1>3. Frame(c)
    BY DEF IInv, Typed, Frame, ChildCloses, EndThread
<1>4. Good(c)'
    BY <1>1 DEF IInv, Typed, Good, ChildCloses, At, Running, gate, EndThread, NewCall, NoChild, NoPipes,
       NoThreads, CallState, ChildState, ThreadState
<1>5. call'[c].permit = call[c].permit
    BY <1>1 DEF IInv, Typed, Good, ChildCloses, At, NewCall, CallState
<1>6. Conserved'
    BY <1>3, <1>5, PermitsUntouched DEF ChildCloses, gate
<1> QED BY <1>2, <1>3, <1>4, <1>6, GoodFrame DEF IInv

\* The child ends.
LEMMA ChildExitsInv == ASSUME IInv, NEW c \in Calls, ChildExits(c) PROVE IInv'
<1>1. call[c] \in CallState /\ child[c] \in ChildState /\ pipe[c] \in PipeState
      /\ thread[c] \in ThreadState /\ Good(c)
    BY DEF IInv, Typed
<1>2. Typed'
    <2>1. \A how \in {"ok", "failed"} : [child[c] EXCEPT !.is = how] \in ChildState
        BY <1>1 DEF ChildState
    <2>2. [pipe[c] EXCEPT !.open = {}] \in PipeState
        BY <1>1 DEF PipeState
    <2> QED BY <2>1, <2>2 DEF IInv, Typed, ChildExits, gate
<1>3. Frame(c)
    BY DEF IInv, Typed, Frame, ChildExits, EndThread
<1>4. Good(c)'
    BY <1>1 DEF IInv, Typed, Good, ChildExits, At, Running, gate, EndThread, NewCall, NoChild, NoPipes,
       NoThreads, CallState, ChildState, ThreadState
<1>5. call'[c].permit = call[c].permit
    BY <1>1 DEF IInv, Typed, Good, ChildExits, At, NewCall, CallState
<1>6. Conserved'
    BY <1>3, <1>5, PermitsUntouched DEF ChildExits, gate
<1> QED BY <1>2, <1>3, <1>4, <1>6, GoodFrame DEF IInv

\* A slot of the gate is taken.
LEMMA acquireInv == ASSUME IInv, NEW c \in Calls, acquire(c) PROVE IInv'
<1>1. call[c] \in CallState /\ Good(c) /\ permits \in Nat
    BY DEF IInv, Typed
<1>2. /\ call'[c].permit /\ call'[c].pc = "spawn" /\ call'[c].status = call[c].status
      /\ ~call[c].permit /\ call[c].pc = "gate"
    BY <1>1 DEF IInv, Typed, Good, acquire, At, CallState
<1>3. Frame(c)
    BY DEF IInv, Typed, Frame, acquire
<1>4. Conserved' /\ permits' \in Nat
    BY <1>2, <1>3, PermitTaken DEF acquire
<1>5. [call[c] EXCEPT !.permit = TRUE, !.pc = "spawn"] \in CallState
    BY <1>1 DEF CallState
<1>6. Typed'
    BY <1>4, <1>5 DEF IInv, Typed, acquire
<1>7. Good(c)'
    BY <1>1, <1>2 DEF Good, acquire
<1> QED BY <1>3, <1>4, <1>6, <1>7, GoodFrame DEF IInv

\* The call returns: what Return does to the permits and to the record of the call.
LEMMA ReturnKeeps ==
    ASSUME IInv, NEW c \in Calls, NEW r \in {"ok", "err"}, Return(c, r), Frame(c), leaked' = leaked
    PROVE  /\ Conserved' /\ permits' \in Nat /\ call' \in [Calls -> CallState]
           /\ call'[c] = [NewCall EXCEPT !.result = r]
<1>1. [NewCall EXCEPT !.result = r] \in CallState
    BY DEF NewCall, CallState
<1>2. call' \in [Calls -> CallState] /\ call'[c] = [NewCall EXCEPT !.result = r]
    BY <1>1 DEF IInv, Typed, Return
<1>3. /\ permits' \in Nat
      /\ call[c].permit => permits' + leaked' = permits + leaked + 1
      /\ ~call[c].permit => permits' + leaked' = permits + leaked
    <2>1. CASE call[c].permit
        BY <2>1 DEF IInv, Typed, Return
    <2>2. CASE ~call[c].permit
        BY <2>2 DEF IInv, Typed, Return
    <2> QED BY <2>1, <2>2
<1>4. ~call'[c].permit
    BY <1>2 DEF NewCall
<1>5. leaked' \in Nat
    BY DEF IInv, Typed
<1>6. Conserved'
    BY <1>3, <1>4, <1>5, PermitDropped
<1> QED BY <1>2, <1>3, <1>6

\* The child cannot be started: the call returns an error.
LEMMA SpawnFailsInv == ASSUME IInv, NEW c \in Calls, SpawnFails(c) PROVE IInv'
<1>1. call[c] \in CallState /\ Good(c) /\ call[c].pc = "spawn"
    BY DEF IInv, Typed, SpawnFails, At
<1>2. Frame(c)
    BY DEF IInv, Typed, Frame, SpawnFails, Return
<1>3. /\ Conserved' /\ permits' \in Nat /\ call' \in [Calls -> CallState]
      /\ call'[c] = [NewCall EXCEPT !.result = "err"]
    BY <1>2, ReturnKeeps DEF SpawnFails
<1>4. Typed'
    BY <1>3 DEF IInv, Typed, SpawnFails
<1>5. call'[c].pc = "idle" /\ ~call'[c].permit /\ call'[c].result = "err"
    BY <1>3 DEF NewCall
<1>6. Good(c)'
    BY <1>1, <1>5 DEF Good, SpawnFails
<1> QED BY <1>2, <1>3, <1>4, <1>6, GoodFrame DEF IInv

\* The call joins its threads and returns.
LEMMA JoinInv == ASSUME IInv, NEW c \in Calls, Join(c) PROVE IInv'
<1> DEFINE ok == IF c \in Decodes THEN DecodeWorked(c) ELSE EncodeWorked(c)
           r == IF ok THEN "ok" ELSE "err"
           w == IF ok THEN child[c].wrote ELSE 0
<1>1. /\ call[c] \in CallState /\ child[c] \in ChildState /\ Good(c) /\ call[c].pc = "join"
      /\ thread[c].running = {}
    BY DEF IInv, Typed, Join, At
<1>2. Frame(c)
    BY DEF IInv, Typed, Frame, Join, Return
<1>3. Return(c, r) /\ leaked' = leaked /\ r \in {"ok", "err"}
    BY DEF Join
<1>4. /\ Conserved' /\ permits' \in Nat /\ call' \in [Calls -> CallState]
      /\ call'[c] = [NewCall EXCEPT !.result = r]
    <2> HIDE DEF r, ok
    <2> QED BY <1>2, <1>3, ReturnKeeps
<1>5. child' = [child EXCEPT ![c] = [child[c] EXCEPT !.wrote = w]]
    BY DEF Join
<1>6. w \in 0..Chunks
    BY <1>1, SizesAssumption DEF ChildState
<1>7. [child[c] EXCEPT !.wrote = w] \in ChildState
    <2> HIDE DEF w
    <2> QED BY <1>1, <1>6 DEF ChildState
<1>8. child' \in [Calls -> ChildState] /\ child'[c].wrote = w /\ child'[c].is = child[c].is
    <2> HIDE DEF w
    <2> QED BY <1>1, <1>5, <1>7 DEF IInv, Typed, ChildState
<1>9. NoPipes \in PipeState /\ NoThreads \in ThreadState
    BY DEF NoPipes, NoThreads, PipeState, ThreadState
<1>10. /\ pipe' \in [Calls -> PipeState] /\ thread' \in [Calls -> ThreadState]
       /\ thread'[c] = NoThreads
    BY <1>9 DEF IInv, Typed, Join
<1>11. Typed'
    BY <1>4, <1>8, <1>10 DEF IInv, Typed, Join
<1>12. c \in Encodes /\ ok => child[c].wrote = Chunks
    BY <1>1, CallsAssumption DEF Good, EncodeWorked
<1>13. child[c].is = "ok" => child[c].wrote = Chunks
    BY <1>1 DEF Good
<1>14. /\ call'[c].pc = "idle" /\ ~call'[c].permit /\ call'[c].result = r
       /\ child'[c].is # "running" /\ thread'[c].running = {}
    <2> HIDE DEF r
    <2> QED BY <1>1, <1>4, <1>8, <1>10 DEF NewCall, NoThreads, Good
<1>15. /\ r = "ok" /\ c \in Encodes => child'[c].wrote = Chunks
       /\ r = "err" => child'[c].wrote = 0
    BY <1>8, <1>12, <1>13
<1>16. Good(c)'
    <2> HIDE DEF r, w, ok
    <2> QED BY <1>14, <1>15 DEF Good
<1> QED BY <1>2, <1>4, <1>11, <1>16, GoodFrame DEF IInv

\* The process of a call is killed.
LEMMA ProcessDiesInv == ASSUME IInv, NEW c \in Calls, ProcessDies(c) PROVE IInv'
<1>1. /\ call[c] \in CallState /\ Good(c) /\ permits \in Nat /\ leaked \in Nat
      /\ call[c].pc # "idle"
    BY DEF IInv, Typed, ProcessDies, At
<1>2. Frame(c)
    BY DEF IInv, Typed, Frame, ProcessDies
<1>3. [NewCall EXCEPT !.pc = "dead"] \in CallState
    BY DEF NewCall, CallState
<1>4. call' \in [Calls -> CallState] /\ call'[c] = [NewCall EXCEPT !.pc = "dead"]
    BY <1>3 DEF IInv, Typed, ProcessDies
<1>5. call'[c].pc = "dead" /\ ~call'[c].permit
    BY <1>4 DEF NewCall
<1>6. /\ leaked' \in Nat /\ permits' = permits
      /\ call[c].permit => permits' + leaked' = permits + leaked + 1
      /\ ~call[c].permit => permits' + leaked' = permits + leaked
    <2>1. CASE call[c].permit
        BY <1>1, <2>1 DEF ProcessDies
    <2>2. CASE ~call[c].permit
        BY <1>1, <2>2 DEF ProcessDies
    <2> QED BY <2>1, <2>2
<1>7. Conserved'
    BY <1>1, <1>2, <1>5, <1>6, PermitDropped
<1>8. NoPipes \in PipeState /\ NoThreads \in ThreadState
    BY DEF NoPipes, NoThreads, PipeState, ThreadState
<1>9. /\ pipe' \in [Calls -> PipeState] /\ thread' \in [Calls -> ThreadState]
      /\ thread'[c] = NoThreads /\ child' = child
    BY <1>8 DEF IInv, Typed, ProcessDies
<1>10. Typed'
    BY <1>4, <1>6, <1>9 DEF IInv, Typed
<1>11. Good(c)'
    BY <1>1, <1>5, <1>9 DEF Good, NoThreads
<1> QED BY <1>2, <1>7, <1>10, <1>11, GoodFrame DEF IInv

-----------------------------------------------------------------------------
(* The theorems *)

\* The inductive invariant holds in every behaviour.
THEOREM Invariant == Spec => []IInv
<1>1. Init => IInv
    BY InitInv
<1>2. IInv /\ [Next]_vars => IInv'
    <2> SUFFICES ASSUME IInv, [Next]_vars PROVE IInv'
        OBVIOUS
    <2>1. ASSUME NEW c \in Calls, CallStep(c) PROVE IInv'
        BY <2>1, acquireInv, acquire_gives_upInv, SpawnFailsInv, SpawnInv, GotInv, ExpiresInv,
           PollExitedInv, PollFailsInv, KillInv, ReapInv, JoinInv DEF CallStep
    <2>2. ASSUME NEW c \in Calls, ChildStep(c) PROVE IInv'
        BY <2>2, ChildReadsInv, ChildWritesInv, ChildClosesInv, ChildExitsInv DEF ChildStep
    <2>3. CASE UNCHANGED vars
        <3>1. Typed' /\ PermitHolders' = PermitHolders
            BY <2>3 DEF IInv, Typed, vars, PermitHolders
        <3>2. Conserved'
            BY <2>3, <3>1 DEF IInv, Conserved, vars
        <3>3. \A c \in Calls : Good(c)'
            BY <2>3 DEF IInv, Good, vars
        <3> QED BY <3>1, <3>2, <3>3 DEF IInv
    <2> QED BY <2>1, <2>2, <2>3, BeginInv, ProcessDiesInv, WritesInv, ReadsInv DEF Next
<1> QED BY <1>1, <1>2, PTL DEF Spec

\* Permits are conserved, whatever fails and whichever process is killed.
THEOREM PermitsConservedAlways == Spec => []PermitsConserved
<1>1. IInv => PermitsConserved
    BY DEF IInv, Conserved, PermitHolders, PermitsConserved
<1> QED BY <1>1, Invariant, PTL

\* The types, with the bounds of the two counters, which follow from conservation.
THEOREM MagickTypeCorrect == Spec => []TypeOK
<1>1. IInv => TypeOK
    <2> SUFFICES ASSUME IInv PROVE TypeOK
        OBVIOUS
    <2>1. permits \in 0..MAX /\ leaked \in 0..MAX
        BY HoldingFinite, SizesAssumption DEF IInv, Typed, Conserved
    <2> QED BY <2>1 DEF IInv, Typed, TypeOK
<1> QED BY <1>1, Invariant, PTL

\* The cap holds: a running child of a call that did not give up is one permit held.
THEOREM SessionCapAlways == Spec => []SessionCap
<1>1. IInv => SessionCap
    <2> SUFFICES ASSUME IInv PROVE SessionCap
        OBVIOUS
    <2> DEFINE capped == {c \in Calls : Running(c) /\ Alive(c) /\ ~call[c].uncapped}
    <2>1. ASSUME NEW c \in capped PROVE c \in PermitHolders
        <3>1. Good(c) /\ call[c] \in CallState /\ c \in Calls
            BY DEF IInv, Typed
        <3> QED BY <3>1 DEF Good, PermitHolders, Running, Alive, At, CallState
    <2>2. capped \in SUBSET PermitHolders
        BY <2>1
    <2>3. Cardinality(capped) \in Nat /\ Cardinality(capped) <= Cardinality(PermitHolders)
        <3> HIDE DEF capped
        <3> QED BY <2>2, HoldingFinite, FS_Subset, FS_CardinalityType
    <2>4. Cardinality(PermitHolders) <= MAX - leaked
        BY HoldingFinite, SizesAssumption DEF IInv, Typed, Conserved
    <2>5. Cardinality(capped) <= MAX - leaked
        <3> HIDE DEF capped
        <3> QED BY <2>3, <2>4, HoldingFinite, SizesAssumption DEF IInv, Typed
    <2> QED BY <2>5 DEF SessionCap
<1> QED BY <1>1, Invariant, PTL

\* A call that has returned left no child running and no thread behind.
THEOREM NothingLeftRunningAlways == Spec => []NothingLeftRunning
<1>1. IInv => NothingLeftRunning
    BY DEF IInv, Good, NothingLeftRunning, At, Running
<1> QED BY <1>1, Invariant, PTL

\* An encode reports what is in the file.
THEOREM EncodeReportsTrulyAlways == Spec => []EncodeReportsTruly
<1>1. IInv => EncodeReportsTruly
    BY DEF IInv, Good, EncodeReportsTruly, At, Calls
<1> QED BY <1>1, Invariant, PTL
=============================================================================
