------------------------------- MODULE BlockMap -------------------------------
(* How jpegtran.rs turns a JPEG without decoding it to pixels: where each block of *)
(* coefficients goes, and what becomes of the coefficients inside it. A coefficient *)
(* is named by its row and column frequency, a block by its column and row.          *)
EXTENDS Integers

CONSTANTS
    EDGE, \* the edge of a block: 8
    Wave  \* the height at each place of the wave of each frequency

ASSUME EdgeAssumption == EDGE \in Nat \ {0}
\* A wave of an odd frequency changes its sign when it is mirrored, as a cosine does.
ASSUME WaveAssumption ==
    \A u, x \in 0..EDGE - 1 :
        /\ Wave[u][x] \in Int
        /\ Wave[u][EDGE - 1 - x] = IF u % 2 = 1 THEN -Wave[u][x] ELSE Wave[u][x]

Ops == {"Rot90", "Rot180", "Rot270", "FlipH", "FlipV"}
Transposes(op) == op \in {"Rot90", "Rot270"}

Cells == (0..EDGE - 1) \X (0..EDGE - 1)
Swap(p) == <<p[2], p[1]>>
Grid(gw, gh) == (0..gw - 1) \X (0..gh - 1)
NewGrid(op, gw, gh) == IF Transposes(op) THEN Grid(gh, gw) ELSE Grid(gw, gh)

\* Is the coefficient of this row and column frequency negated on its way?
Negates(op, p) ==
    CASE op \in {"Rot90", "FlipV"}  -> p[1] % 2 = 1
      [] op \in {"Rot270", "FlipH"} -> p[2] % 2 = 1
      [] op = "Rot180"              -> (p[1] + p[2]) % 2 = 1

xform_block(src, op) ==
    [q \in Cells |->
        LET p == IF Transposes(op) THEN Swap(q) ELSE q
        IN  IF Negates(op, p) THEN -src[p] ELSE src[p]]

dst_pos(op, gw, gh, p) ==
    CASE op = "Rot90"  -> <<gh - 1 - p[2], p[1]>>
      [] op = "Rot270" -> <<p[2], gw - 1 - p[1]>>
      [] op = "Rot180" -> <<gw - 1 - p[1], gh - 1 - p[2]>>
      [] op = "FlipH"  -> <<gw - 1 - p[1], p[2]>>
      [] op = "FlipV"  -> <<p[1], gh - 1 - p[2]>>

\* A component's blocks turned: the new grid starts as zeroes and takes each block.
turn_blocks(op, gw, gh, blocks) ==
    [q \in NewGrid(op, gw, gh) |->
        IF \E p \in Grid(gw, gh) : dst_pos(op, gw, gh, p) = q
        THEN xform_block(blocks[CHOOSE p \in Grid(gw, gh) : dst_pos(op, gw, gh, p) = q], op)
        ELSE [c \in Cells |-> 0]]
=============================================================================
