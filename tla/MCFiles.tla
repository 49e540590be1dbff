------------------------------- MODULE MCFiles -------------------------------
(* What writes files, in one instance for TLC: the names the verbs take in one     *)
(* folder, the verbs that move and rename, the batch of the command line, and the  *)
(* lossless turn of a JPEG.  They share no state, so each behaviour runs one part, *)
(* chosen at the start, and the others stay at one initial state.                  *)
EXTENDS OutputSlots, FolderVerbs, Batch, LosslessTransform, TLC

VARIABLE part

Parts == {"slots", "folder", "batch", "turn"}

Symmetry == Permutations(Jobs)

-----------------------------------------------------------------------------
(* FolderVerbs: two files of one size, of which one already has the name that both *)
(* ask for; what another program saves has no size and no tags.                     *)
MCHome == <<"home">>
MCSelected == <<"p", "q">>
MCDir == [id \in {"p", "q", "theirs"} |-> IF id = "theirs" THEN <<>> ELSE <<"4x3">>]
MCName == [id \in {"p", "q", "theirs"} |-> IF id = "theirs" THEN "" ELSE "q"]

(* Batch: sources of one stem in two folders, at names an output would take, listed *)
(* twice, and with numbers in their stems.                                          *)
Input(at, stem, counters, same) == [dir |-> at, name |-> <<stem>> \o counters, same_ext |-> same]
MCFolded == [s \in {"x", "X", "y"} |-> IF s = "X" THEN "x" ELSE s]
MCFolders == {"a", "out"}
MCBatches ==
    [files : {
        <<Input("a", "x", <<>>, TRUE), Input("b", "x", <<>>, FALSE), Input("a", "x", <<1>>, FALSE)>>,
        <<Input("a", "x", <<>>, FALSE), Input("a", "x", <<>>, FALSE)>>,
        <<Input("a", "y", <<>>, FALSE), Input("b", "x", <<1>>, TRUE), Input("b", "x", <<>>, FALSE)>>},
     out_dir : {"", "out"}]

(* LosslessTransform: blocks of 2 x 2 coefficients, bytes of 4 bits; the standard   *)
(* tables lack one category the cameras' tables have.                               *)
MCZigzag == <<0, 1, 2, 3>>
MCWave == [u \in 0..1 |-> [x \in 0..1 |-> IF u + x = 2 THEN -1 ELSE 1]]

Table(class, id, bits, vals) == [class |-> class, id |-> id, bits |-> bits, vals |-> vals]
MCStdDc == <<Table("dc", 0, <<0, 2, 1>>, <<0, 1, 2>>), Table("dc", 1, <<0, 3>>, <<1, 0, 2>>)>>
MCStdAc == <<
    Table("ac", 0, <<0, 2, 2, 2>>, <<<<0, 1>>, <<0, 0>>, <<1, 1>>, <<1, 0>>, <<0, 2>>, <<1, 2>>>>),
    Table("ac", 1, <<0, 3, 1, 2>>, <<<<0, 0>>, <<1, 1>>, <<0, 1>>, <<0, 2>>, <<1, 2>>, <<1, 0>>>>)>>

\* The cameras' own tables: other codes, and one category the standard ones lack.
CamDc == <<Table("dc", 0, <<0, 3, 1>>, <<3, 1, 0, 2>>), Table("dc", 1, <<1, 1, 1, 1>>, <<2, 0, 1, 3>>)>>
CamAc == <<
    Table("ac", 0, <<0, 2, 2, 2>>, <<<<0, 0>>, <<0, 1>>, <<1, 1>>, <<1, 0>>, <<0, 2>>, <<1, 2>>>>),
    Table("ac", 1, <<1, 1, 1, 0, 3>>, <<<<1, 1>>, <<0, 0>>, <<0, 2>>, <<0, 1>>, <<1, 2>>, <<1, 0>>>>)>>

Comp(id, h, v, tq) == [id |-> id, h |-> h, v |-> v, tq |-> tq]
Gray == <<Comp(1, 1, 1, 0)>>
Full == <<Comp(1, 1, 1, 0), Comp(2, 1, 1, 1)>>
Halved(h, v) == <<Comp(1, h, v, 0), Comp(2, 1, 1, 1)>>

\* Blocks that differ by their places, with every kind of run and sign.
Bumps(c, g) ==
    LET n == (g[1] + 2 * g[2] + c) % 4
    IN  [p \in Cells |->
            CASE p = <<0, 0>> -> n
              [] p = <<0, 1>> -> IF n = 1 THEN 1 ELSE 0
              [] p = <<1, 0>> -> IF n = 2 THEN -1 ELSE 0
              [] p = <<1, 1>> -> IF n = 2 THEN 2 ELSE IF n = 3 THEN -3 ELSE 0]

\* A camera's scan: its MCUs in stretches of `every`, with `fill` bytes before each restart.
Stretches(units, every) ==
    IF every = 0 THEN <<units>>
    ELSE LET last == Max({units[n].mcu : n \in DOMAIN units}) \div every
         IN  [s \in 1..last + 1 |-> SelectSeq(units, LAMBDA u : u.mcu \div every = s - 1)]
Coded(units, blocks) ==
    LET block(n) == blocks[units[n].comp][<<units[n].x, units[n].y>>]
        pred(n) == IF Before(units, n) = 0 THEN 0 ELSE block(Before(units, n))[<<0, 0>>]
        t(n) == IF units[n].comp = 1 THEN 1 ELSE 2
    IN  pack(FlattenSeq([n \in DOMAIN units |->
            encode_block(block(n), pred(n), CamDc[t(n)], CamAc[t(n)])]))
Scan(units, blocks, every, fill) ==
    LET runs == Stretches(units, every)
    IN  FlattenSeq([s \in DOMAIN runs |->
            (IF s = 1 THEN <<>> ELSE Repeat(<<FF>>, fill) \o <<FF, RST>>) \o Coded(runs[s], blocks)])
        \o <<FF, EOI>>

\* The blocks a picture of this size needs, those cut by its edge included.
Ceil(a, b) == (a + b - 1) \div b
Photo(width, height, comps, frame, named, every, fill, orientation, Blocks(_, _)) ==
    LET mx == Ceil(width, EDGE * Hmax(comps))
        my == Ceil(height, EDGE * Vmax(comps))
        blocks == [c \in DOMAIN comps |->
            [g \in Grid(mx * comps[c].h, my * comps[c].v) |-> Blocks(c, g)]]
        dqt == <<[id |-> 0, values |-> <<1, 2, 3, 5>>], [id |-> 1, values |-> <<2, 1, 4, 1>>]>>
        sof == [is |-> frame, width |-> width, height |-> height, comps |-> comps]
        seen == SelectSeq(Units(comps, mx, my), LAMBDA u : u.comp \in named)
    IN  [is |-> "jpeg",
         segments |->
            (IF orientation = 1 THEN <<>> ELSE <<[is |-> "APPn", orientation |-> orientation]>>)
            \o <<[is |-> "DQT", wide |-> FALSE, tables |-> dqt],
                 [is |-> "DHT", tables |-> <<[CamDc[2] EXCEPT !.id = 0]>>], sof,
                 [is |-> "DHT", tables |-> CamDc \o CamAc],
                 [is |-> "DRI", interval |-> every]>>,
         sos |-> [c \in 1..Cardinality(named) |->
            [id |-> comps[c].id, dc |-> IF c = 1 THEN 0 ELSE 1, ac |-> IF c = 1 THEN 0 ELSE 1]],
         scan |-> Scan(seen, blocks, every, fill),
         picture |-> Picture([comps |-> comps, width |-> width, height |-> height, dqt |-> dqt], blocks)]

Plain(width, height, comps) == Photo(width, height, comps, "SOF0", DOMAIN comps, 0, 0, 1, Bumps)
Restarting(width, height, comps, every, fill) ==
    Photo(width, height, comps, "SOF0", DOMAIN comps, every, fill, 1, Bumps)
Steep(c, g) == [Bumps(c, g) EXCEPT ![<<0, 0>>] = 2 * @ - 3]

MCPlain ==
    {Plain(w, h, comps) : w \in {2, 4, 6}, h \in {2, 4}, comps \in {Gray, Full}}
    \union {Plain(w, h, Halved(2, 1)) : w \in {4, 8, 6}, h \in {2, 4}}
    \union {Plain(w, h, Halved(1, 2)) : w \in {2, 4}, h \in {4, 8, 6}}
    \union {Plain(w, h, Halved(2, 2)) : w \in {4, 8}, h \in {4, 8, 6}}
    \union {Plain(3, 4, Gray), Plain(4, 5, Full), Plain(8, 8, Full), Plain(10, 2, Gray)}
    \union {Restarting(8, 4, comps, every, fill) :
                comps \in {Gray, Full, Halved(2, 1)}, every \in {1, 2}, fill \in {0, 1}}
    \union {Photo(4, 2, Full, "SOF2", {1, 2}, 0, 0, 1, Bumps),
            Photo(4, 2, Full, "SOF0", {1}, 0, 0, 1, Bumps),
            Photo(4, 4, Gray, "SOF0", {1}, 0, 0, 1, Steep)}
    \union {Photo(4, 2, comps, "SOF0", DOMAIN comps, 0, 0, 3, Bumps) : comps \in {Gray, Halved(2, 1)}}


-----------------------------------------------------------------------------
(* The parts that do not run *)

slotsVars == vars
SlotsAtRest ==
    /\ dir \in [Names -> {NoFile}] /\ tmp \in [Names -> {NoFile}]
    /\ job = [j \in Jobs |-> Start("convert", CHOOSE s \in Stems : TRUE, FALSE)]
    /\ created = 0 /\ deletions = 0 /\ killed = FALSE
FolderAtRest == FolderInit /\ \A r \in Runs : task[r].verb = "tags_copy"
BatchAtRest ==
    BatchInit /\ batch = [op |-> "convert", out_dir |-> "", files |-> CHOOSE fs \in {b.files : b \in Batches} : TRUE]
Dot == [w |-> 1, h |-> 1, at |-> [p \in Grid(1, 1) |-> <<0>>]]
TurnAtRest == edited = Reencoded(Dot) /\ wanted = Dot

FilesInit ==
    /\ part \in Parts
    /\ IF part = "slots" THEN Init ELSE SlotsAtRest
    /\ IF part = "folder" THEN FolderInit ELSE FolderAtRest
    /\ IF part = "batch" THEN BatchInit ELSE BatchAtRest
    /\ IF part = "turn" THEN TurnInit ELSE TurnAtRest

SlotsRun == part = "slots" /\ Next /\ UNCHANGED <<part, folderVars, batchVars, turnVars>>
FolderRuns == part = "folder" /\ FolderNext /\ UNCHANGED <<part, slotsVars, batchVars, turnVars>>
BatchRuns == part = "batch" /\ BatchNext /\ UNCHANGED <<part, slotsVars, folderVars, turnVars>>
TurnRuns == part = "turn" /\ TurnNext /\ UNCHANGED <<part, slotsVars, folderVars, batchVars>>

FilesNext == SlotsRun \/ FolderRuns \/ BatchRuns \/ TurnRuns

filesVars == <<part, slotsVars, folderVars, batchVars, turnVars>>

FilesSpec == FilesInit /\ [][FilesNext]_filesVars
=============================================================================
