-------------------------------- MODULE Batch --------------------------------
(* The batch of the command line (cli.rs): one process turns many pictures into      *)
(* thumbnails or other formats. It chooses every output serially, then the workers    *)
(* of parallel.rs write them, while other programs add files of their own. A name is  *)
(* a stem and the counters behind it; the file system looks at it case-folded.        *)
EXTENDS Integers, FiniteSetsExt, SequencesExt

CONSTANTS
    Batches,    \* the inputs and the option --out: [files, out_dir]
    Folded,     \* the stems as the file system compares them
    Folders,    \* the folders there are
    MaxForeign  \* bound: files other programs create

\* A command names files; a file's name is a stem and the counters behind it.
ASSUME BatchAssumption ==
    /\ MaxForeign \in Nat
    /\ \A b \in Batches :
        /\ b.files \in Seq(ToSet(b.files))
        /\ \A f \in ToSet(b.files) : f.name = <<Head(f.name)>> \o Tail(f.name) /\ Tail(f.name) \in Seq(Nat)

BatchOps == {"thumbnail", "convert", "lepton"}

VARIABLES
    batch,   \* the command: its op, its files and where the outputs go
    outs,    \* the outputs chosen so far
    item,    \* how far each file is
    disk,    \* the files there are, by their folded paths
    parts,   \* the temporary siblings
    foreign, \* how many files other programs have created
    said     \* the report, when there is one

batchVars == <<batch, outs, item, disk, parts, foreign, said>>

NumFiles == Len(batch.files)

\* A path is a folder and a name, a name a stem and its counters: x, x (1), x (1) (2).
OutputName(dir, name, n) == <<dir, IF n = 0 THEN name ELSE Append(name, n)>>
OnDisk(path) == <<path[1], [k \in DOMAIN path[2] |-> IF k = 1 THEN Folded[path[2][1]] ELSE path[2][k]]>>
Exists(path) == OnDisk(path) \in DOMAIN disk
Put(f, path, content) == [p \in DOMAIN f \union {OnDisk(path)} |-> IF p = OnDisk(path) THEN content ELSE f[p]]
Without(f, path) == [p \in DOMAIN f \ {OnDisk(path)} |-> f[p]]

\* What a file holds: another program's bytes, or some or all of the output of a file.
Foreign == <<0, "whole">>
Half(k) == <<k, "half">>
Whole(k) == <<k, "whole">>

\* A source that has the output's extension is at a name an output might take.
SameExt(b) == {k \in DOMAIN b.files : b.files[k].same_ext}

BatchInit ==
    /\ \E b \in Batches, op \in BatchOps :
        batch = [op |-> op, files |-> b.files, out_dir |-> b.out_dir]
    /\ outs = <<>>
    /\ item = [k \in 1..NumFiles |-> "todo"]
    /\ disk = [p \in {OnDisk(<<batch.files[k].dir, batch.files[k].name>>) : k \in SameExt(batch)} |-> Foreign]
    /\ parts = <<>> /\ foreign = 0 /\ said = <<>>

-----------------------------------------------------------------------------
(* Choosing *)

\* mutant: the names given out are not remembered
TakenOnDisk(path) == Exists(path)

\* used.contains compares the spelling; exists asks the file system
Taken(path) == Exists(path) \/ path \in ToSet(outs)

\* the loop over the candidates, which nothing but other programs can disturb
Choose ==
    /\ Len(outs) < NumFiles
    /\ LET f == batch.files[Len(outs) + 1]
           dir == IF batch.out_dir = "" THEN f.dir ELSE batch.out_dir
           Free(n) == ~Taken(OutputName(dir, f.name, n))
           n == CHOOSE m \in 0..NumFiles + Len(outs) + foreign :
                    Free(m) /\ \A k \in 0..m - 1 : ~Free(k)
       IN  outs' = Append(outs, OutputName(dir, f.name, n))
    /\ UNCHANGED <<batch, item, disk, parts, foreign, said>>

-----------------------------------------------------------------------------
(* Writing: convert_to goes through write_atomic, thumbnail saves in place *)

Becomes(k, state) == item' = [item EXCEPT ![k] = state]
\* parallel::map starts when all are chosen
Begins(k) ==
    /\ item[k] = "todo" /\ Len(outs) = NumFiles
    /\ IF batch.op # "thumbnail"
       THEN parts' = Put(parts, outs[k], Half(k)) /\ UNCHANGED disk
       ELSE disk' = Put(disk, outs[k], Half(k)) /\ UNCHANGED parts
    /\ Becomes(k, "writing")
    /\ UNCHANGED <<batch, outs, foreign, said>>

\* the file cannot be read or decoded, or a lepton was asked of what is no JPEG
Refused(k) ==
    /\ item[k] = "todo" /\ Len(outs) = NumFiles
    /\ \/ Becomes(k, "failed")
       \/ batch.op = "lepton" /\ Becomes(k, "skipped")
    /\ UNCHANGED <<batch, outs, disk, parts, foreign, said>>

Written(k) ==
    /\ item[k] = "writing"
    /\ IF batch.op # "thumbnail"
       THEN parts' = Put(parts, outs[k], Whole(k)) /\ Becomes(k, "renaming") /\ UNCHANGED disk
       ELSE disk' = Put(disk, outs[k], Whole(k)) /\ Becomes(k, "done") /\ UNCHANGED parts
    /\ UNCHANGED <<batch, outs, foreign, said>>

Renamed(k) ==
    /\ item[k] = "renaming" /\ OnDisk(outs[k]) \in DOMAIN parts
    /\ disk' = Put(disk, outs[k], parts[OnDisk(outs[k])])
    /\ parts' = Without(parts, outs[k])
    /\ Becomes(k, "done")
    /\ UNCHANGED <<batch, outs, foreign, said>>

\* a thumbnail that fails half way stays behind as it is
Fails(k) ==
    /\ item[k] \in {"writing", "renaming"}
    /\ parts' = Without(parts, outs[k])
    /\ Becomes(k, "failed")
    /\ UNCHANGED <<batch, outs, disk, foreign, said>>

-----------------------------------------------------------------------------
Count(state) == Cardinality({k \in 1..NumFiles : item[k] = state})

\* an error if all failed or were skipped; else the numbers
Summary ==
    LET failed == NumFiles - Count("done") - Count("skipped")
    IN  [done |-> Count("done"), failed |-> failed,
         ok |-> ~(Count("done") = 0 /\ (failed > 0 \/ Count("skipped") = NumFiles))]

Says ==
    /\ said = <<>>
    /\ \A k \in 1..NumFiles : item[k] \in {"done", "skipped", "failed"}
    /\ said' = <<Summary>>
    /\ UNCHANGED <<batch, outs, item, disk, parts, foreign>>

\* Another program saves a file in one of the folders, never over what is there.
ForeignFile ==
    /\ foreign < MaxForeign
    /\ \E dir \in Folders, k \in 1..NumFiles, n \in 0..1 :
        LET path == OutputName(dir, batch.files[k].name, n)
        IN  ~Exists(path) /\ disk' = Put(disk, path, Foreign)
    /\ foreign' = foreign + 1
    /\ UNCHANGED <<batch, outs, item, parts, said>>

BatchNext ==
    \/ Choose \/ Says \/ ForeignFile
    \/ \E k \in 1..NumFiles : Begins(k) \/ Refused(k) \/ Written(k) \/ Renamed(k) \/ Fails(k)

BatchSpec == BatchInit /\ [][BatchNext]_batchVars

-----------------------------------------------------------------------------
(* Properties *)

BatchTypeOK ==
    /\ Len(outs) <= NumFiles
    /\ DOMAIN item = 1..NumFiles
    /\ foreign \in 0..MaxForeign

Made == {p \in DOMAIN disk : \E k \in 1..NumFiles : disk[p] = Whole(k)}

\* What the command says it made is there when it says so: as many whole files as it
\* counts, each of another input, and an error exactly when there is none (cli.rs:427,
\* "the parallel pass never races on a name"; cli.rs:469, total failure must fail).
SaysWhatItMade ==
    said # <<>> =>
        /\ said[1].done = Cardinality(Made)
        /\ said[1].ok <=> Made # {}
        /\ \A k \in 1..NumFiles : item[k] = "done" => disk[OnDisk(outs[k])] = Whole(k)
=============================================================================
