----------------------------- MODULE OutputSlots -----------------------------
(* How the file-producing verbs choose, write and publish a name in one folder:  *)
(* the reservation of verbs/encode/slots.rs, the in-process encoders, the verbs   *)
(* routed to the st2k helper (verbs/actions.rs), and the moves and copies of      *)
(* verbs/fileops.rs. Jobs run in parallel, each possibly in a process of its own; *)
(* a host or a helper may be killed at any step, and other programs create and    *)
(* delete files in the folder.                                                    *)
EXTENDS Integers, FiniteSets

CONSTANTS
    Jobs,      \* the files being converted, moved, ...
    Kinds,     \* the verbs in this instance, a subset of AllKinds
    Stems,     \* the values of <stem> (<suffix>).<ext> two jobs may share
    MaxN,      \* bound: the candidates tried are 0..MaxN
    MaxOthers, \* bound: files created by other programs
    Other, None

AllKinds == {"convert", "routed", "rotate", "move", "copy"}

ASSUME KindsAssumption == Kinds \subseteq AllKinds
ASSUME BoundsAssumption == MaxN \in Nat /\ MaxOthers \in Nat
ASSUME OtherAssumption == Other \notin Jobs /\ None \notin Jobs /\ None # Other

Names == Stems \X (0..MaxN)
Makers == Jobs \union {Other}

ASSUME NamesAssumption == None \notin Names

\* A file: who made it, and whether it is a placeholder, empty, half or whole.
File(by, is) == [by |-> by, is |-> is]
NoFile == File(None, "absent")
Files == {NoFile} \union [by : Makers, is : {"held", "empty", "half", "whole"}]

VARIABLES
    dir,       \* the file of each name
    tmp,       \* the file at <name>.st2ktmp
    job,       \* the state of each job, see JobState
    created,   \* how many files other programs have created
    deletions, \* how many files other programs have deleted
    killed     \* history: some process was killed

vars == <<dir, tmp, job, created, deletions, killed>>
outside == <<created, deletions>>

JobState == [
    kind  : AllKinds,
    stem  : Stems,
    pc    : {"predict", "reserve", "spawn", "write", "encode", "rename",
             "copying", "check", "remove", "done", "dead"},
    at    : {"host", "helper"},         \* the process that takes the next step
    alive : BOOLEAN,                    \* is the host alive?
    n     : 0..MaxN,                    \* the candidate of the loop in hand
    out   : Names \union {None},        \* the path being written
    slot  : Names \union {None},        \* the OutSlot of the current frame
    outer : Names \union {None},        \* the OutSlot a host keeps across the helper
    barred : BOOLEAN,                   \* does the folder refuse this job's files?
    ok    : BOOLEAN,                    \* did the write succeed?
    told  : Names \union {None},        \* the predicted, then the reported output
    wrote : Names \union {None}]        \* history: the name it published

Start(kind, stem, barred) ==
    [kind |-> kind, stem |-> stem, barred |-> barred,
     pc |-> IF kind = "rotate" THEN "predict" ELSE "reserve",
     at |-> "host", alive |-> TRUE, n |-> 0, out |-> None, slot |-> None, outer |-> None,
     ok |-> FALSE, told |-> None, wrote |-> None]

Init ==
    /\ dir \in [Names -> {NoFile}]
    /\ tmp \in [Names -> {NoFile}]
    /\ \E barred \in BOOLEAN :
        job \in [Jobs -> {Start(kind, stem, barred) : kind \in Kinds, stem \in Stems}]
    /\ created = 0 /\ deletions = 0 /\ killed = FALSE

-----------------------------------------------------------------------------
Candidate(j) == <<job[j].stem, job[j].n>>

\* the names a job may still write to or remove
Live(j) ==
    {c \in Names : \/ c = job[j].slot
                   \/ c = job[j].outer
                   \/ c = job[j].out /\ job[j].pc \in {"write", "encode", "rename", "copying"}}

Idle(j) == job[j].pc \in {"done", "dead"}

\* A folder that refuses the reservation refuses the write and the removal too.
CanTouch(j) == ~job[j].barred

Set(j, r) == job' = [job EXCEPT ![j] = r]

-----------------------------------------------------------------------------
(* Names *)

\* predict_unique_suffix: look, do not touch
Predict(j) ==
    /\ job[j].pc = "predict"
    /\ IF dir[Candidate(j)] = NoFile
       THEN Set(j, [job[j] EXCEPT !.told = Candidate(j), !.n = 0, !.pc = "spawn"])
       ELSE job[j].n < MaxN /\ Set(j, [job[j] EXCEPT !.n = @ + 1])
    /\ UNCHANGED <<dir, tmp, outside, killed>>

\* A slot taken by the host of a routed verb is kept across the helper's run.
WithSlot(j, c) ==
    IF job[j].kind = "routed" /\ job[j].outer = None
    THEN [job[j] EXCEPT !.outer = c, !.out = c, !.n = 0, !.pc = "spawn"]
    ELSE [job[j] EXCEPT !.slot = c, !.out = c, !.n = 0, !.pc = "write"]

\* reserve: create_new made the placeholder
ReserveCreates(j) ==
    /\ dir[Candidate(j)] = NoFile /\ CanTouch(j)
    /\ dir' = [dir EXCEPT ![Candidate(j)] = File(j, "held")]
    /\ Set(j, WithSlot(j, Candidate(j)))


\* reserve: AlreadyExists, try the next number
ReserveExists(j) ==
    /\ dir[Candidate(j)] # NoFile
    /\ job[j].n < MaxN
    /\ Set(j, [job[j] EXCEPT !.n = @ + 1])
    /\ UNCHANGED dir

\* reserve: any other error hands the name back without a reservation
ReserveRefused(j) ==
    /\ dir[Candidate(j)] = NoFile /\ job[j].barred
    /\ Set(j, WithSlot(j, Candidate(j)))
    /\ UNCHANGED dir

Reserve(j) ==
    /\ job[j].pc = "reserve"
    /\ ReserveCreates(j) \/ ReserveExists(j) \/ ReserveRefused(j)
    /\ UNCHANGED <<tmp, outside, killed>>

-----------------------------------------------------------------------------
(* The helper *)

\* run_st2k could not start the helper: the verb falls back to its in-process path,
\* which makes a reservation of its own while the routed one is still held
SpawnFails(j) ==
    /\ job[j].pc = "spawn"
    /\ Set(j, [job[j] EXCEPT !.told = None, !.pc = "reserve"])
    /\ UNCHANGED <<dir, tmp, outside, killed>>

\* st2k convert writes exactly to the reserved path; st2k rotate reserves for itself
Spawn(j) ==
    /\ job[j].pc = "spawn"
    /\ Set(j, [job[j] EXCEPT !.at = "helper",
                             !.pc = IF job[j].kind = "routed" THEN "write" ELSE "reserve"])
    /\ UNCHANGED <<dir, tmp, outside, killed>>

-----------------------------------------------------------------------------
(* write_atomic *)

Encodes(j) == job[j].kind \notin {"move", "copy"}

WriteTmp(j) ==
    /\ job[j].pc = "write" /\ Encodes(j)
    /\ CanTouch(j)
    /\ tmp' = [tmp EXCEPT ![job[j].out] = File(j, "half")]
    /\ Set(j, [job[j] EXCEPT !.pc = "encode"])
    /\ UNCHANGED <<dir, outside, killed>>

EncodeEnds(j) ==
    /\ job[j].pc = "encode"
    /\ tmp' = [tmp EXCEPT ![job[j].out] = File(j, "whole")]
    /\ Set(j, [job[j] EXCEPT !.pc = "rename"])
    /\ UNCHANGED <<dir, outside, killed>>

\* the temporary could not be opened, written or (after the retries) renamed
WriteFails(j) ==
    /\ job[j].pc \in {"write", "encode", "rename"} /\ Encodes(j)
    /\ tmp' = IF CanTouch(j) THEN [tmp EXCEPT ![job[j].out] = NoFile] ELSE tmp
    /\ Set(j, [job[j] EXCEPT !.ok = FALSE, !.pc = "check"])
    /\ UNCHANGED <<dir, outside, killed>>

Rename(j) ==
    /\ job[j].pc = "rename"
    /\ tmp[job[j].out] # NoFile
    /\ dir' = [dir EXCEPT ![job[j].out] = tmp[job[j].out]]
    /\ tmp' = [tmp EXCEPT ![job[j].out] = NoFile]
    /\ Set(j, [job[j] EXCEPT !.ok = TRUE, !.wrote = job[j].out, !.pc = "check"])
    /\ UNCHANGED <<outside, killed>>

-----------------------------------------------------------------------------
(* move_into, rename_one and copy_into: an existing file lands on the placeholder; *)
(* release forgets the slot, for the file may well be empty                        *)

\* mutant: the slot is dropped instead of released
LandedUnreleased(j) == [job[j] EXCEPT !.ok = TRUE, !.wrote = job[j].out, !.pc = "check"]

Landed(j) == [job[j] EXCEPT !.slot = None, !.ok = TRUE, !.wrote = job[j].out, !.pc = "check"]

MoveLands(j) ==
    /\ job[j].pc = "write" /\ job[j].kind = "move"
    /\ CanTouch(j)
    /\ \E is \in {"empty", "whole"} : dir' = [dir EXCEPT ![job[j].out] = File(j, is)]
    /\ Set(j, Landed(j))
    /\ UNCHANGED <<tmp, outside, killed>>

CopyStarts(j) ==
    /\ job[j].pc = "write" /\ job[j].kind = "copy"
    /\ CanTouch(j)
    /\ dir' = [dir EXCEPT ![job[j].out] = File(j, "half")]
    /\ Set(j, [job[j] EXCEPT !.pc = "copying"])
    /\ UNCHANGED <<tmp, outside, killed>>

CopyLands(j) ==
    /\ job[j].pc = "copying"
    /\ \E is \in {"empty", "whole"} : dir' = [dir EXCEPT ![job[j].out] = File(j, is)]
    /\ Set(j, Landed(j))
    /\ UNCHANGED <<tmp, outside, killed>>

LandingFails(j) ==
    /\ \/ job[j].pc = "write" /\ ~Encodes(j)
       \/ job[j].pc = "copying"
    /\ Set(j, [job[j] EXCEPT !.ok = FALSE, !.pc = "check"])
    /\ UNCHANGED <<dir, tmp, outside, killed>>

-----------------------------------------------------------------------------
(* The end of a frame: OutSlot::drop looks at the length, then removes *)

DropLooks(j) ==
    /\ job[j].pc = "check" /\ job[j].slot # None
    /\ Set(j, IF dir[job[j].slot].is \in {"held", "empty"}
              THEN [job[j] EXCEPT !.pc = "remove"]
              ELSE [job[j] EXCEPT !.slot = None])
    /\ UNCHANGED <<dir, tmp, outside, killed>>

\* mutant: a failed verb keeps its placeholder
DropKeeps(j) ==
    /\ job[j].pc = "remove"
    /\ Set(j, [job[j] EXCEPT !.slot = None, !.pc = "check"])
    /\ UNCHANGED <<dir, tmp, outside, killed>>

DropRemoves(j) ==
    /\ job[j].pc = "remove"
    /\ dir' = IF CanTouch(j) THEN [dir EXCEPT ![job[j].slot] = NoFile] ELSE dir
    /\ Set(j, [job[j] EXCEPT !.slot = None, !.pc = "check"])
    /\ UNCHANGED <<tmp, outside, killed>>

\* nothing of a dead process is left but what it did to the folder
Dead(j) ==
    [job[j] EXCEPT !.pc = "dead", !.at = "host", !.alive = FALSE, !.n = 0, !.ok = FALSE,
                   !.out = None, !.slot = None, !.outer = None, !.told = None]

\* st2k exits; its host, if it still lives, drops the slot it kept
HelperExits(j) ==
    /\ job[j].pc = "check" /\ job[j].slot = None /\ job[j].at = "helper"
    /\ Set(j, IF job[j].alive
              THEN [job[j] EXCEPT !.at = "host", !.slot = job[j].outer, !.outer = None]
              ELSE Dead(j))
    /\ UNCHANGED <<dir, tmp, outside, killed>>

\* mutant: the fallback reports the routed slot
ReportFirst(j) == IF ~job[j].ok THEN None ELSE <<job[j].stem, 0>>

\* convert_one, transform_one, ...: the path the verb reports. A routed rotate
\* reports its prediction, everything else the path it was given.
Report(j) ==
    IF ~job[j].ok THEN None ELSE IF job[j].told # None THEN job[j].told ELSE job[j].out

VerbReturns(j) ==
    /\ job[j].pc = "check" /\ job[j].slot = None /\ job[j].at = "host"
    /\ Set(j, IF job[j].outer # None
              THEN [job[j] EXCEPT !.slot = job[j].outer, !.outer = None]
              ELSE [job[j] EXCEPT !.told = Report(j), !.out = None, !.pc = "done"])
    /\ UNCHANGED <<dir, tmp, outside, killed>>

-----------------------------------------------------------------------------
(* Kills, and other programs *)

KillHost(j) ==
    /\ ~Idle(j) /\ job[j].alive
    /\ Set(j, IF job[j].at = "helper" THEN [job[j] EXCEPT !.alive = FALSE]
                                      ELSE Dead(j))
    /\ killed' = TRUE
    /\ UNCHANGED <<dir, tmp, outside>>

\* run_st2k sees the exit code of a killed helper as a failure of this file
KillHelper(j) ==
    /\ ~Idle(j) /\ job[j].at = "helper"
    /\ Set(j, IF job[j].alive
              THEN [job[j] EXCEPT !.at = "host", !.ok = FALSE, !.pc = "check",
                                  !.slot = job[j].outer, !.outer = None]
              ELSE Dead(j))
    /\ killed' = TRUE
    /\ UNCHANGED <<dir, tmp, outside>>

OtherCreates ==
    /\ created < MaxOthers
    /\ created' = created + 1
    /\ \E c \in Names, is \in {"empty", "whole"} :
        /\ dir[c] = NoFile
        /\ dir' = [dir EXCEPT ![c] = File(Other, is)]
    /\ UNCHANGED <<tmp, job, deletions, killed>>

OtherDeletes ==
    /\ deletions < MaxOthers
    /\ deletions' = deletions + 1
    /\ \E c \in Names :
        /\ dir[c] # NoFile
        /\ \A j \in Jobs : ~Idle(j) => c \notin Live(j)
        /\ dir' = [dir EXCEPT ![c] = NoFile]
    /\ UNCHANGED <<tmp, job, created, killed>>

-----------------------------------------------------------------------------
Step(j) ==
    \/ Predict(j) \/ Reserve(j)
    \/ SpawnFails(j) \/ Spawn(j)
    \/ WriteTmp(j) \/ EncodeEnds(j) \/ WriteFails(j) \/ Rename(j)
    \/ MoveLands(j) \/ CopyStarts(j) \/ CopyLands(j) \/ LandingFails(j)
    \/ DropLooks(j) \/ DropRemoves(j) \/ HelperExits(j) \/ VerbReturns(j)

Next ==
    \/ \E j \in Jobs : Step(j) \/ KillHost(j) \/ KillHelper(j)
    \/ OtherCreates
    \/ OtherDeletes

Spec == Init /\ [][Next]_vars

-----------------------------------------------------------------------------
(* Properties *)

\* The state of the folder and of every job is well formed.
TypeOK ==
    /\ dir \in [Names -> Files]
    /\ tmp \in [Names -> Files]
    /\ job \in [Jobs -> JobState]
    /\ created \in 0..MaxOthers
    /\ deletions \in 0..MaxOthers
    /\ killed \in BOOLEAN

Writing(j) == job[j].pc \in {"encode", "rename", "copying"}

\* Two jobs never write to the same output, and so never to the same temporary:
\* the reservation of slots.rs:16 ("can never pick the same name").
NoTwoWriters ==
    \A j, k \in Jobs : Writing(j) /\ Writing(k) /\ job[j].out = job[k].out => j = k

\* A half-written file never bears a final name, although jobs fail, are killed and
\* leave temporaries behind (slots.rs:7); only a copy writes in place.
PublishedWhole ==
    \A c \in Names : dir[c].is = "half" => dir[c].by \in Jobs /\ job[dir[c].by].kind = "copy"

ReportsTruly(j) == job[j].told = (IF job[j].ok THEN job[j].wrote ELSE None)

\* A verb that was given its output path reports, for Explorer to reveal, the file it
\* wrote, also when the helper could not start and the fallback took another name.
ReportsItsOutput ==
    \A j \in Jobs : job[j].pc = "done" /\ job[j].kind # "rotate" => ReportsTruly(j)

\* "parallel rotates over a selection don't collide on the prediction" (slots.rs:160):
\* a rotate reports the file it wrote.
PredictsItsOutput ==
    \A j \in Jobs : job[j].pc = "done" /\ job[j].kind = "rotate" => ReportsTruly(j)

\* When every verb has returned and nothing was killed, no placeholder and no
\* temporary is left, whichever steps failed (OutSlot::drop, write_atomic).
NoLitter ==
    (\A j \in Jobs : Idle(j)) /\ ~killed =>
        \A c \in Names : dir[c].is # "held" /\ tmp[c] = NoFile

\* A placeholder is not yet a file to anyone; nor is a copy until it has landed.
Shown(f) == IF f.is \in {"whole", "empty"} THEN f.by ELSE None

Promised == INSTANCE UniqueOutputs WITH
    files <- [c \in Names |-> Shown(dir[c])],
    published <- {j \in Jobs : job[j].wrote # None},
    Nobody <- None

\* The verbs keep the promise of UniqueOutputs: one new file per job, over nobody's.
Promise == Promised!Spec
=============================================================================
