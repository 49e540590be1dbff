-------------------------- MODULE OutputSlots_proofs --------------------------
(* The reservations of OutputSlots keep the promise of UniqueOutputs: with any   *)
(* number of jobs, stems and names, with kills of hosts and helpers at any step, *)
(* and with other programs creating and deleting files.                          *)
EXTENDS OutputSlots, TLAPS

Typed ==
    /\ dir \in [Names -> Files]
    /\ tmp \in [Names -> Files]
    /\ job \in [Jobs -> JobState]

Before == {"predict", "reserve", "spawn", "write", "encode", "rename", "copying"}

\* the control of one job
Shape(j) ==
    /\ job[j].pc = "predict" => job[j].kind = "rotate"
    /\ job[j].pc \in Before => job[j].wrote = None
    /\ job[j].pc \in {"done", "dead"} => job[j].slot = None /\ job[j].outer = None
    /\ job[j].pc \in {"encode", "rename"} => Encodes(j)
    /\ job[j].pc = "copying" => job[j].kind = "copy"
    /\ job[j].pc \in {"encode", "rename", "copying"} => ~job[j].barred
    /\ job[j].pc \in {"write", "encode", "rename", "copying"} => job[j].out \in Names
    /\ job[j].pc = "remove" => job[j].slot \in Names
    /\ job[j].pc = "spawn" /\ job[j].kind = "routed" =>
           job[j].outer \in Names /\ job[j].out = job[j].outer
    /\ job[j].outer \in Names => job[j].kind = "routed"
    /\ job[j].pc \in {"predict", "reserve", "spawn"} => job[j].slot = None

\* what it holds in the folder
Holds(j) ==
    ~job[j].barred =>
        /\ \A c \in Live(j) : dir[c].by = j /\ dir[c].is # "empty"
        /\ job[j].outer \in Names => job[j].slot # job[j].outer
        /\ job[j].pc = "spawn" /\ job[j].kind = "routed" => dir[job[j].outer].is = "held"
        /\ job[j].pc \in {"write", "encode", "rename"} => dir[job[j].out].is = "held"
        /\ job[j].pc = "remove" => dir[job[j].slot].is = "held"
        /\ job[j].pc = "copying" => dir[job[j].out].is = "half"
        /\ job[j].pc = "encode" => tmp[job[j].out] = File(j, "half")
        /\ job[j].pc = "rename" => tmp[job[j].out] = File(j, "whole")

Good(j) == Shape(j) /\ Holds(j)

IInv == \A j \in Jobs : Good(j)

\* a step of job j leaves alone what other jobs have made
OnlyOwn(j) ==
    \A c \in Names : dir[c].by \in Jobs \ {j} => dir'[c] = dir[c] /\ tmp'[c] = tmp[c]

OthersSame(j) == \A k \in Jobs \ {j} : job'[k] = job[k]

-----------------------------------------------------------------------------
LEMMA NameFacts ==
    /\ None \notin Names
    /\ \A c \in Names, f \in Files : Typed => dir[c] \in Files /\ tmp[c] \in Files
    /\ NoFile \in Files
    /\ \A b \in Makers : \A is \in {"held", "empty", "half", "whole"} :
           File(b, is) \in Files /\ File(b, is).by = b /\ File(b, is).is = is
    /\ NoFile.by = None /\ NoFile.is = "absent" /\ None \notin Jobs /\ None \notin Makers
  BY NamesAssumption, OtherAssumption DEF Files, File, NoFile, Makers, Typed

LEMMA KeepOthers ==
  ASSUME Typed, IInv, NEW j \in Jobs, OthersSame(j), OnlyOwn(j)
  PROVE  \A k \in Jobs \ {j} : Good(k)'
<1> SUFFICES ASSUME NEW k \in Jobs \ {j} PROVE Good(k)'
  OBVIOUS
<1>1. job'[k] = job[k] /\ Good(k)
  BY DEF OthersSame, IInv
<1>2. Live(k)' = Live(k)
  BY <1>1 DEF Live
<1>3. Shape(k)'
  BY <1>1 DEF Shape, Good, Encodes
<1>4. ASSUME ~job[k].barred PROVE \A c \in Live(k) : dir'[c] = dir[c] /\ tmp'[c] = tmp[c]
  BY <1>1, <1>4 DEF Good, Holds, OnlyOwn, Live
<1>5. /\ job[k].pc \in {"write", "encode", "rename", "copying"} => job[k].out \in Live(k)
      /\ job[k].pc = "remove" => job[k].slot \in Live(k)
      /\ job[k].pc = "spawn" /\ job[k].kind = "routed" => job[k].outer \in Live(k)
  BY <1>1 DEF Live, Good, Shape
<1>7. Holds(k)'
  BY <1>1, <1>2, <1>4, <1>5 DEF Holds, Good, Shape
<1> QED BY <1>3, <1>7 DEF Good

\* what a job is never changes
Kept(j) == job'[j].kind = job[j].kind /\ job'[j].barred = job[j].barred

\* a job publishes only where a file lands
Lands(j) == Rename(j) \/ MoveLands(j) \/ CopyLands(j)

Account(j) == job'[j].wrote = job[j].wrote \/ (Lands(j) /\ job'[j].wrote \in Names)

Outcome(j) ==
    /\ Typed' /\ Good(j)' /\ OthersSame(j) /\ OnlyOwn(j)
    /\ Kept(j) /\ Account(j)

\* the bookkeeping of one step: the job's new record
LEMMA Record ==
  ASSUME Typed, NEW j \in Jobs, NEW r, Set(j, r), r \in JobState
  PROVE  job' \in [Jobs -> JobState] /\ job'[j] = r /\ OthersSame(j)
BY DEF Typed, Set, OthersSame

LEMMA CandidateType ==
  ASSUME Typed, NEW j \in Jobs PROVE Candidate(j) \in Names
BY  DEF Typed, Candidate, Names, JobState

LEMMA Facts ==
  ASSUME Typed, IInv, NEW j \in Jobs
  PROVE  /\ Shape(j) /\ Holds(j)
         /\ job[j] \in JobState
         /\ Candidate(j) \in Names
         /\ 0 \in 0..MaxN /\ (job[j].n < MaxN => job[j].n + 1 \in 0..MaxN)
         /\ None \notin Names
<1>1. Shape(j) /\ Holds(j) /\ job[j] \in JobState
  BY DEF IInv, Good, Typed
<1>2. job[j].n \in 0..MaxN /\ MaxN \in Nat
  BY <1>1, BoundsAssumption DEF JobState
<1> QED BY <1>1, <1>2, CandidateType, NamesAssumption

LEMMA PredictStep ==
  ASSUME Typed, IInv, NEW j \in Jobs, Predict(j) PROVE Outcome(j)
<1> DEFINE found == [job[j] EXCEPT !.told = Candidate(j), !.n = 0, !.pc = "spawn"]
           next == [job[j] EXCEPT !.n = @ + 1]
<1>1. Shape(j) /\ Holds(j) /\ job[j] \in JobState /\ Candidate(j) \in Names
      /\ 0 \in 0..MaxN /\ (job[j].n < MaxN => job[j].n + 1 \in 0..MaxN)
  BY Facts
<1>2. Set(j, found) \/ (Set(j, next) /\ job[j].n < MaxN)
  BY DEF Predict
<1>3. found \in JobState /\ (job[j].n < MaxN => next \in JobState)
  BY <1>1 DEF JobState
<1>4. /\ job' \in [Jobs -> JobState] /\ OthersSame(j)
      /\ job'[j] = found \/ job'[j] = next
  BY <1>2, <1>3, Record
<1>5. /\ Kept(j) /\ job'[j].pc \in {"spawn", "predict"}
      /\ job'[j].slot = job[j].slot /\ job'[j].outer = job[j].outer /\ job'[j].out = job[j].out
      /\ job'[j].wrote = job[j].wrote
  BY <1>1, <1>4 DEF JobState, Kept, Predict
<1>6. Typed' /\ OnlyOwn(j)
  BY <1>4 DEF Predict, Typed, OnlyOwn
<1>7. Shape(j)'
  BY <1>1, <1>5 DEF Predict, Shape, Before, Encodes, Kept
<1>8. Live(j)' = Live(j)
  BY <1>5 DEF Predict, Live
<1>9. Holds(j)'
  BY <1>1, <1>5, <1>8 DEF Predict, Holds, Kept, Shape
<1> QED BY <1>4, <1>5, <1>6, <1>7, <1>9 DEF Outcome, Good, Account

LEMMA SpawnFailsStep ==
  ASSUME Typed, IInv, NEW j \in Jobs, SpawnFails(j) PROVE Outcome(j)
<1> DEFINE r == [job[j] EXCEPT !.told = None, !.pc = "reserve"]
<1>1. Shape(j) /\ Holds(j) /\ job[j] \in JobState /\ Candidate(j) \in Names
      /\ 0 \in 0..MaxN /\ (job[j].n < MaxN => job[j].n + 1 \in 0..MaxN) /\ None \notin Names
  BY Facts
<1>2. r \in JobState
  BY <1>1 DEF JobState, SpawnFails
<1>3. job' \in [Jobs -> JobState] /\ OthersSame(j) /\ job'[j] = r
  BY <1>2, Record DEF SpawnFails
<1>4. /\ Kept(j) /\ job'[j].pc = "reserve"
      /\ job'[j].slot = job[j].slot /\ job'[j].outer = job[j].outer /\ job'[j].out = job[j].out
      /\ job'[j].wrote = job[j].wrote
  BY <1>1, <1>3 DEF JobState, Kept, SpawnFails
<1>5. Typed'
  BY <1>3 DEF SpawnFails, Typed
<1>6. OnlyOwn(j)
  BY DEF SpawnFails, OnlyOwn
<1>7. Shape(j)'
  BY <1>1, <1>4 DEF SpawnFails, Shape, Before, Encodes, Kept
<1>8. Live(j)' = Live(j)
  BY <1>1, <1>4 DEF Live, Shape, SpawnFails
<1>9. Holds(j)'
  BY <1>1, <1>4, <1>8 DEF SpawnFails, Holds, Kept, Shape, Live, Encodes
<1> QED BY <1>3, <1>4, <1>5, <1>6, <1>7, <1>9 DEF Outcome, Good, Account

LEMMA SpawnStep ==
  ASSUME Typed, IInv, NEW j \in Jobs, Spawn(j) PROVE Outcome(j)
<1> DEFINE r == [job[j] EXCEPT !.at = "helper",
                             !.pc = IF job[j].kind = "routed" THEN "write" ELSE "reserve"]
<1>1. Shape(j) /\ Holds(j) /\ job[j] \in JobState /\ Candidate(j) \in Names
      /\ 0 \in 0..MaxN /\ (job[j].n < MaxN => job[j].n + 1 \in 0..MaxN) /\ None \notin Names
  BY Facts
<1>2. r \in JobState
  BY <1>1 DEF JobState, Spawn
<1>3. job' \in [Jobs -> JobState] /\ OthersSame(j) /\ job'[j] = r
  BY <1>2, Record DEF Spawn
<1>4. /\ Kept(j) /\ job'[j].pc = IF job[j].kind = "routed" THEN "write" ELSE "reserve"
      /\ job'[j].slot = job[j].slot /\ job'[j].outer = job[j].outer /\ job'[j].out = job[j].out
      /\ job'[j].wrote = job[j].wrote
  BY <1>1, <1>3 DEF JobState, Kept, Spawn
<1>5. Typed'
  BY <1>3 DEF Spawn, Typed
<1>6. OnlyOwn(j)
  BY DEF Spawn, OnlyOwn
<1>7. Shape(j)'
  BY <1>1, <1>4 DEF Spawn, Shape, Before, Encodes, Kept
<1>8. Live(j)' = Live(j)
  BY <1>1, <1>4 DEF Live, Shape, Spawn
<1>9. Holds(j)'
  BY <1>1, <1>4, <1>8 DEF Spawn, Holds, Kept, Shape, Live, Encodes
<1> QED BY <1>3, <1>4, <1>5, <1>6, <1>7, <1>9 DEF Outcome, Good, Account

LEMMA LandingFailsStep ==
  ASSUME Typed, IInv, NEW j \in Jobs, LandingFails(j) PROVE Outcome(j)
<1> DEFINE r == [job[j] EXCEPT !.ok = FALSE, !.pc = "check"]
<1>1. Shape(j) /\ Holds(j) /\ job[j] \in JobState /\ Candidate(j) \in Names
      /\ 0 \in 0..MaxN /\ (job[j].n < MaxN => job[j].n + 1 \in 0..MaxN) /\ None \notin Names
  BY Facts
<1>2. r \in JobState
  BY <1>1 DEF JobState, LandingFails
<1>3. job' \in [Jobs -> JobState] /\ OthersSame(j) /\ job'[j] = r
  BY <1>2, Record DEF LandingFails
<1>4. /\ Kept(j) /\ job'[j].pc = "check"
      /\ job'[j].slot = job[j].slot /\ job'[j].outer = job[j].outer /\ job'[j].out = job[j].out
      /\ job'[j].wrote = job[j].wrote
  BY <1>1, <1>3 DEF JobState, Kept, LandingFails
<1>5. Typed'
  BY <1>3 DEF LandingFails, Typed
<1>6. OnlyOwn(j)
  BY DEF LandingFails, OnlyOwn
<1>7. Shape(j)'
  BY <1>1, <1>4 DEF LandingFails, Shape, Before, Encodes, Kept
<1>8. Live(j)' \subseteq Live(j)
  BY <1>1, <1>4 DEF Live, LandingFails
<1>9. Holds(j)'
  BY <1>1, <1>4, <1>8 DEF LandingFails, Holds, Kept, Shape, Live, Encodes
<1> QED BY <1>3, <1>4, <1>5, <1>6, <1>7, <1>9 DEF Outcome, Good, Account

-----------------------------------------------------------------------------
(* Steps on files *)

\* writing at a name the job holds, or at a free one, touches nobody else's file
LEMMA Own ==
  ASSUME Typed, IInv, NEW j \in Jobs, NEW c \in Names,
         dir[c] = NoFile \/ (c \in Live(j) /\ ~job[j].barred),
         NEW f \in Files, NEW g \in Files,
         dir' = dir \/ dir' = [dir EXCEPT ![c] = f],
         tmp' = tmp \/ tmp' = [tmp EXCEPT ![c] = g]
  PROVE  /\ OnlyOwn(j)
         /\ dir' \in [Names -> Files] /\ tmp' \in [Names -> Files]
<1>1. Holds(j) BY DEF IInv, Good
<1>2. dir[c].by \notin Jobs \ {j} BY <1>1, NameFacts DEF Holds
<1> QED BY <1>2 DEF OnlyOwn, Typed

\* a job that writes holds what it writes to
LEMMA Writes ==
  ASSUME Typed, IInv, NEW j \in Jobs, CanTouch(j)
  PROVE  /\ ~job[j].barred
         /\ job[j].pc \in {"write", "encode", "rename", "copying"} =>
                job[j].out \in Names /\ job[j].out \in Live(j)
         /\ job[j].pc = "remove" => job[j].slot \in Names /\ job[j].slot \in Live(j)
         /\ \A is \in {"held", "empty", "half", "whole"} :
                File(j, is) \in Files /\ File(j, is).by = j /\ File(j, is).is = is
         /\ NoFile \in Files
<1>1. Shape(j) BY DEF IInv, Good
<1> QED BY <1>1, NameFacts DEF Shape, Live, CanTouch, Makers

LEMMA WriteTmpStep ==
  ASSUME Typed, IInv, NEW j \in Jobs, WriteTmp(j) PROVE Outcome(j)
<1> DEFINE r == [job[j] EXCEPT !.pc = "encode"]
<1>1. Shape(j) /\ Holds(j) /\ job[j] \in JobState /\ None \notin Names
  BY Facts
<1>2. r \in JobState
  BY <1>1 DEF JobState, Shape, WriteTmp
<1>3. job' \in [Jobs -> JobState] /\ OthersSame(j) /\ job'[j] = r
  BY <1>2, Record DEF WriteTmp, Landed
<1>4. /\ Kept(j) /\ job'[j].pc = "encode"
      /\ job'[j].slot = job[j].slot /\ job'[j].outer = job[j].outer /\ job'[j].out = job[j].out
      /\ job'[j].wrote = job[j].wrote
  BY <1>1, <1>3 DEF JobState, Kept, WriteTmp
<1>5. CanTouch(j)
  BY DEF WriteTmp
<1>6. /\ ~job[j].barred /\ job[j].out \in Names /\ job[j].out \in Live(j)
      /\ \A is \in {"held", "empty", "half", "whole"} :
             File(j, is) \in Files /\ File(j, is).by = j /\ File(j, is).is = is
      /\ NoFile \in Files
  BY <1>5, Writes DEF WriteTmp
<1>7. OnlyOwn(j) /\ Typed'
  BY <1>3, <1>6, Own DEF WriteTmp, Typed
<1>8. Shape(j)'
  BY <1>1, <1>4, <1>6 DEF WriteTmp, Shape, Before, Encodes, Kept
<1>9. Live(j)' \subseteq Live(j)
  BY <1>1, <1>4 DEF Live, Shape, WriteTmp
<1>10. Holds(j)'
  BY <1>1, <1>4, <1>6, <1>9 DEF WriteTmp, Holds, Kept, Shape, Live, Typed, Encodes
<1> QED BY <1>3, <1>4, <1>7, <1>8, <1>10 DEF Outcome, Good, Account

LEMMA EncodeEndsStep ==
  ASSUME Typed, IInv, NEW j \in Jobs, EncodeEnds(j) PROVE Outcome(j)
<1> DEFINE r == [job[j] EXCEPT !.pc = "rename"]
<1>1. Shape(j) /\ Holds(j) /\ job[j] \in JobState /\ None \notin Names
  BY Facts
<1>2. r \in JobState
  BY <1>1 DEF JobState, Shape, EncodeEnds
<1>3. job' \in [Jobs -> JobState] /\ OthersSame(j) /\ job'[j] = r
  BY <1>2, Record DEF EncodeEnds, Landed
<1>4. /\ Kept(j) /\ job'[j].pc = "rename"
      /\ job'[j].slot = job[j].slot /\ job'[j].outer = job[j].outer /\ job'[j].out = job[j].out
      /\ job'[j].wrote = job[j].wrote
  BY <1>1, <1>3 DEF JobState, Kept, EncodeEnds
<1>5. CanTouch(j)
  BY <1>1 DEF EncodeEnds, CanTouch, Shape
<1>6. /\ ~job[j].barred /\ job[j].out \in Names /\ job[j].out \in Live(j)
      /\ \A is \in {"held", "empty", "half", "whole"} :
             File(j, is) \in Files /\ File(j, is).by = j /\ File(j, is).is = is
      /\ NoFile \in Files
  BY <1>5, Writes DEF EncodeEnds
<1>7. OnlyOwn(j) /\ Typed'
  BY <1>3, <1>6, Own DEF EncodeEnds, Typed
<1>8. Shape(j)'
  BY <1>1, <1>4, <1>6 DEF EncodeEnds, Shape, Before, Encodes, Kept
<1>9. Live(j)' \subseteq Live(j)
  BY <1>1, <1>4 DEF Live, Shape, EncodeEnds
<1>10. Holds(j)'
  BY <1>1, <1>4, <1>6, <1>9 DEF EncodeEnds, Holds, Kept, Shape, Live, Typed, Encodes
<1> QED BY <1>3, <1>4, <1>7, <1>8, <1>10 DEF Outcome, Good, Account

LEMMA CopyStartsStep ==
  ASSUME Typed, IInv, NEW j \in Jobs, CopyStarts(j) PROVE Outcome(j)
<1> DEFINE r == [job[j] EXCEPT !.pc = "copying"]
<1>1. Shape(j) /\ Holds(j) /\ job[j] \in JobState /\ None \notin Names
  BY Facts
<1>2. r \in JobState
  BY <1>1 DEF JobState, Shape, CopyStarts
<1>3. job' \in [Jobs -> JobState] /\ OthersSame(j) /\ job'[j] = r
  BY <1>2, Record DEF CopyStarts, Landed
<1>4. /\ Kept(j) /\ job'[j].pc = "copying"
      /\ job'[j].slot = job[j].slot /\ job'[j].outer = job[j].outer /\ job'[j].out = job[j].out
      /\ job'[j].wrote = job[j].wrote
  BY <1>1, <1>3 DEF JobState, Kept, CopyStarts
<1>5. CanTouch(j)
  BY DEF CopyStarts
<1>6. /\ ~job[j].barred /\ job[j].out \in Names /\ job[j].out \in Live(j)
      /\ \A is \in {"held", "empty", "half", "whole"} :
             File(j, is) \in Files /\ File(j, is).by = j /\ File(j, is).is = is
      /\ NoFile \in Files
  BY <1>5, Writes DEF CopyStarts
<1>7. OnlyOwn(j) /\ Typed'
  BY <1>3, <1>6, Own DEF CopyStarts, Typed
<1>8. Shape(j)'
  BY <1>1, <1>4, <1>6 DEF CopyStarts, Shape, Before, Encodes, Kept
<1>9. Live(j)' \subseteq Live(j)
  BY <1>1, <1>4 DEF Live, Shape, CopyStarts
<1>10. Holds(j)'
  BY <1>1, <1>4, <1>6, <1>9 DEF CopyStarts, Holds, Kept, Shape, Live, Typed, Encodes
<1> QED BY <1>3, <1>4, <1>7, <1>8, <1>10 DEF Outcome, Good, Account

LEMMA RenameStep ==
  ASSUME Typed, IInv, NEW j \in Jobs, Rename(j) PROVE Outcome(j)
<1> DEFINE r == [job[j] EXCEPT !.ok = TRUE, !.wrote = job[j].out, !.pc = "check"]
<1>1. Shape(j) /\ Holds(j) /\ job[j] \in JobState /\ None \notin Names
  BY Facts
<1>2. r \in JobState
  BY <1>1 DEF JobState, Shape, Rename
<1>3. job' \in [Jobs -> JobState] /\ OthersSame(j) /\ job'[j] = r
  BY <1>2, Record DEF Rename, Landed
<1>4. /\ Kept(j) /\ job'[j].pc = "check"
      /\ job'[j].slot = job[j].slot /\ job'[j].outer = job[j].outer /\ job'[j].out = job[j].out
      /\ job'[j].wrote = job[j].out
  BY <1>1, <1>3 DEF JobState, Kept, Rename
<1>5. CanTouch(j)
  BY <1>1 DEF Rename, CanTouch, Shape
<1>6. /\ ~job[j].barred /\ job[j].out \in Names /\ job[j].out \in Live(j)
      /\ \A is \in {"held", "empty", "half", "whole"} :
             File(j, is) \in Files /\ File(j, is).by = j /\ File(j, is).is = is
      /\ NoFile \in Files
  BY <1>5, Writes DEF Rename
<1>7. OnlyOwn(j) /\ Typed'
  <2>1. tmp[job[j].out] = File(j, "whole") BY <1>1, <1>6 DEF Holds, Rename
  <2> QED BY <1>3, <1>6, <2>1, Own DEF Rename, Typed
<1>8. Shape(j)'
  BY <1>1, <1>4, <1>6 DEF Rename, Shape, Before, Encodes, Kept
<1>9. Live(j)' \subseteq Live(j)
  BY <1>1, <1>4 DEF Live, Shape, Rename
<1>10. Holds(j)'
  BY <1>1, <1>4, <1>6, <1>9 DEF Rename, Holds, Kept, Shape, Live, Typed, Encodes
<1> QED BY <1>3, <1>4, <1>6, <1>7, <1>8, <1>10 DEF Outcome, Good, Account, Lands

\* what lands may be empty, but is no longer held
LEMMA MoveLandsStep ==
  ASSUME Typed, IInv, NEW j \in Jobs, MoveLands(j) PROVE Outcome(j)
<1> DEFINE r == [job[j] EXCEPT !.slot = None, !.ok = TRUE, !.wrote = job[j].out, !.pc = "check"]
<1>1. Shape(j) /\ Holds(j) /\ job[j] \in JobState /\ None \notin Names
  BY Facts
<1>2. r \in JobState
  BY <1>1 DEF JobState, Shape, MoveLands
<1>3. job' \in [Jobs -> JobState] /\ OthersSame(j) /\ job'[j] = r
  BY <1>2, Record DEF MoveLands, Landed
<1>4. /\ Kept(j) /\ job'[j].pc = "check" /\ job'[j].slot = None /\ job'[j].outer = job[j].outer
      /\ job'[j].wrote = job[j].out
  BY <1>1, <1>3 DEF JobState, Kept, MoveLands
<1>5. CanTouch(j)
  BY DEF MoveLands
<1>6. /\ ~job[j].barred /\ job[j].out \in Names /\ job[j].out \in Live(j)
      /\ \A is \in {"held", "empty", "half", "whole"} :
             File(j, is) \in Files /\ File(j, is).by = j /\ File(j, is).is = is
      /\ NoFile \in Files
  BY <1>5, Writes DEF MoveLands
<1>7. OnlyOwn(j) /\ Typed'
  <2>1. PICK is \in {"empty", "whole"} : dir' = [dir EXCEPT ![job[j].out] = File(j, is)]
    BY DEF MoveLands
  <2> QED BY <1>3, <1>6, <2>1, Own DEF MoveLands, Typed
<1>8. Shape(j)'
  BY <1>1, <1>4, <1>6 DEF MoveLands, Shape, Before, Encodes, Kept
<1>9. Live(j)' = {}
  BY <1>1, <1>4 DEF Live, Shape, MoveLands
<1>10. Holds(j)'
  BY <1>1, <1>4, <1>9, NamesAssumption DEF MoveLands, Holds, Kept, Shape, Live
<1> QED BY <1>3, <1>4, <1>6, <1>7, <1>8, <1>10 DEF Outcome, Good, Account, Lands

LEMMA CopyLandsStep ==
  ASSUME Typed, IInv, NEW j \in Jobs, CopyLands(j) PROVE Outcome(j)
<1> DEFINE r == [job[j] EXCEPT !.slot = None, !.ok = TRUE, !.wrote = job[j].out, !.pc = "check"]
<1>1. Shape(j) /\ Holds(j) /\ job[j] \in JobState /\ None \notin Names
  BY Facts
<1>2. r \in JobState
  BY <1>1 DEF JobState, Shape, CopyLands
<1>3. job' \in [Jobs -> JobState] /\ OthersSame(j) /\ job'[j] = r
  BY <1>2, Record DEF CopyLands, Landed
<1>4. /\ Kept(j) /\ job'[j].pc = "check" /\ job'[j].slot = None /\ job'[j].outer = job[j].outer
      /\ job'[j].wrote = job[j].out
  BY <1>1, <1>3 DEF JobState, Kept, CopyLands
<1>5. CanTouch(j)
  BY <1>1 DEF CopyLands, CanTouch, Shape
<1>6. /\ ~job[j].barred /\ job[j].out \in Names /\ job[j].out \in Live(j)
      /\ \A is \in {"held", "empty", "half", "whole"} :
             File(j, is) \in Files /\ File(j, is).by = j /\ File(j, is).is = is
      /\ NoFile \in Files
  BY <1>5, Writes DEF CopyLands
<1>7. OnlyOwn(j) /\ Typed'
  <2>1. PICK is \in {"empty", "whole"} : dir' = [dir EXCEPT ![job[j].out] = File(j, is)]
    BY DEF CopyLands
  <2> QED BY <1>3, <1>6, <2>1, Own DEF CopyLands, Typed
<1>8. Shape(j)'
  BY <1>1, <1>4, <1>6 DEF CopyLands, Shape, Before, Encodes, Kept
<1>9. Live(j)' = {}
  BY <1>1, <1>4 DEF Live, Shape, CopyLands
<1>10. Holds(j)'
  BY <1>1, <1>4, <1>9, NamesAssumption DEF CopyLands, Holds, Kept, Shape, Live
<1> QED BY <1>3, <1>4, <1>6, <1>7, <1>8, <1>10 DEF Outcome, Good, Account, Lands

-----------------------------------------------------------------------------
(* Ends, kills and reservations *)

LEMMA DropLooksStep ==
  ASSUME Typed, IInv, NEW j \in Jobs, DropLooks(j) PROVE Outcome(j)
<1> DEFINE r == IF dir[job[j].slot].is \in {"held", "empty"}
              THEN [job[j] EXCEPT !.pc = "remove"]
              ELSE [job[j] EXCEPT !.slot = None]
<1>1. Shape(j) /\ Holds(j) /\ job[j] \in JobState /\ None \notin Names /\ 0 \in 0..MaxN
  BY Facts
<1>2. r \in JobState
  BY <1>1 DEF JobState, Shape, DropLooks
<1>3. job' \in [Jobs -> JobState] /\ OthersSame(j) /\ job'[j] = r
  BY <1>2, Record DEF DropLooks
<1>4. /\ Kept(j) /\ job'[j].outer = job[j].outer /\ job'[j].out = job[j].out
      /\ job'[j].wrote = job[j].wrote
      /\ \/ /\ dir[job[j].slot].is \in {"held", "empty"}
            /\ job'[j].pc = "remove" /\ job'[j].slot = job[j].slot
         \/ job'[j].pc = "check" /\ job'[j].slot = None
  BY <1>1, <1>3 DEF JobState, Kept, DropLooks
<1>5. Typed' /\ OnlyOwn(j)
  BY <1>3 DEF DropLooks, Typed, OnlyOwn
<1>6. Shape(j)'
  BY <1>1, <1>4 DEF DropLooks, Shape, Before, Encodes, Kept, JobState
<1>7. Live(j)' \subseteq Live(j)
  BY <1>1, <1>4 DEF Live, Shape, DropLooks
<1>8. Holds(j)'
  BY <1>1, <1>4, <1>7 DEF DropLooks, Holds, Kept, Shape, Live, Encodes, JobState
<1> QED BY <1>3, <1>4, <1>5, <1>6, <1>8 DEF Outcome, Good, Account

LEMMA HelperExitsStep ==
  ASSUME Typed, IInv, NEW j \in Jobs, HelperExits(j) PROVE Outcome(j)
<1> DEFINE r == IF job[j].alive
              THEN [job[j] EXCEPT !.at = "host", !.slot = job[j].outer, !.outer = None]
              ELSE Dead(j)
<1>1. Shape(j) /\ Holds(j) /\ job[j] \in JobState /\ None \notin Names /\ 0 \in 0..MaxN
  BY Facts
<1>2. r \in JobState
  <2>1. [job[j] EXCEPT !.at = "host", !.slot = job[j].outer, !.outer = None] \in JobState
    BY <1>1 DEF JobState
  <2>2. Dead(j) \in JobState
    BY <1>1 DEF JobState, Dead
  <2> QED BY <2>1, <2>2
<1>3. job' \in [Jobs -> JobState] /\ OthersSame(j) /\ job'[j] = r
  BY <1>2, Record DEF HelperExits
<1>4. /\ Kept(j) /\ job'[j].outer = None /\ job'[j].wrote = job[j].wrote
      /\ \/ job'[j].pc = "check" /\ job'[j].slot = job[j].outer
         \/ job'[j].pc = "dead" /\ job'[j].slot = None
  BY <1>1, <1>3 DEF JobState, Kept, HelperExits, Dead
<1>5. Typed' /\ OnlyOwn(j)
  BY <1>3 DEF HelperExits, Typed, OnlyOwn
<1>6. Shape(j)'
  BY <1>1, <1>4 DEF HelperExits, Shape, Before, Encodes, Kept, JobState
<1>7. Live(j)' \subseteq Live(j)
  BY <1>1, <1>4 DEF Live, Shape, HelperExits
<1>8. Holds(j)'
  BY <1>1, <1>4, <1>7 DEF HelperExits, Holds, Kept, Shape, Live, Encodes, JobState
<1> QED BY <1>3, <1>4, <1>5, <1>6, <1>8 DEF Outcome, Good, Account

LEMMA VerbReturnsStep ==
  ASSUME Typed, IInv, NEW j \in Jobs, VerbReturns(j) PROVE Outcome(j)
<1> DEFINE r == IF job[j].outer # None
              THEN [job[j] EXCEPT !.slot = job[j].outer, !.outer = None]
              ELSE [job[j] EXCEPT !.told = Report(j), !.out = None, !.pc = "done"]
<1>1. Shape(j) /\ Holds(j) /\ job[j] \in JobState /\ None \notin Names /\ 0 \in 0..MaxN
  BY Facts
<1>2. r \in JobState
  <2>1. [job[j] EXCEPT !.slot = job[j].outer, !.outer = None] \in JobState
    BY <1>1 DEF JobState
  <2>2. Report(j) \in Names \union {None}
    BY <1>1 DEF Report, JobState
  <2>3. [job[j] EXCEPT !.told = Report(j), !.out = None, !.pc = "done"] \in JobState
    BY <1>1, <2>2 DEF JobState
  <2> QED BY <2>1, <2>3
<1>3. job' \in [Jobs -> JobState] /\ OthersSame(j) /\ job'[j] = r
  BY <1>2, Record DEF VerbReturns
<1>4. /\ Kept(j) /\ job'[j].outer = None /\ job'[j].wrote = job[j].wrote
      /\ \/ job'[j].pc = "check" /\ job'[j].slot = job[j].outer
         \/ job'[j].pc = "done" /\ job'[j].slot = None
  BY <1>1, <1>3 DEF JobState, Kept, VerbReturns, Report
<1>5. Typed' /\ OnlyOwn(j)
  BY <1>3 DEF VerbReturns, Typed, OnlyOwn
<1>6. Shape(j)'
  BY <1>1, <1>4 DEF VerbReturns, Shape, Before, Encodes, Kept, JobState
<1>7. Live(j)' \subseteq Live(j)
  BY <1>1, <1>4 DEF Live, Shape, VerbReturns
<1>8. Holds(j)'
  BY <1>1, <1>4, <1>7 DEF VerbReturns, Holds, Kept, Shape, Live, Encodes, JobState
<1> QED BY <1>3, <1>4, <1>5, <1>6, <1>8 DEF Outcome, Good, Account

LEMMA KillHostStep ==
  ASSUME Typed, IInv, NEW j \in Jobs, KillHost(j) PROVE Outcome(j)
<1> DEFINE r == IF job[j].at = "helper" THEN [job[j] EXCEPT !.alive = FALSE] ELSE Dead(j)
<1>1. Shape(j) /\ Holds(j) /\ job[j] \in JobState /\ None \notin Names /\ 0 \in 0..MaxN
  BY Facts
<1>2. r \in JobState
  <2>1. [job[j] EXCEPT !.alive = FALSE] \in JobState
    BY <1>1 DEF JobState
  <2>2. Dead(j) \in JobState
    BY <1>1 DEF JobState, Dead
  <2> QED BY <2>1, <2>2
<1>3. job' \in [Jobs -> JobState] /\ OthersSame(j) /\ job'[j] = r
  BY <1>2, Record DEF KillHost
<1>4. /\ Kept(j) /\ job'[j].wrote = job[j].wrote
      /\ \/ /\ job'[j].pc = job[j].pc /\ job'[j].slot = job[j].slot
            /\ job'[j].outer = job[j].outer /\ job'[j].out = job[j].out
         \/ job'[j].pc = "dead" /\ job'[j].slot = None /\ job'[j].outer = None
  BY <1>1, <1>3 DEF JobState, Kept, KillHost, Dead
<1>5. Typed' /\ OnlyOwn(j)
  BY <1>3 DEF KillHost, Typed, OnlyOwn
<1>6. Shape(j)'
  BY <1>1, <1>4 DEF KillHost, Shape, Before, Encodes, Kept, JobState
<1>7. Live(j)' \subseteq Live(j)
  BY <1>1, <1>4 DEF Live, Shape, KillHost
<1>8. Holds(j)'
  BY <1>1, <1>4, <1>7 DEF KillHost, Holds, Kept, Shape, Live, Encodes, JobState
<1> QED BY <1>3, <1>4, <1>5, <1>6, <1>8 DEF Outcome, Good, Account

LEMMA KillHelperStep ==
  ASSUME Typed, IInv, NEW j \in Jobs, KillHelper(j) PROVE Outcome(j)
<1> DEFINE r == IF job[j].alive
              THEN [job[j] EXCEPT !.at = "host", !.ok = FALSE, !.pc = "check",
                                  !.slot = job[j].outer, !.outer = None]
              ELSE Dead(j)
<1>1. Shape(j) /\ Holds(j) /\ job[j] \in JobState /\ None \notin Names /\ 0 \in 0..MaxN
  BY Facts
<1>2. r \in JobState
  <2>1. [job[j] EXCEPT !.at = "host", !.ok = FALSE, !.pc = "check",
                   !.slot = job[j].outer, !.outer = None] \in JobState
    BY <1>1 DEF JobState
  <2>2. Dead(j) \in JobState
    BY <1>1 DEF JobState, Dead
  <2> QED BY <2>1, <2>2
<1>3. job' \in [Jobs -> JobState] /\ OthersSame(j) /\ job'[j] = r
  BY <1>2, Record DEF KillHelper
<1>4. /\ Kept(j) /\ job'[j].outer = None /\ job'[j].wrote = job[j].wrote
      /\ \/ job'[j].pc = "check" /\ job'[j].slot = job[j].outer
         \/ job'[j].pc = "dead" /\ job'[j].slot = None
  BY <1>1, <1>3 DEF JobState, Kept, KillHelper, Dead
<1>5. Typed' /\ OnlyOwn(j)
  BY <1>3 DEF KillHelper, Typed, OnlyOwn
<1>6. Shape(j)'
  BY <1>1, <1>4 DEF KillHelper, Shape, Before, Encodes, Kept, JobState
<1>7. Live(j)' \subseteq Live(j)
  BY <1>1, <1>4 DEF Live, Shape, KillHelper
<1>8. Holds(j)'
  BY <1>1, <1>4, <1>7 DEF KillHelper, Holds, Kept, Shape, Live, Encodes, JobState
<1> QED BY <1>3, <1>4, <1>5, <1>6, <1>8 DEF Outcome, Good, Account

LEMMA WriteFailsStep ==
  ASSUME Typed, IInv, NEW j \in Jobs, WriteFails(j) PROVE Outcome(j)
<1> DEFINE r == [job[j] EXCEPT !.ok = FALSE, !.pc = "check"]
<1>1. Shape(j) /\ Holds(j) /\ job[j] \in JobState /\ None \notin Names
  BY Facts
<1>2. r \in JobState
  BY <1>1 DEF JobState, Shape, WriteFails
<1>3. job' \in [Jobs -> JobState] /\ OthersSame(j) /\ job'[j] = r
  BY <1>2, Record DEF WriteFails
<1>4. /\ Kept(j) /\ job'[j].pc = "check"
      /\ job'[j].slot = job[j].slot /\ job'[j].outer = job[j].outer
      /\ job'[j].wrote = job[j].wrote
  BY <1>1, <1>3 DEF JobState, Kept, WriteFails
<1>5. OnlyOwn(j) /\ Typed'
  <2>1. CASE CanTouch(j)
    <3>1. /\ ~job[j].barred /\ job[j].out \in Names /\ job[j].out \in Live(j)
          /\ NoFile \in Files
      BY <2>1, Writes DEF WriteFails
    <3> QED BY <1>3, <2>1, <3>1, Own DEF WriteFails, Typed
  <2>2. CASE ~CanTouch(j)
    BY <1>3, <2>2 DEF WriteFails, Typed, OnlyOwn
  <2> QED BY <2>1, <2>2
<1>6. Shape(j)'
  BY <1>1, <1>4 DEF WriteFails, Shape, Before, Encodes, Kept
<1>7. Live(j)' \subseteq Live(j)
  BY <1>1, <1>4 DEF Live, Shape, WriteFails
<1>8. Holds(j)'
  BY <1>1, <1>4, <1>7 DEF WriteFails, Holds, Kept, Shape, Live
<1> QED BY <1>3, <1>4, <1>5, <1>6, <1>8 DEF Outcome, Good, Account

LEMMA DropRemovesStep ==
  ASSUME Typed, IInv, NEW j \in Jobs, DropRemoves(j) PROVE Outcome(j)
<1> DEFINE r == [job[j] EXCEPT !.slot = None, !.pc = "check"]
<1>1. Shape(j) /\ Holds(j) /\ job[j] \in JobState /\ None \notin Names
  BY Facts
<1>2. r \in JobState
  BY <1>1 DEF JobState, Shape, DropRemoves
<1>3. job' \in [Jobs -> JobState] /\ OthersSame(j) /\ job'[j] = r
  BY <1>2, Record DEF DropRemoves
<1>4. /\ Kept(j) /\ job'[j].pc = "check"
      /\ job'[j].slot = None /\ job'[j].outer = job[j].outer
      /\ job'[j].wrote = job[j].wrote
  BY <1>1, <1>3 DEF JobState, Kept, DropRemoves
<1>5. OnlyOwn(j) /\ Typed'
  <2>1. CASE CanTouch(j)
    <3>1. /\ ~job[j].barred /\ job[j].slot \in Names /\ job[j].slot \in Live(j)
          /\ NoFile \in Files
      BY <2>1, Writes DEF DropRemoves
    <3> QED BY <1>3, <2>1, <3>1, Own DEF DropRemoves, Typed
  <2>2. CASE ~CanTouch(j)
    BY <1>3, <2>2 DEF DropRemoves, Typed, OnlyOwn
  <2> QED BY <2>1, <2>2
<1>6. Shape(j)'
  BY <1>1, <1>4 DEF DropRemoves, Shape, Before, Encodes, Kept
<1>7. Live(j)' \subseteq Live(j)
  BY <1>1, <1>4 DEF Live, Shape, DropRemoves
<1>8. Holds(j)'
  <2> SUFFICES ASSUME ~job[j].barred PROVE Holds(j)'
    BY <1>4 DEF Holds, Kept
  <2>1. \A c \in Live(j)' : c = job[j].outer /\ c # job[j].slot
    BY <1>1, <1>4 DEF Live, Shape, Holds
  <2>2. \A c \in Live(j)' : c \in Names /\ dir'[c] = dir[c]
    BY <1>1, <2>1 DEF DropRemoves, Typed, Live
  <2> QED BY <1>1, <1>4, <1>7, <2>2 DEF Holds, Shape
<1> QED BY <1>3, <1>4, <1>5, <1>6, <1>8 DEF Outcome, Good, Account

-----------------------------------------------------------------------------
(* Reservations, and the other programs *)

\* the two forms of a reservation, and the next candidate
LEMMA Slotted ==
  ASSUME Typed, NEW j \in Jobs, NEW c \in Names, Set(j, WithSlot(j, c)), job[j].pc = "reserve"
  PROVE  /\ job' \in [Jobs -> JobState] /\ OthersSame(j) /\ Kept(j)
         /\ job'[j].out = c /\ job'[j].wrote = job[j].wrote
         /\ \/ /\ job[j].kind = "routed" /\ job[j].outer = None
               /\ job'[j].pc = "spawn" /\ job'[j].outer = c /\ job'[j].slot = job[j].slot
            \/ /\ job[j].kind # "routed" \/ job[j].outer # None
               /\ job'[j].pc = "write" /\ job'[j].slot = c /\ job'[j].outer = job[j].outer
<1> DEFINE kept == [job[j] EXCEPT !.outer = c, !.out = c, !.n = 0, !.pc = "spawn"]
           own == [job[j] EXCEPT !.slot = c, !.out = c, !.n = 0, !.pc = "write"]
<1>1. job[j] \in JobState /\ 0 \in 0..MaxN
  BY BoundsAssumption DEF Typed
<1>2. kept \in JobState /\ own \in JobState
  BY <1>1 DEF JobState
<1>3. WithSlot(j, c) = IF job[j].kind = "routed" /\ job[j].outer = None THEN kept ELSE own
  BY DEF WithSlot
<1>4. job' \in [Jobs -> JobState] /\ job'[j] = WithSlot(j, c) /\ OthersSame(j)
  BY <1>2, <1>3, Record
<1> QED BY <1>1, <1>3, <1>4 DEF JobState, Kept

LEMMA ReserveCreatesStep ==
  ASSUME Typed, IInv, NEW j \in Jobs, Reserve(j), ReserveCreates(j) PROVE Outcome(j)
<1> DEFINE c == Candidate(j)
<1>1. Shape(j) /\ Holds(j) /\ job[j] \in JobState /\ c \in Names /\ None \notin Names
  BY Facts
<1>2. dir[c] = NoFile /\ CanTouch(j) /\ dir' = [dir EXCEPT ![c] = File(j, "held")]
      /\ tmp' = tmp /\ job[j].pc = "reserve"
  BY DEF ReserveCreates, Reserve
<1>3. /\ ~job[j].barred
      /\ File(j, "held") \in Files /\ File(j, "held").by = j /\ File(j, "held").is = "held"
      /\ NoFile \in Files
  BY <1>2, Writes
<1>4. /\ job' \in [Jobs -> JobState] /\ OthersSame(j) /\ Kept(j)
      /\ job'[j].out = c /\ job'[j].wrote = job[j].wrote
      /\ \/ /\ job[j].kind = "routed" /\ job[j].outer = None
            /\ job'[j].pc = "spawn" /\ job'[j].outer = c /\ job'[j].slot = job[j].slot
         \/ /\ job[j].kind # "routed" \/ job[j].outer # None
            /\ job'[j].pc = "write" /\ job'[j].slot = c /\ job'[j].outer = job[j].outer
  BY <1>1, <1>2, Slotted DEF ReserveCreates
<1>5. OnlyOwn(j) /\ dir' \in [Names -> Files] /\ tmp' \in [Names -> Files]
  BY <1>1, <1>2, <1>3, Own
<1>6. Typed'
  BY <1>4, <1>5 DEF Typed
<1>7. Shape(j)'
  BY <1>1, <1>2, <1>4 DEF Shape, Before, Encodes, Kept
<1>8. dir'[c] = File(j, "held") /\ \A d \in Live(j) : d # c /\ dir'[d] = dir[d]
  BY <1>1, <1>2, <1>3, NameFacts DEF Typed, Holds, Live
<1>9. \A d \in Live(j)' : d = c \/ d \in Live(j)
  BY <1>1, <1>4 DEF Live
<1>10. \A d \in Live(j)' : dir'[d].by = j /\ dir'[d].is # "empty"
  BY <1>1, <1>3, <1>8, <1>9 DEF Holds
<1>11. job'[j].outer \in Names => job'[j].slot # job'[j].outer
  <2>1. job[j].outer \in Names => job[j].outer \in Live(j)
    BY DEF Live
  <2> QED BY <1>1, <1>2, <1>4, <1>8, <2>1 DEF Shape
<1>12. Holds(j)'
  BY <1>3, <1>4, <1>8, <1>10, <1>11 DEF Holds, Kept
<1> QED BY <1>4, <1>5, <1>6, <1>7, <1>12 DEF Outcome, Good, Account

LEMMA ReserveRefusedStep ==
  ASSUME Typed, IInv, NEW j \in Jobs, Reserve(j), ReserveRefused(j) PROVE Outcome(j)
<1> DEFINE c == Candidate(j)
<1>1. Shape(j) /\ job[j] \in JobState /\ c \in Names /\ None \notin Names
  BY Facts
<1>2. job[j].barred /\ dir' = dir /\ tmp' = tmp /\ job[j].pc = "reserve"
  BY DEF ReserveRefused, Reserve
<1>3. /\ job' \in [Jobs -> JobState] /\ OthersSame(j) /\ Kept(j)
      /\ job'[j].out = c /\ job'[j].wrote = job[j].wrote
      /\ \/ /\ job[j].kind = "routed" /\ job[j].outer = None
            /\ job'[j].pc = "spawn" /\ job'[j].outer = c /\ job'[j].slot = job[j].slot
         \/ /\ job[j].kind # "routed" \/ job[j].outer # None
            /\ job'[j].pc = "write" /\ job'[j].slot = c /\ job'[j].outer = job[j].outer
  BY <1>1, <1>2, Slotted DEF ReserveRefused
<1>4. Shape(j)'
  BY <1>1, <1>2, <1>3 DEF Shape, Before, Encodes, Kept
<1>5. Holds(j)'
  BY <1>2, <1>3 DEF Holds, Kept
<1> QED BY <1>2, <1>3, <1>4, <1>5 DEF Outcome, Good, Account, Typed, OnlyOwn

LEMMA ReserveExistsStep ==
  ASSUME Typed, IInv, NEW j \in Jobs, Reserve(j), ReserveExists(j) PROVE Outcome(j)
<1> DEFINE r == [job[j] EXCEPT !.n = @ + 1]
<1>1. Shape(j) /\ Holds(j) /\ job[j] \in JobState /\ job[j].n + 1 \in 0..MaxN
  BY Facts DEF ReserveExists
<1>2. r \in JobState
  BY <1>1 DEF JobState
<1>3. job' \in [Jobs -> JobState] /\ OthersSame(j) /\ job'[j] = r
  BY <1>2, Record DEF ReserveExists
<1>4. /\ Kept(j) /\ job'[j].pc = job[j].pc /\ job'[j].wrote = job[j].wrote
      /\ job'[j].slot = job[j].slot /\ job'[j].outer = job[j].outer /\ job'[j].out = job[j].out
  BY <1>1, <1>3 DEF JobState, Kept
<1>5. dir' = dir /\ tmp' = tmp /\ Live(j)' = Live(j)
  BY <1>4 DEF ReserveExists, Reserve, Live
<1>6. Shape(j)' /\ Holds(j)'
  BY <1>1, <1>4, <1>5 DEF Shape, Holds, Before, Encodes, Kept
<1> QED BY <1>3, <1>4, <1>5, <1>6 DEF Outcome, Good, Account, Typed, OnlyOwn

LEMMA AnyStep ==
  ASSUME Typed, IInv, NEW j \in Jobs, Step(j) \/ KillHost(j) \/ KillHelper(j)
  PROVE  Outcome(j)
<1>1. ASSUME Reserve(j) PROVE Outcome(j)
  BY <1>1, ReserveCreatesStep, ReserveRefusedStep, ReserveExistsStep DEF Reserve
<1> QED
  BY <1>1, PredictStep, SpawnFailsStep, SpawnStep, WriteTmpStep, EncodeEndsStep,
     WriteFailsStep, RenameStep, MoveLandsStep, CopyStartsStep, CopyLandsStep, LandingFailsStep,
     DropLooksStep, DropRemovesStep, HelperExitsStep, VerbReturnsStep, KillHostStep, KillHelperStep
     DEF Step

\* nobody holds the name of a file that comes or goes
LEMMA OthersStep ==
  ASSUME Typed, IInv, OtherCreates \/ OtherDeletes
  PROVE  Typed' /\ IInv'
<1>1. PICK c \in Names, f \in Files :
          /\ dir' = [dir EXCEPT ![c] = f]
          /\ \/ dir[c] = NoFile
             \/ \A j \in Jobs : ~Idle(j) => c \notin Live(j)
  <2>1. CASE OtherCreates
    <3>1. PICK c \in Names, is \in {"empty", "whole"} :
              dir[c] = NoFile /\ dir' = [dir EXCEPT ![c] = File(Other, is)]
      BY <2>1 DEF OtherCreates
    <3>2. File(Other, is) \in Files
      BY NameFacts DEF Makers
    <3> QED BY <3>1, <3>2
  <2>2. CASE OtherDeletes
    <3>1. NoFile \in Files
      BY NameFacts
    <3> QED BY <2>2, <3>1 DEF OtherDeletes
  <2> QED BY <2>1, <2>2
<1>2. job' = job /\ tmp' = tmp
  BY DEF OtherCreates, OtherDeletes
<1>3. Typed'
  BY <1>1, <1>2 DEF Typed
<1>4. ASSUME NEW j \in Jobs PROVE Good(j)'
  <2>1. Shape(j) /\ Holds(j) /\ job[j] \in JobState /\ None \notin Names
    BY Facts
  <2>2. Shape(j)' /\ Live(j)' = Live(j)
    BY <1>2, <2>1 DEF Shape, Encodes, Live
  <2>3. Idle(j) => Live(j) = {}
    BY <2>1 DEF Idle, Live, Shape
  <2>4. ASSUME ~job[j].barred PROVE \A d \in Live(j) : dir'[d] = dir[d]
    BY <1>1, <2>1, <2>3, <2>4, NameFacts DEF Holds, Typed, Live
  <2>5. /\ job[j].pc \in {"write", "encode", "rename", "copying"} => job[j].out \in Live(j)
        /\ job[j].pc = "remove" => job[j].slot \in Live(j)
        /\ job[j].pc = "spawn" /\ job[j].kind = "routed" => job[j].outer \in Live(j)
    BY <2>1 DEF Live, Shape
  <2>6. Holds(j)'
    BY <1>2, <2>1, <2>2, <2>4, <2>5 DEF Holds
  <2> QED BY <2>2, <2>6 DEF Good
<1> QED BY <1>3, <1>4 DEF IInv

-----------------------------------------------------------------------------
(* The invariant *)

LEMMA InitIInv == Init => Typed /\ IInv
<1> SUFFICES ASSUME Init PROVE Typed /\ IInv
  OBVIOUS
<1>1. Typed
  <2>1. \A kind \in Kinds, stem \in Stems, barred \in BOOLEAN : Start(kind, stem, barred) \in JobState
    BY KindsAssumption, BoundsAssumption DEF Start, JobState
  <2>2. job \in [Jobs -> JobState]
    BY <2>1 DEF Init
  <2> QED BY <2>2, NameFacts DEF Init, Typed
<1>2. ASSUME NEW j \in Jobs PROVE Good(j)
  <2>1. PICK kind \in Kinds, stem \in Stems, barred \in BOOLEAN : job[j] = Start(kind, stem, barred)
    BY DEF Init
  <2>2. /\ job[j].kind = kind
        /\ job[j].pc = (IF kind = "rotate" THEN "predict" ELSE "reserve")
        /\ job[j].slot = None /\ job[j].outer = None /\ job[j].out = None /\ job[j].wrote = None
    BY <2>1 DEF Start
  <2>3. Shape(j)
    BY <2>2, NamesAssumption DEF Shape
  <2>4. Live(j) = {}
    BY <2>2, NamesAssumption DEF Live
  <2> QED BY <2>2, <2>3, <2>4, NamesAssumption DEF Good, Holds
<1> QED BY <1>1, <1>2 DEF IInv

LEMMA NextIInv == Typed /\ IInv /\ [Next]_vars => Typed' /\ IInv'
<1> SUFFICES ASSUME Typed, IInv, [Next]_vars PROVE Typed' /\ IInv'
  OBVIOUS
<1>1. ASSUME NEW j \in Jobs, Step(j) \/ KillHost(j) \/ KillHelper(j) PROVE Typed' /\ IInv'
  <2>1. Outcome(j)
    BY <1>1, AnyStep
  <2>2. \A k \in Jobs \ {j} : Good(k)'
    BY <2>1, KeepOthers DEF Outcome
  <2> QED BY <2>1, <2>2 DEF Outcome, IInv
<1>2. CASE UNCHANGED vars
  BY <1>2 DEF vars, Typed, IInv, Good, Shape, Holds, Live, Encodes
<1> QED BY <1>1, <1>2, OthersStep DEF Next

THEOREM Invariant == Spec => [](Typed /\ IInv)
<1>1. Init => Typed /\ IInv
  BY InitIInv
<1>2. Typed /\ IInv /\ [Next]_vars => (Typed /\ IInv)'
  BY NextIInv
<1> QED BY <1>1, <1>2, PTL DEF Spec

\* Two jobs never write to the same output at the same time: a job that writes made
\* the file that holds its name (slots.rs, reserve).
THEOREM NeverTwoWriters == Spec => []NoTwoWriters
<1>1. Typed /\ IInv => NoTwoWriters
  <2> SUFFICES ASSUME Typed, IInv, NEW j \in Jobs, NEW k \in Jobs,
                      Writing(j), Writing(k), job[j].out = job[k].out
               PROVE  j = k
    BY DEF NoTwoWriters
  <2>1. /\ Shape(j) /\ Holds(j) /\ Shape(k) /\ Holds(k)
    BY DEF IInv, Good
  <2>2. dir[job[j].out].by = j /\ dir[job[k].out].by = k
    BY <2>1 DEF Writing, Shape, Holds, Live
  <2> QED BY <2>2
<1> QED BY <1>1, Invariant, PTL

-----------------------------------------------------------------------------
(* What changes in the folder *)

\* a step that does not land a file hides nothing and shows nothing
Hidden(j, c, f) ==
    \/ dir[c].is \in {"absent", "held"} /\ f \in {NoFile, File(j, "held")}
    \/ dir[c].is = "held" /\ f = File(j, "half") /\ job[j].kind = "copy"

LEMMA Covered ==
  ASSUME Typed, IInv, NEW j \in Jobs, Step(j) \/ KillHost(j) \/ KillHelper(j), ~Lands(j)
  PROVE  dir' = dir \/ \E c \in Names, f \in Files : dir' = [dir EXCEPT ![c] = f] /\ Hidden(j, c, f)
<1>1. Shape(j) /\ Holds(j) /\ Candidate(j) \in Names
  BY Facts
<1>2. ASSUME Reserve(j), ReserveCreates(j)
      PROVE  \E c \in Names, f \in Files : dir' = [dir EXCEPT ![c] = f] /\ Hidden(j, c, f)
  BY <1>1, <1>2, NameFacts DEF ReserveCreates, Hidden, Makers
<1>3. ASSUME CopyStarts(j)
      PROVE  \E c \in Names, f \in Files : dir' = [dir EXCEPT ![c] = f] /\ Hidden(j, c, f)
  <2>1. ~job[j].barred /\ job[j].out \in Names /\ File(j, "half") \in Files
    BY <1>3, Writes DEF CopyStarts
  <2> QED BY <1>1, <1>3, <2>1 DEF CopyStarts, Hidden, Holds
<1>4. ASSUME DropRemoves(j), CanTouch(j)
      PROVE  \E c \in Names, f \in Files : dir' = [dir EXCEPT ![c] = f] /\ Hidden(j, c, f)
  <2>1. ~job[j].barred /\ job[j].slot \in Names /\ NoFile \in Files
    BY <1>4, Writes DEF DropRemoves
  <2> QED BY <1>1, <1>4, <2>1 DEF DropRemoves, Hidden, Holds
<1> QED
  BY <1>2, <1>3, <1>4
  DEF Step, Lands, Predict, Reserve, ReserveExists, ReserveRefused, SpawnFails, Spawn,
      WriteTmp, EncodeEnds, WriteFails, LandingFails, DropLooks, DropRemoves, HelperExits,
      VerbReturns, KillHost, KillHelper

LEMMA Landing ==
  ASSUME Typed, IInv, NEW j \in Jobs, Lands(j)
  PROVE  /\ job[j].wrote = None /\ job'[j].wrote \in Names
         /\ \E is \in {"empty", "whole"} : dir' = [dir EXCEPT ![job[j].out] = File(j, is)]
         /\ job[j].out \in Names /\ dir[job[j].out].is \in {"held", "half"}
<1>1. Shape(j) /\ Holds(j) /\ job[j] \in JobState
  BY Facts
<1>2. CanTouch(j) /\ job[j].pc \in {"write", "rename", "copying"}
  BY <1>1 DEF Lands, Rename, MoveLands, CopyLands, CanTouch, Shape
<1>3. ~job[j].barred /\ job[j].out \in Names
  BY <1>2, Writes
<1>4. job'[j].wrote = job[j].out
  <2> DEFINE renamed == [job[j] EXCEPT !.ok = TRUE, !.wrote = job[j].out, !.pc = "check"]
  <2>1. renamed.wrote = job[j].out /\ Landed(j).wrote = job[j].out
    BY <1>1 DEF JobState, Landed
  <2>2. Set(j, renamed) \/ Set(j, Landed(j))
    BY DEF Lands, Rename, MoveLands, CopyLands
  <2> QED BY <2>1, <2>2 DEF Set, Typed
<1>5. dir[job[j].out].is \in {"held", "half"} /\ job[j].wrote = None
  BY <1>1, <1>2, <1>3 DEF Holds, Shape, Before
<1>6. \E is \in {"empty", "whole"} : dir' = [dir EXCEPT ![job[j].out] = File(j, is)]
  BY <1>1, <1>3 DEF Lands, Rename, MoveLands, CopyLands, Holds
<1> QED BY <1>3, <1>4, <1>5, <1>6

LEMMA WholeNext ==
  ASSUME Typed, IInv, PublishedWhole, [Next]_vars PROVE PublishedWhole'
<1>1. ASSUME NEW j \in Jobs, Step(j) \/ KillHost(j) \/ KillHelper(j) PROVE PublishedWhole'
  <2>1. Kept(j) /\ OthersSame(j)
    BY <1>1, AnyStep DEF Outcome
  <2>2. \A k \in Jobs : job'[k].kind = job[k].kind
    BY <2>1 DEF Kept, OthersSame
  <2>3. CASE Lands(j)
    <3>1. PICK is \in {"empty", "whole"} : dir' = [dir EXCEPT ![job[j].out] = File(j, is)]
      BY <2>3, Landing
    <3>2. \A c \in Names : dir'[c] = dir[c] \/ dir'[c] = File(j, is)
      BY <3>1 DEF Typed
    <3> QED BY <2>2, <3>2, NameFacts DEF PublishedWhole, Makers
  <2>4. CASE ~Lands(j)
    <3>1. \A c \in Names : dir'[c] = dir[c] \/ Hidden(j, c, dir'[c])
      BY <1>1, <2>4, Covered DEF Typed
    <3>2. \A c \in Names : Hidden(j, c, dir'[c]) /\ dir'[c].is = "half" =>
              dir'[c].by = j /\ job[j].kind = "copy"
      BY NameFacts DEF Hidden, Makers
    <3> QED BY <2>2, <3>1, <3>2 DEF PublishedWhole
  <2> QED BY <2>3, <2>4
<1>2. CASE OtherCreates
  <2>1. PICK c \in Names, is \in {"empty", "whole"} : dir' = [dir EXCEPT ![c] = File(Other, is)]
    BY <1>2 DEF OtherCreates
  <2>2. \A d \in Names : dir'[d] = dir[d] \/ dir'[d] = File(Other, is)
    BY <2>1 DEF Typed
  <2> QED BY <1>2, <2>2, NameFacts DEF PublishedWhole, OtherCreates, Makers
<1>3. CASE OtherDeletes
  <2>1. \A d \in Names : dir'[d] = dir[d] \/ dir'[d] = NoFile
    BY <1>3 DEF OtherDeletes, Typed
  <2> QED BY <1>3, <2>1, NameFacts DEF PublishedWhole, OtherDeletes
<1>4. CASE UNCHANGED vars
  BY <1>4 DEF vars, PublishedWhole
<1> QED BY <1>1, <1>2, <1>3, <1>4 DEF Next

\* A file under a final name is whole, or a copy still being made, at every moment:
\* the write goes to <name>.st2ktmp and only a finished one is renamed (write_atomic).
THEOREM AlwaysWhole == Spec => []PublishedWhole
<1>1. Init => PublishedWhole
  BY NameFacts DEF Init, PublishedWhole
<1>2. Typed /\ IInv /\ PublishedWhole /\ [Next]_vars => PublishedWhole'
  BY WholeNext
<1> QED BY <1>1, <1>2, Invariant, PTL DEF Spec

-----------------------------------------------------------------------------
(* Refinement *)

LEMMA InitRefines == Init => Promised!Init
<1> SUFFICES ASSUME Init PROVE Promised!Init
  OBVIOUS
<1>1. \A c \in Names : Shown(dir[c]) = None
  BY NameFacts DEF Init, Shown
<1>2. \A j \in Jobs : job[j].wrote = None
  BY DEF Init, Start
<1> QED BY <1>1, <1>2 DEF Promised!Init, Init

LEMMA StepRefines ==
  ASSUME Typed, IInv, [Next]_vars
  PROVE  Promised!Next \/ UNCHANGED <<[c \in Names |-> Shown(dir[c])],
                                      {j \in Jobs : job[j].wrote # None}, deletions>>
<1> DEFINE files == [c \in Names |-> Shown(dir[c])]
           published == {j \in Jobs : job[j].wrote # None}
<1>1. ASSUME NEW j \in Jobs, Step(j) \/ KillHost(j) \/ KillHelper(j)
      PROVE  Promised!Publish(j) \/ UNCHANGED <<files, published, deletions>>
  <2>1. deletions' = deletions
    BY <1>1 DEF Step, Predict, Reserve, SpawnFails, Spawn, WriteTmp, EncodeEnds, WriteFails,
          Rename, MoveLands, CopyStarts, CopyLands, LandingFails, DropLooks, DropRemoves,
          HelperExits, VerbReturns, KillHost, KillHelper, outside
  <2>2. OthersSame(j) /\ Account(j)
    BY <1>1, AnyStep DEF Outcome
  <2>3. ASSUME Lands(j) PROVE Promised!Publish(j)
    <3>1. /\ job[j].wrote = None /\ job'[j].wrote \in Names
          /\ job[j].out \in Names /\ dir[job[j].out].is \in {"held", "half"}
      BY <2>3, Landing
    <3>2. PICK is \in {"empty", "whole"} : dir' = [dir EXCEPT ![job[j].out] = File(j, is)]
      BY <2>3, Landing
    <3>3. j \notin published /\ published' = published \union {j}
      BY <2>2, <3>1, NamesAssumption DEF OthersSame
    <3>4. Shown(dir[job[j].out]) = None /\ Shown(File(j, is)) = j
      BY <3>1, NameFacts DEF Shown, Makers
    <3>5. files[job[j].out] = None /\ files' = [files EXCEPT ![job[j].out] = j]
      BY <3>1, <3>2, <3>4 DEF Typed
    <3> QED BY <2>1, <3>1, <3>3, <3>5 DEF Promised!Publish
  <2>4. ASSUME ~Lands(j) PROVE UNCHANGED <<files, published, deletions>>
    <3>1. published' = published
      BY <2>2, <2>4 DEF OthersSame, Account
    <3>2. \A c \in Names : dir'[c] = dir[c] \/ Hidden(j, c, dir'[c])
      BY <1>1, <2>4, Covered DEF Typed
    <3>3. \A c \in Names : Shown(dir'[c]) = Shown(dir[c])
      BY <3>2, NameFacts DEF Hidden, Shown, Makers
    <3> QED BY <2>1, <3>1, <3>3
  <2> QED BY <2>3, <2>4
<1>2. ASSUME OtherCreates PROVE Promised!OtherCreates
  <2>1. PICK c \in Names, is \in {"empty", "whole"} :
            dir[c] = NoFile /\ dir' = [dir EXCEPT ![c] = File(Other, is)]
    BY <1>2 DEF OtherCreates
  <2>2. Shown(dir[c]) = None /\ Shown(File(Other, is)) = Other
    BY <2>1, NameFacts DEF Shown, Makers
  <2>3. files[c] = None /\ files' = [files EXCEPT ![c] = Other]
    BY <2>1, <2>2 DEF Typed
  <2>4. published' = published /\ deletions' = deletions
    BY <1>2 DEF OtherCreates
  <2> QED BY <2>3, <2>4 DEF Promised!OtherCreates
<1>3. ASSUME OtherDeletes PROVE Promised!OtherDeletes
  <2>1. PICK c \in Names : dir' = [dir EXCEPT ![c] = NoFile]
    BY <1>3 DEF OtherDeletes
  <2>2. files' = [files EXCEPT ![c] = None]
    BY <2>1, NameFacts DEF Typed, Shown
  <2>3. published' = published /\ deletions' = deletions + 1
    BY <1>3 DEF OtherDeletes
  <2> QED BY <2>2, <2>3 DEF Promised!OtherDeletes
<1>4. ASSUME UNCHANGED vars PROVE UNCHANGED <<files, published, deletions>>
  BY <1>4 DEF vars, outside
<1> QED BY <1>1, <1>2, <1>3, <1>4 DEF Next, Promised!Next

\* The verbs keep the promise of UniqueOutputs: every file they show is a new one, by
\* one job, once, under a name nobody was using (convert_file and the others).
THEOREM KeepsThePromise == Spec => Promise
<1>1. Init => Promised!Init
  BY InitRefines
<1>2. Typed /\ IInv /\ [Next]_vars =>
          [Promised!Next]_<<[c \in Names |-> Shown(dir[c])],
                            {j \in Jobs : job[j].wrote # None}, deletions>>
  BY StepRefines
<1> QED BY <1>1, <1>2, Invariant, PTL DEF Spec, Promise, Promised!Spec

-----------------------------------------------------------------------------
(* What a verb reports, and what it leaves behind *)

\* The two names a job may have a placeholder at.
Slots(j) == {job[j].slot, job[j].outer}
Making(j, c) == job[j].pc \in {"encode", "rename"} /\ job[j].out = c

\* What a job says of its output on the way, unless it predicts one.
Told(j) ==
    /\ ~job[j].alive => killed
    /\ job[j].pc \in {"write", "encode", "rename", "copying"} => job[j].slot \in {None, job[j].out}
    /\ job[j].kind # "rotate" =>
        /\ job[j].pc # "done" => job[j].told = None
        /\ job[j].pc \in {"check", "remove"} /\ job[j].ok => job[j].wrote = job[j].out
        /\ job[j].pc = "done" => ReportsTruly(j)

\* Each placeholder is in the hands of the job that made it, and so is each temporary.
Tidy(c) ==
    /\ dir[c].is = "held" =>
          dir[c].by \in Jobs /\ ~job[dir[c].by].barred /\ c \in Slots(dir[c].by)
    /\ tmp[c] # NoFile => tmp[c].by \in Jobs /\ Making(tmp[c].by, c)

Ends == (\A j \in Jobs : Told(j)) /\ (~killed => \A c \in Names : Tidy(c))

\* what a step of job j must show of itself
HeldBy(j, c) == dir[c].is = "held" => dir[c].by # j \/ (~job[j].barred /\ c \in Slots(j))
MadeBy(j, c) == tmp[c] # NoFile => tmp[c].by # j \/ Making(j, c)
Ended(j) ==
    /\ Told(j)'
    /\ killed => killed'
    /\ ~killed' => \A c \in Names :
          /\ HeldBy(j, c)' /\ (dir'[c] = dir[c] \/ dir'[c].by = j \/ dir'[c] = NoFile)
          /\ MadeBy(j, c)' /\ (tmp'[c] = tmp[c] \/ tmp'[c].by = j \/ tmp'[c] = NoFile)

LEMMA EndFacts ==
  ASSUME Typed, IInv, Ends, NEW j \in Jobs
  PROVE  /\ Shape(j) /\ Holds(j) /\ Told(j) /\ job[j] \in JobState /\ None \notin Names
         /\ ~killed => \A c \in Names : HeldBy(j, c) /\ MadeBy(j, c)
<1>1. Shape(j) /\ Holds(j) /\ Told(j) /\ job[j] \in JobState /\ None \notin Names
  BY Facts DEF Ends
<1>2. ASSUME ~killed, NEW c \in Names PROVE HeldBy(j, c) /\ MadeBy(j, c)
  BY <1>2 DEF Ends, Tidy, HeldBy, MadeBy
<1> QED BY <1>1, <1>2

LEMMA PredictEnds ==
  ASSUME Typed, IInv, Ends, NEW j \in Jobs, Predict(j) PROVE Ended(j)
<1> DEFINE r == IF dir[Candidate(j)] = NoFile
             THEN [job[j] EXCEPT !.told = Candidate(j), !.n = 0, !.pc = "spawn"]
             ELSE [job[j] EXCEPT !.n = @ + 1]
<1>1. /\ Shape(j) /\ Holds(j) /\ Told(j) /\ job[j] \in JobState /\ None \notin Names
      /\ ~killed => \A c \in Names : HeldBy(j, c) /\ MadeBy(j, c)
  BY EndFacts
<1>2. job'[j] = r
  BY DEF Predict, Set, Typed
<1>3. /\ job'[j].pc \in {"predict", "spawn"}
      /\ job'[j].slot = job[j].slot /\ job'[j].outer = job[j].outer /\ job'[j].out = job[j].out
      /\ job'[j].alive = job[j].alive /\ job'[j].kind = job[j].kind /\ job'[j].barred = job[j].barred
  BY <1>1, <1>2 DEF JobState, Predict
<1> HIDE DEF r
<1>4. Told(j)'
  BY <1>1, <1>3 DEF Told, ReportsTruly, Shape, Predict
<1>5. killed' = killed
  BY DEF Predict
<1>6. ASSUME ~killed, NEW c \in Names
      PROVE  HeldBy(j, c)' /\ (dir'[c] = dir[c] \/ dir'[c].by = j \/ dir'[c] = NoFile)
  BY <1>1, <1>3, <1>6 DEF HeldBy, Slots, Shape, Predict
<1>7. ASSUME ~killed, NEW c \in Names
      PROVE  MadeBy(j, c)' /\ (tmp'[c] = tmp[c] \/ tmp'[c].by = j \/ tmp'[c] = NoFile)
  BY <1>1, <1>3, <1>7 DEF MadeBy, Making, Shape, Predict
<1> QED BY <1>4, <1>5, <1>6, <1>7 DEF Ended

LEMMA SpawnFailsEnds ==
  ASSUME Typed, IInv, Ends, NEW j \in Jobs, SpawnFails(j) PROVE Ended(j)
<1> DEFINE r == [job[j] EXCEPT !.told = None, !.pc = "reserve"]
<1>1. /\ Shape(j) /\ Holds(j) /\ Told(j) /\ job[j] \in JobState /\ None \notin Names
      /\ ~killed => \A c \in Names : HeldBy(j, c) /\ MadeBy(j, c)
  BY EndFacts
<1>2. job'[j] = r
  BY DEF SpawnFails, Set, Typed
<1>3. /\ job'[j].pc = "reserve" /\ job'[j].told = None /\ job'[j].slot = job[j].slot
      /\ job'[j].outer = job[j].outer /\ job'[j].out = job[j].out /\ job'[j].ok = job[j].ok
      /\ job'[j].wrote = job[j].wrote /\ job'[j].alive = job[j].alive /\ job'[j].kind = job[j].kind
      /\ job'[j].barred = job[j].barred
  BY <1>1, <1>2 DEF JobState, SpawnFails
<1> HIDE DEF r
<1>4. Told(j)'
  BY <1>1, <1>3 DEF Told, ReportsTruly, Shape, SpawnFails
<1>5. killed' = killed
  BY DEF SpawnFails
<1>6. ASSUME ~killed, NEW c \in Names
      PROVE  HeldBy(j, c)' /\ (dir'[c] = dir[c] \/ dir'[c].by = j \/ dir'[c] = NoFile)
  BY <1>1, <1>3, <1>6 DEF HeldBy, Slots, Shape, SpawnFails
<1>7. ASSUME ~killed, NEW c \in Names
      PROVE  MadeBy(j, c)' /\ (tmp'[c] = tmp[c] \/ tmp'[c].by = j \/ tmp'[c] = NoFile)
  BY <1>1, <1>3, <1>7 DEF MadeBy, Making, Shape, SpawnFails
<1> QED BY <1>4, <1>5, <1>6, <1>7 DEF Ended

LEMMA SpawnEnds ==
  ASSUME Typed, IInv, Ends, NEW j \in Jobs, Spawn(j) PROVE Ended(j)
<1> DEFINE r == [job[j] EXCEPT !.at = "helper", !.pc = IF job[j].kind = "routed" THEN "write" ELSE "reserve"]
<1>1. /\ Shape(j) /\ Holds(j) /\ Told(j) /\ job[j] \in JobState /\ None \notin Names
      /\ ~killed => \A c \in Names : HeldBy(j, c) /\ MadeBy(j, c)
  BY EndFacts
<1>2. job'[j] = r
  BY DEF Spawn, Set, Typed
<1>3. /\ job'[j].pc = (IF job[j].kind = "routed" THEN "write" ELSE "reserve")
      /\ job'[j].slot = job[j].slot /\ job'[j].outer = job[j].outer /\ job'[j].out = job[j].out
      /\ job'[j].told = job[j].told /\ job'[j].ok = job[j].ok /\ job'[j].wrote = job[j].wrote
      /\ job'[j].alive = job[j].alive /\ job'[j].kind = job[j].kind /\ job'[j].barred = job[j].barred
  BY <1>1, <1>2 DEF JobState, Spawn
<1> HIDE DEF r
<1>4. Told(j)'
  BY <1>1, <1>3 DEF Told, ReportsTruly, Shape, Spawn
<1>5. killed' = killed
  BY DEF Spawn
<1>6. ASSUME ~killed, NEW c \in Names
      PROVE  HeldBy(j, c)' /\ (dir'[c] = dir[c] \/ dir'[c].by = j \/ dir'[c] = NoFile)
  BY <1>1, <1>3, <1>6 DEF HeldBy, Slots, Shape, Spawn
<1>7. ASSUME ~killed, NEW c \in Names
      PROVE  MadeBy(j, c)' /\ (tmp'[c] = tmp[c] \/ tmp'[c].by = j \/ tmp'[c] = NoFile)
  BY <1>1, <1>3, <1>7 DEF MadeBy, Making, Shape, Spawn
<1> QED BY <1>4, <1>5, <1>6, <1>7 DEF Ended

LEMMA LandingFailsEnds ==
  ASSUME Typed, IInv, Ends, NEW j \in Jobs, LandingFails(j) PROVE Ended(j)
<1> DEFINE r == [job[j] EXCEPT !.ok = FALSE, !.pc = "check"]
<1>1. /\ Shape(j) /\ Holds(j) /\ Told(j) /\ job[j] \in JobState /\ None \notin Names
      /\ ~killed => \A c \in Names : HeldBy(j, c) /\ MadeBy(j, c)
  BY EndFacts
<1>2. job'[j] = r
  BY DEF LandingFails, Encodes, Set, Typed
<1>3. /\ job'[j].pc = "check" /\ job'[j].ok = FALSE /\ job'[j].slot = job[j].slot
      /\ job'[j].outer = job[j].outer /\ job'[j].out = job[j].out /\ job'[j].told = job[j].told
      /\ job'[j].wrote = job[j].wrote /\ job'[j].alive = job[j].alive /\ job'[j].kind = job[j].kind
      /\ job'[j].barred = job[j].barred
  BY <1>1, <1>2 DEF JobState, LandingFails, Encodes
<1> HIDE DEF r
<1>4. Told(j)'
  BY <1>1, <1>3 DEF Told, ReportsTruly, Shape, LandingFails, Encodes
<1>5. killed' = killed
  BY DEF LandingFails, Encodes
<1>6. ASSUME ~killed, NEW c \in Names
      PROVE  HeldBy(j, c)' /\ (dir'[c] = dir[c] \/ dir'[c].by = j \/ dir'[c] = NoFile)
  BY <1>1, <1>3, <1>6 DEF HeldBy, Slots, Shape, LandingFails, Encodes
<1>7. ASSUME ~killed, NEW c \in Names
      PROVE  MadeBy(j, c)' /\ (tmp'[c] = tmp[c] \/ tmp'[c].by = j \/ tmp'[c] = NoFile)
  BY <1>1, <1>3, <1>7 DEF MadeBy, Making, Shape, LandingFails, Encodes
<1> QED BY <1>4, <1>5, <1>6, <1>7 DEF Ended

LEMMA DropLooksEnds ==
  ASSUME Typed, IInv, Ends, NEW j \in Jobs, DropLooks(j) PROVE Ended(j)
<1> DEFINE r == IF dir[job[j].slot].is \in {"held", "empty"} THEN [job[j] EXCEPT !.pc = "remove"]
             ELSE [job[j] EXCEPT !.slot = None]
<1>1. /\ Shape(j) /\ Holds(j) /\ Told(j) /\ job[j] \in JobState /\ None \notin Names
      /\ ~killed => \A c \in Names : HeldBy(j, c) /\ MadeBy(j, c)
  BY EndFacts
<1>2. job'[j] = r
  BY DEF DropLooks, Set, Typed
<1>3. /\ job'[j].pc \in {"check", "remove"}
      /\ job'[j].slot = job[j].slot \/ (job'[j].slot = None /\ dir[job[j].slot].is # "held")
      /\ job'[j].outer = job[j].outer /\ job'[j].out = job[j].out /\ job'[j].told = job[j].told
      /\ job'[j].ok = job[j].ok /\ job'[j].wrote = job[j].wrote /\ job'[j].alive = job[j].alive
      /\ job'[j].kind = job[j].kind /\ job'[j].barred = job[j].barred
  BY <1>1, <1>2 DEF JobState, DropLooks
<1> HIDE DEF r
<1>4. Told(j)'
  BY <1>1, <1>3 DEF Told, ReportsTruly, Shape, DropLooks
<1>5. killed' = killed
  BY DEF DropLooks
<1>6. ASSUME ~killed, NEW c \in Names
      PROVE  HeldBy(j, c)' /\ (dir'[c] = dir[c] \/ dir'[c].by = j \/ dir'[c] = NoFile)
  BY <1>1, <1>3, <1>6 DEF HeldBy, Slots, Shape, DropLooks
<1>7. ASSUME ~killed, NEW c \in Names
      PROVE  MadeBy(j, c)' /\ (tmp'[c] = tmp[c] \/ tmp'[c].by = j \/ tmp'[c] = NoFile)
  BY <1>1, <1>3, <1>7 DEF MadeBy, Making, Shape, DropLooks
<1> QED BY <1>4, <1>5, <1>6, <1>7 DEF Ended

LEMMA HelperExitsEnds ==
  ASSUME Typed, IInv, Ends, NEW j \in Jobs, HelperExits(j) PROVE Ended(j)
<1> DEFINE r == IF job[j].alive
             THEN [job[j] EXCEPT !.at = "host", !.slot = job[j].outer, !.outer = None]
             ELSE Dead(j)
<1>1. /\ Shape(j) /\ Holds(j) /\ Told(j) /\ job[j] \in JobState /\ None \notin Names
      /\ ~killed => \A c \in Names : HeldBy(j, c) /\ MadeBy(j, c)
  BY EndFacts
<1>2. job'[j] = r
  BY DEF HelperExits, Dead, Set, Typed
<1>3. IF job[j].alive
      THEN /\ job'[j].slot = job[j].outer /\ job'[j].outer = None /\ job'[j].pc = job[j].pc
           /\ job'[j].out = job[j].out /\ job'[j].told = job[j].told /\ job'[j].ok = job[j].ok
           /\ job'[j].wrote = job[j].wrote /\ job'[j].alive = job[j].alive /\ job'[j].kind = job[j].kind
           /\ job'[j].barred = job[j].barred
      ELSE /\ job'[j].pc = "dead" /\ job'[j].told = None /\ job'[j].alive = FALSE
  <2>1. CASE job[j].alive = TRUE
    <3>1. job'[j] = [job[j] EXCEPT !.at = "host", !.slot = job[j].outer, !.outer = None]
      BY <1>2, <2>1
    <3> QED BY <1>1, <2>1, <3>1 DEF JobState, HelperExits
  <2>2. CASE job[j].alive = FALSE
    <3>1. job'[j] = Dead(j)
      BY <1>2, <2>2
    <3> QED BY <1>1, <2>2, <3>1 DEF JobState, Dead
  <2> QED BY <1>1, <2>1, <2>2 DEF JobState
<1> HIDE DEF r
<1>4. Told(j)'
  BY <1>1, <1>3 DEF Told, ReportsTruly, Shape, HelperExits, Dead
<1>5. killed' = killed
  BY DEF HelperExits, Dead
<1>6. ASSUME ~killed, NEW c \in Names
      PROVE  HeldBy(j, c)' /\ (dir'[c] = dir[c] \/ dir'[c].by = j \/ dir'[c] = NoFile)
  <2>1. job[j].alive
    BY <1>1, <1>6 DEF Told
  <2> QED BY <1>1, <1>3, <1>6, <2>1 DEF HeldBy, Slots, HelperExits
<1>7. ASSUME ~killed, NEW c \in Names
      PROVE  MadeBy(j, c)' /\ (tmp'[c] = tmp[c] \/ tmp'[c].by = j \/ tmp'[c] = NoFile)
  <2>1. job[j].alive
    BY <1>1, <1>7 DEF Told
  <2> QED BY <1>1, <1>3, <1>7, <2>1 DEF MadeBy, Making, HelperExits
<1> QED BY <1>4, <1>5, <1>6, <1>7 DEF Ended

LEMMA VerbReturnsEnds ==
  ASSUME Typed, IInv, Ends, NEW j \in Jobs, VerbReturns(j) PROVE Ended(j)
<1> DEFINE r == IF job[j].outer # None
             THEN [job[j] EXCEPT !.slot = job[j].outer, !.outer = None]
             ELSE [job[j] EXCEPT !.told = Report(j), !.out = None, !.pc = "done"]
<1>1. /\ Shape(j) /\ Holds(j) /\ Told(j) /\ job[j] \in JobState /\ None \notin Names
      /\ ~killed => \A c \in Names : HeldBy(j, c) /\ MadeBy(j, c)
  BY EndFacts
<1>2. job'[j] = r
  BY DEF VerbReturns, Report, Set, Typed
<1>3. /\ job'[j].ok = job[j].ok /\ job'[j].wrote = job[j].wrote /\ job'[j].alive = job[j].alive
      /\ job'[j].kind = job[j].kind /\ job'[j].barred = job[j].barred /\ job'[j].slot = job[j].outer
      /\ job'[j].outer = None
      /\ IF job[j].outer # None
         THEN job'[j].pc = "check" /\ job'[j].told = job[j].told /\ job'[j].out = job[j].out
         ELSE job'[j].pc = "done" /\ job'[j].told = Report(j)
  BY <1>1, <1>2 DEF JobState, VerbReturns, Report
<1> HIDE DEF r
<1>4. Told(j)'
  BY <1>1, <1>3 DEF Told, ReportsTruly, Shape, VerbReturns, Report
<1>5. killed' = killed
  BY DEF VerbReturns, Report
<1>6. ASSUME ~killed, NEW c \in Names
      PROVE  HeldBy(j, c)' /\ (dir'[c] = dir[c] \/ dir'[c].by = j \/ dir'[c] = NoFile)
  BY <1>1, <1>3, <1>6 DEF HeldBy, Slots, Shape, VerbReturns, Report
<1>7. ASSUME ~killed, NEW c \in Names
      PROVE  MadeBy(j, c)' /\ (tmp'[c] = tmp[c] \/ tmp'[c].by = j \/ tmp'[c] = NoFile)
  BY <1>1, <1>3, <1>7 DEF MadeBy, Making, Shape, VerbReturns, Report
<1> QED BY <1>4, <1>5, <1>6, <1>7 DEF Ended

LEMMA KillHostEnds ==
  ASSUME Typed, IInv, Ends, NEW j \in Jobs, KillHost(j) PROVE Ended(j)
<1> DEFINE r == IF job[j].at = "helper" THEN [job[j] EXCEPT !.alive = FALSE] ELSE Dead(j)
<1>1. /\ Shape(j) /\ Holds(j) /\ Told(j) /\ job[j] \in JobState /\ None \notin Names
      /\ ~killed => \A c \in Names : HeldBy(j, c) /\ MadeBy(j, c)
  BY EndFacts
<1>2. job'[j] = r
  BY DEF KillHost, Dead, Idle, Set, Typed
<1>3. /\ job'[j].kind = job[j].kind
      /\ \/ job'[j].pc = "dead" /\ job'[j].told = None
         \/ /\ job'[j].pc = job[j].pc /\ job'[j].slot = job[j].slot /\ job'[j].out = job[j].out
            /\ job'[j].told = job[j].told /\ job'[j].ok = job[j].ok /\ job'[j].wrote = job[j].wrote
  <2>1. CASE job[j].at = "helper"
    <3>1. r = [job[j] EXCEPT !.alive = FALSE] /\ job[j] \in JobState
      BY <1>1, <2>1
    <3> HIDE DEF r
    <3> QED BY <1>2, <3>1 DEF JobState
  <2>2. CASE job[j].at # "helper"
    <3>1. r = Dead(j) /\ job[j] \in JobState
      BY <1>1, <2>2
    <3> HIDE DEF r
    <3>2. Dead(j).kind = job[j].kind /\ Dead(j).pc = "dead" /\ Dead(j).told = None
      BY <3>1 DEF JobState, Dead
    <3> QED BY <1>2, <3>1, <3>2
  <2> QED BY <2>1, <2>2
<1> HIDE DEF r
<1>4. Told(j)'
  BY <1>1, <1>3 DEF Told, ReportsTruly, Shape, KillHost, Dead, Idle
<1>5. killed' = TRUE
  BY DEF KillHost, Dead, Idle
<1> QED BY <1>4, <1>5 DEF Ended

LEMMA KillHelperEnds ==
  ASSUME Typed, IInv, Ends, NEW j \in Jobs, KillHelper(j) PROVE Ended(j)
<1> DEFINE r == IF job[j].alive
             THEN [job[j] EXCEPT !.at = "host", !.ok = FALSE, !.pc = "check",
                                 !.slot = job[j].outer, !.outer = None]
             ELSE Dead(j)
<1>1. /\ Shape(j) /\ Holds(j) /\ Told(j) /\ job[j] \in JobState /\ None \notin Names
      /\ ~killed => \A c \in Names : HeldBy(j, c) /\ MadeBy(j, c)
  BY EndFacts
<1>2. job'[j] = r
  BY DEF KillHelper, Dead, Idle, Set, Typed
<1>3. /\ job'[j].kind = job[j].kind
      /\ \/ job'[j].pc = "dead" /\ job'[j].told = None
         \/ job'[j].pc = "check" /\ job'[j].told = job[j].told /\ job'[j].ok = FALSE
  BY <1>1, <1>2 DEF JobState, KillHelper, Dead, Idle
<1> HIDE DEF r
<1>4. Told(j)'
  BY <1>1, <1>3 DEF Told, ReportsTruly, Shape, KillHelper, Dead, Idle
<1>5. killed' = TRUE
  BY DEF KillHelper, Dead, Idle
<1> QED BY <1>4, <1>5 DEF Ended

LEMMA WriteTmpEnds ==
  ASSUME Typed, IInv, Ends, NEW j \in Jobs, WriteTmp(j) PROVE Ended(j)
<1> DEFINE r == [job[j] EXCEPT !.pc = "encode"]
<1>1. /\ Shape(j) /\ Holds(j) /\ Told(j) /\ job[j] \in JobState /\ None \notin Names
      /\ ~killed => \A c \in Names : HeldBy(j, c) /\ MadeBy(j, c)
  BY EndFacts
<1>2. job'[j] = r
  BY DEF WriteTmp, Set, Typed
<1>3. /\ job'[j].pc = "encode" /\ job'[j].slot = job[j].slot /\ job'[j].outer = job[j].outer
      /\ job'[j].out = job[j].out /\ job'[j].told = job[j].told /\ job'[j].ok = job[j].ok
      /\ job'[j].wrote = job[j].wrote /\ job'[j].alive = job[j].alive /\ job'[j].kind = job[j].kind
      /\ job'[j].barred = job[j].barred
  BY <1>1, <1>2 DEF JobState, WriteTmp
<1> HIDE DEF r
<1>4. Told(j)'
  BY <1>1, <1>3 DEF Told, ReportsTruly, Shape, WriteTmp
<1>5. killed' = killed
  BY DEF WriteTmp
<1>6. ASSUME ~killed, NEW c \in Names
      PROVE  HeldBy(j, c)' /\ (dir'[c] = dir[c] \/ dir'[c].by = j \/ dir'[c] = NoFile)
  BY <1>1, <1>3, <1>6 DEF HeldBy, Slots, Shape, WriteTmp
<1>7. ASSUME ~killed, NEW c \in Names
      PROVE  MadeBy(j, c)' /\ (tmp'[c] = tmp[c] \/ tmp'[c].by = j \/ tmp'[c] = NoFile)
  <2>1. job[j].out \in Names /\ File(j, "half").by = j
    BY <1>1, NameFacts DEF Shape, WriteTmp, Makers
  <2>2. tmp'[c] = IF c = job[j].out THEN File(j, "half") ELSE tmp[c]
    BY <2>1 DEF Typed, WriteTmp
  <2> QED BY <1>1, <1>3, <1>7, <2>1, <2>2 DEF MadeBy, Making, WriteTmp
<1> QED BY <1>4, <1>5, <1>6, <1>7 DEF Ended

LEMMA EncodeEndsEnds ==
  ASSUME Typed, IInv, Ends, NEW j \in Jobs, EncodeEnds(j) PROVE Ended(j)
<1> DEFINE r == [job[j] EXCEPT !.pc = "rename"]
<1>1. /\ Shape(j) /\ Holds(j) /\ Told(j) /\ job[j] \in JobState /\ None \notin Names
      /\ ~killed => \A c \in Names : HeldBy(j, c) /\ MadeBy(j, c)
  BY EndFacts
<1>2. job'[j] = r
  BY DEF EncodeEnds, Set, Typed
<1>3. /\ job'[j].pc = "rename" /\ job'[j].slot = job[j].slot /\ job'[j].outer = job[j].outer
      /\ job'[j].out = job[j].out /\ job'[j].told = job[j].told /\ job'[j].ok = job[j].ok
      /\ job'[j].wrote = job[j].wrote /\ job'[j].alive = job[j].alive /\ job'[j].kind = job[j].kind
      /\ job'[j].barred = job[j].barred
  BY <1>1, <1>2 DEF JobState, EncodeEnds
<1> HIDE DEF r
<1>4. Told(j)'
  BY <1>1, <1>3 DEF Told, ReportsTruly, Shape, EncodeEnds
<1>5. killed' = killed
  BY DEF EncodeEnds
<1>6. ASSUME ~killed, NEW c \in Names
      PROVE  HeldBy(j, c)' /\ (dir'[c] = dir[c] \/ dir'[c].by = j \/ dir'[c] = NoFile)
  BY <1>1, <1>3, <1>6 DEF HeldBy, Slots, Shape, EncodeEnds
<1>7. ASSUME ~killed, NEW c \in Names
      PROVE  MadeBy(j, c)' /\ (tmp'[c] = tmp[c] \/ tmp'[c].by = j \/ tmp'[c] = NoFile)
  <2>1. job[j].out \in Names /\ File(j, "whole").by = j
    BY <1>1, NameFacts DEF Shape, EncodeEnds, Makers
  <2>2. tmp'[c] = IF c = job[j].out THEN File(j, "whole") ELSE tmp[c]
    BY <2>1 DEF Typed, EncodeEnds
  <2> QED BY <1>1, <1>3, <1>7, <2>1, <2>2 DEF MadeBy, Making, EncodeEnds
<1> QED BY <1>4, <1>5, <1>6, <1>7 DEF Ended

LEMMA WriteFailsEnds ==
  ASSUME Typed, IInv, Ends, NEW j \in Jobs, WriteFails(j) PROVE Ended(j)
<1> DEFINE r == [job[j] EXCEPT !.ok = FALSE, !.pc = "check"]
<1>1. /\ Shape(j) /\ Holds(j) /\ Told(j) /\ job[j] \in JobState /\ None \notin Names
      /\ ~killed => \A c \in Names : HeldBy(j, c) /\ MadeBy(j, c)
  BY EndFacts
<1>2. job'[j] = r
  BY DEF WriteFails, Set, Typed
<1>3. /\ job'[j].pc = "check" /\ job'[j].ok = FALSE /\ job'[j].slot = job[j].slot
      /\ job'[j].outer = job[j].outer /\ job'[j].out = job[j].out /\ job'[j].told = job[j].told
      /\ job'[j].wrote = job[j].wrote /\ job'[j].alive = job[j].alive /\ job'[j].kind = job[j].kind
      /\ job'[j].barred = job[j].barred
  BY <1>1, <1>2 DEF JobState, WriteFails
<1> HIDE DEF r
<1>4. Told(j)'
  BY <1>1, <1>3 DEF Told, ReportsTruly, Shape, WriteFails
<1>5. killed' = killed
  BY DEF WriteFails
<1>6. ASSUME ~killed, NEW c \in Names
      PROVE  HeldBy(j, c)' /\ (dir'[c] = dir[c] \/ dir'[c].by = j \/ dir'[c] = NoFile)
  BY <1>1, <1>3, <1>6 DEF HeldBy, Slots, Shape, WriteFails
<1>7. ASSUME ~killed, NEW c \in Names
      PROVE  MadeBy(j, c)' /\ (tmp'[c] = tmp[c] \/ tmp'[c].by = j \/ tmp'[c] = NoFile)
  <2>1. CASE job[j].barred
    BY <1>1, <1>3, <1>7, <2>1 DEF MadeBy, Making, Shape, WriteFails, CanTouch
  <2>2. CASE ~job[j].barred
    <3>1. tmp'[c] = IF c = job[j].out THEN NoFile ELSE tmp[c]
      BY <2>2 DEF Typed, WriteFails, CanTouch
    <3> QED BY <1>1, <1>3, <1>7, <3>1 DEF MadeBy, Making
  <2> QED BY <2>1, <2>2
<1> QED BY <1>4, <1>5, <1>6, <1>7 DEF Ended

LEMMA RenameEnds ==
  ASSUME Typed, IInv, Ends, NEW j \in Jobs, Rename(j) PROVE Ended(j)
<1> DEFINE r == [job[j] EXCEPT !.ok = TRUE, !.wrote = job[j].out, !.pc = "check"]
<1>1. /\ Shape(j) /\ Holds(j) /\ Told(j) /\ job[j] \in JobState /\ None \notin Names
      /\ ~killed => \A c \in Names : HeldBy(j, c) /\ MadeBy(j, c)
  BY EndFacts
<1>2. job'[j] = r
  BY DEF Rename, Set, Typed
<1>3. /\ job'[j].pc = "check" /\ job'[j].ok = TRUE /\ job'[j].wrote = job[j].out
      /\ job'[j].slot = job[j].slot /\ job'[j].outer = job[j].outer /\ job'[j].out = job[j].out
      /\ job'[j].told = job[j].told /\ job'[j].alive = job[j].alive /\ job'[j].kind = job[j].kind
      /\ job'[j].barred = job[j].barred
  BY <1>1, <1>2 DEF JobState, Rename
<1> HIDE DEF r
<1>4. Told(j)'
  BY <1>1, <1>3 DEF Told, ReportsTruly, Shape, Rename
<1>5. killed' = killed
  BY DEF Rename
<1>6. ASSUME ~killed, NEW c \in Names
      PROVE  HeldBy(j, c)' /\ (dir'[c] = dir[c] \/ dir'[c].by = j \/ dir'[c] = NoFile)
  <2>1. tmp[job[j].out] = File(j, "whole") /\ File(j, "whole").by = j /\ File(j, "whole").is = "whole"
    BY <1>1, NameFacts DEF Shape, Holds, Rename, Makers
  <2>2. dir'[c] = IF c = job[j].out THEN File(j, "whole") ELSE dir[c]
    BY <2>1 DEF Typed, Rename
  <2> QED BY <1>1, <1>3, <1>6, <2>1, <2>2 DEF HeldBy, Slots
<1>7. ASSUME ~killed, NEW c \in Names
      PROVE  MadeBy(j, c)' /\ (tmp'[c] = tmp[c] \/ tmp'[c].by = j \/ tmp'[c] = NoFile)
  <2>1. tmp'[c] = IF c = job[j].out THEN NoFile ELSE tmp[c]
    BY DEF Typed, Rename
  <2> QED BY <1>1, <1>3, <1>7, <2>1 DEF MadeBy, Making
<1> QED BY <1>4, <1>5, <1>6, <1>7 DEF Ended

LEMMA MoveLandsEnds ==
  ASSUME Typed, IInv, Ends, NEW j \in Jobs, MoveLands(j) PROVE Ended(j)
<1> DEFINE r == [job[j] EXCEPT !.slot = None, !.ok = TRUE, !.wrote = job[j].out, !.pc = "check"]
<1>1. /\ Shape(j) /\ Holds(j) /\ Told(j) /\ job[j] \in JobState /\ None \notin Names
      /\ ~killed => \A c \in Names : HeldBy(j, c) /\ MadeBy(j, c)
  BY EndFacts
<1>2. job'[j] = r
  BY DEF MoveLands, Landed, Set, Typed
<1>3. /\ job'[j].pc = "check" /\ job'[j].ok = TRUE /\ job'[j].wrote = job[j].out /\ job'[j].slot = None
      /\ job'[j].outer = job[j].outer /\ job'[j].out = job[j].out /\ job'[j].told = job[j].told
      /\ job'[j].alive = job[j].alive /\ job'[j].kind = job[j].kind /\ job'[j].barred = job[j].barred
  BY <1>1, <1>2 DEF JobState, MoveLands, Landed
<1> HIDE DEF r
<1>4. Told(j)'
  BY <1>1, <1>3 DEF Told, ReportsTruly, Shape, MoveLands, Landed
<1>5. killed' = killed
  BY DEF MoveLands, Landed
<1>6. ASSUME ~killed, NEW c \in Names
      PROVE  HeldBy(j, c)' /\ (dir'[c] = dir[c] \/ dir'[c].by = j \/ dir'[c] = NoFile)
  <2>1. PICK is \in {"empty", "whole"} : dir' = [dir EXCEPT ![job[j].out] = File(j, is)]
    BY DEF MoveLands
  <2>2. File(j, is).by = j /\ File(j, is).is = is
    BY NameFacts DEF Makers
  <2>3. dir'[c] = IF c = job[j].out THEN File(j, is) ELSE dir[c]
    BY <2>1 DEF Typed
  <2>4. job[j].slot \in {None, job[j].out}
    BY <1>1 DEF Told, MoveLands
  <2> QED BY <1>1, <1>3, <1>6, <2>2, <2>3, <2>4 DEF HeldBy, Slots
<1>7. ASSUME ~killed, NEW c \in Names
      PROVE  MadeBy(j, c)' /\ (tmp'[c] = tmp[c] \/ tmp'[c].by = j \/ tmp'[c] = NoFile)
  BY <1>1, <1>3, <1>7 DEF MadeBy, Making, Shape, MoveLands, Landed
<1> QED BY <1>4, <1>5, <1>6, <1>7 DEF Ended

LEMMA CopyLandsEnds ==
  ASSUME Typed, IInv, Ends, NEW j \in Jobs, CopyLands(j) PROVE Ended(j)
<1> DEFINE r == [job[j] EXCEPT !.slot = None, !.ok = TRUE, !.wrote = job[j].out, !.pc = "check"]
<1>1. /\ Shape(j) /\ Holds(j) /\ Told(j) /\ job[j] \in JobState /\ None \notin Names
      /\ ~killed => \A c \in Names : HeldBy(j, c) /\ MadeBy(j, c)
  BY EndFacts
<1>2. job'[j] = r
  BY DEF CopyLands, Landed, Set, Typed
<1>3. /\ job'[j].pc = "check" /\ job'[j].ok = TRUE /\ job'[j].wrote = job[j].out /\ job'[j].slot = None
      /\ job'[j].outer = job[j].outer /\ job'[j].out = job[j].out /\ job'[j].told = job[j].told
      /\ job'[j].alive = job[j].alive /\ job'[j].kind = job[j].kind /\ job'[j].barred = job[j].barred
  BY <1>1, <1>2 DEF JobState, CopyLands, Landed
<1> HIDE DEF r
<1>4. Told(j)'
  BY <1>1, <1>3 DEF Told, ReportsTruly, Shape, CopyLands, Landed
<1>5. killed' = killed
  BY DEF CopyLands, Landed
<1>6. ASSUME ~killed, NEW c \in Names
      PROVE  HeldBy(j, c)' /\ (dir'[c] = dir[c] \/ dir'[c].by = j \/ dir'[c] = NoFile)
  <2>1. PICK is \in {"empty", "whole"} : dir' = [dir EXCEPT ![job[j].out] = File(j, is)]
    BY DEF CopyLands
  <2>2. File(j, is).by = j /\ File(j, is).is = is
    BY NameFacts DEF Makers
  <2>3. dir'[c] = IF c = job[j].out THEN File(j, is) ELSE dir[c]
    BY <2>1 DEF Typed
  <2>4. job[j].slot \in {None, job[j].out}
    BY <1>1 DEF Told, CopyLands
  <2> QED BY <1>1, <1>3, <1>6, <2>2, <2>3, <2>4 DEF HeldBy, Slots
<1>7. ASSUME ~killed, NEW c \in Names
      PROVE  MadeBy(j, c)' /\ (tmp'[c] = tmp[c] \/ tmp'[c].by = j \/ tmp'[c] = NoFile)
  BY <1>1, <1>3, <1>7 DEF MadeBy, Making, Shape, CopyLands, Landed
<1> QED BY <1>4, <1>5, <1>6, <1>7 DEF Ended

LEMMA CopyStartsEnds ==
  ASSUME Typed, IInv, Ends, NEW j \in Jobs, CopyStarts(j) PROVE Ended(j)
<1> DEFINE r == [job[j] EXCEPT !.pc = "copying"]
<1>1. /\ Shape(j) /\ Holds(j) /\ Told(j) /\ job[j] \in JobState /\ None \notin Names
      /\ ~killed => \A c \in Names : HeldBy(j, c) /\ MadeBy(j, c)
  BY EndFacts
<1>2. job'[j] = r
  BY DEF CopyStarts, Set, Typed
<1>3. /\ job'[j].pc = "copying" /\ job'[j].slot = job[j].slot /\ job'[j].outer = job[j].outer
      /\ job'[j].out = job[j].out /\ job'[j].told = job[j].told /\ job'[j].ok = job[j].ok
      /\ job'[j].wrote = job[j].wrote /\ job'[j].alive = job[j].alive /\ job'[j].kind = job[j].kind
      /\ job'[j].barred = job[j].barred
  BY <1>1, <1>2 DEF JobState, CopyStarts
<1> HIDE DEF r
<1>4. Told(j)'
  BY <1>1, <1>3 DEF Told, ReportsTruly, Shape, CopyStarts
<1>5. killed' = killed
  BY DEF CopyStarts
<1>6. ASSUME ~killed, NEW c \in Names
      PROVE  HeldBy(j, c)' /\ (dir'[c] = dir[c] \/ dir'[c].by = j \/ dir'[c] = NoFile)
  <2>1. File(j, "half").by = j /\ File(j, "half").is = "half"
    BY NameFacts DEF Makers
  <2>2. dir'[c] = IF c = job[j].out THEN File(j, "half") ELSE dir[c]
    BY DEF Typed, CopyStarts
  <2> QED BY <1>1, <1>3, <1>6, <2>1, <2>2 DEF HeldBy, Slots
<1>7. ASSUME ~killed, NEW c \in Names
      PROVE  MadeBy(j, c)' /\ (tmp'[c] = tmp[c] \/ tmp'[c].by = j \/ tmp'[c] = NoFile)
  BY <1>1, <1>3, <1>7 DEF MadeBy, Making, Shape, CopyStarts
<1> QED BY <1>4, <1>5, <1>6, <1>7 DEF Ended

LEMMA DropRemovesEnds ==
  ASSUME Typed, IInv, Ends, NEW j \in Jobs, DropRemoves(j) PROVE Ended(j)
<1> DEFINE r == [job[j] EXCEPT !.slot = None, !.pc = "check"]
<1>1. /\ Shape(j) /\ Holds(j) /\ Told(j) /\ job[j] \in JobState /\ None \notin Names
      /\ ~killed => \A c \in Names : HeldBy(j, c) /\ MadeBy(j, c)
  BY EndFacts
<1>2. job'[j] = r
  BY DEF DropRemoves, Set, Typed
<1>3. /\ job'[j].pc = "check" /\ job'[j].slot = None /\ job'[j].outer = job[j].outer
      /\ job'[j].out = job[j].out /\ job'[j].told = job[j].told /\ job'[j].ok = job[j].ok
      /\ job'[j].wrote = job[j].wrote /\ job'[j].alive = job[j].alive /\ job'[j].kind = job[j].kind
      /\ job'[j].barred = job[j].barred
  BY <1>1, <1>2 DEF JobState, DropRemoves
<1> HIDE DEF r
<1>4. Told(j)'
  BY <1>1, <1>3 DEF Told, ReportsTruly, Shape, DropRemoves
<1>5. killed' = killed
  BY DEF DropRemoves
<1>6. ASSUME ~killed, NEW c \in Names
      PROVE  HeldBy(j, c)' /\ (dir'[c] = dir[c] \/ dir'[c].by = j \/ dir'[c] = NoFile)
  <2>1. CASE job[j].barred
    BY <1>1, <1>3, <1>6, <2>1 DEF HeldBy, Slots, DropRemoves, CanTouch
  <2>2. CASE ~job[j].barred
    <3>1. dir'[c] = IF c = job[j].slot THEN NoFile ELSE dir[c]
      BY <2>2 DEF Typed, DropRemoves, CanTouch
    <3>2. NoFile.is # "held"
      BY NameFacts
    <3> QED BY <1>1, <1>3, <1>6, <3>1, <3>2 DEF HeldBy, Slots
  <2> QED BY <2>1, <2>2
<1>7. ASSUME ~killed, NEW c \in Names
      PROVE  MadeBy(j, c)' /\ (tmp'[c] = tmp[c] \/ tmp'[c].by = j \/ tmp'[c] = NoFile)
  BY <1>1, <1>3, <1>7 DEF MadeBy, Making, Shape, DropRemoves
<1> QED BY <1>4, <1>5, <1>6, <1>7 DEF Ended

LEMMA ReserveExistsEnds ==
  ASSUME Typed, IInv, Ends, NEW j \in Jobs, Reserve(j), ReserveExists(j) PROVE Ended(j)
<1> DEFINE r == [job[j] EXCEPT !.n = @ + 1]
<1>1. /\ Told(j) /\ job[j] \in JobState
      /\ ~killed => \A c \in Names : HeldBy(j, c) /\ MadeBy(j, c)
  BY EndFacts
<1>2. job'[j] = r
  BY DEF ReserveExists, Set, Typed
<1>3. /\ job'[j].pc = job[j].pc /\ job'[j].slot = job[j].slot /\ job'[j].outer = job[j].outer
      /\ job'[j].out = job[j].out /\ job'[j].told = job[j].told /\ job'[j].ok = job[j].ok
      /\ job'[j].wrote = job[j].wrote /\ job'[j].alive = job[j].alive /\ job'[j].kind = job[j].kind
      /\ job'[j].barred = job[j].barred
  BY <1>1, <1>2 DEF JobState
<1> HIDE DEF r
<1>4. killed' = killed /\ dir' = dir /\ tmp' = tmp
  BY DEF Reserve, ReserveExists
<1>5. Told(j)'
  BY <1>1, <1>3, <1>4 DEF Told, ReportsTruly
<1>6. ASSUME ~killed, NEW c \in Names PROVE HeldBy(j, c)' /\ MadeBy(j, c)'
  BY <1>1, <1>3, <1>4, <1>6 DEF HeldBy, MadeBy, Slots, Making
<1> QED BY <1>4, <1>5, <1>6 DEF Ended

\* a name taken, whether or not the folder let the job make a placeholder there
LEMMA ReserveTakesEnds ==
  ASSUME Typed, IInv, Ends, NEW j \in Jobs, Reserve(j), ReserveCreates(j) \/ ReserveRefused(j)
  PROVE  Ended(j)
<1> DEFINE d == Candidate(j)
<1>1. /\ Shape(j) /\ Told(j) /\ job[j] \in JobState /\ None \notin Names
      /\ ~killed => \A c \in Names : HeldBy(j, c) /\ MadeBy(j, c)
  BY EndFacts
<1>2. d \in Names /\ job[j].pc = "reserve" /\ job[j].slot = None /\ job'[j] = WithSlot(j, d)
      /\ dir[d] = NoFile
  BY <1>1, CandidateType DEF Reserve, ReserveCreates, ReserveRefused, Set, Typed, Shape
<1> HIDE DEF d
<1>3. /\ job'[j].out = d /\ job'[j].told = job[j].told /\ job'[j].alive = job[j].alive
      /\ job'[j].kind = job[j].kind /\ job'[j].barred = job[j].barred
      /\ \/ /\ job[j].kind = "routed" /\ job[j].outer = None
            /\ job'[j].pc = "spawn" /\ job'[j].outer = d /\ job'[j].slot = job[j].slot
         \/ job'[j].pc = "write" /\ job'[j].slot = d /\ job'[j].outer = job[j].outer
  <2> DEFINE kept == [job[j] EXCEPT !.outer = d, !.out = d, !.n = 0, !.pc = "spawn"]
             own == [job[j] EXCEPT !.slot = d, !.out = d, !.n = 0, !.pc = "write"]
  <2>1. /\ kept.out = d /\ kept.told = job[j].told /\ kept.alive = job[j].alive /\ kept.kind = job[j].kind
        /\ kept.barred = job[j].barred /\ kept.pc = "spawn" /\ kept.outer = d /\ kept.slot = job[j].slot
    BY <1>1 DEF JobState
  <2>2. /\ own.out = d /\ own.told = job[j].told /\ own.alive = job[j].alive /\ own.kind = job[j].kind
        /\ own.barred = job[j].barred /\ own.pc = "write" /\ own.slot = d /\ own.outer = job[j].outer
    BY <1>1 DEF JobState
  <2>3. job'[j] = IF job[j].kind = "routed" /\ job[j].outer = None THEN kept ELSE own
    BY <1>2 DEF WithSlot
  <2> HIDE DEF kept, own
  <2> QED BY <2>1, <2>2, <2>3
<1>4. killed' = killed /\ tmp' = tmp
  BY DEF Reserve
<1>5. Told(j)'
  BY <1>1, <1>2, <1>3, <1>4 DEF Told
<1>6. ASSUME ~killed, NEW c \in Names
      PROVE  HeldBy(j, c)' /\ (dir'[c] = dir[c] \/ dir'[c].by = j)
  <2>1. CASE ReserveRefused(j)
    BY <1>1, <1>2, <1>3, <1>6, <2>1 DEF HeldBy, Slots, ReserveRefused
  <2>2. CASE ReserveCreates(j)
    <3>1. dir'[c] = IF c = d THEN File(j, "held") ELSE dir[c]
      BY <1>2, <2>2 DEF ReserveCreates, Typed, d
    <3>2. File(j, "held").by = j /\ ~job[j].barred
      BY <2>2, NameFacts DEF ReserveCreates, CanTouch, Makers
    <3> QED BY <1>1, <1>2, <1>3, <1>6, <3>1, <3>2 DEF HeldBy, Slots
  <2> QED BY <2>1, <2>2
<1>7. ASSUME ~killed, NEW c \in Names PROVE MadeBy(j, c)'
  BY <1>1, <1>2, <1>3, <1>4, <1>7 DEF MadeBy, Making
<1> QED BY <1>4, <1>5, <1>6, <1>7 DEF Ended

LEMMA AnyEnds ==
  ASSUME Typed, IInv, Ends, NEW j \in Jobs, Step(j) \/ KillHost(j) \/ KillHelper(j)
  PROVE  Ended(j)
<1>1. ASSUME Reserve(j) PROVE Ended(j)
  BY <1>1, ReserveTakesEnds, ReserveExistsEnds DEF Reserve
<1> QED
  BY <1>1, PredictEnds, SpawnFailsEnds, SpawnEnds, WriteTmpEnds, EncodeEndsEnds, WriteFailsEnds,
     RenameEnds, MoveLandsEnds, CopyStartsEnds, CopyLandsEnds, LandingFailsEnds, DropLooksEnds,
     DropRemovesEnds, HelperExitsEnds, VerbReturnsEnds, KillHostEnds, KillHelperEnds
     DEF Step

LEMMA EndsNext == ASSUME Typed, IInv, Ends, [Next]_vars PROVE Ends'
<1>1. ASSUME NEW j \in Jobs, Step(j) \/ KillHost(j) \/ KillHelper(j) PROVE Ends'
  <2>1. Ended(j) /\ Outcome(j)
    BY <1>1, AnyEnds, AnyStep
  <2>2. ASSUME NEW k \in Jobs PROVE Told(k)'
    <3>1. CASE k = j
      BY <2>1, <3>1 DEF Ended
    <3>2. CASE k # j
      <4>1. job'[k] = job[k] /\ Told(k) /\ (killed => killed')
        BY <2>1, <3>2 DEF Outcome, OthersSame, Ended, Ends
      <4> QED BY <4>1 DEF Told, ReportsTruly
    <3> QED BY <3>1, <3>2
  <2>3. ASSUME ~killed', NEW c \in Names PROVE Tidy(c)'
    <3>1. /\ Tidy(c) /\ HeldBy(j, c)' /\ MadeBy(j, c)'
          /\ dir'[c] = dir[c] \/ dir'[c].by = j \/ dir'[c] = NoFile
          /\ tmp'[c] = tmp[c] \/ tmp'[c].by = j \/ tmp'[c] = NoFile
      BY <2>1, <2>3 DEF Ended, Ends
    <3>2. \A k \in Jobs \ {j} : job'[k] = job[k]
      BY <2>1 DEF Outcome, OthersSame
    <3>3. dir'[c].is = "held" =>
              dir'[c].by \in Jobs /\ ~job'[dir'[c].by].barred /\ c \in {job'[dir'[c].by].slot, job'[dir'[c].by].outer}
      BY <3>1, <3>2, NameFacts DEF Tidy, HeldBy, Slots
    <3>4. tmp'[c] # NoFile =>
              /\ tmp'[c].by \in Jobs
              /\ job'[tmp'[c].by].pc \in {"encode", "rename"} /\ job'[tmp'[c].by].out = c
      BY <3>1, <3>2 DEF Tidy, MadeBy, Making
    <3> QED BY <3>3, <3>4 DEF Tidy, Slots, Making
  <2> QED BY <2>2, <2>3 DEF Ends
<1>2. CASE OtherCreates \/ OtherDeletes
  <2>1. job' = job /\ tmp' = tmp /\ killed' = killed
    BY <1>2 DEF OtherCreates, OtherDeletes
  <2>2. \A c \in Names : dir'[c] = dir[c] \/ dir'[c].is # "held"
    <3>1. CASE OtherCreates
      <4>1. PICK c \in Names, is \in {"empty", "whole"} : dir' = [dir EXCEPT ![c] = File(Other, is)]
        BY <3>1 DEF OtherCreates
      <4>2. File(Other, is).is = is
        BY NameFacts DEF Makers
      <4> QED BY <4>1, <4>2 DEF Typed
    <3>2. CASE OtherDeletes
      <4>1. PICK c \in Names : dir' = [dir EXCEPT ![c] = NoFile]
        BY <3>2 DEF OtherDeletes
      <4> QED BY <4>1, NameFacts DEF Typed
    <3> QED BY <1>2, <3>1, <3>2
  <2>3. \A j \in Jobs : Told(j)'
    BY <2>1 DEF Ends, Told, ReportsTruly
  <2>4. ASSUME ~killed', NEW c \in Names PROVE Tidy(c)'
    BY <2>1, <2>2, <2>4 DEF Ends, Tidy, Slots, Making
  <2> QED BY <2>3, <2>4 DEF Ends
<1>3. CASE UNCHANGED vars
  BY <1>3 DEF vars, Ends, Told, ReportsTruly, Tidy, Slots, Making
<1> QED BY <1>1, <1>2, <1>3 DEF Next

LEMMA EndsAlways == Spec => []Ends
<1>1. Init => Ends
  <2> SUFFICES ASSUME Init PROVE Ends
    OBVIOUS
  <2>1. ASSUME NEW j \in Jobs PROVE Told(j)
    <3>1. PICK kind \in Kinds, stem \in Stems, barred \in BOOLEAN : job[j] = Start(kind, stem, barred)
      BY DEF Init
    <3>2. /\ job[j].pc \in {"predict", "reserve"} /\ job[j].told = None /\ job[j].alive = TRUE
      BY <3>1 DEF Start
    <3> QED BY <3>2 DEF Told
  <2>2. \A c \in Names : Tidy(c)
    BY NameFacts DEF Init, Tidy
  <2> QED BY <2>1, <2>2 DEF Ends
<1>2. Typed /\ IInv /\ Ends /\ [Next]_vars => Ends'
  BY EndsNext
<1> QED BY <1>1, <1>2, Invariant, PTL DEF Spec

\* A verb that was given its output path reports the file it wrote and none when it failed,
\* also when the helper could not start and the fallback took another name (convert_one).
THEOREM AlwaysReportsItsOutput == Spec => []ReportsItsOutput
<1>1. Ends => ReportsItsOutput
  BY DEF Ends, Told, ReportsItsOutput
<1> QED BY <1>1, EndsAlways, PTL

\* When every verb has returned and nothing was killed, no placeholder and no temporary is
\* left, whichever steps failed (OutSlot::drop, write_atomic).
THEOREM NeverLitters == Spec => []NoLitter
<1>1. Typed /\ IInv /\ Ends => NoLitter
  <2> SUFFICES ASSUME Typed, IInv, Ends, \A j \in Jobs : Idle(j), ~killed, NEW c \in Names
               PROVE  dir[c].is # "held" /\ tmp[c] = NoFile
    BY DEF NoLitter
  <2>1. Tidy(c)
    BY DEF Ends
  <2>2. \A j \in Jobs : Slots(j) = {None} /\ ~Making(j, c)
    BY DEF IInv, Good, Shape, Idle, Slots, Making
  <2> QED BY <2>1, <2>2, NamesAssumption DEF Tidy
<1> QED BY <1>1, Invariant, EndsAlways, PTL
=============================================================================
