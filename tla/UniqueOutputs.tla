---------------------------- MODULE UniqueOutputs ----------------------------
(* What the file-producing verbs promise about a folder, whoever else writes in *)
(* it: a job publishes at most one file, under a name nobody was using, and the *)
(* programs outside come and go as they please.                                 *)
EXTENDS Naturals

CONSTANTS Jobs, Names, Other, Nobody

VARIABLES
    files,     \* who made the file of each name, or Nobody
    published, \* the jobs that have published
    deletions  \* how many files other programs have deleted

Init ==
    /\ files \in [Names -> {Nobody, Other}]
    /\ published = {}
    /\ deletions = 0

\* convert_file's contract: a non-colliding name, never over an existing file
Publish(j) ==
    /\ j \notin published
    /\ published' = published \union {j}
    /\ \E c \in Names :
        /\ files[c] = Nobody
        /\ files' = [files EXCEPT ![c] = j]
    /\ UNCHANGED deletions

OtherCreates ==
    /\ UNCHANGED <<published, deletions>>
    /\ \E c \in Names :
        /\ files[c] = Nobody /\ files'[c] = Other
        /\ files' = [files EXCEPT ![c] = Other]

\* what is deleted may also be the debris of a killed job, no file to anyone
OtherDeletes ==
    /\ deletions' = deletions + 1
    /\ UNCHANGED published
    /\ \E c \in Names : files' = [files EXCEPT ![c] = Nobody]

Next ==
    \/ \E j \in Jobs : Publish(j)
    \/ OtherCreates
    \/ OtherDeletes

Spec == Init /\ [][Next]_<<files, published, deletions>>
=============================================================================
