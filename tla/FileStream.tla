----------------------------- MODULE FileStream -----------------------------
(* What an IStream over a file promises the demuxer: a read answers with the *)
(* bytes at the position, in order, possibly fewer than asked for, and moves *)
(* the position past them; a seek goes anywhere, also beyond the end.        *)
(* A byte is the number of its place in the file.                            *)
EXTENDS Naturals, FiniteSetsExt

CONSTANTS Size, MaxAsk, Positions

VARIABLES at, answer

streamVars == <<at, answer>>

Bytes(from, n) == [i \in 1 .. n |-> from + i - 1]
Left(from) == IF from < Size THEN Size - from ELSE 0

StreamInit == at = 0 /\ answer = <<>>

ReadSome(n) ==
    /\ n <= MaxAsk /\ n <= Left(at)
    /\ answer' = Bytes(at, n) /\ at' = at + n

SeekTo(p) == at' = p /\ UNCHANGED answer

StreamNext == (\E n \in 0 .. MaxAsk : ReadSome(n)) \/ (\E p \in Positions : SeekTo(p))

StreamSpec == StreamInit /\ [][StreamNext]_streamVars
=============================================================================
