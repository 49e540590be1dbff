------------------------------ MODULE Sifting -------------------------------
(* What is left of a list: how the loops that copy some rows of a list, in   *)
(* their order, to a new one are written here (menu.rs, settings_dlg).       *)
EXTENDS SequencesExt

\* the items of s at the places in K
Sift(s, K) == FlattenSeq([n \in DOMAIN s |-> IF n \in K THEN <<s[n]>> ELSE <<>>])
=============================================================================
