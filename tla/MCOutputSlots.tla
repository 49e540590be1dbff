---------------------------- MODULE MCOutputSlots ----------------------------
(* Instances of OutputSlots for TLC. *)
EXTENDS OutputSlots, TLC

Symmetry == Permutations(Jobs)
=============================================================================
