--------------------------- MODULE MCConvertDialog ---------------------------
(* An instance of ConvertDialog for TLC: two runs of one dialog on two files, each *)
(* with two workers, so that results may come out of order.                        *)
EXTENDS ConvertDialog, TLC

Symmetry == Permutations(Calls)
=============================================================================
