--------------------------- MODULE MCSettingsSync ---------------------------
(* Two values and two threads: enough for a pull or an old push to overlap   *)
(* a new push, and for a disconnect to overlap either.                       *)
EXTENDS SettingsSync, TLC

Symmetry == Permutations(Workers)
SymmetryOfAccounts == Permutations(Workers) \cup Permutations(Accounts)
=============================================================================
