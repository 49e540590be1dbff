-------------------------- MODULE MCModuleLifetime --------------------------
(* The smallest instance of ModuleLifetime: one worker, and the verb it runs. *)
EXTENDS ModuleLifetime

MCCap == [k \in CappedKinds |-> 1]
=============================================================================
