-------------------------- MODULE MCStreamInstances --------------------------
(* Small instances of StreamInstances. *)
EXTENDS StreamInstances, TLC

Symmetry == Permutations(Obj)
=============================================================================
