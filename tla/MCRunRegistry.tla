---------------------------- MODULE MCRunRegistry ---------------------------
(* Model values and symmetry for RunRegistry.                              *)
EXTENDS RunRegistry, TLC

Symmetry == Permutations(Run) \cup Permutations(Handler)
=============================================================================
