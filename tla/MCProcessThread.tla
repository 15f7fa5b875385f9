--------------------------- MODULE MCProcessThread ---------------------------
(* ProcessThread on small instances. *)
EXTENDS ProcessThread

CONSTANTS m1, m2

Symmetry == Permutations(Modules)
==============================================================================
