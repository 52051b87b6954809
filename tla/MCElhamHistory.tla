--------------------------- MODULE MCElhamHistory ---------------------------
(* ElhamHistory on small instances: the values the configurations refer to. *)
EXTENDS ElhamHistory, TLC

Symmetry == Permutations(Instance)
=============================================================================
