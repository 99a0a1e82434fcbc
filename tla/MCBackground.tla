--------------------------- MODULE MCBackground ---------------------------
(* Instances of Background for TLC. *)
EXTENDS Background, TLC

Symmetry == Permutations(Records) \cup Permutations(Writers \ {Crawler})
=============================================================================
