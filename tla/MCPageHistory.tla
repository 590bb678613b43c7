------------------------------- MODULE MCPageHistory -------------------------------
(*******************************************************************************)
(* Instances of PageHistory for TLC.                                            *)
(*******************************************************************************)
EXTENDS PageHistory

CONSTANTS a, b, c

MCIds == {a, b, c}
Symmetry == Permutations(MCIds)
================================================================================
