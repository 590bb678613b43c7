-------------------------------- MODULE MCResultSet --------------------------------
(*******************************************************************************)
(* Instances of ResultSet for TLC.                                              *)
(*******************************************************************************)
EXTENDS ResultSet

CONSTANTS c1, c2, none

MCRows == 1 .. 3
MCCriteria == {c1, c2}
\* Rows of both criteria mixed, and a row that is yet to come
MCServers == UNION {{<<a, a, none>>, <<a, b, a>>} : <<a, b>> \in {<<c1, c2>>, <<c2, c1>>}}
Symmetry == Permutations(MCCriteria)
================================================================================
