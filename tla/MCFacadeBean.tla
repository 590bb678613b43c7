------------------------------- MODULE MCFacadeBean -------------------------------
(*******************************************************************************)
(* Instances of FacadeBean for TLC.                                             *)
(*******************************************************************************)
EXTENDS FacadeBean, TLC

CONSTANTS c1, c2, c3, c4

TwoClients == {c1, c2}
FourClients == {c1, c2, c3, c4}
ClientSymmetry == Permutations(FourClients)
================================================================================
