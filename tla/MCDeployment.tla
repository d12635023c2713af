---------------------------- MODULE MCDeployment ----------------------------
(* A small instance of Deployment: a first page of one hit, two documents. *)
EXTENDS Deployment

CONSTANTS d1, d2, p1, p2

TwoDocs == {d1, d2}
OneValue == {Value}
TwoCallers == {p1, p2}
Symmetry == Permutations(TwoDocs) \cup Permutations(TwoCallers)
=============================================================================
