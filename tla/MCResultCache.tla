--------------------------- MODULE MCResultCache ---------------------------
(* A small instance of ResultCache for TLC. *)
EXTENDS ResultCache

CONSTANTS q1, q2, s1, s2, w1

TwoQueries == {q1, q2}
TwoSearchers == {s1, s2}
OneWriter == {w1}
=============================================================================
