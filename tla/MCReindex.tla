----------------------------- MODULE MCReindex -----------------------------
(* Small instances of Reindex for TLC.                                     *)
EXTENDS Reindex, TLC

CONSTANTS d1, d2, r1, r2, w1

TwoDocs == {d1, d2}
OneRunner == {r1}
TwoRunners == {r1, r2}
OneWriter == {w1}
Symmetry == Permutations(TwoDocs) \cup Permutations(TwoRunners)
=============================================================================
