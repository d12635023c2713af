---------------------------- MODULE MCIndexSync ----------------------------
(* Small instances of IndexSync for TLC.  No definition of IndexSync tells *)
(* two keys or two editors apart, so the safety run may use the symmetry.  *)
EXTENDS IndexSync, TLC

CONSTANTS k1, k2, e1, e2, w1

OneKey == {k1}
TwoKeys == {k1, k2}
TwoEditors == {e1, e2}
OneWorker == {w1}
Symmetry == Permutations(TwoKeys) \cup Permutations(TwoEditors)
=============================================================================
