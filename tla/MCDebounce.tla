----------------------------- MODULE MCDebounce -----------------------------
(* Small instances of Debounce for TLC: the sets the .cfg files choose     *)
(* from, and the symmetry of documents and of web processes, which the     *)
(* safety runs may use because no definition of Debounce tells two of them *)
(* apart.                                                                  *)
EXTENDS Debounce, TLC

CONSTANTS d1, d2, w1, w2, f1, f2

OneDoc == {d1}
TwoDocs == {d1, d2}
OneWriter == {w1}
TwoWriters == {w1, w2}
OneFlusher == {f1}
TwoFlushers == {f1, f2}
Symmetry == Permutations(TwoDocs) \cup Permutations(TwoWriters)
=============================================================================
