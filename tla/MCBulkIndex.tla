---------------------------- MODULE MCBulkIndex ----------------------------
(* Small instances of BulkIndex for TLC.                                   *)
EXTENDS BulkIndex

CONSTANTS w1, w2

TwoWorkers == {w1, w2}
=============================================================================
