--------------------------- MODULE MCBulkControl ---------------------------
(* Symmetries of the constants of BulkControl.                             *)
EXTENDS BulkControl, TLC

JobSymmetry == Permutations(Jobs)
=============================================================================
