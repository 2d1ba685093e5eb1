------------------------------ MODULE MCSyncBatch -----------------------------
(* Predictions and batches for checking SyncBatch with TLC. *)
EXTENDS SyncBatch

CONSTANTS p1, p2, p3, b1, b2

ThreePredictions == {p1, p2, p3}
OneMalformed     == {p3}
TwoBatches       == {b1, b2}
=============================================================================
