------------------------- MODULE MCPredictionPipeline -------------------------
(* Model values and symmetry for checking PredictionPipeline with TLC. *)
EXTENDS PredictionPipeline, TLC

CONSTANTS good1, good2, bad, w1, w2, t1, t2

GoodPair  == {good1, good2}
GoodBad   == {good1, bad}
OneGood   == {good1}
OneBad    == {bad}
OneWorker   == {w1}
TwoWorkers  == {w1, w2}
TwoTriggers == {t1, t2}
OneTrigger  == {t1}
NoneMalformed == {}

Symmetry == Permutations(TwoWorkers) \cup Permutations(TwoTriggers)
=============================================================================
