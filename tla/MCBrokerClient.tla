------------------------------ MODULE MCBrokerClient ------------------------------
(* Requests for checking BrokerClient with TLC.  There is no symmetry: the *)
(* run checks a liveness property.                                         *)
EXTENDS BrokerClient

CONSTANTS t1, t2, q1, w1

TwoTriggers == {t1, t2}
OneQuery    == {q1}
OneWorker   == {w1}

Batches == [t \in TwoTriggers |-> IF t = t1 THEN 2 ELSE 1]
=============================================================================
