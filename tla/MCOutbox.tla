------------------------------ MODULE MCOutbox ------------------------------
(* Outbox with few events and overlapping executions.                      *)
EXTENDS Outbox, TLC

CONSTANTS w1, w2, w3

TwoWorkers   == {w1, w2}
ThreeWorkers == {w1, w2, w3}
OneWorker    == {w1}

WorkerSymmetry == Permutations(Workers)
=============================================================================
