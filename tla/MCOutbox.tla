------------------------------- MODULE MCOutbox -------------------------------
(* Instances of OutboxQueue for TLC.                                       *)
EXTENDS OutboxQueue, TLC

CONSTANTS w1, w2, op1

OneWorker  == {w1}
TwoWorkers == {w1, w2}
NoOne      == {}
OneReplay  == {op1}

\* the workers are interchangeable (only in runs without liveness)
WorkerSymmetry == Permutations(Workers)
=============================================================================
