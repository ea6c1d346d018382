------------------------------ MODULE MCRequests ------------------------------
(* Instances of IngestRequests for TLC. *)
EXTENDS IngestRequests, TLC

\* calls are interchangeable (only in runs without liveness)
CallSymmetry == Permutations(Calls)
=============================================================================
