----------------------------- MODULE MCProjection -----------------------------
(* An instance of QdrantProjection for TLC. *)
EXTENDS QdrantProjection

CONSTANTS m1, operator

\* a transaction, an event and a sync deal with one row
Alone == {{m1}}
=============================================================================
