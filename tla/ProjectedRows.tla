----------------------------- MODULE ProjectedRows -----------------------------
(***************************************************************************)
(* What the Qdrant projection is told of memory_records: of every row, what *)
(* projectionLifecycleOperation makes of it, and of every transaction, the *)
(* rows it writes an outbox row for. MemoryMaintenance implements it, and  *)
(* QdrantProjection rests on it.                                           *)
(***************************************************************************)
CONSTANT Ids

VARIABLES
  class, \* what the projection owes each row
  said   \* the rows announced by the last transaction

\* absent: no row. live: upsert its point. gone: delete it. held: neither
Class == {"absent", "held", "live", "gone"}

\* the classes c become d in a transaction that announces the rows of s: rows
\* are not deleted, a new row is announced, and a row changes class unannounced
\* only by being taken out of recall
Allowed(c, d, s) ==
  \A i \in Ids :
    /\ d[i] = "absent" => c[i] = "absent"
    /\ i \in s \/ d[i] = c[i] \/ (c[i] # "absent" /\ d[i] \in {"gone", "held"})

RowsInit == class = [i \in Ids |-> "absent"] /\ said = {}

RowsChange ==
  /\ class' \in [Ids -> Class]
  /\ said' \subseteq Ids
  /\ Allowed(class, class', said')

RowsSpec == RowsInit /\ [][RowsChange]_<<class, said>>
=============================================================================
