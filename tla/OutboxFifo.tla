------------------------------ MODULE OutboxFifo ------------------------------
(***************************************************************************)
(* What the outbox promises its producers: rows are settled strictly in    *)
(* the order they were written. Each one is either dispatched (its         *)
(* memories are in Qdrant) or dead-lettered, and none is passed over.      *)
(***************************************************************************)
EXTENDS Naturals

CONSTANT NumEvents

VARIABLE outcome

Events  == 1..NumEvents
Outcome == {"absent", "open", "dispatched", "dead"}
Settled(e) == outcome[e] \in {"dispatched", "dead"}

Init == outcome = [e \in Events |-> "absent"]

Write(e) ==
  /\ outcome[e] = "absent"
  /\ \A d \in Events : d < e => outcome[d] # "absent"
  /\ outcome' = [outcome EXCEPT ![e] = "open"]

Settle(e) ==
  /\ outcome[e] = "open"
  /\ \A d \in Events : d < e => Settled(d)
  /\ \E o \in {"dispatched", "dead"} : outcome' = [outcome EXCEPT ![e] = o]

Next == \E e \in Events : Write(e) \/ Settle(e)

Fairness == WF_outcome(\E e \in Events : Settle(e))

Spec == Init /\ [][Next]_outcome /\ Fairness

SafeSpec == Init /\ [][Next]_outcome
=============================================================================
