------------------------------ MODULE RequestOnce ------------------------------
(***************************************************************************)
(* What ingest_requests promises the clients of the write and review       *)
(* routes: a request_id is bound to the first payload it is seen with, is  *)
(* executed at most once, and ends as done or failed for good. Only the    *)
(* payload it is bound to is ever answered with its result.                *)
(***************************************************************************)
EXTENDS Naturals, Sequences

CONSTANTS Requests, Payloads, NoPayload

VARIABLES
  outcome,   \* what became of each request, and the payload it is bound to
  effects,   \* the payloads executed for each request, in order
  answered   \* <<request, payload>> pairs answered with a result

vars == <<outcome, effects, answered>>

Init ==
  /\ outcome = [r \in Requests |-> [state |-> "new", payload |-> NoPayload]]
  /\ effects = [r \in Requests |-> <<>>]
  /\ answered = {}

Accept(r, p) ==
  /\ outcome[r].state = "new"
  /\ outcome' = [outcome EXCEPT ![r] = [state |-> "open", payload |-> p]]
  /\ UNCHANGED <<effects, answered>>

Complete(r) ==
  /\ outcome[r].state = "open"
  /\ outcome' = [outcome EXCEPT ![r].state = "done"]
  /\ effects' = [effects EXCEPT ![r] = <<outcome[r].payload>>]
  /\ UNCHANGED answered

Fail(r) ==
  /\ outcome[r].state = "open"
  /\ outcome' = [outcome EXCEPT ![r].state = "failed"]
  /\ UNCHANGED <<effects, answered>>

Answer(r) ==
  /\ outcome[r].state = "done"
  /\ answered' = answered \cup {<<r, outcome[r].payload>>}
  /\ UNCHANGED <<outcome, effects>>

Settle(r) == Complete(r) \/ Fail(r)

Next == \E r \in Requests : (\E p \in Payloads : Accept(r, p)) \/ Settle(r) \/ Answer(r)

SafeSpec == Init /\ [][Next]_vars

Spec == SafeSpec /\ \A r \in Requests : WF_vars(Settle(r))
=============================================================================
