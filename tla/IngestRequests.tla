---------------------------- MODULE IngestRequests ----------------------------
(***************************************************************************)
(* Request idempotency of the write and review services: the rows of       *)
(* ingest_requests, RequestIdempotencyService.register and markFailed, the *)
(* mutation transaction of CreateMemoryService.execute and                 *)
(* executeReviewMutation around them, and the sweep of expired leases.     *)
(*                                                                         *)
(* register reads the row with a plain SELECT and decides on what it read; *)
(* the statement that then touches or recovers the row holds its lock      *)
(* until COMMIT. The mutation and markCompleted commit together. What a    *)
(* mutation writes is abstracted to one effect, numbered per request.      *)
(***************************************************************************)
EXTENDS Integers, Sequences, FiniteSets

CONSTANTS
  Requests,     \* request_id values
  Payloads,     \* payload hashes
  NoPayload,    \* the hash of a row that does not exist
  Calls,        \* calls of the services in flight at one time
  MaxFaults,    \* bound on crashes and on lost answers of the database
  LostAnswers,  \* TRUE: the answer to a COMMIT, or markFailed, may be lost
  LeaseHolds    \* TRUE: the 120 s lease never expires under a running call

ASSUME RequestAssumption ==
  /\ NoPayload \notin Payloads
  /\ MaxFaults \in Nat
  /\ LostAnswers \in BOOLEAN
  /\ LeaseHolds \in BOOLEAN

VARIABLES
  row,      \* ingest_requests: status, payload_hash, result_json, recoverable
  call,     \* what each call holds between two steps
  effects,  \* history: the payloads executed for each request, in order
  replies,  \* history: results returned to clients
  faults    \* faults spent

vars == <<row, call, effects, replies, faults>>

Status == {"absent", "accepted", "completed", "failed"}

\* result is the number of the effect that result_json describes, 0 for NULL
Row == [status: Status, payload: Payloads \cup {NoPayload}, result: Nat, recoverable: BOOLEAN]

Absent == [status |-> "absent", payload |-> NoPayload, result |-> 0, recoverable |-> FALSE]

(***************************************************************************)
(* A call: idle; registering (register has read the row into seen);        *)
(* executing (accepted, its mutation transaction runs); committed (the     *)
(* transaction is in, post-commit effects run); failing (the transaction   *)
(* threw, markFailed is about to run).                                     *)
(***************************************************************************)
Phase == {"idle", "registering", "executing", "committed", "failing"}

Idle == [phase |-> "idle"]

Call == {Idle}
  \cup [phase: {"registering"}, request: Requests, payload: Payloads, seen: Row]
  \cup [phase: {"executing", "failing"}, request: Requests, payload: Payloads]
  \cup [phase: {"committed"}, request: Requests, payload: Payloads, effect: Nat]

Reply == [request: Requests, payload: Payloads, effect: Nat]

Init ==
  /\ row = [r \in Requests |-> Absent]
  /\ call = [c \in Calls |-> Idle]
  /\ effects = [r \in Requests |-> <<>>]
  /\ replies = {}
  /\ faults = 0

-----------------------------------------------------------------------------
(* Helpers                                                                 *)

\* call c is in one of these phases, for request r
In(c, r, phases) == call[c].phase \in phases /\ call[c].request = r

\* some call still believes it owns the accepted row of r
Live(r) == \E c \in Calls : In(c, r, {"executing", "failing"})

Recoverable(w) == w.status = "failed" /\ w.recoverable
Replayable(w)  == w.status = "completed" /\ w.result # 0

Finish(c) == call' = [call EXCEPT ![c] = Idle]

Run(c, r, p) ==
  call' = [call EXCEPT ![c] = [phase |-> "executing", request |-> r, payload |-> p]]

AcceptedRow(p) == [status |-> "accepted", payload |-> p, result |-> 0, recoverable |-> FALSE]

-----------------------------------------------------------------------------
(* RequestIdempotencyService.register                                      *)

\* findByRequestId: the row as this transaction's first statement sees it
Submit(c, r, p) ==
  /\ call[c].phase = "idle"
  /\ call' = [call EXCEPT ![c] = [phase |-> "registering", request |-> r, payload |-> p,
                                  seen |-> row[r]]]
  /\ UNCHANGED <<row, effects, replies, faults>>

\* Variant: the insert does not look for a conflicting row
Insert_Overwrites(c) ==
  /\ call[c].phase = "registering"
  /\ call[c].seen.status = "absent"
  /\ LET r == call[c].request
         p == call[c].payload
     IN /\ row' = [row EXCEPT ![r] = AcceptedRow(p)]
        /\ Run(c, r, p)
  /\ UNCHANGED <<effects, replies, faults>>

\* insertAccepted: ON CONFLICT DO NOTHING; on a conflict the row is read again
Insert(c) ==
  /\ call[c].phase = "registering"
  /\ call[c].seen.status = "absent"
  /\ LET r == call[c].request
         p == call[c].payload
     IN \/ /\ row[r].status = "absent"
           /\ row' = [row EXCEPT ![r] = AcceptedRow(p)]
           /\ Run(c, r, p)
        \/ /\ row[r].status # "absent"
           /\ call' = [call EXCEPT ![c].seen = row[r]]
           /\ UNCHANGED row
  /\ UNCHANGED <<effects, replies, faults>>

\* Variant: the payload hash is not compared
SamePayload_Any(c) == TRUE

SamePayload(c) == call[c].seen.payload = call[c].payload

\* resolvePersistedRequest, after touch: what was read is an existing row
Resolving(c) == call[c].phase = "registering" /\ call[c].seen.status # "absent"

\* RequestPayloadConflictError, or RequestAlreadyInFlightError
Reject(c) ==
  /\ Resolving(c)
  /\ \/ ~SamePayload(c)
     \/ call[c].seen.status = "accepted"
     \/ call[c].seen.status = "completed" /\ ~Replayable(call[c].seen)
  /\ Finish(c)
  /\ UNCHANGED <<row, effects, replies, faults>>

\* kind "replayed": the stored result is returned
Replay(c) ==
  /\ Resolving(c)
  /\ SamePayload(c)
  /\ Replayable(call[c].seen)
  /\ replies' = replies \cup {[request |-> call[c].request, payload |-> call[c].payload,
                               effect |-> call[c].seen.result]}
  /\ Finish(c)
  /\ UNCHANGED <<row, effects, faults>>

\* Variant: recoverAccepted trusts the row register has read
Recover_Unconditional(c) ==
  /\ Resolving(c)
  /\ SamePayload(c)
  /\ Recoverable(call[c].seen)
  /\ LET r == call[c].request
     IN /\ row' = [row EXCEPT ![r] = AcceptedRow(row[r].payload)]
        /\ Run(c, r, call[c].payload)
  /\ UNCHANGED <<effects, replies, faults>>

\* recoverAccepted: a conditional UPDATE, so of two recoveries one succeeds
Recover(c) ==
  /\ Resolving(c)
  /\ SamePayload(c)
  /\ Recoverable(call[c].seen)
  /\ LET r == call[c].request
     IN /\ Recoverable(row[r])
        /\ row' = [row EXCEPT ![r] = AcceptedRow(row[r].payload)]
        /\ Run(c, r, call[c].payload)
  /\ UNCHANGED <<effects, replies, faults>>

\* RequestAlreadyFailedError: failed for good, or another call recovered it first
Refuse(c) ==
  /\ Resolving(c)
  /\ SamePayload(c)
  /\ call[c].seen.status = "failed"
  /\ Recoverable(call[c].seen) => ~Recoverable(row[call[c].request])
  /\ Finish(c)
  /\ UNCHANGED <<row, effects, replies, faults>>

Register(c) == Insert(c) \/ Reject(c) \/ Replay(c) \/ Recover(c) \/ Refuse(c)

-----------------------------------------------------------------------------
(* The mutation transaction and what follows it                            *)

Completed(r, n) == [row[r] EXCEPT !.status = "completed", !.result = n, !.recoverable = FALSE]

\* Variant: markCompleted runs in a transaction that is never committed
Apply_NotMarked(c) ==
  LET r == call[c].request
  IN /\ call[c].phase = "executing"
     /\ effects' = [effects EXCEPT ![r] = Append(@, call[c].payload)]
     /\ UNCHANGED row

\* the mutation and markCompleted (which does not look at the status) commit
Apply(c) ==
  LET r == call[c].request
  IN /\ call[c].phase = "executing"
     /\ effects' = [effects EXCEPT ![r] = Append(@, call[c].payload)]
     /\ row' = [row EXCEPT ![r] = Completed(r, Len(effects[r]) + 1)]

Commit(c) ==
  /\ Apply(c)
  /\ LET r == call[c].request
     IN call' = [call EXCEPT ![c] = [phase |-> "committed", request |-> r,
                                     payload |-> call[c].payload,
                                     effect |-> Len(effects[r]) + 1]]
  /\ UNCHANGED <<replies, faults>>

Fail(c) ==
  LET r == call[c].request
  IN call' = [call EXCEPT ![c] = [phase |-> "failing", request |-> r, payload |-> call[c].payload]]

\* the COMMIT took effect, its answer did not arrive: the catch block runs
CommitAnswerLost(c) ==
  /\ LostAnswers
  /\ faults < MaxFaults
  /\ Apply(c)
  /\ Fail(c)
  /\ faults' = faults + 1
  /\ UNCHANGED <<replies>>

\* a domain error, a constraint violation or a lost connection: ROLLBACK
Abort(c) ==
  /\ call[c].phase = "executing"
  /\ Fail(c)
  /\ UNCHANGED <<row, effects, replies, faults>>

\* markFailed sets no result_json and does not look at the status
FailedRow(r) == [row[r] EXCEPT !.status = "failed", !.recoverable = FALSE]

MarkFailed(c) ==
  /\ call[c].phase = "failing"
  /\ row' = [row EXCEPT ![call[c].request] = FailedRow(call[c].request)]
  /\ Finish(c)
  /\ UNCHANGED <<effects, replies, faults>>

\* the database cannot be reached for markFailed either: the row stays accepted
MarkFailedLost(c) ==
  /\ LostAnswers
  /\ faults < MaxFaults
  /\ call[c].phase = "failing"
  /\ Finish(c)
  /\ faults' = faults + 1
  /\ UNCHANGED <<row, effects, replies>>

\* post-commit effects are done (their errors are swallowed): the result is returned
Return(c) ==
  /\ call[c].phase = "committed"
  /\ replies' = replies \cup {[request |-> call[c].request, payload |-> call[c].payload,
                               effect |-> call[c].effect]}
  /\ Finish(c)
  /\ UNCHANGED <<row, effects, faults>>

\* the process of the call ends; an open transaction is rolled back
Crash(c) ==
  /\ faults < MaxFaults
  /\ call[c].phase # "idle"
  /\ Finish(c)
  /\ faults' = faults + 1
  /\ UNCHANGED <<row, effects, replies>>

-----------------------------------------------------------------------------
(* sweep-ingest-accepted.ts: recoverExpiredAccepted                        *)

\* Variant: completed rows are swept too
Expired_AnyStatus(r) ==
  /\ row[r].status \in {"accepted", "completed"}
  /\ LeaseHolds => ~Live(r)

\* the lease is never renewed, so any accepted row may have outlived it;
\* with LeaseHolds only one that no call works on any more
Expired(r) ==
  /\ row[r].status = "accepted"
  /\ LeaseHolds => ~Live(r)

\* Variant: the sweep writes a status the readers do not know
Sweep_OwnStatus(S) ==
  /\ S # {}
  /\ \A r \in S : Expired(r)
  /\ row' = [r \in Requests |->
               IF r \in S THEN [row[r] EXCEPT !.status = "expired", !.recoverable = TRUE]
                          ELSE row[r]]
  /\ UNCHANGED <<call, effects, replies, faults>>

\* one UPDATE over the rows whose lease has expired by now
Sweep(S) ==
  /\ S # {}
  /\ \A r \in S : Expired(r)
  /\ row' = [r \in Requests |->
               IF r \in S THEN [row[r] EXCEPT !.status = "failed", !.recoverable = TRUE]
                          ELSE row[r]]
  /\ UNCHANGED <<call, effects, replies, faults>>

-----------------------------------------------------------------------------
Work(c) == Register(c) \/ Commit(c) \/ Abort(c) \/ MarkFailed(c) \/ Return(c)

Next ==
  \/ \E c \in Calls :
       \/ \E r \in Requests, p \in Payloads : Submit(c, r, p)
       \/ Work(c)
       \/ CommitAnswerLost(c)
       \/ MarkFailedLost(c)
       \/ Crash(c)
  \/ \E S \in SUBSET Requests : Sweep(S)

SafeSpec == Init /\ [][Next]_vars

(***************************************************************************)
(* Fairness: a call that has started runs on; the sweep is run again and   *)
(* again; and the client keeps asking with the payload it first sent       *)
(* (Submit is only enabled while a call is free, hence SF).                *)
(***************************************************************************)
Fairness ==
  /\ \A c \in Calls : WF_vars(Work(c))
  /\ \A r \in Requests :
       /\ WF_vars(\E S \in SUBSET Requests : r \in S /\ Sweep(S))
       /\ SF_vars(\E c \in Calls : Submit(c, r, row[r].payload))

Spec == SafeSpec /\ Fairness

-----------------------------------------------------------------------------
(* Properties                                                              *)

\* Every variable keeps its type.
TypeOK ==
  /\ row \in [Requests -> Row]
  /\ call \in [Calls -> Call]
  /\ effects \in [Requests -> Seq(Payloads)]
  /\ replies \subseteq Reply
  /\ faults \in 0..MaxFaults

\* A request_id is executed at most once, whatever its clients repeat and
\* whoever crashes, as long as the lease outlives the call that holds it.
AtMostOneEffect == \A r \in Requests : Len(effects[r]) <= 1

\* A client is only ever given the result of the payload it sent itself, and
\* only when that payload was executed.
AnswerIsOwn ==
  \A a \in replies : a.effect \in 1..Len(effects[a.request])
                     /\ effects[a.request][a.effect] = a.payload

\* As long as the lease outlives its call, at most one call works on a request,
\* and it works on the payload the accepted row is bound to.
OneOwner ==
  \A c, d \in Calls, r \in Requests :
    In(c, r, {"executing", "failing"}) /\ In(d, r, {"executing", "failing"})
      => c = d /\ call[c].payload = row[r].payload

\* With every answer of the database delivered, a row that is failed for good
\* hides no effect, and a row that shows a result has exactly that effect.
StatusTellsEffect ==
  \A r \in Requests :
    /\ row[r].status = "completed" => Len(effects[r]) = row[r].result
    /\ row[r].status # "completed" => effects[r] = <<>>

\* The rows implement the promise of RequestOnce.
Once == INSTANCE RequestOnce WITH
  outcome  <- [r \in Requests |->
                [state |-> CASE row[r].status = "absent" -> "new"
                             [] row[r].status = "completed" -> "done"
                             [] row[r].status = "failed" /\ ~row[r].recoverable -> "failed"
                             [] OTHER -> "open",
                 payload |-> row[r].payload]],
  answered <- {<<a.request, a.payload>> : a \in replies}

\* Each request_id is bound to its first payload, executed at most once and
\* settled for good; only its own payload is answered; and every accepted
\* request is settled, by its call, or by the sweep and a repeated request.
ImplementsOnce == Once!Spec
=============================================================================
