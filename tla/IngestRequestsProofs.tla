------------------------- MODULE IngestRequestsProofs -------------------------
(***************************************************************************)
(* Request idempotency for every set of requests, payloads and calls:      *)
(*  - with any number of crashes and lost database answers, as long as the *)
(*    lease outlives the call that holds it, a request is executed at most *)
(*    once and worked on by one call at a time;                            *)
(*  - whatever happens to leases, calls and answers, a call is answered    *)
(*    with an effect of its own request and payload;                       *)
(*  - if moreover no answer of the database is lost, the status of a row   *)
(*    tells whether there was an effect, and every step is one that        *)
(*    RequestOnce promises.                                                *)
(***************************************************************************)
EXTENDS IngestRequests, SequenceTheorems, TLAPS

Working == {"executing", "failing"}

(***************************************************************************)
(* The strengthening. A call that works on a request owns its row: nobody  *)
(* else works on it, and the row is in a state no other call can take up.  *)
(* An effect is only there once the row has left the states from which a   *)
(* call can be accepted.                                                   *)
(***************************************************************************)
ExecutingOwns ==
  \A c \in Calls, r \in Requests :
    In(c, r, {"executing"}) => row[r].status = "accepted" /\ call[c].payload = row[r].payload

FailingOwns ==
  \A c \in Calls, r \in Requests :
    In(c, r, {"failing"}) => /\ row[r].status \in {"accepted", "completed"}
                             /\ call[c].payload = row[r].payload

Alone ==
  \A c, d \in Calls, r \in Requests : In(c, r, Working) /\ In(d, r, Working) => c = d

EffectShuts ==
  \A r \in Requests :
    /\ Len(effects[r]) <= 1
    /\ effects[r] # <<>> => \/ row[r].status = "completed"
                            \/ row[r].status = "failed" /\ ~row[r].recoverable

\* A payload once bound to a request_id stays bound, so what register has read of
\* it is still true when it decides.
SeenBound ==
  \A c \in Calls :
    call[c].phase = "registering" /\ call[c].seen.status # "absent"
      => /\ row[call[c].request].status # "absent"
         /\ row[call[c].request].payload = call[c].seen.payload

Ownership == ExecutingOwns /\ FailingOwns /\ Alone /\ EffectShuts

-----------------------------------------------------------------------------
\* Every variable keeps its type, whatever the constants.
THEOREM TypeCorrect == SafeSpec => []TypeOK
<1>. USE RequestAssumption DEF TypeOK
<1>1. Init => TypeOK
  BY DEF Init, Row, Absent, Status, Call, Idle, Reply
<1>2. TypeOK /\ [Next]_vars => TypeOK'
  <2>. SUFFICES ASSUME TypeOK, [Next]_vars PROVE TypeOK'
    OBVIOUS
  <2>1. ASSUME NEW c \in Calls, NEW r \in Requests, NEW p \in Payloads, Submit(c, r, p)
        PROVE  TypeOK'
    BY <2>1 DEF Submit, Call
  <2>2. ASSUME NEW c \in Calls, call[c].phase = "registering"
        PROVE  /\ call[c] \in [phase: {"registering"}, request: Requests, payload: Payloads, seen: Row]
               /\ call[c].request \in Requests
               /\ call[c].payload \in Payloads
               /\ call[c].seen \in Row
               /\ row[call[c].request] \in Row
    BY <2>2 DEF Call, Idle
  <2>3. ASSUME NEW c \in Calls, call[c].phase \in {"executing", "failing", "committed"}
        PROVE  /\ call[c].request \in Requests
               /\ call[c].payload \in Payloads
               /\ row[call[c].request] \in Row
               /\ effects[call[c].request] \in Seq(Payloads)
               /\ call[c].phase = "committed" => call[c].effect \in Nat
    BY <2>3 DEF Call, Idle
  <2>4. ASSUME NEW c \in Calls PROVE Finish(c) => call' \in [Calls -> Call]
    BY DEF Finish, Call
  <2>5. ASSUME NEW c \in Calls, NEW r \in Requests, NEW p \in Payloads
        PROVE  Run(c, r, p) => call' \in [Calls -> Call]
    BY DEF Run, Call
  <2>6. ASSUME NEW p \in Payloads PROVE AcceptedRow(p) \in Row
    BY DEF AcceptedRow, Row, Status
  <2>7. ASSUME NEW c \in Calls, Insert(c) PROVE TypeOK'
    <3>0. call[c].request \in Requests /\ call[c].payload \in Payloads
      BY <2>2, <2>7 DEF Insert
    <3>1. CASE row[call[c].request].status = "absent"
      <4>1. /\ row' = [row EXCEPT ![call[c].request] = AcceptedRow(call[c].payload)]
            /\ Run(c, call[c].request, call[c].payload)
            /\ UNCHANGED <<effects, replies, faults>>
        BY <2>7, <3>1 DEF Insert
      <4>2. call' \in [Calls -> Call]
        BY <2>5, <3>0, <4>1
      <4>3. row' \in [Requests -> Row]
        BY <2>6, <3>0, <4>1
      <4>. QED BY <4>1, <4>2, <4>3
    <3>2. CASE row[call[c].request].status # "absent"
      <4>. DEFINE d == [call[c] EXCEPT !.seen = row[call[c].request]]
      <4>1. d \in Call
        BY <2>2, <2>7 DEF Call, Insert
      <4>2. call' = [call EXCEPT ![c] = d] /\ UNCHANGED <<row, effects, replies, faults>>
        BY <2>7, <3>2 DEF Insert
      <4>. QED BY <4>1, <4>2
    <3>. QED BY <3>1, <3>2
  <2>8. ASSUME NEW c \in Calls, Reject(c) PROVE TypeOK'
    BY <2>4, <2>8 DEF Reject
  <2>9. ASSUME NEW c \in Calls, Replay(c) PROVE TypeOK'
    BY <2>2, <2>4, <2>9 DEF Replay, Resolving, Reply, Row
  <2>10. ASSUME NEW c \in Calls, Recover(c) PROVE TypeOK'
    <3>1. call[c].seen.payload \in Payloads
      BY <2>2, <2>10 DEF Recover, Resolving, SamePayload
    <3>3. AcceptedRow(row[call[c].request].payload) \in Row
      BY <2>2, <2>10 DEF Recover, Resolving, Row, Status, AcceptedRow
    <3>4. call' \in [Calls -> Call]
      BY <2>2, <2>5, <2>10 DEF Recover, Resolving
    <3>5. row' \in [Requests -> Row]
      BY <2>10, <3>3 DEF Recover
    <3>. QED BY <2>10, <3>4, <3>5 DEF Recover
  <2>11. ASSUME NEW c \in Calls, Refuse(c) PROVE TypeOK'
    BY <2>2, <2>4, <2>11 DEF Refuse, Resolving
  <2>12. ASSUME NEW c \in Calls, Apply(c)
         PROVE  row' \in [Requests -> Row] /\ effects' \in [Requests -> Seq(Payloads)]
    <3>. DEFINE r == call[c].request
    <3>1. Len(effects[r]) + 1 \in Nat
      BY <2>3, <2>12, LenProperties DEF Apply
    <3>2. Completed(r, Len(effects[r]) + 1) \in Row
      BY <2>3, <2>12, <3>1 DEF Apply, Completed, Row, Status
    <3>3. Append(effects[r], call[c].payload) \in Seq(Payloads)
      BY <2>3, <2>12 DEF Apply
    <3>4. row' \in [Requests -> Row]
      BY <2>12, <3>2 DEF Apply
    <3>5. effects' \in [Requests -> Seq(Payloads)]
      BY <2>12, <3>3 DEF Apply
    <3>. QED BY <3>4, <3>5
  <2>13. ASSUME NEW c \in Calls, Commit(c) PROVE TypeOK'
    <3>1. Len(effects[call[c].request]) + 1 \in Nat
      BY <2>3, <2>13, LenProperties DEF Commit, Apply
    <3>2. call' \in [Calls -> Call]
      BY <2>3, <2>13, <3>1 DEF Commit, Apply, Call
    <3>. QED BY <2>12, <2>13, <3>2 DEF Commit
  <2>14. ASSUME NEW c \in Calls, Fail(c), call[c].phase \in {"executing", "failing", "committed"}
         PROVE  call' \in [Calls -> Call]
    BY <2>3, <2>14 DEF Fail, Call
  <2>15. ASSUME NEW c \in Calls, CommitAnswerLost(c) PROVE TypeOK'
    <3>1. Apply(c) /\ Fail(c) /\ call[c].phase = "executing"
      BY <2>15 DEF CommitAnswerLost, Apply
    <3>2. faults' \in 0..MaxFaults /\ UNCHANGED <<replies>>
      BY <2>15 DEF CommitAnswerLost
    <3>3. call' \in [Calls -> Call]
      BY <2>14, <3>1
    <3>. QED BY <2>12, <3>1, <3>2, <3>3
  <2>16. ASSUME NEW c \in Calls, Abort(c) PROVE TypeOK'
    BY <2>14, <2>16 DEF Abort
  <2>17. ASSUME NEW c \in Calls, MarkFailed(c) PROVE TypeOK'
    <3>1. FailedRow(call[c].request) \in Row
      BY <2>3, <2>17 DEF MarkFailed, FailedRow, Row, Status
    <3>. QED BY <2>4, <2>17, <3>1 DEF MarkFailed
  <2>18. ASSUME NEW c \in Calls, MarkFailedLost(c) PROVE TypeOK'
    BY <2>4, <2>18 DEF MarkFailedLost
  <2>19. ASSUME NEW c \in Calls, Return(c) PROVE TypeOK'
    BY <2>3, <2>4, <2>19 DEF Return, Reply
  <2>20. ASSUME NEW c \in Calls, Crash(c) PROVE TypeOK'
    BY <2>4, <2>20 DEF Crash
  <2>21. ASSUME NEW S \in SUBSET Requests, Sweep(S) PROVE TypeOK'
    BY <2>21 DEF Sweep, Row, Status
  <2>22. CASE UNCHANGED vars
    BY <2>22 DEF vars
  <2>. QED
    BY <2>1, <2>7, <2>8, <2>9, <2>10, <2>11, <2>13, <2>15, <2>16, <2>17, <2>18, <2>19, <2>20,
       <2>21, <2>22 DEF Next, Work, Register
<1>. QED BY <1>1, <1>2, PTL DEF SafeSpec

-----------------------------------------------------------------------------
\* A step that gives no call work, and leaves the rows alone, keeps ownership.
LEMMA NoNewWork ==
  ASSUME Ownership, UNCHANGED <<row, effects>>,
         \A d \in Calls : call'[d] = call[d] \/ call'[d].phase \notin Working
  PROVE  Ownership'
<1>1. ASSUME NEW d \in Calls, NEW r \in Requests
      PROVE  /\ In(d, r, Working)' => In(d, r, Working)
             /\ In(d, r, {"executing"})' => In(d, r, {"executing"}) /\ call'[d] = call[d]
             /\ In(d, r, {"failing"})' => In(d, r, {"failing"}) /\ call'[d] = call[d]
  BY DEF In, Working
<1>2. ExecutingOwns' /\ FailingOwns'
  BY <1>1 DEF Ownership, ExecutingOwns, FailingOwns
<1>3. Alone'
  BY <1>1 DEF Ownership, Alone
<1>4. EffectShuts'
  BY DEF Ownership, EffectShuts
<1>. QED BY <1>2, <1>3, <1>4 DEF Ownership

\* A call that takes up a request nobody works on, and whose row it has just
\* made accepted while no effect was there, becomes its only owner.
LEMMA NewOwner ==
  ASSUME TypeOK, Ownership, NEW c \in Calls, NEW r \in Requests, NEW w \in Row,
         ~Live(r), effects[r] = <<>>, w.status = "accepted",
         row' = [row EXCEPT ![r] = w], Run(c, r, w.payload), UNCHANGED effects
  PROVE  Ownership'
<1>1. row'[r] = w /\ \A q \in Requests : q # r => row'[q] = row[q]
  BY DEF TypeOK
<1>2. /\ call'[c].phase = "executing" /\ call'[c].request = r /\ call'[c].payload = w.payload
      /\ \A d \in Calls : d # c => call'[d] = call[d]
  BY DEF TypeOK, Run
<1>3. ASSUME NEW d \in Calls, d # c, NEW q \in Requests, In(d, q, Working)'
      PROVE  q # r /\ In(d, q, Working)
  BY <1>2, <1>3 DEF In, Working, Live
<1>4. ExecutingOwns' /\ FailingOwns'
  <2>. SUFFICES ASSUME NEW d \in Calls, NEW q \in Requests, In(d, q, Working)'
                PROVE  /\ call'[d].phase = "executing" => row'[q].status = "accepted"
                       /\ call'[d].phase = "failing" => row'[q].status \in {"accepted", "completed"}
                       /\ call'[d].payload = row'[q].payload
    BY DEF ExecutingOwns, FailingOwns, In, Working
  <2>1. CASE d = c
    BY <1>1, <1>2, <2>1 DEF In
  <2>2. CASE d # c
    BY <1>1, <1>2, <1>3, <2>2 DEF In, Working, Ownership, ExecutingOwns, FailingOwns
  <2>. QED BY <2>1, <2>2
<1>5. Alone'
  <2>. SUFFICES ASSUME NEW d \in Calls, NEW e \in Calls, NEW q \in Requests,
                       In(d, q, Working)', In(e, q, Working)'
                PROVE  d = e
    BY DEF Alone
  <2>1. d = c => q = r
    BY <1>2 DEF In
  <2>2. e = c => q = r
    BY <1>2 DEF In
  <2>. QED BY <1>3, <2>1, <2>2 DEF Ownership, Alone
<1>6. EffectShuts'
  BY <1>1 DEF Ownership, EffectShuts
<1>. QED BY <1>4, <1>5, <1>6 DEF Ownership

\* The owner of a request makes its effect: the row it leaves is completed, and
\* the call either goes on to return or to the catch block.
LEMMA OwnerApplies ==
  ASSUME TypeOK, Ownership, NEW c \in Calls, Apply(c), NEW v \in Call,
         call' = [call EXCEPT ![c] = v],
         v.phase # "executing",
         v.phase = "failing" => v.request = call[c].request /\ v.payload = call[c].payload
  PROVE  Ownership'
<1>. DEFINE r == call[c].request
<1>1. call[c].phase = "executing" /\ r \in Requests
  BY DEF Apply, TypeOK, Call, Idle
<1>2. /\ row'[r] = Completed(r, Len(effects[r]) + 1)
      /\ \A q \in Requests : q # r => row'[q] = row[q] /\ effects'[q] = effects[q]
      /\ effects'[r] = Append(effects[r], call[c].payload)
  BY <1>1 DEF Apply, TypeOK
<1>3. row'[r].status = "completed" /\ row'[r].payload = row[r].payload
  BY <1>1, <1>2 DEF Completed, TypeOK, Row
<1>4. call'[c] = v /\ \A d \in Calls : d # c => call'[d] = call[d]
  BY DEF TypeOK
<1>5. In(c, r, {"executing"}) /\ In(c, r, Working)
  BY <1>1 DEF In, Working
<1>6. effects[r] = <<>>
  BY <1>1, <1>5 DEF Ownership, ExecutingOwns, EffectShuts
<1>7. Len(effects'[r]) = 1
  BY <1>1, <1>2, <1>6 DEF TypeOK, Apply
<1>8. ASSUME NEW d \in Calls, NEW q \in Requests, In(d, q, Working)'
      PROVE  /\ In(d, q, Working)
             /\ d # c => q # r /\ call'[d] = call[d]
             /\ d = c => q = r /\ call'[d].phase = "failing" /\ call'[d].payload = call[d].payload
  <2>1. CASE d = c
    BY <1>4, <1>5, <1>8, <2>1 DEF In, Working
  <2>2. CASE d # c
    BY <1>1, <1>4, <1>5, <1>8, <2>2 DEF In, Working, Ownership, Alone
  <2>. QED BY <2>1, <2>2
<1>9. ExecutingOwns' /\ FailingOwns'
  <2>. SUFFICES ASSUME NEW d \in Calls, NEW q \in Requests, In(d, q, Working)'
                PROVE  /\ call'[d].phase = "executing" => row'[q].status = "accepted"
                       /\ call'[d].phase = "failing" => row'[q].status \in {"accepted", "completed"}
                       /\ call'[d].payload = row'[q].payload
    BY DEF ExecutingOwns, FailingOwns, In, Working
  <2>1. CASE d = c
    BY <1>1, <1>3, <1>5, <1>8, <2>1 DEF Ownership, ExecutingOwns
  <2>2. CASE d # c
    BY <1>2, <1>8, <2>2 DEF In, Working, Ownership, ExecutingOwns, FailingOwns
  <2>. QED BY <2>1, <2>2
<1>10. Alone'
  BY <1>8 DEF Ownership, Alone
<1>11. EffectShuts'
  BY <1>2, <1>3, <1>7 DEF Ownership, EffectShuts
<1>. QED BY <1>9, <1>10, <1>11 DEF Ownership

\* A request that is absent, or failed and recoverable, has no owner and no effect.
LEMMA FreeRow ==
  ASSUME Ownership, NEW r \in Requests, row[r].status = "absent" \/ Recoverable(row[r])
  PROVE  ~Live(r) /\ effects[r] = <<>>
  BY DEF Ownership, ExecutingOwns, FailingOwns, EffectShuts, Live, In, Recoverable

\* The transaction of an owner is rolled back: it now owns the row as failing.
LEMMA OwnerFails ==
  ASSUME TypeOK, Ownership, NEW c \in Calls, Abort(c)
  PROVE  Ownership'
<1>. DEFINE r == call[c].request
<1>1. /\ In(c, r, {"executing"}) /\ r \in Requests
      /\ UNCHANGED <<row, effects>>
      /\ call'[c] = [phase |-> "failing", request |-> r, payload |-> call[c].payload]
      /\ \A d \in Calls : d # c => call'[d] = call[d]
  BY DEF Abort, Fail, In, TypeOK, Call, Idle
<1>2. ASSUME NEW d \in Calls, NEW q \in Requests, In(d, q, Working)'
      PROVE  In(d, q, Working) /\ call'[d].payload = call[d].payload
             /\ (d # c => call'[d] = call[d])
  BY <1>1, <1>2 DEF In, Working
<1>3. row[r].status = "accepted" /\ call[c].payload = row[r].payload
  BY <1>1 DEF Ownership, ExecutingOwns
<1>4. ExecutingOwns'
  <2>. SUFFICES ASSUME NEW d \in Calls, NEW q \in Requests, In(d, q, {"executing"})'
                PROVE  row'[q].status = "accepted" /\ call'[d].payload = row'[q].payload
    BY DEF ExecutingOwns
  <2>1. d # c /\ call'[d] = call[d]
    BY <1>1 DEF In
  <2>. QED BY <1>1, <2>1 DEF In, Ownership, ExecutingOwns
<1>5. FailingOwns'
  <2>. SUFFICES ASSUME NEW d \in Calls, NEW q \in Requests, In(d, q, {"failing"})'
                PROVE  /\ row'[q].status \in {"accepted", "completed"}
                       /\ call'[d].payload = row'[q].payload
    BY DEF FailingOwns
  <2>1. CASE d = c
    BY <1>1, <1>3, <2>1 DEF In
  <2>2. CASE d # c
    BY <1>1, <2>2 DEF In, Ownership, FailingOwns
  <2>. QED BY <2>1, <2>2
<1>6. Alone'
  BY <1>2 DEF Ownership, Alone
<1>7. EffectShuts'
  BY <1>1 DEF Ownership, EffectShuts
<1>. QED BY <1>4, <1>5, <1>6, <1>7 DEF Ownership

\* markFailed is only ever called by the owner, so it shuts a row nobody else has.
LEMMA OwnerMarksFailed ==
  ASSUME TypeOK, Ownership, NEW c \in Calls, MarkFailed(c)
  PROVE  Ownership'
<1>. DEFINE r == call[c].request
<1>1. In(c, r, Working) /\ r \in Requests
  BY DEF MarkFailed, In, Working, TypeOK, Call, Idle
<1>2. /\ row'[r].status = "failed" /\ ~row'[r].recoverable
      /\ \A q \in Requests : q # r => row'[q] = row[q]
      /\ UNCHANGED effects
  BY <1>1 DEF MarkFailed, FailedRow, TypeOK, Row
<1>3. call'[c] = Idle /\ \A d \in Calls : d # c => call'[d] = call[d]
  BY DEF MarkFailed, Finish, TypeOK
<1>4. ASSUME NEW d \in Calls, NEW q \in Requests, In(d, q, Working)'
      PROVE  In(d, q, Working) /\ call'[d] = call[d] /\ q # r
  <2>1. d # c
    BY <1>3, <1>4 DEF In, Working, Idle
  <2>2. call'[d] = call[d] /\ In(d, q, Working)
    BY <1>3, <1>4, <2>1 DEF In
  <2>3. q # r
    BY <1>1, <2>1, <2>2 DEF Ownership, Alone
  <2>. QED BY <2>2, <2>3
<1>5. ExecutingOwns' /\ FailingOwns'
  <2>. SUFFICES ASSUME NEW d \in Calls, NEW q \in Requests, In(d, q, Working)'
                PROVE  /\ call'[d].phase = "executing" => row'[q].status = "accepted"
                       /\ call'[d].phase = "failing" => row'[q].status \in {"accepted", "completed"}
                       /\ call'[d].payload = row'[q].payload
    BY DEF ExecutingOwns, FailingOwns, In, Working
  <2>1. row'[q] = row[q] /\ call'[d] = call[d] /\ In(d, q, Working)
    BY <1>2, <1>4
  <2>. QED BY <2>1 DEF In, Working, Ownership, ExecutingOwns, FailingOwns
<1>6. Alone'
  BY <1>4 DEF Ownership, Alone
<1>7. EffectShuts'
  BY <1>2 DEF Ownership, EffectShuts
<1>. QED BY <1>5, <1>6, <1>7 DEF Ownership

\* With LeaseHolds the sweep only reopens rows without owner and without effect.
LEMMA SweepFindsNoOwner ==
  ASSUME TypeOK, Ownership, LeaseHolds, NEW S \in SUBSET Requests, Sweep(S)
  PROVE  Ownership'
<1>1. ASSUME NEW q \in Requests
      PROVE  /\ q \in S => ~Live(q) /\ row[q].status = "accepted" /\ effects[q] = <<>>
             /\ q \notin S => row'[q] = row[q]
  BY DEF Sweep, Expired, Ownership, EffectShuts
<1>2. UNCHANGED <<call, effects>>
  BY DEF Sweep
<1>3. ExecutingOwns' /\ FailingOwns'
  BY <1>1, <1>2 DEF Ownership, ExecutingOwns, FailingOwns, In, Live
<1>4. Alone'
  BY <1>2 DEF Ownership, Alone, In
<1>5. EffectShuts'
  BY <1>1, <1>2 DEF Ownership, EffectShuts
<1>. QED BY <1>3, <1>4, <1>5 DEF Ownership

-----------------------------------------------------------------------------
RowsStayBound ==
  \A r \in Requests : row[r].status # "absent" =>
    row'[r].status # "absent" /\ row'[r].payload = row[r].payload

LEMMA SeenStaysBound ==
  ASSUME TypeOK, SeenBound, RowsStayBound,
         \A d \in Calls : \/ call'[d] = call[d]
                          \/ call'[d].phase # "registering"
                          \/ /\ call'[d].request \in Requests
                             /\ call'[d].seen = row[call'[d].request]
  PROVE  SeenBound'
<1>1. SUFFICES ASSUME NEW d \in Calls, call'[d].phase = "registering",
                      call'[d].seen.status # "absent"
               PROVE  /\ row'[call'[d].request].status # "absent"
                      /\ row'[call'[d].request].payload = call'[d].seen.payload
  BY DEF SeenBound
<1>2. CASE call'[d] = call[d]
  <2>1. call[d].request \in Requests
    BY <1>1, <1>2 DEF TypeOK, Call, Idle
  <2>. QED BY <1>1, <1>2, <2>1 DEF SeenBound, RowsStayBound
<1>3. CASE call'[d].request \in Requests /\ call'[d].seen = row[call'[d].request]
  BY <1>1, <1>3 DEF RowsStayBound
<1>. QED BY <1>1, <1>2, <1>3

\* The binding of rows to payloads survives every step.
LEMMA StepKeepsBinding ==
  ASSUME TypeOK, SeenBound, [Next]_vars
  PROVE  SeenBound'
<1>1. ASSUME NEW c \in Calls, NEW r \in Requests, NEW p \in Payloads, Submit(c, r, p)
      PROVE  SeenBound'
  BY <1>1, SeenStaysBound DEF Submit, RowsStayBound, TypeOK
<1>2. ASSUME NEW c \in Calls, call[c].phase # "idle" PROVE call[c].request \in Requests
  BY <1>2 DEF TypeOK, Call, Idle
<1>3. ASSUME NEW c \in Calls, Finish(c), UNCHANGED row PROVE SeenBound'
  BY <1>3, SeenStaysBound DEF Finish, RowsStayBound, TypeOK, Idle
<1>4. ASSUME NEW c \in Calls, Insert(c) PROVE SeenBound'
  <2>. DEFINE r == call[c].request
  <2>1. r \in Requests
    BY <1>2, <1>4 DEF Insert
  <2>2. CASE row[r].status = "absent"
    <3>1. RowsStayBound
      BY <1>4, <2>1, <2>2 DEF Insert, RowsStayBound, TypeOK
    <3>2. call' = [call EXCEPT ![c] = [phase |-> "executing", request |-> r,
                                       payload |-> call[c].payload]]
      BY <1>4, <2>2 DEF Insert, Run
    <3>. QED BY <3>1, <3>2, SeenStaysBound DEF TypeOK
  <2>3. CASE row[r].status # "absent"
    <3>1. UNCHANGED row /\ call' = [call EXCEPT ![c].seen = row[r]]
      BY <1>4, <2>3 DEF Insert
    <3>2. call'[c].request = r /\ call'[c].seen = row[r]
      BY <1>4, <3>1 DEF Insert, TypeOK, Call, Idle
    <3>. QED BY <2>1, <3>1, <3>2, SeenStaysBound DEF RowsStayBound, TypeOK
  <2>. QED BY <2>2, <2>3
<1>5. ASSUME NEW c \in Calls, Recover(c) PROVE SeenBound'
  <2>. DEFINE r == call[c].request
  <2>1. r \in Requests /\ row' = [row EXCEPT ![r] = AcceptedRow(row[r].payload)]
        /\ call' = [call EXCEPT ![c] = [phase |-> "executing", request |-> r,
                                        payload |-> call[c].payload]]
    BY <1>2, <1>5 DEF Recover, Resolving, Run
  <2>2. RowsStayBound
    BY <2>1 DEF RowsStayBound, AcceptedRow, TypeOK
  <2>. QED BY <2>1, <2>2, SeenStaysBound DEF TypeOK
<1>6. ASSUME NEW c \in Calls, Apply(c) PROVE RowsStayBound
  BY <1>2, <1>6 DEF Apply, Completed, RowsStayBound, TypeOK, Row
<1>7. ASSUME NEW c \in Calls, Commit(c) PROVE SeenBound'
  <2>1. call'[c].phase = "committed" /\ \A d \in Calls : d # c => call'[d] = call[d]
    BY <1>7 DEF Commit, TypeOK
  <2>. QED BY <1>6, <1>7, <2>1, SeenStaysBound DEF Commit
<1>8. ASSUME NEW c \in Calls, Fail(c)
      PROVE  call'[c].phase = "failing" /\ \A d \in Calls : d # c => call'[d] = call[d]
  BY <1>8 DEF Fail, TypeOK
<1>9. ASSUME NEW c \in Calls, CommitAnswerLost(c) PROVE SeenBound'
  BY <1>6, <1>8, <1>9, SeenStaysBound DEF CommitAnswerLost
<1>10. ASSUME NEW c \in Calls, Abort(c) PROVE SeenBound'
  BY <1>8, <1>10, SeenStaysBound DEF Abort, RowsStayBound
<1>11. ASSUME NEW c \in Calls, MarkFailed(c) PROVE SeenBound'
  <2>1. RowsStayBound
    BY <1>2, <1>11 DEF MarkFailed, FailedRow, RowsStayBound, TypeOK, Row
  <2>2. call'[c] = Idle /\ \A d \in Calls : d # c => call'[d] = call[d]
    BY <1>11 DEF MarkFailed, Finish, TypeOK
  <2>. QED BY <2>1, <2>2, SeenStaysBound DEF Idle
<1>12. ASSUME NEW S \in SUBSET Requests, Sweep(S) PROVE SeenBound'
  <2>1. RowsStayBound
    BY <1>12 DEF Sweep, RowsStayBound, TypeOK, Row
  <2>. QED BY <1>12, <2>1, SeenStaysBound DEF Sweep
<1>13. CASE UNCHANGED vars
  BY <1>13, SeenStaysBound DEF vars, RowsStayBound
<1>. QED
  BY <1>1, <1>3, <1>4, <1>5, <1>7, <1>9, <1>10, <1>11, <1>12, <1>13
  DEF Next, Work, Register, Reject, Replay, Refuse, MarkFailedLost, Return, Crash

-----------------------------------------------------------------------------
\* One step keeps ownership, as long as the lease outlives the call.
LEMMA StepKeepsOwnership ==
  ASSUME TypeOK, Ownership, SeenBound, LeaseHolds, [Next]_vars
  PROVE  Ownership'
<1>1. ASSUME NEW c \in Calls, NEW r \in Requests, NEW p \in Payloads, Submit(c, r, p)
      PROVE  Ownership'
  BY <1>1, NoNewWork DEF Submit, TypeOK, Working
<1>2. ASSUME NEW c \in Calls, Finish(c), UNCHANGED <<row, effects>> PROVE Ownership'
  BY <1>2, NoNewWork DEF Finish, TypeOK, Idle, Working
<1>3. ASSUME NEW c \in Calls, Insert(c) PROVE Ownership'
  <2>. DEFINE r == call[c].request
              p == call[c].payload
  <2>1. r \in Requests /\ p \in Payloads
    BY <1>3 DEF Insert, TypeOK, Call, Idle
  <2>2. CASE row[r].status = "absent"
    <3>1. AcceptedRow(p) \in Row /\ AcceptedRow(p).status = "accepted" /\ AcceptedRow(p).payload = p
      BY <2>1 DEF AcceptedRow, Row, Status
    <3>2. row' = [row EXCEPT ![r] = AcceptedRow(p)] /\ Run(c, r, p) /\ UNCHANGED effects
      BY <1>3, <2>2 DEF Insert
    <3>3. ~Live(r) /\ effects[r] = <<>>
      BY <2>1, <2>2, FreeRow
    <3>. HIDE DEF r, p
    <3>. QED BY <2>1, <3>1, <3>2, <3>3, NewOwner
  <2>3. CASE row[r].status # "absent"
    <3>1. UNCHANGED <<row, effects>> /\ call' = [call EXCEPT ![c].seen = row[r]]
      BY <1>3, <2>3 DEF Insert
    <3>2. call'[c].phase = "registering"
      BY <1>3, <3>1 DEF Insert, TypeOK, Call, Idle
    <3>. QED BY <3>1, <3>2, NoNewWork DEF TypeOK, Working
  <2>. QED BY <2>2, <2>3
<1>4. ASSUME NEW c \in Calls, Recover(c) PROVE Ownership'
  <2>. DEFINE r == call[c].request
              w == AcceptedRow(row[r].payload)
  <2>1. r \in Requests /\ row[r] \in Row /\ Recoverable(row[r])
    BY <1>4 DEF Recover, Resolving, TypeOK, Call, Idle
  <2>2. w \in Row /\ w.status = "accepted" /\ w.payload = row[r].payload
    BY <2>1 DEF AcceptedRow, Row, Status
  <2>3. row[r].payload = call[c].payload
    BY <1>4 DEF Recover, Resolving, SamePayload, SeenBound
  <2>4. row' = [row EXCEPT ![r] = w] /\ Run(c, r, w.payload) /\ UNCHANGED effects
    BY <1>4, <2>2, <2>3 DEF Recover
  <2>5. ~Live(r) /\ effects[r] = <<>>
    BY <2>1, FreeRow
  <2>. HIDE DEF r, w
  <2>. QED BY <2>1, <2>2, <2>4, <2>5, NewOwner
<1>5. ASSUME NEW c \in Calls, Apply(c)
      PROVE  /\ call[c].request \in Requests /\ call[c].payload \in Payloads
             /\ Len(effects[call[c].request]) + 1 \in Nat
  <2>1. call[c].request \in Requests /\ call[c].payload \in Payloads
    BY <1>5 DEF Apply, TypeOK, Call, Idle
  <2>. QED BY <2>1, LenProperties DEF TypeOK
<1>6. ASSUME NEW c \in Calls, Commit(c) PROVE Ownership'
  <2>. DEFINE v == [phase |-> "committed", request |-> call[c].request,
                    payload |-> call[c].payload, effect |-> Len(effects[call[c].request]) + 1]
  <2>1. Apply(c) /\ call' = [call EXCEPT ![c] = v]
    BY <1>6 DEF Commit
  <2>2. v \in Call /\ v.phase = "committed"
    BY <1>5, <2>1 DEF Call
  <2>. HIDE DEF v
  <2>. QED BY <2>1, <2>2, OwnerApplies
<1>7. ASSUME NEW c \in Calls, CommitAnswerLost(c) PROVE Ownership'
  <2>. DEFINE v == [phase |-> "failing", request |-> call[c].request, payload |-> call[c].payload]
  <2>1. Apply(c) /\ call' = [call EXCEPT ![c] = v]
    BY <1>7 DEF CommitAnswerLost, Fail
  <2>2. /\ v \in Call /\ v.phase = "failing"
        /\ v.request = call[c].request /\ v.payload = call[c].payload
    BY <1>5, <2>1 DEF Call
  <2>. HIDE DEF v
  <2>. QED BY <2>1, <2>2, OwnerApplies
<1>8. ASSUME NEW S \in SUBSET Requests, Sweep(S) PROVE Ownership'
  BY <1>8, SweepFindsNoOwner
<1>9. CASE UNCHANGED vars
  BY <1>9, NoNewWork DEF vars
<1>. QED
  BY <1>1, <1>2, <1>3, <1>4, <1>6, <1>7, <1>8, <1>9, OwnerFails, OwnerMarksFailed
  DEF Next, Work, Register, Reject, Replay, Refuse, MarkFailedLost, Return, Crash

LEMMA OwnershipHolds ==
  ASSUME LeaseHolds PROVE SafeSpec => [](Ownership /\ SeenBound)
<1>1. Init => Ownership /\ SeenBound
  BY DEF Init, Ownership, ExecutingOwns, FailingOwns, Alone, EffectShuts, SeenBound, In, Working, Idle
<1>2. TypeOK /\ Ownership /\ SeenBound /\ [Next]_vars => (Ownership /\ SeenBound)'
  BY StepKeepsBinding, StepKeepsOwnership
<1>. QED BY <1>1, <1>2, TypeCorrect, PTL DEF SafeSpec

\* A request_id is executed at most once, for any number of requests, payloads,
\* calls, crashes and lost answers, as long as the lease outlives its call.
THEOREM ExecutedAtMostOnce ==
  ASSUME LeaseHolds PROVE SafeSpec => []AtMostOneEffect
<1>1. Ownership => AtMostOneEffect
  BY DEF Ownership, EffectShuts, AtMostOneEffect
<1>. QED BY <1>1, OwnershipHolds, PTL

\* Under the same condition at most one call works on a request, on the payload
\* its row is bound to.
THEOREM OwnedByOne ==
  ASSUME LeaseHolds PROVE SafeSpec => []OneOwner
<1>1. Ownership => OneOwner
  BY DEF Ownership, ExecutingOwns, FailingOwns, Alone, OneOwner, In, Working
<1>. QED BY <1>1, OwnershipHolds, PTL

-----------------------------------------------------------------------------
(* Answers                                                                 *)

(***************************************************************************)
(* What a client is answered is the effect of its own payload, whatever    *)
(* the lease, crashes and lost answers: every number of an effect that is  *)
(* kept somewhere (in the row, in what register has read of it, in a call  *)
(* about to return, in an answer given) is that of an effect of the        *)
(* payload it is kept with.                                                *)
(***************************************************************************)
IsEffect(f, n, p) == n \in 1..Len(f) /\ f[n] = p

ResultsTrue ==
  /\ \A r \in Requests : row[r].result # 0 => IsEffect(effects[r], row[r].result, row[r].payload)
  /\ \A c \in Calls :
       /\ call[c].phase = "registering" /\ call[c].seen.result # 0
            => IsEffect(effects[call[c].request], call[c].seen.result, call[c].seen.payload)
       /\ call[c].phase = "committed"
            => IsEffect(effects[call[c].request], call[c].effect, call[c].payload)

\* A call that works on a request has the payload its row is bound to.
WorkBound ==
  \A c \in Calls : call[c].phase \in Working
    => row[call[c].request].status # "absent" /\ row[call[c].request].payload = call[c].payload

AnswerInv == SeenBound /\ WorkBound /\ ResultsTrue /\ AnswerIsOwn

\* Effects are only added.
LEMMA EffectsGrow ==
  ASSUME TypeOK, [Next]_vars, NEW r \in Requests, NEW n, NEW p, IsEffect(effects[r], n, p)
  PROVE  IsEffect(effects'[r], n, p)
<1>1. CASE effects' = effects
  BY <1>1 DEF IsEffect
<1>2. ASSUME NEW c \in Calls, Apply(c) PROVE IsEffect(effects'[r], n, p)
  <2>1. effects[r] \in Seq(Payloads) /\ call[c].payload \in Payloads
    BY <1>2 DEF TypeOK, Apply, Call, Idle
  <2>2. effects'[r] = effects[r] \/ effects'[r] = Append(effects[r], call[c].payload)
    BY <1>2 DEF Apply, TypeOK
  <2>3. /\ Len(Append(effects[r], call[c].payload)) = Len(effects[r]) + 1
        /\ n \in 1..Len(effects[r]) => Append(effects[r], call[c].payload)[n] = effects[r][n]
    BY <2>1
  <2>4. Len(effects[r]) \in Nat
    BY <2>1
  <2>. QED BY <2>2, <2>3, <2>4 DEF IsEffect
<1>. QED
  BY <1>1, <1>2 DEF Next, vars, Submit, Work, Register, Insert, Reject, Replay, Recover, Refuse, Commit,
     CommitAnswerLost, Abort, MarkFailed, MarkFailedLost, Return, Crash, Sweep

\* A step that puts only true results into rows, calls and answers, and lets
\* calls read rows, or work on rows bound to their payload, keeps them all true.
LEMMA ResultsKept ==
  ASSUME TypeOK, AnswerInv, [Next]_vars,
         \A r \in Requests :
           /\ row[r].status # "absent" => row'[r].status # "absent" /\ row'[r].payload = row[r].payload
           /\ row'[r].result # 0 => \/ row'[r].result = row[r].result /\ row'[r].payload = row[r].payload
                                    \/ IsEffect(effects'[r], row'[r].result, row'[r].payload),
         \A d \in Calls :
           \/ call'[d] = call[d]
           \/ call'[d].phase = "idle"
           \/ /\ call'[d].phase = "registering" /\ call'[d].request \in Requests
              /\ call'[d].seen = row[call'[d].request]
           \/ /\ call'[d].phase \in Working /\ call'[d].request \in Requests
              /\ row'[call'[d].request].status # "absent"
              /\ row'[call'[d].request].payload = call'[d].payload
           \/ /\ call'[d].phase = "committed"
              /\ IsEffect(effects'[call'[d].request], call'[d].effect, call'[d].payload),
         \A a \in replies' \ replies : a.request \in Requests /\ IsEffect(effects[a.request], a.effect, a.payload)
  PROVE  AnswerInv'
<1>1. SeenBound'
  BY StepKeepsBinding DEF AnswerInv
<1>2. WorkBound'
  <2>. SUFFICES ASSUME NEW d \in Calls, call'[d].phase \in Working
                PROVE  /\ row'[call'[d].request].status # "absent"
                       /\ row'[call'[d].request].payload = call'[d].payload
    BY DEF WorkBound
  <2>1. CASE call'[d] = call[d]
    <3>1. call[d].request \in Requests
      BY <2>1 DEF TypeOK, Call, Idle, Working
    <3>. QED BY <2>1, <3>1 DEF AnswerInv, WorkBound
  <2>. QED BY <2>1 DEF Working
<1>3. ASSUME NEW r \in Requests, row'[r].result # 0 PROVE IsEffect(effects'[r], row'[r].result, row'[r].payload)
  <2>1. CASE row'[r].result = row[r].result /\ row'[r].payload = row[r].payload
    <3>1. IsEffect(effects[r], row'[r].result, row'[r].payload)
      BY <1>3, <2>1 DEF AnswerInv, ResultsTrue
    <3>. QED BY <3>1, EffectsGrow
  <2>. QED BY <1>3, <2>1
<1>4. ASSUME NEW d \in Calls, call'[d].phase = "registering", call'[d].seen.result # 0
      PROVE  IsEffect(effects'[call'[d].request], call'[d].seen.result, call'[d].seen.payload)
  <2>1. call'[d].request \in Requests
    BY <1>4 DEF TypeOK, Call, Idle, Working
  <2>2. IsEffect(effects[call'[d].request], call'[d].seen.result, call'[d].seen.payload)
    BY <1>4, <2>1 DEF AnswerInv, ResultsTrue, Working
  <2>. QED BY <2>1, <2>2, EffectsGrow
<1>5. ASSUME NEW d \in Calls, call'[d].phase = "committed"
      PROVE  IsEffect(effects'[call'[d].request], call'[d].effect, call'[d].payload)
  <2>1. CASE call'[d] = call[d]
    <3>1. call[d].request \in Requests
      BY <1>5, <2>1 DEF TypeOK, Call, Idle, Working
    <3>2. IsEffect(effects[call[d].request], call[d].effect, call[d].payload)
      BY <1>5, <2>1 DEF AnswerInv, ResultsTrue
    <3>. QED BY <2>1, <3>1, <3>2, EffectsGrow
  <2>. QED BY <1>5, <2>1 DEF Working
<1>6. AnswerIsOwn'
  <2>. SUFFICES ASSUME NEW a \in replies'
                PROVE  IsEffect(effects'[a.request], a.effect, a.payload)
    BY DEF AnswerIsOwn, IsEffect
  <2>1. a.request \in Requests /\ IsEffect(effects[a.request], a.effect, a.payload)
    BY DEF AnswerInv, AnswerIsOwn, IsEffect, TypeOK, Reply
  <2>. QED BY <2>1, EffectsGrow
<1>. QED BY <1>1, <1>2, <1>3, <1>4, <1>5, <1>6 DEF AnswerInv, ResultsTrue, IsEffect

LEMMA AnswerStep == TypeOK /\ AnswerInv /\ [Next]_vars => AnswerInv'
<1>. SUFFICES ASSUME TypeOK, AnswerInv, [Next]_vars PROVE AnswerInv'
  OBVIOUS
<1>0. ASSUME NEW c \in Calls, call[c].phase # "idle"
      PROVE  /\ call[c].request \in Requests /\ call[c].payload \in Payloads
             /\ row[call[c].request] \in Row /\ effects[call[c].request] \in Seq(Payloads)
  BY <1>0 DEF TypeOK, Call, Idle
<1>1. ASSUME NEW c \in Calls, NEW r \in Requests, NEW p \in Payloads, Submit(c, r, p) PROVE AnswerInv'
  BY <1>1, ResultsKept DEF Submit, TypeOK
<1>2. ASSUME NEW c \in Calls, Finish(c), UNCHANGED <<row, effects>>,
             \A a \in replies' \ replies : a.request \in Requests /\ IsEffect(effects[a.request], a.effect, a.payload)
      PROVE  AnswerInv'
  BY <1>2, ResultsKept DEF Finish, TypeOK, Idle
<1>3. ASSUME NEW c \in Calls, Insert(c) PROVE AnswerInv'
  <2>. DEFINE r == call[c].request
  <2>1. CASE row[r].status = "absent"
    <3>1. /\ row' = [row EXCEPT ![r] = AcceptedRow(call[c].payload)]
          /\ call' = [call EXCEPT ![c] = [phase |-> "executing", request |-> r, payload |-> call[c].payload]]
          /\ UNCHANGED <<effects, replies>>
      BY <1>3, <2>1 DEF Insert, Run
    <3>2. row'[r] = AcceptedRow(call[c].payload) /\ \A q \in Requests : q # r => row'[q] = row[q]
      BY <1>0, <1>3, <3>1 DEF Insert, TypeOK
    <3>3. /\ call'[c].phase = "executing" /\ call'[c].request = r /\ call'[c].payload = call[c].payload
          /\ \A d \in Calls : d # c => call'[d] = call[d]
      BY <3>1 DEF TypeOK
    <3>. QED BY <1>0, <1>3, <2>1, <3>1, <3>2, <3>3, ResultsKept DEF AcceptedRow, Insert, Working
  <2>2. CASE row[r].status # "absent"
    <3>1. call' = [call EXCEPT ![c].seen = row[r]] /\ UNCHANGED <<row, effects, replies>>
      BY <1>3, <2>2 DEF Insert
    <3>2. /\ call'[c].phase = "registering" /\ call'[c].request = r /\ call'[c].seen = row[r]
          /\ \A d \in Calls : d # c => call'[d] = call[d]
      BY <1>3, <3>1 DEF Insert, TypeOK, Call, Idle
    <3>. QED BY <1>0, <1>3, <3>1, <3>2, ResultsKept DEF Insert
  <2>. QED BY <2>1, <2>2
<1>4. ASSUME NEW c \in Calls, Recover(c) PROVE AnswerInv'
  <2>. DEFINE r == call[c].request
  <2>1. /\ row' = [row EXCEPT ![r] = AcceptedRow(row[r].payload)]
        /\ call' = [call EXCEPT ![c] = [phase |-> "executing", request |-> r, payload |-> call[c].payload]]
        /\ UNCHANGED <<effects, replies>>
    BY <1>4 DEF Recover, Run
  <2>2. r \in Requests /\ row[r].payload = call[c].payload
    BY <1>0, <1>4 DEF Recover, Resolving, SamePayload, AnswerInv, SeenBound
  <2>3. row'[r] = AcceptedRow(row[r].payload) /\ \A q \in Requests : q # r => row'[q] = row[q]
    BY <2>1, <2>2 DEF TypeOK
  <2>4. /\ call'[c].phase = "executing" /\ call'[c].request = r /\ call'[c].payload = call[c].payload
        /\ \A d \in Calls : d # c => call'[d] = call[d]
    BY <2>1 DEF TypeOK
  <2>. QED BY <2>1, <2>2, <2>3, <2>4, ResultsKept DEF AcceptedRow, Working
<1>5. ASSUME NEW c \in Calls, Replay(c) PROVE AnswerInv'
  <2>. DEFINE a == [request |-> call[c].request, payload |-> call[c].payload, effect |-> call[c].seen.result]
  <2>1. a.request \in Requests /\ IsEffect(effects[a.request], a.effect, a.payload)
    BY <1>0, <1>5 DEF Replay, Resolving, Replayable, SamePayload, AnswerInv, ResultsTrue
  <2>2. replies' = replies \cup {a} /\ Finish(c) /\ UNCHANGED <<row, effects>>
    BY <1>5 DEF Replay
  <2>. QED BY <1>2, <2>1, <2>2
<1>6. ASSUME NEW c \in Calls, Return(c) PROVE AnswerInv'
  <2>. DEFINE a == [request |-> call[c].request, payload |-> call[c].payload, effect |-> call[c].effect]
  <2>1. a.request \in Requests /\ IsEffect(effects[a.request], a.effect, a.payload)
    BY <1>0, <1>6 DEF Return, AnswerInv, ResultsTrue
  <2>2. replies' = replies \cup {a} /\ Finish(c) /\ UNCHANGED <<row, effects>>
    BY <1>6 DEF Return
  <2>. QED BY <1>2, <2>1, <2>2
\* the effect just made is the last one, of the payload the row is bound to
<1>7. ASSUME NEW c \in Calls, Apply(c)
      PROVE  /\ \A r \in Requests : r # call[c].request => row'[r] = row[r]
             /\ row'[call[c].request].status = "completed"
             /\ row'[call[c].request].payload = row[call[c].request].payload
             /\ row'[call[c].request].payload = call[c].payload
             /\ row'[call[c].request].result = Len(effects[call[c].request]) + 1
             /\ IsEffect(effects'[call[c].request], Len(effects[call[c].request]) + 1, call[c].payload)
  <2>. DEFINE r == call[c].request
  <2>1. /\ r \in Requests /\ row[r] \in Row /\ effects[r] \in Seq(Payloads) /\ call[c].payload \in Payloads
        /\ row[r].payload = call[c].payload
    BY <1>0, <1>7 DEF Apply, AnswerInv, WorkBound, Working
  <2>2. /\ row'[r] = Completed(r, Len(effects[r]) + 1) /\ effects'[r] = Append(effects[r], call[c].payload)
        /\ \A q \in Requests : q # r => row'[q] = row[q]
    BY <1>7, <2>1 DEF Apply, TypeOK
  <2>3. IsEffect(Append(effects[r], call[c].payload), Len(effects[r]) + 1, call[c].payload)
    BY <2>1 DEF IsEffect
  <2>. QED BY <2>1, <2>2, <2>3 DEF Completed, Row
<1>8. ASSUME NEW c \in Calls, Commit(c) PROVE AnswerInv'
  <2>1. /\ call'[c].phase = "committed" /\ call'[c].request = call[c].request /\ call'[c].payload = call[c].payload
        /\ call'[c].effect = Len(effects[call[c].request]) + 1
        /\ \A d \in Calls : d # c => call'[d] = call[d]
    BY <1>8 DEF Commit, TypeOK
  <2>2. Apply(c) /\ replies' = replies
    BY <1>8 DEF Commit
  <2>. QED BY <1>7, <2>1, <2>2, ResultsKept
<1>9. ASSUME NEW c \in Calls, Fail(c)
      PROVE  /\ call'[c].phase = "failing" /\ call'[c].request = call[c].request /\ call'[c].payload = call[c].payload
             /\ \A d \in Calls : d # c => call'[d] = call[d]
  BY <1>9 DEF Fail, TypeOK
<1>10. ASSUME NEW c \in Calls, CommitAnswerLost(c) PROVE AnswerInv'
  <2>1. Apply(c) /\ Fail(c) /\ replies' = replies /\ call[c].request \in Requests
    BY <1>0, <1>10 DEF CommitAnswerLost, Apply
  <2>. QED BY <1>7, <1>9, <2>1, ResultsKept DEF Working
<1>11. ASSUME NEW c \in Calls, Abort(c) PROVE AnswerInv'
  <2>1. /\ Fail(c) /\ UNCHANGED <<row, effects, replies>> /\ call[c].request \in Requests
        /\ row[call[c].request].status # "absent" /\ row[call[c].request].payload = call[c].payload
    BY <1>0, <1>11 DEF Abort, AnswerInv, WorkBound, Working
  <2>. QED BY <1>9, <2>1, ResultsKept DEF Working
<1>12. ASSUME NEW c \in Calls, MarkFailed(c) PROVE AnswerInv'
  <2>1. \A r \in Requests : /\ row'[r].payload = row[r].payload /\ row'[r].result = row[r].result
                            /\ row'[r].status = row[r].status \/ row'[r].status = "failed"
    BY <1>0, <1>12 DEF MarkFailed, FailedRow, TypeOK, Row
  <2>2. call'[c].phase = "idle" /\ \A d \in Calls : d # c => call'[d] = call[d]
    BY <1>12 DEF MarkFailed, Finish, TypeOK, Idle
  <2>3. UNCHANGED <<effects, replies>>
    BY <1>12 DEF MarkFailed
  <2>. QED BY <2>1, <2>2, <2>3, ResultsKept
<1>13. ASSUME NEW S \in SUBSET Requests, Sweep(S) PROVE AnswerInv'
  <2>1. \A r \in Requests : /\ row'[r].payload = row[r].payload /\ row'[r].result = row[r].result
                            /\ row'[r].status = row[r].status \/ row'[r].status = "failed"
    BY <1>13 DEF Sweep, TypeOK, Row
  <2>2. UNCHANGED <<call, effects, replies>>
    BY <1>13 DEF Sweep
  <2>. QED BY <2>1, <2>2, ResultsKept
<1>14. CASE UNCHANGED vars
  BY <1>14, ResultsKept DEF vars
<1>. QED
  BY <1>1, <1>2, <1>3, <1>4, <1>5, <1>6, <1>8, <1>10, <1>11, <1>12, <1>13, <1>14
  DEF Next, Work, Register, Reject, Refuse, MarkFailedLost, Crash

\* Whatever expires, crashes or gets lost, a client is only ever given the
\* result of the payload it sent itself, and only when that was executed.
THEOREM AnswersAreOwn == SafeSpec => []AnswerIsOwn
<1>1. Init => AnswerInv
  BY DEF Init, AnswerInv, SeenBound, WorkBound, ResultsTrue, AnswerIsOwn, Working, Idle, Absent
<1>2. AnswerInv => AnswerIsOwn
  BY DEF AnswerInv
<1>. QED BY <1>1, <1>2, AnswerStep, TypeCorrect, PTL DEF SafeSpec

-----------------------------------------------------------------------------
(* What a row tells, with every answer of the database delivered           *)

Orderly == LeaseHolds /\ ~LostAnswers

(***************************************************************************)
(* Without lost answers markFailed never meets a completed row, so that a  *)
(* completed row is final; a result that register has read, or that a call *)
(* is about to return, is still in the row then.                           *)
(***************************************************************************)
FailingOpen == \A c \in Calls, r \in Requests : In(c, r, {"failing"}) => row[r].status = "accepted"

DoneIsFinal ==
  \A c \in Calls :
    /\ call[c].phase = "registering" /\ call[c].seen.status = "completed"
         => row[call[c].request].status = "completed"
    /\ call[c].phase = "committed"
         => /\ row[call[c].request].status = "completed"
            /\ row[call[c].request].payload = call[c].payload

Told == Ownership /\ SeenBound /\ StatusTellsEffect /\ FailingOpen /\ DoneIsFinal

CompletedStays == \A r \in Requests : row[r].status = "completed" => row'[r] = row[r]

\* A step that leaves the completed rows and the calls as they are, but for
\* calls that read a row, take up work, or complete or fail their own.
LEMMA ToldKept ==
  ASSUME TypeOK, Told, Ownership', SeenBound', StatusTellsEffect', CompletedStays,
         \A d \in Calls :
           \/ /\ call'[d] = call[d]
              /\ call[d].phase = "failing" => row'[call[d].request].status = "accepted"
           \/ call'[d].phase \in {"idle", "executing"}
           \/ /\ call'[d].phase = "registering" /\ call'[d].request \in Requests
              /\ call'[d].seen = row[call'[d].request]
           \/ /\ call'[d].phase = "committed"
              /\ row'[call'[d].request].status = "completed"
              /\ row'[call'[d].request].payload = call'[d].payload
           \/ call'[d].phase = "failing" /\ row'[call'[d].request].status = "accepted"
  PROVE  Told'
<1>1. ASSUME NEW d \in Calls, call[d].phase # "idle" PROVE call[d].request \in Requests
  BY <1>1 DEF TypeOK, Call, Idle
<1>2. FailingOpen'
  BY DEF FailingOpen, In
<1>3. DoneIsFinal'
  <2>. SUFFICES ASSUME NEW d \in Calls,
                       \/ call'[d].phase = "registering" /\ call'[d].seen.status = "completed"
                       \/ call'[d].phase = "committed"
                PROVE  /\ row'[call'[d].request].status = "completed"
                       /\ call'[d].phase = "committed" => row'[call'[d].request].payload = call'[d].payload
    BY DEF DoneIsFinal
  <2>1. CASE call'[d] = call[d]
    BY <1>1, <2>1 DEF Told, DoneIsFinal, CompletedStays
  <2>2. CASE call'[d].request \in Requests /\ call'[d].seen = row[call'[d].request] /\ call'[d].phase = "registering"
    BY <2>2 DEF CompletedStays
  <2>. QED BY <2>1, <2>2
<1>. QED BY <1>2, <1>3 DEF Told

\* What one step does to the rows and effects, and that completed rows stay.
LEMMA ToldStep ==
  ASSUME Orderly, TypeOK, Told, [Next]_vars
  PROVE  Told' /\ CompletedStays
<1>0. Ownership' /\ SeenBound'
  BY StepKeepsBinding, StepKeepsOwnership DEF Told, Orderly
<1>a. ASSUME NEW c \in Calls, call[c].phase # "idle" PROVE call[c].request \in Requests /\ row[call[c].request] \in Row
  BY <1>a DEF TypeOK, Call, Idle
<1>b. ASSUME UNCHANGED <<row, effects>> PROVE CompletedStays /\ StatusTellsEffect'
  BY <1>b DEF CompletedStays, StatusTellsEffect, Told
<1>c. ASSUME NEW d \in Calls, call[d].phase = "failing" PROVE row[call[d].request].status = "accepted"
  BY <1>a, <1>c DEF Told, FailingOpen, In
<1>d. ASSUME NEW c \in Calls, In(c, call[c].request, Working), NEW d \in Calls, d # c, call[d].phase = "failing"
      PROVE  call[d].request # call[c].request
  BY <1>a, <1>d DEF Told, Ownership, Alone, In, Working
<1>1. ASSUME NEW c \in Calls, NEW r \in Requests, NEW p \in Payloads, Submit(c, r, p)
      PROVE  Told' /\ CompletedStays
  BY <1>0, <1>1, <1>b, <1>c, ToldKept DEF Submit, TypeOK
<1>2. ASSUME NEW c \in Calls, Finish(c), UNCHANGED <<row, effects>>
      PROVE  Told' /\ CompletedStays
  BY <1>0, <1>2, <1>b, <1>c, ToldKept DEF Finish, TypeOK, Idle
<1>3. ASSUME NEW c \in Calls, NEW r \in Requests, NEW p \in Payloads,
             row[r].status # "accepted", row[r].status # "completed",
             row' = [row EXCEPT ![r] = AcceptedRow(p)], Run(c, r, call[c].payload), effects' = effects
      PROVE  Told' /\ CompletedStays
  <2>1. row'[r] = AcceptedRow(p) /\ \A q \in Requests : q # r => row'[q] = row[q]
    BY <1>3 DEF TypeOK
  <2>2. CompletedStays /\ StatusTellsEffect'
    BY <1>3, <2>1 DEF CompletedStays, StatusTellsEffect, Told, AcceptedRow
  <2>3. call'[c].phase = "executing" /\ \A d \in Calls : d # c => call'[d] = call[d]
    BY <1>3 DEF Run, TypeOK
  <2>4. \A d \in Calls : call[d].phase = "failing" => row'[call[d].request].status = "accepted"
    BY <1>3, <1>a, <1>c, <2>1
  <2>. QED BY <1>0, <2>2, <2>3, <2>4, ToldKept
<1>4. ASSUME NEW c \in Calls, Insert(c) PROVE Told' /\ CompletedStays
  <2>1. CASE row[call[c].request].status = "absent"
    <3>1. call[c].request \in Requests /\ call[c].payload \in Payloads
      BY <1>4 DEF Insert, TypeOK, Call, Idle
    <3>. QED BY <1>3, <1>4, <2>1, <3>1 DEF Insert
  <2>2. CASE row[call[c].request].status # "absent"
    <3>1. call' = [call EXCEPT ![c].seen = row[call[c].request]] /\ UNCHANGED <<row, effects>>
      BY <1>4, <2>2 DEF Insert
    <3>2. /\ call'[c].phase = "registering" /\ call'[c].request = call[c].request
          /\ call'[c].seen = row[call[c].request] /\ call[c].request \in Requests
          /\ \A d \in Calls : d # c => call'[d] = call[d]
      BY <1>4, <3>1 DEF Insert, TypeOK, Call, Idle
    <3>. QED BY <1>0, <1>b, <1>c, <3>1, <3>2, ToldKept
  <2>. QED BY <2>1, <2>2
<1>5. ASSUME NEW c \in Calls, Recover(c) PROVE Told' /\ CompletedStays
  <2>. DEFINE r == call[c].request
  <2>1. call[c].phase # "idle" /\ Recoverable(row[r]) /\ row' = [row EXCEPT ![r] = AcceptedRow(row[r].payload)]
        /\ Run(c, r, call[c].payload) /\ effects' = effects
    BY <1>5 DEF Recover, Resolving
  <2>2. row[r].payload \in Payloads /\ r \in Requests
    BY <1>5, <1>a DEF Recover, Resolving, SamePayload, Told, SeenBound, TypeOK, Call, Idle
  <2>3. row[r].status = "failed"
    BY <2>1 DEF Recoverable
  <2>. HIDE DEF r
  <2>. QED BY <1>3, <2>1, <2>2, <2>3
<1>6. ASSUME NEW c \in Calls, Commit(c) PROVE Told' /\ CompletedStays
  <2>. DEFINE r == call[c].request
  <2>1. /\ Apply(c) /\ call'[c].phase = "committed" /\ call'[c].request = r /\ call'[c].payload = call[c].payload
        /\ \A d \in Calls : d # c => call'[d] = call[d]
    BY <1>6 DEF Commit, TypeOK
  <2>2. In(c, r, {"executing"}) /\ In(c, r, Working) /\ r \in Requests
    BY <1>a, <2>1 DEF Apply, In, Working
  <2>3. row[r].status = "accepted" /\ row[r].payload = call[c].payload /\ effects[r] = <<>>
    BY <2>2 DEF Told, Ownership, ExecutingOwns, StatusTellsEffect
  <2>4. /\ row'[r] = Completed(r, 1)
        /\ \A q \in Requests : q # r => row'[q] = row[q] /\ effects'[q] = effects[q]
        /\ effects'[r] = Append(<<>>, call[c].payload)
    BY <2>1, <2>2, <2>3 DEF Apply, TypeOK
  <2>5. row'[r].status = "completed" /\ row'[r].payload = row[r].payload /\ row'[r].result = 1
    BY <1>a, <2>2, <2>4 DEF Completed, Row, TypeOK
  <2>6. Len(effects'[r]) = 1
    BY <2>4
  <2>7. CompletedStays /\ StatusTellsEffect'
    BY <2>3, <2>4, <2>5, <2>6 DEF CompletedStays, StatusTellsEffect, Told
  <2>8. \A d \in Calls : d # c /\ call[d].phase = "failing" => row'[call[d].request].status = "accepted"
    BY <1>a, <1>c, <1>d, <2>2, <2>4
  <2>. QED BY <1>0, <2>1, <2>3, <2>5, <2>7, <2>8, ToldKept
<1>7. ASSUME NEW c \in Calls, Abort(c) PROVE Told' /\ CompletedStays
  <2>1. /\ UNCHANGED <<row, effects>> /\ call'[c].phase = "failing" /\ call'[c].request = call[c].request
        /\ \A d \in Calls : d # c => call'[d] = call[d]
    BY <1>7 DEF Abort, Fail, TypeOK
  <2>2. row[call[c].request].status = "accepted"
    BY <1>7, <1>a DEF Abort, Told, Ownership, ExecutingOwns, In
  <2>. QED BY <1>0, <1>b, <1>c, <2>1, <2>2, ToldKept
<1>8. ASSUME NEW c \in Calls, MarkFailed(c) PROVE Told' /\ CompletedStays
  <2>. DEFINE r == call[c].request
  <2>1. In(c, r, Working) /\ r \in Requests /\ row[r] \in Row /\ row[r].status = "accepted"
    BY <1>8, <1>a, <1>c DEF MarkFailed, In, Working
  <2>2. /\ row'[r].status = "failed" /\ effects' = effects
        /\ \A q \in Requests : q # r => row'[q] = row[q]
    BY <1>8, <2>1 DEF MarkFailed, FailedRow, TypeOK, Row
  <2>3. call'[c].phase = "idle" /\ \A d \in Calls : d # c => call'[d] = call[d]
    BY <1>8 DEF MarkFailed, Finish, TypeOK, Idle
  <2>4. CompletedStays /\ StatusTellsEffect'
    BY <2>1, <2>2 DEF CompletedStays, StatusTellsEffect, Told
  <2>5. \A d \in Calls : d # c /\ call[d].phase = "failing" => row'[call[d].request].status = "accepted"
    BY <1>a, <1>c, <1>d, <2>1, <2>2
  <2>. QED BY <1>0, <2>3, <2>4, <2>5, ToldKept
<1>9. ASSUME NEW S \in SUBSET Requests, Sweep(S) PROVE Told' /\ CompletedStays
  <2>1. UNCHANGED <<call, effects>>
    BY <1>9 DEF Sweep
  <2>2. \A r \in Requests : /\ r \in S => ~Live(r) /\ row[r].status = "accepted" /\ row'[r].status = "failed"
                            /\ r \notin S => row'[r] = row[r]
    BY <1>9 DEF Sweep, Expired, Orderly, TypeOK, Row
  <2>3. CompletedStays /\ StatusTellsEffect'
    BY <2>1, <2>2 DEF CompletedStays, StatusTellsEffect, Told
  <2>4. \A d \in Calls : call[d].phase = "failing" => row'[call[d].request].status = "accepted"
    BY <1>a, <1>c, <2>2 DEF Live, In
  <2>. QED BY <1>0, <2>1, <2>3, <2>4, ToldKept
<1>10. CASE UNCHANGED vars
  BY <1>0, <1>10, <1>b, <1>c, ToldKept DEF vars
<1>. QED
  BY <1>1, <1>2, <1>4, <1>5, <1>6, <1>7, <1>8, <1>9, <1>10
  DEF Next, Work, Register, Reject, Replay, Refuse, CommitAnswerLost, MarkFailedLost, Return, Crash, Orderly

LEMMA ToldAlways == ASSUME Orderly PROVE SafeSpec => []Told
<1>1. Init => Told
  BY DEF Init, Told, Ownership, ExecutingOwns, FailingOwns, Alone, EffectShuts, SeenBound, StatusTellsEffect,
         FailingOpen, DoneIsFinal, In, Working, Idle, Absent
<1>2. TypeOK /\ Told /\ [Next]_vars => Told'
  BY ToldStep
<1>. QED BY <1>1, <1>2, TypeCorrect, PTL DEF SafeSpec

\* With every answer of the database delivered and the lease long enough, a row
\* that shows a result has exactly that effect, and any other hides none.
THEOREM StatusesTellEffects == ASSUME Orderly PROVE SafeSpec => []StatusTellsEffect
<1>1. Told => StatusTellsEffect
  BY DEF Told
<1>. QED BY <1>1, ToldAlways, PTL

-----------------------------------------------------------------------------
(* The promise of RequestOnce                                              *)

\* What the mapping of IngestRequests makes of the rows and the answers.
OutcomeOf(r) ==
  [state |-> CASE row[r].status = "absent" -> "new"
               [] row[r].status = "completed" -> "done"
               [] row[r].status = "failed" /\ ~row[r].recoverable -> "failed"
               [] OTHER -> "open",
   payload |-> row[r].payload]

OutcomeMap  == [r \in Requests |-> OutcomeOf(r)]
AnsweredMap == {<<a.request, a.payload>> : a \in replies}

promised == <<OutcomeMap, effects, AnsweredMap>>

\* The states of the promise, by the row.
LEMMA OutcomeStates ==
  ASSUME NEW r \in Requests
  PROVE  /\ OutcomeMap[r] = OutcomeOf(r)
         /\ row[r].status = "absent" => OutcomeOf(r) = [state |-> "new", payload |-> row[r].payload]
         /\ row[r].status = "completed" => OutcomeOf(r) = [state |-> "done", payload |-> row[r].payload]
         /\ row[r].status = "failed" /\ ~row[r].recoverable
              => OutcomeOf(r) = [state |-> "failed", payload |-> row[r].payload]
         /\ row[r].status = "accepted" \/ Recoverable(row[r])
              => OutcomeOf(r) = [state |-> "open", payload |-> row[r].payload]
BY DEF OutcomeMap, OutcomeOf, Recoverable

\* A step that writes the row of one request changes the outcome of that one.
LEMMA OutcomeOfOne ==
  ASSUME NEW r \in Requests, \A q \in Requests : q # r => row'[q] = row[q]
  PROVE  OutcomeMap' = [OutcomeMap EXCEPT ![r] = OutcomeOf(r)']
BY DEF OutcomeMap, OutcomeOf

LEMMA PromiseInit == Init => Once!Init
<1>. SUFFICES ASSUME Init PROVE Once!Init
  OBVIOUS
<1>1. \A r \in Requests : OutcomeOf(r) = [state |-> "new", payload |-> NoPayload]
  BY DEF Init, Absent, OutcomeOf
<1>. QED BY <1>1 DEF Init, Once!Init, OutcomeOf

\* A call answers a request only while its row is completed, with the payload
\* the row is bound to.
LEMMA AnswerMapped ==
  ASSUME TypeOK, NEW r \in Requests, NEW n, row[r].status = "completed",
         replies' = replies \cup {[request |-> r, payload |-> row[r].payload, effect |-> n]},
         UNCHANGED <<row, effects>>
  PROVE  Once!Next
<1>1. AnsweredMap' = AnsweredMap \cup {<<r, row[r].payload>>}
  <2>. DEFINE b == [request |-> r, payload |-> row[r].payload, effect |-> n]
              Pair(a) == <<a.request, a.payload>>
  <2>1. Pair(b) = <<r, row[r].payload>>
    OBVIOUS
  <2>2. replies' = replies \cup {b}
    OBVIOUS
  <2>3. AnsweredMap = {Pair(a) : a \in replies} /\ AnsweredMap' = {Pair(a) : a \in replies'}
    BY DEF AnsweredMap
  <2>. HIDE DEF Pair, b
  <2>4. {Pair(a) : a \in replies \cup {b}} = {Pair(a) : a \in replies} \cup {Pair(b)}
    OBVIOUS
  <2>. QED BY <2>1, <2>2, <2>3, <2>4
<1>2. OutcomeMap' = OutcomeMap
  BY DEF OutcomeMap, OutcomeOf
<1>3. OutcomeMap[r] = [state |-> "done", payload |-> row[r].payload]
  BY OutcomeStates
<1>4. Once!Answer(r)
  BY <1>1, <1>2, <1>3 DEF Once!Answer, OutcomeMap, OutcomeOf, AnsweredMap
<1>. QED BY <1>4 DEF Once!Next

LEMMA PromiseStep ==
  ASSUME Orderly, TypeOK, Told, [Next]_vars
  PROVE  [Once!Next]_promised
<1>. USE DEF promised
<1>a. ASSUME NEW c \in Calls, call[c].phase # "idle"
      PROVE  /\ call[c].request \in Requests /\ call[c].payload \in Payloads
             /\ row[call[c].request] \in Row
  BY <1>a DEF TypeOK, Call, Idle
<1>0. ASSUME UNCHANGED <<row, effects, replies>> PROVE UNCHANGED promised
  BY <1>0 DEF OutcomeMap, OutcomeOf, AnsweredMap
<1>1. ASSUME NEW c \in Calls, Insert(c) PROVE [Once!Next]_promised
  <2>0. PICK r \in Requests, p \in Payloads : r = call[c].request /\ p = call[c].payload
    BY <1>a, <1>1 DEF Insert
  <2>1. CASE row[r].status = "absent"
    <3>1. /\ row' = [row EXCEPT ![r] = AcceptedRow(p)] /\ UNCHANGED <<effects, replies>>
      BY <1>1, <2>0, <2>1 DEF Insert
    <3>2. row'[r] = AcceptedRow(p) /\ \A q \in Requests : q # r => row'[q] = row[q]
      BY <3>1 DEF TypeOK
    <3>3. OutcomeOf(r)' = [state |-> "open", payload |-> p]
      BY <3>2 DEF OutcomeOf, AcceptedRow
    <3>4. OutcomeMap' = [OutcomeMap EXCEPT ![r] = [state |-> "open", payload |-> p]]
      BY <3>1, <3>2, <3>3, OutcomeOfOne
    <3>5. OutcomeMap[r].state = "new"
      BY <2>1, <3>1, OutcomeStates
    <3>6. Once!Accept(r, p)
      BY <3>1, <3>4, <3>5 DEF Once!Accept, OutcomeMap, OutcomeOf, AnsweredMap
    <3>. QED BY <3>1, <3>6 DEF Once!Next
  <2>2. CASE row[r].status # "absent"
    BY <1>0, <1>1, <2>0, <2>2 DEF Insert
  <2>. QED BY <2>1, <2>2
<1>2. ASSUME NEW c \in Calls, Recover(c) PROVE UNCHANGED promised
  <2>0. PICK r \in Requests : r = call[c].request
    BY <1>a, <1>2 DEF Recover, Resolving
  <2>1. /\ Recoverable(row[r]) /\ r \in Requests
        /\ row' = [row EXCEPT ![r] = AcceptedRow(row[r].payload)] /\ UNCHANGED <<effects, replies>>
    BY <1>a, <1>2, <2>0 DEF Recover, Resolving
  <2>2. row'[r] = AcceptedRow(row[r].payload) /\ \A q \in Requests : q # r => row'[q] = row[q]
    BY <2>1 DEF TypeOK
  <2>3. OutcomeOf(r)' = [state |-> "open", payload |-> row[r].payload]
    BY <2>2 DEF OutcomeOf, AcceptedRow
  <2>4. OutcomeMap[r] = [state |-> "open", payload |-> row[r].payload]
    BY <2>1, OutcomeStates
  <2>5. OutcomeMap' = OutcomeMap
    BY <2>1, <2>2, <2>3, <2>4, OutcomeOfOne DEF OutcomeMap
  <2>. QED BY <2>1, <2>5 DEF AnsweredMap
<1>3. ASSUME NEW c \in Calls, Replay(c) PROVE Once!Next
  <2>1. /\ row[call[c].request].status = "completed" /\ call[c].request \in Requests
        /\ row[call[c].request].payload = call[c].payload
    BY <1>a, <1>3 DEF Replay, Resolving, Replayable, SamePayload, Told, DoneIsFinal, SeenBound
  <2>2. /\ replies' = replies \cup {[request |-> call[c].request, payload |-> call[c].payload,
                                     effect |-> call[c].seen.result]}
        /\ UNCHANGED <<row, effects>>
    BY <1>3 DEF Replay
  <2>. QED BY <2>1, <2>2, AnswerMapped
<1>4. ASSUME NEW c \in Calls, Return(c) PROVE Once!Next
  <2>1. /\ row[call[c].request].status = "completed" /\ call[c].request \in Requests
        /\ row[call[c].request].payload = call[c].payload
    BY <1>a, <1>4 DEF Return, Told, DoneIsFinal
  <2>2. /\ replies' = replies \cup {[request |-> call[c].request, payload |-> call[c].payload,
                                     effect |-> call[c].effect]}
        /\ UNCHANGED <<row, effects>>
    BY <1>4 DEF Return
  <2>. QED BY <2>1, <2>2, AnswerMapped
<1>5. ASSUME NEW c \in Calls, Commit(c) PROVE Once!Next
  <2>0. PICK r \in Requests : r = call[c].request
    BY <1>a, <1>5 DEF Commit, Apply
  <2>1. /\ r \in Requests /\ row[r] \in Row /\ In(c, r, {"executing"})
        /\ Apply(c) /\ UNCHANGED replies
    BY <1>a, <1>5, <2>0 DEF Commit, Apply, In
  <2>2. row[r].status = "accepted" /\ row[r].payload = call[c].payload /\ effects[r] = <<>>
    BY <2>1 DEF Told, Ownership, ExecutingOwns, StatusTellsEffect
  <2>3. /\ row'[r] = Completed(r, 1) /\ \A q \in Requests : q # r => row'[q] = row[q]
        /\ effects' = [effects EXCEPT ![r] = <<call[c].payload>>]
    <3>1. Append(<<>>, call[c].payload) = <<call[c].payload>> /\ Len(<<>>) + 1 = 1
      OBVIOUS
    <3>2. row' = [row EXCEPT ![r] = Completed(r, Len(effects[r]) + 1)]
          /\ effects' = [effects EXCEPT ![r] = Append(effects[r], call[c].payload)]
      BY <2>0, <2>1 DEF Apply
    <3>. QED BY <2>1, <2>2, <3>1, <3>2 DEF TypeOK
  <2>4. OutcomeOf(r)' = [state |-> "done", payload |-> row[r].payload]
    BY <2>1, <2>3 DEF OutcomeOf, Completed, Row
  <2>5. OutcomeMap[r] = [state |-> "open", payload |-> row[r].payload]
    BY <2>1, <2>2, OutcomeStates
  <2>6. OutcomeMap' = [OutcomeMap EXCEPT ![r].state = "done"]
    BY <2>1, <2>3, <2>4, <2>5, OutcomeOfOne DEF OutcomeMap
  <2>7. Once!Complete(r)
    BY <2>1, <2>2, <2>3, <2>5, <2>6 DEF Once!Complete, OutcomeMap, OutcomeOf, AnsweredMap
  <2>. QED BY <2>1, <2>7 DEF Once!Next, Once!Settle
<1>6. ASSUME NEW c \in Calls, MarkFailed(c) PROVE Once!Next
  <2>0. PICK r \in Requests : r = call[c].request
    BY <1>a, <1>6 DEF MarkFailed
  <2>1. /\ r \in Requests /\ row[r] \in Row /\ row[r].status = "accepted"
        /\ UNCHANGED <<effects, replies>>
    BY <1>a, <1>6, <2>0 DEF MarkFailed, Told, FailingOpen, In
  <2>2. row'[r] = FailedRow(r) /\ \A q \in Requests : q # r => row'[q] = row[q]
    BY <1>6, <2>0, <2>1 DEF MarkFailed, TypeOK
  <2>3. OutcomeOf(r)' = [state |-> "failed", payload |-> row[r].payload]
    BY <2>1, <2>2 DEF OutcomeOf, FailedRow, Row
  <2>4. OutcomeMap[r] = [state |-> "open", payload |-> row[r].payload]
    BY <2>1, OutcomeStates
  <2>5. OutcomeMap' = [OutcomeMap EXCEPT ![r].state = "failed"]
    BY <2>1, <2>2, <2>3, <2>4, OutcomeOfOne DEF OutcomeMap
  <2>6. Once!Fail(r)
    BY <2>1, <2>4, <2>5 DEF Once!Fail, OutcomeMap, OutcomeOf, AnsweredMap
  <2>. QED BY <2>1, <2>6 DEF Once!Next, Once!Settle
<1>7. ASSUME NEW S \in SUBSET Requests, Sweep(S) PROVE UNCHANGED promised
  <2>1. ASSUME NEW r \in Requests PROVE OutcomeOf(r)' = OutcomeOf(r)
    <3>1. CASE r \in S
      <4>1. row[r].status = "accepted" /\ row'[r].status = "failed" /\ row'[r].recoverable
            /\ row'[r].payload = row[r].payload
        BY <1>7, <3>1 DEF Sweep, Expired, TypeOK, Row
      <4>. QED BY <4>1 DEF OutcomeOf
    <3>2. CASE r \notin S
      BY <1>7, <3>2 DEF Sweep, OutcomeOf
    <3>. QED BY <3>1, <3>2
  <2>2. OutcomeMap' = OutcomeMap
    BY <2>1 DEF OutcomeMap
  <2>. QED BY <1>7, <2>2 DEF Sweep, AnsweredMap
<1>. QED
  BY <1>0, <1>1, <1>2, <1>3, <1>4, <1>5, <1>6, <1>7
  DEF Next, vars, Submit, Work, Register, Reject, Refuse, Abort, CommitAnswerLost, MarkFailedLost, Crash, Orderly

\* The rows keep what RequestOnce promises: every step accepts, completes, fails
\* or answers a request as it allows, or is invisible to the clients.
THEOREM ExecutedAsPromised == ASSUME Orderly PROVE SafeSpec => Once!SafeSpec
<1>1. TypeOK /\ Told /\ [Next]_vars => [Once!Next]_promised
  BY PromiseStep
<1>. QED BY PromiseInit, <1>1, TypeCorrect, ToldAlways, PTL
         DEF SafeSpec, Once!SafeSpec, Once!vars, promised, OutcomeMap, OutcomeOf, AnsweredMap
=============================================================================
