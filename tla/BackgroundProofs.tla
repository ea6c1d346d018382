--------------------------- MODULE BackgroundProofs ---------------------------
(***************************************************************************)
(* Proofs about the background mechanisms, for any number of processes and *)
(* rows, and any bounds: a probe of the breaker is not lost but when Redis *)
(* is marked available; runs of a governance job keep apart unless they    *)
(* are late or robbed; a ticket that lives no longer than a lease is       *)
(* claimed once, and one that fails in vain has a cause; an event that was *)
(* handled is not handled again unless something happened to its task; a   *)
(* cached answer older than its ledger has a cause, or somebody who is to  *)
(* remove it, and a row of the invalidations is completed only when it was *)
(* carried out. At the end the types and bounds of all of them together.   *)
(***************************************************************************)
EXTENDS MCBackground, FiniteSetTheorems, TLAPS

-----------------------------------------------------------------------------
(* The circuit breaker                                                     *)

BreakerState == [state : {"closed", "open", "half-open"}, attempts : 0..HalfOpenMax, cooled : BOOLEAN]

\* half-open, and not marked available: some probe is under way
ProbeUnderWay ==
  breaker.state = "half-open" /\ ~available => \E o \in CacheOps : opPhase[o] = "ping"

BreakerInv ==
  /\ breaker \in BreakerState
  /\ opPhase \in [CacheOps -> {"idle", "ping", "use"}]
  /\ ProbeUnderWay

LEMMA BreakerMoves ==
  ASSUME NEW b \in BreakerState
  PROVE  /\ Opened(b) \in BreakerState /\ Opened(b).state = "open"
         /\ Closed(b) \in BreakerState /\ Closed(b).state = "closed"
         /\ BreakerIn("open", b.attempts, TRUE) \in BreakerState /\ BreakerIn("open", b.attempts, TRUE).state = "open"
BY BreakerAssumption DEF BreakerState, Opened, Closed, BreakerIn

\* a failure closes the way to half-open, a success never opens it
LEMMA FailuresOpen ==
  ASSUME breaker \in BreakerState, RecordFailure
  PROVE  breaker' \in BreakerState /\ breaker'.state # "half-open" 
BY BreakerMoves DEF RecordFailure

LEMMA SuccessesClose ==
  ASSUME breaker \in BreakerState, RecordSuccess
  PROVE  breaker' \in BreakerState /\ breaker'.state # "half-open" 
BY BreakerMoves DEF RecordSuccess

\* asking a breaker whose cool-down is over is granted
LEMMA AskedStates ==
  ASSUME breaker \in BreakerState
  PROVE  /\ Asked \in BreakerState
         /\ Asked = breaker \/ (Asked.state = "half-open" /\ Granted)
         /\ Granted /\ Asked.state = "half-open" =>
              BreakerIn("half-open", Asked.attempts + 1, Asked.cooled) \in BreakerState
<1>1. CASE breaker.state = "open" /\ breaker.cooled
  <2>1. Asked = BreakerIn("half-open", 0, TRUE)
    BY <1>1 DEF Asked
  <2> QED BY <2>1, BreakerAssumption DEF BreakerState, Granted, BreakerIn
<1>2. CASE ~(breaker.state = "open" /\ breaker.cooled)
  <2>1. Asked = breaker
    BY <1>2 DEF Asked
  <2>2. Granted /\ breaker.state = "half-open" => breaker.attempts + 1 \in 0..HalfOpenMax
    BY <2>1, BreakerAssumption DEF BreakerState, Granted
  <2> QED BY <2>1, <2>2 DEF BreakerState, BreakerIn
<1> QED BY <1>1, <1>2

LEMMA BreakerInvStep == BreakerInv /\ [BreakerNext]_breakerVars => BreakerInv'
<1> SUFFICES ASSUME BreakerInv, [BreakerNext]_breakerVars PROVE BreakerInv'
  OBVIOUS
<1>1. ASSUME NEW o \in CacheOps, AskBreaker(o) PROVE BreakerInv'
  <2>1. breaker' \in BreakerState /\ opPhase' \in [CacheOps -> {"idle", "ping", "use"}]
    BY <1>1, AskedStates DEF AskBreaker, BreakerInv
  <2>2. \A q \in CacheOps : opPhase[q] = "ping" => opPhase'[q] = "ping"
    BY <1>1 DEF AskBreaker, BreakerInv
  <2>3. ProbeUnderWay'
    <3>1. CASE Asked = breaker /\ breaker.state = "half-open"
      BY <1>1, <2>2, <3>1 DEF AskBreaker, BreakerInv, ProbeUnderWay
    <3>2. CASE Asked = breaker /\ breaker.state # "half-open"
      BY <1>1, <3>2 DEF AskBreaker, ProbeUnderWay
    <3>3. CASE Asked.state = "half-open" /\ Granted
      <4>1. available \/ opPhase'[o] = "ping"
        BY <1>1, <3>3 DEF AskBreaker, BreakerInv
      <4> QED BY <1>1, <4>1 DEF AskBreaker, ProbeUnderWay
    <3> QED BY <3>1, <3>2, <3>3, AskedStates DEF BreakerInv
  <2> QED BY <2>1, <2>3 DEF BreakerInv
<1>2. ASSUME NEW o \in CacheOps, PingAnswered(o) PROVE BreakerInv'
  BY <1>2, SuccessesClose DEF PingAnswered, BreakerInv, ProbeUnderWay
<1>3. ASSUME NEW o \in CacheOps, UseAnswered(o) PROVE BreakerInv'
  BY <1>3 DEF UseAnswered, BreakerInv, ProbeUnderWay
<1>4. ASSUME NEW o \in CacheOps, OpFails(o) PROVE BreakerInv'
  BY <1>4, FailuresOpen DEF OpFails, BreakerInv, ProbeUnderWay
<1>5. CASE Breaks
  BY <1>5, FailuresOpen DEF Breaks, BreakerInv, ProbeUnderWay
<1>6. CASE Ready
  BY <1>6, SuccessesClose DEF Ready, BreakerInv, ProbeUnderWay
<1>7. CASE Cooldown
  BY <1>7, BreakerMoves DEF Cooldown, BreakerInv, ProbeUnderWay
<1>8. CASE Prune \/ UNCHANGED breakerVars
  BY <1>8 DEF Prune, breakerVars, BreakerInv, ProbeUnderWay
<1> QED BY <1>1, <1>2, <1>3, <1>4, <1>5, <1>6, <1>7, <1>8 DEF BreakerNext, OpStep

LEMMA BreakerInvInit == BreakerInit => BreakerInv
BY BreakerAssumption DEF BreakerInit, BreakerInv, BreakerState, ProbeUnderWay, BreakerIn

\* canExecute, recordSuccess, recordFailure and the events of the client, for
\* any number of operations, attempts and errors: a breaker that is half-open
\* with its attempts used up has a probe under way, or the cache was marked
\* available without one.
THEOREM ProbesAreNotLost == BreakerSpec => []ProbeLostOnlyWhenAvailable
<1>1. BreakerInv => ProbeLostOnlyWhenAvailable
  BY DEF BreakerInv, ProbeUnderWay, ProbeLostOnlyWhenAvailable
<1> QED BY <1>1, BreakerInvInit, BreakerInvStep, PTL DEF BreakerSpec

-----------------------------------------------------------------------------
(* Governance runs                                                         *)

\* the lease of the job is held in one row at most
OneHolder == \A i, k \in HeldRuns : i = k

InTime(j) == AtWork(j) /\ j \notin late /\ j \notin robbed

\* a run that is in time holds its row, for some time yet
InTimeHolds ==
  \A j \in Jobbers : InTime(j) =>
    jobber[j].row \in DOMAIN govRuns /\ govRuns[jobber[j].row].holder = j /\ govRuns[jobber[j].row].left > 0

GovInv == GovTypeOK /\ OneHolder /\ InTimeHolds

GovRow == [status : {"running", "ended"}, holder : Jobbers \cup {NoHolder}, left : 0..GovLease]

LEMMA RowsFrom ==
  ASSUME NEW S, NEW n \in Nat, NEW f, f = [k \in 1..n |-> f[k]], \A k \in 1..n : f[k] \in S
  PROVE  f \in Seq(S) /\ Len(f) = n /\ DOMAIN f = 1..n
OBVIOUS

LEMMA GovInvInit == GovInit => GovInv
BY GovernanceAssumption DEF GovInit, GovInv, GovTypeOK, OneHolder, InTimeHolds, HeldRuns, InTime, AtWork, Resting

LEMMA BeginRunKeeps == ASSUME GovInv, NEW j \in Jobbers, BeginRun(j) PROVE GovInv'
<1> USE GovernanceAssumption
<1>1. govRuns \in Seq(GovRow) /\ DOMAIN govRuns = 1..Len(govRuns) /\ Len(govRuns) \in Nat
  BY DEF GovInv, GovTypeOK, GovRow
<1>2. PICK i \in 1..MaxRuns :
        /\ IF HeldRuns = {} THEN i = Len(govRuns) + 1 ELSE i \in HeldRuns /\ Over(i)
        /\ govRuns' = [k \in DOMAIN govRuns \cup {i} |-> IF k = i THEN Fresh(j) ELSE govRuns[k]]
        /\ jobber' = [jobber EXCEPT ![j] = [phase |-> "work", row |-> i]]
  BY DEF BeginRun
<1>3. i \in Nat /\ DOMAIN govRuns \cup {i} \in {1..Len(govRuns), 1..(Len(govRuns) + 1)}
  BY <1>1, <1>2 DEF HeldRuns
<1>4. Fresh(j) \in GovRow
  BY DEF Fresh, GovRow
<1>5. PICK n \in Nat : DOMAIN govRuns \cup {i} = 1..n /\ n >= Len(govRuns)
  BY <1>1, <1>3
<1>6. \A k \in 1..n : govRuns'[k] \in GovRow
  BY <1>1, <1>2, <1>4, <1>5
<1>7. govRuns' \in Seq(GovRow) /\ Len(govRuns') = n /\ DOMAIN govRuns' = 1..n
  <2>1. govRuns' = [k \in 1..n |-> govRuns'[k]]
    BY <1>2, <1>5
  <2> QED BY <2>1, <1>6, RowsFrom
<1>8. GovTypeOK'
  <2>1. govRuns' \in Seq([status : {"running", "ended"}, holder : Jobbers \cup {NoHolder}, left : 0..GovLease])
    BY <1>7 DEF GovRow
  <2>2. jobber' \in [Jobbers -> [phase : {"idle", "work", "release"}, row : 0..Len(govRuns')]]
    <3>1. [phase |-> "work", row |-> i] \in [phase : {"idle", "work", "release"}, row : 0..Len(govRuns')]
      <4>1. i \in 1..n /\ n \in Nat /\ Len(govRuns') = n
        BY <1>5, <1>7
      <4>2. i \in 0..Len(govRuns')
        BY <4>1
      <4> QED BY <4>2
    <3>2. \A k \in Jobbers : jobber[k] \in [phase : {"idle", "work", "release"}, row : 0..Len(govRuns')]
      BY <1>1, <1>5, <1>7 DEF GovInv, GovTypeOK
    <3> QED BY <3>1, <3>2, <1>2 DEF GovInv, GovTypeOK
  <2>3. \A k \in Jobbers : (jobber'[k].phase = "idle") = (jobber'[k].row = 0)
    BY <1>2, <1>5, <1>1 DEF GovInv, GovTypeOK
  <2>4. suspects' \subseteq DOMAIN govRuns'
    BY <1>1, <1>5, <1>7 DEF GovInv, GovTypeOK, BeginRun
  <2> QED BY <2>1, <2>2, <2>3, <2>4 DEF GovInv, GovTypeOK, BeginRun
<1>9. HeldRuns' \subseteq {i}
  <2>1. \A k \in HeldRuns : k = i \/ HeldRuns = {}
    BY <1>2 DEF GovInv, OneHolder
  <2>2. \A k \in HeldRuns' : k = i \/ k \in HeldRuns
    BY <1>2, <1>5, <1>7 DEF HeldRuns, Leased
  <2> QED BY <2>1, <2>2
<1>10. InTimeHolds'
  <2> SUFFICES ASSUME NEW v \in Jobbers, InTime(v)' PROVE
        jobber'[v].row \in DOMAIN govRuns' /\ govRuns'[jobber'[v].row].holder = v /\ govRuns'[jobber'[v].row].left > 0
    BY DEF InTimeHolds
  <2>1. CASE v = j
    BY <2>1, <1>2, <1>5, <1>7 DEF GovInv, GovTypeOK, Fresh
  <2>2. CASE v # j
    <3>1. InTime(v) /\ jobber'[v] = jobber[v]
      BY <2>2, <1>2 DEF InTime, AtWork, BeginRun, GovInv, GovTypeOK
    <3>2. LET k == jobber[v].row IN k \in HeldRuns /\ ~Over(k)
      BY <3>1, <1>1 DEF GovInv, InTimeHolds, HeldRuns, Leased, NoHolder, Over, GovRow
    <3> QED BY <3>2, <1>2 DEF GovInv, OneHolder
  <2> QED BY <2>1, <2>2
<1> QED BY <1>8, <1>9, <1>10 DEF GovInv, OneHolder

\* A step that changes the rows in place.
LEMMA SameRows ==
  ASSUME GovInv, NEW e, govRuns' = [i \in DOMAIN govRuns |-> e[i]], \A i \in DOMAIN govRuns : e[i] \in GovRow
  PROVE  /\ govRuns' \in Seq([status : {"running", "ended"}, holder : Jobbers \cup {NoHolder}, left : 0..GovLease])
         /\ Len(govRuns') = Len(govRuns) /\ DOMAIN govRuns' = DOMAIN govRuns
<1>1. Len(govRuns) \in Nat /\ DOMAIN govRuns = 1..Len(govRuns)
  BY DEF GovInv, GovTypeOK
<1>2. govRuns' = [k \in 1..Len(govRuns) |-> govRuns'[k]] /\ \A k \in 1..Len(govRuns) : govRuns'[k] \in GovRow
  BY <1>1
<1> QED BY <1>1, <1>2, RowsFrom DEF GovRow

LEMMA RowsAreRows == GovInv => \A k \in DOMAIN govRuns : govRuns[k] \in GovRow
<1>1. GovInv => govRuns \in Seq(GovRow)
  BY DEF GovInv, GovTypeOK, GovRow
<1> QED BY <1>1

LEMMA HeartbeatKeeps == ASSUME GovInv, NEW j \in Jobbers, Heartbeat(j) PROVE GovInv'
<1> USE GovernanceAssumption
<1> DEFINE i == jobber[j].row
           e == [k \in DOMAIN govRuns |-> IF k = i THEN [govRuns[i] EXCEPT !.left = GovLease] ELSE govRuns[k]]
<1>1. i \in DOMAIN govRuns
  BY DEF GovInv, GovTypeOK, Heartbeat, AtWork
<1>2. govRuns' = [k \in DOMAIN govRuns |-> e[k]]
  BY <1>1 DEF Heartbeat, GovInv, GovTypeOK
<1>3. \A k \in DOMAIN govRuns : govRuns[k] \in GovRow /\ e[k] \in GovRow
  BY RowsAreRows DEF GovRow
<1> HIDE DEF e
<1>4. GovTypeOK'
  BY <1>2, <1>3, SameRows DEF GovInv, GovTypeOK, Heartbeat
<1>5. DOMAIN govRuns' = DOMAIN govRuns /\ \A k \in DOMAIN govRuns : govRuns'[k].holder = govRuns[k].holder
  BY <1>2, <1>3 DEF e, GovRow
<1>6. \A k \in DOMAIN govRuns : govRuns'[k].left \in {govRuns[k].left, GovLease}
  BY <1>2, <1>3 DEF e, GovRow
<1>7. OneHolder'
  BY <1>5 DEF GovInv, OneHolder, HeldRuns, Leased
<1>8. InTimeHolds'
  BY <1>5, <1>6 DEF GovInv, InTimeHolds, InTime, AtWork, Heartbeat
<1> QED BY <1>4, <1>7, <1>8 DEF GovInv

\* A process turns to something else than work, and leaves the rows alone.
LEMMA LeavingKeeps ==
  ASSUME GovInv, NEW j \in Jobbers, govRuns' = govRuns, suspects' = suspects, govFaults' \in Nat, Leave(j),
         NEW z \in [phase : {"idle", "release"}, row : 0..Len(govRuns)],
         (z.phase = "idle") = (z.row = 0), jobber' = [jobber EXCEPT ![j] = z]
  PROVE  GovInv'
<1>1. GovTypeOK'
  BY DEF GovInv, GovTypeOK, Leave
<1>2. OneHolder'
  BY DEF GovInv, OneHolder, HeldRuns, Leased
<1>3. \A v \in Jobbers : InTime(v)' => InTime(v) /\ jobber'[v] = jobber[v]
  BY DEF InTime, AtWork, GovInv, GovTypeOK, Leave
<1>4. InTimeHolds'
  BY <1>3 DEF GovInv, InTimeHolds
<1> QED BY <1>1, <1>2, <1>4 DEF GovInv

LEMMA RestingIsLeaving ==
  GovInv => /\ Resting \in [phase : {"idle", "release"}, row : 0..Len(govRuns)]
            /\ (Resting.phase = "idle") = (Resting.row = 0)
<1>1. GovInv => Len(govRuns) \in Nat
  BY DEF GovInv, GovTypeOK
<1> QED BY <1>1 DEF Resting

LEMMA AbandonKeeps == ASSUME GovInv, NEW j \in Jobbers, Abandon(j) PROVE GovInv'
<1>1. PICK z \in {Resting, [jobber[j] EXCEPT !.phase = "release"]} : jobber' = [jobber EXCEPT ![j] = z]
  BY DEF Abandon, GovInv, GovTypeOK
<1>2. /\ z \in [phase : {"idle", "release"}, row : 0..Len(govRuns)]
      /\ (z.phase = "idle") = (z.row = 0)
  <2>1. CASE z = Resting
    BY <2>1, RestingIsLeaving
  <2>2. CASE z = [jobber[j] EXCEPT !.phase = "release"]
    BY <2>2 DEF GovInv, GovTypeOK, Abandon, AtWork
  <2> QED BY <2>1, <2>2
<1>3. govFaults' \in Nat /\ Leave(j) /\ UNCHANGED <<govRuns, suspects>>
  BY DEF Abandon, GovFault, GovInv, GovTypeOK
<1> QED BY <1>1, <1>2, <1>3, LeavingKeeps

LEMMA EndProcessKeeps == ASSUME GovInv, NEW j \in Jobbers, EndProcess(j) PROVE GovInv'
<1>1. govFaults' \in Nat /\ Leave(j) /\ UNCHANGED <<govRuns, suspects>> /\ jobber' = [jobber EXCEPT ![j] = Resting]
  BY DEF EndProcess, GovFault, GovInv, GovTypeOK
<1> QED BY <1>1, RestingIsLeaving, LeavingKeeps

LEMMA EndedIsRow == Ended \in GovRow /\ Ended.holder = NoHolder
BY GovernanceAssumption DEF Ended, GovRow

LEMMA FinishRunKeeps == ASSUME GovInv, NEW j \in Jobbers, FinishRun(j) PROVE GovInv'
<1> USE GovernanceAssumption
<1> DEFINE i == jobber[j].row
           e == [k \in DOMAIN govRuns |-> IF k = i THEN Ended ELSE govRuns[k]]
<1>1. i \in DOMAIN govRuns
  <2>1. jobber[j].phase # "idle"
    BY DEF FinishRun, AtWork
  <2>2. govRuns \in Seq([status : {"running", "ended"}, holder : Jobbers \cup {NoHolder}, left : 0..GovLease])
    BY DEF GovInv, GovTypeOK
  <2>3. jobber[j] \in [phase : {"idle", "work", "release"}, row : 0..Len(govRuns)] /\ i # 0
    BY <2>1 DEF GovInv, GovTypeOK
  <2> HIDE DEF i
  <2>4. i \in 0..Len(govRuns) /\ Len(govRuns) \in Nat /\ DOMAIN govRuns = 1..Len(govRuns)
    BY <2>2, <2>3 DEF i
  <2> QED BY <2>3, <2>4
<1>2. govRuns' = [k \in DOMAIN govRuns |-> e[k]]
  BY <1>1 DEF FinishRun, GovInv, GovTypeOK
<1>3. \A k \in DOMAIN govRuns : govRuns[k] \in GovRow /\ e[k] \in GovRow
  BY RowsAreRows, EndedIsRow
<1> HIDE DEF e
<1>4. /\ govRuns' \in Seq([status : {"running", "ended"}, holder : Jobbers \cup {NoHolder}, left : 0..GovLease])
      /\ Len(govRuns') = Len(govRuns) /\ DOMAIN govRuns' = DOMAIN govRuns
  BY <1>2, <1>3, SameRows
<1>5. PICK z \in {Resting, [jobber[j] EXCEPT !.phase = "release"]} : jobber' = [jobber EXCEPT ![j] = z]
  BY DEF FinishRun, GovInv, GovTypeOK
<1>6. /\ z \in [phase : {"idle", "release"}, row : 0..Len(govRuns)]
      /\ (z.phase = "idle") = (z.row = 0)
  BY <1>5 DEF Resting, GovInv, GovTypeOK, FinishRun, AtWork
<1>7. GovTypeOK'
  BY <1>4, <1>5, <1>6 DEF GovInv, GovTypeOK, FinishRun, Victims
<1>8. \A k \in DOMAIN govRuns : k # i => govRuns'[k] = govRuns[k]
  BY <1>2 DEF e
<1>9. govRuns'[i].holder = NoHolder
  BY <1>1, <1>2, EndedIsRow DEF e
<1>10. OneHolder'
  BY <1>4, <1>8, <1>9 DEF GovInv, OneHolder, HeldRuns, Leased
<1>11. \A v \in Jobbers : InTime(v)' => InTime(v) /\ jobber'[v] = jobber[v] /\ govRuns[i].holder # v
  <2> SUFFICES ASSUME NEW v \in Jobbers, InTime(v)' PROVE InTime(v) /\ jobber'[v] = jobber[v] /\ govRuns[i].holder # v
    OBVIOUS
  <2>1. v # j /\ jobber'[v] = jobber[v]
    BY <1>5, <1>6 DEF InTime, AtWork, GovInv, GovTypeOK
  <2>2. AtWork(v) /\ v \notin late /\ v \notin robbed /\ v \notin Victims(i, j)
    BY <2>1 DEF InTime, AtWork, FinishRun
  <2> QED BY <2>1, <2>2 DEF InTime, Victims
<1>12. InTimeHolds'
  BY <1>4, <1>8, <1>11 DEF GovInv, InTimeHolds
<1> QED BY <1>7, <1>10, <1>12 DEF GovInv

LEMMA ReleaseKeeps == ASSUME GovInv, NEW j \in Jobbers, ReleaseLease(j) PROVE GovInv'
<1> USE GovernanceAssumption
<1> DEFINE i == jobber[j].row
           e == [k \in DOMAIN govRuns |-> IF k = i /\ govRuns[i].holder = j
                   THEN Freed(govRuns[i]) ELSE govRuns[k]]
<1>1. i \in DOMAIN govRuns
  BY DEF GovInv, GovTypeOK, ReleaseLease
<1>2. govRuns' = [k \in DOMAIN govRuns |-> e[k]]
  <2>1. govRuns = [k \in DOMAIN govRuns |-> govRuns[k]]
    BY DEF GovInv, GovTypeOK
  <2>2. CASE govRuns[i].holder = j
    BY <2>1, <2>2, <1>1 DEF ReleaseLease
  <2>3. CASE govRuns[i].holder # j
    BY <2>1, <2>3 DEF ReleaseLease
  <2> QED BY <2>2, <2>3
<1>3. \A k \in DOMAIN govRuns : govRuns[k] \in GovRow /\ e[k] \in GovRow
  <2>1. \A r \in GovRow : Freed(r) \in GovRow
    BY DEF GovRow, Freed
  <2> QED BY <2>1, RowsAreRows, <1>1
<1> HIDE DEF e
<1>4. /\ govRuns' \in Seq([status : {"running", "ended"}, holder : Jobbers \cup {NoHolder}, left : 0..GovLease])
      /\ Len(govRuns') = Len(govRuns) /\ DOMAIN govRuns' = DOMAIN govRuns
  BY <1>2, <1>3, SameRows
<1>5. GovTypeOK'
  BY <1>4 DEF GovInv, GovTypeOK, ReleaseLease, Resting
<1>6. \A k \in DOMAIN govRuns : govRuns'[k] = govRuns[k] \/ (govRuns[k].holder = j /\ govRuns'[k].holder = NoHolder)
  BY <1>2 DEF e, Freed
<1>7. OneHolder'
  BY <1>4, <1>6 DEF GovInv, OneHolder, HeldRuns, Leased
<1>8. \A v \in Jobbers : InTime(v)' => InTime(v) /\ jobber'[v] = jobber[v] /\ v # j
  BY DEF InTime, AtWork, ReleaseLease, Resting, GovInv, GovTypeOK
<1>9. InTimeHolds'
  BY <1>4, <1>6, <1>8 DEF GovInv, InTimeHolds
<1> QED BY <1>5, <1>7, <1>9 DEF GovInv

LEMMA FailStuckKeeps == ASSUME GovInv, FailStuck PROVE GovInv'
<1> USE GovernanceAssumption
<1> DEFINE e == [k \in DOMAIN govRuns |-> IF k \in suspects THEN Ended ELSE govRuns[k]]
<1>1. govRuns' = [k \in DOMAIN govRuns |-> e[k]] /\ UNCHANGED <<jobber, late, govFaults>>
  BY DEF FailStuck
<1>2. \A k \in DOMAIN govRuns : govRuns[k] \in GovRow /\ e[k] \in GovRow
  BY RowsAreRows, EndedIsRow
<1> HIDE DEF e
<1>3. /\ govRuns' \in Seq([status : {"running", "ended"}, holder : Jobbers \cup {NoHolder}, left : 0..GovLease])
      /\ Len(govRuns') = Len(govRuns) /\ DOMAIN govRuns' = DOMAIN govRuns
  BY <1>1, <1>2, SameRows
<1>4. GovTypeOK'
  BY <1>1, <1>3 DEF GovInv, GovTypeOK, FailStuck
<1>5. \A k \in DOMAIN govRuns : govRuns'[k] = govRuns[k] \/ (k \in suspects /\ govRuns'[k].holder = NoHolder)
  BY <1>1, EndedIsRow DEF e
<1>6. OneHolder'
  BY <1>3, <1>5 DEF GovInv, OneHolder, HeldRuns, Leased
<1>7. \A v \in Jobbers : InTime(v)' => InTime(v) /\ \A k \in suspects : govRuns[k].holder # v
  BY <1>1 DEF InTime, AtWork, FailStuck
<1>8. InTimeHolds'
  BY <1>1, <1>3, <1>5, <1>7 DEF GovInv, InTimeHolds
<1> QED BY <1>4, <1>6, <1>8 DEF GovInv

LEMMA GovTickKeeps == ASSUME GovInv, GovTick PROVE GovInv'
<1> USE GovernanceAssumption
<1> DEFINE e == [k \in DOMAIN govRuns |-> [govRuns[k] EXCEPT !.left = IF @ = 0 THEN 0 ELSE @ - 1]]
<1>1. govRuns' = [k \in DOMAIN govRuns |-> e[k]] /\ UNCHANGED <<jobber, suspects, robbed, govFaults>>
  BY DEF GovTick
<1>2. \A k \in DOMAIN govRuns : govRuns[k] \in GovRow /\ e[k] \in GovRow
  BY RowsAreRows DEF GovRow
<1> HIDE DEF e
<1>3. /\ govRuns' \in Seq([status : {"running", "ended"}, holder : Jobbers \cup {NoHolder}, left : 0..GovLease])
      /\ Len(govRuns') = Len(govRuns) /\ DOMAIN govRuns' = DOMAIN govRuns
  BY <1>1, <1>2, SameRows
<1>4. GovTypeOK'
  BY <1>1, <1>3 DEF GovInv, GovTypeOK, GovTick
<1>5. \A k \in DOMAIN govRuns : /\ govRuns'[k].holder = govRuns[k].holder
                                /\ govRuns[k].left > 0 => govRuns[k].left = 1 \/ govRuns'[k].left > 0
  BY <1>1, <1>2 DEF e, GovRow
<1>6. OneHolder'
  BY <1>3, <1>5 DEF GovInv, OneHolder, HeldRuns, Leased
<1>7. \A v \in Jobbers : InTime(v)' => InTime(v) /\ \A k \in DOMAIN govRuns : govRuns[k].holder = v => govRuns[k].left # 1
  BY <1>1 DEF InTime, AtWork, GovTick
<1>8. InTimeHolds'
  BY <1>1, <1>3, <1>5, <1>7 DEF GovInv, InTimeHolds
<1> QED BY <1>4, <1>6, <1>8 DEF GovInv

LEMMA GovInvStep == GovInv /\ [GovNext]_govVars => GovInv'
<1> SUFFICES ASSUME GovInv, [GovNext]_govVars PROVE GovInv'
  OBVIOUS
<1>1. ASSUME NEW j \in Jobbers, BeginRun(j) PROVE GovInv'
  BY <1>1, BeginRunKeeps
<1>2. ASSUME NEW j \in Jobbers, Heartbeat(j) PROVE GovInv'
  BY <1>2, HeartbeatKeeps
<1>3. ASSUME NEW j \in Jobbers, FinishRun(j) PROVE GovInv'
  BY <1>3, FinishRunKeeps
<1>4. ASSUME NEW j \in Jobbers, Abandon(j) PROVE GovInv'
  BY <1>4, AbandonKeeps
<1>5. ASSUME NEW j \in Jobbers, ReleaseLease(j) PROVE GovInv'
  BY <1>5, ReleaseKeeps
<1>6. ASSUME NEW j \in Jobbers, EndProcess(j) PROVE GovInv'
  BY <1>6, EndProcessKeeps
<1>7. ASSUME ListStuck PROVE GovInv'
  BY <1>7 DEF ListStuck, GovInv, GovTypeOK, OneHolder, HeldRuns, Leased, InTimeHolds, InTime, AtWork
<1>8. ASSUME FailStuck PROVE GovInv'
  BY <1>8, FailStuckKeeps
<1>9. ASSUME GovTick PROVE GovInv'
  BY <1>9, GovTickKeeps
<1>10. ASSUME UNCHANGED govVars PROVE GovInv'
  BY <1>10 DEF govVars, GovInv, GovTypeOK, OneHolder, HeldRuns, Leased, InTimeHolds, InTime, AtWork
<1> QED BY <1>1, <1>2, <1>3, <1>4, <1>5, <1>6, <1>7, <1>8, <1>9, <1>10 DEF GovNext

LEMMA GovInvApart == GovInv => RunsApart
<1> SUFFICES ASSUME GovInv, NEW j \in Jobbers, NEW k \in Jobbers, j # k, InTime(j), InTime(k) PROVE FALSE
  BY DEF RunsApart, InTime
<1>1. jobber[j].row \in HeldRuns /\ jobber[k].row \in HeldRuns
  BY GovernanceAssumption DEF GovInv, InTimeHolds, HeldRuns, Leased, NoHolder
<1> QED BY <1>1 DEF GovInv, OneHolder, InTimeHolds

\* tryBeginRun, heartbeats, finishRun and the detector with any timeout, for any
\* number of processes and rows: two runs of a job that are both in time, and
\* from which neither a finish nor the detector took the lease, are never at
\* work together. (A detector whose timeout is shorter than the lease may take
\* it from a run in time.)
THEOREM GovernanceRunsKeepApart == GovSpec => []RunsApart
<1>1. GovSpec => []GovInv
  BY GovInvInit, GovInvStep, PTL DEF GovSpec
<1> QED BY <1>1, GovInvApart, PTL

-----------------------------------------------------------------------------
(* Write tickets                                                           *)

TicketRow == [status : Open \cup Terminal \cup {"none"}, ttl : Nat, left : Nat,
              lease : Nat, attempts : Nat, owner : Process \cup {NoBody}]

\* What keeps the lease of a short-lived ticket from running out first.
Timed(r) ==
  /\ r \in TicketRow /\ r.left <= r.ttl
  /\ r.status \in {"none", "pending"} => r.attempts = 0
  /\ r.ttl <= TicketLease =>
       /\ r.attempts <= 1
       /\ r.status = "processing" => r.lease >= r.left

TicketsTimed == ticket = [t \in Tickets |-> ticket[t]] /\ \A t \in Tickets : Timed(ticket[t])

ClaimedRow(r, p) == [r EXCEPT !.status = "processing", !.owner = p, !.lease = TicketLease, !.attempts = @ + 1]
EndedRow(r, s)   == [r EXCEPT !.status = s, !.owner = NoBody, !.lease = 0]
TickedRow(r)     == [r EXCEPT !.left = Less(@), !.lease = Less(@)]
BeatenRow(r)     == [r EXCEPT !.lease = TicketLease]

LEMMA ClaimTimes ==
  ASSUME NEW r, Timed(r), r.left > 0, r.status = "pending" \/ (r.status = "processing" /\ r.lease = 0),
         NEW p \in Process
  PROVE  Timed(ClaimedRow(r, p))
<1> DEFINE s == ClaimedRow(r, p)
<1>1. "processing" \in Open \cup Terminal \cup {"none"} /\ TicketLease \in Nat /\ r.attempts + 1 \in Nat
  BY TicketAssumption DEF Timed, TicketRow, Open
<1>2. s \in TicketRow
  BY <1>1 DEF Timed, TicketRow, ClaimedRow
<1>3. s.status = "processing" /\ s.lease = TicketLease /\ s.attempts = r.attempts + 1 /\ s.left = r.left /\ s.ttl = r.ttl
  BY DEF Timed, TicketRow, ClaimedRow
<1> HIDE DEF s
<1>4. Timed(s)
  BY <1>2, <1>3, TicketAssumption DEF Timed, TicketRow
<1> QED BY <1>4 DEF s

LEMMA EndTimes == ASSUME NEW r, Timed(r), NEW s \in Terminal PROVE Timed(EndedRow(r, s))
BY TicketAssumption DEF Timed, TicketRow, Open, Terminal, EndedRow

LEMMA TickTimes == ASSUME NEW r, Timed(r) PROVE Timed(TickedRow(r))
<1> DEFINE s == TickedRow(r)
<1>1. \A n \in Nat : Less(n) \in Nat /\ Less(n) <= n /\ \A m \in Nat : n >= m => Less(n) >= Less(m)
  BY DEF Less
<1>2. s \in TicketRow
  BY <1>1 DEF Timed, TicketRow, TickedRow
<1>3. /\ s.status = r.status /\ s.lease = Less(r.lease) /\ s.attempts = r.attempts
      /\ s.left = Less(r.left) /\ s.ttl = r.ttl
  BY DEF Timed, TicketRow, TickedRow
<1> HIDE DEF s
<1>4. Timed(s)
  BY <1>1, <1>2, <1>3, TicketAssumption DEF Timed, TicketRow
<1> QED BY <1>4 DEF s

LEMMA BeatTimes == ASSUME NEW r, Timed(r) PROVE Timed(BeatenRow(r))
BY TicketAssumption DEF Timed, TicketRow, Open, Terminal, BeatenRow

LEMMA NewTicketTimes ==
  ASSUME NEW n \in TicketTtls
  PROVE  Timed(Posted(n))
BY TicketAssumption DEF Posted, Timed, TicketRow, Open, Terminal

LEMMA NoTicketTimes == Timed(NoTicket)
BY TicketAssumption DEF NoTicket, Timed, TicketRow, Open, Terminal

LEMMA CompletedTimes ==
  ASSUME TicketsTimed, NEW t \in Tickets, NEW p \in Process, NEW s \in Terminal, ticket' = Completed(t, p, s)
  PROVE  TicketsTimed'
BY EndTimes DEF TicketsTimed, Completed, EndedRow

Firsts == {"none", "completed", "needs_review", "skipped_duplicate", "cancelled_low_quality"}

WorkRow == [batch : SUBSET Tickets, at : SUBSET Tickets, todo : Nat, first : Firsts]

WorkTyped == work \in [Process -> WorkRow] /\ \A p \in Process : \A t, u \in work[p].at : t = u

LEMMA NewWorkTypes ==
  /\ NoWork \in WorkRow
  /\ \A b, a \in SUBSET Tickets, n \in Nat, f \in Firsts : [batch |-> b, at |-> a, todo |-> n, first |-> f] \in WorkRow
BY DEF NoWork, Between, WorkRow, Firsts

LEMMA WorkTypedStep == WorkTyped /\ [TicketNext]_ticketVars => WorkTyped'
<1> SUFFICES ASSUME WorkTyped, [TicketNext]_ticketVars PROVE WorkTyped'
  OBVIOUS
<1>0. ASSUME NEW p \in Process, NEW r \in WorkRow, \A t, u \in r.at : t = u, work' = [work EXCEPT ![p] = r] PROVE WorkTyped'
  BY <1>0 DEF WorkTyped
<1>1. ASSUME NEW t \in Tickets, Post(t) PROVE WorkTyped'
  <2>1. CASE UNCHANGED work
    BY <2>1 DEF WorkTyped
  <2>2. ASSUME NEW n \in 0..MaxMemories, work' = [work EXCEPT ![Server] = Begun(t, n, {})] PROVE WorkTyped'
    <3>1. Begun(t, n, {}) \in WorkRow /\ Begun(t, n, {}).at = {t}
      BY TicketAssumption DEF Begun, WorkRow, Firsts
    <3> QED BY <1>0, <2>2, <3>1 DEF Process
  <2> QED BY <1>1, <2>1, <2>2 DEF Post
<1>2. ASSUME NEW p \in Process, ClaimTickets(p) PROVE WorkTyped'
  <2>1. PICK batch \in SUBSET Tickets : work' = [work EXCEPT ![p].batch = batch]
    BY <1>2 DEF ClaimTickets
  <2>2. [work[p] EXCEPT !.batch = batch] \in WorkRow /\ [work[p] EXCEPT !.batch = batch].at = work[p].at
    BY DEF WorkTyped, WorkRow
  <2>3. work' = [work EXCEPT ![p] = [work[p] EXCEPT !.batch = batch]]
    BY <2>1
  <2> QED BY <1>0, <2>2, <2>3 DEF WorkTyped
<1>3. ASSUME NEW p \in Process, BeginTicket(p) PROVE WorkTyped'
  <2>1. PICK t \in work[p].batch, n \in 0..MaxMemories :
          work' = [work EXCEPT ![p] = Begun(t, n, work[p].batch \ {t})]
    BY <1>3 DEF BeginTicket
  <2>2. t \in Tickets /\ work[p].batch \ {t} \in SUBSET Tickets
    BY DEF WorkTyped, WorkRow
  <2>3. Begun(t, n, work[p].batch \ {t}) \in WorkRow /\ Begun(t, n, work[p].batch \ {t}).at = {t}
    BY <2>2, TicketAssumption DEF Begun, WorkRow, Firsts
  <2> QED BY <1>0, <2>1, <2>3
<1>4. ASSUME NEW p \in Process, NEW f \in Firsts, work[p].todo > 0, work' = Outcome(p, f) PROVE WorkTyped'
  <2> DEFINE r == [work[p] EXCEPT !.todo = @ - 1, !.first = IF @ = "none" THEN f ELSE @]
  <2>1. r \in WorkRow /\ r.at = work[p].at
    <3>1. work[p].todo - 1 \in Nat /\ (IF work[p].first = "none" THEN f ELSE work[p].first) \in Firsts
      BY <1>4 DEF WorkTyped, WorkRow
    <3> QED BY <3>1 DEF WorkTyped, WorkRow
  <2>2. work' = [work EXCEPT ![p] = r]
    BY <1>4 DEF Outcome, WorkTyped, WorkRow
  <2> QED BY <1>0, <2>1, <2>2 DEF WorkTyped
<1>5. ASSUME NEW p \in Process, PassOver(p) PROVE WorkTyped'
  BY <1>4, <1>5 DEF PassOver, Firsts
<1>6. ASSUME NEW p \in Process, NEW t \in Tickets, Replace(p, t) \/ Create(p, t) PROVE WorkTyped'
  BY <1>4, <1>6 DEF Replace, Create, Firsts
<1>7. ASSUME NEW p \in Process, work' = Finished(p) PROVE WorkTyped'
  <2>1. work[p].batch \in SUBSET Tickets
    BY DEF WorkTyped, WorkRow
  <2>2. Between(work[p].batch) \in WorkRow /\ Between(work[p].batch).at = {}
    BY <2>1, NewWorkTypes DEF Between, Firsts
  <2> QED BY <1>0, <1>7, <2>2 DEF Finished
<1>8. ASSUME NEW p \in Process, NEW t \in Tickets, CreateConflicts(p, t) \/ Throw(p, t) \/ FinishTicket(p, t) PROVE WorkTyped'
  BY <1>7, <1>8 DEF CreateConflicts, Throw, FinishTicket
<1>9. ASSUME NEW p \in Process, StopWorker(p) PROVE WorkTyped'
  BY <1>0, <1>9, NewWorkTypes DEF StopWorker, NoWork, Between
<1>10. CASE FailExpired \/ TicketTick \/ UNCHANGED ticketVars
  BY <1>10 DEF FailExpired, TicketTick, ticketVars, WorkTyped
<1> QED BY <1>1, <1>2, <1>3, <1>5, <1>6, <1>8, <1>9, <1>10 DEF TicketNext, Progress

LEMMA TicketsTimedStep == WorkTyped /\ TicketsTimed /\ [TicketNext]_ticketVars => TicketsTimed'
<1> SUFFICES ASSUME WorkTyped, TicketsTimed, [TicketNext]_ticketVars PROVE TicketsTimed'
  OBVIOUS
<1>1. ASSUME NEW t \in Tickets, Post(t) PROVE TicketsTimed'
  BY <1>1, NewTicketTimes DEF Post, TicketsTimed
<1>2. ASSUME NEW p \in Process, ClaimTickets(p) PROVE TicketsTimed'
  <2>1. PICK batch \in SUBSET {t \in Tickets : Claimable(t)} :
          ticket' = [t \in Tickets |-> IF t \in batch THEN ClaimedRow(ticket[t], p) ELSE ticket[t]]
    BY <1>2 DEF ClaimTickets, ClaimedRow
  <2>2. \A t \in batch : Timed(ClaimedRow(ticket[t], p))
    BY <2>1, ClaimTimes DEF Claimable, TicketsTimed
  <2> QED BY <2>1, <2>2 DEF TicketsTimed
<1>3. ASSUME NEW p \in Process, BeginTicket(p) PROVE TicketsTimed'
  <2>1. PICK t \in work[p].batch : ticket' = [ticket EXCEPT ![t].lease =
                       IF ticket[t].owner = p /\ ticket[t].status = "processing" THEN TicketLease ELSE @]
    BY <1>3 DEF BeginTicket
  <2>2. t \in Tickets => ticket'[t] \in {ticket[t], BeatenRow(ticket[t])}
    BY <2>1 DEF TicketsTimed, BeatenRow, Timed, TicketRow
  <2>3. \A u \in Tickets : u # t => ticket'[u] = ticket[u]
    BY <2>1 DEF TicketsTimed
  <2>4. ticket' = [u \in Tickets |-> ticket'[u]]
    BY <2>1 DEF TicketsTimed
  <2> QED BY <2>2, <2>3, <2>4, BeatTimes DEF TicketsTimed
<1>4. ASSUME NEW p \in Process, PassOver(p) PROVE TicketsTimed'
  BY <1>4 DEF PassOver, TicketsTimed
<1>5. ASSUME NEW p \in Process, NEW t \in Tickets, Replace(p, t) \/ Create(p, t) PROVE TicketsTimed'
  BY <1>5 DEF Replace, Create, TicketsTimed
<1>6. ASSUME NEW p \in Process, NEW t \in Tickets, CreateConflicts(p, t) \/ Throw(p, t) PROVE TicketsTimed'
  BY <1>6, CompletedTimes DEF CreateConflicts, Throw, Terminal
<1>7. ASSUME NEW p \in Process, NEW t \in Tickets, FinishTicket(p, t) PROVE TicketsTimed'
  <2>1. (IF work[p].first = "none" THEN "failed" ELSE work[p].first) \in Terminal
    BY DEF WorkTyped, WorkRow, Firsts, Terminal
  <2> QED BY <1>7, <2>1, CompletedTimes DEF FinishTicket
<1>8. ASSUME FailExpired PROVE TicketsTimed'
  BY <1>8, EndTimes DEF FailExpired, TicketsTimed, EndedRow, Terminal
<1>9. ASSUME NEW p \in Process, StopWorker(p) PROVE TicketsTimed'
  BY <1>9 DEF StopWorker, TicketsTimed
<1>10. ASSUME TicketTick PROVE TicketsTimed'
  BY <1>10, TickTimes DEF TicketTick, TicketsTimed, TickedRow
<1>11. ASSUME UNCHANGED ticketVars PROVE TicketsTimed'
  BY <1>11 DEF ticketVars, TicketsTimed
<1> QED BY <1>1, <1>2, <1>3, <1>4, <1>5, <1>6, <1>7, <1>8, <1>9, <1>10, <1>11 DEF TicketNext, Progress

LEMMA TicketsInit == TicketInit => WorkTyped /\ TicketsTimed
BY NoTicketTimes, NewWorkTypes DEF TicketInit, WorkTyped, TicketsTimed, NoWork, Between

\* claimNext, heartbeat, complete and failExpired, for any number of tickets,
\* workers, crashes and memories: a ticket that lives no longer than a lease
\* is claimed at most once.
THEOREM TicketsClaimedOnce == TicketSpec => []ClaimedOnceInTime
<1>1. TicketSpec => [](WorkTyped /\ TicketsTimed)
  BY TicketsInit, WorkTypedStep, TicketsTimedStep, PTL DEF TicketSpec
<1>2. TicketsTimed => ClaimedOnceInTime
  BY DEF TicketsTimed, Timed, ClaimedOnceInTime
<1> QED BY <1>1, <1>2, PTL

\* An unposted ticket has met nobody; a ticket somebody is at, or for which
\* something was made, has been begun.
BegunTells ==
  /\ \A t \in Tickets : ticket[t].status = "none" => t \notin begun /\ \A p \in Process : t \notin work[p].batch
  /\ \A p \in Process : work[p].at \subseteq begun
  /\ \A t \in Tickets : made[t] > 0 => t \in begun

\* Unless it has a cause to fail, a ticket has one process at it, which
\* remembers that it made something ...
FirstTells ==
  \A p \in Process, t \in Tickets : Doing(p, t) /\ t \notin ticketCauses =>
    /\ \A q \in Process : Doing(q, t) => p = q
    /\ made[t] > 0 => work[p].first # "none"

\* ... and says so in the ticket when it is done.
DoneWell ==
  \A t \in Tickets : made[t] > 0 /\ ~Attended(t) /\ t \notin ticketCauses =>
    ticket[t].status \in Terminal \ {"failed"}

VainInv == made \in [Tickets -> Nat] /\ BegunTells /\ FirstTells /\ DoneWell

TicketInv == WorkTyped /\ TicketsTimed /\ VainInv

\* A process turns to ticket t; the statuses of the others stay.
LEMMA TurningKeeps ==
  ASSUME TicketInv, NEW p \in Process, NEW t \in Tickets, NEW n, NEW b, b \subseteq work[p].batch, work[p].at = {},
         work' = [work EXCEPT ![p] = Begun(t, n, b)], WorkOn(t), made' = made,
         t \notin begun \/ ticket[t].status # "none",
         \A u \in Tickets : u # t => ticket'[u].status = ticket[u].status,
         ticket'[t].status # "none"
  PROVE  VainInv'
<1>1. /\ work'[p].at = {t} /\ work'[p].batch = b
      /\ \A q \in Process : q # p => work'[q] = work[q]
  BY DEF TicketInv, WorkTyped, Begun
<1>2. \A u \in Tickets : u # t => \A q \in Process : Doing(q, u)' => Doing(q, u) /\ work'[q] = work[q]
  BY <1>1 DEF Doing
<1>3. \A u \in Tickets : u # t => (Attended(u)' <=> Attended(u))
  BY <1>1 DEF Attended, Doing
<1>4. BegunTells'
  BY <1>1 DEF TicketInv, VainInv, BegunTells, WorkOn
<1>5. FirstTells'
  <2> SUFFICES ASSUME NEW q \in Process, NEW u \in Tickets, Doing(q, u)', u \notin ticketCauses'
               PROVE  /\ \A r \in Process : Doing(r, u)' => q = r
                      /\ made'[u] > 0 => work'[q].first # "none"
    BY DEF FirstTells
  <2>1. CASE u # t
    BY <2>1, <1>2 DEF TicketInv, VainInv, FirstTells, WorkOn
  <2>2. CASE u = t
    <3>1. t \notin begun
      BY <2>2 DEF WorkOn
    <3>2. \A r \in Process : ~Doing(r, t)
      BY <3>1 DEF TicketInv, VainInv, BegunTells, Doing
    <3>3. \A r \in Process : Doing(r, t)' => r = p
      BY <3>2, <1>1 DEF Doing
    <3>4. ~(made[t] > 0)
      BY <3>1 DEF TicketInv, VainInv, BegunTells
    <3> QED BY <2>2, <3>3, <3>4
  <2> QED BY <2>1, <2>2
<1>6. DoneWell'
  <2>1. Attended(t)'
    BY <1>1 DEF Attended, Doing
  <2> QED BY <2>1, <1>3 DEF TicketInv, VainInv, DoneWell, WorkOn
<1> QED BY <1>4, <1>5, <1>6 DEF TicketInv, VainInv

\* A process turns away from its ticket, which has a cause by now or whose
\* status tells what was made; other tickets stay.
LEMMA LeavingTicketKeeps ==
  ASSUME TicketInv, NEW p \in Process, NEW b, b \subseteq work[p].batch, work' = [work EXCEPT ![p] = Between(b)],
         made' = made, begun' = begun, ticketCauses \subseteq ticketCauses',
         \A u \in Tickets : ~Doing(p, u) => ticket'[u].status = ticket[u].status,
         \A u \in Tickets : ticket'[u].status = "none" <=> ticket[u].status = "none",
         \A u \in Tickets : Doing(p, u) => u \in ticketCauses' \/ made[u] = 0 \/ ticket'[u].status \in Terminal \ {"failed"}
  PROVE  VainInv'
<1>1. /\ work'[p].at = {} /\ work'[p].batch = b
      /\ \A q \in Process : q # p => work'[q] = work[q]
  BY DEF TicketInv, WorkTyped, Between
<1>2. \A u \in Tickets, q \in Process : Doing(q, u)' => Doing(q, u) /\ work'[q] = work[q]
  BY <1>1 DEF Doing
<1>3. \A u \in Tickets : Attended(u) /\ ~Attended(u)' => Doing(p, u)
  BY <1>1 DEF Attended, Doing
<1>4. BegunTells'
  BY <1>1 DEF TicketInv, VainInv, BegunTells
<1>5. FirstTells'
  BY <1>2 DEF TicketInv, VainInv, FirstTells
<1>6. DoneWell'
  BY <1>3 DEF TicketInv, VainInv, DoneWell
<1> QED BY <1>4, <1>5, <1>6 DEF TicketInv, VainInv

\* A process deals with one of its memories.
LEMMA DealingKeeps ==
  ASSUME TicketInv, NEW p \in Process, NEW f \in Firsts \ {"none"}, work[p].todo > 0, work' = Outcome(p, f),
         \A t \in Tickets : made'[t] = made[t] \/ (Doing(p, t) /\ made'[t] > 0),
         made' \in [Tickets -> Nat],
         UNCHANGED <<ticket, begun, ticketCauses>>
  PROVE  VainInv'
<1>1. /\ \A q \in Process : work'[q].at = work[q].at /\ work'[q].batch = work[q].batch
      /\ \A q \in Process : work[q].first # "none" => work'[q].first # "none"
      /\ work'[p].first # "none"
      /\ \A q \in Process : q # p => work'[q] = work[q]
  BY DEF TicketInv, WorkTyped, WorkRow, Outcome
<1>2. \A q \in Process, u \in Tickets : Doing(q, u)' <=> Doing(q, u)
  BY <1>1 DEF Doing
<1>3. \A u \in Tickets : Attended(u)' <=> Attended(u)
  BY <1>2 DEF Attended
<1>4. BegunTells'
  BY <1>1 DEF TicketInv, VainInv, BegunTells, Doing
<1>5. FirstTells'
  <2> SUFFICES ASSUME NEW q \in Process, NEW u \in Tickets, Doing(q, u), u \notin ticketCauses, made'[u] > 0
               PROVE  work'[q].first # "none"
    BY <1>2 DEF FirstTells, TicketInv, VainInv
  <2>1. CASE q = p
    BY <2>1, <1>1
  <2>2. CASE q # p
    <3>1. ~Doing(p, u)
      BY <2>2 DEF FirstTells, TicketInv, VainInv
    <3> QED BY <3>1, <2>2, <1>1 DEF FirstTells, TicketInv, VainInv
  <2> QED BY <2>1, <2>2
<1>6. DoneWell'
  <2>1. \A u \in Tickets : ~Attended(u) => made'[u] = made[u]
    BY DEF Attended
  <2> QED BY <2>1, <1>3 DEF TicketInv, VainInv, DoneWell
<1> QED BY <1>4, <1>5, <1>6 DEF TicketInv, VainInv

\* Nobody moves, and no ticket leaves its outcome or becomes unposted.
LEMMA WatchingKeeps ==
  ASSUME TicketInv, UNCHANGED <<work, made, begun, ticketCauses>>,
         \A t \in Tickets :
           ticket'[t].status = ticket[t].status \/ (ticket[t].status \in Open /\ ticket'[t].status # "none")
  PROVE  VainInv'
<1>1. \A q \in Process, u \in Tickets : Doing(q, u)' <=> Doing(q, u)
  BY DEF Doing
<1>2. \A u \in Tickets : Attended(u)' <=> Attended(u)
  BY <1>1 DEF Attended
<1>3. BegunTells'
  BY DEF TicketInv, VainInv, BegunTells
<1>4. FirstTells'
  BY <1>1 DEF TicketInv, VainInv, FirstTells
<1>5. DoneWell'
  BY <1>2 DEF TicketInv, VainInv, DoneWell, Open, Terminal
<1> QED BY <1>3, <1>4, <1>5 DEF TicketInv, VainInv

LEMMA CompletedStatus ==
  ASSUME TicketInv, NEW p \in Process, NEW t \in Tickets, NEW s, Doing(p, t), s \in Terminal, ticket' = Completed(t, p, s)
  PROVE  /\ ticket'[t].status = s
         /\ \A u \in Tickets : u # t => ticket'[u] = ticket[u]
         /\ \A u \in Tickets : ticket'[u].status = "none" <=> ticket[u].status = "none"
<1>1. ticket[t].status # "none"
  BY DEF TicketInv, VainInv, BegunTells, Doing
<1>2. ticket'[t].status = s /\ \A u \in Tickets : u # t => ticket'[u] = ticket[u]
  BY DEF Completed, TicketInv, TicketsTimed, Timed, TicketRow
<1> QED BY <1>1, <1>2 DEF Terminal

LEMMA VainInvStep == TicketInv /\ [TicketNext]_ticketVars => VainInv'
<1> SUFFICES ASSUME TicketInv, [TicketNext]_ticketVars PROVE VainInv'
  OBVIOUS
<1>1. ASSUME NEW t \in Tickets, Post(t) PROVE VainInv'
  <2>1. /\ ticket'[t].status = "pending" /\ ticket[t].status = "none"
        /\ \A u \in Tickets : u # t => ticket'[u] = ticket[u]
    BY <1>1 DEF Post, Posted, TicketInv, TicketsTimed
  <2>2. CASE UNCHANGED <<work, begun, ticketCauses>>
    <3>1. made' = made /\ t \notin begun /\ ~(made[t] > 0)
      BY <1>1, <2>1 DEF Post, TicketInv, VainInv, BegunTells
    <3>2. \A q \in Process, u \in Tickets : Doing(q, u)' <=> Doing(q, u)
      BY <2>2 DEF Doing
    <3>3. \A u \in Tickets : Attended(u)' <=> Attended(u)
      BY <3>2 DEF Attended
    <3>4. BegunTells'
      BY <2>1, <2>2, <3>1 DEF TicketInv, VainInv, BegunTells
    <3>5. FirstTells'
      BY <2>2, <3>1, <3>2 DEF TicketInv, VainInv, FirstTells
    <3>6. DoneWell'
      BY <2>1, <2>2, <3>1, <3>3 DEF TicketInv, VainInv, DoneWell
    <3> QED BY <3>1, <3>4, <3>5, <3>6 DEF TicketInv, VainInv
  <2>3. ASSUME NEW n, work[Server] = NoWork, work' = [work EXCEPT ![Server] = Begun(t, n, {})], WorkOn(t) PROVE VainInv'
    <3>1. t \notin begun /\ work[Server].at = {} /\ Server \in Process /\ made' = made
      BY <1>1, <2>1, <2>3 DEF TicketInv, VainInv, BegunTells, NoWork, Between, Process, Post
    <3> QED BY <2>1, <2>3, <3>1, TurningKeeps
  <2> QED BY <1>1, <2>2, <2>3 DEF Post
<1>2. ASSUME NEW p \in Process, ClaimTickets(p) PROVE VainInv'
  <2>1. PICK batch \in SUBSET {t \in Tickets : Claimable(t)} :
          /\ ticket' = [t \in Tickets |-> IF t \in batch THEN ClaimedRow(ticket[t], p) ELSE ticket[t]]
          /\ work' = [work EXCEPT ![p].batch = batch]
    BY <1>2 DEF ClaimTickets, ClaimedRow
  <2>2. \A t \in batch : ticket[t].status \in Open /\ ticket'[t].status = "processing"
    BY <2>1 DEF Claimable, Open, TicketInv, TicketsTimed, Timed, TicketRow, ClaimedRow
  <2>3. \A t \in Tickets : t \notin batch => ticket'[t] = ticket[t]
    BY <2>1
  <2>4. /\ \A q \in Process : work'[q].at = work[q].at /\ work'[q].first = work[q].first
        /\ \A q \in Process : work'[q].batch \subseteq work[q].batch \cup batch
    BY <2>1 DEF TicketInv, WorkTyped, WorkRow
  <2>5. UNCHANGED <<made, begun, ticketCauses>>
    BY <1>2 DEF ClaimTickets
  <2>6. BegunTells'
    BY <2>2, <2>3, <2>4, <2>5 DEF TicketInv, VainInv, BegunTells, Open
  <2>7. FirstTells'
    BY <2>4, <2>5 DEF TicketInv, VainInv, FirstTells, Doing
  <2>8. DoneWell'
    <3>1. \A u \in Tickets : Attended(u)' <=> Attended(u)
      BY <2>4 DEF Attended, Doing
    <3>2. \A u \in batch : ticket[u].status \notin Terminal
      BY <2>2 DEF Open, Terminal
    <3> QED BY <2>3, <2>5, <3>1, <3>2 DEF TicketInv, VainInv, DoneWell
  <2> QED BY <2>5, <2>6, <2>7, <2>8 DEF TicketInv, VainInv
<1>3. ASSUME NEW p \in Process, BeginTicket(p) PROVE VainInv'
  <2>1. PICK t \in work[p].batch, n \in 0..MaxMemories :
          /\ ticket' = [ticket EXCEPT ![t].lease =
                          IF ticket[t].owner = p /\ ticket[t].status = "processing" THEN TicketLease ELSE @]
          /\ work' = [work EXCEPT ![p] = Begun(t, n, work[p].batch \ {t})]
          /\ WorkOn(t)
    BY <1>3 DEF BeginTicket
  <2>2. t \in Tickets /\ ticket[t].status # "none"
    BY DEF TicketInv, WorkTyped, WorkRow, VainInv, BegunTells
  <2>3. \A u \in Tickets : ticket'[u].status = ticket[u].status
    BY <2>1 DEF TicketInv, TicketsTimed, Timed, TicketRow
  <2>4. work[p].at = {} /\ made' = made
    BY <1>3 DEF BeginTicket
  <2> QED BY <2>1, <2>2, <2>3, <2>4, TurningKeeps
<1>4. ASSUME NEW p \in Process, PassOver(p) PROVE VainInv'
  BY <1>4, DealingKeeps DEF PassOver, Firsts, TicketInv, VainInv
<1>5. ASSUME NEW p \in Process, NEW t \in Tickets, Replace(p, t) \/ Create(p, t) PROVE VainInv'
  <2>1. /\ \A u \in Tickets : made'[u] = made[u] \/ (Doing(p, u) /\ made'[u] > 0)
        /\ made' \in [Tickets -> Nat]
    BY <1>5 DEF Replace, Create, TicketInv, VainInv
  <2> QED BY <1>5, <2>1, DealingKeeps DEF Replace, Create, Firsts
<1>6. ASSUME NEW p \in Process, NEW t \in Tickets, CreateConflicts(p, t) \/ Throw(p, t) PROVE VainInv'
  <2>1. /\ Doing(p, t) /\ ticket' = Completed(t, p, "failed") /\ work' = Finished(p)
        /\ made' = made /\ begun' = begun /\ ticketCauses' = ticketCauses \cup {t}
    BY <1>6 DEF CreateConflicts, Throw
  <2>2. \A u \in Tickets : Doing(p, u) => u = t
    BY <2>1 DEF Doing
  <2> QED BY <2>1, <2>2, CompletedStatus, LeavingTicketKeeps DEF Finished, Terminal
<1>7. ASSUME NEW p \in Process, NEW t \in Tickets, FinishTicket(p, t) PROVE VainInv'
  <2> DEFINE s == IF work[p].first = "none" THEN "failed" ELSE work[p].first
  <2>1. /\ Doing(p, t) /\ ticket' = Completed(t, p, s) /\ work' = Finished(p)
        /\ made' = made /\ begun' = begun /\ ticketCauses' = ticketCauses
    BY <1>7 DEF FinishTicket
  <2>2. s \in Terminal /\ (work[p].first # "none" => s # "failed")
    BY DEF TicketInv, WorkTyped, WorkRow, Firsts, Terminal
  <2>3. \A u \in Tickets : Doing(p, u) => u = t
    BY <2>1 DEF Doing
  <2>4. t \in ticketCauses \/ made[t] = 0 \/ work[p].first # "none"
    BY <2>1 DEF TicketInv, VainInv, FirstTells
  <2> HIDE DEF s
  <2>5. /\ ticket'[t].status = s
        /\ \A u \in Tickets : u # t => ticket'[u] = ticket[u]
        /\ \A u \in Tickets : ticket'[u].status = "none" <=> ticket[u].status = "none"
    BY <2>1, <2>2, CompletedStatus
  <2>6. /\ \A u \in Tickets : ~Doing(p, u) => ticket'[u].status = ticket[u].status
        /\ \A u \in Tickets : Doing(p, u) => u \in ticketCauses' \/ made[u] = 0 \/ ticket'[u].status \in Terminal \ {"failed"}
    BY <2>1, <2>2, <2>3, <2>4, <2>5
  <2>7. work[p].batch \subseteq work[p].batch /\ ticketCauses \subseteq ticketCauses'
    BY <2>1
  <2> QED BY <2>1, <2>5, <2>6, <2>7, LeavingTicketKeeps DEF Finished
<1>8. ASSUME FailExpired PROVE VainInv'
  <2>1. \A t \in Tickets : ticket'[t].status = ticket[t].status \/ (ticket[t].status \in Open /\ ticket'[t].status # "none")
    BY <1>8 DEF FailExpired, TicketInv, TicketsTimed, Timed, TicketRow
  <2> QED BY <1>8, <2>1, WatchingKeeps DEF FailExpired
<1>9. ASSUME NEW p \in Process, StopWorker(p) PROVE VainInv'
  <2>1. \A u \in Tickets : Doing(p, u) => u \in ticketCauses'
    BY <1>9 DEF StopWorker, Doing
  <2>2. work' = [work EXCEPT ![p] = Between({})] /\ {} \subseteq work[p].batch
    BY <1>9 DEF StopWorker, NoWork
  <2>3. made' = made /\ begun' = begun /\ ticketCauses \subseteq ticketCauses'
    BY <1>9 DEF StopWorker
  <2>4. /\ \A u \in Tickets : ~Doing(p, u) => ticket'[u].status = ticket[u].status
        /\ \A u \in Tickets : ticket'[u].status = "none" <=> ticket[u].status = "none"
        /\ \A u \in Tickets : Doing(p, u) => u \in ticketCauses' \/ made[u] = 0 \/ ticket'[u].status \in Terminal \ {"failed"}
    BY <1>9, <2>1 DEF StopWorker
  <2> DEFINE b == {}
  <2>5. b \subseteq work[p].batch /\ work' = [work EXCEPT ![p] = Between(b)]
    BY <2>2
  <2> HIDE DEF b
  <2> QED BY <2>3, <2>4, <2>5, LeavingTicketKeeps
<1>10. ASSUME TicketTick PROVE VainInv'
  <2>1. \A t \in Tickets : ticket'[t].status = ticket[t].status
    BY <1>10 DEF TicketTick, TicketInv, TicketsTimed, Timed, TicketRow
  <2> QED BY <1>10, <2>1, WatchingKeeps DEF TicketTick
<1>11. ASSUME UNCHANGED ticketVars PROVE VainInv'
  BY <1>11, WatchingKeeps DEF ticketVars
<1> QED BY <1>1, <1>2, <1>3, <1>4, <1>5, <1>6, <1>7, <1>8, <1>9, <1>10, <1>11 DEF TicketNext, Progress

LEMMA VainInvInit == TicketInit => VainInv
BY DEF TicketInit, VainInv, BegunTells, FirstTells, DoneWell, Doing, NoWork, Between

\* processSmartWrite, completeTicket and failExpired, for any tickets, workers
\* and faults: a ticket that failed although a memory was created for it has
\* one of the listed causes.
THEOREM FailuresHaveCauses == TicketSpec => []FailedInVainHasACause
<1>1. TicketSpec => []TicketInv
  BY TicketsInit, VainInvInit, WorkTypedStep, TicketsTimedStep, VainInvStep, PTL DEF TicketSpec, TicketInv
<1>2. TicketInv => FailedInVainHasACause
  BY DEF TicketInv, VainInv, DoneWell, FailedInVainHasACause, Terminal
<1> QED BY <1>1, <1>2, PTL

-----------------------------------------------------------------------------
(* The coordination runtime                                                *)

TaskRows == [status : Waiting \cup {"none", "running", "succeeded", "dlq"}, attempt : 0..TaskMax,
             owner : Hands \cup {NoOne}, lease : Nat, delay : Nat]
HandRows == {NoWorkAt} \cup [phase : {"handle"}, task : Events, carries : SUBSET Events]

CoordTyped ==
  /\ tasks \in [Events -> TaskRows]
  /\ hand \in [Hands -> HandRows]
  /\ sweep \subseteq outlived \X (0..TaskMax)
  /\ outlived \subseteq Events /\ owed \subseteq Events
  /\ handled \in [once : SUBSET Events, again : SUBSET Events]

\* A task whose lease has never run out is leased while it runs, to the one
\* worker that handles it; once handled with success it has succeeded.
InTimeOnce ==
  \A t \in Events \ outlived :
    /\ tasks[t].status = "running" => tasks[t].lease > 0
    /\ \A h \in Hands : Handles(h, t) => tasks[t].status = "running" /\ Owns(h, t)
    /\ t \in handled.once => tasks[t].status = "succeeded"

CoordInv == CoordTyped /\ InTimeOnce /\ handled.again \subseteq outlived

LEMMA AttemptBounds == ASSUME CoordTyped, NEW t \in Events PROVE Attempt(t) \in 0..TaskMax
<1>1. tasks[t].attempt \in 0..TaskMax
  BY DEF CoordTyped, TaskRows
<1> QED BY <1>1, CoordAssumption DEF Attempt

\* One task changes, and no hand turns to anything.
LEMMA TaskMoves ==
  ASSUME CoordInv, NEW t \in Events, NEW r \in TaskRows, tasks' = [tasks EXCEPT ![t] = r],
         UNCHANGED <<hand, owed, outlived, handled>>, sweep' \subseteq sweep,
         r.status # "running",
         t \notin outlived => (\A h \in Hands : ~Handles(h, t)) /\ (t \in handled.once => r.status = "succeeded")
  PROVE  CoordInv'
<1>1. CoordTyped'
  BY DEF CoordInv, CoordTyped
<1>2. tasks'[t] = r /\ \A u \in Events \ {t} : tasks'[u] = tasks[u]
  BY DEF CoordInv, CoordTyped
<1>3. InTimeOnce'
  BY <1>2 DEF CoordInv, InTimeOnce, Handles, Owns
<1> QED BY <1>1, <1>3 DEF CoordInv

\* A worker is done with its task, which only the owner settles.
LEMMA SettleKeeps ==
  ASSUME CoordInv, NEW h \in Hands, NEW t \in Events, Handles(h, t),
         NEW st \in {"succeeded", "retry_wait", "dlq"}, NEW d \in {0, 1}, Settle(h, t, st, d)
  PROVE  /\ tasks' \in [Events -> TaskRows] /\ hand' \in [Hands -> HandRows]
         /\ t \notin outlived => tasks'[t].status = st /\ \A g \in Hands : ~Handles(g, t)'
         /\ \A u \in Events \ {t} : tasks'[u] = tasks[u]
         /\ \A g \in Hands, u \in Events : Handles(g, u)' => Handles(g, u)
<1>1. tasks[t].attempt \in 0..TaskMax
  BY DEF CoordInv, CoordTyped, TaskRows
<1>2. Task(st, tasks[t].attempt, NoOne, 0, d) \in TaskRows /\ Task(st, tasks[t].attempt, NoOne, 0, d).status = st
  BY <1>1 DEF Task, TaskRows, Waiting
<1> DEFINE r == Task(st, tasks[t].attempt, NoOne, 0, d)
<1>3. tasks' = IF Owns(h, t) THEN [tasks EXCEPT ![t] = r] ELSE tasks
  BY DEF Settle
<1>4. hand' = [hand EXCEPT ![h] = NoWorkAt]
  BY DEF Settle
<1> HIDE DEF r
<1>5. tasks' \in [Events -> TaskRows] /\ hand' \in [Hands -> HandRows]
  BY <1>2, <1>3, <1>4 DEF CoordInv, CoordTyped, HandRows, r
<1>6. \A u \in Events \ {t} : tasks'[u] = tasks[u]
  BY <1>3 DEF CoordInv, CoordTyped
<1>7. hand'[h] = NoWorkAt /\ \A g \in Hands \ {h} : hand'[g] = hand[g]
  BY <1>4 DEF CoordInv, CoordTyped
<1>8. \A g \in Hands, u \in Events : Handles(g, u)' => Handles(g, u) /\ g # h
  BY <1>7 DEF Handles, NoWorkAt
<1>9. ASSUME t \notin outlived PROVE tasks'[t].status = st /\ \A g \in Hands : ~Handles(g, t)'
  <2>1. Owns(h, t) /\ \A g \in Hands : Handles(g, t) => g = h
    BY <1>9 DEF CoordInv, InTimeOnce, Owns
  <2>2. tasks'[t] = r
    BY <2>1, <1>3 DEF CoordInv, CoordTyped
  <2> QED BY <2>1, <2>2, <1>2, <1>8 DEF r
<1> QED BY <1>5, <1>6, <1>8, <1>9

LEMMA CoordInvStep == CoordInv /\ [CoordNext]_coordVars => CoordInv'
<1> SUFFICES ASSUME CoordInv, [CoordNext]_coordVars PROVE CoordInv'
  OBVIOUS
<1>1. ASSUME NEW t \in Events, NEW h \in Hands, AlreadySucceeded(h, t) \/ AlreadyInFlight(h, t) PROVE CoordInv'
  <2>1. tasks[t].status \in Waiting
    BY <1>1 DEF AlreadySucceeded, AlreadyInFlight, Claim, CanClaim
  <2>2. t \notin outlived => t \notin handled.once /\ \A g \in Hands : ~Handles(g, t)
    BY <2>1 DEF CoordInv, InTimeOnce, Waiting
  <2>3. PICK st \in {"succeeded", "retry_wait"}, d \in {0, 1} : tasks' = [tasks EXCEPT ![t] = Task(st, Attempt(t), NoOne, 0, d)]
    BY <1>1 DEF AlreadySucceeded, AlreadyInFlight
  <2>4. Task(st, Attempt(t), NoOne, 0, d) \in TaskRows /\ Task(st, Attempt(t), NoOne, 0, d).status # "running"
    BY AttemptBounds DEF Task, TaskRows, Waiting, CoordInv
  <2>5. UNCHANGED <<hand, owed, outlived, handled, sweep>>
    BY <1>1 DEF AlreadySucceeded, AlreadyInFlight
  <2> QED BY <2>2, <2>3, <2>4, <2>5, TaskMoves
<1>2. ASSUME NEW t \in Events, NEW h \in Hands, BeginTask(h, t) PROVE CoordInv'
  <2> DEFINE r == Task("running", Attempt(t), h, TaskLease, 0)
  <2> DEFINE w == [phase |-> "handle", task |-> t, carries |-> owed]
  <2>1. tasks[t].status \in Waiting
    BY <1>2 DEF BeginTask, Claim, CanClaim
  <2>2. t \notin outlived => t \notin handled.once /\ \A g \in Hands : ~Handles(g, t)
    BY <2>1 DEF CoordInv, InTimeOnce, Waiting
  <2>3. r \in TaskRows /\ r.status = "running" /\ r.owner = h /\ r.lease > 0
    BY AttemptBounds, CoordAssumption DEF Task, TaskRows, CoordInv
  <2>4. w \in HandRows /\ w.phase = "handle" /\ w.task = t
    BY DEF HandRows, CoordInv, CoordTyped
  <2>5. tasks' = [tasks EXCEPT ![t] = r] /\ hand' = [hand EXCEPT ![h] = w] /\ UNCHANGED <<owed, outlived, handled, sweep>>
    BY <1>2 DEF BeginTask
  <2> HIDE DEF r, w
  <2>6. CoordTyped'
    BY <2>3, <2>4, <2>5 DEF CoordInv, CoordTyped
  <2>7. /\ tasks'[t] = r /\ \A u \in Events \ {t} : tasks'[u] = tasks[u]
        /\ hand'[h] = w /\ \A g \in Hands \ {h} : hand'[g] = hand[g]
    BY <2>5 DEF CoordInv, CoordTyped
  <2>8. InTimeOnce'
    BY <2>2, <2>3, <2>4, <2>5, <2>7 DEF CoordInv, InTimeOnce, Handles, Owns
  <2> QED BY <2>5, <2>6, <2>8 DEF CoordInv
<1>3. ASSUME NEW t \in Events, NEW h \in Hands, HandlerSucceeds(h, t) PROVE CoordInv'
  <2>1. /\ Handles(h, t) /\ Settle(h, t, "succeeded", 0) /\ UNCHANGED <<outlived, sweep>>
        /\ owed' = owed \ hand[h].carries
        /\ handled' = [once |-> handled.once \cup {t}, again |-> handled.again \cup ({t} \cap handled.once)]
    BY <1>3 DEF HandlerSucceeds
  <2>2. /\ tasks' \in [Events -> TaskRows] /\ hand' \in [Hands -> HandRows]
        /\ t \notin outlived => tasks'[t].status = "succeeded" /\ \A g \in Hands : ~Handles(g, t)'
        /\ \A u \in Events \ {t} : tasks'[u] = tasks[u]
        /\ \A g \in Hands, u \in Events : Handles(g, u)' => Handles(g, u)
    BY <2>1, SettleKeeps
  <2>3. t \in handled.once => t \in outlived
    BY <2>1 DEF CoordInv, InTimeOnce
  <2>4. CoordTyped'
    BY <2>1, <2>2 DEF CoordInv, CoordTyped
  <2>5. InTimeOnce'
    BY <2>1, <2>2 DEF CoordInv, InTimeOnce, Owns
  <2>6. handled'.again \subseteq outlived'
    BY <2>1, <2>3 DEF CoordInv
  <2> QED BY <2>4, <2>5, <2>6 DEF CoordInv
<1>4. ASSUME NEW t \in Events, NEW h \in Hands, HandlerFails(h, t) PROVE CoordInv'
  <2>1. PICK st \in {"retry_wait", "dlq"}, d \in {0, 1} : Settle(h, t, st, d)
    BY <1>4 DEF HandlerFails
  <2>2. Handles(h, t) /\ UNCHANGED <<outlived, sweep, owed, handled>>
    BY <1>4 DEF HandlerFails
  <2>3. /\ tasks' \in [Events -> TaskRows] /\ hand' \in [Hands -> HandRows]
        /\ t \notin outlived => tasks'[t].status = st /\ \A g \in Hands : ~Handles(g, t)'
        /\ \A u \in Events \ {t} : tasks'[u] = tasks[u]
        /\ \A g \in Hands, u \in Events : Handles(g, u)' => Handles(g, u)
    BY <2>1, <2>2, SettleKeeps
  <2>4. t \in handled.once => t \in outlived
    BY <2>2 DEF CoordInv, InTimeOnce
  <2>5. CoordTyped'
    BY <2>2, <2>3 DEF CoordInv, CoordTyped
  <2>6. InTimeOnce'
    BY <2>2, <2>3, <2>4 DEF CoordInv, InTimeOnce, Owns
  <2> QED BY <2>2, <2>5, <2>6 DEF CoordInv
<1>5. ASSUME NEW e \in Events, Dispatch(e) PROVE CoordInv'
  <2>1. CASE Accepted
    <3>1. /\ tasks[e].status = "none" /\ owed' = owed \cup {e} /\ UNCHANGED <<hand, sweep, outlived, handled>>
          /\ tasks' = [tasks EXCEPT ![e] = Task("queued", 0, NoOne, 0, 0)]
      BY <1>5, <2>1 DEF Dispatch
    <3>2. Task("queued", 0, NoOne, 0, 0) \in TaskRows /\ Task("queued", 0, NoOne, 0, 0).status = "queued"
      BY CoordAssumption DEF Task, TaskRows, Waiting
    <3>3. e \notin outlived => e \notin handled.once /\ \A h \in Hands : ~Handles(h, e)
      BY <3>1 DEF CoordInv, InTimeOnce
    <3> DEFINE r == Task("queued", 0, NoOne, 0, 0)
    <3> HIDE DEF r
    <3>4. r \in TaskRows /\ r.status = "queued" /\ tasks' = [tasks EXCEPT ![e] = r]
      BY <3>1, <3>2 DEF r
    <3>5. tasks'[e] = r /\ \A u \in Events \ {e} : tasks'[u] = tasks[u]
      BY <3>4 DEF CoordInv, CoordTyped
    <3>6. CoordTyped'
      BY <3>1, <3>4 DEF CoordInv, CoordTyped
    <3>7. InTimeOnce'
      BY <3>1, <3>3, <3>4, <3>5 DEF CoordInv, InTimeOnce, Handles, Owns
    <3> QED BY <3>1, <3>6, <3>7 DEF CoordInv
  <2>2. CASE ~Accepted
    BY <1>5, <2>2 DEF Dispatch, CoordInv, CoordTyped, InTimeOnce, Handles, Owns
  <2> QED BY <2>1, <2>2
<1>6. ASSUME NEW t \in Events, ReplayDlq(t) PROVE CoordInv'
  <2> DEFINE r == Task("recovered", tasks[t].attempt, NoOne, 0, tasks[t].delay)
  <2>1. r \in TaskRows /\ r.status = "recovered"
    BY DEF CoordInv, CoordTyped, Task, TaskRows, Waiting
  <2>2. t \notin outlived => t \notin handled.once /\ \A h \in Hands : ~Handles(h, t)
    BY <1>6 DEF ReplayDlq, CoordInv, InTimeOnce
  <2>3. tasks' = [tasks EXCEPT ![t] = r] /\ UNCHANGED <<hand, owed, outlived, handled, sweep>>
    BY <1>6 DEF ReplayDlq
  <2> HIDE DEF r
  <2> QED BY <2>1, <2>2, <2>3, TaskMoves
<1>7. CASE ListExpired
  <2>1. \A u \in Events : Expired(u) => u \in outlived
    BY DEF Expired, CoordInv, InTimeOnce
  <2>2. \A u \in Events : tasks[u].attempt \in 0..TaskMax
    BY DEF CoordInv, CoordTyped, TaskRows
  <2>3. sweep' \subseteq outlived \X (0..TaskMax) /\ UNCHANGED <<tasks, hand, owed, outlived, handled>>
    BY <1>7, <2>1, <2>2 DEF ListExpired
  <2> QED BY <2>3 DEF CoordInv, CoordTyped, InTimeOnce, Handles, Owns
<1>8. CASE SweepTask
  <2>1. PICK s \in sweep : LET t == s[1] IN
          /\ tasks' = [tasks EXCEPT ![t] = IF s[2] = TaskMax
                         THEN Task("dlq", tasks[t].attempt, NoOne, 0, tasks[t].delay)
                         ELSE Task("recovered", tasks[t].attempt, NoOne, 0, 1)]
          /\ sweep' = sweep \ {s}
    BY <1>8 DEF SweepTask
  <2> DEFINE t == s[1]
  <2>2. t \in outlived /\ t \in Events
    BY DEF CoordInv, CoordTyped
  <2> DEFINE r == IF s[2] = TaskMax THEN Task("dlq", tasks[t].attempt, NoOne, 0, tasks[t].delay)
                  ELSE Task("recovered", tasks[t].attempt, NoOne, 0, 1)
  <2>3. r \in TaskRows /\ r.status # "running"
    BY <2>2 DEF CoordInv, CoordTyped, Task, TaskRows, Waiting
  <2>4. tasks' = [tasks EXCEPT ![t] = r] /\ sweep' \subseteq sweep /\ UNCHANGED <<hand, owed, outlived, handled>>
    BY <1>8, <2>1 DEF SweepTask
  <2> HIDE DEF r, t
  <2> QED BY <2>2, <2>3, <2>4, TaskMoves
<1>9. CASE CoordTick
  <2>1. /\ tasks' = [t \in Events |-> Task(tasks[t].status, tasks[t].attempt, tasks[t].owner, Count(tasks[t].lease), Count(tasks[t].delay))]
        /\ outlived' = outlived \cup {t \in Events : tasks[t].lease = 1}
        /\ UNCHANGED <<hand, owed, handled, sweep>>
    BY <1>9 DEF CoordTick
  <2>2. \A n \in Nat : Count(n) \in Nat /\ (n > 1 => Count(n) > 0)
    BY DEF Count
  <2>3. \A t \in Events : /\ tasks'[t] \in TaskRows
                          /\ tasks'[t].status = tasks[t].status /\ tasks'[t].owner = tasks[t].owner
                          /\ tasks'[t].lease = Count(tasks[t].lease)
    BY <2>1, <2>2 DEF CoordInv, CoordTyped, TaskRows, Task
  <2>4. \A t \in Events : tasks[t].lease \in Nat
    BY DEF CoordInv, CoordTyped, TaskRows
  <2>5. CoordTyped'
    BY <2>1, <2>3 DEF CoordInv, CoordTyped
  <2>6. InTimeOnce'
    BY <2>1, <2>2, <2>3, <2>4 DEF CoordInv, InTimeOnce, Handles, Owns
  <2> QED BY <2>1, <2>5, <2>6 DEF CoordInv
<1>10. CASE ReceiptExpires \/ UNCHANGED coordVars
  BY <1>10 DEF ReceiptExpires, coordVars, CoordInv, CoordTyped, InTimeOnce, Handles, Owns
<1> QED BY <1>1, <1>2, <1>3, <1>4, <1>5, <1>6, <1>7, <1>8, <1>9, <1>10 DEF CoordNext, Drain

LEMMA CoordInvInit == CoordInit => CoordInv
<1>1. NoTask \in TaskRows /\ NoTask.status = "none"
  BY CoordAssumption DEF NoTask, Task, TaskRows, Waiting
<1> QED BY <1>1 DEF CoordInit, CoordInv, CoordTyped, InTimeOnce, Handles, HandRows, NoWorkAt

\* drainOnce, markRunning, assertLeaseOwner, the sweeper and replayDlq, for
\* any number of workers, events, attempts and faults: no task is handled with
\* success twice unless its lease has run out.
THEOREM TasksHandledOnceInTime == CoordSpec => []HandledAgainHasACause
<1>1. CoordInv => HandledAgainHasACause
  BY DEF CoordInv, HandledAgainHasACause
<1> QED BY <1>1, CoordInvInit, CoordInvStep, PTL DEF CoordSpec
-----------------------------------------------------------------------------
(* The recall cache: what a recall does                                    *)

CacheOp == [op : {"set"}, kind : Kinds] \cup [op : {"index"}, kind : Kinds, scope : Scopes]

IndexOp(k, s) == [op |-> "index", kind |-> k, scope |-> s]

\* every key that is stored is named in the index of each scope afterwards
IndexesLater(p) ==
  \A a \in DOMAIN p : p[a].op = "set" =>
    \A s \in Scopes : \E i \in DOMAIN p : i > a /\ p[i] = IndexOp(p[a].kind, s)

LEMMA ScopesInOrder ==
  /\ SetToSeq(Scopes) \in Seq(Scopes)
  /\ \A s \in Scopes : \E i \in 1..Len(SetToSeq(Scopes)) : SetToSeq(Scopes)[i] = s
<1> DEFINE n == Cardinality(Scopes)
           q == SetToSeq(Scopes)
<1>1. n \in Nat /\ ExistsBijection(1..n, Scopes)
  BY CacheAssumption, FS_CardinalityType
<1>2. PICK f \in Bijection(1..n, Scopes) : TRUE
  BY <1>1 DEF ExistsBijection
<1>3. f \in [1..n -> Scopes] /\ IsInjective(f)
  BY <1>2 DEF Bijection, Injection, IsInjective
<1>4. q \in [1..n -> Scopes] /\ IsInjective(q)
  BY <1>3 DEF SetToSeq
<1> HIDE DEF n, q
<1>5. q \in Injection(1..n, Scopes)
  BY <1>4 DEF Injection, IsInjective
<1>6. IsFiniteSet(1..n) /\ Cardinality(1..n) = n
  BY <1>1, FS_Interval
<1>7. q \in Surjection(1..n, Scopes)
  BY <1>5, <1>6, CacheAssumption, FS_Injection DEF n
<1>8. \A s \in Scopes : \E i \in 1..n : q[i] = s
  BY <1>7 DEF Surjection
<1>9. q \in Seq(Scopes) /\ Len(q) = n
  BY <1>1, <1>4
<1> QED BY <1>8, <1>9 DEF q

LEMMA PutIndexes ==
  ASSUME NEW k \in Kinds
  PROVE  Put(k) \in Seq(CacheOp) /\ Put(k) # << >> /\ IndexesLater(Put(k))
<1> DEFINE q == SetToSeq(Scopes)
           rest == [i \in 1..Len(q) |-> [op |-> "index", kind |-> k, scope |-> q[i]]]
           first == [op |-> "set", kind |-> k]
<1>1. q \in Seq(Scopes) /\ \A s \in Scopes : \E i \in 1..Len(q) : q[i] = s
  BY ScopesInOrder
<1> HIDE DEF q
<1>2. \A i \in 1..Len(q) : q[i] \in Scopes
  BY <1>1
<1>3. Len(q) \in Nat
  BY <1>1
<1>4. rest \in Seq(CacheOp) /\ Len(rest) = Len(q)
  <2>1. \A i \in 1..Len(q) : [op |-> "index", kind |-> k, scope |-> q[i]] \in CacheOp
    BY <1>2 DEF CacheOp
  <2> QED BY <1>3, <2>1
<1>5. <<first>> \in Seq(CacheOp)
  BY DEF CacheOp
<1>6. Put(k) = <<first>> \o rest
  BY DEF Put, q
<1>7. \A i \in 1..Len(q) : rest[i] = IndexOp(k, q[i])
  BY DEF IndexOp
<1>8. first.op = "set" /\ first.kind = k
  OBVIOUS
<1> HIDE DEF rest, first
<1>9. /\ Put(k) \in Seq(CacheOp) /\ Len(Put(k)) = 1 + Len(q) /\ Put(k)[1] = first
      /\ \A i \in 1..Len(q) : Put(k)[i + 1] = rest[i]
  BY <1>3, <1>4, <1>5, <1>6
<1>10. IndexesLater(Put(k))
  <2> SUFFICES ASSUME NEW a \in DOMAIN Put(k), Put(k)[a].op = "set", NEW s \in Scopes
               PROVE  \E i \in DOMAIN Put(k) : i > a /\ Put(k)[i] = IndexOp(Put(k)[a].kind, s)
    BY DEF IndexesLater
  <2>1. a = 1
    <3>1. CASE a # 1
      <4>1. a - 1 \in 1..Len(q) /\ (a - 1) + 1 = a
        BY <1>3, <1>9, <3>1
      <4>2. Put(k)[a] = IndexOp(k, q[a - 1])
        BY <1>7, <1>9, <4>1
      <4> QED BY <4>2 DEF IndexOp
    <3> QED BY <3>1
  <2>2. PICK i \in 1..Len(q) : q[i] = s
    BY <1>1
  <2>3. i + 1 \in DOMAIN Put(k) /\ i + 1 > a /\ Put(k)[i + 1] = IndexOp(k, s)
    BY <1>3, <1>7, <1>9, <2>1, <2>2
  <2> QED BY <1>8, <1>9, <2>1, <2>3
<1> QED BY <1>3, <1>9, <1>10

LEMMA JoinIndexes ==
  ASSUME NEW p \in Seq(CacheOp), NEW q \in Seq(CacheOp), IndexesLater(p), IndexesLater(q)
  PROVE  p \o q \in Seq(CacheOp) /\ IndexesLater(p \o q)
<1> DEFINE t == p \o q
<1>1. /\ t \in Seq(CacheOp) /\ Len(t) = Len(p) + Len(q) /\ Len(p) \in Nat /\ Len(q) \in Nat
      /\ \A i \in 1..Len(p) : t[i] = p[i]
      /\ \A i \in 1..Len(q) : t[Len(p) + i] = q[i]
  OBVIOUS
<1>2. DOMAIN t = 1..Len(t) /\ DOMAIN p = 1..Len(p) /\ DOMAIN q = 1..Len(q)
  BY <1>1
<1> HIDE DEF t
<1>3. ASSUME NEW a \in DOMAIN t, t[a].op = "set", NEW s \in Scopes
      PROVE  \E i \in DOMAIN t : i > a /\ t[i] = IndexOp(t[a].kind, s)
  <2>1. CASE a \in DOMAIN p
    <3>1. p[a] = t[a]
      BY <1>1, <1>2, <2>1
    <3>2. PICK i \in DOMAIN p : i > a /\ p[i] = IndexOp(p[a].kind, s)
      BY <1>3, <2>1, <3>1 DEF IndexesLater
    <3> QED BY <1>1, <1>2, <3>1, <3>2
  <2>2. CASE a \notin DOMAIN p
    <3>1. a - Len(p) \in DOMAIN q /\ Len(p) + (a - Len(p)) = a
      BY <1>1, <1>2, <2>2
    <3>2. q[a - Len(p)] = t[a]
      BY <1>1, <1>2, <3>1
    <3>3. PICK i \in DOMAIN q : i > a - Len(p) /\ q[i] = IndexOp(q[a - Len(p)].kind, s)
      BY <1>3, <3>1, <3>2 DEF IndexesLater
    <3>4. Len(p) + i \in DOMAIN t /\ Len(p) + i > a /\ t[Len(p) + i] = q[i]
      BY <1>1, <1>2, <3>3
    <3> QED BY <3>2, <3>3, <3>4
  <2> QED BY <2>1, <2>2
<1> QED BY <1>1, <1>3 DEF IndexesLater, t

LEMMA ProgramIndexes ==
  \A run \in {"hit", "miss"} :
    Program[run] \in Seq(CacheOp) /\ Len(Program[run]) >= 1 /\ IndexesLater(Program[run])
<1> DEFINE start == IF StartupQuery THEN Put("startup") ELSE << >>
<1>1. \A k \in Kinds : Put(k) \in Seq(CacheOp) /\ Put(k) # << >> /\ IndexesLater(Put(k))
  BY PutIndexes
<1>2. "search" \in Kinds /\ "startup" \in Kinds /\ "recent" \in Kinds
  BY DEF Kinds
<1>3. << >> \in Seq(CacheOp) /\ IndexesLater(<< >>)
  BY DEF IndexesLater
<1>4. start \in Seq(CacheOp) /\ IndexesLater(start)
  BY <1>1, <1>2, <1>3
<1>5. Program["hit"] = Put("recent") /\ Program["miss"] = Put("search") \o start \o Put("recent")
  BY DEF Program
<1> HIDE DEF start
<1>6. Put("search") \o start \in Seq(CacheOp) /\ IndexesLater(Put("search") \o start)
  BY <1>1, <1>2, <1>4, JoinIndexes
<1>7. Program["miss"] \in Seq(CacheOp) /\ IndexesLater(Program["miss"])
  BY <1>1, <1>2, <1>5, <1>6, JoinIndexes
<1>8. Len(Program["hit"]) >= 1 /\ Len(Program["miss"]) >= 1
  <2>1. \A k \in Kinds : Len(Put(k)) \in Nat /\ Len(Put(k)) >= 1
    BY <1>1
  <2>2. Len(start) \in Nat
    BY <1>4
  <2>3. Len(Put("search") \o start) = Len(Put("search")) + Len(start)
    BY <1>1, <1>2, <1>4
  <2>4. Len(Program["miss"]) = Len(Put("search") \o start) + Len(Put("recent"))
    BY <1>1, <1>2, <1>5, <1>6
  <2> QED BY <1>2, <1>5, <2>1, <2>2, <2>3, <2>4
<1> QED BY <1>1, <1>2, <1>5, <1>7, <1>8

-----------------------------------------------------------------------------
(* The recall cache: types                                                 *)

Recall == {NoRecall} \cup [saw : [Scopes -> Nat], run : {"hit", "miss"}, at : Nat]

\* one operation of the program is the next
InProgram(y) == y # NoRecall => y.at \in 1..Len(Program[y.run])

WriterClear ==
  {NoClear} \cup [phase : {"list", "delete", "drop", "failed"}, scope : Scopes, keys : SUBSET Kinds, covers : Nat]

AtRow == {"list", "delete", "drop", "finish", "failed"}

WorkerClear ==
  {NoClear}
  \cup [phase : {"next"}, batch : SUBSET Nat]
  \cup [phase : AtRow, scope : Scopes, keys : SUBSET Kinds, covers : Nat, row : Nat, batch : SUBSET Nat]

Invalidation ==
  [scope : Scopes, status : {"pending", "processing", "failed", "completed"}, attempts : 0..MaxInvalidations, wait : Nat,
   done : BOOLEAN, since : Nat]

StoreTyped ==
  /\ ledger \in [Scopes -> Nat] /\ cleared \in [Scopes -> Nat]
  /\ entries \in [Kinds -> [saw : [Scopes -> Nat], left : Nat]]
  /\ index \in [Scopes -> [keys : SUBSET Kinds, left : Nat]]

RecallsTyped == recalls \in [Recalls -> Recall] /\ \A r \in Recalls : InProgram(recalls[r])

ClearsTyped ==
  /\ clears = [c \in Clearers |-> clears[c]]
  /\ \A c \in CacheWriters : clears[c] \in WriterClear
  /\ \A c \in CacheWorkers : clears[c] \in WorkerClear

CacheTyped == StoreTyped /\ RecallsTyped /\ ClearsTyped /\ invalidations \in Seq(Invalidation)

\* a recall under way
LEMMA RecallFields ==
  ASSUME RecallsTyped, NEW r \in Recalls, ~Idle(r)
  PROVE  /\ recalls[r] \in [saw : [Scopes -> Nat], run : {"hit", "miss"}, at : Nat]
         /\ recalls[r].at \in 1..Len(Program[recalls[r].run])
         /\ Program[recalls[r].run] \in Seq(CacheOp) /\ IndexesLater(Program[recalls[r].run])
         /\ Do(r) \in CacheOp
<1>1. /\ recalls[r] \in [saw : [Scopes -> Nat], run : {"hit", "miss"}, at : Nat]
      /\ recalls[r].at \in 1..Len(Program[recalls[r].run])
  BY DEF RecallsTyped, Recall, Idle, InProgram
<1>2. Program[recalls[r].run] \in Seq(CacheOp) /\ IndexesLater(Program[recalls[r].run])
  BY <1>1, ProgramIndexes
<1>3. Do(r) \in CacheOp
  BY <1>1, <1>2 DEF Do
<1> QED BY <1>1, <1>2, <1>3

\* one recall replaced, the others as they are
LEMMA SetRecall ==
  ASSUME RecallsTyped, NEW r \in Recalls, NEW y \in Recall, InProgram(y), recalls' = [recalls EXCEPT ![r] = y]
  PROVE  /\ RecallsTyped' /\ recalls'[r] = y
         /\ \A q \in Recalls : q # r => recalls'[q] = recalls[q]
BY DEF RecallsTyped, InProgram

LEMMA StartTyped ==
  ASSUME RecallsTyped, NEW r \in Recalls, Idle(r), NEW run \in {"hit", "miss"}, NEW saw \in [Scopes -> Nat],
         Start(r, run, saw)
  PROVE  RecallsTyped' /\ \A k \in Kinds, s \in Scopes : Awaits(k, s) => Awaits(k, s)'
<1> DEFINE y == [saw |-> saw, run |-> run, at |-> 1]
<1>1. y \in Recall /\ InProgram(y)
  BY ProgramIndexes DEF Recall, InProgram
<1>2. recalls' = [recalls EXCEPT ![r] = y]
  BY DEF Start
<1> HIDE DEF y
<1>3. RecallsTyped' /\ \A q \in Recalls : q # r => recalls'[q] = recalls[q]
  BY <1>1, <1>2, SetRecall
<1>4. \A q \in Recalls : q # r => Todo(q)' = Todo(q)
  BY <1>3 DEF Todo, Idle
<1>5. Todo(r) = {}
  BY DEF Todo
<1> QED BY <1>3, <1>4, <1>5 DEF Awaits

\* after an operation those that follow it are left
LEMMA DidTyped ==
  ASSUME RecallsTyped, NEW r \in Recalls, ~Idle(r), Did(r)
  PROVE  /\ RecallsTyped'
         /\ \A q \in Recalls : q # r => Todo(q)' = Todo(q)
         /\ Todo(r)' = {Program[recalls[r].run][i] : i \in (recalls[r].at + 1)..Len(Program[recalls[r].run])}
<1> DEFINE p == Program[recalls[r].run]
           y == IF recalls[r].at = Len(p) THEN NoRecall ELSE [recalls[r] EXCEPT !.at = recalls[r].at + 1]
<1>1. /\ recalls[r] \in [saw : [Scopes -> Nat], run : {"hit", "miss"}, at : Nat]
      /\ recalls[r].at \in 1..Len(p) /\ p \in Seq(CacheOp) /\ Len(p) \in Nat
  BY RecallFields
<1>2. recalls' = [recalls EXCEPT ![r] = y]
  BY DEF Did, RecallsTyped
<1>3. y \in Recall /\ InProgram(y)
  <2>1. CASE recalls[r].at = Len(p)
    BY <2>1 DEF Recall, InProgram
  <2>2. CASE recalls[r].at # Len(p)
    <3>1. y = [recalls[r] EXCEPT !.at = recalls[r].at + 1] /\ y.run = recalls[r].run /\ y.at = recalls[r].at + 1
      BY <1>1, <2>2
    <3> QED BY <1>1, <2>2, <3>1 DEF Recall, InProgram
  <2> QED BY <2>1, <2>2
<1>4. RecallsTyped' /\ recalls'[r] = y /\ \A q \in Recalls : q # r => recalls'[q] = recalls[q]
  <2> HIDE DEF y
  <2> QED BY <1>2, <1>3, SetRecall
<1>5. \A q \in Recalls : q # r => Todo(q)' = Todo(q)
  <2>1. \A q \in Recalls : q # r => recalls'[q] = recalls[q]
    BY <1>4
  <2> HIDE DEF y, p
  <2> QED BY <2>1 DEF Todo, Idle
<1>6. Todo(r)' = {p[i] : i \in (recalls[r].at + 1)..Len(p)}
  <2>1. CASE recalls[r].at = Len(p)
    <3>1. Todo(r)' = {}
      BY <1>4, <2>1 DEF Todo, Idle
    <3>2. (recalls[r].at + 1)..Len(p) = {}
      BY <1>1, <2>1
    <3> QED BY <3>1, <3>2
  <2>2. CASE recalls[r].at # Len(p)
    <3>1. y.run = recalls[r].run /\ y.at = recalls[r].at + 1 /\ y # NoRecall
      BY <1>1, <2>2 DEF NoRecall
    <3> HIDE DEF y
    <3> QED BY <1>4, <3>1 DEF Todo, Idle
  <2> QED BY <2>1, <2>2
<1> QED BY <1>4, <1>5, <1>6

\* what is awaited before an operation and not after it is that operation
LEMMA DidLoses ==
  ASSUME RecallsTyped, NEW r \in Recalls, ~Idle(r), Did(r), NEW k \in Kinds, NEW s \in Scopes,
         Awaits(k, s), Do(r) # IndexOp(k, s)
  PROVE  Awaits(k, s)'
<1> DEFINE p == Program[recalls[r].run]
<1>1. /\ recalls[r].at \in 1..Len(p) /\ Len(p) \in Nat
  BY RecallFields
<1>2. /\ \A q \in Recalls : q # r => Todo(q)' = Todo(q)
      /\ Todo(r)' = {p[i] : i \in (recalls[r].at + 1)..Len(p)}
  BY DidTyped
<1>3. PICK q \in Recalls : IndexOp(k, s) \in Todo(q)
  BY DEF Awaits, IndexOp
<1>4. CASE q # r
  BY <1>2, <1>3, <1>4 DEF Awaits, IndexOp
<1>5. CASE q = r
  <2>1. PICK i \in recalls[r].at..Len(p) : IndexOp(k, s) = p[i]
    BY <1>3, <1>5 DEF Todo
  <2>2. i # recalls[r].at
    BY <2>1 DEF Do
  <2>3. i \in (recalls[r].at + 1)..Len(p)
    BY <1>1, <2>1, <2>2
  <2>4. IndexOp(k, s) \in Todo(r)'
    BY <1>2, <2>1, <2>3
  <2> QED BY <2>4 DEF Awaits, IndexOp
<1> QED BY <1>4, <1>5

-----------------------------------------------------------------------------
(* The recall cache: the invariant                                         *)

(***************************************************************************)
(* An entry that is served and not excused is named in the index of each   *)
(* scope, or about to be (UnexcusedNamed). Whoever is past the deletion of the *)
(* keys it listed leaves no such entry behind that misses a write it       *)
(* covers (Removed). So an entry that misses the last write of a scope has *)
(* somebody to answer for that write: the writer on its way to the keys,   *)
(* or a row not older than it that is still to be carried out (Answerable).*)
(***************************************************************************)
Unexcused(k, s) == Live(k) /\ <<k, s>> \notin excused

UnexcusedNamed == \A k \in Kinds, s \in Scopes : Unexcused(k, s) => Named(k, s)

Past(c) == clears[c].phase \in {"delete", "drop", "finish"}

Removed ==
  \A c \in Clearers, k \in Kinds :
    Past(c) /\ Unexcused(k, clears[c].scope) =>
      \/ clears[c].phase = "delete" /\ k \in clears[c].keys
      \/ entries[k].saw[clears[c].scope] >= clears[c].covers

WriterMinds(k, s) ==
  \E c \in CacheWriters : /\ clears[c].phase \in {"list", "delete", "failed"} /\ clears[c].scope = s
                          /\ clears[c].phase = "delete" => k \in clears[c].keys

RowMinds(i, s) ==
  /\ invalidations[i].scope = s /\ ~invalidations[i].done /\ invalidations[i].since >= ledger[s]
  /\ invalidations[i].attempts < MaxInvalidations \/ \E c \in CacheWorkers : i \in Held(c)

Minded(k, s) == WriterMinds(k, s) \/ \E i \in DOMAIN invalidations : RowMinds(i, s)

Answerable == \A k \in Kinds, s \in Scopes : Unexcused(k, s) /\ Stale(k, s) => Minded(k, s)

\* what the rows and those who carry them out say of the writes
RowsCovered ==
  \A i \in DOMAIN invalidations :
    LET s == invalidations[i].scope
    IN invalidations[i].since <= ledger[s] /\ (invalidations[i].done => cleared[s] >= invalidations[i].since)

ClearsCovered ==
  /\ \A c \in Clearers : Past(c) => clears[c].covers <= ledger[clears[c].scope]
  /\ \A c \in CacheWorkers : clears[c].phase \in AtRow =>
       /\ clears[c].row \in DOMAIN invalidations
       /\ clears[c].scope = invalidations[clears[c].row].scope
       /\ Past(c) => clears[c].covers >= invalidations[clears[c].row].since
       /\ clears[c].phase = "finish" => cleared[clears[c].scope] >= clears[c].covers

HeldAreRows == \A c \in CacheWorkers : clears[c] # NoClear => clears[c].batch \subseteq DOMAIN invalidations

CacheInv ==
  CacheTyped /\ UnexcusedNamed /\ Removed /\ Answerable /\ RowsCovered /\ ClearsCovered /\ HeldAreRows

\* a recall stores what is up to date, or is excused
LEMMA RecallsKeepInv ==
  ASSUME CacheInv, UNCHANGED <<ledger, clears, invalidations, cleared>>, CacheTyped', UnexcusedNamed',
         \A k \in Kinds, s \in Scopes : Unexcused(k, s)' =>
           \/ Unexcused(k, s) /\ entries'[k] = entries[k]
           \/ entries'[k].saw[s] >= ledger[s]
  PROVE  CacheInv'
<1> USE DEF CacheInv
<1>1. \A c \in Clearers : Past(c)' <=> Past(c)
  BY DEF Past
<1>2. \A c \in Clearers : Past(c) => clears[c].scope \in Scopes /\ clears[c].covers \in Nat
  BY DEF Past, CacheTyped, ClearsTyped, WriterClear, WorkerClear, NoClear, Clearers
<1>3. Removed'
  <2> SUFFICES ASSUME NEW c \in Clearers, NEW k \in Kinds, Past(c), Unexcused(k, clears[c].scope)'
               PROVE  \/ clears[c].phase = "delete" /\ k \in clears[c].keys
                      \/ entries'[k].saw[clears[c].scope] >= clears[c].covers
    BY <1>1 DEF Removed
  <2> DEFINE s == clears[c].scope
  <2>1. s \in Scopes /\ clears[c].covers <= ledger[s] /\ ledger[s] \in Nat /\ clears[c].covers \in Nat
    BY <1>2 DEF ClearsCovered, CacheTyped, StoreTyped
  <2>2. entries'[k].saw[s] \in Nat
    BY <2>1 DEF CacheTyped, StoreTyped
  <2> HIDE DEF s
  <2>3. \/ Unexcused(k, s) /\ entries'[k] = entries[k]
        \/ entries'[k].saw[s] >= ledger[s]
    BY <2>1 DEF s
  <2>4. CASE Unexcused(k, s) /\ entries'[k] = entries[k]
    BY <2>4 DEF Removed, s
  <2>5. CASE entries'[k].saw[s] >= ledger[s]
    BY <2>1, <2>2, <2>5 DEF s
  <2> QED BY <2>3, <2>4, <2>5
<1>4. \A k \in Kinds, s \in Scopes : Minded(k, s)' <=> Minded(k, s)
  BY DEF Minded, WriterMinds, RowMinds, Held
<1>5. Answerable'
  <2> SUFFICES ASSUME NEW k \in Kinds, NEW s \in Scopes, Unexcused(k, s)', Stale(k, s)'
               PROVE  Minded(k, s)
    BY <1>4 DEF Answerable
  <2>1. entries'[k].saw[s] < ledger[s] /\ ledger[s] \in Nat /\ entries'[k].saw[s] \in Nat
    BY DEF Stale, CacheTyped, StoreTyped
  <2>2. Unexcused(k, s) /\ entries'[k] = entries[k]
    BY <2>1
  <2> QED BY <2>1, <2>2 DEF Answerable, Stale, Unexcused
<1>6. RowsCovered' /\ ClearsCovered' /\ HeldAreRows'
  BY <1>1 DEF RowsCovered, ClearsCovered, HeldAreRows, Past, AtRow, NoClear
<1> QED BY <1>3, <1>5, <1>6

-----------------------------------------------------------------------------
(* The recall cache: recalls                                               *)

LEMMA HitKeeps ==
  ASSUME CacheInv, NEW r \in Recalls, Hit(r)
  PROVE  CacheInv'
<1>1. CacheTyped
  BY DEF CacheInv
<1>2. PICK i \in DOMAIN Answers : Start(r, "hit", entries[Answers[i]].saw)
  BY DEF Hit
<1>3. Answers[i] \in Kinds
  BY <1>2 DEF Answers, Kinds
<1>4. entries[Answers[i]].saw \in [Scopes -> Nat]
  BY <1>1, <1>3 DEF CacheTyped, StoreTyped
<1>5. RecallsTyped' /\ \A k \in Kinds, s \in Scopes : Awaits(k, s) => Awaits(k, s)'
  BY <1>1, <1>2, <1>4, StartTyped DEF Hit, CacheTyped
<1>6. UNCHANGED <<ledger, entries, index, clears, invalidations, cleared, excused>>
  BY DEF Hit
<1>7. CacheTyped'
  BY <1>1, <1>5, <1>6 DEF CacheTyped, StoreTyped, ClearsTyped
<1>8. UnexcusedNamed'
  BY <1>5, <1>6 DEF CacheInv, UnexcusedNamed, Unexcused, Live, Named
<1>9. \A k \in Kinds, s \in Scopes : Unexcused(k, s)' => Unexcused(k, s) /\ entries'[k] = entries[k]
  BY <1>6 DEF Unexcused, Live
<1> QED BY <1>6, <1>7, <1>8, <1>9, RecallsKeepInv

LEMMA MissKeeps ==
  ASSUME CacheInv, NEW r \in Recalls, Miss(r)
  PROVE  CacheInv'
<1>1. CacheTyped /\ ledger \in [Scopes -> Nat]
  BY DEF CacheInv, CacheTyped, StoreTyped
<1>2. RecallsTyped' /\ \A k \in Kinds, s \in Scopes : Awaits(k, s) => Awaits(k, s)'
  BY <1>1, StartTyped DEF Miss, CacheTyped
<1>3. UNCHANGED <<ledger, entries, index, clears, invalidations, cleared, excused>>
  BY DEF Miss
<1>4. CacheTyped'
  BY <1>1, <1>2, <1>3 DEF CacheTyped, StoreTyped, ClearsTyped
<1>5. UnexcusedNamed'
  BY <1>2, <1>3 DEF CacheInv, UnexcusedNamed, Unexcused, Live, Named
<1>6. \A k \in Kinds, s \in Scopes : Unexcused(k, s)' => Unexcused(k, s) /\ entries'[k] = entries[k]
  BY <1>3 DEF Unexcused, Live
<1> QED BY <1>3, <1>4, <1>5, <1>6, RecallsKeepInv

\* an entry just stored is still to be named in the index of every scope
LEMMA StoreAwaits ==
  ASSUME RecallsTyped, NEW r \in Recalls, ~Idle(r), Did(r), NEW k \in Kinds, Do(r).op = "set", Do(r).kind = k
  PROVE  \A s \in Scopes : Awaits(k, s)'
<1> DEFINE p == Program[recalls[r].run]
<1>1. /\ recalls[r].at \in 1..Len(p) /\ p \in Seq(CacheOp) /\ IndexesLater(p) /\ Do(r) \in CacheOp
      /\ Len(p) \in Nat
  BY RecallFields
<1>3. Todo(r)' = {p[i] : i \in (recalls[r].at + 1)..Len(p)}
  BY DidTyped
<1>4. ASSUME NEW s \in Scopes
      PROVE  IndexOp(k, s) \in Todo(r)'
  <2>1. recalls[r].at \in DOMAIN p /\ p[recalls[r].at] = Do(r)
    BY <1>1 DEF Do
  <2> HIDE DEF p
  <2>2. PICK i \in DOMAIN p : i > recalls[r].at /\ p[i] = IndexOp(k, s)
    BY <1>1, <2>1 DEF IndexesLater
  <2>3. i \in (recalls[r].at + 1)..Len(p)
    BY <1>1, <2>2
  <2> QED BY <1>3, <2>2, <2>3
<1> QED BY <1>4 DEF Awaits, IndexOp

LEMMA StoreKeeps ==
  ASSUME CacheInv, NEW r \in Recalls, Store(r)
  PROVE  CacheInv'
<1>1. CacheTyped /\ RecallsTyped /\ ~Idle(r) /\ Did(r) /\ Do(r).op = "set"
  BY DEF CacheInv, CacheTyped, Store
<1>2. PICK k \in Kinds : Do(r).kind = k
  BY <1>1, RecallFields DEF CacheOp
<1>3. PICK saw \in [Scopes -> Nat] : recalls[r].saw = saw
  BY <1>1, RecallFields
<1>4. k \in Kinds /\ \A s \in Scopes : Awaits(k, s)'
  BY <1>1, <1>2, StoreAwaits
<1>5. saw \in [Scopes -> Nat]
  OBVIOUS
<1>6. /\ entries' = [entries EXCEPT ![k] = [saw |-> saw, left |-> Ttl[k]]]
      /\ excused' = (excused \ ({k} \X Scopes)) \cup ({k} \X {s \in Scopes : saw[s] < ledger[s]})
      /\ UNCHANGED <<ledger, index, clears, invalidations, cleared>>
  BY <1>2, <1>3 DEF Store
<1>7. \A q \in Kinds, s \in Scopes : q # k /\ Awaits(q, s) => Awaits(q, s)'
  <2>1. \A q \in Kinds, s \in Scopes : Do(r) # IndexOp(q, s)
    BY <1>1 DEF IndexOp
  <2> QED BY <1>1, <2>1, DidLoses
<1>8. CacheTyped'
  <2>1. Ttl[k] \in Nat
    BY <1>4, CacheAssumption
  <2>2. StoreTyped'
    BY <1>1, <1>4, <1>5, <1>6, <2>1 DEF CacheTyped, StoreTyped
  <2>3. RecallsTyped'
    BY <1>1, DidTyped
  <2>4. ClearsTyped' /\ invalidations' \in Seq(Invalidation)
    BY <1>1, <1>6 DEF CacheTyped, ClearsTyped
  <2> QED BY <2>2, <2>3, <2>4 DEF CacheTyped
<1>9. entries'[k].saw = saw /\ \A q \in Kinds : q # k => entries'[q] = entries[q]
  BY <1>1, <1>4, <1>6 DEF CacheTyped, StoreTyped
<1>10. ASSUME NEW q \in Kinds, NEW s \in Scopes, q # k, Unexcused(q, s)'
      PROVE  Unexcused(q, s) /\ entries'[q] = entries[q]
  <2>1. <<q, s>> \notin excused
    BY <1>6, <1>10 DEF Unexcused
  <2> QED BY <1>9, <1>10, <2>1 DEF Unexcused, Live
<1>11. UnexcusedNamed'
  <2> SUFFICES ASSUME NEW q \in Kinds, NEW s \in Scopes, Unexcused(q, s)'
               PROVE  Named(q, s)'
    BY DEF UnexcusedNamed
  <2>1. CASE q = k
    BY <1>4, <2>1 DEF Named
  <2>2. CASE q # k
    <3>1. Named(q, s)
      BY <1>10, <2>2 DEF CacheInv, UnexcusedNamed
    <3> QED BY <1>6, <1>7, <2>2, <3>1 DEF Named
  <2> QED BY <2>1, <2>2
<1>12. ASSUME NEW s \in Scopes, Unexcused(k, s)'
       PROVE  entries'[k].saw[s] >= ledger[s]
  <2>1. <<k, s>> \notin excused'
    BY <1>12 DEF Unexcused
  <2>2. ~(saw[s] < ledger[s])
    BY <1>6, <2>1
  <2>3. saw[s] \in Nat /\ ledger[s] \in Nat
    BY <1>1, <1>5 DEF CacheTyped, StoreTyped
  <2> QED BY <1>9, <2>2, <2>3
<1> QED BY <1>6, <1>8, <1>10, <1>11, <1>12, RecallsKeepInv

LEMMA NameKeeps ==
  ASSUME CacheInv, NEW r \in Recalls, Name(r)
  PROVE  CacheInv'
<1>1. CacheTyped /\ RecallsTyped /\ ~Idle(r) /\ Did(r) /\ Do(r).op = "index"
  BY DEF CacheInv, CacheTyped, Name
<1>2. PICK k \in Kinds, s \in Scopes : Do(r) = IndexOp(k, s)
  BY <1>1, RecallFields DEF CacheOp, IndexOp
<1>3. /\ index' = [index EXCEPT ![s] = [keys |-> index[s].keys \cup {k}, left |-> Ttl[k]]]
      /\ UNCHANGED <<ledger, entries, clears, invalidations, cleared, excused>>
  <2>1. index' = [index EXCEPT ![s] = [keys |-> @.keys \cup {k}, left |-> Ttl[k]]]
    BY <1>2 DEF Name, IndexOp
  <2>2. UNCHANGED <<ledger, entries, clears, invalidations, cleared, excused>>
    BY DEF Name
  <2> QED BY <2>1, <2>2
<1>4. /\ index'[s].keys = index[s].keys \cup {k}
      /\ \A t \in Scopes : t # s => index'[t] = index[t]
  BY <1>1, <1>2, <1>3 DEF CacheTyped, StoreTyped
<1>5. CacheTyped'
  <2>1. Ttl[k] \in Nat
    BY <1>2, CacheAssumption
  <2>2. index[s].keys \cup {k} \in SUBSET Kinds
    BY <1>1, <1>2 DEF CacheTyped, StoreTyped
  <2>3. StoreTyped'
    BY <1>1, <1>2, <1>3, <2>1, <2>2 DEF CacheTyped, StoreTyped
  <2>4. RecallsTyped'
    BY <1>1, DidTyped
  <2>5. ClearsTyped' /\ invalidations' \in Seq(Invalidation)
    BY <1>1, <1>3 DEF CacheTyped, ClearsTyped
  <2> QED BY <2>3, <2>4, <2>5 DEF CacheTyped
<1>6. \A q \in Kinds, t \in Scopes : Named(q, t) => Named(q, t)'
  <2> SUFFICES ASSUME NEW q \in Kinds, NEW t \in Scopes, Named(q, t)
               PROVE  Named(q, t)'
    OBVIOUS
  <2>1. CASE q \in index[t].keys
    BY <1>4, <2>1 DEF Named
  <2>2. CASE Awaits(q, t) /\ Do(r) # IndexOp(q, t)
    BY <1>1, <2>2, DidLoses DEF Named
  <2>3. CASE Do(r) = IndexOp(q, t)
    <3>1. q = k /\ t = s
      BY <1>2, <2>3 DEF IndexOp
    <3> QED BY <1>4, <3>1 DEF Named
  <2> QED BY <2>1, <2>2, <2>3 DEF Named
<1>7. \A q \in Kinds, t \in Scopes : Unexcused(q, t)' => Unexcused(q, t) /\ entries'[q] = entries[q]
  BY <1>3 DEF Unexcused, Live
<1>8. UnexcusedNamed'
  BY <1>6, <1>7 DEF CacheInv, UnexcusedNamed
<1> QED BY <1>3, <1>5, <1>7, <1>8, RecallsKeepInv

LEMMA SkipKeeps ==
  ASSUME CacheInv, NEW r \in Recalls, Skip(r)
  PROVE  CacheInv'
<1>1. CacheTyped /\ RecallsTyped /\ ~Idle(r)
  BY DEF CacheInv, CacheTyped, Skip
<1>2. PICK gone \in {{Do(r)}, Todo(r)} :
        /\ IF gone = {Do(r)} THEN Did(r) ELSE recalls' = [recalls EXCEPT ![r] = NoRecall]
        /\ excused' = excused \cup {<<d.kind, d.scope>> : d \in {e \in gone : e.op = "index"}}
  BY DEF Skip
<1>3. UNCHANGED <<ledger, entries, index, clears, invalidations, cleared>>
  BY DEF Skip
<1>4. \A k \in Kinds, s \in Scopes : IndexOp(k, s) \in gone => <<k, s>> \in excused'
  BY <1>2 DEF IndexOp
<1>5. RecallsTyped' /\ \A k \in Kinds, s \in Scopes : Awaits(k, s) => Awaits(k, s)' \/ IndexOp(k, s) \in gone
  <2>1. CASE gone = {Do(r)}
    <3>1. Did(r)
      BY <1>2, <2>1
    <3>2. RecallsTyped'
      BY <1>1, <3>1, DidTyped
    <3>3. \A k \in Kinds, s \in Scopes : Awaits(k, s) /\ Do(r) # IndexOp(k, s) => Awaits(k, s)'
      BY <1>1, <3>1, DidLoses
    <3> QED BY <2>1, <3>2, <3>3
  <2>2. CASE gone # {Do(r)}
    <3>1. gone = Todo(r) /\ recalls' = [recalls EXCEPT ![r] = NoRecall]
      BY <1>2, <2>2
    <3>2. NoRecall \in Recall /\ InProgram(NoRecall)
      BY DEF Recall, InProgram
    <3>3. RecallsTyped' /\ \A q \in Recalls : q # r => recalls'[q] = recalls[q]
      BY <1>1, <3>1, <3>2, SetRecall
    <3>4. \A q \in Recalls : q # r => Todo(q)' = Todo(q)
      BY <3>3 DEF Todo, Idle
    <3>5. \A k \in Kinds, s \in Scopes : Awaits(k, s) => Awaits(k, s)' \/ IndexOp(k, s) \in Todo(r)
      BY <3>4 DEF Awaits, IndexOp
    <3> QED BY <3>1, <3>3, <3>5
  <2> QED BY <2>1, <2>2
<1>6. CacheTyped'
  BY <1>1, <1>3, <1>5 DEF CacheTyped, StoreTyped, ClearsTyped
<1>7. \A k \in Kinds, s \in Scopes : Unexcused(k, s)' => Unexcused(k, s) /\ entries'[k] = entries[k]
  BY <1>2, <1>3 DEF Unexcused, Live
<1>8. UnexcusedNamed'
  <2> SUFFICES ASSUME NEW k \in Kinds, NEW s \in Scopes, Unexcused(k, s)'
               PROVE  Named(k, s)'
    BY DEF UnexcusedNamed
  <2>1. Named(k, s) /\ <<k, s>> \notin excused'
    BY <1>7 DEF CacheInv, UnexcusedNamed, Unexcused
  <2> QED BY <1>3, <1>4, <1>5, <2>1 DEF Named
<1> QED BY <1>3, <1>6, <1>7, <1>8, RecallsKeepInv

-----------------------------------------------------------------------------
(* The recall cache: writes                                                *)

LEMMA WriteGrows ==
  ASSUME StoreTyped, NEW s \in Scopes, Write(s)
  PROVE  /\ ledger' \in [Scopes -> Nat] /\ ledger'[s] = ledger[s] + 1 /\ ledger[s] \in Nat
         /\ \A t \in Scopes : t # s => ledger'[t] = ledger[t]
         /\ \A t \in Scopes : ledger[t] \in Nat /\ ledger'[t] >= ledger[t] /\ ledger'[t] \in Nat
BY DEF Write, StoreTyped

\* one clear replaced, the others as they are
LEMMA SetClear ==
  ASSUME ClearsTyped, NEW c \in Clearers, NEW y, clears' = [clears EXCEPT ![c] = y],
         c \in CacheWriters => y \in WriterClear, c \in CacheWorkers => y \in WorkerClear
  PROVE  /\ ClearsTyped' /\ clears'[c] = y
         /\ \A d \in Clearers : d # c => clears'[d] = clears[d]
<1>1. clears'[c] = y /\ \A d \in Clearers : d # c => clears'[d] = clears[d]
  BY DEF ClearsTyped
<1>2. clears' = [d \in Clearers |-> clears'[d]]
  BY DEF ClearsTyped
<1>3. \A d \in CacheWriters : clears'[d] \in WriterClear
  BY <1>1 DEF ClearsTyped, Clearers
<1>4. \A d \in CacheWorkers : clears'[d] \in WorkerClear
  BY <1>1 DEF ClearsTyped, Clearers
<1> QED BY <1>1, <1>2, <1>3, <1>4 DEF ClearsTyped

LEMMA CommitWriteKeeps ==
  ASSUME CacheInv, NEW c \in Clearers, CommitWrite(c)
  PROVE  CacheInv'
<1>1. CacheTyped /\ StoreTyped /\ ClearsTyped /\ c \in CacheWriters /\ c \notin CacheWorkers
  BY CacheAssumption DEF CacheInv, CacheTyped, CommitWrite
<1>2. PICK s \in Scopes :
        /\ Write(s)
        /\ clears' = [clears EXCEPT ![c] = [phase |-> "list", scope |-> s, keys |-> {}, covers |-> 0]]
  BY DEF CommitWrite
<1>3. clears[c] = NoClear /\ UNCHANGED <<entries, index, recalls, invalidations, cleared, excused>>
  BY DEF CommitWrite
<1>4. /\ ledger' \in [Scopes -> Nat] /\ ledger'[s] = ledger[s] + 1 /\ ledger[s] \in Nat
      /\ \A t \in Scopes : t # s => ledger'[t] = ledger[t]
  BY <1>1, <1>2, WriteGrows
<1> DEFINE y == [phase |-> "list", scope |-> s, keys |-> {}, covers |-> 0]
<1>5. y \in WriterClear /\ y.phase = "list" /\ y.scope = s
  BY DEF WriterClear
<1> HIDE DEF y
<1>6. clears' = [clears EXCEPT ![c] = y]
  BY <1>2 DEF y
<1>7. /\ ClearsTyped' /\ clears'[c] = y
      /\ \A d \in Clearers : d # c => clears'[d] = clears[d]
  BY <1>1, <1>5, <1>6, SetClear
<1>8. CacheTyped'
  BY <1>1, <1>3, <1>4, <1>7 DEF CacheTyped, StoreTyped, RecallsTyped
<1>9. \A k \in Kinds, t \in Scopes : (Unexcused(k, t)' <=> Unexcused(k, t)) /\ (Named(k, t)' <=> Named(k, t))
  BY <1>3 DEF Unexcused, Live, Named, Awaits, Todo, Idle
<1>10. UnexcusedNamed'
  BY <1>9 DEF CacheInv, UnexcusedNamed
<1>11. \A d \in Clearers : Past(d)' => d # c /\ Past(d) /\ clears'[d] = clears[d] /\ clears[d].scope \in Scopes
  <2>1. \A d \in Clearers : Past(d) => clears[d].scope \in Scopes
    BY <1>1 DEF Past, ClearsTyped, WriterClear, WorkerClear, NoClear, Clearers
  <2> QED BY <1>5, <1>7, <2>1 DEF Past
<1>12. Removed'
  BY <1>3, <1>9, <1>11 DEF CacheInv, Removed
<1>13. Answerable'
  <2> SUFFICES ASSUME NEW k \in Kinds, NEW t \in Scopes, Unexcused(k, t)', Stale(k, t)'
               PROVE  Minded(k, t)'
    BY DEF Answerable
  <2>1. CASE t = s
    BY <1>1, <1>5, <1>7, <2>1 DEF Minded, WriterMinds
  <2>2. CASE t # s
    <3>1. ledger'[t] = ledger[t]
      BY <1>4, <2>2
    <3>2. Minded(k, t)
      BY <1>3, <1>9, <3>1 DEF CacheInv, Answerable, Stale, Live
    <3>3. \A d \in CacheWorkers : Held(d)' = Held(d)
      BY <1>1, <1>7 DEF Held, Clearers
    <3>4. \A i \in DOMAIN invalidations : RowMinds(i, t) => RowMinds(i, t)'
      BY <1>3, <3>1, <3>3 DEF RowMinds
    <3>5. WriterMinds(k, t) => WriterMinds(k, t)'
      BY <1>3, <1>7 DEF WriterMinds, NoClear, Clearers
    <3> QED BY <1>3, <3>2, <3>4, <3>5 DEF Minded
  <2> QED BY <2>1, <2>2
<1>14. RowsCovered'
  <2>1. \A i \in DOMAIN invalidations : invalidations[i] \in Invalidation
    BY <1>1 DEF CacheTyped
  <2>2. \A i \in DOMAIN invalidations : invalidations[i].scope \in Scopes /\ invalidations[i].since \in Nat
    BY <2>1 DEF Invalidation
  <2>3. \A t \in Scopes : ledger[t] \in Nat /\ ledger'[t] >= ledger[t] /\ ledger'[t] \in Nat
    BY <1>1, <1>4 DEF StoreTyped
  <2> QED BY <1>3, <2>2, <2>3 DEF CacheInv, RowsCovered
<1>15. ClearsCovered'
  <2>1. \A d \in Clearers : Past(d) => clears[d].covers \in Nat
    BY <1>1 DEF Past, ClearsTyped, WriterClear, WorkerClear, NoClear, Clearers
  <2>2. \A t \in Scopes : ledger[t] \in Nat /\ ledger'[t] >= ledger[t] /\ ledger'[t] \in Nat
    BY <1>1, <1>4 DEF StoreTyped
  <2>3. \A d \in Clearers : Past(d)' => clears'[d].covers <= ledger'[clears'[d].scope]
    BY <1>11, <2>1, <2>2 DEF CacheInv, ClearsCovered
  <2>4. \A d \in CacheWorkers : clears'[d] = clears[d] /\ (Past(d)' <=> Past(d))
    BY <1>1, <1>7 DEF Clearers, Past
  <2> QED BY <1>3, <2>3, <2>4 DEF CacheInv, ClearsCovered
<1>16. HeldAreRows'
  BY <1>1, <1>3, <1>7 DEF CacheInv, HeldAreRows, NoClear, Clearers
<1> QED BY <1>8, <1>10, <1>12, <1>13, <1>14, <1>15, <1>16 DEF CacheInv

\* a write with no writer to follow it up: the rows grow at their end, if at all
LEMMA WriteAloneKeeps ==
  ASSUME CacheInv, NEW s \in Scopes, Write(s),
         UNCHANGED <<entries, index, recalls, clears, cleared>>, CacheTyped', RowsCovered',
         excused \subseteq excused', DOMAIN invalidations \subseteq DOMAIN invalidations',
         \A i \in DOMAIN invalidations : invalidations'[i] = invalidations[i],
         \A k \in Kinds : Unexcused(k, s)' => Minded(k, s)'
  PROVE  CacheInv'
<1>1. CacheTyped /\ StoreTyped /\ ClearsTyped
  BY DEF CacheInv, CacheTyped
<1>2. \A t \in Scopes : ledger[t] \in Nat /\ ledger'[t] >= ledger[t] /\ ledger'[t] \in Nat
  BY <1>1, WriteGrows DEF StoreTyped
<1>3. \A t \in Scopes : t # s => ledger'[t] = ledger[t]
  BY <1>1, WriteGrows
<1>4. \A k \in Kinds, t \in Scopes : (Unexcused(k, t)' => Unexcused(k, t)) /\ (Named(k, t)' <=> Named(k, t))
  BY DEF Unexcused, Live, Named, Awaits, Todo, Idle
<1>5. UnexcusedNamed'
  BY <1>4 DEF CacheInv, UnexcusedNamed
<1>6. \A d \in Clearers : (Past(d)' <=> Past(d)) /\ (Past(d) => clears[d].scope \in Scopes /\ clears[d].covers \in Nat)
  BY <1>1 DEF Past, ClearsTyped, WriterClear, WorkerClear, NoClear, Clearers
<1>7. Removed'
  BY <1>4, <1>6 DEF CacheInv, Removed
<1>8. Answerable'
  <2> SUFFICES ASSUME NEW k \in Kinds, NEW t \in Scopes, Unexcused(k, t)', Stale(k, t)', t # s
               PROVE  Minded(k, t)'
    BY DEF Answerable
  <2>1. ledger'[t] = ledger[t]
    BY <1>3
  <2>2. Minded(k, t)
    BY <1>4, <2>1 DEF CacheInv, Answerable, Stale, Live
  <2>3. \A i \in DOMAIN invalidations : RowMinds(i, t) => RowMinds(i, t)'
    BY <2>1 DEF RowMinds, Held
  <2> QED BY <2>2, <2>3 DEF Minded, WriterMinds
<1>9. ClearsCovered'
  <2>1. \A d \in Clearers : Past(d) => clears[d].covers <= ledger'[clears[d].scope]
    BY <1>2, <1>6 DEF CacheInv, ClearsCovered
  <2>2. UNCHANGED clears /\ UNCHANGED cleared
    OBVIOUS
  <2>3. \A d \in CacheWorkers : clears[d].phase \in AtRow => clears[d].row \in DOMAIN invalidations
    BY DEF CacheInv, ClearsCovered
  <2>4. \A d \in Clearers : Past(d)' => clears'[d].covers <= ledger'[clears'[d].scope]
    BY <1>6, <2>1, <2>2
  <2>5. ASSUME NEW d \in CacheWorkers, clears[d].phase \in AtRow
        PROVE  /\ clears[d].row \in DOMAIN invalidations'
               /\ clears[d].scope = invalidations'[clears[d].row].scope
               /\ Past(d) => clears[d].covers >= invalidations'[clears[d].row].since
               /\ clears[d].phase = "finish" => cleared[clears[d].scope] >= clears[d].covers
    BY <2>3, <2>5 DEF CacheInv, ClearsCovered
  <2>6. \A d \in CacheWorkers : Past(d)' <=> Past(d)
    BY <1>6 DEF Clearers
  <2> QED BY <2>2, <2>4, <2>5, <2>6 DEF ClearsCovered
<1>10. HeldAreRows'
  BY DEF CacheInv, HeldAreRows
<1> QED BY <1>5, <1>7, <1>8, <1>9, <1>10 DEF CacheInv

LEMMA SilentWriteKeeps ==
  ASSUME CacheInv, SilentWrite
  PROVE  CacheInv'
<1>1. CacheTyped /\ StoreTyped
  BY DEF CacheInv, CacheTyped
<1>2. PICK s \in Scopes : Write(s) /\ excused' = excused \cup (Kinds \X {s})
  BY DEF SilentWrite
<1>3. UNCHANGED <<entries, index, recalls, clears, invalidations, cleared>>
  BY DEF SilentWrite
<1>4. CacheTyped'
  BY <1>1, <1>2, <1>3, WriteGrows DEF CacheTyped, StoreTyped, RecallsTyped, ClearsTyped
<1>5. RowsCovered'
  <2>1. \A i \in DOMAIN invalidations : invalidations[i] \in Invalidation
    BY <1>1 DEF CacheTyped
  <2>2. \A i \in DOMAIN invalidations : invalidations[i].scope \in Scopes /\ invalidations[i].since \in Nat
    BY <2>1 DEF Invalidation
  <2>3. \A t \in Scopes : ledger[t] \in Nat /\ ledger'[t] >= ledger[t] /\ ledger'[t] \in Nat
    BY <1>1, <1>2, WriteGrows
  <2> QED BY <1>3, <2>2, <2>3 DEF CacheInv, RowsCovered
<1>6. \A k \in Kinds : ~Unexcused(k, s)'
  BY <1>2 DEF Unexcused
<1> QED BY <1>2, <1>3, <1>4, <1>5, <1>6, WriteAloneKeeps

\* a row added
LEMMA RowAdded ==
  ASSUME invalidations \in Seq(Invalidation), NEW x \in Invalidation, invalidations' = Append(invalidations, x)
  PROVE  /\ invalidations' \in Seq(Invalidation)
         /\ DOMAIN invalidations' = DOMAIN invalidations \cup {Len(invalidations) + 1}
         /\ Len(invalidations) + 1 \notin DOMAIN invalidations
         /\ \A i \in DOMAIN invalidations : invalidations'[i] = invalidations[i]
         /\ invalidations'[Len(invalidations) + 1] = x
OBVIOUS

LEMMA RequestTyped ==
  ASSUME NEW s \in Scopes, NEW n \in Nat
  PROVE  /\ Request(s, n) \in Invalidation
         /\ Request(s, n).scope = s /\ Request(s, n).since = n /\ Request(s, n).attempts = 0
         /\ Request(s, n).done = FALSE
BY CacheAssumption DEF Request, Invalidation

LEMMA QueuedWriteKeeps ==
  ASSUME CacheInv, QueuedWrite
  PROVE  CacheInv'
<1>1. CacheTyped /\ StoreTyped /\ invalidations \in Seq(Invalidation)
  BY DEF CacheInv, CacheTyped
<1>2. PICK s \in Scopes : Write(s) /\ invalidations' = Append(invalidations, Request(s, ledger[s] + 1))
  BY DEF QueuedWrite
<1>3. UNCHANGED <<entries, index, recalls, clears, cleared, excused>>
  BY DEF QueuedWrite
<1>4. PICK n \in Nat : n = ledger[s] + 1 /\ ledger'[s] = n
  BY <1>1, <1>2, WriteGrows
<1>5. PICK x \in Invalidation :
        x = Request(s, n) /\ x.scope = s /\ x.since = n /\ x.attempts = 0 /\ x.done = FALSE
  BY RequestTyped
<1>6. PICK j \in Nat : j = Len(invalidations) + 1
  BY <1>1
<1>7. /\ invalidations' \in Seq(Invalidation)
      /\ DOMAIN invalidations' = DOMAIN invalidations \cup {j}
      /\ \A i \in DOMAIN invalidations : invalidations'[i] = invalidations[i]
      /\ invalidations'[j] = x
  BY <1>1, <1>2, <1>4, <1>5, <1>6, RowAdded
<1>8. CacheTyped'
  BY <1>1, <1>2, <1>3, <1>7, WriteGrows DEF CacheTyped, StoreTyped, RecallsTyped, ClearsTyped
<1>9. RowsCovered'
  <2>1. \A i \in DOMAIN invalidations : invalidations[i] \in Invalidation
    BY <1>1
  <2>2. \A i \in DOMAIN invalidations : invalidations[i].scope \in Scopes /\ invalidations[i].since \in Nat
    BY <2>1 DEF Invalidation
  <2>3. \A t \in Scopes : ledger[t] \in Nat /\ ledger'[t] >= ledger[t] /\ ledger'[t] \in Nat
    BY <1>1, <1>2, WriteGrows
  <2>4. \A i \in DOMAIN invalidations :
          LET t == invalidations'[i].scope
          IN invalidations'[i].since <= ledger'[t] /\ (invalidations'[i].done => cleared'[t] >= invalidations'[i].since)
    BY <1>3, <1>7, <2>2, <2>3 DEF CacheInv, RowsCovered
  <2>5. invalidations'[j].since <= ledger'[s] /\ invalidations'[j].scope = s /\ ~invalidations'[j].done
    BY <1>4, <1>5, <1>7
  <2> QED BY <1>7, <2>4, <2>5 DEF RowsCovered
<1>10. RowMinds(j, s)'
  BY <1>4, <1>5, <1>7, CacheAssumption DEF RowMinds
<1>11. \A k \in Kinds : Minded(k, s)'
  BY <1>7, <1>10 DEF Minded
<1> QED BY <1>2, <1>3, <1>7, <1>8, <1>9, <1>11, WriteAloneKeeps

-----------------------------------------------------------------------------
(* The recall cache: invalidations                                         *)

\* the part of the invariant that is about one clear
ClearInv(c) ==
  /\ Past(c) =>
       /\ clears[c].covers <= ledger[clears[c].scope]
       /\ \A k \in Kinds : Unexcused(k, clears[c].scope) =>
            \/ clears[c].phase = "delete" /\ k \in clears[c].keys
            \/ entries[k].saw[clears[c].scope] >= clears[c].covers
  /\ c \in CacheWorkers =>
       /\ clears[c] # NoClear => clears[c].batch \subseteq DOMAIN invalidations
       /\ clears[c].phase \in AtRow =>
            /\ clears[c].row \in DOMAIN invalidations
            /\ clears[c].scope = invalidations[clears[c].row].scope
            /\ Past(c) => clears[c].covers >= invalidations[clears[c].row].since
            /\ clears[c].phase = "finish" => cleared[clears[c].scope] >= clears[c].covers

LEMMA ClearByClear ==
  Removed /\ ClearsCovered /\ HeldAreRows => \A c \in Clearers : ClearInv(c)
<1>1. ASSUME Removed, ClearsCovered, HeldAreRows, NEW c \in Clearers
      PROVE  ClearInv(c)
  <2>1. ASSUME c \in CacheWorkers, clears[c].phase \in AtRow
        PROVE  /\ clears[c].row \in DOMAIN invalidations
               /\ clears[c].scope = invalidations[clears[c].row].scope
               /\ Past(c) => clears[c].covers >= invalidations[clears[c].row].since
               /\ clears[c].phase = "finish" => cleared[clears[c].scope] >= clears[c].covers
    BY <1>1, <2>1 DEF ClearsCovered
  <2>2. Past(c) => clears[c].covers <= ledger[clears[c].scope]
    BY <1>1 DEF ClearsCovered
  <2>3. Past(c) => \A k \in Kinds : Unexcused(k, clears[c].scope) =>
            \/ clears[c].phase = "delete" /\ k \in clears[c].keys
            \/ entries[k].saw[clears[c].scope] >= clears[c].covers
    BY <1>1 DEF Removed
  <2>4. c \in CacheWorkers => (clears[c] # NoClear => clears[c].batch \subseteq DOMAIN invalidations)
    BY <1>1 DEF HeldAreRows
  <2> QED BY <2>1, <2>2, <2>3, <2>4 DEF ClearInv
<1> QED BY <1>1

RowsKept ==
  /\ DOMAIN invalidations \subseteq DOMAIN invalidations'
  /\ \A i \in DOMAIN invalidations :
       invalidations'[i].scope = invalidations[i].scope /\ invalidations'[i].since = invalidations[i].since

\* fewer entries are fresh, and they are as they were
Wanes ==
  \A k \in Kinds, s \in Scopes :
    Unexcused(k, s)' => Unexcused(k, s) /\ Named(k, s)' /\ entries'[k].saw = entries[k].saw

LEMMA ClearsKeepInv ==
  ASSUME CacheInv, CacheTyped', RowsCovered', UNCHANGED ledger, RowsKept, Wanes,
         \A s \in Scopes : cleared'[s] >= cleared[s],
         \A c \in Clearers : clears'[c] = clears[c] \/ ClearInv(c)',
         \A k \in Kinds, s \in Scopes : Unexcused(k, s)' /\ Stale(k, s)' /\ Minded(k, s) => Minded(k, s)'
  PROVE  CacheInv'
<1>1. CacheTyped /\ StoreTyped /\ ClearsTyped /\ \A c \in Clearers : ClearInv(c)
  BY ClearByClear DEF CacheInv, CacheTyped
<1>2. UnexcusedNamed'
  BY DEF UnexcusedNamed, Wanes
<1>3. Answerable'
  <2> SUFFICES ASSUME NEW k \in Kinds, NEW s \in Scopes, Unexcused(k, s)', Stale(k, s)'
               PROVE  Minded(k, s)
    BY DEF Answerable
  <2>1. Unexcused(k, s) /\ entries'[k].saw = entries[k].saw
    BY DEF Wanes
  <2>2. Stale(k, s)
    BY <2>1 DEF Stale, Unexcused
  <2> QED BY <2>1, <2>2 DEF CacheInv, Answerable
<1>4. ASSUME NEW c \in Clearers
      PROVE  ClearInv(c)'
  <2>1. CASE ClearInv(c)'
    BY <2>1
  <2>2. CASE clears'[c] = clears[c]
    <3>1. Past(c)' <=> Past(c)
      BY <2>2 DEF Past
    <3>2. Past(c) => clears[c].scope \in Scopes
      BY <1>1 DEF Past, ClearsTyped, WriterClear, WorkerClear, NoClear, Clearers
    <3>3. Past(c)' => clears'[c].covers <= ledger'[clears'[c].scope]
      BY <1>1, <2>2, <3>1 DEF ClearInv
    <3>4. ASSUME Past(c)', NEW k \in Kinds, Unexcused(k, clears[c].scope)'
          PROVE  \/ clears'[c].phase = "delete" /\ k \in clears'[c].keys
                 \/ entries'[k].saw[clears'[c].scope] >= clears'[c].covers
      <4>1. PICK s \in Scopes : s = clears[c].scope /\ s = clears'[c].scope
        BY <2>2, <3>1, <3>2, <3>4
      <4>2. Unexcused(k, s)'
        BY <3>4, <4>1
      <4>3. Unexcused(k, s) /\ entries'[k].saw = entries[k].saw
        BY <4>2 DEF Wanes
      <4>4. \/ clears[c].phase = "delete" /\ k \in clears[c].keys
            \/ entries[k].saw[s] >= clears[c].covers
        BY <1>1, <3>1, <3>4, <4>1, <4>3 DEF ClearInv
      <4> QED BY <2>2, <4>1, <4>3, <4>4
    <3>5. c \in CacheWorkers => (clears'[c] # NoClear => clears'[c].batch \subseteq DOMAIN invalidations')
      BY <1>1, <2>2 DEF ClearInv, RowsKept
    <3>6. ASSUME c \in CacheWorkers, clears[c].phase \in AtRow
          PROVE  /\ clears[c].row \in DOMAIN invalidations'
                 /\ clears[c].scope = invalidations'[clears[c].row].scope
                 /\ Past(c) => clears[c].covers >= invalidations'[clears[c].row].since
      BY <1>1, <3>6 DEF ClearInv, RowsKept
    <3>7. ASSUME c \in CacheWorkers, clears[c].phase = "finish"
          PROVE  cleared'[clears[c].scope] >= clears[c].covers
      <4>1. clears[c].scope \in Scopes /\ clears[c].covers \in Nat
        BY <1>1, <3>7 DEF ClearsTyped, WorkerClear, NoClear
      <4>2. cleared[clears[c].scope] >= clears[c].covers
        BY <1>1, <3>7 DEF ClearInv, AtRow
      <4>3. cleared[clears[c].scope] \in Nat /\ cleared'[clears[c].scope] \in Nat
        BY <1>1, <4>1 DEF CacheTyped, StoreTyped
      <4> QED BY <4>1, <4>2, <4>3
    <3> QED BY <2>2, <3>1, <3>3, <3>4, <3>5, <3>6, <3>7 DEF ClearInv
  <2> QED BY <2>1, <2>2
<1>5. Removed'
  BY <1>4 DEF ClearInv, Removed
<1>6. ClearsCovered'
  BY <1>4 DEF ClearInv, ClearsCovered, Clearers
<1>7. HeldAreRows'
  BY <1>4 DEF ClearInv, HeldAreRows, Clearers
<1> QED BY <1>2, <1>3, <1>5, <1>6, <1>7 DEF CacheInv

\* a step that leaves the rows alone: whoever minds an entry goes on to,
\* unless it is the writer of the step
Minds(c, k, s) ==
  /\ clears[c].phase \in {"list", "delete", "failed"} /\ clears[c].scope = s
  /\ clears[c].phase = "delete" => k \in clears[c].keys

LEMMA MindedStays ==
  ASSUME NEW c \in Clearers, UNCHANGED <<ledger, invalidations>>,
         \A d \in Clearers : d # c => clears'[d] = clears[d],
         NEW k \in Kinds, NEW s \in Scopes,
         c \in CacheWriters => (Minds(c, k, s) => Minds(c, k, s)'),
         c \in CacheWorkers => Held(c) \subseteq Held(c)'
  PROVE  Minded(k, s) => Minded(k, s)'
<1>1. \A d \in Clearers : d # c => Held(d)' = Held(d)
  BY DEF Held
<1>2. \A d \in CacheWorkers : Held(d) \subseteq Held(d)'
  BY <1>1 DEF Clearers
<1>3. \A i \in DOMAIN invalidations : RowMinds(i, s) => RowMinds(i, s)'
  BY <1>2 DEF RowMinds
<1>4. ASSUME NEW d \in CacheWriters, Minds(d, k, s)
      PROVE  Minds(d, k, s)'
  BY <1>4 DEF Minds, Clearers
<1>5. WriterMinds(k, s) => WriterMinds(k, s)'
  BY <1>4 DEF WriterMinds, Minds
<1> QED BY <1>3, <1>5 DEF Minded

\* a clear under way
LEMMA ClearFields ==
  ASSUME ClearsTyped, NEW c \in Clearers, clears[c].phase \in AtRow
  PROVE  /\ clears[c] # NoClear /\ clears[c].scope \in Scopes /\ clears[c].keys \in SUBSET Kinds /\ clears[c].covers \in Nat
         /\ c \in CacheWriters =>
              /\ c \notin CacheWorkers
              /\ clears[c] \in [phase : {"list", "delete", "drop", "failed"}, scope : Scopes, keys : SUBSET Kinds, covers : Nat]
         /\ c \in CacheWorkers =>
              /\ c \notin CacheWriters
              /\ clears[c] \in [phase : AtRow, scope : Scopes, keys : SUBSET Kinds, covers : Nat, row : Nat, batch : SUBSET Nat]
<1>1. clears[c] # NoClear /\ clears[c].phase # "next"
  BY DEF AtRow, NoClear
<1>2. CASE c \in CacheWriters
  <2>1. clears[c] \in [phase : {"list", "delete", "drop", "failed"}, scope : Scopes, keys : SUBSET Kinds, covers : Nat]
    BY <1>1, <1>2 DEF ClearsTyped, WriterClear
  <2> QED BY <1>1, <1>2, <2>1, CacheAssumption
<1>3. CASE c \in CacheWorkers
  <2>1. clears[c] \in [phase : AtRow, scope : Scopes, keys : SUBSET Kinds, covers : Nat, row : Nat, batch : SUBSET Nat]
    BY <1>1, <1>3 DEF ClearsTyped, WorkerClear
  <2> QED BY <1>1, <1>3, <2>1, CacheAssumption
<1> QED BY <1>2, <1>3 DEF Clearers

LEMMA ListKeeps ==
  ASSUME CacheInv, NEW c \in Clearers, List(c)
  PROVE  CacheInv'
<1>1. CacheTyped /\ StoreTyped /\ ClearsTyped /\ \A d \in Clearers : ClearInv(d)
  BY ClearByClear DEF CacheInv, CacheTyped
<1>2. clears[c].phase = "list" /\ UNCHANGED <<ledger, entries, index, recalls, invalidations, cleared>>
  BY DEF List
<1>3. clears[c].phase \in AtRow
  BY <1>2 DEF AtRow
<1>4. PICK s \in Scopes : s = clears[c].scope
  BY <1>1, <1>3, ClearFields
<1> DEFINE y == [clears[c] EXCEPT !.phase = "delete", !.keys = index[s].keys, !.covers = ledger[s]]
<1>5. /\ clears' = [clears EXCEPT ![c] = y]
      /\ excused' = excused \cup {<<k, s>> : k \in {q \in Kinds \ index[s].keys : Awaits(q, s)}}
  BY <1>1, <1>4 DEF List, ClearsTyped
<1>6. index[s].keys \in SUBSET Kinds /\ ledger[s] \in Nat
  BY <1>1 DEF StoreTyped
<1>7. /\ y.phase = "delete" /\ y.keys = index[s].keys /\ y.covers = ledger[s] /\ y.scope = s /\ y # NoClear
      /\ c \in CacheWriters => y \in WriterClear
      /\ c \in CacheWorkers => y \in WorkerClear /\ y.row = clears[c].row /\ y.batch = clears[c].batch
  <2>1. CASE c \in CacheWriters
    <3>1. /\ clears[c] \in [phase : {"list", "delete", "drop", "failed"}, scope : Scopes, keys : SUBSET Kinds, covers : Nat]
          /\ c \notin CacheWorkers
      BY <1>1, <1>3, <2>1, ClearFields
    <3> QED BY <1>4, <1>6, <3>1 DEF WriterClear, NoClear
  <2>2. CASE c \in CacheWorkers
    <3>1. /\ clears[c] \in [phase : AtRow, scope : Scopes, keys : SUBSET Kinds, covers : Nat, row : Nat, batch : SUBSET Nat]
          /\ c \notin CacheWriters
      BY <1>1, <1>3, <2>2, ClearFields
    <3>2. "delete" \in AtRow
      BY DEF AtRow
    <3> QED BY <1>4, <1>6, <3>1, <3>2 DEF WorkerClear, NoClear
  <2> QED BY <2>1, <2>2 DEF Clearers
<1> HIDE DEF y
<1>8. /\ ClearsTyped' /\ clears'[c] = y
      /\ \A d \in Clearers : d # c => clears'[d] = clears[d]
  BY <1>1, <1>5, <1>7, SetClear
<1>9. CacheTyped'
  BY <1>1, <1>2, <1>8 DEF CacheTyped, StoreTyped, RecallsTyped
<1>10. \A k \in Kinds, t \in Scopes : Unexcused(k, t)' => Unexcused(k, t) /\ Named(k, t)' /\ Named(k, t)
  <2>1. \A k \in Kinds, t \in Scopes : Unexcused(k, t)' => Unexcused(k, t)
    BY <1>2, <1>5 DEF Unexcused, Live
  <2>2. \A k \in Kinds, t \in Scopes : Named(k, t) <=> Named(k, t)'
    BY <1>2 DEF Named, Awaits, Todo, Idle
  <2> QED BY <2>1, <2>2 DEF CacheInv, UnexcusedNamed
<1>11. Wanes
  BY <1>2, <1>10 DEF Wanes
<1>12. \A k \in Kinds : Unexcused(k, s)' => k \in index[s].keys
  <2> SUFFICES ASSUME NEW k \in Kinds, Unexcused(k, s)', k \notin index[s].keys
               PROVE  FALSE
    OBVIOUS
  <2>1. Awaits(k, s)
    BY <1>10 DEF Named
  <2>2. <<k, s>> \in excused'
    BY <1>5, <2>1
  <2> QED BY <2>2 DEF Unexcused
<1>13. ClearInv(c)'
  <2>1. clears'[c].covers <= ledger'[clears'[c].scope]
    BY <1>2, <1>6, <1>7, <1>8
  <2>2. \A k \in Kinds : Unexcused(k, clears[c].scope)' => clears'[c].phase = "delete" /\ k \in clears'[c].keys
    BY <1>7, <1>8, <1>12
  <2>3. ASSUME c \in CacheWorkers
        PROVE  /\ clears'[c].batch \subseteq DOMAIN invalidations'
               /\ clears'[c].row \in DOMAIN invalidations'
               /\ clears'[c].scope = invalidations'[clears'[c].row].scope
               /\ clears'[c].covers >= invalidations'[clears'[c].row].since
    <3>1. /\ clears[c].batch \subseteq DOMAIN invalidations /\ clears[c].row \in DOMAIN invalidations
          /\ clears[c].scope = invalidations[clears[c].row].scope
      BY <1>1, <1>3, <2>3, ClearFields DEF ClearInv
    <3>2. invalidations[clears[c].row].since <= ledger[s]
      BY <1>4, <3>1 DEF CacheInv, RowsCovered
    <3>3. invalidations[clears[c].row].since \in Nat
      <4>1. invalidations[clears[c].row] \in Invalidation
        BY <1>1, <3>1 DEF CacheTyped
      <4> QED BY <4>1 DEF Invalidation
    <3> QED BY <1>2, <1>4, <1>6, <1>7, <1>8, <2>3, <3>1, <3>2, <3>3
  <2>4. clears'[c].phase # "finish"
    BY <1>7, <1>8
  <2> QED BY <2>1, <2>2, <2>3, <2>4 DEF ClearInv
<1>14. ASSUME NEW k \in Kinds, NEW t \in Scopes, Unexcused(k, t)'
       PROVE  Minded(k, t) => Minded(k, t)'
  <2>1. Minds(c, k, t) => Minds(c, k, t)'
    <3>1. Minds(c, k, t) => t = s
      BY <1>4 DEF Minds
    <3>2. t = s => Minds(c, k, t)'
      BY <1>7, <1>8, <1>12, <1>14 DEF Minds
    <3> QED BY <3>1, <3>2
  <2>2. c \in CacheWorkers => Held(c) \subseteq Held(c)'
    BY <1>2, <1>7, <1>8 DEF Held, NoClear
  <2> QED BY <1>2, <1>8, <2>1, <2>2, MindedStays
<1>15. RowsCovered' /\ RowsKept /\ \A t \in Scopes : cleared'[t] >= cleared[t]
  <2>1. \A t \in Scopes : cleared[t] \in Nat
    BY <1>1 DEF StoreTyped
  <2> QED BY <1>2, <2>1 DEF CacheInv, RowsCovered, RowsKept
<1> QED BY <1>2, <1>8, <1>9, <1>11, <1>13, <1>14, <1>15, ClearsKeepInv

\* a clear goes on to its next phase
LEMMA PhaseSet ==
  ASSUME ClearsTyped, NEW c \in Clearers, clears[c].phase \in AtRow, NEW p \in AtRow, c \in CacheWriters => p # "finish",
         clears' = [clears EXCEPT ![c] = [clears[c] EXCEPT !.phase = p]]
  PROVE  /\ ClearsTyped' /\ \A d \in Clearers : d # c => clears'[d] = clears[d]
         /\ clears'[c].phase = p /\ clears'[c] # NoClear
         /\ clears'[c].scope = clears[c].scope /\ clears'[c].keys = clears[c].keys /\ clears'[c].covers = clears[c].covers
         /\ c \in CacheWorkers =>
              clears'[c].row = clears[c].row /\ clears'[c].batch = clears[c].batch /\ Held(c)' = Held(c)
<1> DEFINE y == [clears[c] EXCEPT !.phase = p]
<1>1. /\ y.phase = p /\ y.scope = clears[c].scope /\ y.keys = clears[c].keys /\ y.covers = clears[c].covers
      /\ c \in CacheWriters => y \in WriterClear
      /\ c \in CacheWorkers => y \in WorkerClear /\ y.row = clears[c].row /\ y.batch = clears[c].batch
  <2>1. CASE c \in CacheWriters
    <3>1. /\ clears[c] \in [phase : {"list", "delete", "drop", "failed"}, scope : Scopes, keys : SUBSET Kinds, covers : Nat]
          /\ c \notin CacheWorkers
      BY <2>1, ClearFields
    <3> QED BY <2>1, <3>1 DEF WriterClear, AtRow
  <2>2. CASE c \in CacheWorkers
    <3>1. /\ clears[c] \in [phase : AtRow, scope : Scopes, keys : SUBSET Kinds, covers : Nat, row : Nat, batch : SUBSET Nat]
          /\ c \notin CacheWriters
      BY <2>2, ClearFields
    <3> QED BY <3>1 DEF WorkerClear
  <2> QED BY <2>1, <2>2 DEF Clearers
<1> HIDE DEF y
<1>2. y # NoClear /\ p # "next"
  BY <1>1 DEF NoClear, AtRow
<1>3. clears' = [clears EXCEPT ![c] = y]
  BY DEF y
<1>4. /\ ClearsTyped' /\ clears'[c] = y
      /\ \A d \in Clearers : d # c => clears'[d] = clears[d]
  BY <1>1, <1>3, SetClear
<1>5. c \in CacheWorkers => Held(c)' = Held(c)
  <2>1. clears[c] # NoClear /\ clears[c].phase # "next"
    BY ClearFields DEF AtRow
  <2>2. c \in CacheWorkers => clears'[c].row = clears[c].row /\ clears'[c].batch = clears[c].batch
    BY <1>1, <1>4
  <2>3. clears'[c] # NoClear /\ clears'[c].phase # "next"
    BY <1>1, <1>2, <1>4
  <2> QED BY <2>1, <2>2, <2>3 DEF Held
<1> QED BY <1>1, <1>2, <1>4, <1>5

LEMMA EvictKeeps ==
  ASSUME CacheInv, NEW c \in Clearers, Evict(c)
  PROVE  CacheInv'
<1>1. CacheTyped /\ StoreTyped /\ ClearsTyped /\ \A d \in Clearers : ClearInv(d)
  BY ClearByClear DEF CacheInv, CacheTyped
<1>2. clears[c].phase = "delete" /\ UNCHANGED <<ledger, index, recalls, invalidations, cleared>>
  BY DEF Evict
<1>3. clears[c].phase \in AtRow
  BY <1>2 DEF AtRow
<1>4. PICK gone \in SUBSET Kinds, s \in Scopes : gone = clears[c].keys /\ s = clears[c].scope
  BY <1>1, <1>3, ClearFields
<1>5. /\ clears' = [clears EXCEPT ![c] = [clears[c] EXCEPT !.phase = "drop"]]
      /\ entries' = [k \in Kinds |-> IF k \in gone THEN NoEntry ELSE entries[k]]
      /\ excused' = excused \ (gone \X Scopes)
  BY <1>1, <1>4 DEF Evict, ClearsTyped
<1>6. /\ ClearsTyped' /\ \A d \in Clearers : d # c => clears'[d] = clears[d]
      /\ clears'[c].phase = "drop" /\ clears'[c].scope = s /\ clears'[c].covers = clears[c].covers
      /\ c \in CacheWorkers =>
           clears'[c].row = clears[c].row /\ clears'[c].batch = clears[c].batch /\ Held(c)' = Held(c)
  <2>1. "drop" \in AtRow
    BY DEF AtRow
  <2> QED BY <1>1, <1>3, <1>4, <1>5, <2>1, PhaseSet
<1>7. CacheTyped'
  <2>1. NoEntry \in [saw : [Scopes -> Nat], left : Nat]
    BY DEF NoEntry
  <2>2. entries' \in [Kinds -> [saw : [Scopes -> Nat], left : Nat]]
    BY <1>1, <1>5, <2>1 DEF StoreTyped
  <2> QED BY <1>1, <1>2, <1>6, <2>2 DEF CacheTyped, StoreTyped, RecallsTyped
<1>8. \A k \in Kinds, t \in Scopes : Unexcused(k, t)' => k \notin gone /\ Unexcused(k, t) /\ entries'[k] = entries[k]
  <2> SUFFICES ASSUME NEW k \in Kinds, NEW t \in Scopes, Unexcused(k, t)'
               PROVE  k \notin gone /\ Unexcused(k, t) /\ entries'[k] = entries[k]
    OBVIOUS
  <2>1. k \notin gone
    BY <1>5 DEF Unexcused, Live, NoEntry
  <2>2. entries'[k] = entries[k] /\ <<k, t>> \notin excused
    BY <1>5, <2>1 DEF Unexcused
  <2> QED BY <2>1, <2>2 DEF Unexcused, Live
<1>9. \A k \in Kinds, t \in Scopes : Named(k, t) <=> Named(k, t)'
  BY <1>2 DEF Named, Awaits, Todo, Idle
<1>10. Wanes
  BY <1>8, <1>9 DEF Wanes, CacheInv, UnexcusedNamed
<1>11. ClearInv(c)'
  <2>1. clears'[c].covers <= ledger'[clears'[c].scope]
    BY <1>1, <1>2, <1>4, <1>6 DEF ClearInv, Past
  <2>2. ASSUME NEW k \in Kinds, Unexcused(k, s)'
        PROVE  entries'[k].saw[s] >= clears'[c].covers
    BY <1>1, <1>2, <1>4, <1>6, <1>8, <2>2 DEF ClearInv, Past
  <2>3. \A k \in Kinds : Unexcused(k, clears[c].scope)' => entries'[k].saw[clears'[c].scope] >= clears'[c].covers
    BY <1>6, <2>2
  <2>4. ASSUME c \in CacheWorkers
        PROVE  /\ clears'[c].batch \subseteq DOMAIN invalidations'
               /\ clears'[c].row \in DOMAIN invalidations'
               /\ clears'[c].scope = invalidations'[clears'[c].row].scope
               /\ clears'[c].covers >= invalidations'[clears'[c].row].since
    <3>1. /\ clears[c].batch \subseteq DOMAIN invalidations /\ clears[c].row \in DOMAIN invalidations
          /\ clears[c].scope = invalidations[clears[c].row].scope
          /\ clears[c].covers >= invalidations[clears[c].row].since
      BY <1>1, <1>2, <1>3, <2>4, ClearFields DEF ClearInv, Past
    <3> QED BY <1>2, <1>4, <1>6, <2>4, <3>1
  <2>5. clears'[c].phase # "finish"
    BY <1>6
  <2> QED BY <2>1, <2>3, <2>4, <2>5 DEF ClearInv
<1>12. ASSUME NEW k \in Kinds, NEW t \in Scopes, Unexcused(k, t)'
       PROVE  Minded(k, t) => Minded(k, t)'
  <2>1. ~Minds(c, k, t)
    BY <1>2, <1>4, <1>8, <1>12 DEF Minds
  <2>2. c \in CacheWorkers => Held(c) \subseteq Held(c)'
    BY <1>6
  <2> QED BY <1>2, <1>6, <2>1, <2>2, MindedStays
<1>13. RowsCovered' /\ RowsKept /\ \A t \in Scopes : cleared'[t] >= cleared[t]
  <2>1. \A t \in Scopes : cleared[t] \in Nat
    BY <1>1 DEF StoreTyped
  <2> QED BY <1>2, <2>1 DEF CacheInv, RowsCovered, RowsKept
<1> QED BY <1>2, <1>6, <1>7, <1>10, <1>11, <1>12, <1>13, ClearsKeepInv

\* a clear is over, or has not begun
LEMMA ClearSetIdle ==
  ASSUME ClearsTyped, NEW c \in Clearers, clears' = [clears EXCEPT ![c] = NoClear]
  PROVE  /\ ClearsTyped' /\ clears'[c] = NoClear /\ ClearInv(c)'
         /\ \A d \in Clearers : d # c => clears'[d] = clears[d]
<1>1. NoClear \in WriterClear /\ NoClear \in WorkerClear
  BY DEF WriterClear, WorkerClear
<1>2. /\ ClearsTyped' /\ clears'[c] = NoClear
      /\ \A d \in Clearers : d # c => clears'[d] = clears[d]
  BY <1>1, SetClear
<1>3. clears'[c].phase = "idle"
  BY <1>2 DEF NoClear
<1>4. ClearInv(c)'
  BY <1>2, <1>3 DEF ClearInv, Past, AtRow
<1> QED BY <1>2, <1>4

LEMMA DropKeeps ==
  ASSUME CacheInv, NEW c \in Clearers, Drop(c)
  PROVE  CacheInv'
<1>1. CacheTyped /\ StoreTyped /\ ClearsTyped /\ \A d \in Clearers : ClearInv(d)
  BY ClearByClear DEF CacheInv, CacheTyped
<1>2. clears[c].phase = "drop" /\ UNCHANGED <<ledger, entries, recalls, invalidations>>
  BY DEF Drop
<1>3. clears[c].phase \in AtRow
  BY <1>2 DEF AtRow
<1>4. PICK s \in Scopes, n \in Nat : s = clears[c].scope /\ n = clears[c].covers
  BY <1>1, <1>3, ClearFields
<1>5. /\ index' = [index EXCEPT ![s] = NoIndex]
      /\ excused' = excused \cup ({k \in index[s].keys : Live(k)} \X {s})
      /\ cleared' = [cleared EXCEPT ![s] = IF cleared[s] < n THEN n ELSE cleared[s]]
  BY <1>4 DEF Drop
<1>6. /\ ClearsTyped' /\ \A d \in Clearers : d # c => clears'[d] = clears[d]
      /\ c \in CacheWriters => clears'[c] = NoClear /\ ClearInv(c)'
      /\ c \in CacheWorkers =>
           /\ clears'[c].phase = "finish" /\ clears'[c].scope = s /\ clears'[c].covers = n
           /\ clears'[c].row = clears[c].row /\ clears'[c].batch = clears[c].batch /\ Held(c)' = Held(c)
  <2>1. CASE c \in CacheWriters
    <3>1. clears' = [clears EXCEPT ![c] = NoClear] /\ c \notin CacheWorkers
      BY <2>1, CacheAssumption DEF Drop
    <3> QED BY <1>1, <3>1, ClearSetIdle
  <2>2. CASE c \in CacheWorkers
    <3>1. clears' = [clears EXCEPT ![c] = [clears[c] EXCEPT !.phase = "finish"]] /\ c \notin CacheWriters
      BY <1>1, <2>2, CacheAssumption DEF Drop, ClearsTyped
    <3>2. "finish" \in AtRow
      BY DEF AtRow
    <3> QED BY <1>1, <1>3, <1>4, <3>1, <3>2, PhaseSet
  <2> QED BY <2>1, <2>2 DEF Clearers
<1>7. cleared' \in [Scopes -> Nat] /\ cleared'[s] >= n /\ \A t \in Scopes : cleared'[t] >= cleared[t]
  BY <1>1, <1>5 DEF StoreTyped
<1>8. CacheTyped'
  <2>1. NoIndex \in [keys : SUBSET Kinds, left : Nat]
    BY DEF NoIndex
  <2>2. index' \in [Scopes -> [keys : SUBSET Kinds, left : Nat]]
    BY <1>1, <1>5, <2>1 DEF StoreTyped
  <2> QED BY <1>1, <1>2, <1>6, <1>7, <2>2 DEF CacheTyped, StoreTyped, RecallsTyped
<1>9. Wanes
  <2> SUFFICES ASSUME NEW k \in Kinds, NEW t \in Scopes, Unexcused(k, t)'
               PROVE  Unexcused(k, t) /\ Named(k, t)'
    BY <1>2 DEF Wanes
  <2>1. Unexcused(k, t)
    BY <1>2, <1>5 DEF Unexcused, Live
  <2>2. Named(k, t) /\ (Awaits(k, t) <=> Awaits(k, t)')
    BY <1>2, <2>1 DEF CacheInv, UnexcusedNamed, Awaits, Todo, Idle
  <2>3. CASE t # s
    <3>1. index'[t] = index[t]
      BY <1>1, <1>5, <2>3 DEF StoreTyped
    <3> QED BY <2>1, <2>2, <3>1 DEF Named
  <2>4. CASE t = s
    <3>1. <<k, s>> \notin excused' /\ Live(k)
      BY <2>1, <2>4 DEF Unexcused
    <3>2. k \notin index[s].keys
      BY <1>5, <3>1
    <3> QED BY <2>1, <2>2, <2>4, <3>2 DEF Named
  <2> QED BY <2>3, <2>4
<1>10. ClearInv(c)'
  <2>1. CASE c \in CacheWriters
    BY <1>6, <2>1
  <2>2. CASE c \in CacheWorkers
    <3>1. /\ clears'[c].phase = "finish" /\ clears'[c].scope = s /\ clears'[c].covers = n
          /\ clears'[c].row = clears[c].row /\ clears'[c].batch = clears[c].batch
      BY <1>6, <2>2
    <3>2. n <= ledger'[s]
      BY <1>1, <1>2, <1>4 DEF ClearInv, Past
    <3>3. ASSUME NEW k \in Kinds, Unexcused(k, s)'
          PROVE  entries'[k].saw[s] >= n
      <4>1. Unexcused(k, s)
        BY <1>9, <3>3 DEF Wanes
      <4> QED BY <1>1, <1>2, <1>4, <4>1 DEF ClearInv, Past
    <3>4. \A k \in Kinds : Unexcused(k, clears[c].scope)' => entries'[k].saw[clears'[c].scope] >= clears'[c].covers
      BY <3>1, <3>3
    <3>5. /\ clears[c].batch \subseteq DOMAIN invalidations /\ clears[c].row \in DOMAIN invalidations
          /\ clears[c].scope = invalidations[clears[c].row].scope
          /\ clears[c].covers >= invalidations[clears[c].row].since
      BY <1>1, <1>2, <1>3, <2>2, ClearFields DEF ClearInv, Past
    <3>6. /\ clears'[c].batch \subseteq DOMAIN invalidations' /\ clears'[c].row \in DOMAIN invalidations'
          /\ clears'[c].scope = invalidations'[clears'[c].row].scope
          /\ clears'[c].covers >= invalidations'[clears'[c].row].since
      BY <1>2, <1>4, <3>1, <3>5
    <3>7. clears'[c].covers <= ledger'[clears'[c].scope] /\ cleared'[clears'[c].scope] >= clears'[c].covers
      BY <1>7, <3>1, <3>2
    <3> QED BY <3>4, <3>6, <3>7 DEF ClearInv
  <2> QED BY <2>1, <2>2 DEF Clearers
<1>11. ASSUME NEW k \in Kinds, NEW t \in Scopes, Unexcused(k, t)'
       PROVE  Minded(k, t) => Minded(k, t)'
  <2>1. ~Minds(c, k, t)
    BY <1>2 DEF Minds
  <2>2. c \in CacheWorkers => Held(c) \subseteq Held(c)'
    BY <1>6
  <2> QED BY <1>2, <1>6, <2>1, <2>2, MindedStays
<1>12. RowsCovered' /\ RowsKept
  <2>1. \A i \in DOMAIN invalidations : invalidations[i] \in Invalidation
    BY <1>1 DEF CacheTyped
  <2>2. \A i \in DOMAIN invalidations : invalidations[i].scope \in Scopes /\ invalidations[i].since \in Nat
    BY <2>1 DEF Invalidation
  <2>3. \A t \in Scopes : cleared[t] \in Nat /\ cleared'[t] \in Nat
    BY <1>1, <1>7 DEF StoreTyped
  <2> QED BY <1>2, <1>7, <2>2, <2>3 DEF CacheInv, RowsCovered, RowsKept
<1> QED BY <1>2, <1>6, <1>7, <1>8, <1>9, <1>10, <1>11, <1>12, ClearsKeepInv

\* a step that changes neither the store nor the recalls
LEMMA RowsAndClears ==
  ASSUME CacheInv, NEW c \in Clearers, UNCHANGED <<ledger, entries, index, recalls, cleared>>,
         ClearsTyped', \A d \in Clearers : d # c => clears'[d] = clears[d],
         invalidations' \in Seq(Invalidation), RowsCovered', RowsKept,
         excused \subseteq excused', ClearInv(c)',
         \A k \in Kinds, s \in Scopes : c \in CacheWriters /\ Unexcused(k, s)' /\ Minds(c, k, s) => Minded(k, s)',
         \A k \in Kinds, s \in Scopes, i \in DOMAIN invalidations :
           Unexcused(k, s)' /\ Stale(k, s)' /\ RowMinds(i, s) => RowMinds(i, s)'
  PROVE  CacheInv'
<1>1. CacheTyped
  BY DEF CacheInv
<1>2. CacheTyped'
  BY <1>1 DEF CacheTyped, StoreTyped, RecallsTyped
<1>3. Wanes
  <2>1. \A k \in Kinds, s \in Scopes : Unexcused(k, s)' => Unexcused(k, s)
    BY DEF Unexcused, Live
  <2>2. \A k \in Kinds, s \in Scopes : Named(k, s) <=> Named(k, s)'
    BY DEF Named, Awaits, Todo, Idle
  <2> QED BY <2>1, <2>2 DEF CacheInv, UnexcusedNamed, Wanes
<1>4. \A s \in Scopes : cleared'[s] >= cleared[s]
  BY <1>1 DEF CacheTyped, StoreTyped
<1>5. ASSUME NEW k \in Kinds, NEW s \in Scopes, Unexcused(k, s)', Stale(k, s)', Minded(k, s)
      PROVE  Minded(k, s)'
  <2>1. ASSUME NEW d \in CacheWriters, Minds(d, k, s)
        PROVE  Minded(k, s)'
    <3>1. CASE d = c
      BY <1>5, <2>1, <3>1
    <3>2. CASE d # c
      <4>1. Minds(d, k, s)'
        BY <2>1, <3>2 DEF Minds, Clearers
      <4> QED BY <4>1 DEF Minded, WriterMinds, Minds
    <3> QED BY <3>1, <3>2
  <2>2. ASSUME NEW i \in DOMAIN invalidations, RowMinds(i, s)
        PROVE  Minded(k, s)'
    BY <1>5, <2>2 DEF Minded, RowsKept
  <2>3. (\E d \in CacheWriters : Minds(d, k, s)) \/ \E i \in DOMAIN invalidations : RowMinds(i, s)
    BY <1>5 DEF Minded, WriterMinds, Minds
  <2> QED BY <2>1, <2>2, <2>3
<1> QED BY <1>2, <1>3, <1>4, <1>5, ClearsKeepInv

\* ... nor the rows
LEMMA OnlyClears ==
  ASSUME CacheInv, NEW c \in Clearers, UNCHANGED <<ledger, entries, index, recalls, invalidations, cleared>>,
         ClearsTyped', \A d \in Clearers : d # c => clears'[d] = clears[d],
         excused \subseteq excused', ClearInv(c)',
         \A k \in Kinds, s \in Scopes : c \in CacheWriters /\ Unexcused(k, s)' /\ Minds(c, k, s) => Minds(c, k, s)',
         \A k \in Kinds, s \in Scopes, i \in DOMAIN invalidations :
           Unexcused(k, s)' /\ RowMinds(i, s) => RowMinds(i, s)'
  PROVE  CacheInv'
<1>1. invalidations' \in Seq(Invalidation) /\ RowsCovered' /\ RowsKept
  BY DEF CacheInv, CacheTyped, RowsCovered, RowsKept
<1>2. \A k \in Kinds, s \in Scopes : c \in CacheWriters /\ Unexcused(k, s)' /\ Minds(c, k, s) => Minded(k, s)'
  BY DEF Minded, WriterMinds, Minds
<1> QED BY <1>1, <1>2, RowsAndClears

LEMMA FailKeeps ==
  ASSUME CacheInv, NEW c \in Clearers, Fail(c)
  PROVE  CacheInv'
<1>1. CacheTyped /\ ClearsTyped /\ \A d \in Clearers : ClearInv(d)
  BY ClearByClear DEF CacheInv, CacheTyped
<1>2. /\ clears[c].phase \in {"list", "delete", "drop"}
      /\ UNCHANGED <<ledger, entries, index, recalls, invalidations, cleared, excused>>
  BY DEF Fail
<1>3. clears[c].phase \in AtRow /\ "failed" \in AtRow
  BY <1>2 DEF AtRow
<1>4. clears' = [clears EXCEPT ![c] = [clears[c] EXCEPT !.phase = "failed"]]
  BY <1>1 DEF Fail, ClearsTyped
<1>5. /\ ClearsTyped' /\ \A d \in Clearers : d # c => clears'[d] = clears[d]
      /\ clears'[c].phase = "failed" /\ clears'[c].scope = clears[c].scope
      /\ c \in CacheWorkers =>
           clears'[c].row = clears[c].row /\ clears'[c].batch = clears[c].batch /\ Held(c)' = Held(c)
  BY <1>1, <1>3, <1>4, PhaseSet
<1>6. ClearInv(c)'
  <2>1. c \in CacheWorkers =>
          /\ clears[c].batch \subseteq DOMAIN invalidations /\ clears[c].row \in DOMAIN invalidations
          /\ clears[c].scope = invalidations[clears[c].row].scope
    BY <1>1, <1>3, ClearFields DEF ClearInv
  <2>2. c \in CacheWorkers =>
          /\ clears'[c].batch \subseteq DOMAIN invalidations' /\ clears'[c].row \in DOMAIN invalidations'
          /\ clears'[c].scope = invalidations'[clears'[c].row].scope
    BY <1>2, <1>5, <2>1
  <2> QED BY <1>5, <2>2 DEF ClearInv, Past
<1>7. \A k \in Kinds, s \in Scopes : Minds(c, k, s) => Minds(c, k, s)'
  BY <1>5 DEF Minds
<1>8. \A s \in Scopes, i \in DOMAIN invalidations : RowMinds(i, s) => RowMinds(i, s)'
  <2>1. \A d \in CacheWorkers : Held(d) = Held(d)'
    BY <1>5 DEF Held, Clearers
  <2> QED BY <1>2, <2>1 DEF RowMinds
<1> QED BY <1>2, <1>5, <1>6, <1>7, <1>8, OnlyClears

LEMMA LoseInvalidationKeeps ==
  ASSUME CacheInv, NEW c \in Clearers, LoseInvalidation(c)
  PROVE  CacheInv'
<1>1. CacheTyped /\ ClearsTyped
  BY DEF CacheInv, CacheTyped
<1>2. /\ c \in CacheWriters /\ c \notin CacheWorkers /\ clears' = [clears EXCEPT ![c] = NoClear]
      /\ excused' = excused \cup (Kinds \X {clears[c].scope})
      /\ UNCHANGED <<ledger, entries, index, recalls, invalidations, cleared>>
  BY CacheAssumption DEF LoseInvalidation
<1>3. /\ ClearsTyped' /\ ClearInv(c)'
      /\ \A d \in Clearers : d # c => clears'[d] = clears[d]
  BY <1>1, <1>2, ClearSetIdle
<1>4. \A k \in Kinds, s \in Scopes : Unexcused(k, s)' => ~Minds(c, k, s)
  BY <1>2 DEF Minds, Unexcused
<1>5. \A s \in Scopes, i \in DOMAIN invalidations : RowMinds(i, s) => RowMinds(i, s)'
  <2>1. \A d \in CacheWorkers : Held(d) = Held(d)'
    BY <1>2, <1>3 DEF Held, Clearers
  <2> QED BY <1>2, <2>1 DEF RowMinds
<1> QED BY <1>2, <1>3, <1>4, <1>5, OnlyClears

-----------------------------------------------------------------------------
(* The recall cache: invalidations that failed                             *)

LEMMA EnqueueInvalidationKeeps ==
  ASSUME CacheInv, NEW c \in Clearers, EnqueueInvalidation(c)
  PROVE  CacheInv'
<1>1. CacheTyped /\ StoreTyped /\ ClearsTyped /\ invalidations \in Seq(Invalidation)
  BY DEF CacheInv, CacheTyped
<1>2. /\ c \in CacheWriters /\ c \notin CacheWorkers /\ clears[c].phase = "failed"
      /\ UNCHANGED <<ledger, entries, index, recalls, cleared, excused>>
  BY CacheAssumption DEF EnqueueInvalidation
<1>3. clears[c].phase \in AtRow
  BY <1>2 DEF AtRow
<1>4. PICK s \in Scopes, n \in Nat : s = clears[c].scope /\ n = ledger[s]
  BY <1>1, <1>3, ClearFields DEF StoreTyped
<1>5. PICK x \in Invalidation :
        x = Request(s, n) /\ x.scope = s /\ x.since = n /\ x.attempts = 0 /\ x.done = FALSE
  BY RequestTyped
<1>6. PICK j \in Nat : j = Len(invalidations) + 1
  BY <1>1
<1>7. /\ clears' = [clears EXCEPT ![c] = NoClear]
      /\ invalidations' = Append(invalidations, x)
  BY <1>4, <1>5 DEF EnqueueInvalidation
<1>8. /\ invalidations' \in Seq(Invalidation)
      /\ DOMAIN invalidations' = DOMAIN invalidations \cup {j}
      /\ \A i \in DOMAIN invalidations : invalidations'[i] = invalidations[i]
      /\ invalidations'[j] = x
  BY <1>1, <1>6, <1>7, RowAdded
<1>9. /\ ClearsTyped' /\ ClearInv(c)'
      /\ \A d \in Clearers : d # c => clears'[d] = clears[d]
  BY <1>1, <1>7, ClearSetIdle
<1>10. RowsCovered' /\ RowsKept
  <2>1. invalidations'[j].scope = s /\ invalidations'[j].since <= ledger'[s] /\ ~invalidations'[j].done
    BY <1>2, <1>4, <1>5, <1>8
  <2>2. \A i \in DOMAIN invalidations :
          LET t == invalidations'[i].scope
          IN invalidations'[i].since <= ledger'[t] /\ (invalidations'[i].done => cleared'[t] >= invalidations'[i].since)
    BY <1>2, <1>8 DEF CacheInv, RowsCovered
  <2>3. RowsCovered'
    BY <1>8, <2>1, <2>2 DEF RowsCovered
  <2> QED BY <1>8, <2>3 DEF RowsKept
<1>11. RowMinds(j, s)'
  <2>1. n >= ledger'[s]
    BY <1>2, <1>4
  <2> QED BY <1>5, <1>8, <2>1, CacheAssumption DEF RowMinds
<1>12. ASSUME NEW k \in Kinds, NEW t \in Scopes, Minds(c, k, t)
       PROVE  Minded(k, t)'
  <2>1. t = s
    BY <1>4, <1>12 DEF Minds
  <2> QED BY <1>8, <1>11, <2>1 DEF Minded
<1>13. ASSUME NEW t \in Scopes, NEW i \in DOMAIN invalidations, RowMinds(i, t)
       PROVE  RowMinds(i, t)'
  <2>1. \A d \in CacheWorkers : Held(d) = Held(d)'
    BY <1>2, <1>9 DEF Held, Clearers
  <2> QED BY <1>2, <1>8, <1>13, <2>1 DEF RowMinds
<1> QED BY <1>2, <1>8, <1>9, <1>10, <1>12, <1>13, RowsAndClears

LEMMA ClaimInvalidationsKeeps ==
  ASSUME CacheInv, NEW c \in Clearers, ClaimInvalidations(c)
  PROVE  CacheInv'
<1>1. CacheTyped /\ ClearsTyped /\ invalidations \in Seq(Invalidation)
  BY DEF CacheInv, CacheTyped
<1>2. /\ c \in CacheWorkers /\ c \notin CacheWriters /\ clears[c] = NoClear
      /\ UNCHANGED <<ledger, entries, index, recalls, cleared, excused>>
  BY CacheAssumption DEF ClaimInvalidations
<1>3. PICK due \in SUBSET (DOMAIN invalidations) :
        /\ due = {i \in DOMAIN invalidations : Due(i)}
        /\ invalidations' = [i \in DOMAIN invalidations |->
             IF i \in due THEN [invalidations[i] EXCEPT !.status = "processing", !.attempts = @ + 1, !.wait = CacheLease]
                          ELSE invalidations[i]]
        /\ clears' = [clears EXCEPT ![c] = [phase |-> "next", batch |-> due]]
  BY DEF ClaimInvalidations
<1>4. \A i \in due : invalidations[i].attempts < MaxInvalidations
  BY <1>3 DEF Due
<1>5. \A i \in DOMAIN invalidations : invalidations[i] \in Invalidation
  BY <1>1
<1>6. /\ DOMAIN invalidations' = DOMAIN invalidations
      /\ \A i \in DOMAIN invalidations :
           /\ invalidations'[i] \in Invalidation
           /\ invalidations'[i].scope = invalidations[i].scope /\ invalidations'[i].since = invalidations[i].since
           /\ invalidations'[i].done = invalidations[i].done
           /\ i \notin due => invalidations'[i].attempts = invalidations[i].attempts
  <2>1. DOMAIN invalidations' = DOMAIN invalidations
    BY <1>3
  <2>2. ASSUME NEW i \in DOMAIN invalidations, i \in due
        PROVE  /\ invalidations'[i] \in Invalidation
               /\ invalidations'[i].scope = invalidations[i].scope /\ invalidations'[i].since = invalidations[i].since
               /\ invalidations'[i].done = invalidations[i].done
    <3>1. invalidations'[i] = [invalidations[i] EXCEPT !.status = "processing", !.attempts = invalidations[i].attempts + 1,
                                                       !.wait = CacheLease]
      BY <1>3, <2>2
    <3>2. invalidations[i].attempts + 1 \in 0..MaxInvalidations
      BY <1>4, <1>5, <2>2, CacheAssumption DEF Invalidation
    <3> QED BY <1>5, <3>1, <3>2, CacheAssumption DEF Invalidation
  <2>3. ASSUME NEW i \in DOMAIN invalidations, i \notin due
        PROVE  invalidations'[i] = invalidations[i]
    BY <1>3, <2>3
  <2> QED BY <1>5, <2>1, <2>2, <2>3
<1>7. invalidations' \in Seq(Invalidation)
  <2>1. DOMAIN invalidations' = 1..Len(invalidations) /\ Len(invalidations) \in Nat
    BY <1>1, <1>6
  <2>2. invalidations' = [i \in 1..Len(invalidations) |-> invalidations'[i]]
    BY <1>3, <2>1
  <2>3. \A i \in 1..Len(invalidations) : invalidations'[i] \in Invalidation
    BY <1>1, <1>6
  <2> QED BY <2>1, <2>2, <2>3
<1> DEFINE y == [phase |-> "next", batch |-> due]
<1>8. y \in WorkerClear /\ y.phase = "next" /\ y.batch = due /\ y # NoClear
  <2>1. due \in SUBSET Nat
    BY <1>1
  <2> QED BY <2>1 DEF WorkerClear, NoClear
<1> HIDE DEF y
<1>9. /\ ClearsTyped' /\ clears'[c] = y
      /\ \A d \in Clearers : d # c => clears'[d] = clears[d]
  <2>1. clears' = [clears EXCEPT ![c] = y]
    BY <1>3 DEF y
  <2> QED BY <1>1, <1>2, <1>8, <2>1, SetClear
<1>10. ClearInv(c)'
  BY <1>6, <1>8, <1>9 DEF ClearInv, Past, AtRow
<1>11. RowsCovered' /\ RowsKept
  <2>1. RowsKept
    BY <1>6 DEF RowsKept
  <2>2. RowsCovered'
    BY <1>2, <1>6 DEF CacheInv, RowsCovered
  <2> QED BY <2>1, <2>2
<1>12. ASSUME NEW t \in Scopes, NEW i \in DOMAIN invalidations, RowMinds(i, t)
       PROVE  RowMinds(i, t)'
  <2>1. Held(c) = {} /\ Held(c)' = due
    BY <1>2, <1>8, <1>9 DEF Held
  <2>2. \A d \in CacheWorkers : Held(d) \subseteq Held(d)'
    BY <1>9, <2>1 DEF Held, Clearers
  <2>3. invalidations'[i].attempts < MaxInvalidations \/ \E d \in CacheWorkers : i \in Held(d)'
    <3>1. CASE i \in due
      BY <1>2, <2>1, <3>1
    <3>2. CASE i \notin due
      BY <1>6, <1>12, <2>2, <3>2 DEF RowMinds
    <3> QED BY <3>1, <3>2
  <2> QED BY <1>2, <1>6, <1>12, <2>3 DEF RowMinds
<1> QED BY <1>2, <1>7, <1>9, <1>10, <1>11, <1>12, RowsAndClears

LEMMA TakeInvalidationKeeps ==
  ASSUME CacheInv, NEW c \in Clearers, TakeInvalidation(c)
  PROVE  CacheInv'
<1>1. CacheTyped /\ ClearsTyped /\ invalidations \in Seq(Invalidation) /\ \A d \in Clearers : ClearInv(d)
  BY ClearByClear DEF CacheInv, CacheTyped
<1>2. clears[c].phase = "next" /\ UNCHANGED <<ledger, entries, index, recalls, invalidations, cleared, excused>>
  BY DEF TakeInvalidation
<1>3. c \in CacheWorkers /\ c \notin CacheWriters /\ clears[c] # NoClear
      /\ clears[c].batch \in SUBSET Nat /\ clears[c].batch \subseteq DOMAIN invalidations
  <2>1. clears[c] # NoClear
    BY <1>2 DEF NoClear
  <2>2. c \in CacheWorkers /\ c \notin CacheWriters
    BY <1>1, <1>2, <2>1 DEF ClearsTyped, WriterClear, Clearers
  <2>3. clears[c] \in [phase : {"next"}, batch : SUBSET Nat]
    BY <1>1, <1>2, <2>1, <2>2 DEF ClearsTyped, WorkerClear, AtRow
  <2> QED BY <1>1, <2>1, <2>2, <2>3 DEF ClearInv
<1>4. /\ ClearsTyped' /\ ClearInv(c)' /\ Held(c)' = Held(c)
      /\ \A d \in Clearers : d # c => clears'[d] = clears[d]
  <2>1. CASE clears[c].batch = {}
    <3>1. clears' = [clears EXCEPT ![c] = NoClear]
      BY <2>1 DEF TakeInvalidation
    <3>2. /\ ClearsTyped' /\ clears'[c] = NoClear /\ ClearInv(c)'
          /\ \A d \in Clearers : d # c => clears'[d] = clears[d]
      BY <1>1, <3>1, ClearSetIdle
    <3> QED BY <1>2, <2>1, <3>2 DEF Held
  <2>2. CASE clears[c].batch # {}
    <3>1. PICK i \in clears[c].batch :
            clears' = [clears EXCEPT ![c] = [phase |-> "list", scope |-> invalidations[i].scope, keys |-> {}, covers |-> 0,
                                             row |-> i, batch |-> clears[c].batch \ {i}]]
      BY <2>2 DEF TakeInvalidation
    <3>2. invalidations[i] \in Invalidation /\ i \in DOMAIN invalidations /\ i \in Nat
      BY <1>1, <1>3
    <3> DEFINE y == [phase |-> "list", scope |-> invalidations[i].scope, keys |-> {}, covers |-> 0,
                     row |-> i, batch |-> clears[c].batch \ {i}]
    <3>3. /\ y.phase = "list" /\ y.scope = invalidations[i].scope /\ y.row = i /\ y.batch = clears[c].batch \ {i}
          /\ y # NoClear /\ y \in WorkerClear
      <4>1. invalidations[i].scope \in Scopes
        BY <3>2 DEF Invalidation
      <4>2. "list" \in AtRow
        BY DEF AtRow
      <4> QED BY <1>3, <3>2, <4>1, <4>2 DEF WorkerClear, NoClear
    <3> HIDE DEF y
    <3>4. clears' = [clears EXCEPT ![c] = y]
      BY <3>1 DEF y
    <3>5. /\ ClearsTyped' /\ clears'[c] = y
          /\ \A d \in Clearers : d # c => clears'[d] = clears[d]
      BY <1>1, <1>3, <3>3, <3>4, SetClear
    <3>6. Held(c)' = Held(c)
      <4>1. Held(c) = clears[c].batch
        BY <1>2, <1>3 DEF Held
      <4>2. Held(c)' = (clears[c].batch \ {i}) \cup {i}
        BY <3>3, <3>5 DEF Held
      <4> QED BY <4>1, <4>2
    <3>7. ClearInv(c)'
      <4>1. ~Past(c)' /\ clears'[c].phase # "finish"
        BY <3>3, <3>5 DEF Past
      <4>2. /\ clears'[c].batch \subseteq DOMAIN invalidations' /\ clears'[c].row \in DOMAIN invalidations'
            /\ clears'[c].scope = invalidations'[clears'[c].row].scope
        BY <1>2, <1>3, <3>2, <3>3, <3>5
      <4> QED BY <4>1, <4>2 DEF ClearInv
    <3> QED BY <3>5, <3>6, <3>7
  <2> QED BY <2>1, <2>2
<1>5. ASSUME NEW t \in Scopes, NEW i \in DOMAIN invalidations, RowMinds(i, t)
      PROVE  RowMinds(i, t)'
  <2>1. \A d \in CacheWorkers : Held(d) = Held(d)'
    BY <1>4 DEF Held, Clearers
  <2> QED BY <1>2, <1>5, <2>1 DEF RowMinds
<1> QED BY <1>2, <1>3, <1>4, <1>5, OnlyClears

\* a worker leaves its row for the next one of its batch
LEMMA NextRow ==
  ASSUME CacheInv, NEW c \in CacheWorkers, clears[c].phase \in AtRow, Next1(c),
         DOMAIN invalidations' = DOMAIN invalidations
  PROVE  /\ ClearsTyped' /\ ClearInv(c)' /\ Held(c) = Held(c)' \cup {clears[c].row}
         /\ \A d \in Clearers : d # c => clears'[d] = clears[d]
<1>1. ClearsTyped /\ c \in Clearers /\ \A d \in Clearers : ClearInv(d)
  BY ClearByClear DEF CacheInv, CacheTyped, Clearers
<1>2. /\ clears[c] \in [phase : AtRow, scope : Scopes, keys : SUBSET Kinds, covers : Nat, row : Nat, batch : SUBSET Nat]
      /\ clears[c] # NoClear /\ c \notin CacheWriters
  BY <1>1, ClearFields
<1> DEFINE y == [phase |-> "next", batch |-> clears[c].batch]
<1>3. y \in WorkerClear /\ y.phase = "next" /\ y.batch = clears[c].batch /\ y # NoClear
  BY <1>2 DEF WorkerClear, NoClear
<1>4. clears' = [clears EXCEPT ![c] = y]
  BY <1>1 DEF Next1, ClearsTyped
<1> HIDE DEF y
<1>5. /\ ClearsTyped' /\ clears'[c] = y
      /\ \A d \in Clearers : d # c => clears'[d] = clears[d]
  BY <1>1, <1>2, <1>3, <1>4, SetClear
<1>6. ClearInv(c)'
  <2>1. clears[c].batch \subseteq DOMAIN invalidations
    BY <1>1, <1>2 DEF ClearInv
  <2> QED BY <1>3, <1>5, <2>1 DEF ClearInv, Past, AtRow
<1>7. Held(c) = Held(c)' \cup {clears[c].row}
  <2>1. Held(c) = clears[c].batch \cup {clears[c].row}
    BY <1>2 DEF Held, AtRow
  <2>2. Held(c)' = clears[c].batch
    BY <1>3, <1>5 DEF Held
  <2> QED BY <2>1, <2>2
<1> QED BY <1>5, <1>6, <1>7

\* one row changed, its scope and time not
LEMMA RowSet ==
  ASSUME invalidations \in Seq(Invalidation), NEW i \in DOMAIN invalidations, NEW x \in Invalidation,
         x.scope = invalidations[i].scope, x.since = invalidations[i].since,
         invalidations' = [invalidations EXCEPT ![i] = x]
  PROVE  /\ invalidations' \in Seq(Invalidation) /\ DOMAIN invalidations' = DOMAIN invalidations /\ RowsKept
         /\ invalidations'[i] = x
         /\ \A j \in DOMAIN invalidations : j # i => invalidations'[j] = invalidations[j]
BY DEF RowsKept

LEMMA CompleteInvalidationKeeps ==
  ASSUME CacheInv, NEW c \in Clearers, CompleteInvalidation(c)
  PROVE  CacheInv'
<1>1. CacheTyped /\ StoreTyped /\ ClearsTyped /\ invalidations \in Seq(Invalidation) /\ \A d \in Clearers : ClearInv(d)
  BY ClearByClear DEF CacheInv, CacheTyped
<1>2. /\ c \in CacheWorkers /\ c \notin CacheWriters /\ clears[c].phase = "finish" /\ Next1(c)
      /\ UNCHANGED <<ledger, entries, index, recalls, cleared, excused>>
  BY CacheAssumption DEF CompleteInvalidation, Carried
<1>3. clears[c].phase \in AtRow
  BY <1>2 DEF AtRow
<1>4. PICK i \in DOMAIN invalidations, s \in Scopes, n \in Nat :
        i = clears[c].row /\ s = clears[c].scope /\ n = clears[c].covers
  BY <1>1, <1>2, <1>3, ClearFields DEF ClearInv
<1>5. /\ invalidations[i].scope = s /\ n >= invalidations[i].since /\ n <= ledger[s] /\ cleared[s] >= n
      /\ \A k \in Kinds : Unexcused(k, s) => entries[k].saw[s] >= n
  BY <1>1, <1>2, <1>3, <1>4 DEF ClearInv, Past
<1>6. invalidations[i] \in Invalidation
  BY <1>1
<1> DEFINE x == [invalidations[i] EXCEPT !.status = "completed", !.done = TRUE, !.wait = 0]
<1>7. x \in Invalidation /\ x.scope = invalidations[i].scope /\ x.since = invalidations[i].since
  BY <1>6 DEF Invalidation
<1>8. invalidations' = [invalidations EXCEPT ![i] = x]
  BY <1>1, <1>4 DEF CompleteInvalidation
<1> HIDE DEF x
<1>9. /\ invalidations' \in Seq(Invalidation) /\ DOMAIN invalidations' = DOMAIN invalidations /\ RowsKept
      /\ invalidations'[i] = x
      /\ \A j \in DOMAIN invalidations : j # i => invalidations'[j] = invalidations[j]
  BY <1>1, <1>7, <1>8, RowSet
<1>10. /\ ClearsTyped' /\ ClearInv(c)' /\ Held(c) = Held(c)' \cup {i}
       /\ \A d \in Clearers : d # c => clears'[d] = clears[d]
  BY <1>2, <1>3, <1>4, <1>9, NextRow
<1>11. RowsCovered'
  <2>1. invalidations[i].since \in Nat /\ ledger[s] \in Nat /\ cleared[s] \in Nat
    BY <1>1, <1>6 DEF StoreTyped, Invalidation
  <2>2. x.scope = s /\ x.since <= ledger'[s] /\ cleared'[s] >= x.since
    BY <1>2, <1>5, <1>7, <2>1
  <2>3. ASSUME NEW j \in DOMAIN invalidations, j # i
        PROVE  LET t == invalidations'[j].scope
               IN /\ invalidations'[j].since <= ledger'[t]
                  /\ invalidations'[j].done => cleared'[t] >= invalidations'[j].since
    BY <1>2, <1>9, <2>3 DEF CacheInv, RowsCovered
  <2> QED BY <1>9, <2>2, <2>3 DEF RowsCovered
<1>12. ASSUME NEW k \in Kinds, NEW t \in Scopes, NEW j \in DOMAIN invalidations,
              Unexcused(k, t)', Stale(k, t)', RowMinds(j, t)
       PROVE  RowMinds(j, t)'
  <2>1. CASE j = i
    <3>1. t = s /\ invalidations[i].since >= ledger[s]
      BY <1>5, <1>12, <2>1 DEF RowMinds
    <3>2. Unexcused(k, s) /\ entries[k].saw[s] < ledger[s]
      BY <1>2, <1>12, <3>1 DEF Unexcused, Stale, Live
    <3>3. entries[k].saw[s] >= n
      BY <1>5, <3>2
    <3>4. entries[k].saw[s] \in Nat /\ ledger[s] \in Nat /\ invalidations[i].since \in Nat
      BY <1>1, <1>6 DEF StoreTyped, Invalidation
    <3> QED BY <1>5, <3>1, <3>2, <3>3, <3>4
  <2>2. CASE j # i
    <3>1. \A d \in CacheWorkers : j \in Held(d) => j \in Held(d)'
      BY <1>10, <2>2 DEF Held, Clearers
    <3> QED BY <1>2, <1>9, <1>12, <2>2, <3>1 DEF RowMinds
  <2> QED BY <2>1, <2>2
<1> QED BY <1>2, <1>9, <1>10, <1>11, <1>12, RowsAndClears

\* attempts are within their bound: a row not to be tried again is given up
LEMMA RowsEnd ==
  ASSUME CacheInv, NEW i \in DOMAIN invalidations, ~invalidations[i].done
  PROVE  invalidations[i].attempts < MaxInvalidations \/ GivenUp(i)
<1>1. invalidations[i] \in Invalidation
  BY DEF CacheInv, CacheTyped
<1>2. invalidations[i].attempts \in 0..MaxInvalidations
  BY <1>1 DEF Invalidation
<1> QED BY <1>2, CacheAssumption DEF GivenUp

LEMMA FailInvalidationKeeps ==
  ASSUME CacheInv, NEW c \in Clearers, FailInvalidation(c)
  PROVE  CacheInv'
<1>1. CacheTyped /\ StoreTyped /\ ClearsTyped /\ invalidations \in Seq(Invalidation) /\ \A d \in Clearers : ClearInv(d)
  BY ClearByClear DEF CacheInv, CacheTyped
<1>2. /\ c \in CacheWorkers /\ c \notin CacheWriters /\ clears[c].phase \in {"finish", "failed"} /\ Next1(c)
      /\ UNCHANGED <<ledger, entries, index, recalls, cleared>>
  BY CacheAssumption DEF FailInvalidation
<1>3. clears[c].phase \in AtRow
  BY <1>2 DEF AtRow
<1>4. PICK i \in DOMAIN invalidations, s \in Scopes : i = clears[c].row /\ s = clears[c].scope
  BY <1>1, <1>2, <1>3, ClearFields DEF ClearInv
<1>5. invalidations[i].scope = s
  BY <1>1, <1>2, <1>3, <1>4 DEF ClearInv
<1>6. invalidations[i] \in Invalidation
  BY <1>1
<1> DEFINE x == [invalidations[i] EXCEPT !.status = "failed", !.wait = CacheLease]
<1>7. /\ x \in Invalidation /\ x.scope = invalidations[i].scope /\ x.since = invalidations[i].since
      /\ x.done = invalidations[i].done /\ x.attempts = invalidations[i].attempts
  BY <1>6, CacheAssumption DEF Invalidation
<1>8. /\ invalidations' = [invalidations EXCEPT ![i] = x]
      /\ excused' = IF GivenUp(i) THEN excused \cup (Kinds \X {s}) ELSE excused
  BY <1>1, <1>4 DEF FailInvalidation
<1> HIDE DEF x
<1>9. /\ invalidations' \in Seq(Invalidation) /\ DOMAIN invalidations' = DOMAIN invalidations /\ RowsKept
      /\ invalidations'[i] = x
      /\ \A j \in DOMAIN invalidations : j # i => invalidations'[j] = invalidations[j]
  BY <1>1, <1>7, <1>8, RowSet
<1>10. /\ ClearsTyped' /\ ClearInv(c)' /\ Held(c) = Held(c)' \cup {i}
       /\ \A d \in Clearers : d # c => clears'[d] = clears[d]
  BY <1>2, <1>3, <1>4, <1>9, NextRow
<1>11. RowsCovered'
  <2>1. \A j \in DOMAIN invalidations :
          /\ invalidations'[j].scope = invalidations[j].scope /\ invalidations'[j].since = invalidations[j].since
          /\ invalidations'[j].done = invalidations[j].done
    BY <1>7, <1>9
  <2> QED BY <1>2, <1>9, <2>1 DEF CacheInv, RowsCovered
<1>12. ASSUME NEW k \in Kinds, NEW t \in Scopes, NEW j \in DOMAIN invalidations, Unexcused(k, t)', RowMinds(j, t)
       PROVE  RowMinds(j, t)'
  <2>1. CASE j = i
    <3>1. t = s /\ ~invalidations[i].done
      BY <1>5, <1>12, <2>1 DEF RowMinds
    <3>2. ~GivenUp(i)
      BY <1>8, <1>12, <3>1 DEF Unexcused
    <3>3. invalidations[i].attempts < MaxInvalidations
      BY <3>1, <3>2, RowsEnd
    <3> QED BY <1>2, <1>7, <1>9, <1>12, <2>1, <3>3 DEF RowMinds
  <2>2. CASE j # i
    <3>1. \A d \in CacheWorkers : j \in Held(d) => j \in Held(d)'
      BY <1>10, <2>2 DEF Held, Clearers
    <3> QED BY <1>2, <1>9, <1>12, <2>2, <3>1 DEF RowMinds
  <2> QED BY <2>1, <2>2
<1>13. excused \subseteq excused'
  BY <1>8
<1> QED BY <1>2, <1>9, <1>10, <1>11, <1>12, <1>13, RowsAndClears

LEMMA EndWorkerKeeps ==
  ASSUME CacheInv, NEW c \in Clearers, EndWorker(c)
  PROVE  CacheInv'
<1>1. ClearsTyped
  BY DEF CacheInv, CacheTyped
<1>2. /\ c \in CacheWorkers /\ c \notin CacheWriters /\ clears' = [clears EXCEPT ![c] = NoClear]
      /\ excused' = excused \cup (Kinds \X {invalidations[i].scope : i \in {j \in Held(c) : GivenUp(j)}})
      /\ UNCHANGED <<ledger, entries, index, recalls, invalidations, cleared>>
  BY CacheAssumption DEF EndWorker
<1>3. /\ ClearsTyped' /\ ClearInv(c)'
      /\ \A d \in Clearers : d # c => clears'[d] = clears[d]
  BY <1>1, <1>2, ClearSetIdle
<1>4. ASSUME NEW k \in Kinds, NEW s \in Scopes, NEW i \in DOMAIN invalidations, Unexcused(k, s)', RowMinds(i, s)
      PROVE  RowMinds(i, s)'
  <2>1. \A d \in CacheWorkers : d # c => Held(d)' = Held(d)
    BY <1>3 DEF Held, Clearers
  <2>2. invalidations[i].attempts < MaxInvalidations \/ \E d \in CacheWorkers : i \in Held(d)'
    <3>1. CASE i \in Held(c) /\ GivenUp(i)
      <4>1. <<k, invalidations[i].scope>> \in excused'
        BY <1>2, <3>1
      <4> QED BY <1>4, <4>1 DEF Unexcused, RowMinds
    <3>2. CASE GivenUp(i) /\ i \notin Held(c)
      <4>1. ~(invalidations[i].attempts < MaxInvalidations)
        BY <3>2, CacheAssumption DEF GivenUp
      <4>2. PICK d \in CacheWorkers : i \in Held(d)
        BY <1>4, <4>1 DEF RowMinds
      <4> QED BY <2>1, <3>2, <4>2
    <3>3. CASE ~GivenUp(i)
      BY <1>4, <3>3, RowsEnd DEF RowMinds
    <3> QED BY <3>1, <3>2, <3>3
  <2> QED BY <1>2, <1>4, <2>2 DEF RowMinds
<1>5. excused \subseteq excused'
  BY <1>2
<1> QED BY <1>2, <1>3, <1>4, <1>5, OnlyClears

LEMMA CacheTickKeeps ==
  ASSUME CacheInv, CacheTick
  PROVE  CacheInv'
<1>1. CacheTyped /\ StoreTyped /\ invalidations \in Seq(Invalidation)
  BY DEF CacheInv, CacheTyped
<1>2. /\ entries' = [k \in Kinds |-> IF entries[k].left <= 1 THEN NoEntry ELSE [entries[k] EXCEPT !.left = entries[k].left - 1]]
      /\ index' = [s \in Scopes |-> IF index[s].left <= 1 THEN NoIndex ELSE [index[s] EXCEPT !.left = index[s].left - 1]]
      /\ invalidations' = [i \in DOMAIN invalidations |-> [invalidations[i] EXCEPT !.wait = Down(invalidations[i].wait)]]
      /\ UNCHANGED <<ledger, recalls, clears, cleared>>
  BY DEF CacheTick
<1>3. excused' = (excused \cup UNION {{k \in index[s].keys : entries[k].left > 1} \X {s} : s \in {q \in Scopes : index[q].left <= 1}})
                   \ ({k \in Kinds : entries[k].left <= 1} \X Scopes)
  BY DEF CacheTick
<1>4. /\ invalidations' \in Seq(Invalidation) /\ DOMAIN invalidations' = DOMAIN invalidations
      /\ \A i \in DOMAIN invalidations :
           /\ invalidations'[i].scope = invalidations[i].scope /\ invalidations'[i].since = invalidations[i].since
           /\ invalidations'[i].done = invalidations[i].done /\ invalidations'[i].attempts = invalidations[i].attempts
  <2>1. ASSUME NEW i \in DOMAIN invalidations
        PROVE  /\ invalidations'[i] \in Invalidation
               /\ invalidations'[i].scope = invalidations[i].scope /\ invalidations'[i].since = invalidations[i].since
               /\ invalidations'[i].done = invalidations[i].done /\ invalidations'[i].attempts = invalidations[i].attempts
    <3>1. invalidations[i] \in Invalidation
      BY <1>1
    <3>2. Down(invalidations[i].wait) \in Nat
      BY <3>1 DEF Down, Invalidation
    <3>3. invalidations'[i] = [invalidations[i] EXCEPT !.wait = Down(invalidations[i].wait)]
      BY <1>2
    <3> QED BY <3>1, <3>2, <3>3 DEF Invalidation
  <2>2. DOMAIN invalidations' = DOMAIN invalidations /\ DOMAIN invalidations = 1..Len(invalidations) /\ Len(invalidations) \in Nat
    BY <1>1, <1>2
  <2>3. invalidations' = [i \in 1..Len(invalidations) |-> invalidations'[i]]
    BY <1>2, <2>2
  <2>4. invalidations' \in Seq(Invalidation)
    BY <2>1, <2>2, <2>3
  <2> QED BY <2>1, <2>2, <2>4
<1>5. CacheTyped'
  <2>1. NoEntry \in [saw : [Scopes -> Nat], left : Nat] /\ NoIndex \in [keys : SUBSET Kinds, left : Nat]
    BY DEF NoEntry, NoIndex
  <2>2. entries' \in [Kinds -> [saw : [Scopes -> Nat], left : Nat]]
    <3>1. ASSUME NEW k \in Kinds
          PROVE  entries'[k] \in [saw : [Scopes -> Nat], left : Nat]
      <4>1. entries[k] \in [saw : [Scopes -> Nat], left : Nat]
        BY <1>1 DEF StoreTyped
      <4>2. entries[k].left > 1 => [entries[k] EXCEPT !.left = entries[k].left - 1] \in [saw : [Scopes -> Nat], left : Nat]
        BY <4>1
      <4>3. entries[k].left <= 1 \/ entries[k].left > 1
        BY <4>1
      <4> QED BY <1>2, <2>1, <4>2, <4>3
    <3>2. entries' = [k \in Kinds |-> entries'[k]]
      BY <1>2
    <3> QED BY <3>1, <3>2
  <2>3. index' \in [Scopes -> [keys : SUBSET Kinds, left : Nat]]
    <3>1. ASSUME NEW s \in Scopes
          PROVE  index'[s] \in [keys : SUBSET Kinds, left : Nat]
      <4>1. index[s] \in [keys : SUBSET Kinds, left : Nat]
        BY <1>1 DEF StoreTyped
      <4>2. index[s].left > 1 => [index[s] EXCEPT !.left = index[s].left - 1] \in [keys : SUBSET Kinds, left : Nat]
        BY <4>1
      <4>3. index[s].left <= 1 \/ index[s].left > 1
        BY <4>1
      <4> QED BY <1>2, <2>1, <4>2, <4>3
    <3>2. index' = [s \in Scopes |-> index'[s]]
      BY <1>2
    <3> QED BY <3>1, <3>2
  <2> QED BY <1>1, <1>2, <1>4, <2>2, <2>3 DEF CacheTyped, StoreTyped, RecallsTyped, ClearsTyped
<1>6. Wanes
  <2> SUFFICES ASSUME NEW k \in Kinds, NEW s \in Scopes, Unexcused(k, s)'
               PROVE  Unexcused(k, s) /\ Named(k, s)' /\ entries'[k].saw = entries[k].saw
    BY DEF Wanes
  <2>1. entries[k] \in [saw : [Scopes -> Nat], left : Nat]
    BY <1>1 DEF StoreTyped
  <2>2. entries[k].left > 1
    <3>1. CASE entries[k].left <= 1
      <4>1. entries'[k] = NoEntry
        BY <1>2, <3>1
      <4> QED BY <4>1 DEF Unexcused, Live, NoEntry
    <3> QED BY <2>1, <3>1
  <2>3. entries'[k].saw = entries[k].saw
    <3>1. entries'[k] = [entries[k] EXCEPT !.left = entries[k].left - 1]
      BY <1>2, <2>1, <2>2
    <3> QED BY <2>1, <3>1
  <2>4. ~(entries[k].left <= 1) /\ <<k, s>> \notin excused'
    BY <2>1, <2>2 DEF Unexcused
  <2>5. <<k, s>> \notin excused /\ ~(k \in index[s].keys /\ index[s].left <= 1)
    BY <1>3, <2>2, <2>4
  <2>6. Unexcused(k, s)
    BY <2>1, <2>2, <2>5 DEF Unexcused, Live
  <2>7. Named(k, s) /\ (Awaits(k, s) <=> Awaits(k, s)')
    BY <1>2, <2>6 DEF CacheInv, UnexcusedNamed, Awaits, Todo, Idle
  <2>8. k \in index[s].keys => k \in index'[s].keys
    <3>1. index[s] \in [keys : SUBSET Kinds, left : Nat]
      BY <1>1 DEF StoreTyped
    <3> QED BY <1>2, <2>5, <3>1
  <2> QED BY <2>3, <2>6, <2>7, <2>8 DEF Named
<1>7. RowsCovered' /\ RowsKept
  <2>1. RowsKept
    BY <1>4 DEF RowsKept
  <2>2. RowsCovered'
    BY <1>2, <1>4 DEF CacheInv, RowsCovered
  <2> QED BY <2>1, <2>2
<1>8. \A k \in Kinds, s \in Scopes : Minded(k, s) => Minded(k, s)'
  <2>1. \A s \in Scopes, i \in DOMAIN invalidations : RowMinds(i, s) => RowMinds(i, s)'
    BY <1>2, <1>4 DEF RowMinds, Held
  <2>2. \A k \in Kinds, s \in Scopes : WriterMinds(k, s) => WriterMinds(k, s)'
    BY <1>2 DEF WriterMinds
  <2> QED BY <1>4, <2>1, <2>2 DEF Minded
<1>9. \A s \in Scopes : cleared'[s] >= cleared[s]
  BY <1>1, <1>2 DEF StoreTyped
<1> QED BY <1>2, <1>5, <1>6, <1>7, <1>8, <1>9, ClearsKeepInv

-----------------------------------------------------------------------------
(* The recall cache: the theorems                                          *)

LEMMA CacheInitInv == CacheInit => CacheInv
<1> SUFFICES ASSUME CacheInit
             PROVE  CacheInv
  OBVIOUS
<1>1. CacheTyped
  <2>1. StoreTyped
    BY DEF CacheInit, StoreTyped, NoEntry, NoIndex
  <2>2. RecallsTyped
    BY DEF CacheInit, RecallsTyped, Recall, InProgram
  <2>3. ClearsTyped
    BY DEF CacheInit, ClearsTyped, WriterClear, WorkerClear, Clearers
  <2>4. invalidations \in Seq(Invalidation)
    BY DEF CacheInit
  <2> QED BY <2>1, <2>2, <2>3, <2>4 DEF CacheTyped
<1>2. \A k \in Kinds : ~Live(k)
  BY DEF CacheInit, Live, NoEntry
<1>3. \A c \in Clearers : clears[c] = NoClear /\ clears[c].phase = "idle"
  BY DEF CacheInit, NoClear
<1>4. UnexcusedNamed /\ Answerable
  BY <1>2 DEF UnexcusedNamed, Answerable, Unexcused
<1>5. Removed /\ ClearsCovered /\ HeldAreRows
  BY <1>3 DEF Removed, ClearsCovered, HeldAreRows, Past, AtRow, Clearers
<1>6. RowsCovered
  BY DEF CacheInit, RowsCovered
<1> QED BY <1>1, <1>4, <1>5, <1>6 DEF CacheInv

LEMMA CacheNextInv == CacheInv /\ [CacheNext]_cacheVars => CacheInv'
<1> SUFFICES ASSUME CacheInv, [CacheNext]_cacheVars
             PROVE  CacheInv'
  OBVIOUS
<1>1. ASSUME NEW r \in Recalls, RecallStep(r) \/ Skip(r)
      PROVE  CacheInv'
  BY <1>1, HitKeeps, MissKeeps, StoreKeeps, NameKeeps, SkipKeeps DEF RecallStep
<1>2. ASSUME NEW c \in Clearers, CommitWrite(c) \/ Fail(c) \/ LoseInvalidation(c) \/ EndWorker(c)
      PROVE  CacheInv'
  BY <1>2, CommitWriteKeeps, FailKeeps, LoseInvalidationKeeps, EndWorkerKeeps
<1>3. ASSUME NEW c \in Clearers, ClearStep(c)
      PROVE  CacheInv'
  BY <1>3, ListKeeps, EvictKeeps, DropKeeps, EnqueueInvalidationKeeps DEF ClearStep
<1>4. ASSUME NEW c \in Clearers, WorkStep(c)
      PROVE  CacheInv'
  BY <1>4, ClaimInvalidationsKeeps, TakeInvalidationKeeps, CompleteInvalidationKeeps, FailInvalidationKeeps DEF WorkStep
<1>5. CASE SilentWrite \/ QueuedWrite \/ CacheTick
  BY <1>5, SilentWriteKeeps, QueuedWriteKeeps, CacheTickKeeps
<1>6. CASE UNCHANGED cacheVars
  <2>1. UNCHANGED <<ledger, entries, index, recalls, clears, invalidations, cleared, excused>>
    BY <1>6 DEF cacheVars
  <2>2. CacheTyped'
    BY <2>1 DEF CacheInv, CacheTyped, StoreTyped, RecallsTyped, ClearsTyped
  <2>3. \A k \in Kinds, s \in Scopes :
          (Unexcused(k, s)' => Unexcused(k, s) /\ entries'[k] = entries[k]) /\ (Named(k, s)' <=> Named(k, s))
    BY <2>1 DEF Unexcused, Live, Named, Awaits, Todo, Idle
  <2>4. UnexcusedNamed'
    BY <2>3 DEF CacheInv, UnexcusedNamed
  <2> QED BY <2>1, <2>2, <2>3, <2>4, RecallsKeepInv
<1> QED BY <1>1, <1>2, <1>3, <1>4, <1>5, <1>6 DEF CacheNext

(***************************************************************************)
(* Whatever skips, crashes and expiries came between, an answer older than *)
(* the ledger is one of the causes the cache records, or somebody is still *)
(* to remove it: the writer that is on its way, or a row to be carried out *)
(* whose scope names the answer or is about to.                            *)
(***************************************************************************)
THEOREM StaleAnswersHaveCauses == CacheSpec => []StaleHasACause
<1>1. CacheInv => StaleHasACause
  <2> SUFFICES ASSUME CacheInv, NEW k \in Kinds, NEW s \in Scopes, Stale(k, s), <<k, s>> \notin excused
               PROVE  Expected(k, s)
    BY DEF StaleHasACause
  <2>1. Unexcused(k, s)
    BY DEF Unexcused, Stale
  <2>2. Named(k, s) /\ Minded(k, s)
    BY <2>1 DEF CacheInv, UnexcusedNamed, Answerable
  <2>3. CASE WriterMinds(k, s)
    BY <2>2, <2>3 DEF WriterMinds, Expected, Clearers
  <2>4. ASSUME NEW i \in DOMAIN invalidations, RowMinds(i, s)
        PROVE  Expected(k, s)
    BY <2>2, <2>4 DEF RowMinds, Expected
  <2> QED BY <2>2, <2>3, <2>4 DEF Minded
<1> QED BY <1>1, CacheInitInv, CacheNextInv, PTL DEF CacheSpec

(***************************************************************************)
(* A row of cache_invalidation_requests is completed only after an         *)
(* invalidation of its scope that listed the keys no earlier than the row  *)
(* was written: a lease taken over, a worker that ends and a completion    *)
(* done twice do not complete a row nobody carried out.                    *)
(***************************************************************************)
THEOREM DoneIsCleared == CacheSpec => []DoneMeansCleared
<1>1. CacheInv => DoneMeansCleared
  BY DEF CacheInv, RowsCovered, DoneMeansCleared
<1> QED BY <1>1, CacheInitInv, CacheNextInv, PTL DEF CacheSpec

-----------------------------------------------------------------------------
(* The recall cache: bounds                                                *)

LedgerBounded == \A s \in Scopes : ledger[s] <= MaxLedgerWrites /\ cleared[s] <= ledger[s]
SawBounded    ==
  /\ \A k \in Kinds, s \in Scopes : entries[k].saw[s] <= ledger[s]
  /\ \A r \in Recalls, s \in Scopes : ~Idle(r) => recalls[r].saw[s] <= ledger[s]
LeftBounded   == \A k \in Kinds : entries[k].left <= Ttl[k]
WaitBounded   == \A i \in DOMAIN invalidations : invalidations[i].wait <= CacheLease
FaultsBounded == cacheFaults \in 0..MaxRedisFaults

CacheBounded == LedgerBounded /\ SawBounded /\ LeftBounded /\ WaitBounded /\ FaultsBounded

LEMMA LedgerBoundedStep == CacheInv /\ LedgerBounded /\ CacheNext => LedgerBounded'
<1> SUFFICES ASSUME CacheInv, LedgerBounded, CacheNext
             PROVE  LedgerBounded'
  OBVIOUS
<1>1. StoreTyped
  BY DEF CacheInv, CacheTyped
<1>2. CASE UNCHANGED <<ledger, cleared>>
  BY <1>2 DEF LedgerBounded
<1>3. ASSUME NEW s \in Scopes, Write(s), UNCHANGED cleared
      PROVE  LedgerBounded'
  BY <1>1, <1>3, CacheAssumption DEF LedgerBounded, StoreTyped, Write
<1>4. ASSUME NEW c \in Clearers, Drop(c)
      PROVE  LedgerBounded'
  <2>1. ClearsTyped /\ Past(c) /\ clears[c].phase \in AtRow
    BY <1>4 DEF CacheInv, CacheTyped, Drop, Past, AtRow
  <2>2. PICK s \in Scopes, n \in Nat : s = clears[c].scope /\ n = clears[c].covers
    BY <2>1, ClearFields
  <2>3. n <= ledger[s]
    BY <2>1, <2>2 DEF CacheInv, ClearsCovered
  <2>4. cleared' = [cleared EXCEPT ![s] = IF cleared[s] < n THEN n ELSE cleared[s]] /\ UNCHANGED ledger
    BY <1>4, <2>2 DEF Drop
  <2> QED BY <1>1, <2>3, <2>4 DEF LedgerBounded, StoreTyped
<1>5. \/ UNCHANGED <<ledger, cleared>>
      \/ \E s \in Scopes : Write(s) /\ UNCHANGED cleared
      \/ \E c \in Clearers : Drop(c)
  BY DEF CacheNext, RecallStep, ClearStep, WorkStep, Hit, Miss, Store, Name, Skip, CommitWrite, SilentWrite, QueuedWrite,
         List, Evict, Fail, EnqueueInvalidation, LoseInvalidation, ClaimInvalidations, TakeInvalidation,
         CompleteInvalidation, FailInvalidation, EndWorker, CacheTick
<1> QED BY <1>2, <1>3, <1>4, <1>5

LEMMA LeftBoundedStep == CacheInv /\ LeftBounded /\ CacheNext => LeftBounded'
<1> SUFFICES ASSUME CacheInv, LeftBounded, CacheNext
             PROVE  LeftBounded'
  OBVIOUS
<1>1. entries \in [Kinds -> [saw : [Scopes -> Nat], left : Nat]]
  BY DEF CacheInv, CacheTyped, StoreTyped
<1>2. CASE UNCHANGED entries
  BY <1>2 DEF LeftBounded
<1>3. ASSUME NEW r \in Recalls, Store(r)
      PROVE  LeftBounded'
  <2>1. PICK k \in Kinds : k = Do(r).kind
    BY <1>3, RecallFields DEF Store, CacheInv, CacheTyped, CacheOp
  <2>2. PICK saw : entries' = [entries EXCEPT ![k] = [saw |-> saw, left |-> Ttl[k]]]
    BY <1>3, <2>1 DEF Store
  <2>3. entries'[k].left = Ttl[k] /\ Ttl[k] \in Nat /\ \A q \in Kinds : q # k => entries'[q] = entries[q]
    BY <1>1, <2>2, CacheAssumption
  <2> QED BY <2>3 DEF LeftBounded
<1>4. ASSUME NEW c \in Clearers, Evict(c)
      PROVE  LeftBounded'
  BY <1>1, <1>4, CacheAssumption DEF LeftBounded, Evict, NoEntry
<1>5. CASE CacheTick
  <2> SUFFICES ASSUME NEW k \in Kinds
               PROVE  entries'[k].left <= Ttl[k]
    BY DEF LeftBounded
  <2>1. entries[k] \in [saw : [Scopes -> Nat], left : Nat] /\ entries[k].left <= Ttl[k] /\ Ttl[k] \in Nat
    BY <1>1, CacheAssumption DEF LeftBounded
  <2>2. entries'[k] = IF entries[k].left <= 1 THEN NoEntry ELSE [entries[k] EXCEPT !.left = entries[k].left - 1]
    BY <1>5 DEF CacheTick
  <2> QED BY <2>1, <2>2 DEF NoEntry
<1>6. \/ UNCHANGED entries \/ CacheTick
      \/ \E r \in Recalls : Store(r)
      \/ \E c \in Clearers : Evict(c)
  BY DEF CacheNext, RecallStep, ClearStep, WorkStep, Hit, Miss, Name, Skip, CommitWrite, SilentWrite, QueuedWrite,
         List, Drop, Fail, EnqueueInvalidation, LoseInvalidation, ClaimInvalidations, TakeInvalidation,
         CompleteInvalidation, FailInvalidation, EndWorker
<1> QED BY <1>2, <1>3, <1>4, <1>5, <1>6

LEMMA WaitBoundedStep == CacheInv /\ WaitBounded /\ CacheNext => WaitBounded'
<1> SUFFICES ASSUME CacheInv, WaitBounded, CacheNext
             PROVE  WaitBounded'
  OBVIOUS
<1>1. invalidations \in Seq(Invalidation) /\ \A i \in DOMAIN invalidations : invalidations[i].wait \in Nat
  <2>1. invalidations \in Seq(Invalidation)
    BY DEF CacheInv, CacheTyped
  <2>2. \A i \in DOMAIN invalidations : invalidations[i] \in Invalidation
    BY <2>1
  <2> QED BY <2>1, <2>2 DEF Invalidation
<1>2. CASE UNCHANGED invalidations
  BY <1>2 DEF WaitBounded
<1>3. ASSUME NEW s, NEW n, invalidations' = Append(invalidations, Request(s, n))
      PROVE  WaitBounded'
  <2>1. Request(s, n).wait <= CacheLease
    BY CacheAssumption DEF Request
  <2> QED BY <1>1, <1>3, <2>1 DEF WaitBounded
<1>4. ASSUME NEW c \in Clearers, ClaimInvalidations(c)
      PROVE  WaitBounded'
  <2> SUFFICES ASSUME NEW i \in DOMAIN invalidations
               PROVE  invalidations'[i].wait <= CacheLease
    BY <1>4 DEF WaitBounded, ClaimInvalidations
  <2>1. \/ invalidations'[i] = invalidations[i]
        \/ invalidations'[i] = [invalidations[i] EXCEPT !.status = "processing", !.attempts = invalidations[i].attempts + 1,
                                                        !.wait = CacheLease]
    BY <1>4 DEF ClaimInvalidations
  <2>2. invalidations[i] \in Invalidation
    BY <1>1
  <2>3. \/ invalidations'[i].wait = invalidations[i].wait
        \/ invalidations'[i].wait = CacheLease
    BY <2>1, <2>2 DEF Invalidation
  <2>4. invalidations[i].wait <= CacheLease /\ CacheLease <= CacheLease
    BY CacheAssumption DEF WaitBounded
  <2> QED BY <2>3, <2>4
<1>5. ASSUME NEW c \in Clearers, CompleteInvalidation(c)
      PROVE  WaitBounded'
  BY <1>1, <1>5, CacheAssumption DEF WaitBounded, CompleteInvalidation, Invalidation
<1>6. ASSUME NEW c \in Clearers, FailInvalidation(c)
      PROVE  WaitBounded'
  BY <1>1, <1>6, CacheAssumption DEF WaitBounded, FailInvalidation, Invalidation
<1>7. CASE CacheTick
  <2> SUFFICES ASSUME NEW i \in DOMAIN invalidations
               PROVE  invalidations'[i].wait <= CacheLease
    BY <1>7 DEF WaitBounded, CacheTick
  <2>1. invalidations'[i] = [invalidations[i] EXCEPT !.wait = Down(invalidations[i].wait)] /\ invalidations[i] \in Invalidation
    BY <1>1, <1>7 DEF CacheTick
  <2>2. invalidations'[i].wait = Down(invalidations[i].wait)
    BY <2>1 DEF Invalidation
  <2> QED BY <1>1, <2>2, CacheAssumption DEF WaitBounded, Down
<1>8. \/ UNCHANGED invalidations \/ CacheTick
      \/ \E s, n : invalidations' = Append(invalidations, Request(s, n))
      \/ \E c \in Clearers : ClaimInvalidations(c) \/ CompleteInvalidation(c) \/ FailInvalidation(c)
  BY DEF CacheNext, RecallStep, ClearStep, WorkStep, Hit, Miss, Store, Name, Skip, CommitWrite, SilentWrite, QueuedWrite,
         List, Evict, Drop, Fail, EnqueueInvalidation, LoseInvalidation, TakeInvalidation, EndWorker
<1> QED BY <1>2, <1>3, <1>4, <1>5, <1>6, <1>7, <1>8

LEMMA FaultsBoundedStep == FaultsBounded /\ CacheNext => FaultsBounded'
<1>1. CacheNext => UNCHANGED cacheFaults \/ Fault
  BY DEF CacheNext, RecallStep, ClearStep, WorkStep, Hit, Miss, Store, Name, Skip, CommitWrite, SilentWrite, QueuedWrite,
         List, Evict, Drop, Fail, EnqueueInvalidation, LoseInvalidation, ClaimInvalidations, TakeInvalidation,
         CompleteInvalidation, FailInvalidation, EndWorker, CacheTick
<1> QED BY <1>1, CacheAssumption DEF FaultsBounded, Fault

\* what a recall saw stays what it saw, while it goes on
LEMMA DidSaw ==
  ASSUME RecallsTyped, NEW r \in Recalls, ~Idle(r), Did(r), NEW q \in Recalls, ~Idle(q)'
  PROVE  ~Idle(q) /\ recalls'[q].saw = recalls[q].saw
<1>1. CASE q # r
  BY <1>1 DEF Did, Idle, RecallsTyped
<1>2. CASE q = r
  <2>1. recalls[r] \in [saw : [Scopes -> Nat], run : {"hit", "miss"}, at : Nat]
    BY RecallFields
  <2>2. recalls'[r] = [recalls[r] EXCEPT !.at = recalls[r].at + 1]
    BY <1>2 DEF Did, Idle, RecallsTyped
  <2> QED BY <1>2, <2>1, <2>2
<1> QED BY <1>1, <1>2

LEMMA SawBoundedStep == CacheInv /\ SawBounded /\ CacheNext => SawBounded'
<1> SUFFICES ASSUME CacheInv, SawBounded, CacheNext
             PROVE  SawBounded'
  OBVIOUS
<1>1. StoreTyped /\ RecallsTyped /\ ClearsTyped
  BY DEF CacheInv, CacheTyped
<1>2. CASE UNCHANGED <<ledger, entries, recalls>>
  BY <1>2 DEF SawBounded, Idle
<1>3. ASSUME NEW r \in Recalls, NEW run, NEW saw \in [Scopes -> Nat], Idle(r), Start(r, run, saw),
             \A s \in Scopes : saw[s] <= ledger[s], UNCHANGED <<ledger, entries>>
      PROVE  SawBounded'
  <2>1. ASSUME NEW q \in Recalls, NEW s \in Scopes, ~Idle(q)'
        PROVE  recalls'[q].saw[s] <= ledger[s]
    <3>1. CASE q # r
      BY <1>1, <1>3, <2>1, <3>1 DEF Start, SawBounded, Idle, RecallsTyped
    <3>2. CASE q = r
      <4>1. recalls'[r] = [saw |-> saw, run |-> run, at |-> 1]
        BY <1>1, <1>3 DEF Start, RecallsTyped
      <4> QED BY <1>3, <3>2, <4>1
    <3> QED BY <3>1, <3>2
  <2> QED BY <1>3, <2>1 DEF SawBounded
<1>4. ASSUME NEW r \in Recalls, Hit(r)
      PROVE  SawBounded'
  <2>1. PICK i \in DOMAIN Answers : Start(r, "hit", entries[Answers[i]].saw)
    BY <1>4 DEF Hit
  <2>2. PICK k \in Kinds : k = Answers[i]
    BY <2>1 DEF Answers, Kinds
  <2>3. entries[k].saw \in [Scopes -> Nat] /\ \A s \in Scopes : entries[k].saw[s] <= ledger[s]
    BY <1>1 DEF StoreTyped, SawBounded
  <2> QED BY <1>3, <1>4, <2>1, <2>2, <2>3 DEF Hit
<1>5. ASSUME NEW r \in Recalls, Miss(r)
      PROVE  SawBounded'
  <2>1. ledger \in [Scopes -> Nat] /\ \A s \in Scopes : ledger[s] <= ledger[s]
    BY <1>1 DEF StoreTyped
  <2> QED BY <1>3, <1>5, <2>1 DEF Miss
<1>6. ASSUME NEW r \in Recalls, Store(r)
      PROVE  SawBounded'
  <2>1. ~Idle(r) /\ Did(r) /\ UNCHANGED ledger
    BY <1>6 DEF Store
  <2>2. \A q \in Recalls, s \in Scopes : ~Idle(q)' => recalls'[q].saw[s] <= ledger'[s]
    BY <1>1, <2>1, DidSaw DEF SawBounded
  <2>3. \A s \in Scopes : recalls[r].saw[s] <= ledger[s]
    BY <2>1 DEF SawBounded
  <2>4. \A k \in Kinds, s \in Scopes : entries'[k].saw[s] <= ledger'[s]
    BY <1>1, <1>6, <2>1, <2>3 DEF Store, SawBounded, StoreTyped
  <2> QED BY <2>2, <2>4 DEF SawBounded
<1>7. ASSUME NEW r \in Recalls, Name(r) \/ Skip(r)
      PROVE  SawBounded'
  <2>1. ~Idle(r) /\ (Did(r) \/ recalls' = [recalls EXCEPT ![r] = NoRecall]) /\ UNCHANGED <<ledger, entries>>
    BY <1>7 DEF Name, Skip
  <2>2. CASE Did(r)
    BY <1>1, <2>1, <2>2, DidSaw DEF SawBounded
  <2>3. CASE recalls' = [recalls EXCEPT ![r] = NoRecall]
    <3>1. \A q \in Recalls : ~Idle(q)' => ~Idle(q) /\ recalls'[q] = recalls[q]
      BY <1>1, <2>3 DEF Idle, RecallsTyped
    <3> QED BY <2>1, <3>1 DEF SawBounded
  <2> QED BY <2>1, <2>2, <2>3
<1>8. ASSUME NEW s \in Scopes, Write(s), UNCHANGED <<entries, recalls>>
      PROVE  SawBounded'
  <2>1. \A t \in Scopes : ledger[t] \in Nat /\ ledger'[t] >= ledger[t] /\ ledger'[t] \in Nat
    BY <1>1, <1>8, WriteGrows
  <2>2. \A k \in Kinds, t \in Scopes : entries[k].saw[t] \in Nat
    BY <1>1 DEF StoreTyped
  <2>3. \A r \in Recalls, t \in Scopes : ~Idle(r) => recalls[r].saw[t] \in Nat
    BY <1>1, RecallFields
  <2> QED BY <1>8, <2>1, <2>2, <2>3 DEF SawBounded, Idle
<1>9. ASSUME NEW c \in Clearers, Evict(c)
      PROVE  SawBounded'
  <2>1. UNCHANGED <<ledger, recalls>> /\ \A k \in Kinds : entries'[k] = NoEntry \/ entries'[k] = entries[k]
    BY <1>9 DEF Evict
  <2>2. \A s \in Scopes : NoEntry.saw[s] <= ledger[s]
    BY <1>1 DEF NoEntry, StoreTyped
  <2> QED BY <2>1, <2>2 DEF SawBounded, Idle
<1>10. CASE CacheTick
  <2>1. UNCHANGED <<ledger, recalls>>
    BY <1>10 DEF CacheTick
  <2>2. \A k \in Kinds : entries'[k].saw = NoEntry.saw \/ entries'[k].saw = entries[k].saw
    <3> SUFFICES ASSUME NEW k \in Kinds
                 PROVE  entries'[k].saw = NoEntry.saw \/ entries'[k].saw = entries[k].saw
      OBVIOUS
    <3>1. entries[k] \in [saw : [Scopes -> Nat], left : Nat]
      BY <1>1 DEF StoreTyped
    <3>2. entries'[k] = NoEntry \/ entries'[k] = [entries[k] EXCEPT !.left = entries[k].left - 1]
      BY <1>10 DEF CacheTick
    <3> QED BY <3>1, <3>2
  <2>3. \A s \in Scopes : NoEntry.saw[s] <= ledger[s]
    BY <1>1 DEF NoEntry, StoreTyped
  <2> QED BY <2>1, <2>2, <2>3 DEF SawBounded, Idle
<1>11. \/ UNCHANGED <<ledger, entries, recalls>> \/ CacheTick
       \/ \E r \in Recalls : Hit(r) \/ Miss(r) \/ Store(r) \/ Name(r) \/ Skip(r)
       \/ \E s \in Scopes : Write(s) /\ UNCHANGED <<entries, recalls>>
       \/ \E c \in Clearers : Evict(c)
  BY DEF CacheNext, RecallStep, ClearStep, WorkStep, CommitWrite, SilentWrite, QueuedWrite,
         List, Drop, Fail, EnqueueInvalidation, LoseInvalidation, ClaimInvalidations, TakeInvalidation,
         CompleteInvalidation, FailInvalidation, EndWorker
<1> QED BY <1>2, <1>4, <1>5, <1>6, <1>7, <1>8, <1>9, <1>10, <1>11

LEMMA CacheBoundedInit == CacheInit => CacheBounded
BY CacheAssumption DEF CacheInit, CacheBounded, LedgerBounded, SawBounded, LeftBounded, WaitBounded, FaultsBounded, Idle, NoEntry

LEMMA CacheBoundedStep == CacheInv /\ CacheBounded /\ [CacheNext]_cacheVars => CacheBounded'
<1>1. CacheInv /\ CacheBounded /\ CacheNext => CacheBounded'
  BY LedgerBoundedStep, SawBoundedStep, LeftBoundedStep, WaitBoundedStep, FaultsBoundedStep DEF CacheBounded
<1>2. CacheBounded /\ UNCHANGED cacheVars => CacheBounded'
  BY DEF CacheBounded, LedgerBounded, SawBounded, LeftBounded, WaitBounded, FaultsBounded, Idle, cacheVars
<1> QED BY <1>1, <1>2

LEMMA CacheTypes == CacheInv /\ CacheBounded => CacheTypeOK
<1> SUFFICES ASSUME CacheInv, CacheBounded
             PROVE  CacheTypeOK
  OBVIOUS
<1>1. StoreTyped /\ ClearsTyped /\ invalidations \in Seq(Invalidation)
  BY DEF CacheInv, CacheTyped
<1>2. ledger \in [Scopes -> 0..MaxLedgerWrites]
  BY <1>1, CacheAssumption DEF StoreTyped, CacheBounded, LedgerBounded
<1>3. ASSUME NEW k \in Kinds
      PROVE  entries[k].left \in 0..Ttl[k] /\ entries[k].saw \in [Scopes -> 0..MaxLedgerWrites]
  <2>1. entries[k].saw \in [Scopes -> Nat] /\ entries[k].left \in Nat /\ Ttl[k] \in Nat
    BY <1>1, CacheAssumption DEF StoreTyped
  <2>2. \A s \in Scopes : entries[k].saw[s] <= ledger[s] /\ ledger[s] \in 0..MaxLedgerWrites
    BY <1>2 DEF CacheBounded, SawBounded
  <2>3. \A s \in Scopes : entries[k].saw[s] \in 0..MaxLedgerWrites
    BY <2>1, <2>2, CacheAssumption
  <2> QED BY <2>1, <2>3 DEF CacheBounded, LeftBounded
<1>4. \A s \in Scopes : index[s].keys \subseteq Kinds /\ index[s].left \in Nat
  BY <1>1 DEF StoreTyped
<1>5. ASSUME NEW c \in Clearers
      PROVE  clears[c].phase \in {"idle", "next", "list", "delete", "drop", "finish", "failed"}
  BY <1>1 DEF ClearsTyped, WriterClear, WorkerClear, NoClear, AtRow, Clearers
<1>6. ASSUME NEW i \in DOMAIN invalidations
      PROVE  /\ invalidations[i].status \in {"pending", "processing", "failed", "completed"}
             /\ invalidations[i].attempts \in 0..MaxInvalidations
             /\ invalidations[i].wait \in 0..CacheLease
  <2>1. invalidations[i] \in Invalidation
    BY <1>1
  <2>2. invalidations[i].wait <= CacheLease
    BY DEF CacheBounded, WaitBounded
  <2> QED BY <2>1, <2>2, CacheAssumption DEF Invalidation
<1>7. cacheFaults \in 0..MaxRedisFaults /\ \A s \in Scopes : cleared[s] <= ledger[s]
  BY DEF CacheBounded, FaultsBounded, LedgerBounded
<1> QED BY <1>2, <1>3, <1>4, <1>5, <1>6, <1>7 DEF CacheTypeOK

-----------------------------------------------------------------------------
(* Types and bounds of the other mechanisms                                *)

BreakerBounded ==
  /\ calls \in [failed : 0..MaxCalls, ok : 0..MaxCalls]
  /\ available \in BOOLEAN
  /\ conn \in {"ready", "reconnecting", "closed"}
  /\ errors \in 0..MaxErrors

LEMMA ReportsBounded ==
  ASSUME calls \in [failed : 0..MaxCalls, ok : 0..MaxCalls], RecordSuccess \/ RecordFailure
  PROVE  calls' \in [failed : 0..MaxCalls, ok : 0..MaxCalls]
<1>1. \A n \in 0..MaxCalls : Plus(n) \in 0..MaxCalls
  BY BreakerAssumption DEF Plus
<1>2. Plus(calls.failed) \in 0..MaxCalls /\ Plus(calls.ok) \in 0..MaxCalls /\ 0 \in 0..MaxCalls
  BY <1>1, BreakerAssumption
<1>3. \/ calls' = calls \/ calls' = [failed |-> 0, ok |-> 0]
      \/ calls' = [calls EXCEPT !.ok = Plus(calls.ok)]
      \/ calls' = [calls EXCEPT !.failed = Plus(calls.failed)]
  BY DEF RecordSuccess, RecordFailure
<1> QED BY <1>2, <1>3

LEMMA BreakerBoundedInit == BreakerInit => BreakerBounded
BY BreakerAssumption DEF BreakerInit, BreakerBounded

LEMMA BreakerBoundedStep == BreakerBounded /\ [BreakerNext]_breakerVars => BreakerBounded'
<1> SUFFICES ASSUME BreakerBounded, [BreakerNext]_breakerVars
             PROVE  BreakerBounded'
  OBVIOUS
<1>1. ASSUME NEW o \in CacheOps, AskBreaker(o) \/ UseAnswered(o)
      PROVE  BreakerBounded'
  BY <1>1 DEF AskBreaker, UseAnswered, BreakerBounded
<1>2. ASSUME NEW o \in CacheOps, PingAnswered(o) \/ OpFails(o)
      PROVE  BreakerBounded'
  BY <1>2, ReportsBounded DEF PingAnswered, OpFails, BreakerBounded
<1>3. CASE Breaks \/ Ready
  <2>1. calls' \in [failed : 0..MaxCalls, ok : 0..MaxCalls]
    BY <1>3, ReportsBounded DEF Breaks, Ready, BreakerBounded
  <2>2. errors' = errors \/ (errors < MaxErrors /\ errors' = errors + 1)
    BY <1>3 DEF Breaks, Ready
  <2>3. errors' \in 0..MaxErrors
    BY <2>2, BreakerAssumption DEF BreakerBounded
  <2>4. available' \in BOOLEAN /\ conn' \in {"ready", "reconnecting", "closed"}
    BY <1>3 DEF Breaks, Ready
  <2> QED BY <2>1, <2>3, <2>4 DEF BreakerBounded
<1>4. CASE Prune
  <2>1. PICK f \in 0..calls.failed, k \in 0..calls.ok : calls' = [failed |-> f, ok |-> k]
    BY <1>4 DEF Prune
  <2>2. f \in 0..MaxCalls /\ k \in 0..MaxCalls
    BY BreakerAssumption DEF BreakerBounded
  <2> QED BY <1>4, <2>1, <2>2 DEF Prune, BreakerBounded
<1>5. CASE Cooldown \/ UNCHANGED breakerVars
  BY <1>5 DEF Cooldown, breakerVars, BreakerBounded
<1> QED BY <1>1, <1>2, <1>3, <1>4, <1>5 DEF BreakerNext, OpStep

LEMMA BreakerTypes == BreakerInv /\ BreakerBounded => BreakerTypeOK
BY DEF BreakerInv, BreakerBounded, BreakerState, BreakerTypeOK

TicketsBounded ==
  /\ \A t \in Tickets : ticket[t].ttl \in TicketTtls \cup {0}
  /\ \A p \in Process : work[p].todo <= MaxMemories
  /\ registered \subseteq Keyed
  /\ begun \subseteq Tickets /\ ticketCauses \subseteq Tickets
  /\ ticketFaults \in 0..MaxTicketFaults

LEMMA TicketsBoundedInit == TicketInit => TicketsBounded
BY TicketAssumption DEF TicketInit, TicketsBounded, NoTicket, NoWork, Between

LEMMA TtlsStay ==
  ASSUME TicketInv, [TicketNext]_ticketVars, NEW t \in Tickets
  PROVE  ticket'[t].ttl \in TicketTtls \cup {ticket[t].ttl}
<1>1. ticket[t] \in TicketRow /\ ticket = [u \in Tickets |-> ticket[u]]
  BY DEF TicketInv, TicketsTimed, Timed
<1>2. ASSUME NEW u \in Tickets, Post(u)
      PROVE  ticket'[t].ttl \in TicketTtls \cup {ticket[t].ttl}
  BY <1>1, <1>2 DEF Post, Posted
<1>3. ASSUME NEW p \in Process, ClaimTickets(p) \/ BeginTicket(p) \/ PassOver(p) \/ StopWorker(p)
      PROVE  ticket'[t].ttl = ticket[t].ttl
  <2>1. CASE ClaimTickets(p)
    <3>1. PICK batch \in SUBSET Tickets :
            ticket' = [u \in Tickets |-> IF u \in batch THEN ClaimedRow(ticket[u], p) ELSE ticket[u]]
      BY <2>1 DEF ClaimTickets, ClaimedRow
    <3>2. ClaimedRow(ticket[t], p).ttl = ticket[t].ttl
      BY <1>1 DEF ClaimedRow, TicketRow
    <3> QED BY <3>1, <3>2
  <2>2. CASE BeginTicket(p)
    BY <1>1, <2>2 DEF BeginTicket, TicketRow
  <2>3. CASE PassOver(p) \/ StopWorker(p)
    BY <2>3 DEF PassOver, StopWorker
  <2> QED BY <1>3, <2>1, <2>2, <2>3
<1>4. ASSUME NEW p \in Process, NEW u \in Tickets, NEW st, ticket' = Completed(u, p, st)
      PROVE  ticket'[t].ttl = ticket[t].ttl
  BY <1>1, <1>4 DEF Completed, TicketRow
<1>5. ASSUME NEW p \in Process, NEW u \in Tickets, CreateConflicts(p, u) \/ FinishTicket(p, u) \/ Throw(p, u)
      PROVE  ticket'[t].ttl = ticket[t].ttl
  BY <1>4, <1>5 DEF CreateConflicts, FinishTicket, Throw
<1>6. ASSUME NEW p \in Process, NEW u \in Tickets, Replace(p, u) \/ Create(p, u)
      PROVE  ticket'[t].ttl = ticket[t].ttl
  BY <1>6 DEF Replace, Create
<1>7. CASE FailExpired \/ TicketTick
  <2>1. ticket'[t] \in {ticket[t], EndedRow(ticket[t], "failed"), TickedRow(ticket[t])}
    BY <1>7 DEF FailExpired, TicketTick, EndedRow, TickedRow
  <2>2. EndedRow(ticket[t], "failed").ttl = ticket[t].ttl /\ TickedRow(ticket[t]).ttl = ticket[t].ttl
    BY <1>1 DEF EndedRow, TickedRow, TicketRow
  <2> QED BY <2>1, <2>2
<1>8. CASE UNCHANGED ticketVars
  BY <1>8 DEF ticketVars
<1> QED BY <1>2, <1>3, <1>5, <1>6, <1>7, <1>8 DEF TicketNext, Progress

LEMMA TodosShrink ==
  ASSUME TicketInv, \A q \in Process : work[q].todo <= MaxMemories, [TicketNext]_ticketVars, NEW q \in Process
  PROVE  work'[q].todo <= MaxMemories
<1>1. work \in [Process -> WorkRow] /\ work[q].todo \in Nat /\ MaxMemories \in Nat
  BY TicketAssumption DEF TicketInv, WorkTyped, WorkRow
<1>2. ASSUME NEW p \in Process, NEW r, r.todo <= MaxMemories, work' = [work EXCEPT ![p] = r]
      PROVE  work'[q].todo <= MaxMemories
  BY <1>1, <1>2
<1>3. CASE UNCHANGED work
  BY <1>3
<1>4. ASSUME NEW p \in Process, NEW t, NEW n \in 0..MaxMemories, NEW b, work' = [work EXCEPT ![p] = Begun(t, n, b)]
      PROVE  work'[q].todo <= MaxMemories
  BY <1>1, <1>2, <1>4 DEF Begun
<1>5. ASSUME NEW t \in Tickets, Post(t)
      PROVE  work'[q].todo <= MaxMemories
  BY <1>3, <1>4, <1>5 DEF Post, Process
<1>6. ASSUME NEW p \in Process, ClaimTickets(p)
      PROVE  work'[q].todo <= MaxMemories
  BY <1>1, <1>6 DEF ClaimTickets, WorkRow
<1>7. ASSUME NEW p \in Process, BeginTicket(p)
      PROVE  work'[q].todo <= MaxMemories
  <2>1. PICK t \in work[p].batch, n \in 0..MaxMemories : work' = [work EXCEPT ![p] = Begun(t, n, work[p].batch \ {t})]
    BY <1>7 DEF BeginTicket
  <2> QED BY <1>4, <2>1
<1>8. ASSUME NEW p \in Process, NEW f, work[p].todo > 0, work' = Outcome(p, f)
      PROVE  work'[q].todo <= MaxMemories
  <2>1. work'[q].todo \in {work[q].todo, work[q].todo - 1}
    BY <1>1, <1>8 DEF Outcome, WorkRow
  <2> QED BY <1>1, <2>1
<1>9. ASSUME NEW p \in Process, work' = Finished(p)
      PROVE  work'[q].todo <= MaxMemories
  BY <1>1, <1>2, <1>9 DEF Finished, Between
<1>10. ASSUME NEW p \in Process, StopWorker(p)
       PROVE  work'[q].todo <= MaxMemories
  BY <1>1, <1>2, <1>10 DEF StopWorker, NoWork, Between
<1>11. ASSUME NEW p \in Process, NEW t \in Tickets,
              PassOver(p) \/ Replace(p, t) \/ Create(p, t)
       PROVE  work'[q].todo <= MaxMemories
  BY <1>8, <1>11 DEF PassOver, Replace, Create
<1>12. ASSUME NEW p \in Process, NEW t \in Tickets,
              CreateConflicts(p, t) \/ FinishTicket(p, t) \/ Throw(p, t)
       PROVE  work'[q].todo <= MaxMemories
  BY <1>9, <1>12 DEF CreateConflicts, FinishTicket, Throw
<1>13. CASE FailExpired \/ TicketTick \/ UNCHANGED ticketVars
  BY <1>3, <1>13 DEF FailExpired, TicketTick, ticketVars
<1>14. ASSUME NEW p \in Process, PassOver(p)
       PROVE  work'[q].todo <= MaxMemories
  BY <1>8, <1>14 DEF PassOver
<1> QED BY <1>5, <1>6, <1>7, <1>10, <1>11, <1>12, <1>13, <1>14 DEF TicketNext, Progress

LEMMA TicketsBoundedStep == TicketInv /\ TicketsBounded /\ [TicketNext]_ticketVars => TicketsBounded'
<1> SUFFICES ASSUME TicketInv, TicketsBounded, [TicketNext]_ticketVars
             PROVE  TicketsBounded'
  OBVIOUS
<1>1. \A t \in Tickets : ticket'[t].ttl \in TicketTtls \cup {0}
  BY TtlsStay DEF TicketsBounded
<1>2. \A p \in Process : work'[p].todo <= MaxMemories
  BY TodosShrink DEF TicketsBounded
<1>3. registered' \subseteq Keyed
  BY DEF TicketsBounded, TicketNext, Progress, Post, ClaimTickets, BeginTicket, PassOver, Replace, Create, CreateConflicts,
         FinishTicket, Throw, FailExpired, StopWorker, TicketTick, ticketVars
<1>4. begun' \subseteq Tickets /\ ticketCauses' \subseteq Tickets
  <2>1. \A p \in Process : work[p].at \subseteq Tickets /\ work[p].batch \subseteq Tickets
    BY DEF TicketInv, WorkTyped, WorkRow
  <2>2. \A t \in Tickets : WorkOn(t) => begun' \subseteq Tickets /\ ticketCauses' \subseteq Tickets
    BY DEF WorkOn, TicketsBounded
  <2>3. \/ UNCHANGED <<begun, ticketCauses>>
        \/ \E t \in Tickets : WorkOn(t)
        \/ \E t \in Tickets : UNCHANGED begun /\ ticketCauses' = ticketCauses \cup {t}
        \/ \E p \in Process : UNCHANGED begun /\ ticketCauses' = ticketCauses \cup work[p].at
    BY <2>1 DEF TicketNext, Progress, Post, ClaimTickets, BeginTicket, PassOver, Replace, Create, CreateConflicts,
                FinishTicket, Throw, FailExpired, StopWorker, TicketTick, ticketVars
  <2> QED BY <2>1, <2>2, <2>3 DEF TicketsBounded
<1>5. ticketFaults' \in 0..MaxTicketFaults
  <2>1. UNCHANGED ticketFaults \/ (ticketFaults < MaxTicketFaults /\ ticketFaults' = ticketFaults + 1)
    BY DEF TicketNext, Progress, Post, ClaimTickets, BeginTicket, PassOver, Replace, Create, CreateConflicts,
           FinishTicket, Throw, FailExpired, StopWorker, TicketTick, ticketVars
  <2> QED BY <2>1, TicketAssumption DEF TicketsBounded
<1> QED BY <1>1, <1>2, <1>3, <1>4, <1>5 DEF TicketsBounded

LEMMA TicketTypes == TicketInv /\ TicketsBounded => TicketTypeOK
<1> SUFFICES ASSUME TicketInv, TicketsBounded
             PROVE  TicketTypeOK
  OBVIOUS
<1>1. ASSUME NEW t \in Tickets
      PROVE  ticket[t] \in [status : Open \cup Terminal \cup {"none"}, ttl : TicketTtls \cup {0}, left : Nat,
                            lease : Nat, attempts : Nat, owner : Process \cup {NoBody}]
  BY DEF TicketInv, TicketsTimed, Timed, TicketRow, TicketsBounded
<1>2. ticket \in [Tickets -> [status : Open \cup Terminal \cup {"none"}, ttl : TicketTtls \cup {0}, left : Nat,
                              lease : Nat, attempts : Nat, owner : Process \cup {NoBody}]]
  <2>1. ticket = [t \in Tickets |-> ticket[t]]
    BY DEF TicketInv, TicketsTimed
  <2> QED BY <1>1, <2>1
<1>3. ASSUME NEW p \in Process
      PROVE  /\ work[p].batch \subseteq Tickets /\ work[p].at \subseteq Tickets /\ Cardinality(work[p].at) <= 1
             /\ work[p].todo \in 0..MaxMemories
  <2>1. work[p] \in WorkRow /\ \A t, u \in work[p].at : t = u
    BY DEF TicketInv, WorkTyped
  <2>2. work[p].at = {} \/ \E t : work[p].at = {t}
    BY <2>1
  <2>3. Cardinality(work[p].at) <= 1
    <3>1. Cardinality(work[p].at) \in {0, 1}
      BY <2>2, FS_EmptySet, FS_Singleton
    <3> QED BY <3>1
  <2>4. work[p].todo \in 0..MaxMemories
    BY <2>1, TicketAssumption DEF WorkRow, TicketsBounded
  <2> QED BY <2>1, <2>3, <2>4 DEF WorkRow
<1>4. made \in [Tickets -> Nat]
  BY DEF TicketInv, VainInv
<1> QED BY <1>2, <1>3, <1>4 DEF TicketTypeOK, TicketsBounded

OwnedWhileRunning(r) == (r.owner # NoOne) = (r.status = "running")

CoordBounded ==
  /\ \A t \in Events : tasks[t].lease <= TaskLease /\ OwnedWhileRunning(tasks[t])
  /\ receipts \subseteq Events
  /\ dedupe \in [first : Events \cup {NoEvent}, left : 0..DedupeWindow]
  /\ flight \in [owner : Hands \cup {NoOne}, left : 0..FlightTtl]
  /\ taskFaults \in 0..MaxTaskFaults

LEMMA CoordBoundedInit == CoordInit => CoordBounded
<1> SUFFICES ASSUME CoordInit
             PROVE  CoordBounded
  OBVIOUS
<1>1. \A t \in Events : tasks[t].lease <= TaskLease /\ OwnedWhileRunning(tasks[t])
  BY CoordAssumption DEF CoordInit, NoTask, Task, OwnedWhileRunning
<1>2. 0 \in 0..DedupeWindow /\ 0 \in 0..FlightTtl /\ 0 \in 0..MaxTaskFaults
  BY CoordAssumption
<1> QED BY <1>1, <1>2 DEF CoordInit, CoordBounded

LEMMA LeasesBounded ==
  ASSUME CoordInv, CoordBounded, [CoordNext]_coordVars, NEW u \in Events
  PROVE  tasks'[u].lease <= TaskLease /\ OwnedWhileRunning(tasks'[u])
<1>1. tasks \in [Events -> TaskRows] /\ tasks[u].lease <= TaskLease /\ OwnedWhileRunning(tasks[u])
  BY DEF CoordInv, CoordTyped, CoordBounded
<1>2. ASSUME NEW t \in Events, NEW st, st # "running", NEW a, NEW d, tasks' = [tasks EXCEPT ![t] = Task(st, a, NoOne, 0, d)]
      PROVE  tasks'[u].lease <= TaskLease /\ OwnedWhileRunning(tasks'[u])
  <2>1. Task(st, a, NoOne, 0, d).lease <= TaskLease /\ OwnedWhileRunning(Task(st, a, NoOne, 0, d))
    BY <1>2, CoordAssumption DEF Task, OwnedWhileRunning
  <2> QED BY <1>1, <1>2, <2>1
<1>3. CASE UNCHANGED tasks
  BY <1>1, <1>3
<1>4. ASSUME NEW e \in Events, Dispatch(e) \/ ReplayDlq(e)
      PROVE  tasks'[u].lease <= TaskLease /\ OwnedWhileRunning(tasks'[u])
  <2>1. \/ UNCHANGED tasks
        \/ tasks' = [tasks EXCEPT ![e] = Task("queued", 0, NoOne, 0, 0)]
        \/ tasks' = [tasks EXCEPT ![e] = Task("recovered", tasks[e].attempt, NoOne, 0, tasks[e].delay)]
    BY <1>4 DEF Dispatch, ReplayDlq
  <2> QED BY <1>2, <1>3, <2>1
<1>5. ASSUME NEW h \in Hands, NEW t \in Events, AlreadySucceeded(h, t) \/ AlreadyInFlight(h, t)
      PROVE  tasks'[u].lease <= TaskLease /\ OwnedWhileRunning(tasks'[u])
  <2>1. \/ tasks' = [tasks EXCEPT ![t] = Task("succeeded", Attempt(t), NoOne, 0, 0)]
        \/ tasks' = [tasks EXCEPT ![t] = Task("retry_wait", Attempt(t), NoOne, 0, 1)]
    BY <1>5 DEF AlreadySucceeded, AlreadyInFlight
  <2> QED BY <1>2, <2>1
<1>6. ASSUME NEW h \in Hands, NEW t \in Events, BeginTask(h, t)
      PROVE  tasks'[u].lease <= TaskLease /\ OwnedWhileRunning(tasks'[u])
  <2> DEFINE r == Task("running", Attempt(t), h, TaskLease, 0)
  <2>1. r.lease <= TaskLease /\ OwnedWhileRunning(r)
    BY CoordAssumption DEF Task, OwnedWhileRunning
  <2>2. tasks' = [tasks EXCEPT ![t] = r]
    BY <1>6 DEF BeginTask
  <2> HIDE DEF r
  <2> QED BY <1>1, <2>1, <2>2
<1>7. ASSUME NEW h \in Hands, NEW t \in Events, HandlerSucceeds(h, t) \/ HandlerFails(h, t)
      PROVE  tasks'[u].lease <= TaskLease /\ OwnedWhileRunning(tasks'[u])
  <2>1. PICK st \in {"succeeded", "retry_wait", "dlq"}, d \in {0, 1} : Settle(h, t, st, d)
    BY <1>7 DEF HandlerSucceeds, HandlerFails
  <2>2. UNCHANGED tasks \/ tasks' = [tasks EXCEPT ![t] = Task(st, tasks[t].attempt, NoOne, 0, d)]
    BY <2>1 DEF Settle
  <2> QED BY <1>2, <1>3, <2>2
<1>8. CASE SweepTask
  <2>1. PICK s \in sweep : LET t == s[1] IN
          tasks' = [tasks EXCEPT ![t] = IF s[2] = TaskMax
                      THEN Task("dlq", tasks[t].attempt, NoOne, 0, tasks[t].delay)
                      ELSE Task("recovered", tasks[t].attempt, NoOne, 0, 1)]
    BY <1>8 DEF SweepTask
  <2>2. PICK t \in Events : t = s[1]
    BY DEF CoordInv, CoordTyped
  <2>3. PICK st \in {"dlq", "recovered"}, d \in {1, tasks[t].delay} : tasks' = [tasks EXCEPT ![t] = Task(st, tasks[t].attempt, NoOne, 0, d)]
    BY <2>1, <2>2
  <2> QED BY <1>2, <2>3
<1>9. CASE CoordTick
  <2> DEFINE r == Task(tasks[u].status, tasks[u].attempt, tasks[u].owner, Count(tasks[u].lease), Count(tasks[u].delay))
  <2>1. tasks'[u] = r
    BY <1>9 DEF CoordTick
  <2>2. tasks[u].lease \in Nat /\ Count(tasks[u].lease) <= tasks[u].lease /\ Count(tasks[u].lease) \in Nat
    BY <1>1 DEF TaskRows, Count
  <2>3. Count(tasks[u].lease) <= TaskLease
    BY <1>1, <2>2, CoordAssumption
  <2>4. r.lease = Count(tasks[u].lease) /\ OwnedWhileRunning(r)
    BY <1>1 DEF Task, OwnedWhileRunning
  <2> HIDE DEF r
  <2> QED BY <2>1, <2>3, <2>4
<1>10. CASE ListExpired \/ ReceiptExpires \/ UNCHANGED coordVars
  BY <1>3, <1>10 DEF ListExpired, ReceiptExpires, coordVars
<1> QED BY <1>4, <1>5, <1>6, <1>7, <1>8, <1>9, <1>10 DEF CoordNext, Drain

LEMMA WindowsBounded ==
  ASSUME CoordBounded, [CoordNext]_coordVars
  PROVE  /\ dedupe' \in [first : Events \cup {NoEvent}, left : 0..DedupeWindow]
         /\ flight' \in [owner : Hands \cup {NoOne}, left : 0..FlightTtl]
<1>1. /\ dedupe \in [first : Events \cup {NoEvent}, left : 0..DedupeWindow]
      /\ flight \in [owner : Hands \cup {NoOne}, left : 0..FlightTtl]
  BY DEF CoordBounded
<1>2. CASE CoordTick
  <2>1. Count(dedupe.left) \in 0..DedupeWindow /\ Count(flight.left) \in 0..FlightTtl
    BY <1>1, CoordAssumption DEF Count
  <2>2. dedupe' = [dedupe EXCEPT !.left = Count(dedupe.left)]
    BY <1>2 DEF CoordTick
  <2>3. PICK o \in Hands \cup {NoOne} : flight' = [flight EXCEPT !.left = Count(flight.left), !.owner = o]
    BY <1>1, <1>2 DEF CoordTick
  <2> QED BY <1>1, <2>1, <2>2, <2>3
<1>3. \A h \in Hands : Landed(h) \in [owner : Hands \cup {NoOne}, left : 0..FlightTtl]
  BY <1>1, CoordAssumption DEF Landed
<1>4. \/ CoordTick
      \/ UNCHANGED dedupe
      \/ \E e \in Events : dedupe' = [first |-> e, left |-> DedupeWindow]
  BY DEF CoordNext, Drain, Dispatch, AlreadySucceeded, AlreadyInFlight, BeginTask, HandlerSucceeds, HandlerFails,
         ReplayDlq, ListExpired, SweepTask, ReceiptExpires, coordVars
<1>5. \/ CoordTick
      \/ UNCHANGED flight
      \/ \E h \in Hands : flight' = Landed(h) \/ flight' = [owner |-> h, left |-> FlightTtl]
  BY DEF CoordNext, Drain, Dispatch, AlreadySucceeded, AlreadyInFlight, BeginTask, HandlerSucceeds, HandlerFails, Settle,
         ReplayDlq, ListExpired, SweepTask, ReceiptExpires, coordVars
<1>6. DedupeWindow \in 0..DedupeWindow /\ FlightTtl \in 0..FlightTtl
  BY CoordAssumption
<1> QED BY <1>1, <1>2, <1>3, <1>4, <1>5, <1>6

LEMMA CoordBoundedStep == CoordInv /\ CoordBounded /\ [CoordNext]_coordVars => CoordBounded'
<1> SUFFICES ASSUME CoordInv, CoordBounded, [CoordNext]_coordVars
             PROVE  CoordBounded'
  OBVIOUS
<1>1. \A t \in Events : tasks'[t].lease <= TaskLease /\ OwnedWhileRunning(tasks'[t])
  BY LeasesBounded
<1>2. /\ dedupe' \in [first : Events \cup {NoEvent}, left : 0..DedupeWindow]
      /\ flight' \in [owner : Hands \cup {NoOne}, left : 0..FlightTtl]
  BY WindowsBounded
<1>3. receipts' \subseteq Events
  BY DEF CoordBounded, CoordNext, Drain, Dispatch, AlreadySucceeded, AlreadyInFlight, BeginTask, HandlerSucceeds, HandlerFails,
         ReplayDlq, ListExpired, SweepTask, ReceiptExpires, CoordTick, coordVars
<1>4. taskFaults' \in 0..MaxTaskFaults
  <2>1. UNCHANGED taskFaults \/ (taskFaults < MaxTaskFaults /\ taskFaults' = taskFaults + 1)
    BY DEF CoordNext, Drain, Dispatch, AlreadySucceeded, AlreadyInFlight, BeginTask, HandlerSucceeds, HandlerFails,
           ReplayDlq, ListExpired, SweepTask, ReceiptExpires, CoordTick, TaskFault, coordVars
  <2> QED BY <2>1, CoordAssumption DEF CoordBounded
<1> QED BY <1>1, <1>2, <1>3, <1>4 DEF CoordBounded, OwnedWhileRunning

LEMMA CoordTypes == CoordInv /\ CoordBounded => CoordTypeOK
<1> SUFFICES ASSUME CoordInv, CoordBounded
             PROVE  CoordTypeOK
  OBVIOUS
<1>1. ASSUME NEW t \in Events
      PROVE  /\ tasks[t].status \in Waiting \cup {"none", "running", "succeeded", "dlq"}
             /\ tasks[t].attempt \in 0..TaskMax /\ tasks[t].lease \in 0..TaskLease
             /\ (tasks[t].owner # NoOne) = (tasks[t].status = "running")
  BY CoordAssumption DEF CoordInv, CoordTyped, TaskRows, CoordBounded, OwnedWhileRunning
<1>2. \A h \in Hands : hand[h].phase \in {"idle", "handle"}
  BY DEF CoordInv, CoordTyped, HandRows, NoWorkAt
<1> QED BY <1>1, <1>2 DEF CoordTypeOK, CoordBounded

-----------------------------------------------------------------------------
(* The mechanisms side by side                                             *)

CacheAll == CacheInv /\ CacheBounded
BreakerAll == BreakerInv /\ BreakerBounded
TicketAll == TicketInv /\ TicketsBounded
CoordAll == CoordInv /\ CoordBounded

\* the invariants of all the mechanisms, those at rest included
PartsInv == part \in Parts /\ CacheAll /\ BreakerAll /\ TicketAll /\ GovInv /\ CoordAll

\* A step is one of a mechanism, and stutters in every other.
LEMMA PartsMove ==
  ASSUME [Next]_partVars
  PROVE  /\ [CacheNext]_cacheVars /\ [BreakerNext]_breakerVars /\ [TicketNext]_ticketVars
         /\ [GovNext]_govVars /\ [CoordNext]_coordVars
         /\ UNCHANGED part
<1>1. CASE UNCHANGED partVars
  BY <1>1 DEF partVars
<1>2. CASE Next
  BY <1>2 DEF Next
<1> QED BY <1>1, <1>2

(***************************************************************************)
(* Each mechanism keeps its types and its bounds: ledgers and versions     *)
(* seen, expiries, waits and leases, attempts, batches of one ticket at a  *)
(* time, owners just while a task runs.                                    *)
(***************************************************************************)
THEOREM PartsAreTyped == Spec => []PartsTypeOK
<1>1. Init => PartsInv
  <2>1. CacheInit => CacheAll
    BY CacheInitInv, CacheBoundedInit DEF CacheAll
  <2>2. BreakerInit => BreakerAll
    BY BreakerInvInit, BreakerBoundedInit DEF BreakerAll
  <2>3. TicketInit => TicketAll
    BY TicketsInit, VainInvInit, TicketsBoundedInit DEF TicketAll, TicketInv
  <2>4. CoordInit => CoordAll
    BY CoordInvInit, CoordBoundedInit DEF CoordAll
  <2> QED BY <2>1, <2>2, <2>3, <2>4, GovInvInit DEF Init, PartsInv
<1>2. PartsInv /\ [Next]_partVars => PartsInv'
  <2>1. CacheAll /\ [CacheNext]_cacheVars => CacheAll'
    BY CacheNextInv, CacheBoundedStep DEF CacheAll
  <2>2. BreakerAll /\ [BreakerNext]_breakerVars => BreakerAll'
    BY BreakerInvStep, BreakerBoundedStep DEF BreakerAll
  <2>3. TicketAll /\ [TicketNext]_ticketVars => TicketAll'
    <3>1. TicketInv /\ [TicketNext]_ticketVars => TicketInv'
      BY WorkTypedStep, TicketsTimedStep, VainInvStep DEF TicketInv
    <3> QED BY <3>1, TicketsBoundedStep DEF TicketAll
  <2>4. CoordAll /\ [CoordNext]_coordVars => CoordAll'
    BY CoordInvStep, CoordBoundedStep DEF CoordAll
  <2> QED BY <2>1, <2>2, <2>3, <2>4, GovInvStep, PartsMove DEF PartsInv
<1>3. PartsInv => PartsTypeOK
  BY CacheTypes, BreakerTypes, TicketTypes, CoordTypes
     DEF PartsInv, CacheAll, BreakerAll, TicketAll, CoordAll, GovInv, PartsTypeOK, Parts
<1> QED BY <1>1, <1>2, <1>3, PTL DEF Spec

(***************************************************************************)
(* The behaviours of MCBackground are behaviours of each mechanism by      *)
(* itself, so that every theorem above holds of what its run explores.     *)
(***************************************************************************)
THEOREM PartsAreThemselves ==
  Spec => /\ CacheSpec /\ TicketSpec /\ GovSpec /\ CoordSpec
          /\ BreakerInit /\ [][BreakerNext]_breakerVars
<1>1. Init => CacheInit /\ BreakerInit /\ TicketInit /\ GovInit /\ CoordInit
  BY DEF Init
<1>2. [Next]_partVars => /\ [CacheNext]_cacheVars /\ [BreakerNext]_breakerVars /\ [TicketNext]_ticketVars
                         /\ [GovNext]_govVars /\ [CoordNext]_coordVars
  BY PartsMove
<1> QED BY <1>1, <1>2, PTL DEF Spec, CacheSpec, TicketSpec, GovSpec, CoordSpec
=============================================================================
