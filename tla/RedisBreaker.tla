----------------------------- MODULE RedisBreaker -----------------------------
(***************************************************************************)
(* The sliding-window circuit breaker in front of Redis, as the recall     *)
(* cache uses it: operations that ask it, probe the connection or not, and *)
(* report; and the events of the client, which report to it as well.       *)
(***************************************************************************)
EXTENDS Integers

CONSTANTS
  CacheOps,     \* operations on the cache that may be under way together
  MinCalls,     \* minCalls of the window
  HalfOpenMax,  \* halfOpenMaxAttempts
  MaxCalls,     \* bound on the calls of a kind in a window
  MaxErrors     \* bound on the times the connection breaks

VARIABLES
  breaker,    \* state, halfOpenAttempts, whether cooldownMs is over
  calls,      \* the window: failures and successes recorded in it
  available,  \* the flag of RedisRecallCache
  conn,       \* the client: ready, reconnecting, or closed
  opPhase,    \* of each operation
  errors

ASSUME BreakerAssumption ==
  HalfOpenMax \in Nat \ {0} /\ MinCalls \in Nat /\ MaxCalls \in Nat /\ MaxErrors \in Nat

breakerVars == <<breaker, calls, available, conn, opPhase, errors>>

BreakerTypeOK ==
  /\ breaker \in [state : {"closed", "open", "half-open"}, attempts : 0..HalfOpenMax, cooled : BOOLEAN]
  /\ calls.failed \in 0..MaxCalls /\ calls.ok \in 0..MaxCalls
  /\ available \in BOOLEAN
  /\ conn \in {"ready", "reconnecting", "closed"}
  /\ opPhase \in [CacheOps -> {"idle", "ping", "use"}]
  /\ errors \in 0..MaxErrors

BreakerIn(state, attempts, cooled) == [state |-> state, attempts |-> attempts, cooled |-> cooled]

BreakerInit ==
  /\ breaker = BreakerIn("closed", 0, FALSE)
  /\ calls = [failed |-> 0, ok |-> 0]
  /\ available = TRUE /\ conn = "ready"
  /\ opPhase = [o \in CacheOps |-> "idle"]
  /\ errors = 0

-----------------------------------------------------------------------------
Opened(b) == BreakerIn("open", b.attempts, FALSE)
Closed(b) == BreakerIn("closed", 0, b.cooled)

\* one call more in the window, which an older one may just have left
Plus(n) == IF n < MaxCalls THEN n + 1 ELSE n

RecordSuccess ==
  IF breaker.state = "half-open"
    THEN breaker' = Closed(breaker) /\ calls' = [failed |-> 0, ok |-> 0]
    ELSE calls' = [calls EXCEPT !.ok = Plus(@)] /\ UNCHANGED breaker

\* Variant: a failed probe leaves the breaker half-open.
RecordFailure_Counts ==
  LET now == [calls EXCEPT !.failed = Plus(@)] IN
  /\ calls' = now
  /\ IF breaker.state # "half-open" /\ now.failed + now.ok >= MinCalls /\ now.failed >= now.ok
       THEN breaker' = Opened(breaker) ELSE UNCHANGED breaker

\* with the failure rate of one half that is the default
RecordFailure ==
  IF breaker.state = "half-open"
    THEN breaker' = Opened(breaker) /\ UNCHANGED calls
    ELSE LET now == [calls EXCEPT !.failed = Plus(@)] IN
         /\ calls' = now
         /\ IF now.failed + now.ok >= MinCalls /\ now.failed >= now.ok
              THEN breaker' = Opened(breaker) ELSE UNCHANGED breaker

\* canExecute: what becomes of the breaker when an operation asks ...
Asked == IF breaker.state = "open" /\ breaker.cooled
           THEN BreakerIn("half-open", 0, TRUE) ELSE breaker

\* Variant: one attempt more than halfOpenMaxAttempts.
Granted_OneMore == \/ Asked.state = "closed"
                   \/ Asked.state = "half-open" /\ Asked.attempts <= HalfOpenMax

\* ... and whether it may go on
Granted == \/ Asked.state = "closed"
           \/ Asked.state = "half-open" /\ Asked.attempts < HalfOpenMax

\* ensureAvailable: an operation that may go on uses the connection at once
\* when it is marked available, and pings otherwise.
AskBreaker(o) ==
  /\ opPhase[o] = "idle"
  /\ breaker' = IF Granted /\ Asked.state = "half-open" THEN BreakerIn("half-open", Asked.attempts + 1, Asked.cooled) ELSE Asked
  /\ opPhase' = [opPhase EXCEPT ![o] = IF ~Granted THEN "idle"
                                       ELSE IF available /\ conn # "closed" THEN "use" ELSE "ping"]
  /\ UNCHANGED <<calls, available, conn, errors>>

\* a ping that is answered
PingAnswered(o) ==
  /\ opPhase[o] = "ping" /\ conn = "ready"
  /\ available' = TRUE
  /\ RecordSuccess
  /\ opPhase' = [opPhase EXCEPT ![o] = "use"]
  /\ UNCHANGED <<conn, errors>>

\* the operation itself: its success is not reported
UseAnswered(o) ==
  /\ opPhase[o] = "use" /\ conn = "ready"
  /\ opPhase' = [opPhase EXCEPT ![o] = "idle"]
  /\ UNCHANGED <<breaker, calls, available, conn, errors>>

\* markUnavailable, of a ping or of the operation
OpFails(o) ==
  /\ opPhase[o] # "idle" /\ conn # "ready"
  /\ available' = FALSE
  /\ RecordFailure
  /\ opPhase' = [opPhase EXCEPT ![o] = "idle"]
  /\ UNCHANGED <<conn, errors>>

\* the error event: a connection breaks, or the client gives up reconnecting
Breaks ==
  /\ errors < MaxErrors /\ errors' = errors + 1
  /\ \/ conn = "ready" /\ conn' = "reconnecting"
     \/ conn = "reconnecting" /\ conn' = "closed"
  /\ available' = FALSE
  /\ RecordFailure
  /\ UNCHANGED opPhase

\* the ready event, of the client reconnecting by itself or for a ping
Ready ==
  /\ conn = "reconnecting" \/ (conn = "closed" /\ \E o \in CacheOps : opPhase[o] = "ping")
  /\ conn' = "ready"
  /\ available' = TRUE
  /\ RecordSuccess
  /\ UNCHANGED <<opPhase, errors>>

Cooldown ==
  /\ breaker.state = "open" /\ ~breaker.cooled
  /\ breaker' = BreakerIn("open", breaker.attempts, TRUE)
  /\ UNCHANGED <<calls, available, conn, opPhase, errors>>

\* prune: calls have grown too old for the window
Prune ==
  /\ \E f \in 0..calls.failed, k \in 0..calls.ok : calls' = [failed |-> f, ok |-> k]
  /\ calls' # calls
  /\ UNCHANGED <<breaker, available, conn, opPhase, errors>>

OpStep(o) == AskBreaker(o) \/ PingAnswered(o) \/ UseAnswered(o) \/ OpFails(o)

BreakerNext ==
  \/ \E o \in CacheOps : OpStep(o)
  \/ Breaks \/ Ready \/ Cooldown \/ Prune

\* operations keep coming and end, the client reconnects, time passes
BreakerSpec ==
  /\ BreakerInit /\ [][BreakerNext]_breakerVars
  /\ \A o \in CacheOps : WF_breakerVars(OpStep(o))
  /\ WF_breakerVars(Ready) /\ WF_breakerVars(Cooldown)

-----------------------------------------------------------------------------
\* "redis recall cache probes half-open and recovers after transient failures"
\* (tests/redis-recall-cache.test.ts:234): once the connection stops breaking,
\* the cache is used again and again.
CacheComesBack == <>[](conn = "ready") => []<>(breaker.state = "closed")

\* A probe is lost in one way only: half-open, with its attempts used up and
\* none of them under way, the cache must have been marked available by the
\* ready event, so that the operation let through was no probe.
ProbeLostOnlyWhenAvailable ==
  breaker.state = "half-open" /\ breaker.attempts = HalfOpenMax =>
    available \/ \E o \in CacheOps : opPhase[o] # "idle"
=============================================================================
