---------------------------- MODULE Coordination ----------------------------
(***************************************************************************)
(* The coordination runtime: events that ask for the same work (the same   *)
(* scopes) are dispatched into tasks of a queue; workers claim a task for  *)
(* a time, handle it and settle it; a sweeper takes back tasks whose lease *)
(* is over. A dedupe window collapses events, a single-flight key keeps    *)
(* two workers apart, an idempotency record remembers a success.           *)
(***************************************************************************)
EXTENDS Integers

CONSTANTS
  Events,          \* events that ask for the work; the task of each has its name
  Hands,           \* workers
  TaskLease,       \* leaseTtlMs, in ticks
  TaskMax,         \* maxAttempts
  DedupeWindow,    \* dedupeWindowMs
  FlightTtl,       \* singleFlightTtlMs
  MaxTaskFaults    \* bound on handlers that do not succeed, and on replays

VARIABLES
  tasks,      \* the queue: status, attempts, owner and ticks left of the lease, ticks to visibleAt
  dedupe,     \* the dedupe window: task seen first, ticks left
  flight,     \* the single-flight record: owner, ticks left
  receipts,   \* tasks whose idempotency record says succeeded, while it lives
  hand,       \* what each worker is doing
  sweep,      \* tasks listed by the sweeper, with the attempts listed
  owed,       \* history: events with no success of a handler begun since
  joinedLate, \* history: events collapsed onto a task already begun, done or dead
  outlived,   \* history: tasks whose lease has run out
  handled,    \* history: tasks that handlers have succeeded with, and those handled again
  taskFaults

coordVars == <<tasks, dedupe, flight, receipts, hand, sweep, owed, joinedLate, outlived, handled, taskFaults>>

NoOne     == "no one"
NoEvent   == "no event"
Waiting   == {"queued", "retry_wait", "recovered"}
NoWorkAt  == [phase |-> "idle"]

ASSUME CoordAssumption ==
  /\ TaskLease \in Nat \ {0} /\ TaskMax \in Nat \ {0} /\ NoOne \notin Hands
  /\ DedupeWindow \in Nat /\ FlightTtl \in Nat /\ MaxTaskFaults \in Nat

Task(status, attempt, owner, lease, delay) ==
  [status |-> status, attempt |-> attempt, owner |-> owner, lease |-> lease, delay |-> delay]
NoTask    == Task("none", 0, NoOne, 0, 0)

CoordTypeOK ==
  /\ \A t \in Events : tasks[t].status \in Waiting \cup {"none", "running", "succeeded", "dlq"}
                       /\ tasks[t].attempt \in 0..TaskMax /\ tasks[t].lease \in 0..TaskLease
                       /\ (tasks[t].owner # NoOne) = (tasks[t].status = "running")
  /\ receipts \subseteq Events
  /\ dedupe.left \in 0..DedupeWindow /\ flight.left \in 0..FlightTtl
  /\ \A h \in Hands : hand[h].phase \in {"idle", "handle"}
  /\ taskFaults \in 0..MaxTaskFaults

CoordInit ==
  /\ tasks = [t \in Events |-> NoTask]
  /\ dedupe = [first |-> NoEvent, left |-> 0]
  /\ flight = [owner |-> NoOne, left |-> 0]
  /\ receipts = {}
  /\ hand = [h \in Hands |-> NoWorkAt]
  /\ sweep = {}
  /\ owed = {} /\ joinedLate = {} /\ outlived = {}
  /\ handled = [once |-> {}, again |-> {}]
  /\ taskFaults = 0

TaskFault == taskFaults < MaxTaskFaults /\ taskFaults' = taskFaults + 1

-----------------------------------------------------------------------------
(* Dispatch *)

\* register: the first of a window is let in
Accepted == dedupe.left = 0

\* An event is dispatched once; its own record answers every later call.
Dispatch(e) ==
  /\ tasks[e].status = "none" /\ e \notin owed \cup joinedLate
  /\ IF Accepted
       THEN /\ tasks' = [tasks EXCEPT ![e] = Task("queued", 0, NoOne, 0, 0)]
            /\ dedupe' = [first |-> e, left |-> DedupeWindow]
            /\ UNCHANGED joinedLate
       ELSE /\ joinedLate' = IF tasks[dedupe.first].status \in Waiting THEN joinedLate ELSE joinedLate \cup {e}
            /\ UNCHANGED <<tasks, dedupe>>
  /\ owed' = owed \cup {e}
  /\ UNCHANGED <<flight, receipts, hand, sweep, outlived, handled, taskFaults>>

-----------------------------------------------------------------------------
(* A worker: drainOnce *)

\* Variant: a task the sweeper took back is not claimed again.
Claimable_NotRecovered(t) == tasks[t].status \in {"queued", "retry_wait"} /\ tasks[t].delay = 0

\* claimNext, for one of the tasks that are visible (the lanes and the order
\* within them are left out). Of two workers that read the same task, the
\* first to write is refused by markRunning, so that only the last has it.
CanClaim(t) == tasks[t].status \in Waiting /\ tasks[t].delay = 0

\* the attempt of a claim; more than TaskMax decide no more than TaskMax do
Attempt(t) == IF tasks[t].attempt = TaskMax THEN TaskMax ELSE tasks[t].attempt + 1

Claim(h, t) == hand[h] = NoWorkAt /\ CanClaim(t)

AlreadySucceeded(h, t) ==
  /\ Claim(h, t) /\ t \in receipts
  /\ tasks' = [tasks EXCEPT ![t] = Task("succeeded", Attempt(t), NoOne, 0, 0)]
  /\ UNCHANGED <<dedupe, receipts, flight, hand, sweep, owed, joinedLate, outlived, handled, taskFaults>>

AlreadyInFlight(h, t) ==
  /\ Claim(h, t) /\ t \notin receipts /\ flight.left > 0
  /\ tasks' = [tasks EXCEPT ![t] = Task("retry_wait", Attempt(t), NoOne, 0, 1)]
  /\ UNCHANGED <<dedupe, receipts, flight, hand, sweep, owed, joinedLate, outlived, handled, taskFaults>>

BeginTask(h, t) ==
  /\ Claim(h, t) /\ t \notin receipts /\ flight.left = 0
  /\ tasks' = [tasks EXCEPT ![t] = Task("running", Attempt(t), h, TaskLease, 0)]
  /\ flight' = [owner |-> h, left |-> FlightTtl]
  /\ hand' = [hand EXCEPT ![h] = [phase |-> "handle", task |-> t, carries |-> owed]]
  /\ UNCHANGED <<dedupe, receipts, sweep, owed, joinedLate, outlived, handled, taskFaults>>

Handles(h, t) == hand[h].phase = "handle" /\ hand[h].task = t
Owns(h, t)    == tasks[t].owner = h

\* the flight is given up in the finally of drainOnce, if it is still one's own
Landed(h) == IF flight.owner = h THEN [owner |-> NoOne, left |-> 0] ELSE flight

\* The handler is done. assertLeaseOwner compares the deadline with the time
\* drainOnce began, which it never exceeds, so that only the owner counts; a
\* worker that has lost the task throws out of drainOnce. (For the same reason
\* renewLease, called by a handler, sets the deadline there is.)
Settle(h, t, status, delay) ==
  /\ tasks' = IF Owns(h, t) THEN [tasks EXCEPT ![t] = Task(status, tasks[t].attempt, NoOne, 0, delay)] ELSE tasks
  /\ hand' = [hand EXCEPT ![h] = NoWorkAt]
  /\ flight' = Landed(h)

\* the success goes into the idempotency record, which keeps its expiry (so
\* that one that is over by now stays none)
HandlerSucceeds(h, t) ==
  /\ Handles(h, t)
  /\ Settle(h, t, "succeeded", 0)
  /\ \/ Owns(h, t) /\ receipts' = receipts \cup {t}
     \/ UNCHANGED receipts
  /\ owed' = owed \ hand[h].carries
  /\ handled' = [once |-> handled.once \cup {t}, again |-> handled.again \cup ({t} \cap handled.once)]
  /\ UNCHANGED <<dedupe, sweep, joinedLate, outlived, taskFaults>>

\* it asks for a retry, throws, or sends the task to the dead letters
HandlerFails(h, t) ==
  /\ Handles(h, t) /\ TaskFault
  /\ \/ Settle(h, t, "retry_wait", 1)
     \/ Settle(h, t, "dlq", 0)
  /\ receipts' = IF Owns(h, t) THEN receipts \ {t} ELSE receipts
  /\ UNCHANGED <<dedupe, sweep, owed, joinedLate, outlived, handled>>

-----------------------------------------------------------------------------
(* Recovery *)

\* Variant: every task that is leased counts as expired.
Expired_All(t) == tasks[t].status = "running"

Expired(t) == tasks[t].status = "running" /\ tasks[t].lease = 0

\* findExpiredLeaseTasks
ListExpired ==
  /\ sweep = {}
  /\ sweep' = {<<t, tasks[t].attempt>> : t \in {u \in Events : Expired(u)}}
  /\ sweep' # {}
  /\ UNCHANGED <<tasks, dedupe, flight, receipts, hand, owed, joinedLate, outlived, handled, taskFaults>>

\* requeue or moveToDlq of a task listed, whatever has become of it since
SweepTask ==
  /\ \E s \in sweep : LET t == s[1] IN
       /\ tasks' = [tasks EXCEPT ![t] = IF s[2] = TaskMax
                       THEN Task("dlq", tasks[t].attempt, NoOne, 0, tasks[t].delay)
                       ELSE Task("recovered", tasks[t].attempt, NoOne, 0, 1)]
       /\ sweep' = sweep \ {s}
  /\ UNCHANGED <<dedupe, flight, receipts, hand, owed, joinedLate, outlived, handled, taskFaults>>

\* replayDlq, by hand; the attempts stay
ReplayDlq(t) ==
  /\ tasks[t].status = "dlq" /\ TaskFault
  /\ tasks' = [tasks EXCEPT ![t] = Task("recovered", tasks[t].attempt, NoOne, 0, tasks[t].delay)]
  /\ UNCHANGED <<dedupe, flight, receipts, hand, sweep, owed, joinedLate, outlived, handled>>

Count(n) == IF n = 0 THEN 0 ELSE n - 1

\* a record is over four leases after it was first started
ReceiptExpires ==
  /\ \E t \in receipts : receipts' = receipts \ {t}
  /\ UNCHANGED <<tasks, dedupe, flight, hand, sweep, owed, joinedLate, outlived, handled, taskFaults>>

\* Time passes. A flight that is over counts as none.
CoordTick ==
  /\ \/ dedupe.left > 0 \/ flight.left > 0
     \/ \E t \in Events : tasks[t].lease > 0 \/ tasks[t].delay > 0
  /\ tasks' = [t \in Events |-> Task(tasks[t].status, tasks[t].attempt, tasks[t].owner,
                                     Count(tasks[t].lease), Count(tasks[t].delay))]
  /\ dedupe' = [dedupe EXCEPT !.left = Count(@)]
  /\ flight' = [flight EXCEPT !.left = Count(@), !.owner = IF flight.left <= 1 THEN NoOne ELSE @]
  /\ outlived' = outlived \cup {t \in Events : tasks[t].lease = 1}
  /\ UNCHANGED <<receipts, hand, sweep, owed, joinedLate, handled, taskFaults>>

Drain(h) ==
  \E t \in Events : AlreadySucceeded(h, t) \/ AlreadyInFlight(h, t) \/ BeginTask(h, t) \/ HandlerSucceeds(h, t)

CoordNext ==
  \/ \E e \in Events : Dispatch(e) \/ ReplayDlq(e)
  \/ \E h \in Hands : Drain(h) \/ \E t \in Events : HandlerFails(h, t)
  \/ ListExpired \/ SweepTask \/ ReceiptExpires
  \/ CoordTick

\* workers drain and handlers end, the sweeper is called, time passes
CoordFairness ==
  /\ \A h \in Hands : WF_coordVars(Drain(h))
  /\ WF_coordVars(ListExpired \/ SweepTask) /\ WF_coordVars(CoordTick)

CoordSpec == CoordInit /\ [][CoordNext]_coordVars /\ CoordFairness

-----------------------------------------------------------------------------
\* A task is handled with success a second time only if its lease has run out
\* once: neither a replay, nor a collapsed event, nor two workers at the queue
\* repeat the work of a task whose worker was in time.
HandledAgainHasACause == handled.again \subseteq outlived

\* In the end each event has been followed by a handling of its scopes that
\* began after it, whatever workers fall behind and handlers fail, unless a
\* task of these scopes is a dead letter, or the event fell into the dedupe
\* window of a task that was already being handled, done or dead.
EventsAreServed ==
  <>[](\A e \in owed : e \in joinedLate \/ \E t \in Events : tasks[t].status = "dlq")
=============================================================================
