----------------------------- MODULE OutboxQueue -----------------------------
(***************************************************************************)
(* The transactional outbox and the processes that drain it into Qdrant:   *)
(* DatabaseQdrantSyncOutboxRepository, QdrantProjectorWorker and the       *)
(* replay service of replay-repair.ts, over PostgreSQL at READ COMMITTED.  *)
(*                                                                         *)
(* Outbox rows are totally ordered by (created_at, id); row e is the e-th  *)
(* in that order, so the cursor is a row number and 0 stands for NULL.     *)
(* A transaction is split where another one can be seen in between: at     *)
(* its reads, at the statement that takes the row lock, and at COMMIT.     *)
(***************************************************************************)
EXTENDS Integers, FiniteSets

CONSTANTS
  Workers,        \* projector worker processes (run-qdrant-projector-worker.ts)
  Replayers,      \* operators running replay-qdrant-outbox.ts --mark-dispatched
  NumEvents,      \* bound on the outbox rows ever written
  MaxAttempts,    \* DEFAULT_MAX_ATTEMPTS / QdrantProjectorWorkerDependencies
  MaxFaults,      \* bound on process crashes and lost COMMIT answers
  OrderedCommits  \* TRUE: rows become visible in (created_at, id) order

ASSUME OutboxAssumption ==
  /\ NumEvents \in Nat \ {0}
  /\ MaxAttempts \in Nat \ {0}
  /\ MaxFaults \in Nat
  /\ OrderedCommits \in BOOLEAN
  /\ Workers \cap Replayers = {}

VARIABLES
  row,      \* outbox_events: status, attempts, dispatch_started_at set or not
  cursor,   \* exporter_state.last_successful_event_id (cursor is kept equal)
  summary,  \* exporter_state.failure_summary, by kind
  proc,     \* what each process holds between two steps
  synced,   \* history: rows whose memories were completely projected once
  faults    \* faults spent

vars == <<row, cursor, summary, proc, synced, faults>>

Events  == 1..NumEvents
Procs   == Workers \cup Replayers
Status  == {"absent", "pending", "failed", "dispatched"}
Summary == {"none", "retry", "dead_letter"}
Verdict == {"dispatched", "retry", "dead_letter"}
Row     == [status: Status, attempts: Nat, started: BOOLEAN]

Absent  == [status |-> "absent", attempts |-> 0, started |-> FALSE]

(***************************************************************************)
(* A process: idle; reading (claim has read the cursor); claiming (holds   *)
(* the row lock of the claim); syncing (syncMemoryIds runs); marking (a    *)
(* verdict is known, the mark transaction is about to read the row);       *)
(* writing (it has read the row); locked (it has written the row and read  *)
(* the cursor, COMMIT is pending); down (the daemon has ended).            *)
(***************************************************************************)
Phase == {"idle", "reading", "claiming", "syncing", "marking", "writing", "locked", "down"}

Proc == [phase: Phase, event: 0..NumEvents, attempts: Nat, verdict: Verdict,
         rowRead: Row, cursorRead: 0..NumEvents]

IdleProc == [phase |-> "idle", event |-> 0, attempts |-> 0, verdict |-> "dispatched",
             rowRead |-> Absent, cursorRead |-> 0]
DownProc == [IdleProc EXCEPT !.phase = "down"]

Init ==
  /\ row = [e \in Events |-> Absent]
  /\ cursor = 0
  /\ summary = "none"
  /\ proc = [p \in Procs |-> IdleProc]
  /\ synced = {}
  /\ faults = 0

-----------------------------------------------------------------------------
(* Helpers                                                                 *)

Committed(e) == row[e].status # "absent"
Open(e)      == row[e].status \in {"pending", "failed"} /\ row[e].attempts < MaxAttempts
Dead(e)      == row[e].status = "failed" /\ row[e].attempts >= MaxAttempts
Closed(e)    == row[e].status = "dispatched" \/ Dead(e)

LockedRow(e) == \E p \in Procs : proc[p].phase \in {"claiming", "locked"} /\ proc[p].event = e

\* Variant: the attempts of a row are not looked at.
Processable_AnyAttempts(e, c) == row[e].status \in {"pending", "failed"} /\ e > c
\* isProcessable, and the WHERE clause of the claim with cursor value c.
Processable(e, c) == Open(e) /\ e > c
\* Variant: rows another worker has started are claimed as well.
Claimable_Started(e, c) == Processable(e, c) /\ ~LockedRow(e)
Claimable(e, c) ==
  /\ Processable(e, c)
  /\ \/ ~row[e].started
     \/ row[e].status = "failed"
  /\ ~LockedRow(e)              \* FOR UPDATE SKIP LOCKED

Goto(p, phase) == proc' = [proc EXCEPT ![p].phase = phase]

-----------------------------------------------------------------------------
(* The write chain: OutboxEventRepository.append inside the ledger's       *)
(* transaction; the row is visible when that transaction commits.          *)
Append(e) ==
  /\ ~Committed(e)
  /\ OrderedCommits => \A d \in Events : d < e => Committed(d)
  /\ row' = [row EXCEPT ![e].status = "pending"]
  /\ UNCHANGED <<cursor, summary, proc, synced, faults>>

-----------------------------------------------------------------------------
(* drainOnce of the projector worker                                       *)

\* claimProcessableEvents, first statements: the cursor is read.
ClaimRead(p) ==
  /\ p \in Workers
  /\ proc[p].phase = "idle"
  /\ proc' = [proc EXCEPT ![p].phase = "reading", ![p].cursorRead = cursor]
  /\ UNCHANGED <<row, cursor, summary, synced, faults>>

\* Variant: no ORDER BY.
ClaimLock_AnyOrder(p) ==
  /\ proc[p].phase = "reading"
  /\ \E e \in Events :
       /\ Claimable(e, proc[p].cursorRead)
       /\ proc' = [proc EXCEPT ![p].phase = "claiming", ![p].event = e,
                               ![p].attempts = row[e].attempts]
  /\ UNCHANGED <<row, cursor, summary, synced, faults>>

\* ... the candidate row is found and locked; its attempts go into the event.
ClaimLock(p) ==
  /\ proc[p].phase = "reading"
  /\ \E e \in Events :
       /\ Claimable(e, proc[p].cursorRead)
       /\ \A d \in Events : d < e => ~Claimable(d, proc[p].cursorRead)
       /\ proc' = [proc EXCEPT ![p].phase = "claiming", ![p].event = e,
                               ![p].attempts = row[e].attempts]
  /\ UNCHANGED <<row, cursor, summary, synced, faults>>

\* ... or there is none and drainOnce returns "idle".
ClaimNone(p) ==
  /\ proc[p].phase = "reading"
  /\ \A e \in Events : ~Claimable(e, proc[p].cursorRead)
  /\ proc' = [proc EXCEPT ![p] = IdleProc]
  /\ UNCHANGED <<row, cursor, summary, synced, faults>>

\* ... COMMIT of the claim: dispatch_started_at is set, the status is kept.
ClaimCommit(p) ==
  /\ proc[p].phase = "claiming"
  /\ row' = [row EXCEPT ![proc[p].event].started = TRUE]
  /\ Goto(p, "syncing")
  /\ UNCHANGED <<cursor, summary, synced, faults>>

\* syncMemoryIds returns and no item is a failed skip.
SyncOk(p) ==
  /\ proc[p].phase = "syncing"
  /\ synced' = synced \cup {proc[p].event}
  /\ proc' = [proc EXCEPT ![p].phase = "marking", ![p].verdict = "dispatched"]
  /\ UNCHANGED <<row, cursor, summary, faults>>

\* The catch block: the verdict depends on the attempts the claim returned.
FailureVerdict(p) ==
  IF proc[p].attempts + 1 >= MaxAttempts THEN "dead_letter" ELSE "retry"

\* Variant: failed skips are not looked at.
SyncFail_Ignored(p) ==
  /\ p \in Workers
  /\ proc[p].phase = "syncing"
  /\ proc' = [proc EXCEPT ![p].phase = "marking", ![p].verdict = "dispatched"]
  /\ UNCHANGED <<row, cursor, summary, synced, faults>>

\* syncMemoryIds throws, or reports embedding_missing / projection_verify_failed.
SyncFail(p) ==
  /\ p \in Workers
  /\ proc[p].phase = "syncing"
  /\ proc' = [proc EXCEPT ![p].phase = "marking", ![p].verdict = FailureVerdict(p)]
  /\ UNCHANGED <<row, cursor, summary, synced, faults>>

-----------------------------------------------------------------------------
(* markDispatched, markRetry, markDeadLetter                               *)

\* getOutboxEventOrThrow: a plain SELECT, no lock is taken.
MarkRead(p) ==
  /\ proc[p].phase = "marking"
  /\ proc' = [proc EXCEPT ![p].phase = "writing", ![p].rowRead = row[proc[p].event]]
  /\ UNCHANGED <<row, cursor, summary, synced, faults>>

\* persistOutboxEvent blocks on the row lock; then persistCursor reads the
\* exporter row it is about to write back.
MarkLock(p) ==
  /\ proc[p].phase = "writing"
  /\ ~LockedRow(proc[p].event)
  /\ proc' = [proc EXCEPT ![p].phase = "locked", ![p].cursorRead = cursor]
  /\ UNCHANGED <<row, cursor, summary, synced, faults>>

\* Variants: attempts counts down; is not counted on failure; a retry puts
\* the row back to pending and leaves its start time.
MarkedRow_CountsDown(p) ==
  [status   |-> IF proc[p].verdict = "dispatched" THEN "dispatched" ELSE "failed",
   attempts |-> proc[p].rowRead.attempts - 1,
   started  |-> proc[p].verdict = "dispatched"]
MarkedRow_SameAttempts(p) ==
  [status   |-> IF proc[p].verdict = "dispatched" THEN "dispatched" ELSE "failed",
   attempts |-> proc[p].rowRead.attempts,
   started  |-> proc[p].verdict = "dispatched"]
MarkedRow_BackToPending(p) ==
  [status   |-> IF proc[p].verdict = "dispatched" THEN "dispatched" ELSE "pending",
   attempts |-> proc[p].rowRead.attempts + 1,
   started  |-> TRUE]
\* The row each mark writes, from the row it has read.
MarkedRow(p) ==
  [status   |-> IF proc[p].verdict = "dispatched" THEN "dispatched" ELSE "failed",
   attempts |-> proc[p].rowRead.attempts + 1,
   started  |-> proc[p].verdict = "dispatched"]

\* The effect of the COMMIT of a mark transaction on the two tables.
WriteMark(p) ==
  /\ row' = [row EXCEPT ![proc[p].event] = MarkedRow(p)]
  /\ cursor' = IF proc[p].verdict = "dispatched" THEN proc[p].event ELSE proc[p].cursorRead
  /\ summary' = IF proc[p].verdict = "dispatched" THEN "none" ELSE proc[p].verdict

\* A worker goes on to its next claim; the replay script ends.
MarkCommit(p) ==
  /\ proc[p].phase = "locked"
  /\ WriteMark(p)
  /\ proc' = [proc EXCEPT ![p] = IF p \in Workers THEN IdleProc ELSE DownProc]
  /\ UNCHANGED <<synced, faults>>

-----------------------------------------------------------------------------
(* Faults. An error of markDispatched is caught by drainOnce and counted   *)
(* as a failed attempt, even when its COMMIT had gone through: the answer  *)
(* was lost, or loadCursor failed inside the same try block. An error of   *)
(* the claim, of markRetry or of markDeadLetter leaves drainOnce and       *)
(* runLoop: the daemon ends, as it does on a crash.                        *)

MarkAnswerLost(p) ==
  /\ p \in Workers
  /\ faults < MaxFaults
  /\ proc[p].phase = "locked"
  /\ proc[p].verdict = "dispatched"
  /\ WriteMark(p)
  /\ proc' = [proc EXCEPT ![p].phase = "marking", ![p].verdict = FailureVerdict(p)]
  /\ faults' = faults + 1
  /\ UNCHANGED synced

Crash(p) ==
  /\ p \in Workers
  /\ faults < MaxFaults
  /\ proc[p].phase # "down"
  /\ proc' = [proc EXCEPT ![p] = DownProc]
  /\ faults' = faults + 1
  /\ UNCHANGED <<row, cursor, summary, synced>>

\* Restart=always of memory-xx-qdrant-projector-worker.service.
Restart(p) ==
  /\ p \in Workers
  /\ proc[p].phase = "down"
  /\ proc' = [proc EXCEPT ![p] = IdleProc]
  /\ UNCHANGED <<row, cursor, summary, synced, faults>>

-----------------------------------------------------------------------------
(* One run of replay-qdrant-outbox.ts --mark-dispatched: a row is loaded   *)
(* by id whatever its status, its memories are projected and, whatever     *)
(* syncMemoryIds reports, it is marked dispatched. No row is claimed.      *)

ReplayLoad(p) ==
  /\ p \in Replayers
  /\ proc[p].phase = "idle"
  /\ \E e \in Events :
       /\ Committed(e)
       /\ proc' = [proc EXCEPT ![p].phase = "syncing", ![p].event = e,
                               ![p].attempts = row[e].attempts]
  /\ UNCHANGED <<row, cursor, summary, synced, faults>>

ReplaySyncIncomplete(p) ==
  /\ p \in Replayers
  /\ proc[p].phase = "syncing"
  /\ proc' = [proc EXCEPT ![p].phase = "marking", ![p].verdict = "dispatched"]
  /\ UNCHANGED <<row, cursor, summary, synced, faults>>

-----------------------------------------------------------------------------
WorkerStep(p) ==
  \/ ClaimRead(p) \/ ClaimLock(p) \/ ClaimNone(p) \/ ClaimCommit(p)
  \/ SyncOk(p) \/ SyncFail(p)
  \/ MarkRead(p) \/ MarkLock(p) \/ MarkCommit(p)

ReplayStep(p) == ReplayLoad(p) \/ ReplaySyncIncomplete(p)

FaultStep(p) == MarkAnswerLost(p) \/ Crash(p)

Next ==
  \/ \E e \in Events : Append(e)
  \/ \E p \in Procs : WorkerStep(p) \/ ReplayStep(p) \/ FaultStep(p) \/ Restart(p)

Spec == Init /\ [][Next]_vars

\* A worker that runs keeps running (runLoop), and systemd restarts it.
Fairness == \A p \in Workers : WF_vars(WorkerStep(p)) /\ WF_vars(Restart(p))

FairSpec == Spec /\ Fairness

-----------------------------------------------------------------------------
(* Properties                                                              *)

TypeOK ==
  /\ row \in [Events -> Row]
  /\ cursor \in 0..NumEvents
  /\ summary \in Summary
  /\ proc \in [Procs -> Proc]
  /\ synced \subseteq Events
  /\ faults \in 0..MaxFaults

Holding == {"claiming", "syncing", "marking", "writing", "locked"}
Holds(p, e) == proc[p].phase \in Holding /\ proc[p].event = e
Held(e)     == \E p \in Procs : Holds(p, e)

\* An open row no process holds and no claim will ever return: it is behind
\* the cursor, or a claim that never finished left its start time set.
Stranded(e) ==
  /\ Open(e)
  /\ ~Held(e)
  /\ \/ e <= cursor
     \/ row[e].started /\ row[e].status = "pending"

\* One worker, no fault, rows visible in order: every open row is one the
\* next claims will return, or the worker has it. (claimProcessableEvents
\* skips started and overtaken rows for good, so nothing else rescues them.)
NoEventStranded == \A e \in Events : ~Stranded(e)

\* check-db-invariants.ts, outbox_cursor_points_to_dispatched: the row the
\* exporter cursor names is dispatched.
CursorPointsToDispatched == cursor # 0 => row[cursor].status = "dispatched"

\* Workers alone acknowledge a row, in its status or in the cursor, only
\* after its memories were completely projected, whatever the interleaving
\* of claims, stale reads and marks of several workers.
AcknowledgedWasSynced ==
  /\ \A e \in Events : row[e].status = "dispatched" => e \in synced
  /\ cursor # 0 => cursor \in synced

\* Two workers may hold the same row, but only after it failed once: the
\* claim's row lock and start time make the first attempt exclusive.
FirstAttemptExclusive ==
  \A p, q \in Workers : \A e \in Events :
    p # q /\ Holds(p, e) /\ Holds(q, e) => row[e].status # "pending" \/ row[e].attempts > 0

\* A row is attempted at most MaxAttempts times, plus once for each fault
\* that made a worker count an attempt twice.
AttemptsBounded == \A e \in Events : row[e].attempts <= MaxAttempts + faults

\* With every actor present, a row is stranded only when its holder crashes
\* or marks it failed behind the cursor, when it becomes visible behind the
\* cursor, or when a mark carries the cursor over it.
StrandingCauses ==
  [][\A e \in Events : ~Stranded(e) /\ Stranded(e)' =>
       \/ ~Committed(e) /\ e <= cursor
       \/ cursor < e /\ e <= cursor'
       \/ Held(e) /\ faults' = faults + 1
       \/ Held(e) /\ row'[e].status = "failed" /\ e <= cursor']_vars

\* Under faults every committed row is settled in the end, or stranded.
SettledOrStranded == \A e \in Events : Committed(e) ~> Closed(e) \/ Stranded(e)

-----------------------------------------------------------------------------
(* One worker, no faults, no replay, rows visible in order.                *)

Calm(w) ==
  /\ Workers = {w} /\ Replayers = {}
  /\ MaxFaults = 0
  /\ OrderedCommits = TRUE

\* Rows become visible in order, untouched.
RowsInOrder ==
  \A e \in Events :
    /\ row[e].status = "absent" => ~row[e].started
    /\ row[e].status \in {"absent", "pending"} => row[e].attempts = 0
    /\ Committed(e) => \A d \in Events : d < e => Committed(d)

\* The cursor names a dispatched row, separates settled rows from the rest,
\* and only a row in hand can be started without having failed.
CursorSplits ==
  /\ CursorPointsToDispatched
  /\ \A e \in Events :
       /\ e <= cursor => Closed(e)
       /\ e > cursor => row[e].status # "dispatched"
       /\ row[e].status = "pending" /\ row[e].started => Held(e)

\* The row in hand is the first open one, and what was read of it is current.
HandIsFirst ==
  \A p \in Procs :
    /\ proc[p].phase # "down"
    /\ proc[p].phase \in {"reading", "locked"} => proc[p].cursorRead = cursor
    /\ proc[p].phase \in Holding =>
         /\ proc[p].event \in Events
         /\ Open(proc[p].event)
         /\ \A d \in Events : d < proc[p].event => Closed(d)
    /\ proc[p].phase \in {"writing", "locked"} => proc[p].rowRead = row[proc[p].event]

\* The inductive invariant behind NoEventStranded and the in-order promise.
FifoInv == TypeOK /\ RowsInOrder /\ CursorSplits /\ HandIsFirst

-----------------------------------------------------------------------------
(* One worker without faults implements the in-order promise.              *)

Outcome(e) ==
  IF row[e].status = "absent" THEN "absent"
  ELSE IF row[e].status = "dispatched" THEN "dispatched"
  ELSE IF Dead(e) THEN "dead" ELSE "open"

Fifo == INSTANCE OutboxFifo WITH outcome <- [e \in Events |-> Outcome(e)]

\* Rows are settled in the order they were written, and every one is settled.
ImplementsFifo == Fifo!Spec
=============================================================================
