# Formal verification of memory-xx

memory-xx is a long-term memory service for agents. PostgreSQL holds the ledger
of memories; the Qdrant collection, the Redis recall cache and the markdown
files are derived from it. This directory holds TLA+ models of the parts that
keep and change state, TLC configurations that check them on small instances,
and theorems about them that the TLA+ proof system checks for every value of
the constants.

    tlc -workers 2 -config outbox_fifo.cfg MCOutbox.tla     # a run
    tlapm OutboxFifoProofs.tla                              # proofs

`PROJECT.json` lists components, runs, the source lines of every definition
(`map`), hazards, mutants, findings and theorems. Source paths below are
relative to `src/`.

## 1. The system

The server (HTTP, MCP, CLI) turns every request into a command for a service.
A service registers the `request_id`, opens one PostgreSQL transaction at READ
COMMITTED, changes rows, appends audit events and outbox rows, marks the
request completed, commits, and then projects, invalidates caches and answers.
A worker process drains the outbox into Qdrant. Operators and timers run
scripts over the same tables.

| Part | State it keeps | Operations | Talks to | What is hard | What makes it correct |
|---|---|---|---|---|---|
| Request idempotency (`app/write/services/request-idempotency-service.ts`, `ingest-request-repository.ts`) | `ingest_requests`: status, payload hash, result, lease | register, replay, recover, mark completed or failed, sweep of expired leases | every write and review service | a row read without a lock and acted on later; crashes; answers lost between database and service; a lease that nobody renews | a request is bound to one payload, executed at most once, settled for good, and only its sender gets its result |
| Write and review services (`app/write`, `app/review`) | `memory_records`, freezes | create, approve, reject, archive, supersede, tombstone, update candidate | outbox, projection, cache | READ COMMITTED: what a `SELECT ... FOR UPDATE` does not see; advisory locks only some transactions take | current rows are live rows, version chains do not fork, decisions are final, one current row per key, every change is announced |
| Maintenance scripts (`scripts/memory-*.ts`, `app/orchestrator`) | `memory_governance_actions`, and the same rows | auto-approval sweep, policy backfill, debt plan, consolidation, clean-up of review states, governance run (with its provenance backfill) and revert, auto-update and rollback, consistency repair | the services, or SQL of their own | they read without locks, decide, and write much later | a decision stands against old reads, no dead row becomes current, what is recorded can be undone, what changes unannounced is known |
| Outbox and projector worker (`app/qdrant-sync/outbox-worker.ts`, `daemon.ts`) | `outbox_events`, `exporter_state` | append, claim, sync, mark dispatched / retry / dead letter, replay | services write rows, `syncMemoryIds` projects them | several workers, crashes between claim and mark, rows that become visible late, a cursor written from an old read | rows are settled in order, acknowledged only after projection, none is passed over |
| Qdrant projection (`app/qdrant-sync/projector.ts`, reconcile, repair) | the points of the collection | snapshot, embed, check, upsert, delete | ledger, embedding provider, Qdrant over HTTP | no lock and no version on a point; calls overlap; a request given up after its timeout may still land | only content that was live is shown, and a point that differs has a cause somebody can name and undo |
| Recall cache (`app/cache`, `app/recall/orchestrator.ts`) | answers in Redis, an index of keys per scope, `cache_invalidation_requests` | look up, store, name in the index, invalidate a scope, repeat failed invalidations | recall, services, a worker started by a timer | no two Redis operations are atomic; a store racing an invalidation; an index that expires before its entries; a worker that ends between work and mark | what is stale and never removed has a cause somebody can name; what is marked done was done; the cache settles |
| Circuit breaker (`app/shared/circuit-breaker.ts` under the cache) | state, half-open attempts, window of calls | ask, report success or failure, cool down | operations on the cache, events of the Redis client | a probe that ends without a report | the cache comes back once Redis does |
| Write tickets (`write-ticket-repository.ts`, `app/api/intelligence/handlers.ts`) | `write_tickets`: status, lease, attempts, age | post, claim, heartbeat, work memory by memory, complete, expire | workers, the server itself, request idempotency | a heartbeat whose answer nobody reads; an outcome written whatever the ticket has become | a ticket is claimed once in time; one that says failed after memories were made has a cause |
| Governance runs (`governance-repository.ts`, `memory-governance-stuck-runs.ts`) | `memory_governance_runs`: status, holder, lease | begin, take over, heartbeat, finish, release, detect stuck runs | scripts started by timers | rows finished by id; a detector that works from a list it read | two runs in time never share a job |
| Coordination (`app/coordination`) | queue, leases, dedupe window, single flight, idempotency records, dead letters | dispatch, claim, handle, settle, sweep, replay | in-memory ports | expiry between a check and its use; a sweep from an old list | a task done in time is not done again; every event is served |
| The rest: recall pipeline, language-model extraction, policies, markdown export, conversation monitor, decay, knowledge graph, HTTP/MCP/CLI, migrations, metrics, sidecars, panel | little or none of its own | reads, scoring, rendering, routing | all of the above | — | — |

How the modelled parts fit together:

    clients -> WriteTickets -> IngestRequests -> MemoryLifecycle -> outbox rows -> OutboxQueue -> QdrantProjection
               GovernanceRuns --> MemoryMaintenance --^    implements        implements
                                                           ProjectedRows        OutboxFifo
               services and scripts --> RecallCache --> RedisBreaker

`IngestRequests` treats the mutation as one effect; `MemoryLifecycle` and
`MemoryMaintenance` say what mutations do to rows. `MemoryMaintenance` is shown
to implement `ProjectedRows`, and `OutboxQueue`, with one worker, no faults and
ordered commits, to implement `OutboxFifo`. `QdrantProjection` is built on
`ProjectedRows` instead of on the detailed modules: it takes any change of rows
that this allows. It cannot be built on `OutboxFifo`, whose order crashes and
late commits break: it has an outbox of its own, that of `OutboxQueue` with one
worker and each transaction in one step, so that what `StrandingCauses` lists
can happen to its events.

The background mechanisms stand beside this chain. They meet it in one action
each: a write of the services or the scripts is one number more in the
`ledger` of `RecallCache`, a create behind a ticket is one memory more in
`WriteTickets`, and what a governance run does to rows is in
`MemoryMaintenance`, which allows it at any time.

## 2. The modules and the code

### OutboxQueue, OutboxFifo, MCOutbox

`DatabaseQdrantSyncOutboxRepository`, `QdrantProjectorWorker`, the daemon loop
and `replay-qdrant-outbox.ts --mark-dispatched`. Rows are numbered in the order
of `(created_at, id)`; `Append` lets them become visible in any order, since a
transaction may commit after a later row. `row` is `outbox_events`, `cursor`
and `summary` are `exporter_state`, `proc` is what a process holds. A
transaction is cut where another one can be seen: `ClaimRead` (cursor),
`ClaimLock` (row lock), `ClaimCommit`; `MarkRead`, `MarkLock`, `MarkCommit`.
`MarkAnswerLost` is a COMMIT that is in while its caller sees an error, after
which `drainOnce` marks the row as failed. `Crash` and `Restart` are the daemon
and systemd. `OutboxFifo` is what producers are promised: rows are dispatched
or dead-lettered strictly in the order they were written.

### IngestRequests, RequestOnce, MCRequests

`row` is `ingest_requests`; `call` is what a service call holds. `Submit` is
the plain SELECT of `register`; `Insert`, `Reject`, `Replay`, `Recover`,
`Refuse` are the branches decided on what it read, with the statement that then
touches the row. `Commit` is mutation and `markCompleted` in one transaction,
`CommitAnswerLost` the same with its answer lost, `Abort` a rollback,
`MarkFailed` and `MarkFailedLost` what follows. `Sweep` is
`sweep-ingest-accepted.ts` over any set of expired rows. `LeaseHolds` says
whether the 120 s lease outlives the call. `RequestOnce` is the promise:
accept, then once complete or fail, then answer.

### MemoryLifecycle, MCLifecycle

`mem` is `memory_records`, `txn` the open transactions, `frozen` the scopes with
a freeze, `announced` the rows given an outbox row by the last transaction.
`SELECT ... FOR UPDATE` at READ COMMITTED is modelled as what it is: `seen` is
the snapshot of the statement; `Hit` returns a row of it once it is not locked
and still matches; a row inserted meanwhile is never returned. A create is
`BeginCreate` (advisory lock, source lookup), `SettleReview` (semantic
duplicate), `LookUpKey`, then `Replay`, `UpdateInPlace`, `Replace` or `Insert`.
A review is `BeginReview` (lock and checks) and then its writes. Hit and writes
of a create are one step because the row lock is held from one to the other and
nothing else is read between. `meta` is what matters of the metadata: the source
block, and whether a recall policy withholds the row from default recall. Which
contents count as similar is a free choice (`Similar`).

### MemoryMaintenance, MCMaintenance

Extends `MemoryLifecycle` with the scripts; the MC module restricts their
behaviours to one of three scenes. What a script has read is in
`swept`, `backlog`, `keyless`, `targets`, `made`, `found`; `ledger` holds the
actions that can be undone. `Sweep` has the WHERE clauses of both UPDATEs;
`Demote`, `ApplyUpdate`, `BackfillReject` and `BackfillMark` write without
looking again, as the code does. `backlog` holds the verdict of the policy on
each candidate with the metadata it was given on, which `BackfillReject` and
`BackfillMark` write back with the row withheld from recall. Two backfills fill
in a missing `dedupe_key` of decided rows: `BackfillProvenance`, the last
statement of a governance run, which looks at each row again and announces it,
and the debt plan, whose statement selects ids (`ReadKeyless`), waits for their
locks and then asks for the key alone (`FillKeys`), with no outbox row. Which
rows a policy picks is a free choice, so that what holds, holds for every
policy; `Withholds` says whether policies may withhold rows that they do not
reject. The field `replaced` of an action is a history variable: the state of
the row just before the action. `Limit`, `MaxActions`, `MaxOpen` bound the
scripts.

### ProjectedRows

The link between the ledger and the projection: each row is absent, held
(neither shown nor deleted: candidates and rejected rows), live, or gone (dead,
or approved and withheld from recall), and a row changes class unannounced only
by being taken out of recall. Consolidation, the rejections of the sweep and
the policy backfill do that; everything else announces.

### QdrantProjection, MCProjection

`syncMemoryIds` request by request: `Read` (snapshot and embeddings), `Check`
(`findIdempotentUpserts`), `Upsert`, `Delete`, `Return`; `Throw` and `Crash`
end a call early and may leave a request `adrift`, which `Arrive` lands or
loses at any later time. `class` and `rev` are the rows, `point` the collection.
`event`, `cursor` and `hand` are the outbox with one worker: a transaction
writes its outbox rows into any free places of the order (`Commit`), perhaps
behind the cursor; `Claim` takes the oldest that may be claimed, and leaves its
start time on it, so that an event whose worker ends in its first attempt is
never claimed again (`Crash`), as `claimProcessableEvents` has it; a mark sets
the cursor, over whatever lies before (`Dispatch`), also that of an operator's
replay with `--mark-dispatched` (`Replay`). Callers besides the worker and the
replay are the services after COMMIT and the repair (`Ask`) and
`qdrant-reconcile --apply` (`Reconcile`: stale and missing points, and drift
where the compared fields show it). `lived` and `excused` are history
variables: revisions at which a row was to be shown, and rows that had one of
the listed causes to diverge. What `OutboxQueue` has beyond this (several
workers, the reads and locks inside a mark, lost COMMIT answers) changes which
attempts are counted and which events are stranded, but not what a sync does;
an event whose mark is lost in this way has had its sync.

### RecallCache

`RedisRecallCache` under the recall orchestrator, `DefaultCacheInvalidator` and
`run-cache-invalidation-worker.ts`. A recall is a program of Redis operations
(`Put`): SET the answer, then name it in the index of every scope; `Hit`, `Miss`,
`Store`, `Name` are its steps. An invalidation is `List` (SMEMBERS), `Evict` (DEL
of the keys), `Drop` (DEL of the index). `Skip` and `Fail` are Redis away or the
breaker open. A failed invalidation becomes a row (`EnqueueInvalidation`), or is
lost (`LoseInvalidation`); the worker claims all rows that are due in one
transaction and takes them one after the other, with a lease. An answer is known
by what it saw of each scope, a number of writes. `excused` is a history
variable: entries that may stay stale, marked by the step that made them so.

### RedisBreaker

`SlidingWindowCircuitBreaker` with the three callers it has in
`redis-recall-cache.ts`: `ensureAvailable` (`AskBreaker`, `PingAnswered`), the
operations (`UseAnswered`, `OpFails`) and the events of the client (`Ready`,
`Breaks`). The window is two numbers which `Prune` may lower at any time.

### WriteTickets

`WriteTicketRepository`, `executeSmartWrite`, `processSmartWrite`,
`processPendingWriteTickets`. A process holds a batch of claimed tickets and the
one it works on; extraction yields a number of memories, and each is passed
over, replaces another, is created, or conflicts. `ticketCauses` is a history
variable. Ages and leases are counted in ticks.

### GovernanceRuns

`tryBeginRun`, `heartbeatRunLease`, `finishRun`, `releaseRunLease` and the
detector of stuck runs, which lists rows and fails them by id: those whose lease
is over, and those whose last heartbeat is as old as `--timeout-minutes`
(`StuckTimeout`), which may be less than the lease. Lease and heartbeat are
written together, so that the age of one tells that of the other (`Silent`).
Processes with a heartbeat are in `Beating`. `late` and `robbed` are history variables.

### Coordination

The in-memory store with worker, sweeper, dispatcher and dead letters, for one
group of events that ask for the same work. `outlived`, `handled`, `joinedLate`
and `owed` are history variables.

### MCBackground

Runs the five modules above as a disjoint sum: the initial state picks one part,
and only that part moves. They share no variable, so that the states are those
of the five together and not their product, and a property holds of the sum
just when it holds of its own specification.

### Proof modules

`OutboxQueueProofs`, `OutboxFifoProofs`, `IngestRequestsProofs`,
`MemoryLifecycleProofs`, `MemoryMaintenanceProofs`, `MaintenanceStepsProofs`,
`QdrantProjectionProofs`, `BackgroundProofs`. They only add lemmas and theorems.

Operators called `X_Something` beside an operator `X` are variants: `X` with a
plausible mistake. Each property is shown to fail when one of them replaces
its original (`mutants` in `PROJECT.json`), so that no property holds merely
by the shape of the model.

## 3. The runs

| Run | Instance | What it shows |
|---|---|---|
| `outbox_fifo` | 1 worker, 4 rows, 3 attempts, no faults, rows in order, with fairness | types; no open row is out of reach (`NoEventStranded`); the outbox implements `OutboxFifo`, liveness included |
| `outbox_faults` | 1 worker, 3 rows, 3 attempts, 2 crashes or lost answers, with fairness | k faults cost at most k extra attempts; only projected rows are acknowledged; every row is settled or stranded for good |
| `outbox_everything` | 2 workers, a replay, 2 rows, 2 attempts, 1 fault, late commits, symmetry | a row is held twice only after it failed once; the complete list of steps that put an open row out of reach |
| `requests_once` | 1 request, 2 payloads, 3 calls, 2 crashes, no lost answers, with fairness | types; a row's status tells whether its effect is there; `RequestOnce` is implemented, liveness included |
| `requests_lost_answers` | 2 requests, 2 payloads, 2 calls, 2 faults, lost answers | at most one effect, one owner, and everybody gets the result of his own payload, even when COMMIT answers are lost |
| `requests_lease_violation` | the lease may expire under a running call | finding 1 |
| `lifecycle_services` | 2 transactions, all operations, a keyed and a source-block create, 2 contents, 3 rows, similarity, freezes, symmetry | current exactly while live; chains do not fork; everything is announced; creates of one key take turns |
| `lifecycle_two_current_violation` | keyed creates and a supersede | finding 2 |
| `maintenance` | 1 service transaction, 2 rows, all scripts, in three scenes (below) | types; no dead row is current; decisions stand but against the writes named in `DecisionsStand`; only an undo or auto-update revives; decided text stays but for a missing key; a revert of an archive loses nothing but the review state an auto-update wrote since the row was read; current rows change unannounced only by the two backfills named; `ProjectedRows` is implemented |
| `projection` | 1 row, 2 changes, 2 outbox rows in any order, 2 faults (replays that mark among them), 2 attempts, worker and operator, with fairness | types; points show content that was live; a point that differs has a listed cause; with an operator who reconciles the projection converges |
| `background` | the five background parts, each by itself, with fairness (instances below) | types; what stays stale has a listed cause; done means cleared; the cache settles; a probe is lost in one way only; a ticket is claimed once in time; failures in vain have a cause; governance runs keep apart; a task is handled again only after its lease ran out; every event is served |
| `breaker_stuck_violation` | 2 operations, 3 errors, window of 2, one half-open attempt, with fairness | finding 3 |

The scenes of `maintenance`, of which a behaviour chooses one at its start (the
variable `scene` of `MCMaintenance`, which only restricts `MSpec`). *Statuses*:
twin candidates, approvals, one recorded action, two scripts with old reads.
*Texts*: an approved row without a key, and a candidate with a source block that
updates reword and creates word back; approvals; two scripts with old reads,
which withhold rows and fill in keys; nothing is recorded to undo. *Undos*:
twins created approved or exempt from review, two recorded actions, one script
with old reads at a time, freezes. In each at most two actors, services and
scripts together, are between their reads and their writes.

The instances of `background`: *cache* 1 scope, 1 recall, 1 writer, 1 worker,
entries of 300 s (search) and 600 s (startup, recent) in ticks of 300 s, 1
write, 2 attempts, lease of 1 tick, 2 faults of Redis; *breaker* 2 operations, 3
errors; *tickets* 1 ticket with a key, 2 workers and the server itself, lifetimes
of 1 and 2 ticks, lease 1, batch 1, 2 memories, 1 fault; *runs* 3 processes of
which 2 have a heartbeat, 3 rows, lease 2, timeout of the detector 1, 1 fault; *coordination* 2 events, 2
workers, lease 1, dedupe window 1, single flight 2, 2 attempts, 1 fault.

**Bounds and why they are enough.** Every counter has a named bound in a guard.
The outbox hazards need a row in hand, a row before it and a row behind it,
and one attempt more than the last: 3 or 4 rows and 3 attempts have them; two
workers meet on one row, and a second row lets one of them move the cursor. A
request needs two calls that race and a third that asks afterwards; two
payloads tell a conflict from a retry. A lookup that misses a replacement needs
two rows and a third inserted; the lost-update cases need two transactions.
The scripts need two twin rows (one to keep, one to lose) and two actors at the
same time, one whose read grows old while the other writes. Their questions are
split over scenes, since each needs another thing to be large: old reads of a
status, two open scripts and an approval; contents and keys, two contents, a key
and the update of a candidate; an undo, an archive and the auto-update that
comes before it, hence two actions. What no scene shows, such as three old reads
or the undo of an action on a row that got its key meanwhile, is left to the
theorems. The projection
needs an old revision, a new one and a late request, and two events, one of
which is passed over; that one call may handle several rows is left to the
theorems. The cache needs one write, since an
answer is stale or not, one entry that outlives the index that names it, and
two faults, so that an invalidation fails and its worker then ends. A second
ticket in a batch only costs time between claim and begin, and that a tick may
cost as well. Three jobs are one that is late, one that takes over and one that
meets them; a timeout of the detector below the lease gives a run that is in
time and yet listed. Two events are one that is handled and one that joins it late. The
theorems take over where larger instances might differ: of the properties of
these runs that have one, they hold for any number of rows, workers, calls and
faults.

**Symmetry** is used for workers and writers, and only in runs without
liveness. **Deadlock** is checked in every run but `background`, since none of
these systems comes to a stop: an idle worker polls, clients ask again, freezes
come and go, services may ask for a projection at any time. In `background` a
part may come to rest: bounded writes, tickets, runs or events have all been
dealt with and no time is left to pass.

**Fairness.**
- Outbox: `WF(WorkerStep)` and `WF(Restart)`. `runLoop` never stops by itself
  and the unit file has `Restart=always`. No fairness for appends and replays.
- Requests: a call that runs continues (`WF(Work)`); the sweep is run again and
  again (`memory:sweep-ingest-accepted`, the operator's job); and the client
  repeats its request (`SF(Submit)`: `Submit` is enabled only while a call is
  free). Without the last two an accepted row whose call crashed stays accepted.
- Projection: calls end, by their timeouts if need be (`WF(Proceed)`); the
  worker keeps claiming; late requests land or are lost (`WF(Arrive)`); the
  operator reconciles while the report shows a difference (`SF(Reconcile)`,
  `memory:qdrant-reconcile --apply` and `memory:auto-repair`). Only `Converges`
  needs the last one.
- Cache: a recall and an invalidation go on with their next operation, the
  worker is started by its timer and goes on (`WF(ClearStep \/ WorkStep)`), and
  time passes. Nothing makes Redis answer: an operation that fails is a fault,
  of which there are a bounded number. No fairness for writes or new recalls.
- Coordination: workers drain and their handlers end (`WF(Drain)`), the sweeper
  is called (`WF(ListExpired \/ SweepTask)`), time passes. None of these is
  started by the server as it stands; it is what an embedder must provide.
- Breaker: operations come and end (`WF(OpStep)`), the client reconnects
  (`WF(Ready)`), the cooldown passes. `CacheComesBack` fails in spite of it.
- Lifecycle, maintenance, tickets and governance runs have no liveness
  property, and no fairness.

## 4. What is proved

For every value of the constants within the assumptions of the modules
(`OutboxAssumption`, `RequestAssumption`, `LifecycleAssumption`,
`ProjectionAssumption`, `CacheAssumption`, `BreakerAssumption`,
`TicketAssumption`, `GovernanceAssumption`, `CoordAssumption`). They say that
bounds are numbers, limits and leases positive, and the names of processes
distinct; the cache needs its scopes to be finitely many, since an answer is
stored under each of them in turn. Every safety property of a passing run is
a theorem; of the temporal ones, everything but liveness.

| Module | Theorem | Extra condition | Statement |
|---|---|---|---|
| OutboxQueueProofs | `TypeCorrect` | | types |
| | `AcknowledgedAfterProjection` | no replay | a dispatched row, and the row of the cursor, were projected |
| | `StrandingHasACause` | | `StrandingCauses`: which steps put an open row out of reach |
| | `FirstAttemptIsExclusive` | | `FirstAttemptExclusive` |
| | `AttemptsAreBounded` | one worker, no replay | `AttemptsBounded`, with any faults and any order of rows |
| OutboxFifoProofs | `NothingStranded`, `CursorSound` | one worker, no faults, rows in order (`Calm`) | `NoEventStranded`; the cursor names a dispatched row (`CursorPointsToDispatched`, no run of its own) |
| | `SettledInOrder` | the same | every step is a step of `OutboxFifo` |
| IngestRequestsProofs | `TypeCorrect` | | types |
| | `ExecutedAtMostOnce`, `OwnedByOne` | `LeaseHolds` | one effect per request, one owner |
| | `AnswersAreOwn` | | `AnswerIsOwn` |
| | `StatusesTellEffects` | `LeaseHolds`, no lost answers (`Orderly`) | `StatusTellsEffect` |
| | `ExecutedAsPromised` | the same | every step is a step of `RequestOnce` |
| MemoryLifecycleProofs | `TypeCorrect`, `LiveRowsAreCurrent`, `ChainsDoNotFork` | | types; two invariants of `lifecycle_services` |
| | `DecisionsFixContent` | services only | content and key are fixed once decided (`DecidedContentIsFixed`, no run of its own) |
| | `StatusesFollowEdges` | services only | statuses move along the listed edges, a tombstone is final |
| | `ChangesAreTold` | services only | `ChangesAreAnnounced` |
| | `CreatesTakeTurns` | services only | `CreatesOfOneKeyTakeTurns` |
| MemoryMaintenanceProofs | `ToolsTypeCorrect`, `DeadRowsAreNotCurrent` | | two invariants of `maintenance` |
| MaintenanceStepsProofs | `DeadRowsStayDead`, `DecisionsAreKept` | | two action properties of `maintenance` |
| | `DecisionsFixContentAmongScripts` | | `DecidedTextStays` |
| | `LiveChangesAreTold` | | `LiveChangesAreAnnounced` |
| | `ArchivesCanBeUndone` | | `ArchivesUndoAllButUpdates` |
| | `ProjectionIsTold` | | services and scripts implement `ProjectedRows` |
| QdrantProjectionProofs | `ProjectionTypeCorrect`, `OnlyLiveContentIsShown` | | types, `PointsWereLive` |
| | `DivergenceIsExcused` | | `DivergenceHasACause` |
| BackgroundProofs | `ProbesAreNotLost` | | `ProbeLostOnlyWhenAvailable` |
| | `TicketsClaimedOnce`, `FailuresHaveCauses` | | `ClaimedOnceInTime`, `FailedInVainHasACause` |
| | `GovernanceRunsKeepApart` | | `RunsApart` |
| | `TasksHandledOnceInTime` | | `HandledAgainHasACause` |
| | `StaleAnswersHaveCauses` | | `StaleHasACause` |
| | `DoneIsCleared` | | `DoneMeansCleared` |
| | `PartsAreTyped` | | `PartsTypeOK`: types and bounds of the five mechanisms |
| | `PartsAreThemselves` | | what `background` explores are behaviours of each mechanism by itself, fairness of the breaker aside |

The arguments:

- **Acknowledgement.** `AcknowledgedWasSynced` is not inductive: the cursor a
  worker has read may be written back later, so what processes hold is part of
  the invariant (`PendingAckSynced`).
- **Order.** `FifoInv` adds that the cursor separates settled rows from the
  rest (`CursorSplits`), that rows are touched only after they are visible
  (`RowsInOrder`), and that the row in hand is the first open one and as it was
  read (`HandIsFirst`).
- **Stranding.** A process has only visible rows in hand, and a row not yet
  visible is untouched (`BornInv`). The rest is a case for each step: what it
  writes to which row (`HandSteps`), and whether it moves the cursor.
- **First attempts.** A row that is pending and held is being claimed by its
  worker, under the row lock, or has its start time set (`FirstInv`), and no
  claim returns a started row unless it has failed.
- **Attempts.** A row in hand has an attempt left (`AttemptsInv`). Only the mark
  of an attempt already counted, whose answer was lost, may exceed the maximum;
  the fault that lost it pays for it.
- **Once.** A working call owns its row: the row is accepted and bound to its
  payload (`ExecutingOwns`, `FailingOwns`), nobody else works on it (`Alone`),
  an effect shuts the row (`EffectShuts`), and the payload read by `register`
  can no longer change (`SeenBound`). `LeaseHolds` enters where `Sweep` might
  take the row away; without it the theorem is false (finding 1).
- **Answers.** A call works on the payload its row is bound to (`WorkBound`),
  and a result in a row is one of its effects, with the payload bound
  (`ResultsTrue`). Neither needs the lease or the answers of the database,
  since a payload once bound never changes.
- **Promise.** When no answer is lost, a call that is about to mark a failure has
  had no effect (`FailingOpen`), and an effect is final (`DoneIsFinal`); each step
  then maps to accepting, completing, failing or answering in `RequestOnce`, or
  to nothing the clients see.
- **Locks.** Each step does one of four things to the rows (`Shape`); a row a
  review has locked is as its checks found it (`LocksHold`, `Fit`), which is
  why neither a constraint nor a second check is needed.
- **Turns.** Two creates under way have different keys (`TurnsTaken`), by the
  advisory lock; so a row inserted or reworded under the key of a running lookup
  is not from a create; of the reviews only a supersede inserts, and only an
  update changes a key.
- **Scripts.** They break that invariant: a repair leaves candidates that are
  not current, a revert makes a superseded row current. What survives is a
  property of each row by itself (`Good`), together with the same of every
  state a script holds and may write back (`Kept`, `Sane`).
- **Announcements.** `MaintenanceStepsProofs` describes each step once: what it
  tells (`Tells`), which changes it makes (`Keeps`), and that it leaves alone
  what reviews hold (`Respects`); from the last follows that the locks of
  reviews still mean something among scripts (`Locks`).
- **Content.** Scripts write statuses and metadata back, never contents, and a
  key only where there is none; a row is reworded by the update that holds its
  lock or the create that finds it, and both see it under review (`Rewords`).
  Without the locks an old check would not do.
- **Undo.** A governance run archives rows that were approved and current when
  read (`Fit`), and the service refuses all others, so that status and currency
  agree. A row that came in without a review never is under one, and no script
  writes approved or not_required but a revert, which restores what such a row
  had (`Unmixed`): if the review state is another, it is silent_approved.
- **Points.** That a content was owed cannot be seen from the points; `PInv`
  says it of the rows, of the snapshot of every call and of every adrift
  request at the same time.
- **Divergence.** `DInv` follows a row that has no cause to differ. As long as an
  event that can still be claimed names it, or the worker has one in hand that
  does (`Named`), its point may differ; after that its point is as owed, and
  whoever is at work on it, or adrift with it, brings what the row is now
  (`AsOwed`, `Current`). Calls that meet at a row are excused (`MetOrAlone`); a
  call that met none finds its own writes in place (`WritesSeen`), which is
  what lets the worker drop the event. A step that takes an event out of reach
  excuses the rows it names (`Passed`, `Dropped`, `Late`).
- **Stale answers.** Four facts are kept about an entry that is not excused: it
  is named in the index of every scope, or is about to be (`UnexcusedNamed`); if
  it is stale, the writer or a row minds it (`Answerable`); an invalidation past
  its listing has the entry on its list, or the entry saw the writes it covers
  (`Removed`); and it covers no more writes than there were (`ClearsCovered`).
  The last gives `DoneMeansCleared` as well: a worker completes a row only with
  an invalidation behind it that listed no earlier than the row was written
  (`RowsCovered`), and a lease taken over does not change what was listed.
- **Types of the parts.** Most of `PartsTypeOK` comes with those invariants; the
  bounds (versions seen, waits, leases, windows, lifetimes) are kept beside them
  (`CacheBounded`, `BreakerBounded`, `TicketsBounded`, `CoordBounded`). A part
  that does not move stutters (`PartsMove`), so that its invariant stays.
- **Probes.** While the breaker is half-open and the cache not available, some
  operation is at its ping (`ProbeUnderWay`): this is what the ready event
  breaks, by making the cache available without closing the breaker.
- **Claims.** A ticket's age and its lease are ordered: while a ticket that
  lives no longer than a lease is claimed, what is left of its life is not more
  than what is left of the claim, so that it is too old when the claim is over.
- **Failures in vain.** Three facts about the history are kept together: who is
  at work has begun (`BegunTells`), a first worker's memories are told by his
  own record (`FirstTells`), and a ticket done well says so (`DoneWell`).
- **Runs.** A process at work that is neither late nor robbed holds the lease of
  its row with time left (`InTimeHolds`), and one row at most has a holder
  (`OneHolder`); two such processes would hold the same row. Whom the detector
  fails is robbed, whatever its timeout.
- **Tasks.** A task whose lease has never run out belongs, while it runs, to the
  one worker that handles it, and once handled with success stays succeeded
  (`InTimeOnce`); what the sweeper has listed has all run out.

**Only model-checked.** Liveness under fairness, which the prover cannot do, nor
ENABLED: `SettledOrStranded`, `Converges`, `CacheSettles`, `EventsAreServed`, and
`ImplementsFifo` and `ImplementsOnce` beyond their steps. The three runs that
expect a violation have counterexamples, and nothing to prove. That
`AttemptsBounded` holds of a single worker only is a condition of the code:
a failed row may be claimed by two, and each
counts its attempt on what it reads when it marks, which may be the maximum.
No module here declares a RECURSIVE operator; induction over data is not needed.

## 5. Where code and documents disagree

With a run:

1. **The lease is never renewed** (`requests_lease_violation`). `heartbeat` has
   no caller and the mutation does not check that the request is still its own,
   so a call of more than 120 s can be swept, repeated and executed twice;
   `tests/write-chain.test.ts:100` promises no duplicate writes.
2. **Two current rows of one key** (`lifecycle_two_current_violation`). A create
   that waits for the row a supersede replaces sees neither of them, and
   inserts; `scripts/check-db-invariants.ts:136` counts such rows as violations.
3. **A probe that is none** (`breaker_stuck_violation`). The Redis client
   reconnects while the breaker is open, and its ready event marks the cache
   available; after the cooldown `ensureAvailable` takes the one half-open
   attempt (`redis-recall-cache.ts:163`), finds the cache available and returns
   without a ping, and nothing reports the success. The breaker stays half-open
   with no attempt left, and the cache unused, until an error event or a
   restart. `tests/redis-recall-cache.test.ts:234` says that it recovers.

Met while reading, without a run, because the model has the behaviour as the
code does and no property of the model depends on what the document says:

- `tombstone` accepts a candidate (`docs/api.md:572-578` lists approved rows only);
  a create that supersedes ignores a freeze (`tests/write-chain.test.ts:674`);
  reviews read the freezes without a lock, so that a freeze may take effect
  between check and write.
- The lookup by `dedupe_key` ignores the scope
  (`memory-record-repository.ts:206`), and the advisory lock does not.
- A reviewer approves by id, whatever the candidate has become since it was
  read (`review-decision-service.ts:118`); an approved create that is held back
  as a candidate for its likeness still supersedes the row of its key
  (`create-memory-service.ts:161`).
- A replay with `--mark-dispatched` marks the event whatever `syncMemoryIds`
  reports (`replay-repair.ts:131`), while `scripts/replay-qdrant-outbox.ts:23`
  speaks of successful replays. `StrandingCauses` has the replay as a cause, and
  `AcknowledgedAfterProjection` excludes it.
- Consolidation archives rows without an outbox row, so that their points stay
  until a reconcile, while `README.md:180` and `docs/features.zh-CN.md:52` say
  that only approved, current rows have points. The rejections of the sweep
  and of the policy backfill write none either. The exact extent is what
  `LiveChangesAreAnnounced` and `RowsAreAnnounced` say.
- The policy backfill rejects by id candidates it read without a lock
  (`memory-policy-backfill.ts:129`): an approval given in between is overturned,
  the row keeps its point, and its metadata go back to what was read.
  `DecisionsStand` excepts it by name, beside the auto-update, the undos and
  the repair. What it does not reject it marks in the same way
  (`memory-policy-backfill.ts:178`): a candidate approved in between stays
  approved and current, withheld from recall with the metadata that were read,
  and nothing tells the projection.
- Two backfills give a `dedupe_key` to decided rows (`memory-governance.ts:627`,
  `memory-governance-debt-plan.ts:344`), computed in two different ways from the
  same row, and outside the advisory lock; the second appends no outbox row.
- The revert of a governance archive writes the review state that the run read
  (`memory-governance-revert.ts:55`): if an auto-update has put the row in the
  place of another in between, its `silent_approved` (`memory-auto-update.ts:246`)
  is lost. `ArchivesUndoAllButUpdates` has this as its one exception.
- A projector worker that ends in the first attempt at an event leaves it
  started, and no claim returns it again (`outbox-worker.ts:213`); an event
  written behind the cursor is never claimed at all. The rows keep a wrong point
  until somebody reconciles (`StrandingCauses`, `DivergenceHasACause`).
- A rollback of an auto-update can be repeated (`memory-auto-update.ts:368`);
  a crash between a governance archive and its record leaves an archive that
  no revert knows (`memory-governance.ts:556`); and the keeper of a duplicate
  group may itself be refused after its losers were archived.
- The reconcile report counts a candidate's leftover point as stale, and
  `syncMemoryIds` skips that row (`projector.ts:446`), so `--apply` does not
  remove it; the drift check does not compare content; the read-back after an
  upsert is off by default. `Converges` is stated with these limits.
- Tickets: the heartbeat before each ticket is not looked at
  (`intelligence/handlers.ts:840`), and `complete` writes over whatever the
  ticket has become, so that two workers may both extract and create. All
  memories of one extraction go under the ticket's one idempotency key
  (`handlers.ts:709`): the second create is refused as a conflict, and the
  ticket fails after the first was committed.
- Governance runs: `finishRun` ends the row by its id, also when another run
  has taken it over (`governance-repository.ts:243`), and the detector of stuck
  runs fails the ids it listed (`memory-governance-stuck-runs.ts:53`). It lists
  by the age of the last heartbeat as well (line 35), so that with
  `--timeout-minutes` below the lease of 10 minutes it fails a run that is in
  time; the lease is free, and another run may begin beside it. `RunsApart` has
  this among its causes.
- Coordination is started by tests only. Its worker passes one fixed `now`
  through a whole drain, so that `renewLease` never extends and
  `assertLeaseOwner` never finds a lease over; a requeue by a worker does not
  look at `maxAttempts`; a dispatch that failed is answered with
  `duplicate_inflight` for ever (`EventsAreServed` does not count it among the
  events owed an answer, and so says nothing of it); the sweep requeues tasks
  settled since it listed them (`sweeper.ts:44`).

## 6. What is abstracted, and what is not modelled

Text, embeddings and metadata are values that can be compared; similarity,
policies and extraction by language models are free choices. Audit tables,
relations and sources of a memory are left out: nothing modelled reads them.
Along the write path time appears only as "a lease has expired" or "a timeout
has fired", at any moment unless a constant says otherwise; the background
modules count it in ticks. `claimDispatch`, `listProcessableEvents` and
`heartbeat` of the requests have no caller in the service.

Within the modelled parts the following is left out:

- *Cache*: session entries (ids of a caller's own session, neither named in an
  index nor served as answers) and the cache of the fastpath sidecar. A miss
  reads ledger and vectors in one instant; reads spread over time could only
  make an answer older, and it is marked as old when it is stored.
- *Tickets*: the server works on one ticket at a time beside its workers; what
  a create does is in `IngestRequests` and `MemoryLifecycle`, whose refusal of
  a second payload is `CreateConflicts`.
- *Coordination*: lanes and priorities, locks with fencing tokens, presence and
  generations, which neither worker nor sweeper consults.
- *Scripts*: `memory-policy-corpus`, which withdraws the rows of the evaluation
  scope it filled itself. Others merge fields into the metadata of rows, current
  ones among them, without an outbox row: the debt plan (source, episodes), the
  backfills of memory types, quality and embeddings, self-improvement,
  consolidation (strength, episodes), the feedback handler
  (`app/api/unified/handlers.ts:764`) and the usage counts of
  `http-recall-handler.ts`. They change no field that `MemoryLifecycle` has;
  the payload of a point may lag behind them until the row is synced again.
  `backfill-qdrant-to-pg`, a migration, inserts rows made from legacy points.
  The rollback of an auto-approval goes through the review services. Of the two
  backfills of missing fields only the key is modelled.
- *Projection*: points of unknown ids, creation of the collection, the
  read-back after an upsert (off by default), the payload beyond its hash; a
  second worker and lost COMMIT answers, which are in `OutboxQueue`.
- *Governance runs*: a run lasts any time; a tick is any time that the lease and
  the timeout of the detector are multiples of.

Not modelled, because they keep no state that another part relies on, or none
that steps of two actors could bring out of order:

- the recall pipeline (retrieval, fusion and reranking read ledger and index
  and change neither; what they may show is decided by the projection and by
  `Recallable`), language-model extraction and its semantic write lock, the
  scoring rules of the policies;
- markdown export, conversation monitor, dream and decay (timers that feed
  creates, or render a snapshot, with no protocol of their own), knowledge graph;
- embedding generations and the embedding proxy (a separate program with a
  queue in memory);
- HTTP, MCP and CLI (parsing, permissions, routing), migrations, metrics,
  reports, sidecars, skills and panel. These are by far most of the lines of
  the repository, and are pure functions or I/O over the tables.

## 7. Order of work, and what could follow

The order followed the way a memory takes: the outbox (the only ordered queue
of the system) and requests (its only exactly-once promise) first; then rows,
the scripts among them, and the projection that rests on both; then the
mechanisms beside that chain. Every safety property of a passing run is proved;
what would add most from here:

1. `QdrantProjection` over the whole of `OutboxQueue`, with several workers and
   marks cut at their locks, instead of an outbox of its own: a refinement of
   the one by the other, with the causes of `StrandingCauses` as its steps.
2. One model of a write from its request to its effect, in which the mutation of
   `IngestRequests` is a transaction of `MemoryLifecycle`: a request executed
   twice (finding 1) would then show what it leaves in the ledger.
3. The metadata of a row field by field, for the scripts that merge into it from
   old reads.
4. Dispatches of `Coordination` that fail, once the code gives them a way on.
