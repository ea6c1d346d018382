--------------------------- MODULE QdrantProjection ---------------------------
(***************************************************************************)
(* The Qdrant projection: QdrantProjectionSyncService and those who call   *)
(* it, the projector worker behind the outbox, the services after COMMIT,  *)
(* and the operator's reconcile and repair. Each of them reads the rows,   *)
(* then writes what it read, with no lock and no version on the point; and *)
(* a write given up after its timeout may still land.                      *)
(*                                                                         *)
(* The outbox is that of OutboxQueue with one worker, its transactions in  *)
(* one step each: event e is the e-th in (created_at, id) order, and the   *)
(* cursor an event number. An event may be written behind the cursor, be   *)
(* passed over, or be left started by a worker that ended: such an event   *)
(* is never claimed again.                                                 *)
(***************************************************************************)
EXTENDS Integers

CONSTANTS
  Ids,         \* memory ids, and the points mapped from them
  Callers,     \* services and operators that call syncMemoryIds
  Batches,     \* the sets of rows that a transaction or a call may deal with
  NumEvents,   \* bound on the outbox rows
  MaxChanges,  \* bound on the transactions that change rows
  MaxFaults,   \* bound on crashes, failed requests, missing embeddings and
               \* replays that mark their event
  MaxAttempts  \* maxAttempts of the projector worker

VARIABLES
  class,    \* what is owed to each row
  rev,      \* content of each row and its embedding: how often it was written
  point,    \* revision in Qdrant, the projection_hash; 0: no point
  event,    \* outbox_events: the rows each names, its status and attempts
  cursor,   \* the last event marked dispatched; 0: none
  hand,     \* the event that a sync of the worker or a replay is for; 0: none
  sync,     \* the syncMemoryIds calls under way
  adrift,   \* requests given up by their senders
  changes, faults,
  lived,    \* history: the revisions at which a row was to be shown
  excused   \* history: rows whose point may be wrong with nothing left to do

vars == <<class, rev, point, event, cursor, hand, sync, adrift, changes, faults, lived, excused>>

Rows == INSTANCE ProjectedRows WITH said <- {}

Senders == {"worker"} \cup Callers

ASSUME ProjectionAssumption ==
  /\ "worker" \notin Callers
  /\ Batches \subseteq SUBSET Ids
  /\ NumEvents \in Nat /\ MaxChanges \in Nat /\ MaxFaults \in Nat
  /\ MaxAttempts \in Nat \ {0}

Seen == [class: Rows!Class, rev: Nat]

\* A call of syncMemoryIds: called; its snapshot read; its upserts, then its
\* deletes to be sent; done. bare: without embedding. ups: to be upserted.
\* alone (history): no other call or request has met it on these rows.
NoSync == [phase |-> "none", ids |-> {}]
Call(ids) == [phase |-> "called", ids |-> ids]

IsSync(y) ==
  /\ y.ids \subseteq Ids
  /\ \/ y = NoSync \/ y = Call(y.ids)
     \/ /\ y.phase \in {"read", "upsert", "delete", "done"}
        /\ y.seen \in [y.ids -> Seen]
        /\ y.ups \subseteq y.ids /\ y.bare \subseteq y.ids /\ y.alone \subseteq y.ids

\* a request is the revision it gives each of its points, 0 to delete it
IsRequest(w) == DOMAIN w \subseteq Ids /\ w \in [DOMAIN w -> Nat]

Applied(w) == [i \in Ids |-> IF i \in DOMAIN w THEN w[i] ELSE point[i]]

-----------------------------------------------------------------------------
\* Variant: candidates are shown as well.
Operation_ShowsHeld(c) ==
  CASE c \in {"live", "held"} -> "upsert" [] c = "gone" -> "delete" [] c = "absent" -> "delete"

\* the branches of syncMemoryIds: projectionLifecycleOperation of the row
Operation(c) ==
  CASE c = "live"             -> "upsert"
    [] c \in {"gone", "absent"} -> "delete"
    [] c = "held"             -> "skip"

Owed(y, op) == {i \in y.ids : Operation(y.seen[i].class) = op}

Upserts(y) == [i \in y.ups |-> y.seen[i].rev]
Deletes(y) == [i \in Owed(y, "delete") |-> 0]

\* the sync holds a snapshot of row i, or a request on it is adrift
Busy(s, i) == i \in sync[s].ids /\ sync[s].phase \notin {"none", "called"}
Astray(i) == \E w \in adrift : i \in DOMAIN w

-----------------------------------------------------------------------------
Slots == 1..NumEvents

\* started: pending, with dispatch_started_at set
Status == {"none", "pending", "started", "failed", "dispatched"}
Event  == [ids: SUBSET Ids, status: Status, attempts: Nat]
NoEvent == [ids |-> {}, status |-> "none", attempts |-> 0]

\* what a claim may return
Claimable(ev, c) ==
  {e \in Slots : ev[e].status \in {"pending", "failed"} /\ ev[e].attempts < MaxAttempts /\ e > c}

NamedBy(es) == UNION {event[e].ids : e \in es}

\* the outbox rows of a transaction: each row it announces has one of its own,
\* which names that row (create) or all of them (supersede)
Free == {e \in Slots : event[e].status = "none"}

Placings(said) ==
  {f \in [said -> Free] : \A i, j \in said : f[i] = f[j] => i = j}

Written(said, slot, all) ==
  [e \in Slots |->
     IF \E i \in said : slot[i] = e
     THEN [ids |-> {i \in said : all \/ slot[i] = e}, status |-> "pending", attempts |-> 0]
     ELSE event[e]]

\* rows announced behind the cursor only
Late(said, slot, all) == {i \in said : \A j \in said : all \/ i = j => slot[j] <= cursor}

\* a transaction changes rows and announces those of said; it may commit after
\* later ones were dispatched
Commit(c, said) ==
  /\ changes < MaxChanges
  /\ Rows!Allowed(class, c, said)
  /\ said # {} \/ c # class
  /\ class' = c
  /\ rev' = [i \in Ids |-> IF i \in said \/ c[i] # class[i] THEN rev[i] + 1 ELSE rev[i]]
  /\ lived' = lived \cup {<<i, rev'[i]>> : i \in {j \in Ids : c[j] = "live"}}
  /\ \E slot \in Placings(said), all \in BOOLEAN :
       /\ event' = Written(said, slot, all)
       /\ excused' = excused \cup {i \in Ids \ said : c[i] # class[i]} \cup Late(said, slot, all)
  /\ changes' = changes + 1
  /\ UNCHANGED <<point, cursor, hand, sync, adrift, faults>>

\* the worker claims the oldest event; a failed one keeps its status
Claim ==
  /\ sync["worker"] = NoSync
  /\ \E e \in Claimable(event, cursor) :
       /\ \A d \in Claimable(event, cursor) : e <= d
       /\ event' = [event EXCEPT ![e].status = IF @ = "pending" THEN "started" ELSE @]
       /\ hand' = [hand EXCEPT !["worker"] = e]
       /\ sync' = [sync EXCEPT !["worker"] = Call(event[e].ids)]
  /\ UNCHANGED <<class, rev, point, cursor, adrift, changes, faults, lived, excused>>

\* an operator's replay of any event, to be marked dispatched afterwards
Replay(s, e) ==
  /\ sync[s] = NoSync
  /\ event[e].status # "none"
  /\ faults < MaxFaults
  /\ faults' = faults + 1
  /\ hand' = [hand EXCEPT ![s] = e]
  /\ sync' = [sync EXCEPT ![s] = Call(event[e].ids)]
  /\ UNCHANGED <<class, rev, point, event, cursor, adrift, changes, lived, excused>>

\* a service after its COMMIT, unless it ends before; an operator's replay that
\* marks nothing, or repair by memory id; a reconcile whose diff is out of date
Ask(s, ids) ==
  /\ sync[s] = NoSync
  /\ sync' = [sync EXCEPT ![s] = Call(ids)]
  /\ UNCHANGED <<class, rev, point, event, cursor, hand, adrift, changes, faults, lived, excused>>

\* Variant: only stale points are looked for.
Mismatched_Stale == {i \in Ids : class[i] # "live" /\ point[i] # 0}

\* stale or missing in the diff of the reconcile
Mismatched == {i \in Ids : (class[i] = "live") # (point[i] # 0)}

\* shown with another content: payload drift, where the diff compares a field
\* that changed
Differs == {i \in Ids : class[i] = "live" /\ point[i] \notin {0, rev[i]}}

\* the reconcile with --apply
Reconcile(s) ==
  \E drift \in SUBSET Differs :
    Mismatched \cup drift # {} /\ Ask(s, Mismatched \cup drift)

-----------------------------------------------------------------------------
\* the snapshot of all rows of the call, and the embeddings of its upserts
Read(s) ==
  /\ sync[s].phase = "called"
  /\ LET ids == sync[s].ids
         live == {i \in ids : Operation(class[i]) = "upsert"}
         met == {i \in ids : Astray(i) \/ \E t \in Senders : t # s /\ Busy(t, i)}
     IN \E bare \in SUBSET live :
          /\ bare # {} => faults < MaxFaults
          /\ faults' = IF bare # {} THEN faults + 1 ELSE faults
          /\ sync' = [t \in Senders |->
               CASE t = s -> [phase |-> "read", ids |-> ids,
                              seen |-> [i \in ids |-> [class |-> class[i], rev |-> rev[i]]],
                              ups |-> live \ bare, bare |-> bare, alone |-> ids \ met]
                 [] t # s /\ sync[t].phase \notin {"none", "called"} ->
                      [sync[t] EXCEPT !.alone = @ \ met]
                 [] OTHER -> sync[t]]
          /\ excused' = excused \cup met
  /\ UNCHANGED <<class, rev, point, event, cursor, hand, adrift, changes, lived>>

\* what a call still has to send, its upserts done or without any
Rest(y) == IF Owed(y, "delete") # {} THEN "delete" ELSE "done"

\* findIdempotentUpserts: points with the same hash are left alone; none is,
\* if they cannot be retrieved
Check(s) ==
  /\ sync[s].phase = "read"
  /\ LET y == sync[s]
         same == {i \in y.ups : point[i] = y.seen[i].rev}
     IN \E left \in {same, {}} :
          /\ left # same => faults < MaxFaults
          /\ faults' = IF left # same THEN faults + 1 ELSE faults
          /\ sync' = [sync EXCEPT ![s].ups = y.ups \ left,
                                  ![s].phase = IF y.ups # left THEN "upsert" ELSE Rest(y)]
  /\ UNCHANGED <<class, rev, point, event, cursor, hand, adrift, changes, lived, excused>>

Upsert(s) ==
  /\ sync[s].phase = "upsert"
  /\ point' = Applied(Upserts(sync[s]))
  /\ sync' = [sync EXCEPT ![s].phase = Rest(sync[s])]
  /\ UNCHANGED <<class, rev, event, cursor, hand, adrift, changes, faults, lived, excused>>

Delete(s) ==
  /\ sync[s].phase = "delete"
  /\ point' = Applied(Deletes(sync[s]))
  /\ sync' = [sync EXCEPT ![s].phase = "done"]
  /\ UNCHANGED <<class, rev, event, cursor, hand, adrift, changes, faults, lived, excused>>

\* a call that met no other leaves the points of its rows as they are owed
Settles(s) ==
  {i \in sync[s].alone : sync[s].seen[i] = [class |-> class[i], rev |-> rev[i]] /\ i \notin sync[s].bare}

\* the event of a call is marked dispatched, and the cursor set to it: open
\* events before it are passed over
Dispatch(s) ==
  /\ event' = [event EXCEPT ![hand[s]].status = "dispatched", ![hand[s]].attempts = @ + 1]
  /\ cursor' = hand[s]

Passed(s) == {e \in Claimable(event, cursor) : e < hand[s]}

\* one more attempt of the worker has failed
FailAttempt ==
  /\ event' = [event EXCEPT ![hand["worker"]].status = "failed",
                            ![hand["worker"]].attempts = @ + 1]
  /\ cursor' = cursor

\* the rows of the worker's event, when no claim will return it again
Dropped ==
  IF hand["worker"] \in Claimable(event', cursor') THEN {} ELSE event[hand["worker"]].ids

\* Variant: a skip for want of an embedding counts as synced.
Return_IgnoresBare(s) ==
  /\ sync[s].phase = "done"
  /\ sync' = [sync EXCEPT ![s] = NoSync]
  /\ hand' = [hand EXCEPT ![s] = 0]
  /\ IF hand[s] = 0
     THEN UNCHANGED <<event, cursor>> /\ excused' = excused \ Settles(s)
     ELSE Dispatch(s) /\ excused' = (excused \ Settles(s)) \cup NamedBy(Passed(s))
  /\ UNCHANGED <<class, rev, point, adrift, changes, faults, lived>>

\* A replay marks its event whatever its sync reports.
Return(s) ==
  /\ sync[s].phase = "done"
  /\ sync' = [sync EXCEPT ![s] = NoSync]
  /\ hand' = [hand EXCEPT ![s] = 0]
  /\ CASE hand[s] = 0 -> UNCHANGED <<event, cursor>> /\ excused' = excused \ Settles(s)
       [] hand[s] # 0 /\ s = "worker" /\ sync[s].bare # {} ->
            FailAttempt /\ excused' = (excused \ Settles(s)) \cup Dropped
       [] hand[s] # 0 /\ ~(s = "worker" /\ sync[s].bare # {}) ->
            /\ Dispatch(s)
            /\ excused' = (excused \ Settles(s)) \cup NamedBy(Passed(s)) \cup sync[s].bare
  /\ UNCHANGED <<class, rev, point, adrift, changes, faults, lived>>

\* the request on its way when a call ends early: it may be applied later
InFlight(y) ==
  CASE y.phase = "upsert" -> {Upserts(y)}
    [] y.phase = "delete" -> {Deletes(y)}
    [] OTHER              -> {}

\* Variant: the event stays with the caller.
EndsEarly_KeepsEvent(s) ==
  /\ faults < MaxFaults
  /\ faults' = faults + 1
  /\ sync' = [sync EXCEPT ![s] = NoSync]
  /\ \/ adrift' = adrift
     \/ adrift' = adrift \cup InFlight(sync[s])
  /\ excused' = IF s = "worker" THEN excused \cup Dropped ELSE excused
  /\ UNCHANGED <<class, rev, point, hand, changes, lived>>

EndsEarly(s) ==
  /\ faults < MaxFaults
  /\ faults' = faults + 1
  /\ sync' = [sync EXCEPT ![s] = NoSync]
  /\ hand' = [hand EXCEPT ![s] = 0]
  /\ \/ adrift' = adrift
     \/ adrift' = adrift \cup InFlight(sync[s])
  /\ excused' = IF s = "worker" THEN excused \cup Dropped ELSE excused
  /\ UNCHANGED <<class, rev, point, changes, lived>>

\* a request fails or times out, and syncMemoryIds throws
Throw(s) ==
  /\ sync[s] # NoSync
  /\ IF s = "worker" THEN FailAttempt ELSE UNCHANGED <<event, cursor>>
  /\ EndsEarly(s)

\* the process ends: nothing gives the worker's event back, which can be
\* claimed again only if it failed before
Crash(s) ==
  /\ sync[s] # NoSync
  /\ UNCHANGED <<event, cursor>>
  /\ EndsEarly(s)

Land(w) ==
  /\ point' = Applied(w)
  /\ adrift' = adrift \ {w}
  /\ UNCHANGED <<class, rev, event, cursor, hand, sync, changes, faults, lived, excused>>

Lose(w) ==
  /\ adrift' = adrift \ {w}
  /\ UNCHANGED <<class, rev, point, event, cursor, hand, sync, changes, faults, lived, excused>>

-----------------------------------------------------------------------------
\* rows written once, and the projection as it should be
Init ==
  /\ class \in [Ids -> Rows!Class]
  /\ rev = [i \in Ids |-> IF class[i] = "absent" THEN 0 ELSE 1]
  /\ point = [i \in Ids |-> IF class[i] = "live" THEN 1 ELSE 0]
  /\ lived = {i \in Ids : class[i] = "live"} \X {1}
  /\ event = [e \in Slots |-> NoEvent] /\ cursor = 0
  /\ hand = [s \in Senders |-> 0]
  /\ sync = [s \in Senders |-> NoSync]
  /\ adrift = {}
  /\ changes = 0 /\ faults = 0 /\ excused = {}

Change ==
  \E b \in Batches : \E c \in [b -> Rows!Class], said \in SUBSET b :
    Commit([i \in Ids |-> IF i \in b THEN c[i] ELSE class[i]], said)

Proceed(s) == Read(s) \/ Check(s) \/ Upsert(s) \/ Delete(s) \/ Return(s)

Arrive == \E w \in adrift : Land(w) \/ Lose(w)

Next ==
  \/ Change
  \/ Claim
  \/ \E s \in Callers :
       \/ Reconcile(s)
       \/ \E ids \in Batches : Ask(s, ids)
       \/ \E e \in Slots : Replay(s, e)
  \/ \E s \in Senders : Proceed(s) \/ Throw(s) \/ Crash(s)
  \/ Arrive

Spec == Init /\ [][Next]_vars

\* calls run on and end by their timeouts, the worker is kept running, and the
\* operator reconciles again as long as the report shows a difference
Fairness ==
  /\ \A s \in Senders : WF_vars(Proceed(s))
  /\ WF_vars(Claim)
  /\ WF_vars(Arrive)
  /\ \A s \in Callers : SF_vars(Reconcile(s))

FairSpec == Spec /\ Fairness

-----------------------------------------------------------------------------
TypeOK ==
  /\ class \in [Ids -> Rows!Class]
  /\ rev \in [Ids -> Nat] /\ point \in [Ids -> Nat]
  /\ event \in [Slots -> Event] /\ cursor \in 0..NumEvents
  /\ hand \in [Senders -> 0..NumEvents]
  /\ \A s \in Senders : hand[s] # 0 => sync[s] # NoSync
  /\ DOMAIN sync = Senders /\ \A s \in Senders : IsSync(sync[s])
  /\ \A w \in adrift : IsRequest(w)
  /\ changes \in 0..MaxChanges /\ faults \in 0..MaxFaults
  /\ lived \subseteq Ids \X Nat
  /\ excused \subseteq Ids

\* README.md:180, the projection holds approved and current memories only: by
\* whatever order of reads, writes and late arrivals a point came about, its
\* row was to be shown once, with just the content of the point.
PointsWereLive == \A i \in Ids : point[i] = 0 \/ <<i, point[i]>> \in lived

\* nothing is left to do for row i
AtRest(i) ==
  /\ i \notin NamedBy(Claimable(event, cursor))
  /\ \A s \in Senders : i \notin sync[s].ids
  /\ ~Astray(i)

Settled(i) ==
  /\ class[i] = "live" => point[i] = rev[i]
  /\ class[i] \in {"absent", "gone"} => point[i] = 0

\* With no event on it left to be claimed a row is in Qdrant as it should be,
\* unless two calls met on it or a late request could; its event went to the
\* dead letters, was left started by a worker that ended in its first attempt,
\* was written behind the cursor or passed by it, or was marked by a replay
\* that had no embedding; or it was taken out of recall unannounced: there is no
\* other way to diverge, and a later call undisturbed on the same row makes up
\* for each.
DivergenceHasACause == \A i \in Ids : AtRest(i) => Settled(i) \/ i \in excused

\* docs/operations.md, repair: whatever went wrong, with the operator
\* reconciling until the report is clean the projection ends up with a point
\* for every row to be shown and none for the rows taken out of recall. (A
\* candidate's leftover point, which the repair skips, may stay.)
Converges ==
  <>[](\A i \in Ids : /\ class[i] = "live" => point[i] # 0
                      /\ class[i] = "gone" => point[i] = 0)
=============================================================================
