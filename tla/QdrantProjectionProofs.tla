------------------------ MODULE QdrantProjectionProofs ------------------------
(***************************************************************************)
(* Proofs about QdrantProjection, for any rows, callers, batches and       *)
(* bounds.                                                                 *)
(*                                                                         *)
(* That a point was owed once cannot be seen from the points alone: it is  *)
(* carried by what each call has read, and by each request that is adrift. *)
(* The invariant says of all three that they hold no revision that was not *)
(* to be shown when its row had it.                                        *)
(*                                                                         *)
(* That a point which differs has a cause rests on a second invariant      *)
(* (DInv): whoever has not yet written may set the point right, and nobody *)
(* else may still set it wrong.                                            *)
(***************************************************************************)
EXTENDS QdrantProjection, TLAPS

\* a call past its snapshot, with all its fields
Sight == UNION {[D -> Seen] : D \in SUBSET Ids}

Full(y) ==
  /\ y \in [phase : {"read", "upsert", "delete", "done"}, ids : SUBSET Ids, seen : Sight,
            ups : SUBSET Ids, bare : SUBSET Ids, alone : SUBSET Ids]
  /\ y.seen \in [y.ids -> Seen]
  /\ y.ups \subseteq y.ids /\ y.bare \subseteq y.ids /\ y.alone \subseteq y.ids

Sane(y) == y = NoSync \/ (\E ids \in SUBSET Ids : y = Call(ids)) \/ Full(y)

\* of revision r of row i: no point, or it was to be shown
Given(i, r) == r = 0 \/ <<i, r>> \in lived

Honest(y) ==
  Full(y) => /\ \A i \in y.ids : y.seen[i].class = "live" => Given(i, y.seen[i].rev)
             /\ \A i \in y.ups : y.seen[i].class = "live"

RowsTyped == class \in [Ids -> Rows!Class] /\ rev \in [Ids -> Nat] /\ point \in [Ids -> Nat]

QueueTyped == event \in [Slots -> Event] /\ cursor \in 0..NumEvents

\* a call for an event deals with the rows it names; the worker has no other
HandsTyped ==
  /\ hand \in [Senders -> 0..NumEvents]
  /\ \A s \in Senders : hand[s] # 0 =>
       /\ sync[s] # NoSync /\ sync[s].ids = event[hand[s]].ids
       /\ event[hand[s]].status # "none"
  /\ sync["worker"] # NoSync => hand["worker"] # 0

CallsTyped == sync = [s \in Senders |-> sync[s]] /\ \A s \in Senders : Sane(sync[s])

HistoryTyped ==
  /\ changes \in 0..MaxChanges /\ faults \in 0..MaxFaults
  /\ lived \subseteq Ids \X Nat /\ excused \subseteq Ids

RowsHonest == \A i \in Ids : class[i] = "live" => Given(i, rev[i])

PointsHonest == \A i \in Ids : Given(i, point[i])

CallsHonest == \A s \in Senders : Honest(sync[s])

AdriftHonest ==
  \A w \in adrift : IsRequest(w) /\ \A i \in DOMAIN w : Given(i, w[i])

PInv ==
  /\ RowsTyped /\ QueueTyped /\ HandsTyped /\ CallsTyped /\ HistoryTyped
  /\ RowsHonest /\ PointsHonest /\ CallsHonest /\ AdriftHonest

-----------------------------------------------------------------------------
(* Calls and requests *)

LEMMA Shapes ==
  /\ NoSync.phase = "none" /\ NoSync.ids = {} /\ Sane(NoSync) /\ ~Full(NoSync)
  /\ \A ids \in SUBSET Ids : /\ Call(ids).phase = "called" /\ Call(ids).ids = ids
                             /\ Sane(Call(ids)) /\ ~Full(Call(ids))
<1>1. NoSync.phase = "none" /\ NoSync.ids = {} /\ Sane(NoSync)
  BY DEF NoSync, Sane
<1>2. ~Full(NoSync)
  BY <1>1 DEF Full
<1>3. ASSUME NEW ids \in SUBSET Ids
      PROVE  /\ Call(ids).phase = "called" /\ Call(ids).ids = ids
             /\ Sane(Call(ids)) /\ ~Full(Call(ids))
  <2>1. Call(ids).phase = "called" /\ Call(ids).ids = ids /\ Sane(Call(ids))
    BY DEF Call, Sane
  <2>2. ~Full(Call(ids))
    BY <2>1 DEF Full
  <2> QED BY <2>1, <2>2
<1> QED BY <1>1, <1>2, <1>3

LEMMA PastRead ==
  ASSUME NEW y, Sane(y), y.phase \in {"read", "upsert", "delete", "done"}
  PROVE  Full(y)
BY Shapes DEF Sane

LEMMA SaneIsSync ==
  ASSUME NEW y, Sane(y)
  PROVE  IsSync(y)
<1>1. CASE y = NoSync
  BY <1>1, Shapes DEF IsSync
<1>2. CASE \E ids \in SUBSET Ids : y = Call(ids)
  BY <1>2, Shapes DEF IsSync
<1>3. CASE Full(y)
  BY <1>3 DEF IsSync, Full
<1> QED BY <1>1, <1>2, <1>3 DEF Sane

\* one call replaced, the others as they are
LEMMA SetCall ==
  ASSUME CallsTyped, NEW s \in Senders, NEW y, Sane(y), sync' = [sync EXCEPT ![s] = y]
  PROVE  /\ CallsTyped'
         /\ sync'[s] = y
         /\ \A t \in Senders : t # s => sync'[t] = sync[t]
<1>1. DOMAIN sync = Senders
  BY DEF CallsTyped
<1>2. sync'[s] = y /\ \A t \in Senders : t # s => sync'[t] = sync[t]
  BY <1>1
<1>3. sync' = [t \in Senders |-> sync'[t]]
  BY <1>1
<1>4. \A t \in Senders : Sane(sync'[t])
  BY <1>2 DEF CallsTyped
<1>5. \A t \in Senders : Sane(sync[t])'
  BY <1>4 DEF Sane, Full, NoSync, Call, Sight, Seen
<1> QED BY <1>2, <1>3, <1>5 DEF CallsTyped

LEMMA ApplyRequest ==
  ASSUME RowsTyped, PointsHonest, NEW w, IsRequest(w), \A i \in DOMAIN w : Given(i, w[i])
  PROVE  /\ Applied(w) \in [Ids -> Nat]
         /\ \A i \in Ids : Given(i, Applied(w)[i])
<1>1. \A i \in DOMAIN w : i \in Ids /\ w[i] \in Nat
  BY DEF IsRequest
<1>2. \A i \in Ids : Applied(w)[i] = IF i \in DOMAIN w THEN w[i] ELSE point[i]
  BY DEF Applied
<1>3. Applied(w) \in [Ids -> Nat]
  BY <1>1 DEF Applied, RowsTyped
<1> QED BY <1>2, <1>3 DEF PointsHonest

LEMMA UpsertsHonest ==
  ASSUME NEW y, Full(y), Honest(y)
  PROVE  /\ IsRequest(Upserts(y))
         /\ \A i \in DOMAIN Upserts(y) : Given(i, Upserts(y)[i])
<1>1. \A i \in y.ids : y.seen[i] \in Seen
  BY DEF Full
<1>2. y.ups \subseteq y.ids /\ y.ids \subseteq Ids
  BY DEF Full
<1>3. \A i \in y.ups : y.seen[i].rev \in Nat
  BY <1>1, <1>2 DEF Seen
<1>4. DOMAIN Upserts(y) = y.ups /\ \A i \in y.ups : Upserts(y)[i] = y.seen[i].rev
  BY DEF Upserts
<1>5. Upserts(y) \in [y.ups -> Nat]
  BY <1>3 DEF Upserts
<1>6. IsRequest(Upserts(y))
  BY <1>2, <1>4, <1>5 DEF IsRequest
<1>7. \A i \in y.ups : Given(i, y.seen[i].rev)
  BY <1>2 DEF Honest
<1> QED BY <1>4, <1>6, <1>7

LEMMA DeletesHonest ==
  ASSUME NEW y, Full(y)
  PROVE  /\ IsRequest(Deletes(y))
         /\ \A i \in DOMAIN Deletes(y) : Given(i, Deletes(y)[i])
<1>1. Owed(y, "delete") \subseteq Ids
  BY DEF Owed, Full
<1>2. DOMAIN Deletes(y) = Owed(y, "delete") /\ \A i \in Owed(y, "delete") : Deletes(y)[i] = 0
  BY DEF Deletes
<1>3. Deletes(y) \in [Owed(y, "delete") -> Nat]
  BY DEF Deletes
<1> QED BY <1>1, <1>2, <1>3 DEF IsRequest, Given

LEMMA OneCall ==
  ASSUME CallsTyped, CallsHonest, NEW s \in Senders, NEW y, Sane(y), Honest(y),
         sync' = [sync EXCEPT ![s] = y], lived' = lived
  PROVE  CallsTyped' /\ CallsHonest'
<1>1. CallsTyped' /\ sync'[s] = y /\ \A t \in Senders : t # s => sync'[t] = sync[t]
  BY SetCall
<1>2. \A t \in Senders : Honest(sync'[t])
  BY <1>1 DEF CallsHonest
<1>3. CallsHonest'
  BY <1>2 DEF CallsHonest, Honest, Given, Full, Sight, Seen
<1> QED BY <1>1, <1>3

\* events once written keep the rows they name
Kept ==
  \A e \in Slots : event[e].status # "none" =>
    event'[e].status # "none" /\ event'[e].ids = event[e].ids

LEMMA HandsAfter ==
  ASSUME CallsTyped, QueueTyped, HandsTyped, Kept,
         NEW s \in Senders, NEW y, Sane(y), NEW h \in 0..NumEvents,
         sync' = [sync EXCEPT ![s] = y], hand' = [hand EXCEPT ![s] = h],
         h # 0 => y # NoSync /\ y.ids = event[h].ids /\ event[h].status # "none",
         s = "worker" /\ y # NoSync => h # 0
  PROVE  HandsTyped'
<1>1. sync'[s] = y /\ \A t \in Senders : t # s => sync'[t] = sync[t]
  BY SetCall
<1>2. /\ hand' \in [Senders -> 0..NumEvents]
      /\ hand'[s] = h /\ \A t \in Senders : t # s => hand'[t] = hand[t]
  BY DEF HandsTyped
<1>3. NoSync' = NoSync
  BY DEF NoSync
<1>4. \A e \in 0..NumEvents : e # 0 => e \in Slots
  BY ProjectionAssumption DEF Slots
<1>5. ASSUME NEW t \in Senders, hand'[t] # 0
      PROVE  /\ sync'[t] # NoSync /\ sync'[t].ids = event'[hand'[t]].ids
             /\ event'[hand'[t]].status # "none"
  <2>1. CASE t = s
    BY <1>1, <1>2, <1>4, <1>5, <2>1 DEF Kept
  <2>2. CASE t # s
    BY <1>1, <1>2, <1>4, <1>5, <2>2 DEF Kept, HandsTyped
  <2> QED BY <2>1, <2>2
<1>6. sync'["worker"] # NoSync => hand'["worker"] # 0
  BY <1>1, <1>2 DEF HandsTyped, Senders
<1> QED BY <1>2, <1>3, <1>5, <1>6 DEF HandsTyped

\* what a step leaves alone
LEMMA Unread == \A y : Sane(y) /\ ~Full(y) => Honest(y)
BY DEF Honest

-----------------------------------------------------------------------------
(* The rows and the queue *)

LEMMA CommitWrites ==
  ASSUME QueueTyped, NEW said \in SUBSET Ids, NEW slot \in Placings(said), NEW all \in BOOLEAN,
         event' = Written(said, slot, all)
  PROVE  /\ event' \in [Slots -> Event]
         /\ \A e \in Slots : event[e].status # "none" => event'[e] = event[e]
         /\ \A i \in said : /\ slot[i] \in Slots /\ event[slot[i]].status = "none"
                             /\ event'[slot[i]].ids = {j \in said : all \/ slot[j] = slot[i]}
                             /\ event'[slot[i]].status = "pending" /\ event'[slot[i]].attempts = 0
<1>1. slot \in [said -> Free]
  BY DEF Placings
<1>2. \A i \in said : slot[i] \in Slots /\ event[slot[i]].status = "none"
  BY <1>1 DEF Free
<1>3. \A e \in Slots : event'[e] =
        IF \E i \in said : slot[i] = e
        THEN [ids |-> {i \in said : all \/ slot[i] = e}, status |-> "pending", attempts |-> 0]
        ELSE event[e]
  BY DEF Written
<1>4. \A e \in Slots :
        [ids |-> {i \in said : all \/ slot[i] = e}, status |-> "pending", attempts |-> 0] \in Event
  BY DEF Event, Status
<1>5. event' \in [Slots -> Event]
  <2>1. \A e \in Slots : event'[e] \in Event
    BY <1>3, <1>4 DEF QueueTyped
  <2>2. event' = [e \in Slots |-> event'[e]]
    BY DEF Written
  <2> QED BY <2>1, <2>2
<1>6. ASSUME NEW e \in Slots, event[e].status # "none"
      PROVE  event'[e] = event[e]
  BY <1>2, <1>3, <1>6
<1>7. ASSUME NEW i \in said
      PROVE  /\ event'[slot[i]].ids = {j \in said : all \/ slot[j] = slot[i]}
             /\ event'[slot[i]].status = "pending" /\ event'[slot[i]].attempts = 0
  <2>1. event'[slot[i]] = [ids |-> {j \in said : all \/ slot[j] = slot[i]},
                           status |-> "pending", attempts |-> 0]
    BY <1>2, <1>3
  <2> QED BY <2>1
<1> QED BY <1>2, <1>5, <1>6, <1>7

LEMMA CommitStep ==
  ASSUME PInv, NEW c, NEW said \in SUBSET Ids, c \in [Ids -> Rows!Class], Commit(c, said)
  PROVE  PInv'
<1> USE DEF PInv
<1>1. /\ class' = c
      /\ rev' = [i \in Ids |-> IF i \in said \/ c[i] # class[i] THEN rev[i] + 1 ELSE rev[i]]
      /\ lived' = lived \cup {<<i, rev'[i]>> : i \in {j \in Ids : c[j] = "live"}}
      /\ UNCHANGED <<point, cursor, hand, sync, adrift, faults>>
  BY DEF Commit
<1>2. PICK slot \in Placings(said), all \in BOOLEAN :
        /\ event' = Written(said, slot, all)
        /\ excused' = excused \cup {i \in Ids \ said : c[i] # class[i]} \cup Late(said, slot, all)
  BY DEF Commit
<1>3. RowsTyped'
  BY <1>1 DEF RowsTyped
<1>4. /\ event' \in [Slots -> Event]
      /\ \A e \in Slots : event[e].status # "none" => event'[e] = event[e]
  BY <1>2, CommitWrites
<1>5. QueueTyped'
  BY <1>1, <1>4 DEF QueueTyped, Event, Status
<1>6. HandsTyped'
  <2>1. \A s \in Senders : hand[s] # 0 => hand[s] \in Slots
    BY ProjectionAssumption DEF HandsTyped, Slots
  <2>2. \A s \in Senders : hand[s] # 0 => event'[hand[s]] = event[hand[s]]
    BY <1>4, <2>1 DEF HandsTyped
  <2> QED BY <1>1, <2>2 DEF HandsTyped, NoSync
<1>7. CallsTyped'
  BY <1>1 DEF CallsTyped, Sane, Full, NoSync, Call, Sight, Seen
<1>8. HistoryTyped'
  <2>1. \A i \in Ids : rev'[i] \in Nat
    BY <1>3 DEF RowsTyped
  <2>2. {<<i, rev'[i]>> : i \in {j \in Ids : c[j] = "live"}} \subseteq Ids \X Nat
    BY <2>1
  <2>3. changes' \in 0..MaxChanges
    BY ProjectionAssumption DEF Commit, HistoryTyped
  <2>4. excused' \subseteq Ids
    BY <1>2 DEF Late, HistoryTyped
  <2> QED BY <1>1, <2>2, <2>3, <2>4 DEF HistoryTyped
<1>9. lived \subseteq lived'
  BY <1>1
<1>10. RowsHonest'
  <2>1. \A i \in Ids : c[i] = "live" => <<i, rev'[i]>> \in lived'
    BY <1>1
  <2> QED BY <1>1, <2>1 DEF RowsHonest, Given
<1>11. PointsHonest'
  BY <1>1, <1>9 DEF PointsHonest, Given
<1>12. CallsHonest'
  BY <1>1, <1>9 DEF CallsHonest, Honest, Given, Full, Sight, Seen
<1>13. AdriftHonest'
  BY <1>1, <1>9 DEF AdriftHonest, Given, IsRequest
<1> QED BY <1>3, <1>5, <1>6, <1>7, <1>8, <1>10, <1>11, <1>12, <1>13

LEMMA ClaimStep == PInv /\ Claim => PInv'
<1> SUFFICES ASSUME PInv, Claim PROVE PInv'
  OBVIOUS
<1> USE DEF PInv
<1>1. UNCHANGED <<class, rev, point, cursor, adrift, changes, faults, lived, excused>>
  BY DEF Claim
<1>2. PICK e \in Claimable(event, cursor) :
        /\ event' = [event EXCEPT ![e].status = IF @ = "pending" THEN "started" ELSE @]
        /\ hand' = [hand EXCEPT !["worker"] = e]
        /\ sync' = [sync EXCEPT !["worker"] = Call(event[e].ids)]
  BY DEF Claim
<1>3. e \in Slots /\ event[e].status \in {"pending", "failed"} /\ event[e].ids \in SUBSET Ids
  BY <1>2 DEF Claimable, QueueTyped, Event
<1>4. Sane(Call(event[e].ids)) /\ Honest(Call(event[e].ids)) /\ Call(event[e].ids).ids = event[e].ids
      /\ Call(event[e].ids) # NoSync
  BY <1>3, Shapes, Unread
<1>5. CallsTyped' /\ CallsHonest'
  BY <1>1, <1>2, <1>4, OneCall DEF Senders
<1>6. QueueTyped' /\ Kept
  BY <1>1, <1>2, <1>3 DEF QueueTyped, Kept, Event, Status
<1>7. HandsTyped'
  <2>1. e \in 0..NumEvents /\ e # 0 /\ "worker" \in Senders
    BY <1>3, ProjectionAssumption DEF Slots, Senders
  <2> QED BY <1>2, <1>3, <1>4, <1>6, <2>1, HandsAfter
<1> QED
  BY <1>1, <1>5, <1>6, <1>7 DEF RowsTyped, HistoryTyped, RowsHonest, PointsHonest,
                    AdriftHonest, Given, IsRequest

LEMMA AskStep ==
  ASSUME PInv, NEW s \in Callers, NEW ids \in SUBSET Ids, Ask(s, ids)
  PROVE  PInv'
<1> USE DEF PInv
<1>1. /\ sync[s] = NoSync /\ sync' = [sync EXCEPT ![s] = Call(ids)]
      /\ UNCHANGED <<class, rev, point, event, cursor, hand, adrift, changes, faults, lived, excused>>
  BY DEF Ask
<1>2. Sane(Call(ids)) /\ Honest(Call(ids))
  BY Shapes, Unread
<1>3. CallsTyped' /\ CallsHonest'
  BY <1>1, <1>2, OneCall DEF Senders
<1>4. HandsTyped'
  <2>1. s \in Senders /\ s # "worker"
    BY ProjectionAssumption DEF Senders
  <2>2. hand[s] = 0 /\ hand' = [hand EXCEPT ![s] = 0] /\ Kept
    BY <1>1, <2>1 DEF HandsTyped, Kept
  <2>3. 0 \in 0..NumEvents
    BY ProjectionAssumption
  <2> QED BY <1>1, <1>2, <2>1, <2>2, <2>3, HandsAfter
<1> QED
  BY <1>1, <1>3, <1>4 DEF RowsTyped, QueueTyped, Event, Status, HistoryTyped, RowsHonest, PointsHonest,
                          AdriftHonest, Given, IsRequest

LEMMA ReplayStep ==
  ASSUME PInv, NEW s \in Callers, NEW e \in Slots, Replay(s, e)
  PROVE  PInv'
<1> USE DEF PInv
<1>1. /\ event[e].status # "none"
      /\ faults < MaxFaults /\ faults' = faults + 1
      /\ hand' = [hand EXCEPT ![s] = e]
      /\ sync' = [sync EXCEPT ![s] = Call(event[e].ids)]
      /\ UNCHANGED <<class, rev, point, event, cursor, adrift, changes, lived, excused>>
  BY DEF Replay
<1>2. event[e].ids \in SUBSET Ids
  BY DEF QueueTyped, Event
<1>3. Sane(Call(event[e].ids)) /\ Honest(Call(event[e].ids)) /\ Call(event[e].ids).ids = event[e].ids
      /\ Call(event[e].ids) # NoSync
  BY <1>2, Shapes, Unread
<1>4. CallsTyped' /\ CallsHonest'
  BY <1>1, <1>3, OneCall DEF Senders
<1>5. HandsTyped'
  <2>1. s \in Senders /\ s # "worker" /\ e \in 0..NumEvents /\ e # 0
    BY ProjectionAssumption DEF Senders, Slots
  <2>2. Kept
    BY <1>1 DEF Kept
  <2> QED BY <1>1, <1>3, <2>1, <2>2, HandsAfter
<1>6. faults' \in 0..MaxFaults
  BY <1>1, ProjectionAssumption DEF HistoryTyped
<1> QED
  BY <1>1, <1>4, <1>5, <1>6 DEF RowsTyped, QueueTyped, Event, Status, HistoryTyped, RowsHonest,
                                PointsHonest, AdriftHonest, Given, IsRequest

-----------------------------------------------------------------------------
(* The calls *)

\* the snapshot holds what the rows are owed at the time
LEMMA ReadStep ==
  ASSUME PInv, NEW s \in Senders, Read(s)
  PROVE  PInv'
<1> USE DEF PInv
<1> DEFINE ids == sync[s].ids
           live == {i \in ids : Operation(class[i]) = "upsert"}
           met == {i \in ids : Astray(i) \/ \E t \in Senders : t # s /\ Busy(t, i)}
           seen == [i \in ids |-> [class |-> class[i], rev |-> rev[i]]]
           Mine(bare) == [phase |-> "read", ids |-> ids, seen |-> seen,
                          ups |-> live \ bare, bare |-> bare, alone |-> ids \ met]
           Other(t) == [sync[t] EXCEPT !.alone = @ \ met]
           Reads(t) == t # s /\ sync[t].phase \notin {"none", "called"}
<1>1. /\ sync[s].phase = "called"
      /\ UNCHANGED <<class, rev, point, event, cursor, hand, adrift, changes, lived>>
  BY DEF Read
<1>2. PICK bare \in SUBSET live :
        /\ bare # {} => faults < MaxFaults
        /\ faults' = IF bare # {} THEN faults + 1 ELSE faults
        /\ sync' = [t \in Senders |-> CASE t = s -> Mine(bare) [] Reads(t) -> Other(t) [] OTHER -> sync[t]]
        /\ excused' = excused \cup met
  BY DEF Read
<1>3. sync[s] \in {Call(d) : d \in SUBSET Ids}
  BY <1>1, Shapes DEF CallsTyped, Sane, Full
<1>4. ids \subseteq Ids
  BY <1>3, Shapes
<1>5. seen \in [ids -> Seen] /\ seen \in Sight
  <2>1. \A i \in ids : [class |-> class[i], rev |-> rev[i]] \in Seen
    BY <1>4 DEF Seen, RowsTyped
  <2>2. seen \in [ids -> Seen]
    BY <2>1
  <2> QED BY <1>4, <2>2 DEF Sight
<1>6. \A i \in live : class[i] = "live"
  BY <1>4 DEF Operation, RowsTyped, Rows!Class
<1>7. Full(Mine(bare)) /\ Honest(Mine(bare))
  <2> HIDE DEF live, met, seen, ids
  <2>1. live \subseteq ids /\ met \subseteq ids
    BY DEF live, met
  <2>2. Full(Mine(bare))
    BY <1>4, <1>5, <2>1 DEF Full
  <2>3. \A i \in ids : seen[i].class = class[i] /\ seen[i].rev = rev[i]
    BY DEF seen
  <2>4. \A i \in ids : seen[i].class = "live" => Given(i, seen[i].rev)
    BY <1>4, <2>3 DEF RowsHonest
  <2>5. \A i \in live : seen[i].class = "live"
    BY <1>6, <2>1, <2>3
  <2> QED BY <2>2, <2>4, <2>5 DEF Honest
<1>8. ASSUME NEW t \in Senders, Reads(t)
      PROVE  Full(Other(t)) /\ Honest(Other(t))
  <2> HIDE DEF met, ids
  <2>1. Full(sync[t]) /\ Honest(sync[t])
    BY <1>8, Shapes DEF CallsTyped, CallsHonest, Sane
  <2>2. Full(Other(t))
    BY <2>1 DEF Full
  <2>3. Other(t).seen = sync[t].seen /\ Other(t).ids = sync[t].ids /\ Other(t).ups = sync[t].ups
    BY <2>1 DEF Full
  <2> QED BY <2>1, <2>2, <2>3 DEF Honest
<1>9. \A t \in Senders : Sane(sync'[t]) /\ Honest(sync'[t])
  <2> SUFFICES ASSUME NEW t \in Senders PROVE Sane(sync'[t]) /\ Honest(sync'[t])
    OBVIOUS
  <2> HIDE DEF Mine, Other, Reads, met, live, seen, ids
  <2>1. CASE t = s
    <3>1. sync'[s] = Mine(bare)
      BY <1>2 DEF Reads
    <3> QED BY <3>1, <1>7, <2>1 DEF Sane
  <2>2. CASE t # s /\ Reads(t)
    BY <1>2, <1>8, <2>2 DEF Sane
  <2>3. CASE t # s /\ ~Reads(t)
    BY <1>2, <2>3 DEF CallsTyped, CallsHonest
  <2> QED BY <2>1, <2>2, <2>3
<1>10. sync' = [t \in Senders |-> sync'[t]]
  BY <1>2
<1>11. CallsTyped'
  BY <1>9, <1>10 DEF CallsTyped, Sane, Full, NoSync, Call, Sight, Seen
<1>12. CallsHonest'
  BY <1>1, <1>9 DEF CallsHonest, Honest, Given, Full, Sight, Seen
<1>13. HandsTyped'
  <2>1. \A t \in Senders : sync'[t].ids = sync[t].ids /\ (sync'[t] = NoSync <=> sync[t] = NoSync)
    <3> SUFFICES ASSUME NEW t \in Senders
                 PROVE  sync'[t].ids = sync[t].ids /\ (sync'[t] = NoSync <=> sync[t] = NoSync)
      OBVIOUS
    <3> HIDE DEF Mine, Other, Reads, met, live, seen
    <3>1. CASE t = s
      <4>1. sync'[s] = Mine(bare)
        BY <1>2 DEF Reads
      <4>2. Mine(bare).ids = ids /\ Mine(bare).phase = "read"
        BY DEF Mine
      <4> QED BY <1>1, <3>1, <4>1, <4>2, Shapes
    <3>2. CASE t # s /\ Reads(t)
      <4>1. sync'[t] = Other(t) /\ Full(sync[t])
        BY <1>2, <3>2, Shapes DEF CallsTyped, Sane, Reads
      <4>2. Other(t).ids = sync[t].ids /\ Other(t).phase = sync[t].phase
        BY <4>1 DEF Other, Full
      <4>3. sync[t].phase # "none"
        BY <4>1 DEF Full
      <4> QED BY <4>1, <4>2, <4>3, Shapes
    <3>3. CASE t # s /\ ~Reads(t)
      BY <1>2, <3>3
    <3> QED BY <3>1, <3>2, <3>3
  <2> QED BY <1>1, <2>1 DEF HandsTyped, NoSync, Senders
<1>14. HistoryTyped'
  <2>1. faults' \in 0..MaxFaults
    BY <1>2, ProjectionAssumption DEF HistoryTyped
  <2>2. excused' \subseteq Ids
    BY <1>2, <1>4 DEF HistoryTyped
  <2> QED BY <1>1, <2>1, <2>2 DEF HistoryTyped
<1> QED
  BY <1>1, <1>11, <1>12, <1>13, <1>14
  DEF RowsTyped, QueueTyped, Event, Status, RowsHonest, PointsHonest, AdriftHonest, Given, IsRequest

\* a step of one call that changes neither its snapshot nor anything of others
LEMMA GoOn ==
  ASSUME PInv, NEW s \in Senders, NEW y, Full(sync[s]), Full(y), Honest(y),
         y.ids = sync[s].ids,
         sync' = [sync EXCEPT ![s] = y],
         UNCHANGED <<class, rev, event, cursor, hand, adrift, changes, lived, excused>>,
         faults' \in 0..MaxFaults
  PROVE  /\ RowsHonest' /\ CallsTyped' /\ CallsHonest' /\ AdriftHonest'
         /\ QueueTyped' /\ HandsTyped' /\ HistoryTyped'
<1> USE DEF PInv
<1>1. Sane(y)
  BY DEF Sane
<1>2. CallsTyped' /\ CallsHonest'
  BY <1>1, OneCall
<1>3. HandsTyped'
  <2>1. hand[s] \in 0..NumEvents /\ hand' = [hand EXCEPT ![s] = hand[s]] /\ Kept
    BY DEF HandsTyped, Kept
  <2>2. sync[s] # NoSync /\ y # NoSync
    BY Shapes
  <2> QED BY <1>1, <2>1, <2>2, HandsAfter DEF HandsTyped
<1> QED
  BY <1>2, <1>3 DEF RowsHonest, AdriftHonest, QueueTyped, Event, Status, HistoryTyped, Given, IsRequest

LEMMA CheckStep ==
  ASSUME PInv, NEW s \in Senders, Check(s)
  PROVE  PInv'
<1> USE DEF PInv
<1> DEFINE y == sync[s]
           same == {i \in y.ups : point[i] = y.seen[i].rev}
           To(left) == [y EXCEPT !.ups = y.ups \ left,
                                 !.phase = IF y.ups # left THEN "upsert" ELSE Rest(y)]
<1>1. /\ y.phase = "read"
      /\ UNCHANGED <<class, rev, point, event, cursor, hand, adrift, changes, lived, excused>>
  BY DEF Check
<1>2. PICK left \in {same, {}} :
        /\ left # same => faults < MaxFaults
        /\ faults' = IF left # same THEN faults + 1 ELSE faults
        /\ sync' = [sync EXCEPT ![s] = To(left)]
  BY DEF Check
<1>3. Full(y) /\ Honest(y)
  BY <1>1, PastRead DEF CallsTyped, CallsHonest
<1>4. Full(To(left)) /\ Honest(To(left)) /\ To(left).ids = y.ids
  <2>1. Rest(y) \in {"delete", "done"}
    BY DEF Rest
  <2> HIDE DEF y
  <2>2. Full(To(left))
    BY <1>3, <2>1 DEF Full
  <2>3. /\ To(left).ids = y.ids /\ To(left).seen = y.seen /\ To(left).ups = y.ups \ left
    BY <1>3 DEF Full
  <2> QED BY <1>3, <2>2, <2>3 DEF Honest
<1>5. faults' \in 0..MaxFaults
  BY <1>2, ProjectionAssumption DEF HistoryTyped
<1> HIDE DEF To, y, same
<1>6. /\ RowsHonest' /\ CallsTyped' /\ CallsHonest' /\ AdriftHonest'
      /\ QueueTyped' /\ HandsTyped' /\ HistoryTyped'
  BY <1>1, <1>2, <1>3, <1>4, <1>5, GoOn DEF y
<1> QED BY <1>1, <1>6 DEF RowsTyped, PointsHonest, Given

\* a call goes on to another phase
LEMMA NextPhase ==
  ASSUME NEW y, Full(y), Honest(y), NEW p \in {"read", "upsert", "delete", "done"}
  PROVE  /\ Full([y EXCEPT !.phase = p]) /\ Honest([y EXCEPT !.phase = p])
         /\ [y EXCEPT !.phase = p].ids = y.ids
<1>1. Full([y EXCEPT !.phase = p])
  BY DEF Full
<1>2. LET z == [y EXCEPT !.phase = p]
      IN z.ids = y.ids /\ z.seen = y.seen /\ z.ups = y.ups
  BY DEF Full
<1> QED BY <1>1, <1>2 DEF Honest

LEMMA WriteStep ==
  ASSUME PInv, NEW s \in Senders, Upsert(s) \/ Delete(s)
  PROVE  PInv'
<1> USE DEF PInv
<1>1. UNCHANGED <<class, rev, event, cursor, hand, adrift, changes, faults, lived, excused>>
  BY DEF Upsert, Delete
<1>2. sync[s].phase \in {"upsert", "delete"}
  BY DEF Upsert, Delete
<1>3. Full(sync[s]) /\ Honest(sync[s])
  BY <1>2, PastRead DEF CallsTyped, CallsHonest
<1>4. PICK p \in {"read", "upsert", "delete", "done"} : sync' = [sync EXCEPT ![s] = [sync[s] EXCEPT !.phase = p]]
  BY DEF Upsert, Delete, Rest
<1>5. faults' \in 0..MaxFaults
  BY <1>1 DEF HistoryTyped
<1>6. /\ Full([sync[s] EXCEPT !.phase = p]) /\ Honest([sync[s] EXCEPT !.phase = p])
      /\ [sync[s] EXCEPT !.phase = p].ids = sync[s].ids
  BY <1>3, NextPhase
<1>7. /\ RowsHonest' /\ CallsTyped' /\ CallsHonest' /\ AdriftHonest'
      /\ QueueTyped' /\ HandsTyped' /\ HistoryTyped'
  BY <1>1, <1>3, <1>4, <1>5, <1>6, GoOn
<1>8. point' = Applied(Upserts(sync[s])) \/ point' = Applied(Deletes(sync[s]))
  BY DEF Upsert, Delete
<1>9. point' \in [Ids -> Nat] /\ \A i \in Ids : Given(i, point'[i])
  BY <1>3, <1>8, UpsertsHonest, DeletesHonest, ApplyRequest
<1> QED BY <1>1, <1>7, <1>9 DEF RowsTyped, PointsHonest, Given

\* a call ends, and its event is marked or left
LEMMA EndHands ==
  ASSUME PInv, NEW s \in Senders, sync' = [sync EXCEPT ![s] = NoSync],
         hand' = [hand EXCEPT ![s] = 0],
         \/ UNCHANGED <<event, cursor>>
         \/ s = "worker" /\ sync[s] # NoSync /\ FailAttempt
         \/ hand[s] # 0 /\ Dispatch(s)
  PROVE  QueueTyped' /\ HandsTyped'
<1> USE DEF PInv
<1>1. \A t \in Senders : hand[t] # 0 => hand[t] \in Slots
  BY ProjectionAssumption DEF HandsTyped, Slots
<1>2. QueueTyped' /\ Kept
  <2>1. CASE UNCHANGED <<event, cursor>>
    BY <2>1 DEF QueueTyped, Kept, Event, Status
  <2>2. CASE s = "worker" /\ sync[s] # NoSync /\ FailAttempt
    <3>1. hand["worker"] \in Slots
      BY <1>1, <2>2 DEF HandsTyped, Senders
    <3> QED BY <2>2, <3>1 DEF FailAttempt, QueueTyped, Kept, Event, Status
  <2>3. CASE hand[s] # 0 /\ Dispatch(s)
    <3>1. hand[s] \in Slots /\ hand[s] \in 0..NumEvents
      BY <1>1, <2>3 DEF HandsTyped
    <3> QED BY <2>3, <3>1 DEF Dispatch, QueueTyped, Kept, Event, Status
  <2> QED BY <2>1, <2>2, <2>3
<1>3. 0 \in 0..NumEvents /\ Sane(NoSync)
  BY ProjectionAssumption, Shapes
<1> QED BY <1>2, <1>3, HandsAfter

LEMMA NamedRows == QueueTyped => \A es : es \subseteq Slots => NamedBy(es) \subseteq Ids
BY DEF QueueTyped, Event, NamedBy

LEMMA ReturnStep ==
  ASSUME PInv, NEW s \in Senders, Return(s)
  PROVE  PInv'
<1> USE DEF PInv
<1>1. /\ sync[s].phase = "done"
      /\ sync' = [sync EXCEPT ![s] = NoSync]
      /\ hand' = [hand EXCEPT ![s] = 0]
      /\ UNCHANGED <<class, rev, point, adrift, changes, faults, lived>>
  BY DEF Return
<1>2. CallsTyped' /\ CallsHonest'
  BY <1>1, Shapes, Unread, OneCall
<1>3. Full(sync[s]) /\ sync[s] # NoSync
  BY <1>1, PastRead, Shapes DEF CallsTyped
<1>4. QueueTyped' /\ HandsTyped'
  <2>1. \/ UNCHANGED <<event, cursor>>
        \/ s = "worker" /\ sync[s] # NoSync /\ FailAttempt
        \/ hand[s] # 0 /\ Dispatch(s)
    BY <1>3 DEF Return
  <2> QED BY <1>1, <2>1, EndHands
<1>5. excused' \subseteq Ids
  <2>1. Passed(s) \subseteq Slots /\ sync[s].bare \subseteq Ids
    BY <1>3 DEF Passed, Claimable, Full
  <2>2. s = "worker" => Dropped \subseteq Ids
    <3>1. hand["worker"] # 0 => event[hand["worker"]].ids \subseteq Ids
      BY ProjectionAssumption DEF HandsTyped, QueueTyped, Slots, Event, Senders
    <3> QED BY <1>3, <3>1 DEF Dropped, HandsTyped
  <2>3. \/ excused' = excused \ Settles(s)
        \/ s = "worker" /\ excused' = (excused \ Settles(s)) \cup Dropped
        \/ excused' = (excused \ Settles(s)) \cup NamedBy(Passed(s)) \cup sync[s].bare
    BY DEF Return
  <2> HIDE DEF PInv
  <2>4. NamedBy(Passed(s)) \subseteq Ids /\ excused \subseteq Ids
    BY <2>1, NamedRows DEF PInv, HistoryTyped
  <2> QED BY <2>1, <2>2, <2>3, <2>4
<1> QED
  BY <1>1, <1>2, <1>4, <1>5 DEF RowsTyped, HistoryTyped, RowsHonest, PointsHonest, AdriftHonest, Given, IsRequest

\* a call that ends early leaves an honest request behind, if any
LEMMA EarlyStep ==
  ASSUME PInv, NEW s \in Senders, Throw(s) \/ Crash(s)
  PROVE  PInv'
<1> USE DEF PInv
<1>1. /\ sync[s] # NoSync
      /\ faults < MaxFaults /\ faults' = faults + 1
      /\ sync' = [sync EXCEPT ![s] = NoSync]
      /\ (adrift' = adrift) \/ (adrift' = adrift \cup InFlight(sync[s]))
      /\ UNCHANGED <<class, rev, point, changes, lived>>
  BY DEF Throw, Crash, EndsEarly
<1>2. CallsTyped' /\ CallsHonest'
  BY <1>1, Shapes, Unread, OneCall
<1>3. \A w \in InFlight(sync[s]) : IsRequest(w) /\ \A i \in DOMAIN w : Given(i, w[i])
  <2>1. sync[s].phase \in {"upsert", "delete"} => Full(sync[s]) /\ Honest(sync[s])
    BY PastRead DEF CallsTyped, CallsHonest
  <2>2. CASE sync[s].phase = "upsert"
    BY <2>1, <2>2, UpsertsHonest DEF InFlight
  <2>3. CASE sync[s].phase = "delete"
    BY <2>1, <2>3, DeletesHonest DEF InFlight
  <2>4. CASE sync[s].phase \notin {"upsert", "delete"}
    BY <2>4 DEF InFlight
  <2> QED BY <2>2, <2>3, <2>4
<1>4. AdriftHonest'
  <2>1. \A w \in adrift' : IsRequest(w) /\ \A i \in DOMAIN w : Given(i, w[i])
    BY <1>1, <1>3 DEF AdriftHonest
  <2> QED BY <1>1, <2>1 DEF AdriftHonest, Given, IsRequest
<1>5. hand' = [hand EXCEPT ![s] = 0] /\ excused' = IF s = "worker" THEN excused \cup Dropped ELSE excused
  BY DEF Throw, Crash, EndsEarly
<1>6. QueueTyped' /\ HandsTyped'
  <2>1. UNCHANGED <<event, cursor>> \/ (s = "worker" /\ sync[s] # NoSync /\ FailAttempt)
    BY DEF Throw, Crash
  <2> QED BY <1>1, <1>5, <2>1, EndHands
<1>8. excused' \subseteq Ids
  <2>1. s = "worker" => event[hand["worker"]].ids \subseteq Ids
    BY <1>1, ProjectionAssumption DEF HandsTyped, QueueTyped, Slots, Event, Senders
  <2> QED BY <1>5, <2>1 DEF Dropped, HistoryTyped
<1>7. faults' \in 0..MaxFaults
  BY <1>1, ProjectionAssumption DEF HistoryTyped
<1> QED
  BY <1>1, <1>2, <1>4, <1>6, <1>7, <1>8 DEF RowsTyped, HistoryTyped, RowsHonest, PointsHonest, Given

LEMMA ArriveStep ==
  ASSUME PInv, NEW w \in adrift, Land(w) \/ Lose(w)
  PROVE  PInv'
<1> USE DEF PInv
<1>1. /\ adrift' = adrift \ {w}
      /\ UNCHANGED <<class, rev, event, cursor, hand, sync, changes, faults, lived, excused>>
  BY DEF Land, Lose
<1>2. point' = point \/ point' = Applied(w)
  BY DEF Land, Lose
<1>3. IsRequest(w) /\ \A i \in DOMAIN w : Given(i, w[i])
  BY DEF AdriftHonest
<1>4. point' \in [Ids -> Nat] /\ \A i \in Ids : Given(i, point'[i])
  BY <1>2, <1>3, ApplyRequest DEF RowsTyped, PointsHonest
<1>5. RowsTyped' /\ PointsHonest'
  BY <1>1, <1>4 DEF RowsTyped, PointsHonest, Given
<1>6. QueueTyped' /\ HandsTyped' /\ HistoryTyped' /\ RowsHonest'
  BY <1>1 DEF QueueTyped, Event, Status, HandsTyped, NoSync, HistoryTyped, RowsHonest, Given
<1>7. CallsTyped' /\ CallsHonest'
  BY <1>1 DEF CallsTyped, CallsHonest, Sane, Honest, Given, Full, NoSync, Call, Sight, Seen
<1>8. AdriftHonest'
  BY <1>1 DEF AdriftHonest, Given, IsRequest
<1> QED BY <1>5, <1>6, <1>7, <1>8

-----------------------------------------------------------------------------
(* The invariant *)

LEMMA InitPInv == Init => PInv
<1> SUFFICES ASSUME Init PROVE PInv
  OBVIOUS
<1> USE ProjectionAssumption DEF Init
<1>1. RowsTyped
  BY DEF RowsTyped
<1>2. QueueTyped /\ HandsTyped
  BY DEF QueueTyped, HandsTyped, NoEvent, Event, Status, Senders
<1>3. CallsTyped /\ CallsHonest
  BY Shapes, Unread DEF CallsTyped, CallsHonest
<1>4. HistoryTyped
  BY DEF HistoryTyped
<1>5. \A i \in Ids : class[i] = "live" => <<i, 1>> \in lived
  OBVIOUS
<1>6. RowsHonest /\ PointsHonest
  BY <1>5 DEF RowsHonest, PointsHonest, Given
<1>7. AdriftHonest
  BY DEF AdriftHonest
<1> QED BY <1>1, <1>2, <1>3, <1>4, <1>6, <1>7 DEF PInv

LEMMA NextPInv == PInv /\ [Next]_vars => PInv'
<1> SUFFICES ASSUME PInv, [Next]_vars PROVE PInv'
  OBVIOUS
<1>1. CASE Change
  <2>0. PICK b \in Batches : \E c \in [b -> Rows!Class], said \in SUBSET b :
          Commit([i \in Ids |-> IF i \in b THEN c[i] ELSE class[i]], said)
    BY <1>1 DEF Change
  <2>1. PICK c \in [b -> Rows!Class], said \in SUBSET b :
          Commit([i \in Ids |-> IF i \in b THEN c[i] ELSE class[i]], said)
    BY <2>0
  <2>2. b \subseteq Ids /\ said \in SUBSET Ids
    BY ProjectionAssumption
  <2>3. [i \in Ids |-> IF i \in b THEN c[i] ELSE class[i]] \in [Ids -> Rows!Class]
    BY <2>2 DEF PInv, RowsTyped
  <2> QED BY <2>1, <2>2, <2>3, CommitStep
<1>2. CASE Claim
  BY <1>2, ClaimStep
<1>3. ASSUME NEW s \in Callers,
             \/ Reconcile(s)
             \/ \E ids \in Batches : Ask(s, ids)
             \/ \E e \in Slots : Replay(s, e)
      PROVE  PInv'
  <2>1. CASE Reconcile(s)
    <3>1. PICK drift \in SUBSET Differs : Ask(s, Mismatched \cup drift)
      BY <2>1 DEF Reconcile
    <3>2. Mismatched \cup drift \in SUBSET Ids
      BY DEF Mismatched, Differs
    <3> QED BY <3>1, <3>2, AskStep
  <2>2. CASE \E ids \in Batches : Ask(s, ids)
    BY <2>2, ProjectionAssumption, AskStep
  <2>3. CASE \E e \in Slots : Replay(s, e)
    BY <2>3, ReplayStep
  <2> QED BY <1>3, <2>1, <2>2, <2>3
<1>4. ASSUME NEW s \in Senders, Proceed(s) \/ Throw(s) \/ Crash(s)
      PROVE  PInv'
  <2>1. CASE Read(s)
    BY <2>1, ReadStep
  <2>2. CASE Check(s)
    BY <2>2, CheckStep
  <2>3. CASE Upsert(s) \/ Delete(s)
    BY <2>3, WriteStep
  <2>4. CASE Return(s)
    BY <2>4, ReturnStep
  <2>5. CASE Throw(s) \/ Crash(s)
    BY <2>5, EarlyStep
  <2> QED BY <1>4, <2>1, <2>2, <2>3, <2>4, <2>5 DEF Proceed
<1>5. CASE Arrive
  BY <1>5, ArriveStep DEF Arrive
<1>6. CASE UNCHANGED vars
  BY <1>6 DEF vars, PInv, RowsTyped, QueueTyped, Event, Status, HandsTyped, CallsTyped, HistoryTyped,
              RowsHonest, PointsHonest, CallsHonest, AdriftHonest, Sane, Honest, Given, Full, NoSync, Call, Sight,
              Seen, IsRequest
<1> QED BY <1>1, <1>2, <1>3, <1>4, <1>5, <1>6 DEF Next

LEMMA Invariance == Spec => []PInv
BY InitPInv, NextPInv, PTL DEF Spec

\* Every variable keeps its type, for any rows, batches, faults and retries.
THEOREM ProjectionTypeCorrect == Spec => []TypeOK
<1>1. PInv => TypeOK
  <2> SUFFICES ASSUME PInv PROVE TypeOK
    OBVIOUS
  <2>1. DOMAIN sync = Senders /\ \A s \in Senders : IsSync(sync[s])
    BY SaneIsSync DEF PInv, CallsTyped
  <2>2. \A w \in adrift : IsRequest(w)
    BY DEF PInv, AdriftHonest
  <2> QED BY <2>1, <2>2 DEF TypeOK, PInv, RowsTyped, QueueTyped, HandsTyped, HistoryTyped
<1> QED BY <1>1, Invariance, PTL

\* Whatever syncs, retries, late requests and repairs meet on a row, its point
\* shows a content the row had when it was approved and current: no candidate,
\* rejected or archived content is ever shown.
THEOREM OnlyLiveContentIsShown == Spec => []PointsWereLive
<1>1. PInv => PointsWereLive
  BY DEF PInv, PointsHonest, Given, PointsWereLive
<1> QED BY <1>1, Invariance, PTL

-----------------------------------------------------------------------------
(* Divergence                                                              *)

(***************************************************************************)
(* A row that is not excused is either named by an event that a claim may  *)
(* return or the worker has, or settled, and then whatever is under way on *)
(* it writes what the row is owed (UpToDate). That an event may go once    *)
(* the call for it is done rests on the call having met no other: it is    *)
(* alone on every row it deals with that is not excused (MetOrAlone),      *)
(* nobody else can undo its writes (MetByNone), these are what it has read *)
(* (WritesSeen), and a row that has changed since has an event of its own. *)
(***************************************************************************)
Names(e, i) == e \in Slots /\ i \in event[e].ids

Named(i) ==
  \E e \in Slots : Names(e, i) /\ (e \in Claimable(event, cursor) \/ e = hand["worker"])

\* by an event that will be read after the call of s is done
NamedElse(s, i) ==
  \E e \in Slots :
    /\ Names(e, i) /\ e # hand[s]
    /\ \/ e \in Claimable(event, cursor)
       \/ e = hand["worker"] /\ sync["worker"].phase = "called"

Current(y, i) == y.seen[i] = [class |-> class[i], rev |-> rev[i]]

Gives(w, i) ==
  /\ class[i] = "live" => w[i] = rev[i]
  /\ class[i] \in {"absent", "gone"} => w[i] = 0

Wrote(s, i) ==
  /\ sync[s].seen[i].class = "live" =>
       \/ i \in sync[s].ups /\ sync[s].phase \in {"read", "upsert"}
       \/ sync[s].phase # "read" /\ point[i] = sync[s].seen[i].rev
  /\ sync[s].seen[i].class \in {"absent", "gone"} /\ sync[s].phase = "done" => point[i] = 0

MetByNone ==
  \A s \in Senders, i \in Ids : Busy(s, i) /\ i \in sync[s].alone =>
    ~Astray(i) /\ \A t \in Senders : t # s => ~Busy(t, i)

MetOrAlone == \A s \in Senders, i \in Ids : Busy(s, i) => i \in sync[s].alone \/ i \in excused

WritesSeen ==
  \A s \in Senders, i \in Ids :
    Busy(s, i) /\ i \in sync[s].alone /\ i \notin sync[s].bare => Wrote(s, i)

AsOwed(i) ==
  /\ Settled(i)
  /\ \A s \in Senders : Busy(s, i) => Current(sync[s], i)
  /\ \A w \in adrift : i \in DOMAIN w => Gives(w, i)

UpToDate ==
  \A i \in Ids : i \notin excused =>
    /\ Named(i) \/ AsOwed(i)
    /\ \A s \in Senders : hand[s] # 0 /\ Busy(s, i) => NamedElse(s, i) \/ Current(sync[s], i)

DInv == MetByNone /\ MetOrAlone /\ WritesSeen /\ UpToDate

LEMMA BusyIsFull ==
  ASSUME PInv, NEW s \in Senders, NEW i \in Ids, Busy(s, i)
  PROVE  /\ Full(sync[s]) /\ Honest(sync[s])
         /\ i \in sync[s].ids /\ sync[s].seen[i] \in Seen
         /\ sync[s].phase \in {"read", "upsert", "delete", "done"}
<1>1. sync[s].phase \notin {"none", "called"} /\ i \in sync[s].ids
  BY DEF Busy
<1>2. Full(sync[s]) /\ Honest(sync[s])
  BY <1>1, Shapes DEF PInv, CallsTyped, CallsHonest, Sane
<1> QED BY <1>1, <1>2 DEF Full

LEMMA HandIsSlot ==
  ASSUME PInv, NEW s \in Senders
  PROVE  /\ hand[s] \in 0..NumEvents /\ 0 \notin Slots
         /\ hand[s] # 0 => hand[s] \in Slots /\ sync[s].ids = event[hand[s]].ids
BY ProjectionAssumption DEF PInv, HandsTyped, Slots

\* calls that have read nothing yet come and go
LEMMA IdleStep ==
  ASSUME PInv, DInv,
         UNCHANGED <<class, rev, point, adrift, excused>>,
         \A t \in Senders : \/ sync'[t] = sync[t] /\ hand'[t] = hand[t]
                            \/ \A i \in Ids : ~Busy(t, i) /\ ~Busy(t, i)',
         \A i \in Ids : Named(i) => Named(i)',
         \A t \in Senders, i \in Ids : Busy(t, i) /\ NamedElse(t, i) => NamedElse(t, i)'
  PROVE  DInv'
<1>1. \A t \in Senders, i \in Ids : Busy(t, i)' <=> Busy(t, i)
  BY DEF Busy
<1>2. \A t \in Senders, i \in Ids : Busy(t, i) => sync'[t] = sync[t] /\ hand'[t] = hand[t]
  OBVIOUS
<1>3. \A i \in Ids : Astray(i)' <=> Astray(i)
  BY DEF Astray
<1>4. MetByNone' /\ MetOrAlone'
  BY <1>1, <1>2, <1>3 DEF MetByNone, MetOrAlone, DInv
<1>5. WritesSeen'
  BY <1>1, <1>2 DEF WritesSeen, Wrote, DInv
<1>6. \A i \in Ids : AsOwed(i) => AsOwed(i)'
  BY <1>1, <1>2 DEF AsOwed, Settled, Current, Gives
<1>7. \A t \in Senders, i \in Ids : Busy(t, i) /\ Current(sync[t], i) => Current(sync[t], i)'
  BY <1>2 DEF Current
<1>8. UpToDate'
  <2> SUFFICES ASSUME NEW i \in Ids, i \notin excused'
               PROVE  /\ Named(i)' \/ AsOwed(i)'
                      /\ \A t \in Senders : hand'[t] # 0 /\ Busy(t, i)' =>
                           NamedElse(t, i)' \/ Current(sync[t], i)'
    BY DEF UpToDate
  <2>1. Named(i)' \/ AsOwed(i)'
    BY <1>6 DEF DInv, UpToDate
  <2>2. ASSUME NEW t \in Senders, hand'[t] # 0, Busy(t, i)'
        PROVE  NamedElse(t, i)' \/ Current(sync[t], i)'
    <3>1. Busy(t, i) /\ hand[t] # 0
      BY <1>1, <1>2, <2>2
    <3> QED BY <1>7, <3>1 DEF DInv, UpToDate
  <2> QED BY <2>1, <2>2
<1> QED BY <1>4, <1>5, <1>8 DEF DInv

\* every row that changes is named by a new event before the cursor, or excused
LEMMA CommitDivergence ==
  ASSUME PInv, DInv, NEW c, NEW said \in SUBSET Ids, c \in [Ids -> Rows!Class], Commit(c, said)
  PROVE  DInv'
<1>1. /\ class' = c
      /\ rev' = [i \in Ids |-> IF i \in said \/ c[i] # class[i] THEN rev[i] + 1 ELSE rev[i]]
      /\ UNCHANGED <<point, cursor, hand, sync, adrift, faults>>
  BY DEF Commit
<1>2. PICK slot \in Placings(said), all \in BOOLEAN :
        /\ event' = Written(said, slot, all)
        /\ excused' = excused \cup {i \in Ids \ said : c[i] # class[i]} \cup Late(said, slot, all)
  BY DEF Commit
<1>3. /\ \A e \in Slots : event[e].status # "none" => event'[e] = event[e]
      /\ \A i \in said : /\ slot[i] \in Slots /\ event[slot[i]].status = "none"
                          /\ event'[slot[i]].ids = {j \in said : all \/ slot[j] = slot[i]}
                          /\ event'[slot[i]].status = "pending" /\ event'[slot[i]].attempts = 0
  BY <1>2, CommitWrites DEF PInv
<1>4. \A e \in Claimable(event, cursor) :
        e \in Slots /\ e \in Claimable(event', cursor') /\ event'[e] = event[e]
  <2>1. \A e \in Claimable(event, cursor) : e \in Slots /\ event[e].status # "none"
    BY DEF Claimable
  <2> QED BY <1>1, <1>3, <2>1 DEF Claimable
<1>5. \A t \in Senders : hand[t] # 0 => event'[hand[t]] = event[hand[t]]
  BY <1>3, HandIsSlot DEF PInv, HandsTyped
<1>6. \A i \in Ids : Named(i) => Named(i)'
  <2> SUFFICES ASSUME NEW i \in Ids, NEW e \in Slots, Names(e, i),
                      e \in Claimable(event, cursor) \/ e = hand["worker"]
               PROVE  Named(i)'
    BY DEF Named
  <2>1. e = hand["worker"] => event'[e] = event[e]
    BY <1>5, HandIsSlot DEF Senders
  <2> QED BY <1>1, <1>4, <2>1 DEF Named, Names
<1>7. \A t \in Senders, i \in Ids : NamedElse(t, i) => NamedElse(t, i)'
  <2> SUFFICES ASSUME NEW t \in Senders, NEW i \in Ids, NEW e \in Slots, Names(e, i), e # hand[t],
                      \/ e \in Claimable(event, cursor)
                      \/ e = hand["worker"] /\ sync["worker"].phase = "called"
               PROVE  NamedElse(t, i)'
    BY DEF NamedElse
  <2>1. e = hand["worker"] => event'[e] = event[e]
    BY <1>5, HandIsSlot DEF Senders
  <2> QED BY <1>1, <1>4, <2>1 DEF NamedElse, Names
<1>8. ASSUME NEW i \in said, i \notin excused'
      PROVE  Named(i)' /\ \A t \in Senders : NamedElse(t, i)'
  <2>1. PICK j \in said : (all \/ i = j) /\ ~(slot[j] <= cursor)
    BY <1>2, <1>8 DEF Late
  <2>2. slot[j] \in Slots /\ slot[j] > cursor
    BY <1>3, <2>1 DEF Slots, PInv, QueueTyped
  <2>3. slot[j] \in Claimable(event', cursor')
    BY <1>1, <1>3, <2>2, ProjectionAssumption DEF Claimable
  <2>4. i \in event'[slot[j]].ids
    BY <1>3, <2>1
  <2>5. \A t \in Senders : slot[j] # hand'[t]
    BY <1>1, <1>3, <2>2, HandIsSlot DEF PInv, HandsTyped
  <2> QED BY <2>2, <2>3, <2>4, <2>5 DEF Named, NamedElse, Names
<1>9. \A t \in Senders, i \in Ids : (Busy(t, i)' <=> Busy(t, i)) /\ (Astray(i)' <=> Astray(i))
  BY <1>1 DEF Busy, Astray
<1>10. \A i \in Ids : i \in excused => i \in excused'
  BY <1>2
<1>11. MetByNone' /\ MetOrAlone' /\ WritesSeen'
  BY <1>1, <1>9, <1>10 DEF MetByNone, MetOrAlone, WritesSeen, Wrote, DInv
<1>12. ASSUME NEW i \in Ids, i \notin excused'
       PROVE  /\ Named(i)' \/ AsOwed(i)'
              /\ \A t \in Senders : hand'[t] # 0 /\ Busy(t, i)' =>
                   NamedElse(t, i)' \/ Current(sync[t], i)'
  <2>1. CASE i \in said
    BY <1>8, <1>12, <2>1
  <2>2. CASE i \notin said
    <3>1. i \notin excused /\ class'[i] = class[i] /\ rev'[i] = rev[i]
      BY <1>1, <1>2, <1>12, <2>2 DEF PInv, RowsTyped
    <3>2. AsOwed(i) => AsOwed(i)'
      BY <1>1, <1>9, <3>1 DEF AsOwed, Settled, Current, Gives
    <3>3. \A t \in Senders : Current(sync[t], i) => Current(sync[t], i)'
      BY <1>1, <3>1 DEF Current
    <3> QED BY <1>1, <1>6, <1>7, <1>9, <3>1, <3>2, <3>3 DEF DInv, UpToDate
  <2> QED BY <2>1, <2>2
<1> QED BY <1>11, <1>12 DEF DInv, UpToDate

LEMMA ClaimDivergence == PInv /\ DInv /\ Claim => DInv'
<1> SUFFICES ASSUME PInv, DInv, Claim PROVE DInv'
  OBVIOUS
<1>1. /\ sync["worker"] = NoSync
      /\ UNCHANGED <<class, rev, point, cursor, adrift, changes, faults, lived, excused>>
  BY DEF Claim
<1>2. PICK e \in Claimable(event, cursor) :
        /\ event' = [event EXCEPT ![e].status = IF @ = "pending" THEN "started" ELSE @]
        /\ hand' = [hand EXCEPT !["worker"] = e]
        /\ sync' = [sync EXCEPT !["worker"] = Call(event[e].ids)]
  BY DEF Claim
<1>3. e \in Slots /\ event[e].ids \in SUBSET Ids
  BY <1>2 DEF Claimable, PInv, QueueTyped, Event
<1>4. /\ sync'["worker"] = Call(event[e].ids) /\ hand'["worker"] = e
      /\ \A t \in Senders : t # "worker" => sync'[t] = sync[t] /\ hand'[t] = hand[t]
  BY <1>2 DEF PInv, CallsTyped, HandsTyped, Senders
<1>5. \A i \in Ids : ~Busy("worker", i) /\ ~Busy("worker", i)'
  BY <1>1, <1>3, <1>4, Shapes DEF Busy
<1>6. hand["worker"] \notin Slots
  BY <1>1, HandIsSlot DEF PInv, HandsTyped, Senders
<1>7. \A d \in Slots : event'[d].ids = event[d].ids /\ (d # e => event'[d] = event[d])
  BY <1>2, <1>3 DEF PInv, QueueTyped, Event
<1>8. \A d \in Claimable(event, cursor) : d = hand'["worker"] \/ d \in Claimable(event', cursor')
  BY <1>1, <1>4, <1>7 DEF Claimable
<1>9. sync'["worker"].phase = "called"
  BY <1>3, <1>4, Shapes
<1>10. \A i \in Ids : Named(i) => Named(i)'
  BY <1>6, <1>7, <1>8 DEF Named, Names
<1>11. \A t \in Senders, i \in Ids : Busy(t, i) /\ NamedElse(t, i) => NamedElse(t, i)'
  <2> SUFFICES ASSUME NEW t \in Senders, NEW i \in Ids, Busy(t, i), NEW d \in Slots,
                      Names(d, i), d # hand[t], d \in Claimable(event, cursor)
               PROVE  NamedElse(t, i)'
    BY <1>6 DEF NamedElse
  <2>1. hand'[t] = hand[t]
    BY <1>4, <1>5
  <2> QED BY <1>7, <1>8, <1>9, <2>1 DEF NamedElse, Names
<1> QED BY <1>1, <1>4, <1>5, <1>10, <1>11, IdleStep

LEMMA AskDivergence ==
  ASSUME PInv, DInv, NEW s \in Callers, NEW ids \in SUBSET Ids,
         Ask(s, ids) \/ \E e \in Slots : ids = event[e].ids /\ Replay(s, e)
  PROVE  DInv'
<1>1. /\ sync[s] = NoSync /\ sync' = [sync EXCEPT ![s] = Call(ids)]
      /\ UNCHANGED <<class, rev, point, event, cursor, adrift, excused>>
      /\ hand' = hand \/ \E e \in Slots : hand' = [hand EXCEPT ![s] = e]
  BY DEF Ask, Replay
<1>2. s \in Senders /\ s # "worker"
  BY ProjectionAssumption DEF Senders
<1>3. /\ sync'[s] = Call(ids)
      /\ \A t \in Senders : t # s => sync'[t] = sync[t] /\ hand'[t] = hand[t]
  BY <1>1, <1>2 DEF PInv, CallsTyped, HandsTyped
<1>4. \A i \in Ids : ~Busy(s, i) /\ ~Busy(s, i)'
  BY <1>1, <1>3, Shapes DEF Busy
<1>5. sync'["worker"] = sync["worker"] /\ hand'["worker"] = hand["worker"]
  BY <1>2, <1>3 DEF Senders
<1>6. \A i \in Ids : Named(i) => Named(i)'
  BY <1>1, <1>5 DEF Named, Names
<1>7. \A t \in Senders, i \in Ids : Busy(t, i) /\ NamedElse(t, i) => NamedElse(t, i)'
  BY <1>1, <1>3, <1>4, <1>5 DEF NamedElse, Names
<1> QED BY <1>1, <1>2, <1>3, <1>4, <1>6, <1>7, IdleStep

\* a snapshot is taken: who meets another loses its rows and they are excused
LEMMA ReadDivergence ==
  ASSUME PInv, DInv, NEW s \in Senders, Read(s)
  PROVE  DInv'
<1> DEFINE ids == sync[s].ids
           live == {i \in ids : Operation(class[i]) = "upsert"}
           met == {i \in ids : Astray(i) \/ \E t \in Senders : t # s /\ Busy(t, i)}
           seen == [i \in ids |-> [class |-> class[i], rev |-> rev[i]]]
           Mine(bare) == [phase |-> "read", ids |-> ids, seen |-> seen,
                          ups |-> live \ bare, bare |-> bare, alone |-> ids \ met]
           Other(t) == [sync[t] EXCEPT !.alone = @ \ met]
           Reads(t) == t # s /\ sync[t].phase \notin {"none", "called"}
<1>1. /\ sync[s].phase = "called"
      /\ UNCHANGED <<class, rev, point, event, cursor, hand, adrift, changes, lived>>
  BY DEF Read
<1>2. PICK bare \in SUBSET live :
        /\ sync' = [t \in Senders |-> CASE t = s -> Mine(bare) [] Reads(t) -> Other(t) [] OTHER -> sync[t]]
        /\ excused' = excused \cup met
  BY DEF Read
<1>3. ids \subseteq Ids
  BY <1>1, Shapes DEF PInv, CallsTyped, Sane, Full
<1>4. \A i \in ids : i \in met <=> Astray(i) \/ \E t \in Senders : t # s /\ Busy(t, i)
  OBVIOUS
<1>5. \A i \in ids : /\ seen[i] = [class |-> class[i], rev |-> rev[i]]
                      /\ seen[i].class = class[i]
  OBVIOUS
<1>6. \A i \in live : class[i] = "live"
  BY <1>3 DEF Operation, PInv, RowsTyped, Rows!Class
<1>7. \A i \in ids : class[i] = "live" => i \in live
  BY <1>3 DEF Operation
<1>8. met \subseteq ids /\ live \subseteq ids
  OBVIOUS
<1> HIDE DEF met, live, seen
<1>9. /\ sync'[s] = Mine(bare)
      /\ \A t \in Senders : t # s => sync'[t] = IF Reads(t) THEN Other(t) ELSE sync[t]
  <2> HIDE DEF Mine, Other, ids
  <2> QED BY <1>2 DEF Reads
<1>10. /\ sync'[s].ids = ids /\ sync'[s].phase = "read" /\ sync'[s].seen = seen
       /\ sync'[s].ups = live \ bare /\ sync'[s].bare = bare /\ sync'[s].alone = ids \ met
  BY <1>9
<1>11. ASSUME NEW t \in Senders, t # s
       PROVE  /\ sync'[t].ids = sync[t].ids /\ sync'[t].phase = sync[t].phase
              /\ Reads(t) => /\ sync'[t].seen = sync[t].seen /\ sync'[t].ups = sync[t].ups
                             /\ sync'[t].bare = sync[t].bare /\ sync'[t].alone = sync[t].alone \ met
  <2>1. CASE Reads(t)
    <3>1. Full(sync[t])
      BY <2>1, Shapes DEF PInv, CallsTyped, Sane
    <3> QED BY <1>9, <1>11, <2>1, <3>1 DEF Full
  <2>2. CASE ~Reads(t)
    BY <1>9, <1>11, <2>2
  <2> QED BY <2>1, <2>2
<1>12. \A i \in Ids : (Busy(s, i)' <=> i \in ids) /\ ~Busy(s, i)
  BY <1>1, <1>10 DEF Busy
<1>13. \A t \in Senders, i \in Ids : t # s => (Busy(t, i)' <=> Busy(t, i)) /\ (Busy(t, i) => Reads(t))
  BY <1>11 DEF Busy
<1>14. \A i \in Ids : Astray(i)' <=> Astray(i)
  BY <1>1 DEF Astray
<1> HIDE DEF Mine, Other, Reads
<1>16. MetByNone'
  <2> SUFFICES ASSUME NEW t \in Senders, NEW i \in Ids, Busy(t, i)', i \in sync'[t].alone
               PROVE  Astray(i)' = FALSE /\ \A u \in Senders : u # t => ~Busy(u, i)'
    BY DEF MetByNone
  <2>1. CASE t = s
    BY <1>4, <1>10, <1>12, <1>13, <1>14, <2>1
  <2>2. CASE t # s
    <3>1. Busy(t, i) /\ i \in sync[t].alone /\ i \notin met
      BY <1>11, <1>13, <2>2
    <3>2. ~Astray(i) /\ \A u \in Senders : u # t => ~Busy(u, i)
      BY <3>1 DEF MetByNone, DInv
    <3>3. i \notin ids
      BY <1>4, <2>2, <3>1
    <3> QED BY <1>12, <1>13, <1>14, <3>2, <3>3
  <2> QED BY <2>1, <2>2
<1>17. MetOrAlone'
  <2> SUFFICES ASSUME NEW t \in Senders, NEW i \in Ids, Busy(t, i)'
               PROVE  i \in sync'[t].alone \/ i \in excused'
    BY DEF MetOrAlone
  <2>1. CASE t = s
    BY <1>2, <1>10, <1>12, <2>1
  <2>2. CASE t # s
    BY <1>2, <1>11, <1>13, <2>2 DEF MetOrAlone, DInv
  <2> QED BY <2>1, <2>2
<1>18. WritesSeen'
  <2> SUFFICES ASSUME NEW t \in Senders, NEW i \in Ids, Busy(t, i)', i \in sync'[t].alone, i \notin sync'[t].bare
               PROVE  Wrote(t, i)'
    BY DEF WritesSeen
  <2>1. CASE t = s
    <3>0. i \in ids
      BY <1>12, <2>1
    <3>1. i \notin bare /\ seen[i].class = class[i]
      BY <1>5, <1>10, <2>1, <3>0
    <3>2. class[i] = "live" => i \in sync'[s].ups
      BY <1>7, <1>10, <3>0, <3>1
    <3> QED BY <1>1, <1>10, <2>1, <3>1, <3>2 DEF Wrote
  <2>2. CASE t # s
    <3>1. Reads(t) /\ Busy(t, i)
      BY <1>13, <2>2
    <3>2. Wrote(t, i)
      BY <1>11, <2>2, <3>1 DEF WritesSeen, DInv
    <3> QED BY <1>1, <1>11, <2>2, <3>1, <3>2 DEF Wrote
  <2> QED BY <2>1, <2>2
<1>19. \A i \in Ids : Named(i)' <=> Named(i)
  BY <1>1 DEF Named, Names
<1>20. ASSUME NEW i \in Ids, i \notin excused', NEW t \in Senders, t # s, Busy(t, i), NamedElse(t, i)
       PROVE  NamedElse(t, i)'
  <2>1. PICK e \in Slots : /\ Names(e, i) /\ e # hand[t]
                           /\ \/ e \in Claimable(event, cursor)
                              \/ e = hand["worker"] /\ sync["worker"].phase = "called"
    BY <1>20 DEF NamedElse
  <2>2. CASE e \in Claimable(event, cursor)
    BY <1>1, <2>1, <2>2 DEF NamedElse, Names
  <2>3. CASE e = hand["worker"] /\ sync["worker"].phase = "called" /\ s # "worker"
    BY <1>1, <1>11, <2>1, <2>3 DEF NamedElse, Names, Senders
  <2>4. CASE e = hand["worker"] /\ s = "worker"
    <3>1. i \in ids
      BY <2>1, <2>4, HandIsSlot DEF Names
    <3>2. i \in met
      BY <1>4, <1>20, <3>1
    <3> QED BY <1>2, <1>20, <3>2
  <2> QED BY <2>1, <2>2, <2>3, <2>4
<1>21. ASSUME NEW i \in Ids, i \notin excused'
       PROVE  /\ Named(i)' \/ AsOwed(i)'
              /\ \A t \in Senders : hand'[t] # 0 /\ Busy(t, i)' =>
                   NamedElse(t, i)' \/ Current(sync[t], i)'
  <2>1. i \notin excused
    BY <1>2, <1>21
  <2>2. Busy(s, i)' => Current(sync[s], i)'
    BY <1>1, <1>5, <1>10, <1>12 DEF Current
  <2>3. \A t \in Senders : t # s /\ Busy(t, i)' => Busy(t, i) /\ (Current(sync[t], i) => Current(sync[t], i)')
    BY <1>1, <1>11, <1>13 DEF Current
  <2>4. AsOwed(i) => AsOwed(i)'
    BY <1>1, <2>2, <2>3 DEF AsOwed, Settled, Gives
  <2>5. ASSUME NEW t \in Senders, hand'[t] # 0, Busy(t, i)'
        PROVE  NamedElse(t, i)' \/ Current(sync[t], i)'
    <3>1. CASE t = s
      BY <2>2, <2>5, <3>1
    <3>2. CASE t # s
      <4>1. Busy(t, i) /\ hand[t] # 0
        BY <1>1, <2>3, <2>5, <3>2
      <4>2. NamedElse(t, i) \/ Current(sync[t], i)
        BY <2>1, <4>1 DEF DInv, UpToDate
      <4> QED BY <1>20, <1>21, <2>3, <2>5, <3>2, <4>1, <4>2
    <3> QED BY <3>1, <3>2
  <2> QED BY <1>19, <2>1, <2>4, <2>5 DEF DInv, UpToDate
<1> QED BY <1>16, <1>17, <1>18, <1>21 DEF DInv, UpToDate

\* A call goes on with its snapshot, and what it gives a point is what the row
\* is owed, unless an event is to come.
GoesOn(s) ==
  /\ Full(sync[s])
  /\ sync'[s].ids = sync[s].ids /\ sync'[s].seen = sync[s].seen
  /\ sync'[s].alone = sync[s].alone /\ sync'[s].bare = sync[s].bare
  /\ sync'[s].phase \in {"read", "upsert", "delete", "done"}
  /\ \A t \in Senders : t # s => sync'[t] = sync[t]
  /\ UNCHANGED <<class, rev, event, cursor, hand, adrift, excused>>
  /\ \A i \in Ids : i \notin sync[s].ids => point'[i] = point[i]
  /\ \A i \in Ids : Busy(s, i) /\ Wrote(s, i) => Wrote(s, i)'
  /\ \A i \in Ids : Busy(s, i) /\ Current(sync[s], i) /\ Settled(i) => Settled(i)'

LEMMA GoOnDivergence ==
  ASSUME PInv, DInv, NEW s \in Senders, GoesOn(s)
  PROVE  DInv'
<1> USE DEF GoesOn
<1>1. sync'[s].seen = sync[s].seen /\ \A t \in Senders : t # s => sync'[t] = sync[t]
  OBVIOUS
<1>2. \A i \in Ids : Busy(s, i) <=> i \in sync[s].ids
  BY DEF Busy, Full
<1>3. \A t \in Senders, i \in Ids : Busy(t, i)' <=> Busy(t, i)
  BY <1>1, <1>2 DEF Busy
<1>4. \A i \in Ids : Astray(i)' <=> Astray(i)
  BY DEF Astray
<1>6. \A t \in Senders : sync'[t].alone = sync[t].alone /\ sync'[t].bare = sync[t].bare
  OBVIOUS
<1>7. MetByNone' /\ MetOrAlone'
  BY <1>3, <1>4, <1>6 DEF MetByNone, MetOrAlone, DInv
<1>8. WritesSeen'
  <2> SUFFICES ASSUME NEW t \in Senders, NEW i \in Ids, Busy(t, i)', i \in sync'[t].alone, i \notin sync'[t].bare
               PROVE  Wrote(t, i)'
    BY DEF WritesSeen
  <2>1. Busy(t, i) /\ i \in sync[t].alone /\ i \notin sync[t].bare /\ Wrote(t, i)
    BY <1>3, <1>6 DEF WritesSeen, DInv
  <2>2. CASE t = s
    BY <2>1, <2>2
  <2>3. CASE t # s
    <3>1. ~Busy(s, i)
      BY <2>1, <2>3 DEF MetByNone, DInv
    <3>2. point'[i] = point[i]
      BY <1>2, <3>1
    <3> QED BY <1>1, <2>1, <2>3, <3>2 DEF Wrote
  <2> QED BY <2>2, <2>3
<1>9. \A t \in Senders, i \in Ids : Busy(t, i) => (Current(sync[t], i) <=> Current(sync[t], i)')
  BY <1>1 DEF Current
<1>10. ASSUME NEW i \in Ids, AsOwed(i)
       PROVE  AsOwed(i)'
  <2>1. Settled(i)'
    <3>1. CASE Busy(s, i)
      BY <1>10, <3>1 DEF AsOwed
    <3>2. CASE ~Busy(s, i)
      BY <1>2, <1>10, <3>2 DEF AsOwed, Settled
    <3> QED BY <3>1, <3>2
  <2> QED BY <1>3, <1>9, <1>10, <2>1 DEF AsOwed, Gives
<1>11. sync["worker"].phase = "called" => sync'["worker"].phase = "called"
  BY <1>1 DEF Full, Senders
<1>12. \A i \in Ids : /\ Named(i) => Named(i)'
                      /\ \A t \in Senders : NamedElse(t, i) => NamedElse(t, i)'
  BY <1>11 DEF Named, NamedElse, Names
<1>13. UpToDate'
  BY <1>3, <1>9, <1>10, <1>12 DEF UpToDate, DInv
<1> QED BY <1>7, <1>8, <1>13 DEF DInv

\* what a snapshot can hold
LEMMA Operations ==
  ASSUME NEW c \in Rows!Class
  PROVE  /\ Operation(c) = "upsert" <=> c = "live"
         /\ Operation(c) = "delete" <=> c \in {"absent", "gone"}
BY DEF Operation, Rows!Class

\* a point left alone already has the content of the snapshot
LEMMA CheckDivergence ==
  ASSUME PInv, DInv, NEW s \in Senders, Check(s)
  PROVE  DInv'
<1> DEFINE y == sync[s]
           same == {i \in y.ups : point[i] = y.seen[i].rev}
           To(left) == [y EXCEPT !.ups = y.ups \ left,
                                 !.phase = IF y.ups # left THEN "upsert" ELSE Rest(y)]
<1>1. /\ y.phase = "read"
      /\ UNCHANGED <<class, rev, point, event, cursor, hand, adrift, changes, lived, excused>>
  BY DEF Check
<1>2. PICK left \in {same, {}} : sync' = [sync EXCEPT ![s] = To(left)]
  BY DEF Check
<1>3. Full(y) /\ Honest(y)
  BY <1>1, PastRead DEF PInv, CallsTyped, CallsHonest
<1>4. \A i \in left : point[i] = y.seen[i].rev
  BY <1>2
<1>5. Rest(y) \in {"delete", "done"}
  BY DEF Rest
<1>6. /\ To(left).ids = y.ids /\ To(left).seen = y.seen /\ To(left).alone = y.alone
      /\ To(left).bare = y.bare /\ To(left).ups = y.ups \ left
      /\ To(left).phase = IF y.ups # left THEN "upsert" ELSE Rest(y)
  <2> HIDE DEF y
  <2> QED BY <1>3 DEF Full
<1>7. sync'[s] = To(left)
  BY <1>2 DEF PInv, CallsTyped
<1> HIDE DEF To, same
<1>8. ASSUME NEW i \in Ids, Busy(s, i), Wrote(s, i)
      PROVE  Wrote(s, i)'
  <2>1. y.seen[i].class = "live" => i \in y.ups
    BY <1>1, <1>8 DEF Wrote
  <2>2. ASSUME y.seen[i].class = "live"
        PROVE  \/ i \in sync'[s].ups /\ sync'[s].phase \in {"read", "upsert"}
               \/ sync'[s].phase # "read" /\ point[i] = y.seen[i].rev
    BY <1>4, <1>5, <1>6, <1>7, <2>1, <2>2
  <2>3. ASSUME y.seen[i].class \in {"absent", "gone"}
        PROVE  sync'[s].phase # "done"
    <3>1. Operation(y.seen[i].class) = "delete" /\ i \in y.ids
      BY <2>3, <1>8 DEF Operation, Busy
    <3>2. Rest(y) = "delete"
      BY <3>1 DEF Rest, Owed
    <3> QED BY <1>6, <1>7, <3>2
  <2> QED BY <1>1, <1>6, <1>7, <2>2, <2>3 DEF Wrote
<1>9. \A i \in Ids : Settled(i) => Settled(i)'
  BY <1>1 DEF Settled
<1>10. To(left).phase \in {"read", "upsert", "delete", "done"}
  BY <1>5, <1>6
<1>11. \A t \in Senders : t # s => sync'[t] = sync[t]
  BY <1>2 DEF PInv, CallsTyped
<1>12. GoesOn(s)
  BY <1>1, <1>3, <1>6, <1>7, <1>8, <1>9, <1>10, <1>11 DEF GoesOn
<1> QED BY <1>12, GoOnDivergence

LEMMA WriteDivergence ==
  ASSUME PInv, DInv, NEW s \in Senders, Upsert(s) \/ Delete(s)
  PROVE  DInv'
<1> DEFINE y == sync[s]
<1>1. UNCHANGED <<class, rev, event, cursor, hand, adrift, excused>>
  BY DEF Upsert, Delete
<1>2. y.phase \in {"upsert", "delete"}
  BY DEF Upsert, Delete
<1>3. Full(y) /\ Honest(y)
  BY <1>2, PastRead DEF PInv, CallsTyped, CallsHonest
<1>4. PICK p \in {"delete", "done"} :
        /\ sync' = [sync EXCEPT ![s] = [y EXCEPT !.phase = p]]
        /\ Upsert(s) => p = Rest(y)
        /\ ~Upsert(s) => p = "done"
  BY DEF Upsert, Delete, Rest
<1> DEFINE z == [y EXCEPT !.phase = p]
<1>5. /\ z.ids = y.ids /\ z.seen = y.seen /\ z.alone = y.alone /\ z.bare = y.bare
      /\ z.ups = y.ups /\ z.phase = p
  <2> HIDE DEF y
  <2> QED BY <1>3 DEF Full
<1>6. sync'[s] = z /\ \A t \in Senders : t # s => sync'[t] = sync[t]
  BY <1>4 DEF PInv, CallsTyped
<1> HIDE DEF z
<1>7. \A i \in y.ids : i \in Ids /\ y.seen[i] \in Seen /\ y.seen[i].class \in Rows!Class
  BY <1>3 DEF Full, Seen
<1>8. \A i \in y.ups : i \in y.ids /\ y.seen[i].class = "live"
  BY <1>3 DEF Full, Honest
<1>9. CASE Upsert(s)
  <2>1. /\ y.phase = "upsert" /\ p = Rest(y)
        /\ \A i \in Ids : point'[i] = IF i \in y.ups THEN y.seen[i].rev ELSE point[i]
    BY <1>4, <1>9 DEF Upsert, Applied, Upserts
  <2>2. ASSUME NEW i \in Ids, Busy(s, i), Wrote(s, i)
        PROVE  Wrote(s, i)'
    <3>1. i \in y.ids
      BY <2>2 DEF Busy
    <3>2. y.seen[i].class = "live" => point'[i] = y.seen[i].rev /\ p # "read"
      BY <2>1, <2>2, <1>4 DEF Wrote
    <3>3. ASSUME y.seen[i].class \in {"absent", "gone"}
          PROVE  p # "done"
      <4>1. Operation(y.seen[i].class) = "delete"
        BY <1>7, <3>1, <3>3, Operations
      <4> QED BY <2>1, <3>1, <4>1 DEF Rest, Owed
    <3> QED BY <1>5, <1>6, <3>2, <3>3 DEF Wrote
  <2>3. ASSUME NEW i \in Ids, Busy(s, i), Current(y, i), Settled(i)
        PROVE  Settled(i)'
    <3>1. y.seen[i].class = class[i] /\ y.seen[i].rev = rev[i]
      BY <2>3 DEF Current
    <3> QED BY <1>1, <1>8, <2>1, <2>3, <3>1 DEF Settled
  <2>4. \A i \in Ids : i \notin y.ids => point'[i] = point[i]
    BY <1>8, <2>1
  <2>5. GoesOn(s)
    BY <1>1, <1>3, <1>5, <1>6, <2>2, <2>3, <2>4 DEF GoesOn
  <2> QED BY <2>5, GoOnDivergence
<1>10. CASE Delete(s) /\ ~Upsert(s)
  <2>1. /\ y.phase = "delete" /\ p = "done"
        /\ \A i \in Ids : point'[i] = IF i \in Owed(y, "delete") THEN 0 ELSE point[i]
    BY <1>4, <1>10 DEF Delete, Applied, Deletes
  <2>2. \A i \in Ids : i \in Owed(y, "delete") <=> i \in y.ids /\ y.seen[i].class \in {"absent", "gone"}
    BY <1>7, Operations DEF Owed
  <2>3. ASSUME NEW i \in Ids, Busy(s, i), Wrote(s, i)
        PROVE  Wrote(s, i)'
    <3>1. i \in y.ids
      BY <2>3 DEF Busy
    <3>2. y.seen[i].class = "live" => point'[i] = y.seen[i].rev
      BY <2>1, <2>2, <2>3 DEF Wrote
    <3>3. y.seen[i].class \in {"absent", "gone"} => point'[i] = 0
      BY <2>1, <2>2, <3>1
    <3> QED BY <1>5, <1>6, <2>1, <3>2, <3>3 DEF Wrote
  <2>4. ASSUME NEW i \in Ids, Busy(s, i), Current(y, i), Settled(i)
        PROVE  Settled(i)'
    <3>1. y.seen[i].class = class[i]
      BY <2>4 DEF Current
    <3> QED BY <1>1, <2>1, <2>2, <2>4, <3>1 DEF Settled
  <2>5. \A i \in Ids : i \notin y.ids => point'[i] = point[i]
    BY <2>1, <2>2
  <2>6. GoesOn(s)
    BY <1>1, <1>3, <1>5, <1>6, <2>3, <2>4, <2>5 DEF GoesOn
  <2> QED BY <2>6, GoOnDivergence
<1> QED BY <1>9, <1>10

\* what a call that is done has written of the rows it was alone on
LEMMA DoneIsSettled ==
  ASSUME PInv, DInv, NEW s \in Senders, NEW i \in Ids, sync[s].phase = "done", i \in Settles(s)
  PROVE  Busy(s, i) /\ Settled(i)
<1>1. /\ i \in sync[s].alone /\ i \notin sync[s].bare
      /\ sync[s].seen[i] = [class |-> class[i], rev |-> rev[i]]
  BY DEF Settles
<1>2. Full(sync[s])
  BY PastRead DEF PInv, CallsTyped
<1>3. Busy(s, i)
  BY <1>1, <1>2 DEF Busy, Full
<1>4. Wrote(s, i)
  BY <1>1, <1>3 DEF DInv, WritesSeen
<1>5. sync[s].seen[i].class = class[i] /\ sync[s].seen[i].rev = rev[i]
  BY <1>1
<1> QED BY <1>3, <1>4, <1>5 DEF Wrote, Settled

\* a call ends: the others keep their snapshots
LEMMA EndDivergence ==
  ASSUME PInv, DInv, NEW s \in Senders, sync' = [sync EXCEPT ![s] = NoSync],
         UNCHANGED <<class, rev, point>>,
         \A w \in adrift' : w \in adrift \/ w \in InFlight(sync[s]),
         \A t \in Senders, i \in Ids : t # s /\ Busy(t, i) /\ i \in excused =>
           i \in sync[t].alone \/ i \in excused'
  PROVE  /\ MetByNone' /\ MetOrAlone' /\ WritesSeen'
         /\ sync'[s] = NoSync
         /\ \A i \in Ids : ~Busy(s, i)'
         /\ \A t \in Senders, i \in Ids : t # s => (Busy(t, i)' <=> Busy(t, i))
         /\ \A w \in InFlight(sync[s]), i \in Ids : i \in DOMAIN w => Busy(s, i)
<1>1. sync'[s] = NoSync /\ \A t \in Senders : t # s => sync'[t] = sync[t]
  BY DEF PInv, CallsTyped
<1>2. \A i \in Ids : ~Busy(s, i)'
  BY <1>1, Shapes DEF Busy
<1>3. \A t \in Senders, i \in Ids : t # s => (Busy(t, i)' <=> Busy(t, i))
  BY <1>1 DEF Busy
<1>4. ASSUME NEW w \in InFlight(sync[s]), NEW i \in Ids, i \in DOMAIN w
      PROVE  Busy(s, i)
  <2>1. \/ sync[s].phase = "upsert" /\ w = Upserts(sync[s])
        \/ sync[s].phase = "delete" /\ w = Deletes(sync[s])
    BY <1>4 DEF InFlight
  <2>2. Full(sync[s])
    BY <2>1, PastRead DEF PInv, CallsTyped
  <2>3. i \in sync[s].ids
    BY <1>4, <2>1, <2>2 DEF Full, Upserts, Deletes, Owed
  <2> QED BY <2>1, <2>3 DEF Busy
<1>6. MetByNone'
  <2> SUFFICES ASSUME NEW t \in Senders, NEW i \in Ids, Busy(t, i)', i \in sync'[t].alone
               PROVE  Astray(i)' = FALSE /\ \A u \in Senders : u # t => ~Busy(u, i)'
    BY DEF MetByNone
  <2>1. t # s /\ Busy(t, i) /\ i \in sync[t].alone
    BY <1>1, <1>2, <1>3
  <2>2. ~Astray(i) /\ \A u \in Senders : u # t => ~Busy(u, i)
    BY <2>1 DEF MetByNone, DInv
  <2>3. ~Astray(i)'
    BY <1>4, <2>1, <2>2 DEF Astray
  <2> QED BY <1>2, <1>3, <2>2, <2>3
<1>7. MetOrAlone' /\ WritesSeen'
  BY <1>1, <1>2, <1>3 DEF MetOrAlone, WritesSeen, Wrote, DInv
<1> QED BY <1>1, <1>2, <1>3, <1>4, <1>6, <1>7

\* the event that the worker does not finish can be claimed again, or its rows
\* are excused
LEMMA LeftEvents ==
  ASSUME PInv, hand["worker"] # 0, FailAttempt \/ UNCHANGED <<event, cursor>>,
         NEW i \in Ids, i \notin Dropped, NEW e \in Slots, Names(e, i),
         e \in Claimable(event, cursor) \/ e = hand["worker"]
  PROVE  e \in Claimable(event', cursor') /\ Names(e, i)'
<1>1. hand["worker"] \in Slots /\ cursor' = cursor
  BY HandIsSlot DEF FailAttempt, Senders
<1>2. event \in [Slots -> Event]
  BY DEF PInv, QueueTyped
<1>3. \A d \in Slots : event'[d].ids = event[d].ids /\ (d # hand["worker"] => event'[d] = event[d])
  BY <1>1, <1>2 DEF FailAttempt, Event
<1>4. CASE e = hand["worker"]
  BY <1>3, <1>4 DEF Dropped, Names
<1>5. CASE e # hand["worker"]
  BY <1>1, <1>3, <1>5 DEF Claimable, Names
<1> QED BY <1>4, <1>5

\* an event marked dispatched leaves those behind it, but for the rows excused
LEMMA OtherEvents ==
  ASSUME PInv, NEW s \in Senders, hand[s] # 0, Dispatch(s),
         NEW i \in Ids, i \notin NamedBy(Passed(s)), NEW e \in Slots, Names(e, i), e # hand[s],
         e \in Claimable(event, cursor)
  PROVE  e \in Claimable(event', cursor')
<1>1. hand[s] \in Slots /\ e \in Slots
  BY HandIsSlot
<1>2. event \in [Slots -> Event]
  BY DEF PInv, QueueTyped
<1>3. event'[e] = event[e] /\ cursor' = hand[s]
  BY <1>1, <1>2 DEF Dispatch
<1>4. ~(e < hand[s])
  BY <1>1 DEF Passed, NamedBy, Names
<1>5. e > hand[s]
  BY <1>1, <1>4 DEF Slots
<1> QED BY <1>3, <1>5 DEF Claimable

\* a call returns: what it has settled is excused no longer, and its event goes
\* when there was nothing to excuse
LEMMA ReturnDivergence ==
  ASSUME PInv, DInv, NEW s \in Senders, Return(s)
  PROVE  DInv'
<1>1. /\ sync[s].phase = "done"
      /\ sync' = [sync EXCEPT ![s] = NoSync]
      /\ hand' = [hand EXCEPT ![s] = 0]
      /\ UNCHANGED <<class, rev, point, adrift, changes, faults, lived>>
  BY DEF Return
<1>2. Full(sync[s]) /\ sync[s] # NoSync
  BY <1>1, PastRead, Shapes DEF PInv, CallsTyped
<1>3. \/ UNCHANGED <<event, cursor>> /\ hand[s] = 0
      \/ s = "worker" /\ FailAttempt /\ \A i \in Dropped : i \in excused'
      \/ /\ hand[s] # 0 /\ Dispatch(s)
         /\ \A i \in Ids : i \in NamedBy(Passed(s)) \/ i \in sync[s].bare => i \in excused'
  BY DEF Return
<1>4. \A i \in Ids : i \notin excused' => i \notin excused \/ i \in Settles(s)
  BY DEF Return
<1>5. \A i \in Ids : i \in excused /\ i \notin Settles(s) => i \in excused'
  BY DEF Return
<1>6. s = "worker" => hand[s] # 0
  BY <1>2 DEF PInv, HandsTyped
<1>7. \A i \in Ids : Busy(s, i) <=> i \in sync[s].ids
  BY <1>1 DEF Busy
<1>8. \A i \in Ids : i \in Settles(s) => i \in sync[s].alone /\ i \in sync[s].ids
  BY <1>2 DEF Settles, Full
<1>9. \A i \in Ids : i \in Settles(s) => \A t \in Senders : t # s => ~Busy(t, i)
  BY <1>7, <1>8 DEF DInv, MetByNone
<1>10. /\ MetByNone' /\ MetOrAlone' /\ WritesSeen'
       /\ \A i \in Ids : ~Busy(s, i)'
       /\ \A t \in Senders, i \in Ids : t # s => (Busy(t, i)' <=> Busy(t, i))
  BY <1>1, <1>5, <1>9, EndDivergence
<1>11. \A i \in Ids : Settled(i)' <=> Settled(i)
  BY <1>1 DEF Settled
<1>12. \A t \in Senders : t # s => sync'[t] = sync[t] /\ hand'[t] = hand[t]
  BY <1>1 DEF PInv, CallsTyped, HandsTyped
<1>13. \A t \in Senders, i \in Ids : t # s => (Current(sync[t], i)' <=> Current(sync[t], i))
  BY <1>1, <1>12 DEF Current
<1>14. \A e \in Slots : event'[e].ids = event[e].ids
  <2>1. event \in [Slots -> Event]
    BY DEF PInv, QueueTyped
  <2> QED BY <1>3, <2>1 DEF FailAttempt, Dispatch, Event
\* what else names a row still does
<1>15. ASSUME NEW i \in Ids, i \notin excused', NEW e \in Slots, Names(e, i),
              \/ e \in Claimable(event, cursor)
              \/ e = hand["worker"] /\ sync["worker"].phase = "called",
              e # hand[s]
       PROVE  /\ Names(e, i)'
              /\ \/ e \in Claimable(event', cursor')
                 \/ e = hand'["worker"] /\ sync'["worker"].phase = "called"
  <2>1. Names(e, i)'
    BY <1>14, <1>15 DEF Names
  <2>2. CASE e \in Claimable(event, cursor)
    <3>1. CASE UNCHANGED <<event, cursor>>
      BY <2>1, <2>2, <3>1
    <3>2. CASE s = "worker" /\ FailAttempt /\ \A j \in Dropped : j \in excused'
      BY <1>6, <1>15, <2>1, <2>2, <3>2, LeftEvents
    <3>3. CASE /\ hand[s] # 0 /\ Dispatch(s)
               /\ \A j \in Ids : j \in NamedBy(Passed(s)) \/ j \in sync[s].bare => j \in excused'
      BY <1>15, <2>1, <2>2, <3>3, OtherEvents
    <3> QED BY <1>3, <3>1, <3>2, <3>3
  <2>3. CASE e = hand["worker"] /\ sync["worker"].phase = "called"
    BY <1>12, <1>15, <2>1, <2>3 DEF Senders
  <2> QED BY <1>15, <2>2, <2>3
<1>16. ASSUME NEW i \in Ids, i \notin excused', NEW t \in Senders, t # s, Busy(t, i), NamedElse(t, i)
       PROVE  NamedElse(t, i)'
  <2>1. PICK e \in Slots : /\ Names(e, i) /\ e # hand[t]
                           /\ \/ e \in Claimable(event, cursor)
                              \/ e = hand["worker"] /\ sync["worker"].phase = "called"
    BY <1>16 DEF NamedElse
  <2>2. e # hand[s]
    <3> SUFFICES ASSUME e = hand[s] PROVE FALSE
      OBVIOUS
    <3>1. i \in sync[s].ids
      BY <2>1, HandIsSlot DEF Names
    <3>2. Busy(s, i)
      BY <1>7, <3>1
    <3>3. i \notin sync[s].alone
      BY <1>16, <3>2 DEF DInv, MetByNone
    <3>4. i \in excused /\ i \notin Settles(s)
      BY <1>8, <3>2, <3>3 DEF DInv, MetOrAlone
    <3> QED BY <1>5, <1>16, <3>4
  <2>3. hand'[t] = hand[t]
    BY <1>12, <1>16
  <2> QED BY <1>15, <1>16, <2>1, <2>2, <2>3 DEF NamedElse
<1>17. ASSUME NEW i \in Ids, i \notin excused', NamedElse(s, i)
       PROVE  Named(i)'
  <2>1. PICK e \in Slots : /\ Names(e, i) /\ e # hand[s]
                           /\ \/ e \in Claimable(event, cursor)
                              \/ e = hand["worker"] /\ sync["worker"].phase = "called"
    BY <1>17 DEF NamedElse
  <2> QED BY <1>15, <1>17, <2>1 DEF Named
<1>18. ASSUME NEW i \in Ids, i \notin excused', Named(i), ~Named(i)'
       PROVE  i \in sync[s].ids /\ hand[s] # 0 /\ i \notin sync[s].bare
  <2>1. PICK e \in Slots : Names(e, i) /\ (e \in Claimable(event, cursor) \/ e = hand["worker"])
    BY <1>18 DEF Named
  <2>2. Names(e, i)'
    BY <1>14, <2>1 DEF Names
  <2>3. CASE UNCHANGED <<event, cursor>> /\ hand[s] = 0
    <3>1. hand'["worker"] = hand["worker"]
      BY <1>6, <1>12, <2>3 DEF Senders
    <3> QED BY <1>18, <2>1, <2>2, <2>3, <3>1 DEF Named
  <2>4. CASE s = "worker" /\ FailAttempt /\ \A j \in Dropped : j \in excused'
    <3>1. e \in Claimable(event', cursor')
      BY <1>6, <1>18, <2>1, <2>4, LeftEvents
    <3> QED BY <1>18, <2>2, <3>1 DEF Named
  <2>5. CASE /\ hand[s] # 0 /\ Dispatch(s)
             /\ \A j \in Ids : j \in NamedBy(Passed(s)) \/ j \in sync[s].bare => j \in excused'
    <3>1. e = hand[s]
      <4> SUFFICES ASSUME e # hand[s] PROVE FALSE
        OBVIOUS
      <4>1. e \in Claimable(event, cursor) => e \in Claimable(event', cursor')
        BY <1>18, <2>1, <2>5, OtherEvents
      <4>2. e = hand["worker"] => e = hand'["worker"]
        BY <1>12 DEF Senders
      <4> QED BY <1>18, <2>1, <2>2, <4>1, <4>2 DEF Named
    <3> QED BY <1>18, <2>1, <2>5, <3>1, HandIsSlot DEF Names
  <2> QED BY <1>3, <2>3, <2>4, <2>5
<1>19. ASSUME NEW i \in Ids, i \notin excused', i \in sync[s].ids
       PROVE  /\ Named(i)' \/ AsOwed(i)'
              /\ \A t \in Senders : ~Busy(t, i)'
  <2>1. Busy(s, i) /\ i \in sync[s].alone
    BY <1>4, <1>7, <1>8, <1>19 DEF DInv, MetOrAlone
  <2>2. ~Astray(i) /\ \A t \in Senders : t # s => ~Busy(t, i)
    BY <2>1 DEF DInv, MetByNone
  <2>3. \A t \in Senders : ~Busy(t, i)'
    BY <1>10, <2>2
  <2>4. ~Astray(i)'
    BY <1>1, <2>2 DEF Astray
  <2>5. Settled(i) => AsOwed(i)'
    BY <1>11, <2>3, <2>4 DEF AsOwed, Astray
  <2>6. CASE i \in Settles(s)
    BY <1>1, <2>3, <2>5, <2>6, DoneIsSettled
  <2>7. CASE i \notin Settles(s)
    <3>1. i \notin excused
      BY <1>4, <1>19, <2>7
    <3>2. Named(i)' \/ Settled(i)
      <4> SUFFICES ASSUME ~Named(i)', ~Settled(i) PROVE FALSE
        OBVIOUS
      <4>1. Named(i)
        BY <3>1 DEF DInv, UpToDate, AsOwed
      <4>2. hand[s] # 0 /\ i \notin sync[s].bare
        BY <1>18, <1>19, <4>1
      <4>3. ~Current(sync[s], i)
        BY <2>1, <2>7, <4>2 DEF Settles, Current
      <4>4. NamedElse(s, i)
        BY <2>1, <3>1, <4>2, <4>3 DEF DInv, UpToDate
      <4> QED BY <1>17, <1>19, <4>4
    <3> QED BY <2>3, <2>5, <3>2
  <2> QED BY <2>6, <2>7
<1>20. ASSUME NEW i \in Ids, i \notin excused', i \notin sync[s].ids
       PROVE  /\ Named(i)' \/ AsOwed(i)'
              /\ \A t \in Senders : hand'[t] # 0 /\ Busy(t, i)' =>
                   NamedElse(t, i)' \/ Current(sync[t], i)'
  <2>1. i \notin excused
    BY <1>4, <1>8, <1>20
  <2>2. Named(i) => Named(i)'
    BY <1>18, <1>20
  <2>3. AsOwed(i) => AsOwed(i)'
    BY <1>1, <1>10, <1>11, <1>13 DEF AsOwed, Gives
  <2>4. ASSUME NEW t \in Senders, hand'[t] # 0, Busy(t, i)'
        PROVE  NamedElse(t, i)' \/ Current(sync[t], i)'
    <3>1. t # s /\ Busy(t, i) /\ hand[t] # 0
      BY <1>10, <1>12, <2>4
    <3>2. NamedElse(t, i) \/ Current(sync[t], i)
      BY <2>1, <3>1 DEF DInv, UpToDate
    <3> QED BY <1>13, <1>16, <1>20, <3>1, <3>2
  <2> QED BY <2>1, <2>2, <2>3, <2>4 DEF DInv, UpToDate
<1> QED BY <1>10, <1>19, <1>20 DEF DInv, UpToDate

\* the request on its way gives what its call has read
LEMMA InFlightGives ==
  ASSUME PInv, NEW s \in Senders, NEW w \in InFlight(sync[s]), NEW i \in Ids, i \in DOMAIN w,
         Current(sync[s], i)
  PROVE  Gives(w, i)
<1>1. \/ sync[s].phase = "upsert" /\ w = Upserts(sync[s])
      \/ sync[s].phase = "delete" /\ w = Deletes(sync[s])
  BY DEF InFlight
<1>2. Full(sync[s]) /\ Honest(sync[s])
  BY <1>1, PastRead DEF PInv, CallsTyped, CallsHonest
<1>3. sync[s].seen[i].class = class[i] /\ sync[s].seen[i].rev = rev[i] /\ class[i] \in Rows!Class
  BY DEF Current, PInv, RowsTyped
<1>4. CASE w = Upserts(sync[s])
  <2>1. i \in sync[s].ups /\ w[i] = rev[i]
    BY <1>3, <1>4 DEF Upserts
  <2>2. class[i] = "live"
    BY <1>2, <1>3, <2>1 DEF Honest
  <2> QED BY <2>1, <2>2 DEF Gives
<1>5. CASE w = Deletes(sync[s])
  <2>1. i \in Owed(sync[s], "delete") /\ w[i] = 0
    BY <1>5 DEF Deletes
  <2>2. class[i] \in {"absent", "gone"}
    BY <1>3, <2>1, Operations DEF Owed
  <2> QED BY <2>1, <2>2 DEF Gives
<1> QED BY <1>1, <1>4, <1>5

LEMMA EarlyDivergence ==
  ASSUME PInv, DInv, NEW s \in Senders, Throw(s) \/ Crash(s)
  PROVE  DInv'
<1>1. /\ sync[s] # NoSync
      /\ sync' = [sync EXCEPT ![s] = NoSync]
      /\ hand' = [hand EXCEPT ![s] = 0]
      /\ (adrift' = adrift) \/ (adrift' = adrift \cup InFlight(sync[s]))
      /\ excused' = IF s = "worker" THEN excused \cup Dropped ELSE excused
      /\ UNCHANGED <<class, rev, point, changes, lived>>
  BY DEF Throw, Crash, EndsEarly
<1>2. \A i \in Ids : i \in excused => i \in excused'
  BY <1>1
<1>3. UNCHANGED <<event, cursor>> \/ (s = "worker" /\ FailAttempt)
  BY DEF Throw, Crash
<1>4. \A w \in adrift' : w \in adrift \/ w \in InFlight(sync[s])
  BY <1>1
<1>5. /\ MetByNone' /\ MetOrAlone' /\ WritesSeen'
      /\ \A i \in Ids : ~Busy(s, i)'
      /\ \A t \in Senders, i \in Ids : t # s => (Busy(t, i)' <=> Busy(t, i))
      /\ \A w \in InFlight(sync[s]), i \in Ids : i \in DOMAIN w => Busy(s, i)
  BY <1>1, <1>2, <1>4, EndDivergence
<1>6. s = "worker" => hand["worker"] # 0
  BY <1>1 DEF PInv, HandsTyped
<1>7. \A t \in Senders : t # s => sync'[t] = sync[t] /\ hand'[t] = hand[t]
  BY <1>1 DEF PInv, CallsTyped, HandsTyped
<1>8. \A t \in Senders, i \in Ids : t # s => (Current(sync[t], i)' <=> Current(sync[t], i))
  BY <1>1, <1>7 DEF Current
<1>9. ASSUME NEW i \in Ids, i \notin excused', NEW e \in Slots, Names(e, i),
             e \in Claimable(event, cursor) \/ e = hand["worker"]
      PROVE  /\ Names(e, i)'
             /\ e \in Claimable(event', cursor') \/ (s # "worker" /\ e = hand'["worker"])
  <2>1. CASE s = "worker"
    <3>1. i \notin Dropped
      BY <1>1, <1>9, <2>1
    <3> QED BY <1>3, <1>6, <1>9, <2>1, <3>1, LeftEvents
  <2>2. CASE s # "worker"
    BY <1>3, <1>7, <1>9, <2>2 DEF Names, Senders
  <2> QED BY <2>1, <2>2
<1>10. \A i \in Ids : i \notin excused' /\ Named(i) => Named(i)'
  <2> SUFFICES ASSUME NEW i \in Ids, i \notin excused', Named(i) PROVE Named(i)'
    OBVIOUS
  <2>1. PICK e \in Slots : Names(e, i) /\ (e \in Claimable(event, cursor) \/ e = hand["worker"])
    BY DEF Named
  <2>2. Names(e, i)' /\ (e \in Claimable(event', cursor') \/ e = hand'["worker"])
    BY <1>9, <2>1
  <2> QED BY <2>2 DEF Named
<1>11. ASSUME NEW i \in Ids, i \notin excused', NEW t \in Senders, t # s, NamedElse(t, i)
       PROVE  NamedElse(t, i)'
  <2>1. PICK e \in Slots : /\ Names(e, i) /\ e # hand[t]
                           /\ \/ e \in Claimable(event, cursor)
                              \/ e = hand["worker"] /\ sync["worker"].phase = "called"
    BY <1>11 DEF NamedElse
  <2>2. Names(e, i)' /\ e # hand'[t]
    BY <1>7, <1>9, <1>11, <2>1
  <2>3. CASE s = "worker"
    BY <1>9, <1>11, <2>1, <2>2, <2>3 DEF NamedElse
  <2>4. CASE s # "worker"
    <3>1. UNCHANGED <<event, cursor>> /\ hand'["worker"] = hand["worker"] /\ sync'["worker"] = sync["worker"]
      BY <1>3, <1>7, <2>4 DEF Senders
    <3> QED BY <2>1, <2>2, <3>1 DEF NamedElse
  <2> QED BY <2>3, <2>4
<1>12. ASSUME NEW i \in Ids, AsOwed(i)
       PROVE  AsOwed(i)'
  <2>1. ASSUME NEW w \in adrift', i \in DOMAIN w
        PROVE  Gives(w, i)
    <3>1. CASE w \in adrift
      BY <1>12, <2>1, <3>1 DEF AsOwed
    <3>2. CASE w \in InFlight(sync[s])
      <4>1. Current(sync[s], i)
        BY <1>5, <1>12, <2>1, <3>2 DEF AsOwed
      <4> QED BY <2>1, <3>2, <4>1, InFlightGives
    <3> QED BY <1>4, <3>1, <3>2
  <2>2. \A w \in adrift' : i \in DOMAIN w => Gives(w, i)'
    BY <1>1, <2>1 DEF Gives
  <2>3. Settled(i)'
    BY <1>1, <1>12 DEF AsOwed, Settled
  <2>4. \A t \in Senders : Busy(t, i)' => Current(sync[t], i)'
    BY <1>5, <1>8, <1>12 DEF AsOwed
  <2> QED BY <2>2, <2>3, <2>4 DEF AsOwed
<1>13. ASSUME NEW i \in Ids, i \notin excused'
       PROVE  /\ Named(i)' \/ AsOwed(i)'
              /\ \A t \in Senders : hand'[t] # 0 /\ Busy(t, i)' =>
                   NamedElse(t, i)' \/ Current(sync[t], i)'
  <2>1. i \notin excused
    BY <1>2, <1>13
  <2>2. ASSUME NEW t \in Senders, hand'[t] # 0, Busy(t, i)'
        PROVE  NamedElse(t, i)' \/ Current(sync[t], i)'
    <3>1. t # s /\ Busy(t, i) /\ hand[t] # 0
      BY <1>5, <1>7, <2>2
    <3>2. NamedElse(t, i) \/ Current(sync[t], i)
      BY <2>1, <3>1 DEF DInv, UpToDate
    <3> QED BY <1>8, <1>11, <1>13, <3>1, <3>2
  <2> QED BY <1>10, <1>12, <1>13, <2>1, <2>2 DEF DInv, UpToDate
<1> QED BY <1>5, <1>13 DEF DInv, UpToDate

LEMMA ArriveDivergence ==
  ASSUME PInv, DInv, NEW w \in adrift, Land(w) \/ Lose(w)
  PROVE  DInv'
<1>1. /\ adrift' = adrift \ {w}
      /\ UNCHANGED <<class, rev, event, cursor, hand, sync, changes, faults, lived, excused>>
  BY DEF Land, Lose
<1>2. point' = point \/ point' = Applied(w)
  BY DEF Land, Lose
<1>3. \A i \in Ids : /\ i \in DOMAIN w => point'[i] = point[i] \/ point'[i] = w[i]
                     /\ i \notin DOMAIN w => point'[i] = point[i]
  BY <1>2 DEF Applied
<1>4. \A t \in Senders, i \in Ids : Busy(t, i)' <=> Busy(t, i)
  BY <1>1 DEF Busy
<1>5. \A i \in Ids : Astray(i)' => Astray(i)
  BY <1>1 DEF Astray
<1>6. MetByNone' /\ MetOrAlone'
  BY <1>1, <1>4, <1>5 DEF MetByNone, MetOrAlone, DInv
<1>7. WritesSeen'
  <2> SUFFICES ASSUME NEW t \in Senders, NEW i \in Ids, Busy(t, i)', i \in sync'[t].alone, i \notin sync'[t].bare
               PROVE  Wrote(t, i)'
    BY DEF WritesSeen
  <2>1. Busy(t, i) /\ i \in sync[t].alone /\ i \notin sync[t].bare
    BY <1>1, <1>4
  <2>2. Wrote(t, i) /\ i \notin DOMAIN w
    BY <2>1 DEF WritesSeen, MetByNone, Astray, DInv
  <2> QED BY <1>1, <1>3, <2>2 DEF Wrote
<1>8. ASSUME NEW i \in Ids, AsOwed(i)
      PROVE  AsOwed(i)'
  <2>1. i \in DOMAIN w => Gives(w, i)
    BY <1>8 DEF AsOwed
  <2>2. Settled(i)'
    BY <1>1, <1>3, <1>8, <2>1 DEF AsOwed, Settled, Gives
  <2>3. \A v \in adrift' : i \in DOMAIN v => Gives(v, i)'
    BY <1>1, <1>8 DEF AsOwed, Gives
  <2>4. \A t \in Senders : Busy(t, i)' => Current(sync[t], i)'
    BY <1>1, <1>4, <1>8 DEF AsOwed, Current
  <2> QED BY <2>2, <2>3, <2>4 DEF AsOwed
<1>9. UpToDate'
  BY <1>1, <1>4, <1>8 DEF UpToDate, DInv, Named, NamedElse, Names, Current
<1> QED BY <1>6, <1>7, <1>9 DEF DInv

LEMMA InitDivergence == Init => DInv
<1> SUFFICES ASSUME Init PROVE DInv
  OBVIOUS
<1>1. \A s \in Senders : sync[s] = NoSync
  BY DEF Init
<1>2. \A s \in Senders, i \in Ids : ~Busy(s, i)
  BY <1>1, Shapes DEF Busy
<1>3. \A i \in Ids : Settled(i)
  BY DEF Init, Settled
<1>4. \A i \in Ids : AsOwed(i)
  BY <1>2, <1>3 DEF AsOwed, Init
<1>6. MetByNone /\ MetOrAlone /\ WritesSeen
  BY <1>2 DEF MetByNone, MetOrAlone, WritesSeen
<1>7. UpToDate
  BY <1>2, <1>4 DEF UpToDate
<1> QED BY <1>6, <1>7 DEF DInv

LEMMA NextDivergence == PInv /\ DInv /\ [Next]_vars => DInv'
<1> SUFFICES ASSUME PInv, DInv, [Next]_vars PROVE DInv'
  OBVIOUS
<1>1. CASE Change
  <2>0. PICK b \in Batches : \E c \in [b -> Rows!Class], said \in SUBSET b :
          Commit([i \in Ids |-> IF i \in b THEN c[i] ELSE class[i]], said)
    BY <1>1 DEF Change
  <2>1. PICK c \in [b -> Rows!Class], said \in SUBSET b :
          Commit([i \in Ids |-> IF i \in b THEN c[i] ELSE class[i]], said)
    BY <2>0
  <2>2. b \subseteq Ids /\ said \in SUBSET Ids
    BY ProjectionAssumption
  <2>3. [i \in Ids |-> IF i \in b THEN c[i] ELSE class[i]] \in [Ids -> Rows!Class]
    BY <2>2 DEF PInv, RowsTyped
  <2> QED BY <2>1, <2>2, <2>3, CommitDivergence
<1>2. CASE Claim
  BY <1>2, ClaimDivergence
<1>3. ASSUME NEW s \in Callers,
             \/ Reconcile(s)
             \/ \E ids \in Batches : Ask(s, ids)
             \/ \E e \in Slots : Replay(s, e)
      PROVE  DInv'
  <2>1. CASE Reconcile(s)
    <3>1. PICK drift \in SUBSET Differs : Ask(s, Mismatched \cup drift)
      BY <2>1 DEF Reconcile
    <3>2. Mismatched \cup drift \in SUBSET Ids
      BY DEF Mismatched, Differs
    <3> QED BY <3>1, <3>2, AskDivergence
  <2>2. CASE \E ids \in Batches : Ask(s, ids)
    BY <2>2, ProjectionAssumption, AskDivergence
  <2>3. CASE \E e \in Slots : Replay(s, e)
    <3>1. PICK e \in Slots : Replay(s, e)
      BY <2>3
    <3>2. event[e].ids \in SUBSET Ids
      BY DEF PInv, QueueTyped, Event
    <3> QED BY <3>1, <3>2, AskDivergence
  <2> QED BY <1>3, <2>1, <2>2, <2>3
<1>4. ASSUME NEW s \in Senders, Proceed(s) \/ Throw(s) \/ Crash(s)
      PROVE  DInv'
  BY <1>4, ReadDivergence, CheckDivergence, WriteDivergence, ReturnDivergence, EarlyDivergence DEF Proceed
<1>5. CASE Arrive
  BY <1>5, ArriveDivergence DEF Arrive
<1>6. CASE UNCHANGED vars
  <2>1. /\ \A i \in Ids : Named(i) => Named(i)'
        /\ \A t \in Senders, i \in Ids : NamedElse(t, i) => NamedElse(t, i)'
    BY <1>6 DEF vars, Named, NamedElse, Names
  <2> QED BY <1>6, <2>1, IdleStep DEF vars
<1> QED BY <1>1, <1>2, <1>3, <1>4, <1>5, <1>6 DEF Next

\* A row with no event left that a claim may return, and nothing else under way,
\* is in Qdrant as it should be, or excused, for any rows, callers, batches,
\* events, faults and attempts, whatever the outbox loses to late commits,
\* replays and workers that end: a sync alone on a row makes up for every cause,
\* and the event, and the excuse, go with it.
THEOREM DivergenceIsExcused == Spec => []DivergenceHasACause
<1>1. PInv /\ DInv => DivergenceHasACause
  <2> SUFFICES ASSUME PInv, DInv, NEW i \in Ids, AtRest(i), i \notin excused PROVE Settled(i)
    BY DEF DivergenceHasACause
  <2>1. \A e \in Slots : Names(e, i) => e \notin Claimable(event, cursor)
    BY DEF AtRest, NamedBy, Names
  <2>2. \A e \in Slots : Names(e, i) => e # hand["worker"]
    BY HandIsSlot DEF AtRest, Names, Senders
  <2>3. ~Named(i)
    BY <2>1, <2>2 DEF Named
  <2> QED BY <2>3 DEF DInv, UpToDate, AsOwed
<1> QED BY <1>1, Invariance, InitDivergence, NextDivergence, PTL DEF Spec
=============================================================================
