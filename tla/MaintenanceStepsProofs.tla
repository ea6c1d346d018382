------------------------ MODULE MaintenanceStepsProofs ------------------------
(***************************************************************************)
(* Proofs about the steps of MemoryMaintenance: what they announce to the  *)
(* projection, and which changes of a row the services and the scripts     *)
(* that work from old reads can make.                                      *)
(*                                                                         *)
(* Each step is described once (Tells, Keeps, Respects), whoever takes it; *)
(* the theorems follow from the description. That a service changes a row  *)
(* only along its edges rests on the row locks (Locks): the scripts write  *)
(* rows without looking, but none that a review holds.                     *)
(* Rewords says what becomes of the content of a row: only a candidate     *)
(* under review is reworded, by the update that holds its lock or by the   *)
(* create that finds it.                                                   *)
(* Reviews says which review states a step may write. A row keeps to one   *)
(* family of them (Unmixed), so that of the states a governance run reads, *)
(* only an auto-update can have replaced one by another that recalls it.   *)
(***************************************************************************)
EXTENDS MemoryMaintenanceProofs

\* the row need not be announced: it is as it was, or no longer current
Quiet(m, d) == d = m \/ ~d.current

\* a change the services may make
Orderly(m, d) ==
  /\ d.status # m.status => <<m.status, d.status>> \in ServiceEdges
  /\ d.current => m.current

\* changed unannounced by the policy backfill, or by the debt plan
Marked(r) == /\ r \in DOMAIN backlog
             /\ mem'[r] = [mem[r] EXCEPT !.meta = mem'[r].meta]
             /\ mem'[r].meta.withheld
Filled(r) == /\ r \in keyless
             /\ mem'[r] = [mem[r] EXCEPT !.key = mem'[r].key]
             /\ mem[r].key = NoKey

Tells ==
  /\ \A r \in DOMAIN mem : r \in announced' \/ Quiet(mem[r], mem'[r]) \/ Marked(r) \/ Filled(r)
  /\ \/ DOMAIN mem' = DOMAIN mem
     \/ /\ Len(mem) < MaxRecords
        /\ DOMAIN mem' = DOMAIN mem \cup {Len(mem) + 1}
        /\ Len(mem) + 1 \in announced'
        /\ mem'[Len(mem) + 1].status \in {"candidate", "approved"}

Keeps == \A r \in DOMAIN mem : Orderly(mem[r], mem'[r])

\* what the checks of BeginReview found, the freeze aside
Passed(kind, m) ==
  /\ kind \in {"approve", "reject", "update"} => UnderReview(m)
  /\ kind \in {"archive", "supersede"} => Recallable(m)
  /\ kind = "tombstone" => m.status # "tombstone"

Locks ==
  /\ \A w \in Writers : txn[w].op = "review" => Passed(txn[w].kind, mem[txn[w].row])
  /\ \A v, w \in Writers :
       txn[v].op = "review" /\ txn[w].op = "review" /\ txn[v].row = txn[w].row => v = w

\* a review after the step: it was there before, and its row is as it was; or
\* it has just passed its checks on a row nobody holds
Respects ==
  \A w \in Writers : txn'[w].op = "review" =>
    \/ txn'[w] = txn[w] /\ mem'[txn[w].row] = mem[txn[w].row]
    \/ /\ mem' = mem
       /\ txn'[w].row \notin Locked
       /\ Passed(txn'[w].kind, mem[txn'[w].row])
       /\ \A v \in Writers \ {w} : txn'[v] = txn[v]

LEMMA RespectsKeepsLocks ==
  ASSUME Locks, Respects
  PROVE  Locks'
<1>1. ASSUME NEW w \in Writers, txn'[w].op = "review"
      PROVE  Passed(txn'[w].kind, mem'[txn'[w].row])
  BY <1>1 DEF Locks, Respects
<1>2. ASSUME NEW v \in Writers, NEW w \in Writers,
             txn'[v].op = "review", txn'[w].op = "review", txn'[v].row = txn'[w].row
      PROVE  v = w
  <2>1. CASE txn'[v] = txn[v] /\ txn'[w] = txn[w]
    BY <1>2, <2>1 DEF Locks
  <2>2. ASSUME txn'[w].row \notin Locked, txn'[v] = txn[v] PROVE FALSE
    BY <1>2, <2>2 DEF Locked
  <2>3. ASSUME txn'[v].row \notin Locked, txn'[w] = txn[w] PROVE FALSE
    BY <1>2, <2>3 DEF Locked
  <2> QED BY <1>2, <2>1, <2>2, <2>3 DEF Respects
<1>3. (\A w \in Writers : txn[w].op = "review" => Passed(txn[w].kind, mem[txn[w].row]))'
  BY <1>1 DEF Passed, UnderReview, Recallable
<1>4. (\A v, w \in Writers :
        txn[v].op = "review" /\ txn[w].op = "review" /\ txn[v].row = txn[w].row => v = w)'
  BY <1>2
<1> QED BY <1>3, <1>4 DEF Locks

-----------------------------------------------------------------------------
(* The forms a step takes *)

LEMMA Steady ==
  ASSUME mem' = mem
  PROVE  Tells /\ Keeps
BY DEF Tells, Keeps, Quiet, Orderly

LEMMA SetsRow ==
  ASSUME MInv, NEW r \in DOMAIN mem, NEW d, mem' = [mem EXCEPT ![r] = d], r \in announced'
  PROVE  Tells /\ (Orderly(mem[r], d) => Keeps)
<1>1. DOMAIN mem' = DOMAIN mem /\ \A i \in DOMAIN mem : mem'[i] = IF i = r THEN d ELSE mem[i]
  BY RowFacts
<1>2. Tells
  BY <1>1 DEF Tells, Quiet
<1>3. Orderly(mem[r], d) => Keeps
  BY <1>1 DEF Keeps, Orderly
<1> QED BY <1>2, <1>3

LEMMA Appends ==
  ASSUME MInv, NEW s \in Seq(Record), Len(s) = Len(mem), NEW d \in Record,
         d.status \in {"candidate", "approved"}, mem' = Append(s, d),
         Len(mem) < MaxRecords, Len(mem) + 1 \in announced',
         \A i \in DOMAIN mem : i \in announced' \/ s[i] = mem[i]
  PROVE  Tells /\ ((\A i \in DOMAIN mem : Orderly(mem[i], s[i])) => Keeps)
<1>1. DOMAIN mem = 1..Len(mem) /\ Len(mem) \in Nat
  BY RowFacts
<1>2. DOMAIN mem' = DOMAIN mem \cup {Len(mem) + 1} /\ mem'[Len(mem) + 1] = d
  BY <1>1
<1>3. \A i \in DOMAIN mem : mem'[i] = s[i]
  BY <1>1
<1>4. Tells
  BY <1>2, <1>3 DEF Tells, Quiet
<1>5. (\A i \in DOMAIN mem : Orderly(mem[i], s[i])) => Keeps
  BY <1>3 DEF Keeps
<1> QED BY <1>4, <1>5

\* the transaction of w waits or ends, and no row another one holds is changed
LEMMA Releases ==
  ASSUME MInv, Locks, NEW w \in Writers, NEW t, t.op # "review", txn' = [txn EXCEPT ![w] = t],
         \A r \in DOMAIN mem : \/ mem'[r] = mem[r] \/ r \notin Locked
                               \/ txn[w].op = "review" /\ r = txn[w].row
  PROVE  Respects
<1> SUFFICES ASSUME NEW v \in Writers, txn'[v].op = "review"
             PROVE  txn'[v] = txn[v] /\ mem'[txn[v].row] = mem[txn[v].row]
  BY DEF Respects
<1>1. v # w /\ txn'[v] = txn[v]
  BY DEF MInv
<1>2. txn[v].row \in DOMAIN mem /\ txn[v].row \in Locked
  BY <1>1, Fields DEF Locked
<1>3. ~(txn[w].op = "review" /\ txn[v].row = txn[w].row)
  BY <1>1 DEF Locks
<1> QED BY <1>1, <1>2, <1>3

LEMMA ScriptRespects ==
  ASSUME MInv, txn' = txn, \A r \in DOMAIN mem : mem'[r] = mem[r] \/ r \notin Locked
  PROVE  Respects
<1> SUFFICES ASSUME NEW v \in Writers, txn[v].op = "review"
             PROVE  mem'[txn[v].row] = mem[txn[v].row]
  BY DEF Respects
<1>1. txn[v].row \in DOMAIN mem /\ txn[v].row \in Locked
  BY Fields DEF Locked
<1> QED BY <1>1

-----------------------------------------------------------------------------
(* The services *)

LEMMA CreateFacts ==
  ASSUME MInv, Locks, NEW w \in Writers, CreateStep(w)
  PROVE  Tells /\ Keeps /\ Respects
<1>1. CASE (\E c \in Commands : BeginCreate(w, c)) \/ SettleReview(w) \/ LookUpKey(w) \/ Replay(w)
  <2>1. mem' = mem
    BY <1>1 DEF BeginCreate, SettleReview, LookUpKey, Replay
  <2>2. PICK t : t.op # "review" /\ txn' = [txn EXCEPT ![w] = t]
    <3>1. CASE \E c \in Commands : BeginCreate(w, c)
      BY <3>1 DEF BeginCreate
    <3>2. CASE SettleReview(w)
      <4>1. PICK review \in {txn[w].cmd.review, "pending"} :
              txn' = [txn EXCEPT ![w] = [@ EXCEPT !.phase = "settled", !.review = review, !.seen = {}]]
        BY <3>2 DEF SettleReview, MInv
      <4> DEFINE t == [txn[w] EXCEPT !.phase = "settled", !.review = review, !.seen = {}]
      <4>2. txn[w] \in Txn /\ txn[w].op = "create"
        BY <3>2 DEF SettleReview, Creating, MInv
      <4>3. t.op # "review"
        BY <4>2 DEF Txn, Idle
      <4> QED BY <4>1, <4>3
    <3>3. CASE LookUpKey(w)
      <4> DEFINE seen == {r \in DOMAIN mem : KeyMatch(mem[r], txn[w].cmd)}
      <4> DEFINE t == [txn[w] EXCEPT !.phase = "key", !.seen = seen]
      <4>1. txn' = [txn EXCEPT ![w] = t]
        BY <3>3 DEF LookUpKey, MInv
      <4>2. txn[w] \in Txn /\ txn[w].op = "create"
        BY <3>3 DEF LookUpKey, Creating, MInv
      <4> HIDE DEF seen
      <4>3. t.op # "review"
        BY <4>2 DEF Txn, Idle
      <4> QED BY <4>1, <4>3
    <3>4. CASE Replay(w)
      BY <3>4 DEF Replay, Done, Idle
    <3> QED BY <1>1, <3>1, <3>2, <3>3, <3>4
  <2> QED BY <2>1, <2>2, Steady, Releases
<1>2. CASE UpdateInPlace(w)
  <2>1. PICK r \in DOMAIN mem : /\ Hit(w, r)
                                /\ mem' = [mem EXCEPT ![r] = WithPayload(mem[r], txn[w].cmd)]
                                /\ Done(w, {r})
    BY <1>2 DEF UpdateInPlace
  <2>2. Orderly(mem[r], WithPayload(mem[r], txn[w].cmd))
    BY RowFacts DEF Orderly, WithPayload, Record
  <2>3. Tells /\ Keeps
    BY <2>1, <2>2, SetsRow DEF Done
  <2>4. \A i \in DOMAIN mem : mem'[i] = mem[i] \/ i \notin Locked
    BY <2>1 DEF Hit
  <2>5. Respects
    BY <2>1, <2>4, Releases DEF Done, Idle
  <2> QED BY <2>3, <2>5
<1>3. CASE Replace(w)
  <2> DEFINE d(r) == WithState(mem[r], "superseded", mem[r].review)
             n == NewRecord(txn[w].cmd, txn[w].review)
  <2>1. PICK r \in DOMAIN mem : /\ Hit(w, r)
                                /\ mem[r].status = "approved"
                                /\ mem' = Append([mem EXCEPT ![r] = d(r)], n)
                                /\ Done(w, {r, Len(mem) + 1})
    BY <1>3 DEF Replace
  <2> DEFINE s == [mem EXCEPT ![r] = d(r)]
  <2>2. /\ mem \in Seq(Record) /\ mem[r] \in Record /\ d(r) \in Record
        /\ DOMAIN mem = 1..Len(mem) /\ Len(mem) \in Nat
    BY RowFacts, WithReview DEF Good, Status
  <2>3. Orderly(mem[r], d(r))
    BY <2>1, <2>2 DEF Orderly, WithState, ServiceEdges, Record
  <2>4. n \in Record /\ n.status \in {"candidate", "approved"}
    <3>1. txn[w].cmd \in Command /\ txn[w].review \in Asked
      BY <2>1, Fields DEF Hit
    <3>2. n.status \in {"candidate", "approved"}
      BY DEF NewRecord, StatusOf
    <3> QED BY <3>1, <3>2, NewRecordIsGood DEF Good
  <2>5. r \notin Locked /\ Len(mem) < MaxRecords
    BY <1>3, <2>1 DEF Replace, Hit
  <2> HIDE DEF d, n
  <2>6. s \in Seq(Record) /\ Len(s) = Len(mem) /\ \A i \in DOMAIN mem : s[i] = IF i = r THEN d(r) ELSE mem[i]
    BY <2>2
  <2>7. mem' = Append(s, n)
    BY <2>1
  <2> HIDE DEF s
  <2>8. \A i \in DOMAIN mem : Orderly(mem[i], s[i])
    BY <2>3, <2>6 DEF Orderly
  <2>9. announced' = {r, Len(mem) + 1} /\ txn' = [txn EXCEPT ![w] = Idle]
    BY <2>1 DEF Done
  <2>10. Tells /\ Keeps
    BY <2>4, <2>5, <2>6, <2>7, <2>8, <2>9, Appends
  <2>11. \A i \in DOMAIN mem : mem'[i] = mem[i] \/ i \notin Locked
    BY <2>2, <2>5, <2>6, <2>7
  <2>12. Respects
    BY <2>9, <2>11, Releases DEF Idle
  <2> QED BY <2>10, <2>12
<1>4. CASE Insert(w)
  <2> DEFINE n == NewRecord(txn[w].cmd, txn[w].review)
  <2>1. /\ mem' = Append(mem, n) /\ announced' = {Len(mem) + 1} /\ Len(mem) < MaxRecords
        /\ txn' = [txn EXCEPT ![w] = Idle]
    BY <1>4 DEF Insert, Done
  <2>2. n \in Record /\ n.status \in {"candidate", "approved"}
    <3>1. txn[w].op = "create"
      BY <1>4 DEF Insert, Creating, Hit
    <3>2. txn[w].cmd \in Command /\ txn[w].review \in Asked
      BY <3>1, Fields
    <3>3. n.status \in {"candidate", "approved"}
      BY DEF NewRecord, StatusOf
    <3> QED BY <3>2, <3>3, NewRecordIsGood DEF Good
  <2> HIDE DEF n
  <2>3. Tells /\ Keeps
    BY <2>1, <2>2, RowFacts, Appends DEF Orderly
  <2>4. \A i \in DOMAIN mem : mem'[i] = mem[i]
    BY <2>1, RowFacts
  <2>5. Respects
    BY <2>1, <2>4, Releases DEF Idle
  <2> QED BY <2>3, <2>5
<1> QED BY <1>1, <1>2, <1>3, <1>4 DEF CreateStep

\* the row that w has locked, as its checks found it
LEMMA Held ==
  ASSUME MInv, Locks, NEW w \in Writers, NEW kind, Reviewing(w, kind)
  PROVE  /\ txn[w].row \in DOMAIN mem /\ mem[txn[w].row] \in Record
         /\ Passed(kind, mem[txn[w].row])
BY Fields, RowFacts DEF Reviewing, Locks

LEMMA SetStateFacts ==
  ASSUME MInv, Locks, NEW w \in Writers, NEW kind, NEW status, NEW review,
         SetState(w, kind, status, review),
         \A m \in Record : Passed(kind, m) => Orderly(m, WithState(m, status, review))
  PROVE  Tells /\ Keeps /\ Respects
<1> DEFINE r == txn[w].row
           d == WithState(mem[r], status, review)
<1>1. r \in DOMAIN mem /\ Orderly(mem[r], d)
  BY Held DEF SetState
<1>2. mem' = [mem EXCEPT ![r] = d] /\ announced' = {r} /\ txn' = [txn EXCEPT ![w] = Idle]
  BY DEF SetState, Done
<1>3. txn[w].op = "review"
  BY DEF SetState, Reviewing
<1> HIDE DEF d
<1>4. \A i \in DOMAIN mem : mem'[i] = mem[i] \/ i = r
  BY <1>2
<1>5. Respects
  BY <1>2, <1>3, <1>4, Releases DEF Idle
<1> HIDE DEF r
<1>6. Tells /\ Keeps
  BY <1>1, <1>2, SetsRow
<1> QED BY <1>5, <1>6

LEMMA ReviewFacts ==
  ASSUME MInv, Locks, NEW w \in Writers, ReviewStep(w)
  PROVE  Tells /\ Keeps /\ Respects
<1>1. CASE \E kind \in Operations, r \in DOMAIN mem : BeginReview(w, kind, r)
  <2>1. PICK kind \in Operations, r \in DOMAIN mem : BeginReview(w, kind, r)
    BY <1>1
  <2>2. /\ mem' = mem /\ r \notin Locked /\ MayApply(kind, mem[r])
        /\ txn' = [txn EXCEPT ![w] = [op |-> "review", kind |-> kind, row |-> r]]
    BY <2>1 DEF BeginReview
  <2>3. Passed(kind, mem[r])
    <3>1. kind \in Operation
      BY LifecycleAssumption
    <3> QED BY <2>2, <3>1 DEF MayApply, Passed, Operation
  <2>4. DOMAIN txn = Writers
    BY DEF MInv
  <2>5. Respects
    BY <2>2, <2>3, <2>4 DEF Respects
  <2> QED BY <2>2, <2>5, Steady
<1>2. CASE Approve(w)
  <2>1. \A m \in Record : Passed("approve", m) => Orderly(m, WithState(m, "approved", "approved"))
    BY DEF Passed, Orderly, WithState, UnderReview, ServiceEdges, Record
  <2> QED BY <1>2, <2>1, SetStateFacts DEF Approve
<1>3. CASE Reject(w)
  <2>1. \A m \in Record : Passed("reject", m) => Orderly(m, WithState(m, "rejected", "rejected"))
    BY DEF Passed, Orderly, WithState, UnderReview, ServiceEdges, Record
  <2> QED BY <1>3, <2>1, SetStateFacts DEF Reject
<1>4. CASE Archive(w)
  <2> DEFINE review == mem[txn[w].row].review
  <2>1. SetState(w, "archive", "archived", review)
    BY <1>4 DEF Archive
  <2> HIDE DEF review
  <2>2. \A m \in Record : Passed("archive", m) => Orderly(m, WithState(m, "archived", review))
    BY DEF Passed, Orderly, WithState, Recallable, ServiceEdges, Record
  <2> QED BY <2>1, <2>2, SetStateFacts
<1>5. CASE Tombstone(w)
  <2> DEFINE review == mem[txn[w].row].review
  <2>1. SetState(w, "tombstone", "tombstone", review)
    BY <1>5 DEF Tombstone
  <2> HIDE DEF review
  <2>2. \A m \in Record : Passed("tombstone", m) => Orderly(m, WithState(m, "tombstone", review))
    BY DEF Passed, Orderly, WithState, ServiceEdges, Record
  <2> QED BY <2>1, <2>2, SetStateFacts
<1>6. ASSUME NEW e \in Edits, Supersede(w, e) PROVE Tells /\ Keeps /\ Respects
  <2> DEFINE r == txn[w].row
             d == WithState(mem[r], "superseded", mem[r].review)
             n == NextVersion(r, e)
             s == [mem EXCEPT ![r] = d]
  <2>1. /\ mem' = Append(s, n) /\ announced' = {r, Len(mem) + 1} /\ Len(mem) < MaxRecords
        /\ txn' = [txn EXCEPT ![w] = Idle] /\ txn[w].op = "review"
    BY <1>6 DEF Supersede, Done, Reviewing
  <2>2. r \in DOMAIN mem /\ mem[r] \in Record /\ Passed("supersede", mem[r])
    BY <1>6, Held DEF Supersede
  <2>3. /\ mem \in Seq(Record) /\ DOMAIN mem = 1..Len(mem) /\ Len(mem) \in Nat /\ d \in Record
    BY <2>2, RowFacts, WithReview DEF Good, Status
  <2>4. Orderly(mem[r], d)
    BY <2>2 DEF Passed, Orderly, WithState, Recallable, ServiceEdges, Record
  <2>5. n \in Record /\ n.status = "approved"
    <3>1. e \in Edit /\ r \in Nat
      BY <2>2, <2>3, LifecycleAssumption
    <3> QED BY <2>2, <3>1 DEF NextVersion, Record, Status, Edit, Review
  <2> HIDE DEF d, n
  <2>6. s \in Seq(Record) /\ Len(s) = Len(mem) /\ \A i \in DOMAIN mem : s[i] = IF i = r THEN d ELSE mem[i]
    BY <2>2, <2>3
  <2> HIDE DEF s
  <2>7. \A i \in DOMAIN mem : Orderly(mem[i], s[i])
    BY <2>4, <2>6 DEF Orderly
  <2>8. Tells /\ Keeps
    BY <2>1, <2>5, <2>6, <2>7, Appends
  <2>9. \A i \in DOMAIN mem : mem'[i] = mem[i] \/ i = r
    BY <2>1, <2>3, <2>5, <2>6
  <2>10. Respects
    BY <2>1, <2>9, Releases DEF Idle
  <2> QED BY <2>8, <2>10
<1>7. ASSUME NEW e \in Edits, UpdateCandidate(w, e) PROVE Tells /\ Keeps /\ Respects
  <2> DEFINE r == txn[w].row
             d == WithPayload(mem[r], e)
  <2>1. /\ mem' = [mem EXCEPT ![r] = d] /\ announced' = {r}
        /\ txn' = [txn EXCEPT ![w] = Idle] /\ txn[w].op = "review"
    BY <1>7 DEF UpdateCandidate, Done, Reviewing
  <2>2. r \in DOMAIN mem /\ mem[r] \in Record
    BY <1>7, Held DEF UpdateCandidate
  <2>3. Orderly(mem[r], d)
    BY <2>2 DEF Orderly, WithPayload, Record
  <2> HIDE DEF d
  <2>4. \A i \in DOMAIN mem : mem'[i] = mem[i] \/ i = r
    BY <2>1
  <2>5. Respects
    BY <2>1, <2>4, Releases DEF Idle
  <2> HIDE DEF r
  <2>6. Tells /\ Keeps
    BY <2>1, <2>2, <2>3, SetsRow
  <2> QED BY <2>5, <2>6
<1> QED BY <1>1, <1>2, <1>3, <1>4, <1>5, <1>6, <1>7 DEF ReviewStep

LEMMA ServiceFacts ==
  ASSUME MInv, Locks, Next
  PROVE  Tells /\ Keeps /\ Respects
<1>1. ASSUME NEW w \in Writers, Rollback(w) PROVE Tells /\ Keeps /\ Respects
  <2>1. mem' = mem /\ txn' = [txn EXCEPT ![w] = Idle]
    BY <1>1 DEF Rollback, Done
  <2> QED BY <2>1, Steady, Releases DEF Idle
<1>2. ASSUME NEW s \in Scopes, Freeze(s) \/ Thaw(s) PROVE Tells /\ Keeps /\ Respects
  BY <1>2, Steady, ScriptRespects DEF Freeze, Thaw
<1> QED BY <1>1, <1>2, CreateFacts, ReviewFacts DEF Next

-----------------------------------------------------------------------------
(* The scripts *)

LEMMA ReadingFacts ==
  ASSUME MInv, \/ ReadCandidates \/ ReadTargets \/ RecordAction \/ GovernanceStops
               \/ FindDuplicates \/ RepairStops \/ ReadBacklog \/ BackfillStops
               \/ ReadKeyless \/ DebtPlanStops
               \/ \E r \in DOMAIN found : ReadStatus(r)
               \/ \E t \in targets : SkipTarget(t)
  PROVE  Tells /\ Keeps /\ Respects
<1>1. UNCHANGED <<mem, txn>>
  BY DEF ReadCandidates, ReadTargets, RecordAction, GovernanceStops, FindDuplicates, RepairStops,
         ReadStatus, SkipTarget, ReadBacklog, BackfillStops, ReadKeyless, DebtPlanStops
<1> QED BY <1>1, Steady, ScriptRespects

LEMMA DecidedFields ==
  ASSUME NEW m \in Record, NEW status, NEW review, NEW meta
  PROVE  /\ Decided(m, status, review, meta).status = status
         /\ Decided(m, status, review, meta).review = review
         /\ Decided(m, status, review, meta).current <=> status = "approved"
<1> DEFINE d == WithState(m, status, review)
<1>1. /\ d.status = status /\ d.review = review /\ (d.current <=> status = "approved")
      /\ DOMAIN d = DOMAIN m
  BY DEF WithState, Record
<1> HIDE DEF d
<1> QED BY <1>1 DEF Decided, d

LEMMA SweepFacts ==
  ASSUME MInv, Sweep \/ Consolidate \/ CloseReviews
  PROVE  Tells /\ Keeps /\ Respects
<1>1. CASE Sweep
  <2>1. ASSUME NEW r \in DOMAIN mem
        PROVE  /\ r \in announced' \/ Quiet(mem[r], mem'[r])
               /\ Orderly(mem[r], mem'[r])
               /\ mem'[r] = mem[r] \/ r \notin Locked
    <3>1. mem[r] \in Record
      BY RowFacts
    <3>2. CASE mem'[r] = mem[r]
      BY <3>2 DEF Quiet, Orderly
    <3>3. CASE mem'[r] # mem[r]
      <4>1. PICK meta \in Meta :
              /\ r \notin Locked /\ StillPending(mem[r])
              /\ \/ /\ r \in announced'
                    /\ mem'[r] = Decided(mem[r], "approved", "silent_approved", meta)
                 \/ mem'[r] = Decided(mem[r], "rejected", "rejected", meta)
        BY <1>1, <3>3, SweptRows
      <4>2. mem[r].status = "candidate" /\ mem[r].current
        BY <4>1 DEF StillPending
      <4>3. \/ r \in announced' /\ mem'[r].status = "approved"
            \/ mem'[r].status = "rejected" /\ ~mem'[r].current
        BY <3>1, <4>1, DecidedFields
      <4>4. Orderly(mem[r], mem'[r])
        BY <4>2, <4>3 DEF Orderly, ServiceEdges
      <4> QED BY <4>1, <4>3, <4>4 DEF Quiet
    <3> QED BY <3>2, <3>3
  <2>2. DOMAIN mem' = DOMAIN mem /\ txn' = txn
    BY <1>1, SweptRows DEF Sweep
  <2> QED BY <2>1, <2>2, ScriptRespects DEF Tells, Keeps
<1>2. CASE Consolidate
  <2>1. PICK weak \in SUBSET {r \in DOMAIN mem : mem[r].status = "approved" /\ mem[r].current} :
          /\ Free(weak)
          /\ mem' = [r \in DOMAIN mem |->
                       IF r \in weak THEN WithState(mem[r], "archived", mem[r].review) ELSE mem[r]]
    BY <1>2 DEF Consolidate
  <2>2. ASSUME NEW r \in DOMAIN mem
        PROVE  /\ Quiet(mem[r], mem'[r])
               /\ Orderly(mem[r], mem'[r])
               /\ mem'[r] = mem[r] \/ r \notin Locked
    <3>1. mem[r] \in Record
      BY RowFacts
    <3>2. \/ mem'[r] = mem[r]
          \/ /\ r \in weak /\ mem[r].status = "approved"
             /\ mem'[r] = WithState(mem[r], "archived", mem[r].review)
      BY <2>1
    <3>3. mem'[r] = mem[r] \/ r \notin Locked
      BY <2>1, <3>2 DEF Free
    <3>4. mem'[r] = mem[r] \/ (mem'[r].status = "archived" /\ ~mem'[r].current)
      BY <3>1, <3>2 DEF WithState, Record
    <3>5. Orderly(mem[r], mem'[r]) /\ Quiet(mem[r], mem'[r])
      BY <3>2, <3>4 DEF Orderly, Quiet, ServiceEdges
    <3> QED BY <3>3, <3>5
  <2>3. DOMAIN mem' = DOMAIN mem /\ txn' = txn
    BY <1>2, <2>1 DEF Consolidate
  <2> QED BY <2>2, <2>3, ScriptRespects DEF Tells, Keeps
<1>3. CASE CloseReviews
  <2>1. PICK open \in SUBSET {r \in DOMAIN mem : mem[r].status = "tombstone"} :
          /\ Free(open)
          /\ mem' = [r \in DOMAIN mem |->
                       IF r \in open THEN [mem[r] EXCEPT !.review = "rejected"] ELSE mem[r]]
    BY <1>3 DEF CloseReviews
  <2>2. ASSUME NEW r \in DOMAIN mem
        PROVE  /\ Quiet(mem[r], mem'[r])
               /\ Orderly(mem[r], mem'[r])
               /\ mem'[r] = mem[r] \/ r \notin Locked
    <3>1. Good(mem[r]) /\ mem[r] \in Record
      BY RowFacts
    <3>2. \/ mem'[r] = mem[r]
          \/ /\ r \in open /\ mem[r].status = "tombstone"
             /\ mem'[r] = [mem[r] EXCEPT !.review = "rejected"]
      BY <2>1
    <3>3. mem'[r] = mem[r] \/ r \notin Locked
      BY <2>1, <3>2 DEF Free
    <3>4. Orderly(mem[r], mem'[r]) /\ Quiet(mem[r], mem'[r])
      BY <3>1, <3>2 DEF Orderly, Quiet, Good, Live, Record
    <3> QED BY <3>3, <3>4
  <2>3. DOMAIN mem' = DOMAIN mem /\ txn' = txn
    BY <1>3, <2>1 DEF CloseReviews
  <2> QED BY <2>2, <2>3, ScriptRespects DEF Tells, Keeps
<1> QED BY <1>1, <1>2, <1>3

LEMMA BackfillFacts ==
  ASSUME MInv, BackfillReject
  PROVE  Tells /\ Respects /\ \A r \in DOMAIN mem : mem'[r].current => mem[r].current
<1>1. PICK b \in DOMAIN backlog :
        /\ Free({b})
        /\ mem' = [mem EXCEPT ![b] = Decided(mem[b], "rejected", "rejected", Withheld(backlog[b].meta))]
  BY DEF BackfillReject, Decided
<1>2. b \in DOMAIN mem /\ mem[b] \in Record
  BY RowFacts DEF MInv, BacklogTyped
<1> DEFINE d == Decided(mem[b], "rejected", "rejected", Withheld(backlog[b].meta))
<1>3. ~d.current
  BY <1>2 DEF Decided, WithState, Record
<1> HIDE DEF d
<1>4. DOMAIN mem' = DOMAIN mem /\ \A r \in DOMAIN mem : mem'[r] = IF r = b THEN d ELSE mem[r]
  BY <1>1, <1>2 DEF d
<1>5. Tells
  BY <1>3, <1>4 DEF Tells, Quiet
<1>6. Respects
  BY <1>1, <1>4, ScriptRespects DEF Free, BackfillReject
<1> QED BY <1>3, <1>4, <1>5, <1>6

LEMMA MarkFacts ==
  ASSUME MInv, BackfillMark
  PROVE  Tells /\ Keeps /\ Respects
<1>1. PICK b \in DOMAIN backlog : Free({b}) /\ mem' = [mem EXCEPT ![b].meta = Withheld(backlog[b].meta)]
  BY DEF BackfillMark
<1>2. b \in DOMAIN mem /\ mem[b] \in Record /\ backlog[b].meta \in Meta
  BY RowFacts DEF MInv, BacklogTyped, Verdict
<1>3. /\ DOMAIN mem' = DOMAIN mem
      /\ \A r \in DOMAIN mem : r # b => mem'[r] = mem[r]
      /\ mem'[b] = [mem[b] EXCEPT !.meta = Withheld(backlog[b].meta)]
  BY <1>1, <1>2
<1>4. Marked(b) /\ Orderly(mem[b], mem'[b])
  BY <1>2, <1>3 DEF Marked, Orderly, Withheld, Meta, Record
<1>5. Tells /\ Keeps
  BY <1>3, <1>4 DEF Tells, Quiet, Keeps, Orderly
<1>6. Respects
  BY <1>1, <1>3, ScriptRespects DEF Free, BackfillMark
<1> QED BY <1>5, <1>6

\* a row whose key a backfill fills, or has filled before
LEMMA FillsKey ==
  ASSUME NEW m \in Record, NEW key
  PROVE  /\ Orderly(m, KeyFilled(m, key))
         /\ KeyFilled(m, key) = m \/ (m.key = NoKey /\ KeyFilled(m, key) = [m EXCEPT !.key = KeyFilled(m, key).key])
BY DEF Orderly, KeyFilled, Record

LEMMA FillFacts ==
  ASSUME MInv, FillKeys \/ BackfillProvenance
  PROVE  Tells /\ Keeps /\ Respects
<1>1. PICK rows \in SUBSET DOMAIN mem :
        /\ \E key \in [rows -> Keys] :
             mem' = [r \in DOMAIN mem |-> IF r \in rows THEN KeyFilled(mem[r], key[r]) ELSE mem[r]]
        /\ Free(rows) /\ (rows = keyless \/ rows = announced')
  <2>1. CASE FillKeys
    BY <2>1 DEF FillKeys, MInv
  <2>2. CASE BackfillProvenance
    BY <2>2 DEF BackfillProvenance
  <2> QED BY <2>1, <2>2
<1>2. PICK key \in [rows -> Keys] :
        mem' = [r \in DOMAIN mem |-> IF r \in rows THEN KeyFilled(mem[r], key[r]) ELSE mem[r]]
  BY <1>1
<1>3. DOMAIN mem' = DOMAIN mem /\ txn' = txn
  BY <1>2 DEF FillKeys, BackfillProvenance
<1>4. \A r \in DOMAIN mem : r \notin rows => mem'[r] = mem[r]
  BY <1>2
<1>5. ASSUME NEW r \in rows
      PROVE  /\ Orderly(mem[r], mem'[r])
             /\ mem'[r] = mem[r] \/ (mem[r].key = NoKey /\ mem'[r] = [mem[r] EXCEPT !.key = mem'[r].key])
  <2>1. mem[r] \in Record /\ mem'[r] = KeyFilled(mem[r], key[r])
    BY <1>2, RowFacts
  <2> QED BY <2>1, FillsKey
<1>6. Tells
  BY <1>1, <1>3, <1>4, <1>5 DEF Tells, Quiet, Filled
<1>7. Keeps
  BY <1>4, <1>5 DEF Keeps, Orderly
<1>8. Respects
  BY <1>1, <1>3, <1>4, ScriptRespects DEF Free
<1> QED BY <1>6, <1>7, <1>8

LEMMA RemoveFacts ==
  ASSUME MInv, NEW t \in targets, Remove(t)
  PROVE  Tells /\ Keeps /\ Respects
<1> DEFINE d == WithState(mem[t.row], Removed(t.kind), mem[t.row].review)
<1>1. /\ mem' = [mem EXCEPT ![t.row] = d] /\ announced' = {t.row} /\ txn' = txn
      /\ Free({t.row}) /\ MayApply(t.kind, mem[t.row])
  BY DEF Remove
<1>2. t.kind \in {"archive", "tombstone"} /\ t.row \in DOMAIN mem
  BY DEF MInv, Target, Kept
<1>3. mem[t.row] \in Record
  BY <1>2, RowFacts
<1>4. Orderly(mem[t.row], d)
  BY <1>1, <1>2, <1>3 DEF Orderly, WithState, Removed, MayApply, Recallable, ServiceEdges, Record
<1> HIDE DEF d
<1>5. Tells /\ Keeps
  BY <1>1, <1>2, <1>4, SetsRow
<1>6. Respects
  BY <1>1, <1>2, ScriptRespects DEF Free
<1> QED BY <1>5, <1>6

LEMMA DemoteFacts ==
  ASSUME MInv, Demote
  PROVE  Tells /\ Respects /\ \A r \in DOMAIN mem : mem'[r].current => mem[r].current
<1> DEFINE d(r) == [mem[r] EXCEPT !.status = IF found[r] = "approved" THEN "superseded" ELSE found[r],
                                  !.current = FALSE]
<1>1. /\ mem' = [r \in DOMAIN mem |-> IF r \in DOMAIN found THEN d(r) ELSE mem[r]]
      /\ announced' = DOMAIN found /\ txn' = txn /\ Free(DOMAIN found)
  BY DEF Demote
<1>2. \A r \in DOMAIN mem : ~d(r).current
  BY RowFacts DEF Record
<1> HIDE DEF d
<1>3. DOMAIN mem' = DOMAIN mem
  BY <1>1
<1>4. \A r \in DOMAIN mem : r \in announced' \/ mem'[r] = mem[r]
  BY <1>1
<1>5. Tells
  BY <1>3, <1>4 DEF Tells, Quiet
<1>6. Respects
  BY <1>1, ScriptRespects DEF Free
<1> QED BY <1>1, <1>2, <1>5, <1>6

LEMMA UpdateFacts ==
  ASSUME MInv, UpdateStep
  PROVE  Tells /\ Respects
<1>1. PICK n \in DOMAIN mem, o \in DOMAIN mem : ApplyUpdate(n, o)
  BY DEF UpdateStep
<1>2. /\ DOMAIN mem' = DOMAIN mem /\ announced' = {n, o} /\ txn' = txn /\ Free({n, o})
      /\ \A r \in DOMAIN mem : r \in {n, o} \/ mem'[r] = mem[r]
  BY <1>1 DEF ApplyUpdate
<1>3. Tells
  BY <1>2 DEF Tells, Quiet
<1> QED BY <1>2, <1>3, ScriptRespects DEF Free

LEMMA UndoFacts ==
  ASSUME MInv, UndoStep
  PROVE  Tells /\ Respects
<1>1. PICK a \in DOMAIN ledger : Revert(a) \/ RollBackUpdate(a)
  BY DEF UndoStep
<1>2. CASE Revert(a)
  <2>1. /\ DOMAIN mem' = DOMAIN mem /\ announced' = {ledger[a].row} /\ txn' = txn
        /\ Free({ledger[a].row})
        /\ \A r \in DOMAIN mem : r = ledger[a].row \/ mem'[r] = mem[r]
    BY <1>2 DEF Revert
  <2>2. Tells
    BY <2>1 DEF Tells, Quiet
  <2> QED BY <2>1, <2>2, ScriptRespects DEF Free
<1>3. CASE RollBackUpdate(a)
  <2> DEFINE n == ledger[a].row
             o == ledger[a].old
  <2>1. /\ DOMAIN mem' = DOMAIN mem /\ announced' = {n, o} /\ txn' = txn /\ Free({n, o})
        /\ \A r \in DOMAIN mem : r \in {n, o} \/ mem'[r] = mem[r]
    BY <1>3 DEF RollBackUpdate
  <2>2. Tells
    BY <2>1 DEF Tells, Quiet
  <2> QED BY <2>1, <2>2, ScriptRespects DEF Free
<1> QED BY <1>1, <1>2, <1>3

LEMMA StepFacts ==
  ASSUME MInv, Locks, [MNext]_mvars
  PROVE  /\ Tells /\ Respects
         /\ \/ Keeps
            \/ UpdateStep \/ UndoStep
            \/ (Demote \/ BackfillReject) /\ \A r \in DOMAIN mem : mem'[r].current => mem[r].current
<1>1. CASE UNCHANGED mvars
  BY <1>1, Steady, ScriptRespects DEF mvars, vars
<1>2. CASE MNext
  BY <1>2, ServiceFacts, ReadingFacts, SweepFacts, BackfillFacts, MarkFacts, FillFacts, RemoveFacts,
          DemoteFacts, UpdateFacts, UndoFacts
     DEF MNext, GovernanceStep, RepairStep
<1> QED BY <1>1, <1>2

\* the types, the locks, and the bound on the rows
SInv == MInv /\ Locks /\ DOMAIN mem \subseteq 1..MaxRecords

LEMMA SInvariance == MSpec => []SInv
<1>1. MInit => SInv
  <2> SUFFICES ASSUME MInit PROVE SInv
    OBVIOUS
  <2>1. MInv
    BY DEF MInit, Init, MInv, Table, Txn, Idle, LocksInTable, NoRows, FoundTyped, LedgerKept,
         SweptTyped, BacklogTyped
  <2> QED BY <2>1 DEF MInit, Init, SInv, Locks, Idle
<1>2. SInv /\ [MNext]_mvars => SInv'
  <2> SUFFICES ASSUME SInv, [MNext]_mvars PROVE SInv'
    OBVIOUS
  <2>1. MInv' /\ Locks'
    BY StepKeepsInv, StepFacts, RespectsKeepsLocks DEF SInv
  <2>2. Len(mem) \in Nat /\ DOMAIN mem = 1..Len(mem) /\ DOMAIN mem \subseteq 1..MaxRecords
    BY RowFacts DEF SInv
  <2>3. DOMAIN mem' \subseteq 1..MaxRecords
    BY <2>2, StepFacts, LifecycleAssumption DEF SInv, Tells
  <2> QED BY <2>1, <2>3 DEF SInv
<1> QED BY <1>1, <1>2, PTL DEF MSpec

-----------------------------------------------------------------------------
\* Whatever is changed unannounced is no longer current, was given a recall
\* policy that withholds it, or the key it lacked: nothing the projection
\* should come to show escapes it.
THEOREM LiveChangesAreTold == MSpec => LiveChangesAreAnnounced
<1>1. SInv /\ [MNext]_mvars =>
        [\A r \in DOMAIN mem' :
           /\ r \notin DOMAIN mem \/ mem'[r] # mem[r]
           /\ mem'[r].current
           => \/ r \in announced'
              \/ /\ r \in DOMAIN backlog
                 /\ mem'[r] = [mem[r] EXCEPT !.meta = mem'[r].meta]
                 /\ mem'[r].meta.withheld
              \/ /\ r \in keyless
                 /\ mem'[r] = [mem[r] EXCEPT !.key = mem'[r].key]
                 /\ mem[r].key = NoKey]_mvars
  BY StepFacts DEF SInv, Tells, Quiet, Marked, Filled
<1> QED BY <1>1, SInvariance, PTL DEF MSpec, LiveChangesAreAnnounced

\* A row taken out of the current set returns only by an auto-update or an
\* undo, whatever the other scripts write back from old reads.
THEOREM DeadRowsStayDead == MSpec => OnlyUndoRevives
<1>1. SInv /\ [MNext]_mvars =>
        [\A r \in DOMAIN mem : mem'[r].current /\ ~mem[r].current => UpdateStep \/ UndoStep]_mvars
  BY StepFacts DEF SInv, Keeps, Orderly
<1> QED BY <1>1, SInvariance, PTL DEF MSpec, OnlyUndoRevives

\* Statuses move along the edges of the services, except by an auto-update, an
\* undo, a repair or the backfill: the sweep and the governance run overrule no
\* decision.
THEOREM DecisionsAreKept == MSpec => DecisionsStand
<1>1. ASSUME Demote PROVE found # NoRows /\ found' = NoRows
  BY <1>1 DEF Demote
<1>2. SInv /\ [MNext]_mvars =>
        [\A r \in DOMAIN mem : mem'[r].status # mem[r].status =>
           \/ <<mem[r].status, mem'[r].status>> \in ServiceEdges
           \/ UpdateStep \/ UndoStep \/ BackfillReject
           \/ found # NoRows /\ found' = NoRows]_mvars
  BY <1>1, StepFacts DEF SInv, Keeps, Orderly
<1> QED BY <1>2, SInvariance, PTL DEF MSpec, DecisionsStand

-----------------------------------------------------------------------------
(* Content and key of a row                                                *)

SameText(m, d) == d.content = m.content /\ d.key = m.key

\* the row says what it said, was and is a candidate under review, or is given
\* the key it lacked
Rewords(m, d) == \/ SameText(m, d)
                 \/ UnderReview(m) /\ UnderReview(d)
                 \/ m.key = NoKey /\ d = [m EXCEPT !.key = d.key]

LEMMA TextKept ==
  ASSUME NEW m \in Record
  PROVE  /\ SameText(m, m)
         /\ \A s, v : SameText(m, WithState(m, s, v))
         /\ \A b : SameText(m, Restored(m, b))
         /\ \A s, v, meta : SameText(m, Decided(m, s, v, meta))
BY DEF SameText, WithState, Restored, Decided, Record

LEMMA Reworded ==
  ASSUME NEW m \in Record, UnderReview(m), NEW e
  PROVE  UnderReview(WithPayload(m, e))
BY DEF UnderReview, WithPayload, Record

LEMMA CreateRewords ==
  ASSUME MInv, NEW w \in Writers, CreateStep(w), NEW r \in DOMAIN mem
  PROVE  Rewords(mem[r], mem'[r])
<1>0. mem \in Seq(Record) /\ DOMAIN mem = 1..Len(mem) /\ Len(mem) \in Nat /\ mem[r] \in Record
  BY RowFacts
<1>1. CASE (\E c \in Commands : BeginCreate(w, c)) \/ SettleReview(w) \/ LookUpKey(w) \/ Replay(w)
  <2>1. mem' = mem
    BY <1>1 DEF BeginCreate, SettleReview, LookUpKey, Replay
  <2> QED BY <2>1 DEF Rewords, SameText
<1>2. CASE UpdateInPlace(w)
  <2>1. PICK i \in DOMAIN mem : UnderReview(mem[i]) /\ mem' = [mem EXCEPT ![i] = WithPayload(mem[i], txn[w].cmd)]
    BY <1>2 DEF UpdateInPlace
  <2>2. mem'[r] = mem[r] \/ (UnderReview(mem[r]) /\ mem'[r] = WithPayload(mem[r], txn[w].cmd))
    BY <2>1
  <2> QED BY <1>0, <2>2, Reworded DEF Rewords, SameText
<1>3. CASE Replace(w)
  <2> DEFINE n == NewRecord(txn[w].cmd, txn[w].review)
             d(i) == WithState(mem[i], "superseded", mem[i].review)
  <2>1. PICK i \in DOMAIN mem : mem' = Append([mem EXCEPT ![i] = d(i)], n)
    BY <1>3 DEF Replace
  <2> HIDE DEF n, d
  <2>2. mem'[r] = mem[r] \/ mem'[r] = d(r)
    BY <1>0, <2>1
  <2> QED BY <1>0, <2>2, TextKept DEF Rewords, d
<1>4. CASE Insert(w)
  <2> DEFINE n == NewRecord(txn[w].cmd, txn[w].review)
  <2>1. mem' = Append(mem, n)
    BY <1>4 DEF Insert
  <2> HIDE DEF n
  <2>2. mem'[r] = mem[r]
    BY <1>0, <2>1
  <2> QED BY <2>2 DEF Rewords, SameText
<1> QED BY <1>1, <1>2, <1>3, <1>4 DEF CreateStep

LEMMA ReviewRewords ==
  ASSUME MInv, Locks, NEW w \in Writers, ReviewStep(w), NEW r \in DOMAIN mem
  PROVE  Rewords(mem[r], mem'[r])
<1>0. mem \in Seq(Record) /\ DOMAIN mem = 1..Len(mem) /\ Len(mem) \in Nat /\ mem[r] \in Record
  BY RowFacts
<1>1. CASE \E kind \in Operations, i \in DOMAIN mem : BeginReview(w, kind, i)
  BY <1>1 DEF BeginReview, Rewords, SameText
<1>2. ASSUME NEW kind, NEW status, NEW review, SetState(w, kind, status, review)
      PROVE  Rewords(mem[r], mem'[r])
  <2>1. mem'[r] = mem[r] \/ mem'[r] = WithState(mem[r], status, review)
    BY <1>2 DEF SetState
  <2> QED BY <1>0, <2>1, TextKept DEF Rewords
<1>3. CASE Approve(w) \/ Reject(w) \/ Archive(w) \/ Tombstone(w)
  BY <1>2, <1>3 DEF Approve, Reject, Archive, Tombstone
<1>4. ASSUME NEW e \in Edits, Supersede(w, e)
      PROVE  Rewords(mem[r], mem'[r])
  <2> DEFINE i == txn[w].row
             n == NextVersion(i, e)
             d == WithState(mem[i], "superseded", mem[i].review)
  <2>1. mem' = Append([mem EXCEPT ![i] = d], n)
    BY <1>4 DEF Supersede
  <2> HIDE DEF n, d
  <2>2. mem'[r] = mem[r] \/ (r = i /\ mem'[r] = d)
    BY <1>0, <2>1
  <2>3. r = i => SameText(mem[r], d)
    BY <1>0, TextKept DEF d
  <2> QED BY <1>0, <2>2, <2>3, TextKept DEF Rewords
<1>5. ASSUME NEW e \in Edits, UpdateCandidate(w, e)
      PROVE  Rewords(mem[r], mem'[r])
  <2>1. Passed("update", mem[txn[w].row]) /\ mem' = [mem EXCEPT ![txn[w].row] = WithPayload(mem[txn[w].row], e)]
    BY <1>5, Held DEF UpdateCandidate
  <2>2. mem'[r] = mem[r] \/ (UnderReview(mem[r]) /\ mem'[r] = WithPayload(mem[r], e))
    BY <2>1 DEF Passed
  <2> QED BY <1>0, <2>2, Reworded DEF Rewords, SameText
<1> QED BY <1>1, <1>3, <1>4, <1>5 DEF ReviewStep

LEMMA ScriptRewords ==
  ASSUME MInv, NEW r \in DOMAIN mem,
         \/ Sweep \/ Consolidate \/ CloseReviews \/ Demote \/ UpdateStep \/ UndoStep
         \/ BackfillReject \/ BackfillMark \/ FillKeys \/ BackfillProvenance
         \/ \E t \in targets : Remove(t)
  PROVE  Rewords(mem[r], mem'[r])
<1>0. mem[r] \in Record
  BY RowFacts
<1>1. ASSUME NEW s, NEW v, mem'[r] \in {mem[r], WithState(mem[r], s, v)}
      PROVE  Rewords(mem[r], mem'[r])
  BY <1>0, <1>1, TextKept DEF Rewords
<1>2. CASE Sweep
  <2>1. \/ mem'[r] = mem[r]
        \/ \E meta : \/ mem'[r] = Decided(mem[r], "approved", "silent_approved", meta)
                     \/ mem'[r] = Decided(mem[r], "rejected", "rejected", meta)
    BY <1>2, SweptRows
  <2> QED BY <1>0, <2>1, TextKept DEF Rewords
<1>3. CASE Consolidate
  <2>1. mem'[r] \in {mem[r], WithState(mem[r], "archived", mem[r].review)}
    BY <1>3 DEF Consolidate
  <2> QED BY <1>1, <2>1
<1>4. CASE CloseReviews
  <2>1. mem'[r] \in {mem[r], [mem[r] EXCEPT !.review = "rejected"]}
    BY <1>4 DEF CloseReviews
  <2> QED BY <1>0, <2>1 DEF Rewords, SameText, Record
<1>5. CASE BackfillReject
  <2>1. mem'[r] = mem[r] \/ \E meta : mem'[r] = Decided(mem[r], "rejected", "rejected", meta)
    BY <1>5 DEF BackfillReject, Decided
  <2> QED BY <1>0, <2>1, TextKept DEF Rewords
<1>6. CASE Demote
  <2>1. PICK s : mem'[r] \in {mem[r], [mem[r] EXCEPT !.status = s, !.current = FALSE]}
    BY <1>6 DEF Demote
  <2> QED BY <1>0, <2>1 DEF Rewords, SameText, Record
<1>7. CASE UpdateStep
  <2>1. PICK n \in DOMAIN mem, o \in DOMAIN mem : ApplyUpdate(n, o)
    BY <1>7 DEF UpdateStep
  <2>2. PICK status \in {"superseded", "archived"} :
          mem' = [mem EXCEPT ![o] = WithState(mem[o], status, mem[o].review),
                             ![n] = WithState(mem[n], "approved", "silent_approved")]
    BY <2>1 DEF ApplyUpdate
  <2>3. \/ mem'[r] \in {mem[r], WithState(mem[r], "approved", "silent_approved")}
        \/ mem'[r] \in {mem[r], WithState(mem[r], status, mem[r].review)}
    BY <2>2
  <2> QED BY <1>1, <2>3
<1>8. ASSUME NEW a \in DOMAIN ledger, Revert(a)
      PROVE  Rewords(mem[r], mem'[r])
  <2>1. mem'[r] \in {mem[r], Restored(mem[r], ledger[a].before)}
    BY <1>8 DEF Revert
  <2> QED BY <1>0, <2>1, TextKept DEF Rewords
<1>9. ASSUME NEW a \in DOMAIN ledger, RollBackUpdate(a)
      PROVE  Rewords(mem[r], mem'[r])
  <2> DEFINE n == ledger[a].row
             o == ledger[a].old
  <2>1. PICK review : mem' = [mem EXCEPT ![o] = WithState(mem[o], "approved", review),
                                         ![n] = WithState(mem[n], "tombstone", mem[n].review)]
    BY <1>9 DEF RollBackUpdate
  <2>2. \/ mem'[r] \in {mem[r], WithState(mem[r], "approved", review)}
        \/ mem'[r] \in {mem[r], WithState(mem[r], "tombstone", mem[r].review)}
    BY <2>1, LedgerEntry DEF RollBackUpdate
  <2> QED BY <1>1, <2>2
<1>10. ASSUME NEW t \in targets, Remove(t)
       PROVE  Rewords(mem[r], mem'[r])
  <2>1. mem'[r] \in {mem[r], WithState(mem[r], Removed(t.kind), mem[r].review)}
    BY <1>10 DEF Remove
  <2> QED BY <1>1, <2>1
<1>11. CASE BackfillMark
  <2>1. \E meta : mem'[r] \in {mem[r], [mem[r] EXCEPT !.meta = meta]}
    BY <1>11 DEF BackfillMark
  <2> QED BY <1>0, <2>1 DEF Rewords, SameText, Record
<1>12. CASE FillKeys \/ BackfillProvenance
  <2>1. mem'[r] = mem[r] \/ \E key : mem'[r] = KeyFilled(mem[r], key)
    BY <1>12 DEF FillKeys, BackfillProvenance
  <2> QED BY <1>0, <2>1, FillsKey DEF Rewords, SameText
<1> QED
  BY <1>2, <1>3, <1>4, <1>5, <1>6, <1>7, <1>8, <1>9, <1>10, <1>11, <1>12 DEF UndoStep

LEMMA StepRewords ==
  ASSUME MInv, Locks, MNext, NEW r \in DOMAIN mem
  PROVE  Rewords(mem[r], mem'[r])
<1>1. CASE UNCHANGED mem
  BY <1>1 DEF Rewords, SameText
<1>2. \/ UNCHANGED mem
      \/ \E w \in Writers : CreateStep(w) \/ ReviewStep(w)
      \/ Sweep \/ Consolidate \/ CloseReviews \/ Demote \/ UpdateStep \/ UndoStep
      \/ BackfillReject \/ BackfillMark \/ FillKeys \/ BackfillProvenance
      \/ \E t \in targets : Remove(t)
  <2>1. CASE Next
    BY <2>1 DEF Next, Rollback, Freeze, Thaw
  <2>2. CASE ~Next
    BY <2>2 DEF MNext, GovernanceStep, RepairStep, ReadCandidates, ReadBacklog, BackfillStops,
                ReadKeyless, DebtPlanStops, ReadTargets, RecordAction, GovernanceStops, SkipTarget, FindDuplicates, ReadStatus, RepairStops
  <2> QED BY <2>1, <2>2
<1> QED BY <1>1, <1>2, CreateRewords, ReviewRewords, ScriptRewords

\* Content and key of a row are fixed once a reviewer has decided on it, among
\* any scripts: what they write back from old reads is never a content, and a
\* key only where there was none.
THEOREM DecisionsFixContentAmongScripts == MSpec => DecidedTextStays
<1>1. SInv /\ [MNext]_mvars =>
        [\A r \in DOMAIN mem :
           mem'[r].content # mem[r].content \/ mem'[r].key # mem[r].key =>
             \/ UnderReview(mem[r]) /\ UnderReview(mem[r]')
             \/ mem[r].key = NoKey /\ mem'[r] = [mem[r] EXCEPT !.key = mem'[r].key]]_mvars
  <2> SUFFICES ASSUME SInv, MNext, NEW r \in DOMAIN mem,
                      mem'[r].content # mem[r].content \/ mem'[r].key # mem[r].key
               PROVE  \/ UnderReview(mem[r]) /\ UnderReview(mem'[r])
                      \/ mem[r].key = NoKey /\ mem'[r] = [mem[r] EXCEPT !.key = mem'[r].key]
    BY DEF UnderReview
  <2>1. Rewords(mem[r], mem'[r])
    BY StepRewords DEF SInv
  <2> QED BY <2>1 DEF Rewords, SameText
<1> QED BY <1>1, SInvariance, PTL DEF MSpec, DecidedTextStays

-----------------------------------------------------------------------------
(* The promise to the projection                                           *)

ClassMap == [r \in 1..MaxRecords |-> ClassOf(r)]

\* Services and scripts together implement ProjectedRows: what Qdrant owes a
\* row changes with an outbox row, or by the row being taken out of recall.
THEOREM ProjectionIsTold == MSpec => RowsAreAnnounced
<1>1. MInit => Rows!RowsInit
  BY DEF MInit, Init, Rows!RowsInit, ClassOf
<1>2. SInv /\ SInv' /\ [MNext]_mvars => [Rows!RowsChange]_<<ClassMap, announced>>
  <2> SUFFICES ASSUME SInv, SInv', [MNext]_mvars PROVE Rows!RowsChange
    OBVIOUS
  <2>1. Tells
    BY StepFacts DEF SInv
  <2>2. /\ DOMAIN mem = 1..Len(mem) /\ Len(mem) \in Nat /\ DOMAIN mem \subseteq 1..MaxRecords
        /\ DOMAIN mem' \subseteq 1..MaxRecords /\ announced' \subseteq DOMAIN mem'
        /\ \A r \in DOMAIN mem : mem[r] \in Record
    BY RowFacts DEF SInv, MInv
  <2>3. \A r \in 1..MaxRecords : ClassMap[r] = ClassOf(r) /\ ClassMap'[r] = ClassOf(r)'
    BY DEF ClassMap
  <2>4. ASSUME NEW r \in 1..MaxRecords
        PROVE  /\ ClassOf(r)' \in Rows!Class
               /\ ClassOf(r)' = "absent" => ClassOf(r) = "absent"
               /\ \/ r \in announced' \/ ClassOf(r)' = ClassOf(r)
                  \/ ClassOf(r) # "absent" /\ ClassOf(r)' \in {"gone", "held"}
    <3>1. CASE r \notin DOMAIN mem'
      BY <2>1, <3>1 DEF Tells, ClassOf, Rows!Class
    <3>2. CASE r \in DOMAIN mem' /\ r \notin DOMAIN mem
      <4>1. mem'[r].status \in {"candidate", "approved"} /\ r \in announced'
        BY <2>1, <3>2 DEF Tells
      <4> QED BY <3>2, <4>1 DEF ClassOf, Rows!Class
    <3>3. CASE r \in DOMAIN mem
      <4>1. r \in DOMAIN mem'
        BY <2>1, <3>3 DEF Tells
      <4>2. ClassOf(r)' \in {"held", "live", "gone"} /\ ClassOf(r) \in {"held", "live", "gone"}
        BY <3>3, <4>1 DEF ClassOf
      <4>3. mem'[r] = mem[r] => ClassOf(r)' = ClassOf(r)
        BY <3>3, <4>1 DEF ClassOf, Recallable
      <4>4. ~mem'[r].current => ClassOf(r)' \in {"gone", "held"}
        BY <3>3, <4>1 DEF ClassOf, Recallable
      <4>5. Marked(r) => ClassOf(r)' \in {"gone", "held"}
        BY <4>1, <4>2 DEF Marked, ClassOf, Recallable
      <4>6. Filled(r) => ClassOf(r)' = ClassOf(r)
        BY <2>2, <3>3, <4>1 DEF Filled, ClassOf, Recallable, Record
      <4> QED BY <2>1, <3>3, <4>2, <4>3, <4>4, <4>5, <4>6 DEF Tells, Quiet, Rows!Class
    <3> QED BY <3>1, <3>2, <3>3
  <2>5. Rows!Allowed(ClassMap, ClassMap', announced')
    BY <2>3, <2>4 DEF Rows!Allowed
  <2>6. ClassMap' \in [1..MaxRecords -> Rows!Class]
    BY <2>4 DEF ClassMap
  <2> QED BY <2>2, <2>5, <2>6 DEF Rows!RowsChange, ClassMap
<1> QED BY <1>1, <1>2, SInvariance, PTL DEF MSpec, RowsAreAnnounced, Rows!RowsSpec, ClassMap

-----------------------------------------------------------------------------
(* What an archive leaves to be undone                                     *)
(*                                                                         *)
(* A row that came in without a review never is under one: of the review   *)
(* states it has had, those that a script holds included, none is pending  *)
(* or approved if one is not_required (Unmixed).                           *)

Families == {Review \ {"not_required"}, Review \ {"pending", "approved"}}

\* the review state of row r, and those it had when a script read it, are in F
Within(r, F) ==
  /\ mem[r].review \in F
  /\ \A t \in targets : t.row = r => t.before.review \in F
  /\ made # NoAction /\ made.row = r => made.before.review \in F
  /\ \A a \in DOMAIN ledger :
       ledger[a].kind \in {"archive", "tombstone"} /\ ledger[a].row = r => ledger[a].before.review \in F

Unmixed == \A r \in DOMAIN mem : \E F \in Families : Within(r, F)

\* what the governance run reads of the rows it will archive
Fit(s) == s.status = "approved" /\ s.current = TRUE /\ s.review \in {"approved", "not_required"}

Undoable(a) ==
  a.kind = "archive" =>
    /\ a.before.status = a.replaced.status
    /\ a.before.current = a.replaced.current
    /\ a.before.review = a.replaced.review \/ a.replaced.review = "silent_approved"

AInv ==
  /\ Unmixed
  /\ \A t \in targets : t.kind = "archive" => Fit(t.before)
  /\ Undoable(made)
  /\ \A a \in DOMAIN ledger : Undoable(ledger[a])

\* the review state of a row that becomes d: a candidate is approved, a script
\* sets silent_approved or rejected, and a revert restores what it once read
Reviews(r, d) ==
  \/ d.review \in {mem[r].review, "silent_approved", "rejected"}
  \/ mem[r].review = "pending" /\ d.review = "approved"
  \/ \E a \in DOMAIN ledger : /\ ledger[a].kind \in {"archive", "tombstone"} /\ ledger[a].row = r
                              /\ d.review = ledger[a].before.review

LEMMA FamilyKept ==
  ASSUME MInv, NEW r \in DOMAIN mem, NEW F \in Families, Within(r, F), NEW d, Reviews(r, d)
  PROVE  d.review \in F
<1>1. /\ "silent_approved" \in F /\ "rejected" \in F /\ ("pending" \in F => "approved" \in F)
      /\ mem[r].review \in F
  BY DEF Families, Review, Accepted, Within
<1> QED BY <1>1 DEF Reviews, Within

LEMMA ServiceReviews ==
  ASSUME MInv, Locks, Next, NEW r \in DOMAIN mem
  PROVE  Reviews(r, mem'[r])
<1>0. mem \in Seq(Record) /\ DOMAIN mem = 1..Len(mem) /\ Len(mem) \in Nat /\ mem[r] \in Record
  BY RowFacts
<1>1. \A m \in Record : \A e : WithPayload(m, e).review = m.review
  BY DEF WithPayload, Record
<1>2. \A m \in Record : \A s, v : WithState(m, s, v).review = v
  BY DEF WithState, Record
<1>3. ASSUME NEW w \in Writers, CreateStep(w) PROVE Reviews(r, mem'[r])
  <2>1. CASE (\E c \in Commands : BeginCreate(w, c)) \/ SettleReview(w) \/ LookUpKey(w) \/ Replay(w)
    BY <2>1 DEF BeginCreate, SettleReview, LookUpKey, Replay, Reviews
  <2>2. CASE UpdateInPlace(w)
    <3>1. mem'[r] = mem[r] \/ \E e : mem'[r] = WithPayload(mem[r], e)
      BY <2>2 DEF UpdateInPlace
    <3> QED BY <1>0, <1>1, <3>1 DEF Reviews
  <2>3. CASE Replace(w)
    <3> DEFINE n == NewRecord(txn[w].cmd, txn[w].review)
               d(i) == WithState(mem[i], "superseded", mem[i].review)
    <3>1. PICK i \in DOMAIN mem : mem' = Append([mem EXCEPT ![i] = d(i)], n)
      BY <2>3 DEF Replace
    <3> HIDE DEF n, d
    <3>2. mem'[r] = mem[r] \/ mem'[r] = d(r)
      BY <1>0, <3>1
    <3> QED BY <1>0, <1>2, <3>2 DEF Reviews, d
  <2>4. CASE Insert(w)
    <3> DEFINE n == NewRecord(txn[w].cmd, txn[w].review)
    <3>1. mem' = Append(mem, n)
      BY <2>4 DEF Insert
    <3> HIDE DEF n
    <3>2. mem'[r] = mem[r]
      BY <1>0, <3>1
    <3> QED BY <3>2 DEF Reviews
  <2> QED BY <1>3, <2>1, <2>2, <2>3, <2>4 DEF CreateStep
<1>4. ASSUME NEW w \in Writers, ReviewStep(w) PROVE Reviews(r, mem'[r])
  <2>1. CASE \E kind \in Operations, i \in DOMAIN mem : BeginReview(w, kind, i)
    BY <2>1 DEF BeginReview, Reviews
  <2>2. CASE Approve(w)
    <3>1. Passed("approve", mem[txn[w].row]) /\ txn[w].row \in DOMAIN mem
      BY <2>2, Held DEF Approve, SetState
    <3>2. mem'[r] = mem[r] \/ (r = txn[w].row /\ mem'[r] = WithState(mem[r], "approved", "approved"))
      BY <2>2, <3>1 DEF Approve, SetState
    <3>3. CASE mem'[r] = mem[r]
      BY <3>3 DEF Reviews
    <3>4. CASE r = txn[w].row /\ mem'[r] = WithState(mem[r], "approved", "approved")
      <4>1. mem[r].review = "pending" /\ mem'[r].review = "approved"
        BY <1>0, <1>2, <3>1, <3>4 DEF Passed, UnderReview
      <4> QED BY <4>1 DEF Reviews
    <3> QED BY <3>2, <3>3, <3>4
  <2>3. CASE Reject(w)
    <3>1. mem'[r] = mem[r] \/ mem'[r] = WithState(mem[r], "rejected", "rejected")
      BY <2>3 DEF Reject, SetState
    <3> QED BY <1>0, <1>2, <3>1 DEF Reviews
  <2>4. CASE Archive(w) \/ Tombstone(w)
    <3>1. mem'[r] = mem[r] \/ \E s : mem'[r] = WithState(mem[r], s, mem[r].review)
      BY <2>4 DEF Archive, Tombstone, SetState
    <3> QED BY <1>0, <1>2, <3>1 DEF Reviews
  <2>5. ASSUME NEW e \in Edits, Supersede(w, e) PROVE Reviews(r, mem'[r])
    <3> DEFINE i == txn[w].row
               n == NextVersion(i, e)
               d == WithState(mem[i], "superseded", mem[i].review)
    <3>1. mem' = Append([mem EXCEPT ![i] = d], n)
      BY <2>5 DEF Supersede
    <3> HIDE DEF n, d
    <3>2. mem'[r] = mem[r] \/ (r = i /\ mem'[r] = d)
      BY <1>0, <3>1
    <3>3. r = i => d.review = mem[r].review
      BY <1>0, <1>2 DEF d
    <3> QED BY <3>2, <3>3 DEF Reviews
  <2>6. ASSUME NEW e \in Edits, UpdateCandidate(w, e) PROVE Reviews(r, mem'[r])
    <3>1. mem'[r] = mem[r] \/ mem'[r] = WithPayload(mem[r], e)
      BY <2>6 DEF UpdateCandidate
    <3> QED BY <1>0, <1>1, <3>1 DEF Reviews
  <2> QED BY <1>4, <2>1, <2>2, <2>3, <2>4, <2>5, <2>6 DEF ReviewStep
<1>5. CASE UNCHANGED mem
  BY <1>5 DEF Reviews
<1> QED BY <1>3, <1>4, <1>5 DEF Next, Rollback, Freeze, Thaw

LEMMA ScriptReviews ==
  ASSUME MInv, NEW r \in DOMAIN mem,
         \/ Sweep \/ Consolidate \/ CloseReviews \/ Demote \/ UpdateStep \/ UndoStep
         \/ BackfillReject \/ BackfillMark \/ FillKeys \/ BackfillProvenance
         \/ \E t \in targets : Remove(t)
  PROVE  Reviews(r, mem'[r])
<1>0. mem[r] \in Record
  BY RowFacts
<1>1. \A s, v : WithState(mem[r], s, v).review = v
  BY <1>0 DEF WithState, Record
<1>2. CASE Sweep \/ BackfillReject
  <2>1. \/ mem'[r] = mem[r]
        \/ \E meta : \/ mem'[r] = Decided(mem[r], "approved", "silent_approved", meta)
                     \/ mem'[r] = Decided(mem[r], "rejected", "rejected", meta)
    BY <1>2, SweptRows DEF BackfillReject, Decided
  <2> QED BY <1>0, <2>1, DecidedFields DEF Reviews
<1>3. CASE Consolidate \/ \E t \in targets : Remove(t)
  <2>1. mem'[r] = mem[r] \/ \E s : mem'[r] = WithState(mem[r], s, mem[r].review)
    BY <1>3 DEF Consolidate, Remove
  <2> QED BY <1>1, <2>1 DEF Reviews
<1>4. CASE CloseReviews
  <2>1. mem'[r] \in {mem[r], [mem[r] EXCEPT !.review = "rejected"]}
    BY <1>4 DEF CloseReviews
  <2> QED BY <1>0, <2>1 DEF Reviews, Record
<1>5. CASE Demote
  <2>1. PICK s : mem'[r] \in {mem[r], [mem[r] EXCEPT !.status = s, !.current = FALSE]}
    BY <1>5 DEF Demote
  <2> QED BY <1>0, <2>1 DEF Reviews, Record
<1>6. CASE UpdateStep
  <2>1. PICK n \in DOMAIN mem, o \in DOMAIN mem : ApplyUpdate(n, o)
    BY <1>6 DEF UpdateStep
  <2>2. PICK status \in {"superseded", "archived"} :
          mem' = [mem EXCEPT ![o] = WithState(mem[o], status, mem[o].review),
                             ![n] = WithState(mem[n], "approved", "silent_approved")]
    BY <2>1 DEF ApplyUpdate
  <2>3. \/ mem'[r] \in {mem[r], WithState(mem[r], "approved", "silent_approved")}
        \/ mem'[r] \in {mem[r], WithState(mem[r], status, mem[r].review)}
    BY <2>2
  <2> QED BY <1>1, <2>3 DEF Reviews
<1>7. ASSUME NEW a \in DOMAIN ledger, Revert(a)
      PROVE  Reviews(r, mem'[r])
  <2>1. /\ ledger[a].kind \in {"archive", "tombstone"}
        /\ mem'[r] = mem[r] \/ (r = ledger[a].row /\ mem'[r] = Restored(mem[r], ledger[a].before))
    BY <1>7 DEF Revert
  <2>2. Restored(mem[r], ledger[a].before).review = ledger[a].before.review
    BY <1>0 DEF Restored, Record
  <2> QED BY <2>1, <2>2 DEF Reviews
<1>8. ASSUME NEW a \in DOMAIN ledger, RollBackUpdate(a)
      PROVE  Reviews(r, mem'[r])
  <2> DEFINE n == ledger[a].row
             o == ledger[a].old
             review == IF mem[o].review = "pending" THEN "silent_approved" ELSE mem[o].review
  <2>1. mem' = [mem EXCEPT ![o] = WithState(mem[o], "approved", review),
                           ![n] = WithState(mem[n], "tombstone", mem[n].review)]
    BY <1>8 DEF RollBackUpdate
  <2> HIDE DEF review
  <2>2. \/ mem'[r] = mem[r]
        \/ r = o /\ mem'[r] = WithState(mem[r], "approved", review)
        \/ mem'[r] = WithState(mem[r], "tombstone", mem[r].review)
    BY <2>1
  <2>3. r = o => review \in {mem[r].review, "silent_approved"}
    BY DEF review
  <2> QED BY <1>1, <2>2, <2>3 DEF Reviews
<1>9. CASE BackfillMark
  <2>1. \E meta : mem'[r] \in {mem[r], [mem[r] EXCEPT !.meta = meta]}
    BY <1>9 DEF BackfillMark
  <2> QED BY <1>0, <2>1 DEF Reviews, Record
<1>10. CASE FillKeys \/ BackfillProvenance
  <2>1. mem'[r] = mem[r] \/ \E key : mem'[r] = KeyFilled(mem[r], key)
    BY <1>10 DEF FillKeys, BackfillProvenance
  <2> QED BY <1>0, <2>1 DEF Reviews, KeyFilled, Record
<1> QED BY <1>2, <1>3, <1>4, <1>5, <1>6, <1>7, <1>8, <1>9, <1>10 DEF UndoStep

LEMMA StepReviews ==
  ASSUME MInv, Locks, [MNext]_mvars, NEW r \in DOMAIN mem
  PROVE  Reviews(r, mem'[r])
<1>1. CASE UNCHANGED mem
  BY <1>1 DEF Reviews
<1>2. \/ UNCHANGED mem \/ Next
      \/ Sweep \/ Consolidate \/ CloseReviews \/ Demote \/ UpdateStep \/ UndoStep
      \/ BackfillReject \/ BackfillMark \/ FillKeys \/ BackfillProvenance
      \/ \E t \in targets : Remove(t)
  BY DEF MNext, mvars, vars, GovernanceStep, RepairStep, ReadCandidates, ReadBacklog, BackfillStops,
         ReadKeyless, DebtPlanStops, ReadTargets, RecordAction, GovernanceStops, SkipTarget,
         FindDuplicates, ReadStatus, RepairStops
<1> QED BY <1>1, <1>2, ServiceReviews, ScriptReviews

-----------------------------------------------------------------------------
(* What the governance run and the undos hold                              *)

\* u was read of its row just now
Fresh(u) == /\ u.row \in DOMAIN mem /\ u.before = StateOf(mem[u.row])
            /\ u.kind = "archive" => Fit(u.before)

\* m is what a removal that is not yet recorded becomes from target t
MadeOf(t, m) == /\ m.kind = t.kind /\ m.row = t.row /\ m.before = t.before
                /\ m.replaced = StateOf(mem[t.row])
                /\ t.kind = "archive" => Recallable(mem[t.row])

\* e is entry o of the ledger, perhaps marked as undone
SameEntry(e, o) == /\ e.kind = o.kind
                   /\ e.kind \in {"archive", "tombstone"} =>
                        e.row = o.row /\ e.before = o.before /\ e.replaced = o.replaced

HoldsOn ==
  /\ \A u \in targets' : u \in targets \/ Fresh(u)
  /\ made' = NoAction \/ made' = made \/ \E t \in targets : MadeOf(t, made')
  /\ \A a \in DOMAIN ledger' :
       \/ a \in DOMAIN ledger /\ SameEntry(ledger'[a], ledger[a])
       \/ made # NoAction /\ ledger'[a] = made
       \/ ledger'[a].kind = "update"

LEMMA AppendedEntry ==
  ASSUME MInv, NEW e \in Removal \cup Update, ledger' = Append(ledger, e)
  PROVE  \A a \in DOMAIN ledger' : (a \in DOMAIN ledger /\ ledger'[a] = ledger[a]) \/ ledger'[a] = e
<1>1. ledger \in Seq(Removal \cup Update)
  BY DEF MInv, LedgerKept
<1> QED BY <1>1

LEMMA GovernanceHolds ==
  ASSUME MInv, [MNext]_mvars
  PROVE  HoldsOn
<1>1. CASE UNCHANGED <<targets, made, ledger>>
  BY <1>1 DEF HoldsOn, SameEntry
<1>2. CASE ReadTargets
  <2>1. UNCHANGED <<made, ledger>>
    BY <1>2 DEF ReadTargets
  <2>2. ASSUME NEW u \in targets' PROVE Fresh(u)
    <3>1. PICK r \in DOMAIN mem :
            /\ u.row = r /\ u.before = StateOf(mem[r])
            /\ u.kind = "archive" => Backfillable(mem[r])
      BY <1>2, <2>2 DEF ReadTargets, Losers
    <3> QED BY <3>1, RowFacts DEF Fresh, Fit, Backfillable, StateOf, Record
  <2> QED BY <2>1, <2>2 DEF HoldsOn, SameEntry
<1>3. ASSUME NEW t \in targets, Remove(t) PROVE HoldsOn
  <2>1. /\ UNCHANGED ledger /\ targets' \subseteq targets
        /\ made' = [kind |-> t.kind, row |-> t.row, before |-> t.before,
                    replaced |-> StateOf(mem[t.row]), reverted |-> FALSE]
        /\ MayApply(t.kind, mem[t.row])
    BY <1>3 DEF Remove
  <2>2. MadeOf(t, made')
    BY <2>1 DEF MadeOf, MayApply
  <2> QED BY <2>1, <2>2 DEF HoldsOn, SameEntry
<1>4. CASE RecordAction
  <2>1. UNCHANGED targets /\ made' = NoAction /\ ledger' = Append(ledger, made) /\ made # NoAction
    BY <1>4 DEF RecordAction
  <2>2. made \in Removal \cup Update
    BY <2>1 DEF MInv
  <2> QED BY <2>1, <2>2, AppendedEntry DEF HoldsOn, SameEntry
<1>5. CASE GovernanceStops \/ \E t \in targets : SkipTarget(t)
  BY <1>5 DEF GovernanceStops, SkipTarget, HoldsOn, SameEntry
<1>6. ASSUME NEW n \in DOMAIN mem, NEW o \in DOMAIN mem, ApplyUpdate(n, o) PROVE HoldsOn
  <2> DEFINE u == [kind |-> "update", row |-> n, old |-> o, reverted |-> FALSE]
  <2>1. UNCHANGED <<targets, made>> /\ ledger' = Append(ledger, u)
    BY <1>6 DEF ApplyUpdate
  <2>2. u \in Removal \cup Update /\ u.kind = "update"
    BY RowFacts DEF Update
  <2> HIDE DEF u
  <2> QED BY <2>1, <2>2, AppendedEntry DEF HoldsOn, SameEntry
<1>7. ASSUME NEW a \in DOMAIN ledger, Revert(a) \/ RollBackUpdate(a) PROVE HoldsOn
  <2>1. UNCHANGED <<targets, made>> /\ ledger' = [ledger EXCEPT ![a].reverted = TRUE]
    BY <1>7 DEF Revert, RollBackUpdate
  <2>2. ledger[a] \in Removal \cup Update
    BY LedgerEntry
  <2>3. \A b \in DOMAIN ledger' : b \in DOMAIN ledger /\ SameEntry(ledger'[b], ledger[b])
    BY <2>1, <2>2 DEF SameEntry, Removal, Update
  <2> QED BY <2>1, <2>3 DEF HoldsOn
<1>8. \/ UNCHANGED <<targets, made, ledger>>
      \/ ReadTargets \/ RecordAction \/ GovernanceStops \/ \E t \in targets : Remove(t) \/ SkipTarget(t)
      \/ UpdateStep \/ UndoStep
  BY DEF MNext, mvars, tools, ReadCandidates, Sweep, Consolidate, RepairStep, FindDuplicates,
         ReadStatus, Demote, RepairStops, ReadBacklog, BackfillReject, BackfillMark, BackfillStops,
         ReadKeyless, FillKeys, DebtPlanStops, CloseReviews, GovernanceStep, BackfillProvenance
<1> QED BY <1>1, <1>2, <1>3, <1>4, <1>5, <1>6, <1>7, <1>8 DEF UpdateStep, UndoStep

LEMMA UnmixedKept ==
  ASSUME MInv, MInv', Locks, Unmixed, [MNext]_mvars
  PROVE  Unmixed'
<1>1. HoldsOn
  BY GovernanceHolds
<1>2. ASSUME NEW r \in DOMAIN mem', r \in DOMAIN mem
      PROVE  \E F \in Families : Within(r, F)'
  <2>1. PICK F \in Families : Within(r, F)
    BY <1>2 DEF Unmixed
  <2>2. mem'[r].review \in F
    BY <1>2, <2>1, StepReviews, FamilyKept
  <2>3. \A t \in targets' : t.row = r => t.before.review \in F
    <3>1. ASSUME NEW t \in targets', t.row = r PROVE t.before.review \in F
      <4>1. CASE t \in targets
        BY <2>1, <3>1, <4>1 DEF Within
      <4>2. CASE Fresh(t)
        <5>1. t.before.review = mem[r].review
          BY <3>1, <4>2 DEF Fresh, StateOf
        <5> QED BY <2>1, <5>1 DEF Within
      <4> QED BY <1>1, <4>1, <4>2 DEF HoldsOn
    <3> QED BY <3>1
  <2>4. made' # NoAction /\ made'.row = r => made'.before.review \in F
    BY <1>1, <2>1 DEF HoldsOn, MadeOf, Within
  <2>5. \A a \in DOMAIN ledger' :
          ledger'[a].kind \in {"archive", "tombstone"} /\ ledger'[a].row = r => ledger'[a].before.review \in F
    BY <1>1, <2>1 DEF HoldsOn, SameEntry, Within
  <2> QED BY <2>2, <2>3, <2>4, <2>5 DEF Within
<1>3. ASSUME NEW r \in DOMAIN mem', r \notin DOMAIN mem
      PROVE  \E F \in Families : Within(r, F)'
  <2>1. mem'[r].review \in Review
    BY <1>3 DEF MInv, Table, Good, Record
  <2>2. PICK F \in Families : mem'[r].review \in F
    BY <2>1 DEF Families, Review, Accepted
  <2>3. /\ \A t \in targets : t.row # r
        /\ made # NoAction => made.row # r
        /\ \A a \in DOMAIN ledger : ledger[a].row # r
    BY <1>3 DEF MInv, Kept, LedgerKept
  <2>4. \A t \in targets' : t.row # r
    BY <1>1, <1>3, <2>3 DEF HoldsOn, Fresh
  <2>5. made' # NoAction => made'.row # r
    BY <1>1, <2>3 DEF HoldsOn, MadeOf
  <2>6. \A a \in DOMAIN ledger' : ledger'[a].kind \in {"archive", "tombstone"} => ledger'[a].row # r
    BY <1>1, <2>3 DEF HoldsOn, SameEntry
  <2> QED BY <2>2, <2>4, <2>5, <2>6 DEF Within
<1> QED BY <1>2, <1>3 DEF Unmixed

\* What a revert of an archive restores is what the archive replaced, but for
\* the review state of a row an auto-update has put in the place of another.
THEOREM ArchivesCanBeUndone == MSpec => []ArchivesUndoAllButUpdates
<1>1. MInit => AInv
  BY DEF MInit, Init, AInv, Unmixed, Undoable, NoAction
<1>2. SInv /\ SInv' /\ AInv /\ [MNext]_mvars => AInv'
  <2> SUFFICES ASSUME SInv, SInv', AInv, [MNext]_mvars PROVE AInv'
    OBVIOUS
  <2>1. HoldsOn
    BY GovernanceHolds DEF SInv
  <2>2. Unmixed'
    BY UnmixedKept DEF SInv, AInv
  <2>3. \A t \in targets' : t.kind = "archive" => Fit(t.before)
    BY <2>1 DEF HoldsOn, Fresh, AInv
  <2>4. Undoable(made')
    <3>1. ASSUME NEW t \in targets, MadeOf(t, made'), made'.kind = "archive"
          PROVE  Undoable(made')
      <4>0. t.kind = "archive"
        BY <3>1 DEF MadeOf
      <4>1. t.row \in DOMAIN mem /\ mem[t.row] \in Record
        BY RowFacts DEF SInv, MInv, Kept
      <4>2. PICK F \in Families : Within(t.row, F)
        BY <4>1 DEF AInv, Unmixed
      <4>3. mem[t.row].review \in F /\ t.before.review \in F
        BY <4>2 DEF Within
      <4>4. Fit(t.before) /\ Recallable(mem[t.row])
        BY <3>1, <4>0 DEF MadeOf, AInv
      <4>5. \/ t.before.review = mem[t.row].review
            \/ mem[t.row].review = "silent_approved"
        BY <4>3, <4>4 DEF Families, Fit, Recallable, Accepted
      <4>6. made'.before = t.before /\ made'.replaced = StateOf(mem[t.row])
        BY <3>1 DEF MadeOf
      <4>7. /\ made'.replaced.status = "approved" /\ made'.replaced.current = TRUE
            /\ made'.replaced.review = mem[t.row].review
        BY <4>1, <4>4, <4>6 DEF Recallable, StateOf, Record
      <4> QED BY <4>4, <4>5, <4>6, <4>7 DEF Undoable, Fit
    <3> QED BY <2>1, <3>1 DEF HoldsOn, AInv, Undoable, NoAction
  <2>5. \A a \in DOMAIN ledger' : Undoable(ledger'[a])
    BY <2>1 DEF HoldsOn, SameEntry, AInv, Undoable
  <2>6. Undoable(made)' /\ (\A a \in DOMAIN ledger : Undoable(ledger[a]))'
    BY <2>4, <2>5 DEF Undoable
  <2> QED BY <2>2, <2>3, <2>6 DEF AInv, Fit
<1>3. AInv => ArchivesUndoAllButUpdates
  BY DEF AInv, Undoable, ArchivesUndoAllButUpdates
<1> QED BY <1>1, <1>2, <1>3, SInvariance, PTL DEF MSpec
=============================================================================
