------------------------- MODULE MemoryLifecycleProofs -------------------------
(***************************************************************************)
(* Proofs about MemoryLifecycle, for any number of transactions, rows,     *)
(* commands and freezes.                                                   *)
(*                                                                         *)
(* A step does one of four things to the rows (Shape): nothing, a legal    *)
(* change of one row, an insertion, or both. That the change is legal is   *)
(* what the row locks are for: the row a review has locked is still as its *)
(* checks found it (LocksHold), since nobody else may touch it. And what a *)
(* step changes it announces (Applies). The advisory lock has an invariant *)
(* of its own: no two creates of one scope and key are open (TurnsTaken).  *)
(***************************************************************************)
EXTENDS MemoryLifecycle, TLAPS

Live(m) == m.status \in {"candidate", "approved"}

Chained(s) ==
  /\ \A i, j \in DOMAIN s : s[i].prev = s[j].prev /\ i # j => s[i].prev = 0
  /\ \A i \in DOMAIN s : s[i].prev # 0 =>
       /\ s[i].prev \in 1..(i - 1)
       /\ s[i].version = s[s[i].prev].version + 1
       /\ ~s[s[i].prev].current

Sound(s) ==
  /\ s \in Seq(Record)
  /\ \A i \in DOMAIN s : s[i].current <=> Live(s[i])
  /\ Chained(s)

\* what the checks of BeginReview found, the freeze aside
Fit(kind, m) ==
  /\ kind \in {"approve", "reject", "update"} => UnderReview(m)
  /\ kind \in {"archive", "supersede"} => Recallable(m)
  /\ kind = "tombstone" => m.status # "tombstone"

LocksHold ==
  /\ \A w \in Writers : txn[w].op = "review" =>
       txn[w].row \in DOMAIN mem /\ Fit(txn[w].kind, mem[txn[w].row])
  /\ \A v, w \in Writers : v # w /\ txn[v].op = "review" /\ txn[w].op = "review" =>
       txn[v].row # txn[w].row

TxnTyped == txn \in [Writers -> Txn]

IInv == Sound(mem) /\ TxnTyped /\ LocksHold /\ frozen \subseteq Scopes /\ announced \subseteq 1..Len(mem)

-----------------------------------------------------------------------------
(* The rows *)

\* d may take the place of the row m
Legal(m, d) ==
  /\ d \in Record
  /\ d.prev = m.prev /\ d.version = m.version /\ d.scope = m.scope
  /\ d.current <=> Live(d)
  /\ d.current => m.current
  /\ d.content # m.content \/ d.key # m.key => UnderReview(m) /\ UnderReview(d)
  /\ d.status # m.status => <<m.status, d.status>> \in ServiceEdges

Fresh(d) == d \in Record /\ d.current /\ Live(d) /\ d.prev = 0

\* A legal change of one row keeps the table sound.
LEMMA ChangeIsSound ==
  ASSUME NEW s, Sound(s), NEW r \in DOMAIN s, NEW d, Legal(s[r], d)
  PROVE  Sound([s EXCEPT ![r] = d])
<1> DEFINE t == [s EXCEPT ![r] = d]
<1>1. s \in Seq(Record) /\ DOMAIN s = 1..Len(s) /\ Len(s) \in Nat
  BY DEF Sound
<1>2. t \in Seq(Record) /\ DOMAIN t = DOMAIN s /\ t[r] = d
  BY <1>1 DEF Legal
<1>3. \A i \in DOMAIN s : i # r => t[i] = s[i]
  BY <1>1
<1>4. \A i \in DOMAIN s : t[i].prev = s[i].prev /\ t[i].version = s[i].version
                           /\ (t[i].current => s[i].current)
  BY <1>2, <1>3 DEF Legal
<1>5. \A i \in DOMAIN t : t[i].current <=> Live(t[i])
  BY <1>2, <1>3 DEF Legal, Sound
<1> HIDE DEF t
<1>6. Chained(t)
  <2>1. \A i \in DOMAIN s : s[i].prev # 0 => s[i].prev \in DOMAIN s
    <3> SUFFICES ASSUME NEW i \in DOMAIN s, s[i].prev # 0 PROVE s[i].prev \in DOMAIN s
      OBVIOUS
    <3> QED BY <1>1 DEF Sound, Chained
  <2>2. \A i, j \in DOMAIN t : t[i].prev = t[j].prev /\ i # j => t[i].prev = 0
    BY <1>2, <1>4 DEF Sound, Chained
  <2>3. ASSUME NEW i \in DOMAIN t, t[i].prev # 0
        PROVE  /\ t[i].prev \in 1..(i - 1)
               /\ t[i].version = t[t[i].prev].version + 1
               /\ ~t[t[i].prev].current
    <3>1. s[i].prev \in 1..(i - 1) /\ s[i].version = s[s[i].prev].version + 1 /\ ~s[s[i].prev].current
      BY <1>2, <1>4, <2>3 DEF Sound, Chained
    <3> QED BY <1>2, <1>4, <2>1, <2>3, <3>1
  <2> QED BY <2>2, <2>3 DEF Chained
<1> QED BY <1>2, <1>5, <1>6 DEF Sound, t

\* A new first version keeps the table sound.
LEMMA InsertIsSound ==
  ASSUME NEW s, Sound(s), NEW d, Fresh(d)
  PROVE  Sound(Append(s, d))
<1> DEFINE t == Append(s, d)
<1>1. s \in Seq(Record) /\ DOMAIN s = 1..Len(s) /\ Len(s) \in Nat
  BY DEF Sound
<1>2. t \in Seq(Record) /\ DOMAIN t = 1..(Len(s) + 1) /\ t[Len(s) + 1] = d
  BY <1>1 DEF Fresh
<1>3. \A i \in DOMAIN s : t[i] = s[i] /\ i # Len(s) + 1
  BY <1>1
<1>4. \A i \in DOMAIN t : i \in DOMAIN s \/ i = Len(s) + 1
  BY <1>1, <1>2
<1> HIDE DEF t
<1>5. \A i \in DOMAIN t : t[i].current <=> Live(t[i])
  BY <1>2, <1>3, <1>4 DEF Fresh, Sound
<1>6. Chained(t)
  <2>1. \A i \in DOMAIN s : s[i].prev # 0 => s[i].prev \in DOMAIN s
    <3> SUFFICES ASSUME NEW i \in DOMAIN s, s[i].prev # 0 PROVE s[i].prev \in DOMAIN s
      OBVIOUS
    <3> QED BY <1>1 DEF Sound, Chained
  <2> QED BY <1>2, <1>3, <1>4, <2>1 DEF Sound, Chained, Fresh
<1> QED BY <1>2, <1>5, <1>6 DEF Sound, t

\* So does the next version of a row that is no longer current and has none.
LEMMA NextVersionIsSound ==
  ASSUME NEW s, Sound(s), NEW r \in DOMAIN s, ~s[r].current,
         \A i \in DOMAIN s : s[i].prev # r,
         NEW d \in Record, d.current, Live(d), d.prev = r, d.version = s[r].version + 1
  PROVE  Sound(Append(s, d))
<1> DEFINE t == Append(s, d)
<1>1. s \in Seq(Record) /\ DOMAIN s = 1..Len(s) /\ Len(s) \in Nat
  BY DEF Sound
<1>2. t \in Seq(Record) /\ DOMAIN t = 1..(Len(s) + 1) /\ t[Len(s) + 1] = d
  BY <1>1
<1>3. \A i \in DOMAIN s : t[i] = s[i] /\ i # Len(s) + 1
  BY <1>1
<1>4. \A i \in DOMAIN t : i \in DOMAIN s \/ i = Len(s) + 1
  BY <1>1, <1>2
<1> HIDE DEF t
<1>5. \A i \in DOMAIN t : t[i].current <=> Live(t[i])
  BY <1>2, <1>3, <1>4 DEF Sound
<1>6. Chained(t)
  <2>1. \A i \in DOMAIN s : s[i].prev # 0 => s[i].prev \in DOMAIN s
    <3> SUFFICES ASSUME NEW i \in DOMAIN s, s[i].prev # 0 PROVE s[i].prev \in DOMAIN s
      OBVIOUS
    <3> QED BY <1>1 DEF Sound, Chained
  <2>2. r \in 1..(Len(s) + 1 - 1)
    BY <1>1
  <2> QED BY <1>2, <1>3, <1>4, <2>1, <2>2 DEF Sound, Chained
<1> QED BY <1>2, <1>5, <1>6 DEF Sound, t

-----------------------------------------------------------------------------
(* The transactions *)

LEMMA TxnFields ==
  ASSUME IInv, NEW w \in Writers
  PROVE  /\ txn[w].op = "create" => /\ txn[w].cmd \in Command
                                    /\ txn[w].review \in Asked
                                    /\ txn[w].phase \in {"source", "settled", "key"}
                                    /\ txn[w].seen \subseteq Nat
         /\ txn[w].op = "review" => txn[w].kind \in Operation /\ txn[w].row \in Nat
         /\ txn[w].op \in {"idle", "create", "review"}
BY DEF IInv, TxnTyped, Txn, Idle

LEMMA TableFields ==
  ASSUME IInv
  PROVE  mem \in Seq(Record) /\ DOMAIN mem = 1..Len(mem) /\ Len(mem) \in Nat
BY DEF IInv, Sound

\* no transaction but w has locked row r for a review
Unlocked(w, r) == \A v \in Writers \ {w} : txn[v].op = "review" => txn[v].row # r

RowsChangeLegally ==
  \A r \in DOMAIN mem : r \in DOMAIN mem' /\ (mem'[r] # mem[r] => Legal(mem[r], mem'[r]))

\* whatever differs between the rows and those of the next state is announced
RowsAreAnnounced ==
  \A r \in DOMAIN mem' : r \notin DOMAIN mem \/ mem'[r] # mem[r] => r \in announced'

\* The transaction of w commits with a sound change of the rows and announces it.
Applies(w) ==
  /\ Sound(mem')
  /\ RowsChangeLegally
  /\ RowsAreAnnounced
  /\ \A v \in Writers \ {w} : txn[v].op = "review" => mem'[txn[v].row] = mem[txn[v].row]
  /\ txn' = [txn EXCEPT ![w] = Idle]
  /\ UNCHANGED frozen
  /\ announced' \subseteq 1..Len(mem')

LEMMA ChangeApplies ==
  ASSUME IInv, NEW w \in Writers, NEW r \in DOMAIN mem, Unlocked(w, r), NEW d, Legal(mem[r], d),
         mem' = [mem EXCEPT ![r] = d], Done(w, {r}), UNCHANGED frozen
  PROVE  Applies(w)
<1>1. mem \in Seq(Record) /\ DOMAIN mem = 1..Len(mem) /\ Len(mem) \in Nat
  BY TableFields
<1>2. Sound(mem')
  BY ChangeIsSound DEF IInv
<1>3. Len(mem') = Len(mem) /\ DOMAIN mem' = DOMAIN mem
  BY <1>1
<1>4. \A i \in DOMAIN mem : i # r => mem'[i] = mem[i]
  BY <1>1
<1>5. RowsChangeLegally
  BY <1>1, <1>3, <1>4 DEF RowsChangeLegally
<1>6. \A v \in Writers \ {w} : txn[v].op = "review" => mem'[txn[v].row] = mem[txn[v].row]
  BY <1>4 DEF Unlocked, IInv, LocksHold
<1>7. RowsAreAnnounced
  BY <1>3, <1>4 DEF RowsAreAnnounced, Done
<1> QED BY <1>1, <1>2, <1>3, <1>5, <1>6, <1>7 DEF Applies, Done

LEMMA InsertApplies ==
  ASSUME IInv, NEW w \in Writers, NEW d, Fresh(d),
         mem' = Append(mem, d), Done(w, {Len(mem) + 1}), UNCHANGED frozen
  PROVE  Applies(w)
<1>1. mem \in Seq(Record) /\ DOMAIN mem = 1..Len(mem) /\ Len(mem) \in Nat
  BY TableFields
<1>2. Sound(mem')
  BY InsertIsSound DEF IInv
<1>3. Len(mem') = Len(mem) + 1 /\ DOMAIN mem' = 1..(Len(mem) + 1)
  BY <1>1 DEF Fresh
<1>4. \A i \in DOMAIN mem : mem'[i] = mem[i] /\ i \in DOMAIN mem'
  BY <1>1, <1>3
<1>5. RowsChangeLegally
  BY <1>4 DEF RowsChangeLegally
<1>6. \A v \in Writers \ {w} : txn[v].op = "review" => mem'[txn[v].row] = mem[txn[v].row]
  BY <1>4 DEF IInv, LocksHold
<1>7. announced' \subseteq 1..Len(mem')
  BY <1>1, <1>3 DEF Done
<1>8. RowsAreAnnounced
  BY <1>1, <1>3, <1>4 DEF RowsAreAnnounced, Done
<1> QED BY <1>2, <1>5, <1>6, <1>7, <1>8 DEF Applies, Done

\* Row r leaves the current set and d is inserted, a first version or its next.
LEMMA ReplacementApplies ==
  ASSUME IInv, NEW w \in Writers, NEW r \in DOMAIN mem, Unlocked(w, r),
         NEW o, Legal(mem[r], o), ~o.current, mem[r].current,
         NEW d \in Record, d.current, Live(d),
         d.prev = 0 \/ (d.prev = r /\ d.version = mem[r].version + 1),
         mem' = Append([mem EXCEPT ![r] = o], d), Done(w, {r, Len(mem) + 1}), UNCHANGED frozen
  PROVE  Applies(w)
<1> DEFINE s == [mem EXCEPT ![r] = o]
<1>1. mem \in Seq(Record) /\ DOMAIN mem = 1..Len(mem) /\ Len(mem) \in Nat
  BY TableFields
<1>2. Sound(s)
  BY ChangeIsSound DEF IInv
<1>3. /\ s \in Seq(Record) /\ Len(s) = Len(mem) /\ DOMAIN s = DOMAIN mem /\ s[r] = o
      /\ \A i \in DOMAIN mem : i # r => s[i] = mem[i]
  BY <1>1 DEF Legal
<1>4. mem' = Append(s, d)
  OBVIOUS
<1> HIDE DEF s
<1>5. Sound(mem')
  <2>1. CASE d.prev = 0
    BY <1>2, <1>4, <2>1, InsertIsSound DEF Fresh
  <2>2. CASE d.prev = r /\ d.version = mem[r].version + 1 /\ d.prev # 0
    <3>1. \A i \in DOMAIN mem : mem[i].prev # r
      BY <2>2 DEF IInv, Sound, Chained
    <3>2. \A i \in DOMAIN s : s[i].prev # r
      BY <1>3, <3>1 DEF Legal
    <3>3. ~s[r].current /\ d.version = s[r].version + 1
      BY <1>3, <2>2 DEF Legal
    <3>4. r \in DOMAIN s
      BY <1>3
    <3>5. Sound(Append(s, d))
      BY ONLY <1>2, <2>2, <3>2, <3>3, <3>4, d \in Record, d.current, Live(d), NextVersionIsSound
    <3> QED BY <1>4, <3>5
  <2> QED BY <2>1, <2>2
<1>6. Len(mem') = Len(mem) + 1 /\ DOMAIN mem' = 1..(Len(mem) + 1)
  BY <1>1, <1>3, <1>4
<1>7. mem'[r] = o /\ \A i \in DOMAIN mem : i \in DOMAIN mem' /\ (i # r => mem'[i] = mem[i])
  BY <1>1, <1>3, <1>4, <1>6
<1>8. RowsChangeLegally
  BY <1>7 DEF RowsChangeLegally
<1>9. \A v \in Writers \ {w} : txn[v].op = "review" => mem'[txn[v].row] = mem[txn[v].row]
  BY <1>7 DEF Unlocked, IInv, LocksHold
<1>10. announced' \subseteq 1..Len(mem')
  BY <1>1, <1>6 DEF Done
<1>11. RowsAreAnnounced
  <2>1. \A i \in DOMAIN mem' : i \in DOMAIN mem \/ i = Len(mem) + 1
    BY <1>1, <1>6
  <2> QED BY <1>7, <2>1 DEF RowsAreAnnounced, Done
<1> QED BY <1>5, <1>8, <1>9, <1>10, <1>11 DEF Applies, Done

-----------------------------------------------------------------------------
(* Each step that changes rows changes them legally. *)

LEMMA StateIsLegal ==
  ASSUME NEW m \in Record, NEW status \in Status, NEW review \in Review,
         <<m.status, status>> \in ServiceEdges, status = "approved" => m.current
  PROVE  /\ Legal(m, WithState(m, status, review))
         /\ WithState(m, status, review).current <=> status = "approved"
<1> DEFINE d == WithState(m, status, review)
<1>1. d \in Record /\ d.current = (status = "approved") /\ d.status = status /\ d.key = m.key
        /\ d.content = m.content /\ d.scope = m.scope /\ d.prev = m.prev /\ d.version = m.version
  BY DEF WithState, Record, Status
<1>2. status # "candidate"
  BY DEF ServiceEdges, Status
<1> HIDE DEF d
<1> QED BY <1>1, <1>2 DEF Legal, Live, d

LEMMA PayloadIsLegal ==
  ASSUME NEW m \in Record, UnderReview(m), NEW e,
         e.key \in Keys \cup {NoKey}, e.meta \in Meta, e.content \in Contents
  PROVE  Legal(m, WithPayload(m, e))
<1> DEFINE d == WithPayload(m, e)
<1>1. d \in Record /\ d.current = m.current /\ d.status = m.status /\ d.review = m.review
        /\ d.prev = m.prev /\ d.version = m.version /\ d.scope = m.scope
  BY DEF WithPayload, Record
<1> HIDE DEF d
<1> QED BY <1>1 DEF Legal, Live, UnderReview, d

LEMMA NewRecordIsFresh ==
  ASSUME IInv, NEW w \in Writers, txn[w].op = "create"
  PROVE  Fresh(NewRecord(txn[w].cmd, txn[w].review))
<1>1. txn[w].cmd \in Command /\ txn[w].review \in Asked
  BY TxnFields
<1> QED BY <1>1 DEF Fresh, Live, NewRecord, StatusOf, Record, Command, Status, Asked, Accepted, Review, Meta

LEMMA HitIsUnlocked ==
  ASSUME IInv, NEW w \in Writers, NEW r \in DOMAIN mem, Hit(w, r)
  PROVE  Unlocked(w, r) /\ mem[r].current /\ txn[w].op = "create" /\ mem[r] \in Record
BY TableFields DEF Hit, Locked, Unlocked, SourceMatch, KeyMatch

LEMMA CreateApplies ==
  ASSUME IInv, NEW w \in Writers, UpdateInPlace(w) \/ Replace(w) \/ Insert(w)
  PROVE  Applies(w)
<1>1. CASE UpdateInPlace(w)
  <2>1. PICK r \in DOMAIN mem : /\ Hit(w, r)
                                /\ UnderReview(mem[r])
                                /\ mem' = [mem EXCEPT ![r] = WithPayload(mem[r], txn[w].cmd)]
                                /\ Done(w, {r})
    BY <1>1 DEF UpdateInPlace
  <2>2. Unlocked(w, r) /\ txn[w].op = "create" /\ mem[r] \in Record
    BY <2>1, HitIsUnlocked
  <2>3. txn[w].cmd \in Command
    BY <2>2, TxnFields
  <2>4. Legal(mem[r], WithPayload(mem[r], txn[w].cmd))
    BY <2>1, <2>2, <2>3, PayloadIsLegal DEF Command
  <2>5. UNCHANGED frozen
    BY <1>1 DEF UpdateInPlace
  <2> QED BY <2>1, <2>2, <2>4, <2>5, ChangeApplies
<1>2. CASE Replace(w)
  <2>1. PICK r \in DOMAIN mem :
          /\ Hit(w, r)
          /\ mem[r].status = "approved"
          /\ mem' = Append([mem EXCEPT ![r] = WithState(mem[r], "superseded", mem[r].review)],
                           NewRecord(txn[w].cmd, txn[w].review))
          /\ Done(w, {r, Len(mem) + 1})
    BY <1>2 DEF Replace
  <2>2. Unlocked(w, r) /\ mem[r].current /\ txn[w].op = "create" /\ mem[r] \in Record
    BY <2>1, HitIsUnlocked
  <2>3. Fresh(NewRecord(txn[w].cmd, txn[w].review))
    BY <2>2, NewRecordIsFresh
  <2>4. mem[r].review \in Review
    BY <2>2 DEF Record
  <2>5. /\ Legal(mem[r], WithState(mem[r], "superseded", mem[r].review))
        /\ ~WithState(mem[r], "superseded", mem[r].review).current
    BY <2>1, <2>2, <2>4, StateIsLegal DEF Status, ServiceEdges
  <2>6. UNCHANGED frozen
    BY <1>2 DEF Replace
  <2> QED BY <2>1, <2>2, <2>3, <2>5, <2>6, ReplacementApplies DEF Fresh
<1>3. CASE Insert(w)
  <2>1. mem' = Append(mem, NewRecord(txn[w].cmd, txn[w].review)) /\ Done(w, {Len(mem) + 1})
          /\ UNCHANGED frozen
    BY <1>3 DEF Insert
  <2>2. txn[w].op = "create"
    BY <1>3 DEF Insert, Creating, Hit
  <2> QED BY <2>1, <2>2, NewRecordIsFresh, InsertApplies
<1> QED BY <1>1, <1>2, <1>3

\* what LocksHold says of the row that w has locked
LEMMA LockedRow ==
  ASSUME IInv, NEW w \in Writers, txn[w].op = "review"
  PROVE  /\ txn[w].row \in DOMAIN mem /\ mem[txn[w].row] \in Record
         /\ mem[txn[w].row].review \in Review
         /\ Unlocked(w, txn[w].row)
         /\ Fit(txn[w].kind, mem[txn[w].row])
<1>1. txn[w].row \in DOMAIN mem /\ Fit(txn[w].kind, mem[txn[w].row]) /\ Unlocked(w, txn[w].row)
  BY DEF IInv, LocksHold, Unlocked
<1>2. mem[txn[w].row] \in Record
  BY <1>1, TableFields
<1> QED BY <1>1, <1>2 DEF Record

LEMMA SetStateApplies ==
  ASSUME IInv, NEW w \in Writers, Approve(w) \/ Reject(w) \/ Archive(w) \/ Tombstone(w)
  PROVE  Applies(w)
<1> DEFINE r == txn[w].row
<1>1. PICK kind \in Operation, status \in Status, review \in Review \cup {mem[r].review} :
        /\ SetState(w, kind, status, review)
        /\ \/ kind = "approve" /\ status = "approved" /\ review = "approved"
           \/ kind = "reject" /\ status = "rejected" /\ review = "rejected"
           \/ kind = "archive" /\ status = "archived" /\ review = mem[r].review
           \/ kind = "tombstone" /\ status = "tombstone" /\ review = mem[r].review
  BY DEF Approve, Reject, Archive, Tombstone, Operation, Status, Review, Accepted
<1>2. txn[w].op = "review" /\ txn[w].kind = kind
  BY <1>1 DEF SetState, Reviewing
<1>3. /\ r \in DOMAIN mem /\ mem[r] \in Record /\ mem[r].review \in Review
      /\ Unlocked(w, r) /\ Fit(kind, mem[r])
  BY <1>2, LockedRow
<1>4. <<mem[r].status, status>> \in ServiceEdges /\ (status = "approved" => mem[r].current)
  BY <1>1, <1>3 DEF Fit, UnderReview, Recallable, ServiceEdges, Record
<1>5. Legal(mem[r], WithState(mem[r], status, review))
  BY <1>3, <1>4, StateIsLegal
<1>6. mem' = [mem EXCEPT ![r] = WithState(mem[r], status, review)] /\ Done(w, {r}) /\ UNCHANGED frozen
  BY <1>1 DEF SetState
<1> QED BY <1>3, <1>5, <1>6, ChangeApplies

LEMMA SupersedeApplies ==
  ASSUME IInv, NEW w \in Writers, NEW e \in Edit, Supersede(w, e)
  PROVE  Applies(w)
<1> DEFINE r == txn[w].row
<1>1. txn[w].op = "review" /\ txn[w].kind = "supersede"
  BY DEF Supersede, Reviewing
<1>2. /\ r \in DOMAIN mem /\ mem[r] \in Record /\ mem[r].review \in Review
      /\ Unlocked(w, r) /\ Fit("supersede", mem[r])
  BY <1>1, LockedRow
<1>3. mem[r].status = "approved" /\ mem[r].current
  BY <1>2 DEF Fit, Recallable
<1>4. /\ Legal(mem[r], WithState(mem[r], "superseded", mem[r].review))
      /\ ~WithState(mem[r], "superseded", mem[r].review).current
  BY <1>2, <1>3, StateIsLegal DEF Status, ServiceEdges
<1>5. r \in Nat
  BY <1>2, TableFields
<1>6. /\ NextVersion(r, e) \in Record
      /\ NextVersion(r, e).current /\ Live(NextVersion(r, e))
      /\ NextVersion(r, e).prev = r /\ NextVersion(r, e).version = mem[r].version + 1
  BY <1>2, <1>5 DEF NextVersion, Record, Edit, Live, Status, Review
<1>7. /\ mem' = Append([mem EXCEPT ![r] = WithState(mem[r], "superseded", mem[r].review)], NextVersion(r, e))
      /\ Done(w, {r, Len(mem) + 1}) /\ UNCHANGED frozen
  BY DEF Supersede
<1> HIDE DEF r
<1> QED BY <1>2, <1>3, <1>4, <1>6, <1>7, ReplacementApplies

LEMMA UpdateApplies ==
  ASSUME IInv, NEW w \in Writers, NEW e \in Edit, UpdateCandidate(w, e)
  PROVE  Applies(w)
<1> DEFINE r == txn[w].row
<1>1. txn[w].op = "review" /\ txn[w].kind = "update"
  BY DEF UpdateCandidate, Reviewing
<1>2. /\ r \in DOMAIN mem /\ mem[r] \in Record /\ Unlocked(w, r) /\ UnderReview(mem[r])
  BY <1>1, LockedRow DEF Fit
<1>3. Legal(mem[r], WithPayload(mem[r], e))
  BY <1>2, PayloadIsLegal DEF Edit
<1>4. mem' = [mem EXCEPT ![r] = WithPayload(mem[r], e)] /\ Done(w, {r}) /\ UNCHANGED frozen
  BY DEF UpdateCandidate
<1> QED BY <1>2, <1>3, <1>4, ChangeApplies

-----------------------------------------------------------------------------
(* The invariant *)

LEMMA AppliesKeepsInv ==
  ASSUME IInv, NEW w \in Writers, Applies(w)
  PROVE  IInv'
<1>1. \A v \in Writers \ {w} : txn'[v] = txn[v]
  BY DEF Applies, IInv, TxnTyped
<1>2. txn'[w] = Idle /\ TxnTyped'
  BY DEF Applies, IInv, TxnTyped, Txn
<1>3. Idle.op # "review"
  BY DEF Idle
<1>4. LocksHold'
  <2>1. ASSUME NEW v \in Writers, txn'[v].op = "review"
        PROVE  txn'[v].row \in DOMAIN mem' /\ Fit(txn'[v].kind, mem'[txn'[v].row])
    <3>1. v # w /\ txn'[v] = txn[v]
      BY <1>1, <1>2, <1>3, <2>1
    <3>2. txn[v].row \in DOMAIN mem /\ Fit(txn[v].kind, mem[txn[v].row])
      BY <2>1, <3>1 DEF IInv, LocksHold
    <3>3. mem'[txn[v].row] = mem[txn[v].row] /\ txn[v].row \in DOMAIN mem'
      BY <2>1, <3>1, <3>2 DEF Applies, RowsChangeLegally
    <3> QED BY <3>1, <3>2, <3>3
  <2>2. ASSUME NEW u \in Writers, NEW v \in Writers, u # v,
               txn'[u].op = "review", txn'[v].op = "review"
        PROVE  txn'[u].row # txn'[v].row
    BY <1>1, <1>2, <1>3, <2>2 DEF IInv, LocksHold
  <2> QED BY <2>1, <2>2 DEF LocksHold, Fit, UnderReview, Recallable
<1> QED BY <1>2, <1>4 DEF Applies, IInv

\* A step that leaves the rows alone and after which w holds no new lock.
LEMMA QuietKeepsInv ==
  ASSUME IInv, UNCHANGED mem, TxnTyped', frozen' \subseteq Scopes, announced' = {},
         \A v \in Writers : txn'[v].op = "review" => txn'[v] = txn[v]
  PROVE  IInv'
<1>1. LocksHold'
  BY DEF IInv, LocksHold, Fit, UnderReview, Recallable
<1>2. Sound(mem')
  BY DEF IInv
<1> QED BY <1>1, <1>2 DEF IInv

LEMMA LookupKeepsInv ==
  ASSUME IInv, NEW w \in Writers,
         \/ \E c \in Commands : BeginCreate(w, c)
         \/ SettleReview(w) \/ LookUpKey(w) \/ Replay(w) \/ Rollback(w)
  PROVE  IInv'
<1>1. CASE \E c \in Commands : BeginCreate(w, c)
  <2>1. PICK c \in Command : BeginCreate(w, c)
    BY <1>1, LifecycleAssumption
  <2> DEFINE t == [op |-> "create", phase |-> "source", cmd |-> c, review |-> c.review,
                   seen |-> {r \in DOMAIN mem : SourceMatch(mem[r], c)}]
  <2>2. txn' = [txn EXCEPT ![w] = t] /\ UNCHANGED <<mem, frozen>> /\ announced' = {}
    BY <2>1 DEF BeginCreate
  <2>3. t \in Txn /\ t.op # "review"
    BY <2>1, TableFields DEF Txn, Command
  <2> HIDE DEF t
  <2> QED BY <2>2, <2>3, QuietKeepsInv DEF IInv, TxnTyped
<1>2. CASE SettleReview(w)
  <2>1. PICK review \in {txn[w].cmd.review, "pending"} :
          txn' = [txn EXCEPT ![w] = [@ EXCEPT !.phase = "settled", !.review = review, !.seen = {}]]
    BY <1>2 DEF SettleReview, IInv, TxnTyped
  <2> DEFINE t == [txn[w] EXCEPT !.phase = "settled", !.review = review, !.seen = {}]
  <2>2. txn[w].op = "create" /\ UNCHANGED <<mem, frozen>> /\ announced' = {}
    BY <1>2 DEF SettleReview, Creating
  <2>3. txn[w].cmd \in Command /\ txn[w] \in Txn
    BY <2>2, TxnFields DEF IInv, TxnTyped
  <2>4. review \in Asked
    BY <2>1, <2>3 DEF Command, Asked
  <2>5. t \in Txn /\ t.op # "review"
    BY <2>2, <2>3, <2>4 DEF Txn, Idle
  <2>6. txn' = [txn EXCEPT ![w] = t]
    BY <2>1
  <2> HIDE DEF t
  <2> QED BY <2>2, <2>5, <2>6, QuietKeepsInv DEF IInv, TxnTyped
<1>3. CASE LookUpKey(w)
  <2> DEFINE seen == {r \in DOMAIN mem : KeyMatch(mem[r], txn[w].cmd)}
  <2> DEFINE t == [txn[w] EXCEPT !.phase = "key", !.seen = seen]
  <2>0. seen \subseteq Nat
    BY TableFields
  <2>1. txn[w].op = "create" /\ UNCHANGED <<mem, frozen>> /\ announced' = {}
    BY <1>3 DEF LookUpKey, Creating
  <2>2. txn[w] \in Txn
    BY DEF IInv, TxnTyped
  <2>4. txn' = [txn EXCEPT ![w] = t]
    BY <1>3 DEF LookUpKey, IInv, TxnTyped
  <2> HIDE DEF seen
  <2>3. t \in Txn /\ t.op # "review"
    BY <2>0, <2>1, <2>2 DEF Txn, Idle
  <2> HIDE DEF t
  <2> QED BY <2>1, <2>3, <2>4, QuietKeepsInv DEF IInv, TxnTyped
<1>4. CASE Replay(w) \/ Rollback(w)
  <2>1. txn' = [txn EXCEPT ![w] = Idle] /\ UNCHANGED <<mem, frozen>> /\ announced' = {}
    BY <1>4 DEF Replay, Rollback, Done
  <2>2. Idle \in Txn /\ Idle.op # "review"
    BY DEF Txn, Idle
  <2> QED BY <2>1, <2>2, QuietKeepsInv DEF IInv, TxnTyped
<1> QED BY <1>1, <1>2, <1>3, <1>4

LEMMA BeginReviewKeepsInv ==
  ASSUME IInv, NEW w \in Writers, NEW kind \in Operations, NEW r \in DOMAIN mem,
         BeginReview(w, kind, r)
  PROVE  IInv'
<1> DEFINE t == [op |-> "review", kind |-> kind, row |-> r]
<1>1. txn' = [txn EXCEPT ![w] = t] /\ UNCHANGED <<mem, frozen>> /\ announced' = {}
  BY DEF BeginReview
<1>2. kind \in Operation /\ r \in Nat
  BY LifecycleAssumption, TableFields
<1>3. t \in Txn /\ t.op = "review" /\ t.kind = kind /\ t.row = r
  BY <1>2 DEF Txn
<1>4. Fit(kind, mem[r])
  BY <1>2 DEF BeginReview, MayApply, Fit, Operation
<1>5. \A v \in Writers \ {w} : txn[v].op = "review" => txn[v].row # r
  BY DEF BeginReview, Locked
<1> HIDE DEF t
<1>6. \A v \in Writers : txn'[v] = IF v = w THEN t ELSE txn[v]
  BY <1>1 DEF IInv, TxnTyped
<1>7. \A v \in Writers : txn'[v].op = "review" =>
        txn'[v].row \in DOMAIN mem' /\ Fit(txn'[v].kind, mem'[txn'[v].row])
  BY <1>1, <1>3, <1>4, <1>6 DEF IInv, LocksHold
<1>8. \A u, v \in Writers : u # v /\ txn'[u].op = "review" /\ txn'[v].op = "review" =>
        txn'[u].row # txn'[v].row
  BY <1>3, <1>5, <1>6 DEF IInv, LocksHold
<1>9. LocksHold'
  BY <1>7, <1>8 DEF LocksHold, Fit, UnderReview, Recallable
<1>10. TxnTyped'
  BY <1>1, <1>3 DEF IInv, TxnTyped
<1> QED BY <1>1, <1>9, <1>10 DEF IInv

LEMMA NextCases ==
  ASSUME IInv, [Next]_vars
  PROVE  IInv' /\ ((\E w \in Writers : Applies(w)) \/ UNCHANGED mem)
<1>1. ASSUME NEW w \in Writers, UpdateInPlace(w) \/ Replace(w) \/ Insert(w)
      PROVE  Applies(w)
  BY <1>1, CreateApplies
<1>2. ASSUME NEW w \in Writers, Approve(w) \/ Reject(w) \/ Archive(w) \/ Tombstone(w)
      PROVE  Applies(w)
  BY <1>2, SetStateApplies
<1>3. ASSUME NEW w \in Writers, NEW e \in Edits, Supersede(w, e) \/ UpdateCandidate(w, e)
      PROVE  Applies(w)
  BY <1>3, SupersedeApplies, UpdateApplies, LifecycleAssumption
<1>4. ASSUME NEW w \in Writers,
             \/ \E c \in Commands : BeginCreate(w, c)
             \/ SettleReview(w) \/ LookUpKey(w) \/ Replay(w) \/ Rollback(w)
      PROVE  IInv' /\ UNCHANGED mem
  BY <1>4, LookupKeepsInv DEF BeginCreate, SettleReview, LookUpKey, Replay, Rollback
<1>5. ASSUME NEW w \in Writers, NEW kind \in Operations, NEW r \in DOMAIN mem, BeginReview(w, kind, r)
      PROVE  IInv' /\ UNCHANGED mem
  BY <1>5, BeginReviewKeepsInv DEF BeginReview
<1>6. ASSUME NEW s \in Scopes, Freeze(s) \/ Thaw(s)
      PROVE  IInv' /\ UNCHANGED mem
  <2>1. UNCHANGED <<mem, txn>> /\ frozen' \subseteq Scopes /\ announced' = {}
    BY <1>6 DEF Freeze, Thaw, IInv
  <2> QED BY <2>1, QuietKeepsInv DEF IInv, TxnTyped
<1>7. CASE UNCHANGED vars
  BY <1>7 DEF vars, IInv, Sound, TxnTyped, LocksHold, Fit, UnderReview, Recallable
<1>8. ASSUME NEW w \in Writers, Applies(w) PROVE IInv'
  BY <1>8, AppliesKeepsInv
<1> QED BY <1>1, <1>2, <1>3, <1>4, <1>5, <1>6, <1>7, <1>8 DEF Next, CreateStep, ReviewStep

LEMMA Invariance == Spec => []IInv
<1>1. Init => IInv
  BY DEF Init, IInv, Sound, Chained, TxnTyped, Txn, Idle, LocksHold
<1>2. IInv /\ [Next]_vars => IInv'
  BY NextCases
<1> QED BY <1>1, <1>2, PTL DEF Spec

-----------------------------------------------------------------------------
\* Every variable keeps its type, whatever the constants.
THEOREM TypeCorrect == Spec => []TypeOK
<1>1. IInv => TypeOK
  BY DEF IInv, Sound, TxnTyped, TypeOK
<1> QED BY <1>1, Invariance, PTL

\* A row is current exactly while it is a candidate or approved, for any number
\* of transactions and rows and in every order of their steps.
THEOREM LiveRowsAreCurrent == Spec => []CurrentIffLive
<1>1. IInv => CurrentIffLive
  BY DEF IInv, Sound, Live, CurrentIffLive
<1> QED BY <1>1, Invariance, PTL

\* Superseding versions never fork, and only the last of a chain is current.
THEOREM ChainsDoNotFork == Spec => []VersionsFormChain
<1>1. IInv => VersionsFormChain
  BY DEF IInv, Sound, Chained, VersionsFormChain
<1> QED BY <1>1, Invariance, PTL

\* Content and key of a row are fixed once a reviewer has decided on it.
THEOREM DecisionsFixContent == Spec => DecidedContentIsFixed
<1>1. IInv /\ [Next]_vars =>
        [\A r \in DOMAIN mem : mem'[r].content # mem[r].content \/ mem'[r].key # mem[r].key =>
           UnderReview(mem[r]) /\ UnderReview(mem[r]')]_vars
  <2> SUFFICES ASSUME IInv, [Next]_vars, NEW r \in DOMAIN mem,
                      mem'[r].content # mem[r].content \/ mem'[r].key # mem[r].key
               PROVE  UnderReview(mem[r]) /\ UnderReview(mem'[r])
    BY DEF UnderReview
  <2>1. PICK w \in Writers : Applies(w)
    BY NextCases
  <2>2. Legal(mem[r], mem'[r])
    BY <2>1 DEF Applies, RowsChangeLegally
  <2> QED BY <2>2 DEF Legal
<1> QED BY <1>1, Invariance, PTL DEF Spec, DecidedContentIsFixed

\* The status of a row moves only along the edges of the services.
THEOREM StatusesFollowEdges == Spec => StatusFollowsEdges
<1>1. IInv /\ [Next]_vars =>
        [\A r \in DOMAIN mem : mem'[r].status # mem[r].status =>
           <<mem[r].status, mem'[r].status>> \in ServiceEdges]_vars
  <2> SUFFICES ASSUME IInv, [Next]_vars, NEW r \in DOMAIN mem, mem'[r].status # mem[r].status
               PROVE  <<mem[r].status, mem'[r].status>> \in ServiceEdges
    OBVIOUS
  <2>1. PICK w \in Writers : Applies(w)
    BY NextCases
  <2>2. Legal(mem[r], mem'[r])
    BY <2>1 DEF Applies, RowsChangeLegally
  <2> QED BY <2>2 DEF Legal
<1> QED BY <1>1, Invariance, PTL DEF Spec, StatusFollowsEdges

\* Whatever a transaction changes of a row, or inserts, it announces.
THEOREM ChangesAreTold == Spec => ChangesAreAnnounced
<1>1. IInv /\ [Next]_vars =>
        [\A r \in DOMAIN mem' : r \notin DOMAIN mem \/ mem'[r] # mem[r] => r \in announced']_vars
  <2> SUFFICES ASSUME IInv, [Next]_vars, NEW r \in DOMAIN mem', r \notin DOMAIN mem \/ mem'[r] # mem[r]
               PROVE  r \in announced'
    OBVIOUS
  <2>1. PICK w \in Writers : Applies(w)
    BY NextCases
  <2> QED BY <2>1 DEF Applies, RowsAreAnnounced
<1> QED BY <1>1, Invariance, PTL DEF Spec, ChangesAreAnnounced

-----------------------------------------------------------------------------
(* The advisory lock                                                       *)

(***************************************************************************)
(* The lock of a create is held as long as its transaction, so that no two *)
(* creates of one scope and key are open at a time; and only a create that *)
(* has a key looks it up.                                                  *)
(***************************************************************************)
Claims(t, c) == t.op = "create" /\ t.cmd.key # NoKey /\ t.cmd.scope = c.scope /\ t.cmd.key = c.key

TurnsTaken ==
  /\ \A v, w \in Writers : v # w /\ txn[w].op = "create" => ~Claims(txn[v], txn[w].cmd)
  /\ \A w \in Writers : Creating(w, "key") => txn[w].cmd.key # NoKey

\* A transaction begins with the lock it needs, goes on with the command it
\* has, or ends.
Begins(w) ==
  \E c \in Command : /\ AdvisoryFree(c)
                     /\ txn' = [txn EXCEPT ![w] = txn'[w]]
                     /\ txn'[w].op = "create" /\ txn'[w].cmd = c /\ txn'[w].phase = "source"

GoesOn(w) ==
  /\ txn' = [txn EXCEPT ![w] = txn'[w]]
  /\ txn[w].op = "create" /\ txn'[w].op = "create" /\ txn'[w].cmd = txn[w].cmd
  /\ txn'[w].phase = "key" => txn[w].cmd.key # NoKey

Other(w) == txn' = [txn EXCEPT ![w] = txn'[w]] /\ txn'[w].op # "create"

LEMMA TurnSteps ==
  ASSUME IInv, [Next]_vars
  PROVE  UNCHANGED txn \/ \E w \in Writers : Begins(w) \/ GoesOn(w) \/ Other(w)
<1>1. ASSUME NEW w \in Writers, NEW c \in Commands, BeginCreate(w, c)
      PROVE  Begins(w)
  BY <1>1, LifecycleAssumption DEF BeginCreate, Begins, IInv, TxnTyped
<1>2. ASSUME NEW w \in Writers, SettleReview(w)
      PROVE  GoesOn(w)
  <2>1. txn[w].op = "create" /\ txn[w] \in Txn
    BY <1>2 DEF SettleReview, Creating, IInv, TxnTyped
  <2>2. PICK review : txn' = [txn EXCEPT ![w] = [@ EXCEPT !.phase = "settled", !.review = review, !.seen = {}]]
    BY <1>2 DEF SettleReview, IInv, TxnTyped
  <2>3. txn'[w] = [txn[w] EXCEPT !.phase = "settled", !.review = review, !.seen = {}]
    BY <2>2 DEF IInv, TxnTyped
  <2>4. txn'[w].op = "create" /\ txn'[w].cmd = txn[w].cmd /\ txn'[w].phase = "settled"
    BY <2>1, <2>3 DEF Txn, Idle
  <2> QED BY <2>1, <2>2, <2>3, <2>4 DEF GoesOn
<1>3. ASSUME NEW w \in Writers, LookUpKey(w)
      PROVE  GoesOn(w)
  <2>1. txn[w].op = "create" /\ txn[w] \in Txn /\ txn[w].cmd.key # NoKey
    BY <1>3 DEF LookUpKey, Creating, IInv, TxnTyped
  <2>2. PICK seen : txn' = [txn EXCEPT ![w] = [@ EXCEPT !.phase = "key", !.seen = seen]]
    BY <1>3 DEF LookUpKey, IInv, TxnTyped
  <2>3. txn'[w] = [txn[w] EXCEPT !.phase = "key", !.seen = seen]
    BY <2>2 DEF IInv, TxnTyped
  <2>4. txn'[w].op = "create" /\ txn'[w].cmd = txn[w].cmd
    BY <2>1, <2>3 DEF Txn, Idle
  <2> QED BY <2>1, <2>2, <2>3, <2>4 DEF GoesOn
<1>4. ASSUME NEW w \in Writers,
             \/ Replay(w) \/ UpdateInPlace(w) \/ Replace(w) \/ Insert(w) \/ Rollback(w)
             \/ Approve(w) \/ Reject(w) \/ Archive(w) \/ Tombstone(w)
             \/ \E e \in Edits : Supersede(w, e) \/ UpdateCandidate(w, e)
      PROVE  Other(w)
  <2>1. txn' = [txn EXCEPT ![w] = Idle]
    BY <1>4 DEF Replay, UpdateInPlace, Replace, Insert, Rollback, Approve, Reject, Archive, Tombstone,
                SetState, Supersede, UpdateCandidate, Done
  <2> QED BY <2>1 DEF Other, Idle, IInv, TxnTyped
<1>5. ASSUME NEW w \in Writers, NEW kind \in Operations, NEW r \in DOMAIN mem, BeginReview(w, kind, r)
      PROVE  Other(w)
  BY <1>5 DEF BeginReview, Other, IInv, TxnTyped
<1>6. ASSUME NEW s \in Scopes, Freeze(s) \/ Thaw(s)
      PROVE  UNCHANGED txn
  BY <1>6 DEF Freeze, Thaw
<1> QED BY <1>1, <1>2, <1>3, <1>4, <1>5, <1>6 DEF Next, CreateStep, ReviewStep, vars

LEMMA TurnsAreKept ==
  ASSUME IInv, TurnsTaken, [Next]_vars
  PROVE  TurnsTaken'
<1>1. CASE UNCHANGED txn
  BY <1>1 DEF TurnsTaken, Creating, Claims
<1>2. ASSUME NEW w \in Writers, Begins(w) \/ GoesOn(w) \/ Other(w)
      PROVE  TurnsTaken'
  <2>1. \A v \in Writers : v # w => txn'[v] = txn[v]
    BY <1>2 DEF Begins, GoesOn, Other, IInv, TxnTyped
  <2>2. CASE Begins(w)
    <3>1. PICK c \in Command : AdvisoryFree(c) /\ txn'[w].cmd = c
                               /\ txn'[w].op = "create" /\ txn'[w].phase = "source"
      BY <2>2 DEF Begins
    <3>2. \A v \in Writers : ~Claims(txn[v], c)
      BY <3>1 DEF AdvisoryFree, Claims
    <3>3. \A v \in Writers : v # w /\ txn[v].op = "create" => ~Claims(txn'[w], txn[v].cmd)
      BY <3>1, <3>2 DEF Claims
    <3> QED BY <2>1, <3>1, <3>2, <3>3 DEF TurnsTaken, Creating, Claims
  <2>3. CASE GoesOn(w)
    BY <2>1, <2>3 DEF GoesOn, TurnsTaken, Creating, Claims
  <2>4. CASE Other(w)
    BY <2>1, <2>4 DEF Other, TurnsTaken, Creating, Claims
  <2> QED BY <1>2, <2>2, <2>3, <2>4
<1> QED BY <1>1, <1>2, TurnSteps

LEMMA SupersededIsTyped ==
  ASSUME NEW m \in Record
  PROVE  WithState(m, "superseded", m.review) \in Record
<1>1. m.review \in Review
  BY DEF Record
<1> DEFINE review == m.review
<1>2. review \in Review
  BY <1>1
<1> HIDE DEF review
<1>3. WithState(m, "superseded", review) \in Record
  BY <1>2 DEF WithState, Record, Status
<1> QED BY <1>3 DEF review

\* A row that a create inserts has the key and the scope of its command.
LEMMA InsertedRow ==
  ASSUME IInv, [Next]_vars, NEW r \in DOMAIN mem' \ DOMAIN mem, mem'[r].prev = 0
  PROVE  \E v \in Writers : /\ txn[v].op = "create" /\ txn'[v] = Idle
                            /\ mem'[r].scope = txn[v].cmd.scope /\ mem'[r].key = txn[v].cmd.key
<1>1. mem \in Seq(Record) /\ DOMAIN mem = 1..Len(mem) /\ Len(mem) \in Nat
  BY TableFields
<1>2. ASSUME NEW s \in Seq(Record), DOMAIN s = DOMAIN mem, NEW d, mem' = Append(s, d)
      PROVE  mem'[r] = d
  <2>1. Len(s) = Len(mem)
    BY <1>1, <1>2
  <2>2. r = Len(s) + 1
    BY <1>1, <1>2, <2>1
  <2> QED BY <1>2, <2>2
<1>3. ASSUME NEW w \in Writers, Replace(w) \/ Insert(w)
      PROVE  /\ txn[w].op = "create" /\ txn'[w] = Idle
             /\ mem'[r].scope = txn[w].cmd.scope /\ mem'[r].key = txn[w].cmd.key
  <2>1. txn[w].op = "create" /\ txn'[w] = Idle
    BY <1>3 DEF Replace, Insert, Hit, Creating, Done, IInv, TxnTyped
  <2>2. CASE Insert(w)
    <3>1. mem'[r] = NewRecord(txn[w].cmd, txn[w].review)
      BY <1>1, <1>2, <2>2 DEF Insert
    <3> QED BY <2>1, <3>1 DEF NewRecord
  <2>3. CASE Replace(w)
    <3>1. PICK i \in DOMAIN mem :
            mem' = Append([mem EXCEPT ![i] = WithState(mem[i], "superseded", mem[i].review)],
                          NewRecord(txn[w].cmd, txn[w].review))
      BY <2>3 DEF Replace
    <3> DEFINE o == WithState(mem[i], "superseded", mem[i].review)
    <3>0. mem[i] \in Record
      BY <1>1
    <3>2. o \in Record
      BY <3>0, SupersededIsTyped
    <3> HIDE DEF o
    <3>3. [mem EXCEPT ![i] = o] \in Seq(Record) /\ DOMAIN [mem EXCEPT ![i] = o] = DOMAIN mem
      BY <1>1, <3>2
    <3>4. mem'[r] = NewRecord(txn[w].cmd, txn[w].review)
      BY <1>2, <3>1, <3>3 DEF o
    <3> QED BY <2>1, <3>4 DEF NewRecord
  <2> QED BY <1>3, <2>2, <2>3
<1>4. ASSUME NEW w \in Writers, NEW e \in Edits, Supersede(w, e)
      PROVE  FALSE
  <2> DEFINE i == txn[w].row
  <2> DEFINE o == WithState(mem[i], "superseded", mem[i].review)
  <2>1. mem' = Append([mem EXCEPT ![i] = o], NextVersion(i, e)) /\ txn[w].op = "review"
    BY <1>4 DEF Supersede, Reviewing
  <2>2. i \in DOMAIN mem
    BY <2>1, LockedRow
  <2>3. mem[i] \in Record /\ o \in Record
    BY <1>1, <2>2, SupersededIsTyped
  <2> HIDE DEF o, i
  <2>4. [mem EXCEPT ![i] = o] \in Seq(Record) /\ DOMAIN [mem EXCEPT ![i] = o] = DOMAIN mem
    BY <1>1, <2>2, <2>3
  <2>5. mem'[r] = NextVersion(i, e)
    BY <1>2, <2>1, <2>4
  <2> QED BY <1>1, <2>2, <2>5 DEF NextVersion
<1>5. ASSUME DOMAIN mem' = DOMAIN mem
      PROVE  FALSE
  BY <1>5
<1>6. ASSUME NEW w \in Writers,
             UpdateInPlace(w) \/ Approve(w) \/ Reject(w) \/ Archive(w) \/ Tombstone(w)
             \/ \E e \in Edits : UpdateCandidate(w, e)
      PROVE  DOMAIN mem' = DOMAIN mem
  BY <1>6 DEF UpdateInPlace, Approve, Reject, Archive, Tombstone, SetState, UpdateCandidate
<1>7. ASSUME NEW w \in Writers,
             \/ \E c \in Commands : BeginCreate(w, c)
             \/ SettleReview(w) \/ LookUpKey(w) \/ Replay(w) \/ Rollback(w)
             \/ \E kind \in Operations, i \in DOMAIN mem : BeginReview(w, kind, i)
      PROVE  DOMAIN mem' = DOMAIN mem
  BY <1>7 DEF BeginCreate, SettleReview, LookUpKey, Replay, Rollback, BeginReview
<1>8. ASSUME NEW s \in Scopes, Freeze(s) \/ Thaw(s)
      PROVE  DOMAIN mem' = DOMAIN mem
  BY <1>8 DEF Freeze, Thaw
<1> QED BY <1>3, <1>4, <1>5, <1>6, <1>7, <1>8 DEF Next, CreateStep, ReviewStep, vars

\* A row gets another key from a create that words it back, or from the update
\* that has locked it.
LEMMA RekeyedRow ==
  ASSUME IInv, [Next]_vars, NEW r \in DOMAIN mem, mem'[r].key # mem[r].key
  PROVE  \/ \E v \in Writers : Reviewing(v, "update") /\ txn[v].row = r
         \/ \E v \in Writers : /\ txn[v].op = "create" /\ txn'[v] = Idle
                               /\ mem[r].scope = txn[v].cmd.scope /\ mem'[r].key = txn[v].cmd.key
<1>1. mem \in Seq(Record) /\ DOMAIN mem = 1..Len(mem) /\ Len(mem) \in Nat
  BY TableFields
<1>2. ASSUME NEW w \in Writers, UpdateInPlace(w)
      PROVE  /\ txn[w].op = "create" /\ txn'[w] = Idle
             /\ mem[r].scope = txn[w].cmd.scope /\ mem'[r].key = txn[w].cmd.key
  <2>1. PICK i \in DOMAIN mem : /\ Hit(w, i)
                                /\ mem' = [mem EXCEPT ![i] = WithPayload(mem[i], txn[w].cmd)]
                                /\ Done(w, {i})
    BY <1>2 DEF UpdateInPlace
  <2>2. i = r
    BY <1>1, <2>1
  <2>3. mem[r] \in Record
    BY <1>1
  <2>4. mem'[r].key = txn[w].cmd.key
    BY <2>1, <2>2, <2>3 DEF WithPayload, Record
  <2>5. SourceMatch(mem[r], txn[w].cmd)
    BY <1>2, <2>1, <2>2 DEF UpdateInPlace, Creating, Hit
  <2> QED BY <2>1, <2>4, <2>5 DEF Hit, SourceMatch, Done, IInv, TxnTyped
<1>3. ASSUME NEW w \in Writers, NEW e \in Edits, UpdateCandidate(w, e)
      PROVE  Reviewing(w, "update") /\ txn[w].row = r
  BY <1>1, <1>3 DEF UpdateCandidate
<1>4. ASSUME NEW i \in DOMAIN mem, NEW status, NEW review
      PROVE  WithState(mem[i], status, review).key = mem[i].key
  <2>1. mem[i] \in Record
    BY <1>1
  <2> QED BY <2>1 DEF WithState, Record
<1>5. ASSUME NEW w \in Writers, Approve(w) \/ Reject(w) \/ Archive(w) \/ Tombstone(w)
      PROVE  FALSE
  <2>1. PICK kind, status, review : SetState(w, kind, status, review)
    BY <1>5 DEF Approve, Reject, Archive, Tombstone
  <2>2. txn[w].row \in DOMAIN mem
    BY <2>1, LockedRow DEF SetState, Reviewing
  <2> DEFINE d == WithState(mem[txn[w].row], status, review)
  <2>3. mem' = [mem EXCEPT ![txn[w].row] = d] /\ d.key = mem[txn[w].row].key
    BY <1>4, <2>1, <2>2 DEF SetState
  <2> HIDE DEF d
  <2> QED BY <1>1, <2>3
<1>6. ASSUME NEW s \in Seq(Record), DOMAIN s = DOMAIN mem, s[r].key = mem[r].key,
             NEW d, mem' = Append(s, d)
      PROVE  FALSE
  <2>1. mem'[r] = s[r]
    BY <1>1, <1>6
  <2> QED BY <1>6, <2>1
<1>7. ASSUME NEW i \in DOMAIN mem, NEW d,
             mem' = Append([mem EXCEPT ![i] = WithState(mem[i], "superseded", mem[i].review)], d)
      PROVE  FALSE
  <2> DEFINE o == WithState(mem[i], "superseded", mem[i].review)
  <2>1. mem[i] \in Record /\ o \in Record /\ o.key = mem[i].key
    BY <1>1, <1>4, SupersededIsTyped
  <2>2. mem' = Append([mem EXCEPT ![i] = o], d)
    BY <1>7
  <2> HIDE DEF o
  <2>3. /\ [mem EXCEPT ![i] = o] \in Seq(Record) /\ DOMAIN [mem EXCEPT ![i] = o] = DOMAIN mem
        /\ [mem EXCEPT ![i] = o][r].key = mem[r].key
    BY <1>1, <2>1
  <2> QED BY <1>6, <2>2, <2>3
<1>8. ASSUME NEW w \in Writers, Replace(w) \/ Insert(w)
      PROVE  FALSE
  BY <1>1, <1>6, <1>7, <1>8 DEF Replace, Insert
<1>9. ASSUME NEW w \in Writers, NEW e \in Edits, Supersede(w, e)
      PROVE  FALSE
  BY <1>7, <1>9, LockedRow DEF Supersede, Reviewing
<1>10. ASSUME NEW w \in Writers,
              \/ \E c \in Commands : BeginCreate(w, c)
              \/ SettleReview(w) \/ LookUpKey(w) \/ Replay(w) \/ Rollback(w)
              \/ \E kind \in Operations, i \in DOMAIN mem : BeginReview(w, kind, i)
       PROVE  FALSE
  BY <1>10 DEF BeginCreate, SettleReview, LookUpKey, Replay, Rollback, BeginReview
<1>11. ASSUME NEW s \in Scopes, Freeze(s) \/ Thaw(s)
       PROVE  FALSE
  BY <1>11 DEF Freeze, Thaw
<1> QED BY <1>2, <1>3, <1>5, <1>8, <1>9, <1>10, <1>11 DEF Next, CreateStep, ReviewStep, vars

\* Creates of one scope and key take turns, for any number of transactions:
\* what the snapshot of a lookup by key misses is the new version of a
\* supersede, or a candidate that an update gives the key.
THEOREM CreatesTakeTurns == Spec => CreatesOfOneKeyTakeTurns
<1>1. Init => TurnsTaken
  BY DEF Init, TurnsTaken, Idle, Creating
<1>2. IInv /\ TurnsTaken /\ [Next]_vars => TurnsTaken'
  BY TurnsAreKept
<1>3. IInv /\ TurnsTaken /\ [Next]_vars =>
        [\A w \in Writers : Creating(w, "key") /\ txn'[w] = txn[w] =>
           \A r \in DOMAIN mem' :
             /\ Answers(mem'[r], txn[w].cmd)
             /\ r \in DOMAIN mem => ~Answers(mem[r], txn[w].cmd)
             => \/ r \notin DOMAIN mem /\ mem'[r].prev # 0
                \/ \E v \in Writers : Reviewing(v, "update") /\ txn[v].row = r]_vars
  <2> SUFFICES ASSUME IInv, TurnsTaken, [Next]_vars, NEW w \in Writers,
                      Creating(w, "key"), txn'[w] = txn[w],
                      NEW r \in DOMAIN mem', Answers(mem'[r], txn[w].cmd),
                      r \in DOMAIN mem => ~Answers(mem[r], txn[w].cmd),
                      r \in DOMAIN mem \/ mem'[r].prev = 0,
                      ~\E v \in Writers : Reviewing(v, "update") /\ txn[v].row = r
               PROVE  FALSE
    OBVIOUS
  <2>1. PICK v \in Writers : /\ txn[v].op = "create" /\ txn'[v] = Idle
                             /\ txn[w].cmd.scope = txn[v].cmd.scope /\ txn[w].cmd.key = txn[v].cmd.key
    <3>1. CASE r \notin DOMAIN mem
      BY <3>1, InsertedRow DEF Answers
    <3>2. CASE r \in DOMAIN mem
      <4>1. mem'[r] # mem[r]
        BY <3>2 DEF Answers
      <4>2. PICK u \in Writers : Applies(u)
        BY <4>1, NextCases
      <4>3. Legal(mem[r], mem'[r])
        BY <3>2, <4>1, <4>2 DEF Applies, RowsChangeLegally
      <4>4. mem'[r].key # mem[r].key /\ mem'[r].scope = mem[r].scope
        BY <3>2, <4>3 DEF Legal, Answers
      <4> QED BY <3>2, <4>4, RekeyedRow DEF Answers
    <3> QED BY <3>1, <3>2
  <2>2. v # w
    BY <2>1 DEF Creating, Idle
  <2> QED BY <2>1, <2>2 DEF TurnsTaken, Creating, Claims
<1> QED BY <1>1, <1>2, <1>3, Invariance, PTL DEF Spec, CreatesOfOneKeyTakeTurns
=============================================================================
