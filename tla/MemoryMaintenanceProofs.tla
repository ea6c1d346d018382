------------------------ MODULE MemoryMaintenanceProofs ------------------------
(***************************************************************************)
(* Proofs about MemoryMaintenance, for any number of rows, transactions,   *)
(* scripts and actions in the ledger.                                      *)
(*                                                                         *)
(* The scripts break the invariant of MemoryLifecycleProofs: a repair      *)
(* leaves candidates that are not current, a revert may make a row current *)
(* that has a later version. What survives is weaker (Good) and holds of   *)
(* each row by itself, so that no lock is needed for it; but it must hold  *)
(* of every state a script has read and may yet write back (Kept).         *)
(***************************************************************************)
EXTENDS MemoryMaintenance, TLAPS

Live(s) == s.status \in {"candidate", "approved"}

Good(m) == m \in Record /\ (m.current => Live(m))

Table(s) == s \in Seq(Record) /\ \A i \in DOMAIN s : Good(s[i])

\* a state that may be written back
Sane(s) == s \in State /\ (s.current => Live(s))

Kept(a) == a.row \in DOMAIN mem /\ (a.kind \in {"archive", "tombstone"} => Sane(a.before))

LocksInTable == \A w \in Writers : txn[w].op = "review" => txn[w].row \in DOMAIN mem

LedgerKept ==
  /\ ledger \in Seq(Removal \cup Update)
  /\ \A a \in DOMAIN ledger : /\ Kept(ledger[a])
                              /\ ledger[a].kind = "update" => ledger[a].old \in DOMAIN mem

FoundTyped == /\ found \in [DOMAIN found -> Status \cup {Unread}]
              /\ DOMAIN found \subseteq DOMAIN mem

SweptTyped(s) == DOMAIN s \subseteq DOMAIN mem /\ \A r \in DOMAIN s : s[r] \in Meta

BacklogTyped(b) == DOMAIN b \subseteq DOMAIN mem /\ \A r \in DOMAIN b : b[r] \in Verdict

MInv ==
  /\ Table(mem)
  /\ txn \in [Writers -> Txn]
  /\ LocksInTable
  /\ frozen \subseteq Scopes
  /\ announced \subseteq DOMAIN mem
  /\ SweptTyped(swept) /\ BacklogTyped(backlog) /\ keyless \subseteq DOMAIN mem
  /\ targets \subseteq Target /\ \A t \in targets : Kept(t)
  /\ made \in Removal \cup {NoAction} /\ (made # NoAction => Kept(made))
  /\ FoundTyped
  /\ LedgerKept

-----------------------------------------------------------------------------
(* Rows *)

LEMMA SetRow ==
  ASSUME NEW s, Table(s), NEW t, DOMAIN t = DOMAIN s, t = [i \in DOMAIN s |-> t[i]],
         \A i \in DOMAIN s : Good(t[i])
  PROVE  Table(t)
<1>1. s \in Seq(Record) /\ DOMAIN s = 1..Len(s) /\ Len(s) \in Nat
  BY DEF Table
<1>2. \A i \in 1..Len(s) : t[i] \in Record
  BY <1>1 DEF Good
<1>3. t \in [1..Len(s) -> Record]
  BY <1>1, <1>2
<1>4. t \in Seq(Record)
  BY <1>1, <1>3
<1> QED BY <1>4 DEF Table

LEMMA AppendRow ==
  ASSUME NEW s, Table(s), NEW d, Good(d)
  PROVE  /\ Table(Append(s, d))
         /\ DOMAIN Append(s, d) = DOMAIN s \cup {Len(s) + 1}
<1> DEFINE t == Append(s, d)
<1>1. s \in Seq(Record) /\ DOMAIN s = 1..Len(s) /\ Len(s) \in Nat
  BY DEF Table
<1>2. t \in Seq(Record) /\ DOMAIN t = 1..(Len(s) + 1) /\ t[Len(s) + 1] = d
  BY <1>1 DEF Good
<1>3. \A i \in DOMAIN s : t[i] = s[i]
  BY <1>1
<1>4. \A i \in DOMAIN t : i \in DOMAIN s \/ i = Len(s) + 1
  BY <1>1, <1>2
<1>5. DOMAIN t = DOMAIN s \cup {Len(s) + 1}
  BY <1>1, <1>2
<1> HIDE DEF t
<1>6. \A i \in DOMAIN t : Good(t[i])
  BY <1>2, <1>3, <1>4 DEF Table
<1> QED BY <1>2, <1>5, <1>6 DEF Table, t

LEMMA StateIsGood ==
  ASSUME NEW m \in Record, NEW status \in Status, NEW review \in Review
  PROVE  Good(WithState(m, status, review)) 
BY DEF WithState, Good, Live, Record, Status

LEMMA MetaIsGood ==
  ASSUME NEW m, Good(m), NEW meta \in Meta
  PROVE  Good([m EXCEPT !.meta = meta])
BY DEF Good, Live, Record

LEMMA KeyIsGood ==
  ASSUME NEW m, Good(m), NEW key \in Keys
  PROVE  Good(KeyFilled(m, key))
BY DEF KeyFilled, Good, Live, Record

LEMMA WithheldIsMeta ==
  ASSUME NEW meta \in Meta
  PROVE  /\ Withheld(meta) \in Meta
         /\ \A b \in BOOLEAN : [meta EXCEPT !.withheld = b] \in Meta
BY DEF Withheld, Meta

LEMMA PayloadIsGood ==
  ASSUME NEW m, Good(m), NEW e, e.key \in Keys \cup {NoKey}, e.meta \in Meta,
         e.content \in Contents
  PROVE  Good(WithPayload(m, e))
BY DEF WithPayload, Good, Live, Record, Status

LEMMA RestoredIsGood ==
  ASSUME NEW m \in Record, NEW s, Sane(s)
  PROVE  Good(Restored(m, s))
BY DEF Restored, Sane, State, Good, Live, Record, Status

LEMMA StateOfIsSane ==
  ASSUME NEW m, Good(m)
  PROVE  Sane(StateOf(m))
BY DEF StateOf, Sane, State, Good, Live, Record

LEMMA NewRecordIsGood ==
  ASSUME NEW c \in Command, NEW review \in Asked
  PROVE  Good(NewRecord(c, review))
BY DEF NewRecord, Good, Live, Record, Status, Command, StatusOf, Asked, Accepted, Review

-----------------------------------------------------------------------------
(* What a step of a service or a script does to the rows *)

\* rows are changed or added, and stay good
Grows ==
  /\ Table(mem')
  /\ DOMAIN mem \subseteq DOMAIN mem'
  /\ announced' \subseteq DOMAIN mem'
  /\ frozen' \subseteq Scopes
  /\ txn' \in [Writers -> Txn]
  /\ LocksInTable'

\* What the scripts hold stays fit to be written back as rows are added.
LEMMA GrowsKeeps ==
  ASSUME MInv, Grows, UNCHANGED tools
  PROVE  MInv'
<1>1. \A t \in targets' : Kept(t)'
  BY DEF MInv, Grows, tools, Kept
<1>2. made' # NoAction => Kept(made)'
  BY DEF MInv, Grows, tools, Kept
<1>3. FoundTyped'
  BY DEF MInv, Grows, tools, FoundTyped
<1>4. LedgerKept'
  BY DEF MInv, Grows, tools, LedgerKept, Kept
<1>5. SweptTyped(swept)' /\ BacklogTyped(backlog)' /\ keyless' \subseteq DOMAIN mem'
  BY DEF MInv, Grows, tools, SweptTyped, BacklogTyped
<1> QED BY <1>1, <1>2, <1>3, <1>4, <1>5 DEF MInv, Grows, tools

LEMMA Fields ==
  ASSUME MInv, NEW w \in Writers
  PROVE  /\ txn[w].op = "create" => /\ txn[w].cmd \in Command
                                    /\ txn[w].review \in Asked
                                    /\ txn[w].phase \in {"source", "settled", "key"}
                                    /\ txn[w].seen \subseteq Nat
         /\ txn[w].op = "review" => txn[w].kind \in Operation /\ txn[w].row \in DOMAIN mem
BY DEF MInv, LocksInTable, Txn, Idle

LEMMA RowFacts ==
  ASSUME MInv
  PROVE  /\ mem \in Seq(Record) /\ DOMAIN mem = 1..Len(mem) /\ Len(mem) \in Nat
         /\ \A r \in DOMAIN mem : Good(mem[r]) /\ mem[r] \in Record
BY DEF MInv, Table, Good

LEMMA Commits ==
  ASSUME MInv, NEW w \in Writers, Table(mem'), DOMAIN mem \subseteq DOMAIN mem',
         NEW ids, ids \subseteq DOMAIN mem', Done(w, ids), UNCHANGED frozen
  PROVE  Grows
<1>1. txn' \in [Writers -> Txn]
  BY DEF MInv, Done, Txn
<1>2. \A v \in Writers : txn'[v].op = "review" => txn'[v] = txn[v]
  BY DEF MInv, Done, Idle
<1>3. LocksInTable'
  BY <1>2 DEF MInv, LocksInTable
<1> QED BY <1>1, <1>3 DEF MInv, Done, Grows

LEMMA Waits ==
  ASSUME MInv, NEW w \in Writers, NEW t \in Txn, t.op = "review" => t.row \in DOMAIN mem,
         txn' = [txn EXCEPT ![w] = t], UNCHANGED <<mem, frozen>>, announced' = {}
  PROVE  Grows
<1>1. txn' \in [Writers -> Txn]
  BY DEF MInv
<1>2. LocksInTable'
  BY DEF MInv, LocksInTable
<1>3. Table(mem')
  BY DEF MInv
<1> QED BY <1>1, <1>2, <1>3 DEF MInv, Grows

LEMMA ChangesRow ==
  ASSUME MInv, NEW w \in Writers, NEW r \in DOMAIN mem, NEW d, Good(d),
         mem' = [mem EXCEPT ![r] = d], Done(w, {r}), UNCHANGED frozen
  PROVE  Grows
<1>1. DOMAIN mem' = DOMAIN mem /\ mem' = [i \in DOMAIN mem |-> mem'[i]]
  BY RowFacts
<1>2. \A i \in DOMAIN mem : Good(mem'[i])
  BY RowFacts
<1>3. Table(mem')
  BY <1>1, <1>2, SetRow DEF MInv
<1> QED BY <1>1, <1>3, Commits

LEMMA AddsRow ==
  ASSUME MInv, NEW w \in Writers, NEW d, Good(d),
         mem' = Append(mem, d), Done(w, {Len(mem) + 1}), UNCHANGED frozen
  PROVE  Grows
<1>1. Table(mem') /\ DOMAIN mem' = DOMAIN mem \cup {Len(mem) + 1}
  BY AppendRow DEF MInv
<1> QED BY <1>1, Commits

LEMMA ReplacesRow ==
  ASSUME MInv, NEW w \in Writers, NEW r \in DOMAIN mem, NEW c, Good(c), NEW d, Good(d),
         mem' = Append([mem EXCEPT ![r] = c], d), Done(w, {r, Len(mem) + 1}), UNCHANGED frozen
  PROVE  Grows
<1> DEFINE s == [mem EXCEPT ![r] = c]
<1>1. DOMAIN s = DOMAIN mem /\ s = [i \in DOMAIN mem |-> s[i]]
  BY RowFacts
<1>2. \A i \in DOMAIN mem : Good(s[i])
  BY RowFacts
<1>3. Len(s) = Len(mem)
  BY RowFacts
<1>4. mem' = Append(s, d)
  OBVIOUS
<1> HIDE DEF s
<1>5. Table(s)
  BY <1>1, <1>2, SetRow DEF MInv
<1>6. Table(Append(s, d)) /\ DOMAIN Append(s, d) = DOMAIN s \cup {Len(s) + 1}
  BY ONLY Good(d), <1>5, AppendRow
<1>7. Table(mem') /\ DOMAIN mem' = DOMAIN mem \cup {Len(mem) + 1}
  BY <1>1, <1>3, <1>4, <1>6
<1> QED BY <1>7, Commits

LEMMA CreateGrows ==
  ASSUME MInv, NEW w \in Writers, CreateStep(w)
  PROVE  Grows
<1>1. CASE \E c \in Commands : BeginCreate(w, c)
  <2>1. PICK c \in Command : BeginCreate(w, c)
    BY <1>1, LifecycleAssumption
  <2> DEFINE t == [op |-> "create", phase |-> "source", cmd |-> c, review |-> c.review,
                   seen |-> {r \in DOMAIN mem : SourceMatch(mem[r], c)}]
  <2>2. txn' = [txn EXCEPT ![w] = t] /\ UNCHANGED <<mem, frozen>> /\ announced' = {}
    BY <2>1 DEF BeginCreate
  <2>3. t \in Txn /\ t.op # "review"
    BY <2>1, RowFacts DEF Txn, Command
  <2> HIDE DEF t
  <2> QED BY <2>2, <2>3, Waits
<1>2. CASE SettleReview(w)
  <2>1. PICK review \in {txn[w].cmd.review, "pending"} :
          txn' = [txn EXCEPT ![w] = [@ EXCEPT !.phase = "settled", !.review = review, !.seen = {}]]
    BY <1>2 DEF SettleReview, MInv
  <2> DEFINE t == [txn[w] EXCEPT !.phase = "settled", !.review = review, !.seen = {}]
  <2>2. txn[w].op = "create" /\ UNCHANGED <<mem, frozen>> /\ announced' = {}
    BY <1>2 DEF SettleReview, Creating
  <2>3. txn[w].cmd \in Command /\ txn[w] \in Txn
    BY <2>2, Fields DEF MInv
  <2>4. review \in Asked
    BY <2>1, <2>3 DEF Command, Asked
  <2>5. t \in Txn /\ t.op # "review"
    BY <2>2, <2>3, <2>4 DEF Txn, Idle
  <2>6. txn' = [txn EXCEPT ![w] = t]
    BY <2>1
  <2> HIDE DEF t
  <2> QED BY <2>2, <2>5, <2>6, Waits
<1>3. CASE LookUpKey(w)
  <2> DEFINE seen == {r \in DOMAIN mem : KeyMatch(mem[r], txn[w].cmd)}
  <2> DEFINE t == [txn[w] EXCEPT !.phase = "key", !.seen = seen]
  <2>1. seen \subseteq Nat
    BY RowFacts
  <2>2. txn[w].op = "create" /\ UNCHANGED <<mem, frozen>> /\ announced' = {} /\ txn[w] \in Txn
    BY <1>3 DEF LookUpKey, Creating, MInv
  <2>3. txn' = [txn EXCEPT ![w] = t]
    BY <1>3 DEF LookUpKey, MInv
  <2> HIDE DEF seen
  <2>4. t \in Txn /\ t.op # "review"
    BY <2>1, <2>2 DEF Txn, Idle
  <2> HIDE DEF t
  <2> QED BY <2>2, <2>3, <2>4, Waits
<1>4. CASE Replay(w)
  <2>1. mem' = mem /\ Done(w, {}) /\ UNCHANGED frozen
    BY <1>4 DEF Replay
  <2>2. Table(mem')
    BY <2>1 DEF MInv
  <2> QED BY <2>1, <2>2, Commits
<1>5. CASE UpdateInPlace(w)
  <2>1. PICK r \in DOMAIN mem : /\ Hit(w, r)
                                /\ mem' = [mem EXCEPT ![r] = WithPayload(mem[r], txn[w].cmd)]
                                /\ Done(w, {r})
    BY <1>5 DEF UpdateInPlace
  <2>2. txn[w].cmd \in Command
    BY <2>1, Fields DEF Hit
  <2>3. Good(WithPayload(mem[r], txn[w].cmd))
    BY <2>2, RowFacts, PayloadIsGood DEF Command
  <2>4. UNCHANGED frozen
    BY <1>5 DEF UpdateInPlace
  <2> QED BY <2>1, <2>3, <2>4, ChangesRow
<1>6. CASE Replace(w)
  <2>1. PICK r \in DOMAIN mem :
          /\ Hit(w, r)
          /\ mem' = Append([mem EXCEPT ![r] = WithState(mem[r], "superseded", mem[r].review)],
                           NewRecord(txn[w].cmd, txn[w].review))
          /\ Done(w, {r, Len(mem) + 1})
    BY <1>6 DEF Replace
  <2>2. txn[w].cmd \in Command /\ txn[w].review \in Asked
    BY <2>1, Fields DEF Hit
  <2>3. mem[r] \in Record /\ mem[r].review \in Review
    BY RowFacts DEF Record
  <2>4. Good(WithState(mem[r], "superseded", mem[r].review))
    BY <2>3, StateIsGood DEF Status
  <2>5. Good(NewRecord(txn[w].cmd, txn[w].review))
    BY <2>2, NewRecordIsGood
  <2>6. UNCHANGED frozen
    BY <1>6 DEF Replace
  <2> QED BY <2>1, <2>4, <2>5, <2>6, ReplacesRow
<1>7. CASE Insert(w)
  <2>1. /\ mem' = Append(mem, NewRecord(txn[w].cmd, txn[w].review))
        /\ Done(w, {Len(mem) + 1})
        /\ UNCHANGED frozen
    BY <1>7 DEF Insert
  <2>2. txn[w].op = "create"
    BY <1>7 DEF Insert, Creating, Hit
  <2>3. Good(NewRecord(txn[w].cmd, txn[w].review))
    BY <2>2, Fields, NewRecordIsGood
  <2> QED BY <2>1, <2>3, AddsRow
<1> QED BY <1>1, <1>2, <1>3, <1>4, <1>5, <1>6, <1>7 DEF CreateStep

LEMMA SetStateGrows ==
  ASSUME MInv, NEW w \in Writers, NEW kind, NEW status \in Status,
         NEW review \in Review, SetState(w, kind, status, review)
  PROVE  Grows
<1>1. txn[w].row \in DOMAIN mem /\ mem[txn[w].row] \in Record
  BY Fields, RowFacts DEF SetState, Reviewing
<1>2. Good(WithState(mem[txn[w].row], status, review))
  BY <1>1, StateIsGood
<1>3. /\ mem' = [mem EXCEPT ![txn[w].row] = WithState(mem[txn[w].row], status, review)]
      /\ Done(w, {txn[w].row})
      /\ UNCHANGED frozen
  BY DEF SetState
<1> QED BY <1>1, <1>2, <1>3, ChangesRow

LEMMA ReviewGrows ==
  ASSUME MInv, NEW w \in Writers, ReviewStep(w)
  PROVE  Grows
<1>1. CASE \E kind \in Operations, r \in DOMAIN mem : BeginReview(w, kind, r)
  <2>1. PICK kind \in Operation, r \in DOMAIN mem : BeginReview(w, kind, r)
    BY <1>1, LifecycleAssumption
  <2> DEFINE t == [op |-> "review", kind |-> kind, row |-> r]
  <2>2. txn' = [txn EXCEPT ![w] = t] /\ UNCHANGED <<mem, frozen>> /\ announced' = {}
    BY <2>1 DEF BeginReview
  <2>3. t \in Txn /\ t.row \in DOMAIN mem
    BY RowFacts DEF Txn
  <2> HIDE DEF t
  <2> QED BY <2>2, <2>3, Waits
<1>2. CASE Approve(w) \/ Reject(w)
  BY <1>2, SetStateGrows DEF Approve, Reject, Status, Review, Accepted
<1>3. CASE Archive(w) \/ Tombstone(w)
  <2>1. Reviewing(w, "archive") \/ Reviewing(w, "tombstone")
    BY <1>3 DEF Archive, Tombstone, SetState
  <2>2. txn[w].row \in DOMAIN mem
    BY <2>1, Fields DEF Reviewing
  <2>3. mem[txn[w].row].review \in Review
    BY <2>2, RowFacts DEF Record
  <2> QED BY <1>3, <2>3, SetStateGrows DEF Archive, Tombstone, Status
<1>4. ASSUME NEW e \in Edits, Supersede(w, e) PROVE Grows
  <2> DEFINE r == txn[w].row
  <2>1. /\ mem' = Append([mem EXCEPT ![r] = WithState(mem[r], "superseded", mem[r].review)],
                         NextVersion(r, e))
        /\ Done(w, {r, Len(mem) + 1})
        /\ UNCHANGED frozen
    BY <1>4 DEF Supersede
  <2>2. r \in DOMAIN mem /\ mem[r] \in Record
    BY <1>4, Fields, RowFacts DEF Supersede, Reviewing
  <2>3. Good(WithState(mem[r], "superseded", mem[r].review))
    BY <2>2, StateIsGood DEF Record, Status
  <2>4. e \in Edit /\ r \in Nat
    BY <2>2, RowFacts, LifecycleAssumption
  <2>5. Good(NextVersion(r, e))
    BY <2>2, <2>4 DEF NextVersion, Good, Live, Record, Status, Edit, Review
  <2> HIDE DEF r
  <2> QED BY <2>1, <2>2, <2>3, <2>5, ReplacesRow
<1>5. ASSUME NEW e \in Edits, UpdateCandidate(w, e) PROVE Grows
  <2> DEFINE r == txn[w].row
  <2>1. mem' = [mem EXCEPT ![r] = WithPayload(mem[r], e)] /\ Done(w, {r}) /\ UNCHANGED frozen
    BY <1>5 DEF UpdateCandidate
  <2>2. r \in DOMAIN mem /\ Good(mem[r])
    BY <1>5, Fields, RowFacts DEF UpdateCandidate, Reviewing
  <2>3. e \in Edit
    BY LifecycleAssumption
  <2>4. Good(WithPayload(mem[r], e))
    BY <2>2, <2>3, PayloadIsGood DEF Edit
  <2> HIDE DEF r
  <2> QED BY <2>1, <2>2, <2>4, ChangesRow
<1> QED BY <1>1, <1>2, <1>3, <1>4, <1>5 DEF ReviewStep

LEMMA ServiceKeepsInv ==
  ASSUME MInv, Next, UNCHANGED tools
  PROVE  MInv'
<1>1. ASSUME NEW w \in Writers, Rollback(w) PROVE Grows
  <2>1. mem' = mem /\ Done(w, {}) /\ UNCHANGED frozen
    BY <1>1 DEF Rollback
  <2>2. Table(mem')
    BY <2>1 DEF MInv
  <2> QED BY <2>1, <2>2, Commits
<1>2. ASSUME NEW s \in Scopes, Freeze(s) \/ Thaw(s) PROVE Grows
  <2>1. UNCHANGED <<mem, txn>> /\ frozen' \subseteq Scopes /\ announced' = {}
    BY <1>2 DEF Freeze, Thaw, MInv
  <2> QED BY <2>1 DEF Grows, MInv, LocksInTable
<1>3. Grows
  BY <1>1, <1>2, CreateGrows, ReviewGrows DEF Next
<1> QED BY <1>3, GrowsKeeps

-----------------------------------------------------------------------------
(* The scripts *)

LEMMA Rewrites ==
  ASSUME MInv, DOMAIN mem' = DOMAIN mem, mem' = [i \in DOMAIN mem |-> mem'[i]],
         \A i \in DOMAIN mem : Good(mem'[i]),
         UNCHANGED <<txn, frozen>>, announced' \subseteq DOMAIN mem
  PROVE  Grows
<1>1. Table(mem')
  BY SetRow DEF MInv
<1>2. LocksInTable'
  BY DEF MInv, LocksInTable
<1> QED BY <1>1, <1>2 DEF MInv, Grows

\* A step of a script that leaves its own variables fit to be used later.
LEMMA ScriptKeepsInv ==
  ASSUME MInv, Grows, DOMAIN mem' = DOMAIN mem,
         SweptTyped(swept'), BacklogTyped(backlog'), keyless' \subseteq DOMAIN mem,
         targets' \subseteq Target, \A t \in targets' : Kept(t),
         made' \in Removal \cup {NoAction}, made' # NoAction => Kept(made'),
         FoundTyped',
         ledger' \in Seq(Removal \cup Update),
         \A a \in DOMAIN ledger' : /\ Kept(ledger'[a])
                                   /\ ledger'[a].kind = "update" => ledger'[a].old \in DOMAIN mem
  PROVE  MInv'
<1>1. LedgerKept'
  BY DEF LedgerKept, Kept
<1>2. (\A t \in targets : Kept(t))' /\ (made # NoAction => Kept(made))'
  BY DEF Kept
<1>3. SweptTyped(swept)' /\ BacklogTyped(backlog)'
  BY DEF SweptTyped, BacklogTyped
<1> QED BY <1>1, <1>2, <1>3 DEF MInv, Grows

LEMMA Unchanged ==
  ASSUME MInv, UNCHANGED <<mem, txn, frozen>>, announced' = {}
  PROVE  Grows /\ DOMAIN mem' = DOMAIN mem
BY DEF MInv, Grows, LocksInTable, Table, Good, Live

LEMMA OpensKeepInv ==
  ASSUME MInv, \/ ReadCandidates \/ ReadTargets \/ FindDuplicates \/ RepairStops \/ GovernanceStops
               \/ ReadBacklog \/ BackfillStops \/ ReadKeyless \/ DebtPlanStops
               \/ \E r \in DOMAIN found : ReadStatus(r)
               \/ \E t \in targets : SkipTarget(t)
  PROVE  MInv'
<1>0. Grows /\ DOMAIN mem' = DOMAIN mem
  BY Unchanged DEF ReadCandidates, ReadTargets, FindDuplicates, RepairStops, GovernanceStops,
                   ReadStatus, SkipTarget, ReadBacklog, BackfillStops,
                   ReadKeyless, DebtPlanStops
<1>1. CASE ReadCandidates
  <2>1. SweptTyped(swept') /\ UNCHANGED <<mem, backlog, keyless, targets, made, found, ledger>>
    BY <1>1, RowFacts DEF ReadCandidates, SweptTyped, Record
  <2> QED BY <1>0, <2>1, ScriptKeepsInv DEF MInv, FoundTyped, LedgerKept
<1>2. CASE ReadTargets
  <2>1. UNCHANGED <<mem, swept, backlog, keyless, made, found, ledger>>
    BY <1>2 DEF ReadTargets
  <2>2. ASSUME NEW t \in targets' PROVE t \in Target /\ Kept(t)
    <3>1. PICK kind \in {"archive", "tombstone"}, r \in DOMAIN mem :
            t = [kind |-> kind, row |-> r, before |-> StateOf(mem[r])]
      BY <1>2, <2>2 DEF ReadTargets, Losers
    <3>2. Sane(StateOf(mem[r])) /\ r \in Nat \ {0}
      BY RowFacts, StateOfIsSane
    <3> QED BY <3>1, <3>2 DEF Target, Kept, Sane
  <2> QED BY <1>0, <2>1, <2>2, ScriptKeepsInv DEF MInv, FoundTyped, LedgerKept
<1>3. CASE FindDuplicates
  <2>1. UNCHANGED <<mem, swept, backlog, keyless, targets, made, ledger>>
    BY <1>3 DEF FindDuplicates
  <2>2. PICK dup \in SUBSET DOMAIN mem : found' = [r \in dup |-> Unread]
    BY <1>3 DEF FindDuplicates, Losers
  <2>3. FoundTyped'
    BY <2>1, <2>2 DEF FoundTyped
  <2> QED BY <1>0, <2>1, <2>3, ScriptKeepsInv DEF MInv, LedgerKept
<1>4. CASE RepairStops
  <2>1. UNCHANGED <<mem, swept, backlog, keyless, targets, made, ledger>> /\ found' = NoRows
    BY <1>4 DEF RepairStops
  <2>2. FoundTyped'
    BY <2>1 DEF FoundTyped, NoRows
  <2> QED BY <1>0, <2>1, <2>2, ScriptKeepsInv DEF MInv, LedgerKept
<1>5. CASE GovernanceStops
  <2>1. UNCHANGED <<mem, swept, backlog, keyless, found, ledger>> /\ targets' = {} /\ made' = NoAction
    BY <1>5 DEF GovernanceStops
  <2> QED BY <1>0, <2>1, ScriptKeepsInv DEF MInv, FoundTyped, LedgerKept
<1>6. ASSUME NEW r \in DOMAIN found, ReadStatus(r) PROVE MInv'
  <2>1. UNCHANGED <<mem, swept, backlog, keyless, targets, made, ledger>>
    BY <1>6 DEF ReadStatus
  <2>2. found' = [found EXCEPT ![r] = mem[r].status]
    BY <1>6 DEF ReadStatus
  <2>3. mem[r].status \in Status
    BY RowFacts DEF MInv, FoundTyped, Record
  <2>4. FoundTyped'
    BY <2>1, <2>2, <2>3 DEF MInv, FoundTyped
  <2> QED BY <1>0, <2>1, <2>4, ScriptKeepsInv DEF MInv, LedgerKept
<1>7. ASSUME NEW t \in targets, SkipTarget(t) PROVE MInv'
  <2>1. UNCHANGED <<mem, swept, backlog, keyless, made, found, ledger>> /\ targets' \subseteq targets
    BY <1>7 DEF SkipTarget
  <2> QED BY <1>0, <2>1, ScriptKeepsInv DEF MInv, FoundTyped, LedgerKept
<1>8. CASE ReadBacklog \/ BackfillStops
  <2>1. UNCHANGED <<mem, swept, keyless, targets, made, found, ledger>>
    BY <1>8 DEF ReadBacklog, BackfillStops
  <2>2. CASE ReadBacklog
    <3>1. PICK rows \in SUBSET DOMAIN mem :
            \E way \in [rows -> IF Withholds THEN {"reject", "mark"} ELSE {"reject"}] :
              backlog' = [r \in rows |-> [way |-> way[r], meta |-> mem[r].meta]]
      BY <2>2 DEF ReadBacklog
    <3>2. PICK way \in [rows -> IF Withholds THEN {"reject", "mark"} ELSE {"reject"}] :
            backlog' = [r \in rows |-> [way |-> way[r], meta |-> mem[r].meta]]
      BY <3>1
    <3>3. \A r \in rows : mem[r].meta \in Meta /\ way[r] \in {"reject", "mark"}
      BY RowFacts DEF Record
    <3>4. BacklogTyped(backlog')
      BY <3>2, <3>3 DEF BacklogTyped, Verdict
    <3> QED BY <1>0, <2>1, <3>4, ScriptKeepsInv DEF MInv, FoundTyped, LedgerKept
  <2>3. CASE BackfillStops
    <3>1. BacklogTyped(backlog')
      BY <2>3 DEF BackfillStops, BacklogTyped, NoRows
    <3> QED BY <1>0, <2>1, <3>1, ScriptKeepsInv DEF MInv, FoundTyped, LedgerKept
  <2> QED BY <1>8, <2>2, <2>3
<1>9. CASE ReadKeyless \/ DebtPlanStops
  <2>1. keyless' \subseteq DOMAIN mem /\ UNCHANGED <<mem, swept, backlog, targets, made, found, ledger>>
    BY <1>9 DEF ReadKeyless, DebtPlanStops
  <2> QED BY <1>0, <2>1, ScriptKeepsInv DEF MInv, FoundTyped, LedgerKept
<1> QED BY <1>1, <1>2, <1>3, <1>4, <1>5, <1>6, <1>7, <1>8, <1>9

\* entries of the ledger, by kind
LEMMA LedgerEntry ==
  ASSUME MInv, NEW a \in DOMAIN ledger
  PROVE  /\ ledger[a] \in Removal \cup Update
         /\ ledger[a].row \in DOMAIN mem
         /\ ledger[a].kind = "update" => ledger[a] \in Update /\ ledger[a].old \in DOMAIN mem
         /\ ledger[a].kind \in {"archive", "tombstone"} => ledger[a] \in Removal /\ Sane(ledger[a].before)
BY DEF MInv, LedgerKept, Kept, Removal, Update

\* an undo leaves the ledger as it was but for the mark
LEMMA MarkKeepsLedger ==
  ASSUME MInv, NEW a \in DOMAIN ledger, ledger' = [ledger EXCEPT ![a].reverted = TRUE]
  PROVE  /\ ledger' \in Seq(Removal \cup Update)
         /\ \A b \in DOMAIN ledger' : /\ Kept(ledger'[b])
                                      /\ ledger'[b].kind = "update" => ledger'[b].old \in DOMAIN mem
<1> DEFINE e == [ledger[a] EXCEPT !.reverted = TRUE]
<1>1. ledger \in Seq(Removal \cup Update) /\ ledger' = [ledger EXCEPT ![a] = e]
  BY DEF MInv, LedgerKept
<1>2. e \in Removal \cup Update
  <2>1. CASE ledger[a] \in Removal
    BY <2>1 DEF Removal
  <2>2. CASE ledger[a] \in Update
    BY <2>2 DEF Update
  <2> QED BY <2>1, <2>2, LedgerEntry
<1>3. /\ Kept(e)
      /\ e.kind = "update" => e.old \in DOMAIN mem
  BY LedgerEntry DEF Removal, Update, Kept
<1> HIDE DEF e
<1> DEFINE Entry == Removal \cup Update
<1> HIDE DEF Entry
<1>4. DOMAIN ledger' = DOMAIN ledger /\ ledger' \in Seq(Removal \cup Update)
  <2>1. ledger \in Seq(Entry) /\ e \in Entry
    BY <1>1, <1>2 DEF Entry
  <2>2. DOMAIN ledger = 1..Len(ledger) /\ Len(ledger) \in Nat /\ ledger \in [1..Len(ledger) -> Entry]
    BY <2>1
  <2>3. DOMAIN ledger' = DOMAIN ledger /\ ledger' \in [1..Len(ledger) -> Entry]
    BY <1>1, <2>1, <2>2
  <2>4. ledger' \in Seq(Entry)
    BY <2>2, <2>3
  <2> QED BY <2>3, <2>4 DEF Entry
<1>5. \A b \in DOMAIN ledger : ledger'[b] = IF b = a THEN e ELSE ledger[b]
  BY <1>1
<1> QED BY <1>3, <1>4, <1>5 DEF MInv, LedgerKept

\* a row the governance run or an undo writes
LEMMA OneRow ==
  ASSUME MInv, NEW r \in DOMAIN mem, NEW d, Good(d), mem' = [mem EXCEPT ![r] = d],
         UNCHANGED <<txn, frozen>>, announced' = {r}
  PROVE  Grows /\ DOMAIN mem' = DOMAIN mem
<1>1. DOMAIN mem' = DOMAIN mem /\ mem' = [i \in DOMAIN mem |-> mem'[i]]
  BY RowFacts
<1>2. \A i \in DOMAIN mem : Good(mem'[i])
  BY RowFacts
<1> QED BY <1>1, <1>2, Rewrites

LEMMA TwoRows ==
  ASSUME MInv, NEW n \in DOMAIN mem, NEW o \in DOMAIN mem, NEW c, Good(c), NEW d, Good(d),
         mem' = [mem EXCEPT ![o] = c, ![n] = d],
         UNCHANGED <<txn, frozen>>, announced' = {n, o}
  PROVE  Grows /\ DOMAIN mem' = DOMAIN mem
<1>1. DOMAIN mem' = DOMAIN mem /\ mem' = [i \in DOMAIN mem |-> mem'[i]]
  BY RowFacts
<1>2. \A i \in DOMAIN mem : Good(mem'[i])
  BY RowFacts
<1> QED BY <1>1, <1>2, Rewrites

LEMMA WithReview ==
  ASSUME MInv, NEW r \in DOMAIN mem, NEW status \in Status
  PROVE  Good(WithState(mem[r], status, mem[r].review))
<1>1. mem[r] \in Record /\ mem[r].review \in Review
  BY RowFacts DEF Record
<1> QED BY <1>1, StateIsGood

\* the two backfills of missing fields
LEMMA KeysKeepRows ==
  ASSUME MInv, NEW rows \in SUBSET DOMAIN mem, NEW key \in [rows -> Keys],
         mem' = [r \in DOMAIN mem |-> IF r \in rows THEN KeyFilled(mem[r], key[r]) ELSE mem[r]],
         UNCHANGED <<txn, frozen>>, announced' \subseteq DOMAIN mem
  PROVE  Grows /\ DOMAIN mem' = DOMAIN mem
<1>1. DOMAIN mem' = DOMAIN mem /\ mem' = [i \in DOMAIN mem |-> mem'[i]]
  OBVIOUS
<1>2. \A r \in rows : Good(KeyFilled(mem[r], key[r]))
  BY RowFacts, KeyIsGood
<1>3. \A i \in DOMAIN mem : Good(mem'[i])
  BY <1>2, RowFacts
<1> QED BY <1>1, <1>3, Rewrites

\* a candidate the sweep or the policy backfill decides on
Decided(m, status, review, meta) == [WithState(m, status, review) EXCEPT !.meta = meta]

LEMMA SweptRows ==
  ASSUME MInv, Sweep
  PROVE  /\ DOMAIN mem' = DOMAIN mem /\ mem' = [i \in DOMAIN mem |-> mem'[i]]
         /\ announced' \subseteq DOMAIN mem
         /\ \A r \in DOMAIN mem :
              \/ mem'[r] = mem[r]
              \/ /\ r \notin Locked /\ StillPending(mem[r])
                 /\ \E meta \in Meta :
                      \/ /\ r \in announced'
                         /\ mem'[r] = Decided(mem[r], "approved", "silent_approved", meta)
                      \/ mem'[r] = Decided(mem[r], "rejected", "rejected", meta)
<1>1. PICK yes, no, hidden \in SUBSET DOMAIN swept :
        /\ Free(yes \cup no)
        /\ mem' = [r \in DOMAIN mem |->
             CASE r \in yes /\ StillPending(mem[r]) ->
                    [WithState(mem[r], "approved", "silent_approved")
                      EXCEPT !.meta = [swept[r] EXCEPT !.withheld = r \in hidden]]
               [] r \in no /\ StillPending(mem[r])  ->
                    [WithState(mem[r], "rejected", "rejected") EXCEPT !.meta = Withheld(swept[r])]
               [] OTHER -> mem[r]]
        /\ announced' = yes
  <2>1. PICK yes, no \in SUBSET DOMAIN swept : \E hidden \in IF Withholds THEN SUBSET yes ELSE {{}} :
        /\ Free(yes \cup no)
        /\ mem' = [r \in DOMAIN mem |->
             CASE r \in yes /\ StillPending(mem[r]) ->
                    [WithState(mem[r], "approved", "silent_approved")
                      EXCEPT !.meta = [swept[r] EXCEPT !.withheld = r \in hidden]]
               [] r \in no /\ StillPending(mem[r])  ->
                    [WithState(mem[r], "rejected", "rejected") EXCEPT !.meta = Withheld(swept[r])]
               [] OTHER -> mem[r]]
        /\ announced' = yes
    BY DEF Sweep
  <2>2. \A hidden \in IF Withholds THEN SUBSET yes ELSE {{}} : hidden \in SUBSET DOMAIN swept
    OBVIOUS
  <2> QED BY <2>1, <2>2
<1>2. DOMAIN mem' = DOMAIN mem /\ mem' = [i \in DOMAIN mem |-> mem'[i]]
  BY <1>1
<1>3. announced' \subseteq DOMAIN mem
  BY <1>1 DEF MInv, SweptTyped
<1>4. ASSUME NEW r \in DOMAIN mem, mem'[r] # mem[r]
      PROVE  /\ r \notin Locked /\ StillPending(mem[r])
             /\ \E meta \in Meta :
                  \/ /\ r \in announced'
                     /\ mem'[r] = Decided(mem[r], "approved", "silent_approved", meta)
                  \/ mem'[r] = Decided(mem[r], "rejected", "rejected", meta)
  <2> DEFINE shown == [swept[r] EXCEPT !.withheld = r \in hidden]
  <2>1. /\ StillPending(mem[r])
        /\ \/ /\ r \in yes
              /\ mem'[r] = Decided(mem[r], "approved", "silent_approved", shown)
           \/ r \in no /\ mem'[r] = Decided(mem[r], "rejected", "rejected", Withheld(swept[r]))
    BY <1>1, <1>4 DEF Decided
  <2>2. swept[r] \in Meta
    BY <2>1 DEF MInv, SweptTyped
  <2>3. (r \in hidden) \in BOOLEAN
    OBVIOUS
  <2>4. shown \in Meta /\ Withheld(swept[r]) \in Meta
    BY <2>2, <2>3, WithheldIsMeta
  <2>5. r \notin Locked
    BY <1>1, <2>1 DEF Free
  <2> HIDE DEF shown
  <2> QED BY <1>1, <2>1, <2>4, <2>5
<1> QED BY <1>2, <1>3, <1>4

LEMMA SweepsKeepInv ==
  ASSUME MInv, \/ Sweep \/ BackfillReject \/ BackfillMark \/ FillKeys
               \/ Consolidate \/ CloseReviews \/ Demote
  PROVE  MInv'
<1>1. CASE Sweep
  <2>1. \A r \in DOMAIN mem : Good(mem[r]) /\ Good(WithState(mem[r], "approved", "silent_approved"))
                                /\ Good(WithState(mem[r], "rejected", "rejected"))
    BY RowFacts, StateIsGood DEF Status, Review, Accepted
  <2>2. \A i \in DOMAIN mem : Good(mem'[i])
    BY <1>1, <2>1, SweptRows, MetaIsGood DEF Decided
  <2>3. UNCHANGED <<txn, frozen, backlog, keyless, targets, made, found, ledger>> /\ swept' = NoRows
    BY <1>1 DEF Sweep
  <2>4. Grows /\ DOMAIN mem' = DOMAIN mem
    BY <1>1, <2>2, <2>3, SweptRows, Rewrites
  <2>5. SweptTyped(swept')
    BY <2>3 DEF SweptTyped, NoRows
  <2> QED BY <2>3, <2>4, <2>5, ScriptKeepsInv DEF MInv, FoundTyped, LedgerKept
<1>2. CASE Consolidate
  <2>1. PICK weak \in SUBSET DOMAIN mem :
          mem' = [r \in DOMAIN mem |->
                    IF r \in weak THEN WithState(mem[r], "archived", mem[r].review) ELSE mem[r]]
    BY <1>2 DEF Consolidate
  <2>2. \A r \in DOMAIN mem : Good(WithState(mem[r], "archived", mem[r].review)) /\ Good(mem[r])
    BY RowFacts, WithReview DEF Status
  <2>3. DOMAIN mem' = DOMAIN mem /\ mem' = [i \in DOMAIN mem |-> mem'[i]]
    BY <2>1
  <2>4. \A i \in DOMAIN mem : Good(mem'[i])
    BY <2>1, <2>2
  <2>5. UNCHANGED <<txn, frozen, tools>> /\ announced' = {}
    BY <1>2 DEF Consolidate
  <2>6. Grows
    BY <2>3, <2>4, <2>5, Rewrites
  <2> QED BY <2>3, <2>5, <2>6, GrowsKeeps
<1>3. CASE Demote
  <2> DEFINE d(r) == [mem[r] EXCEPT !.status = IF found[r] = "approved" THEN "superseded" ELSE found[r],
                                    !.current = FALSE]
  <2>1. mem' = [r \in DOMAIN mem |-> IF r \in DOMAIN found THEN d(r) ELSE mem[r]]
    BY <1>3 DEF Demote
  <2>2. ASSUME NEW r \in DOMAIN mem, r \in DOMAIN found PROVE Good(d(r))
    <3>1. found[r] \in Status
      BY <1>3, <2>2 DEF Demote, MInv, FoundTyped
    <3>2. mem[r] \in Record
      BY RowFacts
    <3> QED BY <3>1, <3>2 DEF Good, Record, Status
  <2> HIDE DEF d
  <2>3. DOMAIN mem' = DOMAIN mem /\ mem' = [i \in DOMAIN mem |-> mem'[i]]
    BY <2>1
  <2>4. \A i \in DOMAIN mem : Good(mem'[i])
    BY <2>1, <2>2, RowFacts
  <2>5. UNCHANGED <<txn, frozen, swept, backlog, keyless, targets, made, ledger>> /\ found' = NoRows
    BY <1>3 DEF Demote
  <2>6. announced' \subseteq DOMAIN mem
    BY <1>3 DEF Demote, MInv, FoundTyped
  <2>7. Grows
    BY <2>3, <2>4, <2>5, <2>6, Rewrites
  <2>8. FoundTyped'
    BY <2>5 DEF FoundTyped, NoRows
  <2> QED BY <2>3, <2>5, <2>7, <2>8, ScriptKeepsInv DEF MInv, LedgerKept
<1>4. CASE BackfillReject \/ BackfillMark
  <2>1. PICK r \in DOMAIN backlog :
          /\ mem' = [mem EXCEPT ![r] = IF BackfillReject
                                        THEN [WithState(mem[r], "rejected", "rejected")
                                                EXCEPT !.meta = Withheld(backlog[r].meta)]
                                        ELSE [mem[r] EXCEPT !.meta = Withheld(backlog[r].meta)]]
          /\ backlog' = Without(backlog, r)
    <3>1. CASE BackfillReject
      BY <3>1 DEF BackfillReject
    <3>2. CASE BackfillMark /\ ~BackfillReject
      <4>1. PICK r \in DOMAIN backlog :
              /\ mem' = [mem EXCEPT ![r].meta = Withheld(backlog[r].meta)]
              /\ backlog' = Without(backlog, r)
        BY <3>2 DEF BackfillMark
      <4>2. mem' = [mem EXCEPT ![r] = [mem[r] EXCEPT !.meta = Withheld(backlog[r].meta)]]
        BY <4>1
      <4> QED BY <3>2, <4>1, <4>2
    <3> QED BY <1>4, <3>1, <3>2
  <2>2. /\ r \in DOMAIN mem /\ Good(mem[r]) /\ Good(WithState(mem[r], "rejected", "rejected"))
        /\ Withheld(backlog[r].meta) \in Meta
    <3>1. r \in DOMAIN mem /\ backlog[r].meta \in Meta
      BY DEF MInv, BacklogTyped, Verdict
    <3> QED BY <3>1, RowFacts, StateIsGood, WithheldIsMeta DEF Status, Review
  <2> DEFINE d == IF BackfillReject
                  THEN [WithState(mem[r], "rejected", "rejected") EXCEPT !.meta = Withheld(backlog[r].meta)]
                  ELSE [mem[r] EXCEPT !.meta = Withheld(backlog[r].meta)]
  <2>21. Good(d) /\ mem' = [mem EXCEPT ![r] = d]
    BY <2>1, <2>2, MetaIsGood
  <2> HIDE DEF d
  <2>3. DOMAIN mem' = DOMAIN mem /\ mem' = [i \in DOMAIN mem |-> mem'[i]]
    BY <2>21, RowFacts
  <2>4. \A i \in DOMAIN mem : Good(mem'[i])
    BY <2>2, <2>21, RowFacts
  <2>5. UNCHANGED <<txn, frozen, swept, keyless, targets, made, found, ledger>> /\ announced' = {}
    BY <1>4 DEF BackfillReject, BackfillMark
  <2>6. Grows
    BY <2>3, <2>4, <2>5, Rewrites
  <2>7. BacklogTyped(backlog')
    BY <2>1 DEF Without, MInv, BacklogTyped
  <2> QED BY <2>3, <2>5, <2>6, <2>7, ScriptKeepsInv DEF MInv, FoundTyped, LedgerKept
<1>6. CASE FillKeys
  <2>1. PICK key \in [keyless -> Keys] :
          mem' = [r \in DOMAIN mem |-> IF r \in keyless THEN KeyFilled(mem[r], key[r]) ELSE mem[r]]
    BY <1>6 DEF FillKeys
  <2>2. UNCHANGED <<txn, frozen, swept, backlog, targets, made, found, ledger>> /\ announced' = {} /\ keyless' = {}
    BY <1>6 DEF FillKeys
  <2>3. keyless \in SUBSET DOMAIN mem
    BY DEF MInv
  <2>4. Grows /\ DOMAIN mem' = DOMAIN mem
    BY <2>1, <2>2, <2>3, KeysKeepRows
  <2> QED BY <2>2, <2>4, ScriptKeepsInv DEF MInv, FoundTyped, LedgerKept
<1>5. CASE CloseReviews
  <2>1. PICK open \in SUBSET DOMAIN mem :
          mem' = [r \in DOMAIN mem |->
                    IF r \in open THEN [mem[r] EXCEPT !.review = "rejected"] ELSE mem[r]]
    BY <1>5 DEF CloseReviews
  <2>2. \A r \in DOMAIN mem : Good([mem[r] EXCEPT !.review = "rejected"]) /\ Good(mem[r])
    BY RowFacts DEF Good, Live, Record, Review
  <2>3. DOMAIN mem' = DOMAIN mem /\ mem' = [i \in DOMAIN mem |-> mem'[i]]
    BY <2>1
  <2>4. \A i \in DOMAIN mem : Good(mem'[i])
    BY <2>1, <2>2
  <2>5. UNCHANGED <<txn, frozen, tools>> /\ announced' = {}
    BY <1>5 DEF CloseReviews
  <2>6. Grows
    BY <2>3, <2>4, <2>5, Rewrites
  <2> QED BY <2>3, <2>5, <2>6, GrowsKeeps
<1> QED BY <1>1, <1>2, <1>3, <1>4, <1>5, <1>6

LEMMA GovernanceKeepsInv ==
  ASSUME MInv, GovernanceStep
  PROVE  MInv'
<1>1. ASSUME NEW t \in targets, Remove(t) PROVE MInv'
  <2>1. t \in Target /\ t.row \in DOMAIN mem /\ Kept(t)
    BY DEF MInv, Kept
  <2>2. Removed(t.kind) \in Status
    BY DEF Removed, Status
  <2>3. Good(WithState(mem[t.row], Removed(t.kind), mem[t.row].review))
    BY <2>1, <2>2, WithReview
  <2>4. /\ mem' = [mem EXCEPT ![t.row] = WithState(mem[t.row], Removed(t.kind), mem[t.row].review)]
        /\ UNCHANGED <<txn, frozen, swept, backlog, keyless, found, ledger>> /\ announced' = {t.row}
        /\ made' = [kind |-> t.kind, row |-> t.row, before |-> t.before,
                    replaced |-> StateOf(mem[t.row]), reverted |-> FALSE]
        /\ targets' \subseteq targets
    BY <1>1 DEF Remove
  <2>5. Grows /\ DOMAIN mem' = DOMAIN mem
    BY <2>1, <2>3, <2>4, OneRow
  <2>6. StateOf(mem[t.row]) \in State
    BY <2>1, RowFacts, StateOfIsSane DEF Sane
  <2>7. made' \in Removal /\ Kept(made')
    BY <2>1, <2>4, <2>6 DEF Removal, Target, Kept
  <2> QED BY <2>4, <2>5, <2>7, ScriptKeepsInv DEF MInv, FoundTyped, LedgerKept
<1>2. CASE RecordAction
  <2>1. /\ UNCHANGED <<mem, txn, frozen, swept, backlog, keyless, targets, found>> /\ announced' = {}
        /\ made # NoAction /\ made' = NoAction /\ ledger' = Append(ledger, made)
    BY <1>2 DEF RecordAction
  <2>2. made \in Removal /\ Kept(made) /\ made.kind # "update"
    BY <2>1 DEF MInv, Removal
  <2>3. ledger \in Seq(Removal \cup Update)
    BY DEF MInv, LedgerKept
  <2>4. ledger' \in Seq(Removal \cup Update)
    BY <2>1, <2>2, <2>3
  <2>5. \A a \in DOMAIN ledger' : (a \in DOMAIN ledger /\ ledger'[a] = ledger[a]) \/ ledger'[a] = made
    BY <2>1, <2>2, <2>3
  <2>6. \A a \in DOMAIN ledger' : /\ Kept(ledger'[a])
                                  /\ ledger'[a].kind = "update" => ledger'[a].old \in DOMAIN mem
    BY <2>2, <2>5 DEF MInv, LedgerKept
  <2>7. Grows /\ DOMAIN mem' = DOMAIN mem
    BY <2>1, Unchanged
  <2> QED BY <2>1, <2>4, <2>6, <2>7, ScriptKeepsInv DEF MInv, FoundTyped
<1>3. CASE BackfillProvenance
  <2>1. PICK rows \in SUBSET DOMAIN mem :
          /\ \E key \in [rows -> Keys] :
               mem' = [r \in DOMAIN mem |-> IF r \in rows THEN KeyFilled(mem[r], key[r]) ELSE mem[r]]
          /\ announced' = rows
    BY <1>3 DEF BackfillProvenance
  <2>2. UNCHANGED <<txn, frozen, tools>>
    BY <1>3 DEF BackfillProvenance
  <2>3. Grows
    BY <2>1, <2>2, KeysKeepRows
  <2> QED BY <2>2, <2>3, GrowsKeeps
<1> QED BY <1>1, <1>2, <1>3, OpensKeepInv DEF GovernanceStep

LEMMA UpdateKeepsInv ==
  ASSUME MInv, NEW n \in DOMAIN mem, NEW o \in DOMAIN mem, ApplyUpdate(n, o)
  PROVE  MInv'
<1>1. PICK status \in {"superseded", "archived"} :
        mem' = [mem EXCEPT ![o] = WithState(mem[o], status, mem[o].review),
                           ![n] = WithState(mem[n], "approved", "silent_approved")]
  BY DEF ApplyUpdate
<1>2. Good(WithState(mem[o], status, mem[o].review)) /\ Good(WithState(mem[n], "approved", "silent_approved"))
  BY RowFacts, WithReview, StateIsGood DEF Status, Review, Accepted
<1> DEFINE u == [kind |-> "update", row |-> n, old |-> o, reverted |-> FALSE]
<1>3. /\ UNCHANGED <<txn, frozen, swept, backlog, keyless, targets, made, found>> /\ announced' = {n, o}
      /\ ledger' = Append(ledger, u)
  BY DEF ApplyUpdate
<1>4. Grows /\ DOMAIN mem' = DOMAIN mem
  BY <1>1, <1>2, <1>3, TwoRows
<1>5. u \in Update /\ Kept(u) /\ u.old \in DOMAIN mem
  BY RowFacts DEF Update, Kept
<1> HIDE DEF u
<1>6. ledger \in Seq(Removal \cup Update)
  BY DEF MInv, LedgerKept
<1>7. ledger' \in Seq(Removal \cup Update)
  BY <1>3, <1>5, <1>6
<1>8. \A a \in DOMAIN ledger' : (a \in DOMAIN ledger /\ ledger'[a] = ledger[a]) \/ ledger'[a] = u
  BY <1>3, <1>5, <1>6
<1>9. \A a \in DOMAIN ledger' : /\ Kept(ledger'[a])
                                /\ ledger'[a].kind = "update" => ledger'[a].old \in DOMAIN mem
  BY <1>5, <1>8 DEF MInv, LedgerKept
<1> QED BY <1>3, <1>4, <1>7, <1>9, ScriptKeepsInv DEF MInv, FoundTyped

LEMMA UndoKeepsInv ==
  ASSUME MInv, NEW a \in DOMAIN ledger, Revert(a) \/ RollBackUpdate(a)
  PROVE  MInv'
<1>1. UNCHANGED <<txn, frozen, swept, backlog, keyless, targets, made, found>> /\ ledger' = [ledger EXCEPT ![a].reverted = TRUE]
  BY DEF Revert, RollBackUpdate
<1>2. CASE Revert(a)
  <2>1. /\ ledger[a].row \in DOMAIN mem /\ Sane(ledger[a].before)
    BY <1>2, LedgerEntry DEF Revert
  <2>2. /\ mem' = [mem EXCEPT ![ledger[a].row] = Restored(mem[ledger[a].row], ledger[a].before)]
        /\ announced' = {ledger[a].row}
    BY <1>2 DEF Revert
  <2>3. Good(Restored(mem[ledger[a].row], ledger[a].before))
    BY <2>1, RowFacts, RestoredIsGood
  <2>4. Grows /\ DOMAIN mem' = DOMAIN mem
    BY <1>1, <2>1, <2>2, <2>3, OneRow
  <2> QED BY <1>1, <2>4, MarkKeepsLedger, ScriptKeepsInv DEF MInv, FoundTyped
<1>3. CASE RollBackUpdate(a)
  <2> DEFINE n == ledger[a].row
             o == ledger[a].old
             review == IF mem[o].review = "pending" THEN "silent_approved" ELSE mem[o].review
  <2>1. n \in DOMAIN mem /\ o \in DOMAIN mem
    BY <1>3, LedgerEntry DEF RollBackUpdate
  <2>2. /\ mem' = [mem EXCEPT ![o] = WithState(mem[o], "approved", review),
                              ![n] = WithState(mem[n], "tombstone", mem[n].review)]
        /\ announced' = {n, o}
    BY <1>3 DEF RollBackUpdate
  <2>3. mem[o] \in Record /\ review \in Review
    BY <2>1, RowFacts DEF Record, Review, Accepted
  <2> HIDE DEF n, o, review
  <2>4. Good(WithState(mem[o], "approved", review)) /\ Good(WithState(mem[n], "tombstone", mem[n].review))
    BY <2>1, <2>3, StateIsGood, WithReview DEF Status
  <2>5. Grows /\ DOMAIN mem' = DOMAIN mem
    BY <1>1, <2>1, <2>2, <2>4, TwoRows
  <2> QED BY <1>1, <2>5, MarkKeepsLedger, ScriptKeepsInv DEF MInv, FoundTyped
<1> QED BY <1>2, <1>3

LEMMA StepKeepsInv ==
  ASSUME MInv, [MNext]_mvars
  PROVE  MInv'
<1>1. CASE UNCHANGED mvars
  BY <1>1 DEF mvars, vars, tools, MInv, Table, LocksInTable, FoundTyped, LedgerKept, Kept,
                 SweptTyped, BacklogTyped
<1>2. CASE Next /\ UNCHANGED tools
  BY <1>2, ServiceKeepsInv
<1>3. CASE RepairStep
  BY <1>3, OpensKeepInv, SweepsKeepInv DEF RepairStep
<1>4. CASE UpdateStep
  BY <1>4, UpdateKeepsInv DEF UpdateStep
<1>5. CASE UndoStep
  BY <1>5, UndoKeepsInv DEF UndoStep
<1> QED
  BY <1>1, <1>2, <1>3, <1>4, <1>5, GovernanceKeepsInv, OpensKeepInv, SweepsKeepInv DEF MNext

LEMMA MInvariance == MSpec => []MInv
<1>1. MInit => MInv
  BY DEF MInit, Init, MInv, Table, Txn, Idle, LocksInTable, NoRows, FoundTyped, LedgerKept,
         SweptTyped, BacklogTyped
<1>2. MInv /\ [MNext]_mvars => MInv'
  BY StepKeepsInv
<1> QED BY <1>1, <1>2, PTL DEF MSpec

-----------------------------------------------------------------------------
\* Every variable keeps its type, with any scripts among the services.
THEOREM ToolsTypeCorrect == MSpec => []ToolsTypeOK
<1>1. MInv => ToolsTypeOK
  <2> SUFFICES ASSUME MInv PROVE ToolsTypeOK
    OBVIOUS
  <2>1. TypeOK
    BY RowFacts DEF MInv, TypeOK
  <2> QED BY <2>1 DEF MInv, FoundTyped, LedgerKept, SweptTyped, BacklogTyped, ToolsTypeOK
<1> QED BY <1>1, MInvariance, PTL

\* Whatever the scripts write back from old reads, no dead row is current.
THEOREM DeadRowsAreNotCurrent == MSpec => []OnlyLiveRowsAreCurrent
<1>1. MInv => OnlyLiveRowsAreCurrent
  BY DEF MInv, Table, Good, Live, OnlyLiveRowsAreCurrent
<1> QED BY <1>1, MInvariance, PTL
=============================================================================
