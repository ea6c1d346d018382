--------------------------- MODULE MemoryMaintenance ---------------------------
(***************************************************************************)
(* The scripts that change memory_records beside the services: the auto-   *)
(* approval sweep, the policy backfill, consolidation, the governance run  *)
(* with its provenance backfill and its revert, the debt plan, the         *)
(* consistency repair, the auto-update with its rollback, and the clean-up *)
(* of review states. Most read rows without a lock, decide, and write in a *)
(* later transaction; their writes wait for row locks but mostly do not    *)
(* look at the row again.                                                  *)
(*                                                                         *)
(* A script's transaction is one step, taken when it commits: each row it  *)
(* writes stays as it was written until then. So is a service transaction  *)
(* the governance run makes: its row is locked from the check to COMMIT.   *)
(***************************************************************************)
EXTENDS MemoryLifecycle, FiniteSets

CONSTANTS
  Withholds,  \* TRUE: a policy may keep a candidate it does not reject out of default recall
  MaxActions, \* bound on the rows of memory_governance_actions
  Limit,      \* --limit of a backfill, and of a governance run for each of its two queries
  MaxOpen     \* bound on the scripts between their reads and their writes

VARIABLES
  swept,    \* sweep: the candidates it read, with the metadata of each
  backlog,  \* policy backfill: what it will do to which candidate, and the metadata it read
  keyless,  \* debt plan: the rows whose dedupe_key it will fill
  targets,  \* governance run: what it will archive or tombstone
  made,     \* governance run: the action done but not yet recorded
  found,    \* repair: the rows it will demote, with the status it read of each
  ledger    \* memory_governance_actions that can be undone, in order

tools == <<swept, backlog, keyless, targets, made, found, ledger>>
mvars == <<vars, tools>>

State == [status: Status, review: Review, current: BOOLEAN]
StateOf(m) == [status |-> m.status, review |-> m.review, current |-> m.current]
Restored(m, s) == [m EXCEPT !.status = s.status, !.review = s.review, !.current = s.current]

\* a verdict of the policy on a candidate: it is rejected, or marked as kept
\* out of default recall. meta is the column as it was read.
Verdict == [way: {"reject", "mark"}, meta: Meta]
Withheld(meta) == [meta EXCEPT !.withheld = TRUE]

Target == [kind: {"archive", "tombstone"}, row: Nat \ {0}, before: State]
Unread == "unread"

NoAction == [kind |-> "none"]
\* replaced is no column: it is the state of the row just before the action
Removal == [kind: {"archive", "tombstone"}, row: Nat \ {0}, before: State, replaced: State,
            reverted: BOOLEAN]
Update == [kind: {"update"}, row: Nat \ {0}, old: Nat \ {0}, reverted: BOOLEAN]

\* nothing read, or all of it dealt with
NoRows == [r \in {} |-> Unread]

\* the scripts that hold what they read
Open == {t \in {"sweep", "backfill", "debt", "governance", "repair"} :
           CASE t = "sweep"      -> swept # NoRows
             [] t = "backfill"   -> backlog # NoRows
             [] t = "debt"       -> keyless # {}
             [] t = "governance" -> targets # {} \/ made # NoAction
             [] t = "repair"     -> found # NoRows}

MayStart == Cardinality(Open) < MaxOpen

\* a write waits for the lock of its row
Free(rows) == rows \cap Locked = {}

Twins(r, s) == mem[r].scope = mem[s].scope /\ mem[r].content = mem[s].content

\* all but one row of every group of twins among the rows of S
Losers(S) == {L \in SUBSET S :
                /\ \A r \in L : \E k \in S \ L : Twins(r, k)
                /\ \A r, k \in S \ L : Twins(r, k) => r = k}

-----------------------------------------------------------------------------
\* Variant: the UPDATE of the sweep selects by id alone.
StillPending_ById(m) == TRUE

\* Variant: the UPDATE of the sweep does not ask for is_current.
StillPending_AnyVersion(m) == m.status = "candidate" /\ m.review = "pending"

\* the WHERE clause of both UPDATEs of the sweep
StillPending(m) == m.status = "candidate" /\ m.review = "pending" /\ m.current

ReadCandidates ==
  /\ swept = NoRows /\ MayStart
  /\ swept' = [r \in {i \in DOMAIN mem : UnderReview(mem[i])} |-> mem[r].meta]
  /\ announced' = {}
  /\ UNCHANGED <<mem, txn, frozen, backlog, keyless, targets, made, found, ledger>>

\* the transaction of the sweep: approvals get an outbox row, whether or not
\* their UPDATE matched; rejections get none. Metadata go back to what was
\* read, with the recall policy the sweep decided on.
Sweep ==
  /\ \E yes, no \in SUBSET DOMAIN swept :
     \E hidden \in IF Withholds THEN SUBSET yes ELSE {{}} :
       /\ yes \cap no = {}
       /\ Free(yes \cup no)
       /\ mem' = [r \in DOMAIN mem |->
            CASE r \in yes /\ StillPending(mem[r]) ->
                   [WithState(mem[r], "approved", "silent_approved")
                     EXCEPT !.meta = [swept[r] EXCEPT !.withheld = r \in hidden]]
              [] r \in no /\ StillPending(mem[r])  ->
                   [WithState(mem[r], "rejected", "rejected") EXCEPT !.meta = Withheld(swept[r])]
              [] OTHER -> mem[r]]
       /\ announced' = yes
  /\ swept # NoRows
  /\ swept' = NoRows
  /\ UNCHANGED <<txn, frozen, backlog, keyless, targets, made, found, ledger>>

\* memory-policy-backfill: what it will reject and mark of the candidates it
\* read, at most --limit of them, without a lock
ReadBacklog ==
  /\ backlog = NoRows /\ MayStart
  /\ \E rows \in SUBSET {r \in DOMAIN mem : UnderReview(mem[r])} :
     \E way \in [rows -> IF Withholds THEN {"reject", "mark"} ELSE {"reject"}] :
       /\ rows # {} /\ Cardinality(rows) <= Limit
       /\ backlog' = [r \in rows |-> [way |-> way[r], meta |-> mem[r].meta]]
  /\ announced' = {}
  /\ UNCHANGED <<mem, txn, frozen, swept, keyless, targets, made, found, ledger>>

Without(verdicts, r) == [i \in DOMAIN verdicts \ {r} |-> verdicts[i]]

\* one statement for each row, by id: no look at what the row has become, and
\* no outbox row
BackfillReject ==
  /\ \E r \in DOMAIN backlog :
       /\ backlog[r].way = "reject"
       /\ Free({r})
       /\ mem' = [mem EXCEPT ![r] = [WithState(mem[r], "rejected", "rejected")
                                      EXCEPT !.meta = Withheld(backlog[r].meta)]]
       /\ backlog' = Without(backlog, r)
  /\ announced' = {}
  /\ UNCHANGED <<txn, frozen, swept, keyless, targets, made, found, ledger>>

\* after the rejections, and just as blindly: metadata only
BackfillMark ==
  /\ \E r \in DOMAIN backlog :
       /\ \A i \in DOMAIN backlog : backlog[i].way = "mark"
       /\ Free({r})
       /\ mem' = [mem EXCEPT ![r].meta = Withheld(backlog[r].meta)]
       /\ backlog' = Without(backlog, r)
  /\ announced' = {}
  /\ UNCHANGED <<txn, frozen, swept, keyless, targets, made, found, ledger>>

\* the script ends early
BackfillStops ==
  /\ backlog # NoRows
  /\ backlog' = NoRows
  /\ announced' = {}
  /\ UNCHANGED <<mem, txn, frozen, swept, keyless, targets, made, found, ledger>>

\* the rows both backfills of missing fields look at
Backfillable(m) == m.status = "approved" /\ m.current /\ m.review \in {"approved", "not_required"}

\* dedupe_key = COALESCE(NULLIF(dedupe_key, ''), ...)
KeyFilled(m, key) == IF m.key = NoKey THEN [m EXCEPT !.key = key] ELSE m

\* the debt plan fills missing fields in one UPDATE that joins the ids its
\* subquery selects: the statement reads,
ReadKeyless ==
  /\ keyless = {} /\ MayStart
  /\ keyless' \in SUBSET {r \in DOMAIN mem : Backfillable(mem[r]) /\ mem[r].key = NoKey} \ {{}}
  /\ announced' = {}
  /\ UNCHANGED <<mem, txn, frozen, swept, backlog, targets, made, found, ledger>>

\* waits for the locks of the rows, and then asks again for the id and the key
\* alone; no outbox row
FillKeys ==
  /\ keyless # {}
  /\ Free(keyless)
  /\ \E key \in [keyless -> Keys] :
       mem' = [r \in DOMAIN mem |-> IF r \in keyless THEN KeyFilled(mem[r], key[r]) ELSE mem[r]]
  /\ keyless' = {}
  /\ announced' = {}
  /\ UNCHANGED <<txn, frozen, swept, backlog, targets, made, found, ledger>>

\* the transaction of the debt plan rolls back
DebtPlanStops ==
  /\ keyless # {}
  /\ keyless' = {}
  /\ announced' = {}
  /\ UNCHANGED <<mem, txn, frozen, swept, backlog, targets, made, found, ledger>>

\* Variant: is_current is not part of the SET clause.
Consolidate_KeepsCurrent ==
  /\ \E weak \in SUBSET {r \in DOMAIN mem : mem[r].status = "approved" /\ mem[r].current} :
       /\ weak # {}
       /\ Free(weak)
       /\ mem' = [r \in DOMAIN mem |->
                    IF r \in weak THEN [mem[r] EXCEPT !.status = "archived"] ELSE mem[r]]
  /\ announced' = {}
  /\ UNCHANGED <<txn, frozen, tools>>

\* consolidation archives weak memories in one UPDATE, with no outbox row
Consolidate ==
  /\ \E weak \in SUBSET {r \in DOMAIN mem : mem[r].status = "approved" /\ mem[r].current} :
       /\ weak # {}
       /\ Free(weak)
       /\ mem' = [r \in DOMAIN mem |->
                    IF r \in weak THEN WithState(mem[r], "archived", mem[r].review) ELSE mem[r]]
  /\ announced' = {}
  /\ UNCHANGED <<txn, frozen, tools>>

\* memory-governance-cleanup: tombstones still pending count as rejected
CloseReviews ==
  /\ LET open == {r \in DOMAIN mem : mem[r].status = "tombstone" /\ mem[r].review = "pending"}
     IN  /\ open # {}
         /\ Free(open)
         /\ mem' = [r \in DOMAIN mem |->
                      IF r \in open THEN [mem[r] EXCEPT !.review = "rejected"] ELSE mem[r]]
  /\ announced' = {}
  /\ UNCHANGED <<txn, frozen, tools>>

-----------------------------------------------------------------------------
\* the targets of a governance run: exact duplicates, all but one of each
\* group, and rows it takes for test data
ReadTargets ==
  /\ targets = {} /\ made = NoAction /\ MayStart
  /\ \E S \in SUBSET {r \in DOMAIN mem : Backfillable(mem[r])} :
     \E dup \in UNION {SUBSET L : L \in Losers(S)},
        test \in SUBSET {r \in DOMAIN mem : mem[r].current /\ mem[r].status \in {"approved", "candidate"}} :
       /\ Cardinality(dup) <= Limit /\ Cardinality(test) <= Limit
       /\ targets' = {[kind |-> "archive", row |-> r, before |-> StateOf(mem[r])] : r \in dup}
              \cup {[kind |-> "tombstone", row |-> r, before |-> StateOf(mem[r])] : r \in test}
  /\ targets' # {}
  /\ announced' = {}
  /\ UNCHANGED <<mem, txn, frozen, swept, backlog, keyless, made, found, ledger>>

\* archives come before tombstones
NextTarget(t) ==
  /\ made = NoAction
  /\ t \in targets
  /\ t.kind = "tombstone" => \A u \in targets : u.kind # "archive"

\* Variant: the name of the operation is written as the status.
Removed_Kind(kind) == kind

Removed(kind) == IF kind = "archive" THEN "archived" ELSE "tombstone"

\* ArchiveMemoryService or TombstoneMemoryService on the row as it is now
Remove(t) ==
  /\ NextTarget(t)
  /\ Free({t.row})
  /\ MayApply(t.kind, mem[t.row])
  /\ mem' = [mem EXCEPT ![t.row] = WithState(mem[t.row], Removed(t.kind), mem[t.row].review)]
  /\ made' = [kind |-> t.kind, row |-> t.row, before |-> t.before,
              replaced |-> StateOf(mem[t.row]), reverted |-> FALSE]
  /\ targets' = targets \ {t}
  /\ announced' = {t.row}
  /\ UNCHANGED <<txn, frozen, swept, backlog, keyless, found, ledger>>

\* the action is recorded in a transaction of its own
RecordAction ==
  /\ made # NoAction
  /\ Len(ledger) < MaxActions
  /\ ledger' = Append(ledger, made)
  /\ made' = NoAction
  /\ announced' = {}
  /\ UNCHANGED <<mem, txn, frozen, swept, backlog, keyless, targets, found>>

\* skipped: the scope is frozen
SkipTarget(t) ==
  /\ NextTarget(t)
  /\ mem[t.row].scope \in frozen
  /\ targets' = targets \ {t}
  /\ announced' = {}
  /\ UNCHANGED <<mem, txn, frozen, swept, backlog, keyless, made, found, ledger>>

\* a target the service refuses ends the run, as a crash does
GovernanceStops ==
  /\ targets # {} \/ made # NoAction
  /\ targets' = {} /\ made' = NoAction
  /\ announced' = {}
  /\ UNCHANGED <<mem, txn, frozen, swept, backlog, keyless, found, ledger>>

\* Variant: the provenance backfill appends no outbox rows.
BackfillProvenance_Silent ==
  /\ targets = {} /\ made = NoAction
  /\ \E rows \in SUBSET {r \in DOMAIN mem : Backfillable(mem[r])} \ {{}} :
     \E key \in [rows -> Keys] :
       /\ Free(rows)
       /\ mem' = [r \in DOMAIN mem |-> IF r \in rows THEN KeyFilled(mem[r], key[r]) ELSE mem[r]]
  /\ announced' = {}
  /\ UNCHANGED <<txn, frozen, tools>>

\* the last statement of a governance run fills missing fields, dedupe_key
\* among them, in one UPDATE that asks every row again once it has its lock
BackfillProvenance ==
  /\ targets = {} /\ made = NoAction
  /\ \E rows \in SUBSET {r \in DOMAIN mem : Backfillable(mem[r])} \ {{}} :
     \E key \in [rows -> Keys] :
       /\ Free(rows)
       /\ mem' = [r \in DOMAIN mem |-> IF r \in rows THEN KeyFilled(mem[r], key[r]) ELSE mem[r]]
       /\ announced' = rows
  /\ UNCHANGED <<txn, frozen, tools>>

\* Variant: the revert appends no outbox row.
Revert_Silent(a) ==
  /\ ledger[a].kind \in {"archive", "tombstone"}
  /\ ~ledger[a].reverted
  /\ Free({ledger[a].row})
  /\ mem' = [mem EXCEPT ![ledger[a].row] = Restored(@, ledger[a].before)]
  /\ ledger' = [ledger EXCEPT ![a].reverted = TRUE]
  /\ announced' = {}
  /\ UNCHANGED <<txn, frozen, swept, backlog, keyless, targets, made, found>>

\* the revert of an archive or a tombstone, with its token, once
Revert(a) ==
  /\ ledger[a].kind \in {"archive", "tombstone"}
  /\ ~ledger[a].reverted
  /\ Free({ledger[a].row})
  /\ mem' = [mem EXCEPT ![ledger[a].row] = Restored(@, ledger[a].before)]
  /\ ledger' = [ledger EXCEPT ![a].reverted = TRUE]
  /\ announced' = {ledger[a].row}
  /\ UNCHANGED <<txn, frozen, swept, backlog, keyless, targets, made, found>>

-----------------------------------------------------------------------------
\* repair_memory_consistency: duplicates in its snapshot of the current rows,
\* an approved row kept before a candidate
FindDuplicates ==
  /\ found = NoRows /\ MayStart
  /\ \E dup \in Losers({r \in DOMAIN mem : mem[r].current}) :
       /\ dup # {}
       /\ \A r \in dup : mem[r].status = "approved" =>
            \E k \in DOMAIN mem \ dup : Twins(r, k) /\ mem[k].current /\ mem[k].status = "approved"
       /\ found' = [r \in dup |-> Unread]
  /\ announced' = {}
  /\ UNCHANGED <<mem, txn, frozen, swept, backlog, keyless, targets, made, ledger>>

\* supersedeForRepair reads the status without a lock
ReadStatus(r) ==
  /\ found[r] = Unread
  /\ found' = [found EXCEPT ![r] = mem[r].status]
  /\ announced' = {}
  /\ UNCHANGED <<mem, txn, frozen, swept, backlog, keyless, targets, made, ledger>>

\* and writes what follows from it over the row it then locks
Demote ==
  /\ found # NoRows
  /\ \A r \in DOMAIN found : found[r] # Unread
  /\ Free(DOMAIN found)
  /\ mem' = [r \in DOMAIN mem |->
               IF r \in DOMAIN found
               THEN [mem[r] EXCEPT !.status = IF found[r] = "approved" THEN "superseded" ELSE found[r],
                                   !.current = FALSE]
               ELSE mem[r]]
  /\ found' = NoRows
  /\ announced' = DOMAIN found
  /\ UNCHANGED <<txn, frozen, swept, backlog, keyless, targets, made, ledger>>

RepairStops ==
  /\ found # NoRows
  /\ found' = NoRows
  /\ announced' = {}
  /\ UNCHANGED <<mem, txn, frozen, swept, backlog, keyless, targets, made, ledger>>

-----------------------------------------------------------------------------
\* auto-update puts row n in the place of row o. What it reads of them first
\* decides whether it goes on, not what it writes, and is not looked at again.
ApplyUpdate(n, o) ==
  /\ n # o
  /\ Free({n, o})
  /\ Len(ledger) < MaxActions
  /\ \E status \in {"superseded", "archived"} :
       mem' = [mem EXCEPT ![o] = WithState(mem[o], status, mem[o].review),
                          ![n] = WithState(mem[n], "approved", "silent_approved")]
  /\ ledger' = Append(ledger, [kind |-> "update", row |-> n, old |-> o, reverted |-> FALSE])
  /\ announced' = {n, o}
  /\ UNCHANGED <<txn, frozen, swept, backlog, keyless, targets, made, found>>

\* the rollback of an auto-update, as often as it is asked for
RollBackUpdate(a) ==
  /\ ledger[a].kind = "update"
  /\ LET n == ledger[a].row
         o == ledger[a].old
         review == IF mem[o].review = "pending" THEN "silent_approved" ELSE mem[o].review
     IN /\ Free({n, o})
        /\ mem' = [mem EXCEPT ![o] = WithState(mem[o], "approved", review),
                              ![n] = WithState(mem[n], "tombstone", mem[n].review)]
        /\ announced' = {n, o}
  /\ ledger' = [ledger EXCEPT ![a].reverted = TRUE]
  /\ UNCHANGED <<txn, frozen, swept, backlog, keyless, targets, made, found>>

-----------------------------------------------------------------------------
\* what projectionLifecycleOperation makes of a row
ClassOf(r) ==
  IF r \notin DOMAIN mem THEN "absent"
  ELSE CASE Recallable(mem[r]) /\ ~mem[r].meta.withheld -> "live"
         [] mem[r].status = "approved" /\ mem[r].current /\ mem[r].meta.withheld -> "gone"
         [] mem[r].status \in {"archived", "superseded", "tombstone"} -> "gone"
         [] OTHER -> "held"

Rows == INSTANCE ProjectedRows WITH
  Ids <- 1..MaxRecords, class <- [r \in 1..MaxRecords |-> ClassOf(r)], said <- announced

-----------------------------------------------------------------------------
MInit ==
  /\ Init
  /\ swept = NoRows /\ backlog = NoRows /\ keyless = {} /\ targets = {} /\ made = NoAction /\ found = NoRows /\ ledger = << >>

GovernanceStep ==
  \/ ReadTargets \/ RecordAction \/ GovernanceStops \/ BackfillProvenance
  \/ \E t \in targets : Remove(t) \/ SkipTarget(t)

UpdateStep == \E n, o \in DOMAIN mem : ApplyUpdate(n, o)

UndoStep == \E a \in DOMAIN ledger : Revert(a) \/ RollBackUpdate(a)

RepairStep ==
  \/ FindDuplicates \/ Demote \/ RepairStops
  \/ \E r \in DOMAIN found : ReadStatus(r)

MNext ==
  \/ Next /\ UNCHANGED tools
  \/ ReadCandidates \/ Sweep
  \/ ReadBacklog \/ BackfillReject \/ BackfillMark \/ BackfillStops
  \/ ReadKeyless \/ FillKeys \/ DebtPlanStops
  \/ Consolidate \/ CloseReviews
  \/ GovernanceStep
  \/ RepairStep
  \/ UpdateStep
  \/ UndoStep

MSpec == MInit /\ [][MNext]_mvars

-----------------------------------------------------------------------------
ToolsTypeOK ==
  /\ TypeOK
  /\ DOMAIN swept \cup DOMAIN backlog \cup keyless \cup DOMAIN found \subseteq DOMAIN mem
  /\ \A r \in DOMAIN swept : swept[r] \in Meta
  /\ \A r \in DOMAIN backlog : backlog[r] \in Verdict
  /\ targets \subseteq Target
  /\ made \in Removal \cup {NoAction}
  /\ \A r \in DOMAIN found : found[r] \in Status \cup {Unread}
  /\ ledger \in Seq(Removal \cup Update)

\* check-db-invariants.ts: rejected, archived, superseded and tombstoned rows
\* are not current, whatever scripts run among the services and however old
\* the rows they read have become.
OnlyLiveRowsAreCurrent ==
  \A r \in DOMAIN mem : mem[r].current => mem[r].status \in {"candidate", "approved"}

\* Undoing a recorded archive loses nothing but an auto-update: the state the
\* revert restores was read long before the archive, by another transaction,
\* and yet status and currency are those the archive replaced, and the review
\* state is, unless an auto-update put the row in the place of another between
\* read and archive. (Of a tombstone this is not so: a candidate approved in
\* between comes back as a candidate.)
ArchivesUndoAllButUpdates ==
  \A a \in DOMAIN ledger : ledger[a].kind = "archive" =>
    LET before == ledger[a].before
        replaced == ledger[a].replaced
    IN  /\ before.status = replaced.status
        /\ before.current = replaced.current
        /\ before.review = replaced.review \/ replaced.review = "silent_approved"

\* What a reviewer decided stands among scripts too: content and key of a row
\* change only while it is a candidate under review before and after; the two
\* backfills give a key to a row that has none, and then change nothing else
\* of it.
DecidedTextStays ==
  [][\A r \in DOMAIN mem :
       mem'[r].content # mem[r].content \/ mem'[r].key # mem[r].key =>
         \/ UnderReview(mem[r]) /\ UnderReview(mem[r]')
         \/ mem[r].key = NoKey /\ mem'[r] = [mem[r] EXCEPT !.key = mem'[r].key]]_mvars

\* A decision stands against the sweep and the governance run, which work from
\* old reads: only an auto-update, an undo, a repair, or the policy backfill
\* (which rejects what has been approved since) moves a status off the edges
\* of the services.
DecisionsStand ==
  [][\A r \in DOMAIN mem : mem'[r].status # mem[r].status =>
       \/ <<mem[r].status, mem'[r].status>> \in ServiceEdges
       \/ UpdateStep \/ UndoStep \/ BackfillReject
       \/ found # NoRows /\ found' = NoRows]_mvars

\* A row once taken out of the current set returns only by an auto-update or
\* an undo: not by a sweep that read it before, and not by a repair.
OnlyUndoRevives ==
  [][\A r \in DOMAIN mem : mem'[r].current /\ ~mem[r].current => UpdateStep \/ UndoStep]_mvars

\* What the projection misses is never a row it should come to show: a change
\* without an outbox row takes its row out of the current set (consolidation,
\* rejections of sweep and backfill) or finds it there already, but for two
\* backfills. A row that stays current is given a recall policy that withholds
\* it, with the metadata the policy backfill read, or the dedupe_key it lacked.
LiveChangesAreAnnounced ==
  [][\A r \in DOMAIN mem' :
       /\ r \notin DOMAIN mem \/ mem'[r] # mem[r]
       /\ mem'[r].current
       => \/ r \in announced'
          \/ /\ r \in DOMAIN backlog
             /\ mem'[r] = [mem[r] EXCEPT !.meta = mem'[r].meta]
             /\ mem'[r].meta.withheld
          \/ /\ r \in keyless
             /\ mem'[r] = [mem[r] EXCEPT !.key = mem'[r].key]
             /\ mem[r].key = NoKey]_mvars

\* Services and scripts together keep the promise QdrantProjection rests on:
\* whatever changes what Qdrant owes a row comes with an outbox row in the same
\* transaction, except that rows may be taken out of recall without one.
RowsAreAnnounced == Rows!RowsSpec
=============================================================================
