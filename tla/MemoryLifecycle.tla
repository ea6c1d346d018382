---------------------------- MODULE MemoryLifecycle ----------------------------
(***************************************************************************)
(* The rows of memory_records and the transactions of the write and review *)
(* services that change them: CreateMemoryService.execute, ReviewDecision- *)
(* Service, ArchiveMemoryService, SupersedeMemoryService, TombstoneMemory- *)
(* Service and UpdateCandidateMemoryService, against scope freezes.        *)
(*                                                                         *)
(* PostgreSQL runs them at READ COMMITTED. SELECT ... FOR UPDATE fixes its *)
(* candidates when the statement starts, waits for their locks, and then   *)
(* returns a candidate only if its newest version still matches: a row     *)
(* inserted while the statement waited is never seen. A create holds its   *)
(* row lock from the lookup that hits to COMMIT, and what it then does     *)
(* depends on nothing else, so that the hit and its writes are one step;   *)
(* a review reads the freezes in between, and is two.                      *)
(***************************************************************************)
EXTENDS Integers, Sequences

CONSTANTS
  Writers,     \* transactions open at one time
  Scopes,      \* scope_type and scope_id
  Keys, NoKey, \* dedupe_key; NoKey is NULL
  Blocks, NoBlock, \* source path and section in metadata; NoBlock: not both set
  Contents,    \* what two contents are compared for: equality
  Commands,    \* the create commands that may arrive
  Edits,       \* the payloads of supersede and updateCandidate that may arrive
  Operations,  \* the review operations in use
  Freezable,   \* the scopes that may be frozen
  Similar,     \* TRUE: a content may score as a semantic duplicate of another
  MaxRecords   \* bound on the rows of memory_records

VARIABLES
  mem,       \* memory_records, in the order of insertion; the id is the position
  txn,       \* what each open transaction holds between two of its steps
  frozen,    \* scopes with a freeze in force for every action
  announced  \* the ids given an outbox row by the transaction of the last step

vars == <<mem, txn, frozen, announced>>

Status == {"candidate", "approved", "rejected", "archived", "superseded", "tombstone"}

Accepted == {"approved", "silent_approved", "not_required"}
Review == {"pending", "rejected"} \cup Accepted

\* what matters of the column metadata: the source block, and whether the
\* recall policy keeps the row out of default recall
Meta == [block: Blocks \cup {NoBlock}, withheld: BOOLEAN]

Record == [status: Status, review: Review, current: BOOLEAN, scope: Scopes,
           key: Keys \cup {NoKey}, meta: Meta, content: Contents, version: Nat, prev: Nat]

\* A create asks for a candidate (pending) or for an approved row.
Asked == {"pending"} \cup Accepted
Command == [scope: Scopes, key: Keys \cup {NoKey}, meta: Meta, content: Contents, review: Asked]

\* review is that of a superseding version
Edit == [key: Keys \cup {NoKey}, meta: Meta, content: Contents, review: Accepted]

Operation == {"approve", "reject", "archive", "supersede", "tombstone", "update"}

ASSUME LifecycleAssumption ==
  /\ Commands \subseteq Command
  /\ Edits \subseteq Edit
  /\ Operations \subseteq Operation
  /\ Freezable \subseteq Scopes
  /\ MaxRecords \in Nat

(***************************************************************************)
(* A create: its source-aware lookup runs (source); no source match, the   *)
(* state it will insert with is settled (settled); its lookup by           *)
(* dedupe_key runs (key). seen is the snapshot of the running lookup. A    *)
(* review: its checks have passed and it holds the lock of row.            *)
(***************************************************************************)
Idle == [op |-> "idle"]

Txn == {Idle}
  \cup [op: {"create"}, phase: {"source", "settled", "key"}, cmd: Command,
        review: Asked, seen: SUBSET Nat]
  \cup [op: {"review"}, kind: Operation, row: Nat]

Creating(w, phase) == txn[w].op = "create" /\ txn[w].phase = phase
Reviewing(w, kind) == txn[w].op = "review" /\ txn[w].kind = kind

\* Variant: updateCandidate reads its row without FOR UPDATE.
Locked_NotByUpdate == {txn[w].row : w \in {v \in Writers : txn[v].op = "review" /\ txn[v].kind # "update"}}

\* Variant: findByIdForUpdate without FOR UPDATE.
Locked_None == {}

Locked == {txn[w].row : w \in {v \in Writers : txn[v].op = "review"}}

-----------------------------------------------------------------------------
Recallable(m) == m.status = "approved" /\ m.current /\ m.review \in Accepted

UnderReview(m) == m.status = "candidate" /\ m.review = "pending" /\ m.current

\* the rows whose current version the lookup of command c returns
SourceMatch(m, c) == /\ c.meta.block # NoBlock
                     /\ m.current /\ m.scope = c.scope /\ m.meta.block = c.meta.block
KeyMatch(m, c) == /\ c.key # NoKey
                  /\ m.current /\ m.key = c.key

\* findSameScopeSemanticDuplicate compares the command with these rows
Resembled(m, c) == m.status = "approved" /\ m.current /\ m.scope = c.scope

\* Variant: no advisory lock.
AdvisoryFree_Always(c) == TRUE

\* pg_advisory_xact_lock on the scope and the dedupe key
AdvisoryFree(c) ==
  c.key = NoKey \/ \A w \in Writers : txn[w].op = "create" =>
    <<txn[w].cmd.scope, txn[w].cmd.key>> # <<c.scope, c.key>>

\* the status that goes with the review state a create inserts
StatusOf(review) == IF review = "pending" THEN "candidate" ELSE "approved"

NewRecord(c, review) ==
  [status |-> StatusOf(review), review |-> review, current |-> TRUE, scope |-> c.scope,
   key |-> c.key, meta |-> c.meta, content |-> c.content, version |-> 1, prev |-> 0]

NextVersion(r, e) ==
  [status |-> "approved", review |-> e.review, current |-> TRUE, scope |-> mem[r].scope,
   key |-> e.key, meta |-> e.meta, content |-> e.content,
   version |-> mem[r].version + 1, prev |-> r]

\* Variant: is_current is left as it was.
WithState_KeepsCurrent(m, status, review) == [m EXCEPT !.status = status, !.review = review]

\* updateState: the row leaves the current set unless it was approved
WithState(m, status, review) ==
  [m EXCEPT !.status = status, !.review = review, !.current = status = "approved"]

\* updateCandidate
WithPayload(m, e) == [m EXCEPT !.key = e.key, !.meta = e.meta, !.content = e.content]

\* the transaction of w commits and gives the rows of ids an outbox row
Done(w, ids) == txn' = [txn EXCEPT ![w] = Idle] /\ announced' = ids

-----------------------------------------------------------------------------
\* execute: the advisory lock, then the source-aware lookup
BeginCreate(w, c) ==
  /\ txn[w] = Idle
  /\ AdvisoryFree(c)
  /\ Len(mem) < MaxRecords
  /\ txn' = [txn EXCEPT ![w] = [op |-> "create", phase |-> "source", cmd |-> c, review |-> c.review,
                                seen |-> {r \in DOMAIN mem : SourceMatch(mem[r], c)}]]
  /\ announced' = {}
  /\ UNCHANGED <<mem, frozen>>

\* no source match: an approved command may be held back as a candidate for
\* its likeness to an approved memory of the scope
SettleReview(w) ==
  /\ Creating(w, "source")
  /\ \A r \in txn[w].seen : ~SourceMatch(mem[r], txn[w].cmd)
  /\ \E review \in {txn[w].cmd.review, "pending"} :
       /\ review = txn[w].cmd.review \/
          (Similar /\ \E r \in DOMAIN mem : Resembled(mem[r], txn[w].cmd))
       /\ txn' = [txn EXCEPT ![w].phase = "settled", ![w].review = review, ![w].seen = {}]
  /\ announced' = {}
  /\ UNCHANGED <<mem, frozen>>

LookUpKey(w) ==
  /\ Creating(w, "settled")
  /\ txn[w].cmd.key # NoKey
  /\ txn' = [txn EXCEPT ![w].phase = "key",
                        ![w].seen = {r \in DOMAIN mem : KeyMatch(mem[r], txn[w].cmd)}]
  /\ announced' = {}
  /\ UNCHANGED <<mem, frozen>>

\* the running lookup of w returns row r, with its lock
Hit(w, r) ==
  /\ txn[w].op = "create"
  /\ r \in txn[w].seen \ Locked
  /\ \/ Creating(w, "source") /\ SourceMatch(mem[r], txn[w].cmd)
     \/ Creating(w, "key") /\ KeyMatch(mem[r], txn[w].cmd)

\* the row found has the content of the command: it is the answer
Replay(w) ==
  /\ \E r \in DOMAIN mem : Hit(w, r) /\ mem[r].content = txn[w].cmd.content
  /\ Done(w, {})
  /\ UNCHANGED <<mem, frozen>>

UpdateInPlace(w) ==
  /\ Creating(w, "source")
  /\ \E r \in DOMAIN mem :
       /\ Hit(w, r)
       /\ mem[r].content # txn[w].cmd.content
       /\ UnderReview(mem[r])
       /\ mem' = [mem EXCEPT ![r] = WithPayload(mem[r], txn[w].cmd)]
       /\ Done(w, {r})
  /\ UNCHANGED frozen

\* Variant: only the new row gets an outbox row.
Replace_NewAnnounced(w) ==
  /\ Len(mem) < MaxRecords
  /\ \E r \in DOMAIN mem :
       /\ Hit(w, r)
       /\ mem[r].content # txn[w].cmd.content
       /\ mem[r].status = "approved"
       /\ mem' = Append([mem EXCEPT ![r] = WithState(mem[r], "superseded", mem[r].review)],
                        NewRecord(txn[w].cmd, txn[w].review))
       /\ Done(w, {Len(mem) + 1})
  /\ UNCHANGED frozen

\* the new row replaces an approved row with other content
Replace(w) ==
  /\ Len(mem) < MaxRecords
  /\ \E r \in DOMAIN mem :
       /\ Hit(w, r)
       /\ mem[r].content # txn[w].cmd.content
       /\ mem[r].status = "approved"
       /\ mem' = Append([mem EXCEPT ![r] = WithState(mem[r], "superseded", mem[r].review)],
                        NewRecord(txn[w].cmd, txn[w].review))
       /\ Done(w, {r, Len(mem) + 1})
  /\ UNCHANGED frozen

\* the new row stands beside whatever is there: no key, nothing found by the
\* key, or a row found that is not approved
Insert(w) ==
  /\ Len(mem) < MaxRecords
  /\ \/ Creating(w, "settled") /\ txn[w].cmd.key = NoKey
     \/ Creating(w, "key") /\ \A r \in txn[w].seen : ~KeyMatch(mem[r], txn[w].cmd)
     \/ \E r \in DOMAIN mem :
          /\ Hit(w, r)
          /\ mem[r].content # txn[w].cmd.content
          /\ mem[r].status # "approved"
          /\ Creating(w, "source") => ~UnderReview(mem[r])
  /\ mem' = Append(mem, NewRecord(txn[w].cmd, txn[w].review))
  /\ Done(w, {Len(mem) + 1})
  /\ UNCHANGED frozen

-----------------------------------------------------------------------------
\* Variant: archive refuses tombstones only.
MayApply_ArchiveAny(kind, m) ==
  CASE kind \in {"approve", "reject"}      -> m.scope \notin frozen /\ UnderReview(m)
    [] kind = "supersede"                  -> m.scope \notin frozen /\ Recallable(m)
    [] kind \in {"archive", "tombstone"}   -> m.scope \notin frozen /\ m.status # "tombstone"
    [] kind = "update"                     -> UnderReview(m)

\* the conditions under which a review operation does not throw
MayApply(kind, m) ==
  CASE kind \in {"approve", "reject"}    -> m.scope \notin frozen /\ UnderReview(m)
    [] kind \in {"archive", "supersede"} -> m.scope \notin frozen /\ Recallable(m)
    [] kind = "tombstone"                -> m.scope \notin frozen /\ m.status # "tombstone"
    [] kind = "update"                   -> UnderReview(m)

\* findByIdForUpdate, the freeze check and the status check
BeginReview(w, kind, r) ==
  /\ txn[w] = Idle
  /\ r \notin Locked
  /\ MayApply(kind, mem[r])
  /\ txn' = [txn EXCEPT ![w] = [op |-> "review", kind |-> kind, row |-> r]]
  /\ announced' = {}
  /\ UNCHANGED <<mem, frozen>>

\* updateState of the row locked by w, and its outbox row
SetState(w, kind, status, review) ==
  /\ Reviewing(w, kind)
  /\ LET r == txn[w].row IN
       /\ mem' = [mem EXCEPT ![r] = WithState(mem[r], status, review)]
       /\ Done(w, {r})
  /\ UNCHANGED frozen

Approve(w) == SetState(w, "approve", "approved", "approved")
Reject(w) == SetState(w, "reject", "rejected", "rejected")
Archive(w) == SetState(w, "archive", "archived", mem[txn[w].row].review)
Tombstone(w) == SetState(w, "tombstone", "tombstone", mem[txn[w].row].review)

Supersede(w, e) ==
  /\ Reviewing(w, "supersede")
  /\ Len(mem) < MaxRecords
  /\ LET r == txn[w].row IN
       /\ mem' = Append([mem EXCEPT ![r] = WithState(mem[r], "superseded", mem[r].review)],
                        NextVersion(r, e))
       /\ Done(w, {r, Len(mem) + 1})
  /\ UNCHANGED frozen

UpdateCandidate(w, e) ==
  /\ Reviewing(w, "update")
  /\ LET r == txn[w].row IN
       /\ mem' = [mem EXCEPT ![r] = WithPayload(mem[r], e)]
       /\ Done(w, {r})
  /\ UNCHANGED frozen

\* a relation target is missing, or the connection is lost: rollback
Rollback(w) ==
  /\ txn[w] # Idle
  /\ Done(w, {})
  /\ UNCHANGED <<mem, frozen>>

\* createFreeze
Freeze(s) ==
  /\ s \in Freezable \ frozen
  /\ frozen' = frozen \cup {s}
  /\ announced' = {}
  /\ UNCHANGED <<mem, txn>>

\* expires_at passes
Thaw(s) ==
  /\ s \in frozen
  /\ frozen' = frozen \ {s}
  /\ announced' = {}
  /\ UNCHANGED <<mem, txn>>

-----------------------------------------------------------------------------
Init ==
  /\ mem = << >>
  /\ txn = [w \in Writers |-> Idle]
  /\ frozen = {}
  /\ announced = {}

CreateStep(w) ==
  \/ \E c \in Commands : BeginCreate(w, c)
  \/ SettleReview(w) \/ LookUpKey(w)
  \/ Replay(w) \/ UpdateInPlace(w) \/ Replace(w) \/ Insert(w)

ReviewStep(w) ==
  \/ \E kind \in Operations, r \in DOMAIN mem : BeginReview(w, kind, r)
  \/ Approve(w) \/ Reject(w) \/ Archive(w) \/ Tombstone(w)
  \/ \E e \in Edits : Supersede(w, e) \/ UpdateCandidate(w, e)

Next ==
  \/ \E w \in Writers : CreateStep(w) \/ ReviewStep(w) \/ Rollback(w)
  \/ \E s \in Scopes : Freeze(s) \/ Thaw(s)

Spec == Init /\ [][Next]_vars

-----------------------------------------------------------------------------
TypeOK ==
  /\ mem \in Seq(Record)
  /\ txn \in [Writers -> Txn]
  /\ frozen \subseteq Scopes
  /\ announced \subseteq 1..Len(mem)

\* A row is current exactly while it is a candidate or approved: no order of
\* creates, reviews and rollbacks leaves a rejected, archived, superseded or
\* tombstoned row current (check-db-invariants.ts counts them as critical),
\* nor a live row that no search by is_current finds.
CurrentIffLive ==
  \A r \in DOMAIN mem : mem[r].current <=> mem[r].status \in {"candidate", "approved"}

\* The versions SupersedeMemoryService makes form a chain that never forks,
\* and only its last version is live: two supersedes of a row, or a supersede
\* and a create that replaces it, cannot both go through.
VersionsFormChain ==
  /\ \A r, s \in DOMAIN mem : mem[r].prev = mem[s].prev /\ r # s => mem[r].prev = 0
  /\ \A r \in DOMAIN mem : mem[r].prev # 0 =>
       /\ mem[r].prev \in 1..(r - 1)
       /\ mem[r].version = mem[mem[r].prev].version + 1
       /\ ~mem[mem[r].prev].current

\* What a reviewer decided stands: key and content of a row change only while
\* it is a candidate before and after, whatever candidate updates and creates
\* for the same source block were under way when the decision was made.
DecidedContentIsFixed ==
  [][\A r \in DOMAIN mem : mem'[r].content # mem[r].content \/ mem'[r].key # mem[r].key =>
       UnderReview(mem[r]) /\ UnderReview(mem[r]')]_vars

\* Services change the status of a row only along these edges; in particular
\* a decision is taken once and a tombstone is final.
ServiceEdges ==
  {<<"candidate", "approved">>, <<"candidate", "rejected">>,
   <<"approved", "archived">>, <<"approved", "superseded">>}
  \cup {<<s, "tombstone">> : s \in Status \ {"tombstone"}}

StatusFollowsEdges ==
  [][\A r \in DOMAIN mem : mem'[r].status # mem[r].status =>
       <<mem[r].status, mem'[r].status>> \in ServiceEdges]_vars

\* The projection can keep up: whatever a transaction changes of a row, or
\* inserts, it announces by an outbox row of its own.
ChangesAreAnnounced ==
  [][\A r \in DOMAIN mem' : r \notin DOMAIN mem \/ mem'[r] # mem[r] => r \in announced']_vars

\* the row is one the key of command c should lead to
Answers(m, c) == m.current /\ m.scope = c.scope /\ m.key = c.key

\* Creates of one scope and key take turns: while the lookup by key of one
\* runs, no other create brings about a row that its snapshot would miss. Only
\* what takes no advisory lock can slip a row past it: a supersede, with its
\* new version, and an update that gives the key to a candidate of another.
CreatesOfOneKeyTakeTurns ==
  [][\A w \in Writers : Creating(w, "key") /\ txn'[w] = txn[w] =>
       \A r \in DOMAIN mem' :
         /\ Answers(mem'[r], txn[w].cmd)
         /\ r \in DOMAIN mem => ~Answers(mem[r], txn[w].cmd)
         => \/ r \notin DOMAIN mem /\ mem'[r].prev # 0
            \/ \E v \in Writers : Reviewing(v, "update") /\ txn[v].row = r]_vars

\* check-db-invariants.ts: scope + dedupe_key has at most one current record.
OneCurrentPerDedupeKey ==
  \A r, s \in DOMAIN mem :
    mem[r].current /\ mem[s].current /\ mem[r].key # NoKey
      /\ mem[r].key = mem[s].key /\ mem[r].scope = mem[s].scope => r = s
=============================================================================
