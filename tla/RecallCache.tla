----------------------------- MODULE RecallCache -----------------------------
(***************************************************************************)
(* The recall cache in Redis and its invalidation: recalls that answer     *)
(* from it or fill it, key by key and with an index of keys for each       *)
(* scope; writers that invalidate a scope after their COMMIT; and the      *)
(* table of invalidations that failed, with the worker that repeats them.  *)
(* No operation on Redis is atomic with another, and any may be skipped    *)
(* (Redis away, or its circuit breaker open).                              *)
(***************************************************************************)
EXTENDS Integers, Sequences, SequencesExt

CONSTANTS
  Scopes,            \* the allowed scopes of the one request that is modelled
  Ttl,               \* seconds of each kind of entry, in units of the tick
  StartupQuery,      \* isStartupContextQuery of that request
  Recalls,           \* calls of the recall orchestrator
  CacheWriters,      \* services that write, then invalidate
  CacheWorkers,      \* runs of run-cache-invalidation-worker
  CacheLease,        \* lease of a claim, and delay of a retry, in ticks
  MaxInvalidations,  \* maxAttempts of a request row
  MaxLedgerWrites,   \* bound on the writes to a scope
  MaxRedisFaults     \* bound on skipped operations, lost rows, crashes

VARIABLES
  ledger,    \* number of writes to each scope, in Postgres
  entries,   \* cached answers: what they saw of each scope, ticks left
  index,     \* index of each scope: keys named, ticks left
  recalls,   \* recalls under way: what they saw, operations still to do
  clears,    \* invalidateScopes under way
  invalidations, \* cache_invalidation_requests
  cacheFaults,
  cleared,   \* history: the writes that finished invalidations have covered
  excused    \* history: <<kind, scope>> that may be stale with nothing to come

cacheVars == <<ledger, entries, index, recalls, clears, invalidations, cacheFaults, cleared, excused>>

Kinds    == {"search", "startup", "recent"}

ASSUME CacheAssumption ==
  /\ IsFiniteSet(Scopes)
  /\ Ttl \in [Kinds -> Nat]
  /\ StartupQuery \in BOOLEAN
  /\ CacheWriters \cap CacheWorkers = {}
  /\ MaxInvalidations \in Nat \ {0}
  /\ CacheLease \in Nat /\ MaxLedgerWrites \in Nat /\ MaxRedisFaults \in Nat

Clearers == CacheWriters \cup CacheWorkers

NoEntry == [saw |-> [s \in Scopes |-> 0], left |-> 0]
NoClear == [phase |-> "idle"]
NoIndex == [keys |-> {}, left |-> 0]
NoRecall == [run |-> "none"]

CacheTypeOK ==
  /\ ledger \in [Scopes -> 0..MaxLedgerWrites]
  /\ \A k \in Kinds : /\ entries[k].left \in 0..Ttl[k]
                      /\ entries[k].saw \in [Scopes -> 0..MaxLedgerWrites]
  /\ \A s \in Scopes : index[s].keys \subseteq Kinds /\ index[s].left \in Nat
  /\ \A c \in Clearers : clears[c].phase \in {"idle", "next", "list", "delete", "drop", "finish", "failed"}
  /\ \A i \in DOMAIN invalidations :
       /\ invalidations[i].status \in {"pending", "processing", "failed", "completed"}
       /\ invalidations[i].attempts \in 0..MaxInvalidations
       /\ invalidations[i].wait \in 0..CacheLease
  /\ cacheFaults \in 0..MaxRedisFaults
  /\ \A s \in Scopes : cleared[s] <= ledger[s]

Live(k)     == entries[k].left > 0
Stale(k, s) == Live(k) /\ entries[k].saw[s] < ledger[s]

Fault == cacheFaults < MaxRedisFaults /\ cacheFaults' = cacheFaults + 1

CacheInit ==
  /\ ledger = [s \in Scopes |-> 0]
  /\ entries = [k \in Kinds |-> NoEntry]
  /\ index = [s \in Scopes |-> NoIndex]
  /\ recalls = [r \in Recalls |-> NoRecall]
  /\ clears = [c \in Clearers |-> NoClear]
  /\ invalidations = <<>>
  /\ cacheFaults = 0
  /\ cleared = ledger
  /\ excused = {}

-----------------------------------------------------------------------------
(* Recalls *)

\* setSearch, setStartupContext, rememberRecent: the key, then its scopes
Put(k) ==
  <<[op |-> "set", kind |-> k]>>
    \o [i \in 1..Len(SetToSeq(Scopes)) |-> [op |-> "index", kind |-> k, scope |-> SetToSeq(Scopes)[i]]]

Answers == IF StartupQuery THEN <<"startup", "search">> ELSE <<"search">>

\* what a recall does to the cache: an answer found is remembered as recent,
\* an answer computed is stored as well
Program ==
  [hit  |-> Put("recent"),
   miss |-> Put("search") \o (IF StartupQuery THEN Put("startup") ELSE <<>>) \o Put("recent")]

Idle(r) == recalls[r] = NoRecall
Todo(r) == IF Idle(r) THEN {} ELSE {Program[recalls[r].run][i] : i \in recalls[r].at..Len(Program[recalls[r].run])}
Do(r)   == Program[recalls[r].run][recalls[r].at]
Start(r, run, saw) == recalls' = [recalls EXCEPT ![r] = [saw |-> saw, run |-> run, at |-> 1]]
Did(r)  == LET y == recalls[r]
           IN recalls' = [recalls EXCEPT ![r] = IF y.at = Len(Program[y.run]) THEN NoRecall ELSE [y EXCEPT !.at = y.at + 1]]

\* the first entry that is asked for and there
Answered(i) == Live(Answers[i]) /\ \A j \in 1..(i - 1) : ~Live(Answers[j])

Hit(r) ==
  /\ Idle(r)
  /\ \E i \in DOMAIN Answers : Answered(i) /\ Start(r, "hit", entries[Answers[i]].saw)
  /\ UNCHANGED <<ledger, entries, index, clears, invalidations, cacheFaults, cleared, excused>>

\* Nothing found, or Redis not asked: the ledger and the index of vectors are
\* read, and the answer is stored. (The read is taken to be one instant.)
Miss(r) ==
  /\ Idle(r)
  /\ IF \E i \in DOMAIN Answers : Live(Answers[i]) THEN Fault ELSE UNCHANGED cacheFaults
  /\ Start(r, "miss", ledger)
  /\ UNCHANGED <<ledger, entries, index, clears, invalidations, cleared, excused>>

\* SET key EX ttl
Store(r) ==
  /\ ~Idle(r) /\ Do(r).op = "set"
  /\ LET k == Do(r).kind  saw == recalls[r].saw IN
     /\ entries' = [entries EXCEPT ![k] = [saw |-> saw, left |-> Ttl[k]]]
     /\ excused' = (excused \ ({k} \X Scopes)) \cup ({k} \X {s \in Scopes : saw[s] < ledger[s]})
  /\ Did(r)
  /\ UNCHANGED <<ledger, index, clears, invalidations, cacheFaults, cleared>>

\* SADD and EXPIRE of the index, with the time of this kind
Name(r) ==
  /\ ~Idle(r) /\ Do(r).op = "index"
  /\ LET k == Do(r).kind  s == Do(r).scope IN
     index' = [index EXCEPT ![s] = [keys |-> @.keys \cup {k}, left |-> Ttl[k]]]
  /\ Did(r)
  /\ UNCHANGED <<ledger, entries, clears, invalidations, cacheFaults, cleared, excused>>

\* the operation falls to Redis being away, or the process ends: the index
\* may then lack keys that are stored
Skip(r) ==
  /\ ~Idle(r) /\ Fault
  /\ \E gone \in {{Do(r)}, Todo(r)} :
       /\ IF gone = {Do(r)} THEN Did(r) ELSE recalls' = [recalls EXCEPT ![r] = NoRecall]
       /\ excused' = excused \cup {<<d.kind, d.scope>> : d \in {e \in gone : e.op = "index"}}
  /\ UNCHANGED <<ledger, entries, index, clears, invalidations, cleared>>

-----------------------------------------------------------------------------
(* Invalidation *)

Awaits(k, s) == \E r \in Recalls : [op |-> "index", kind |-> k, scope |-> s] \in Todo(r)

Write(s) == ledger[s] < MaxLedgerWrites /\ ledger' = [ledger EXCEPT ![s] = @ + 1]

\* A service commits, and goes on to invalidate the scope of the row.
CommitWrite(c) ==
  /\ c \in CacheWriters /\ clears[c] = NoClear
  /\ \E s \in Scopes :
       /\ Write(s)
       /\ clears' = [clears EXCEPT ![c] = [phase |-> "list", scope |-> s, keys |-> {}, covers |-> 0]]
  /\ UNCHANGED <<entries, index, recalls, invalidations, cacheFaults, cleared, excused>>

\* Sweeps, consolidation and repairs change rows and invalidate nothing.
SilentWrite ==
  /\ \E s \in Scopes : Write(s) /\ excused' = excused \cup (Kinds \X {s})
  /\ UNCHANGED <<entries, index, recalls, clears, invalidations, cacheFaults, cleared>>

\* SMEMBERS of the index
List(c) ==
  /\ clears[c].phase = "list"
  /\ LET s == clears[c].scope IN
     /\ clears' = [clears EXCEPT ![c].phase = "delete", ![c].keys = index[s].keys, ![c].covers = ledger[s]]
     /\ excused' = excused \cup {<<k, s>> : k \in {q \in Kinds \ index[s].keys : Awaits(q, s)}}
  /\ UNCHANGED <<ledger, entries, index, recalls, invalidations, cacheFaults, cleared>>

\* DEL of the keys listed
Evict(c) ==
  /\ clears[c].phase = "delete"
  /\ entries' = [k \in Kinds |-> IF k \in clears[c].keys THEN NoEntry ELSE entries[k]]
  /\ excused' = excused \ (clears[c].keys \X Scopes)
  /\ clears' = [clears EXCEPT ![c].phase = "drop"]
  /\ UNCHANGED <<ledger, index, recalls, invalidations, cacheFaults, cleared>>

\* DEL of the index, with whatever was named in it since
Drop(c) ==
  /\ clears[c].phase = "drop"
  /\ LET s == clears[c].scope IN
     /\ index' = [index EXCEPT ![s] = NoIndex]
     /\ excused' = excused \cup ({k \in index[s].keys : Live(k)} \X {s})
     /\ cleared' = [cleared EXCEPT ![s] = IF @ < clears[c].covers THEN clears[c].covers ELSE @]
  /\ clears' = [clears EXCEPT ![c] = IF c \in CacheWriters THEN NoClear ELSE [@ EXCEPT !.phase = "finish"]]
  /\ UNCHANGED <<ledger, entries, recalls, invalidations, cacheFaults>>

\* an operation of invalidateScopes throws RecallCacheInvalidationError
Fail(c) ==
  /\ clears[c].phase \in {"list", "delete", "drop"} /\ Fault
  /\ clears' = [clears EXCEPT ![c].phase = "failed"]
  /\ UNCHANGED <<ledger, entries, index, recalls, invalidations, cleared, excused>>

-----------------------------------------------------------------------------
(* Invalidations that failed *)

Request(s, since) == [scope |-> s, status |-> "pending", attempts |-> 0, wait |-> 0, done |-> FALSE, since |-> since]

\* Variant: a failed invalidation is not written down.
EnqueueInvalidation_Never(c) ==
  /\ c \in CacheWriters /\ clears[c].phase = "failed"
  /\ clears' = [clears EXCEPT ![c] = NoClear]
  /\ UNCHANGED <<ledger, entries, index, recalls, invalidations, cacheFaults, cleared, excused>>

\* enqueueFailures of a writer
EnqueueInvalidation(c) ==
  /\ c \in CacheWriters /\ clears[c].phase = "failed"
  /\ invalidations' = Append(invalidations, Request(clears[c].scope, ledger[clears[c].scope]))
  /\ clears' = [clears EXCEPT ![c] = NoClear]
  /\ UNCHANGED <<ledger, entries, index, recalls, cacheFaults, cleared, excused>>

\* An auto-update leaves the row of its invalidation to its own transaction.
QueuedWrite ==
  /\ \E s \in Scopes : Write(s) /\ invalidations' = Append(invalidations, Request(s, ledger[s] + 1))
  /\ UNCHANGED <<entries, index, recalls, clears, cacheFaults, cleared, excused>>

\* its error is swallowed, or the service ends before it: nobody will know
LoseInvalidation(c) ==
  /\ c \in CacheWriters /\ clears[c] # NoClear /\ Fault
  /\ excused' = excused \cup (Kinds \X {clears[c].scope})
  /\ clears' = [clears EXCEPT ![c] = NoClear]
  /\ UNCHANGED <<ledger, entries, index, recalls, invalidations, cleared>>

\* Variant: a claim whose worker ended is not taken over.
Due_NotTaken(i) ==
  /\ ~invalidations[i].done /\ invalidations[i].attempts < MaxInvalidations
  /\ invalidations[i].status \in {"pending", "failed"} /\ invalidations[i].wait = 0

\* the rows claimNext selects; wait is the time to next_attempt_at or to the
\* end of the lease
Due(i) ==
  /\ ~invalidations[i].done /\ invalidations[i].attempts < MaxInvalidations
  /\ invalidations[i].status \in {"pending", "failed", "processing"} /\ invalidations[i].wait = 0

\* One run of the worker: all rows that are due in one transaction ...
ClaimInvalidations(c) ==
  /\ c \in CacheWorkers /\ clears[c] = NoClear
  /\ LET due == {i \in DOMAIN invalidations : Due(i)} IN
     /\ due # {}
     /\ invalidations' = [i \in DOMAIN invalidations |->
          IF i \in due THEN [invalidations[i] EXCEPT !.status = "processing", !.attempts = @ + 1, !.wait = CacheLease]
                       ELSE invalidations[i]]
     /\ clears' = [clears EXCEPT ![c] = [phase |-> "next", batch |-> due]]
  /\ UNCHANGED <<ledger, entries, index, recalls, cacheFaults, cleared, excused>>

\* ... then one after the other
TakeInvalidation(c) ==
  /\ clears[c].phase = "next"
  /\ IF clears[c].batch = {} THEN clears' = [clears EXCEPT ![c] = NoClear]
     ELSE \E i \in clears[c].batch :
       clears' = [clears EXCEPT ![c] = [phase |-> "list", scope |-> invalidations[i].scope, keys |-> {}, covers |-> 0,
                                        row |-> i, batch |-> clears[c].batch \ {i}]]
  /\ UNCHANGED <<ledger, entries, index, recalls, invalidations, cacheFaults, cleared, excused>>

\* Variant: without strict, invalidate reports nothing.
Carried_Anyway == {"finish", "failed"}

\* where a worker may mark its row completed: invalidate returned
Carried == {"finish"}

Next1(c) == clears' = [clears EXCEPT ![c] = [phase |-> "next", batch |-> @.batch]]

CompleteInvalidation(c) ==
  /\ c \in CacheWorkers /\ clears[c].phase \in Carried
  /\ invalidations' = [invalidations EXCEPT ![clears[c].row] =
                         [@ EXCEPT !.status = "completed", !.done = TRUE, !.wait = 0]]
  /\ Next1(c)
  /\ UNCHANGED <<ledger, entries, index, recalls, cacheFaults, cleared, excused>>

\* a row out of attempts is carried out by nobody
GivenUp(i) == ~invalidations[i].done /\ invalidations[i].attempts = MaxInvalidations

\* also when markCompleted itself failed; completed_at stays as it is
FailInvalidation(c) ==
  /\ c \in CacheWorkers
  /\ \/ clears[c].phase = "failed" /\ UNCHANGED cacheFaults
     \/ clears[c].phase = "finish" /\ Fault
  /\ LET i == clears[c].row IN
     /\ invalidations' = [invalidations EXCEPT ![i] = [@ EXCEPT !.status = "failed", !.wait = CacheLease]]
     /\ excused' = IF GivenUp(i) THEN excused \cup (Kinds \X {clears[c].scope}) ELSE excused
  /\ Next1(c)
  /\ UNCHANGED <<ledger, entries, index, recalls, cleared>>

Held(c) == IF clears[c] = NoClear THEN {}
           ELSE clears[c].batch \cup (IF clears[c].phase = "next" THEN {} ELSE {clears[c].row})

\* the worker ends: its rows stay processing until their leases are over
EndWorker(c) ==
  /\ c \in CacheWorkers /\ clears[c] # NoClear /\ Fault
  /\ excused' = excused \cup (Kinds \X {invalidations[i].scope : i \in {j \in Held(c) : GivenUp(j)}})
  /\ clears' = [clears EXCEPT ![c] = NoClear]
  /\ UNCHANGED <<ledger, entries, index, recalls, invalidations, cleared>>

-----------------------------------------------------------------------------
Down(n) == IF n = 0 THEN 0 ELSE n - 1

\* Time passes: keys expire, an index with everything it names.
CacheTick ==
  /\ \/ \E k \in Kinds : Live(k)
     \/ \E s \in Scopes : index[s].left > 0
     \/ \E i \in DOMAIN invalidations : invalidations[i].wait > 0
  /\ entries' = [k \in Kinds |-> IF entries[k].left <= 1 THEN NoEntry ELSE [entries[k] EXCEPT !.left = @ - 1]]
  /\ index' = [s \in Scopes |-> IF index[s].left <= 1 THEN NoIndex ELSE [index[s] EXCEPT !.left = @ - 1]]
  /\ invalidations' = [i \in DOMAIN invalidations |-> [invalidations[i] EXCEPT !.wait = Down(@)]]
  /\ excused' = (excused \cup UNION {{k \in index[s].keys : entries[k].left > 1} \X {s} : s \in {q \in Scopes : index[q].left <= 1}})
                   \ ({k \in Kinds : entries[k].left <= 1} \X Scopes)
  /\ UNCHANGED <<ledger, recalls, clears, cacheFaults, cleared>>

RecallStep(r) == Hit(r) \/ Miss(r) \/ Store(r) \/ Name(r)
ClearStep(c)  == List(c) \/ Evict(c) \/ Drop(c) \/ EnqueueInvalidation(c)
WorkStep(c)   == ClaimInvalidations(c) \/ TakeInvalidation(c) \/ CompleteInvalidation(c) \/ FailInvalidation(c)

CacheNext ==
  \/ \E r \in Recalls : RecallStep(r) \/ Skip(r)
  \/ \E c \in Clearers : CommitWrite(c) \/ ClearStep(c) \/ Fail(c) \/ LoseInvalidation(c) \/ WorkStep(c) \/ EndWorker(c)
  \/ SilentWrite \/ QueuedWrite
  \/ CacheTick

\* what is begun goes on, the worker is started by its timer, time passes
CacheFairness ==
  /\ \A r \in Recalls : WF_cacheVars(Store(r) \/ Name(r))
  /\ \A c \in Clearers : WF_cacheVars(ClearStep(c) \/ WorkStep(c))
  /\ WF_cacheVars(CacheTick)

CacheSpec == CacheInit /\ [][CacheNext]_cacheVars /\ CacheFairness

-----------------------------------------------------------------------------
(* Properties *)

Named(k, s) == k \in index[s].keys \/ Awaits(k, s)

\* somebody is still to remove the entry from the cache for this scope
Expected(k, s) ==
  \/ \E c \in Clearers : /\ clears[c].phase \in {"list", "delete", "drop", "failed"} /\ clears[c].scope = s
                         /\ IF clears[c].phase = "delete" THEN k \in clears[c].keys ELSE Named(k, s)
  \/ /\ Named(k, s)
     /\ \E i \in DOMAIN invalidations :
          invalidations[i].scope = s /\ ~invalidations[i].done
          /\ (invalidations[i].attempts < MaxInvalidations \/ \E c \in CacheWorkers : i \in Held(c))

\* An answer older than the ledger that nobody is going to remove has one of
\* these causes, and no other: it was stored after the write it misses; the
\* writer listed the index while the recall had yet to name the key, or
\* dropped the index under a key just named; the index operation was skipped;
\* the index expired before the entry; the write does not invalidate; the
\* failed invalidation was lost or is out of attempts.
StaleHasACause ==
  \A k \in Kinds, s \in Scopes : Stale(k, s) => <<k, s>> \in excused \/ Expected(k, s)

\* A request row is completed only when an invalidation of its scope that
\* began after the row was written has run to its end, whatever crashes,
\* leases and double claims came between.
DoneMeansCleared ==
  \A i \in DOMAIN invalidations :
    invalidations[i].done => cleared[invalidations[i].scope] >= invalidations[i].since

\* The cache settles: once the writes stop, no stale answer is left after a
\* while, although recalls go on and each hit stores what it served; and every
\* failed invalidation has been carried out or is out of attempts, a claim
\* whose worker ended being taken over.
CacheSettles ==
  <>[](/\ \A k \in Kinds, s \in Scopes : ~Stale(k, s)
       /\ \A i \in DOMAIN invalidations : invalidations[i].done \/ GivenUp(i))
=============================================================================
