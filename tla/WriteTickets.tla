----------------------------- MODULE WriteTickets -----------------------------
(***************************************************************************)
(* Write tickets: a fast_ack write is answered with a ticket, and worked   *)
(* on later by a worker that claims it for a time (or, by a setting, by    *)
(* the server beside it). Working on it means to extract memories and to   *)
(* create them one by one; the outcome goes into the ticket. A ticket that *)
(* is too old is failed whenever someone asks for it.                      *)
(***************************************************************************)
EXTENDS Integers, FiniteSets

CONSTANTS
  Tickets,        \* write_tickets
  Keyed,          \* those whose payload has an idempotency key
  TicketWorkers,  \* processes of run-write-ticket-worker
  Inline,         \* MEMORY_XX_FAST_ACK_INLINE_FALLBACK
  TicketTtls,     \* write.ticket.ttl_seconds, in ticks (it may be changed)
  TicketLease,    \* lease of a claim, in ticks
  TicketBatch,    \* batch_size of a worker
  MaxMemories,    \* bound on the memories of one extraction
  MaxTicketFaults \* bound on errors and crashes

VARIABLES
  ticket,       \* the rows
  work,         \* what each process is doing
  registered,   \* ingest_requests: whether the key of a ticket is taken
  made,         \* memories created for each ticket
  ticketFaults,
  begun,        \* history: tickets that somebody has begun to work on
  ticketCauses  \* history: tickets in vain: an error, a crash, a second process
                \* at work on them, a second memory under their key

ticketVars == <<ticket, work, registered, made, ticketFaults, begun, ticketCauses>>

Open     == {"pending", "processing"}
Terminal == {"completed", "needs_review", "skipped_duplicate", "cancelled_low_quality", "failed"}
NoBody   == "nobody"
Server   == "server"
Process  == TicketWorkers \cup {Server}

\* A ticket: time to expires_at, time to the end of the lease.
NoTicket == [status |-> "none", ttl |-> 0, left |-> 0, lease |-> 0, attempts |-> 0, owner |-> NoBody]
\* A process: the rows of its claim still to do, the ticket at hand, the
\* memories still to create, what came of the first.
Between(batch) == [batch |-> batch, at |-> {}, todo |-> 0, first |-> "none"]
NoWork   == Between({})

ASSUME TicketAssumption ==
  /\ TicketLease \in Nat \ {0} /\ TicketTtls \subseteq Nat \ {0} /\ MaxMemories \in Nat /\ MaxTicketFaults \in Nat
  /\ NoBody \notin Process /\ Server \notin TicketWorkers

TicketTypeOK ==
  /\ ticket \in [Tickets -> [status : Open \cup Terminal \cup {"none"}, ttl : TicketTtls \cup {0}, left : Nat,
                             lease : Nat, attempts : Nat, owner : Process \cup {NoBody}]]
  /\ \A p \in Process : work[p].batch \subseteq Tickets /\ work[p].at \subseteq Tickets /\ Cardinality(work[p].at) <= 1
                        /\ work[p].todo \in 0..MaxMemories
  /\ registered \subseteq Keyed
  /\ made \in [Tickets -> Nat]
  /\ begun \subseteq Tickets /\ ticketCauses \subseteq Tickets
  /\ ticketFaults \in 0..MaxTicketFaults

TicketInit ==
  /\ ticket = [t \in Tickets |-> NoTicket]
  /\ work = [p \in Process |-> NoWork]
  /\ registered = {} /\ made = [t \in Tickets |-> 0]
  /\ ticketFaults = 0 /\ begun = {} /\ ticketCauses = {}

-----------------------------------------------------------------------------
Doing(p, t) == work[p].at = {t}

\* processSmartWrite, with an extraction of n memories
Begun(t, n, batch) == [batch |-> batch, at |-> {t}, todo |-> n, first |-> "none"]

Posted(ttl) == [status |-> "pending", ttl |-> ttl, left |-> ttl, lease |-> 0, attempts |-> 0, owner |-> NoBody]

WorkOn(t) == begun' = begun \cup {t} /\ ticketCauses' = ticketCauses \cup ({t} \cap begun)

\* A client posts; the same key again is answered from the row there is.
Post(t) ==
  /\ ticket[t].status = "none"
  /\ \E ttl \in TicketTtls : ticket' = [ticket EXCEPT ![t] = Posted(ttl)]
  /\ IF Inline /\ work[Server] = NoWork
       THEN (\E n \in 0..MaxMemories : work' = [work EXCEPT ![Server] = Begun(t, n, {})]) /\ WorkOn(t)
       ELSE UNCHANGED <<work, begun, ticketCauses>>
  /\ UNCHANGED <<registered, made, ticketFaults>>

\* Variant: a lease is not looked at.
Claimable_NoLease(t) == ticket[t].status \in Open /\ ticket[t].left > 0

\* the rows of claimNext
Claimable(t) ==
  /\ ticket[t].left > 0
  /\ \/ ticket[t].status = "pending"
     \/ ticket[t].status = "processing" /\ ticket[t].lease = 0

\* up to limit of them in one transaction (the oldest in fact)
ClaimTickets(p) ==
  /\ p \in TicketWorkers /\ work[p] = NoWork
  /\ \E batch \in SUBSET {t \in Tickets : Claimable(t)} :
       /\ batch # {} /\ Cardinality(batch) <= TicketBatch
       /\ ticket' = [t \in Tickets |-> IF t \in batch
                       THEN [ticket[t] EXCEPT !.status = "processing", !.owner = p, !.lease = TicketLease, !.attempts = @ + 1]
                       ELSE ticket[t]]
       /\ work' = [work EXCEPT ![p].batch = batch]
  /\ UNCHANGED <<registered, made, ticketFaults, begun, ticketCauses>>

\* The next of the batch: a heartbeat whose answer is not looked at, then the
\* extraction.
BeginTicket(p) ==
  /\ work[p].at = {} /\ work[p].batch # {}
  /\ \E t \in work[p].batch, n \in 0..MaxMemories :
       /\ ticket' = [ticket EXCEPT ![t].lease =
                       IF ticket[t].owner = p /\ ticket[t].status = "processing" THEN TicketLease ELSE @]
       /\ work' = [work EXCEPT ![p] = Begun(t, n, work[p].batch \ {t})]
       /\ WorkOn(t)
  /\ UNCHANGED <<registered, made, ticketFaults>>

\* Variant: an outcome is written only over an open ticket of this worker.
Completed_Own(t, p, status) ==
  IF ticket[t].owner = p /\ ticket[t].status = "processing"
    THEN [ticket EXCEPT ![t] = [@ EXCEPT !.status = status, !.owner = NoBody, !.lease = 0]] ELSE ticket

\* complete: whatever the ticket has become
Completed(t, p, status) == [ticket EXCEPT ![t] = [@ EXCEPT !.status = status, !.owner = NoBody, !.lease = 0]]

Finished(p) == [work EXCEPT ![p] = Between(work[p].batch)]

\* what came of a memory, for the status of the ticket: the first one counts
Outcome(p, what) == [work EXCEPT ![p].todo = @ - 1, ![p].first = IF @ = "none" THEN what ELSE @]

\* skipped as a duplicate, put into the low-confidence buffer, or turned away
\* by the policy (which counts as completed)
PassOver(p) ==
  /\ work[p].todo > 0
  /\ \E what \in {"skipped_duplicate", "cancelled_low_quality", "completed"} : work' = Outcome(p, what)
  /\ UNCHANGED <<ticket, registered, made, ticketFaults, begun, ticketCauses>>

\* An approved memory that takes the place of one there is has a request id
\* of its own.
Replace(p, t) ==
  /\ Doing(p, t) /\ work[p].todo > 0
  /\ made' = [made EXCEPT ![t] = @ + 1]
  /\ work' = Outcome(p, "completed")
  /\ UNCHANGED <<ticket, registered, ticketFaults, begun, ticketCauses>>

\* The request id of a create is the key of the payload, for each memory of
\* it; its hash covers the memory and the health snapshot of the moment, so
\* that a second create under the key is a conflict, which is thrown.
Create(p, t) ==
  /\ Doing(p, t) /\ work[p].todo > 0 /\ t \notin registered
  /\ made' = [made EXCEPT ![t] = @ + 1]
  /\ registered' = IF t \in Keyed THEN registered \cup {t} ELSE registered
  /\ \E what \in {"completed", "needs_review"} : work' = Outcome(p, what)
  /\ UNCHANGED <<ticket, ticketFaults, begun, ticketCauses>>

CreateConflicts(p, t) ==
  /\ Doing(p, t) /\ work[p].todo > 0 /\ t \in registered
  /\ ticket' = Completed(t, p, "failed")
  /\ work' = Finished(p)
  /\ ticketCauses' = ticketCauses \cup {t}
  /\ UNCHANGED <<registered, made, ticketFaults, begun>>

\* anything else throws: extraction, embedding, policy, the database
Throw(p, t) ==
  /\ Doing(p, t) /\ ticketFaults < MaxTicketFaults
  /\ ticketFaults' = ticketFaults + 1
  /\ ticketCauses' = ticketCauses \cup {t}
  /\ ticket' = Completed(t, p, "failed")
  /\ work' = Finished(p)
  /\ UNCHANGED <<registered, made, begun>>

\* nothing was extracted, or all has been dealt with
FinishTicket(p, t) ==
  /\ Doing(p, t) /\ work[p].todo = 0
  /\ ticket' = Completed(t, p, IF work[p].first = "none" THEN "failed" ELSE work[p].first)
  /\ work' = Finished(p)
  /\ UNCHANGED <<registered, made, ticketFaults, begun, ticketCauses>>

\* failExpired, by a client that asks for a ticket or by the sweep
FailExpired ==
  /\ \E t \in Tickets : ticket[t].status \in Open /\ ticket[t].left = 0
  /\ ticket' = [t \in Tickets |-> IF ticket[t].status \in Open /\ ticket[t].left = 0
                  THEN [ticket[t] EXCEPT !.status = "failed", !.owner = NoBody, !.lease = 0] ELSE ticket[t]]
  /\ UNCHANGED <<work, registered, made, ticketFaults, begun, ticketCauses>>

\* the process ends: nobody looks after its claim before the lease is over
StopWorker(p) ==
  /\ work[p] # NoWork /\ ticketFaults < MaxTicketFaults
  /\ ticketFaults' = ticketFaults + 1
  /\ ticketCauses' = ticketCauses \cup work[p].at
  /\ work' = [work EXCEPT ![p] = NoWork]
  /\ UNCHANGED <<ticket, registered, made, begun>>

Less(n) == IF n = 0 THEN 0 ELSE n - 1

TicketTick ==
  /\ \E t \in Tickets : ticket[t].left > 0 \/ ticket[t].lease > 0
  /\ ticket' = [t \in Tickets |-> [ticket[t] EXCEPT !.left = Less(@), !.lease = Less(@)]]
  /\ UNCHANGED <<work, registered, made, ticketFaults, begun, ticketCauses>>

Progress(p) ==
  \/ ClaimTickets(p) \/ BeginTicket(p) \/ PassOver(p)
  \/ \E t \in Tickets : Replace(p, t) \/ Create(p, t) \/ CreateConflicts(p, t) \/ FinishTicket(p, t)

TicketNext ==
  \/ \E t \in Tickets : Post(t)
  \/ \E p \in Process : Progress(p) \/ StopWorker(p) \/ \E t \in Tickets : Throw(p, t)
  \/ FailExpired
  \/ TicketTick

TicketSpec == TicketInit /\ [][TicketNext]_ticketVars

-----------------------------------------------------------------------------
\* A claim cannot be taken over before its ticket has expired when the ticket
\* lives no longer than a lease, as by default: such a ticket is claimed once,
\* whatever workers crash or fall behind (and one whose worker crashed fails
\* by its age alone). Workers do not look at what their heartbeat answers, so
\* that this is what keeps two of them from working on one ticket.
ClaimedOnceInTime ==
  \A t \in Tickets : ticket[t].ttl <= TicketLease => ticket[t].attempts <= 1

\* A ticket that says failed, with nobody at work on it, although a memory was
\* created for it, has one of these causes: an error or a crash on the way, a
\* second process that worked on it (in turn or together), or a second memory
\* under its key. In particular expiry alone never fails what was done.
Attended(t) == \E p \in Process : Doing(p, t)
FailedInVainHasACause ==
  \A t \in Tickets : ticket[t].status = "failed" /\ made[t] > 0 /\ ~Attended(t) => t \in ticketCauses
=============================================================================
