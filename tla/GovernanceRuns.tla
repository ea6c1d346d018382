--------------------------- MODULE GovernanceRuns ---------------------------
(***************************************************************************)
(* Runs of one governance job (memory_governance_runs): a process begins a *)
(* run by taking the job's lease, extends it while it works if it has a    *)
(* heartbeat, and finishes the row. A run whose lease is over is taken     *)
(* over in the same row; the detector of stuck runs fails rows it listed.  *)
(***************************************************************************)
EXTENDS Integers, Sequences

CONSTANTS
  Jobbers,       \* processes that run the job
  Beating,       \* those with a heartbeat (memory-governance.ts)
  GovLease,      \* lease of a run, in ticks
  StuckTimeout,  \* --timeout-minutes of the detector, in ticks
  MaxRuns,       \* bound on the rows
  MaxGovFaults   \* bound on crashes and lost updates

VARIABLES
  govRuns,    \* the rows: status, holder of the lease, ticks left of it
  jobber,     \* what each process is doing
  suspects,   \* rows the detector has listed and not yet failed
  late,       \* history: processes at work whose lease has been over once
  robbed,     \* history: processes at work whose lease another took away
  govFaults

govVars == <<govRuns, jobber, suspects, late, robbed, govFaults>>

ASSUME GovernanceAssumption ==
  GovLease \in Nat \ {0} /\ StuckTimeout \in Nat /\ Beating \subseteq Jobbers /\ "none" \notin Jobbers

NoHolder == "none"
Resting  == [phase |-> "idle", row |-> 0]

GovTypeOK ==
  /\ govRuns \in Seq([status : {"running", "ended"}, holder : Jobbers \cup {NoHolder}, left : 0..GovLease])
  /\ jobber \in [Jobbers -> [phase : {"idle", "work", "release"}, row : 0..Len(govRuns)]]
  /\ \A j \in Jobbers : (jobber[j].phase = "idle") = (jobber[j].row = 0)
  /\ suspects \subseteq DOMAIN govRuns
  /\ late \subseteq Jobbers /\ robbed \subseteq Jobbers
  /\ govFaults \in Nat

GovInit ==
  /\ govRuns = <<>>
  /\ jobber = [j \in Jobbers |-> Resting]
  /\ suspects = {} /\ late = {} /\ robbed = {}
  /\ govFaults = 0

-----------------------------------------------------------------------------
AtWork(j) == jobber[j].phase = "work"

\* the process that holds the lease of a row, if another than j and at work
Victims(i, j) == {v \in Jobbers \ {j} : govRuns[i].holder = v /\ AtWork(v)}

GovFault == govFaults < MaxGovFaults /\ govFaults' = govFaults + 1

Leased(i) == govRuns[i].holder # NoHolder
HeldRuns == {i \in DOMAIN govRuns : Leased(i)}

Fresh(j) == [status |-> "running", holder |-> j, left |-> GovLease]

\* Variant: a lease is taken over whatever its time.
Over_Always(i) == TRUE

Over(i) == govRuns[i].left = 0

\* tryBeginRun: a new row, unless one has a holder; then that one, once its
\* lease is over. (Otherwise a row that says skipped, which is no run.)
BeginRun(j) ==
  /\ jobber[j] = Resting
  /\ \E i \in 1..MaxRuns :
       /\ IF HeldRuns = {} THEN i = Len(govRuns) + 1 ELSE i \in HeldRuns /\ Over(i)
       /\ govRuns' = [k \in DOMAIN govRuns \cup {i} |-> IF k = i THEN Fresh(j) ELSE govRuns[k]]
       /\ jobber' = [jobber EXCEPT ![j] = [phase |-> "work", row |-> i]]
  /\ UNCHANGED <<suspects, late, robbed, govFaults>>

\* heartbeatRunLease; an answer that the lease is lost is only logged
Heartbeat(j) ==
  /\ j \in Beating /\ AtWork(j)
  /\ LET i == jobber[j].row IN
     /\ govRuns[i].status = "running" /\ govRuns[i].holder = j
     /\ govRuns' = [govRuns EXCEPT ![i].left = GovLease]
  /\ UNCHANGED <<jobber, suspects, late, robbed, govFaults>>

\* a row that says success, partial or failed, without a lease
Ended == [status |-> "ended", holder |-> NoHolder, left |-> 0]

Leave(j) == late' = late \ {j} /\ robbed' = robbed \ {j}

\* finishRun writes by the id of the row, whoever holds it by now
FinishRun(j) ==
  /\ AtWork(j)
  /\ LET i == jobber[j].row IN
     /\ govRuns' = [govRuns EXCEPT ![i] = Ended]
     /\ late' = late \ {j}
     /\ robbed' = (robbed \ {j}) \cup Victims(i, j)
  /\ jobber' = [jobber EXCEPT ![j] = IF j \in Beating THEN [@ EXCEPT !.phase = "release"] ELSE Resting]
  /\ UNCHANGED <<suspects, govFaults>>

\* a run fails, and to record it fails too
Abandon(j) ==
  /\ AtWork(j) /\ GovFault
  /\ jobber' = [jobber EXCEPT ![j] = IF j \in Beating THEN [@ EXCEPT !.phase = "release"] ELSE Resting]
  /\ Leave(j)
  /\ UNCHANGED <<govRuns, suspects>>

Freed(r) == [status |-> r.status, holder |-> NoHolder, left |-> 0]

\* releaseRunLease, by id and holder; the row still says running if it was not
\* finished
ReleaseLease(j) ==
  /\ jobber[j].phase = "release"
  /\ LET i == jobber[j].row IN
     govRuns' = IF govRuns[i].holder = j THEN [govRuns EXCEPT ![i] = Freed(govRuns[i])] ELSE govRuns
  /\ jobber' = [jobber EXCEPT ![j] = Resting]
  /\ UNCHANGED <<suspects, late, robbed, govFaults>>

\* the process ends, the row and its lease stay
EndProcess(j) ==
  /\ jobber[j] # Resting /\ GovFault
  /\ jobber' = [jobber EXCEPT ![j] = Resting]
  /\ Leave(j)
  /\ UNCHANGED <<govRuns, suspects>>

-----------------------------------------------------------------------------
(* memory-governance-stuck-runs *)

\* A lease and heartbeat_at are written together, by tryBeginRun and by each
\* heartbeat, so that the age of heartbeat_at is what is gone of the lease.
Silent(i) == GovLease - govRuns[i].left

\* rows that say running with a lease that is over (or gone), and those whose
\* last heartbeat is as old as the timeout, which need not exceed the lease
ListStuck ==
  /\ suspects = {}
  /\ suspects' = {i \in DOMAIN govRuns :
                    govRuns[i].status = "running" /\ (govRuns[i].left = 0 \/ Silent(i) >= StuckTimeout)}
  /\ suspects' # {}
  /\ UNCHANGED <<govRuns, jobber, late, robbed, govFaults>>

\* UPDATE of the ids listed, whatever has become of them
FailStuck ==
  /\ suspects # {}
  /\ govRuns' = [i \in DOMAIN govRuns |-> IF i \in suspects THEN Ended ELSE govRuns[i]]
  /\ robbed' = robbed \cup {v \in Jobbers : AtWork(v) /\ \E i \in suspects : govRuns[i].holder = v}
  /\ suspects' = {}
  /\ UNCHANGED <<jobber, late, govFaults>>

\* Time passes.
GovTick ==
  /\ \E i \in DOMAIN govRuns : govRuns[i].left > 0
  /\ govRuns' = [i \in DOMAIN govRuns |-> [govRuns[i] EXCEPT !.left = IF @ = 0 THEN 0 ELSE @ - 1]]
  /\ late' = late \cup {j \in Jobbers : AtWork(j) /\ \E i \in DOMAIN govRuns : govRuns[i].holder = j /\ govRuns[i].left = 1}
  /\ UNCHANGED <<jobber, suspects, robbed, govFaults>>

GovNext ==
  \/ \E j \in Jobbers : BeginRun(j) \/ Heartbeat(j) \/ FinishRun(j) \/ Abandon(j) \/ ReleaseLease(j) \/ EndProcess(j)
  \/ ListStuck \/ FailStuck
  \/ GovTick

GovSpec == GovInit /\ [][GovNext]_govVars

-----------------------------------------------------------------------------
\* Two runs of one job are at work together only if one of them has outlived
\* its lease, or its lease was taken from it: by the run it had taken over
\* from, which finished the row it no longer held, or by the detector, which
\* failed a row taken over or heard of since it was listed, or (with a timeout
\* shorter than the lease) one that is in time and only had no heartbeat for
\* so long. No run takes over the row of one that is in time, and two that are
\* in time and were not robbed never share the job.
RunsApart ==
  \A j, k \in Jobbers : j # k /\ AtWork(j) /\ AtWork(k) => {j, k} \cap (late \cup robbed) # {}
=============================================================================
