-------------------------- MODULE OutboxQueueProofs --------------------------
(***************************************************************************)
(* Proofs about OutboxQueue, for every number of rows and attempts:        *)
(*  - the types, for every set of workers and replays;                     *)
(*  - acknowledgement only after projection, for every number of workers   *)
(*    and faults, without manual replays;                                  *)
(*  - the causes of a stranded row and of two holders of one row, for      *)
(*    every number of workers, replays and faults;                         *)
(*  - the bound on attempts, for one worker without replays, any faults;   *)
(*  - no stranded row, a sound cursor and the in-order promise, for one    *)
(*    worker without faults whose rows become visible in order.            *)
(***************************************************************************)
EXTENDS OutboxQueue, TLAPS

-----------------------------------------------------------------------------
(* Types                                                                   *)

\* A process between claim and mark has an actual row in hand.
Typed ==
  /\ TypeOK
  /\ \A p \in Procs : proc[p].phase \in Holding => proc[p].event \in Events

LEMMA IdleProcType == IdleProc \in Proc /\ DownProc \in Proc /\ Absent \in Row
<1>1. Absent \in Row
  BY DEF Absent, Row, Status
<1>2. IdleProc \in Proc
  BY <1>1, OutboxAssumption DEF IdleProc, Proc, Phase, Verdict
<1> QED BY <1>1, <1>2 DEF DownProc, Proc, Phase

LEMMA TypedInit == Init => Typed
<1> SUFFICES ASSUME Init PROVE Typed
  OBVIOUS
<1>2. row \in [Events -> Row] /\ proc \in [Procs -> Proc]
  BY IdleProcType DEF Init
<1>3. \A p \in Procs : proc[p].phase \notin Holding
  BY DEF Init, IdleProc, Holding
<1> QED BY <1>2, <1>3, OutboxAssumption DEF Init, Typed, TypeOK, Summary

LEMMA MarkedRowType ==
  ASSUME Typed, NEW p \in Procs
  PROVE  MarkedRow(p) \in Row
BY DEF Typed, TypeOK, MarkedRow, Row, Status, Proc

\* A step of one process changes that process's own record only.
LEMMA TypedProcStep ==
  ASSUME Typed, NEW p \in Procs, NEW r \in Proc,
         r.phase \in Holding => r.event \in Events,
         proc' = [proc EXCEPT ![p] = r],
         row' \in [Events -> Row], cursor' \in 0..NumEvents, summary' \in Summary,
         synced' \subseteq Events, faults' \in 0..MaxFaults
  PROVE  Typed'
<1>1. proc' \in [Procs -> Proc]
  BY DEF Typed, TypeOK
<1>2. \A q \in Procs : proc'[q].phase \in Holding => proc'[q].event \in Events
  BY DEF Typed, TypeOK
<1> QED BY <1>1, <1>2 DEF Typed, TypeOK

LEMMA TypedStep == Typed /\ [Next]_vars => Typed'
<1> SUFFICES ASSUME Typed, [Next]_vars PROVE Typed'
  OBVIOUS
<1>1. ASSUME NEW e \in Events, Append(e) PROVE Typed'
  <2>1. row' \in [Events -> Row]
    BY <1>1 DEF Append, Typed, TypeOK, Row, Status
  <2> QED BY <1>1, <2>1 DEF Append, Typed, TypeOK
<1>2. ASSUME NEW p \in Procs PROVE WorkerStep(p) \/ ReplayStep(p) \/ FaultStep(p) \/ Restart(p) => Typed'
  <2> USE DEF Typed, TypeOK
  <2>a. proc[p] \in Proc /\ IdleProc \in Proc /\ DownProc \in Proc
    BY IdleProcType
  <2>1. CASE ClaimRead(p)
    <3> DEFINE r == [proc[p] EXCEPT !.phase = "reading", !.cursorRead = cursor]
    <3>1. r \in Proc /\ r.phase \notin Holding
      BY <2>a DEF Proc, Phase, Holding
    <3>2. proc' = [proc EXCEPT ![p] = r]
      BY <2>1, <2>a DEF ClaimRead, Proc
    <3> QED BY <2>1, <3>1, <3>2, TypedProcStep DEF ClaimRead
  <2>2. CASE ClaimLock(p)
    <3>1. PICK e \in Events : proc' = [proc EXCEPT ![p].phase = "claiming", ![p].event = e,
                                                   ![p].attempts = row[e].attempts]
      BY <2>2 DEF ClaimLock
    <3> DEFINE r == [proc[p] EXCEPT !.phase = "claiming", !.event = e, !.attempts = row[e].attempts]
    <3>0. row[e].attempts \in Nat /\ e \in 0..NumEvents
      BY OutboxAssumption DEF Row, Events
    <3>2. r \in Proc /\ r.event = e
      BY <2>a, <3>0 DEF Proc, Phase
    <3>3. proc' = [proc EXCEPT ![p] = r]
      BY <3>1, <2>a DEF Proc
    <3>4. UNCHANGED <<row, cursor, summary, synced, faults>>
      BY <2>2 DEF ClaimLock
    <3> HIDE DEF r
    <3> QED BY <3>2, <3>3, <3>4, TypedProcStep
  <2>3. CASE ClaimNone(p)
    BY <2>3, <2>a, TypedProcStep DEF ClaimNone, IdleProc, Holding
  <2>4. CASE ClaimCommit(p)
    <3> DEFINE r == [proc[p] EXCEPT !.phase = "syncing"]
    <3>1. r \in Proc /\ r.event \in Events
      BY <2>4, <2>a DEF ClaimCommit, Proc, Phase, Holding
    <3>2. proc' = [proc EXCEPT ![p] = r]
      BY <2>4, <2>a DEF ClaimCommit, Goto, Proc
    <3>3. row' \in [Events -> Row]
      BY <2>4 DEF ClaimCommit, Row
    <3> QED BY <2>4, <3>1, <3>2, <3>3, TypedProcStep DEF ClaimCommit
  <2>5. CASE SyncOk(p)
    <3> DEFINE r == [proc[p] EXCEPT !.phase = "marking", !.verdict = "dispatched"]
    <3>1. r \in Proc /\ r.event \in Events /\ proc[p].event \in Events
      BY <2>5, <2>a DEF SyncOk, Proc, Phase, Verdict, Holding
    <3>2. proc' = [proc EXCEPT ![p] = r]
      BY <2>5, <2>a DEF SyncOk, Proc
    <3> QED BY <2>5, <3>1, <3>2, TypedProcStep DEF SyncOk
  <2>6. CASE SyncFail(p)
    <3> DEFINE r == [proc[p] EXCEPT !.phase = "marking", !.verdict = FailureVerdict(p)]
    <3>1. FailureVerdict(p) \in Verdict
      BY DEF FailureVerdict, Verdict
    <3>2. r \in Proc /\ r.event \in Events
      BY <2>6, <2>a, <3>1 DEF SyncFail, Proc, Phase, Holding
    <3>3. proc' = [proc EXCEPT ![p] = r]
      BY <2>6, <2>a DEF SyncFail, Proc
    <3> QED BY <2>6, <3>2, <3>3, TypedProcStep DEF SyncFail
  <2>7. CASE MarkRead(p)
    <3> DEFINE r == [proc[p] EXCEPT !.phase = "writing", !.rowRead = row[proc[p].event]]
    <3>1. r \in Proc /\ r.event \in Events
      BY <2>7, <2>a DEF MarkRead, Proc, Phase, Holding
    <3>2. proc' = [proc EXCEPT ![p] = r]
      BY <2>7, <2>a DEF MarkRead, Proc
    <3> QED BY <2>7, <3>1, <3>2, TypedProcStep DEF MarkRead
  <2>8. CASE MarkLock(p)
    <3> DEFINE r == [proc[p] EXCEPT !.phase = "locked", !.cursorRead = cursor]
    <3>1. r \in Proc /\ r.event \in Events
      BY <2>8, <2>a DEF MarkLock, Proc, Phase, Holding
    <3>2. proc' = [proc EXCEPT ![p] = r]
      BY <2>8, <2>a DEF MarkLock, Proc
    <3> QED BY <2>8, <3>1, <3>2, TypedProcStep DEF MarkLock
  <2>9. ASSUME proc[p].phase = "locked", WriteMark(p)
        PROVE  row' \in [Events -> Row] /\ cursor' \in 0..NumEvents /\ summary' \in Summary
    <3>1. MarkedRow(p) \in Row
      BY MarkedRowType
    <3>2. row' \in [Events -> Row]
      BY <2>9, <3>1 DEF WriteMark
    <3> QED BY <2>9, <2>a, <3>2 DEF WriteMark, Summary, Verdict, Proc
  <2>10. CASE MarkCommit(p)
    BY <2>10, <2>9, <2>a, TypedProcStep DEF MarkCommit, IdleProc, DownProc, Holding
  <2>11. CASE MarkAnswerLost(p)
    <3> DEFINE r == [proc[p] EXCEPT !.phase = "marking", !.verdict = FailureVerdict(p)]
    <3>1. FailureVerdict(p) \in Verdict
      BY DEF FailureVerdict, Verdict
    <3>2. r \in Proc /\ r.event \in Events
      BY <2>11, <2>a, <3>1 DEF MarkAnswerLost, Proc, Phase, Holding
    <3>3. proc' = [proc EXCEPT ![p] = r]
      BY <2>11, <2>a DEF MarkAnswerLost, Proc
    <3>4. faults' \in 0..MaxFaults
      BY <2>11, OutboxAssumption DEF MarkAnswerLost
    <3> QED BY <2>11, <2>9, <3>2, <3>3, <3>4, TypedProcStep DEF MarkAnswerLost
  <2>12. CASE Crash(p)
    <3>1. faults' \in 0..MaxFaults
      BY <2>12, OutboxAssumption DEF Crash
    <3> QED BY <2>12, <2>a, <3>1, TypedProcStep DEF Crash, IdleProc, DownProc, Holding
  <2>13. CASE Restart(p)
    BY <2>13, <2>a, TypedProcStep DEF Restart, IdleProc, Holding
  <2>14. CASE ReplayLoad(p)
    <3>1. PICK e \in Events : proc' = [proc EXCEPT ![p].phase = "syncing", ![p].event = e,
                                                   ![p].attempts = row[e].attempts]
      BY <2>14 DEF ReplayLoad
    <3> DEFINE r == [proc[p] EXCEPT !.phase = "syncing", !.event = e, !.attempts = row[e].attempts]
    <3>0. row[e].attempts \in Nat /\ e \in 0..NumEvents
      BY OutboxAssumption DEF Row, Events
    <3>2. r \in Proc /\ r.event = e
      BY <2>a, <3>0 DEF Proc, Phase
    <3>3. proc' = [proc EXCEPT ![p] = r]
      BY <3>1, <2>a DEF Proc
    <3>4. UNCHANGED <<row, cursor, summary, synced, faults>>
      BY <2>14 DEF ReplayLoad
    <3> HIDE DEF r
    <3> QED BY <3>2, <3>3, <3>4, TypedProcStep
  <2>15. CASE ReplaySyncIncomplete(p)
    <3> DEFINE r == [proc[p] EXCEPT !.phase = "marking", !.verdict = "dispatched"]
    <3>1. r \in Proc /\ r.event \in Events
      BY <2>15, <2>a DEF ReplaySyncIncomplete, Proc, Phase, Verdict, Holding
    <3>2. proc' = [proc EXCEPT ![p] = r]
      BY <2>15, <2>a DEF ReplaySyncIncomplete, Proc
    <3> QED BY <2>15, <3>1, <3>2, TypedProcStep DEF ReplaySyncIncomplete
  <2> QED BY <2>1, <2>2, <2>3, <2>4, <2>5, <2>6, <2>7, <2>8, <2>10, <2>11, <2>12, <2>13,
             <2>14, <2>15 DEF WorkerStep, ReplayStep, FaultStep
<1>3. CASE UNCHANGED vars
  BY <1>3 DEF vars, Typed, TypeOK
<1> QED BY <1>1, <1>2, <1>3 DEF Next

LEMMA TypedAlways == Spec => []Typed
BY TypedInit, TypedStep, PTL DEF Spec

\* Every variable keeps its type, for every set of workers and replays.
THEOREM TypeCorrect == Spec => []TypeOK
<1>1. Typed => TypeOK
  BY DEF Typed
<1> QED BY TypedAlways, <1>1, PTL

-----------------------------------------------------------------------------
(* Acknowledgement after projection                                        *)

NoReplay == Replayers = {}

\* What a process is about to acknowledge, and every cursor value it has
\* read and may write back, belongs to a projected row.
PendingAckSynced ==
  \A p \in Procs :
    /\ proc[p].phase \in {"marking", "writing", "locked"} /\ proc[p].verdict = "dispatched"
         => proc[p].event \in synced
    /\ proc[p].cursorRead # 0 => proc[p].cursorRead \in synced

AckInv == Typed /\ AcknowledgedWasSynced /\ PendingAckSynced

LEMMA AckInit == Init => AckInv
<1> SUFFICES ASSUME Init PROVE AckInv
  OBVIOUS
<1>1. Typed
  BY TypedInit
<1>2. AcknowledgedWasSynced
  BY DEF Init, AcknowledgedWasSynced, Absent
<1>3. PendingAckSynced
  BY DEF Init, PendingAckSynced, IdleProc
<1> QED BY <1>1, <1>2, <1>3 DEF AckInv

\* The two tables are written by mark transactions only; those of a worker
\* acknowledge the row in its hand or write back a cursor it has read.
LEMMA WriteMarkAck ==
  ASSUME AckInv, NEW p \in Procs, proc[p].phase = "locked", WriteMark(p), synced' = synced
  PROVE  AcknowledgedWasSynced'
<1> USE DEF AckInv, AcknowledgedWasSynced, PendingAckSynced, WriteMark
<1>1. ASSUME NEW e \in Events, row'[e].status = "dispatched" PROVE e \in synced'
  <2>1. CASE e = proc[p].event
    <3>1. row'[e] = MarkedRow(p)
      BY <2>1 DEF Typed, TypeOK
    <3>2. proc[p].verdict = "dispatched"
      BY <1>1, <3>1 DEF MarkedRow
    <3> QED BY <2>1, <3>2
  <2>2. CASE e # proc[p].event
    BY <1>1, <2>2 DEF Typed, TypeOK
  <2> QED BY <2>1, <2>2
<1>2. cursor' # 0 => cursor' \in synced'
  OBVIOUS
<1> QED BY <1>1, <1>2

LEMMA AckStep == NoReplay /\ AckInv /\ [Next]_vars => AckInv'
<1> SUFFICES ASSUME NoReplay, AckInv, [Next]_vars PROVE AckInv'
  OBVIOUS
<1>0. Typed'
  BY TypedStep DEF AckInv
<1> USE DEF AckInv
<1>1. ASSUME NEW e \in Events, Append(e) PROVE AckInv'
  <2>1. \A d \in Events : row'[d].status = "dispatched" => row[d].status = "dispatched"
    BY <1>1 DEF Append, Typed, TypeOK, Row
  <2> QED BY <1>0, <1>1, <2>1 DEF Append, AcknowledgedWasSynced, PendingAckSynced
<1>2. ASSUME NEW p \in Procs, WorkerStep(p) \/ FaultStep(p) \/ Restart(p) PROVE AckInv'
  <2> USE DEF Typed, TypeOK
  <2>1. CASE ClaimRead(p)
    BY <1>0, <2>1 DEF ClaimRead, AcknowledgedWasSynced, PendingAckSynced, Proc
  <2>2. CASE ClaimLock(p)
    <3>1. \A q \in Procs : /\ proc'[q].phase = "claiming" \/ proc'[q].phase = proc[q].phase
                           /\ proc'[q].cursorRead = proc[q].cursorRead
                           /\ proc'[q].verdict = proc[q].verdict
                           /\ proc'[q].event = proc[q].event \/ proc'[q].phase = "claiming"
      BY <2>2 DEF ClaimLock, Proc
    <3>2. UNCHANGED <<row, cursor, synced>>
      BY <2>2 DEF ClaimLock
    <3> QED BY <1>0, <3>1, <3>2 DEF AcknowledgedWasSynced, PendingAckSynced
  <2>3. CASE ClaimNone(p) \/ Crash(p) \/ Restart(p)
    <3>1. UNCHANGED <<row, cursor, synced>>
      BY <2>3 DEF ClaimNone, Crash, Restart
    <3>2. \A q \in Procs : proc'[q] \in {proc[q], IdleProc, DownProc}
      BY <2>3 DEF ClaimNone, Crash, Restart
    <3> QED BY <1>0, <3>1, <3>2 DEF AcknowledgedWasSynced, PendingAckSynced, IdleProc, DownProc
  <2>4. CASE ClaimCommit(p)
    <3>1. \A d \in Events : row'[d].status = row[d].status
      BY <2>4 DEF ClaimCommit, Row
    <3> QED BY <1>0, <2>4, <3>1 DEF ClaimCommit, Goto, AcknowledgedWasSynced, PendingAckSynced, Proc
  <2>5. CASE SyncOk(p)
    BY <1>0, <2>5 DEF SyncOk, AcknowledgedWasSynced, PendingAckSynced, Proc
  <2>6. CASE SyncFail(p)
    BY <1>0, <2>6 DEF SyncFail, FailureVerdict, AcknowledgedWasSynced, PendingAckSynced, Proc
  <2>7. CASE MarkRead(p) \/ MarkLock(p)
    <3>1. UNCHANGED <<row, cursor, synced>>
      BY <2>7 DEF MarkRead, MarkLock
    <3>2. \A q \in Procs : /\ proc'[q].verdict = proc[q].verdict
                           /\ proc'[q].event = proc[q].event
                           /\ proc'[q].cursorRead \in {proc[q].cursorRead, cursor}
      BY <2>7 DEF MarkRead, MarkLock, Proc
    <3>3. \A q \in Procs : proc'[q].phase \in {"marking", "writing", "locked"}
                             => proc[q].phase \in {"marking", "writing", "locked"}
      BY <2>7 DEF MarkRead, MarkLock, Proc
    <3> QED BY <1>0, <3>1, <3>2, <3>3 DEF AcknowledgedWasSynced, PendingAckSynced
  <2>8. CASE MarkCommit(p)
    <3>1. AcknowledgedWasSynced'
      BY <2>8, WriteMarkAck DEF MarkCommit
    <3>2. PendingAckSynced'
      BY <2>8 DEF MarkCommit, PendingAckSynced, IdleProc, DownProc
    <3> QED BY <1>0, <3>1, <3>2
  <2>9. CASE MarkAnswerLost(p)
    <3>1. AcknowledgedWasSynced'
      BY <2>9, WriteMarkAck DEF MarkAnswerLost
    <3>2. PendingAckSynced'
      BY <2>9 DEF MarkAnswerLost, PendingAckSynced, Proc
    <3> QED BY <1>0, <3>1, <3>2
  <2> QED BY <1>2, <2>1, <2>2, <2>3, <2>4, <2>5, <2>6, <2>7, <2>8, <2>9
          DEF WorkerStep, FaultStep
<1>3. ASSUME NEW p \in Procs, ReplayStep(p) PROVE FALSE
  BY <1>3 DEF NoReplay, ReplayStep, ReplayLoad, ReplaySyncIncomplete
<1>4. CASE UNCHANGED vars
  BY <1>0, <1>4 DEF vars, AcknowledgedWasSynced, PendingAckSynced
<1> QED BY <1>1, <1>2, <1>3, <1>4 DEF Next

\* However many workers drain the outbox, crash and lose answers, a row is
\* acknowledged only after its memories were completely projected.
THEOREM AcknowledgedAfterProjection ==
  ASSUME NoReplay PROVE Spec => []AcknowledgedWasSynced
<1>1. AckInv => AcknowledgedWasSynced
  BY DEF AckInv
<1>2. AckInv /\ [Next]_vars => AckInv'
  BY AckStep
<1> QED BY AckInit, <1>1, <1>2, PTL DEF Spec
-----------------------------------------------------------------------------
(* First attempts, and how rows are stranded                               *)

\* A row not yet visible, or never marked, is untouched but for its start
\* time; and a process has only visible rows in hand.
BornInv ==
  /\ Typed
  /\ \A e \in Events :
       /\ row[e].status \in {"absent", "pending"} => row[e].attempts = 0
       /\ row[e].status = "absent" => ~row[e].started
  /\ \A p \in Procs : proc[p].phase \in Holding => Committed(proc[p].event)

\* What a step of process p does with the row in its hand: it keeps to the
\* same row, writing nothing; or takes a visible row; or lets go of its row
\* after a crash or for want of a row; or commits the claim; or commits a mark.
Keeps(p) ==
  /\ UNCHANGED <<row, cursor>>
  /\ proc'[p].event = proc[p].event \/ proc'[p].phase \notin Holding
  /\ proc'[p].phase \in Holding <=> proc[p].phase \in Holding
  /\ proc[p].phase # "claiming" /\ proc'[p].phase # "claiming"
Takes(p) ==
  /\ UNCHANGED <<row, cursor>>
  /\ proc[p].phase \notin Holding
  /\ proc'[p].event \in Events /\ Committed(proc'[p].event)
  /\ \/ p \in Replayers
     \/ /\ proc'[p].phase = "claiming"
        /\ Claimable(proc'[p].event, proc[p].cursorRead)
LetsGo(p) ==
  /\ UNCHANGED <<row, cursor>>
  /\ proc'[p].phase \notin Holding
  /\ faults' = faults + 1
Commits(p) ==
  /\ proc[p].phase = "claiming" /\ proc'[p].phase = "syncing"
  /\ proc'[p].event = proc[p].event
  /\ row' = [row EXCEPT ![proc[p].event].started = TRUE]
  /\ UNCHANGED cursor
Marks(p) ==
  /\ proc[p].phase = "locked"
  /\ WriteMark(p)
  /\ \/ proc'[p].phase \notin Holding
     \/ proc'[p].phase = "marking" /\ proc'[p].event = proc[p].event

LEMMA HandSteps ==
  ASSUME BornInv, NEW p \in Procs, WorkerStep(p) \/ ReplayStep(p) \/ FaultStep(p) \/ Restart(p)
  PROVE  /\ \A q \in Procs : q # p => proc'[q] = proc[q]
         /\ Keeps(p) \/ Takes(p) \/ LetsGo(p) \/ Commits(p) \/ Marks(p)
<1> USE DEF BornInv, Typed, TypeOK
<1>a. IdleProc.phase \notin Holding /\ DownProc.phase \notin Holding
      /\ IdleProc.phase # "claiming" /\ DownProc.phase # "claiming"
  BY DEF IdleProc, DownProc, Holding
<1>b. proc[p] \in Proc
  OBVIOUS
<1>1. CASE ClaimRead(p) \/ MarkRead(p) \/ MarkLock(p) \/ SyncOk(p) \/ SyncFail(p) \/ ReplaySyncIncomplete(p)
  BY <1>1, <1>b DEF ClaimRead, MarkRead, MarkLock, SyncOk, SyncFail, ReplaySyncIncomplete, Proc, Keeps, Holding
<1>2. CASE ClaimNone(p) \/ Restart(p)
  BY <1>2, <1>a, <1>b DEF ClaimNone, Restart, Keeps, Holding
<1>3. CASE ClaimLock(p)
  <2>1. PICK e \in Events : /\ Claimable(e, proc[p].cursorRead)
                            /\ proc' = [proc EXCEPT ![p].phase = "claiming", ![p].event = e,
                                                    ![p].attempts = row[e].attempts]
    BY <1>3 DEF ClaimLock
  <2>2. Committed(e)
    BY <2>1 DEF Claimable, Processable, Open, Committed
  <2>3. proc'[p].phase = "claiming" /\ proc'[p].event = e /\ \A q \in Procs : q # p => proc'[q] = proc[q]
    BY <2>1, <1>b DEF Proc
  <2> QED BY <1>3, <2>1, <2>2, <2>3 DEF ClaimLock, Takes, Holding
<1>4. CASE ReplayLoad(p)
  <2>1. PICK e \in Events : /\ Committed(e)
                            /\ proc' = [proc EXCEPT ![p].phase = "syncing", ![p].event = e,
                                                    ![p].attempts = row[e].attempts]
    BY <1>4 DEF ReplayLoad
  <2>2. proc'[p].event = e /\ \A q \in Procs : q # p => proc'[q] = proc[q]
    BY <2>1, <1>b DEF Proc
  <2> QED BY <1>4, <2>1, <2>2 DEF ReplayLoad, Takes, Holding
<1>5. CASE Crash(p)
  BY <1>5, <1>a, <1>b DEF Crash, LetsGo
<1>6. CASE ClaimCommit(p)
  BY <1>6, <1>b DEF ClaimCommit, Goto, Commits, Proc
<1>7. CASE MarkCommit(p)
  BY <1>7, <1>a, <1>b DEF MarkCommit, Marks
<1>8. CASE MarkAnswerLost(p)
  BY <1>8, <1>b DEF MarkAnswerLost, Marks, Proc
<1> QED BY <1>1, <1>2, <1>3, <1>4, <1>5, <1>6, <1>7, <1>8 DEF WorkerStep, ReplayStep, FaultStep

\* A mark writes the row in hand and no other; it is then failed or dispatched.
LEMMA MarkWrites ==
  ASSUME Typed, NEW p \in Procs, proc[p].phase = "locked", WriteMark(p)
  PROVE  /\ row'[proc[p].event].status \in {"failed", "dispatched"}
         /\ \A e \in Events : e # proc[p].event => row'[e] = row[e]
<1>1. proc[p].event \in Events
  BY DEF Typed, Holding
<1>2. row' = [row EXCEPT ![proc[p].event] = MarkedRow(p)]
  BY DEF WriteMark
<1>3. MarkedRow(p).status \in {"failed", "dispatched"}
  BY DEF MarkedRow
<1> QED BY <1>1, <1>2, <1>3 DEF Typed, TypeOK

\* The commit of a claim sets the start time of the row in hand.
LEMMA ClaimWrites ==
  ASSUME Typed, NEW p \in Procs, Commits(p)
  PROVE  \A e \in Events : /\ row'[e].status = row[e].status
                           /\ row'[e].attempts = row[e].attempts
                           /\ row'[e].started = (row[e].started \/ e = proc[p].event)
<1>1. proc[p].event \in Events
  BY DEF Typed, Holding, Commits
<1>2. \A e \in Events : row[e] \in Row
  BY DEF Typed, TypeOK
<1>3. \A e \in Events : e # proc[p].event => row'[e] = row[e]
  BY <1>1 DEF Commits, Typed, TypeOK
<1>4. row'[proc[p].event] = [row[proc[p].event] EXCEPT !.started = TRUE]
  BY <1>1 DEF Commits, Typed, TypeOK
<1> QED BY <1>1, <1>2, <1>3, <1>4 DEF Row

LEMMA AppendWrites ==
  ASSUME Typed, NEW e \in Events, Append(e)
  PROVE  /\ row[e].status = "absent" /\ row'[e].status = "pending"
         /\ row'[e].attempts = row[e].attempts /\ row'[e].started = row[e].started
         /\ \A d \in Events : d # e => row'[d] = row[d]
BY DEF Append, Typed, TypeOK, Row, Committed

LEMMA BornInit == Init => BornInv
<1> SUFFICES ASSUME Init PROVE BornInv
  OBVIOUS
<1>1. \A p \in Procs : proc[p].phase \notin Holding
  BY DEF Init, IdleProc, Holding
<1>2. \A e \in Events : row[e] = Absent
  BY DEF Init
<1> QED BY <1>1, <1>2, TypedInit DEF BornInv, Absent

LEMMA BornStep == BornInv /\ [Next]_vars => BornInv'
<1> SUFFICES ASSUME BornInv, [Next]_vars PROVE BornInv'
  OBVIOUS
<1>0. Typed /\ Typed'
  BY TypedStep DEF BornInv
<1>1. ASSUME NEW e \in Events, Append(e) PROVE BornInv'
  <2>1. proc' = proc
    BY <1>1 DEF Append
  <2>2. /\ row[e].status = "absent" /\ row'[e].status = "pending"
        /\ row'[e].attempts = row[e].attempts /\ row'[e].started = row[e].started
        /\ \A d \in Events : d # e => row'[d] = row[d]
    BY <1>0, <1>1, AppendWrites
  <2>3. \A d \in Events : /\ row'[d].status \in {"absent", "pending"} => row'[d].attempts = 0
                          /\ row'[d].status = "absent" => ~row'[d].started
                          /\ Committed(d) => Committed(d)'
    BY <2>2 DEF BornInv, Committed
  <2>4. \A p \in Procs : proc[p].phase \in Holding => Committed(proc[p].event)'
    BY <1>0, <2>1, <2>3 DEF BornInv, Typed, Committed
  <2> QED BY <1>0, <2>1, <2>3, <2>4 DEF BornInv, Committed
<1>2. ASSUME NEW p \in Procs, WorkerStep(p) \/ ReplayStep(p) \/ FaultStep(p) \/ Restart(p) PROVE BornInv'
  <2>1. \A q \in Procs : q # p => proc'[q] = proc[q]
    BY <1>2, HandSteps
  <2>2. \A q \in Procs : proc[q].phase \in Holding => proc[q].event \in Events /\ Committed(proc[q].event)
    BY <1>0 DEF BornInv, Typed
  <2>3. CASE Keeps(p) \/ LetsGo(p) \/ Takes(p)
    <3>1. \A q \in Procs : proc'[q].phase \in Holding => Committed(proc'[q].event)
      BY <2>1, <2>2, <2>3 DEF Keeps, LetsGo, Takes
    <3> QED BY <1>0, <2>3, <3>1 DEF BornInv, Keeps, LetsGo, Takes, Committed
  <2>4. CASE Commits(p)
    <3>1. \A q \in Procs : proc'[q].event = proc[q].event /\ (proc'[q].phase \in Holding => proc[q].phase \in Holding)
      BY <2>1, <2>4 DEF Commits, Holding
    <3> QED BY <1>0, <2>2, <2>4, <3>1, ClaimWrites DEF BornInv, Committed, Commits, Holding
  <2>5. CASE Marks(p)
    <3>1. \A q \in Procs : proc'[q].phase \in Holding => proc[q].phase \in Holding /\ proc'[q].event = proc[q].event
      BY <2>1, <2>5 DEF Marks, Holding
    <3>2. /\ row'[proc[p].event].status \in {"failed", "dispatched"}
          /\ \A e \in Events : e # proc[p].event => row'[e] = row[e]
      BY <1>0, <2>5, MarkWrites DEF Marks
    <3> QED BY <1>0, <2>2, <3>1, <3>2 DEF BornInv, Committed
  <2> QED BY <1>2, <2>3, <2>4, <2>5, HandSteps
<1>3. CASE UNCHANGED vars
  BY <1>0, <1>3 DEF vars, BornInv, Committed
<1> QED BY <1>1, <1>2, <1>3 DEF Next

LEMMA BornAlways == Spec => []BornInv
BY BornInit, BornStep, PTL DEF Spec

\* A row is stranded by the crash or the failed mark of its holder, by a
\* cursor that is carried over it, or because it becomes visible too late: no
\* other step of any number of workers and replays puts an open row out of reach.
THEOREM StrandingHasACause == Spec => StrandingCauses
<1> DEFINE Cause(e) == \/ ~Committed(e) /\ e <= cursor
                       \/ cursor < e /\ e <= cursor'
                       \/ Held(e) /\ faults' = faults + 1
                       \/ Held(e) /\ row'[e].status = "failed" /\ e <= cursor'
<1>1. BornInv /\ [Next]_vars => [\A e \in Events : ~Stranded(e) /\ Stranded(e)' => Cause(e)]_vars
  <2> SUFFICES ASSUME BornInv, Next, NEW e \in Events, ~Stranded(e), Stranded(e)' PROVE Cause(e)
    OBVIOUS
  <2>0. Typed /\ cursor \in Int /\ e \in Int /\ cursor' \in Int
    BY TypedStep DEF BornInv, Typed, TypeOK, Events
  <2>1. ASSUME NEW d \in Events, Append(d) PROVE Cause(e)
    <3>1. UNCHANGED <<proc, cursor>>
      BY <2>1 DEF Append
    <3>2. e = d
      BY <2>0, <2>1, <3>1, AppendWrites DEF Stranded, Open, Held, Holds
    <3>3. ~row'[e].started
      BY <2>0, <2>1, <3>2, AppendWrites DEF BornInv
    <3> QED BY <2>0, <2>1, <3>1, <3>2, <3>3, AppendWrites DEF Stranded, Committed
  <2>2. ASSUME NEW p \in Procs, WorkerStep(p) \/ ReplayStep(p) \/ FaultStep(p) \/ Restart(p) PROVE Cause(e)
    <3>1. \A q \in Procs : q # p => proc'[q] = proc[q]
      BY <2>2, HandSteps
    <3>2. CASE Keeps(p)
      <4>1. Held(e) => Held(e)'
        BY <3>1, <3>2 DEF Keeps, Held, Holds
      <4> QED BY <3>2, <4>1 DEF Keeps, Stranded, Open
    <3>3. CASE Takes(p)
      <4>1. Held(e) => Held(e)'
        BY <3>1, <3>3 DEF Takes, Held, Holds
      <4> QED BY <3>3, <4>1 DEF Takes, Stranded, Open
    <3>4. CASE LetsGo(p)
      BY <3>4 DEF LetsGo, Stranded, Open
    <3>5. CASE Commits(p)
      <4>1. Held(e) => Held(e)'
        BY <3>1, <3>5 DEF Commits, Held, Holds, Holding
      <4>2. e # proc[p].event
        BY <3>5, <4>1 DEF Commits, Stranded, Held, Holds, Holding
      <4>3. row'[e].status = row[e].status /\ row'[e].attempts = row[e].attempts /\ row'[e].started = row[e].started
        BY <2>0, <3>5, <4>2, ClaimWrites DEF BornInv, Typed, TypeOK, Row
      <4> QED BY <3>5, <4>1, <4>3 DEF Commits, Stranded, Open
    <3>6. CASE Marks(p)
      <4>1. Holds(p, proc[p].event)
        BY <3>6 DEF Marks, Holds, Holding
      <4>2. CASE e = proc[p].event
        <5>1. row'[e].status = "failed"
          BY <2>0, <3>6, <4>2, MarkWrites DEF Marks, Stranded, Open
        <5> QED BY <4>1, <4>2, <5>1 DEF Stranded, Held
      <4>3. CASE e # proc[p].event
        <5>1. row'[e] = row[e]
          BY <2>0, <3>6, <4>3, MarkWrites DEF Marks
        <5>2. Held(e) => Held(e)'
          BY <3>1, <3>6, <4>3 DEF Held, Holds
        <5> QED BY <2>0, <5>1, <5>2 DEF Stranded, Open
      <4> QED BY <4>2, <4>3
    <3> QED BY <2>2, <3>2, <3>3, <3>4, <3>5, <3>6, HandSteps DEF BornInv
  <2> QED BY <2>1, <2>2 DEF Next
<1> QED BY <1>1, BornAlways, PTL DEF Spec, StrandingCauses

\* A worker that holds a pending row has yet to commit its claim, or has set
\* the start time of the row.
FirstInv ==
  /\ BornInv
  /\ FirstAttemptExclusive
  /\ \A p \in Workers, e \in Events :
       Holds(p, e) /\ row[e].status = "pending" => proc[p].phase = "claiming" \/ row[e].started

LEMMA FirstInit == Init => FirstInv
BY BornInit DEF Init, FirstInv, FirstAttemptExclusive, Holds, IdleProc, Holding, Procs

LEMMA FirstStep == FirstInv /\ [Next]_vars => FirstInv'
<1> SUFFICES ASSUME FirstInv, [Next]_vars PROVE FirstInv'
  OBVIOUS
<1>0. BornInv /\ BornInv' /\ Typed /\ Workers \subseteq Procs
  BY BornStep DEF FirstInv, BornInv, Procs
<1> DEFINE One(e)     == \A p, q \in Workers : Holds(p, e) /\ Holds(q, e) => p = q
           Started(e) == \A p \in Workers : Holds(p, e) => proc[p].phase = "claiming" \/ row[e].started
\* it is enough to look at the pending rows, which have no attempts
<1>1. ASSUME NEW e \in Events, row[e].status = "pending" PROVE One(e) /\ Started(e)
  BY <1>0, <1>1 DEF FirstInv, FirstAttemptExclusive, BornInv
<1>2. SUFFICES ASSUME NEW e \in Events, row'[e].status = "pending" PROVE One(e)' /\ Started(e)'
  BY <1>0, <1>2 DEF FirstInv, FirstAttemptExclusive
<1>3. ASSUME NEW d \in Events, Append(d) PROVE One(e)' /\ Started(e)'
  <2>1. proc' = proc
    BY <1>3 DEF Append
  <2>2. CASE d = e
    <3>1. \A p \in Workers : ~Holds(p, e)
      BY <1>0, <1>3, <2>2, AppendWrites DEF BornInv, Committed, Holds
    <3> QED BY <2>1, <3>1 DEF Holds
  <2>3. CASE d # e
    <3>1. row'[e] = row[e]
      BY <1>0, <1>3, <2>3, AppendWrites
    <3> QED BY <1>1, <1>2, <2>1, <3>1 DEF Holds
  <2> QED BY <2>2, <2>3
<1>4. ASSUME NEW p \in Procs, WorkerStep(p) \/ ReplayStep(p) \/ FaultStep(p) \/ Restart(p)
      PROVE  One(e)' /\ Started(e)'
  <2>1. \A q \in Procs : q # p => proc'[q] = proc[q]
    BY <1>0, <1>4, HandSteps
  <2>2. CASE Keeps(p) \/ LetsGo(p)
    <3>1. row' = row
      BY <2>2 DEF Keeps, LetsGo
    <3>2. \A q \in Workers : Holds(q, e)' => Holds(q, e) /\ (proc[q].phase = "claiming" => proc'[q].phase = "claiming")
      BY <1>0, <2>1, <2>2 DEF Keeps, LetsGo, Holds
    <3> QED BY <1>1, <1>2, <3>1, <3>2
  <2>3. CASE Takes(p)
    <3>1. row' = row
      BY <2>3 DEF Takes
    <3>2. CASE p \in Workers /\ proc'[p].event = e
      <4>1. proc'[p].phase = "claiming" /\ ~row[e].started /\ ~LockedRow(e)
        BY <1>2, <2>3, <3>1, <3>2, OutboxAssumption DEF Takes, Claimable
      <4>2. \A q \in Workers : ~Holds(q, e)
        BY <1>0, <1>1, <1>2, <3>1, <4>1 DEF LockedRow, Holds
      <4> QED BY <1>0, <2>1, <4>1, <4>2 DEF Holds
    <3>3. CASE ~(p \in Workers /\ proc'[p].event = e)
      <4>1. \A q \in Workers : Holds(q, e)' => Holds(q, e) /\ proc'[q] = proc[q]
        BY <1>0, <2>1, <3>3 DEF Holds
      <4> QED BY <1>1, <1>2, <3>1, <4>1
    <3> QED BY <3>2, <3>3
  <2>4. CASE Commits(p)
    <3>1. \A q \in Workers : Holds(q, e)' => Holds(q, e) /\ (proc'[q] = proc[q] \/ e = proc[p].event)
      BY <1>0, <2>1, <2>4 DEF Commits, Holds, Holding
    <3>2. row'[e].status = row[e].status /\ row'[e].started = (row[e].started \/ e = proc[p].event)
      BY <1>0, <2>4, ClaimWrites
    <3>3. row'[e].started <=> (row[e].started \/ e = proc[p].event)
      BY <1>0, <3>2 DEF Typed, TypeOK, Row
    <3>4. row[e].status = "pending"
      BY <1>2, <3>2
    <3>5. One(e)'
      BY <1>1, <3>1, <3>4
    <3>6. Started(e)'
      BY <1>1, <3>1, <3>3, <3>4
    <3> QED BY <3>5, <3>6
  <2>5. CASE Marks(p)
    <3>1. row'[e] = row[e] /\ e # proc[p].event
      BY <1>0, <1>2, <2>5, MarkWrites DEF Marks
    <3>2. \A q \in Workers : Holds(q, e)' => Holds(q, e) /\ proc'[q] = proc[q]
      BY <1>0, <2>1, <2>5, <3>1 DEF Marks, Holds
    <3> QED BY <1>1, <1>2, <3>1, <3>2
  <2> QED BY <1>0, <1>4, <2>2, <2>3, <2>4, <2>5, HandSteps
<1>5. CASE UNCHANGED vars
  BY <1>1, <1>2, <1>5 DEF vars, Holds
<1> QED BY <1>3, <1>4, <1>5 DEF Next

\* The row lock of the claim and the start time it sets keep the first attempt
\* of a row to one worker, for any number of workers, replays and faults.
THEOREM FirstAttemptIsExclusive == Spec => []FirstAttemptExclusive
<1>1. FirstInv => FirstAttemptExclusive
  BY DEF FirstInv
<1> QED BY FirstInit, FirstStep, <1>1, PTL DEF Spec

-----------------------------------------------------------------------------
(* Attempts                                                                *)

\* One worker and no manual replay; unlike Calm, with any faults, and with
\* rows that become visible in any order.
Alone(w) == Workers = {w} /\ Replayers = {}

\* A row that is claimed has an attempt left. A mark counts one up; only the
\* mark of an attempt already counted, whose answer was lost, may exceed
\* MaxAttempts, and the fault pays for it.
FirstCount(p) ==
  \/ proc[p].phase \in {"claiming", "syncing"}
  \/ proc[p].phase \in {"marking", "writing", "locked"} /\ proc[p].verdict = "dispatched"

AttemptsInv ==
  /\ BornInv
  /\ AttemptsBounded
  /\ \A p \in Procs :
       /\ proc[p].phase \in Holding => row[proc[p].event].attempts < MaxAttempts + faults
       /\ FirstCount(p) => row[proc[p].event].attempts < MaxAttempts
       /\ proc[p].phase \in {"writing", "locked"} => proc[p].rowRead = row[proc[p].event]

LEMMA AttemptsInit == Init => AttemptsInv
<1> SUFFICES ASSUME Init PROVE AttemptsInv
  OBVIOUS
<1>1. \A p \in Procs : proc[p].phase = "idle"
  BY DEF Init, IdleProc
<1>2. \A e \in Events : row[e].attempts = 0
  BY DEF Init, Absent
<1> QED BY <1>1, <1>2, BornInit, OutboxAssumption DEF Init, AttemptsInv, AttemptsBounded, FirstCount, Holding

LEMMA AttemptsStep == ASSUME NEW w, Alone(w) PROVE AttemptsInv /\ [Next]_vars => AttemptsInv'
<1> SUFFICES ASSUME AttemptsInv, [Next]_vars PROVE AttemptsInv'
  OBVIOUS
<1>0. BornInv /\ BornInv' /\ Typed /\ Typed' /\ Procs = {w} /\ w \in Workers
  BY BornStep DEF AttemptsInv, BornInv, Alone, Procs
<1>n. /\ MaxAttempts \in Int /\ faults \in Int /\ faults >= 0 /\ faults' \in Int /\ faults' >= 0
      /\ \A e \in Events : row[e].attempts \in Int
  BY <1>0, OutboxAssumption DEF Typed, TypeOK, Row
<1>1. ASSUME NEW d \in Events, Append(d) PROVE AttemptsInv'
  <2>1. \A e \in Events : row'[e].attempts = row[e].attempts
    BY <1>0, <1>1, AppendWrites
  <2>2. UNCHANGED <<proc, faults>>
    BY <1>1 DEF Append
  <2>3. proc[w].phase \in Holding => row'[proc[w].event].attempts = row[proc[w].event].attempts
    BY <1>0, <2>1 DEF Typed
  <2>4. proc[w].phase \in Holding => row'[proc[w].event] = row[proc[w].event]
    BY <1>0, <1>1, AppendWrites DEF Typed, BornInv, Committed
  <2> QED BY <1>0, <2>1, <2>2, <2>3, <2>4 DEF AttemptsInv, AttemptsBounded, FirstCount, Holding
<1>2. ASSUME WorkerStep(w) \/ FaultStep(w) \/ Restart(w) PROVE AttemptsInv'
  <2>a. proc' \in [{w} -> Proc] /\ proc \in [{w} -> Proc]
    BY <1>0 DEF Typed, TypeOK
  <2>1. CASE ClaimRead(w) \/ ClaimNone(w) \/ Restart(w) \/ Crash(w)
    <3>1. proc'[w].phase \in {"idle", "reading", "down"}
      BY <1>0, <2>1, <2>a DEF ClaimRead, ClaimNone, Restart, Crash, IdleProc, DownProc, Proc
    <3>2. row' = row /\ faults' \in {faults, faults + 1}
      BY <2>1 DEF ClaimRead, ClaimNone, Restart, Crash
    <3> QED BY <1>0, <1>n, <3>1, <3>2 DEF AttemptsInv, AttemptsBounded, FirstCount, Holding
  <2>2. CASE ClaimLock(w)
    <3>1. PICK e \in Events : /\ Claimable(e, proc[w].cursorRead)
                              /\ proc' = [proc EXCEPT ![w].phase = "claiming", ![w].event = e,
                                                      ![w].attempts = row[e].attempts]
      BY <2>2 DEF ClaimLock
    <3>2. proc'[w].phase = "claiming" /\ proc'[w].event = e /\ row[e].attempts < MaxAttempts
      BY <2>a, <3>1 DEF Proc, Claimable, Processable, Open
    <3> QED BY <1>0, <1>n, <2>2, <3>2 DEF ClaimLock, AttemptsInv, AttemptsBounded
  <2>3. CASE ClaimCommit(w)
    <3>1. \A e \in Events : row'[e].attempts = row[e].attempts
      BY <1>0, <2>3 DEF ClaimCommit, Typed, TypeOK, Row
    <3>2. proc'[w].phase = "syncing" /\ proc'[w].event = proc[w].event /\ faults' = faults
      BY <2>a, <2>3 DEF ClaimCommit, Goto, Proc
    <3>3. proc[w].event \in Events /\ proc[w].phase = "claiming"
      BY <1>0, <2>3 DEF ClaimCommit, Typed, Holding
    <3> QED BY <1>0, <3>1, <3>2, <3>3 DEF AttemptsInv, AttemptsBounded, FirstCount, Holding
  <2>4. CASE SyncOk(w) \/ SyncFail(w)
    <3>1. /\ proc[w].phase = "syncing" /\ proc'[w].phase = "marking"
          /\ proc'[w].event = proc[w].event /\ UNCHANGED <<row, faults>>
      BY <1>0, <2>4, <2>a DEF SyncOk, SyncFail, Proc
    <3> QED BY <1>0, <3>1 DEF AttemptsInv, AttemptsBounded, FirstCount, Holding
  <2>5. CASE MarkRead(w) \/ MarkLock(w)
    <3>1. /\ proc[w].phase \in {"marking", "writing"} /\ proc'[w].phase \in {"writing", "locked"}
          /\ proc'[w].verdict = proc[w].verdict
          /\ proc'[w].event = proc[w].event /\ UNCHANGED <<row, faults>>
      BY <1>0, <2>5, <2>a DEF MarkRead, MarkLock, Proc
    <3>2. proc'[w].rowRead = row[proc[w].event]
      BY <1>0, <2>5, <2>a DEF MarkRead, MarkLock, Proc, AttemptsInv
    <3> QED BY <1>0, <3>1, <3>2 DEF AttemptsInv, AttemptsBounded, FirstCount, Holding
  <2>6. ASSUME proc[w].phase = "locked", WriteMark(w)
        PROVE  /\ proc[w].event \in Events
               /\ row'[proc[w].event].attempts = row[proc[w].event].attempts + 1
               /\ \A e \in Events : e # proc[w].event => row'[e] = row[e]
    BY <1>0, <2>6, MarkWrites DEF AttemptsInv, BornInv, Typed, TypeOK, WriteMark, MarkedRow, Holding
  <2>7. CASE MarkCommit(w)
    <3>1. proc'[w].phase \in {"idle", "down"} /\ faults' = faults
      BY <1>0, <2>7, <2>a DEF MarkCommit, IdleProc, DownProc
    <3>2. row[proc[w].event].attempts < MaxAttempts + faults
      BY <1>0, <2>7 DEF MarkCommit, AttemptsInv, Holding
    <3> QED BY <1>0, <1>n, <2>6, <2>7, <3>1, <3>2 DEF MarkCommit, AttemptsInv, AttemptsBounded, FirstCount, Holding
  <2>8. CASE MarkAnswerLost(w)
    <3>1. /\ proc'[w].phase = "marking" /\ proc'[w].event = proc[w].event
          /\ proc'[w].verdict # "dispatched" /\ faults' = faults + 1
      BY <1>0, <2>8, <2>a DEF MarkAnswerLost, FailureVerdict, Proc
    <3>2. row[proc[w].event].attempts < MaxAttempts
      BY <1>0, <2>8 DEF MarkAnswerLost, AttemptsInv, FirstCount
    <3> QED BY <1>0, <1>n, <2>6, <2>8, <3>1, <3>2 DEF MarkAnswerLost, AttemptsInv, AttemptsBounded, FirstCount, Holding
  <2> QED BY <1>2, <2>1, <2>2, <2>3, <2>4, <2>5, <2>7, <2>8 DEF WorkerStep, FaultStep
<1>3. CASE UNCHANGED vars
  BY <1>0, <1>3 DEF vars, AttemptsInv, AttemptsBounded, FirstCount
<1> QED BY <1>0, <1>1, <1>2, <1>3 DEF Next, ReplayStep, ReplayLoad, ReplaySyncIncomplete, Alone

\* A single worker attempts a row at most MaxAttempts times, and once more for
\* each fault, whatever crashes and lost answers it meets.
THEOREM AttemptsAreBounded == ASSUME NEW w, Alone(w) PROVE Spec => []AttemptsBounded
<1>1. AttemptsInv => AttemptsBounded
  BY DEF AttemptsInv
<1>2. AttemptsInv /\ [Next]_vars => AttemptsInv'
  BY AttemptsStep
<1> QED BY AttemptsInit, <1>1, <1>2, PTL DEF Spec
=============================================================================
