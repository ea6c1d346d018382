-------------------------- MODULE OutboxFifoProofs --------------------------
(***************************************************************************)
(* One projector worker without faults whose rows become visible in order  *)
(* (Calm): FifoInv is inductive, so no row is stranded and the cursor is   *)
(* sound, and every step is a step of OutboxFifo or leaves it unchanged.   *)
(***************************************************************************)
EXTENDS OutboxQueueProofs

LEMMA FifoInit == ASSUME NEW w, Calm(w) PROVE Init => FifoInv
<1> SUFFICES ASSUME Init PROVE FifoInv
  OBVIOUS
<1>1. TypeOK
  BY TypedInit DEF Typed
<1>2. RowsInOrder
  BY DEF Init, RowsInOrder, Committed, Absent
<1>3. CursorSplits
  BY DEF Init, CursorSplits, CursorPointsToDispatched, Absent, Events
<1>4. HandIsFirst
  BY DEF Init, HandIsFirst, IdleProc, Holding
<1> QED BY <1>1, <1>2, <1>3, <1>4 DEF FifoInv

LEMMA FifoTyped == FifoInv => Typed
BY DEF FifoInv, Typed, HandIsFirst

\* A step that leaves the tables alone and keeps the row in hand.
LEMMA HandStep ==
  ASSUME NEW w, Calm(w), FifoInv, TypeOK', UNCHANGED <<row, cursor>>,
         proc'[w].phase \in Holding <=> proc[w].phase \in Holding,
         proc'[w].event = proc[w].event, proc'[w].phase # "down",
         proc'[w].phase \in {"reading", "locked"} => proc'[w].cursorRead = cursor,
         proc'[w].phase \in {"writing", "locked"} => proc'[w].rowRead = row[proc[w].event]
  PROVE  FifoInv'
<1> USE DEF FifoInv
<1>1. \A e \in Events : (Open(e)' <=> Open(e)) /\ (Closed(e)' <=> Closed(e)) /\ (Held(e)' <=> Held(e))
  BY DEF Open, Closed, Dead, Held, Holds, Procs, Calm
<1>2. RowsInOrder'
  BY DEF RowsInOrder, Committed
<1>3. CursorSplits'
  BY <1>1 DEF CursorSplits, CursorPointsToDispatched
<1>4. HandIsFirst'
  BY <1>1 DEF HandIsFirst, Procs, Calm
<1> QED BY <1>2, <1>3, <1>4

\* Below the first row a claim may return, every row is settled.
LEMMA FirstClaimable ==
  ASSUME NEW w, Calm(w), FifoInv, proc[w].phase = "reading",
         NEW e \in Events, Claimable(e, cursor),
         \A d \in Events : d < e => ~Claimable(d, cursor)
  PROVE  Open(e) /\ \A d \in Events : d < e => Closed(d)
<1> USE DEF FifoInv
<1>1. Open(e) /\ Committed(e)
  BY DEF Claimable, Processable, Open, Committed
<1>2. ASSUME NEW d \in Events, d < e, ~Closed(d) PROVE FALSE
  <2>1. Committed(d) /\ ~(d <= cursor)
    BY <1>1, <1>2 DEF RowsInOrder, CursorSplits
  <2>2. d > cursor
    BY <2>1 DEF TypeOK, Events
  <2>3. row[d].status \in {"pending", "failed"}
    BY <2>1, <2>2 DEF CursorSplits, TypeOK, Row, Status, Committed
  <2>4. row[d] \in Row
    BY DEF TypeOK
  <2>5. row[d].attempts < MaxAttempts
    BY <2>3, <2>4, <1>2, OutboxAssumption DEF Closed, Dead, Row, RowsInOrder
  <2>6. ~LockedRow(d) /\ ~Held(d)
    BY DEF LockedRow, Held, Holds, Holding, Procs, Calm
  <2>7. row[d].status = "pending" => ~row[d].started
    BY <2>6 DEF CursorSplits
  <2> QED BY <1>2, <2>2, <2>3, <2>5, <2>6, <2>7 DEF Claimable, Processable, Open
<1> QED BY <1>1, <1>2

LEMMA ClaimLockStep ==
  ASSUME NEW w, Calm(w), FifoInv, TypeOK', ClaimLock(w)
  PROVE  FifoInv'
<1> USE DEF FifoInv
<1>1. proc[w].phase = "reading" /\ proc[w].cursorRead = cursor /\ w \in Procs
  BY DEF ClaimLock, HandIsFirst, Procs, Calm
<1>2. PICK e \in Events :
        /\ Claimable(e, cursor)
        /\ \A d \in Events : d < e => ~Claimable(d, cursor)
        /\ proc' = [proc EXCEPT ![w].phase = "claiming", ![w].event = e,
                                ![w].attempts = row[e].attempts]
  BY <1>1 DEF ClaimLock
<1>3. Open(e) /\ \A d \in Events : d < e => Closed(d)
  BY <1>1, <1>2, FirstClaimable
<1>4. proc'[w].phase = "claiming" /\ proc'[w].event = e
  BY <1>1, <1>2 DEF TypeOK, Proc
<1>5. UNCHANGED <<row, cursor>>
  BY DEF ClaimLock
<1>6. \A d \in Events : (Open(d)' <=> Open(d)) /\ (Closed(d)' <=> Closed(d)) /\ ~Held(d)
  BY <1>1, <1>5 DEF Open, Closed, Dead, Held, Holds, Holding, Procs, Calm
<1>7. RowsInOrder'
  BY <1>5 DEF RowsInOrder, Committed
<1>8. CursorSplits'
  BY <1>5, <1>6 DEF CursorSplits, CursorPointsToDispatched
<1>9. HandIsFirst'
  BY <1>3, <1>4, <1>5, <1>6 DEF HandIsFirst, Holding, Procs, Calm
<1> QED BY <1>7, <1>8, <1>9

LEMMA AppendStep ==
  ASSUME NEW w, Calm(w), FifoInv, TypeOK', NEW e \in Events, Append(e)
  PROVE  FifoInv'
<1> USE DEF FifoInv
<1>1. /\ row'[e].status = "pending" /\ row'[e].attempts = 0 /\ ~row'[e].started
      /\ \A d \in Events : d # e => row'[d] = row[d]
      /\ \A d \in Events : d < e => Committed(d)
  BY DEF Append, RowsInOrder, Committed, TypeOK, Row, Calm
<1>2. UNCHANGED <<cursor, proc>> /\ ~Committed(e)
  BY DEF Append
<1>3. ~Open(e) /\ ~Closed(e) /\ ~Held(e)
  BY <1>2 DEF Open, Closed, Dead, Held, Holds, HandIsFirst, Committed
<1>4. \A d \in Events : d # e => (Open(d)' <=> Open(d)) /\ (Closed(d)' <=> Closed(d))
  BY <1>1 DEF Open, Closed, Dead
<1>5. \A d \in Events : Held(d)' <=> Held(d)
  BY <1>2 DEF Held, Holds
<1>6. RowsInOrder'
  <2>1. ASSUME NEW d \in Events
        PROVE  /\ row'[d].status = "absent" => ~row'[d].started
               /\ row'[d].status \in {"absent", "pending"} => row'[d].attempts = 0
    BY <1>1 DEF RowsInOrder
  <2>2. ASSUME NEW d \in Events, Committed(d)', NEW c \in Events, c < d
        PROVE  Committed(c)'
    BY <1>1, <2>2 DEF RowsInOrder, Committed
  <2> QED BY <2>1, <2>2 DEF RowsInOrder
<1>7. CursorSplits'
  <2>1. CursorPointsToDispatched'
    BY <1>1, <1>2 DEF CursorSplits, CursorPointsToDispatched, Committed, TypeOK, Events
  <2>2. ASSUME NEW d \in Events
        PROVE  /\ d <= cursor' => Closed(d)'
               /\ d > cursor' => row'[d].status # "dispatched"
               /\ row'[d].status = "pending" /\ row'[d].started => Held(d)'
    BY <1>1, <1>2, <1>3, <1>4, <1>5 DEF CursorSplits
  <2> QED BY <2>1, <2>2 DEF CursorSplits
<1>8. HandIsFirst'
  <2>1. ASSUME NEW p \in Procs, proc[p].phase \in Holding
        PROVE  /\ proc[p].event # e
               /\ Open(proc[p].event)'
               /\ \A d \in Events : d < proc[p].event => Closed(d)'
    BY <1>2, <1>3, <1>4, <2>1 DEF HandIsFirst
  <2>2. ASSUME NEW p \in Procs, proc[p].phase \in {"writing", "locked"}
        PROVE  proc[p].rowRead = row'[proc[p].event]
    <3>1. proc[p].phase \in Holding
      BY <2>2 DEF Holding
    <3> QED BY <1>1, <2>1, <2>2, <3>1 DEF HandIsFirst
  <2> QED BY <1>2, <2>1, <2>2 DEF HandIsFirst
<1> QED BY <1>6, <1>7, <1>8

LEMMA ClaimCommitStep ==
  ASSUME NEW w, Calm(w), FifoInv, TypeOK', ClaimCommit(w)
  PROVE  FifoInv'
<1> USE DEF FifoInv
<1> DEFINE e == proc[w].event
<1>1. e \in Events /\ w \in Procs /\ Open(e) /\ proc[w].phase = "claiming"
  BY DEF ClaimCommit, HandIsFirst, Holding, Procs, Calm
<1>2. /\ UNCHANGED cursor
      /\ proc'[w].phase = "syncing" /\ proc'[w].event = e
      /\ \A d \in Events : row'[d].status = row[d].status /\ row'[d].attempts = row[d].attempts
      /\ \A d \in Events : d # e => row'[d] = row[d]
  BY <1>1 DEF ClaimCommit, Goto, TypeOK, Proc, Row
<1>3. \A d \in Events : (Open(d)' <=> Open(d)) /\ (Closed(d)' <=> Closed(d)) /\ (Held(d)' <=> Held(d))
  BY <1>1, <1>2 DEF Open, Closed, Dead, Held, Holds, Holding, Procs, Calm
<1>4. Held(e)
  BY <1>1 DEF Held, Holds, Holding
<1>5. RowsInOrder'
  BY <1>1, <1>2 DEF RowsInOrder, Committed, Open
<1>6. CursorSplits'
  <2>1. CursorPointsToDispatched'
    BY <1>2 DEF CursorSplits, CursorPointsToDispatched, TypeOK, Events
  <2> QED BY <1>2, <1>3, <1>4, <2>1 DEF CursorSplits
<1>7. HandIsFirst'
  BY <1>1, <1>2, <1>3 DEF HandIsFirst, Holding, Procs, Calm
<1> QED BY <1>5, <1>6, <1>7

LEMMA MarkCommitStep ==
  ASSUME NEW w, Calm(w), FifoInv, TypeOK', MarkCommit(w)
  PROVE  FifoInv'
<1> USE DEF FifoInv
<1> DEFINE e == proc[w].event
<1>1. /\ e \in Events /\ w \in Procs /\ Open(e)
      /\ \A d \in Events : d < e => Closed(d)
      /\ proc[w].rowRead = row[e] /\ proc[w].cursorRead = cursor
      /\ proc[w].phase = "locked"
  BY DEF MarkCommit, HandIsFirst, Holding, Procs, Calm
<1>2. /\ row'[e] = MarkedRow(w)
      /\ \A d \in Events : d # e => row'[d] = row[d]
      /\ proc'[w] = IdleProc
  BY <1>1 DEF MarkCommit, WriteMark, TypeOK, Calm
<1>3. \A d \in Events : d # e => (Open(d)' <=> Open(d)) /\ (Closed(d)' <=> Closed(d))
  BY <1>2 DEF Open, Closed, Dead
<1>4. \A d \in Events : ~Held(d)' /\ (d # e => ~Held(d))
  BY <1>1, <1>2 DEF Held, Holds, Holding, IdleProc, Procs, Calm
<1>5. ~Closed(e) /\ ~(e <= cursor) /\ cursor < e
  <2>1. row[e] \in Row
    BY <1>1 DEF TypeOK
  <2>2. ~Closed(e)
    BY <1>1, <2>1, OutboxAssumption DEF Closed, Dead, Open, Row
  <2>3. ~(e <= cursor)
    BY <1>1, <2>2 DEF CursorSplits
  <2> QED BY <1>1, <2>2, <2>3 DEF TypeOK, Events
<1>6. /\ row'[e].status \in {"dispatched", "failed"}
      /\ row'[e].status = "dispatched" => cursor' = e
      /\ row'[e].status = "failed" => cursor' = cursor
  BY <1>1, <1>2 DEF MarkCommit, WriteMark, MarkedRow
<1>7. RowsInOrder'
  <2>1. \A d \in Events : Committed(d)' <=> Committed(d)
    BY <1>1, <1>2, <1>6 DEF Committed, Open
  <2>2. ASSUME NEW d \in Events
        PROVE  /\ row'[d].status = "absent" => ~row'[d].started
               /\ row'[d].status \in {"absent", "pending"} => row'[d].attempts = 0
    BY <1>2, <1>6 DEF RowsInOrder
  <2> QED BY <2>1, <2>2 DEF RowsInOrder
<1>8. CursorSplits'
  <2>1. CursorPointsToDispatched'
    BY <1>2, <1>5, <1>6 DEF CursorSplits, CursorPointsToDispatched, TypeOK, Events
  <2>2. ASSUME NEW d \in Events, d <= cursor' PROVE Closed(d)'
    <3>1. CASE d = e
      BY <1>5, <1>6, <2>2, <3>1 DEF Closed
    <3>2. CASE d # e
      <4>1. Closed(d)
        BY <1>1, <1>6, <2>2, <3>2 DEF CursorSplits, Events
      <4> QED BY <1>3, <3>2, <4>1
    <3> QED BY <3>1, <3>2
  <2>3. ASSUME NEW d \in Events, d > cursor' PROVE row'[d].status # "dispatched"
    <3>1. CASE d = e
      BY <1>6, <2>3, <3>1 DEF Events
    <3>2. CASE d # e
      <4>1. d > cursor
        BY <1>5, <1>6, <2>3 DEF TypeOK, Events
      <4> QED BY <1>2, <3>2, <4>1 DEF CursorSplits
    <3> QED BY <3>1, <3>2
  <2>4. ASSUME NEW d \in Events PROVE ~(row'[d].status = "pending" /\ row'[d].started)
    BY <1>2, <1>4, <1>6 DEF CursorSplits
  <2> QED BY <2>1, <2>2, <2>3, <2>4 DEF CursorSplits
<1>9. HandIsFirst'
  BY <1>2 DEF HandIsFirst, IdleProc, Holding, Procs, Calm
<1> QED BY <1>7, <1>8, <1>9

LEMMA FifoStep == ASSUME NEW w, Calm(w) PROVE FifoInv /\ [Next]_vars => FifoInv'
<1> SUFFICES ASSUME FifoInv, [Next]_vars PROVE FifoInv'
  OBVIOUS
<1>0. TypeOK'
  BY FifoTyped, TypedStep DEF Typed
<1>1. w \in Procs /\ w \in Workers /\ proc[w].phase # "down" /\ faults = 0
  BY DEF FifoInv, HandIsFirst, TypeOK, Procs, Calm
<1>2. CASE \E e \in Events : Append(e)
  BY <1>0, <1>2, AppendStep
<1>3. CASE ClaimRead(w)
  <2>1. /\ proc'[w].phase = "reading" /\ proc'[w].cursorRead = cursor
        /\ proc'[w].event = proc[w].event
    BY <1>1, <1>3 DEF ClaimRead, FifoInv, TypeOK, Proc
  <2> QED BY <1>0, <1>3, <2>1, HandStep DEF ClaimRead, Holding
<1>4. CASE ClaimLock(w)
  BY <1>0, <1>4, ClaimLockStep
<1>5. CASE ClaimNone(w)
  <2>1. proc'[w] = IdleProc /\ UNCHANGED <<row, cursor>> /\ proc[w].phase = "reading"
    BY <1>1, <1>5 DEF ClaimNone, FifoInv, TypeOK
  <2>2. \A d \in Events : ~Held(d) /\ ~Held(d)'
    BY <2>1 DEF Held, Holds, Holding, IdleProc, Procs, Calm
  <2>3. \A e \in Events : Closed(e)' <=> Closed(e)
    BY <2>1 DEF Closed, Dead
  <2>4. RowsInOrder' /\ CursorSplits'
    BY <2>1, <2>2, <2>3 DEF FifoInv, RowsInOrder, Committed, CursorSplits, CursorPointsToDispatched
  <2>5. HandIsFirst'
    BY <2>1 DEF HandIsFirst, IdleProc, Holding, Procs, Calm
  <2> QED BY <1>0, <2>4, <2>5 DEF FifoInv
<1>6. CASE ClaimCommit(w)
  BY <1>0, <1>6, ClaimCommitStep
<1>7. CASE SyncOk(w) \/ SyncFail(w)
  <2>1. proc'[w].phase = "marking" /\ proc'[w].event = proc[w].event /\ proc[w].phase = "syncing"
    BY <1>1, <1>7 DEF SyncOk, SyncFail, FifoInv, TypeOK, Proc
  <2> QED BY <1>0, <1>7, <2>1, HandStep DEF SyncOk, SyncFail, Holding
<1>8. CASE MarkRead(w)
  <2>1. /\ proc'[w].phase = "writing" /\ proc'[w].event = proc[w].event
        /\ proc'[w].rowRead = row[proc[w].event] /\ proc[w].phase = "marking"
    BY <1>1, <1>8 DEF MarkRead, FifoInv, TypeOK, Proc
  <2> QED BY <1>0, <1>8, <2>1, HandStep DEF MarkRead, Holding
<1>9. CASE MarkLock(w)
  <2>1. /\ proc'[w].phase = "locked" /\ proc'[w].event = proc[w].event
        /\ proc'[w].rowRead = proc[w].rowRead /\ proc'[w].cursorRead = cursor
        /\ proc[w].phase = "writing"
    BY <1>1, <1>9 DEF MarkLock, FifoInv, TypeOK, Proc
  <2>2. proc[w].rowRead = row[proc[w].event]
    BY <1>1, <2>1 DEF FifoInv, HandIsFirst
  <2> QED BY <1>0, <1>9, <2>1, <2>2, HandStep DEF MarkLock, Holding
<1>10. CASE MarkCommit(w)
  BY <1>0, <1>10, MarkCommitStep
<1>11. ~MarkAnswerLost(w) /\ ~Crash(w) /\ ~Restart(w) /\ ~ReplayStep(w)
  BY <1>1 DEF MarkAnswerLost, Crash, Restart, ReplayStep, ReplayLoad, ReplaySyncIncomplete, Calm
<1>12. CASE UNCHANGED vars
  BY <1>0, <1>12 DEF vars, FifoInv, RowsInOrder, CursorSplits, CursorPointsToDispatched, HandIsFirst,
     Committed, Open, Closed, Dead, Held, Holds
<1> QED BY <1>2, <1>3, <1>4, <1>5, <1>6, <1>7, <1>8, <1>9, <1>10, <1>11, <1>12
        DEF Next, WorkerStep, FaultStep, Procs, Calm

LEMMA FifoAlways == ASSUME NEW w, Calm(w) PROVE Spec => []FifoInv
<1>1. Init => FifoInv
  BY FifoInit
<1>2. FifoInv /\ [Next]_vars => FifoInv'
  BY FifoStep
<1> QED BY <1>1, <1>2, PTL DEF Spec

\* No open row is ever out of reach of the worker's later claims.
THEOREM NothingStranded == ASSUME NEW w, Calm(w) PROVE Spec => []NoEventStranded
<1>1. FifoInv => NoEventStranded
  BY OutboxAssumption DEF FifoInv, NoEventStranded, Stranded, CursorSplits, Open, Closed, Dead, TypeOK, Row
<1> QED BY FifoAlways, <1>1, PTL

\* The exporter cursor always names a dispatched row.
THEOREM CursorSound == ASSUME NEW w, Calm(w) PROVE Spec => []CursorPointsToDispatched
<1>1. FifoInv => CursorPointsToDispatched
  BY DEF FifoInv, CursorSplits
<1> QED BY FifoAlways, <1>1, PTL

-----------------------------------------------------------------------------
(* The in-order promise                                                    *)

OutcomeMap == [e \in Events |-> Outcome(e)]

LEMMA MapInit == Init => Fifo!Init
BY DEF Init, Fifo!Init, Fifo!Events, Events, Outcome, Absent

\* Rows other than e keep their outcome, so the step is the step of e.
LEMMA OneOutcome ==
  ASSUME NEW e \in Events, \A d \in Events : d # e => row'[d] = row[d]
  PROVE  OutcomeMap' = [OutcomeMap EXCEPT ![e] = Outcome(e)']
BY DEF OutcomeMap, Outcome, Dead

LEMMA MapStep ==
  ASSUME NEW w, Calm(w) PROVE FifoInv /\ [Next]_vars => [Fifo!Next]_OutcomeMap
<1> SUFFICES ASSUME FifoInv, [Next]_vars PROVE Fifo!Next \/ UNCHANGED OutcomeMap
  BY DEF OutcomeMap
<1> USE DEF FifoInv
<1>0. w \in Procs /\ faults = 0
  BY DEF TypeOK, Procs, Calm
<1>1. \A e \in Events : OutcomeMap[e] = Outcome(e)
  BY DEF OutcomeMap
<1>2. \A e \in Events : Closed(e) => Outcome(e) \in {"dispatched", "dead"}
  BY DEF Closed, Outcome, Dead
<1>3. ASSUME NEW e \in Events, Append(e) PROVE Fifo!Next
  <2>1. Outcome(e) = "absent" /\ \A d \in Events : d < e => Outcome(d) # "absent"
    BY <1>3 DEF Append, Outcome, Committed, Calm
  <2>2. row'[e].status = "pending" /\ \A d \in Events : d # e => row'[d] = row[d]
    BY <1>3 DEF Append, TypeOK, Row
  <2>3. Outcome(e)' = "open"
    BY <2>2 DEF Outcome, Dead
  <2>4. OutcomeMap' = [OutcomeMap EXCEPT ![e] = "open"]
    BY <2>2, <2>3, OneOutcome
  <2>5. Fifo!Write(e)
    BY <1>1, <2>1, <2>4 DEF Fifo!Write, Fifo!Events, Events, OutcomeMap
  <2> QED BY <2>5 DEF Fifo!Next, Fifo!Events, Events
<1>4. ASSUME MarkCommit(w) PROVE Fifo!Next \/ UNCHANGED OutcomeMap
  <2>1. PICK e \in Events : e = proc[w].event /\ Open(e) /\ \A d \in Events : d < e => Closed(d)
    BY <1>0, <1>4 DEF MarkCommit, HandIsFirst, Holding
  <2>2. row'[e] = MarkedRow(w) /\ \A d \in Events : d # e => row'[d] = row[d]
    BY <1>4, <2>1 DEF MarkCommit, WriteMark, TypeOK
  <2>3. Outcome(e) = "open"
    <3>1. row[e] \in Row
      BY <2>1 DEF TypeOK
    <3> QED BY <2>1, <3>1, OutboxAssumption DEF Open, Outcome, Dead, Row
  <2>4. OutcomeMap' = [OutcomeMap EXCEPT ![e] = Outcome(e)']
    BY <2>1, <2>2, OneOutcome
  <2>5. Outcome(e)' \in {"dispatched", "dead", "open"}
    BY <2>2 DEF Outcome, MarkedRow
  <2>6. CASE Outcome(e)' = "open"
    BY <1>1, <2>1, <2>3, <2>4, <2>6 DEF OutcomeMap
  <2>7. CASE Outcome(e)' \in {"dispatched", "dead"}
    <3>1. Fifo!Settle(e)
      BY <1>1, <1>2, <2>1, <2>3, <2>4, <2>7
         DEF Fifo!Settle, Fifo!Settled, Fifo!Events, Events, OutcomeMap
    <3> QED BY <2>1, <3>1 DEF Fifo!Next, Fifo!Events, Events
  <2> QED BY <2>5, <2>6, <2>7
<1>5. ASSUME ClaimRead(w) \/ ClaimLock(w) \/ ClaimNone(w) \/ SyncOk(w) \/ SyncFail(w)
             \/ MarkRead(w) \/ MarkLock(w) \/ UNCHANGED vars
      PROVE  UNCHANGED OutcomeMap
  <2>1. UNCHANGED row
    BY <1>5 DEF ClaimRead, ClaimLock, ClaimNone, SyncOk, SyncFail, MarkRead, MarkLock, vars
  <2> QED BY <2>1 DEF OutcomeMap, Outcome, Dead
<1>6. ASSUME ClaimCommit(w) PROVE UNCHANGED OutcomeMap
  <2>1. \A d \in Events : row'[d].status = row[d].status /\ row'[d].attempts = row[d].attempts
    BY <1>6 DEF ClaimCommit, TypeOK, Row
  <2> QED BY <2>1 DEF OutcomeMap, Outcome, Dead
<1>7. ~MarkAnswerLost(w) /\ ~Crash(w) /\ ~Restart(w) /\ ~ReplayStep(w)
  BY <1>0 DEF MarkAnswerLost, Crash, Restart, ReplayStep, ReplayLoad, ReplaySyncIncomplete, Calm,
              HandIsFirst
<1> QED BY <1>3, <1>4, <1>5, <1>6, <1>7 DEF Next, WorkerStep, FaultStep, Procs, Calm

\* Rows are dispatched or dead-lettered in the order they were written.
THEOREM SettledInOrder == ASSUME NEW w, Calm(w) PROVE Spec => Fifo!SafeSpec
<1>1. FifoInv /\ [Next]_vars => [Fifo!Next]_OutcomeMap
  BY MapStep
<1> QED BY MapInit, <1>1, FifoAlways, PTL DEF Spec, Fifo!SafeSpec, OutcomeMap
=============================================================================
