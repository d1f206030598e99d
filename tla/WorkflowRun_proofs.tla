------------------------- MODULE WorkflowRun_proofs -------------------------
(***************************************************************************)
(* Proofs about WorkflowRun, for any set of triggers and any kinds.        *)
(***************************************************************************)
EXTENDS WorkflowRun, TLAPS

\* What the handler's program counter says about the rest of the state.
HandlerInv ==
    \A t \in Trigger :
        /\ pc[t] \in {"idle", "accepted"} => status[t] = "none"
        /\ pc[t] = "idle" => kind[t] = "none"
        /\ pc[t] \in {"idle", "accepted", "inserted"} => engine[t] = "none"
        /\ status[t] = "none" => ~ completedAt[t]
        /\ pc[t] = "dispatched" => engine[t] \in Accepted

\* The worker's outcome is its last word on a run.
OutcomeInv == \A t \in Trigger : status[t] = "completed" => engine[t] = "done"

\* The inductive invariant.  AcceptedBeforeRunning alone is not inductive: the
\* step to "running" relies on where the handler is.  CompletedAtMatchesStatus
\* relies on the row being absent until the handler inserts it.
IInv ==
    /\ TypeOK
    /\ HandlerInv
    /\ OutcomeInv
    /\ AcceptedBeforeRunning
    /\ CompletedAtMatchesStatus
    /\ NoOrphanRun

-----------------------------------------------------------------------------
\* What a terminal write does: it changes row t only, and only if the row is
\* there; it sets completedAt together with the status.
TerminalEffect(t, s) ==
    /\ status' \in [Trigger -> Row \cup {"none", "gone"}]
    /\ completedAt' \in [Trigger -> BOOLEAN]
    /\ \A u \in Trigger : u # t => /\ status'[u] = status[u]
                                   /\ completedAt'[u] = completedAt[u]
    /\ status[t] \in Row => status'[t] = s /\ completedAt'[t]
    /\ status[t] \notin Row => /\ status'[t] = status[t]
                               /\ completedAt'[t] = completedAt[t]

LEMMA TerminalWrite ==
  ASSUME TypeOK, NEW t \in Trigger, NEW s \in Terminal, WriteTerminal(t, s)
  PROVE  TerminalEffect(t, s)
  <1>1. CASE status[t] \in Row
    <2>1. /\ status' = [status EXCEPT ![t] = s]
          /\ completedAt' = [completedAt EXCEPT ![t] = TRUE]
      BY <1>1 DEF WriteTerminal
    <2>2. s \in Row \cup {"none", "gone"}
      BY DEF Row
    <2>3. status' \in [Trigger -> Row \cup {"none", "gone"}]
      BY <2>1, <2>2 DEF TypeOK
    <2>4. completedAt' \in [Trigger -> BOOLEAN]
      BY <2>1 DEF TypeOK
    <2>5. status'[t] = s /\ \A u \in Trigger \ {t} : status'[u] = status[u]
      BY <2>1 DEF TypeOK
    <2>6. /\ completedAt'[t]
          /\ \A u \in Trigger \ {t} : completedAt'[u] = completedAt[u]
      BY <2>1 DEF TypeOK
    <2> QED
      BY <1>1, <2>3, <2>4, <2>5, <2>6 DEF TerminalEffect
  <1>2. CASE status[t] \notin Row
    BY <1>2 DEF WriteTerminal, TerminalEffect, TypeOK
  <1> QED
    BY <1>1, <1>2

\* What the "failed" write of a handler does: that of an event's handler leaves
\* completedAt alone, the others' is a terminal write.
FailedEffect(t) ==
    /\ status' \in [Trigger -> Row \cup {"none", "gone"}]
    /\ completedAt' \in [Trigger -> BOOLEAN]
    /\ \A u \in Trigger : u # t => /\ status'[u] = status[u]
                                   /\ completedAt'[u] = completedAt[u]
    /\ status[t] \in Row => status'[t] = "failed"
    /\ status[t] \notin Row => /\ status'[t] = status[t]
                               /\ completedAt'[t] = completedAt[t]
    /\ kind[t] # "event" => TerminalEffect(t, "failed")

LEMMA FailedWrite ==
  ASSUME TypeOK, NEW t \in Trigger, WriteFailed(t)
  PROVE  FailedEffect(t)
  <1>1. CASE kind[t] = "event" /\ status[t] \in Row
    <2>1. status' = [status EXCEPT ![t] = "failed"] /\ completedAt' = completedAt
      BY <1>1 DEF WriteFailed
    <2>2. status' \in [Trigger -> Row \cup {"none", "gone"}]
      BY <2>1 DEF TypeOK, Row, Terminal
    <2> QED
      BY <1>1, <2>1, <2>2 DEF FailedEffect, TypeOK
  <1>2. CASE ~ (kind[t] = "event" /\ status[t] \in Row)
    <2>1. TerminalEffect(t, "failed")
      BY <1>2, TerminalWrite DEF WriteFailed, Terminal
    <2> QED
      BY <2>1 DEF TerminalEffect, FailedEffect
  <1> QED
    BY <1>1, <1>2

\* What a "running" write does: it changes row t only, and a guarded handler's
\* write only a row that is pending.
RunningEffect(t) ==
    /\ status' \in [Trigger -> Row \cup {"none", "gone"}]
    /\ old' \in [Trigger -> BOOLEAN]
    /\ \A u \in Trigger : u # t => status'[u] = status[u]
    /\ \/ status'[t] = status[t]
       \/ /\ status'[t] = "running"
          /\ status[t] \in Row
          /\ kind[t] \in Guarded => status[t] = "pending"

LEMMA RunningWrite ==
  ASSUME TypeOK, NEW t \in Trigger, WriteRunning(t)
  PROVE  RunningEffect(t)
  <1>1. CASE RunningMatches(t)
    <2>1. /\ status[t] \in Row
          /\ kind[t] \in Guarded => status[t] = "pending"
      BY <1>1 DEF RunningMatches, Row, Unsettled
    <2>2. /\ status' = [status EXCEPT ![t] = "running"]
          /\ old' = [old EXCEPT ![t] = @ /\ kind[t] # "api"]
      BY <1>1 DEF WriteRunning
    <2>3. status' \in [Trigger -> Row \cup {"none", "gone"}]
      BY <2>2 DEF TypeOK, Row, Unsettled
    <2>4. old' \in [Trigger -> BOOLEAN]
      BY <2>2 DEF TypeOK
    <2> QED
      BY <2>1, <2>2, <2>3, <2>4 DEF TypeOK, RunningEffect
  <1>2. CASE ~ RunningMatches(t)
    BY <1>2 DEF WriteRunning, TypeOK, RunningEffect
  <1> QED
    BY <1>1, <1>2

\* The empty table satisfies the invariant.
LEMMA InitInv == Init => IInv
  BY DEF Init, IInv, TypeOK, HandlerInv, OutcomeInv, AcceptedBeforeRunning,
         CompletedAtMatchesStatus, NoOrphanRun, Guarded, AllKinds, Row,
         Unsettled, Terminal, Accepted

\* TypeOK is inductive by itself.
LEMMA NextType == TypeOK /\ [Next]_vars => TypeOK'
  <1> SUFFICES ASSUME TypeOK, [Next]_vars PROVE TypeOK'
    OBVIOUS
  <1> USE KindsAssumption DEF TypeOK
  <1>1. ASSUME NEW t \in Trigger, NEW k \in Kinds, Accept(t, k) PROVE TypeOK'
    BY <1>1 DEF Accept
  <1>2. ASSUME NEW t \in Trigger, Insert(t) PROVE TypeOK'
    BY <1>2 DEF Insert, Row, Unsettled
  <1>3. ASSUME NEW t \in Trigger, Dispatch(t) PROVE TypeOK'
    BY <1>3 DEF Dispatch
  <1>4. ASSUME NEW t \in Trigger, DispatchReturned(t) PROVE TypeOK'
    BY <1>4 DEF DispatchReturned
  <1>5. ASSUME NEW t \in Trigger, Throw(t) PROVE TypeOK'
    BY <1>5 DEF Throw, AfterThrow
  <1>6. ASSUME NEW t \in Trigger, MarkRunning(t) PROVE TypeOK'
    <2>1. RunningEffect(t)
      BY <1>6, RunningWrite DEF MarkRunning
    <2> QED
      BY <1>6, <2>1 DEF MarkRunning, AfterThrow, RunningEffect
  <1>7. ASSUME NEW t \in Trigger, MarkFailed(t) PROVE TypeOK'
    <2>1. FailedEffect(t)
      BY <1>7, FailedWrite DEF MarkFailed
    <2> QED
      BY <1>7, <2>1 DEF MarkFailed, FailedEffect
  <1>8. ASSUME NEW t \in Trigger, Abandon(t) PROVE TypeOK'
    BY <1>8 DEF Abandon
  <1>9. ASSUME NEW t \in Trigger, Cancel(t) PROVE TypeOK'
    <2>1. CASE CancelCheck(t)
      BY <2>1 DEF CancelCheck
    <2>2. CASE CancelWrite(t)
      <3>1. TerminalEffect(t, "cancelled")
        BY <2>2, TerminalWrite DEF CancelWrite, Terminal
      <3> QED
        BY <2>2, <3>1 DEF CancelWrite, TerminalEffect
    <2>3. CASE CancelLost(t)
      BY <2>3 DEF CancelLost
    <2> QED
      BY <1>9, <2>1, <2>2, <2>3 DEF Cancel
  <1>10. ASSUME NEW t \in Trigger, Age(t) PROVE TypeOK'
    BY <1>10 DEF Age
  <1>11. ASSUME FailStale PROVE TypeOK'
    BY <1>11 DEF FailStale, Row, Terminal
  <1>12. ASSUME DeleteWorkflow PROVE TypeOK'
    BY <1>12 DEF DeleteWorkflow
  <1>13. ASSUME NEW t \in Trigger, EngineAccept(t) PROVE TypeOK'
    BY <1>13 DEF EngineAccept, EngineMoves, Accepted
  <1>14. ASSUME NEW t \in Trigger, WorkerFinish(t) PROVE TypeOK'
    <2>1. CASE UNCHANGED <<status, completedAt>>
      BY <1>14, <2>1 DEF WorkerFinish, EngineMoves, Accepted
    <2>2. ASSUME NEW s \in {"completed", "failed"}, WriteTerminal(t, s)
          PROVE  TypeOK'
      <3>1. TerminalEffect(t, s)
        BY <2>2, TerminalWrite DEF Terminal
      <3> QED
        BY <1>14, <3>1 DEF WorkerFinish, EngineMoves, TerminalEffect, Accepted
    <2> QED
      BY <1>14, <2>1, <2>2 DEF WorkerFinish
  <1>15. CASE UNCHANGED vars
    BY <1>15 DEF vars
  <1>16. ASSUME NEW t \in Trigger, NoExecutor(t) PROVE TypeOK'
    BY <1>16 DEF NoExecutor
  <1> QED
    BY <1>1, <1>2, <1>3, <1>4, <1>5, <1>6, <1>7, <1>8, <1>9, <1>10, <1>11,
       <1>12, <1>13, <1>14, <1>15, <1>16
       DEF Next, Handler, Worker, Reap, CleanupStaleRuns

\* No step of a handler, a cancel request, the reaper, the deletion of the
\* workflow, the engine or the worker breaks the invariant.
LEMMA NextInv == IInv /\ [Next]_vars => IInv'
  <1> SUFFICES ASSUME IInv, [Next]_vars PROVE IInv'
    OBVIOUS
  <1> USE KindsAssumption DEF IInv, TypeOK, HandlerInv, OutcomeInv,
        AcceptedBeforeRunning, CompletedAtMatchesStatus, NoOrphanRun, Guarded,
        Catching, AllKinds, Row, Unsettled, Terminal, Accepted
  <1> DEFINE Others == /\ HandlerInv /\ OutcomeInv /\ AcceptedBeforeRunning
                       /\ CompletedAtMatchesStatus /\ NoOrphanRun
  <1>0. TypeOK'
    BY NextType
  <1>1. ASSUME NEW t \in Trigger, NEW k \in Kinds, Accept(t, k) PROVE Others'
    BY <1>1 DEF Accept
  <1>2. ASSUME NEW t \in Trigger, Insert(t) PROVE Others'
    BY <1>2 DEF Insert
  <1>3. ASSUME NEW t \in Trigger, Dispatch(t) PROVE Others'
    BY <1>3 DEF Dispatch
  <1>4. ASSUME NEW t \in Trigger, DispatchReturned(t) PROVE Others'
    BY <1>4 DEF DispatchReturned
  <1>5. ASSUME NEW t \in Trigger, Throw(t) PROVE Others'
    BY <1>5 DEF Throw, AfterThrow
  <1>6. ASSUME NEW t \in Trigger, MarkRunning(t) PROVE Others'
    <2>1. /\ pc[t] = "dispatched"
          /\ \/ pc' = [pc EXCEPT ![t] = "caught"]
             \/ pc' = [pc EXCEPT ![t] = "done"]
          /\ \/ \E b \in BOOLEAN : billed' = [billed EXCEPT ![t] = b]
             \/ billed' = billed
          /\ UNCHANGED <<kind, completedAt, engine, cancelling, workflowExists>>
      BY <1>6 DEF MarkRunning, AfterThrow
    <2>2. RunningEffect(t)
      BY <1>6, RunningWrite DEF MarkRunning
    <2>4. HandlerInv' /\ OutcomeInv'
      BY <2>1, <2>2 DEF RunningEffect
    <2>5. AcceptedBeforeRunning'
      BY <2>1, <2>2 DEF RunningEffect
    <2>6. CompletedAtMatchesStatus' /\ NoOrphanRun'
      BY <2>1, <2>2 DEF RunningEffect
    <2> QED
      BY <2>4, <2>5, <2>6
  <1>7. ASSUME NEW t \in Trigger, MarkFailed(t) PROVE Others'
    <2>1. FailedEffect(t)
      BY <1>7, FailedWrite DEF MarkFailed
    <2>2. HandlerInv' /\ OutcomeInv'
      BY <1>7, <2>1 DEF MarkFailed, FailedEffect
    <2>3. AcceptedBeforeRunning' /\ NoOrphanRun'
      BY <1>7, <2>1 DEF MarkFailed, FailedEffect
    <2>4. CompletedAtMatchesStatus'
      BY <1>7, <2>1 DEF MarkFailed, FailedEffect, TerminalEffect
    <2> QED
      BY <2>2, <2>3, <2>4
  <1>8. ASSUME NEW t \in Trigger, Abandon(t) PROVE Others'
    BY <1>8 DEF Abandon
  <1>9. ASSUME NEW t \in Trigger, CancelCheck(t) PROVE Others'
    BY <1>9 DEF CancelCheck
  <1>10. ASSUME NEW t \in Trigger, CancelWrite(t) PROVE Others'
    <2>1. TerminalEffect(t, "cancelled")
      BY <1>10, TerminalWrite DEF CancelWrite
    <2>2. HandlerInv' /\ OutcomeInv'
      BY <1>10, <2>1 DEF CancelWrite, TerminalEffect
    <2>3. AcceptedBeforeRunning' /\ CompletedAtMatchesStatus' /\ NoOrphanRun'
      BY <1>10, <2>1 DEF CancelWrite, TerminalEffect
    <2> QED
      BY <2>2, <2>3
  <1>11. ASSUME NEW t \in Trigger, CancelLost(t) PROVE Others'
    BY <1>11 DEF CancelLost
  <1>12. ASSUME NEW t \in Trigger, Age(t) PROVE Others'
    BY <1>12 DEF Age
  <1>13. ASSUME FailStale PROVE Others'
    BY <1>13 DEF FailStale, Stale
  <1>14. ASSUME DeleteWorkflow PROVE Others'
    BY <1>14 DEF DeleteWorkflow
  <1>15. ASSUME NEW t \in Trigger, EngineAccept(t) PROVE Others'
    BY <1>15 DEF EngineAccept, EngineMoves
  <1>16. ASSUME NEW t \in Trigger, WorkerFinish(t) PROVE Others'
    <2>1. /\ engine[t] = "accepted"
          /\ engine' = [engine EXCEPT ![t] = "done"]
          /\ UNCHANGED <<kind, pc, old, billed, cancelling, workflowExists>>
      BY <1>16 DEF WorkerFinish, EngineMoves
    <2>2. ASSUME NEW s \in {"completed", "failed"}, WriteTerminal(t, s)
          PROVE  Others'
      <3>1. TerminalEffect(t, s)
        BY <2>2, TerminalWrite
      <3>2. HandlerInv' /\ OutcomeInv'
        BY <2>1, <3>1 DEF TerminalEffect
      <3>3. AcceptedBeforeRunning' /\ CompletedAtMatchesStatus' /\ NoOrphanRun'
        BY <2>1, <3>1 DEF TerminalEffect
      <3> QED
        BY <3>2, <3>3
    <2>3. CASE UNCHANGED <<status, completedAt>>
      BY <2>1, <2>3
    <2> QED
      BY <1>16, <2>2, <2>3 DEF WorkerFinish
  <1>17. CASE UNCHANGED vars
    BY <1>17 DEF vars
  <1>18. ASSUME NEW t \in Trigger, NoExecutor(t) PROVE Others'
    BY <1>18 DEF NoExecutor
  <1> QED
    BY <1>0, <1>1, <1>2, <1>3, <1>4, <1>5, <1>6, <1>7, <1>8, <1>9, <1>10, <1>11,
       <1>12, <1>13, <1>14, <1>15, <1>16, <1>17, <1>18
       DEF Next, Handler, Cancel, Worker, Reap, CleanupStaleRuns

\* The invariant holds in every reachable state.
THEOREM Invariance == Spec => []IInv
  <1> QED
    BY InitInv, NextInv, PTL DEF Spec

\* Every variable keeps its type.
THEOREM TypeCorrect == Spec => []TypeOK
  <1>1. IInv => TypeOK
    BY DEF IInv
  <1> QED
    BY <1>1, Invariance, PTL

\* No run is shown as running, or billed, that the engine has not taken.
THEOREM RunningIsAccepted == Spec => []AcceptedBeforeRunning
  <1>1. IInv => AcceptedBeforeRunning
    BY DEF IInv
  <1> QED
    BY <1>1, Invariance, PTL

\* The rows of the guarded handlers carry completedAt exactly when terminal.
THEOREM DurationsAreMeasurable == Spec => []CompletedAtMatchesStatus
  <1>1. IInv => CompletedAtMatchesStatus
    BY DEF IInv
  <1> QED
    BY <1>1, Invariance, PTL

\* A deleted workflow leaves no run behind, whichever handlers were under way.
THEOREM CascadeIsComplete == Spec => []NoOrphanRun
  <1>1. IInv => NoOrphanRun
    BY DEF IInv
  <1> QED
    BY <1>1, Invariance, PTL

-----------------------------------------------------------------------------
\* Outside a caught dispatch and a checked cancel, a completed run of a guarded
\* handler stays completed until its workflow goes.  The worker is no danger:
\* by OutcomeInv it has spoken already.
THEOREM OutcomeIsKept == Spec => OutcomeKept
  <1>1. IInv /\ [Next]_vars => [OutcomesKept]_vars
    <2> SUFFICES ASSUME IInv, Next, NEW u \in Trigger,
                        kind[u] \in Guarded, status[u] = "completed",
                        pc[u] # "caught", u \notin cancelling
                 PROVE  status'[u] \in {"completed", "gone"}
      BY DEF OutcomesKept, KeepsOutcome
    <2>1. /\ TypeOK
          /\ pc[u] \notin {"idle", "accepted"}
          /\ engine[u] = "done"
      BY DEF IInv, HandlerInv, OutcomeInv
    <2>2. UNCHANGED status => status'[u] = "completed"
      OBVIOUS
    <2>3. ASSUME NEW t \in Trigger, NEW k \in Kinds, Accept(t, k)
          PROVE  UNCHANGED status
      BY <2>3 DEF Accept
    <2>4. ASSUME NEW t \in Trigger, Insert(t)
          PROVE  status'[u] = "completed"
      BY <2>1, <2>4 DEF Insert, TypeOK
    <2>5. ASSUME NEW t \in Trigger, MarkRunning(t)
          PROVE  status'[u] = "completed"
      <3>1. RunningEffect(t)
        BY <2>1, <2>5, RunningWrite DEF MarkRunning
      <3> QED
        BY <3>1 DEF RunningEffect
    <2>6. ASSUME NEW t \in Trigger, MarkFailed(t)
          PROVE  status'[u] = "completed"
      <3>1. FailedEffect(t)
        BY <2>1, <2>6, FailedWrite DEF MarkFailed
      <3>2. t # u
        BY <2>6 DEF MarkFailed
      <3> QED
        BY <3>1, <3>2 DEF FailedEffect
    <2>7. ASSUME NEW t \in Trigger, CancelWrite(t)
          PROVE  status'[u] = "completed"
      <3>1. TerminalEffect(t, "cancelled")
        BY <2>1, <2>7, TerminalWrite DEF CancelWrite, Terminal
      <3>2. t # u
        BY <2>7 DEF CancelWrite
      <3> QED
        BY <3>1, <3>2 DEF TerminalEffect
    <2>8. ASSUME FailStale PROVE status'[u] = "completed"
      BY <2>8 DEF FailStale, Stale, Unsettled
    <2>9. ASSUME DeleteWorkflow PROVE status'[u] = "gone"
      BY <2>9 DEF DeleteWorkflow, Row, Terminal
    <2>10. ASSUME NEW t \in Trigger, WorkerFinish(t)
           PROVE  status'[u] = "completed"
      <3>1. t # u
        BY <2>1, <2>10 DEF WorkerFinish, EngineMoves
      <3>2. ASSUME NEW s \in {"completed", "failed"}, WriteTerminal(t, s)
            PROVE  status'[u] = "completed"
        <4>1. TerminalEffect(t, s)
          BY <2>1, <3>2, TerminalWrite DEF Terminal
        <4> QED
          BY <3>1, <4>1 DEF TerminalEffect
      <3> QED
        BY <2>2, <2>10, <3>2 DEF WorkerFinish
    <2>11. ASSUME NEW t \in Trigger,
                  \/ Dispatch(t) \/ DispatchReturned(t) \/ Throw(t)
                  \/ NoExecutor(t) \/ Abandon(t) \/ CancelCheck(t)
                  \/ CancelLost(t) \/ Age(t) \/ EngineAccept(t)
           PROVE  UNCHANGED status
      BY <2>11 DEF Dispatch, DispatchReturned, Throw, NoExecutor, Abandon,
                   CancelCheck, CancelLost, Age, EngineAccept
    <2> QED
      BY <2>2, <2>3, <2>4, <2>5, <2>6, <2>7, <2>8, <2>9, <2>10, <2>11
         DEF Next, Handler, Cancel, Worker, Reap, CleanupStaleRuns
  <1> QED
    BY <1>1, Invariance, PTL DEF Spec, OutcomeKept

-----------------------------------------------------------------------------
\* The rows in S leave a ledger state of From for the state to.
LEMMA LedgerMoves ==
  ASSUME NEW S \in SUBSET Trigger,
         \/ Ledger!Open(S) \/ Ledger!Settle(S) \/ Ledger!Drop(S)
  PROVE  [Ledger!Next]_LedgerView
  BY DEF Ledger!Next

\* A step that changes the entry of one row only, along an edge of the ledger's
\* life cycle, is a step of the ledger or a stutter.
LEMMA OneRowMoves ==
  ASSUME NEW t \in Trigger,
         \A u \in Trigger : u # t => LedgerEntry(u)' = LedgerEntry(u),
         \/ LedgerEntry(t)' = LedgerEntry(t)
         \/ LedgerEntry(t) = "none" /\ LedgerEntry(t)' = "open"
         \/ LedgerEntry(t) = "open" /\ LedgerEntry(t)' = "settled"
  PROVE  [Ledger!Next]_LedgerView
  <1>1. CASE LedgerEntry(t)' = LedgerEntry(t)
    BY <1>1 DEF LedgerView
  <1>2. CASE LedgerEntry(t) = "none" /\ LedgerEntry(t)' = "open"
    <2>1. Ledger!Open({t})
      BY <1>2 DEF Ledger!Open, Ledger!Move, LedgerView
    <2> QED
      BY <2>1, LedgerMoves
  <1>3. CASE LedgerEntry(t) = "open" /\ LedgerEntry(t)' = "settled"
    <2>1. Ledger!Settle({t})
      BY <1>3 DEF Ledger!Settle, Ledger!Move, LedgerView
    <2> QED
      BY <2>1, LedgerMoves
  <1> QED
    BY <1>1, <1>2, <1>3

\* A step that touches neither kinds nor statuses is a stutter of the ledger.
LEMMA SameRows ==
  ASSUME UNCHANGED <<kind, status>>
  PROVE  [Ledger!Next]_LedgerView
  BY DEF LedgerView, LedgerEntry

\* A terminal write settles an open row or leaves the entry alone.
LEMMA TerminalMoves ==
  ASSUME NEW t \in Trigger, NEW s \in Terminal, TypeOK, TerminalEffect(t, s),
         UNCHANGED kind
  PROVE  [Ledger!Next]_LedgerView
  <1>1. \A u \in Trigger : u # t => LedgerEntry(u)' = LedgerEntry(u)
    BY DEF TerminalEffect, LedgerEntry
  <1>2. \/ LedgerEntry(t)' = LedgerEntry(t)
        \/ LedgerEntry(t) = "open" /\ LedgerEntry(t)' = "settled"
    BY DEF TerminalEffect, LedgerEntry, Row, Unsettled, Terminal
  <1> QED
    BY <1>1, <1>2, OneRowMoves

\* Every step of the run table, seen through its ledger entries, is a step of
\* the ledger: guarded handlers never open a settled row again.
LEMMA StepsRefine == IInv /\ [Next]_vars => [Ledger!Next]_LedgerView
  <1> SUFFICES ASSUME IInv, [Next]_vars PROVE [Ledger!Next]_LedgerView
    OBVIOUS
  <1>0. TypeOK /\ HandlerInv
    BY DEF IInv
  <1>1. ASSUME NEW t \in Trigger, NEW k \in Kinds, Accept(t, k)
        PROVE  [Ledger!Next]_LedgerView
    <2>1. \A u \in Trigger : u # t => LedgerEntry(u)' = LedgerEntry(u)
      BY <1>0, <1>1 DEF Accept, LedgerEntry, TypeOK
    <2>2. LedgerEntry(t)' = LedgerEntry(t)
      BY <1>0, <1>1 DEF Accept, LedgerEntry, HandlerInv
    <2> QED
      BY <2>1, <2>2, OneRowMoves
  <1>2. ASSUME NEW t \in Trigger, Insert(t) PROVE [Ledger!Next]_LedgerView
    <2>1. \A u \in Trigger : u # t => LedgerEntry(u)' = LedgerEntry(u)
      BY <1>0, <1>2 DEF Insert, LedgerEntry, TypeOK
    <2>2. LedgerEntry(t) = "none" /\ LedgerEntry(t)' \in {"none", "open"}
      BY <1>0, <1>2 DEF Insert, LedgerEntry, HandlerInv, TypeOK, Unsettled
    <2> QED
      BY <2>1, <2>2, OneRowMoves
  <1>3. ASSUME NEW t \in Trigger, MarkRunning(t) PROVE [Ledger!Next]_LedgerView
    <2>1. RunningEffect(t) /\ UNCHANGED kind
      BY <1>0, <1>3, RunningWrite DEF MarkRunning
    <2>2. \A u \in Trigger : u # t => LedgerEntry(u)' = LedgerEntry(u)
      BY <2>1 DEF RunningEffect, LedgerEntry
    <2>3. LedgerEntry(t)' = LedgerEntry(t)
      BY <2>1 DEF RunningEffect, LedgerEntry, Unsettled
    <2> QED
      BY <2>2, <2>3, OneRowMoves
  <1>4. ASSUME NEW t \in Trigger, MarkFailed(t) PROVE [Ledger!Next]_LedgerView
    <2>1. FailedEffect(t) /\ UNCHANGED kind
      BY <1>0, <1>4, FailedWrite DEF MarkFailed
    <2>2. CASE kind[t] # "event"
      BY <1>0, <2>1, <2>2, TerminalMoves DEF FailedEffect, Terminal
    <2>3. CASE kind[t] = "event"
      <3>1. \A u \in Trigger : u # t => LedgerEntry(u)' = LedgerEntry(u)
        BY <2>1 DEF FailedEffect, LedgerEntry
      <3>2. LedgerEntry(t)' = LedgerEntry(t)
        BY <2>1, <2>3 DEF LedgerEntry, Guarded
      <3> QED
        BY <3>1, <3>2, OneRowMoves
    <2> QED
      BY <2>2, <2>3
  <1>5. ASSUME NEW t \in Trigger, CancelWrite(t) PROVE [Ledger!Next]_LedgerView
    BY <1>0, <1>5, TerminalWrite, TerminalMoves DEF CancelWrite, Terminal
  <1>6. ASSUME NEW t \in Trigger, WorkerFinish(t) PROVE [Ledger!Next]_LedgerView
    <2>1. UNCHANGED kind
      BY <1>6 DEF WorkerFinish, EngineMoves
    <2>2. CASE \E s \in {"completed", "failed"} : WriteTerminal(t, s)
      BY <1>0, <2>1, <2>2, TerminalWrite, TerminalMoves DEF Terminal
    <2>3. CASE UNCHANGED <<status, completedAt>>
      BY <2>1, <2>3, SameRows
    <2> QED
      BY <1>6, <2>2, <2>3 DEF WorkerFinish
  <1>7. ASSUME FailStale PROVE [Ledger!Next]_LedgerView
    <2> DEFINE S == {t \in Stale : kind[t] \in Guarded}
    <2>1. \A t \in S : LedgerEntry(t) = "open"
      BY DEF Stale, LedgerEntry, Unsettled
    <2>2. \A t \in Trigger :
            LedgerEntry(t)' = IF t \in S THEN "settled" ELSE LedgerEntry(t)
      BY <1>7 DEF FailStale, Stale, LedgerEntry, Unsettled, Terminal
    <2>3. Ledger!Settle(S)
      BY <2>1, <2>2 DEF Ledger!Settle, Ledger!Move, LedgerView, Stale
    <2> QED
      BY <2>3, LedgerMoves DEF Stale
  <1>8. ASSUME DeleteWorkflow PROVE [Ledger!Next]_LedgerView
    <2> DEFINE S == {t \in Trigger : status[t] \in Row /\ kind[t] \in Guarded}
    <2>1. \A t \in S : LedgerEntry(t) \in {"open", "settled"}
      BY DEF LedgerEntry, Row, Unsettled, Terminal
    <2>2. \A t \in Trigger :
            LedgerEntry(t)' = IF t \in S THEN "gone" ELSE LedgerEntry(t)
      BY <1>0, <1>8 DEF DeleteWorkflow, LedgerEntry, Row, Unsettled, Terminal
    <2>3. Ledger!Drop(S)
      BY <2>1, <2>2 DEF Ledger!Drop, Ledger!Move, LedgerView
    <2> QED
      BY <2>3, LedgerMoves
  <1>9. ASSUME NEW t \in Trigger,
               \/ Dispatch(t) \/ DispatchReturned(t) \/ Throw(t) \/ NoExecutor(t)
               \/ Abandon(t) \/ CancelCheck(t) \/ CancelLost(t) \/ Age(t)
               \/ EngineAccept(t)
        PROVE  UNCHANGED <<kind, status>>
    BY <1>9 DEF Dispatch, DispatchReturned, Throw, NoExecutor, Abandon,
                CancelCheck, CancelLost, Age, EngineAccept, EngineMoves
  <1>10. CASE UNCHANGED vars
    BY <1>10, SameRows DEF vars
  <1> QED
    BY <1>1, <1>2, <1>3, <1>4, <1>5, <1>6, <1>7, <1>8, <1>9, <1>10, SameRows
       DEF Next, Handler, Cancel, Worker, Reap, CleanupStaleRuns

\* The run table implements the ledger for the API, webhook and cron runs.
THEOREM TableImplementsLedger == Spec => ImplementsLedger
  <1>1. Init => Ledger!Init
    BY DEF Init, Ledger!Init, LedgerView, LedgerEntry
  <1> QED
    BY <1>1, Invariance, StepsRefine, PTL DEF Spec, ImplementsLedger, Ledger!Spec
=============================================================================
