---------------------------- MODULE WorkflowRun ----------------------------
(***************************************************************************)
(* The life of a workflow_run row.  A trigger invocation t (an API call, a *)
(* webhook delivery, a cron or polling tick, a retry request, a workflow   *)
(* that a published event is routed to) creates at most one row, so the    *)
(* row is named t too.  The row is written by                              *)
(*   - the handler of t: insert, dispatch, "running" or "failed";          *)
(*   - cancel requests, which read the status and write it later;          *)
(*   - the reaper and the internal cleanup route;                          *)
(*   - the deletion of the workflow, which cascades to its runs;           *)
(*   - the worker, outside this repository, which records the outcome.     *)
(* A handler is a chain of awaits, so every other writer may act between   *)
(* two of its steps, and its process may die there.                        *)
(***************************************************************************)
EXTENDS Naturals, FiniteSets

CONSTANTS
    Trigger,    \* trigger invocations, each the author of at most one run
    Kinds       \* the kinds of trigger that may occur

AllKinds == {"api", "webhook", "cron", "polling", "retry", "event"}

ASSUME KindsAssumption == Kinds \subseteq AllKinds

VARIABLES
    kind,            \* kind[t]: which handler serves t
    pc,              \* pc[t]: where that handler is
    status,          \* status[t]: the row's status, "none" before, "gone" after
    completedAt,     \* completedAt[t]: the row's completedAt is set
    old,             \* old[t]: startedAt lies an hour or more in the past
    engine,          \* engine[t]: what the execution engine has of run t
    billed,          \* billed[t]: usage recorded under the key run-<id>
    cancelling,      \* rows a cancel request has checked and not yet written
    workflowExists   \* the workflow row exists

vars == <<kind, pc, status, completedAt, old, engine, billed, cancelling,
          workflowExists>>

Unsettled == {"pending", "running"}
Terminal  == {"completed", "failed", "cancelled"}
Row       == Unsettled \cup Terminal

\* The engine has taken the run; "done" once the worker recorded its outcome.
Accepted == {"accepted", "done"}

\* Handlers that set "running" only on a row that is still pending.
Guarded == {"api", "webhook", "cron"}

\* Handlers whose catch block marks the run failed; the others only log, or
\* let the exception reach the HTTP layer (see NoExecutor for events).
Catching == {"api", "webhook"}

TypeOK ==
    /\ kind \in [Trigger -> AllKinds \cup {"none"}]
    /\ pc \in [Trigger -> {"idle", "accepted", "inserted", "awaiting",
                           "dispatched", "caught", "done"}]
    /\ status \in [Trigger -> Row \cup {"none", "gone"}]
    /\ completedAt \in [Trigger -> BOOLEAN]
    /\ old \in [Trigger -> BOOLEAN]
    /\ engine \in [Trigger -> Accepted \cup {"none", "requested"}]
    /\ billed \in [Trigger -> BOOLEAN]
    /\ cancelling \subseteq Trigger
    /\ workflowExists \in BOOLEAN

Init ==
    /\ kind = [t \in Trigger |-> "none"]
    /\ pc = [t \in Trigger |-> "idle"]
    /\ status = [t \in Trigger |-> "none"]
    /\ completedAt = [t \in Trigger |-> FALSE]
    /\ old = [t \in Trigger |-> FALSE]
    /\ engine = [t \in Trigger |-> "none"]
    /\ billed = [t \in Trigger |-> FALSE]
    /\ cancelling = {}
    /\ workflowExists = TRUE

-----------------------------------------------------------------------------
(***************************************************************************)
(* Writes to the row.  An UPDATE of a deleted row matches nothing.         *)
(***************************************************************************)
AfterThrow(t) == IF kind[t] \in Catching THEN "caught" ELSE "done"

\* UPDATE ... SET status = s, completedAt = now WHERE id = t
WriteTerminal(t, s) ==
    IF status[t] \in Row
      THEN /\ status' = [status EXCEPT ![t] = s]
           /\ completedAt' = [completedAt EXCEPT ![t] = TRUE]
      ELSE UNCHANGED <<status, completedAt>>

\* publishEvent's failed update leaves completedAt alone.
WriteFailed(t) ==
    IF kind[t] = "event" /\ status[t] \in Row
      THEN status' = [status EXCEPT ![t] = "failed"] /\ UNCHANGED completedAt
      ELSE WriteTerminal(t, "failed")

\* Mutants: the guard forgotten; a guard against one terminal status only.
UnguardedRunning(t) == status[t] \in Row
RunningUnlessCompleted(t) == status[t] \in Row \ {"completed"}

\* The rows each handler's "running" update matches.
RunningMatches(t) ==
    IF kind[t] \in Guarded THEN status[t] = "pending" ELSE status[t] \in Row

\* Only the API trigger restarts the clock of the run it sets running.
WriteRunning(t) ==
    IF RunningMatches(t)
      THEN /\ status' = [status EXCEPT ![t] = "running"]
           /\ old' = [old EXCEPT ![t] = @ /\ kind[t] # "api"]
      ELSE UNCHANGED <<status, old>>

-----------------------------------------------------------------------------
(***************************************************************************)
(* The trigger handlers.                                                   *)
(***************************************************************************)
\* The workflow was found and, for a retry, the original run is failed; the
\* execution limit allows one more.  A poller keeps the workflow it was
\* started with and does not look it up again.
Accept(t, k) ==
    /\ pc[t] = "idle"
    /\ k = "polling" \/ workflowExists
    /\ k = "retry" => \E r \in Trigger : status[r] = "failed"
    /\ kind' = [kind EXCEPT ![t] = k]
    /\ pc' = [pc EXCEPT ![t] = "accepted"]
    /\ UNCHANGED <<status, completedAt, old, engine, billed, cancelling,
                   workflowExists>>

\* Mutant: no foreign key on the run's workflow.
InsertUnchecked(t) ==
    /\ pc[t] = "accepted"
    /\ pc' = [pc EXCEPT ![t] = "inserted"]
    /\ status' = [status EXCEPT ![t] = "pending"]
    /\ UNCHANGED <<kind, completedAt, old, engine, billed, cancelling,
                   workflowExists>>

\* The insert of the pending row; its foreign key needs the workflow.
Insert(t) ==
    /\ pc[t] = "accepted"
    /\ workflowExists
    /\ pc' = [pc EXCEPT ![t] = "inserted"]
    /\ status' = [status EXCEPT ![t] = "pending"]
    /\ UNCHANGED <<kind, completedAt, old, engine, billed, cancelling,
                   workflowExists>>

\* dispatchWorkflow puts its request on the wire.
Dispatch(t) ==
    /\ pc[t] = "inserted"
    /\ pc' = [pc EXCEPT ![t] = "awaiting"]
    /\ engine' = [engine EXCEPT ![t] = "requested"]
    /\ UNCHANGED <<kind, status, completedAt, old, billed, cancelling,
                   workflowExists>>

\* Mutant: the dispatch is not awaited.
DispatchNotAwaited(t) ==
    /\ pc[t] = "awaiting"
    /\ pc' = [pc EXCEPT ![t] = "dispatched"]
    /\ UNCHANGED <<kind, status, completedAt, old, engine, billed, cancelling,
                   workflowExists>>

\* The call returned: the engine has accepted the run, however far it got.
DispatchReturned(t) ==
    /\ pc[t] = "awaiting"
    /\ engine[t] \in Accepted
    /\ pc' = [pc EXCEPT ![t] = "dispatched"]
    /\ UNCHANGED <<kind, status, completedAt, old, engine, billed, cancelling,
                   workflowExists>>

\* A step after the insert throws: an unknown executor, a relay error, the
\* 20 s abort of the relay call, the 30 s race of the API trigger, a database
\* error.  A request on the wire stays there and may still be accepted.
Throw(t) ==
    /\ pc[t] \in {"inserted", "awaiting", "dispatched"}
    /\ pc' = [pc EXCEPT ![t] = AfterThrow(t)]
    /\ UNCHANGED <<kind, status, completedAt, old, engine, billed, cancelling,
                   workflowExists>>

\* No executor takes the run of a published event: there is none, or Hatchet
\* refused (it may have the request all the same) and there is no Temporal.
NoExecutor(t) ==
    /\ kind[t] = "event"
    /\ pc[t] \in {"inserted", "awaiting"}
    /\ pc' = [pc EXCEPT ![t] = "caught"]
    /\ UNCHANGED <<kind, status, completedAt, old, engine, billed, cancelling,
                   workflowExists>>

\* The "running" update, then the usage record unless the update's answer
\* was lost and the handler throws.  The run of an event is not recorded.
MarkRunning(t) ==
    /\ pc[t] = "dispatched"
    /\ WriteRunning(t)
    /\ \/ /\ pc' = [pc EXCEPT ![t] = "done"]
          /\ billed' = [billed EXCEPT ![t] = kind[t] # "event"]
       \/ /\ pc' = [pc EXCEPT ![t] = AfterThrow(t)]
          /\ UNCHANGED billed
    /\ UNCHANGED <<kind, completedAt, engine, cancelling, workflowExists>>

\* The catch block of the API trigger and the webhooks, and publishEvent without
\* an executor: unconditional.
MarkFailed(t) ==
    /\ pc[t] = "caught"
    /\ WriteFailed(t)
    /\ pc' = [pc EXCEPT ![t] = "done"]
    /\ UNCHANGED <<kind, old, engine, billed, cancelling, workflowExists>>

\* The handler stops where it is: an insert that fails, a failed "failed"
\* update (logged), or the death of the process.
Abandon(t) ==
    /\ pc[t] \in {"accepted", "inserted", "awaiting", "dispatched", "caught"}
    /\ pc' = [pc EXCEPT ![t] = "done"]
    /\ UNCHANGED <<kind, status, completedAt, old, engine, billed, cancelling,
                   workflowExists>>

-----------------------------------------------------------------------------
(***************************************************************************)
(* Cancel: a read, then an unconditional write.                            *)
(***************************************************************************)
CancelCheck(t) ==
    /\ status[t] \in Unsettled
    /\ t \notin cancelling
    /\ cancelling' = cancelling \cup {t}
    /\ UNCHANGED <<kind, pc, status, completedAt, old, engine, billed,
                   workflowExists>>

CancelWrite(t) ==
    /\ t \in cancelling
    /\ WriteTerminal(t, "cancelled")
    /\ cancelling' = cancelling \ {t}
    /\ UNCHANGED <<kind, pc, old, engine, billed, workflowExists>>

\* The request dies between the two.
CancelLost(t) ==
    /\ t \in cancelling
    /\ cancelling' = cancelling \ {t}
    /\ UNCHANGED <<kind, pc, status, completedAt, old, engine, billed,
                   workflowExists>>

-----------------------------------------------------------------------------
(***************************************************************************)
(* Time, the reaper and the deletion of the workflow.                      *)
(***************************************************************************)
\* An hour passes since startedAt.
Age(t) ==
    /\ status[t] \in Unsettled
    /\ ~ old[t]
    /\ old' = [old EXCEPT ![t] = TRUE]
    /\ UNCHANGED <<kind, pc, status, completedAt, engine, billed, cancelling,
                   workflowExists>>

\* Mutants: no filter on the status; pending rows forgotten.
StaleAnyStatus == {t \in Trigger : status[t] \in Row /\ old[t]}
StaleRunningOnly == {t \in Trigger : status[t] = "running" /\ old[t]}

\* The rows the stale-run UPDATE matches.
Stale == {t \in Trigger : status[t] \in Unsettled /\ old[t]}

\* Mutant: a status the readers of the table do not know.
FailStaleAsTimeout ==
    /\ Stale # {}
    /\ status' = [t \in Trigger |-> IF t \in Stale THEN "timeout" ELSE status[t]]
    /\ completedAt' = [t \in Trigger |-> t \in Stale \/ completedAt[t]]
    /\ UNCHANGED <<kind, pc, old, engine, billed, cancelling, workflowExists>>

FailStale ==
    /\ Stale # {}
    /\ status' = [t \in Trigger |-> IF t \in Stale THEN "failed" ELSE status[t]]
    /\ completedAt' = [t \in Trigger |-> t \in Stale \/ completedAt[t]]
    /\ UNCHANGED <<kind, pc, old, engine, billed, cancelling, workflowExists>>

\* The background reaper and POST /internal/cleanup-stale-runs.
Reap == FailStale
CleanupStaleRuns == FailStale

DeleteWorkflow ==
    /\ workflowExists
    /\ workflowExists' = FALSE
    /\ status' = [t \in Trigger |-> IF status[t] \in Row THEN "gone" ELSE status[t]]
    /\ UNCHANGED <<kind, pc, completedAt, old, engine, billed, cancelling>>

-----------------------------------------------------------------------------
(***************************************************************************)
(* The engine and the worker, outside this repository.  A run the engine   *)
(* loses, or whose worker dies, is one for which WorkerFinish never comes. *)
(***************************************************************************)
EngineMoves(t, from, to) ==
    /\ engine[t] = from
    /\ engine' = [engine EXCEPT ![t] = to]
    /\ UNCHANGED <<kind, pc, old, billed, cancelling, workflowExists>>

EngineAccept(t) ==
    EngineMoves(t, "requested", "accepted") /\ UNCHANGED <<status, completedAt>>

\* The worker records the outcome.  Whether it respects a terminal status it
\* finds in the row is its own affair: both are possible.
WorkerFinish(t) ==
    /\ EngineMoves(t, "accepted", "done")
    /\ \/ \E s \in {"completed", "failed"} : WriteTerminal(t, s)
       \/ status[t] \in Terminal /\ UNCHANGED <<status, completedAt>>

-----------------------------------------------------------------------------
Handler(t) ==
    \/ \E k \in Kinds : Accept(t, k)
    \/ Insert(t)
    \/ Dispatch(t)
    \/ DispatchReturned(t)
    \/ Throw(t)
    \/ NoExecutor(t)
    \/ MarkRunning(t)
    \/ MarkFailed(t)
    \/ Abandon(t)

Cancel(t) == CancelCheck(t) \/ CancelWrite(t) \/ CancelLost(t)

Worker(t) == EngineAccept(t) \/ WorkerFinish(t)

Next ==
    \/ \E t \in Trigger : Handler(t) \/ Cancel(t) \/ Worker(t) \/ Age(t)
    \/ Reap
    \/ CleanupStaleRuns
    \/ DeleteWorkflow

Spec == Init /\ [][Next]_vars

\* Time passes and the reaper's timer keeps firing; nothing else is assumed:
\* handlers, cancel requests, the engine and the worker may all stop.
Fairness == WF_vars(Reap) /\ \A t \in Trigger : WF_vars(Age(t))

FairSpec == Spec /\ Fairness
-----------------------------------------------------------------------------
(***************************************************************************)
(* Properties.                                                             *)
(***************************************************************************)
\* A run shown as running, or billed as an execution, is one the engine has
\* taken: no handler reports a run its dispatch did not deliver.
AcceptedBeforeRunning ==
    \A t \in Trigger :
        (status[t] = "running" \/ billed[t]) => engine[t] \in Accepted

\* completedAt is what the run list and the statistics measure durations
\* with: a row has it exactly when its status is terminal.  Polling, retry and
\* event rows are left out, their handlers may set a finished row running again
\* (and publishEvent's failed rows have none).
CompletedAtMatchesStatus ==
    \A t \in Trigger :
        kind[t] \in Guarded /\ status[t] \in Row =>
            (completedAt[t] <=> status[t] \in Terminal)

\* The cascade leaves no run behind, also for the handlers that had looked
\* the workflow up before it was deleted.
NoOrphanRun == ~ workflowExists => \A t \in Trigger : status[t] \notin Row

\* Outside two windows the outcome the worker recorded stays in the row: a
\* completed run of a guarded handler changes only if that handler has caught
\* an exception of its dispatch, or if a cancel request had read the row while
\* the run was still unsettled.
KeepsOutcome(t) ==
    /\ kind[t] \in Guarded
    /\ status[t] = "completed"
    /\ pc[t] # "caught"
    /\ t \notin cancelling
    => status'[t] \in {"completed", "gone"}

OutcomesKept == \A t \in Trigger : KeepsOutcome(t)

OutcomeKept == [][OutcomesKept]_vars

\* The rows of the guarded handlers as RunLedger sees them.
LedgerEntry(t) ==
    IF kind[t] \notin Guarded \/ status[t] = "none" THEN "none"
    ELSE IF status[t] \in Unsettled THEN "open"
    ELSE IF status[t] \in Terminal THEN "settled"
    ELSE "gone"

LedgerView == [t \in Trigger |-> LedgerEntry(t)]

Ledger == INSTANCE RunLedger WITH Run <- Trigger, ledger <- LedgerView

\* Whatever the interleaving of handler, worker, cancel, reaper and deletion,
\* a run of an API, webhook or cron trigger opens once and is never open
\* again after it settled.
ImplementsLedger == Ledger!Spec

\* No run stays pending or running for ever, whoever died: the reaper settles
\* what nobody else does.
EventuallySettled ==
    \A t \in Trigger : status[t] \in Unsettled ~> status[t] \notin Unsettled

-----------------------------------------------------------------------------
(***************************************************************************)
(* Claims of the source that the code does not keep (expected violations). *)
(***************************************************************************)
\* "we must not overwrite a completed/failed terminal state", said where a
\* handler sets its run running.
NeverReopened ==
    [][\A t \in Trigger :
          status[t] \in Terminal => status'[t] \notin Unsettled]_vars

\* The same sentence, of the handler's other write: a run the worker has
\* completed is not turned into a failed one.
CompletedNeverFailed ==
    [][\A t \in Trigger :
          status[t] = "completed" => status'[t] # "failed"]_vars
=============================================================================
