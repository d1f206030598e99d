--------------------------- MODULE ExecutionQuota ---------------------------
(***************************************************************************)
(* The monthly execution allowance of one organization and everything that *)
(* starts executions: API triggers, webhooks, cron and polling ticks,      *)
(* retries, replays of dead letters, and published events.  All but the    *)
(* last ask isExecutionAllowed, which counts this month's runs of the      *)
(* organization's workflows, and insert their runs in a later step.  Runs  *)
(* enter and leave the count with their workflow, which a patch may move   *)
(* to another organization.  What becomes of a run is in module            *)
(* WorkflowRun; the runs of a replay are inserted by the worker.           *)
(***************************************************************************)
EXTENDS PlanLimits

CONSTANTS
    Workflow,     \* active workflows
    Home,         \* those that are the organization's at first
    Nowhere,      \* no workflow
    MaxRecords,   \* bound: records of an S3 notification, letters of a replay
    QuotaMix      \* the requests that are made

VARIABLES
    live,      \* the workflows that are not deleted
    here,      \* those of them that are the organization's
    runs,      \* the runs started this month: workflow, request and record
    qreq,      \* qreq[r]: request r
    ahead,     \* history: the most units others had admitted at a check
    beyond     \* history: the runs counted without a check of their own

quotaVars == <<live, here, runs, qreq, ahead, beyond>>

QuotaOp == {"none", "trigger", "webhook", "cron", "poll", "retry", "invoke",
            "replay", "replayAll", "s3", "cdc", "email", "publish", "move"}

\* A request: its workflow, the workflows it still has to serve, those that
\* were another organization's when it looked them up, the runs it makes of
\* each, those left of the one at hand, and whether no check stands behind them.
QuotaRequest ==
    [op : QuotaOp, wf : Workflow \cup {Nowhere}, hits : SUBSET Workflow,
     away : SUBSET Workflow, records : 1 .. MaxRecords, left : 0 .. MaxRecords,
     open : BOOLEAN, at : {"start", "check", "insert", "renew", "next", "done"}]

Run == Workflow \X Request \X (1 .. MaxRecords)

ASSUME QuotaAssumption ==
    /\ IsFiniteSet(Workflow) /\ Home \subseteq Workflow
    /\ Nowhere \notin Workflow
    /\ MaxRecords \in Nat \ {0}
    /\ QuotaMix \subseteq [Request -> QuotaRequest]
    /\ \A mix \in QuotaMix : \A r \in Request : mix[r].at \in {"start", "done"}

QuotaTypeOK ==
    /\ here \subseteq live /\ live \subseteq Workflow
    /\ runs \subseteq Run
    /\ qreq \in [Request -> QuotaRequest]
    /\ ahead \in Nat
    /\ beyond \in Nat

QuotaStart ==
    /\ live = Workflow
    /\ here = Home
    /\ runs = {}
    /\ ahead = 0
    /\ beyond = 0

QuotaInit == QuotaStart /\ qreq \in QuotaMix

-----------------------------------------------------------------------------
Asked(r, op) == qreq[r].at = "start" /\ qreq[r].op = op
Pass(r, step) == qreq' = [qreq EXCEPT ![r].at = step]
Counts == UNCHANGED <<live, here, runs, ahead, beyond>>

\* The runs that the count finds: it joins them to their workflows.
CountedRuns == {x \in runs : x[1] \in here}

\* A handler of one workflow looks it up, with its organization, and goes on to
\* the check.
Lookup(r, found) ==
    /\ qreq' = [qreq EXCEPT ![r].at = IF found THEN "check" ELSE "done",
                            ![r].away = (live \ here) \cap {qreq[r].wf}]
    /\ Counts

\* No credentials, a wrong secret, a workflow that is not active, a run that did
\* not fail, no new data.
RefuseExecution(r) == qreq[r].at = "start" /\ Pass(r, "done") /\ Counts

TriggerFinds(r) == Asked(r, "trigger") /\ Lookup(r, qreq[r].wf \in live)
WebhookFinds(r) == Asked(r, "webhook") /\ Lookup(r, qreq[r].wf \in live)
RetryFinds(r)   == Asked(r, "retry") /\ Lookup(r, qreq[r].wf \in live)
CronFinds(r)    == Asked(r, "cron") /\ Lookup(r, qreq[r].wf \in live)

\* A poll does not look its workflow up again, and a function, a dead letter or
\* a batch of them needs none.
PollFinds(r)    == Asked(r, "poll") /\ Lookup(r, TRUE)
InvokeFinds(r)  == Asked(r, "invoke") /\ Lookup(r, TRUE)
ReplayFinds(r)  == Asked(r, "replay") /\ Lookup(r, TRUE)
BulkFinds(r)    == Asked(r, "replayAll") /\ Lookup(r, TRUE)

\* A handler of all the workflows that match serves them one by one.
Match(r) ==
    /\ \E hits \in SUBSET live :
         qreq' = [qreq EXCEPT ![r].at = "next", ![r].hits = hits,
                              ![r].away = hits \ here]
    /\ Counts

S3Finds(r)      == Asked(r, "s3") /\ Match(r)
CdcFinds(r)     == Asked(r, "cdc") /\ Match(r)
EmailFinds(r)   == Asked(r, "email") /\ Match(r)

\* publishEvent takes the workflows of the rules that match the event's type.
PublishFinds(r) == Asked(r, "publish") /\ Match(r)

\* publishEvent asks no quota.
NextMatch(r) ==
    /\ qreq[r].at = "next"
    /\ \/ qreq[r].hits = {} /\ Pass(r, "done")
       \/ \E w \in qreq[r].hits :
            qreq' = [qreq EXCEPT
                       ![r].wf = w, ![r].hits = @ \ {w},
                       ![r].left = IF qreq[r].op = "publish" THEN 1 ELSE 0,
                       ![r].at = IF qreq[r].op = "publish" THEN "insert" ELSE "check"]
    /\ Counts

-----------------------------------------------------------------------------
(* isExecutionAllowed *)

\* What r asks for: a batch of letters as a whole, otherwise one, whatever the
\* number of records.
Additional(r) == IF qreq[r].op = "replayAll" THEN qreq[r].records ELSE 1

\* What r inserts once it may.
Units(r) == IF qreq[r].op \in {"replayAll", "s3"} THEN qreq[r].records ELSE 1

\* The runs r has a check for and still to insert.
Admitted(r) ==
    IF qreq[r].at # "insert" \/ qreq[r].open \/ qreq[r].op = "publish" THEN 0
    ELSE IF qreq[r].op # "s3" THEN qreq[r].left
    ELSE IF qreq[r].left = qreq[r].records THEN 1 ELSE 0

\* One element for each of these runs of the requests R.
Promised(R) == {u \in R \X (1 .. MaxRecords) : u[2] <= Admitted(u[1])}

\* After its last run of a workflow r goes on to the next, if it serves several.
Onward(r) == IF qreq[r].op \in {"s3", "cdc", "email", "publish"} THEN "next" ELSE "done"

\* The allowance of another organization is asked.
Foreign(r) == qreq[r].wf \in qreq[r].away

CheckQuota(r) ==
    /\ qreq[r].at = "check" /\ ~Foreign(r)
    /\ \E limit \in LimitRead :
         \/ /\ WithinAllowance(limit, Cardinality(CountedRuns), Additional(r))
            /\ LET others == Cardinality(Promised(Request \ {r}))
               IN  ahead' = IF ahead < others THEN others ELSE ahead
            /\ qreq' = [qreq EXCEPT
                 ![r].at = IF qreq[r].op = "invoke" THEN "done" ELSE "insert",
                 ![r].left = Units(r), ![r].open = FALSE]
         \/ /\ ~WithinAllowance(limit, Cardinality(CountedRuns), Additional(r))
            /\ Pass(r, Onward(r))
            /\ UNCHANGED ahead
    /\ UNCHANGED <<live, here, runs, beyond>>

Unchecked(r) ==
    qreq' = [qreq EXCEPT
         ![r].at = IF qreq[r].op = "invoke" THEN "done" ELSE "insert",
         ![r].left = Units(r), ![r].open = TRUE]

CheckElsewhere(r) ==
    /\ qreq[r].at = "check" /\ Foreign(r)
    /\ Unchecked(r) \/ Pass(r, Onward(r))
    /\ Counts

\* Neither limit nor count can be read: allowed.
CheckFailsOpen(r) == qreq[r].at = "check" /\ Unchecked(r) /\ Counts

-----------------------------------------------------------------------------
\* A replay's runs are those of whatever workflow the worker starts.
Target(r) ==
    IF qreq[r].op \in {"replay", "replayAll"} THEN live ELSE live \cap {qreq[r].wf}

\* An unchecked run that is counted is beyond.
AddRun(r, w) ==
    /\ runs' = runs \cup {<<w, r, qreq[r].left>>}
    /\ beyond' = beyond + IF Admitted(r) = 0 /\ w \in here THEN 1 ELSE 0

\* The run is inserted, unless that fails; its foreign key needs the workflow.
InsertRun(r) ==
    /\ qreq[r].at = "insert"
    /\ \E inserted \in BOOLEAN :
         /\ IF inserted THEN \E w \in Target(r) : AddRun(r, w)
            ELSE UNCHANGED <<runs, beyond>>
         /\ qreq' = [qreq EXCEPT
              ![r].left = @ - 1,
              ![r].at = IF qreq[r].left > 1 THEN @
                        ELSE IF inserted /\ qreq[r].op = "trigger" THEN "renew"
                        ELSE Onward(r)]
    /\ UNCHANGED <<live, here, ahead>>

\* An API trigger starts its run again, now, when it marks it running: it may
\* come into the count of a month after the one it was inserted in.
RenewRun(r) ==
    /\ qreq[r].at = "renew"
    /\ Pass(r, "done")
    /\ \/ LET x == <<qreq[r].wf, r, 1>>
          IN  /\ x[1] \in live
              /\ runs' = runs \cup {x}
              /\ beyond' = beyond + IF x \notin runs /\ x[1] \in here THEN 1 ELSE 0
       \/ UNCHANGED <<runs, beyond>>
    /\ UNCHANGED <<live, here, ahead>>

\* updateWorkflow gives a workflow to another organization, or takes it from
\* there; its runs change sides with it.
MoveWorkflow(r) ==
    /\ Asked(r, "move")
    /\ Pass(r, "done")
    /\ \/ /\ qreq[r].wf \in here
          /\ here' = here \ {qreq[r].wf}
          /\ UNCHANGED beyond
       \/ /\ qreq[r].wf \in live \ here
          /\ here' = here \cup {qreq[r].wf}
          /\ beyond' = beyond + Cardinality({x \in runs : x[1] = qreq[r].wf})
    /\ UNCHANGED <<live, runs, ahead>>

\* A deleted workflow takes its runs along.
DeleteCounted(w) ==
    /\ w \in live
    /\ live' = live \ {w} /\ here' = here \ {w}
    /\ runs' = {x \in runs : x[1] # w}
    /\ UNCHANGED <<qreq, ahead, beyond>>

\* A month begins: no run was started in it yet.
NewMonth ==
    /\ runs # {}
    /\ runs' = {}
    /\ UNCHANGED <<live, here, qreq, ahead, beyond>>

ServeExecution(r) ==
    \/ RefuseExecution(r)
    \/ TriggerFinds(r) \/ WebhookFinds(r) \/ RetryFinds(r) \/ CronFinds(r)
    \/ PollFinds(r) \/ InvokeFinds(r) \/ ReplayFinds(r) \/ BulkFinds(r)
    \/ S3Finds(r) \/ CdcFinds(r) \/ EmailFinds(r) \/ PublishFinds(r)
    \/ NextMatch(r) \/ CheckQuota(r) \/ CheckElsewhere(r) \/ CheckFailsOpen(r)
    \/ InsertRun(r) \/ RenewRun(r) \/ MoveWorkflow(r)

QuotaNext ==
    \/ NewMonth
    \/ \E w \in Workflow : DeleteCounted(w)
    \/ \E r \in Request : ServeExecution(r)

QuotaSpec == QuotaInit /\ [][QuotaNext]_quotaVars

-----------------------------------------------------------------------------
(* The runs that are counted exceed the allowance by no more than what other
   requests had admitted and not yet inserted at some check, and the runs no
   check of this month and organization stands behind: those of published
   events, of the further records of an S3 notification, of a check that failed
   open or asked for another organization, those that come with a workflow, and
   those that an API trigger carries over from the month before.  In particular
   a replay's batch fits as a whole, and requests that do not overlap keep to
   the allowance exactly.  (A workflow that is deleted or moves away takes its
   runs out of the count: its executions come on top.)                      *)
QuotaHeld ==
    \A m \in LimitRead :
        Bounding(m) => Cardinality(CountedRuns) <= m + ahead + beyond
=============================================================================
