# Vortex API: TLA+ models, model checking and proofs

Vortex API is the server of a workflow automation product: an Elysia REST API
and a PostGraphile GraphQL API over PostgreSQL, with a Valkey cache for locks
and cached decisions, background schedulers in every instance of the process, an
execution engine (Hatchet or Temporal) that runs the workflows, and external
services for events (Iggy), authorization (Warden, an OpenFGA store), billing
(Aether) and identity (Gatekeeper).  Paths below are relative to the root of the
repository; its TypeScript lies in `src/`, so in PROJECT.json the same files are
named `src/src/...`.

Everything that is hard in this server is concurrency between handlers that are
chains of awaits: no handler uses a database transaction or a row lock across
its steps, several instances of the process share database and cache, and a
process may die between any two steps.  The models interleave those steps.

## Inventory

For each component: the state it keeps, its operations, whom it talks to, and
what makes it correct.  *Hard* names the behaviours a test hardly reaches.

**Workflow run lifecycle** (`src/api.ts`, `src/webhooks.ts`, `src/lib/triggers/*.ts`,
`src/routes/runs.ts`, `src/routes/internal.ts`,
`src/lib/graphql/plugins/publishEvent.plugin.ts`).  State: the `workflow_run` table.
Operations: eight kinds of trigger endpoint, the cron and polling schedulers, the retry route
and `publishEvent` insert a pending row, dispatch it and mark it running or failed; cancel; the
reaper and the cleanup route fail what is an hour old; deleting a workflow cascades; the worker
writes the outcome from outside.  Hard: the worker may be faster than the handler; a dispatch
that timed out may still be executed; cancel reads and then writes.  Correct when a run opens
once, settles once, always settles, and keeps its outcome.

**Dispatch** (`src/lib/dispatch.ts`, `src/lib/hatchet/client.ts`).  No state; one
request to the chosen executor, with a 20 s abort.  Hard: an abort does not recall
the request.

**Cron scheduler** (`src/lib/triggers/cron.ts`).  State per process:
`lastCheckTime` and a timer; shared: a lock per workflow.  Hard: ticks are not
awaited, so they overlap; locks expire under their holder; instances do not share
`lastCheckTime`.  Correct when no occurrence is skipped in silence, or started
twice.

**Cache locks** (`src/lib/cache/locks.ts`).  State: keys with a token and a time
to live.  Operations: `SET NX EX`, compare-and-delete.  Hard: expiry, lost answers.

**Polling scheduler** (`src/lib/triggers/polling.ts`).  State: a timer per workflow
in the process, the last content hash in the cache, a scan lock.  Hard: the hash is
stored before the run exists; timers hold a snapshot of the workflow.

**Execution quota** (`src/lib/entitlements/*`).  State: cached entitlements; the
count of runs of the month.  Operations: twelve ways to start an execution, all but one
of which ask `isExecutionAllowed`.  Hard: check, then insert, by concurrent handlers; an
error of the check allows the run; what is checked is not always what is inserted; runs
enter and leave the count with their workflow and with the `startedAt` that one handler renews.
Correct when the month exceeds its allowance by no more than the overlap explains.

**Warden authorization sync** (`src/lib/idp/webhooks.ts`, `src/lib/warden/*`).
State: local memberships, the queue of pending tuple writes, the tuples in Warden,
cached decisions.  Operations: identity webhooks that change memberships and write
tuples at once or queue them, the sync poller that retries them, the reconciler
that adds what is missing, the permission check and its cache.  Hard: queued writes
applied out of order, reconciler against removal, stale cached decisions.  Correct when
Warden ends up with the tuple of every row and no other, and nobody is locked out for good.

**Access control** (`src/lib/auth/*`, `src/lib/warden/authorize.ts`, `cache.ts`,
`workflowGrant.ts`, `src/routes/permissions.ts`).  State: decisions cached for 60 s, the
grants on a workflow.  Operations: authenticate in four ways, decide, give and take grants.
Hard: the answer of Warden is older than its entry in the cache; the roster changes
between the lookups of a route.  Correct when no decision outlives its time, and grants
are given by those who may to those who are there.

**Dead letter queue** (`src/routes/dlq.ts`).  State: the dead letters of an
organization.  Operations: replay (publish, then mark), discard, both in bulk.
Hard: two replays of one letter; a crash between publish and mark; a send whose answer is
lost.  Correct when a letter
goes out once, and is not resolved without.

**Workflow versions** (`src/lib/workflows/versioning.ts`,
`src/routes/versions.ts`, the GraphQL update wrapper).  State: numbered snapshots.
Hard: the next number is read before it is inserted; revert is several writes.  Correct
when numbers have no gap or duplicate, and a change forgets no definition.

**OAuth connections** (`src/lib/oauth/*`).  State: one-time states, stored tokens.  Operations:
authorize, callback, refresh, disconnect, and the GraphQL mutations of integrations, which may
write any status.  Hard: a state found by two callbacks, refresh against disconnect; every
operation writes several tables.  Correct when what says it is connected has a token, and the
token stored is the one in force.

**Events** (`src/lib/events/*`, ingest and replay in `src/api.ts`).  Publishing to
Iggy, with topic creation on first use, and a log written behind it.  **Event log
retention** (`src/lib/retention`): a batched delete under a lock.  Hard: the log is not
awaited, replays of the log write it again, the sweep runs beside both.

**SSE stream** of a run (`src/routes/runs.ts`): a bounded number of connections, checked
several awaits before they are counted.  Hard: five things may end a stream, in any order.
Correct when every stream gives its slot back, once.

**Workflow CRUD, schemas, subscriptions, functions, GraphQL** (`src/api.ts`,
`src/routes/*`, `src/lib/graphql`): rows behind authorization and a plan limit, each found,
counted and written in different steps; a GraphQL patch may move one to another organization,
whose limit it does not ask.  **Plugins and marketplace**
(`src/routes/plugins.ts`, `marketplace.ts`): rows that share objects in a bucket.
**Members, statistics**: reads.  **Internal routes**: key-value
state for workers, catalog sync, cleanup.  **Authentication**, **billing client**,
**connectors, storage, encryption**: stateless or pure I/O.  **Boot and shutdown**
(`src/server.ts`): starts the schedulers; shutdown waits for no tick or handler.

PROJECT.json lists each of these with its status, and the hazards with their lines.

## Plan

The order is that of the damage a fault would do.

1. `WorkflowRun` over the abstract `RunLedger` (done, proved).
2. `CacheLock`, `CronScheduler` (done, safety proved).
3. `WardenSync` (done, safety proved): webhook handlers, queue, pollers, reconciler,
   repair, logins.
4. `SweepLock` over `CacheLock` (done, safety proved): the jobs that one process at a
   time does.
5. `PlanLimits`, `WorkflowStore`, `ResourceStore`, `PluginRegistry`, `ExecutionQuota` (done,
   proved): what an organization stores and starts.
6. `AccessControl`, `OAuthConnection` (done, proved).
7. `EventReplay`, `PollingScan` (done, proved), `RunStream` (done, safety proved).
8. The compositions `ControlPlane` (5 and 6) and `EventPlane` (4 and 7) (done: composition
   and safety proved).

Every invariant and action property that a passing run checks is now a theorem as well.
Left: to state what the locks promise as a specification of its own, with `CacheLock` shown to
implement it where it is used, and theorems that show how far each of the excuses in the
properties (`slipped`, `excused`, `strained`, ...) reaches.

## WorkflowRun

One row of `workflow_run` per trigger invocation `t`, named by it.

| code | model |
| --- | --- |
| lookup and quota check of a handler | `Accept(t, k)`, `k` the kind of trigger |
| `insert(workflowRunTable)`, with the foreign key | `Insert(t)` |
| `dispatchWorkflow`, its return, any exception after the insert | `Dispatch`, `DispatchReturned`, `Throw` |
| "running" update and usage record | `MarkRunning` |
| catch block of API and webhook handlers | `MarkFailed` |
| `publishEvent`: neither Hatchet nor Temporal takes the run | `NoExecutor`, then `MarkFailed` |
| process death, failing insert, failing catch block | `Abandon` |
| `POST /runs/:runId/cancel`: read, write | `CancelCheck`, `CancelWrite`, `CancelLost` |
| stale-run update of reaper and cleanup route | `Reap`, `CleanupStaleRuns`, `Age` is the hour |
| REST and GraphQL workflow deletion | `DeleteWorkflow` |
| engine and worker (outside the repository) | `EngineAccept`, `WorkerFinish` |

The six kinds differ in these respects, all in the model: whether "running" is
written only over "pending" (`Guarded`: api, webhook, cron), whether an exception
marks the run failed (`Catching`: api, webhook), whether `startedAt` is renewed (api), and what
`publishEvent` ("event") does: it turns to Temporal when Hatchet refuses, which may have the
request all the same, marks the run failed *without* `completedAt` when nobody takes it
(`WriteFailed`), sets it running whatever its status, and records no usage.  A poller does
not look its workflow up again.  The worker is not in the
repository, so it may overwrite a terminal status or leave it: both are allowed.

`RunLedger` is what readers of the table rely on: a run is opened, then settled,
then perhaps gone, each once.  `LedgerView` maps each guarded run to it.

Checked by `run_lifecycle` (two invocations, all kinds):

- `AcceptedBeforeRunning`: nothing is shown running or billed that the engine did
  not take.
- `CompletedAtMatchesStatus`, `NoOrphanRun`: rows are coherent, with the cascade
  racing handlers that looked the workflow up before.  The first covers the guarded kinds only:
  pollers, retries and published events may set a finished row running again, and the failed
  rows of published events (publishEvent.plugin.ts:317-320) have no `completedAt`.
- `OutcomeKept`: a completed run of a guarded handler stays completed except in two
  windows, which the property names: its handler has caught an exception, or a cancel
  request had already read it as unsettled.
- `ImplementsLedger`: the refinement.
- `EventuallySettled`: no run is pending or running for ever.

Two invocations suffice for the first safety properties because the handlers of two runs
meet only in the workflow row, the stale-run update and the retry route, which needs
another failed run; all three meet with two.

Fairness: weak fairness of the reaper's update, whose interval timer keeps firing in
any live instance, and of the passing of an hour.  Nothing is assumed of handlers,
engine or worker, so `EventuallySettled` covers all of them dying.  It does assume
that some instance of the process lives and that the reaper's cache lock and update do
not fail for ever.

Two claims of the source fail, each with a run that expects it: `run_reopened`
(a poller, like a retry or a published event, sets a finished run running again) and `run_overwritten` (the API
trigger gives up waiting, and then marks a completed run failed).  PROJECT.json
quotes them under "findings".

## CacheLock and CronScheduler

`CacheLock` keeps, per key, a token and the time left.  Tokens are random, so a token is
represented by who still knows it: a holder, or `Unknown` when the answer to the SET
was lost or the holder died.  It is a library of actions over one variable, which
`CronScheduler` instantiates with workflows as keys and ticks as holders.

| code | model |
| --- | --- |
| `setInterval(checkCronWorkflows, CHECK_INTERVAL_MS)` | `Fire(a)`, also while an older tick runs |
| the query, failing or not | `Fetch`, `FetchFails` |
| loop step, `shouldTrigger` with the live `lastCheckTime` | `Check(a, w)` |
| `acquireWorkflowCronLock` | `Acquire`, `AcquireFails` |
| `triggerWorkflow` | `Trigger`, `TriggerFails` |
| `releaseWorkflowCronLock` in the finally block | `Release` |
| `lastCheckTime = now` | `Finish`, and the end of `FetchFails` |
| death or shutdown, and boot | `Restart(i)` |
| time: interval timer, lock expiry | `Advance` |

`cron_scheduler` has an instance with up to two ticks in flight and a second instance
with one, a workflow that fires every minute, and a unit of 30 s: the interval of 60 s is 2 and the
lock's 90 s are 3, so the proportions are those of the code.  With `MaxClock` 4 there is
room for three ticks of an instance, for an overlap, and for a lock to expire under a holder and be
taken by another tick, whose lock the late release must not delete.

- `NoConcurrentTrigger`: two ticks work on one workflow only if one overran its lock.
- `EveryOccurrenceAccounted`: `lastCheckTime` passes no occurrence for which the
  instance did not start a run or have a reason not to (failed query, held lock, refused
  trigger, restart), although an older tick may set it back.
- `OncePerInstance`: an instance whose ticks never overlapped starts no occurrence twice.

`cron_duplicate` expects a violation: the comment that the lock prevents duplicate
triggers in multi-instance deployments does not hold, since the lock is released when
the trigger is done and the other instance's `lastCheckTime` knows nothing of it.

`again`, `accounted`, `started` and `overlapped` are history variables: no guard reads
them.

## WardenSync

Three copies of a membership: the identity provider's (`idp`, outside the
repository), the row in `user_organization` (`member`), and the tuple in Warden
(`tuples`), which alone decides about access.

| code | model |
| --- | --- |
| identity provider changes a membership, webhook on its way | `IdpChanges(e)`: any order of arrival, or never |
| user not found, member limit | `Skip(e)` |
| `handleOrganizationCreated`, `handleOrganizationDeleted`, `handleMemberAdded` | `OrganizationCreated`, `OrganizationDeleted`, `MemberAdded`, then `Grant` |
| `handleMemberRemoved`: lookup, delete, revoke | `MemberRemoved`, `DeleteRows`, `Revoke` |
| `handleMemberRoleChanged`: update, revoke, previous owner, grant or transfer | `MemberRoleChanged`, `Revoke`, `LookupOwner`, `Grant`, `Demote` |
| `syncWardenBestEffort`, catch block of the transfer | `Call`: done; failed, executed or not, and queued; or not even queued |
| `processSyncQueue`: fetch, one item, outer catch or death | `PollStart`, `Retry`, `PollAbort` |
| `reconcileMembershipTuples`: rows, tuples, writes | `buildExpectedTuples`, `fetchActualTuples`, `WriteMissing` |
| `POST /authz/reconcile` and the script: rows, drift, batches | `RouteRepair`, `ScriptRepair` |
| login, with the claims of an access token | `Login(u, claims)` |

`Item` names a queue row by the webhook and the call it comes from.  A poller may
fetch any items that are pending, which covers the backoff, the batch limit and the missing
order.  The sync lock is left out: it may expire under its holder, so the number of
ticks at once is the bound `Poller` instead.  "pending" and "retrying" are one status, as no
query tells them apart.  One reconciler pass is at work at once: several instances add
from the same rows.  A transfer of ownership is two calls, the new owner's grant and the old
one's demotion, and is queued as both when either fails.  A repair may also delete what has
no row; when it cannot read the tuples the script writes all that it expects.  The tuple that `handleOrganizationDeleted` revokes names the owner by
the local id, which no tuple has; so no tuple is removed, in the code as in the model.

- `SyncedWhenSettled` (`warden_sync`): when nobody is at work on a membership and
  nothing is queued for it, Warden has the tuple of its row and no other.  The code does not
  achieve that for every membership, and `excused` collects, each at the step where it
  happens, those it does not: two changes of one membership at once (queue or
  reconciler may then restore what the later one revoked), a call given up after
  `maxAttempts` or not queued, a row that was not the one the webhook starts from, and rows or
  tuples changed alone by a login, an organization's creation or deletion, a transfer of
  ownership, or a webhook about another organization.  A repair at work counts as one more that
  changes the membership.  What remains is every
  single change, with its failed calls retried in any order, by handlers and pollers that die.
- `NeverLockedOut` (`warden_lockout`): the promise of the queue table's comment.  A
  membership whose row lasts has its tuple again and again, whatever is lost.
- `OnlyGranted` (`warden_grants`, a violation): the reconciler "can only ever restore
  access", but a role change in one organization rewrites the user's rows in all, and the
  reconciler grants the role there.

Two users, one of them the owner, allow every webhook and a transfer.  `warden_sync`
sends two webhooks about one organization and lets one fault happen (`MaxFaults`: a
failed call, a death, an aborted tick, a login or a repair) besides any number of failing retries and
reconciler passes; two webhooks are what it takes for changes to overlap, and for an organization to
be created.  `warden_lockout` sends one webhook and allows two faults.
`warden_grants` needs a second organization.  `MaxAttempts` is 2 instead of 10: one
retry that is repeated and one that is the last.

Fairness, for `NeverLockedOut` alone: the reconciler's timer keeps firing (weak), and of
the passes that could be completed, some is (strong): its reads and writes do not fail
for ever.  Handlers, pollers and webhooks have none.

`idp` and `granted` are read by no handler; `granted` and `excused` are history.

## SweepLock

The reaper, the retention sweep and the sync poller run on a timer in every instance; a
key per job lets one tick work.  What a job does to the tables is in `WorkflowRun`,
`EventReplay` and `WardenSync`; here it takes as long as it pleases.

| code | model |
| --- | --- |
| `setInterval` of each job, its first check at start | `FireSweep(t)`, also while the last tick runs |
| `acquireReaperLock` and its two siblings | `TakeKey`: set, taken, or failed with or without effect |
| the work, its finally block | `EndWork`, `GiveKey` |
| shutdown, death, boot | `Reboot(h)` |
| expiry | `TimePasses` |

- `SweepsApart`: two ticks of a job are at work at once only if one outlived its key.  The
  reaper's 300 s are also its interval, so this does happen to a slow one.
- `SweepsGoOn`: no crash, lost answer or failed release stops a job for good.

Two instances with two ticks in flight each (`Overlap`), a key that lives two units, and two
failures (`MaxTroubles`): a key can expire, be taken by the other instance, and be released
late by the first.  Fairness is weak: time passes, and of all intervals and calls of the
cache some go on.  The work has none; it may hang.

## ControlPlane

What an organization configures, in six parts over one plan.  Every request is a record in
a variable of its part (`wreq`, `rreq`, ...): what it asks for, its place (`at`), and what it
read.  Each step is one access to a table or service, uses what the request read *before*, and
may find the tables changed.  The mix of requests is a constant (`WorkflowMix`, ...), so the
proofs hold for any.  A step that refuses or fails is always possible.

`PlanLimits` holds what the parts share: the comparison with a plan limit.  The entitlements
and their cache belong to the billing provider's client; two requests may read different
limits within a minute, so a read is any member of `LimitRead`.  Properties are stated for
every `m` that bounds them.

The parts share no variable, and `ControlPlane` runs one of them at a time with two to four
requests at once.  (The product of idle parts would add states and no behaviour: a workflow's
deletion, the one event that two parts see, is an action of both.)

**WorkflowStore** (`src/api.ts`, `routes/versions.ts`, `lib/workflows/versioning.ts`,
`graphql/.../Workflow.plugin.ts`).

| code | model |
| --- | --- |
| GraphQL create, `PUT /workflows/:name`, clone | `CreateStarts`, `PutFinds`, `CloneReads`, then `CheckWorkflowLimit`, `InsertWorkflow` |
| upsert of a workflow that exists | `PutOverwrites` |
| GraphQL update: row, snapshot, write, to another organization too | `UpdateReads`, `ReadTop`, `SaveSnapshot` or `LoseSnapshot`, `UpdateWrites` (`Patched`) |
| revert: number, version, limit, write, snapshot | `RevertReads`, `RevertFetches`, `RevertAffords`, `RevertWrites`, then as above |
| deletion, by REST or GraphQL | `DeleteReads`, `DeleteRemoves` |

- `VersionsDense`: versions are numbered 1, 2, 3, ... although each number comes from an
  earlier read; the unique index refuses the second of two.
- `WorkflowLimitHeld`: creations that do not overlap keep to the limit; overlapping ones
  exceed it by no more than their number less one (`wpeak`, a history variable).  A patch may name
  another organization, which `Workflow.plugin.ts` does not compare with its limit, so the
  organization itself may exceed its plan by any number.  The property bounds the rows that came
  by a creation (`metered`, a history field of the row), while others move in, out and back.
- `UpdatesRemember`: a GraphQL update forgets a definition only if somebody replaced the one
  it had read, or its snapshot failed.
- `RevertNonDestructive` (`revert_destroys`, a violation): the route's comment says revert
  loses nothing, but what it overwrites is in a version only by chance.

Five workflow ids: one that exists, one of another organization, and one for each of three
creations.

**ResourceStore** (`routes/functions.ts`, `subscriptions.ts`, `POST /schemas`, the GraphQL
plugins).  Six kinds of rows with one life: found, counted against the plan, inserted under a
unique index (the routing rules have none), changed, deleted.  A GraphQL patch may change a
row's name, a schema's version, a subscription's secret and the organization (`Amended`); the
OAuth callback inserts a server and an integration and asks no limit (`OauthInserts`).

- `ResourceLimitHeld`: as above, per kind and organization, for rows created under a check.
- `SecretKnown`: the HMAC secret of a subscription, and the one a test delivery signs with
  while an upsert replaces it, was shown to the subscriber or came from him.
- `SchemaPreceded`: version n of a schema is registered only after version n - 1 existed;
  the query names no organization, so it may have been another's.

**PluginRegistry** (`routes/plugins.ts`, `marketplace.ts`).  Rows name objects in a bucket;
an install copies the address that the publisher gave.

- `PluginLimitHeld`: for what is created or installed; an upload checks no limit, nor does
  `updatePlugin`, which may give a plugin to another organization.
- `FileLostByDeletion`: a row lacks its object only if another plugin with the same file was
  removed, which takes the object along (`CutObject`) whoever else names it, or a client made the
  address up (`Claimed`): GraphQL creations and updates and the publication of an entry take
  any.  What remains is the upload, whose object may also be stored though the call failed, and
  the install, which copies an address that may die in between.

**ExecutionQuota** (`lib/entitlements/enforce.ts`, with `api.ts`, `webhooks.ts`, `routes/*`,
`triggers/*`).  Twelve ways to start executions.  Several check once and insert more
(`s3`, one check for all its records), `publish` checks nothing, and an error of the check
allows (`CheckFailsOpen`).  The count is that of the code (`CountedRuns`): runs started this month
of workflows that are the organization's *now* (`here`).  So runs change sides with a workflow that
is moved (`MoveWorkflow`); a handler asks the allowance of the organization it found the workflow in
(`CheckElsewhere`), which may not be the one whose count the run enters; and a run that an API trigger inserted before
the month's turn comes into the new count when it is marked running (`RenewRun`, api.ts:160).

- `QuotaHeld`: the month's runs exceed the allowance by no more than what others had admitted
  and not inserted at some check (`ahead`), plus the runs in the count without a check of this
  month and organization (`beyond`): unchecked ones, renewed ones, and those that moved in.  In
  particular a bulk replay fits as a whole.  The runs of a workflow that is deleted or moved
  away leave the count (enforce.ts:264), so that the executions made really may exceed it.

Each way meets an API trigger, those with several runs or no check also a handler of all matching
workflows, and API triggers and such a handler meet a move of either workflow, with allowances of 1
and 2, up to two records, one workflow at home and one elsewhere, and any number of turns of the month.

**AccessControl** (`lib/auth/*`, `lib/warden/authorize.ts`, `cache.ts`, `workflowGrant.ts`,
`routes/permissions.ts`).

| code | model |
| --- | --- |
| session, API key, service key, access token | `Authenticate`, `Unauthorized` |
| `getCachedPermission`, Warden, `setCachedPermission` | `CacheHit`, `CacheMiss`, `WardenAnswers` or `WardenFails`, `StoreDecision` |
| `canMutateWorkflow`, `hasWorkflowGrant` | `AfterDecision`, `HasWorkflowGrant` |
| `POST` and `DELETE .../permissions` | `FindCaller`, `RankCaller`, `FindTarget`, `WriteGrant`, `RevokeGrant` |
| time; Warden's tuples; the roster (`WardenSync`) | `Tick`, `WardenChanges`, `RosterChanges` |

- `DecisionsExpire`: whatever a request was told, yes or no, Warden said at most `CacheTtl`
  ticks before, plus the time its answer took into the cache (`late`): the entry's minute
  begins when it is stored.  Nothing invalidates an entry (`invalidatePermissionCache` has
  no caller), so this is all a removed member can count on.
- `GrantsBacked`: whoever holds a grant has been in the organization, in which somebody ruled.
  Grants do not follow the roster; that they are taken back is not promised.
- `AdminsManage` (`admins_manage`, a violation): both permission routes look for the session's
  local user id in the column of provider identities; an admin with a session gets 403.

Two people, one change of role and two ticks over a life of one: an entry may be filled late,
used at its last tick, and expire.

**OAuthConnection** (`lib/oauth/*`, the GraphQL mutations of integrations and servers).

| code | model |
| --- | --- |
| `createOAuthState`, its ten minutes, the clean-up | `Authorize`, `ExpireState`, `CleanupExpiredStates` |
| callback: state, code, server, integration, `storeTokens` | `FindState`, `ConsumeState`, `ExchangeCode`, `InsertServer`, `InsertIntegration`, `InsertToken`, `MarkConnected` |
| disconnect, `revokeToken` | `FindConnection`, `FindToken`, `RevokeToken`, `DropToken`, `MarkManual` |
| `refreshAccessToken` | `ReadToken`, `PostRefresh`, `UpdateToken`, `MarkExpired` |
| GraphQL creation and patch of an integration, with any method and status | `DeclareIntegration`, `PatchIntegration` |
| deletions that cascade | `DeleteIntegration`, `DeleteServer` |

The provider takes a code once; it may hand out a new refresh token and may go on accepting
the older one, and its answers may be lost.  It may refuse a code with a status of 200, as GitHub
does: `exchangeCodeForTokens` looks at the status only, so the callback goes on, inserts server and
integration, and fails where it encrypts the token it does not have (`InsertToken`).

- `ConnectedHasToken`: an integration that says it is connected has its token once nothing is
  under way, unless a client declared the status (`declared`, a history field, until the code writes
  the next one), a callback or disconnect broke off between two writes (`botched`) or a
  disconnect came between a callback's (`crossed`).
- `LatestTokenKept`: the stored refresh token is the provider's latest, unless its answer or
  the update was lost or two refreshes overlapped (`strained`).  `refreshAccessToken` is exported
  and has no caller in the server yet, so this is about the function.

Four requests about one service, with two states: an authorization and its callback beside
two others, and two connections one after the other; three of them where one is a GraphQL creation
or patch.

## EventPlane

What flows through, composed in the same way out of `EventReplay`, `PollingScan`, `RunStream`
and `SweepLock`.

**EventReplay** (`routes/dlq.ts`, `lib/events/client.ts`, `lib/retention`, ingest and replay in
`api.ts`).

| code | model |
| --- | --- |
| `POST /dlq/:id/replay`, `/dlq/replay` | `ReplayLetter`, `ReplayLetters`, `AffordBatch`, per letter `SendEvent`, `MarkLetter` |
| discard, bulk discard | `DiscardLetter`, `DropLetter`, `DiscardLetters` |
| `EventsClient.publish`: topic, message, log | `FindTopic`, `CreateTopic`, `SendEvent`, `WriteLog` |
| `POST /events`, `/events/replay` | `Ingest`, `ReplayLog` |
| `sweepEventLog`, batch by batch | `StartSweep`, `DeleteBatch`, `SweepFails` |
| the clock, the process's death | `NextDay`, `Crash` |

- `ReplayedOnce`: a letter goes out twice only if two replays had it in hand at once, or the
  answer of its send or its mark was lost (`slipped`): `message.send` may throw after the stream
  took the message, and both routes then leave the letter open.
- `ResolvedWasSent`: a letter resolved or billed was sent, or somebody discarded it.
- `LoggedWasSent`: no replay can send what was never sent, although replays log again.
- `SweptClean`: a sweep that ended by itself leaves nothing that was due at its start.

Two letters and one event, batches of one row and at most two of them, so that a sweep ends in
all three ways: short, exhausted, failed.  Three days: a row is due, a day older, or new.

**PollingScan** (`lib/triggers/polling.ts`).  The scan's lock is never released; a running
poller keeps the snapshot it was started with (polling.ts:305), through edits and disabling on
another instance.

- `TriggeredOnce`: by hash, an endpoint triggers its workflow at most once each time it comes to
  an answer (`turns`); by field, an answer triggers once and for all; on however many instances and
  however often it is polled, unless the answer was in flight together with another
  (`mixed`).  By hash the cache remembers the last answer only, so an endpoint that answers A, B
  and A again triggers A twice, as the code has it (polling.ts:109-117).  That a trigger is lost
  when the insert fails after the hash is stored is the order of the code (`StoreSeen` before
  `TriggerPolled`) and no property of it.

One workflow and one instance, which may stop and start, with three polls that overlap in every
way, two answers, and two changes: of the answer, there and back, or of the workflow, between
the two deduplications.  Pollers of several instances meet in the cache only, where they are
polls like these; the theorem is about any number of instances.

**RunStream** (`GET /runs/:runId/stream`).

- `SlotsExact`: the counter is the number of open streams, whatever ends a stream and
  whatever still comes after.
- `SlotsHeld`: there are more streams than the maximum only by those that passed the check
  together.
- `SlotsReturned`: every stream gives its slot back.

`SlotsReturned` needs that the ten-minute timer fires (weak fairness of `StreamTimeout` per
request: a timer of the runtime).  It is the only thing that ends every stream: the
response has no cancel handler, so a client that goes away ends nothing.  Three requests for
one slot.

## Findings

Each is a run that ends in a counterexample, quoted in PROJECT.json with the line it
contradicts: `run_reopened`, `run_overwritten`, `cron_duplicate`, `warden_grants`,
`revert_destroys`, `admins_manage`, all described above.

## What is proved

Every invariant and every action property of the passing runs, and the refinement of
`RunLedger`.  All proofs are for every value of the constants, from the named assumption of each
module (`KindsAssumption`, `CronAssumption`, `PlanAssumption`, `StoreAssumption`, ...).  An
assumption says of what types the constants are, that no bottom value is among the values, that sets
which are counted are finite, and of the start: requests begin at their beginning, no secret has
been handed out by a request still to come, and no row or entry names a file that is missing already.

`WorkflowRun_proofs`: `Invariance` establishes an inductive invariant, the properties plus
two strengthenings.  `HandlerInv` ties a handler's program counter to the row and the
engine (before its insert there is no row, once its dispatch returned the engine has the run);
without it `AcceptedBeforeRunning` is not inductive, since `MarkRunning` does not look at the
engine.  `OutcomeInv` ties the engine's "done" to the row.  From it follow `TypeCorrect`,
`RunningIsAccepted`, `DurationsAreMeasurable` and `CascadeIsComplete`;
`OutcomeIsKept` is an action property; `TableImplementsLedger` is the refinement: `StepsRefine`
shows that every step moves a set of ledger entries along one arrow, or none.

`CronScheduler_proofs`: `LeaseInv` says that a live lease has its token under the key
with the same time left, which makes `NoConcurrentTrigger` inductive (`LockExcludes`).
`CoverInv` says that each tick's window starts where the instance has accounted for everything
before, so that what a tick has dealt with is accounted for up to the time it noted,
whatever its siblings do to `lastCheckTime` (`NoOccurrencePassedOver`).

`OnceInv` is about one instance whose ticks have not overlapped: its window starts at a
`lastCheckTime` that stays where it is until the tick ends (`Alone`), and an occurrence it started
lies before that time or belongs to a workflow the tick at work has dealt with (`StartedPast`), so
that no later window holds it again.  From it `NoInstanceRepeats`.

`WardenSync_proofs`: `SyncedWhenSettled` speaks of memberships at rest, and so says nothing
of the steps between.  `WardenInv` says that wherever Warden disagrees with the table someone still
owes the call that mends it (`Owed`): a handler that has not reached it (`HandlerOwes`) or an item
that waits (`ItemOwes`).  For that to be inductive every call that may still be made must be right
(`ItemsRight`, `HandlersRight`, `RepairRight`): of a pair that is not excused, revoked tuples have no
row and granted ones have, including items in a poller's batch that are already done, whose
repetition changes nothing.  `ItemsMade` and `AttemptsLeft` tie the queue to the handlers that fill it:
an item leaves by success, or by its last attempt, which excuses the pair.  A step that changes
the row of a pair somebody is at work on excuses the pair, which is why the others stay right.
From it `SyncedOnceSettled` and `WardenTypes`.

`EventPlane_proofs` holds the parts of the event plane, each from an invariant of its own.

Sweeps: `ApartInv` says of a tick's term (`Held`) that as long as it lasts the key holds the tick's
token.  From it `JobsApart`.

Streams: `SlotsInv` adds `Room` to the exact counter: the requests between check and
count are no more than the peak, and with the open streams they keep to the maximum and the
peak less one.  `SlotsHeld` alone is not inductive, since the step that opens a
stream looks at no counter.  From it `CounterExact` and `MaximumHeld`.

Events: `EventInv`.  A letter that did not slip (two hands, or a lost answer or mark) is in one hand at
most, there once, and unsent until only the mark is missing (`Guarded`), from which
`LettersReplayedOnce`; what is about to be
marked was sent (`SentBeforeMark`), from which `ResolvedSent`.  The log is a set of numbered rows, so
that what a replay takes and what a batch deletes are subsets of it and their numbers are cardinalities:
a step changes them by what it adds or takes (`LoggedSent`).  `SweptInv` adds that a sweep's cutoff is past
the time at which anything is still logged, without which a row logged during the sweep could be due
(`SweepsClean`).

The composition: `FlowComposes` shows that `FlowSpec` implies the specifications of the four parts,
since a step of one leaves the variables of the others; `FlowTypes` and `FlowSafe` carry the
theorems about the parts over to the whole.

`ControlPlane_proofs` does the same for the control plane: `ControlComposes`, `ControlTypes`,
`ControlSafe`, and before them the parts.

Workflows: `HistoryInv` says what a waiting request may rely on (`WriteSound`): the
highest number it read is still in the history, and once its snapshot is through, what it read is
in the history, unless the workflow is gone.  Histories only grow (`Growing`), so
other requests keep it.  From it `HistoriesDense` and `UpdatesKeep`.  `RoomInv` adds `Spare`, the
same argument as `Room` for creations, from which `LimitHolds`; a patch adds no row to those
that are counted (`PatchedRow`).

Executions: `Allowance` counts the runs there are and those that are promised together
(`Promised` has one element per run that a request has a check for and has not inserted), so that an
insertion moves one from the second to the first, and a check that passes compares the first with
the limit while the second is `ahead`.  A step that makes the count larger in any other way adds as
much to `beyond` (`Grown`, `MoveStep`).  From it `AllowanceHolds`.

That the bounds of workflows, resources and plugins count metered rows only makes them inductive
under patches: a row that changes sides leaves the count of one organization and enters none.

Resources: `RowsInv` says of each row that its secret was disclosed or its schema version
existed (`SoundRow`), and of each request that what it carries to the insert is so too (`Carried`); from
it `SecretsKnown` and `SchemasPreceded`.  `SpareInv` adds for each kind and organization that
rows and creations in flight keep to the limit and the peak (`ResourceLimitHolds`).

Plugins: `FilesInv` says that every file a row, an entry or a request may bring into a row is kept
(`FileKept`): in the bucket, lost with a removal, made up, or elsewhere.  `PluginsInv` adds `RoomFor`, as above.
From them `FilesLostByDeletion` and `PluginLimitHolds`.

`AccessControl_proofs`: `AccessInv` says of each check that an entry not expired was Warden's
answer no longer ago than its age and its delay (`Fresh`), and of each request that the answer it
carries to the cache is as old as it says.  From it `DecisionsFresh`; `GrantsEarned`
needs that a grant's target was looked up on the roster between the ranks and the write.

`PollingScan_proofs`: `PollInv`.  Of two polls that compare at once both answers are mixed
(`Alone`).  What an answer has been used for counts the runs and the polls on their way to one
(`Used`).  By hash (`HashOnce`) it stays within the times the answer came, and below it
while the answer is there, or in the hands of a poll, and is not the one remembered; what makes
this inductive is that a poll that compares alone and has another answer than the endpoint
now gives can only make the cache forget an answer that still has a turn left.  By field
(`FieldOnce`) what was used is remembered for good.  From it `TriggersOnce`.

`OAuthConnection_proofs`: `OauthInv`.  A token belongs to the integration of its service
(`Rows`); a request in the middle knows whose token it read (`Knows`); two refreshes of an
unstrained token do not both hold an answer (`Apart`); a connected integration without its token,
unless a client declared it, has a request that is about to write it, or to take the status back (`Backed`), and a stored token
that is not the latest has one that is about to update it (`Kept`).  From it `TokensBehind`
and `TokensLatest`.

Only model-checked: the liveness properties (`EventuallySettled`, `NeverLockedOut`,
`SlotsReturned`, `SweepsGoOn`), since liveness under fairness and `ENABLED` are out of the
prover's reach.  The six violations are counterexamples and need no proof.

Three definitions have the form they have for the proofs' sake: the rows of the log and the promised
runs are sets with one element each, where a sum over a set would need induction over data; and
what a request looks up it finds among the rows of its table and organization (`Found`), as the code's
queries do.

The history variables (`wpeak`, `forgotten`, `rpeak`, `existed`, `linked`, `ppeak`, `since`,
`joined`, `ruled`, `botched`, `crossed`, `strained`, `ahead`, `beyond`, `sent`, `replayed`,
`discarded`, `slipped`, `triggered`, `turns`, `mixed`, `speak`, `term`, the fields `metered` and `declared` of
rows, besides those named in the sections above) are read by no guard.

## What is not modelled

Within the modelled components: the uncached single-instance mode of locks and of the polling
deduplication, which production refuses; a SET still on the wire when its process restarts;
edits of the set of active workflows between cron ticks; more than one workflow per run in
`WorkflowRun`; payloads, names, log lines and lifecycle events; a webhook delivered twice; the
entitlement cache and its invalidation (a limit is any that a read may return); `organization.updated`,
which changes names.  The step from the `startedAt` timestamp to "an hour old" is one Boolean.  A workflow
that is moved keeps the grants on it, which its new organization never gave: `GrantsBacked` is
about workflows that stay.  An integration that a patch gives another type or brings in from another
organization is not modelled, one that leaves is gone with its token (`DeleteIntegration`).  A patch may
also name another `rowId`, which no handler reads as a reference.  `organization.deleted` also deletes
the organization's rows of the other components, as deletions of each do.  The row level policies of the schema do not bind the server,
which connects as the owner of the tables.

Whole parts: queries and the organization scope of GraphQL rows, statistics and lists (they
only read); the internal key-value routes, one cache call each; catalog sync and the step
proxy; the worker; seeds, which are data; connectors, storage and encryption, which are pure
or plain I/O.  PROJECT.json lists every component with its status.

Some things met on the way are no property of a model, or the comment they touch
claims nothing a run could refute:

- `routes/runs.ts:204-206` says "fail closed", but a user unknown to the identity provider is
  not asked about at all (`ReadOwner` goes straight to the stream).
- `webhooks.ts` calls the event log available while the streaming layer is not, but a publish
  that failed logs nothing.
- `refreshAccessToken` (so that hazards of two refreshes at once are none yet), `cleanupExpiredStates` and `invalidatePermissionCache` are exported and
  have no caller in the server.
- `authentication.plugin.ts` keeps the claims of an access token for as long as its process
  lives: `ensureQueryData` does not fetch again what has become stale.
- The patches of GraphQL take an `organizationId`, and the plugins authorize the caller in the
  organization the row leaves only; no comment claims otherwise of updates (the plan limit is said
  to be enforced on creation), so this is a bound of the limit properties and no finding.
- Shutdown closes cache and pool while ticks and handlers are in flight.

## Running

    tlc -workers 2 -config WorkflowRun.cfg MCWorkflowRun.tla
    tlc -workers 2 -config CronScheduler.cfg MCCronScheduler.tla
    tlc -workers 2 -config WardenSync.cfg MCWardenSync.tla
    tlc -workers 2 -config WardenLockout.cfg MCWardenSync.tla
    tlc -workers 2 -config ControlPlane.cfg MCControlPlane.tla
    tlc -workers 2 -config EventPlane.cfg MCEventPlane.tla

`ControlPlane` has 0.9 million distinct states, `EventPlane` 0.5 and `WardenSync` 2.2; each
takes two or three minutes.

    for m in WorkflowRun CronScheduler WardenSync AccessControl PollingScan \
             OAuthConnection EventPlane ControlPlane
    do tlapm ${m}_proofs.tla; done

`EventPlane_proofs` extends `PollingScan_proofs`, and `ControlPlane_proofs` extends
`AccessControl_proofs` and `OAuthConnection_proofs`; the proofs about the other parts are sections
of these two.

The other configurations end in a counterexample by intent: `RunReopened.cfg` and
`RunOverwritten.cfg` with `MCWorkflowRun.tla`, `CronDuplicate.cfg` with `MCCronScheduler.tla`,
`WardenGrants.cfg` with `MCWardenSync.tla`, `RevertDestroys.cfg` and `AdminsManage.cfg` with
`MCControlPlane.tla`.  The definitions whose comment
begins with "Mutant" are not used by the models: each is a plausible bug that a
property detects when it takes the place of the definition after it.
