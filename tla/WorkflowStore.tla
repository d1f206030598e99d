--------------------------- MODULE WorkflowStore ---------------------------
(***************************************************************************)
(* The workflows of an organization and their version history, as the REST *)
(* API, the GraphQL mutations and the revert route change them.  A request *)
(* is one step per database access: what it read in one step is what it    *)
(* uses in the next, however the other requests changed the tables.        *)
(***************************************************************************)
EXTENDS PlanLimits

CONSTANTS
    WorkflowId,        \* bound: the identifiers the inserts draw from
    WorkflowName,      \* the names of workflows
    CopyOf,            \* CopyOf[n]: the name of a clone of n
    Definition,        \* workflow definitions
    InitialWorkflow,   \* the workflows there are at the start
    InitialVersion,    \* and their versions
    WorkflowMix        \* the requests that are made

VARIABLES
    workflow,    \* workflow[w]: the row of w
    version,     \* version[w]: the rows of workflow_version for w
    wreq,        \* wreq[r]: request r
    wpeak,       \* history: the most inserts there were in flight at once
    forgotten    \* history: how definitions were lost, see Overwrite

storeVars == <<workflow, version, wreq, wpeak, forgotten>>

WorkflowOp == {"none", "create", "put", "clone", "update", "delete", "revert"}
WorkflowAt == {"start", "check", "insert", "overwrite", "top", "snapshot",
                 "write", "remove", "target", "afford", "restore", "done"}

\* A request: what it asks for (an operation on the workflow id or on name,
\* with a definition, to or with a version number, or to the organization that
\* to stands for), where it is, what it read (a definition, the highest version
\* number), the definition it puts into the history and whether that worked.
WorkflowRequest ==
    [op : WorkflowOp, id : WorkflowId, name : WorkflowName, def : Definition,
     number : Nat, to : {"stay", "live", "away"}, at : WorkflowAt, top : Nat,
     read : Definition, snap : Definition, kept : BOOLEAN, reply : Nat]

\* A row: live if it is the organization's, away if it is another's.  metered
\* is history: it did not come to the organization past the plan limit.
Row == [state : {"unborn", "live", "away", "deleted"}, name : WorkflowName,
        def : Definition, version : Nat, metered : BOOLEAN]
Snapshot == [number : Nat, def : Definition]
Loss == [by : WorkflowOp, stale : BOOLEAN, failed : BOOLEAN]

\* The versions in V are numbered from 1 without a gap or a repetition.
Dense(V) ==
    /\ IsFiniteSet(V)
    /\ {v.number : v \in V} = 1 .. Cardinality(V)

ASSUME StoreAssumption ==
    /\ IsFiniteSet(WorkflowId)
    /\ CopyOf \in [WorkflowName -> WorkflowName]
    /\ InitialWorkflow \in [WorkflowId -> Row]
    /\ InitialVersion \in [WorkflowId -> SUBSET Snapshot]
    /\ \A w \in WorkflowId : Dense(InitialVersion[w])
    /\ \A mix \in WorkflowMix : \A r \in Request :
         mix[r] \in WorkflowRequest /\ mix[r].at \in {"start", "done"}
    /\ WorkflowMix \subseteq [Request -> WorkflowRequest]

\* The REST handlers look for the organization's workflows only, the GraphQL
\* plugins for any and then ask Warden about the organization it belongs to.
Live(w) == workflow[w].state = "live"
Exists(w) == workflow[w].state \in {"live", "away"}
LiveWorkflows == {w \in WorkflowId : Live(w)}
CountedWorkflows == {w \in LiveWorkflows : workflow[w].metered}
Numbers(w) == {v.number : v \in version[w]}
History(w) == {v.def : v \in version[w]}

WorkflowTypeOK ==
    /\ workflow \in [WorkflowId -> Row]
    /\ version \in [WorkflowId -> SUBSET Snapshot]
    /\ wreq \in [Request -> WorkflowRequest]
    /\ wpeak \in Nat
    /\ forgotten \subseteq Loss

WorkflowStart ==
    /\ workflow = InitialWorkflow
    /\ version = InitialVersion
    /\ wpeak = 0
    /\ forgotten = {}

WorkflowInit == WorkflowStart /\ wreq \in WorkflowMix

-----------------------------------------------------------------------------
(* What a step does with the request. *)

At(r, step) == wreq[r].at = step
Is(r, op) == wreq[r].op = op

Goto(r, step) == wreq' = [wreq EXCEPT ![r].at = step]

Reply(r, status) == wreq' = [wreq EXCEPT ![r].at = "done", ![r].reply = status]

Unstored == UNCHANGED <<workflow, version, wpeak, forgotten>>

\* No credentials, or Warden and the grants deny: nothing happens.
RefuseWorkflow(r) == At(r, "start") /\ Reply(r, 403) /\ Unstored

-----------------------------------------------------------------------------
(* Creation: the GraphQL mutation, the REST upsert of a new name, a clone. *)

\* The mutation goes straight to the plan limit.
CreateStarts(r) ==
    At(r, "start") /\ Is(r, "create") /\ Goto(r, "check") /\ Unstored

\* The upsert looks for a workflow of its name; several may have it.
PutFinds(r) ==
    /\ At(r, "start") /\ Is(r, "put")
    /\ LET named == {w \in LiveWorkflows : workflow[w].name = wreq[r].name}
       IN  \/ named = {} /\ Goto(r, "check")
           \/ \E w \in named :
                wreq' = [wreq EXCEPT ![r].at = "overwrite", ![r].id = w]
    /\ Unstored

\* The clone reads its original.
CloneReads(r) ==
    /\ At(r, "start") /\ Is(r, "clone")
    /\ LET w == wreq[r].id
       IN  \/ ~Live(w) /\ Reply(r, 404)
           \/ /\ Live(w)
              /\ wreq' = [wreq EXCEPT ![r].at = "check",
                                      ![r].def = workflow[w].def,
                                      ![r].name = CopyOf[workflow[w].name]]
    /\ Unstored

Inserting == {r \in Request : At(r, "insert")}

\* The rows are counted and compared with the limit, in one round trip.
CheckWorkflowLimit(r) ==
    /\ At(r, "check")
    /\ \E limit \in LimitRead :
         \/ /\ UnderLimit(limit, Cardinality(LiveWorkflows))
            /\ Goto(r, "insert")
            /\ wpeak' = IF Cardinality(Inserting) < wpeak THEN wpeak
                                               ELSE Cardinality(Inserting) + 1
         \/ /\ ~UnderLimit(limit, Cardinality(LiveWorkflows))
            /\ Reply(r, 403)
            /\ UNCHANGED wpeak
    /\ UNCHANGED <<workflow, version, forgotten>>

\* The table has no unique index on the name.
InsertWorkflow(r) ==
    /\ At(r, "insert")
    /\ \E w \in WorkflowId :
         /\ workflow[w].state = "unborn"
         /\ workflow' = [workflow EXCEPT ![w] =
                           [state |-> "live", name |-> wreq[r].name,
                            def |-> wreq[r].def, version |-> 1,
                            metered |-> TRUE]]
         /\ wreq' = [wreq EXCEPT ![r] = [@ EXCEPT !.at = "done", !.id = w,
                                                  !.reply = 200]]
    /\ UNCHANGED <<version, wpeak, forgotten>>

-----------------------------------------------------------------------------
(* Changes of the definition. *)

\* r replaces the row w.  If the definition it held is in no version it is lost;
\* forgotten notes by whom, whether r had read another definition than the one
\* it replaces, and whether its snapshot failed.
Overwrite(r, w, row) ==
    /\ workflow' = [workflow EXCEPT ![w] = row]
    /\ forgotten' = IF workflow[w].def \in History(w) \cup {row.def} THEN forgotten
                      ELSE forgotten \cup {[by |-> wreq[r].op,
                                            stale |-> wreq[r].read # workflow[w].def,
                                            failed |-> ~wreq[r].kept]}

\* The upsert of an existing workflow updates the row it found; if it is gone
\* the handler fails on the missing result.
PutOverwrites(r) ==
    /\ At(r, "overwrite")
    /\ LET w == wreq[r].id
       IN  \/ /\ Exists(w)
              /\ Overwrite(r, w, [workflow[w] EXCEPT !.def = wreq[r].def])
              /\ Reply(r, 200)
           \/ ~Exists(w) /\ Reply(r, 500) /\ UNCHANGED <<workflow, forgotten>>
    /\ UNCHANGED <<version, wpeak>>

\* Mutant: the new definition is snapshot.
UpdateReadsNew(r) ==
    /\ At(r, "start") /\ Is(r, "update")
    /\ LET w == wreq[r].id
       IN  \/ ~Exists(w) /\ Reply(r, 404)
           \/ /\ Exists(w)
              /\ wreq' = [wreq EXCEPT
                            ![r].read = workflow[w].def,
                            ![r].snap = wreq[r].def,
                            ![r].at = IF wreq[r].def = workflow[w].def
                                        THEN "write" ELSE "top"]
    /\ Unstored

\* The GraphQL update reads the row, of whatever organization, and, if the
\* definition differs, snapshots the one it read before it writes.
UpdateReads(r) ==
    /\ At(r, "start") /\ Is(r, "update")
    /\ LET w == wreq[r].id
       IN  \/ ~Exists(w) /\ Reply(r, 404)
           \/ /\ Exists(w)
              /\ wreq' = [wreq EXCEPT
                            ![r].read = workflow[w].def,
                            ![r].snap = workflow[w].def,
                            ![r].at = IF wreq[r].def = workflow[w].def
                                        THEN "write" ELSE "top"]
    /\ Unstored

\* The patched row.  Its organization may be another one, in which nobody asked
\* whether there is room.
Patched(r, w) ==
    LET to == wreq[r].to
    IN  [workflow[w] EXCEPT
           !.def = wreq[r].def, !.name = wreq[r].name, !.version = wreq[r].number,
           !.state = IF to = "stay" THEN @ ELSE to,
           !.metered = @ /\ (to = "live" => Live(w))]

UpdateWrites(r) ==
    /\ At(r, "write")
    /\ LET w == wreq[r].id
       IN  \/ Exists(w) /\ Overwrite(r, w, Patched(r, w)) /\ Reply(r, 200)
           \/ ~Exists(w) /\ Reply(r, 404) /\ UNCHANGED <<workflow, forgotten>>
    /\ UNCHANGED <<version, wpeak>>

-----------------------------------------------------------------------------
(* saveWorkflowVersion, called by the update before its write and by the   *)
(* revert after it.                                                        *)

\* The first row in descending order, or none.
Highest(numbers) ==
    IF numbers = {} THEN 0 ELSE CHOOSE n \in numbers : \A m \in numbers : m <= n

ReadTop(r) ==
    /\ At(r, "top")
    /\ wreq' = [wreq EXCEPT ![r].at = "snapshot",
                            ![r].top = Highest(Numbers(wreq[r].id))]
    /\ Unstored

\* Mutant: the number read is taken for the next one when there is any.
NextNumberUnchecked(top) == IF top = 0 THEN 1 ELSE top + 2

\* The number after the highest that was read.
NextNumber(top) == top + 1

AfterSnapshot(r) == IF Is(r, "update") THEN "write" ELSE "done"

\* The insert.  The workflow's row and the unique index on its number decide.
SaveSnapshot(r) ==
    /\ At(r, "snapshot")
    /\ LET w == wreq[r].id
           n == NextNumber(wreq[r].top)
       IN  /\ Exists(w)
           /\ n \notin Numbers(w)
           /\ version' = [version EXCEPT
                            ![w] = @ \cup {[number |-> n, def |-> wreq[r].snap]}]
    /\ wreq' = [wreq EXCEPT ![r].at = AfterSnapshot(r), ![r].reply = 200]
    /\ UNCHANGED <<workflow, wpeak, forgotten>>

\* It fails, for one of them or for the database.  The update only logs it; a
\* revert answers 500, its workflow stays changed.
LoseSnapshot(r) ==
    /\ At(r, "snapshot")
    /\ wreq' = [wreq EXCEPT ![r] = [@ EXCEPT !.kept = FALSE, !.at = AfterSnapshot(r),
                                             !.reply = 500]]
    /\ Unstored

-----------------------------------------------------------------------------
(* The revert. *)

\* The row's version number is read,
RevertReads(r) ==
    /\ At(r, "start") /\ Is(r, "revert")
    /\ LET w == wreq[r].id
       IN  \/ ~Live(w) /\ Reply(r, 404)
           \/ Live(w) /\ wreq' = [wreq EXCEPT ![r].at = "target",
                                              ![r].top = workflow[w].version]
    /\ Unstored

\* then the version to go back to,
RevertFetches(r) ==
    /\ At(r, "target")
    /\ \/ wreq[r].number \notin Numbers(wreq[r].id) /\ Reply(r, 404)
       \/ \E v \in version[wreq[r].id] :
            /\ v.number = wreq[r].number
            /\ wreq' = [wreq EXCEPT ![r].at = "afford", ![r].snap = v.def]
    /\ Unstored

\* then the plan limit, this workflow not counted,
RevertAffords(r) ==
    /\ At(r, "afford")
    /\ LET others == Cardinality(LiveWorkflows \ {wreq[r].id})
       IN  \E limit \in LimitRead :
             \/ UnderLimit(limit, others) /\ Goto(r, "restore")
             \/ ~UnderLimit(limit, others) /\ Reply(r, 402)
    /\ Unstored

\* then the definition is put in place with the number after the one read.
RevertWrites(r) ==
    /\ At(r, "restore")
    /\ LET w == wreq[r].id
       IN  \/ /\ Exists(w)
              /\ Overwrite(r, w, [workflow[w] EXCEPT !.def = wreq[r].snap,
                                                     !.version = wreq[r].top + 1])
           \/ ~Exists(w) /\ UNCHANGED <<workflow, forgotten>>
    /\ Goto(r, "top")
    /\ UNCHANGED <<version, wpeak>>

-----------------------------------------------------------------------------
(* Deletion, by GraphQL or REST. *)

DeleteReads(r) ==
    /\ At(r, "start") /\ Is(r, "delete")
    /\ \/ Exists(wreq[r].id) /\ Goto(r, "remove")
       \/ ~Live(wreq[r].id) /\ Reply(r, 404)
    /\ Unstored

\* The versions go with the row.
DeleteRemoves(r) ==
    /\ At(r, "remove")
    /\ LET w == wreq[r].id
       IN  /\ workflow' = [workflow EXCEPT ![w].state = "deleted"]
           /\ version' = [version EXCEPT ![w] = {}]
    /\ Reply(r, 200)
    /\ UNCHANGED <<wpeak, forgotten>>

-----------------------------------------------------------------------------
ServeWorkflow(r) ==
    \/ RefuseWorkflow(r)
    \/ CreateStarts(r) \/ PutFinds(r) \/ CloneReads(r)
    \/ CheckWorkflowLimit(r) \/ InsertWorkflow(r)
    \/ PutOverwrites(r) \/ UpdateReads(r) \/ UpdateWrites(r)
    \/ ReadTop(r) \/ SaveSnapshot(r) \/ LoseSnapshot(r)
    \/ RevertReads(r) \/ RevertFetches(r) \/ RevertAffords(r) \/ RevertWrites(r)
    \/ DeleteReads(r) \/ DeleteRemoves(r)

WorkflowNext == \E r \in Request : ServeWorkflow(r)

WorkflowSpec == WorkflowInit /\ [][WorkflowNext]_storeVars

-----------------------------------------------------------------------------
(* The versions of a workflow stay numbered 1, 2, 3, ... although every save
   takes its number from a read made earlier: of two saves that read the same
   highest number one is refused, and none leaves a gap.                   *)
VersionsDense == \A w \in WorkflowId : Dense(version[w])

(* Counting and inserting are two steps, so the workflows may exceed the plan,
   but by no more than the inserts that were in flight at once less one: as
   long as creations do not overlap the limit is exact.  Not counted are the
   workflows an update moved here from another organization.                *)
WorkflowLimitHeld ==
    \A m \in LimitRead :
        Bounding(m) =>
            \/ Cardinality(CountedWorkflows)
                 <= Cardinality({w \in WorkflowId : /\ InitialWorkflow[w].state = "live"
                                                    /\ InitialWorkflow[w].metered})
            \/ Cardinality(CountedWorkflows) + 1 <= m + wpeak

(* A GraphQL update forgets a definition only if another request replaced the
   one it had read in between, or if its snapshot failed, which it logs.    *)
UpdatesRemember ==
    \A loss \in forgotten : loss.by = "update" => loss.stale \/ loss.failed

(* The revert route's comment: "Non-destructive: creates a new version with the
   old definition and updates the workflow's current definition."           *)
RevertNonDestructive == \A loss \in forgotten : loss.by # "revert"
=============================================================================
