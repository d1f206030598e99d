------------------------- MODULE ControlPlane_proofs -------------------------
(***************************************************************************)
(* Proofs about the workflows of an organization, its other resources, its *)
(* plugins and its executions, and about their composition with the access *)
(* control and the OAuth connections: for any requests, rows and limits.   *)
(***************************************************************************)
EXTENDS ControlPlane, AccessControl_proofs, OAuthConnection_proofs,
        FiniteSetTheorems

(* WORKFLOWS *)

Gone(w) == workflow[w].state = "deleted"

\* What holds of a request s between its reads and its writes: the highest
\* number it read is still in the history, and what it read is there before it
\* is overwritten, unless the workflow is gone.
WriteSound(s) ==
    /\ s.at = "overwrite" => s.op = "put"
    /\ s.at \in {"target", "afford", "restore"} => s.op = "revert"
    /\ s.at = "snapshot" => Gone(s.id) \/ s.top <= Cardinality(version[s.id])
    /\ s.op = "update" /\ s.at \in {"top", "snapshot"} => s.snap = s.read
    /\ s.op = "update" /\ s.at = "write" =>
         Gone(s.id) \/ ~s.kept \/ s.read = s.def \/ s.read \in History(s.id)

HistoryInv ==
    /\ WorkflowTypeOK
    /\ VersionsDense
    /\ UpdatesRemember
    /\ \A q \in Request : WriteSound(wreq[q])

\* A history only grows, until its workflow is deleted for good.
Growing ==
    \A w \in WorkflowId : Gone(w)' \/ (~Gone(w) /\ version[w] \subseteq version'[w])

-----------------------------------------------------------------------------
\* A request that waits stays sound while the others let the histories grow.
LEMMA Waits ==
  ASSUME VersionsDense', Growing, NEW s \in WorkflowRequest, WriteSound(s),
         VersionsDense
  PROVE  WriteSound(s)'
  <1>1. s.id \in WorkflowId /\ s.top \in Nat
    BY DEF WorkflowRequest
  <1>2. CASE Gone(s.id)'
    BY <1>2 DEF WriteSound
  <1>3. CASE ~Gone(s.id) /\ version[s.id] \subseteq version'[s.id]
    <2>1. IsFiniteSet(version[s.id]) /\ IsFiniteSet(version'[s.id])
      BY <1>1 DEF VersionsDense, Dense
    <2>2. /\ Cardinality(version[s.id]) <= Cardinality(version'[s.id])
          /\ Cardinality(version[s.id]) \in Nat /\ Cardinality(version'[s.id]) \in Nat
      BY <1>3, <2>1, FS_Subset, FS_CardinalityType
    <2>3. History(s.id) \subseteq History(s.id)'
      BY <1>3 DEF History
    <2>4. s.at = "snapshot" => s.top <= Cardinality(version'[s.id])
      BY <1>1, <1>3, <2>2 DEF WriteSound
    <2> QED
      BY <1>3, <2>3, <2>4 DEF WriteSound
  <1> QED
    BY <1>1, <1>2, <1>3 DEF Growing

\* A step of request r, which becomes u, keeps the invariant when the tables
\* keep their shape and u is sound in what they have become.
LEMMA StoreServes ==
  ASSUME HistoryInv, NEW r \in Request, NEW u \in WorkflowRequest,
         wreq' = [wreq EXCEPT ![r] = u], WriteSound(u)',
         workflow' \in [WorkflowId -> Row],
         version' \in [WorkflowId -> SUBSET Snapshot],
         wpeak' \in Nat, forgotten' \subseteq Loss,
         Growing, VersionsDense', UpdatesRemember'
  PROVE  HistoryInv'
  <1>1. /\ wreq \in [Request -> WorkflowRequest]
        /\ \A q \in Request : WriteSound(wreq[q])
        /\ VersionsDense
    BY DEF HistoryInv, WorkflowTypeOK
  <1>2. /\ wreq' \in [Request -> WorkflowRequest]
        /\ wreq'[r] = u
        /\ \A q \in Request \ {r} : wreq'[q] = wreq[q]
    BY <1>1
  <1>3. ASSUME NEW q \in Request
        PROVE  WriteSound(wreq[q])'
    <2>1. CASE q = r
      BY <1>2, <2>1 DEF WriteSound
    <2>2. CASE q # r
      <3> DEFINE s == wreq[q]
      <3>1. s \in WorkflowRequest /\ WriteSound(s) /\ wreq'[q] = s
        BY <1>1, <1>2, <2>2
      <3>2. ASSUME NEW t \in WorkflowRequest, WriteSound(t)
            PROVE  WriteSound(t)'
        BY <1>1, <3>2, Waits
      <3>3. ASSUME NEW t \in WorkflowRequest, WriteSound(t), wreq'[q] = t
            PROVE  WriteSound(wreq[q])'
        BY <3>2, <3>3 DEF WriteSound
      <3> HIDE DEF s
      <3> QED
        BY <3>1, <3>3
    <2> QED
      BY <2>1, <2>2
  <1>4. WorkflowTypeOK'
    BY <1>2 DEF WorkflowTypeOK
  <1> QED
    BY <1>3, <1>4 DEF HistoryInv

\* When the tables stay as they are u has only to be sound.
LEMMA Moves ==
  ASSUME HistoryInv, NEW r \in Request, NEW u \in WorkflowRequest,
         wreq' = [wreq EXCEPT ![r] = u], WriteSound(u), wpeak' \in Nat,
         UNCHANGED <<workflow, version, forgotten>>
  PROVE  HistoryInv'
  <1>1. /\ workflow \in [WorkflowId -> Row]
        /\ version \in [WorkflowId -> SUBSET Snapshot]
        /\ forgotten \subseteq Loss
        /\ VersionsDense /\ UpdatesRemember
    BY DEF HistoryInv, WorkflowTypeOK
  <1>2. WriteSound(u)'
    BY DEF WriteSound, Gone, History
  <1>3. Growing
    BY DEF Growing, Gone
  <1>4. VersionsDense' /\ UpdatesRemember'
    BY <1>1 DEF VersionsDense, UpdatesRemember
  <1> QED
    BY <1>1, <1>2, <1>3, <1>4, StoreServes

\* An answered request asks for nothing more.
LEMMA Answered ==
  ASSUME HistoryInv, NEW r \in Request, NEW n \in Nat, Reply(r, n)
  PROVE  \E u \in WorkflowRequest :
           wreq' = [wreq EXCEPT ![r] = u] /\ WriteSound(u) /\ WriteSound(u)'
  <1> DEFINE s == wreq[r]
             u == [s EXCEPT !.at = "done", !.reply = n]
  <1>1. s \in WorkflowRequest
    BY DEF HistoryInv, WorkflowTypeOK
  <1>2. wreq' = [wreq EXCEPT ![r] = u]
    BY DEF Reply
  <1> HIDE DEF s
  <1>3. u \in WorkflowRequest /\ u.at = "done"
    BY <1>1 DEF WorkflowRequest, WorkflowAt
  <1> HIDE DEF u
  <1> QED
    BY <1>2, <1>3 DEF WriteSound

\* Steps that only answer.
LEMMA Answers ==
  ASSUME HistoryInv, NEW r \in Request, NEW n \in Nat, Reply(r, n), wpeak' \in Nat,
         UNCHANGED <<workflow, version, forgotten>>
  PROVE  HistoryInv'
  BY Answered, Moves

\* Steps that only go on to another one.
LEMMA Goes ==
  ASSUME HistoryInv, NEW r \in Request,
         NEW step \in WorkflowAt \ {"overwrite", "snapshot", "write"},
         step \in {"target", "afford", "restore"} => wreq[r].op = "revert",
         step = "top" => wreq[r].op = "revert",
         Goto(r, step)
  PROVE  \E u \in WorkflowRequest :
           wreq' = [wreq EXCEPT ![r] = u] /\ WriteSound(u) /\ WriteSound(u)'
  <1> DEFINE s == wreq[r]
             u == [s EXCEPT !.at = step]
  <1>1. s \in WorkflowRequest
    BY DEF HistoryInv, WorkflowTypeOK
  <1>2. wreq' = [wreq EXCEPT ![r] = u]
    BY DEF Goto
  <1>3. /\ step \in {"target", "afford", "restore"} => s.op = "revert"
        /\ step = "top" => s.op = "revert"
    OBVIOUS
  <1> HIDE DEF s
  <1>4. u \in WorkflowRequest /\ u.at = step /\ u.op = s.op
    BY <1>1 DEF WorkflowRequest
  <1> HIDE DEF u
  <1> QED
    BY <1>2, <1>3, <1>4 DEF WriteSound

LEMMA GoesOn ==
  ASSUME HistoryInv, NEW r \in Request,
         NEW step \in WorkflowAt \ {"overwrite", "snapshot", "write"},
         step \in {"target", "afford", "restore"} => wreq[r].op = "revert",
         step = "top" => wreq[r].op = "revert",
         Goto(r, step), wpeak' \in Nat,
         UNCHANGED <<workflow, version, forgotten>>
  PROVE  HistoryInv'
  BY Goes, Moves

-----------------------------------------------------------------------------
\* A write forgets a definition unseen only if it is not an update's, or if the
\* update read another one, or lost its snapshot.
LEMMA Overwrites ==
  ASSUME HistoryInv, NEW r \in Request, NEW w \in WorkflowId,
         NEW row \in Row, row.state = "deleted" <=> Gone(w), Overwrite(r, w, row),
         \/ wreq[r].op # "update"
         \/ workflow[w].def \in History(w) \cup {row.def}
         \/ wreq[r].read # workflow[w].def
         \/ ~wreq[r].kept
  PROVE  /\ workflow' \in [WorkflowId -> Row]
         /\ \A x \in WorkflowId : Gone(x)' <=> Gone(x)
         /\ forgotten' \subseteq Loss
         /\ UpdatesRemember'
  <1>1. /\ workflow \in [WorkflowId -> Row] /\ forgotten \subseteq Loss
        /\ wreq[r] \in WorkflowRequest /\ UpdatesRemember
    BY DEF HistoryInv, WorkflowTypeOK
  <1>2. /\ workflow' \in [WorkflowId -> Row]
        /\ \A x \in WorkflowId : Gone(x)' <=> Gone(x)
    BY <1>1 DEF Overwrite, Gone
  <1>3. CASE forgotten' = forgotten
    BY <1>1, <1>2, <1>3 DEF UpdatesRemember
  <1>4. CASE forgotten' # forgotten
    <2> DEFINE op == wreq[r].op
               stale == wreq[r].read # workflow[w].def
               failed == ~wreq[r].kept
               loss == [by |-> op, stale |-> stale, failed |-> failed]
    <2>1. /\ forgotten' = forgotten \cup {loss}
          /\ workflow[w].def \notin History(w) \cup {row.def}
      BY <1>4 DEF Overwrite
    <2>2. op \in WorkflowOp /\ stale \in BOOLEAN /\ failed \in BOOLEAN
      BY <1>1 DEF WorkflowRequest
    <2>3. op = "update" => stale \/ failed
      BY <2>1
    <2> HIDE DEF op, stale, failed
    <2>4. /\ loss \in Loss
          /\ loss.by = "update" => loss.stale \/ loss.failed
      BY <2>2, <2>3 DEF Loss
    <2> HIDE DEF loss
    <2> QED
      BY <1>1, <1>2, <2>1, <2>4 DEF UpdatesRemember
  <1> QED
    BY <1>3, <1>4

\* A row with another definition.
LEMMA Redefined ==
  ASSUME NEW old \in Row, NEW def \in Definition
  PROVE  LET row == [old EXCEPT !.def = def]
         IN  row \in Row /\ row.state = old.state /\ row.metered = old.metered
  BY DEF Row

\* A write that leaves the versions alone keeps the invariant.
LEMMA Writes ==
  ASSUME HistoryInv, NEW r \in Request, NEW w \in WorkflowId,
         NEW row \in Row, row.state = "deleted" <=> Gone(w), Overwrite(r, w, row),
         \/ wreq[r].op # "update"
         \/ workflow[w].def \in History(w) \cup {row.def}
         \/ wreq[r].read # workflow[w].def
         \/ ~wreq[r].kept,
         \E u \in WorkflowRequest : wreq' = [wreq EXCEPT ![r] = u] /\ WriteSound(u)',
         UNCHANGED <<version, wpeak>>
  PROVE  HistoryInv'
  <1>1. /\ workflow' \in [WorkflowId -> Row]
        /\ \A x \in WorkflowId : Gone(x)' <=> Gone(x)
        /\ forgotten' \subseteq Loss
        /\ UpdatesRemember'
    BY Overwrites
  <1>2. /\ version' \in [WorkflowId -> SUBSET Snapshot] /\ wpeak' \in Nat
        /\ VersionsDense'
    BY DEF HistoryInv, WorkflowTypeOK, VersionsDense
  <1>3. Growing
    BY <1>1 DEF Growing
  <1> QED
    BY <1>1, <1>2, <1>3, StoreServes

-----------------------------------------------------------------------------
(* The steps of the handlers. *)

LEMMA CreationSteps ==
  ASSUME HistoryInv, NEW r \in Request,
         \/ RefuseWorkflow(r) \/ CreateStarts(r) \/ PutFinds(r) \/ CloneReads(r)
         \/ CheckWorkflowLimit(r) \/ InsertWorkflow(r)
  PROVE  HistoryInv'
  <1> DEFINE s == wreq[r]
  <1>1. /\ s \in WorkflowRequest /\ wpeak \in Nat
        /\ workflow \in [WorkflowId -> Row]
    BY DEF HistoryInv, WorkflowTypeOK
  <1>2. s.id \in WorkflowId /\ s.name \in WorkflowName /\ s.def \in Definition
    BY <1>1 DEF WorkflowRequest
  <1>3. CASE RefuseWorkflow(r)
    BY <1>1, <1>3, Answers DEF RefuseWorkflow, Unstored
  <1>4. CASE CreateStarts(r)
    BY <1>1, <1>4, GoesOn DEF CreateStarts, Unstored, WorkflowAt
  <1>5. CASE PutFinds(r)
    <2>1. CASE Goto(r, "check")
      BY <1>1, <1>5, <2>1, GoesOn DEF PutFinds, Unstored, WorkflowAt
    <2>2. ASSUME NEW w \in WorkflowId,
                 wreq' = [wreq EXCEPT ![r].at = "overwrite", ![r].id = w]
          PROVE  HistoryInv'
      <3> DEFINE u == [s EXCEPT !.at = "overwrite", !.id = w]
      <3>1. wreq' = [wreq EXCEPT ![r] = u] /\ s.op = "put"
        BY <1>5, <2>2 DEF PutFinds, Is
      <3> HIDE DEF s
      <3>2. u \in WorkflowRequest /\ u.at = "overwrite" /\ u.op = s.op
        BY <1>1 DEF WorkflowRequest, WorkflowAt
      <3> HIDE DEF u
      <3> QED
        BY <1>1, <1>5, <3>1, <3>2, Moves DEF PutFinds, Unstored, WriteSound
    <2> QED
      BY <1>5, <2>1, <2>2 DEF PutFinds, LiveWorkflows
  <1>6. CASE CloneReads(r)
    <2>1. CASE Reply(r, 404)
      BY <1>1, <1>6, <2>1, Answers DEF CloneReads, Unstored
    <2>2. CASE wreq' = [wreq EXCEPT ![r].at = "check",
                                    ![r].def = workflow[s.id].def,
                                    ![r].name = CopyOf[workflow[s.id].name]]
      <3> DEFINE def == workflow[s.id].def
                 name == CopyOf[workflow[s.id].name]
                 u == [s EXCEPT !.at = "check", !.def = def, !.name = name]
      <3>1. def \in Definition /\ name \in WorkflowName
        BY <1>1, <1>2, StoreAssumption DEF Row
      <3>2. wreq' = [wreq EXCEPT ![r] = u]
        BY <2>2
      <3> HIDE DEF s, def, name
      <3>3. u \in WorkflowRequest /\ u.at = "check"
        BY <1>1, <3>1 DEF WorkflowRequest, WorkflowAt
      <3> HIDE DEF u
      <3> QED
        BY <1>1, <1>6, <3>2, <3>3, Moves DEF CloneReads, Unstored, WriteSound
    <2> QED
      BY <1>6, <2>1, <2>2 DEF CloneReads
  <1>7. CASE CheckWorkflowLimit(r)
    <2>1. wpeak' \in Nat
      <3>1. Inserting \in SUBSET Request
        BY DEF Inserting
      <3>2. Cardinality(Inserting) \in Nat
        BY <3>1, PlanAssumption, FS_Subset, FS_CardinalityType
      <3> QED
        BY <1>1, <1>7, <3>2 DEF CheckWorkflowLimit
    <2> QED
      BY <1>7, <2>1, GoesOn, Answers DEF CheckWorkflowLimit, WorkflowAt
  <1>8. CASE InsertWorkflow(r)
    <2> PICK w \in WorkflowId :
          /\ workflow[w].state = "unborn"
          /\ workflow' = [workflow EXCEPT ![w] =
                            [state |-> "live", name |-> s.name,
                             def |-> s.def, version |-> 1, metered |-> TRUE]]
          /\ wreq' = [wreq EXCEPT ![r] = [wreq[r] EXCEPT !.at = "done", !.id = w,
                                                       !.reply = 200]]
      BY <1>8 DEF InsertWorkflow
    <2>1. UNCHANGED <<version, wpeak, forgotten>>
      BY <1>8 DEF InsertWorkflow
    <2> DEFINE status == 200
               u == [s EXCEPT !.at = "done", !.id = w, !.reply = status]
    <2>2. wreq' = [wreq EXCEPT ![r] = u]
      OBVIOUS
    <2>3. /\ workflow' \in [WorkflowId -> Row]
          /\ \A x \in WorkflowId : Gone(x)' <=> Gone(x)
      <3> DEFINE name == s.name
                 def == s.def
                 row == [state |-> "live", name |-> name, def |-> def, version |-> 1,
                         metered |-> TRUE]
      <3>1. name \in WorkflowName /\ def \in Definition /\ workflow' = [workflow EXCEPT ![w] = row]
        BY <1>2
      <3> HIDE DEF name, def
      <3>2. row \in Row /\ row.state = "live"
        BY <3>1 DEF Row
      <3> HIDE DEF row
      <3> QED
        BY <1>1, <3>1, <3>2 DEF Gone
    <2>8. status \in Nat
      OBVIOUS
    <2> HIDE DEF s, status
    <2>4. u \in WorkflowRequest /\ u.at = "done"
      BY <1>1, <2>8 DEF WorkflowRequest, WorkflowAt
    <2> HIDE DEF u
    <2>5. /\ version' \in [WorkflowId -> SUBSET Snapshot] /\ wpeak' \in Nat
          /\ forgotten' \subseteq Loss /\ VersionsDense' /\ UpdatesRemember'
      BY <2>1 DEF HistoryInv, WorkflowTypeOK, VersionsDense, UpdatesRemember
    <2>6. Growing
      BY <2>1, <2>3 DEF Growing
    <2>7. ASSUME NEW t \in WorkflowRequest, t.at = "done",
                 wreq' = [wreq EXCEPT ![r] = t]
          PROVE  HistoryInv'
      <3>1. WriteSound(t)'
        BY <2>7 DEF WriteSound
      <3> QED
        BY <2>3, <2>5, <2>6, <2>7, <3>1, StoreServes
    <2> QED
      BY <2>2, <2>4, <2>7
  <1> QED
    BY <1>3, <1>4, <1>5, <1>6, <1>7, <1>8

LEMMA UpsertSteps ==
  ASSUME HistoryInv, NEW r \in Request, PutOverwrites(r)
  PROVE  HistoryInv'
  <1> DEFINE s == wreq[r]
  <1>1. /\ s.id \in WorkflowId /\ s.def \in Definition
        /\ wpeak \in Nat /\ workflow[s.id] \in Row
        /\ s.op = "put"
    BY DEF HistoryInv, WorkflowTypeOK, WorkflowRequest, PutOverwrites, At, WriteSound
  <1>2. CASE /\ Overwrite(r, s.id, [workflow[s.id] EXCEPT !.def = s.def])
             /\ Reply(r, 200)
    <2>1. UNCHANGED <<version, wpeak>>
      BY DEF PutOverwrites
    <2>2. \E u \in WorkflowRequest : wreq' = [wreq EXCEPT ![r] = u] /\ WriteSound(u)'
      BY <1>2, Answered
    <2> DEFINE row == [workflow[s.id] EXCEPT !.def = s.def]
    <2>3. row \in Row /\ (row.state = "deleted" <=> Gone(s.id))
      BY <1>1, Redefined DEF Gone
    <2> HIDE DEF row
    <2>4. Overwrite(r, s.id, row)
      BY <1>2 DEF row
    <2> QED
      BY <1>1, <2>1, <2>2, <2>3, <2>4, Writes
  <1>3. CASE Reply(r, 500) /\ UNCHANGED <<workflow, forgotten>>
    BY <1>1, <1>3, Answers DEF PutOverwrites
  <1> QED
    BY <1>2, <1>3 DEF PutOverwrites

\* A patched row is there as it was, and counts only if it did.
LEMMA PatchedRow ==
  ASSUME NEW r, NEW w, wreq[r] \in WorkflowRequest, workflow[w] \in Row, Exists(w)
  PROVE  /\ Patched(r, w) \in Row
         /\ Patched(r, w).def = wreq[r].def
         /\ Patched(r, w).state \in {"live", "away"}
         /\ Patched(r, w).state = "live" /\ Patched(r, w).metered =>
              workflow[w].state = "live" /\ workflow[w].metered
  <1> DEFINE old == workflow[w]
             def == wreq[r].def
             name == wreq[r].name
             number == wreq[r].number
             to == wreq[r].to
             state == IF to = "stay" THEN old.state ELSE to
             metered == old.metered /\ (to = "live" => Live(w))
             row == [old EXCEPT !.def = def, !.name = name, !.version = number,
                                !.state = state, !.metered = metered]
  <1>1. /\ def \in Definition /\ name \in WorkflowName /\ number \in Nat
        /\ to \in {"stay", "live", "away"}
    BY DEF WorkflowRequest
  <1>2. state \in {"live", "away"} /\ metered \in BOOLEAN
    BY <1>1 DEF Exists, Row
  <1>3. state = "live" /\ metered => old.state = "live" /\ old.metered
    BY DEF Live
  <1>4. Patched(r, w) = row
    BY DEF Patched
  <1>5. old \in Row
    OBVIOUS
  <1> HIDE DEF old, def, name, number, to, state, metered
  <1>6. /\ row \in Row /\ row.def = def /\ row.state = state
        /\ row.metered = metered
    BY <1>1, <1>2, <1>5 DEF Row
  <1> QED
    BY <1>2, <1>3, <1>4, <1>6 DEF old, def

\* An update reads the definition it will replace; when it writes it has put
\* that into the history, or noticed that it could not, unless it is the same.
LEMMA UpdateSteps ==
  ASSUME HistoryInv, NEW r \in Request, UpdateReads(r) \/ UpdateWrites(r)
  PROVE  HistoryInv'
  <1> DEFINE s == wreq[r]
  <1>1. /\ s \in WorkflowRequest /\ s.id \in WorkflowId /\ s.def \in Definition
        /\ wpeak \in Nat
        /\ workflow[s.id] \in Row /\ workflow[s.id].def \in Definition
        /\ WriteSound(s)
    BY DEF HistoryInv, WorkflowTypeOK, WorkflowRequest, Row
  <1>2. CASE UpdateReads(r)
    <2>0. wpeak' \in Nat /\ UNCHANGED <<workflow, version, forgotten>>
      BY <1>1, <1>2 DEF UpdateReads, Unstored
    <2>1. CASE Reply(r, 404)
      BY <2>0, <2>1, Answers
    <2>2. CASE wreq' = [wreq EXCEPT
                          ![r].read = workflow[s.id].def,
                          ![r].snap = workflow[s.id].def,
                          ![r].at = IF s.def = workflow[s.id].def
                                      THEN "write" ELSE "top"]
      <3> DEFINE def == workflow[s.id].def
                 at == IF s.def = def THEN "write" ELSE "top"
                 u == [s EXCEPT !.read = def, !.snap = def, !.at = at]
      <3>1. /\ def \in Definition /\ at \in {"write", "top"}
            /\ at = "write" => s.def = def
            /\ wreq' = [wreq EXCEPT ![r] = u]
        BY <1>1, <2>2
      <3> HIDE DEF s, def, at
      <3>2. /\ u \in WorkflowRequest /\ u.at = at
            /\ u.read = def /\ u.snap = def /\ u.def = s.def
        BY <1>1, <3>1 DEF WorkflowRequest, WorkflowAt
      <3> HIDE DEF u
      <3>3. WriteSound(u)
        BY <3>1, <3>2 DEF WriteSound
      <3> QED
        BY <1>1, <1>2, <3>1, <3>2, <3>3, Moves DEF UpdateReads, Unstored
    <2> QED
      BY <1>2, <2>1, <2>2 DEF UpdateReads
  <1>3. CASE UpdateWrites(r)
    <2>1. CASE /\ Exists(s.id)
               /\ Overwrite(r, s.id, Patched(r, s.id))
               /\ Reply(r, 200)
      <3> DEFINE row == Patched(r, s.id)
      <3>0. /\ row \in Row /\ row.def = s.def
            /\ row.state = "deleted" <=> Gone(s.id)
        BY <1>1, <2>1, PatchedRow DEF Gone, Exists
      <3>1. \/ wreq[r].op # "update"
            \/ workflow[s.id].def \in History(s.id) \cup {row.def}
            \/ wreq[r].read # workflow[s.id].def
            \/ ~wreq[r].kept
        BY <1>1, <1>3, <2>1, <3>0 DEF WriteSound, Gone, Exists, UpdateWrites, At
      <3>2. \E u \in WorkflowRequest : wreq' = [wreq EXCEPT ![r] = u] /\ WriteSound(u)'
        BY <2>1, Answered
      <3>3. UNCHANGED <<version, wpeak>>
        BY <1>3 DEF UpdateWrites
      <3> HIDE DEF row
      <3>4. Overwrite(r, s.id, row)
        BY <2>1 DEF row
      <3> QED
        BY <1>1, <3>0, <3>1, <3>2, <3>3, <3>4, Writes
    <2>2. CASE Reply(r, 404) /\ UNCHANGED <<workflow, forgotten>>
      BY <1>1, <1>3, <2>2, Answers DEF UpdateWrites
    <2> QED
      BY <1>3, <2>1, <2>2 DEF UpdateWrites
  <1> QED
    BY <1>2, <1>3

-----------------------------------------------------------------------------
(* The version history. *)

\* The highest of the numbers up to k.
LEMMA HighestNumber ==
  ASSUME NEW k \in Nat
  PROVE  Highest(1 .. k) = k
  <1>1. CASE k = 0
    BY <1>1 DEF Highest
  <1>2. CASE k # 0
    <2> DEFINE top == CHOOSE n \in 1 .. k : \A m \in 1 .. k : m <= n
    <2>1. k \in 1 .. k /\ \A m \in 1 .. k : m <= k
      BY <1>2
    <2>2. top \in 1 .. k /\ \A m \in 1 .. k : m <= top
      BY <2>1, Zenon
    <2>3. Highest(1 .. k) = top
      BY <2>1 DEF Highest
    <2> HIDE DEF top
    <2> QED
      BY <2>1, <2>2, <2>3
  <1> QED
    BY <1>1, <1>2

\* A version whose number is new, and at most one more than there are, makes the
\* history longer and keeps it dense.
LEMMA Appends ==
  ASSUME NEW V, Dense(V), NEW v,
         v.number \in Nat \ {0}, v.number <= Cardinality(V) + 1,
         v.number \notin {x.number : x \in V}
  PROVE  Dense(V \cup {v})
  <1> DEFINE k == Cardinality(V)
  <1>1. k \in Nat /\ IsFiniteSet(V) /\ {x.number : x \in V} = 1 .. k
    BY FS_CardinalityType DEF Dense
  <1>2. v \notin V
    OBVIOUS
  <1>3. IsFiniteSet(V \cup {v}) /\ Cardinality(V \cup {v}) = k + 1
    BY <1>1, <1>2, FS_AddElement
  <1> HIDE DEF k
  <1>4. v.number = k + 1
    BY <1>1 DEF k
  <1>5. {x.number : x \in V \cup {v}} = {x.number : x \in V} \cup {v.number}
    OBVIOUS
  <1>6. {x.number : x \in V \cup {v}} = 1 .. k + 1
    BY <1>1, <1>4, <1>5
  <1> QED
    BY <1>3, <1>6 DEF Dense

LEMMA ReadTopStep ==
  ASSUME HistoryInv, NEW r \in Request, ReadTop(r)
  PROVE  HistoryInv'
  <1> DEFINE s == wreq[r]
             top == Highest(Numbers(s.id))
             u == [s EXCEPT !.at = "snapshot", !.top = top]
  <1>1. /\ s \in WorkflowRequest /\ s.id \in WorkflowId /\ s.at = "top" /\ WriteSound(s)
        /\ wpeak \in Nat /\ Dense(version[s.id])
    BY DEF HistoryInv, WorkflowTypeOK, WorkflowRequest, VersionsDense, ReadTop, At
  <1>2. wreq' = [wreq EXCEPT ![r] = u] /\ Unstored
    BY DEF ReadTop
  <1>3. top \in Nat /\ top = Cardinality(version[s.id])
    BY <1>1, FS_CardinalityType, HighestNumber DEF Dense, Numbers
  <1> HIDE DEF s, top
  <1>4. /\ u \in WorkflowRequest /\ u.at = "snapshot" /\ u.top = top
        /\ u.id = s.id /\ u.op = s.op /\ u.read = s.read /\ u.snap = s.snap
    BY <1>1, <1>3 DEF WorkflowRequest, WorkflowAt
  <1> HIDE DEF u
  <1>5. WriteSound(u)
    BY <1>1, <1>3, <1>4 DEF WriteSound
  <1> QED
    BY <1>1, <1>2, <1>4, <1>5, Moves DEF Unstored

\* A save takes the number after the one it read: either that is free and the
\* next one, or it is refused.
LEMMA SaveSteps ==
  ASSUME HistoryInv, NEW r \in Request, SaveSnapshot(r)
  PROVE  HistoryInv'
  <1> DEFINE s == wreq[r]
             w == s.id
             n == NextNumber(s.top)
             v == [number |-> n, def |-> s.snap]
             at == AfterSnapshot(r)
             status == 200
             u == [s EXCEPT !.at = at, !.reply = status]
  <1>1. /\ s \in WorkflowRequest /\ w \in WorkflowId
        /\ s.top \in Nat /\ s.snap \in Definition
        /\ s.at = "snapshot" /\ WriteSound(s) /\ ~Gone(w)
        /\ wpeak \in Nat /\ VersionsDense
        /\ version \in [WorkflowId -> SUBSET Snapshot]
        /\ workflow \in [WorkflowId -> Row]
    BY DEF HistoryInv, WorkflowTypeOK, WorkflowRequest, SaveSnapshot, At, Exists, Gone
  <1>2. /\ n \notin Numbers(w)
        /\ version' = [version EXCEPT ![w] = @ \cup {v}]
        /\ wreq' = [wreq EXCEPT ![r] = u]
        /\ UNCHANGED <<workflow, wpeak, forgotten>>
    BY DEF SaveSnapshot
  <1>3. /\ at = "write" => s.op = "update" /\ s.snap = s.read
        /\ at \in {"write", "done"} /\ status \in Nat
    BY <1>1 DEF AfterSnapshot, Is, WriteSound
  <1>4. s.top <= Cardinality(version[w])
    BY <1>1 DEF WriteSound
  <1>5. n \in Nat \ {0} /\ n = s.top + 1
    BY <1>1 DEF NextNumber
  <1> HIDE DEF n, at, status
  <1>6. v \in Snapshot /\ v.number = n /\ v.def = s.snap
    BY <1>1, <1>5 DEF Snapshot
  <1>7. /\ u \in WorkflowRequest /\ u.at = at /\ u.op = s.op /\ u.id = w
        /\ u.read = s.read
    <2> HIDE DEF s
    <2> QED
      BY <1>1, <1>3 DEF WorkflowRequest, WorkflowAt
  <1> HIDE DEF v, u
  <1>8. /\ version' \in [WorkflowId -> SUBSET Snapshot]
        /\ version'[w] = version[w] \cup {v}
        /\ \A x \in WorkflowId \ {w} : version'[x] = version[x]
    BY <1>1, <1>2, <1>6
  <1>9. Dense(version[w] \cup {v})
    <2>1. Dense(version[w]) /\ n \notin {x.number : x \in version[w]}
      BY <1>1, <1>2 DEF VersionsDense, Numbers
    <2>2. Cardinality(version[w]) \in Nat
      BY <2>1, FS_CardinalityType DEF Dense
    <2>3. v.number \in Nat \ {0} /\ v.number <= Cardinality(version[w]) + 1
      BY <1>1, <1>4, <1>5, <1>6, <2>2
    <2> QED
      BY <1>6, <2>1, <2>3, Appends
  <1>10. VersionsDense'
    BY <1>1, <1>8, <1>9 DEF VersionsDense
  <1>11. Growing
    BY <1>1, <1>2, <1>8 DEF Growing, Gone
  <1>12. ASSUME NEW t \in WorkflowRequest, t.at = at, t.op = s.op, t.id = w,
                t.read = s.read, wreq' = [wreq EXCEPT ![r] = t]
         PROVE  HistoryInv'
    <2>1. at = "write" => t.read \in History(t.id)'
      BY <1>1, <1>3, <1>6, <1>8, <1>12 DEF History
    <2>2. WriteSound(t)'
      BY <1>3, <1>12, <2>1 DEF WriteSound
    <2>3. /\ workflow' \in [WorkflowId -> Row] /\ wpeak' \in Nat
          /\ forgotten' \subseteq Loss /\ UpdatesRemember'
      BY <1>1, <1>2 DEF HistoryInv, WorkflowTypeOK, UpdatesRemember
    <2> QED
      BY <1>8, <1>10, <1>11, <1>12, <2>2, <2>3, StoreServes
  <1> QED
    BY <1>2, <1>7, <1>12

\* A lost snapshot is remembered as such.
LEMMA Lost ==
  ASSUME NEW s \in WorkflowRequest, NEW kept \in BOOLEAN
  PROVE  [s EXCEPT !.kept = kept] \in WorkflowRequest
  BY DEF WorkflowRequest

LEMMA LoseSteps ==
  ASSUME HistoryInv, NEW r \in Request, LoseSnapshot(r)
  PROVE  HistoryInv'
  <1> DEFINE s == wreq[r]
             at == AfterSnapshot(r)
             v == [s EXCEPT !.kept = FALSE]
             n == 500
             u == [v EXCEPT !.at = at, !.reply = n]
  <1>1. s \in WorkflowRequest /\ wpeak \in Nat
    BY DEF HistoryInv, WorkflowTypeOK
  <1>2. wreq' = [wreq EXCEPT ![r] = u] /\ Unstored
    BY DEF LoseSnapshot
  <1>3. at \in {"write", "done"} /\ n \in Nat
    BY DEF AfterSnapshot
  <1> HIDE DEF s, at, n
  <1>4. v \in WorkflowRequest
    BY <1>1, Lost
  <1>5. ~v.kept
    BY <1>1 DEF WorkflowRequest
  <1> HIDE DEF v
  <1>6. u \in WorkflowRequest /\ u.at = at
    BY <1>3, <1>4 DEF WorkflowRequest, WorkflowAt
  <1>7. ~u.kept
    BY <1>4, <1>5 DEF WorkflowRequest
  <1> HIDE DEF u
  <1>8. WriteSound(u)
    BY <1>3, <1>6, <1>7 DEF WriteSound
  <1> QED
    BY <1>1, <1>2, <1>6, <1>8, Moves DEF Unstored

-----------------------------------------------------------------------------
(* The revert and the deletion. *)

LEMMA Reverted ==
  ASSUME NEW old \in Row, NEW def \in Definition, NEW n \in Nat
  PROVE  LET row == [old EXCEPT !.def = def, !.version = n]
         IN  row \in Row /\ row.state = old.state /\ row.metered = old.metered
  BY DEF Row

LEMMA RevertSteps ==
  ASSUME HistoryInv, NEW r \in Request,
         RevertReads(r) \/ RevertFetches(r) \/ RevertAffords(r) \/ RevertWrites(r)
  PROVE  HistoryInv'
  <1> DEFINE s == wreq[r]
  <1>1. /\ s \in WorkflowRequest /\ s.id \in WorkflowId /\ s.snap \in Definition
        /\ s.top + 1 \in Nat /\ wpeak \in Nat
        /\ workflow[s.id].version \in Nat /\ workflow[s.id] \in Row
        /\ version \in [WorkflowId -> SUBSET Snapshot]
        /\ WriteSound(s)
    BY DEF HistoryInv, WorkflowTypeOK, WorkflowRequest, Row
  <1>2. CASE RevertReads(r)
    <2>1. CASE Reply(r, 404)
      BY <1>1, <1>2, <2>1, Answers DEF RevertReads, Unstored
    <2>2. CASE wreq' = [wreq EXCEPT ![r].at = "target",
                                    ![r].top = workflow[s.id].version]
      <3> DEFINE n == workflow[s.id].version
                 u == [s EXCEPT !.at = "target", !.top = n]
      <3>1. wreq' = [wreq EXCEPT ![r] = u] /\ s.op = "revert" /\ n \in Nat
        BY <1>1, <1>2, <2>2 DEF RevertReads, Is
      <3> HIDE DEF s, n
      <3>2. u \in WorkflowRequest /\ u.at = "target" /\ u.op = s.op
        BY <1>1, <3>1 DEF WorkflowRequest, WorkflowAt
      <3> HIDE DEF u
      <3> QED
        BY <1>1, <1>2, <3>1, <3>2, Moves DEF RevertReads, Unstored, WriteSound
    <2> QED
      BY <1>2, <2>1, <2>2 DEF RevertReads
  <1>3. CASE RevertFetches(r)
    <2>1. CASE Reply(r, 404)
      BY <1>1, <1>3, <2>1, Answers DEF RevertFetches, Unstored
    <2>2. ASSUME NEW v \in version[s.id],
                 wreq' = [wreq EXCEPT ![r].at = "afford", ![r].snap = v.def]
          PROVE  HistoryInv'
      <3> DEFINE def == v.def
                 u == [s EXCEPT !.at = "afford", !.snap = def]
      <3>1. wreq' = [wreq EXCEPT ![r] = u]
        BY <2>2
      <3>2. s.op = "revert"
        BY <1>1, <1>3 DEF RevertFetches, At, WriteSound
      <3>3. def \in Definition
        BY <1>1, <2>2 DEF Snapshot
      <3> HIDE DEF s, def
      <3>4. u \in WorkflowRequest /\ u.at = "afford" /\ u.op = s.op
        BY <1>1, <3>3 DEF WorkflowRequest, WorkflowAt
      <3> HIDE DEF u
      <3> QED
        BY <1>1, <1>3, <3>1, <3>2, <3>4, Moves DEF RevertFetches, Unstored, WriteSound
    <2> QED
      BY <1>3, <2>1, <2>2 DEF RevertFetches
  <1>4. CASE RevertAffords(r)
    <2>1. s.op = "revert"
      BY <1>1, <1>4 DEF RevertAffords, At, WriteSound
    <2> QED
      BY <1>1, <1>4, <2>1, GoesOn, Answers DEF RevertAffords, Unstored, WorkflowAt
  <1>5. CASE RevertWrites(r)
    <2>1. s.op = "revert" /\ Goto(r, "top") /\ UNCHANGED <<version, wpeak>>
      BY <1>1, <1>5 DEF RevertWrites, At, WriteSound
    <2>2. CASE Overwrite(r, s.id, [workflow[s.id] EXCEPT !.def = s.snap,
                                                         !.version = s.top + 1])
      <3> DEFINE row == [workflow[s.id] EXCEPT !.def = s.snap, !.version = s.top + 1]
      <3>4. workflow[s.id] \in Row /\ s.snap \in Definition /\ s.top + 1 \in Nat
        BY <1>1 DEF HistoryInv, WorkflowTypeOK
      <3>5. row \in Row /\ row.state = workflow[s.id].state
        BY <3>4, Reverted
      <3>2. row \in Row /\ (row.state = "deleted" <=> Gone(s.id))
        BY <3>5 DEF Gone
      <3> HIDE DEF row
      <3>3. Overwrite(r, s.id, row)
        BY <2>2 DEF row
      <3>1. \E u \in WorkflowRequest : wreq' = [wreq EXCEPT ![r] = u] /\ WriteSound(u)'
        BY <2>1, Goes DEF WorkflowAt
      <3> QED
        BY <1>1, <2>1, <3>1, <3>2, <3>3, Writes
    <2>3. CASE UNCHANGED <<workflow, forgotten>>
      BY <1>1, <2>1, <2>3, GoesOn DEF WorkflowAt
    <2> QED
      BY <1>5, <2>2, <2>3 DEF RevertWrites
  <1> QED
    BY <1>2, <1>3, <1>4, <1>5

\* The versions of a deleted workflow go with it, and it does not come back.
LEMMA DeleteSteps ==
  ASSUME HistoryInv, NEW r \in Request, DeleteReads(r) \/ DeleteRemoves(r)
  PROVE  HistoryInv'
  <1> DEFINE s == wreq[r]
             w == s.id
  <1>1. /\ w \in WorkflowId /\ wpeak \in Nat
        /\ workflow \in [WorkflowId -> Row]
        /\ version \in [WorkflowId -> SUBSET Snapshot]
        /\ VersionsDense
    BY DEF HistoryInv, WorkflowTypeOK, WorkflowRequest
  <1>2. CASE DeleteReads(r)
    BY <1>1, <1>2, GoesOn, Answers DEF DeleteReads, Unstored, WorkflowAt
  <1>3. CASE DeleteRemoves(r)
    <2> DEFINE old == workflow[w]
               row == [old EXCEPT !.state = "deleted"]
    <2>1. /\ workflow' = [workflow EXCEPT ![w] = row]
          /\ version' = [version EXCEPT ![w] = {}]
          /\ Reply(r, 200) /\ UNCHANGED <<wpeak, forgotten>>
          /\ old \in Row
      BY <1>1, <1>3 DEF DeleteRemoves
    <2> HIDE DEF old
    <2>2. row \in Row /\ row.state = "deleted"
      BY <2>1 DEF Row
    <2> HIDE DEF row
    <2>3. /\ workflow' \in [WorkflowId -> Row]
          /\ workflow'[w].state = "deleted"
          /\ \A x \in WorkflowId \ {w} : workflow'[x] = workflow[x]
          /\ version' \in [WorkflowId -> SUBSET Snapshot]
          /\ version'[w] = {}
          /\ \A x \in WorkflowId \ {w} : version'[x] = version[x]
      BY <1>1, <2>1, <2>2
    <2>4. Growing
      BY <2>3 DEF Growing, Gone
    <2>5. Dense({})
      BY FS_EmptySet DEF Dense
    <2>6. VersionsDense'
      BY <1>1, <2>3, <2>5 DEF VersionsDense
    <2>7. wpeak' \in Nat /\ forgotten' \subseteq Loss /\ UpdatesRemember'
      BY <1>1, <2>1 DEF HistoryInv, WorkflowTypeOK, UpdatesRemember
    <2> QED
      BY <2>1, <2>3, <2>4, <2>6, <2>7, Answered, StoreServes
  <1> QED
    BY <1>2, <1>3

-----------------------------------------------------------------------------
LEMMA HistoryStart ==
  ASSUME WorkflowInit
  PROVE  HistoryInv
  <1>1. /\ workflow \in [WorkflowId -> Row]
        /\ version \in [WorkflowId -> SUBSET Snapshot]
        /\ wpeak = 0 /\ forgotten = {}
        /\ \A w \in WorkflowId : Dense(version[w])
        /\ wreq \in [Request -> WorkflowRequest]
        /\ \A r \in Request : wreq[r].at \in {"start", "done"}
    BY StoreAssumption DEF WorkflowInit, WorkflowStart
  <1> QED
    BY <1>1 DEF HistoryInv, WorkflowTypeOK, VersionsDense, UpdatesRemember, WriteSound

\* Every step of the store keeps the invariant.
LEMMA HistoryStep ==
  ASSUME HistoryInv, [WorkflowNext]_storeVars
  PROVE  HistoryInv'
  <1>1. ASSUME NEW r \in Request, ServeWorkflow(r)
        PROVE  HistoryInv'
    BY <1>1, CreationSteps, UpsertSteps, UpdateSteps, ReadTopStep, SaveSteps,
       LoseSteps, RevertSteps, DeleteSteps DEF ServeWorkflow
  <1>2. CASE UNCHANGED storeVars
    BY <1>2 DEF storeVars, HistoryInv, WorkflowTypeOK, VersionsDense, UpdatesRemember,
                WriteSound, Gone, History
  <1> QED
    BY <1>1, <1>2 DEF WorkflowNext

\* The histories and what the requests carry between their reads and writes.
THEOREM HistoryInvariant == WorkflowSpec => []HistoryInv
  <1>1. WorkflowInit => HistoryInv
    BY HistoryStart
  <1>2. HistoryInv /\ [WorkflowNext]_storeVars => HistoryInv'
    BY HistoryStep
  <1> QED
    BY <1>1, <1>2, PTL DEF WorkflowSpec

\* Every variable of the store keeps its type.
THEOREM StoreTypes == WorkflowSpec => []WorkflowTypeOK
  <1>1. HistoryInv => WorkflowTypeOK
    BY DEF HistoryInv
  <1> QED
    BY <1>1, HistoryInvariant, PTL

\* However saves, reverts, updates and deletions interleave, the versions of a
\* workflow are numbered 1, 2, 3, ...
THEOREM HistoriesDense == WorkflowSpec => []VersionsDense
  <1>1. HistoryInv => VersionsDense
    BY DEF HistoryInv
  <1> QED
    BY <1>1, HistoryInvariant, PTL

\* An update that forgets a definition read another one, or lost its snapshot.
THEOREM UpdatesKeep == WorkflowSpec => []UpdatesRemember
  <1>1. HistoryInv => UpdatesRemember
    BY DEF HistoryInv
  <1> QED
    BY <1>1, HistoryInvariant, PTL

-----------------------------------------------------------------------------
(* The plan's limit. *)

\* The inserts in flight never outnumber the most there were at once, and with
\* the workflows they keep to the limit and that excess: what WorkflowLimitHeld
\* alone does not say of an insert that is still to come.
Begun ==
    Cardinality({w \in WorkflowId : /\ InitialWorkflow[w].state = "live"
                                    /\ InitialWorkflow[w].metered})

Spare ==
    /\ Cardinality(Inserting) <= wpeak
    /\ \A m \in LimitRead : Bounding(m) =>
         \/ Cardinality(CountedWorkflows) + Cardinality(Inserting) <= Begun
         \/ Cardinality(CountedWorkflows) + Cardinality(Inserting) + 1 <= m + wpeak

RoomInv == HistoryInv /\ Spare

LEMMA Finite ==
  /\ IsFiniteSet(LiveWorkflows) /\ Cardinality(LiveWorkflows) \in Nat
  /\ IsFiniteSet(CountedWorkflows) /\ Cardinality(CountedWorkflows) \in Nat
  /\ Cardinality(CountedWorkflows) <= Cardinality(LiveWorkflows)
  /\ IsFiniteSet(Inserting) /\ Cardinality(Inserting) \in Nat
  /\ Begun \in Nat
  <1>1. /\ LiveWorkflows \in SUBSET WorkflowId /\ Inserting \in SUBSET Request
        /\ CountedWorkflows \in SUBSET LiveWorkflows
        /\ {w \in WorkflowId : /\ InitialWorkflow[w].state = "live"
                               /\ InitialWorkflow[w].metered} \in SUBSET WorkflowId
    BY DEF LiveWorkflows, CountedWorkflows, Inserting
  <1> QED
    BY <1>1, PlanAssumption, StoreAssumption, FS_Subset, FS_CardinalityType DEF Begun

\* A step of r that neither starts nor ends an insert, nor adds a workflow that
\* counts, takes no room.
Aside(r) ==
    /\ wreq[r].at # "insert" /\ wreq'[r].at # "insert"
    /\ \A q \in Request \ {r} : wreq'[q] = wreq[q]
    /\ CountedWorkflows' \subseteq CountedWorkflows
    /\ wpeak' = wpeak

LEMMA NoRoom ==
  ASSUME HistoryInv, Spare, NEW r \in Request, Aside(r)
  PROVE  Spare'
  <1>1. Inserting' = Inserting /\ wpeak' = wpeak
    BY DEF Aside, Inserting, At
  <1>2. /\ Cardinality(CountedWorkflows') <= Cardinality(CountedWorkflows)
        /\ Cardinality(CountedWorkflows') \in Nat
    BY Finite, FS_Subset, FS_CardinalityType DEF Aside
  <1>3. wpeak \in Nat
    BY DEF HistoryInv, WorkflowTypeOK
  <1> QED
    BY <1>1, <1>2, <1>3, Finite DEF Spare, Bounding

\* The rows that count are the same where the rows are.
LEMMA SameRoom ==
  ASSUME UNCHANGED workflow
  PROVE  CountedWorkflows' = CountedWorkflows /\ LiveWorkflows' = LiveWorkflows
  BY DEF CountedWorkflows, LiveWorkflows, Live

LEMMA AnswersAside ==
  ASSUME HistoryInv, NEW r \in Request, NEW n, Reply(r, n), wreq[r].at # "insert",
         CountedWorkflows' \subseteq CountedWorkflows, wpeak' = wpeak
  PROVE  Aside(r)
  <1>1. wreq \in [Request -> WorkflowRequest]
    BY DEF HistoryInv, WorkflowTypeOK
  <1>2. /\ wreq'[r].at = "done"
        /\ \A q \in Request \ {r} : wreq'[q] = wreq[q]
    BY <1>1 DEF Reply, WorkflowRequest
  <1> QED
    BY <1>2 DEF Aside

LEMMA GoesAside ==
  ASSUME HistoryInv, NEW r \in Request, NEW step, step # "insert", Goto(r, step),
         wreq[r].at # "insert",
         CountedWorkflows' \subseteq CountedWorkflows, wpeak' = wpeak
  PROVE  Aside(r)
  <1>1. wreq \in [Request -> WorkflowRequest]
    BY DEF HistoryInv, WorkflowTypeOK
  <1>2. /\ wreq'[r].at = step
        /\ \A q \in Request \ {r} : wreq'[q] = wreq[q]
    BY <1>1 DEF Goto, WorkflowRequest
  <1> QED
    BY <1>2 DEF Aside

LEMMA WritesAside ==
  ASSUME HistoryInv, NEW r, NEW w \in WorkflowId, NEW row,
         row.state = "live" /\ row.metered =>
           workflow[w].state = "live" /\ workflow[w].metered,
         Overwrite(r, w, row)
  PROVE  CountedWorkflows' \subseteq CountedWorkflows
  <1>1. workflow \in [WorkflowId -> Row]
    BY DEF HistoryInv, WorkflowTypeOK
  <1> QED
    BY <1>1 DEF Overwrite, CountedWorkflows, LiveWorkflows, Live

\* Everything but the check and the insert.
LEMMA OtherSteps ==
  ASSUME HistoryInv, NEW r \in Request, ServeWorkflow(r),
         ~CheckWorkflowLimit(r), ~InsertWorkflow(r)
  PROVE  Aside(r)
  <1>1. /\ wreq \in [Request -> WorkflowRequest] /\ wreq[r].id \in WorkflowId
        /\ AfterSnapshot(r) # "insert"
    BY DEF HistoryInv, WorkflowTypeOK, WorkflowRequest, AfterSnapshot
  <1>0. UNCHANGED workflow => CountedWorkflows' \subseteq CountedWorkflows
    BY SameRoom
  <1>2. ASSUME NEW u, u.at # "insert", wreq' = [wreq EXCEPT ![r] = u],
               wreq[r].at # "insert", UNCHANGED <<workflow, wpeak>>
        PROVE  Aside(r)
    BY <1>0, <1>1, <1>2 DEF Aside
  <1>3. CASE RefuseWorkflow(r) \/ CreateStarts(r)
    BY <1>0, <1>3, AnswersAside, GoesAside DEF RefuseWorkflow, CreateStarts, Unstored, At
  <1>4. CASE PutFinds(r)
    <2>1. wreq[r].at # "insert" /\ UNCHANGED <<workflow, wpeak>>
      BY <1>4 DEF PutFinds, Unstored, At
    <2>2. CASE Goto(r, "check")
      BY <1>0, <2>1, <2>2, GoesAside
    <2>3. ASSUME NEW w, wreq' = [wreq EXCEPT ![r].at = "overwrite", ![r].id = w]
          PROVE  Aside(r)
      <3> DEFINE u == [wreq[r] EXCEPT !.at = "overwrite", !.id = w]
      <3>1. wreq' = [wreq EXCEPT ![r] = u]
        BY <2>3
      <3>2. u.at # "insert"
        BY <1>1 DEF WorkflowRequest
      <3> HIDE DEF u
      <3> QED
        BY <1>2, <2>1, <3>1, <3>2
    <2> QED
      BY <1>4, <2>2, <2>3 DEF PutFinds
  <1>5. CASE CloneReads(r)
    <2>1. wreq[r].at # "insert" /\ UNCHANGED <<workflow, wpeak>>
      BY <1>5 DEF CloneReads, Unstored, At
    <2>2. CASE Reply(r, 404)
      BY <1>0, <2>1, <2>2, AnswersAside
    <2>3. ASSUME NEW def, NEW name,
                 wreq' = [wreq EXCEPT ![r].at = "check", ![r].def = def,
                                      ![r].name = name]
          PROVE  Aside(r)
      <3> DEFINE u == [wreq[r] EXCEPT !.at = "check", !.def = def, !.name = name]
      <3>1. wreq' = [wreq EXCEPT ![r] = u]
        BY <2>3
      <3>2. u.at # "insert"
        BY <1>1 DEF WorkflowRequest
      <3> HIDE DEF u
      <3> QED
        BY <1>2, <2>1, <3>1, <3>2
    <2> QED
      BY <1>5, <2>2, <2>3 DEF CloneReads
  <1>6. CASE PutOverwrites(r) \/ UpdateWrites(r) \/ RevertWrites(r)
    <2> DEFINE s == wreq[r]
    <2>0. /\ workflow[s.id] \in Row /\ s \in WorkflowRequest
          /\ s.def \in Definition /\ s.snap \in Definition /\ s.top + 1 \in Nat
      BY <1>1 DEF HistoryInv, WorkflowTypeOK, WorkflowRequest
    <2>1. /\ s.at # "insert" /\ UNCHANGED wpeak
          /\ (\E n : Reply(r, n)) \/ Goto(r, "top")
      BY <1>6 DEF PutOverwrites, UpdateWrites, RevertWrites, At
    <2>2. \/ Overwrite(r, s.id, [workflow[s.id] EXCEPT !.def = s.def])
          \/ Exists(s.id) /\ Overwrite(r, s.id, Patched(r, s.id))
          \/ Overwrite(r, s.id, [workflow[s.id] EXCEPT !.def = s.snap,
                                                       !.version = s.top + 1])
          \/ UNCHANGED workflow
      BY <1>6 DEF PutOverwrites, UpdateWrites, RevertWrites
    <2>3. CountedWorkflows' \subseteq CountedWorkflows
      <3>1. CASE Overwrite(r, s.id, [workflow[s.id] EXCEPT !.def = s.def])
        <4> DEFINE row == [workflow[s.id] EXCEPT !.def = s.def]
        <4>1. /\ row.state = workflow[s.id].state
              /\ row.metered = workflow[s.id].metered
          BY <2>0, Redefined
        <4>2. Overwrite(r, s.id, row)
          BY <3>1
        <4> HIDE DEF row
        <4> QED
          BY <1>1, <4>1, <4>2, WritesAside
      <3>2. CASE Exists(s.id) /\ Overwrite(r, s.id, Patched(r, s.id))
        BY <1>1, <2>0, <3>2, PatchedRow, WritesAside
      <3>3. CASE Overwrite(r, s.id, [workflow[s.id] EXCEPT !.def = s.snap,
                                                          !.version = s.top + 1])
        <4> DEFINE row == [workflow[s.id] EXCEPT !.def = s.snap, !.version = s.top + 1]
        <4>1. /\ row.state = workflow[s.id].state
              /\ row.metered = workflow[s.id].metered
          BY <2>0, Reverted
        <4>2. Overwrite(r, s.id, row)
          BY <3>3
        <4> HIDE DEF row
        <4> QED
          BY <1>1, <4>1, <4>2, WritesAside
      <3> QED
        BY <1>0, <2>2, <3>1, <3>2, <3>3
    <2> QED
      BY <2>1, <2>3, AnswersAside, GoesAside
  <1>7. CASE UpdateReads(r)
    <2>1. wreq[r].at # "insert" /\ UNCHANGED <<workflow, wpeak>>
      BY <1>7 DEF UpdateReads, Unstored, At
    <2>2. CASE Reply(r, 404)
      BY <1>0, <2>1, <2>2, AnswersAside
    <2>3. ASSUME NEW def, NEW at, at # "insert",
                 wreq' = [wreq EXCEPT ![r].read = def, ![r].snap = def, ![r].at = at]
          PROVE  Aside(r)
      <3> DEFINE u == [wreq[r] EXCEPT !.read = def, !.snap = def, !.at = at]
      <3>1. wreq' = [wreq EXCEPT ![r] = u]
        BY <2>3
      <3>2. u.at # "insert"
        BY <1>1, <2>3 DEF WorkflowRequest
      <3> HIDE DEF u
      <3> QED
        BY <1>2, <2>1, <3>1, <3>2
    <2>4. (IF wreq[r].def = workflow[wreq[r].id].def THEN "write" ELSE "top") # "insert"
      OBVIOUS
    <2> QED
      BY <1>7, <2>2, <2>3, <2>4 DEF UpdateReads
  <1>8. CASE ReadTop(r) \/ RevertReads(r)
    <2>1. wreq[r].at # "insert" /\ UNCHANGED <<workflow, wpeak>>
      BY <1>8 DEF ReadTop, RevertReads, Unstored, At
    <2>2. CASE Reply(r, 404)
      BY <1>0, <2>1, <2>2, AnswersAside
    <2>3. ASSUME NEW at \in {"snapshot", "target"}, NEW n,
                 wreq' = [wreq EXCEPT ![r].at = at, ![r].top = n]
          PROVE  Aside(r)
      <3> DEFINE u == [wreq[r] EXCEPT !.at = at, !.top = n]
      <3>1. wreq' = [wreq EXCEPT ![r] = u]
        BY <2>3
      <3>2. u.at # "insert"
        BY <1>1 DEF WorkflowRequest
      <3> HIDE DEF u
      <3> QED
        BY <1>2, <2>1, <3>1, <3>2
    <2> QED
      BY <1>8, <2>2, <2>3 DEF ReadTop, RevertReads
  <1>9. CASE SaveSnapshot(r)
    <2> DEFINE u == [wreq[r] EXCEPT !.at = AfterSnapshot(r), !.reply = 200]
    <2>1. wreq[r].at # "insert" /\ UNCHANGED <<workflow, wpeak>>
      BY <1>9 DEF SaveSnapshot, At
    <2>2. wreq' = [wreq EXCEPT ![r] = u]
      BY <1>9 DEF SaveSnapshot
    <2>3. u.at # "insert"
      BY <1>1 DEF WorkflowRequest
    <2> HIDE DEF u
    <2> QED
      BY <1>2, <2>1, <2>2, <2>3
  <1>10. CASE LoseSnapshot(r)
    <2> DEFINE u == [wreq[r] EXCEPT !.kept = FALSE, !.at = AfterSnapshot(r),
                                    !.reply = 500]
    <2>1. wreq[r].at # "insert" /\ UNCHANGED <<workflow, wpeak>>
      BY <1>10 DEF LoseSnapshot, At, Unstored
    <2>2. wreq' = [wreq EXCEPT ![r] = u]
      BY <1>10 DEF LoseSnapshot
    <2>3. u.at # "insert"
      BY <1>1 DEF WorkflowRequest
    <2> HIDE DEF u
    <2> QED
      BY <1>2, <2>1, <2>2, <2>3
  <1>11. CASE RevertFetches(r)
    <2>1. wreq[r].at # "insert" /\ UNCHANGED <<workflow, wpeak>>
      BY <1>11 DEF RevertFetches, Unstored, At
    <2>2. CASE Reply(r, 404)
      BY <1>0, <2>1, <2>2, AnswersAside
    <2>3. ASSUME NEW def,
                 wreq' = [wreq EXCEPT ![r].at = "afford", ![r].snap = def]
          PROVE  Aside(r)
      <3> DEFINE u == [wreq[r] EXCEPT !.at = "afford", !.snap = def]
      <3>1. wreq' = [wreq EXCEPT ![r] = u]
        BY <2>3
      <3>2. u.at # "insert"
        BY <1>1 DEF WorkflowRequest
      <3> HIDE DEF u
      <3> QED
        BY <1>2, <2>1, <3>1, <3>2
    <2> QED
      BY <1>11, <2>2, <2>3 DEF RevertFetches
  <1>12. CASE RevertAffords(r) \/ DeleteReads(r)
    BY <1>0, <1>12, AnswersAside, GoesAside DEF RevertAffords, DeleteReads, Unstored, At
  <1>13. CASE DeleteRemoves(r)
    <2>1. /\ wreq[r].at # "insert" /\ UNCHANGED wpeak /\ Reply(r, 200)
          /\ workflow' = [workflow EXCEPT ![wreq[r].id].state = "deleted"]
      BY <1>13 DEF DeleteRemoves, At
    <2>2. workflow \in [WorkflowId -> Row]
      BY DEF HistoryInv, WorkflowTypeOK
    <2>3. CountedWorkflows' \subseteq CountedWorkflows
      BY <1>1, <2>1, <2>2 DEF CountedWorkflows, LiveWorkflows, Live, Row
    <2> QED
      BY <2>1, <2>3, AnswersAside
  <1> QED
    BY <1>3, <1>4, <1>5, <1>6, <1>7, <1>8, <1>9, <1>10, <1>11, <1>12, <1>13
       DEF ServeWorkflow

-----------------------------------------------------------------------------
\* A check that passes finds fewer workflows than any limit allows.
LEMMA CheckKeepsRoom ==
  ASSUME RoomInv, NEW r \in Request, CheckWorkflowLimit(r)
  PROVE  Spare'
  <1>1. /\ wreq \in [Request -> WorkflowRequest] /\ wreq[r].at = "check"
        /\ wpeak \in Nat /\ HistoryInv /\ Spare
        /\ CountedWorkflows' = CountedWorkflows
    BY SameRoom DEF RoomInv, HistoryInv, WorkflowTypeOK, CheckWorkflowLimit, At
  <1>2. CASE Reply(r, 403) /\ UNCHANGED wpeak
    BY <1>1, <1>2, AnswersAside, NoRoom
  <1>3. ASSUME NEW limit \in LimitRead,
               UnderLimit(limit, Cardinality(LiveWorkflows)), Goto(r, "insert"),
               wpeak' = IF Cardinality(Inserting) < wpeak THEN wpeak
                                               ELSE Cardinality(Inserting) + 1
        PROVE  Spare'
    <2> DEFINE all == Cardinality(LiveWorkflows)
               rows == Cardinality(CountedWorkflows)
               n == Cardinality(Inserting)
    <2>2. Inserting' = Inserting \cup {r} /\ r \notin Inserting
      <3>1. /\ wreq'[r].at = "insert"
            /\ \A q \in Request \ {r} : wreq'[q] = wreq[q]
        BY <1>1, <1>3 DEF Goto, WorkflowRequest
      <3> QED
        BY <1>1, <3>1 DEF Inserting, At
    <2>3. /\ Cardinality(Inserting') = n + 1 /\ n \in Nat
          /\ rows \in Nat /\ all \in Nat /\ rows <= all
      BY <2>2, Finite, FS_AddElement
    <2>4. Cardinality(CountedWorkflows') = rows
      BY <1>1
    <2>5. ASSUME NEW m \in LimitRead, Bounding(m)
          PROVE  m \in Nat /\ rows + 1 <= m
      <3>1. m \in Nat /\ all + 1 <= m
        BY <1>3, <2>3, <2>5 DEF Bounding, UnderLimit, Unlimited
      <3> QED
        BY <2>3, <3>1
    <2>6. wpeak' \in Nat /\ n + 1 <= wpeak'
      BY <1>1, <1>3, <2>3
    <2> HIDE DEF all, rows, n
    <2>7. ASSUME NEW m \in LimitRead, Bounding(m)
          PROVE  rows + (n + 1) + 1 <= m + wpeak'
      BY <2>3, <2>5, <2>6, <2>7
    <2> QED
      BY <2>3, <2>4, <2>6, <2>7 DEF Spare, Bounding
  <1> QED
    BY <1>2, <1>3 DEF CheckWorkflowLimit

\* An insert turns the room that was made for it into a workflow.
LEMMA InsertKeepsRoom ==
  ASSUME RoomInv, NEW r \in Request, InsertWorkflow(r)
  PROVE  Spare'
  <1>1. /\ wreq \in [Request -> WorkflowRequest] /\ r \in Inserting
        /\ wpeak \in Nat /\ wpeak' = wpeak /\ Spare
        /\ workflow \in [WorkflowId -> Row]
    BY DEF RoomInv, HistoryInv, WorkflowTypeOK, InsertWorkflow, Inserting
  <1>2. PICK w \in WorkflowId :
          /\ workflow[w].state = "unborn"
          /\ workflow' = [workflow EXCEPT ![w] =
                            [state |-> "live", name |-> wreq[r].name,
                             def |-> wreq[r].def, version |-> 1,
                             metered |-> TRUE]]
          /\ wreq' = [wreq EXCEPT ![r] = [wreq[r] EXCEPT !.at = "done", !.id = w,
                                                       !.reply = 200]]
    BY DEF InsertWorkflow
  <1>3. /\ CountedWorkflows' = CountedWorkflows \cup {w}
        /\ w \notin CountedWorkflows
    BY <1>1, <1>2 DEF CountedWorkflows, LiveWorkflows, Live
  <1>4. Inserting' = Inserting \ {r}
    <2> DEFINE u == [wreq[r] EXCEPT !.at = "done", !.id = w, !.reply = 200]
    <2>1. wreq' = [wreq EXCEPT ![r] = u]
      BY <1>2
    <2>2. u.at = "done"
      BY <1>1 DEF WorkflowRequest
    <2> HIDE DEF u
    <2> QED
      BY <1>1, <2>1, <2>2 DEF Inserting, At
  <1>5. /\ Cardinality(CountedWorkflows') = Cardinality(CountedWorkflows) + 1
        /\ Cardinality(Inserting') = Cardinality(Inserting) - 1
    BY <1>1, <1>3, <1>4, Finite, FS_AddElement, FS_RemoveElement
  <1> QED
    BY <1>1, <1>5, Finite DEF Spare, Bounding

LEMMA RoomStep ==
  ASSUME RoomInv, [WorkflowNext]_storeVars
  PROVE  RoomInv'
  <1>1. HistoryInv' /\ HistoryInv /\ Spare
    BY HistoryStep DEF RoomInv
  <1>2. ASSUME NEW r \in Request, ServeWorkflow(r)
        PROVE  Spare'
    BY <1>1, <1>2, CheckKeepsRoom, InsertKeepsRoom, OtherSteps, NoRoom
  <1>3. ASSUME UNCHANGED storeVars
        PROVE  Spare'
    BY <1>1, <1>3, SameRoom DEF storeVars, Spare, Inserting, At
  <1>4. Spare'
    BY <1>2, <1>3 DEF WorkflowNext
  <1> QED
    BY <1>1, <1>4 DEF RoomInv

LEMMA RoomStart ==
  ASSUME WorkflowInit
  PROVE  RoomInv
  <1>1. HistoryInv
    BY HistoryStart
  <1>2. Inserting = {} /\ wpeak = 0
    BY StoreAssumption DEF WorkflowInit, WorkflowStart, Inserting, At
  <1>3. Cardinality(CountedWorkflows) = Begun
    <2>1. CountedWorkflows = {w \in WorkflowId : /\ InitialWorkflow[w].state = "live"
                                                 /\ InitialWorkflow[w].metered}
      BY DEF WorkflowInit, WorkflowStart, CountedWorkflows, LiveWorkflows, Live
    <2> QED
      BY <2>1 DEF Begun
  <1> QED
    BY <1>1, <1>2, <1>3, Finite, FS_EmptySet DEF RoomInv, Spare

\* Creations that overlap exceed the plan by at most the inserts that were in
\* flight at once less one, whatever limits they read; what updates moved here
\* from other organizations comes on top.
THEOREM LimitHolds == WorkflowSpec => []WorkflowLimitHeld
  <1>1. WorkflowInit => RoomInv
    BY RoomStart
  <1>2. RoomInv /\ [WorkflowNext]_storeVars => RoomInv'
    BY RoomStep
  <1>3. RoomInv => WorkflowLimitHeld
    <2>1. ASSUME RoomInv, NEW m \in LimitRead, Bounding(m)
          PROVE  \/ Cardinality(CountedWorkflows) <= Begun
                 \/ Cardinality(CountedWorkflows) + 1 <= m + wpeak
      BY <2>1, Finite DEF RoomInv, HistoryInv, WorkflowTypeOK, Spare, Bounding
    <2> QED
      BY <2>1 DEF WorkflowLimitHeld, Begun
  <1> QED
    BY <1>1, <1>2, <1>3, PTL DEF WorkflowSpec

-----------------------------------------------------------------------------
(* EXECUTIONS *)

\* The runs that are counted and those that are still promised keep to the
\* allowance and its excess: what QuotaHeld does not say of the runs to come.
Allowance ==
    \A m \in LimitRead : Bounding(m) =>
        Cardinality(CountedRuns) + Cardinality(Promised(Request)) <= m + ahead + beyond

\* A request that inserts has a run to insert, and no more than it asked for.
Laden(u) == u.left > 0 /\ (u.op = "s3" => u.left <= u.records)

QuotaInv ==
    /\ QuotaTypeOK
    /\ \A r \in Request : qreq[r].at = "insert" => Laden(qreq[r])
    /\ Allowance

-----------------------------------------------------------------------------
LEMMA AdmittedType ==
  ASSUME QuotaTypeOK, NEW r \in Request
  PROVE  /\ Admitted(r) \in 0 .. MaxRecords /\ MaxRecords \in Nat \ {0}
         /\ qreq[r] \in QuotaRequest
  <1>1. qreq[r] \in QuotaRequest /\ MaxRecords \in Nat \ {0}
    BY QuotaAssumption DEF QuotaTypeOK
  <1>2. qreq[r].left \in 0 .. MaxRecords
    BY <1>1 DEF QuotaRequest
  <1> QED
    BY <1>1, <1>2 DEF Admitted

LEMMA BoxFinite ==
  ASSUME NEW R \in SUBSET Request, NEW S \in SUBSET (R \X (1 .. MaxRecords))
  PROVE  IsFiniteSet(S) /\ Cardinality(S) \in Nat
  <1>1. IsFiniteSet(R)
    BY PlanAssumption, FS_Subset
  <1>2. IsFiniteSet(1 .. MaxRecords)
    BY QuotaAssumption, FS_Interval
  <1>3. IsFiniteSet(R \X (1 .. MaxRecords))
    BY <1>1, <1>2, FS_Product
  <1> QED
    BY <1>3, FS_Subset, FS_CardinalityType

LEMMA BoxSize ==
  ASSUME NEW r, NEW n \in Nat, NEW S \in SUBSET ({r} \X (1 .. n))
  PROVE  IsFiniteSet(S) /\ Cardinality(S) \in Nat /\ Cardinality(S) <= n
  <1>1. IsFiniteSet({r}) /\ Cardinality({r}) = 1
    BY FS_Singleton
  <1>2. IsFiniteSet(1 .. n) /\ Cardinality(1 .. n) = n /\ 1 * n = n
    BY FS_Interval
  <1>3. IsFiniteSet({r} \X (1 .. n)) /\ Cardinality({r} \X (1 .. n)) = n
    <2>1. /\ IsFiniteSet({r} \X (1 .. n))
          /\ Cardinality({r} \X (1 .. n)) = Cardinality({r}) * Cardinality(1 .. n)
      BY <1>1, <1>2, FS_Product
    <2>2. Cardinality({r}) * Cardinality(1 .. n) = 1 * n
      BY <1>1, <1>2, Zenon
    <2> QED
      BY <1>2, <2>1, <2>2
  <1> QED
    BY <1>3, FS_Subset, FS_CardinalityType

LEMMA PromisedFinite ==
  ASSUME NEW R \in SUBSET Request
  PROVE  /\ IsFiniteSet(Promised(R)) /\ Cardinality(Promised(R)) \in Nat
         /\ IsFiniteSet(Promised(R)') /\ Cardinality(Promised(R)') \in Nat
  <1>1. /\ Promised(R) \in SUBSET (R \X (1 .. MaxRecords))
        /\ Promised(R)' \in SUBSET (R \X (1 .. MaxRecords))
    BY DEF Promised
  <1> QED
    BY <1>1, BoxFinite

\* What is promised depends on what each request has admitted.
LEMMA PromisedSame ==
  ASSUME NEW R \in SUBSET Request, \A q \in R : Admitted(q)' = Admitted(q)
  PROVE  Promised(R)' = Promised(R)
  BY DEF Promised

\* There are finitely many runs of finitely many workflows and requests.
LEMMA RunsFinite ==
  ASSUME NEW S \in SUBSET Run
  PROVE  IsFiniteSet(S) /\ Cardinality(S) \in Nat
  <1>1. IsFiniteSet(Workflow) /\ IsFiniteSet(Request) /\ IsFiniteSet(1 .. MaxRecords)
    BY PlanAssumption, QuotaAssumption, FS_Interval
  <1>2. IsFiniteSet(Workflow \X Request)
    BY <1>1, FS_Product
  <1> DEFINE f == [x \in (Workflow \X Request) \X (1 .. MaxRecords) |->
                     <<x[1][1], x[1][2], x[2]>>]
  <1>3. IsFiniteSet((Workflow \X Request) \X (1 .. MaxRecords))
    BY <1>1, <1>2, FS_Product
  <1>4. f \in Surjection((Workflow \X Request) \X (1 .. MaxRecords), Run)
    <2>1. f \in [(Workflow \X Request) \X (1 .. MaxRecords) -> Run]
      BY DEF Run
    <2>2. ASSUME NEW t \in Run
          PROVE  \E x \in (Workflow \X Request) \X (1 .. MaxRecords) : f[x] = t
      <3>1. PICK w \in Workflow, q \in Request, n \in 1 .. MaxRecords : t = <<w, q, n>>
        BY DEF Run
      <3>2. <<<<w, q>>, n>> \in (Workflow \X Request) \X (1 .. MaxRecords)
        OBVIOUS
      <3>3. f[<<<<w, q>>, n>>] = t
        BY <3>1, <3>2
      <3> QED
        BY <3>2, <3>3
    <2> QED
      BY <2>1, <2>2 DEF Surjection
  <1>5. IsFiniteSet(Run)
    BY <1>3, <1>4, FS_Surjection
  <1> QED
    BY <1>5, FS_Subset, FS_CardinalityType

LEMMA CountedFinite ==
  ASSUME QuotaTypeOK
  PROVE  IsFiniteSet(CountedRuns) /\ Cardinality(CountedRuns) \in Nat
  <1>1. CountedRuns \in SUBSET Run
    BY DEF CountedRuns, QuotaTypeOK
  <1> QED
    BY <1>1, RunsFinite

\* A step that leaves the requests' promises, and counts no runs more than the
\* set of those that are beyond.
LEMMA Grown ==
  ASSUME QuotaInv, \A q \in Request : Admitted(q)' = Admitted(q),
         NEW X, IsFiniteSet(X), CountedRuns' \subseteq CountedRuns \cup X,
         ahead' = ahead, beyond' = beyond + Cardinality(X)
  PROVE  Allowance'
  <1>1. IsFiniteSet(CountedRuns) /\ Cardinality(CountedRuns) \in Nat
    BY CountedFinite DEF QuotaInv
  <1>2. PICK A, B : A = CountedRuns /\ B = CountedRuns'
    OBVIOUS
  <1>3. IsFiniteSet(A) /\ Cardinality(A) \in Nat /\ B \subseteq A \cup X
    BY <1>1, <1>2
  <1>4. /\ Cardinality(B) \in Nat /\ Cardinality(X) \in Nat
        /\ Cardinality(B) <= Cardinality(A) + Cardinality(X)
    <2>1. /\ IsFiniteSet(A \cup X) /\ Cardinality(X) \in Nat
          /\ Cardinality(A \cup X) = Cardinality(A) + Cardinality(X) - Cardinality(A \cap X)
      BY <1>3, FS_Union, FS_CardinalityType
    <2>2. Cardinality(A \cap X) \in Nat /\ Cardinality(A \cup X) \in Nat
      BY <1>3, <2>1, FS_Intersection, FS_CardinalityType
    <2>3. /\ IsFiniteSet(B) /\ Cardinality(B) <= Cardinality(A \cup X)
      BY <1>3, <2>1, FS_Subset
    <2>4. Cardinality(B) \in Nat
      BY <2>3, FS_CardinalityType
    <2> QED
      BY <1>3, <2>1, <2>2, <2>3, <2>4
  <1>5. Promised(Request)' = Promised(Request)
    BY PromisedSame
  <1>6. Cardinality(Promised(Request)) \in Nat
    BY PromisedFinite
  <1>7. ahead \in Nat /\ beyond \in Nat
    BY DEF QuotaInv, QuotaTypeOK
  <1>8. ASSUME NEW m \in LimitRead, Bounding(m)
        PROVE  Cardinality(B) + Cardinality(Promised(Request)') <= m + ahead' + beyond'
    <2>1. /\ Cardinality(A) + Cardinality(Promised(Request)) <= m + ahead + beyond
          /\ m \in Nat
      BY <1>2, <1>8 DEF QuotaInv, Allowance, Bounding
    <2> QED
      BY <1>3, <1>4, <1>5, <1>6, <1>7, <2>1
  <1> QED
    BY <1>2, <1>8 DEF Allowance, Bounding

\* A step that leaves the requests' promises, and counts no more runs.
LEMMA Unmoved ==
  ASSUME QuotaInv, \A q \in Request : Admitted(q)' = Admitted(q),
         CountedRuns' \subseteq CountedRuns, ahead' = ahead, beyond' = beyond
  PROVE  Allowance'
  <1>1. beyond' = beyond + Cardinality({})
    BY FS_EmptySet DEF QuotaInv, QuotaTypeOK
  <1> QED
    BY <1>1, FS_EmptySet, Grown

\* A request that promises nothing before and after the step.
LEMMA OthersKeep ==
  ASSUME QuotaInv, NEW r \in Request, NEW u \in QuotaRequest,
         qreq' = [qreq EXCEPT ![r] = u],
         Admitted(r) = 0,
         u.at # "insert" \/ u.open \/ u.op = "publish",
         u.at = "insert" => Laden(u),
         UNCHANGED <<live, here, runs, ahead, beyond>>
  PROVE  QuotaInv'
  <1>1. /\ qreq \in [Request -> QuotaRequest] /\ qreq'[r] = u
        /\ \A q \in Request \ {r} : qreq'[q] = qreq[q]
        /\ qreq' \in [Request -> QuotaRequest]
    BY DEF QuotaInv, QuotaTypeOK
  <1>2. \A q \in Request : Admitted(q)' = Admitted(q)
    BY <1>1 DEF Admitted
  <1>3. Allowance'
    BY <1>2, Unmoved DEF CountedRuns
  <1>4. \A q \in Request : qreq'[q].at = "insert" => Laden(qreq'[q])
    BY <1>1 DEF QuotaInv
  <1>5. QuotaTypeOK'
    BY <1>1 DEF QuotaInv, QuotaTypeOK
  <1> QED
    BY <1>3, <1>4, <1>5 DEF QuotaInv

LEMMA Passes ==
  ASSUME QuotaInv, NEW r \in Request, NEW step \in {"start", "check", "next", "done"},
         Pass(r, step), Counts, qreq[r].at # "insert"
  PROVE  QuotaInv'
  <1> DEFINE u == [qreq[r] EXCEPT !.at = step]
  <1>1. qreq[r] \in QuotaRequest /\ Admitted(r) = 0
    BY AdmittedType DEF QuotaInv, Admitted
  <1>2. u \in QuotaRequest /\ u.at = step /\ qreq' = [qreq EXCEPT ![r] = u]
    BY <1>1 DEF Pass, QuotaRequest
  <1> HIDE DEF u
  <1> QED
    BY <1>1, <1>2, OthersKeep DEF Counts

\* Every step before the check.
LEMMA FindSteps ==
  ASSUME QuotaInv, NEW r \in Request,
         \/ RefuseExecution(r)
         \/ TriggerFinds(r) \/ WebhookFinds(r) \/ RetryFinds(r) \/ CronFinds(r)
         \/ PollFinds(r) \/ InvokeFinds(r) \/ ReplayFinds(r) \/ BulkFinds(r)
         \/ S3Finds(r) \/ CdcFinds(r) \/ EmailFinds(r) \/ PublishFinds(r)
  PROVE  QuotaInv'
  <1>1. qreq[r].at = "start" /\ Counts
    BY DEF RefuseExecution, TriggerFinds, WebhookFinds, RetryFinds, CronFinds, PollFinds,
           InvokeFinds, ReplayFinds, BulkFinds, S3Finds, CdcFinds, EmailFinds, PublishFinds,
           Lookup, Match, Asked
  <1>2. /\ qreq[r] \in QuotaRequest /\ Admitted(r) = 0
        /\ live \subseteq Workflow
    BY <1>1, AdmittedType DEF QuotaInv, Admitted, QuotaTypeOK
  <1>3. CASE Pass(r, "done")
    BY <1>1, <1>3, Passes
  <1>4. ASSUME NEW found \in BOOLEAN, Lookup(r, found)
        PROVE  QuotaInv'
    <2> DEFINE at == IF found THEN "check" ELSE "done"
               away == (live \ here) \cap {qreq[r].wf}
               u == [qreq[r] EXCEPT !.at = at, !.away = away]
    <2>1. qreq' = [qreq EXCEPT ![r] = u]
      BY <1>4 DEF Lookup
    <2>2. at \in {"check", "done"} /\ away \in SUBSET Workflow
      BY <1>2
    <2> HIDE DEF at, away
    <2>3. u \in QuotaRequest /\ u.at = at
      BY <1>2, <2>2 DEF QuotaRequest
    <2> HIDE DEF u
    <2> QED
      BY <1>1, <1>2, <2>1, <2>2, <2>3, OthersKeep DEF Counts
  <1>5. CASE Match(r)
    <2>1. PICK hits \in SUBSET live :
            qreq' = [qreq EXCEPT ![r] = [qreq[r] EXCEPT !.at = "next", !.hits = hits,
                                                        !.away = hits \ here]]
      BY <1>5 DEF Match
    <2> DEFINE away == hits \ here
               u == [qreq[r] EXCEPT !.at = "next", !.hits = hits, !.away = away]
    <2>2. hits \in SUBSET Workflow /\ away \in SUBSET Workflow
      BY <1>2
    <2>3. qreq' = [qreq EXCEPT ![r] = u]
      BY <2>1
    <2> HIDE DEF away
    <2>4. u \in QuotaRequest /\ u.at = "next"
      BY <1>2, <2>2 DEF QuotaRequest
    <2> HIDE DEF u
    <2> QED
      BY <1>1, <1>2, <2>3, <2>4, OthersKeep DEF Counts
  <1>6. \/ Pass(r, "done") \/ Match(r)
        \/ \E found \in BOOLEAN : Lookup(r, found)
    <2>1. (qreq[r].wf \in live) \in BOOLEAN /\ TRUE \in BOOLEAN
      OBVIOUS
    <2>2. Lookup(r, qreq[r].wf \in live) \/ Lookup(r, TRUE)
            => \E found \in BOOLEAN : Lookup(r, found)
      BY <2>1
    <2> QED
      BY <2>2 DEF RefuseExecution, TriggerFinds, WebhookFinds, RetryFinds, CronFinds,
             PollFinds, InvokeFinds, ReplayFinds, BulkFinds, S3Finds, CdcFinds, EmailFinds,
             PublishFinds
  <1> QED
    BY <1>3, <1>4, <1>5, <1>6

LEMMA NextMatchStep ==
  ASSUME QuotaInv, NEW r \in Request, NextMatch(r)
  PROVE  QuotaInv'
  <1>1. qreq[r] \in QuotaRequest /\ Admitted(r) = 0 /\ MaxRecords \in Nat \ {0}
    BY AdmittedType DEF QuotaInv, Admitted, NextMatch
  <1>2. CASE Pass(r, "done")
    BY <1>2, Passes DEF NextMatch
  <1>3. ASSUME NEW w \in qreq[r].hits,
               qreq' = [qreq EXCEPT
                   ![r].wf = w, ![r].hits = @ \ {w},
                   ![r].left = IF qreq[r].op = "publish" THEN 1 ELSE 0,
                   ![r].at = IF qreq[r].op = "publish" THEN "insert" ELSE "check"]
        PROVE  QuotaInv'
    <2> DEFINE publishes == qreq[r].op = "publish"
               left == IF publishes THEN 1 ELSE 0
               at == IF publishes THEN "insert" ELSE "check"
               rest == qreq[r].hits \ {w}
               u == [qreq[r] EXCEPT !.wf = w, !.hits = rest, !.left = left, !.at = at]
    <2>1. qreq' = [qreq EXCEPT ![r] = u]
      BY <1>3
    <2>2. /\ left \in 0 .. MaxRecords /\ at \in {"insert", "check"}
          /\ w \in Workflow /\ rest \in SUBSET Workflow
          /\ at = "insert" => qreq[r].op = "publish" /\ left > 0
      BY <1>1 DEF QuotaRequest
    <2> HIDE DEF publishes, left, at, rest
    <2>3. /\ u \in QuotaRequest /\ u.at = at /\ u.left = left
          /\ u.op = qreq[r].op
      BY <1>1, <2>2 DEF QuotaRequest
    <2>4. UNCHANGED <<live, here, runs, ahead, beyond>>
      BY DEF NextMatch, Counts
    <2> HIDE DEF u
    <2> QED
      BY <1>1, <2>1, <2>2, <2>3, <2>4, OthersKeep DEF Laden
  <1> QED
    BY <1>2, <1>3 DEF NextMatch

-----------------------------------------------------------------------------
\* After the check r has its units before it.
CheckedAs(r, open) ==
    qreq' = [qreq EXCEPT
         ![r].at = IF qreq[r].op = "invoke" THEN "done" ELSE "insert",
         ![r].left = Units(r), ![r].open = open]

LEMMA Checked ==
  ASSUME QuotaInv, NEW r \in Request, NEW open \in BOOLEAN, CheckedAs(r, open)
  PROVE  /\ qreq' \in [Request -> QuotaRequest]
         /\ \A q \in Request \ {r} : qreq'[q] = qreq[q]
         /\ qreq'[r].at # "insert" \/ Laden(qreq'[r])
         /\ qreq'[r].op = qreq[r].op /\ qreq'[r].records = qreq[r].records
         /\ qreq'[r].open = open /\ qreq'[r].left = Units(r)
         /\ Units(r) \in 1 .. MaxRecords
  <1> DEFINE at == IF qreq[r].op = "invoke" THEN "done" ELSE "insert"
             u == [qreq[r] EXCEPT !.at = at, !.left = Units(r), !.open = open]
  <1>1. qreq[r] \in QuotaRequest /\ MaxRecords \in Nat \ {0}
        /\ qreq \in [Request -> QuotaRequest]
    BY AdmittedType DEF QuotaInv, QuotaTypeOK
  <1>2. Units(r) \in 1 .. MaxRecords
    BY <1>1 DEF Units, QuotaRequest
  <1>3. at \in {"done", "insert"} /\ qreq' = [qreq EXCEPT ![r] = u]
    BY DEF CheckedAs
  <1> HIDE DEF at
  <1>4. /\ Units(r) \in 0 .. MaxRecords /\ Units(r) > 0
        /\ qreq[r].op = "s3" => Units(r) <= qreq[r].records
    BY <1>1, <1>2 DEF Units, QuotaRequest
  <1>5. u \in QuotaRequest
    BY <1>1, <1>3, <1>4 DEF QuotaRequest
  <1>6. /\ u.op = qreq[r].op /\ u.records = qreq[r].records
        /\ u.open = open /\ u.left = Units(r)
    BY <1>1 DEF QuotaRequest
  <1> HIDE DEF u
  <1>7. Laden(u)
    BY <1>4, <1>6 DEF Laden
  <1>8. /\ qreq'[r] = u /\ qreq' \in [Request -> QuotaRequest]
        /\ \A q \in Request \ {r} : qreq'[q] = qreq[q]
    BY <1>1, <1>3, <1>5
  <1> QED
    BY <1>2, <1>6, <1>7, <1>8

LEMMA QuotaCheckStep ==
  ASSUME QuotaInv, NEW r \in Request, CheckQuota(r)
  PROVE  QuotaInv'
  <1>1. PICK limit \in LimitRead :
          \/ /\ WithinAllowance(limit, Cardinality(CountedRuns), Additional(r))
             /\ ahead' = IF ahead < Cardinality(Promised(Request \ {r}))
                           THEN Cardinality(Promised(Request \ {r})) ELSE ahead
             /\ CheckedAs(r, FALSE)
          \/ Pass(r, Onward(r)) /\ ahead' = ahead
    BY DEF CheckQuota, CheckedAs
  <1>2. UNCHANGED <<live, here, runs, beyond>> /\ qreq[r].at = "check"
    BY DEF CheckQuota
  <1>3. CASE Pass(r, Onward(r)) /\ ahead' = ahead
    BY <1>2, <1>3, Passes DEF Onward, Counts
  <1>4. CASE /\ WithinAllowance(limit, Cardinality(CountedRuns), Additional(r))
             /\ ahead' = IF ahead < Cardinality(Promised(Request \ {r}))
                           THEN Cardinality(Promised(Request \ {r})) ELSE ahead
             /\ CheckedAs(r, FALSE)
    <2> DEFINE others == Cardinality(Promised(Request \ {r}))
               mine == Cardinality(Promised({r})')
               all == Cardinality(Promised(Request)')
    <2>1. /\ qreq' \in [Request -> QuotaRequest]
          /\ \A q \in Request \ {r} : qreq'[q] = qreq[q]
          /\ qreq'[r].at # "insert" \/ Laden(qreq'[r])
          /\ qreq'[r].op = qreq[r].op /\ qreq'[r].records = qreq[r].records
          /\ qreq'[r].left = Units(r)
      BY <1>4, Checked
    <2>2. ahead \in Nat /\ beyond \in Nat /\ others \in Nat /\ ahead' \in Nat
          /\ others <= ahead'
      <3>1. ahead \in Nat /\ beyond \in Nat /\ others \in Nat
        BY PromisedFinite DEF QuotaInv, QuotaTypeOK
      <3> HIDE DEF others
      <3> QED
        BY <1>4, <3>1 DEF others
    <2>3. QuotaTypeOK'
      BY <1>2, <2>1, <2>2 DEF QuotaInv, QuotaTypeOK
    <2>4. \A q \in Request : qreq'[q].at = "insert" => Laden(qreq'[q])
      BY <2>1 DEF QuotaInv
    <2>5. /\ Additional(r) \in Nat /\ Admitted(r)' \in Nat
          /\ Admitted(r)' <= Additional(r)
      <3>1. qreq[r].records \in 1 .. MaxRecords /\ MaxRecords \in Nat
        BY AdmittedType DEF QuotaInv, QuotaRequest
      <3>2. /\ Additional(r) \in Nat
            /\ Units(r) = IF qreq[r].op \in {"replayAll", "s3"} THEN qreq[r].records ELSE 1
            /\ Additional(r) = IF qreq[r].op = "replayAll" THEN qreq[r].records ELSE 1
        BY <3>1 DEF Additional, Units
      <3>3. Admitted(r)' \in {0, 1, Units(r)} /\ Units(r) \in Nat
        BY <2>1, <3>1, <3>2 DEF Admitted
      <3>4. qreq[r].op = "s3" => Admitted(r)' \in {0, 1}
        BY <2>1 DEF Admitted
      <3> QED
        BY <3>1, <3>2, <3>3, <3>4
    <2>6. mine <= Additional(r) /\ mine \in Nat
      <3>1. Cardinality(Promised({r})') <= Admitted(r)'
        <4>1. PICK n \in Nat : n = Admitted(r)'
          BY <2>5
        <4>2. Promised({r})' \in SUBSET ({r} \X (1 .. n))
          BY <4>1 DEF Promised
        <4> QED
          BY <4>1, <4>2, BoxSize
      <3>2. mine \in Nat
        BY PromisedFinite
      <3> QED
        BY <2>5, <3>1, <3>2
    <2>7. all <= others + mine /\ all \in Nat
      <3>1. Promised(Request \ {r})' = Promised(Request \ {r})
        BY <2>1, PromisedSame DEF Admitted
      <3>2. Promised(Request)' = Promised(Request \ {r}) \cup Promised({r})'
        BY <3>1 DEF Promised
      <3>3. IsFiniteSet(Promised(Request \ {r})) /\ IsFiniteSet(Promised({r})')
        BY PromisedFinite
      <3>4. PICK A, B : A = Promised(Request \ {r}) /\ B = Promised({r})'
        OBVIOUS
      <3>5. IsFiniteSet(A) /\ IsFiniteSet(B) /\ Cardinality(A \cap B) \in Nat
        BY <3>3, <3>4, FS_Intersection, FS_CardinalityType
      <3>6. /\ Cardinality(A \cup B) = Cardinality(A) + Cardinality(B) - Cardinality(A \cap B)
            /\ Cardinality(A \cup B) \in Nat
        BY <3>5, FS_Union, FS_CardinalityType
      <3>7. all = Cardinality(A \cup B) /\ others = Cardinality(A) /\ mine = Cardinality(B)
        BY <3>2, <3>4
      <3> HIDE DEF all, others, mine
      <3> QED
        BY <2>2, <2>6, <3>5, <3>6, <3>7
    <2> HIDE DEF all, mine, others
    <2>8. Cardinality(CountedRuns) \in Nat /\ CountedRuns' = CountedRuns
      BY <1>2, CountedFinite DEF QuotaInv, CountedRuns
    <2>9. ASSUME NEW m \in LimitRead, Bounding(m)
          PROVE  Cardinality(CountedRuns') + all <= m + ahead' + beyond'
      <3>1. m \in Nat /\ Cardinality(CountedRuns) + Additional(r) <= m
        BY <1>4, <2>5, <2>8, <2>9 DEF Bounding, WithinAllowance, Unlimited
      <3> QED
        BY <1>2, <2>2, <2>5, <2>6, <2>7, <2>8, <3>1
    <2>10. Allowance'
      BY <2>9 DEF Allowance, Bounding, all
    <2> QED
      BY <1>2, <2>3, <2>4, <2>10 DEF QuotaInv
  <1> QED
    BY <1>1, <1>3, <1>4

LEMMA OpenStep ==
  ASSUME QuotaInv, NEW r \in Request, CheckFailsOpen(r) \/ CheckElsewhere(r)
  PROVE  QuotaInv'
  <1>1. qreq[r].at = "check" /\ UNCHANGED <<live, here, runs, ahead, beyond>> /\ Counts
    BY DEF CheckFailsOpen, CheckElsewhere, Counts
  <1>2. CASE Pass(r, Onward(r))
    BY <1>1, <1>2, Passes DEF Onward
  <1>3. CASE CheckedAs(r, TRUE)
    <2>1. /\ qreq' \in [Request -> QuotaRequest]
          /\ \A q \in Request \ {r} : qreq'[q] = qreq[q]
          /\ qreq'[r].at # "insert" \/ Laden(qreq'[r])
          /\ qreq'[r].open = TRUE
      BY <1>3, Checked
    <2>2. \A q \in Request : Admitted(q)' = Admitted(q)
      BY <1>1, <2>1 DEF Admitted
    <2>3. Allowance'
      BY <1>1, <2>2, Unmoved DEF CountedRuns
    <2>4. QuotaTypeOK' /\ \A q \in Request : qreq'[q].at = "insert" => Laden(qreq'[q])
      BY <1>1, <2>1 DEF QuotaInv, QuotaTypeOK
    <2> QED
      BY <2>3, <2>4 DEF QuotaInv
  <1> QED
    BY <1>2, <1>3 DEF CheckFailsOpen, CheckElsewhere, Unchecked, CheckedAs

-----------------------------------------------------------------------------
\* An insert redeems a promise, or is beyond what was promised.
LEMMA QuotaInsertStep ==
  ASSUME QuotaInv, NEW r \in Request, InsertRun(r)
  PROVE  QuotaInv'
  <1>a. PICK inserted \in BOOLEAN :
          /\ IF inserted THEN \E w \in Target(r) : AddRun(r, w)
             ELSE UNCHANGED <<runs, beyond>>
          /\ qreq' = [qreq EXCEPT
               ![r].left = @ - 1,
               ![r].at = IF qreq[r].left > 1 THEN @
                         ELSE IF inserted /\ qreq[r].op = "trigger" THEN "renew"
                         ELSE Onward(r)]
    BY DEF InsertRun
  <1> DEFINE left == qreq[r].left - 1
             at == IF qreq[r].left > 1 THEN "insert"
                   ELSE IF inserted /\ qreq[r].op = "trigger" THEN "renew" ELSE Onward(r)
             u == [qreq[r] EXCEPT !.left = left, !.at = at]
  <1>1. /\ qreq[r] \in QuotaRequest /\ MaxRecords \in Nat \ {0}
        /\ qreq \in [Request -> QuotaRequest]
        /\ qreq[r].at = "insert" /\ qreq[r].left \in 1 .. MaxRecords
        /\ qreq[r].records \in 1 .. MaxRecords
        /\ qreq[r].op = "s3" => qreq[r].left <= qreq[r].records
    BY AdmittedType DEF QuotaInv, QuotaTypeOK, InsertRun, QuotaRequest, Laden
  <1>2. qreq' = [qreq EXCEPT ![r] = u]
    BY <1>1, <1>a
  <1>3. /\ left \in 0 .. MaxRecords /\ at \in {"insert", "renew", "next", "done"}
        /\ at = "insert" <=> left > 0
        /\ qreq[r].left = left + 1
    BY <1>1 DEF Onward
  <1> HIDE DEF left, at
  <1>4. /\ u \in QuotaRequest /\ u.left = left /\ u.at = at
        /\ u.op = qreq[r].op /\ u.open = qreq[r].open /\ u.records = qreq[r].records
    BY <1>1, <1>3 DEF QuotaRequest
  <1> HIDE DEF u
  <1>5. /\ qreq'[r] = u /\ qreq' \in [Request -> QuotaRequest]
        /\ \A q \in Request \ {r} : qreq'[q] = qreq[q]
    BY <1>1, <1>2, <1>4
  <1>6. UNCHANGED <<live, here, ahead>>
    BY DEF InsertRun
  <1>7. /\ Admitted(r) \in Nat /\ Admitted(r) <= MaxRecords
        /\ Admitted(r)' = IF Admitted(r) = 0 THEN 0 ELSE Admitted(r) - 1
    <2>1. /\ qreq'[r].at = at /\ qreq'[r].left = left /\ qreq'[r].op = qreq[r].op
          /\ qreq'[r].records = qreq[r].records /\ (qreq'[r].open <=> qreq[r].open)
      BY <1>4, <1>5
    <2>2. CASE qreq[r].open \/ qreq[r].op = "publish"
      BY <1>1, <2>1, <2>2 DEF Admitted
    <2>3. CASE ~qreq[r].open /\ qreq[r].op \notin {"publish", "s3"}
      <3>1. Admitted(r) = qreq[r].left
        BY <1>1, <2>3 DEF Admitted
      <3>2. Admitted(r)' = left
        BY <1>3, <2>1, <2>3 DEF Admitted
      <3> QED
        BY <1>1, <1>3, <3>1, <3>2
    <2>4. CASE ~qreq[r].open /\ qreq[r].op = "s3"
      <3>1. Admitted(r) \in {0, 1}
        BY <1>1, <2>4 DEF Admitted
      <3>2. left # qreq[r].records /\ qreq[r].left \in Nat
        BY <1>1, <1>3, <2>4
      <3>3. Admitted(r)' = 0
        BY <2>1, <2>4, <3>2 DEF Admitted
      <3> QED
        BY <1>1, <3>1, <3>3
    <2> QED
      BY <2>2, <2>3, <2>4
  <1>8. \A q \in Request \ {r} : Admitted(q)' = Admitted(q)
    BY <1>5 DEF Admitted
  <1>b. \/ runs' = runs /\ beyond' = beyond
        \/ \E w \in Target(r) : AddRun(r, w)
    BY <1>a
  <1>9. /\ ahead \in Nat /\ beyond \in Nat /\ beyond' \in Nat
        /\ runs \subseteq Run /\ runs' \subseteq Run
    <2>1. ahead \in Nat /\ beyond \in Nat /\ runs \subseteq Run /\ live \subseteq Workflow
      BY DEF QuotaInv, QuotaTypeOK
    <2>2. Target(r) \subseteq Workflow
      BY <2>1 DEF Target
    <2> QED
      BY <1>1, <1>b, <2>1, <2>2 DEF AddRun, Run
  <1>10. QuotaTypeOK'
    BY <1>5, <1>6, <1>9 DEF QuotaInv, QuotaTypeOK
  <1>11. \A q \in Request : qreq'[q].at = "insert" => Laden(qreq'[q])
    <2>1. at = "insert" => Laden(u)
      BY <1>1, <1>3, <1>4 DEF Laden
    <2> QED
      BY <1>4, <1>5, <2>1 DEF QuotaInv
  <1>12. \/ CountedRuns' = CountedRuns /\ beyond' = beyond
         \/ /\ \E x : CountedRuns' = CountedRuns \cup {x}
            /\ beyond' = beyond + IF Admitted(r) = 0 THEN 1 ELSE 0
    <2>1. CASE runs' = runs /\ beyond' = beyond
      BY <1>6, <2>1 DEF CountedRuns
    <2>2. ASSUME NEW w \in Target(r), AddRun(r, w)
          PROVE  \/ CountedRuns' = CountedRuns /\ beyond' = beyond
                 \/ /\ \E x : CountedRuns' = CountedRuns \cup {x}
                    /\ beyond' = beyond + IF Admitted(r) = 0 THEN 1 ELSE 0
      <3>1. PICK x : x = <<w, r, qreq[r].left>>
        OBVIOUS
      <3>2. runs' = runs \cup {x} /\ x[1] = w /\ here' = here
        BY <1>6, <2>2, <3>1 DEF AddRun
      <3>3. CASE w \in here
        <4>1. CountedRuns' = CountedRuns \cup {x}
          BY <3>2, <3>3 DEF CountedRuns
        <4>2. beyond' = beyond + IF Admitted(r) = 0 THEN 1 ELSE 0
          BY <2>2, <3>3 DEF AddRun
        <4> QED
          BY <4>1, <4>2
      <3>4. CASE w \notin here
        <4>1. CountedRuns' = CountedRuns
          BY <3>2, <3>4 DEF CountedRuns
        <4>2. beyond' = beyond
          BY <1>9, <2>2, <3>4 DEF AddRun
        <4> QED
          BY <4>1, <4>2
      <3> QED
        BY <3>3, <3>4
    <2> QED
      BY <1>b, <2>1, <2>2
  <1>13. IsFiniteSet(CountedRuns) /\ Cardinality(CountedRuns) \in Nat
    BY CountedFinite DEF QuotaInv
  <1>14. /\ Cardinality(CountedRuns') \in Nat
         /\ \/ Cardinality(CountedRuns') <= Cardinality(CountedRuns) /\ beyond' = beyond
            \/ /\ Cardinality(CountedRuns') <= Cardinality(CountedRuns) + 1
               /\ beyond' = beyond + IF Admitted(r) = 0 THEN 1 ELSE 0
    <2>1. CASE CountedRuns' = CountedRuns /\ beyond' = beyond
      <3>1. Cardinality(CountedRuns') = Cardinality(CountedRuns)
        BY <2>1, Zenon
      <3> QED
        BY <1>13, <2>1, <3>1
    <2>2. ASSUME NEW x, CountedRuns' = CountedRuns \cup {x}
          PROVE  /\ Cardinality(CountedRuns') \in Nat
                 /\ Cardinality(CountedRuns') <= Cardinality(CountedRuns) + 1
      <3>1. PICK S : S = CountedRuns
        OBVIOUS
      <3>2. \/ Cardinality(S \cup {x}) = Cardinality(S)
            \/ Cardinality(S \cup {x}) = Cardinality(S) + 1
        BY <1>13, <3>1, FS_AddElement
      <3>3. CountedRuns' = S \cup {x}
        BY <2>2, <3>1, Zenon
      <3>4. /\ Cardinality(S \cup {x}) \in Nat
            /\ Cardinality(S \cup {x}) <= Cardinality(S) + 1
        BY <1>13, <3>1, <3>2
      <3> QED
        BY <3>1, <3>3, <3>4, Zenon
    <2> QED
      BY <1>12, <2>1, <2>2, Zenon
  <1>15. /\ Cardinality(Promised(Request)') \in Nat /\ Cardinality(Promised(Request)) \in Nat
         /\ Cardinality(Promised(Request)')
              = Cardinality(Promised(Request)) - IF Admitted(r) = 0 THEN 0 ELSE 1
    <2>1. CASE Admitted(r) = 0
      <3>1. \A q \in Request : Admitted(q)' = Admitted(q)
        BY <1>7, <1>8, <2>1
      <3>2. Promised(Request)' = Promised(Request)
        BY <3>1, PromisedSame
      <3> QED
        BY <2>1, <3>2, PromisedFinite
    <2>2. CASE Admitted(r) # 0
      <3> DEFINE x == <<r, Admitted(r)>>
      <3>1. x \in Promised(Request)
        BY <1>1, <1>7, <2>2 DEF Promised
      <3>2. Promised(Request)' = Promised(Request) \ {x}
        <4>1. ASSUME NEW q \in Request, NEW n \in 1 .. MaxRecords
              PROVE  (n <= Admitted(q)') <=> (n <= Admitted(q) /\ <<q, n>> # x)
          <5>1. CASE q = r
            BY <1>1, <1>7, <2>2, <5>1
          <5>2. CASE q # r
            BY <1>8, <5>2
          <5> QED
            BY <5>1, <5>2
        <4> HIDE DEF x
        <4> QED
          BY <4>1 DEF Promised
      <3> HIDE DEF x
      <3> QED
        BY <2>2, <3>1, <3>2, PromisedFinite, FS_RemoveElement
    <2> QED
      BY <2>1, <2>2
  <1>16. ASSUME NEW m \in LimitRead, Bounding(m)
         PROVE  Cardinality(CountedRuns') + Cardinality(Promised(Request)')
                  <= m + ahead' + beyond'
    <2>1. /\ Cardinality(CountedRuns) + Cardinality(Promised(Request)) <= m + ahead + beyond
          /\ m \in Nat
      BY <1>16 DEF QuotaInv, Allowance, Bounding
    <2>2. CASE Admitted(r) = 0
      BY <1>6, <1>9, <1>13, <1>14, <1>15, <2>1, <2>2
    <2>3. CASE Admitted(r) # 0
      BY <1>6, <1>9, <1>13, <1>14, <1>15, <2>1, <2>3
    <2> QED
      BY <2>2, <2>3
  <1>17. Allowance'
    BY <1>16 DEF Allowance, Bounding
  <1> QED
    BY <1>10, <1>11, <1>17 DEF QuotaInv

\* A request that inserts nothing goes on, while runs or workflows change.
LEMMA RunsShift ==
  ASSUME QuotaInv, NEW r \in Request, Pass(r, "done"), qreq[r].at # "insert",
         here' \subseteq live, live' = live, runs' \subseteq Run,
         NEW X, IsFiniteSet(X), CountedRuns' \subseteq CountedRuns \cup X,
         ahead' = ahead, beyond' = beyond + Cardinality(X)
  PROVE  QuotaInv'
  <1> DEFINE u == [qreq[r] EXCEPT !.at = "done"]
  <1>1. qreq[r] \in QuotaRequest /\ qreq \in [Request -> QuotaRequest]
    BY DEF QuotaInv, QuotaTypeOK
  <1>2. u \in QuotaRequest /\ u.at = "done" /\ qreq' = [qreq EXCEPT ![r] = u]
    BY <1>1 DEF Pass, QuotaRequest
  <1> HIDE DEF u
  <1>3. /\ qreq' \in [Request -> QuotaRequest] /\ qreq'[r].at = "done"
        /\ \A q \in Request \ {r} : qreq'[q] = qreq[q]
    BY <1>1, <1>2
  <1>4. \A q \in Request : Admitted(q)' = Admitted(q)
    BY <1>3 DEF Admitted
  <1>5. Allowance'
    BY <1>4, Grown
  <1>6. Cardinality(X) \in Nat
    BY FS_CardinalityType
  <1>7. QuotaTypeOK'
    BY <1>3, <1>6 DEF QuotaInv, QuotaTypeOK
  <1>8. \A q \in Request : qreq'[q].at = "insert" => Laden(qreq'[q])
    BY <1>3 DEF QuotaInv
  <1> QED
    BY <1>5, <1>7, <1>8 DEF QuotaInv

LEMMA CarryStep ==
  ASSUME QuotaInv, NEW r \in Request, RenewRun(r)
  PROVE  QuotaInv'
  <1>1. /\ Pass(r, "done") /\ qreq[r].at # "insert"
        /\ here' = here /\ live' = live /\ ahead' = ahead
        /\ here \subseteq live /\ live \subseteq Workflow /\ runs \subseteq Run
        /\ beyond \in Nat
    BY DEF RenewRun, QuotaInv, QuotaTypeOK
  <1>2. CASE UNCHANGED <<runs, beyond>>
    <2>1. /\ IsFiniteSet({}) /\ beyond' = beyond + Cardinality({})
          /\ CountedRuns' \subseteq CountedRuns \cup {} /\ runs' \subseteq Run
      BY <1>1, <1>2, FS_EmptySet DEF CountedRuns
    <2> QED
      BY <1>1, <2>1, RunsShift
  <1>3. ASSUME NEW x, x = <<qreq[r].wf, r, 1>>, x[1] \in live,
               runs' = runs \cup {x},
               beyond' = beyond + IF x \notin runs /\ x[1] \in here THEN 1 ELSE 0
        PROVE  QuotaInv'
    <2>1. x \in Run
      BY <1>1, <1>3, QuotaAssumption DEF Run
    <2>2. runs' \subseteq Run
      BY <1>1, <1>3, <2>1
    <2>3. CASE x \notin runs /\ x[1] \in here
      <3>1. /\ IsFiniteSet({x}) /\ Cardinality({x}) = 1
            /\ CountedRuns' \subseteq CountedRuns \cup {x}
        BY <1>1, <1>3, FS_Singleton DEF CountedRuns
      <3>2. beyond' = beyond + Cardinality({x})
        BY <1>3, <2>3, <3>1
      <3> QED
        BY <1>1, <2>2, <3>1, <3>2, RunsShift
    <2>4. CASE x \in runs \/ x[1] \notin here
      <3>1. /\ IsFiniteSet({}) /\ Cardinality({}) = 0
            /\ CountedRuns' \subseteq CountedRuns \cup {}
        BY <1>1, <1>3, <2>4, FS_EmptySet DEF CountedRuns
      <3>2. beyond' = beyond + Cardinality({})
        BY <1>3, <2>4, <3>1
      <3> QED
        BY <1>1, <2>2, <3>1, <3>2, RunsShift
    <2> QED
      BY <2>3, <2>4
  <1> QED
    BY <1>2, <1>3 DEF RenewRun

\* A workflow that arrives brings its runs, and one that leaves takes them along.
LEMMA MoveStep ==
  ASSUME QuotaInv, NEW r \in Request, MoveWorkflow(r)
  PROVE  QuotaInv'
  <1>1. PICK w : w = qreq[r].wf
    OBVIOUS
  <1>2. /\ Pass(r, "done") /\ qreq[r].at # "insert"
        /\ live' = live /\ runs' = runs /\ ahead' = ahead
        /\ here \subseteq live /\ live \subseteq Workflow /\ runs \subseteq Run
        /\ beyond \in Nat
    BY DEF MoveWorkflow, Asked, QuotaInv, QuotaTypeOK
  <1>3. CASE here' = here \ {w} /\ beyond' = beyond
    <2>1. /\ IsFiniteSet({}) /\ beyond' = beyond + Cardinality({})
          /\ CountedRuns' \subseteq CountedRuns \cup {} /\ runs' \subseteq Run
          /\ here' \subseteq live
      BY <1>2, <1>3, FS_EmptySet DEF CountedRuns
    <2> QED
      BY <1>2, <2>1, RunsShift
  <1>4. CASE /\ w \in live \ here /\ here' = here \cup {w}
             /\ beyond' = beyond + Cardinality({x \in runs : x[1] = w})
    <2>1. PICK X : X = {x \in runs : x[1] = w}
      OBVIOUS
    <2>2. X \in SUBSET Run
      BY <1>2, <2>1
    <2>3. IsFiniteSet(X)
      BY <2>2, RunsFinite
    <2>4. /\ CountedRuns' \subseteq CountedRuns \cup X /\ runs' \subseteq Run
          /\ here' \subseteq live
      BY <1>2, <1>4, <2>1 DEF CountedRuns
    <2>5. beyond' = beyond + Cardinality(X)
      BY <1>4, <2>1
    <2> QED
      BY <1>2, <2>3, <2>4, <2>5, RunsShift
  <1> QED
    BY <1>1, <1>3, <1>4 DEF MoveWorkflow

\* A new month, and a workflow that is deleted, take runs away.
LEMMA FewerRuns ==
  ASSUME QuotaInv, live' \subseteq live, here' \subseteq here, here' \subseteq live',
         runs' \subseteq runs, UNCHANGED <<qreq, ahead, beyond>>
  PROVE  QuotaInv'
  <1>1. \A q \in Request : Admitted(q)' = Admitted(q)
    BY DEF Admitted
  <1>2. CountedRuns' \subseteq CountedRuns
    BY DEF CountedRuns
  <1>3. Allowance'
    BY <1>1, <1>2, Unmoved
  <1> QED
    BY <1>3 DEF QuotaInv, QuotaTypeOK

LEMMA QuotaSteps ==
  ASSUME QuotaInv, [QuotaNext]_quotaVars
  PROVE  QuotaInv'
  <1>1. here \subseteq live
    BY DEF QuotaInv, QuotaTypeOK
  <1>2. CASE NewMonth
    BY <1>1, <1>2, FewerRuns DEF NewMonth
  <1>3. ASSUME NEW w \in Workflow, DeleteCounted(w)
        PROVE  QuotaInv'
    BY <1>1, <1>3, FewerRuns DEF DeleteCounted
  <1>4. ASSUME NEW r \in Request, ServeExecution(r)
        PROVE  QuotaInv'
    BY <1>4, FindSteps, NextMatchStep, QuotaCheckStep, OpenStep, QuotaInsertStep,
       CarryStep, MoveStep DEF ServeExecution
  <1>5. CASE UNCHANGED quotaVars
    BY <1>1, <1>5, FewerRuns DEF quotaVars
  <1> QED
    BY <1>2, <1>3, <1>4, <1>5 DEF QuotaNext

LEMMA QuotaStarts ==
  ASSUME QuotaInit
  PROVE  QuotaInv
  <1>1. /\ qreq \in [Request -> QuotaRequest] /\ runs = {} /\ live = Workflow
        /\ here = Home /\ Home \subseteq Workflow
        /\ ahead = 0 /\ beyond = 0
        /\ \A r \in Request : qreq[r].at \in {"start", "done"}
    BY QuotaAssumption DEF QuotaInit, QuotaStart
  <1>2. QuotaTypeOK
    BY <1>1 DEF QuotaTypeOK
  <1>3. Promised(Request) = {} /\ CountedRuns = {}
    BY <1>1 DEF Promised, Admitted, CountedRuns
  <1>4. Cardinality({}) = 0
    BY FS_EmptySet
  <1>5. Allowance
    BY <1>1, <1>3, <1>4 DEF Allowance, Bounding
  <1> QED
    BY <1>1, <1>2, <1>5 DEF QuotaInv

THEOREM QuotaInvariant == QuotaSpec => []QuotaInv
  <1>1. QuotaInit => QuotaInv
    BY QuotaStarts
  <1>2. QuotaInv /\ [QuotaNext]_quotaVars => QuotaInv'
    BY QuotaSteps
  <1> QED
    BY <1>1, <1>2, PTL DEF QuotaSpec

\* Every variable of the executions keeps its type.
THEOREM QuotaTypes == QuotaSpec => []QuotaTypeOK
  <1>1. QuotaInv => QuotaTypeOK
    BY DEF QuotaInv
  <1> QED
    BY <1>1, QuotaInvariant, PTL

\* The runs that are counted exceed the allowance by no more than what others had
\* been admitted at some check and the runs no check stands behind, for any
\* requests, whatever months begin, workflows move and runs are carried over.
THEOREM AllowanceHolds == QuotaSpec => []QuotaHeld
  <1>1. ASSUME QuotaInv, NEW m \in LimitRead, Bounding(m)
        PROVE  Cardinality(CountedRuns) <= m + ahead + beyond
    <2>1. /\ Cardinality(CountedRuns) \in Nat /\ Cardinality(Promised(Request)) \in Nat
          /\ m \in Nat /\ ahead \in Nat /\ beyond \in Nat
          /\ Cardinality(CountedRuns) + Cardinality(Promised(Request)) <= m + ahead + beyond
      BY <1>1, PromisedFinite, CountedFinite
         DEF QuotaInv, QuotaTypeOK, Allowance, Bounding
    <2> QED
      BY <2>1
  <1>2. QuotaInv => QuotaHeld
    BY <1>1 DEF QuotaHeld
  <1> QED
    BY <1>2, QuotaInvariant, PTL

-----------------------------------------------------------------------------
(* RESOURCES *)

\* The version before u's has existed, if u registers a later one.
Preceded(u) ==
    u.op = "register" /\ u.v > 1 => \E p \in existed : p.name = u.name /\ p.v = u.v - 1

\* What a request carries from one step to the next.
Carried(q) ==
    /\ rreq[q].at # "done" => ~rreq[q].shown
    /\ rreq[q].op \in {"upsert", "unsubscribe", "test"} => rreq[q].kind = "subscription"
    /\ rreq[q].op = "test" => Disclosed(rreq[q].key)
    /\ rreq[q].at = "insert" => Preceded(rreq[q])

\* What a row is that its organization can still use.
SoundRow(i) ==
    resource[i].state = "live" =>
      /\ resource[i].kind = "subscription" => Disclosed(resource[i].secret)
      /\ resource[i].kind = "schema" => SchemaOf(resource[i]) \in existed

RowsInv ==
    /\ ResourceTypeOK
    /\ \A q \in Request : Carried(q)
    /\ \A i \in ResourceId : SoundRow(i)
    /\ SchemaPreceded

-----------------------------------------------------------------------------
LEMMA ResourceTypes ==
  ASSUME ResourceTypeOK, NEW q \in Request
  PROVE  /\ rreq \in [Request -> ResourceRequest] /\ resource \in [ResourceId -> Resource]
         /\ rreq[q] \in ResourceRequest /\ rreq[q].id \in ResourceId
         /\ rreq[q].op \in ResourceOp /\ rreq[q].kind \in Kind /\ rreq[q].org \in Org
         /\ rreq[q].name \in ResourceName /\ rreq[q].v \in Nat
         /\ rreq[q].supply \in BOOLEAN /\ rreq[q].shown \in BOOLEAN /\ rreq[q].to \in Org
         /\ rreq[q].key \in Secret
  <1>1. rreq[q] \in ResourceRequest
    BY DEF ResourceTypeOK
  <1> QED
    BY <1>1 DEF ResourceTypeOK, ResourceRequest

\* q goes from its record to u, what it asks for the same.
ResourceTurnsTo(q, u) ==
    /\ rreq' = [rreq EXCEPT ![q] = u]
    /\ u \in ResourceRequest
    /\ u.op = rreq[q].op /\ u.kind = rreq[q].kind /\ u.org = rreq[q].org
    /\ u.name = rreq[q].name /\ u.v = rreq[q].v /\ (u.supply <=> rreq[q].supply)

LEMMA ResourceTurn ==
  ASSUME ResourceTypeOK, NEW q \in Request, NEW u, ResourceTurnsTo(q, u)
  PROVE  /\ rreq' \in [Request -> ResourceRequest]
         /\ rreq'[q] = u
         /\ \A p \in Request \ {q} : rreq'[p] = rreq[p]
  BY ResourceTypes DEF ResourceTurnsTo

\* What was disclosed stays so.
LEMMA StaysDisclosed ==
  ASSUME RowsInv, NEW q \in Request, NEW u, ResourceTurnsTo(q, u),
         rreq[q].shown => u.shown, NEW s \in Secret, Disclosed(s)
  PROVE  Disclosed(s)'
  <1>1. /\ rreq'[q] = u
        /\ \A p \in Request \ {q} : rreq'[p] = rreq[p]
        /\ u.supply <=> rreq[q].supply
    BY ResourceTurn DEF RowsInv, ResourceTurnsTo
  <1> QED
    BY <1>1 DEF Disclosed, Secret

\* The other requests carry what they did, as long as there are no fewer schema
\* versions.
LEMMA OthersCarry ==
  ASSUME RowsInv, NEW q \in Request, NEW u, ResourceTurnsTo(q, u),
         rreq[q].shown => u.shown, existed \subseteq existed',
         NEW p \in Request, p # q
  PROVE  Carried(p)'
  <1>1. rreq'[p] = rreq[p] /\ Carried(p) /\ rreq[p].key \in Secret
    BY ResourceTurn, ResourceTypes DEF RowsInv
  <1>2. rreq[p].op = "test" => Disclosed(rreq[p].key)'
    <2>1. PICK s \in Secret : s = rreq[p].key
      BY <1>1
    <2>2. rreq[p].op = "test" => Disclosed(s)'
      BY <1>1, <2>1, StaysDisclosed DEF Carried
    <2>3. rreq'[p].key = s
      BY <1>1, <2>1
    <2> QED
      BY <1>1, <2>1, <2>2, <2>3 DEF Disclosed
  <1> QED
    BY <1>1, <1>2 DEF Carried, Preceded, Disclosed

LEMMA RowStays ==
  ASSUME RowsInv, NEW q \in Request, NEW u, ResourceTurnsTo(q, u),
         rreq[q].shown => u.shown, existed \subseteq existed',
         NEW i \in ResourceId, resource'[i] = resource[i]
  PROVE  SoundRow(i)'
  <1>1. SoundRow(i) /\ resource[i].secret \in Secret
    BY DEF RowsInv, ResourceTypeOK, Resource
  <1>2. PICK s \in Secret : s = resource[i].secret
    BY <1>1
  <1>3. Disclosed(s) => Disclosed(s)'
    BY StaysDisclosed
  <1>4. resource'[i].secret = s
    BY <1>2
  <1> QED
    BY <1>1, <1>2, <1>3, <1>4 DEF SoundRow, Disclosed

\* A step of q that touches no row.
LEMMA ResourceTurns ==
  ASSUME RowsInv, NEW q \in Request, NEW u, ResourceTurnsTo(q, u),
         UNCHANGED <<resource, existed, linked>>, rpeak' \in [Kind -> [Org -> Nat]],
         rreq[q].shown <=> u.shown, u.at # "done" => ~u.shown,
         u.op = "test" => u.key = rreq[q].key \/ Disclosed(u.key),
         u.at = "insert" => Preceded(u)
  PROVE  RowsInv'
  <1>1. rreq'[q] = u /\ rreq' \in [Request -> ResourceRequest] /\ Carried(q)
        /\ u \in ResourceRequest
    BY ResourceTurn DEF RowsInv, ResourceTurnsTo
  <1>2. UNCHANGED <<resource, existed, linked>> /\ rpeak' \in [Kind -> [Org -> Nat]]
    OBVIOUS
  <1>3. ASSUME NEW p \in Request, p # q
        PROVE  Carried(p)'
    BY <1>2, <1>3, OthersCarry
  <1>4. Carried(q)'
    <2>1. u.op = "test" => Disclosed(u.key)
      BY <1>1 DEF Carried, ResourceTurnsTo
    <2>2. u.key \in Secret
      BY <1>1 DEF ResourceRequest
    <2>3. PICK s \in Secret : s = u.key
      BY <2>2
    <2>4. u.op = "test" => Disclosed(s)'
      BY <2>1, <2>3, StaysDisclosed
    <2>5. (rreq[q].op = "test" => Disclosed(rreq[q].key))'
      BY <1>1, <2>3, <2>4 DEF Disclosed
    <2>6. rreq'[q].op \in {"upsert", "unsubscribe", "test"}
            => rreq'[q].kind = "subscription"
      BY <1>1 DEF Carried, ResourceTurnsTo
    <2>7. rreq'[q].at = "insert" => Preceded(rreq[q])'
      BY <1>1, <1>2 DEF Preceded
    <2> QED
      BY <1>1, <2>5, <2>6, <2>7 DEF Carried
  <1>5. ASSUME NEW i \in ResourceId
        PROVE  SoundRow(i)'
    BY <1>2, RowStays
  <1>6. ResourceTypeOK' /\ SchemaPreceded'
    BY <1>1, <1>2 DEF RowsInv, ResourceTypeOK, SchemaPreceded
  <1> QED
    BY <1>3, <1>4, <1>5, <1>6 DEF RowsInv
LEMMA ContinueTurns ==
  ASSUME ResourceTypeOK, NEW q \in Request, NEW step \in ResourceAt, Continue(q, step)
  PROVE  \E u : /\ ResourceTurnsTo(q, u) /\ u.at = step
                /\ (u.shown <=> rreq[q].shown) /\ u.key = rreq[q].key
  <1> DEFINE u == [rreq[q] EXCEPT !.at = step]
  <1>1. rreq[q] \in ResourceRequest
    BY ResourceTypes
  <1>2. /\ u \in ResourceRequest /\ u.at = step
        /\ u.op = rreq[q].op /\ u.kind = rreq[q].kind /\ u.org = rreq[q].org
        /\ u.name = rreq[q].name /\ u.v = rreq[q].v /\ u.supply = rreq[q].supply
        /\ u.shown = rreq[q].shown /\ u.key = rreq[q].key
    BY <1>1 DEF ResourceRequest
  <1>3. rreq' = [rreq EXCEPT ![q] = u]
    BY DEF Continue
  <1> HIDE DEF u
  <1> QED
    BY <1>2, <1>3 DEF ResourceTurnsTo

LEMMA AnswerTurns ==
  ASSUME ResourceTypeOK, NEW q \in Request, NEW status \in Nat, Answer(q, status)
  PROVE  \E u : /\ ResourceTurnsTo(q, u) /\ u.at = "done"
                /\ (u.shown <=> rreq[q].shown) /\ u.key = rreq[q].key
  <1> DEFINE u == [rreq[q] EXCEPT !.at = "done", !.reply = status]
  <1>1. rreq[q] \in ResourceRequest
    BY ResourceTypes
  <1>2. /\ u \in ResourceRequest /\ u.at = "done"
        /\ u.op = rreq[q].op /\ u.kind = rreq[q].kind /\ u.org = rreq[q].org
        /\ u.name = rreq[q].name /\ u.v = rreq[q].v /\ u.supply = rreq[q].supply
        /\ u.shown = rreq[q].shown /\ u.key = rreq[q].key
    BY <1>1 DEF ResourceRequest, ResourceAt
  <1>3. rreq' = [rreq EXCEPT ![q] = u]
    BY DEF Answer
  <1> HIDE DEF u
  <1> QED
    BY <1>2, <1>3 DEF ResourceTurnsTo

LEMMA Continues ==
  ASSUME RowsInv, NEW q \in Request, NEW step \in ResourceAt, Continue(q, step),
         UNCHANGED <<resource, existed, linked>>, rpeak' \in [Kind -> [Org -> Nat]],
         rreq[q].at # "done", step = "insert" => Preceded(rreq[q])
  PROVE  RowsInv'
  <1>1. PICK u : /\ ResourceTurnsTo(q, u) /\ u.at = step
                 /\ (u.shown <=> rreq[q].shown) /\ u.key = rreq[q].key
    BY ContinueTurns DEF RowsInv
  <1>2. ~u.shown
    BY <1>1 DEF RowsInv, Carried
  <1>3. u.at = "insert" => Preceded(u)
    BY <1>1 DEF Preceded, ResourceTurnsTo
  <1> QED
    BY <1>1, <1>2, <1>3, ResourceTurns

LEMMA ResourceAnswers ==
  ASSUME RowsInv, NEW q \in Request, NEW status \in Nat, Answer(q, status),
         UNCHANGED <<resource, existed, linked>>, rpeak' \in [Kind -> [Org -> Nat]]
  PROVE  RowsInv'
  <1>1. PICK u : /\ ResourceTurnsTo(q, u) /\ u.at = "done"
                 /\ (u.shown <=> rreq[q].shown) /\ u.key = rreq[q].key
    BY AnswerTurns DEF RowsInv
  <1> QED
    BY <1>1, ResourceTurns

-----------------------------------------------------------------------------
\* The steps that touch no row.
LEMMA QuietSteps ==
  ASSUME RowsInv, NEW q \in Request,
         \/ RefuseResource(q) \/ PostFunction(q) \/ PostSubscription(q)
         \/ CreateEventSchema(q) \/ CreateMcpServer(q)
         \/ CreateIntegration(q) \/ CreateEventRoutingRule(q) \/ OauthInserts(q)
         \/ RegisterSchema(q) \/ InsertRefused(q) \/ FindResource(q) \/ DeliverTest(q)
  PROVE  RowsInv'
  <1>1. /\ Untouched /\ rreq[q].at # "done"
        /\ \/ \E status \in Nat : Answer(q, status)
           \/ \E step \in {"check", "change", "remove"} : Continue(q, step)
           \/ rreq[q].op = "connect" /\ Continue(q, "insert")
    BY DEF RefuseResource, PostFunction, PostSubscription, CreateEventSchema,
           CreateMcpServer, CreateIntegration, CreateEventRoutingRule, Create, OauthInserts,
           RegisterSchema, InsertRefused, FindResource, DeliverTest, Starts
  <1>2. /\ UNCHANGED <<resource, existed, linked>> /\ rpeak' \in [Kind -> [Org -> Nat]]
        /\ {"check", "change", "remove", "insert"} \subseteq ResourceAt
    BY <1>1 DEF Untouched, RowsInv, ResourceTypeOK, ResourceAt
  <1>3. rreq[q].op = "connect" => Preceded(rreq[q])
    BY DEF Preceded
  <1> QED
    BY <1>1, <1>2, <1>3, ResourceAnswers, Continues

LEMMA UpsertFindsStep ==
  ASSUME RowsInv, NEW q \in Request, UpsertFinds(q)
  PROVE  RowsInv'
  <1>1. /\ UNCHANGED <<resource, existed, linked>> /\ rpeak' \in [Kind -> [Org -> Nat]]
        /\ rreq[q].at = "start" /\ "check" \in ResourceAt /\ ~rreq[q].shown
    BY DEF UpsertFinds, Untouched, RowsInv, ResourceTypeOK, ResourceAt, Starts, Carried
  <1>2. CASE Continue(q, "check")
    BY <1>1, <1>2, Continues
  <1>3. ASSUME NEW i \in Clash("subscription", rreq[q].org, rreq[q].name, 1),
               rreq' = [rreq EXCEPT ![q].at = "change", ![q].id = i]
        PROVE  RowsInv'
    <2> DEFINE u == [rreq[q] EXCEPT !.at = "change", !.id = i]
    <2>1. rreq[q] \in ResourceRequest /\ i \in ResourceId
      BY <1>3, ResourceTypes DEF RowsInv, Clash, Owned
    <2>2. /\ u \in ResourceRequest /\ u.at = "change"
          /\ u.op = rreq[q].op /\ u.kind = rreq[q].kind /\ u.org = rreq[q].org
          /\ u.name = rreq[q].name /\ u.v = rreq[q].v /\ u.supply = rreq[q].supply
          /\ u.shown = rreq[q].shown /\ u.key = rreq[q].key
      BY <2>1 DEF ResourceRequest, ResourceAt
    <2>3. rreq' = [rreq EXCEPT ![q] = u]
      BY <1>3
    <2> HIDE DEF u
    <2> QED
      BY <1>1, <2>2, <2>3, ResourceTurns DEF ResourceTurnsTo
  <1> QED
    BY <1>2, <1>3 DEF UpsertFinds

LEMMA CheckLimitStep ==
  ASSUME RowsInv, NEW q \in Request, CheckResourceLimit(q)
  PROVE  RowsInv'
  <1> DEFINE n == Cardinality(Entering(rreq[q].kind, rreq[q].org))
  <1>1. UNCHANGED <<resource, existed, linked>> /\ rreq[q].at = "check"
    BY DEF CheckResourceLimit
  <1>2. /\ n \in Nat /\ rpeak \in [Kind -> [Org -> Nat]]
        /\ rreq[q].kind \in Kind /\ rreq[q].org \in Org /\ rreq[q].v \in Nat
    <2>1. Entering(rreq[q].kind, rreq[q].org) \in SUBSET Request
      BY DEF Entering
    <2> QED
      BY <2>1, PlanAssumption, FS_Subset, FS_CardinalityType, ResourceTypes
         DEF RowsInv, ResourceTypeOK
  <1> HIDE DEF n
  <1>3. CASE Answer(q, 403) /\ UNCHANGED rpeak
    BY <1>1, <1>2, <1>3, ResourceAnswers
  <1>4. CASE /\ Continue(q, AfterCheck(q))
             /\ rpeak' = [rpeak EXCEPT ![rreq[q].kind][rreq[q].org] =
                                          IF n < @ THEN @ ELSE n + 1]
    <2>1. rpeak' \in [Kind -> [Org -> Nat]]
      BY <1>2, <1>4
    <2>2. AfterCheck(q) = "insert" => Preceded(rreq[q])
      BY DEF AfterCheck, Preceded
    <2>3. AfterCheck(q) \in ResourceAt
      BY DEF AfterCheck, ResourceAt
    <2> QED
      BY <1>1, <1>4, <2>1, <2>2, <2>3, Continues
  <1> QED
    BY <1>3, <1>4 DEF CheckResourceLimit, n

LEMMA FindPreviousStep ==
  ASSUME RowsInv, NEW q \in Request, FindPrevious(q)
  PROVE  RowsInv'
  <1>1. /\ UNCHANGED <<resource, existed, linked>> /\ rpeak' \in [Kind -> [Org -> Nat]]
        /\ rreq[q].at = "previous" /\ "insert" \in ResourceAt
    BY DEF FindPrevious, Untouched, RowsInv, ResourceTypeOK, ResourceAt
  <1>2. CASE Answer(q, 400)
    BY <1>1, <1>2, ResourceAnswers
  <1>3. CASE /\ PreviousVersion(rreq[q].name, rreq[q].v) # {}
             /\ Continue(q, "insert")
    <2>1. PICK i \in PreviousVersion(rreq[q].name, rreq[q].v) : TRUE
      BY <1>3
    <2>2. /\ i \in ResourceId /\ SoundRow(i)
          /\ resource[i].state = "live" /\ resource[i].kind = "schema"
          /\ resource[i].name = rreq[q].name /\ resource[i].v = rreq[q].v - 1
      BY <2>1 DEF PreviousVersion, RowsInv
    <2>3. Preceded(rreq[q])
      <3>1. SchemaOf(resource[i]) \in existed
        BY <2>2 DEF SoundRow
      <3>2. /\ SchemaOf(resource[i]).name = rreq[q].name
            /\ SchemaOf(resource[i]).v = rreq[q].v - 1
        BY <2>2 DEF SchemaOf
      <3> QED
        BY <3>1, <3>2 DEF Preceded
    <2> QED
      BY <1>1, <1>3, <2>3, Continues
  <1> QED
    BY <1>2, <1>3 DEF FindPrevious
LEMMA TestSubscriptionStep ==
  ASSUME RowsInv, NEW q \in Request, TestSubscription(q)
  PROVE  RowsInv'
  <1>1. /\ UNCHANGED <<resource, existed, linked>> /\ rpeak' \in [Kind -> [Org -> Nat]]
        /\ rreq[q].at = "start" /\ ~rreq[q].shown /\ rreq[q].kind = "subscription"
    BY DEF TestSubscription, Starts, Untouched, RowsInv, ResourceTypeOK, Carried
  <1>2. CASE Answer(q, 404)
    BY <1>1, <1>2, ResourceAnswers
  <1>3. CASE /\ Found(q)
             /\ rreq' = [rreq EXCEPT ![q].at = "deliver",
                                     ![q].key = resource[rreq[q].id].secret]
    <2> DEFINE i == rreq[q].id
               u == [rreq[q] EXCEPT !.at = "deliver", !.key = resource[i].secret]
    <2>1. /\ i \in ResourceId /\ resource[i].state = "live"
          /\ resource[i].kind = "subscription" /\ resource[i] \in Resource
      BY <1>1, <1>3, ResourceTypes DEF RowsInv, Found, Owned
    <2>2. resource[i].secret \in Secret /\ Disclosed(resource[i].secret)
      BY <2>1 DEF RowsInv, SoundRow, Resource
    <2>3. rreq[q] \in ResourceRequest
      BY ResourceTypes DEF RowsInv
    <2>4. rreq' = [rreq EXCEPT ![q] = u]
      BY <1>3
    <2> HIDE DEF i
    <2>5. /\ u \in ResourceRequest /\ u.at = "deliver"
          /\ u.op = rreq[q].op /\ u.kind = rreq[q].kind /\ u.org = rreq[q].org
          /\ u.name = rreq[q].name /\ u.v = rreq[q].v /\ u.supply = rreq[q].supply
          /\ u.shown = rreq[q].shown /\ u.key = resource[i].secret
      BY <2>2, <2>3 DEF ResourceRequest, ResourceAt
    <2> HIDE DEF u
    <2> QED
      BY <1>1, <2>2, <2>4, <2>5, ResourceTurns DEF ResourceTurnsTo
  <1> QED
    BY <1>2, <1>3 DEF TestSubscription

-----------------------------------------------------------------------------
\* The steps that change a row answer the request.
LEMMA RowTurns ==
  ASSUME RowsInv, NEW q \in Request, NEW u, ResourceTurnsTo(q, u),
         u.at = "done", u.key = rreq[q].key, rreq[q].shown => u.shown,
         NEW i \in ResourceId, NEW row \in Resource,
         resource' = [resource EXCEPT ![i] = row], rpeak' = rpeak,
         existed \subseteq existed', existed' \subseteq SchemaVersion,
         linked' \subseteq SchemaVersion, SchemaPreceded',
         row.state = "live" =>
           /\ row.kind = "subscription" => Disclosed(row.secret)'
           /\ row.kind = "schema" => SchemaOf(row) \in existed'
  PROVE  RowsInv'
  <1>1. /\ rreq'[q] = u /\ rreq' \in [Request -> ResourceRequest] /\ Carried(q)
        /\ u \in ResourceRequest
    BY ResourceTurn DEF RowsInv, ResourceTurnsTo
  <1>2. /\ resource' \in [ResourceId -> Resource] /\ resource'[i] = row
        /\ \A j \in ResourceId \ {i} : resource'[j] = resource[j]
    BY DEF RowsInv, ResourceTypeOK
  <1>3. ASSUME NEW p \in Request, p # q
        PROVE  Carried(p)'
    BY <1>3, OthersCarry
  <1>4. Carried(q)'
    <2>1. PICK s \in Secret : s = u.key
      BY <1>1 DEF ResourceRequest
    <2>2. u.op = "test" => Disclosed(s)
      BY <1>1, <2>1 DEF Carried, ResourceTurnsTo
    <2>3. u.op = "test" => Disclosed(s)'
      BY <2>2, StaysDisclosed
    <2>4. (rreq[q].op = "test" => Disclosed(rreq[q].key))'
      BY <1>1, <2>1, <2>3 DEF Disclosed
    <2>5. rreq'[q].op \in {"upsert", "unsubscribe", "test"}
            => rreq'[q].kind = "subscription"
      BY <1>1 DEF Carried, ResourceTurnsTo
    <2> QED
      BY <1>1, <2>4, <2>5 DEF Carried
  <1>5. ASSUME NEW j \in ResourceId, j # i
        PROVE  SoundRow(j)'
    BY <1>2, <1>5, RowStays
  <1>6. SoundRow(i)'
    BY <1>2 DEF SoundRow, Disclosed
  <1>7. ResourceTypeOK'
    BY <1>1, <1>2 DEF RowsInv, ResourceTypeOK
  <1> QED
    BY <1>3, <1>4, <1>5, <1>6, <1>7 DEF RowsInv

LEMMA DeletesStep ==
  ASSUME RowsInv, NEW q \in Request, RemoveResource(q) \/ Unsubscribe(q)
  PROVE  RowsInv'
  <1>1. /\ UNCHANGED <<existed, linked, rpeak>> /\ rpeak' \in [Kind -> [Org -> Nat]]
    BY DEF RemoveResource, Unsubscribe, RowsInv, ResourceTypeOK
  <1>2. CASE Answer(q, 404) /\ UNCHANGED resource
    BY <1>1, <1>2, ResourceAnswers
  <1>3. CASE /\ resource' = [resource EXCEPT ![rreq[q].id].state = "deleted"]
             /\ Answer(q, 200)
    <2>1. PICK i \in ResourceId : i = rreq[q].id
      BY ResourceTypes DEF RowsInv
    <2>2. resource[i] \in Resource
      BY DEF RowsInv, ResourceTypeOK
    <2>3. [resource[i] EXCEPT !.state = "deleted"] \in Resource
      BY <2>2 DEF Resource
    <2>4. PICK row \in Resource : row = [resource[i] EXCEPT !.state = "deleted"]
      BY <2>3
    <2>5. resource' = [resource EXCEPT ![i] = row] /\ row.state = "deleted"
      BY <1>3, <2>1, <2>2, <2>4 DEF Resource
    <2>6. PICK u : /\ ResourceTurnsTo(q, u) /\ u.at = "done"
                   /\ (u.shown <=> rreq[q].shown) /\ u.key = rreq[q].key
      BY <1>3, AnswerTurns DEF RowsInv
    <2>7. existed' \subseteq SchemaVersion /\ linked' \subseteq SchemaVersion /\ SchemaPreceded'
      BY <1>1 DEF RowsInv, ResourceTypeOK, SchemaPreceded
    <2> QED
      BY <1>1, <2>5, <2>6, <2>7, RowTurns
  <1> QED
    BY <1>2, <1>3 DEF RemoveResource, Unsubscribe

\* What a change makes of a row: it keeps its table, has its old secret or one
\* that the request supplies, and if it was moved it no longer counts.
LEMMA AmendedRow ==
  ASSUME ResourceTypeOK, NEW q \in Request, NEW old \in Resource, NEW row,
         row = Amended(q, old)
  PROVE  /\ row \in Resource /\ row.kind = old.kind /\ row.state = old.state
         /\ row.secret = old.secret \/ (row.secret = q /\ rreq[q].supply)
         /\ row.metered => old.metered /\ row.org = old.org
  <1>1. PICK to \in Org, name \in ResourceName, v \in Nat, supply \in BOOLEAN :
          /\ to = rreq[q].to /\ name = rreq[q].name /\ v = rreq[q].v
          /\ supply = rreq[q].supply
    BY ResourceTypes
  <1>2. PICK secret \in Secret :
          /\ secret = SecretAfter(q, old.secret)
          /\ secret = old.secret \/ (secret = q /\ rreq[q].supply)
    BY DEF SecretAfter, Secret, Resource
  <1>3. PICK metered \in BOOLEAN : metered = (old.metered /\ to = old.org)
    BY DEF Resource
  <1>4. CASE rreq[q].op = "update"
    <2>1. row = [old EXCEPT !.name = name, !.v = v, !.org = to, !.secret = secret,
                            !.metered = metered]
      BY <1>1, <1>2, <1>3, <1>4 DEF Amended
    <2>2. /\ row \in Resource /\ row.kind = old.kind /\ row.state = old.state
          /\ row.secret = secret /\ row.metered = metered /\ row.org = to
      BY <2>1 DEF Resource
    <2> QED
      BY <1>2, <1>3, <2>2
  <1>5. CASE rreq[q].op # "update"
    <2>1. row = [old EXCEPT !.secret = secret]
      BY <1>2, <1>5 DEF Amended
    <2>2. /\ row \in Resource /\ row.kind = old.kind /\ row.state = old.state
          /\ row.secret = secret /\ row.metered = old.metered /\ row.org = old.org
      BY <2>1 DEF Resource
    <2> QED
      BY <1>2, <2>2
  <1> QED
    BY <1>4, <1>5

LEMMA ChangeStep ==
  ASSUME RowsInv, NEW q \in Request, ChangeResource(q)
  PROVE  RowsInv'
  <1>1. UNCHANGED <<rpeak, linked>> /\ rpeak' \in [Kind -> [Org -> Nat]]
    BY DEF ChangeResource, RowsInv, ResourceTypeOK
  <1>2. CASE Answer(q, 500) /\ UNCHANGED <<resource, existed>>
    BY <1>1, <1>2, ResourceAnswers
  <1>3. ASSUME NEW i \in ResourceId, i = rreq[q].id, NEW row,
               row = Amended(q, resource[i]),
               resource[i].state = "live",
               resource' = [resource EXCEPT ![i] = row],
               existed' = IF row.kind = "schema"
                            THEN existed \cup {SchemaOf(row)} ELSE existed,
               Answer(q, 200)
        PROVE  RowsInv'
    <2>1. ResourceTypeOK /\ resource[i] \in Resource
      BY DEF RowsInv, ResourceTypeOK
    <2>2. /\ row \in Resource /\ row.kind = resource[i].kind
          /\ row.secret = resource[i].secret \/ (row.secret = q /\ rreq[q].supply)
      BY <1>3, <2>1, AmendedRow
    <2>3. PICK u : /\ ResourceTurnsTo(q, u) /\ u.at = "done"
                   /\ (u.shown <=> rreq[q].shown) /\ u.key = rreq[q].key
      BY <1>3, AnswerTurns DEF RowsInv
    <2>4. row.kind = "subscription" => Disclosed(row.secret)'
      <3>1. ASSUME row.kind = "subscription" PROVE Disclosed(row.secret)
        BY <1>3, <2>2, <3>1 DEF RowsInv, SoundRow, Disclosed
      <3>2. PICK s \in Secret : s = row.secret
        BY <2>2 DEF Resource
      <3> QED
        BY <2>3, <3>1, <3>2, StaysDisclosed
    <2>5. /\ existed \subseteq existed' /\ linked' \subseteq SchemaVersion
          /\ row.kind = "schema" => SchemaOf(row) \in existed'
      BY <1>1, <1>3 DEF RowsInv, ResourceTypeOK
    <2>6. SchemaOf(row) \in SchemaVersion
      BY <2>2 DEF SchemaOf, SchemaVersion, Resource
    <2>7. existed' \subseteq SchemaVersion
      BY <1>3, <2>6 DEF RowsInv, ResourceTypeOK
    <2>8. SchemaPreceded'
      BY <1>1, <2>5 DEF RowsInv, SchemaPreceded
    <2> QED
      BY <1>1, <1>3, <2>2, <2>3, <2>4, <2>5, <2>7, <2>8, RowTurns
  <1> QED
    <2>1. rreq[q].id \in ResourceId
      BY ResourceTypes DEF RowsInv
    <2> QED
      BY <1>2, <1>3, <2>1 DEF ChangeResource

\* The new row's secret is shown, if it has one, and a schema version that was to
\* come after another does.
LEMMA ResourceInsertStep ==
  ASSUME RowsInv, NEW q \in Request, InsertResource(q)
  PROVE  RowsInv'
  <1>1. PICK i \in ResourceId :
          /\ resource[i].state = "unborn"
          /\ resource' = [resource EXCEPT ![i] = RowOf(q)]
          /\ rreq' = [rreq EXCEPT ![q].at = "done", ![q].id = i,
                                  ![q].shown = (rreq[q].kind = "subscription"),
                                  ![q].reply = 200]
    BY DEF InsertResource
  <1>2. /\ rreq[q].at = "insert" /\ rpeak' = rpeak /\ ~rreq[q].shown /\ Preceded(rreq[q])
        /\ existed' = IF rreq[q].kind = "schema"
                        THEN existed \cup {SchemaOf(rreq[q])} ELSE existed
        /\ linked' = IF rreq[q].op = "register" /\ rreq[q].v > 1
                       THEN linked \cup {SchemaOf(rreq[q])} ELSE linked
    BY DEF InsertResource, RowsInv, Carried
  <1> DEFINE shown == (rreq[q].kind = "subscription")
             u == [rreq[q] EXCEPT !.at = "done", !.id = i, !.shown = shown, !.reply = 200]
  <1>3. rreq' = [rreq EXCEPT ![q] = u] /\ shown \in BOOLEAN
    BY <1>1
  <1>4. rreq[q] \in ResourceRequest
    BY ResourceTypes DEF RowsInv
  <1> HIDE DEF shown
  <1>5. u \in ResourceRequest
    BY <1>3, <1>4, ZenonT(60) DEF ResourceRequest, ResourceAt
  <1>6. /\ u.at = "done"
        /\ u.op = rreq[q].op /\ u.kind = rreq[q].kind /\ u.org = rreq[q].org
        /\ u.name = rreq[q].name /\ u.v = rreq[q].v /\ u.supply = rreq[q].supply
        /\ u.key = rreq[q].key /\ u.shown = shown
    BY <1>4 DEF ResourceRequest
  <1> HIDE DEF u
  <1>7. ResourceTurnsTo(q, u)
    BY <1>3, <1>5, <1>6 DEF ResourceTurnsTo
  <1>8. RowOf(q) \in Resource
    BY ResourceTypes DEF RowOf, Resource, RowsInv, Secret
  <1>9. PICK row \in Resource : row = RowOf(q)
    BY <1>8
  <1>10. /\ row.kind = rreq[q].kind /\ row.secret = q /\ row.org = rreq[q].org
         /\ row.name = rreq[q].name /\ row.v = rreq[q].v
         /\ SchemaOf(row) = SchemaOf(rreq[q])
    BY <1>9 DEF RowOf, SchemaOf
  <1>11. SchemaOf(rreq[q]) \in SchemaVersion
    BY ResourceTypes DEF SchemaOf, SchemaVersion, RowsInv
  <1>12. /\ existed \subseteq existed' /\ existed' \subseteq SchemaVersion
         /\ linked' \subseteq SchemaVersion
    BY <1>2, <1>11 DEF RowsInv, ResourceTypeOK
  <1>13. SchemaPreceded'
    <2>1. ASSUME NEW s \in linked'
          PROVE  \E p \in existed' : p.name = s.name /\ p.v = s.v - 1
      <3>1. CASE s \in linked
        BY <1>12, <3>1 DEF RowsInv, SchemaPreceded
      <3>2. CASE s \notin linked
        <4>1. s = SchemaOf(rreq[q]) /\ rreq[q].op = "register" /\ rreq[q].v > 1
          BY <1>2, <2>1, <3>2
        <4>2. s.name = rreq[q].name /\ s.v = rreq[q].v
          BY <4>1 DEF SchemaOf
        <4> QED
          BY <1>2, <1>12, <4>1, <4>2 DEF Preceded
      <3> QED
        BY <3>1, <3>2
    <2> QED
      BY <2>1 DEF SchemaPreceded
  <1>14. row.kind = "subscription" => Disclosed(row.secret)'
    <2>1. rreq'[q] = u
      BY <1>7, ResourceTurn DEF RowsInv
    <2>2. row.kind = "subscription" => rreq'[q].shown
      BY <1>6, <1>10, <2>1 DEF shown
    <2> QED
      BY <1>10, <2>2 DEF Disclosed
  <1>15. row.kind = "schema" => SchemaOf(row) \in existed'
    BY <1>2, <1>10
  <1> QED
    BY <1>1, <1>2, <1>6, <1>7, <1>9, <1>12, <1>13, <1>14, <1>15, RowTurns

LEMMA RowsStep ==
  ASSUME RowsInv, [ResourceNext]_resourceVars
  PROVE  RowsInv'
  <1>1. ASSUME NEW q \in Request, ServeResource(q)
        PROVE  RowsInv'
    BY <1>1, QuietSteps, UpsertFindsStep, CheckLimitStep, FindPreviousStep,
       TestSubscriptionStep, DeletesStep, ChangeStep, ResourceInsertStep DEF ServeResource
  <1>2. CASE UNCHANGED resourceVars
    BY <1>2 DEF resourceVars, RowsInv, ResourceTypeOK, Carried, Preceded, SoundRow, Disclosed,
                SchemaPreceded
  <1> QED
    BY <1>1, <1>2 DEF ResourceNext

LEMMA RowsStart ==
  ASSUME ResourceInit
  PROVE  RowsInv
  <1>1. /\ rreq \in [Request -> ResourceRequest] /\ resource \in [ResourceId -> Resource]
        /\ resource = InitialResource /\ linked = {} /\ rpeak \in [Kind -> [Org -> Nat]]
        /\ \A q \in Request : Unserved(rreq[q])
        /\ \A i \in ResourceId : resource[i].secret = Earlier
    BY ResourceAssumption DEF ResourceInit, ResourceStart
  <1>2. \A q \in Request : Carried(q)
    BY <1>1 DEF Unserved, Carried, Disclosed
  <1>3. existed = {SchemaOf(resource[i]) : i \in {j \in ResourceId :
                       resource[j].state = "live" /\ resource[j].kind = "schema"}}
    BY <1>1 DEF ResourceInit, ResourceStart
  <1>4. \A i \in ResourceId : SoundRow(i)
    BY <1>1, <1>3 DEF SoundRow, Disclosed
  <1>5. \A i \in ResourceId : SchemaOf(resource[i]) \in SchemaVersion
    BY <1>1 DEF SchemaOf, SchemaVersion, Resource
  <1>6. ResourceTypeOK /\ SchemaPreceded
    BY <1>1, <1>3, <1>5 DEF ResourceTypeOK, SchemaPreceded
  <1> QED
    BY <1>2, <1>4, <1>6 DEF RowsInv
-----------------------------------------------------------------------------
(* The plan's limit on a kind of resource. *)

OwnedFirst(k, o) ==
    {i \in ResourceId : /\ InitialResource[i].state = "live"
                        /\ InitialResource[i].kind = k
                        /\ InitialResource[i].org = o
                        /\ InitialResource[i].metered}

\* As Spare for the workflows: an organization's rows of a kind that the limit
\* admitted, with the inserts in flight.
SpareFor(k, o) ==
    /\ Cardinality(Entering(k, o)) <= rpeak[k][o]
    /\ \A m \in LimitRead : Bounding(m) =>
         \/ Cardinality(CountedOf(k, o)) + Cardinality(Entering(k, o))
              <= Cardinality(OwnedFirst(k, o))
         \/ Cardinality(CountedOf(k, o)) + Cardinality(Entering(k, o)) + 1
              <= m + rpeak[k][o]

SpareInv == RowsInv /\ \A k \in Kind : \A o \in Org : SpareFor(k, o)

LEMMA OwnedFinite ==
  ASSUME NEW k, NEW o
  PROVE  /\ IsFiniteSet(CountedOf(k, o)) /\ Cardinality(CountedOf(k, o)) \in Nat
         /\ Cardinality(Owned(k, o)) \in Nat
         /\ Cardinality(CountedOf(k, o)) <= Cardinality(Owned(k, o))
         /\ IsFiniteSet(Entering(k, o)) /\ Cardinality(Entering(k, o)) \in Nat
         /\ Cardinality(OwnedFirst(k, o)) \in Nat
  <1>1. /\ Owned(k, o) \in SUBSET ResourceId /\ Entering(k, o) \in SUBSET Request
        /\ OwnedFirst(k, o) \in SUBSET ResourceId
        /\ CountedOf(k, o) \subseteq Owned(k, o)
    BY DEF Owned, CountedOf, Entering, OwnedFirst
  <1> QED
    BY <1>1, PlanAssumption, ResourceAssumption, FS_Subset, FS_CardinalityType

\* Fewer rows and fewer inserts leave more room.
LEMMA SpareStays ==
  ASSUME NEW k \in Kind, NEW o \in Org, RowsInv, SpareFor(k, o),
         CountedOf(k, o)' \subseteq CountedOf(k, o), Entering(k, o)' \subseteq Entering(k, o),
         rpeak'[k][o] = rpeak[k][o]
  PROVE  SpareFor(k, o)'
  <1> DEFINE had == Cardinality(CountedOf(k, o))
             has == Cardinality(CountedOf(k, o)')
             awaited == Cardinality(Entering(k, o))
             awaits == Cardinality(Entering(k, o)')
  <1>1. /\ had \in Nat /\ awaited \in Nat /\ Cardinality(OwnedFirst(k, o)) \in Nat
        /\ has <= had /\ has \in Nat /\ awaits <= awaited /\ awaits \in Nat
    BY OwnedFinite, FS_Subset, FS_CardinalityType
  <1>2. rpeak[k][o] \in Nat
    BY DEF RowsInv, ResourceTypeOK
  <1>3. OwnedFirst(k, o)' = OwnedFirst(k, o)
    BY DEF OwnedFirst
  <1>4. awaits <= rpeak'[k][o]
    <2>1. awaited <= rpeak[k][o]
      BY DEF SpareFor
    <2> HIDE DEF awaits, awaited
    <2> QED
      BY <1>1, <1>2, <2>1
  <1>5. ASSUME NEW m \in LimitRead, Bounding(m)
        PROVE  \/ has + awaits <= Cardinality(OwnedFirst(k, o))
               \/ has + awaits + 1 <= m + rpeak'[k][o]
    <2>1. /\ m \in Nat
          /\ \/ had + awaited <= Cardinality(OwnedFirst(k, o))
             \/ had + awaited + 1 <= m + rpeak[k][o]
      BY <1>5 DEF SpareFor, Bounding
    <2> HIDE DEF had, has, awaited, awaits
    <2> QED
      BY <1>1, <1>2, <2>1
  <1> QED
    BY <1>3, <1>4, <1>5 DEF SpareFor, Bounding

\* Rows that do not come to life, and requests that do not go to their insert.
NoneEnters(q) ==
    /\ \A p \in Request \ {q} : rreq'[p] = rreq[p]
    /\ rreq'[q].kind = rreq[q].kind /\ rreq'[q].org = rreq[q].org
    /\ rreq'[q].op = rreq[q].op
    /\ rreq'[q].at \in {"previous", "insert"} =>
         rreq[q].at \in {"previous", "insert"} \/ rreq[q].op = "connect"
    /\ rpeak' = rpeak

NoneBorn ==
    \A i \in ResourceId :
        resource'[i].state = "live" /\ resource'[i].metered =>
            /\ resource[i].state = "live" /\ resource[i].metered
            /\ resource'[i].kind = resource[i].kind /\ resource'[i].org = resource[i].org

LEMMA SpareKept ==
  ASSUME SpareInv, NEW q \in Request, NoneEnters(q), NoneBorn
  PROVE  \A k \in Kind : \A o \in Org : SpareFor(k, o)'
  <1>1. ASSUME NEW k \in Kind, NEW o \in Org
        PROVE  SpareFor(k, o)'
    <2>1. CountedOf(k, o)' \subseteq CountedOf(k, o)
      BY DEF NoneBorn, CountedOf, Owned
    <2>2. Entering(k, o)' \subseteq Entering(k, o)
      BY DEF NoneEnters, Entering
    <2>3. rpeak'[k][o] = rpeak[k][o]
      BY DEF NoneEnters
    <2> QED
      BY <2>1, <2>2, <2>3, SpareStays DEF SpareInv
  <1> QED
    BY <1>1

LEMMA ContinueEnters ==
  ASSUME ResourceTypeOK, NEW q \in Request, NEW step \in ResourceAt, Continue(q, step),
         step \in {"previous", "insert"} =>
           rreq[q].at \in {"previous", "insert"} \/ rreq[q].op = "connect",
         rpeak' = rpeak
  PROVE  NoneEnters(q)
  <1>1. PICK u : ResourceTurnsTo(q, u) /\ u.at = step
    BY ContinueTurns
  <1> QED
    BY <1>1, ResourceTurn DEF NoneEnters, ResourceTurnsTo

LEMMA AnswerEnters ==
  ASSUME ResourceTypeOK, NEW q \in Request, NEW status \in Nat, Answer(q, status),
         rpeak' = rpeak
  PROVE  NoneEnters(q)
  <1>1. PICK u : ResourceTurnsTo(q, u) /\ u.at = "done"
    BY AnswerTurns
  <1> QED
    BY <1>1, ResourceTurn DEF NoneEnters, ResourceTurnsTo

\* Everything but the check and the insert.
LEMMA SpareQuiet ==
  ASSUME SpareInv, NEW q \in Request, ServeResource(q),
         ~CheckResourceLimit(q), ~InsertResource(q)
  PROVE  \A k \in Kind : \A o \in Org : SpareFor(k, o)'
  <1>1. ResourceTypeOK /\ rpeak' = rpeak
    BY DEF SpareInv, RowsInv, ServeResource, RefuseResource, PostFunction, PostSubscription,
           CreateEventSchema, CreateMcpServer, CreateIntegration, CreateEventRoutingRule,
           Create, OauthInserts, RegisterSchema, UpsertFinds, FindPrevious, InsertRefused, FindResource,
           ChangeResource, RemoveResource, Unsubscribe, TestSubscription, DeliverTest,
           Untouched
  <1>2. NoneBorn
    <2>1. /\ resource \in [ResourceId -> Resource]
          /\ rreq[q].id \in ResourceId
      BY <1>1, ResourceTypes
    <2>2. CASE resource' = resource
      BY <2>2 DEF NoneBorn
    <2>3. CASE resource' = [resource EXCEPT ![rreq[q].id].state = "deleted"]
      BY <2>1, <2>3 DEF NoneBorn, Resource
    <2>4. ASSUME NEW row, resource' = [resource EXCEPT ![rreq[q].id] = row],
                 resource[rreq[q].id].state = "live",
                 row.kind = resource[rreq[q].id].kind,
                 row.metered => /\ resource[rreq[q].id].metered
                                /\ row.org = resource[rreq[q].id].org
          PROVE  NoneBorn
      BY <2>1, <2>4 DEF NoneBorn
    <2>5. CASE ChangeResource(q)
      <3>1. PICK i \in ResourceId : i = rreq[q].id
        BY <2>1
      <3>2. PICK row : row = Amended(q, resource[i])
        OBVIOUS
      <3>3. /\ row.kind = resource[i].kind
            /\ row.metered => resource[i].metered /\ row.org = resource[i].org
        BY <1>1, <2>1, <3>2, AmendedRow
      <3>4. \/ resource' = resource
            \/ resource[i].state = "live" /\ resource' = [resource EXCEPT ![i] = row]
        BY <2>5, <3>1, <3>2 DEF ChangeResource
      <3> QED
        BY <2>2, <2>4, <3>1, <3>3, <3>4
    <2>6. CASE ~ChangeResource(q)
      BY <2>2, <2>3, <2>6
         DEF ServeResource, RefuseResource, PostFunction, PostSubscription,
             CreateEventSchema, CreateMcpServer, CreateIntegration, CreateEventRoutingRule,
             Create, OauthInserts, RegisterSchema, UpsertFinds, FindPrevious, InsertRefused, FindResource,
             RemoveResource, Unsubscribe, TestSubscription, DeliverTest, Untouched
    <2> QED
      BY <2>5, <2>6
  <1>3. ASSUME NEW u \in ResourceRequest, ResourceTurnsTo(q, u), u.at \notin {"previous", "insert"}
        PROVE  NoneEnters(q)
    BY <1>1, <1>3, ResourceTurn DEF NoneEnters, ResourceTurnsTo
  <1>4. NoneEnters(q)
    <2>1. CASE UpsertFinds(q)
      <3>1. CASE Continue(q, "check")
        BY <1>1, <3>1, ContinueEnters DEF ResourceAt
      <3>2. ASSUME NEW i \in Clash("subscription", rreq[q].org, rreq[q].name, 1),
                   rreq' = [rreq EXCEPT ![q].at = "change", ![q].id = i]
            PROVE  NoneEnters(q)
        <4> DEFINE u == [rreq[q] EXCEPT !.at = "change", !.id = i]
        <4>1. rreq[q] \in ResourceRequest /\ rreq' = [rreq EXCEPT ![q] = u]
              /\ rreq \in [Request -> ResourceRequest]
          BY <1>1, <3>2, ResourceTypes
        <4>2. u.at = "change" /\ u.kind = rreq[q].kind /\ u.org = rreq[q].org
              /\ u.op = rreq[q].op
          BY <4>1 DEF ResourceRequest
        <4> HIDE DEF u
        <4> QED
          BY <1>1, <4>1, <4>2 DEF NoneEnters
      <3> QED
        BY <2>1, <3>1, <3>2 DEF UpsertFinds
    <2>2. CASE TestSubscription(q)
      <3>1. CASE Answer(q, 404)
        BY <1>1, <3>1, AnswerEnters
      <3>2. CASE rreq' = [rreq EXCEPT ![q].at = "deliver",
                                      ![q].key = resource[rreq[q].id].secret]
        <4> DEFINE u == [rreq[q] EXCEPT !.at = "deliver", !.key = resource[rreq[q].id].secret]
        <4>1. rreq[q] \in ResourceRequest /\ rreq' = [rreq EXCEPT ![q] = u]
              /\ rreq \in [Request -> ResourceRequest]
          BY <1>1, <3>2, ResourceTypes
        <4>2. u.at = "deliver" /\ u.kind = rreq[q].kind /\ u.org = rreq[q].org
              /\ u.op = rreq[q].op
          BY <4>1 DEF ResourceRequest
        <4> HIDE DEF u
        <4> QED
          BY <1>1, <4>1, <4>2 DEF NoneEnters
      <3> QED
        BY <2>2, <3>1, <3>2 DEF TestSubscription
    <2>3. CASE FindPrevious(q)
      <3>1. rreq[q].at = "previous" /\ "insert" \in ResourceAt
            /\ (Answer(q, 400) \/ Continue(q, "insert"))
        BY <2>3 DEF FindPrevious, ResourceAt
      <3> QED
        BY <1>1, <3>1, AnswerEnters, ContinueEnters
    <2>4. CASE ~UpsertFinds(q) /\ ~TestSubscription(q) /\ ~FindPrevious(q)
      <3>1. \/ \E status \in Nat : Answer(q, status)
            \/ \E step \in {"check", "change", "remove"} : Continue(q, step)
            \/ rreq[q].op = "connect" /\ Continue(q, "insert")
        <4>1. CASE \/ PostFunction(q) \/ PostSubscription(q) \/ CreateEventSchema(q)
                   \/ CreateMcpServer(q) \/ CreateIntegration(q)
                   \/ CreateEventRoutingRule(q)
          BY <4>1 DEF PostFunction, PostSubscription, CreateEventSchema, CreateMcpServer,
             CreateIntegration, CreateEventRoutingRule, Create
        <4>2. CASE \/ RefuseResource(q) \/ RegisterSchema(q) \/ FindResource(q)
                   \/ OauthInserts(q)
          BY <4>2 DEF RefuseResource, RegisterSchema, FindResource, OauthInserts, Starts
        <4>3. CASE \/ InsertRefused(q) \/ RemoveResource(q) \/ Unsubscribe(q)
                   \/ DeliverTest(q)
          BY <4>3 DEF InsertRefused, RemoveResource, Unsubscribe, DeliverTest
        <4>4. CASE ChangeResource(q)
          <5>1. Answer(q, 200) \/ Answer(q, 500)
            BY <4>4 DEF ChangeResource
          <5> QED
            BY <5>1
        <4> QED
          BY <2>4, <4>1, <4>2, <4>3, <4>4 DEF ServeResource
      <3>2. {"check", "change", "remove", "insert"} \subseteq ResourceAt
        BY DEF ResourceAt
      <3> QED
        BY <1>1, <3>1, <3>2, AnswerEnters, ContinueEnters
    <2> QED
      BY <2>1, <2>2, <2>3, <2>4
  <1> QED
    BY <1>2, <1>4, SpareKept

-----------------------------------------------------------------------------
\* A check that passes finds fewer rows than any limit allows.
LEMMA CheckSpares ==
  ASSUME SpareInv, NEW q \in Request, CheckResourceLimit(q)
  PROVE  \A k \in Kind : \A o \in Org : SpareFor(k, o)'
  <1>1. /\ ResourceTypeOK /\ rreq[q].at = "check" /\ UNCHANGED <<resource, existed, linked>>
        /\ rpeak \in [Kind -> [Org -> Nat]]
        /\ rreq[q].kind \in Kind /\ rreq[q].org \in Org
        /\ \A k \in Kind : \A o \in Org : SpareFor(k, o)
        /\ RowsInv
    BY ResourceTypes DEF SpareInv, RowsInv, ResourceTypeOK, CheckResourceLimit
  <1>2. NoneBorn
    BY <1>1 DEF NoneBorn
  <1>3. PICK k0 \in Kind, o0 \in Org : k0 = rreq[q].kind /\ o0 = rreq[q].org
    BY <1>1
  <1>4. CASE Answer(q, 403) /\ rpeak' = rpeak
    BY <1>1, <1>2, <1>4, AnswerEnters, SpareKept
  <1>5. ASSUME NEW limit \in LimitRead,
               UnderLimit(limit, Cardinality(Owned(k0, o0))), Continue(q, AfterCheck(q)),
               rpeak' = [rpeak EXCEPT ![k0][o0] =
                           IF Cardinality(Entering(k0, o0)) < @
                             THEN @ ELSE Cardinality(Entering(k0, o0)) + 1]
        PROVE  \A k \in Kind : \A o \in Org : SpareFor(k, o)'
    <2> DEFINE rows == Cardinality(Owned(k0, o0))
               counted == Cardinality(CountedOf(k0, o0))
               n == Cardinality(Entering(k0, o0))
    <2>1. PICK u : ResourceTurnsTo(q, u) /\ u.at = AfterCheck(q)
      BY <1>1, <1>5, ContinueTurns DEF AfterCheck, ResourceAt
    <2>2. /\ rreq'[q].at \in {"previous", "insert"}
          /\ rreq'[q].kind = k0 /\ rreq'[q].org = o0
          /\ \A p \in Request \ {q} : rreq'[p] = rreq[p]
      BY <1>1, <1>3, <2>1, ResourceTurn DEF ResourceTurnsTo, AfterCheck
    <2>3. n \in Nat /\ rows \in Nat /\ counted \in Nat /\ counted <= rows
      BY OwnedFinite
    <2> HIDE DEF rows, counted, n
    <2>4. ASSUME NEW k \in Kind, NEW o \in Org, k # k0 \/ o # o0
          PROVE  SpareFor(k, o)'
      <3>1. rpeak'[k][o] = rpeak[k][o]
        BY <1>1, <1>5, <2>4
      <3>2. Entering(k, o)' \subseteq Entering(k, o)
        BY <2>2, <2>4 DEF Entering
      <3>3. CountedOf(k, o)' \subseteq CountedOf(k, o)
        BY <1>1 DEF CountedOf, Owned
      <3> QED
        BY <1>1, <3>1, <3>2, <3>3, SpareStays
    <2>5. SpareFor(k0, o0)'
      <3>1. PICK A, B : /\ A = Entering(k0, o0) /\ B = Entering(k0, o0)'
        OBVIOUS
      <3>2. Cardinality(B) \in Nat /\ Cardinality(B) <= n + 1
        <4>6. IsFiniteSet(A)
          BY <3>1, OwnedFinite
        <4>7. q \notin Entering(k0, o0)
          BY <1>1 DEF Entering
        <4>8. Entering(k0, o0)' \subseteq Entering(k0, o0) \cup {q}
          BY <2>2 DEF Entering
        <4>1. B \subseteq A \cup {q} /\ q \notin A /\ IsFiniteSet(A)
          BY <3>1, <4>6, <4>7, <4>8
        <4>2. IsFiniteSet(A \cup {q}) /\ Cardinality(A \cup {q}) = Cardinality(A) + 1
          BY <4>1, FS_AddElement
        <4>3. Cardinality(B) <= Cardinality(A) + 1 /\ IsFiniteSet(B)
          BY <4>1, <4>2, FS_Subset
        <4>4. Cardinality(B) \in Nat /\ Cardinality(A) = n
          BY <3>1, <4>3, FS_CardinalityType DEF n
        <4> QED
          BY <4>3, <4>4
      <3>3. Cardinality(CountedOf(k0, o0)') = counted
        BY <1>1 DEF CountedOf, Owned, counted
      <3>4. rpeak'[k0][o0] \in Nat /\ n + 1 <= rpeak'[k0][o0]
        <4>1. rpeak[k0][o0] \in Nat
          BY <1>1
        <4>2. rpeak'[k0][o0] = IF n < rpeak[k0][o0] THEN rpeak[k0][o0] ELSE n + 1
          BY <1>1, <1>5 DEF n
        <4> QED
          BY <2>3, <4>1, <4>2
      <3>5. ASSUME NEW m \in LimitRead, Bounding(m)
            PROVE  m \in Nat /\ counted + (n + 1) + 1 <= m + rpeak'[k0][o0]
        <4>1. m \in Nat /\ rows + 1 <= m
          BY <1>5, <2>3, <3>5 DEF Bounding, UnderLimit, Unlimited, rows
        <4> QED
          BY <2>3, <3>4, <4>1
      <3>6. ASSUME NEW m \in LimitRead, Bounding(m)
            PROVE  counted + Cardinality(B) + 1 <= m + rpeak'[k0][o0]
        BY <2>3, <3>2, <3>4, <3>5, <3>6
      <3>7. Cardinality(B) <= rpeak'[k0][o0]
        BY <2>3, <3>2, <3>4
      <3> QED
        BY <3>1, <3>3, <3>6, <3>7 DEF SpareFor, Bounding
    <2> QED
      BY <2>4, <2>5
  <1> QED
    BY <1>3, <1>4, <1>5 DEF CheckResourceLimit

\* An insert turns the room that was made for it into a row.
LEMMA InsertSpares ==
  ASSUME SpareInv, NEW q \in Request, InsertResource(q)
  PROVE  \A k \in Kind : \A o \in Org : SpareFor(k, o)'
  <1>1. /\ ResourceTypeOK /\ rreq[q].at = "insert" /\ rpeak' = rpeak
        /\ rpeak \in [Kind -> [Org -> Nat]]
        /\ rreq[q].kind \in Kind /\ rreq[q].org \in Org
        /\ resource \in [ResourceId -> Resource]
        /\ \A k \in Kind : \A o \in Org : SpareFor(k, o)
        /\ RowsInv
    BY ResourceTypes DEF SpareInv, RowsInv, ResourceTypeOK, InsertResource
  <1>2. PICK i \in ResourceId :
          /\ resource[i].state = "unborn"
          /\ resource' = [resource EXCEPT ![i] = RowOf(q)]
          /\ rreq' = [rreq EXCEPT ![q].at = "done", ![q].id = i,
                                  ![q].shown = (rreq[q].kind = "subscription"),
                                  ![q].reply = 200]
    BY DEF InsertResource
  <1>3. PICK k0 \in Kind, o0 \in Org : k0 = rreq[q].kind /\ o0 = rreq[q].org
    BY <1>1
  <1>4. /\ resource'[i].state = "live" /\ resource'[i].kind = k0 /\ resource'[i].org = o0
        /\ resource'[i].metered <=> rreq[q].op # "connect"
        /\ \A j \in ResourceId \ {i} : resource'[j] = resource[j]
    BY <1>1, <1>2, <1>3 DEF RowOf
  <1>5. /\ rreq'[q].at = "done"
        /\ \A p \in Request \ {q} : rreq'[p] = rreq[p]
    <2> DEFINE shown == (rreq[q].kind = "subscription")
               u == [rreq[q] EXCEPT !.at = "done", !.id = i, !.shown = shown, !.reply = 200]
    <2>1. rreq' = [rreq EXCEPT ![q] = u]
      BY <1>2
    <2>2. rreq[q] \in ResourceRequest /\ rreq \in [Request -> ResourceRequest]
      BY <1>1, ResourceTypes
    <2> HIDE DEF shown
    <2>3. u.at = "done"
      BY <2>2 DEF ResourceRequest
    <2> HIDE DEF u
    <2> QED
      BY <2>1, <2>2, <2>3
  <1>6. ASSUME NEW k \in Kind, NEW o \in Org, k # k0 \/ o # o0 \/ rreq[q].op = "connect"
        PROVE  SpareFor(k, o)'
    <2>1. CountedOf(k, o)' \subseteq CountedOf(k, o)
      BY <1>4, <1>6 DEF CountedOf, Owned
    <2>2. Entering(k, o)' \subseteq Entering(k, o)
      BY <1>5 DEF Entering
    <2> QED
      BY <1>1, <2>1, <2>2, SpareStays
  <1>7. ASSUME rreq[q].op # "connect"
        PROVE  SpareFor(k0, o0)'
    <2>1. CountedOf(k0, o0)' = CountedOf(k0, o0) \cup {i} /\ i \notin CountedOf(k0, o0)
      BY <1>2, <1>4, <1>7 DEF CountedOf, Owned
    <2>2. Entering(k0, o0)' = Entering(k0, o0) \ {q} /\ q \in Entering(k0, o0)
      BY <1>1, <1>3, <1>5, <1>7 DEF Entering
    <2>3. /\ Cardinality(CountedOf(k0, o0)') = Cardinality(CountedOf(k0, o0)) + 1
          /\ Cardinality(Entering(k0, o0)') = Cardinality(Entering(k0, o0)) - 1
      <3>1. PICK A, B : A = CountedOf(k0, o0) /\ B = Entering(k0, o0)
        OBVIOUS
      <3>2. IsFiniteSet(A) /\ IsFiniteSet(B) /\ i \notin A /\ q \in B
        BY <2>1, <2>2, <3>1, OwnedFinite
      <3>3. /\ Cardinality(A \cup {i}) = Cardinality(A) + 1
            /\ Cardinality(B \ {q}) = Cardinality(B) - 1
        BY <3>2, FS_AddElement, FS_RemoveElement
      <3> QED
        BY <2>1, <2>2, <3>1, <3>3
    <2>4. rpeak[k0][o0] \in Nat /\ OwnedFirst(k0, o0)' = OwnedFirst(k0, o0)
      BY <1>1 DEF OwnedFirst
    <2> QED
      BY <1>1, <2>3, <2>4, OwnedFinite DEF SpareFor, Bounding
  <1> QED
    BY <1>6, <1>7

LEMMA SpareStep ==
  ASSUME SpareInv, [ResourceNext]_resourceVars
  PROVE  SpareInv'
  <1>1. RowsInv /\ RowsInv'
    BY RowsStep DEF SpareInv
  <1>2. ASSUME NEW q \in Request, ServeResource(q)
        PROVE  \A k \in Kind : \A o \in Org : SpareFor(k, o)'
    BY <1>2, CheckSpares, InsertSpares, SpareQuiet
  <1>3. ASSUME UNCHANGED resourceVars
        PROVE  \A k \in Kind : \A o \in Org : SpareFor(k, o)'
    <2>1. ASSUME NEW k \in Kind, NEW o \in Org
          PROVE  SpareFor(k, o)'
      <3>1. /\ CountedOf(k, o)' = CountedOf(k, o) /\ Entering(k, o)' = Entering(k, o)
            /\ rpeak' = rpeak
        BY <1>3 DEF resourceVars, CountedOf, Owned, Entering
      <3> QED
        BY <1>1, <3>1, SpareStays DEF SpareInv
    <2> QED
      BY <2>1
  <1>4. \A k \in Kind : \A o \in Org : SpareFor(k, o)'
    BY <1>2, <1>3 DEF ResourceNext
  <1> QED
    BY <1>1, <1>4 DEF SpareInv

LEMMA SpareStart ==
  ASSUME ResourceInit
  PROVE  SpareInv
  <1>1. RowsInv
    BY RowsStart
  <1>2. ASSUME NEW k \in Kind, NEW o \in Org
        PROVE  SpareFor(k, o)
    <2>1. Entering(k, o) = {}
      BY ResourceAssumption DEF ResourceInit, ResourceStart, Entering, Unserved
    <2>3. /\ Cardinality(Entering(k, o)) = 0
          /\ Cardinality(OwnedFirst(k, o)) \in Nat
      BY <2>1, OwnedFinite, FS_EmptySet
    <2>2. rpeak[k][o] = 0 /\ CountedOf(k, o) = OwnedFirst(k, o)
      BY DEF ResourceInit, ResourceStart, CountedOf, Owned, OwnedFirst
    <2> QED
      BY <2>2, <2>3 DEF SpareFor
  <1> QED
    BY <1>1, <1>2 DEF SpareInv

THEOREM ResourceInvariant == ResourceSpec => []SpareInv
  <1>1. ResourceInit => SpareInv
    BY SpareStart
  <1>2. SpareInv /\ [ResourceNext]_resourceVars => SpareInv'
    BY SpareStep
  <1> QED
    BY <1>1, <1>2, PTL DEF ResourceSpec

\* Every variable of the resources keeps its type.
THEOREM ResourcesTyped == ResourceSpec => []ResourceTypeOK
  <1>1. SpareInv => ResourceTypeOK
    BY DEF SpareInv, RowsInv
  <1> QED
    BY <1>1, ResourceInvariant, PTL

\* A live subscription's secret, and the one a test delivery is signed with, was
\* sent by or to the subscriber, whatever else happens to the row.
THEOREM SecretsKnown == ResourceSpec => []SecretKnown
  <1>1. SpareInv => SecretKnown
    BY DEF SpareInv, RowsInv, SoundRow, Carried, SecretKnown
  <1> QED
    BY <1>1, ResourceInvariant, PTL

\* A later schema version is registered only after the one before it was there.
THEOREM SchemasPreceded == ResourceSpec => []SchemaPreceded
  <1>1. SpareInv => SchemaPreceded
    BY DEF SpareInv, RowsInv
  <1> QED
    BY <1>1, ResourceInvariant, PTL

\* Creations that overlap exceed the plan by at most the inserts that were in
\* flight at once less one, for each kind of resource and each organization, but
\* for the rows that came past the limit.
THEOREM ResourceLimitHolds == ResourceSpec => []ResourceLimitHeld
  <1>1. ASSUME SpareInv, NEW m \in LimitRead, NEW k \in Kind, NEW o \in Org, Bounding(m)
        PROVE  \/ Cardinality(CountedOf(k, o)) + 1 <= m + rpeak[k][o]
               \/ Cardinality(CountedOf(k, o)) <= Cardinality(OwnedFirst(k, o))
    <2>1. /\ Cardinality(CountedOf(k, o)) \in Nat /\ Cardinality(Entering(k, o)) \in Nat
          /\ Cardinality(OwnedFirst(k, o)) \in Nat /\ m \in Nat /\ rpeak[k][o] \in Nat
      BY <1>1, OwnedFinite DEF SpareInv, RowsInv, ResourceTypeOK, Bounding
    <2> QED
      BY <1>1, <2>1 DEF SpareInv, SpareFor
  <1>2. SpareInv => ResourceLimitHeld
    BY <1>1 DEF ResourceLimitHeld, OwnedFirst
  <1> QED
    BY <1>2, ResourceInvariant, PTL

-----------------------------------------------------------------------------
(* PLUGINS *)

\* The file is there, or a removal has read its address, or it was made up.
FileKept(file) ==
    file = Elsewhere \/ file \in bucket \/ Removed(file) \/ Claimed(file)

\* The requests that carry an address from the client on.
Given == {"create", "update", "publish"}

\* A request whose file, if it gets that far, is what a row or an entry will name.
Bringing(u) == u.op \in Given \/ u.at \in {"check", "insert"}

\* What a request carries: the file it will give a row or an entry was stored, or
\* is excused; no upload is counted.
Prepared(q) ==
    /\ preq[q].op = "upload" => preq[q].file \in Object
    /\ Bringing(preq[q]) => FileKept(preq[q].file)
    /\ preq[q].at = "check" => preq[q].op # "upload"
    /\ preq[q].at = "store" => preq[q].op = "upload"
    /\ preq[q].at = "cut" => preq[q].op = "remove"

FilesInv ==
    /\ PluginTypeOK
    /\ \A q \in Request : Prepared(q)
    /\ \A i \in PluginId : plugin[i].state = "live" => FileKept(plugin[i].file)
    /\ \A e \in EntryId : entry[e].state = "live" => FileKept(entry[e].file)

-----------------------------------------------------------------------------
LEMMA PluginTyped ==
  ASSUME PluginTypeOK, NEW q \in Request
  PROVE  /\ preq \in [Request -> PluginRequest] /\ plugin \in [PluginId -> Plugin]
         /\ entry \in [EntryId -> Entry]
         /\ preq[q] \in PluginRequest /\ preq[q].id \in PluginId
         /\ preq[q].entry \in EntryId /\ preq[q].owner \in Owner
         /\ preq[q].name \in PluginName /\ preq[q].file \in Object \cup {Elsewhere}
         /\ preq[q].to \in Owner
  <1>1. preq[q] \in PluginRequest
    BY DEF PluginTypeOK
  <1> QED
    BY <1>1 DEF PluginTypeOK, PluginRequest

\* q goes from its record to u, for the same organization and row.
PluginAdvances(q, u) ==
    /\ preq' = [preq EXCEPT ![q] = u]
    /\ u \in PluginRequest
    /\ u.op = preq[q].op /\ u.owner = preq[q].owner /\ u.id = preq[q].id

LEMMA PluginAdvance ==
  ASSUME PluginTypeOK, NEW q \in Request, NEW u, PluginAdvances(q, u)
  PROVE  /\ preq' \in [Request -> PluginRequest] /\ preq'[q] = u
         /\ \A p \in Request \ {q} : preq'[p] = preq[p]
  BY PluginTyped DEF PluginAdvances

LEMMA StepAdvances ==
  ASSUME PluginTypeOK, NEW q \in Request, NEW at \in PluginAt, Step(q, at)
  PROVE  \E u : PluginAdvances(q, u) /\ u.at = at /\ u.file = preq[q].file
  <1> DEFINE u == [preq[q] EXCEPT !.at = at]
  <1>1. preq[q] \in PluginRequest
    BY PluginTyped
  <1>2. /\ u \in PluginRequest /\ u.at = at /\ u.file = preq[q].file
        /\ u.op = preq[q].op /\ u.owner = preq[q].owner /\ u.id = preq[q].id
    BY <1>1 DEF PluginRequest
  <1>3. preq' = [preq EXCEPT ![q] = u]
    BY DEF Step
  <1> HIDE DEF u
  <1> QED
    BY <1>2, <1>3 DEF PluginAdvances

LEMMA FinishAdvances ==
  ASSUME PluginTypeOK, NEW q \in Request, NEW status \in Nat, Finish(q, status)
  PROVE  \E u : /\ PluginAdvances(q, u) /\ u.at = "done" /\ u.file = preq[q].file
                /\ u.reply = status
  <1> DEFINE u == [preq[q] EXCEPT !.at = "done", !.reply = status]
  <1>1. preq[q] \in PluginRequest
    BY PluginTyped
  <1>2. /\ u \in PluginRequest /\ u.at = "done" /\ u.file = preq[q].file
        /\ u.reply = status
        /\ u.op = preq[q].op /\ u.owner = preq[q].owner /\ u.id = preq[q].id
    BY <1>1 DEF PluginRequest, PluginAt
  <1>3. preq' = [preq EXCEPT ![q] = u]
    BY DEF Finish
  <1> HIDE DEF u
  <1> QED
    BY <1>2, <1>3 DEF PluginAdvances

-----------------------------------------------------------------------------
\* q leaves behind what it removed, and keeps the address its client gave.
Leaves(q, u) ==
    /\ preq[q].at # "done"
    /\ preq[q].op = "remove" /\ preq[q].at = "drop" =>
         u.at = "done" /\ u.reply \in {200, 500} /\ u.file = preq[q].file
    /\ u.op \in Given => u.file = preq[q].file

\* What was removed stays so, and what was kept is kept as long as the objects
\* that go are those of removals.
LEMMA StaysRemoved ==
  ASSUME FilesInv, NEW q \in Request, NEW u, PluginAdvances(q, u), Leaves(q, u),
         NEW file, Removed(file)
  PROVE  Removed(file)'
  <1>1. /\ \A p \in Request \ {q} : preq'[p] = preq[p]
        /\ preq'[q] = u /\ u.op = preq[q].op
    BY PluginAdvance DEF FilesInv, PluginAdvances
  <1>2. PICK p \in Request : /\ preq[p].op = "remove" /\ preq[p].file = file
                             /\ \/ preq[p].at = "drop"
                                \/ preq[p].at = "done" /\ preq[p].reply \in {200, 500}
    BY DEF Removed
  <1>3. /\ preq'[p].op = "remove" /\ preq'[p].file = file
        /\ \/ preq'[p].at = "drop"
           \/ preq'[p].at = "done" /\ preq'[p].reply \in {200, 500}
    BY <1>1, <1>2 DEF Leaves
  <1> QED
    BY <1>3 DEF Removed

LEMMA StaysKept ==
  ASSUME FilesInv, NEW q \in Request, NEW u, PluginAdvances(q, u), Leaves(q, u),
         \A f \in bucket : f \in bucket' \/ Removed(f)',
         NEW file, FileKept(file)
  PROVE  FileKept(file)'
  <1>1. CASE file = Elsewhere
    BY <1>1 DEF FileKept
  <1>2. CASE file \in bucket
    BY <1>2 DEF FileKept
  <1>3. CASE Removed(file)
    BY <1>3, StaysRemoved DEF FileKept
  <1>4. CASE Claimed(file)
    <2>1. PICK p \in Request : preq[p].op \in Given /\ preq[p].file = file
      BY <1>4 DEF Claimed, Given
    <2>2. preq'[p].op \in Given /\ preq'[p].file = file
      BY <2>1, PluginAdvance DEF FilesInv, PluginAdvances, Leaves
    <2> QED
      BY <1>4, <2>2 DEF FileKept, Claimed, Given
  <1> QED
    BY <1>1, <1>2, <1>3, <1>4 DEF FileKept

\* A step after which what q carries, the rows and the entries name files that
\* were kept before or have just been stored.
LEMMA FilesStay ==
  ASSUME FilesInv, NEW q \in Request, NEW u, PluginAdvances(q, u), Leaves(q, u),
         \A f \in bucket : f \in bucket' \/ Removed(f)',
         plugin' \in [PluginId -> Plugin], entry' \in [EntryId -> Entry],
         bucket' \subseteq Object, ppeak' \in [Owner -> Nat],
         u.op = "upload" => u.file \in Object,
         Bringing(u) => FileKept(u.file) \/ u.file \in bucket',
         u.at = "check" => u.op # "upload",
         u.at = "store" => u.op = "upload",
         u.at = "cut" => u.op = "remove",
         \A i \in PluginId : plugin'[i].state = "live" => FileKept(plugin'[i].file),
         \A e \in EntryId : entry'[e].state = "live" => FileKept(entry'[e].file)
  PROVE  FilesInv'
  <1>1. /\ preq' \in [Request -> PluginRequest] /\ preq'[q] = u
        /\ \A p \in Request \ {q} : preq'[p] = preq[p]
    BY PluginAdvance DEF FilesInv, PluginAdvances
  <1>2. \A file : FileKept(file) => FileKept(file)'
    BY StaysKept
  <1>3. PluginTypeOK'
    BY <1>1 DEF PluginTypeOK
  <1>4. ASSUME NEW p \in Request
        PROVE  Prepared(p)'
    <2>1. PICK file : file = preq'[p].file
      OBVIOUS
    <2>2. CASE p = q
      <3>1. Bringing(u) => FileKept(file)'
        BY <1>1, <1>2, <2>1, <2>2 DEF FileKept
      <3>2. (Bringing(preq[p]) => FileKept(preq[p].file))'
        BY <1>1, <2>1, <2>2, <3>1 DEF Bringing, FileKept, Removed, Claimed
      <3> QED
        BY <1>1, <2>2, <3>2 DEF Prepared
    <2>3. CASE p # q
      <3>1. Prepared(p) /\ preq'[p] = preq[p]
        BY <1>1, <2>3 DEF FilesInv
      <3>2. Bringing(preq[p]) => FileKept(file)'
        BY <1>2, <2>1, <3>1 DEF Prepared
      <3>3. (Bringing(preq[p]) => FileKept(preq[p].file))'
        BY <2>1, <3>1, <3>2 DEF Bringing, FileKept, Removed, Claimed
      <3> QED
        BY <3>1, <3>3 DEF Prepared
    <2> QED
      BY <2>2, <2>3
  <1>5. ASSUME NEW i \in PluginId
        PROVE  (plugin[i].state = "live" => FileKept(plugin[i].file))'
    <2>1. PICK file : file = plugin'[i].file
      OBVIOUS
    <2>2. plugin'[i].state = "live" => FileKept(file)'
      BY <1>2, <2>1
    <2> QED
      BY <2>1, <2>2 DEF FileKept, Removed, Claimed
  <1>6. ASSUME NEW e \in EntryId
        PROVE  (entry[e].state = "live" => FileKept(entry[e].file))'
    <2>1. PICK file : file = entry'[e].file
      OBVIOUS
    <2>2. entry'[e].state = "live" => FileKept(file)'
      BY <1>2, <2>1
    <2> QED
      BY <2>1, <2>2 DEF FileKept, Removed, Claimed
  <1> QED
    BY <1>3, <1>4, <1>5, <1>6 DEF FilesInv

-----------------------------------------------------------------------------
\* The steps that touch neither a row nor an entry nor an object.
LEMMA FilesQuiet ==
  ASSUME FilesInv, NEW q \in Request, NEW u, PluginAdvances(q, u),
         preq[q].at \notin {"done", "drop"},
         UNCHANGED <<plugin, entry, bucket>>, ppeak' \in [Owner -> Nat],
         u.at \in {"check", "insert"} => FileKept(u.file),
         u.at = "check" => u.op # "upload",
         u.at = "store" => u.op = "upload",
         u.at = "cut" => u.op = "remove",
         u.file = preq[q].file \/ u.op = "remove" \/ (u.op = "install" /\ FileKept(u.file))
  PROVE  FilesInv'
  <1>1. /\ u.op = preq[q].op /\ Prepared(q) /\ PluginTypeOK
        /\ \A i \in PluginId : plugin[i].state = "live" => FileKept(plugin[i].file)
        /\ \A e \in EntryId : entry[e].state = "live" => FileKept(entry[e].file)
    BY DEF FilesInv, PluginAdvances
  <1>2. /\ u.op = "upload" => u.file \in Object
        /\ Bringing(u) => FileKept(u.file)
        /\ Leaves(q, u)
    BY <1>1 DEF Prepared, Bringing, Leaves, Given
  <1>4. /\ plugin' \in [PluginId -> Plugin] /\ entry' \in [EntryId -> Entry]
        /\ bucket' \subseteq Object
    BY <1>1 DEF PluginTypeOK
  <1> QED
    BY <1>1, <1>2, <1>4, FilesStay

LEMMA FilesGoOn ==
  ASSUME FilesInv, NEW q \in Request, NEW at \in PluginAt, Step(q, at),
         preq[q].at \notin {"done", "drop"},
         UNCHANGED <<plugin, entry, bucket>>, ppeak' \in [Owner -> Nat],
         at \in {"check", "insert"} => FileKept(preq[q].file),
         at = "check" => preq[q].op # "upload",
         at = "store" => preq[q].op = "upload", at # "cut"
  PROVE  FilesInv'
  <1>1. PICK u : PluginAdvances(q, u) /\ u.at = at /\ u.file = preq[q].file
    BY StepAdvances DEF FilesInv
  <1>2. u.op = preq[q].op
    BY <1>1 DEF PluginAdvances
  <1> QED
    BY <1>1, <1>2, FilesQuiet

LEMMA FilesDone ==
  ASSUME FilesInv, NEW q \in Request, NEW status \in Nat, Finish(q, status),
         preq[q].at \notin {"done", "drop"},
         UNCHANGED <<plugin, entry, bucket>>, ppeak' \in [Owner -> Nat]
  PROVE  FilesInv'
  <1>1. PICK u : PluginAdvances(q, u) /\ u.at = "done" /\ u.file = preq[q].file
    BY FinishAdvances DEF FilesInv
  <1> QED
    BY <1>1, FilesQuiet

LEMMA PluginBegins ==
  ASSUME FilesInv, NEW q \in Request,
         RefusePlugin(q) \/ UploadPlugin(q) \/ CreatePlugin(q) \/ FindPlugin(q)
  PROVE  FilesInv'
  <1>1. /\ UNCHANGED <<plugin, entry, bucket>> /\ ppeak' \in [Owner -> Nat]
        /\ preq[q].at = "start"
    BY DEF RefusePlugin, UploadPlugin, CreatePlugin, FindPlugin, Begins, Registered,
           FilesInv, PluginTypeOK
  <1>2. CASE \E status \in Nat : Finish(q, status)
    BY <1>1, <1>2, FilesDone
  <1>3. ASSUME NEW at \in {"store", "check", "drop", "change"}, Step(q, at),
               at = "check" => preq[q].op = "create",
               at = "store" => preq[q].op = "upload"
        PROVE  FilesInv'
    <2>1. at = "check" => FileKept(preq[q].file)
      BY <1>3 DEF FilesInv, Prepared, Bringing, Given
    <2> QED
      BY <1>1, <1>3, <2>1, FilesGoOn DEF PluginAt
  <1>4. ASSUME NEW i \in PluginId, i = preq[q].id, preq[q].op = "remove",
               preq' = [preq EXCEPT ![q].at = "cut", ![q].file = plugin[i].file]
        PROVE  FilesInv'
    <2>1. plugin[i].file \in Object \cup {Elsewhere} /\ preq[q] \in PluginRequest
      BY PluginTyped DEF FilesInv, PluginTypeOK, Plugin
    <2>2. PICK file : file = plugin[i].file
      OBVIOUS
    <2> DEFINE u == [preq[q] EXCEPT !.at = "cut", !.file = file]
    <2>3. preq' = [preq EXCEPT ![q] = u]
      BY <1>4, <2>2
    <2>4. /\ u \in PluginRequest /\ u.at = "cut"
          /\ u.op = preq[q].op /\ u.owner = preq[q].owner /\ u.id = preq[q].id
      BY <2>1, <2>2 DEF PluginRequest, PluginAt
    <2> HIDE DEF u
    <2> QED
      BY <1>1, <1>4, <2>3, <2>4, FilesQuiet DEF PluginAdvances
  <1>5. CASE FindPlugin(q)
    <2>1. preq[q].id \in PluginId
      BY PluginTyped DEF FilesInv
    <2> QED
      BY <1>2, <1>3, <1>4, <1>5, <2>1 DEF FindPlugin
  <1> QED
    BY <1>2, <1>3, <1>5 DEF RefusePlugin, UploadPlugin, CreatePlugin, Begins

LEMMA FindEntryStep ==
  ASSUME FilesInv, NEW q \in Request, FindEntry(q)
  PROVE  FilesInv'
  <1>1. /\ UNCHANGED <<plugin, entry, bucket>> /\ ppeak' \in [Owner -> Nat]
        /\ preq[q].at = "start" /\ preq[q].op = "install"
    BY DEF FindEntry, Begins, Registered, FilesInv, PluginTypeOK
  <1>2. CASE Finish(q, 404)
    BY <1>1, <1>2, FilesDone
  <1>3. ASSUME NEW e \in EntryId, e = preq[q].entry, entry[e].state = "live",
               preq' = [preq EXCEPT ![q].at = "check", ![q].name = entry[e].name,
                                   ![q].file = entry[e].file]
        PROVE  FilesInv'
    <2>1. /\ entry[e].name \in PluginName /\ entry[e].file \in Object \cup {Elsewhere}
          /\ FileKept(entry[e].file) /\ preq[q] \in PluginRequest
      BY <1>3, PluginTyped DEF FilesInv, PluginTypeOK, Entry
    <2>2. PICK name, file : name = entry[e].name /\ file = entry[e].file
      OBVIOUS
    <2> DEFINE u == [preq[q] EXCEPT !.at = "check", !.name = name, !.file = file]
    <2>3. preq' = [preq EXCEPT ![q] = u]
      BY <1>3, <2>2
    <2>4. /\ u \in PluginRequest /\ u.at = "check" /\ u.file = file
          /\ u.op = preq[q].op /\ u.owner = preq[q].owner /\ u.id = preq[q].id
      BY <2>1, <2>2 DEF PluginRequest, PluginAt
    <2>5. FileKept(u.file)
      BY <2>1, <2>2, <2>4
    <2> HIDE DEF u
    <2> QED
      BY <1>1, <2>3, <2>4, <2>5, FilesQuiet DEF PluginAdvances
  <1> QED
    <2>1. preq[q].entry \in EntryId
      BY PluginTyped DEF FilesInv
    <2> QED
      BY <1>2, <1>3, <2>1 DEF FindEntry

LEMMA CheckPluginStep ==
  ASSUME FilesInv, NEW q \in Request, CheckPluginLimit(q)
  PROVE  FilesInv'
  <1> DEFINE n == Cardinality(Adding(preq[q].owner))
  <1>1. /\ UNCHANGED <<plugin, entry, bucket>> /\ preq[q].at = "check"
        /\ ppeak \in [Owner -> Nat] /\ preq[q].owner \in Owner
        /\ preq[q].op # "upload" /\ FileKept(preq[q].file)
    BY PluginTyped DEF CheckPluginLimit, FilesInv, PluginTypeOK, Prepared, Bringing
  <1>2. n \in Nat
    <2>1. Adding(preq[q].owner) \in SUBSET Request
      BY DEF Adding
    <2> QED
      BY <2>1, PlanAssumption, FS_Subset, FS_CardinalityType
  <1> HIDE DEF n
  <1>3. CASE Finish(q, 403) /\ UNCHANGED ppeak
    BY <1>1, <1>3, FilesDone
  <1>4. CASE /\ Step(q, "insert")
             /\ ppeak' = [ppeak EXCEPT ![preq[q].owner] = IF n < @ THEN @ ELSE n + 1]
    <2>1. ppeak' \in [Owner -> Nat]
      BY <1>1, <1>2, <1>4
    <2> QED
      BY <1>1, <1>4, <2>1, FilesGoOn DEF PluginAt
  <1> QED
    BY <1>3, <1>4 DEF CheckPluginLimit, n

\* What is uploaded is in the bucket when it is inserted.
LEMMA StoreObjectStep ==
  ASSUME FilesInv, NEW q \in Request, StoreObject(q)
  PROVE  FilesInv'
  <1>1. /\ UNCHANGED <<plugin, entry, ppeak>> /\ ppeak' \in [Owner -> Nat]
        /\ preq[q].at = "store"
    BY DEF StoreObject, FilesInv, PluginTypeOK
  <1>2. CASE bucket' = bucket /\ Finish(q, 500)
    BY <1>1, <1>2, FilesDone
  <1>3. CASE bucket' = bucket \cup {preq[q].file} /\ (Step(q, "insert") \/ Finish(q, 500))
    <2>1. PICK u : PluginAdvances(q, u) /\ u.at \in {"insert", "done"} /\ u.file = preq[q].file
      BY <1>3, StepAdvances, FinishAdvances DEF FilesInv, PluginAt
    <2>2. /\ Prepared(q) /\ u.op = preq[q].op
          /\ plugin' \in [PluginId -> Plugin] /\ entry' \in [EntryId -> Entry]
          /\ bucket \subseteq Object /\ Leaves(q, u)
          /\ \A i \in PluginId : plugin'[i].state = "live" => FileKept(plugin'[i].file)
          /\ \A e \in EntryId : entry'[e].state = "live" => FileKept(entry'[e].file)
      BY <1>1, <2>1 DEF FilesInv, PluginTypeOK, Leaves, PluginAdvances
    <2>3. /\ u.op = "upload" => u.file \in Object
          /\ u.file \in bucket' /\ bucket' \subseteq Object
          /\ \A f \in bucket : f \in bucket' \/ Removed(f)'
      BY <1>1, <1>3, <2>1, <2>2 DEF Prepared
    <2> QED
      BY <1>1, <2>1, <2>2, <2>3, FilesStay
  <1> QED
    BY <1>2, <1>3 DEF StoreObject

\* The steps that leave the bucket: what they put into a row or an entry was kept.
LEMMA FilesPlaced ==
  ASSUME FilesInv, NEW q \in Request, NEW u, PluginAdvances(q, u), preq[q].at # "done",
         u.file = preq[q].file, u.at \in {"count", "done"},
         preq[q].at = "drop" => u.at = "done" /\ u.reply \in {200, 500},
         UNCHANGED <<bucket, ppeak>>,
         plugin' \in [PluginId -> Plugin], entry' \in [EntryId -> Entry],
         \A i \in PluginId : plugin'[i].state = "live" => FileKept(plugin'[i].file),
         \A e \in EntryId : entry'[e].state = "live" => FileKept(entry'[e].file)
  PROVE  FilesInv'
  <1>1. /\ Prepared(q) /\ u.op = preq[q].op /\ Leaves(q, u)
        /\ bucket' \subseteq Object /\ ppeak' \in [Owner -> Nat]
    BY DEF FilesInv, PluginTypeOK, PluginAdvances, Leaves
  <1>2. /\ u.op = "upload" => u.file \in Object
        /\ Bringing(u) => FileKept(u.file)
    BY <1>1 DEF Prepared, Bringing
  <1> QED
    BY <1>1, <1>2, FilesStay

LEMMA InsertPluginStep ==
  ASSUME FilesInv, NEW q \in Request, InsertPlugin(q)
  PROVE  FilesInv'
  <1>1. /\ UNCHANGED <<entry, bucket, ppeak>> /\ ppeak' \in [Owner -> Nat]
        /\ preq[q].at = "insert" /\ FileKept(preq[q].file)
        /\ plugin \in [PluginId -> Plugin] /\ entry' \in [EntryId -> Entry]
        /\ preq[q].owner \in Owner /\ preq[q].name \in PluginName
        /\ preq[q].file \in Object \cup {Elsewhere}
        /\ \A i \in PluginId : plugin[i].state = "live" => FileKept(plugin[i].file)
        /\ \A e \in EntryId : entry[e].state = "live" => FileKept(entry[e].file)
    BY PluginTyped DEF InsertPlugin, FilesInv, PluginTypeOK, Prepared, Bringing
  <1>2. CASE Finish(q, 500) /\ UNCHANGED plugin
    BY <1>1, <1>2, FilesDone
  <1>3. ASSUME NEW i \in PluginId, plugin[i].state = "unborn",
               plugin' = [plugin EXCEPT
                 ![i] = [state |-> "live", owner |-> preq[q].owner,
                         name |-> preq[q].name, file |-> preq[q].file,
                         enabled |-> TRUE, verified |-> FALSE,
                         metered |-> preq[q].op # "upload"]],
               Step(q, "count") \/ Finish(q, 200)
        PROVE  FilesInv'
    <2> DEFINE counts == (preq[q].op # "upload")
               row == [state |-> "live", owner |-> preq[q].owner,
                       name |-> preq[q].name, file |-> preq[q].file,
                       enabled |-> TRUE, verified |-> FALSE, metered |-> counts]
    <2>1. plugin' = [plugin EXCEPT ![i] = row] /\ counts \in BOOLEAN
      BY <1>3
    <2> HIDE DEF counts
    <2>2. row \in Plugin /\ row.state = "live" /\ row.file = preq[q].file
      BY <1>1, <2>1 DEF Plugin
    <2> HIDE DEF row
    <2>3. /\ plugin' \in [PluginId -> Plugin] /\ plugin'[i] = row
          /\ \A j \in PluginId \ {i} : plugin'[j] = plugin[j]
      BY <1>1, <2>1, <2>2
    <2>5. \A j \in PluginId : plugin'[j].state = "live" => FileKept(plugin'[j].file)
      BY <1>1, <2>2, <2>3
    <2>6. PICK u : /\ PluginAdvances(q, u) /\ u.at \in {"count", "done"}
                   /\ u.file = preq[q].file
      BY <1>3, StepAdvances, FinishAdvances DEF FilesInv, PluginAt
    <2>7. \A e \in EntryId : entry'[e].state = "live" => FileKept(entry'[e].file)
      BY <1>1
    <2> QED
      BY <1>1, <2>3, <2>5, <2>6, <2>7, FilesPlaced
  <1> QED
    BY <1>2, <1>3 DEF InsertPlugin

LEMMA CountStep ==
  ASSUME FilesInv, NEW q \in Request, CountDownload(q)
  PROVE  FilesInv'
  <1>1. /\ UNCHANGED <<plugin, bucket, ppeak>> /\ ppeak' \in [Owner -> Nat]
        /\ preq[q].at = "count"
        /\ plugin' \in [PluginId -> Plugin] /\ entry \in [EntryId -> Entry]
        /\ preq[q].entry \in EntryId
        /\ \A i \in PluginId : plugin'[i].state = "live" => FileKept(plugin'[i].file)
        /\ \A e \in EntryId : entry[e].state = "live" => FileKept(entry[e].file)
    BY PluginTyped DEF CountDownload, FilesInv, PluginTypeOK
  <1>2. CASE UNCHANGED entry /\ Finish(q, 500)
    BY <1>1, <1>2, FilesDone
  <1>3. CASE /\ entry' = [entry EXCEPT ![preq[q].entry].downloads = @ + 1]
             /\ Finish(q, 200)
    <2>1. PICK e \in EntryId : e = preq[q].entry
      BY <1>1
    <2> DEFINE row == [entry[e] EXCEPT !.downloads = @ + 1]
    <2>2. entry' = [entry EXCEPT ![e] = row]
      BY <1>3, <2>1
    <2>3. row \in Entry /\ row.state = entry[e].state /\ row.file = entry[e].file
      <3>1. entry[e] \in Entry
        BY <1>1
      <3> QED
        BY <3>1 DEF Entry
    <2> HIDE DEF row
    <2>4. /\ entry' \in [EntryId -> Entry]
          /\ \A x \in EntryId : entry'[x].state = "live" => FileKept(entry'[x].file)
      BY <1>1, <2>2, <2>3
    <2>5. PICK u : PluginAdvances(q, u) /\ u.at = "done" /\ u.file = preq[q].file
      BY <1>3, FinishAdvances DEF FilesInv
    <2> QED
      BY <1>1, <2>4, <2>5, FilesPlaced
  <1> QED
    BY <1>2, <1>3 DEF CountDownload

LEMMA PublishStep ==
  ASSUME FilesInv, NEW q \in Request, PublishPlugin(q)
  PROVE  FilesInv'
  <1>1. /\ UNCHANGED <<plugin, bucket, ppeak>> /\ ppeak' \in [Owner -> Nat]
        /\ preq[q].at = "start" /\ preq[q].name \in PluginName
        /\ preq[q].file \in Object \cup {Elsewhere} /\ FileKept(preq[q].file)
        /\ entry \in [EntryId -> Entry] /\ plugin' \in [PluginId -> Plugin]
        /\ \A i \in PluginId : plugin'[i].state = "live" => FileKept(plugin'[i].file)
        /\ \A e \in EntryId : entry[e].state = "live" => FileKept(entry[e].file)
    BY PluginTyped DEF PublishPlugin, Begins, FilesInv, PluginTypeOK, Prepared, Bringing, Given
  <1>2. CASE UNCHANGED entry /\ Finish(q, 500)
    BY <1>1, <1>2, FilesDone
  <1>3. ASSUME NEW e \in EntryId,
               entry' = [entry EXCEPT ![e] = [state |-> "live", name |-> preq[q].name,
                                              file |-> preq[q].file, downloads |-> 0]],
               Finish(q, 200)
        PROVE  FilesInv'
    <2> DEFINE row == [state |-> "live", name |-> preq[q].name,
                       file |-> preq[q].file, downloads |-> 0]
    <2>2. row \in Entry /\ FileKept(row.file)
      BY <1>1 DEF Entry
    <2>3. entry' = [entry EXCEPT ![e] = row]
      BY <1>3
    <2> HIDE DEF row
    <2>4. /\ entry' \in [EntryId -> Entry]
          /\ \A x \in EntryId : entry'[x].state = "live" => FileKept(entry'[x].file)
      BY <1>1, <2>2, <2>3
    <2>5. PICK u : PluginAdvances(q, u) /\ u.at = "done" /\ u.file = preq[q].file
      BY <1>3, FinishAdvances DEF FilesInv
    <2> QED
      BY <1>1, <2>4, <2>5, FilesPlaced
  <1> QED
    BY <1>2, <1>3 DEF PublishPlugin

\* What an update makes of a row: it has the address that was given, and counts
\* only if it did and has not moved.
LEMMA UpdatedRow ==
  ASSUME PluginTypeOK, NEW q \in Request, NEW i \in PluginId
  PROVE  /\ UpdatedPlugin(q, i) \in Plugin
         /\ UpdatedPlugin(q, i).file = preq[q].file
         /\ UpdatedPlugin(q, i).state = plugin[i].state
         /\ UpdatedPlugin(q, i).metered =>
              plugin[i].metered /\ UpdatedPlugin(q, i).owner = plugin[i].owner
  <1>1. PICK old \in Plugin : old = plugin[i]
    BY DEF PluginTypeOK
  <1>2. PICK to \in Owner, name \in PluginName, file \in Object \cup {Elsewhere} :
          to = preq[q].to /\ name = preq[q].name /\ file = preq[q].file
    BY PluginTyped
  <1>3. PICK metered \in BOOLEAN : metered = (old.metered /\ to = old.owner)
    BY DEF Plugin
  <1> DEFINE row == [old EXCEPT !.owner = to, !.name = name, !.file = file,
                                !.metered = metered]
  <1>4. /\ row \in Plugin /\ row.file = file /\ row.state = old.state
        /\ row.metered = metered /\ row.owner = to
    BY DEF Plugin
  <1>5. UpdatedPlugin(q, i) = row
    BY <1>1, <1>2, <1>3 DEF UpdatedPlugin
  <1> HIDE DEF row
  <1> QED
    BY <1>1, <1>2, <1>3, <1>4, <1>5

LEMMA AlterSteps ==
  ASSUME FilesInv, NEW q \in Request, ChangePlugin(q) \/ UpdatePlugin(q) \/ DropPlugin(q)
  PROVE  FilesInv'
  <1>1. /\ UNCHANGED <<entry, bucket, ppeak>> /\ ppeak' \in [Owner -> Nat]
        /\ (Finish(q, 200) \/ Finish(q, 500)) /\ preq[q].at \in {"change", "drop"}
        /\ plugin \in [PluginId -> Plugin] /\ entry' \in [EntryId -> Entry]
        /\ Prepared(q)
        /\ \A i \in PluginId : plugin[i].state = "live" => FileKept(plugin[i].file)
        /\ \A e \in EntryId : entry'[e].state = "live" => FileKept(entry'[e].file)
    BY DEF ChangePlugin, UpdatePlugin, DropPlugin, FilesInv, PluginTypeOK
  <1>2. PICK i \in PluginId : i = preq[q].id
    BY PluginTyped DEF FilesInv
  <1>3. plugin[i] \in Plugin
    BY <1>1
  <1>4. \E row \in Plugin : /\ plugin' = [plugin EXCEPT ![i] = row]
                            /\ row.state = "live" => FileKept(row.file)
    <2>1. plugin = [plugin EXCEPT ![i] = plugin[i]]
      BY <1>1
    <2>2. CASE plugin' = plugin
      BY <1>1, <1>3, <2>1, <2>2
    <2>3. CASE DropPlugin(q) /\ plugin' # plugin
      <3> DEFINE row == [plugin[i] EXCEPT !.state = "deleted"]
      <3>1. row \in Plugin /\ row.state = "deleted"
        BY <1>3 DEF Plugin
      <3>2. plugin' = [plugin EXCEPT ![i] = row]
        BY <1>2, <2>3 DEF DropPlugin
      <3> QED
        BY <3>1, <3>2
    <2>4. CASE ChangePlugin(q) /\ plugin' # plugin
      <3> DEFINE other == ~plugin[i].enabled
                 verified == [plugin[i] EXCEPT !.verified = TRUE]
                 toggled == [plugin[i] EXCEPT !.enabled = other]
      <3>1. /\ verified \in Plugin /\ verified.file = plugin[i].file
            /\ verified.state = plugin[i].state
        BY <1>3 DEF Plugin
      <3>2. other \in BOOLEAN
        OBVIOUS
      <3>3. \/ plugin' = [plugin EXCEPT ![i] = verified]
            \/ plugin' = [plugin EXCEPT ![i] = toggled]
        BY <1>2, <2>4 DEF ChangePlugin
      <3> HIDE DEF other
      <3>4. /\ toggled \in Plugin /\ toggled.file = plugin[i].file
            /\ toggled.state = plugin[i].state
        BY <1>3, <3>2 DEF Plugin
      <3> HIDE DEF verified, toggled
      <3> QED
        BY <1>1, <3>1, <3>3, <3>4
    <2>5. CASE UpdatePlugin(q) /\ plugin' # plugin
      <3>1. PICK row \in Plugin :
              /\ row = UpdatedPlugin(q, i)
              /\ row.file = preq[q].file
        BY <1>3, UpdatedRow DEF FilesInv
      <3>2. plugin' = [plugin EXCEPT ![i] = row] /\ preq[q].op = "update"
        BY <1>2, <2>5, <3>1 DEF UpdatePlugin
      <3>3. FileKept(row.file)
        BY <1>1, <3>1, <3>2 DEF Prepared, Bringing, Given
      <3> QED
        BY <3>2, <3>3
    <2> QED
      BY <2>2, <2>3, <2>4, <2>5
  <1>5. PICK row \in Plugin : /\ plugin' = [plugin EXCEPT ![i] = row]
                              /\ row.state = "live" => FileKept(row.file)
    BY <1>4
  <1>6. /\ plugin' \in [PluginId -> Plugin] /\ plugin'[i] = row
        /\ \A j \in PluginId \ {i} : plugin'[j] = plugin[j]
    BY <1>1, <1>5
  <1>8. \A j \in PluginId : plugin'[j].state = "live" => FileKept(plugin'[j].file)
    BY <1>1, <1>5, <1>6
  <1>9. PICK u : /\ PluginAdvances(q, u) /\ u.at = "done" /\ u.file = preq[q].file
                 /\ u.reply \in {200, 500}
    BY <1>1, FinishAdvances DEF FilesInv
  <1> QED
    BY <1>1, <1>6, <1>8, <1>9, FilesPlaced

\* The object that goes is the one whose address the removal read.
LEMMA CutStep ==
  ASSUME FilesInv, NEW q \in Request, CutObject(q)
  PROVE  FilesInv'
  <1>1. /\ UNCHANGED <<plugin, entry, ppeak>> /\ ppeak' \in [Owner -> Nat]
        /\ preq[q].at = "cut" /\ Step(q, "drop") /\ Prepared(q)
        /\ plugin' \in [PluginId -> Plugin] /\ entry' \in [EntryId -> Entry]
        /\ bucket \subseteq Object /\ bucket' \subseteq bucket
        /\ bucket \ {preq[q].file} \subseteq bucket'
        /\ \A i \in PluginId : plugin'[i].state = "live" => FileKept(plugin'[i].file)
        /\ \A e \in EntryId : entry'[e].state = "live" => FileKept(entry'[e].file)
    BY DEF CutObject, FilesInv, PluginTypeOK
  <1>2. PICK u : PluginAdvances(q, u) /\ u.at = "drop" /\ u.file = preq[q].file
    BY <1>1, StepAdvances DEF FilesInv, PluginAt
  <1>3. /\ preq'[q] = u /\ u.op = preq[q].op /\ u.op = "remove"
    BY <1>1, <1>2, PluginAdvance DEF FilesInv, PluginAdvances, Prepared
  <1>5. \A f \in bucket : f \in bucket' \/ Removed(f)'
    BY <1>1, <1>2, <1>3 DEF Removed
  <1>6. /\ u.op = "upload" => u.file \in Object
        /\ Bringing(u) => FileKept(u.file)
        /\ Leaves(q, u)
    BY <1>1, <1>2, <1>3 DEF Prepared, Bringing, Leaves, Given
  <1>7. bucket' \subseteq Object
    BY <1>1
  <1> QED
    BY <1>1, <1>2, <1>5, <1>6, <1>7, FilesStay

LEMMA FilesSteps ==
  ASSUME FilesInv, [PluginNext]_pluginVars
  PROVE  FilesInv'
  <1>1. ASSUME NEW q \in Request, ServePlugin(q)
        PROVE  FilesInv'
    BY <1>1, PluginBegins, FindEntryStep, CheckPluginStep, StoreObjectStep, InsertPluginStep,
       CountStep, PublishStep, AlterSteps, CutStep DEF ServePlugin
  <1>2. CASE UNCHANGED pluginVars
    BY <1>2 DEF pluginVars, FilesInv, PluginTypeOK, Prepared, Bringing, Given, FileKept,
                Removed, Claimed
  <1> QED
    BY <1>1, <1>2 DEF PluginNext

LEMMA FilesStart ==
  ASSUME PluginInit
  PROVE  FilesInv
  <1>1. /\ preq \in PluginMix /\ plugin = InitialPlugin /\ entry = InitialEntry
        /\ bucket = InitialBucket /\ ppeak = [o \in Owner |-> 0]
    BY DEF PluginInit, PluginStart
  <1>2. PluginTypeOK
    BY <1>1, PluginAssumption DEF PluginTypeOK
  <1>3. \A file : Offered(file) => FileKept(file)
    BY <1>1 DEF Offered, FileKept
  <1>4. \A q \in Request :
          /\ preq[q].at \in {"start", "done"}
          /\ preq[q].op = "upload" => preq[q].file \in Object
          /\ preq[q].op \in Given => FileKept(preq[q].file)
    BY <1>1, PluginAssumption DEF FileKept, Claimed, Given, PluginTypeOK, PluginRequest
  <1>5. \A q \in Request : Prepared(q)
    BY <1>4 DEF Prepared, Bringing
  <1>6. /\ \A i \in PluginId : plugin[i].state = "live" => FileKept(plugin[i].file)
        /\ \A e \in EntryId : entry[e].state = "live" => FileKept(entry[e].file)
    BY <1>1, <1>3, PluginAssumption
  <1> QED
    BY <1>2, <1>5, <1>6 DEF FilesInv

-----------------------------------------------------------------------------
MeteredFirst(o) == {i \in PluginId : /\ InitialPlugin[i].state = "live"
                                     /\ InitialPlugin[i].owner = o
                                     /\ InitialPlugin[i].metered}

\* An organization's counted plugins with the counted inserts in flight.
RoomFor(o) ==
    /\ Cardinality(Adding(o)) <= ppeak[o]
    /\ \A m \in LimitRead : Bounding(m) =>
         \/ Cardinality(Metered(o)) + Cardinality(Adding(o)) <= Cardinality(MeteredFirst(o))
         \/ Cardinality(Metered(o)) + Cardinality(Adding(o)) + 1 <= m + ppeak[o]

PluginsInv == FilesInv /\ \A o \in Owner : RoomFor(o)

LEMMA MeteredFinite ==
  ASSUME NEW o
  PROVE  /\ IsFiniteSet(Metered(o)) /\ Cardinality(Metered(o)) \in Nat
         /\ IsFiniteSet(Adding(o)) /\ Cardinality(Adding(o)) \in Nat
         /\ Cardinality(MeteredFirst(o)) \in Nat
         /\ Cardinality(PluginsOf(o)) \in Nat
         /\ Cardinality(Metered(o)) <= Cardinality(PluginsOf(o))
  <1>1. /\ Metered(o) \in SUBSET PluginId /\ Adding(o) \in SUBSET Request
        /\ MeteredFirst(o) \in SUBSET PluginId /\ PluginsOf(o) \in SUBSET PluginId
        /\ Metered(o) \in SUBSET PluginsOf(o)
    BY DEF Metered, Adding, MeteredFirst, PluginsOf
  <1> QED
    BY <1>1, PlanAssumption, PluginAssumption, FS_Subset, FS_CardinalityType

\* Fewer counted plugins and fewer counted inserts leave more room.
LEMMA RoomStays ==
  ASSUME NEW o \in Owner, PluginTypeOK, RoomFor(o),
         Metered(o)' \subseteq Metered(o), Adding(o)' \subseteq Adding(o),
         ppeak'[o] = ppeak[o]
  PROVE  RoomFor(o)'
  <1> DEFINE had == Cardinality(Metered(o))
             has == Cardinality(Metered(o)')
             awaited == Cardinality(Adding(o))
             awaits == Cardinality(Adding(o)')
  <1>1. /\ had \in Nat /\ awaited \in Nat /\ Cardinality(MeteredFirst(o)) \in Nat
        /\ has <= had /\ has \in Nat /\ awaits <= awaited /\ awaits \in Nat
    BY MeteredFinite, FS_Subset, FS_CardinalityType
  <1>2. ppeak[o] \in Nat
    BY DEF PluginTypeOK
  <1>3. MeteredFirst(o)' = MeteredFirst(o)
    BY DEF MeteredFirst
  <1>4. awaits <= ppeak'[o]
    <2>1. awaited <= ppeak[o]
      BY DEF RoomFor
    <2> HIDE DEF awaits, awaited
    <2> QED
      BY <1>1, <1>2, <2>1
  <1>5. ASSUME NEW m \in LimitRead, Bounding(m)
        PROVE  \/ has + awaits <= Cardinality(MeteredFirst(o))
               \/ has + awaits + 1 <= m + ppeak'[o]
    <2>1. /\ m \in Nat
          /\ \/ had + awaited <= Cardinality(MeteredFirst(o))
             \/ had + awaited + 1 <= m + ppeak[o]
      BY <1>5 DEF RoomFor, Bounding
    <2> HIDE DEF had, has, awaited, awaits
    <2> QED
      BY <1>1, <1>2, <2>1
  <1> QED
    BY <1>3, <1>4, <1>5 DEF RoomFor, Bounding

\* No request goes to a counted insert, and no counted plugin comes to life.
NoneAdds(q) ==
    /\ \A p \in Request \ {q} : preq'[p] = preq[p]
    /\ preq'[q].owner = preq[q].owner /\ preq'[q].op = preq[q].op
    /\ preq'[q].at = "insert" => preq[q].op = "upload"
    /\ ppeak' = ppeak

NoneMetered ==
    \A i \in PluginId :
        plugin'[i].state = "live" /\ plugin'[i].metered =>
            /\ plugin[i].state = "live" /\ plugin[i].metered
            /\ plugin'[i].owner = plugin[i].owner

LEMMA RoomKept ==
  ASSUME PluginsInv, NEW q \in Request, NoneAdds(q), NoneMetered
  PROVE  \A o \in Owner : RoomFor(o)'
  <1>1. ASSUME NEW o \in Owner
        PROVE  RoomFor(o)'
    <2>1. Metered(o)' \subseteq Metered(o)
      BY DEF NoneMetered, Metered, PluginsOf
    <2>2. Adding(o)' \subseteq Adding(o)
      BY DEF NoneAdds, Adding
    <2>3. ppeak'[o] = ppeak[o]
      BY DEF NoneAdds
    <2> QED
      BY <2>1, <2>2, <2>3, RoomStays DEF PluginsInv, FilesInv
  <1> QED
    BY <1>1

LEMMA AdvanceAdds ==
  ASSUME PluginTypeOK, NEW q \in Request, NEW u, PluginAdvances(q, u),
         u.at = "insert" => preq[q].op = "upload", ppeak' = ppeak
  PROVE  NoneAdds(q)
  BY PluginAdvance DEF PluginAdvances, NoneAdds

LEMMA PassAdds ==
  ASSUME PluginTypeOK, NEW q \in Request,
         \/ \E status \in Nat : Finish(q, status)
         \/ \E at \in PluginAt : Step(q, at) /\ (at = "insert" => preq[q].op = "upload"),
         ppeak' = ppeak
  PROVE  NoneAdds(q)
  <1>1. CASE \E status \in Nat : Finish(q, status)
    <2>1. PICK u : PluginAdvances(q, u) /\ u.at = "done"
      BY <1>1, FinishAdvances
    <2> QED
      BY <2>1, AdvanceAdds
  <1>2. ASSUME NEW at \in PluginAt, Step(q, at), at = "insert" => preq[q].op = "upload"
        PROVE  NoneAdds(q)
    <2>1. PICK u : PluginAdvances(q, u) /\ u.at = at
      BY <1>2, StepAdvances
    <2> QED
      BY <1>2, <2>1, AdvanceAdds
  <1> QED
    BY <1>1, <1>2

\* The steps that neither check a limit nor insert a row.
LEMMA RoomQuiet ==
  ASSUME PluginsInv, NEW q \in Request, ServePlugin(q),
         ~CheckPluginLimit(q), ~InsertPlugin(q)
  PROVE  \A o \in Owner : RoomFor(o)'
  <1>1. /\ PluginTypeOK /\ ppeak' = ppeak /\ plugin \in [PluginId -> Plugin]
        /\ preq[q].id \in PluginId /\ Prepared(q)
    BY PluginTyped DEF PluginsInv, FilesInv, ServePlugin, RefusePlugin, UploadPlugin,
       StoreObject, CreatePlugin, FindEntry, CountDownload, PublishPlugin, FindPlugin,
       ChangePlugin, UpdatePlugin, CutObject, DropPlugin, Registered
  <1>2. NoneMetered
    <2>1. PICK i \in PluginId : i = preq[q].id
      BY <1>1
    <2>2. CASE plugin' = plugin
      BY <2>2 DEF NoneMetered
    <2>3. ASSUME NEW row, plugin' = [plugin EXCEPT ![i] = row],
                 row.metered => plugin[i].metered /\ row.owner = plugin[i].owner,
                 row.state \in {plugin[i].state, "deleted"}
          PROVE  NoneMetered
      <3>1. \A j \in PluginId \ {i} : plugin'[j] = plugin[j]
        BY <1>1, <2>3
      <3>2. plugin'[i] = row
        BY <1>1, <2>3
      <3> QED
        BY <2>3, <3>1, <3>2 DEF NoneMetered
    <2>4. plugin[i] \in Plugin
      BY <1>1
    <2>5. CASE DropPlugin(q)
      <3> DEFINE row == [plugin[i] EXCEPT !.state = "deleted"]
      <3>1. /\ row.owner = plugin[i].owner /\ row.metered = plugin[i].metered
            /\ row.state = "deleted"
        BY <2>4 DEF Plugin
      <3>2. plugin' = [plugin EXCEPT ![i] = row] \/ plugin' = plugin
        BY <2>1, <2>5 DEF DropPlugin
      <3> HIDE DEF row
      <3> QED
        BY <2>2, <2>3, <3>1, <3>2
    <2>6. CASE ChangePlugin(q)
      <3> DEFINE other == ~plugin[i].enabled
                 verified == [plugin[i] EXCEPT !.verified = TRUE]
                 toggled == [plugin[i] EXCEPT !.enabled = other]
      <3>1. \/ plugin' = plugin
            \/ plugin' = [plugin EXCEPT ![i] = verified]
            \/ plugin' = [plugin EXCEPT ![i] = toggled]
        BY <2>1, <2>6 DEF ChangePlugin
      <3> HIDE DEF other
      <3>2. /\ verified.owner = plugin[i].owner /\ verified.state = plugin[i].state
            /\ verified.metered = plugin[i].metered
            /\ toggled.owner = plugin[i].owner /\ toggled.state = plugin[i].state
            /\ toggled.metered = plugin[i].metered
        BY <2>4 DEF Plugin
      <3> HIDE DEF verified, toggled
      <3> QED
        BY <2>2, <2>3, <3>1, <3>2
    <2>8. CASE UpdatePlugin(q)
      <3>1. PICK row : row = UpdatedPlugin(q, i)
        OBVIOUS
      <3>2. /\ row.metered => plugin[i].metered /\ row.owner = plugin[i].owner
            /\ row.state = plugin[i].state
        BY <1>1, <3>1, UpdatedRow
      <3>3. plugin' = [plugin EXCEPT ![i] = row] \/ plugin' = plugin
        BY <2>1, <2>8, <3>1 DEF UpdatePlugin
      <3> QED
        BY <2>2, <2>3, <3>2, <3>3
    <2>7. CASE ~ChangePlugin(q) /\ ~UpdatePlugin(q) /\ ~DropPlugin(q)
      BY <2>2, <2>7 DEF ServePlugin, RefusePlugin, UploadPlugin, StoreObject, CreatePlugin,
         FindEntry, CountDownload, PublishPlugin, FindPlugin, CutObject, Registered
    <2> QED
      BY <2>5, <2>6, <2>7, <2>8
  <1>3. NoneAdds(q)
    <2>1. CASE /\ FindEntry(q) /\ entry[preq[q].entry].state = "live"
               /\ preq' = [preq EXCEPT ![q].at = "check",
                                       ![q].name = entry[preq[q].entry].name,
                                       ![q].file = entry[preq[q].entry].file]
      <3> DEFINE e == entry[preq[q].entry]
                 u == [preq[q] EXCEPT !.at = "check", !.name = e.name, !.file = e.file]
      <3>1. preq[q] \in PluginRequest /\ preq \in [Request -> PluginRequest]
        BY <1>1, PluginTyped
      <3>2. u.owner = preq[q].owner /\ u.op = preq[q].op /\ u.at = "check"
        BY <3>1 DEF PluginRequest
      <3>3. preq' = [preq EXCEPT ![q] = u]
        BY <2>1
      <3> HIDE DEF u
      <3> QED
        BY <1>1, <3>1, <3>2, <3>3 DEF NoneAdds
    <2>2. CASE FindEntry(q) /\ Finish(q, 404)
      BY <1>1, <2>2, PassAdds
    <2>3. CASE StoreObject(q)
      <3>1. preq[q].op = "upload" /\ "insert" \in PluginAt
        BY <1>1, <2>3 DEF StoreObject, Prepared, PluginAt
      <3>2. Step(q, "insert") \/ Finish(q, 500)
        BY <2>3 DEF StoreObject
      <3> QED
        BY <1>1, <3>1, <3>2, PassAdds
    <2>5. CASE /\ FindPlugin(q) /\ preq[q].op = "remove"
               /\ preq' = [preq EXCEPT ![q].at = "cut",
                                       ![q].file = plugin[preq[q].id].file]
      <3> DEFINE u == [preq[q] EXCEPT !.at = "cut", !.file = plugin[preq[q].id].file]
      <3>1. preq[q] \in PluginRequest /\ preq \in [Request -> PluginRequest]
        BY <1>1, PluginTyped
      <3>2. u.owner = preq[q].owner /\ u.op = preq[q].op /\ u.at = "cut"
        BY <3>1 DEF PluginRequest
      <3>3. preq' = [preq EXCEPT ![q] = u]
        BY <2>5
      <3> HIDE DEF u
      <3> QED
        BY <1>1, <3>1, <3>2, <3>3 DEF NoneAdds
    <2>6. CASE FindPlugin(q) /\ (Finish(q, 404) \/ Step(q, "change") \/ Step(q, "drop"))
      BY <1>1, <2>6, PassAdds DEF PluginAt
    <2>4. CASE ~FindEntry(q) /\ ~FindPlugin(q) /\ ~StoreObject(q)
      <3>1. \/ \E status \in Nat : Finish(q, status)
            \/ \E at \in {"store", "check", "change", "cut", "drop"} : Step(q, at)
        BY <2>4 DEF ServePlugin, RefusePlugin, UploadPlugin, CreatePlugin, CountDownload,
           PublishPlugin, ChangePlugin, UpdatePlugin, CutObject, DropPlugin
      <3>2. {"store", "check", "change", "cut", "drop"} \subseteq PluginAt
        BY DEF PluginAt
      <3> QED
        BY <1>1, <3>1, <3>2, PassAdds
    <2> QED
      BY <2>1, <2>2, <2>3, <2>4, <2>5, <2>6 DEF FindEntry, FindPlugin
  <1> QED
    BY <1>2, <1>3, RoomKept

\* A check that passes finds fewer plugins than any limit allows.
LEMMA CheckMakesRoom ==
  ASSUME PluginsInv, NEW q \in Request, CheckPluginLimit(q)
  PROVE  \A o \in Owner : RoomFor(o)'
  <1>1. /\ PluginTypeOK /\ preq[q].at = "check" /\ UNCHANGED <<plugin, entry, bucket>>
        /\ ppeak \in [Owner -> Nat] /\ preq[q].owner \in Owner /\ preq[q].op # "upload"
        /\ \A o \in Owner : RoomFor(o)
    BY PluginTyped DEF PluginsInv, FilesInv, PluginTypeOK, Prepared, CheckPluginLimit
  <1>2. PICK o0 \in Owner : o0 = preq[q].owner
    BY <1>1
  <1>3. CASE Finish(q, 403) /\ ppeak' = ppeak
    <2>1. NoneMetered
      BY <1>1 DEF NoneMetered
    <2> QED
      BY <1>1, <1>3, <2>1, PassAdds, RoomKept
  <1>4. ASSUME NEW limit \in LimitRead,
               UnderLimit(limit, Cardinality(PluginsOf(o0))), Step(q, "insert"),
               ppeak' = [ppeak EXCEPT ![o0] = IF Cardinality(Adding(o0)) < @
                                                THEN @ ELSE Cardinality(Adding(o0)) + 1]
        PROVE  \A o \in Owner : RoomFor(o)'
    <2> DEFINE rows == Cardinality(PluginsOf(o0))
               counted == Cardinality(Metered(o0))
               n == Cardinality(Adding(o0))
    <2>1. PICK u : PluginAdvances(q, u) /\ u.at = "insert"
      BY <1>1, <1>4, StepAdvances DEF PluginAt
    <2>2. /\ preq'[q].at = "insert" /\ preq'[q].owner = o0 /\ preq'[q].op # "upload"
          /\ \A p \in Request \ {q} : preq'[p] = preq[p]
      BY <1>1, <1>2, <2>1, PluginAdvance DEF PluginAdvances
    <2>3. n \in Nat /\ rows \in Nat /\ counted \in Nat /\ counted <= rows
      BY MeteredFinite
    <2> HIDE DEF rows, n, counted
    <2>4. ASSUME NEW o \in Owner, o # o0
          PROVE  RoomFor(o)'
      <3>1. ppeak'[o] = ppeak[o]
        BY <1>1, <1>4, <2>4
      <3>2. Adding(o)' \subseteq Adding(o)
        BY <2>2, <2>4 DEF Adding
      <3>3. Metered(o)' \subseteq Metered(o)
        BY <1>1 DEF Metered, PluginsOf
      <3> QED
        BY <1>1, <3>1, <3>2, <3>3, RoomStays
    <2>5. RoomFor(o0)'
      <3>1. Adding(o0)' = Adding(o0) \cup {q} /\ q \notin Adding(o0)
        BY <1>1, <1>2, <2>2 DEF Adding
      <3>2. Cardinality(Adding(o0)') = n + 1
        BY <3>1, MeteredFinite, FS_AddElement DEF n
      <3>3. Cardinality(Metered(o0)') = counted
        BY <1>1 DEF Metered, PluginsOf, counted
      <3>4. ppeak'[o0] \in Nat /\ n + 1 <= ppeak'[o0]
        <4>1. ppeak[o0] \in Nat
          BY <1>1
        <4>2. ppeak'[o0] = IF n < ppeak[o0] THEN ppeak[o0] ELSE n + 1
          BY <1>1, <1>4 DEF n
        <4> QED
          BY <2>3, <4>1, <4>2
      <3>5. ASSUME NEW m \in LimitRead, Bounding(m)
            PROVE  m \in Nat /\ counted + (n + 1) + 1 <= m + ppeak'[o0]
        <4>1. m \in Nat /\ rows + 1 <= m
          BY <1>4, <2>3, <3>5 DEF Bounding, UnderLimit, Unlimited, rows
        <4> QED
          BY <2>3, <3>4, <4>1
      <3> QED
        BY <3>2, <3>3, <3>4, <3>5 DEF RoomFor, Bounding
    <2> QED
      BY <2>4, <2>5
  <1> QED
    BY <1>2, <1>3, <1>4 DEF CheckPluginLimit

\* A counted insert turns the room that was made for it into a row; an upload is
\* not counted.
LEMMA InsertTakesRoom ==
  ASSUME PluginsInv, NEW q \in Request, InsertPlugin(q)
  PROVE  \A o \in Owner : RoomFor(o)'
  <1>1. /\ PluginTypeOK /\ preq[q].at = "insert" /\ ppeak' = ppeak
        /\ ppeak \in [Owner -> Nat] /\ preq[q].owner \in Owner
        /\ plugin \in [PluginId -> Plugin]
        /\ \A o \in Owner : RoomFor(o)
    BY PluginTyped DEF PluginsInv, FilesInv, PluginTypeOK, InsertPlugin
  <1>2. \/ \E status \in Nat : Finish(q, status)
        \/ \E at \in PluginAt : Step(q, at) /\ (at = "insert" => preq[q].op = "upload")
    BY DEF InsertPlugin, PluginAt
  <1>3. NoneAdds(q)
    BY <1>1, <1>2, PassAdds
  <1>4. CASE plugin' = plugin
    <2>1. NoneMetered
      BY <1>4 DEF NoneMetered
    <2> QED
      BY <1>3, <2>1, RoomKept
  <1>5. ASSUME NEW i \in PluginId, plugin[i].state = "unborn",
               plugin' = [plugin EXCEPT
                 ![i] = [state |-> "live", owner |-> preq[q].owner,
                         name |-> preq[q].name, file |-> preq[q].file,
                         enabled |-> TRUE, verified |-> FALSE,
                         metered |-> preq[q].op # "upload"]],
               Step(q, "count") \/ Finish(q, 200)
        PROVE  \A o \in Owner : RoomFor(o)'
    <2>1. PICK o0 \in Owner : o0 = preq[q].owner
      BY <1>1
    <2>2. /\ plugin'[i].state = "live" /\ plugin'[i].owner = o0
          /\ plugin'[i].metered <=> preq[q].op # "upload"
          /\ \A j \in PluginId \ {i} : plugin'[j] = plugin[j]
      <3> DEFINE counts == (preq[q].op # "upload")
                 row == [state |-> "live", owner |-> preq[q].owner,
                         name |-> preq[q].name, file |-> preq[q].file,
                         enabled |-> TRUE, verified |-> FALSE, metered |-> counts]
      <3>1. plugin' = [plugin EXCEPT ![i] = row]
        BY <1>5
      <3>2. row.state = "live" /\ row.owner = o0 /\ row.metered = counts
        BY <2>1
      <3> HIDE DEF row
      <3>3. plugin'[i] = row /\ \A j \in PluginId \ {i} : plugin'[j] = plugin[j]
        BY <1>1, <3>1
      <3> QED
        BY <3>2, <3>3
    <2>3. CASE preq[q].op = "upload"
      <3>1. NoneMetered
        BY <2>2, <2>3 DEF NoneMetered
      <3> QED
        BY <1>3, <3>1, RoomKept
    <2>4. CASE preq[q].op # "upload"
      <3>1. /\ preq'[q].at # "insert"
            /\ \A p \in Request \ {q} : preq'[p] = preq[p]
        <4>1. PICK u : PluginAdvances(q, u) /\ u.at \in {"count", "done"}
          BY <1>1, <1>5, StepAdvances, FinishAdvances DEF PluginAt
        <4> QED
          BY <1>1, <4>1, PluginAdvance
      <3>2. ASSUME NEW o \in Owner, o # o0
            PROVE  RoomFor(o)'
        <4>1. Metered(o)' \subseteq Metered(o)
          BY <2>2, <3>2 DEF Metered, PluginsOf
        <4>2. Adding(o)' \subseteq Adding(o)
          BY <3>1 DEF Adding
        <4> QED
          BY <1>1, <4>1, <4>2, RoomStays
      <3>3. RoomFor(o0)'
        <4>1. Metered(o0)' = Metered(o0) \cup {i} /\ i \notin Metered(o0)
          BY <1>5, <2>2, <2>4 DEF Metered, PluginsOf
        <4>2. Adding(o0)' = Adding(o0) \ {q} /\ q \in Adding(o0)
          BY <1>1, <2>1, <2>4, <3>1 DEF Adding
        <4>3. /\ Cardinality(Metered(o0)') = Cardinality(Metered(o0)) + 1
              /\ Cardinality(Adding(o0)') = Cardinality(Adding(o0)) - 1
          <5>1. PICK A, B : A = Metered(o0) /\ B = Adding(o0)
            OBVIOUS
          <5>2. IsFiniteSet(A) /\ IsFiniteSet(B) /\ i \notin A /\ q \in B
            BY <4>1, <4>2, <5>1, MeteredFinite
          <5>3. /\ Cardinality(A \cup {i}) = Cardinality(A) + 1
                /\ Cardinality(B \ {q}) = Cardinality(B) - 1
            BY <5>2, FS_AddElement, FS_RemoveElement
          <5> QED
            BY <4>1, <4>2, <5>1, <5>3
        <4>4. ppeak[o0] \in Nat /\ MeteredFirst(o0)' = MeteredFirst(o0)
          BY <1>1 DEF MeteredFirst
        <4> QED
          BY <1>1, <4>3, <4>4, MeteredFinite DEF RoomFor, Bounding
      <3> QED
        BY <3>2, <3>3
    <2> QED
      BY <2>3, <2>4
  <1> QED
    BY <1>4, <1>5 DEF InsertPlugin

LEMMA PluginsStep ==
  ASSUME PluginsInv, [PluginNext]_pluginVars
  PROVE  PluginsInv'
  <1>1. FilesInv /\ FilesInv'
    BY FilesSteps DEF PluginsInv
  <1>2. ASSUME NEW q \in Request, ServePlugin(q)
        PROVE  \A o \in Owner : RoomFor(o)'
    BY <1>2, CheckMakesRoom, InsertTakesRoom, RoomQuiet
  <1>3. ASSUME UNCHANGED pluginVars, NEW o \in Owner
        PROVE  RoomFor(o)'
    <2>1. Metered(o)' = Metered(o) /\ Adding(o)' = Adding(o) /\ ppeak' = ppeak
      BY <1>3 DEF pluginVars, Metered, PluginsOf, Adding
    <2> QED
      BY <1>1, <2>1, RoomStays DEF PluginsInv, FilesInv
  <1>4. \A o \in Owner : RoomFor(o)'
    BY <1>2, <1>3 DEF PluginNext
  <1> QED
    BY <1>1, <1>4 DEF PluginsInv

LEMMA PluginsStart ==
  ASSUME PluginInit
  PROVE  PluginsInv
  <1>1. FilesInv
    BY FilesStart
  <1>2. ASSUME NEW o \in Owner
        PROVE  RoomFor(o)
    <2>1. Adding(o) = {}
      <3>1. \A q \in Request : preq[q].at # "insert"
        BY PluginAssumption DEF PluginInit
      <3> QED
        BY <3>1 DEF Adding
    <2>2. ppeak[o] = 0 /\ Metered(o) = MeteredFirst(o)
      BY DEF PluginInit, PluginStart, Metered, PluginsOf, MeteredFirst
    <2>3. /\ Cardinality(Adding(o)) = 0
          /\ Cardinality(MeteredFirst(o)) \in Nat
      BY <2>1, MeteredFinite, FS_EmptySet
    <2> QED
      BY <2>2, <2>3 DEF RoomFor
  <1> QED
    BY <1>1, <1>2 DEF PluginsInv

THEOREM PluginInvariant == PluginSpec => []PluginsInv
  <1>1. PluginInit => PluginsInv
    BY PluginsStart
  <1>2. PluginsInv /\ [PluginNext]_pluginVars => PluginsInv'
    BY PluginsStep
  <1> QED
    BY <1>1, <1>2, PTL DEF PluginSpec

\* Every variable of the plugins keeps its type.
THEOREM PluginTypes == PluginSpec => []PluginTypeOK
  <1>1. PluginsInv => PluginTypeOK
    BY DEF PluginsInv, FilesInv
  <1> QED
    BY <1>1, PluginInvariant, PTL

\* Installs and creates that overlap exceed the plan by at most the inserts that
\* were in flight at once less one, but for uploads and plugins that are moved in.
THEOREM PluginLimitHolds == PluginSpec => []PluginLimitHeld
  <1>1. ASSUME PluginsInv, NEW m \in LimitRead, NEW o \in Owner, Bounding(m)
        PROVE  \/ Cardinality(Metered(o)) + 1 <= m + ppeak[o]
               \/ Cardinality(Metered(o)) <= Cardinality(MeteredFirst(o))
    <2>1. /\ Cardinality(Metered(o)) \in Nat /\ Cardinality(Adding(o)) \in Nat
          /\ Cardinality(MeteredFirst(o)) \in Nat /\ m \in Nat /\ ppeak[o] \in Nat
      BY <1>1, MeteredFinite DEF PluginsInv, FilesInv, PluginTypeOK, Bounding
    <2> QED
      BY <1>1, <2>1 DEF PluginsInv, RoomFor
  <1>2. PluginsInv => PluginLimitHeld
    BY <1>1 DEF PluginLimitHeld, MeteredFirst
  <1> QED
    BY <1>2, PluginInvariant, PTL

\* A live plugin whose file is missing had it removed with a plugin that shared it,
\* or a client made its address up: no upload, install or failed storage leaves a
\* row without a file.
THEOREM FilesLostByDeletion == PluginSpec => []FileLostByDeletion
  <1>1. PluginsInv => FileLostByDeletion
    BY DEF PluginsInv, FilesInv, FileKept, FileLostByDeletion
  <1> QED
    BY <1>1, PluginInvariant, PTL

-----------------------------------------------------------------------------
(* THE COMPOSITION: whichever part is busy, each behaves as its own
   specification says, and what is proved of a part holds of the whole.     *)

LEMMA ControlStarts ==
  ASSUME ControlInit
  PROVE  /\ WorkflowInit /\ ResourceInit /\ PluginInit
         /\ AccessInit /\ OauthInit /\ QuotaInit
  <1>1. /\ IdleWorkflow \subseteq WorkflowMix /\ IdleResource \subseteq ResourceMix
        /\ IdlePlugin \subseteq PluginMix /\ IdleAccess \subseteq AccessMix
        /\ IdleOauth \subseteq OauthMix /\ IdleQuota \subseteq QuotaMix
    BY DEF IdleWorkflow, IdleResource, IdlePlugin, IdleAccess, IdleOauth, IdleQuota, Idle
  <1>2. /\ wreq \in WorkflowMix /\ rreq \in ResourceMix /\ preq \in PluginMix
        /\ areq \in AccessMix /\ oreq \in OauthMix /\ qreq \in QuotaMix
    BY <1>1 DEF ControlInit
  <1> QED
    BY <1>2 DEF ControlInit, WorkflowInit, ResourceInit, PluginInit, AccessInit,
                OauthInit, QuotaInit

LEMMA ControlSteps ==
  ASSUME [ControlNext]_<<storeVars, resourceVars, pluginVars,
                         accessVars, oauthVars, quotaVars>>
  PROVE  /\ [WorkflowNext]_storeVars /\ [ResourceNext]_resourceVars
         /\ [PluginNext]_pluginVars /\ [AccessNext]_accessVars
         /\ [OauthNext]_oauthVars /\ [QuotaNext]_quotaVars
  BY DEF ControlNext

\* Composed under one plan, each part still implements its specification.
THEOREM ControlComposes ==
    ControlSpec => /\ WorkflowSpec /\ ResourceSpec /\ PluginSpec
                   /\ AccessSpec /\ OauthSpec /\ QuotaSpec
  <1>1. ControlInit => /\ WorkflowInit /\ ResourceInit /\ PluginInit
                       /\ AccessInit /\ OauthInit /\ QuotaInit
    BY ControlStarts
  <1>2. [ControlNext]_<<storeVars, resourceVars, pluginVars,
                        accessVars, oauthVars, quotaVars>>
          => /\ [WorkflowNext]_storeVars /\ [ResourceNext]_resourceVars
             /\ [PluginNext]_pluginVars /\ [AccessNext]_accessVars
             /\ [OauthNext]_oauthVars /\ [QuotaNext]_quotaVars
    BY ControlSteps
  <1> QED
    BY <1>1, <1>2, PTL DEF ControlSpec, WorkflowSpec, ResourceSpec, PluginSpec,
                           AccessSpec, OauthSpec, QuotaSpec

\* Every variable of the whole keeps its type.
THEOREM ControlTypes == ControlSpec => []ControlTypeOK
  <1>1. (/\ WorkflowTypeOK /\ ResourceTypeOK /\ PluginTypeOK
         /\ AccessTypeOK /\ OauthTypeOK /\ QuotaTypeOK) => ControlTypeOK
    BY DEF ControlTypeOK
  <1> QED
    BY <1>1, ControlComposes, StoreTypes, ResourcesTyped, PluginTypes, AccessTypes,
       OauthTypes, QuotaTypes, PTL

\* And what is proved of the workflows, the resources, the plugins, the access
\* control, the connections and the executions holds while the others are served.
THEOREM ControlSafe ==
    ControlSpec => [](/\ VersionsDense /\ WorkflowLimitHeld /\ UpdatesRemember
                      /\ ResourceLimitHeld /\ SecretKnown /\ SchemaPreceded
                      /\ PluginLimitHeld /\ FileLostByDeletion
                      /\ DecisionsExpire /\ GrantsBacked
                      /\ ConnectedHasToken /\ LatestTokenKept
                      /\ QuotaHeld)
  BY ControlComposes, HistoriesDense, LimitHolds, UpdatesKeep, ResourceLimitHolds,
     SecretsKnown, SchemasPreceded, PluginLimitHolds, FilesLostByDeletion,
     DecisionsFresh, GrantsEarned, TokensBehind, TokensLatest, AllowanceHolds, PTL
=============================================================================
