----------------------------- MODULE WardenSync -----------------------------
(***************************************************************************)
(* Organization memberships live in the identity provider.  Its webhooks   *)
(* keep a replica of them in user_organization and, for each, a tuple in   *)
(* Warden, which decides about access.  A tuple call that fails is queued  *)
(* for a poller of every instance to retry, without order; a login copies  *)
(* the claims of an access token, which may be old, over the replica; a    *)
(* reconciler adds the tuples the replica has and Warden has not; a repair *)
(* that an operator starts may also delete those the replica has not.     *)
(***************************************************************************)
EXTENDS Naturals, FiniteSets

CONSTANTS
    User, Org,
    Initial,      \* the memberships everyone agrees on in the beginning
    Event,        \* bound: the webhooks the identity provider sends, 1 .. n
    Poller,       \* bound: the poller ticks in flight at once
    MaxAttempts,  \* wardenSyncQueueTable.maxAttempts
    MaxFaults     \* bound: logins, repairs, failed calls of handlers, and crashes

Role == {"owner", "admin", "member"}
Pair == User \X Org

\* "none" stands for no role and for no user.
ASSUME WardenAssumption ==
    /\ "none" \notin User
    /\ Initial \in [Pair -> Role \cup {"none"}]
    /\ Event \subseteq Nat \ {0}
    /\ MaxAttempts \in Nat \ {0}
    /\ MaxFaults \in Nat

VARIABLES
    idp,        \* the memberships as the identity provider has them
    granted,    \* history: the tuples the identity provider ever stood for
    member,     \* the table user_organization: a role or "none"
    known,      \* the users with a row in the local user table
    tuples,     \* the tuples in Warden
    event,      \* event[e]: webhook e, once sent
    pc,         \* pc[e]: where its handler is
    found,      \* found[e]: what the handler looked up
    queue,      \* queue[i]: status and attempts of item i of the sync queue
    batch,      \* batch[p]: the items a tick fetched, with their attempts
    reconciler, \* where the reconciler is, "idle" or holding
    wanted,     \*   the tuples it expects, later those it misses
    repair,     \* the repair at work: by whom, and what it found
    excused,    \* history: pairs the plain promise is not made for, see below
    faults      \* how much of MaxFaults is used

rows     == <<member, known>>
handlers == <<event, pc, found>>
truth    == <<idp, granted>>
vars == <<truth, rows, tuples, handlers, queue, batch, reconciler, wanted,
          repair, excused, faults>>

Tuple == User \X Role \X Org
\* The tuple calls of a handler, each of which may become a queue item.
Part == {"revoke", "grant", "demote"}
Item == Event \X Part

NoEvent == [type |-> "none"]
Webhook ==
    [type : {"created", "deleted", "added", "removed", "role_changed"},
     user : User \cup {"none"}, org : Org, old : Role \cup {"none"}, new : Role \cup {"none"}]

\* missing: the tuples a repair expects, later those it is to write; orphans:
\* those it is to delete.
Repair ==
    [by : {"nobody", "route", "script"}, at : {"idle", "drift", "write", "delete"},
     missing : SUBSET Tuple, orphans : SUBSET Tuple]

NoRepair == [by |-> "nobody", at |-> "idle", missing |-> {}, orphans |-> {}]

TypeOK ==
    /\ idp \in [Pair -> Role \cup {"none"}]
    /\ granted \subseteq Tuple
    /\ member \in [Pair -> Role \cup {"none"}]
    /\ known \subseteq User
    /\ tuples \subseteq Tuple
    /\ event \in [Event -> Webhook \cup {NoEvent}]
    /\ pc \in [Event -> {"unsent", "sent", "deleting", "revoke", "lookup",
                         "grant", "demote", "done"}]
    /\ found \in [Event -> Role \cup User \cup {"none"}]
    /\ queue \in [Item -> [status : {"none", "pending", "completed", "failed"},
                           attempts : 0 .. MaxAttempts]]
    /\ batch \in [Poller -> SUBSET (Item \X (0 .. MaxAttempts))]
    /\ reconciler \in {"idle", "expecting", "writing"}
    /\ wanted \subseteq Tuple
    /\ repair \in Repair
    /\ excused \subseteq Pair
    /\ faults \in 0 .. MaxFaults

\* The tuples a table of memberships stands for.
TuplesOf(m) == {t \in Tuple : m[<<t[1], t[3]>>] = t[2]}

Init ==
    /\ idp = Initial
    /\ granted = TuplesOf(Initial)
    /\ known \in SUBSET User
    /\ member = [p \in Pair |-> IF p[1] \in known THEN Initial[p] ELSE "none"]
    /\ tuples = TuplesOf(member)
    /\ event = [e \in Event |-> NoEvent]
    /\ pc = [e \in Event |-> "unsent"]
    /\ found = [e \in Event |-> "none"]
    /\ queue = [i \in Item |-> [status |-> "none", attempts |-> 0]]
    /\ batch = [p \in Poller |-> {}]
    /\ reconciler = "idle"
    /\ wanted = {}
    /\ repair = NoRepair
    /\ excused = {}
    /\ faults = 0

Fault == faults < MaxFaults /\ faults' = faults + 1

-----------------------------------------------------------------------------
(***************************************************************************)
(* The identity provider, outside this repository: it changes a membership *)
(* and sends a webhook.  Webhooks may arrive in any order, or never; one    *)
(* whose handler fails before its first write is as good as never sent.    *)
(***************************************************************************)
Send(e, type, u, o, old, new) ==
    /\ pc[e] = "unsent"
    /\ \A f \in Event : f < e => pc[f] # "unsent"
    /\ event' = [event EXCEPT ![e] = [type |-> type, user |-> u, org |-> o,
                                      old |-> old, new |-> new]]
    /\ pc' = [pc EXCEPT ![e] = "sent"]
    /\ IF type = "deleted"
         THEN idp' = [p \in Pair |-> IF p[2] = o THEN "none" ELSE idp[p]]
         ELSE idp' = [idp EXCEPT ![<<u, o>>] = new]
    /\ granted' = granted \cup TuplesOf(idp')
    /\ UNCHANGED <<rows, tuples, found, queue, batch, reconciler,
                   wanted, repair, excused, faults>>

Members(o) == {u \in User : idp[<<u, o>>] # "none"}

IdpChanges(e) ==
    \E o \in Org :
        \/ Members(o) # {} /\ Send(e, "deleted", "none", o, "none", "none")
        \/ \E u \in User :
            LET old == idp[<<u, o>>]
            IN  \/ Members(o) = {} /\ Send(e, "created", u, o, "none", "owner")
                \/ /\ Members(o) \notin {{}, {u}}
                   /\ old # "none"
                   /\ Send(e, "removed", u, o, old, "none")
                \/ \E new \in Role \ {old} :
                     /\ Members(o) # {}
                     /\ Send(e, IF old = "none" THEN "added" ELSE "role_changed",
                             u, o, old, new)

-----------------------------------------------------------------------------
PairOf(e) == <<event[e].user, event[e].org>>

\* The tuple a call of e's handler is about: the old role is the one the
\* table had (removed) or the payload names (role_changed).
TupleOf(e, part) ==
    LET ev == event[e]
    IN  CASE part = "grant"  -> <<ev.user, ev.new, ev.org>>
          [] part = "demote" -> <<found[e], "owner", ev.org>>
          [] part = "revoke" ->
               <<ev.user, IF ev.type = "removed" THEN found[e] ELSE ev.old, ev.org>>

\* The tuples once the call is executed; repeating it changes nothing.
Applied(e, part) ==
    IF part = "grant" THEN tuples \cup {TupleOf(e, part)}
                      ELSE tuples \ {TupleOf(e, part)}

PairOfItem(i) == <<TupleOf(i[1], i[2])[1], event[i[1]].org>>

InFlight(e) == pc[e] \notin {"unsent", "sent", "done"}

\* Some tuple of pair p is still to be written or deleted by another than e.
Busy(p, e) ==
    \/ \E f \in Event \ {e} : InFlight(f) /\ PairOf(f) = p
    \/ \E i \in Item : queue[i].status = "pending" /\ PairOfItem(i) = p
    \/ \E q \in Poller : \E b \in batch[q] : PairOfItem(b[1]) = p
    \/ \E t \in wanted \cup repair.missing \cup repair.orphans : <<t[1], t[3]>> = p
    \/ repair.at = "drift"

Changed(m) == {p \in Pair : m[p] # member[p]}

\* The pairs handler e excuses when it makes the table m: a pair somebody else
\* is still busy with, a pair whose row is not the one the webhook starts from,
\* and the pairs of other organizations that change as well.
Surprises(e, m) ==
    (Changed(m) \ {PairOf(e)})
      \cup {p \in Pair \cap {PairOf(e)} : Busy(p, e) \/ member[p] # event[e].old}

WriteRows(m, Excused) ==
    /\ member' = m
    /\ excused' = excused \cup Excused

HandlerWrites(e, m) == WriteRows(m, Surprises(e, m))

Goto(e, label) == pc' = [pc EXCEPT ![e] = label]

-----------------------------------------------------------------------------
(***************************************************************************)
(* The webhook handlers.  Up to its first write of the table a handler     *)
(* only reads what cannot change under it, or what no step depends on.     *)
(***************************************************************************)
Receive(e, type) == pc[e] = "sent" /\ event[e].type = type

\* The user never logged in, or the member limit is reached: nothing is done.
Skip(e) ==
    /\ pc[e] = "sent"
    /\ \/ event[e].type = "added"
       \/ event[e].type \in {"removed", "role_changed"}
            /\ event[e].user \notin known
    /\ Goto(e, "done")
    /\ UNCHANGED <<truth, rows, tuples, event, found, queue, batch,
                   reconciler, wanted, repair, excused, faults>>

\* handleOrganizationCreated writes the owner's tuple and leaves the row to
\* the owner's login.
OrganizationCreated(e) ==
    /\ Receive(e, "created")
    /\ Goto(e, "grant")
    /\ excused' = excused \cup {PairOf(e)}
    /\ UNCHANGED <<truth, rows, tuples, event, found, queue, batch,
                   reconciler, wanted, repair, faults>>

\* handleOrganizationDeleted deletes the rows.  The tuple it revokes names the
\* owner by the local id, no tuple in Warden does: they all stay.
OrganizationDeleted(e) ==
    /\ Receive(e, "deleted")
    /\ HandlerWrites(e, [p \in Pair |-> IF p[2] = event[e].org THEN "none"
                                                               ELSE member[p]])
    /\ Goto(e, "done")
    /\ UNCHANGED <<truth, known, tuples, event, found, queue, batch,
                   reconciler, wanted, repair, faults>>

MemberAdded(e) ==
    /\ Receive(e, "added")
    /\ event[e].user \in known
    /\ HandlerWrites(e, [member EXCEPT ![PairOf(e)] = event[e].new])
    /\ Goto(e, "grant")
    /\ UNCHANGED <<truth, known, tuples, event, found, queue, batch,
                   reconciler, wanted, repair, faults>>

\* Mutant: the role is looked up when the rows are gone.
MemberRemovedTooLate(e) ==
    /\ Receive(e, "removed")
    /\ event[e].user \in known
    /\ Goto(e, "deleting")
    /\ UNCHANGED <<truth, rows, tuples, event, found, queue, batch, reconciler,
                   wanted, repair, excused, faults>>

\* handleMemberRemoved: a look at the role, then the rows of the user in every
\* organization, then the tuple of that role.
MemberRemoved(e) ==
    /\ Receive(e, "removed")
    /\ event[e].user \in known
    /\ found' = [found EXCEPT ![e] = member[PairOf(e)]]
    /\ Goto(e, "deleting")
    /\ UNCHANGED <<truth, rows, tuples, event, queue, batch, reconciler,
                   wanted, repair, excused, faults>>

DeleteRows(e) ==
    /\ pc[e] = "deleting"
    /\ HandlerWrites(e, [p \in Pair |-> IF p[1] = event[e].user THEN "none"
                                                                ELSE member[p]])
    /\ Goto(e, IF found[e] = "none" THEN "done" ELSE "revoke")
    /\ UNCHANGED <<truth, known, tuples, event, found, queue, batch,
                   reconciler, wanted, repair, faults>>

\* handleMemberRoleChanged: the user's rows of every organization, too.
MemberRoleChanged(e) ==
    /\ Receive(e, "role_changed")
    /\ event[e].user \in known
    /\ HandlerWrites(e, [p \in Pair |->
                           IF p[1] = event[e].user /\ member[p] # "none"
                             THEN event[e].new ELSE member[p]])
    /\ Goto(e, "revoke")
    /\ UNCHANGED <<truth, known, tuples, event, found, queue, batch,
                   reconciler, wanted, repair, faults>>

\* A tuple call and what becomes of it: done; or failed, executed or not, and
\* queued, with the calls in Retry; or failed and not even queued.
Call(e, part, Retry, next, onFailure) ==
    \/ /\ tuples' = Applied(e, part)
       /\ Goto(e, next)
       /\ UNCHANGED <<queue, excused, faults>>
    \/ /\ Fault
       /\ tuples' \in {tuples, Applied(e, part)}
       /\ Goto(e, onFailure)
       /\ \/ /\ queue' = [i \in Item |->
                             IF i \in {e} \X Retry
                               THEN [status |-> "pending", attempts |-> 0]
                               ELSE queue[i]]
             /\ UNCHANGED excused
          \/ /\ excused' = excused \cup {PairOf(e)}
             /\ UNCHANGED queue

Calling(e, label) ==
    /\ pc[e] = label
    /\ UNCHANGED <<truth, rows, event, found, batch, reconciler, wanted, repair>>

Revoke(e) ==
    LET next == IF event[e].type = "removed" THEN "done"
                ELSE IF event[e].new = "owner" THEN "lookup" ELSE "grant"
    IN  Calling(e, "revoke") /\ Call(e, "revoke", {"revoke"}, next, next)

\* The new owner takes over from another owner, if the table has one.  That
\* one's own row changes with a webhook of its own.
LookupOwner(e) ==
    LET o == event[e].org
        Owners == {v \in User \ {event[e].user} : member[<<v, o>>] = "owner"}
    IN  /\ pc[e] = "lookup"
        /\ Goto(e, "grant")
        /\ IF Owners = {}
             THEN UNCHANGED <<found, excused>>
             ELSE \E v \in Owners :
                    /\ found' = [found EXCEPT ![e] = v]
                    /\ excused' = excused \cup {<<v, o>>}
        /\ UNCHANGED <<truth, rows, tuples, event, queue, batch, reconciler,
                       wanted, repair, faults>>

\* transferOrganizationOwnership: the new owner's tuple is written, then the
\* one of the owner that was found is deleted.
Transferring(e) == found[e] \in User

\* A grant, or the first call of a transfer.
Grant(e) ==
    /\ Calling(e, "grant")
    /\ IF Transferring(e)
         THEN Call(e, "grant", {"grant", "demote"}, "demote", "done")
         ELSE Call(e, "grant", {"grant"}, "done", "done")

Demote(e) ==
    Calling(e, "demote") /\ Call(e, "demote", {"grant", "demote"}, "done", "done")

\* The process dies with the handler in flight.
Crash(e) ==
    /\ Fault
    /\ InFlight(e)
    /\ Goto(e, "done")
    /\ excused' = excused \cup {PairOf(e)}
    /\ UNCHANGED <<truth, rows, tuples, event, found, queue, batch,
                   reconciler, wanted, repair>>

Handler(e) ==
    \/ Skip(e)
    \/ OrganizationCreated(e)
    \/ OrganizationDeleted(e)
    \/ MemberAdded(e)
    \/ MemberRemoved(e)
    \/ DeleteRows(e)
    \/ MemberRoleChanged(e)
    \/ Revoke(e)
    \/ LookupOwner(e)
    \/ Grant(e)
    \/ Demote(e)
    \/ Crash(e)

-----------------------------------------------------------------------------
\* A login upserts the rows that the access token's claims name and deletes the
\* others; claims without organizations leave the rows alone.  It is one write
\* per row, nothing relates two of them.  No tuple is written.  Bound: the claims
\* are those of the beginning or of now.
Login(u, claims) ==
    LET m == [p \in Pair |-> IF p[1] = u THEN claims[p] ELSE member[p]]
    IN  /\ Fault
        /\ known' = known \cup {u}
        /\ IF \A o \in Org : claims[<<u, o>>] = "none"
             THEN UNCHANGED <<member, excused>>
             ELSE WriteRows(m, Changed(m))
        /\ UNCHANGED <<truth, tuples, handlers, queue, batch, reconciler,
                       wanted, repair>>

-----------------------------------------------------------------------------
(***************************************************************************)
(* The sync pollers.                                                       *)
(***************************************************************************)
\* The interval fires, p gets the sync lock and fetches a batch of the items
\* whose time for a retry has come.  The lock may expire under its holder, so
\* the ticks of several instances may be at work at once.
PollStart(p) ==
    /\ batch[p] = {}
    /\ \E Due \in SUBSET {i \in Item : queue[i].status = "pending"} :
          /\ Due # {}
          /\ batch' = [batch EXCEPT ![p] = {<<i, queue[i].attempts>> : i \in Due}]
    /\ UNCHANGED <<truth, rows, tuples, handlers, queue, reconciler, wanted, repair,
                   excused, faults>>

\* Mutant: one attempt more than the table allows.
ExhaustedLate(attempts) == attempts > MaxAttempts

Exhausted(attempts) == attempts >= MaxAttempts

\* The next item of the batch is called and its row updated, from the number of
\* attempts that was fetched and whatever became of the row since.
Retry(p, i, n) ==
    /\ <<i, n>> \in batch[p]
    /\ batch' = [batch EXCEPT ![p] = @ \ {<<i, n>>}]
    /\ \/ /\ tuples' = Applied(i[1], i[2])
          /\ queue' = [queue EXCEPT ![i] = [status |-> "completed", attempts |-> n + 1]]
          /\ UNCHANGED excused
       \/ /\ tuples' \in {tuples, Applied(i[1], i[2])}
          /\ IF Exhausted(n + 1)
               THEN /\ queue' = [queue EXCEPT ![i] = [status |-> "failed",
                                                     attempts |-> n + 1]]
                    /\ excused' = excused \cup {PairOfItem(i)}
               ELSE /\ queue' = [queue EXCEPT ![i] = [status |-> "pending",
                                                     attempts |-> n + 1]]
                    /\ UNCHANGED excused
    /\ UNCHANGED <<truth, rows, handlers, reconciler, wanted, repair, faults>>

\* A database error ends the tick, or the process dies, maybe after a call
\* that is not recorded.
PollAbort(p) ==
    /\ Fault
    /\ batch[p] # {}
    /\ tuples' \in {tuples} \cup {Applied(b[1][1], b[1][2]) : b \in batch[p]}
    /\ batch' = [batch EXCEPT ![p] = {}]
    /\ UNCHANGED <<truth, rows, handlers, queue, reconciler, wanted, repair, excused>>

-----------------------------------------------------------------------------
(***************************************************************************)
(* The reconciler: the expected tuples, then the actual ones, then what is *)
(* missing.  Several batches, or calls that fail, write a part of it.      *)
(***************************************************************************)
Reconciling(from, to) ==
    /\ reconciler = from
    /\ reconciler' = to
    /\ UNCHANGED <<truth, rows, handlers, queue, batch, repair, excused, faults>>

\* Mutant: no join with the user table, the rows' local ids match no tuple.
buildUnjoinedTuples ==
    /\ Reconciling("idle", "expecting")
    /\ wanted' = {}
    /\ UNCHANGED tuples

buildExpectedTuples ==
    /\ Reconciling("idle", "expecting")
    /\ wanted' = TuplesOf(member)
    /\ UNCHANGED tuples

fetchActualTuples ==
    /\ Reconciling("expecting", "writing")
    /\ wanted' = wanted \ tuples
    /\ UNCHANGED tuples

WriteMissing(Written) ==
    /\ Reconciling("writing", "idle")
    /\ tuples' = tuples \cup Written
    /\ wanted' = {}

RestoreAll == WriteMissing(wanted)

\* A read fails, or some writes do, or the process dies.
ReconcileFails ==
    \/ \E Written \in SUBSET wanted : Written # wanted /\ WriteMissing(Written)
    \/ /\ Reconciling("expecting", "idle")
       /\ wanted' = {}
       /\ UNCHANGED tuples

Reconcile ==
    buildExpectedTuples \/ fetchActualTuples \/ RestoreAll \/ ReconcileFails

-----------------------------------------------------------------------------
(***************************************************************************)
(* POST /authz/reconcile, and the script of the same purpose: the expected *)
(* tuples, then the actual ones; what is missing is written and, if asked  *)
(* for, what is too much deleted, in batches that may fail one by one.     *)
(***************************************************************************)
Repairing(by, from) ==
    /\ repair.at = from
    /\ repair.by = by
    /\ UNCHANGED <<truth, rows, handlers, queue, batch, reconciler, wanted,
                   excused>>

RepairReads(by) ==
    /\ Repairing("nobody", "idle")
    /\ Fault
    /\ repair' = [NoRepair EXCEPT !.by = by, !.at = "drift",
                                  !.missing = TuplesOf(member)]
    /\ UNCHANGED tuples

computeDrift(by, deleteOrphans) ==
    /\ Repairing(by, "drift")
    /\ repair' = [repair EXCEPT
         !.at = "write", !.missing = @ \ tuples,
         !.orphans = IF deleteOrphans THEN tuples \ repair.missing ELSE {}]
    /\ UNCHANGED <<tuples, faults>>

\* Warden's tuples cannot be read: the script writes all it expects.
DriftUnread ==
    /\ Repairing("script", "drift")
    /\ repair' = [repair EXCEPT !.at = "write"]
    /\ UNCHANGED <<tuples, faults>>

RepairWrites(by) ==
    /\ Repairing(by, "write")
    /\ \E Written \in SUBSET repair.missing : tuples' = tuples \cup Written
    /\ repair' = [repair EXCEPT !.at = "delete", !.missing = {}]
    /\ UNCHANGED faults

RepairDeletes(by) ==
    /\ Repairing(by, "delete")
    /\ \E Deleted \in SUBSET repair.orphans : tuples' = tuples \ Deleted
    /\ repair' = NoRepair
    /\ UNCHANGED faults

\* A report of the drift, a dry run, a read that fails, or the process dies.
RepairEnds(by) ==
    /\ Repairing(by, repair.at)
    /\ repair' = NoRepair
    /\ UNCHANGED <<tuples, faults>>

RepairSteps(by) ==
    \/ RepairReads(by)
    \/ \E deleteOrphans \in BOOLEAN : computeDrift(by, deleteOrphans)
    \/ RepairWrites(by)
    \/ RepairDeletes(by)
    \/ RepairEnds(by)

RouteRepair == RepairSteps("route")
ScriptRepair == RepairSteps("script") \/ DriftUnread

-----------------------------------------------------------------------------
PollerStep(p) ==
    \/ PollStart(p)
    \/ \E b \in batch[p] : Retry(p, b[1], b[2])
    \/ PollAbort(p)

Next ==
    \/ \E e \in Event : IdpChanges(e) \/ Handler(e)
    \/ \E u \in User, claims \in {Initial, idp} : Login(u, claims)
    \/ \E p \in Poller : PollerStep(p)
    \/ Reconcile
    \/ RouteRepair
    \/ ScriptRepair

Spec == Init /\ [][Next]_vars

\* The reconciler's timer keeps firing and Warden and the database do not fail
\* for ever: a pass that may be completed again and again is completed.
Fairness ==
    /\ WF_vars(buildExpectedTuples)
    /\ SF_vars(fetchActualTuples)
    /\ SF_vars(RestoreAll)

FairSpec == Spec /\ Fairness
-----------------------------------------------------------------------------
(***************************************************************************)
(* Properties.                                                             *)
(***************************************************************************)
\* Nobody is at work on a pair, and nothing is queued for it.
Settled(p) == ~ Busy(p, 0)

\* Once everything about a membership is settled, retries included, Warden
\* holds the tuple of its row and no other.  Not promised for the pairs in
\* excused: those with two changes at work at once, with a call that was given
\* up, with a row that did not match the webhook, with rows or tuples that a
\* login, an organization's creation or deletion, a transfer or a webhook about
\* another organization changed alone.
SyncedWhenSettled ==
    \A p \in Pair \ excused :
        Settled(p) =>
            \A r \in Role : <<p[1], r, p[2]>> \in tuples <=> member[p] = r

\* "Prevents users from being permanently locked out": a membership that lasts
\* has its tuple again and again, whatever fails.
NeverLockedOut ==
    \A t \in Tuple :
        <>[](member[<<t[1], t[3]>>] = t[2]) => []<>(t \in tuples)

\* "It can only ever restore access": no tuple appears that the identity
\* provider never stood for.
OnlyGranted == tuples \subseteq granted
=============================================================================
