--------------------------- MODULE AccessControl ---------------------------
(***************************************************************************)
(* Who may do what in one organization, and to one of its workflows.  The  *)
(* handlers ask Warden through a cache of its decisions; a workflow may    *)
(* also be changed by the holder of an editor grant; grants are given and  *)
(* taken by admins.  Warden's tuples and the local roster follow the       *)
(* identity provider (module WardenSync) and change at any time here.      *)
(***************************************************************************)
EXTENDS PlanLimits

CONSTANTS
    Person,         \* users
    InitialRole,    \* InitialRole[p]: their role when everything agrees
    CacheTtl,       \* AUTHORIZE_CACHE_TTL_SECONDS, in ticks
    MaxTicks,       \* bound: ticks of the clock
    MaxChanges,     \* bound: changes of roles
    Becomes,        \* bound: the roles they lead to
    AccessMix       \* the requests that are made

VARIABLES
    warden,      \* warden[p]: the role in Warden's tuples
    roster,      \* roster[p]: the role in user_organization
    grant,       \* grant[p]: the row of workflow_permission
    decision,    \* decision[k]: the cached answer to the check k
    areq,        \* areq[r]: request r
    clock,       \* how much of MaxTicks is used
    changes,     \* how much of MaxChanges is used
    since,       \* history: since[k][b]: ticks since Warden's answer was b
    joined,      \* history: who was ever on the roster
    ruled        \* history: who was ever an admin or owner there

accessVars == <<warden, roster, grant, decision, areq, clock, changes, since,
                joined, ruled>>

Standing == {"none", "member", "admin", "owner"}
Relation == {"member", "admin"}
Check == Person \X Relation

Via == {"session", "key", "service", "token"}
AccessOp == {"none", "read", "manage", "edit", "grant", "revoke"}
AccessAt == {"start", "lookup", "ask", "store", "acl", "caller", "rank",
             "target", "write", "done"}

\* An entry of the cache.  late: the ticks between Warden's answer and its
\* being stored.
Cached == [allowed : BOOLEAN, age : 0 .. CacheTtl + 1, late : 0 .. MaxTicks]
NoEntry == [allowed |-> FALSE, age |-> CacheTtl + 1, late |-> 0]

\* A request of who, authenticated via a session, an API key (which carries the
\* user's identity at the provider), the service key (which carries none) or a
\* GraphQL access token; a grant is given to or taken from target.  stale, late
\* and failed say how the decision came about, steady that nothing spoke against
\* an admin since the request was made.
AccessRequest ==
    [op : AccessOp, who : Person, via : Via, target : Person,
     permission : {"viewer", "editor"}, at : AccessAt, allowed : BOOLEAN,
     decided : BOOLEAN, failed : BOOLEAN, stale : 0 .. MaxTicks + 1,
     late : 0 .. MaxTicks, steady : BOOLEAN, reply : Nat]

ASSUME AccessAssumption ==
    /\ InitialRole \in [Person -> Standing]
    /\ Becomes \subseteq Standing
    /\ CacheTtl \in Nat /\ MaxTicks \in Nat /\ MaxChanges \in Nat
    /\ AccessMix \subseteq [Request -> AccessRequest]
    /\ \A mix \in AccessMix : \A r \in Request :
         mix[r].at \in {"start", "done"} /\ ~mix[r].decided /\ mix[r].late = 0

AccessTypeOK ==
    /\ warden \in [Person -> Standing]
    /\ roster \in [Person -> Standing]
    /\ grant \in [Person -> {"none", "viewer", "editor"}]
    /\ decision \in [Check -> Cached]
    /\ areq \in [Request -> AccessRequest]
    /\ clock \in 0 .. MaxTicks
    /\ changes \in 0 .. MaxChanges
    /\ since \in [Check -> [BOOLEAN -> 0 .. MaxTicks + 1]]
    /\ joined \subseteq Person
    /\ ruled \subseteq Person

\* Warden's rule: an owner is an admin, an admin is a member.
Holds(role, relation) ==
    IF relation = "admin" THEN role \in {"admin", "owner"} ELSE role # "none"

Admins(table) == {p \in Person : Holds(table[p], "admin")}
Members(table) == {p \in Person : Holds(table[p], "member")}

AccessStart ==
    /\ warden = InitialRole
    /\ roster = InitialRole
    /\ grant = [p \in Person |-> "none"]
    /\ decision = [k \in Check |-> NoEntry]
    /\ clock = 0
    /\ changes = 0
    /\ since = [k \in Check |-> [b \in BOOLEAN |->
                  IF b = Holds(InitialRole[k[1]], k[2]) THEN 0 ELSE MaxTicks + 1]]
    /\ joined = Members(InitialRole)
    /\ ruled = Admins(InitialRole)

AccessInit == AccessStart /\ areq \in AccessMix

-----------------------------------------------------------------------------
(* The world around: time, Warden's tuples, the roster. *)

\* Time passes: the entries of the cache grow older, and so does what Warden
\* answered before.
Tick ==
    /\ clock < MaxTicks
    /\ clock' = clock + 1
    /\ decision' = [k \in Check |->
         [decision[k] EXCEPT !.age = IF @ > CacheTtl THEN @ ELSE @ + 1]]
    /\ since' = [k \in Check |-> [b \in BOOLEAN |->
         IF b = Holds(warden[k[1]], k[2]) \/ since[k][b] > MaxTicks
           THEN since[k][b] ELSE since[k][b] + 1]]
    /\ areq' = [r \in Request |->
         IF areq[r].at = "store" THEN [areq[r] EXCEPT !.late = @ + 1] ELSE areq[r]]
    /\ UNCHANGED <<warden, roster, grant, changes, joined, ruled>>

\* A role changes; whoever loses the admin's is no steady admin any more.
Unsteady(p, role) ==
    [r \in Request |->
       IF areq[r].who = p /\ ~Holds(role, "admin")
         THEN [areq[r] EXCEPT !.steady = FALSE] ELSE areq[r]]

WardenChanges(p, role) ==
    /\ changes < MaxChanges
    /\ role # warden[p]
    /\ warden' = [warden EXCEPT ![p] = role]
    /\ since' = [k \in Check |->
         IF k[1] = p THEN [since[k] EXCEPT ![Holds(role, k[2])] = 0] ELSE since[k]]
    /\ areq' = Unsteady(p, role)
    /\ changes' = changes + 1
    /\ UNCHANGED <<roster, grant, decision, clock, joined, ruled>>

\* The grants do not follow the roster.
RosterChanges(p, role) ==
    /\ changes < MaxChanges
    /\ role # roster[p]
    /\ roster' = [roster EXCEPT ![p] = role]
    /\ joined' = joined \cup Members(roster')
    /\ ruled' = ruled \cup Admins(roster')
    /\ areq' = Unsteady(p, role)
    /\ changes' = changes + 1
    /\ UNCHANGED <<warden, grant, decision, clock, since>>

-----------------------------------------------------------------------------
Proceed(r, step) == areq' = [areq EXCEPT ![r].at = step]
Respond(r, status) == areq' = [areq EXCEPT ![r].at = "done", ![r].reply = status]
World == UNCHANGED <<warden, roster, clock, changes, since, joined, ruled>>

\* The relation a handler asks for.
Needed(r) == IF areq[r].op = "read" THEN "member" ELSE "admin"
CheckOf(r) == <<areq[r].who, Needed(r)>>

\* What comes after the decision.
AfterDecision(r, allowed) ==
    CASE allowed /\ areq[r].op \in {"grant", "revoke"} -> "caller"
      [] ~allowed /\ areq[r].op = "edit" -> "acl"
      [] OTHER -> "done"

Decide(r, allowed, late) ==
    areq' = [areq EXCEPT ![r] =
               [@ EXCEPT !.at = AfterDecision(r, allowed),
                         !.allowed = allowed,
                         !.decided = TRUE,
                         !.stale = since[CheckOf(r)][allowed],
                         !.late = late,
                         !.reply = IF allowed THEN 200 ELSE 403]]

\* Credentials are missing or the identity provider does not vouch for them.
Unauthorized(r) == areq[r].at = "start" /\ Respond(r, 401)
                   /\ World /\ UNCHANGED <<grant, decision>>

\* A session must belong to someone on the roster; a key names its organization
\* itself; the service key names no user, so that Warden is not asked.
Authenticate(r) ==
    /\ areq[r].at = "start"
    /\ areq[r].via = "session" => roster[areq[r].who] # "none"
    /\ LET next == IF areq[r].via # "service" THEN "lookup"
                   ELSE AfterDecision(r, TRUE)
           steady == /\ areq[r].who \in Admins(roster) \cap Admins(warden)
                     /\ since[CheckOf(r)][FALSE] > MaxTicks
           reply == IF next = "done" THEN 200 ELSE areq[r].reply
       IN  areq' = [areq EXCEPT ![r] =
                      [@ EXCEPT !.at = next, !.steady = steady, !.reply = reply]]
    /\ World /\ UNCHANGED <<grant, decision>>

-----------------------------------------------------------------------------
(* authorize *)

\* Mutant: an entry never expires.
ExpiredNever(entry) == entry = NoEntry

\* getCachedPermission: Date.now() > expiresAt.
Expired(entry) == entry.age > CacheTtl

CacheHit(r) ==
    /\ areq[r].at = "lookup"
    /\ ~Expired(decision[CheckOf(r)])
    /\ Decide(r, decision[CheckOf(r)].allowed, decision[CheckOf(r)].late)
    /\ World /\ UNCHANGED <<grant, decision>>

\* No entry, or the lookup throws.
CacheMiss(r) ==
    /\ areq[r].at = "lookup"
    /\ Proceed(r, "ask")
    /\ World /\ UNCHANGED <<grant, decision>>

WardenAnswers(r) ==
    /\ areq[r].at = "ask"
    /\ areq' = [areq EXCEPT ![r].at = "store",
                            ![r].allowed = Holds(warden[areq[r].who], Needed(r))]
    /\ World /\ UNCHANGED <<grant, decision>>

\* Warden does not answer: no, and nothing is cached.
WardenFails(r) ==
    /\ areq[r].at = "ask"
    /\ areq' = [areq EXCEPT ![r] =
                  [@ EXCEPT !.at = AfterDecision(r, FALSE), !.failed = TRUE,
                            !.steady = FALSE, !.reply = 403]]
    /\ World /\ UNCHANGED <<grant, decision>>

\* The answer is cached, unless that fails, and used.
StoreDecision(r) ==
    /\ areq[r].at = "store"
    /\ \/ decision' = [decision EXCEPT ![CheckOf(r)] =
                         [allowed |-> areq[r].allowed, age |-> 0, late |-> areq[r].late]]
       \/ UNCHANGED decision
    /\ Decide(r, areq[r].allowed, areq[r].late)
    /\ World /\ UNCHANGED grant

-----------------------------------------------------------------------------
(* canMutateWorkflow asks for an editor grant when Warden says no. *)
HasWorkflowGrant(r) ==
    /\ areq[r].at = "acl"
    /\ Respond(r, IF grant[areq[r].who] = "editor" THEN 200 ELSE 403)
    /\ World /\ UNCHANGED <<grant, decision>>

-----------------------------------------------------------------------------
(* The permission routes. *)

\* The caller's row is looked up by the user id of the credentials, taken for
\* the identity at the provider.  A session carries the local id, only a key
\* the provider's.  Before that the workflow is, which may be another
\* organization's.
CallerKnown(r) == areq[r].via = "key"

FindCaller(r) ==
    /\ areq[r].at = "caller"
    /\ \/ IF CallerKnown(r) THEN Proceed(r, "rank") ELSE Respond(r, 403)
       \/ Respond(r, 404)
    /\ World /\ UNCHANGED <<grant, decision>>

RankCaller(r) ==
    /\ areq[r].at = "rank"
    /\ IF roster[areq[r].who] \in {"none", "member"} THEN Respond(r, 403)
       ELSE Proceed(r, IF areq[r].op = "grant" THEN "target" ELSE "write")
    /\ World /\ UNCHANGED <<grant, decision>>

\* Mutant: the target's membership is not looked up.
FindTargetUnchecked(r) ==
    /\ areq[r].at = "target"
    /\ Proceed(r, "write")
    /\ World /\ UNCHANGED <<grant, decision>>

FindTarget(r) ==
    /\ areq[r].at = "target"
    /\ IF roster[areq[r].target] = "none" THEN Respond(r, 400) ELSE Proceed(r, "write")
    /\ World /\ UNCHANGED <<grant, decision>>

\* The upsert of a grant.
WriteGrant(r) ==
    /\ areq[r].at = "write" /\ areq[r].op = "grant"
    /\ grant' = [grant EXCEPT ![areq[r].target] = areq[r].permission]
    /\ Respond(r, 200)
    /\ World /\ UNCHANGED decision

RevokeGrant(r) ==
    /\ areq[r].at = "write" /\ areq[r].op = "revoke"
    /\ grant' = [grant EXCEPT ![areq[r].target] = "none"]
    /\ Respond(r, IF grant[areq[r].target] = "none" THEN 404 ELSE 200)
    /\ World /\ UNCHANGED decision

-----------------------------------------------------------------------------
ServeAccess(r) ==
    \/ Unauthorized(r) \/ Authenticate(r)
    \/ CacheHit(r) \/ CacheMiss(r) \/ WardenAnswers(r) \/ WardenFails(r)
    \/ StoreDecision(r) \/ HasWorkflowGrant(r)
    \/ FindCaller(r) \/ RankCaller(r) \/ FindTarget(r)
    \/ WriteGrant(r) \/ RevokeGrant(r)

AccessNext ==
    \/ Tick
    \/ \E p \in Person, role \in Becomes :
         WardenChanges(p, role) \/ RosterChanges(p, role)
    \/ \E r \in Request : ServeAccess(r)

AccessSpec == AccessInit /\ [][AccessNext]_accessVars

-----------------------------------------------------------------------------
(* Whatever a request was told, yes or no, Warden said at most CacheTtl ticks
   before, plus the time the answer took from Warden into the cache: someone
   who is removed keeps access no longer, and is not kept out longer.       *)
DecisionsExpire ==
    \A r \in Request : areq[r].decided => areq[r].stale <= CacheTtl + areq[r].late

(* Only someone who has been in the organization has a grant, and if there is
   one somebody there has ruled.  (That they still do is not promised.)     *)
GrantsBacked ==
    \A p \in Person : grant[p] # "none" => p \in joined /\ ruled # {}

(* The routes' comment: "Allows admins and owners to grant/revoke viewer or
   editor permissions on individual workflows to specific users."  An admin,
   all along, on the roster and in Warden, is never refused.                *)
AdminsManage ==
    \A r \in Request :
        /\ areq[r].op \in {"grant", "revoke"}
        /\ areq[r].at = "done"
        /\ areq[r].steady
        => areq[r].reply # 403
=============================================================================
