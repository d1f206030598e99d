--------------------------- MODULE ResourceStore ---------------------------
(***************************************************************************)
(* The rows an organization owns and its plan limits: functions, event     *)
(* subscriptions, event schemas, MCP servers, integrations and routing     *)
(* rules, as the REST handlers and the GraphQL mutations create, change    *)
(* and delete them.  A request is one step per access to the database.     *)
(***************************************************************************)
EXTENDS PlanLimits

CONSTANTS
    ResourceId,        \* bound: the identifiers the inserts draw from
    Org,               \* organizations
    ResourceName,      \* names (of an integration: its type)
    Earlier,           \* stands for the requests served before the start
    InitialResource,   \* the rows there are at the start
    ResourceMix        \* the requests that are made

VARIABLES
    resource,    \* resource[i]: the row i, of one of the six tables
    rreq,        \* rreq[q]: request q
    rpeak,       \* history: rpeak[k][o]: the most inserts of kind k in flight
    existed,     \* history: the schema versions there have ever been
    linked       \* history: those that were registered after a previous one

resourceVars == <<resource, rreq, rpeak, existed, linked>>

Kind == {"function", "subscription", "schema", "mcp", "integration", "rule"}

\* Every table but the routing rules has a unique index on the organization
\* and the name (a schema's version counts as part of it).
Unique == Kind \ {"rule"}

ResourceOp == {"none", "create", "register", "upsert", "update", "delete",
               "unsubscribe", "test", "connect"}
ResourceAt == {"start", "check", "previous", "insert", "change", "remove",
               "deliver", "done"}

\* An HMAC secret is known by the request that generated or supplied it.
Secret == Request \cup {Earlier}

\* A row.  v is a schema's version (1 for the rest), secret a subscription's.
\* metered is history: the row has not come to its organization past the limit.
Resource ==
    [state : {"unborn", "live", "deleted"}, kind : Kind, org : Org,
     name : ResourceName, v : Nat, secret : Secret, metered : BOOLEAN]

\* An organization's version v of the schema name.
SchemaVersion == [org : Org, name : ResourceName, v : Nat]
SchemaOf(row) == [org |-> row.org, name |-> row.name, v |-> row.v]

\* A request of organization org.  to: the organization an update leaves the row
\* to.  supply: its body carries a secret.  shown: its answer carried one.  key:
\* what it signs a test delivery with.
ResourceRequest ==
    [op : ResourceOp, kind : Kind, org : Org, to : Org, name : ResourceName,
     v : Nat, id : ResourceId, supply : BOOLEAN, at : ResourceAt,
     shown : BOOLEAN, key : Secret, reply : Nat]

\* A request before it is served, for a table its operation is about.
Unserved(s) ==
    /\ s.at \in {"start", "done"} /\ ~s.shown /\ s.key = Earlier
    /\ s.op = "register" => s.kind = "schema"
    /\ s.op \in {"upsert", "unsubscribe", "test"} => s.kind = "subscription"
    /\ s.op = "connect" => s.kind \in {"mcp", "integration"}

ASSUME ResourceAssumption ==
    /\ IsFiniteSet(ResourceId)
    /\ Earlier \notin Request
    /\ InitialResource \in [ResourceId -> Resource]
    /\ \A i \in ResourceId : InitialResource[i].secret = Earlier
    /\ ResourceMix \subseteq [Request -> ResourceRequest]
    /\ \A mix \in ResourceMix : \A q \in Request : Unserved(mix[q])

ResourceTypeOK ==
    /\ resource \in [ResourceId -> Resource]
    /\ rreq \in [Request -> ResourceRequest]
    /\ rpeak \in [Kind -> [Org -> Nat]]
    /\ existed \subseteq SchemaVersion
    /\ linked \subseteq SchemaVersion

ResourceStart ==
    /\ resource = InitialResource
    /\ rpeak = [k \in Kind |-> [o \in Org |-> 0]]
    /\ existed = {SchemaOf(InitialResource[i]) : i \in
                    {j \in ResourceId : /\ InitialResource[j].state = "live"
                                        /\ InitialResource[j].kind = "schema"}}
    /\ linked = {}

ResourceInit == ResourceStart /\ rreq \in ResourceMix

Owned(k, o) == {i \in ResourceId : /\ resource[i].state = "live"
                                   /\ resource[i].kind = k
                                   /\ resource[i].org = o}
CountedOf(k, o) == {i \in Owned(k, o) : resource[i].metered}

\* The rows a unique index would not let stand beside (k, o, name, v).
Clash(k, o, name, v) ==
    {i \in Owned(k, o) : /\ k \in Unique
                         /\ resource[i].name = name
                         /\ resource[i].v = v}

Entering(k, o) ==
    {q \in Request : /\ rreq[q].at \in {"previous", "insert"}
                     /\ rreq[q].op # "connect"
                     /\ rreq[q].kind = k
                     /\ rreq[q].org = o}

-----------------------------------------------------------------------------
Continue(q, step) == rreq' = [rreq EXCEPT ![q].at = step]

Answer(q, status) == rreq' = [rreq EXCEPT ![q].at = "done", ![q].reply = status]

Starts(q, op) == rreq[q].at = "start" /\ rreq[q].op = op

Untouched == UNCHANGED <<resource, rpeak, existed, linked>>

\* No credentials, the role is missing, or the body is refused (a function
\* without source, a subscription's target URL that does not validate).
RefuseResource(q) == rreq[q].at = "start" /\ Answer(q, 403) /\ Untouched

-----------------------------------------------------------------------------
(* Creation. *)

Create(q, k) ==
    Starts(q, "create") /\ rreq[q].kind = k /\ Continue(q, "check") /\ Untouched

\* POST /functions and POST /subscriptions,
PostFunction(q) == Create(q, "function")
PostSubscription(q) == Create(q, "subscription")

\* and the GraphQL mutations, of which createEventSubscription does the same as
\* the POST and createEventSchema looks for no previous version.
CreateEventSchema(q) == Create(q, "schema")
CreateMcpServer(q) == Create(q, "mcp")
CreateIntegration(q) == Create(q, "integration")
CreateEventRoutingRule(q) == Create(q, "rule")

\* The callback of an OAuth flow inserts an MCP server and an integration, each
\* as it is, whatever the plan allows.
OauthInserts(q) == Starts(q, "connect") /\ Continue(q, "insert") /\ Untouched

\* POST /schemas looks for the same name and version first, and answers with it.
RegisterSchema(q) ==
    /\ Starts(q, "register")
    /\ IF Clash("schema", rreq[q].org, rreq[q].name, rreq[q].v) # {}
         THEN Answer(q, 200)
         ELSE Continue(q, "check")
    /\ Untouched

\* PUT of a subscription looks for its name.
UpsertFinds(q) ==
    /\ Starts(q, "upsert")
    /\ LET found == Clash("subscription", rreq[q].org, rreq[q].name, 1)
       IN  \/ found = {} /\ Continue(q, "check")
           \/ \E i \in found :
                rreq' = [rreq EXCEPT ![q].at = "change", ![q].id = i]
    /\ Untouched

\* Only the registration of a later schema version has a step before its insert.
AfterCheck(q) ==
    IF rreq[q].op = "register" /\ rreq[q].v > 1 THEN "previous" ELSE "insert"

CheckResourceLimit(q) ==
    /\ rreq[q].at = "check"
    /\ LET k == rreq[q].kind
           o == rreq[q].org
           n == Cardinality(Entering(k, o))
       IN  \E limit \in LimitRead :
             \/ /\ UnderLimit(limit, Cardinality(Owned(k, o)))
                /\ Continue(q, AfterCheck(q))
                /\ rpeak' = [rpeak EXCEPT ![k][o] = IF n < @ THEN @ ELSE n + 1]
             \/ /\ ~UnderLimit(limit, Cardinality(Owned(k, o)))
                /\ Answer(q, 403)
                /\ UNCHANGED rpeak
    /\ UNCHANGED <<resource, existed, linked>>

\* Mutant: any version of the name will do.
AnyVersion(name, v) ==
    {i \in ResourceId : /\ resource[i].state = "live"
                        /\ resource[i].kind = "schema"
                        /\ resource[i].name = name}

\* The version before v of the schema name.  The query names no organization.
PreviousVersion(name, v) ==
    {i \in ResourceId : /\ resource[i].state = "live"
                        /\ resource[i].kind = "schema"
                        /\ resource[i].name = name
                        /\ resource[i].v = v - 1}

FindPrevious(q) ==
    /\ rreq[q].at = "previous"
    /\ LET found == PreviousVersion(rreq[q].name, rreq[q].v)
       IN  IF found = {} THEN Answer(q, 400) ELSE Continue(q, "insert")
    /\ Untouched

\* The row a request asks for.
RowOf(q) ==
    [state |-> "live", kind |-> rreq[q].kind, org |-> rreq[q].org,
     name |-> rreq[q].name, v |-> rreq[q].v, secret |-> q,
     metered |-> rreq[q].op # "connect"]

\* The row goes in unless a unique index refuses it.  A subscription's answer
\* carries its secret.
InsertResource(q) ==
    /\ rreq[q].at = "insert"
    /\ Clash(rreq[q].kind, rreq[q].org, rreq[q].name, rreq[q].v) = {}
    /\ \E i \in ResourceId :
         /\ resource[i].state = "unborn"
         /\ resource' = [resource EXCEPT ![i] = RowOf(q)]
         /\ rreq' = [rreq EXCEPT ![q].at = "done", ![q].id = i,
                                 ![q].shown = (rreq[q].kind = "subscription"),
                                 ![q].reply = 200]
    /\ existed' = IF rreq[q].kind = "schema"
                    THEN existed \cup {SchemaOf(rreq[q])} ELSE existed
    /\ linked' = IF rreq[q].op = "register" /\ rreq[q].v > 1
                   THEN linked \cup {SchemaOf(rreq[q])} ELSE linked
    /\ UNCHANGED rpeak

InsertRefused(q) ==
    /\ rreq[q].at = "insert"
    /\ Clash(rreq[q].kind, rreq[q].org, rreq[q].name, rreq[q].v) # {}
    /\ Answer(q, IF rreq[q].kind = "function" THEN 409 ELSE 500)
    /\ Untouched

-----------------------------------------------------------------------------
(* Changes and deletion. *)

\* A row is looked up in the table and the organization of the request.
Found(q) == rreq[q].id \in Owned(rreq[q].kind, rreq[q].org)

\* It is in its table, though it may be another organization's: the GraphQL
\* mutations ask Warden about the organization they find it in.
Stored(q) == /\ resource[rreq[q].id].state = "live"
             /\ resource[rreq[q].id].kind = rreq[q].kind

\* PATCH of a subscription, the GraphQL update and delete mutations, DELETE of
\* a function: the row is looked up, then addressed by id.
FindResource(q) ==
    /\ rreq[q].at = "start" /\ rreq[q].op \in {"update", "delete"}
    /\ \/ /\ Stored(q)
          /\ Continue(q, IF rreq[q].op = "update" THEN "change" ELSE "remove")
       \/ ~Found(q) /\ Answer(q, 404)
    /\ Untouched

\* Mutant: the upsert always generates a secret.
NewSecret(q, old) == IF rreq[q].op = "upsert" \/ rreq[q].supply THEN q ELSE old

\* An upsert and a patch keep the secret unless they carry one.
SecretAfter(q, old) == IF rreq[q].supply THEN q ELSE old

\* What a change makes of a row.  A GraphQL patch may rename it, change a
\* schema's version, replace a subscription's secret and name another
\* organization, which then has it without a look at its plan.
Amended(q, row) ==
    IF rreq[q].op = "update"
      THEN [row EXCEPT !.name = rreq[q].name, !.v = rreq[q].v, !.org = rreq[q].to,
                       !.secret = SecretAfter(q, @),
                       !.metered = @ /\ rreq[q].to = row.org]
      ELSE [row EXCEPT !.secret = SecretAfter(q, @)]

\* A unique index may refuse an update; an upsert fails if the row it found is
\* gone.
ChangeResource(q) ==
    /\ rreq[q].at = "change"
    /\ LET i == rreq[q].id
           row == Amended(q, resource[i])
           others == Clash(row.kind, row.org, row.name, row.v) \ {i}
       IN  \/ /\ resource[i].state = "live" /\ others = {}
              /\ resource' = [resource EXCEPT ![i] = row]
              /\ existed' = IF row.kind = "schema"
                              THEN existed \cup {SchemaOf(row)} ELSE existed
              /\ Answer(q, 200)
           \/ /\ resource[i].state = "live" => others # {}
              /\ Answer(q, 500)
              /\ UNCHANGED <<resource, existed>>
    /\ UNCHANGED <<rpeak, linked>>

RemoveResource(q) ==
    /\ rreq[q].at = "remove"
    /\ resource' = [resource EXCEPT ![rreq[q].id].state = "deleted"]
    /\ Answer(q, 200)
    /\ UNCHANGED <<rpeak, existed, linked>>

\* DELETE of a subscription is one statement.
Unsubscribe(q) ==
    /\ Starts(q, "unsubscribe")
    /\ \/ /\ Found(q)
          /\ resource' = [resource EXCEPT ![rreq[q].id].state = "deleted"]
          /\ Answer(q, 200)
       \/ /\ ~Found(q)
          /\ Answer(q, 404)
          /\ UNCHANGED resource
    /\ UNCHANGED <<rpeak, existed, linked>>

\* POST of a test delivery looks the subscription up for its organization, and
TestSubscription(q) ==
    /\ Starts(q, "test")
    /\ LET row == resource[rreq[q].id]
       IN  IF Found(q)
             THEN rreq' = [rreq EXCEPT ![q].at = "deliver", ![q].key = row.secret]
             ELSE Answer(q, 404)
    /\ Untouched

\* posts to its target, signed with the secret it read, whatever became of the
\* row since.  502: the target did not answer in ten seconds.
DeliverTest(q) ==
    /\ rreq[q].at = "deliver"
    /\ Answer(q, 200) \/ Answer(q, 502)
    /\ Untouched

-----------------------------------------------------------------------------
ServeResource(q) ==
    \/ RefuseResource(q)
    \/ PostFunction(q) \/ PostSubscription(q)
    \/ CreateEventSchema(q) \/ CreateMcpServer(q)
    \/ CreateIntegration(q) \/ CreateEventRoutingRule(q)
    \/ OauthInserts(q)
    \/ RegisterSchema(q) \/ UpsertFinds(q)
    \/ CheckResourceLimit(q) \/ FindPrevious(q)
    \/ InsertResource(q) \/ InsertRefused(q)
    \/ FindResource(q) \/ ChangeResource(q) \/ RemoveResource(q) \/ Unsubscribe(q)
    \/ TestSubscription(q) \/ DeliverTest(q)

ResourceNext == \E q \in Request : ServeResource(q)

ResourceSpec == ResourceInit /\ [][ResourceNext]_resourceVars

-----------------------------------------------------------------------------
(* Counting and inserting are two steps, so the rows of a kind may exceed the
   plan, but by no more than the inserts that were in flight at once less one:
   creations that do not overlap keep to the limit exactly, whatever is renamed,
   moved or deleted beside them.  Rows that came past the limit (moved in from
   another organization by an update, or inserted by an OAuth callback) are not
   in that count, though every later check counts them.                     *)
ResourceLimitHeld ==
    \A m \in LimitRead : \A k \in Kind : \A o \in Org :
        Bounding(m) =>
            \/ Cardinality(CountedOf(k, o)) + 1 <= m + rpeak[k][o]
            \/ Cardinality(CountedOf(k, o))
                 <= Cardinality({i \in ResourceId :
                        /\ InitialResource[i].state = "live"
                        /\ InitialResource[i].kind = k
                        /\ InitialResource[i].org = o
                        /\ InitialResource[i].metered})

\* The subscriber was sent the secret s, or sent it.
Disclosed(s) == s = Earlier \/ rreq[s].shown \/ rreq[s].supply

(* A subscriber can always check the signature: the secret of a subscription,
   and the one a test delivery is signed with while others change or delete the
   row, was returned by the request that generated it or came in that request. *)
SecretKnown ==
    /\ \A i \in ResourceId :
         /\ resource[i].state = "live"
         /\ resource[i].kind = "subscription"
         => Disclosed(resource[i].secret)
    /\ \A q \in Request : rreq[q].op = "test" => Disclosed(rreq[q].key)

(* Whatever was deleted, renamed or registered in between, a version n > 1 of a
   schema is registered only after some organization had version n - 1.      *)
SchemaPreceded ==
    \A s \in linked : \E p \in existed : p.name = s.name /\ p.v = s.v - 1
=============================================================================
