--------------------------- MODULE MCControlPlane ---------------------------
EXTENDS ControlPlane, Sequences, TLC

\* The first n requests make the asks of one combination, none of them twice in
\* another order; the first of the asks is to do nothing, and the other requests'.
Combine(n, asks) ==
    {[r \in Request |-> asks[IF r <= n THEN f[r] ELSE 1]] :
        f \in {g \in [1 .. n -> 1 .. Len(asks)] :
                 \A q, r \in 1 .. n : q <= r => g[q] <= g[r]}}

At0(op) == IF op = "none" THEN "done" ELSE "start"

-----------------------------------------------------------------------------
MCCopyOf == [n \in WorkflowName |-> "copy"]

Unborn == [state |-> "unborn", name |-> "n1", def |-> "d1", version |-> 1,
           metered |-> TRUE]

\* One workflow with one version of what it held before, and one of another
\* organization.
MCInitialWorkflow ==
    [w \in WorkflowId |-> CASE w = "w1" -> [Unborn EXCEPT !.state = "live"]
                            [] w = "w2" -> [Unborn EXCEPT !.state = "away"]
                            [] OTHER -> Unborn]
MCInitialVersion ==
    [w \in WorkflowId |-> IF w = "w1" THEN {[number |-> 1, def |-> "d0"]} ELSE {}]

WorkflowAsk(op, name, def, number) ==
    [op |-> op, id |-> "w1", name |-> name, def |-> def, number |-> number,
     to |-> "stay", at |-> At0(op), top |-> 0, read |-> def, snap |-> def, kept |-> TRUE,
     reply |-> 0]

\* An update of w's definition that also changes its organization.
MoveAsk(w, def, to) ==
    [WorkflowAsk("update", "n1", def, 0) EXCEPT !.id = w, !.to = to]

MCWorkflowMix ==
    Combine(3, <<WorkflowAsk("none", "n1", "d1", 0),
                 WorkflowAsk("create", "n2", "d2", 0),
                 WorkflowAsk("put", "n1", "d2", 0),
                 WorkflowAsk("put", "n2", "d2", 0),
                 WorkflowAsk("clone", "n1", "d1", 0),
                 WorkflowAsk("update", "n1", "d2", 0),
                 MoveAsk("w1", "d3", "away"),
                 MoveAsk("w2", "d2", "live"),
                 WorkflowAsk("delete", "n1", "d1", 0),
                 WorkflowAsk("revert", "n1", "d1", 1)>>)

-----------------------------------------------------------------------------
NoResource ==
    [state |-> "unborn", kind |-> "rule", org |-> "o1", name |-> "n1", v |-> 1,
     secret |-> Earlier, metered |-> TRUE]

\* A subscription, the first version of a schema, and a subscription of the
\* other organization.
MCInitialResource ==
    [i \in ResourceId |->
       CASE i = 1 -> [NoResource EXCEPT !.state = "live", !.kind = "subscription"]
         [] i = 2 -> [NoResource EXCEPT !.state = "live", !.kind = "schema"]
         [] i = 3 -> [NoResource EXCEPT !.state = "live", !.kind = "subscription",
                                        !.org = "o2"]
         [] OTHER -> NoResource]

ResourceAsk(op, kind, org, name, v, id, supply) ==
    [op |-> op, kind |-> kind, org |-> org, to |-> org, name |-> name, v |-> v,
     id |-> id, supply |-> supply, at |-> At0(op), shown |-> FALSE,
     key |-> Earlier, reply |-> 0]

MCResourceMix ==
    Combine(3, <<ResourceAsk("none", "rule", "o1", "n1", 1, 1, FALSE),
                 ResourceAsk("create", "function", "o1", "n2", 1, 1, FALSE),
                 ResourceAsk("create", "schema", "o1", "n1", 2, 1, FALSE),
                 ResourceAsk("create", "rule", "o1", "n2", 1, 1, FALSE),
                 ResourceAsk("create", "mcp", "o1", "n2", 1, 1, FALSE),
                 ResourceAsk("create", "integration", "o1", "n2", 1, 1, FALSE),
                 ResourceAsk("create", "subscription", "o1", "n2", 1, 1, FALSE),
                 ResourceAsk("upsert", "subscription", "o1", "n1", 1, 1, FALSE),
                 ResourceAsk("upsert", "subscription", "o1", "n1", 1, 1, TRUE),
                 ResourceAsk("create", "subscription", "o2", "n2", 1, 1, FALSE),
                 [ResourceAsk("update", "subscription", "o1", "n3", 1, 1, TRUE)
                    EXCEPT !.to = "o2"],
                 ResourceAsk("connect", "mcp", "o1", "n2", 1, 1, FALSE),
                 ResourceAsk("test", "subscription", "o1", "n1", 1, 1, FALSE),
                 ResourceAsk("unsubscribe", "subscription", "o1", "n1", 1, 1, FALSE),
                 ResourceAsk("delete", "schema", "o1", "n1", 1, 2, FALSE),
                 ResourceAsk("update", "schema", "o1", "n1", 2, 2, FALSE),
                 ResourceAsk("register", "schema", "o1", "n1", 1, 2, FALSE),
                 ResourceAsk("register", "schema", "o1", "n1", 2, 2, FALSE),
                 ResourceAsk("register", "schema", "o1", "n1", 3, 2, FALSE),
                 ResourceAsk("register", "schema", "o2", "n1", 2, 2, FALSE)>>)

-----------------------------------------------------------------------------
NoPlugin ==
    [state |-> "unborn", owner |-> "o1", name |-> "n1", file |-> "f1",
     enabled |-> TRUE, verified |-> FALSE, metered |-> FALSE]

\* An uploaded plugin, its file published under another name, and an earlier
\* install of it by the other organization.
MCInitialPlugin ==
    [i \in PluginId |->
       CASE i = 1 -> [NoPlugin EXCEPT !.state = "live"]
         [] i = 2 -> [NoPlugin EXCEPT !.state = "live", !.owner = "o2", !.metered = TRUE]
         [] OTHER -> NoPlugin]
MCInitialEntry ==
    [e \in EntryId |-> [state |-> IF e = 1 THEN "live" ELSE "unborn",
                        name |-> "n2", file |-> "f1", downloads |-> 0]]

PluginAsk(op, owner, id, name, file) ==
    [op |-> op, owner |-> owner, to |-> owner, id |-> id, entry |-> 1, name |-> name,
     file |-> file, at |-> At0(op), reply |-> 0]

MCPluginMix ==
    Combine(3, <<PluginAsk("none", "o1", 1, "n1", "f1"),
                 PluginAsk("upload", "o1", 1, "n3", "f1"),
                 PluginAsk("upload", "o1", 1, "n3", "f2"),
                 PluginAsk("create", "o2", 1, "n3", Elsewhere),
                 PluginAsk("create", "o2", 1, "n3", "f2"),
                 PluginAsk("install", "o1", 1, "n1", "f1"),
                 PluginAsk("install", "o2", 1, "n1", "f1"),
                 [PluginAsk("install", "o2", 1, "n1", "f1") EXCEPT !.entry = 2],
                 PluginAsk("publish", "o1", 1, "n3", "f2"),
                 [PluginAsk("update", "o1", 1, "n3", "f2") EXCEPT !.to = "o2"],
                 PluginAsk("patch", "o1", 1, "n1", "f1"),
                 PluginAsk("verify", "o1", 1, "n1", "f1"),
                 PluginAsk("remove", "o1", 1, "n1", "f1"),
                 PluginAsk("delete", "o1", 1, "n1", "f1"),
                 PluginAsk("remove", "o2", 2, "n1", "f1")>>)

-----------------------------------------------------------------------------
MCInitialRole == [p \in Person |-> IF p = "a" THEN "admin" ELSE "none"]

AccessAsk(op, who, via, target, permission) ==
    [op |-> op, who |-> who, via |-> via, target |-> target,
     permission |-> permission, at |-> At0(op), allowed |-> FALSE,
     decided |-> FALSE, failed |-> FALSE, stale |-> 0, late |-> 0,
     steady |-> FALSE, reply |-> 0]

MCAccessMix ==
    Combine(2, <<AccessAsk("none", "a", "key", "a", "editor"),
                 AccessAsk("grant", "a", "key", "b", "editor"),
                 AccessAsk("grant", "a", "session", "b", "viewer"),
                 AccessAsk("revoke", "a", "key", "b", "editor"),
                 AccessAsk("manage", "a", "session", "b", "editor"),
                 AccessAsk("read", "b", "session", "b", "editor"),
                 AccessAsk("manage", "b", "service", "b", "editor"),
                 AccessAsk("edit", "b", "token", "b", "editor")>>)

-----------------------------------------------------------------------------
OauthAsk(op, f) ==
    [op |-> op, service |-> "github", flow |-> f, at |-> At0(op), tok |-> Nobody,
     generation |-> 0, reply |-> 0]

OauthFlows ==
    <<OauthAsk("none", 1), OauthAsk("callback", 1), OauthAsk("disconnect", 1),
      OauthAsk("refresh", 1), OauthAsk("remove", 1), OauthAsk("removeServer", 1),
      OauthAsk("authorize", 1), OauthAsk("authorize", 2), OauthAsk("callback", 2)>>

\* A client's mutations meet two requests more.
MCOauthMix ==
    Combine(4, OauthFlows)
      \cup Combine(3, OauthFlows \o <<OauthAsk("create", 1), OauthAsk("update", 1)>>)
-----------------------------------------------------------------------------
QuotaAsk(op, w, n) ==
    [op |-> op, wf |-> w, hits |-> {}, away |-> {}, records |-> n, left |-> 0, open |-> FALSE,
     at |-> At0(op)]

\* Each way to start an execution meets another API trigger, two of them each of
\* those that start several or start them unchecked, and a move one of either
\* organization.
NoStart == QuotaAsk("none", "w1", 1)
Trigger == QuotaAsk("trigger", "w1", 1)
Newcomer == QuotaAsk("trigger", "w2", 1)
Email == QuotaAsk("email", Nowhere, 1)

Starter ==
    {Trigger, Email, QuotaAsk("webhook", "w1", 1), QuotaAsk("retry", "w1", 1),
     QuotaAsk("cron", "w1", 1), QuotaAsk("poll", "w1", 1),
     QuotaAsk("invoke", Nowhere, 1), QuotaAsk("replay", Nowhere, 1),
     QuotaAsk("cdc", Nowhere, 1)}
Batcher ==
    {QuotaAsk("replayAll", Nowhere, 2), QuotaAsk("s3", Nowhere, 2),
     QuotaAsk("publish", Nowhere, 1)}

MCQuotaMix ==
    {[r \in Request |-> CASE r = 1 -> p[1] [] r = 2 -> p[2] [] OTHER -> NoStart] :
       p \in {<<NoStart, NoStart>>} \cup (Starter \X {Trigger})
               \cup ({Trigger, Email} \X Batcher)
               \cup {<<q, QuotaAsk("move", q.wf, 1)>> : q \in {Trigger, Newcomer}}
               \cup {<<Email, QuotaAsk("move", w, 1)>> : w \in {"w1", "w2"}}}
=============================================================================
