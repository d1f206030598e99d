-------------------------- MODULE OAuthConnection --------------------------
(***************************************************************************)
(* The OAuth connections of one organization.  A callback consumes a state *)
(* and, write by write, makes an MCP server, an integration and a token; a *)
(* disconnect drops the token and then the integration's status; a refresh *)
(* trades the refresh token in at the provider.  None of them is a         *)
(* transaction, and each may fail between two writes; a client may create, *)
(* patch and delete an integration beside them.                            *)
(***************************************************************************)
EXTENDS PlanLimits

CONSTANTS
    Service,     \* integration definitions; one integration of each at most
    Flow,        \* bound: the states that authorizations create
    Nobody,      \* no row
    OauthMix     \* the requests that are made

VARIABLES
    flow,        \* flow[s]: the row of oauth_state, and whether it expired
    server,      \* the services with an MCP server
    conn,        \* conn[v]: the integration row of v
    token,       \* token[v]: its token row
    provider,    \* provider[c]: the refresh token in force, of those c's code gave
    spent,       \* the flows whose authorization code was traded in
    oreq,        \* oreq[r]: request r
    botched,     \* history: services left between two writes that belong together
    crossed,     \* history: services a disconnect met a callback of
    strained     \* history: callbacks whose refreshes overlapped or were lost

oauthVars == <<flow, server, conn, token, provider, spent, oreq, botched,
               crossed, strained>>

OauthOp == {"none", "authorize", "callback", "disconnect", "refresh", "create",
            "update", "remove", "removeServer"}
OauthAt == {"start", "consume", "exchange", "server", "integration", "token",
            "status", "find", "revoke", "drop", "manual", "post", "update",
            "expire", "done"}

\* An integration and its token are known by the request that made them.
\* History: a status is declared if a client gave it.
Maker == Request \cup {Nobody}
Method == {"oauth", "manual"}
Status == {"none", "connected", "expired"}
Integration == [by : Maker, method : Method, status : Status, declared : BOOLEAN]
NoIntegration ==
    [by |-> Nobody, method |-> "manual", status |-> "none", declared |-> FALSE]
Token == [by : Maker, generation : Nat]
NoToken == [by |-> Nobody, generation |-> 0]

\* A request about a service; a callback remembers the token it was given (its
\* own), a refresh or disconnect the one it read, a refresh also the generation
\* it got.
OauthRequest ==
    [op : OauthOp, service : Service, flow : Flow, at : OauthAt, tok : Maker,
     generation : Nat, reply : Nat]

ASSUME OauthAssumption ==
    /\ Nobody \notin Request
    /\ OauthMix \subseteq [Request -> OauthRequest]
    /\ \A mix \in OauthMix : \A r \in Request :
         mix[r].at \in {"start", "done"} /\ mix[r].tok = Nobody

OauthTypeOK ==
    /\ flow \in [Flow -> {"none", "open", "expired"}]
    /\ server \subseteq Service
    /\ conn \in [Service -> Integration]
    /\ token \in [Service -> Token]
    /\ provider \in [Request -> Nat]
    /\ spent \subseteq Flow
    /\ oreq \in [Request -> OauthRequest]
    /\ botched \cup crossed \subseteq Service
    /\ strained \subseteq Request

OauthStart ==
    /\ flow = [s \in Flow |-> "none"]
    /\ server = {}
    /\ conn = [v \in Service |-> NoIntegration]
    /\ token = [v \in Service |-> NoToken]
    /\ provider = [c \in Request |-> 0]
    /\ spent = {}
    /\ botched = {} /\ crossed = {} /\ strained = {}

OauthInit == OauthStart /\ oreq \in OauthMix

Of(r) == oreq[r].service
Ready(r, step) == oreq[r].at = step
Advance(r, step) == oreq' = [oreq EXCEPT ![r].at = step]
End(r, status) == oreq' = [oreq EXCEPT ![r].at = "done", ![r].reply = status]
Tables == <<flow, server, conn, token>>
Outside == <<provider, spent>>
Marks == <<botched, crossed, strained>>

-----------------------------------------------------------------------------
(* Authorization: the plan has SSO, the definition supports OAuth, and a    *)
(* state is stored.                                                         *)

\* A random state, with its verifier and an expiry ten minutes off.
CreateState(s) == flow[s] = "none" /\ flow' = [flow EXCEPT ![s] = "open"]

Authorize(r) ==
    /\ Ready(r, "start") /\ oreq[r].op = "authorize"
    /\ \/ CreateState(oreq[r].flow) /\ End(r, 302)
       \/ UNCHANGED flow /\ End(r, 403)
    /\ UNCHANGED <<server, conn, token, Outside, Marks>>

ExpireState(s) ==
    /\ flow[s] = "open"
    /\ flow' = [flow EXCEPT ![s] = "expired"]
    /\ UNCHANGED <<server, conn, token, Outside, oreq, Marks>>

CleanupExpiredStates ==
    /\ \E s \in Flow : flow[s] = "expired"
    /\ flow' = [s \in Flow |-> IF flow[s] = "expired" THEN "none" ELSE flow[s]]
    /\ UNCHANGED <<server, conn, token, Outside, oreq, Marks>>

-----------------------------------------------------------------------------
(* The callback.  A step that fails ends it with the error page; what was   *)
(* written stays.                                                           *)

\* validateOAuthState finds the state,
FindState(r) ==
    /\ Ready(r, "start") /\ oreq[r].op = "callback"
    /\ IF flow[oreq[r].flow] = "open" THEN Advance(r, "consume") ELSE End(r, 400)
    /\ UNCHANGED <<Tables, Outside, Marks>>

\* and deletes it, whether or not another callback did.
ConsumeState(r) ==
    /\ Ready(r, "consume")
    /\ flow' = [flow EXCEPT ![oreq[r].flow] = "none"]
    /\ Advance(r, "exchange")
    /\ UNCHANGED <<server, conn, token, Outside, Marks>>

\* The provider takes a code once; its answer may be lost.  One that refuses
\* with a 200, as GitHub does, is taken to have given a token.
ExchangeCode(r) ==
    /\ Ready(r, "exchange")
    /\ \/ /\ oreq[r].flow \notin spent
          /\ spent' = spent \cup {oreq[r].flow}
          /\ \/ oreq' = [oreq EXCEPT ![r].at = "server", ![r].tok = r]
             \/ End(r, 400)
       \/ /\ UNCHANGED spent
          /\ Advance(r, "server") \/ End(r, 400)
    /\ UNCHANGED <<Tables, provider, Marks>>

\* The name is unique in the organization: a server that an earlier connection
\* or a failed callback left behind stops this one.
InsertServer(r) ==
    /\ Ready(r, "server")
    /\ \/ /\ Of(r) \notin server
          /\ server' = server \cup {Of(r)}
          /\ Advance(r, "integration")
       \/ UNCHANGED server /\ End(r, 400)
    /\ UNCHANGED <<flow, conn, token, Outside, Marks>>

\* The integration is connected before it has a token.
InsertIntegration(r) ==
    /\ Ready(r, "integration")
    /\ \/ /\ conn[Of(r)] = NoIntegration
          /\ conn' = [conn EXCEPT ![Of(r)] = [by |-> r, method |-> "oauth",
                                              status |-> "connected",
                                              declared |-> FALSE]]
          /\ Advance(r, "token")
       \/ UNCHANGED conn /\ End(r, 400)
    /\ UNCHANGED <<flow, server, token, Outside, Marks>>

\* storeTokens encrypts the token, which takes one, and inserts it, for which the
\* integration must still exist,
InsertToken(r) ==
    /\ Ready(r, "token")
    /\ \/ /\ conn[Of(r)].by = r /\ oreq[r].tok = r
          /\ token' = [token EXCEPT ![Of(r)] = [by |-> r,
                                                generation |-> provider[r]]]
          /\ Advance(r, "status")
          /\ UNCHANGED botched
       \/ /\ UNCHANGED token
          /\ End(r, 400)
          /\ botched' = botched \cup {Of(r)}
    /\ UNCHANGED <<flow, server, conn, Outside, crossed, strained>>

\* and sets the integration's status once more.
WithStatus(i, method, status) ==
    [i EXCEPT !.method = method, !.status = status, !.declared = FALSE]

MarkConnected(r) ==
    /\ Ready(r, "status")
    /\ \/ /\ conn' = IF conn[Of(r)].by # r THEN conn
                     ELSE [conn EXCEPT ![Of(r)] = WithStatus(@, "oauth", "connected")]
          /\ End(r, 302)
       \/ UNCHANGED conn /\ End(r, 400)
    /\ UNCHANGED <<flow, server, token, Outside, Marks>>

-----------------------------------------------------------------------------
(* Disconnecting. *)

FindConnection(r) ==
    /\ Ready(r, "start") /\ oreq[r].op = "disconnect"
    /\ IF conn[Of(r)].by # Nobody /\ conn[Of(r)].method = "oauth"
         THEN Advance(r, "find") ELSE End(r, 400)
    /\ UNCHANGED <<Tables, Outside, Marks>>

FindToken(r) ==
    /\ Ready(r, "find")
    /\ IF token[Of(r)] = NoToken THEN End(r, 200)
       ELSE oreq' = [oreq EXCEPT ![r].at = "revoke", ![r].tok = token[Of(r)].by]
    /\ UNCHANGED <<Tables, Outside, Marks>>

\* revokeToken reads the token again and tells the provider, whose failure it
\* ignores.
RevokeToken(r) ==
    /\ Ready(r, "revoke")
    /\ IF token[Of(r)].by = oreq[r].tok THEN Advance(r, "drop") ELSE End(r, 200)
    /\ UNCHANGED <<Tables, Outside, Marks>>

DropToken(r) ==
    /\ Ready(r, "drop")
    /\ token' = IF token[Of(r)].by = oreq[r].tok
                  THEN [token EXCEPT ![Of(r)] = NoToken] ELSE token
    /\ Advance(r, "manual")
    /\ crossed' = IF \E c \in Request : Of(c) = Of(r) /\ Ready(c, "status")
                    THEN crossed \cup {Of(r)} ELSE crossed
    /\ UNCHANGED <<flow, server, conn, Outside, botched, strained>>

\* Mutant: the integration keeps its status.
MarkManualForgotten(r) ==
    /\ Ready(r, "manual")
    /\ End(r, 200)
    /\ UNCHANGED <<Tables, Outside, Marks>>

\* If this fails the integration looks connected.
MarkManual(r) ==
    /\ Ready(r, "manual")
    /\ \/ /\ conn' = IF conn[Of(r)].by # oreq[r].tok THEN conn
                     ELSE [conn EXCEPT ![Of(r)] = WithStatus(@, "manual", "none")]
          /\ End(r, 200)
          /\ UNCHANGED botched
       \/ UNCHANGED conn /\ End(r, 500) /\ botched' = botched \cup {Of(r)}
    /\ UNCHANGED <<flow, server, token, Outside, crossed, strained>>

-----------------------------------------------------------------------------
(* refreshAccessToken. *)

ReadToken(r) ==
    /\ Ready(r, "start") /\ oreq[r].op = "refresh"
    /\ IF token[Of(r)] = NoToken THEN End(r, 0)
       ELSE oreq' = [oreq EXCEPT ![r].at = "post", ![r].tok = token[Of(r)].by,
                                 ![r].generation = token[Of(r)].generation]
    /\ UNCHANGED <<Tables, Outside, Marks>>

\* Two refreshes of a token at once.
Overlap(r) ==
    \E q \in Request \ {r} :
        oreq[q].at \in {"post", "update"} /\ oreq[q].tok = oreq[r].tok

\* The provider accepts the refresh token in force, and may accept an older one
\* for a while; it may hand out a new one.  It refuses others.
PostRefresh(r) ==
    /\ Ready(r, "post")
    /\ LET c == oreq[r].tok
           Strain(if) == strained' = IF if THEN strained \cup {c} ELSE strained
       IN  \/ /\ provider' = [provider EXCEPT ![c] = @ + 1]
              /\ \/ /\ oreq' = [oreq EXCEPT ![r].at = "update",
                                            ![r].generation = provider[c] + 1]
                    /\ Strain(Overlap(r))
                 \/ End(r, 0) /\ Strain(TRUE)
           \/ /\ oreq[r].generation = provider[c]
              /\ Advance(r, "update")
              /\ Strain(Overlap(r))
              /\ UNCHANGED provider
           \/ Advance(r, "expire") /\ UNCHANGED <<provider, strained>>
    /\ UNCHANGED <<Tables, spent, botched, crossed>>

\* Mutant: the refresh token that was read is stored again.
UpdateTokenKeeping(r) ==
    /\ Ready(r, "update")
    /\ End(r, 200)
    /\ UNCHANGED <<Tables, Outside, Marks>>

\* The row of the token that was read is updated, if it is still there; if that
\* fails the new refresh token is lost.
UpdateToken(r) ==
    /\ Ready(r, "update")
    /\ \/ /\ token' = IF token[Of(r)].by # oreq[r].tok THEN token
                      ELSE [token EXCEPT ![Of(r)].generation = oreq[r].generation]
          /\ End(r, 200)
          /\ UNCHANGED strained
       \/ /\ UNCHANGED token
          /\ End(r, 0)
          /\ strained' = strained \cup {oreq[r].tok}
    /\ UNCHANGED <<flow, server, conn, Outside, botched, crossed>>

\* Only a new connection takes the integration out of "expired" again.
MarkExpired(r) ==
    /\ Ready(r, "expire")
    /\ conn' = IF conn[Of(r)].by # oreq[r].tok THEN conn
               ELSE [conn EXCEPT ![Of(r)] = WithStatus(@, @.method, "expired")]
    /\ End(r, 0)
    /\ UNCHANGED <<flow, server, token, Outside, Marks>>

-----------------------------------------------------------------------------
(* The GraphQL mutations.  An admin may give an integration any method and  *)
(* status, whatever tokens there are.                                       *)

DeclareIntegration(r) ==
    /\ Ready(r, "start") /\ oreq[r].op = "create"
    /\ \/ /\ conn[Of(r)] = NoIntegration
          /\ \E m \in Method, s \in Status :
               conn' = [conn EXCEPT ![Of(r)] = [by |-> r, method |-> m, status |-> s,
                                                declared |-> TRUE]]
          /\ End(r, 200)
       \/ UNCHANGED conn /\ End(r, 400)
    /\ UNCHANGED <<flow, server, token, Outside, Marks>>

\* Integration i with the method and status of a patch.
PatchedWith(i, m, s) ==
    [i EXCEPT !.method = m, !.status = s, !.declared = @ \/ s # i.status]

PatchIntegration(r) ==
    /\ Ready(r, "start") /\ oreq[r].op = "update"
    /\ \/ /\ conn[Of(r)].by # Nobody
          /\ \E m \in Method, s \in Status :
               conn' = [conn EXCEPT ![Of(r)] = PatchedWith(@, m, s)]
          /\ End(r, 200)
       \/ UNCHANGED conn /\ End(r, 400)
    /\ UNCHANGED <<flow, server, token, Outside, Marks>>

\* An integration takes its token along, and so does one that a patch moves to
\* another organization.
DeleteIntegration(r) ==
    /\ Ready(r, "start") /\ oreq[r].op = "remove"
    /\ conn' = [conn EXCEPT ![Of(r)] = NoIntegration]
    /\ token' = [token EXCEPT ![Of(r)] = NoToken]
    /\ End(r, 200)
    /\ UNCHANGED <<flow, server, Outside, Marks>>

DeleteServer(r) ==
    /\ Ready(r, "start") /\ oreq[r].op = "removeServer"
    /\ server' = server \ {Of(r)}
    /\ End(r, 200)
    /\ UNCHANGED <<flow, conn, token, Outside, Marks>>

-----------------------------------------------------------------------------
ServeOauth(r) ==
    \/ Authorize(r)
    \/ FindState(r) \/ ConsumeState(r) \/ ExchangeCode(r)
    \/ InsertServer(r) \/ InsertIntegration(r) \/ InsertToken(r) \/ MarkConnected(r)
    \/ FindConnection(r) \/ FindToken(r) \/ RevokeToken(r) \/ DropToken(r)
    \/ MarkManual(r)
    \/ ReadToken(r) \/ PostRefresh(r) \/ UpdateToken(r) \/ MarkExpired(r)
    \/ DeclareIntegration(r) \/ PatchIntegration(r)
    \/ DeleteIntegration(r) \/ DeleteServer(r)

OauthNext ==
    \/ \E s \in Flow : ExpireState(s)
    \/ CleanupExpiredStates
    \/ \E r \in Request : ServeOauth(r)

OauthSpec == OauthInit /\ [][OauthNext]_oauthVars

-----------------------------------------------------------------------------
\* Something that will still change v's token or status.
Underway(v) ==
    \E r \in Request : Of(r) = v /\ oreq[r].at \in {"token", "status", "manual"}

(* An integration that says it is connected has a token, once nothing is under
   way, unless a client declared it connected, a callback or a disconnect failed
   between the write of one and of the other, or a disconnect came between the
   callback's.                                                              *)
ConnectedHasToken ==
    \A v \in Service :
        /\ conn[v].status = "connected" /\ ~conn[v].declared
        /\ ~Underway(v)
        /\ v \notin botched \cup crossed
        => token[v].by = conn[v].by

(* The refresh token that is stored is the one the provider last handed out,
   unless its answer or the update was lost or two refreshes overlapped.    *)
LatestTokenKept ==
    \A v \in Service :
        /\ token[v] # NoToken
        /\ token[v].by \notin strained
        /\ \A r \in Request : Ready(r, "update") => oreq[r].tok # token[v].by
        => token[v].generation = provider[token[v].by]
=============================================================================
