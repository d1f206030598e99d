----------------------- MODULE OAuthConnection_proofs -----------------------
(***************************************************************************)
(* Proofs about OAuthConnection, for any services, flows and requests.     *)
(***************************************************************************)
EXTENDS OAuthConnection, TLAPS

\* Steps at which a request relies on the token it read.
Relying == {"revoke", "drop", "manual", "post", "update", "expire"}

\* A token belongs to the integration of its service, which the callback of a
\* request about that service made.
Rows(v) ==
    /\ conn[v].by # Nobody => Of(conn[v].by) = v
    /\ IF token[v].by = Nobody THEN token[v] = NoToken ELSE conn[v].by = token[v].by

\* What a request knows.
Knows(r) ==
    /\ oreq[r].at \in Relying => oreq[r].tok \in Request /\ Of(oreq[r].tok) = Of(r)
    /\ oreq[r].at = "update" /\ oreq[r].tok \notin strained
         => oreq[r].generation = provider[oreq[r].tok]
    /\ oreq[r].at = "status" /\ conn[Of(r)].by = r /\ Of(r) \notin crossed
         => token[Of(r)].by = r

\* Two refreshes of one token are told apart.
Apart ==
    \A r, q \in Request :
        /\ oreq[r].at = "update" /\ oreq[q].at = "update"
        /\ oreq[r].tok = oreq[q].tok /\ oreq[r].tok \notin strained
        => r = q

\* r is about to write v's token, or to take its status back.
Completing(r, v) ==
    /\ Of(r) = v
    /\ \/ oreq[r].at = "token" /\ conn[v].by = r
       \/ oreq[r].at = "manual" /\ conn[v].by = oreq[r].tok

Backed(v) ==
    conn[v].status = "connected" /\ ~conn[v].declared /\ v \notin botched \cup crossed
        => token[v].by = conn[v].by \/ \E r \in Request : Completing(r, v)

Kept(v) ==
    token[v].by \in Request \ strained
        => \/ token[v].generation = provider[token[v].by]
           \/ \E r \in Request : oreq[r].at = "update" /\ oreq[r].tok = token[v].by

OauthInv ==
    /\ OauthTypeOK
    /\ \A v \in Service : Rows(v) /\ Backed(v) /\ Kept(v)
    /\ \A r \in Request : Knows(r)
    /\ Apart

\* Request r moves, and no other.
Turn(r, at, tok, generation) ==
    /\ oreq' \in [Request -> OauthRequest]
    /\ \A q \in Request : q # r => oreq'[q] = oreq[q]
    /\ oreq'[r].service = oreq[r].service
    /\ oreq'[r].at = at /\ oreq'[r].tok = tok /\ oreq'[r].generation = generation

-----------------------------------------------------------------------------
LEMMA Fields ==
  ASSUME NEW s \in OauthRequest
  PROVE  /\ s.at \in OauthAt /\ s.op \in OauthOp /\ s.tok \in Maker
         /\ s.service \in Service /\ s.flow \in Flow /\ s.generation \in Nat
  BY DEF OauthRequest

\* The forms that a move takes.
LEMMA Turned ==
  ASSUME NEW s \in OauthRequest, NEW at \in OauthAt
  PROVE  /\ [s EXCEPT !.at = at] \in OauthRequest
         /\ [s EXCEPT !.at = at].service = s.service
         /\ [s EXCEPT !.at = at].at = at
         /\ [s EXCEPT !.at = at].tok = s.tok
         /\ [s EXCEPT !.at = at].generation = s.generation
  BY DEF OauthRequest

\* A request replaced by another of the same service.
LEMMA Turns ==
  ASSUME OauthInv, NEW r \in Request, NEW u \in OauthRequest,
         oreq' = [oreq EXCEPT ![r] = u], u.service = oreq[r].service
  PROVE  Turn(r, u.at, u.tok, u.generation)
  BY DEF OauthInv, OauthTypeOK, Turn

LEMMA AdvanceTurn ==
  ASSUME OauthInv, NEW r \in Request, NEW step \in OauthAt, Advance(r, step)
  PROVE  Turn(r, step, oreq[r].tok, oreq[r].generation)
  <1> DEFINE s == oreq[r]
             u == [s EXCEPT !.at = step]
  <1>1. s \in OauthRequest
    BY DEF OauthInv, OauthTypeOK
  <1>2. oreq' = [oreq EXCEPT ![r] = u]
    BY DEF Advance
  <1> HIDE DEF s
  <1>3. /\ u \in OauthRequest /\ u.service = s.service /\ u.at = step
        /\ u.tok = s.tok /\ u.generation = s.generation
    BY <1>1, Turned
  <1> HIDE DEF u
  <1>4. Turn(r, u.at, u.tok, u.generation)
    BY <1>2, <1>3, Turns DEF s
  <1> QED
    BY <1>3, <1>4 DEF s

LEMMA EndTurn ==
  ASSUME OauthInv, NEW r \in Request, NEW n \in Nat, End(r, n)
  PROVE  Turn(r, "done", oreq[r].tok, oreq[r].generation)
  <1> DEFINE s == oreq[r]
             at == "done"
             u == [s EXCEPT !.at = at, !.reply = n]
  <1>1. s \in OauthRequest /\ at \in OauthAt
    BY DEF OauthInv, OauthTypeOK, OauthAt
  <1>2. oreq' = [oreq EXCEPT ![r] = u]
    BY DEF End
  <1> HIDE DEF s, at
  <1>3. /\ u \in OauthRequest /\ u.service = s.service /\ u.at = at
        /\ u.tok = s.tok /\ u.generation = s.generation
    BY <1>1 DEF OauthRequest
  <1> HIDE DEF u
  <1>4. Turn(r, u.at, u.tok, u.generation)
    BY <1>2, <1>3, Turns DEF s
  <1> QED
    BY <1>3, <1>4 DEF s, at

LEMMA Facts ==
  ASSUME OauthInv, NEW r \in Request
  PROVE  /\ Of(r) \in Service /\ oreq[r].tok \in Maker /\ oreq[r].generation \in Nat
         /\ oreq[r].flow \in Flow
         /\ conn[Of(r)] \in Integration /\ token[Of(r)] \in Token
         /\ token[Of(r)].by \in Maker /\ token[Of(r)].generation \in Nat
         /\ conn[Of(r)].by \in Maker
         /\ Rows(Of(r)) /\ Backed(Of(r)) /\ Kept(Of(r)) /\ Knows(r)
         /\ Nobody \notin Request /\ Maker = Request \cup {Nobody}
  <1>1. oreq[r] \in OauthRequest
    BY DEF OauthInv, OauthTypeOK
  <1>2. /\ Of(r) \in Service /\ oreq[r].tok \in Maker /\ oreq[r].generation \in Nat
        /\ oreq[r].flow \in Flow
    BY <1>1, Fields DEF Of
  <1>3. conn[Of(r)] \in Integration /\ token[Of(r)] \in Token
    BY <1>2 DEF OauthInv, OauthTypeOK
  <1>4. /\ token[Of(r)].by \in Maker /\ token[Of(r)].generation \in Nat
        /\ conn[Of(r)].by \in Maker
    BY <1>3 DEF Integration, Token
  <1> QED
    BY <1>2, <1>3, <1>4, OauthAssumption DEF OauthInv, Maker

-----------------------------------------------------------------------------
\* Steps that write neither integrations nor tokens, and complete nothing.
LEMMA QuietKeeps ==
  ASSUME OauthInv, NEW r \in Request, NEW at, NEW tok, NEW n, Turn(r, at, tok, n),
         flow' \in [Flow -> {"none", "open", "expired"}],
         server' \subseteq Service, spent' \subseteq Flow,
         UNCHANGED <<conn, token, provider>>, UNCHANGED Marks,
         oreq[r].at \notin {"token", "manual", "update"},
         at \notin {"status", "update"},
         at \in Relying => tok \in Request /\ Of(tok) = Of(r)
  PROVE  OauthInv'
  <1>1. /\ conn' = conn /\ token' = token /\ provider' = provider
        /\ botched' = botched /\ crossed' = crossed /\ strained' = strained
    BY DEF Marks
  <1>2. OauthTypeOK'
    BY <1>1 DEF OauthInv, OauthTypeOK, Turn
  <1>3. \A q \in Request : oreq'[q].service = oreq[q].service
    BY DEF Turn
  <1>4. ASSUME NEW v \in Service
        PROVE  Rows(v)' /\ Backed(v)' /\ Kept(v)'
    <2>1. Rows(v) /\ Backed(v) /\ Kept(v) /\ conn[v].by \in Maker
      BY DEF OauthInv, OauthTypeOK, Integration
    <2>2. Rows(v)'
      BY <1>1, <1>3, <2>1 DEF Rows, Of, Maker
    <2>3. ASSUME NEW q \in Request, Completing(q, v)
          PROVE  Completing(q, v)'
      <3>1. q # r
        BY <2>3 DEF Completing
      <3> QED
        BY <1>1, <2>3, <3>1 DEF Completing, Of, Turn
    <2>4. Backed(v)'
      BY <1>1, <2>1, <2>3 DEF Backed
    <2>5. ASSUME NEW q \in Request, oreq[q].at = "update"
          PROVE  oreq'[q] = oreq[q]
      BY <2>5 DEF Turn
    <2>6. Kept(v)'
      BY <1>1, <2>1, <2>5 DEF Kept
    <2> QED
      BY <2>2, <2>4, <2>6
  <1>5. ASSUME NEW q \in Request
        PROVE  Knows(q)'
    <2>1. Knows(q)
      BY DEF OauthInv
    <2>2. CASE q = r
      <3>1. at \in Relying => tok \in Request /\ Of(tok)' = Of(r)'
        BY <1>3 DEF Of
      <3> QED
        BY <2>2, <3>1 DEF Turn, Knows
    <2>3. CASE q # r
      <3>1. oreq'[q] = oreq[q] /\ Of(q)' = Of(q)
        BY <2>3 DEF Turn, Of
      <3>2. oreq[q].tok \in Request => Of(oreq[q].tok)' = Of(oreq[q].tok)
        BY <1>3, <3>1 DEF Of
      <3> QED
        BY <1>1, <2>1, <3>1, <3>2 DEF Knows
    <2> QED
      BY <2>2, <2>3
  <1>6. Apart'
    <2>1. SUFFICES ASSUME NEW p \in Request, NEW q \in Request,
                          oreq'[p].at = "update", oreq'[q].at = "update",
                          oreq'[p].tok = oreq'[q].tok, oreq'[p].tok \notin strained'
                   PROVE  p = q
      BY DEF Apart
    <2>2. oreq'[p] = oreq[p] /\ oreq'[q] = oreq[q]
      BY <2>1 DEF Turn
    <2> QED
      BY <1>1, <2>1, <2>2 DEF OauthInv, Apart
  <1> QED
    BY <1>2, <1>4, <1>5, <1>6 DEF OauthInv

LEMMA QuietMoves ==
  ASSUME OauthInv, NEW r \in Request,
         flow' \in [Flow -> {"none", "open", "expired"}],
         server' \subseteq Service, spent' \subseteq Flow,
         UNCHANGED <<conn, token, provider>>, UNCHANGED Marks,
         oreq[r].at \notin {"token", "manual", "update"},
         \/ \E n \in {200, 302, 400, 403, 0} : End(r, n)
         \/ \E step \in OauthAt \ {"status", "update"} :
              Advance(r, step) /\ (step \in Relying => oreq[r].at \in Relying)
  PROVE  OauthInv'
  <1>1. CASE \E n \in {200, 302, 400, 403, 0} : End(r, n)
    <2>1. \A n \in {200, 302, 400, 403, 0} : n \in Nat
      OBVIOUS
    <2>2. Turn(r, "done", oreq[r].tok, oreq[r].generation)
      BY <1>1, <2>1, EndTurn
    <2>3. "done" \notin {"status", "update"} /\ "done" \notin Relying
      BY DEF Relying
    <2> QED
      BY <2>2, <2>3, QuietKeeps
  <1>2. ASSUME NEW step \in OauthAt \ {"status", "update"}, Advance(r, step),
               step \in Relying => oreq[r].at \in Relying
        PROVE  OauthInv'
    <2>1. Turn(r, step, oreq[r].tok, oreq[r].generation)
      BY <1>2, AdvanceTurn
    <2>2. step \in Relying => oreq[r].tok \in Request /\ Of(oreq[r].tok) = Of(r)
      BY <1>2, Facts DEF Knows
    <2>3. step \notin {"status", "update"}
      OBVIOUS
    <2> QED
      BY <2>1, <2>2, <2>3, QuietKeeps
  <1> QED
    BY <1>1, <1>2

LEMMA CallbackQuiet ==
  ASSUME OauthInv, NEW r \in Request,
         \/ Authorize(r) \/ FindState(r) \/ ConsumeState(r)
         \/ InsertServer(r) \/ DeleteServer(r)
  PROVE  OauthInv'
  <1>1. UNCHANGED <<conn, token, provider>> /\ UNCHANGED Marks
    BY DEF Authorize, FindState, ConsumeState, InsertServer, DeleteServer,
       Tables, Outside
  <1>2. oreq[r].at \notin {"token", "manual", "update"}
    BY DEF Authorize, FindState, ConsumeState, InsertServer, DeleteServer,
       Ready
  <1>3. /\ flow \in [Flow -> {"none", "open", "expired"}] /\ server \subseteq Service
        /\ spent \subseteq Flow /\ oreq[r].flow \in Flow /\ Of(r) \in Service
    BY Facts DEF OauthInv, OauthTypeOK
  <1>4. flow' \in [Flow -> {"none", "open", "expired"}]
    <2>1. CASE flow' = flow
      BY <1>3, <2>1
    <2>2. CASE \E x \in {"none", "open"} : flow' = [flow EXCEPT ![oreq[r].flow] = x]
      BY <1>3, <2>2
    <2> QED
      BY <2>1, <2>2 DEF Authorize, CreateState, FindState, ConsumeState,
         InsertServer, DeleteServer, Tables
  <1>5. server' \subseteq Service
    BY <1>3 DEF Authorize, FindState, ConsumeState, InsertServer,
       DeleteServer, Tables
  <1>6. spent' \subseteq Flow
    BY <1>3 DEF Authorize, FindState, ConsumeState, InsertServer,
       DeleteServer, Outside
  <1>7. \/ \E n \in {200, 302, 400, 403, 0} : End(r, n)
        \/ \E step \in {"consume", "exchange", "server", "integration"} : Advance(r, step)
    BY DEF Authorize, FindState, ConsumeState, InsertServer, DeleteServer
  <1>8. {"consume", "exchange", "server", "integration"}
          \subseteq (OauthAt \ {"status", "update"}) \ Relying
    BY DEF OauthAt, Relying
  <1> QED
    BY <1>1, <1>2, <1>4, <1>5, <1>6, <1>7, <1>8, QuietMoves

LEMMA ExchangeQuiet ==
  ASSUME OauthInv, NEW r \in Request, ExchangeCode(r)
  PROVE  OauthInv'
  <1>1. /\ UNCHANGED <<conn, token, provider>> /\ UNCHANGED Marks
        /\ flow' = flow /\ server' = server /\ oreq[r].at = "exchange"
        /\ spent' = spent \/ spent' = spent \cup {oreq[r].flow}
    BY DEF ExchangeCode, Ready, Tables
  <1>2. /\ oreq[r].at \notin {"token", "manual", "update"}
        /\ flow' \in [Flow -> {"none", "open", "expired"}] /\ server' \subseteq Service
        /\ spent' \subseteq Flow /\ oreq[r] \in OauthRequest
    BY <1>1, Facts DEF OauthInv, OauthTypeOK
  <1>3. CASE End(r, 400)
    BY <1>1, <1>2, <1>3, QuietMoves
  <1>4. CASE Advance(r, "server")
    <2>1. "server" \in OauthAt \ {"status", "update"} /\ "server" \notin Relying
      BY DEF OauthAt, Relying
    <2> QED
      BY <1>1, <1>2, <1>4, <2>1, QuietMoves
  <1>5. CASE oreq' = [oreq EXCEPT ![r].at = "server", ![r].tok = r]
    <2> DEFINE s == oreq[r]
               at == "server"
               u == [s EXCEPT !.at = at, !.tok = r]
    <2>1. oreq' = [oreq EXCEPT ![r] = u]
      BY <1>5
    <2>2. at \in OauthAt /\ at \notin {"status", "update"} /\ at \notin Relying
      BY DEF OauthAt, Relying
    <2> HIDE DEF s, at
    <2>3. u \in OauthRequest /\ u.service = s.service /\ u.at = at /\ u.tok = r
      BY <1>2, <2>2 DEF s, OauthRequest, Maker
    <2> HIDE DEF u
    <2>4. Turn(r, at, r, u.generation)
      BY <2>1, <2>3, Turns DEF s
    <2> QED
      BY <1>1, <1>2, <2>2, <2>4, QuietKeeps
  <1> QED
    BY <1>3, <1>4, <1>5 DEF ExchangeCode

LEMMA ReaderQuiet ==
  ASSUME OauthInv, NEW r \in Request,
         \/ FindConnection(r) \/ FindToken(r) \/ RevokeToken(r) \/ ReadToken(r)
  PROVE  OauthInv'
  <1>1. /\ UNCHANGED <<flow, server, conn, token, provider, spent>> /\ UNCHANGED Marks
        /\ oreq[r].at \in {"start", "find", "revoke"}
    BY DEF FindConnection, FindToken, RevokeToken, ReadToken, Ready, Tables, Outside
  <1>2. /\ flow' \in [Flow -> {"none", "open", "expired"}] /\ server' \subseteq Service
        /\ spent' \subseteq Flow /\ oreq[r] \in OauthRequest
        /\ oreq[r].at \notin {"token", "manual", "update"}
    BY <1>1 DEF OauthInv, OauthTypeOK
  <1>3. CASE \E n \in {200, 400, 0} : End(r, n)
    BY <1>1, <1>2, <1>3, QuietMoves
  <1>4. CASE FindConnection(r) /\ Advance(r, "find")
    <2>1. "find" \in OauthAt \ {"status", "update"} /\ "find" \notin Relying
      BY DEF OauthAt, Relying
    <2> QED
      BY <1>1, <1>2, <1>4, <2>1, QuietMoves
  <1>5. CASE RevokeToken(r) /\ Advance(r, "drop")
    <2>1. /\ "drop" \in OauthAt \ {"status", "update"}
          /\ oreq[r].at \in Relying
      BY <1>5 DEF OauthAt, Relying, RevokeToken, Ready
    <2> QED
      BY <1>1, <1>2, <1>5, <2>1, QuietMoves
  <1> DEFINE s == oreq[r]
             c == token[Of(r)].by
  \* Whoever reads a token gets one that was made for its service.
  <1>6. token[Of(r)] # NoToken => c \in Request /\ Of(c) = Of(r)
    BY Facts DEF Rows
  <1>7. c \in Maker /\ token[Of(r)].generation \in Nat
    BY Facts
  <1>8. ASSUME FindToken(r), token[Of(r)] # NoToken
        PROVE  OauthInv'
    <2> DEFINE at == "revoke"
               u == [s EXCEPT !.at = at, !.tok = c]
    <2>1. oreq' = [oreq EXCEPT ![r] = u]
      BY <1>8 DEF FindToken
    <2>2. at \in OauthAt /\ at \notin {"status", "update"}
      BY DEF OauthAt
    <2> HIDE DEF s, c, at
    <2>3. u \in OauthRequest /\ u.service = s.service /\ u.at = at /\ u.tok = c
      BY <1>2, <1>7, <2>2 DEF s, OauthRequest
    <2> HIDE DEF u
    <2>4. Turn(r, at, c, u.generation)
      BY <2>1, <2>3, Turns DEF s
    <2> QED
      BY <1>1, <1>2, <1>6, <1>8, <2>2, <2>4, QuietKeeps
  <1>9. ASSUME ReadToken(r), token[Of(r)] # NoToken
        PROVE  OauthInv'
    <2> DEFINE at == "post"
               n == token[Of(r)].generation
               u == [s EXCEPT !.at = at, !.tok = c, !.generation = n]
    <2>1. oreq' = [oreq EXCEPT ![r] = u]
      BY <1>9 DEF ReadToken
    <2>2. at \in OauthAt /\ at \notin {"status", "update"} /\ n \in Nat
      BY <1>7 DEF OauthAt
    <2> HIDE DEF s, c, at, n
    <2>3. u \in OauthRequest /\ u.service = s.service /\ u.at = at /\ u.tok = c
      BY <1>2, <1>7, <2>2 DEF s, OauthRequest
    <2> HIDE DEF u
    <2>4. Turn(r, at, c, u.generation)
      BY <2>1, <2>3, Turns DEF s
    <2> QED
      BY <1>1, <1>2, <1>6, <1>9, <2>2, <2>4, QuietKeeps
  <1> QED
    BY <1>3, <1>4, <1>5, <1>8, <1>9
       DEF FindConnection, FindToken, RevokeToken, ReadToken

-----------------------------------------------------------------------------
(* The steps that write. *)

\* What request q knows survives a step of r that leaves its service's rows.
LEMMA Bystander ==
  ASSUME OauthInv, NEW r \in Request, NEW at, NEW tok, NEW n, Turn(r, at, tok, n),
         NEW q \in Request, q # r, strained \subseteq strained',
         oreq[q].at = "update" /\ oreq[q].tok \notin strained'
           => provider'[oreq[q].tok] = provider[oreq[q].tok],
         oreq[q].at = "status" /\ conn'[Of(q)].by = q /\ Of(q) \notin crossed'
           => token'[Of(q)].by = q
  PROVE  Knows(q)'
  <1>1. Knows(q) /\ oreq'[q] = oreq[q] /\ Of(q)' = Of(q)
    BY DEF OauthInv, Turn, Of
  <1>2. \A p \in Request : oreq'[p].service = oreq[p].service
    BY DEF Turn
  <1>3. oreq[q].at \in Relying
          => oreq[q].tok \in Request /\ oreq'[oreq[q].tok].service = Of(q)
    BY <1>1, <1>2 DEF Knows, Of
  <1>4. oreq[q].at = "update" /\ oreq[q].tok \notin strained'
          => oreq[q].generation = provider'[oreq[q].tok]
    BY <1>1 DEF Knows
  <1> QED
    BY <1>1, <1>3, <1>4 DEF Knows, Of

\* Requests stay apart unless r comes to update.
LEMMA ApartKeeps ==
  ASSUME OauthInv, NEW r \in Request, NEW at, NEW tok, NEW n, Turn(r, at, tok, n),
         at # "update", strained \subseteq strained'
  PROVE  Apart'
  <1>1. SUFFICES ASSUME NEW p \in Request, NEW q \in Request,
                        oreq'[p].at = "update", oreq'[q].at = "update",
                        oreq'[p].tok = oreq'[q].tok, oreq'[p].tok \notin strained'
                 PROVE  p = q
    BY DEF Apart
  <1>2. oreq'[p] = oreq[p] /\ oreq'[q] = oreq[q]
    BY <1>1 DEF Turn
  <1> QED
    BY <1>1, <1>2 DEF OauthInv, Apart

\* A row and what is said of it survive a step of r that leaves them.
LEMMA RowKeeps ==
  ASSUME OauthInv, NEW r \in Request, NEW at, NEW tok, NEW n, Turn(r, at, tok, n),
         NEW v \in Service, conn'[v] = conn[v], token'[v] = token[v],
         botched \subseteq botched', crossed \subseteq crossed',
         strained \subseteq strained'
  PROVE  /\ Rows(v)'
         /\ ~Completing(r, v) \/ v \in botched' => Backed(v)'
         /\ /\ token[v].by \in Request \ strained' =>
                 provider'[token[v].by] = provider[token[v].by]
            /\ token[v].by \in strained' \/ oreq[r].at # "update"
               \/ oreq[r].tok # token[v].by
            => Kept(v)'
  <1>1. Rows(v) /\ Backed(v) /\ Kept(v) /\ conn[v].by \in Maker
    BY DEF OauthInv, OauthTypeOK, Integration
  <1>2. \A q \in Request : oreq'[q].service = oreq[q].service
    BY DEF Turn
  <1>3. Rows(v)'
    BY <1>1, <1>2 DEF Rows, Of, Maker
  <1>4. ASSUME NEW q \in Request, q # r, Completing(q, v)
        PROVE  Completing(q, v)'
    BY <1>4 DEF Completing, Of, Turn
  <1>5. ~Completing(r, v) \/ v \in botched' => Backed(v)'
    BY <1>1, <1>4 DEF Backed
  <1>6. ASSUME NEW q \in Request, oreq[q].at = "update", q # r
        PROVE  oreq'[q] = oreq[q]
    BY <1>6 DEF Turn
  <1>7. ASSUME token[v].by \in Request \ strained' =>
                 provider'[token[v].by] = provider[token[v].by],
               token[v].by \in strained' \/ oreq[r].at # "update"
               \/ oreq[r].tok # token[v].by
        PROVE  Kept(v)'
    BY <1>1, <1>6, <1>7 DEF Kept
  <1> QED
    BY <1>3, <1>5, <1>7

\* An integration is inserted, by a callback or by a client.
LEMMA RowStep ==
  ASSUME OauthInv, NEW r \in Request, NEW at, NEW row \in Integration,
         Turn(r, at, oreq[r].tok, oreq[r].generation),
         conn[Of(r)] = NoIntegration, row.by = r, conn' = [conn EXCEPT ![Of(r)] = row],
         UNCHANGED <<flow, server, token, provider, spent>>, UNCHANGED Marks,
         at \in {"token", "done"}, at = "token" \/ row.declared,
         oreq[r].at \in {"integration", "start"}
  PROVE  OauthInv'
  <1>1. PICK v0 : v0 = Of(r)
    OBVIOUS
  <1>2. /\ flow' = flow /\ server' = server /\ token' = token /\ provider' = provider
        /\ spent' = spent /\ botched' = botched /\ crossed' = crossed
        /\ strained' = strained
    BY DEF Marks
  <1>3. v0 \in Service /\ conn \in [Service -> Integration] /\ Rows(v0)
        /\ Nobody \notin Request /\ conn[v0].by = Nobody
    BY <1>1, Facts DEF OauthInv, OauthTypeOK, NoIntegration
  <1>4. /\ conn' \in [Service -> Integration] /\ conn'[v0] = row
        /\ \A v \in Service : v # v0 => conn'[v] = conn[v]
    BY <1>1, <1>3
  <1>5. OauthTypeOK'
    BY <1>2, <1>4 DEF OauthInv, OauthTypeOK, Turn
  <1>6. Of(r)' = v0 /\ oreq'[r].at = at
    BY <1>1 DEF Turn, Of
  <1>7. token[v0] = NoToken /\ token[v0].by = Nobody
    BY <1>3 DEF Rows, NoToken
  <1>8. ASSUME NEW v \in Service
        PROVE  Rows(v)' /\ Backed(v)' /\ Kept(v)'
    <2>1. CASE v # v0
      <3>1. ~Completing(r, v)
        BY <1>1, <2>1 DEF Completing
      <3> QED
        BY <1>2, <1>4, <2>1, <3>1, RowKeeps
    <2>2. CASE v = v0
      <3>1. Rows(v)'
        BY <1>2, <1>4, <1>6, <1>7, <2>2 DEF Rows, Of
      <3>2. Completing(r, v)' \/ conn'[v].declared
        BY <1>4, <1>6, <2>2 DEF Completing, Of
      <3>3. Backed(v)'
        BY <3>2 DEF Backed
      <3>4. Kept(v)'
        BY <1>2, <1>3, <1>7, <2>2 DEF Kept
      <3> QED
        BY <3>1, <3>3, <3>4
    <2> QED
      BY <2>1, <2>2
  <1>9. ASSUME NEW q \in Request
        PROVE  Knows(q)'
    <2>1. CASE q = r
      BY <1>6, <2>1 DEF Knows, Relying
    <2>2. CASE q # r
      <3>1. Knows(q) /\ Of(q) \in Service
        BY Facts
      <3> QED
        BY <1>2, <1>4, <2>2, <3>1, Bystander DEF Knows
    <2> QED
      BY <2>1, <2>2
  <1>10. Apart'
    BY <1>2, ApartKeeps
  <1> QED
    BY <1>5, <1>8, <1>9, <1>10 DEF OauthInv

LEMMA IntegrationStep ==
  ASSUME OauthInv, NEW r \in Request, InsertIntegration(r)
  PROVE  OauthInv'
  <1>1. /\ UNCHANGED <<flow, server, token, provider, spent>> /\ UNCHANGED Marks
        /\ oreq[r].at = "integration"
    BY DEF InsertIntegration, Ready, Outside
  <1>2. CASE conn' = conn /\ End(r, 400)
    BY <1>1, <1>2, QuietMoves DEF OauthInv, OauthTypeOK
  <1> DEFINE row == [by |-> r, method |-> "oauth", status |-> "connected",
                     declared |-> FALSE]
  <1>3. CASE /\ conn[Of(r)] = NoIntegration /\ conn' = [conn EXCEPT ![Of(r)] = row]
             /\ Advance(r, "token")
    <2>1. Turn(r, "token", oreq[r].tok, oreq[r].generation)
      BY <1>3, AdvanceTurn DEF OauthAt
    <2>2. row \in Integration /\ row.by = r
      BY DEF Integration, Maker, Method, Status
    <2> HIDE DEF row
    <2> QED
      BY <1>1, <1>3, <2>1, <2>2, RowStep
  <1> QED
    BY <1>2, <1>3 DEF InsertIntegration

LEMMA DeclareStep ==
  ASSUME OauthInv, NEW r \in Request, DeclareIntegration(r)
  PROVE  OauthInv'
  <1>1. /\ UNCHANGED <<flow, server, token, provider, spent>> /\ UNCHANGED Marks
        /\ oreq[r].at = "start"
    BY DEF DeclareIntegration, Ready, Outside
  <1>2. CASE conn' = conn /\ End(r, 400)
    BY <1>1, <1>2, QuietMoves DEF OauthInv, OauthTypeOK
  <1>3. ASSUME NEW m \in Method, NEW s \in Status, conn[Of(r)] = NoIntegration,
               conn' = [conn EXCEPT ![Of(r)] = [by |-> r, method |-> m, status |-> s,
                                                declared |-> TRUE]],
               End(r, 200)
        PROVE  OauthInv'
    <2> DEFINE row == [by |-> r, method |-> m, status |-> s, declared |-> TRUE]
    <2>1. Turn(r, "done", oreq[r].tok, oreq[r].generation)
      BY <1>3, EndTurn
    <2>2. row \in Integration /\ row.by = r /\ row.declared
      BY DEF Integration, Maker
    <2>3. conn' = [conn EXCEPT ![Of(r)] = row]
      BY <1>3
    <2> HIDE DEF row
    <2> QED
      BY <1>1, <1>3, <2>1, <2>2, <2>3, RowStep
  <1> QED
    BY <1>2, <1>3 DEF DeclareIntegration

LEMMA TokenStep ==
  ASSUME OauthInv, NEW r \in Request, InsertToken(r)
  PROVE  OauthInv'
  <1>1. PICK v0 : v0 = Of(r)
    OBVIOUS
  <1>2. /\ flow' = flow /\ server' = server /\ conn' = conn /\ provider' = provider
        /\ spent' = spent /\ crossed' = crossed /\ strained' = strained
        /\ oreq[r].at = "token"
    BY DEF InsertToken, Ready, Outside
  <1>3. /\ v0 \in Service /\ token \in [Service -> Token] /\ Rows(v0)
        /\ Nobody \notin Request /\ provider[r] \in Nat /\ botched \subseteq Service
    BY <1>1, Facts DEF OauthInv, OauthTypeOK
  <1>4. CASE token' = token /\ End(r, 400) /\ botched' = botched \cup {v0}
    <2>1. Turn(r, "done", oreq[r].tok, oreq[r].generation)
      BY <1>4, EndTurn
    <2>2. OauthTypeOK'
      BY <1>2, <1>3, <1>4, <2>1 DEF OauthInv, OauthTypeOK, Turn
    <2>3. ASSUME NEW v \in Service
          PROVE  Rows(v)' /\ Backed(v)' /\ Kept(v)'
      <3>1. ~Completing(r, v) \/ v \in botched'
        BY <1>1, <1>4 DEF Completing
      <3> QED
        BY <1>2, <1>4, <2>1, <3>1, RowKeeps
    <2>4. ASSUME NEW q \in Request
          PROVE  Knows(q)'
      <3>1. CASE q = r
        BY <2>1, <3>1 DEF Knows, Relying, Turn
      <3>2. CASE q # r
        BY <1>2, <1>4, <2>1, <3>2, Bystander, Facts DEF Knows
      <3> QED
        BY <3>1, <3>2
    <2>5. Apart'
      BY <1>2, <2>1, ApartKeeps
    <2> QED
      BY <2>2, <2>3, <2>4, <2>5 DEF OauthInv
  <1>5. CASE /\ conn[v0].by = r /\ botched' = botched /\ Advance(r, "status")
             /\ token' = [token EXCEPT ![v0] = [by |-> r, generation |-> provider[r]]]
    <2>1. Turn(r, "status", oreq[r].tok, oreq[r].generation)
      BY <1>5, AdvanceTurn DEF OauthAt
    <2> DEFINE row == [by |-> r, generation |-> provider[r]]
    <2>2. row \in Token /\ row.by = r /\ row.generation = provider[r]
      BY <1>3 DEF Token, Maker
    <2>3. token' = [token EXCEPT ![v0] = row]
      BY <1>5
    <2> HIDE DEF row
    <2>4. /\ token' \in [Service -> Token] /\ token'[v0] = row
          /\ \A v \in Service : v # v0 => token'[v] = token[v]
      BY <1>3, <2>2, <2>3
    <2>5. OauthTypeOK'
      BY <1>2, <1>5, <2>1, <2>4 DEF OauthInv, OauthTypeOK, Turn
    <2>6. Of(r)' = v0
      BY <1>1, <2>1 DEF Turn, Of
    <2>7. ASSUME NEW v \in Service
          PROVE  Rows(v)' /\ Backed(v)' /\ Kept(v)'
      <3>1. CASE v # v0
        <4>1. ~Completing(r, v)
          BY <1>1, <3>1 DEF Completing
        <4> QED
          BY <1>2, <1>5, <2>1, <2>4, <3>1, <4>1, RowKeeps
      <3>2. CASE v = v0
        <4>1. Rows(v)'
          BY <1>2, <1>3, <1>5, <2>2, <2>4, <2>6, <3>2 DEF Rows, Of
        <4>2. Backed(v)' /\ Kept(v)'
          BY <1>2, <1>5, <2>2, <2>4, <3>2 DEF Backed, Kept
        <4> QED
          BY <4>1, <4>2
      <3> QED
        BY <3>1, <3>2
    <2>8. ASSUME NEW q \in Request
          PROVE  Knows(q)'
      <3>1. CASE q = r
        BY <2>1, <2>2, <2>4, <2>6, <3>1 DEF Knows, Relying, Turn, Of
      <3>2. CASE q # r
        <4>1. Knows(q) /\ Of(q) \in Service
          BY Facts
        <4> QED
          BY <1>2, <1>5, <2>1, <2>4, <3>2, <4>1, Bystander DEF Knows
      <3> QED
        BY <3>1, <3>2
    <2>9. Apart'
      BY <1>2, <2>1, ApartKeeps
    <2> QED
      BY <2>5, <2>7, <2>8, <2>9 DEF OauthInv
  <1> QED
    BY <1>1, <1>4, <1>5 DEF InsertToken

\* Rows with another status.
LEMMA Statuses ==
  ASSUME NEW i \in Integration, NEW m \in Method, NEW s \in Status
  PROVE  /\ WithStatus(i, m, s) \in Integration /\ WithStatus(i, m, s).by = i.by
         /\ WithStatus(i, m, s).status = s
         /\ PatchedWith(i, m, s) \in Integration /\ PatchedWith(i, m, s).by = i.by
         /\ PatchedWith(i, m, s).status = s
         /\ ~PatchedWith(i, m, s).declared => ~i.declared /\ i.status = s
  <1>1. PICK d \in BOOLEAN : d = (i.declared \/ s # i.status)
    OBVIOUS
  <1>2. PatchedWith(i, m, s) = [i EXCEPT !.method = m, !.status = s, !.declared = d]
    BY <1>1 DEF PatchedWith
  <1>3. /\ PatchedWith(i, m, s) \in Integration /\ PatchedWith(i, m, s).by = i.by
        /\ PatchedWith(i, m, s).status = s /\ PatchedWith(i, m, s).declared = d
    BY <1>2 DEF Integration
  <1>4. /\ WithStatus(i, m, s) \in Integration /\ WithStatus(i, m, s).by = i.by
        /\ WithStatus(i, m, s).status = s
    BY DEF Integration, WithStatus
  <1> QED
    BY <1>1, <1>3, <1>4

\* A step that changes no more than the status of r's integration.
LEMMA StatusStep ==
  ASSUME OauthInv, NEW r \in Request, NEW n \in Nat, NEW row \in Integration, End(r, n),
         conn' = [conn EXCEPT ![Of(r)] = row], row.by = conn[Of(r)].by,
         UNCHANGED <<flow, server, token, provider, spent>>, UNCHANGED Marks,
         \/ row.status # "connected"
         \/ token[Of(r)].by = row.by
         \/ Of(r) \in crossed
         \/ row.declared
         \/ /\ conn[Of(r)].status = "connected" /\ ~conn[Of(r)].declared
            /\ oreq[r].at \notin {"token", "manual"},
         oreq[r].at # "update"
  PROVE  OauthInv'
  <1>1. PICK v0 : v0 = Of(r)
    OBVIOUS
  <1>2. /\ flow' = flow /\ server' = server /\ token' = token /\ provider' = provider
        /\ spent' = spent /\ botched' = botched /\ crossed' = crossed
        /\ strained' = strained
    BY DEF Marks
  <1>3. Turn(r, "done", oreq[r].tok, oreq[r].generation)
    BY EndTurn
  <1>4. v0 \in Service /\ conn \in [Service -> Integration] /\ Rows(v0) /\ Kept(v0)
        /\ Nobody \notin Request /\ row.by \in Maker
    BY <1>1, Facts DEF OauthInv, OauthTypeOK
  <1>5. /\ conn' \in [Service -> Integration] /\ conn'[v0] = row
        /\ \A v \in Service : v # v0 => conn'[v] = conn[v]
    BY <1>1, <1>4
  <1>6. OauthTypeOK'
    BY <1>2, <1>3, <1>5 DEF OauthInv, OauthTypeOK, Turn
  <1>7. \A q \in Request : oreq'[q].service = oreq[q].service
    BY <1>3 DEF Turn
  <1>8. ASSUME NEW v \in Service
        PROVE  Rows(v)' /\ Backed(v)' /\ Kept(v)'
    <2>1. CASE v # v0
      <3>1. ~Completing(r, v)
        BY <1>1, <2>1 DEF Completing
      <3> QED
        BY <1>2, <1>3, <1>5, <2>1, <3>1, RowKeeps
    <2>2. CASE v = v0
      <3>1. Rows(v)'
        BY <1>1, <1>2, <1>4, <1>5, <1>7, <2>2 DEF Rows, Of, Maker
      <3>4. ASSUME NEW q \in Request, Completing(q, v),
                   oreq[r].at \notin {"token", "manual"}
            PROVE  Completing(q, v)'
        <4>1. q # r
          BY <3>4 DEF Completing
        <4>2. oreq'[q] = oreq[q] /\ conn'[v].by = conn[v].by
          BY <1>1, <1>3, <1>5, <2>2, <4>1 DEF Turn
        <4> QED
          BY <3>4, <4>2 DEF Completing, Of
      <3>5. Backed(v)
        BY DEF OauthInv
      <3>2. Backed(v)'
        BY <1>1, <1>2, <1>5, <2>2, <3>4, <3>5 DEF Backed
      <3>3. Kept(v)'
        <4>1. ASSUME NEW q \in Request, oreq[q].at = "update"
              PROVE  oreq'[q] = oreq[q]
          BY <1>3, <4>1 DEF Turn
        <4> QED
          BY <1>2, <1>4, <2>2, <4>1 DEF Kept
      <3> QED
        BY <3>1, <3>2, <3>3
    <2> QED
      BY <2>1, <2>2
  <1>9. ASSUME NEW q \in Request
        PROVE  Knows(q)'
    <2>1. CASE q = r
      BY <1>3, <2>1 DEF Knows, Relying, Turn
    <2>2. CASE q # r
      <3>1. Knows(q) /\ Of(q) \in Service /\ conn'[Of(q)].by = conn[Of(q)].by
        BY <1>1, <1>5, Facts
      <3> QED
        BY <1>2, <1>3, <2>2, <3>1, Bystander DEF Knows
    <2> QED
      BY <2>1, <2>2
  <1>10. Apart'
    BY <1>2, <1>3, ApartKeeps
  <1> QED
    BY <1>6, <1>8, <1>9, <1>10 DEF OauthInv

LEMMA ConnectedStep ==
  ASSUME OauthInv, NEW r \in Request, MarkConnected(r)
  PROVE  OauthInv'
  <1>1. /\ UNCHANGED <<flow, server, token, provider, spent>> /\ UNCHANGED Marks
        /\ oreq[r].at = "status"
    BY DEF MarkConnected, Ready, Outside
  <1>2. CASE conn' = conn /\ \E n \in {302, 400} : End(r, n)
    BY <1>1, <1>2, QuietMoves DEF OauthInv, OauthTypeOK
  <1>3. CASE /\ conn[Of(r)].by = r /\ End(r, 302)
             /\ conn' = [conn EXCEPT ![Of(r)] = WithStatus(@, "oauth", "connected")]
    <2> DEFINE c == conn[Of(r)]
               row == WithStatus(c, "oauth", "connected")
    <2>1. c \in Integration /\ Knows(r)
      BY Facts
    <2>2. conn' = [conn EXCEPT ![Of(r)] = row]
      BY <1>3
    <2>3. token[Of(r)].by = c.by \/ Of(r) \in crossed
      BY <1>1, <1>3, <2>1 DEF Knows
    <2> HIDE DEF c
    <2>4. row \in Integration /\ row.by = c.by
      BY <2>1, Statuses DEF Method, Status
    <2>5. token[Of(r)].by = row.by \/ Of(r) \in crossed
      BY <2>3, <2>4
    <2>6. row.by = conn[Of(r)].by /\ 302 \in Nat /\ oreq[r].at # "update" /\ End(r, 302)
      BY <1>1, <1>3, <2>4 DEF c
    <2> HIDE DEF row
    <2> QED
      BY <1>1, <2>2, <2>4, <2>5, <2>6, StatusStep
  <1> QED
    BY <1>2, <1>3 DEF MarkConnected

LEMMA ExpiredStep ==
  ASSUME OauthInv, NEW r \in Request, MarkExpired(r)
  PROVE  OauthInv'
  <1>1. /\ UNCHANGED <<flow, server, token, provider, spent>> /\ UNCHANGED Marks
        /\ oreq[r].at = "expire" /\ End(r, 0)
    BY DEF MarkExpired, Ready, Outside
  <1>2. CASE conn' = conn
    BY <1>1, <1>2, QuietMoves DEF OauthInv, OauthTypeOK
  <1>3. CASE conn' = [conn EXCEPT ![Of(r)] = WithStatus(@, @.method, "expired")]
    <2> DEFINE c == conn[Of(r)]
               row == WithStatus(c, c.method, "expired")
    <2>1. c \in Integration /\ c.method \in Method
      BY Facts DEF Integration
    <2>2. conn' = [conn EXCEPT ![Of(r)] = row]
      BY <1>3
    <2> HIDE DEF c
    <2>3. row \in Integration /\ row.by = c.by /\ row.status # "connected"
      BY <2>1, Statuses DEF Method, Status
    <2> HIDE DEF row
    <2> QED
      BY <1>1, <2>2, <2>3, StatusStep DEF c
  <1> QED
    BY <1>2, <1>3 DEF MarkExpired

LEMMA ManualStep ==
  ASSUME OauthInv, NEW r \in Request, MarkManual(r)
  PROVE  OauthInv'
  <1>1. /\ UNCHANGED <<flow, server, token, provider, spent>>
        /\ crossed' = crossed /\ strained' = strained /\ oreq[r].at = "manual"
    BY DEF MarkManual, Ready, Outside
  <1>2. CASE /\ conn[Of(r)].by = oreq[r].tok /\ End(r, 200) /\ botched' = botched
             /\ conn' = [conn EXCEPT ![Of(r)] = WithStatus(@, "manual", "none")]
    <2> DEFINE c == conn[Of(r)]
               row == WithStatus(c, "manual", "none")
    <2>1. c \in Integration
      BY Facts
    <2>2. conn' = [conn EXCEPT ![Of(r)] = row]
      BY <1>2
    <2> HIDE DEF c
    <2>3. row \in Integration /\ row.by = c.by /\ row.status # "connected"
      BY <2>1, Statuses DEF Method, Status
    <2>4. /\ row.by = conn[Of(r)].by /\ 200 \in Nat /\ oreq[r].at # "update"
          /\ End(r, 200) /\ UNCHANGED Marks
      BY <1>1, <1>2, <2>3 DEF c, Marks
    <2> HIDE DEF row
    <2> QED
      BY <1>1, <2>2, <2>3, <2>4, StatusStep
  <1>3. CASE /\ conn' = conn
             /\ \/ End(r, 200) /\ botched' = botched /\ conn[Of(r)].by # oreq[r].tok
                \/ End(r, 500) /\ botched' = botched \cup {Of(r)}
    <2>1. Turn(r, "done", oreq[r].tok, oreq[r].generation)
      BY <1>3, EndTurn
    <2>2. botched' \subseteq Service
      BY <1>3, Facts DEF OauthInv, OauthTypeOK
    <2>3. OauthTypeOK'
      BY <1>1, <1>3, <2>1, <2>2 DEF OauthInv, OauthTypeOK, Turn
    <2>4. ASSUME NEW v \in Service
          PROVE  Rows(v)' /\ Backed(v)' /\ Kept(v)'
      <3>1. ~Completing(r, v) \/ v \in botched'
        BY <1>1, <1>3 DEF Completing
      <3>2. botched \subseteq botched'
        BY <1>3
      <3> QED
        BY <1>1, <1>3, <2>1, <3>1, <3>2, RowKeeps
    <2>5. ASSUME NEW q \in Request
          PROVE  Knows(q)'
      <3>1. CASE q = r
        BY <2>1, <3>1 DEF Knows, Relying, Turn
      <3>2. CASE q # r
        BY <1>1, <1>3, <2>1, <3>2, Bystander, Facts DEF Knows
      <3> QED
        BY <3>1, <3>2
    <2>6. Apart'
      BY <1>1, <2>1, ApartKeeps
    <2> QED
      BY <2>3, <2>4, <2>5, <2>6 DEF OauthInv
  <1> QED
    BY <1>2, <1>3 DEF MarkManual

\* A client's patch of the status is declared, or leaves the status as it was.
LEMMA PatchStep ==
  ASSUME OauthInv, NEW r \in Request, PatchIntegration(r)
  PROVE  OauthInv'
  <1>1. /\ UNCHANGED <<flow, server, token, provider, spent>> /\ UNCHANGED Marks
        /\ oreq[r].at = "start"
    BY DEF PatchIntegration, Ready, Outside
  <1>2. CASE conn' = conn /\ End(r, 400)
    BY <1>1, <1>2, QuietMoves DEF OauthInv, OauthTypeOK
  <1>3. ASSUME NEW m \in Method, NEW s \in Status, End(r, 200),
               conn' = [conn EXCEPT ![Of(r)] = PatchedWith(@, m, s)]
        PROVE  OauthInv'
    <2> DEFINE c == conn[Of(r)]
               row == PatchedWith(c, m, s)
    <2>1. c \in Integration
      BY Facts
    <2>2. conn' = [conn EXCEPT ![Of(r)] = row]
      BY <1>3
    <2> HIDE DEF c
    <2>3. row \in Integration /\ row.by = c.by
      BY <2>1, Statuses
    <2>4. \/ row.status # "connected"
          \/ row.declared
          \/ c.status = "connected" /\ ~c.declared
      BY <2>1, Statuses
    <2>5. 200 \in Nat /\ oreq[r].at \notin {"token", "manual", "update"}
      BY <1>1
    <2>6. /\ row.by = conn[Of(r)].by
          /\ \/ row.status # "connected" \/ row.declared
             \/ /\ conn[Of(r)].status = "connected" /\ ~conn[Of(r)].declared
                /\ oreq[r].at \notin {"token", "manual"}
      BY <2>3, <2>4, <2>5 DEF c
    <2> HIDE DEF row
    <2> QED
      BY <1>1, <1>3, <2>2, <2>3, <2>5, <2>6, StatusStep
  <1> QED
    BY <1>2, <1>3 DEF PatchIntegration

LEMMA DropStep ==
  ASSUME OauthInv, NEW r \in Request, DropToken(r)
  PROVE  OauthInv'
  <1>1. PICK v0 : v0 = Of(r)
    OBVIOUS
  <1>2. /\ flow' = flow /\ server' = server /\ conn' = conn /\ provider' = provider
        /\ spent' = spent /\ botched' = botched /\ strained' = strained
        /\ oreq[r].at = "drop" /\ Advance(r, "manual")
        /\ token' = IF token[v0].by = oreq[r].tok THEN [token EXCEPT ![v0] = NoToken]
                    ELSE token
        /\ crossed' = IF \E c \in Request : Of(c) = v0 /\ oreq[c].at = "status"
                        THEN crossed \cup {v0} ELSE crossed
    BY <1>1 DEF DropToken, Ready, Outside
  <1>3. Turn(r, "manual", oreq[r].tok, oreq[r].generation)
    BY <1>2, AdvanceTurn DEF OauthAt
  <1>4. /\ v0 \in Service /\ Rows(v0) /\ token \in [Service -> Token]
        /\ oreq[r].tok \in Request /\ Of(oreq[r].tok) = v0
        /\ NoToken \in Token /\ NoToken.by = Nobody /\ Nobody \notin Request
        /\ crossed \subseteq Service /\ botched \subseteq Service
    BY <1>1, <1>2, Facts DEF Knows, Relying, OauthInv, OauthTypeOK, NoToken, Token
  <1>5. crossed \subseteq crossed' /\ crossed' \subseteq Service
    BY <1>2, <1>4
  <1>6. token' \in [Service -> Token] /\ \A v \in Service : v # v0 => token'[v] = token[v]
    BY <1>2, <1>4
  <1>7. OauthTypeOK'
    BY <1>2, <1>3, <1>4, <1>5, <1>6 DEF OauthInv, OauthTypeOK, Turn
  <1>8. \A q \in Request : oreq'[q].service = oreq[q].service
    BY <1>3 DEF Turn
  <1>9. ASSUME NEW v \in Service
        PROVE  Rows(v)' /\ Backed(v)' /\ Kept(v)'
    <2>1. CASE token'[v] = token[v]
      <3>1. ~Completing(r, v)
        BY <1>2 DEF Completing
      <3> QED
        BY <1>2, <1>3, <1>5, <2>1, <3>1, RowKeeps
    <2>2. CASE token'[v] # token[v]
      <3>1. v = v0 /\ token'[v] = NoToken /\ token[v].by = oreq[r].tok
        BY <1>2, <1>4, <1>6, <2>2
      <3>2. conn[v].by = oreq[r].tok
        BY <1>4, <3>1 DEF Rows
      <3>3. Rows(v)'
        BY <1>2, <1>4, <1>8, <3>1, <3>2 DEF Rows, Of
      <3>4. Completing(r, v)'
        BY <1>1, <1>2, <1>3, <1>8, <3>1, <3>2 DEF Completing, Of, Turn
      <3>5. Backed(v)'
        BY <3>4 DEF Backed
      <3>6. Kept(v)'
        BY <1>4, <3>1 DEF Kept
      <3> QED
        BY <3>3, <3>5, <3>6
    <2> QED
      BY <2>1, <2>2
  <1>10. ASSUME NEW q \in Request
         PROVE  Knows(q)'
    <2>1. CASE q = r
      <3>1. PICK c : c = oreq[r].tok
        OBVIOUS
      <3>2. Of(r)' = v0 /\ Of(c)' = v0 /\ c \in Request
        BY <1>1, <1>4, <1>8, <3>1 DEF Of
      <3>3. oreq'[r].at = "manual" /\ oreq'[r].tok = c
        BY <1>3, <3>1 DEF Turn
      <3> QED
        BY <2>1, <3>2, <3>3 DEF Knows, Of
    <2>2. CASE q # r
      <3>1. Knows(q) /\ Of(q) \in Service
        BY Facts
      <3>2. oreq[q].at = "status" /\ Of(q) = v0 => Of(q) \in crossed'
        BY <1>2
      <3> QED
        BY <1>2, <1>3, <1>5, <1>6, <2>2, <3>1, <3>2, Bystander DEF Knows
    <2> QED
      BY <2>1, <2>2
  <1>11. Apart'
    BY <1>2, <1>3, ApartKeeps
  <1> QED
    BY <1>7, <1>9, <1>10, <1>11 DEF OauthInv

LEMMA RemoveStep ==
  ASSUME OauthInv, NEW r \in Request, DeleteIntegration(r)
  PROVE  OauthInv'
  <1>1. PICK v0 : v0 = Of(r)
    OBVIOUS
  <1>2. /\ flow' = flow /\ server' = server /\ provider' = provider
        /\ spent' = spent /\ botched' = botched /\ strained' = strained
        /\ crossed' = crossed /\ oreq[r].at = "start" /\ End(r, 200)
        /\ conn' = [conn EXCEPT ![v0] = NoIntegration]
        /\ token' = [token EXCEPT ![v0] = NoToken]
    BY <1>1 DEF DeleteIntegration, Ready, Outside, Marks
  <1>3. Turn(r, "done", oreq[r].tok, oreq[r].generation)
    BY <1>2, EndTurn
  <1>4. /\ v0 \in Service /\ token \in [Service -> Token]
        /\ conn \in [Service -> Integration]
        /\ NoToken \in Token /\ NoToken.by = Nobody /\ Nobody \notin Request
        /\ NoIntegration \in Integration /\ NoIntegration.by = Nobody
        /\ NoIntegration.status = "none"
    BY <1>1, Facts DEF OauthInv, OauthTypeOK, NoToken, Token, NoIntegration, Integration,
       Maker, Method, Status
  <1>5. /\ conn' \in [Service -> Integration] /\ token' \in [Service -> Token]
        /\ conn'[v0] = NoIntegration /\ token'[v0] = NoToken
        /\ \A v \in Service : v # v0 => conn'[v] = conn[v] /\ token'[v] = token[v]
    BY <1>2, <1>4
  <1>6. OauthTypeOK'
    BY <1>2, <1>3, <1>5 DEF OauthInv, OauthTypeOK, Turn
  <1>7. ASSUME NEW v \in Service
        PROVE  Rows(v)' /\ Backed(v)' /\ Kept(v)'
    <2>1. CASE v # v0
      <3>1. ~Completing(r, v)
        BY <1>2 DEF Completing
      <3> QED
        BY <1>2, <1>3, <1>5, <2>1, <3>1, RowKeeps
    <2>2. CASE v = v0
      <3>1. Rows(v)'
        BY <1>4, <1>5, <2>2 DEF Rows
      <3>2. Backed(v)' /\ Kept(v)'
        BY <1>4, <1>5, <2>2 DEF Backed, Kept
      <3> QED
        BY <3>1, <3>2
    <2> QED
      BY <2>1, <2>2
  <1>8. ASSUME NEW q \in Request
        PROVE  Knows(q)'
    <2>1. CASE q = r
      BY <1>3, <2>1 DEF Knows, Relying, Turn
    <2>2. CASE q # r
      <3>1. Knows(q) /\ Of(q) \in Service
        BY Facts
      <3>2. Of(q) = v0 => conn'[Of(q)].by # q
        BY <1>4, <1>5
      <3> QED
        BY <1>2, <1>3, <1>5, <2>2, <3>1, <3>2, Bystander DEF Knows
    <2> QED
      BY <2>1, <2>2
  <1>9. Apart'
    BY <1>2, <1>3, ApartKeeps
  <1> QED
    BY <1>6, <1>7, <1>8, <1>9 DEF OauthInv

-----------------------------------------------------------------------------
(* The refreshes. *)

\* The provider hands out a refresh token, or accepts the one in force.
LEMMA RenewStep ==
  ASSUME OauthInv, NEW r \in Request, NEW c \in Request, NEW n \in Nat,
         c = oreq[r].tok, oreq[r].at = "post",
         oreq' = [oreq EXCEPT ![r].at = "update", ![r].generation = n],
         n = provider'[c], provider' \in [Request -> Nat],
         \A d \in Request : d # c => provider'[d] = provider[d],
         strained' = IF Overlap(r) THEN strained \cup {c} ELSE strained,
         UNCHANGED <<flow, server, conn, token, spent, botched, crossed>>
  PROVE  OauthInv'
  <1> DEFINE s == oreq[r]
             at == "update"
             u == [s EXCEPT !.at = at, !.generation = n]
  <1>1. s \in OauthRequest /\ at \in OauthAt
    BY DEF OauthInv, OauthTypeOK, OauthAt
  <1>2. oreq' = [oreq EXCEPT ![r] = u]
    OBVIOUS
  <1> HIDE DEF s, at
  <1>3. /\ u \in OauthRequest /\ u.service = s.service /\ u.at = at
        /\ u.tok = s.tok /\ u.generation = n
    BY <1>1 DEF OauthRequest
  <1> HIDE DEF u
  <1>4. Turn(r, "update", c, n)
    BY <1>2, <1>3, Turns DEF s, at
  <1>5. strained \subseteq strained' /\ strained' \subseteq Request
    BY DEF OauthInv, OauthTypeOK
  <1>6. OauthTypeOK'
    BY <1>4, <1>5 DEF OauthInv, OauthTypeOK, Turn
  \* Another refresh of the token that is under way strains it.
  <1>7. ASSUME NEW q \in Request, q # r, oreq[q].at = "update", oreq[q].tok = c
        PROVE  c \in strained'
    BY <1>7 DEF Overlap
  <1>8. ASSUME NEW v \in Service
        PROVE  Rows(v)' /\ Backed(v)' /\ Kept(v)'
    <2>1. ~Completing(r, v)
      BY DEF Completing
    <2>2. Rows(v)' /\ Backed(v)'
      BY <1>4, <1>5, <2>1, RowKeeps
    <2>3. CASE token[v].by # c
      <3>1. token[v].by \in Request \ strained'
              => provider'[token[v].by] = provider[token[v].by]
        BY <2>3
      <3>2. oreq[r].at # "update" /\ conn'[v] = conn[v] /\ token'[v] = token[v]
            /\ botched' = botched /\ crossed' = crossed
        OBVIOUS
      <3>3. Kept(v)'
        BY <1>4, <1>5, <3>1, <3>2, RowKeeps
      <3> QED
        BY <2>2, <3>3
    <2>4. CASE token[v].by = c
      <3>1. oreq'[r].at = "update" /\ oreq'[r].tok = token'[v].by
        BY <1>4, <2>4 DEF Turn
      <3> QED
        BY <2>2, <3>1 DEF Kept
    <2> QED
      BY <2>2, <2>3, <2>4
  <1>9. ASSUME NEW q \in Request
        PROVE  Knows(q)'
    <2>1. CASE q = r
      <3>1. Of(c) = Of(r)
        BY Facts DEF Knows, Relying
      <3>2. oreq'[c].service = oreq[c].service /\ oreq'[r].service = oreq[r].service
        BY <1>4 DEF Turn
      <3>3. Of(c)' = Of(r)'
        BY <3>1, <3>2 DEF Of
      <3>4. oreq'[r].at = "update" /\ oreq'[r].tok = c /\ oreq'[r].generation = n
        BY <1>4 DEF Turn
      <3> QED
        BY <2>1, <3>3, <3>4 DEF Knows, Of
    <2>2. CASE q # r
      <3>1. Knows(q)
        BY Facts
      <3>2. oreq[q].at = "update" => oreq[q].tok \in Request
        BY <3>1 DEF Knows, Relying
      <3>3. oreq[q].at = "update" /\ oreq[q].tok \notin strained'
              => provider'[oreq[q].tok] = provider[oreq[q].tok]
        BY <1>7, <2>2, <3>2
      <3> QED
        BY <1>4, <1>5, <2>2, <3>1, <3>3, Bystander DEF Knows
    <2> QED
      BY <2>1, <2>2
  <1>10. Apart'
    <2>1. SUFFICES ASSUME NEW p \in Request, NEW q \in Request,
                          oreq'[p].at = "update", oreq'[q].at = "update",
                          oreq'[p].tok = oreq'[q].tok, oreq'[p].tok \notin strained'
                   PROVE  p = q
      BY DEF Apart
    <2>2. CASE p # r /\ q # r
      <3>1. oreq'[p] = oreq[p] /\ oreq'[q] = oreq[q]
        BY <1>4, <2>2 DEF Turn
      <3> QED
        BY <1>5, <2>1, <3>1 DEF OauthInv, Apart
    <2>3. ASSUME NEW x \in {p, q}, x # r, p = r \/ q = r
          PROVE  FALSE
      <3>1. oreq'[x] = oreq[x] /\ oreq'[r].tok = c /\ x \in Request
        BY <1>4, <2>3 DEF Turn
      <3>2. oreq[x].at = "update" /\ oreq[x].tok = c /\ c \notin strained'
        BY <2>1, <2>3, <3>1
      <3> QED
        BY <1>7, <2>3, <3>1, <3>2
    <2> QED
      BY <2>2, <2>3
  <1> QED
    BY <1>6, <1>8, <1>9, <1>10 DEF OauthInv

\* The provider hands one out and its answer is lost.
LEMMA LostStep ==
  ASSUME OauthInv, NEW r \in Request, NEW c \in Request,
         c = oreq[r].tok, oreq[r].at = "post", End(r, 0),
         provider' \in [Request -> Nat],
         \A d \in Request : d # c => provider'[d] = provider[d],
         strained' = strained \cup {c},
         UNCHANGED <<flow, server, conn, token, spent, botched, crossed>>
  PROVE  OauthInv'
  <1>1. Turn(r, "done", oreq[r].tok, oreq[r].generation)
    BY EndTurn
  <1>2. OauthTypeOK'
    BY <1>1 DEF OauthInv, OauthTypeOK, Turn
  <1>3. ASSUME NEW v \in Service
        PROVE  Rows(v)' /\ Backed(v)' /\ Kept(v)'
    <2>1. ~Completing(r, v)
      BY DEF Completing
    <2> QED
      BY <1>1, <2>1, RowKeeps
  <1>4. ASSUME NEW q \in Request
        PROVE  Knows(q)'
    <2>1. CASE q = r
      BY <1>1, <2>1 DEF Knows, Relying, Turn
    <2>2. CASE q # r
      <3>1. Knows(q)
        BY Facts
      <3>2. oreq[q].at = "update" => oreq[q].tok \in Request
        BY <3>1 DEF Knows, Relying
      <3> QED
        BY <1>1, <2>2, <3>1, <3>2, Bystander DEF Knows
    <2> QED
      BY <2>1, <2>2
  <1>5. Apart'
    BY <1>1, ApartKeeps
  <1> QED
    BY <1>2, <1>3, <1>4, <1>5 DEF OauthInv

LEMMA PostStep ==
  ASSUME OauthInv, NEW r \in Request, PostRefresh(r)
  PROVE  OauthInv'
  <1>1. PICK c : c = oreq[r].tok
    OBVIOUS
  <1>2. /\ UNCHANGED <<flow, server, conn, token, spent, botched, crossed>>
        /\ oreq[r].at = "post"
    BY DEF PostRefresh, Ready, Tables
  <1>3. /\ c \in Request /\ provider \in [Request -> Nat]
        /\ oreq[r] \in OauthRequest
    BY <1>1, <1>2, Facts DEF Knows, Relying, OauthInv, OauthTypeOK
  <1>4. CASE provider' = [provider EXCEPT ![c] = @ + 1]
    <2>1. /\ provider' \in [Request -> Nat] /\ provider'[c] = provider[c] + 1
          /\ \A d \in Request : d # c => provider'[d] = provider[d]
          /\ provider[c] + 1 \in Nat
      BY <1>3, <1>4
    <2>2. CASE End(r, 0) /\ strained' = strained \cup {c}
      BY <1>1, <1>2, <1>3, <2>1, <2>2, LostStep
    <2>3. CASE /\ oreq' = [oreq EXCEPT ![r].at = "update",
                                       ![r].generation = provider[c] + 1]
               /\ strained' = IF Overlap(r) THEN strained \cup {c} ELSE strained
      BY <1>1, <1>2, <1>3, <2>1, <2>3, RenewStep
    <2>4. provider' # provider
      BY <1>3, <2>1
    <2> QED
      BY <1>1, <2>2, <2>3, <2>4 DEF PostRefresh
  <1>5. CASE /\ oreq[r].generation = provider[c] /\ Advance(r, "update")
             /\ strained' = IF Overlap(r) THEN strained \cup {c} ELSE strained
             /\ provider' = provider
    <2> DEFINE n == oreq[r].generation
    <2>1. n \in Nat /\ n = provider'[c] /\ provider' \in [Request -> Nat]
      BY <1>3, <1>5, Facts
    <2>2. oreq' = [oreq EXCEPT ![r].at = "update", ![r].generation = n]
      <3> DEFINE s == oreq[r]
                 at == "update"
      <3>1. oreq' = [oreq EXCEPT ![r] = [s EXCEPT !.at = at]]
        BY <1>5 DEF Advance
      <3> HIDE DEF at
      <3>2. [s EXCEPT !.at = at] = [s EXCEPT !.at = at, !.generation = s.generation]
        BY <1>3 DEF OauthRequest
      <3> QED
        BY <3>1, <3>2 DEF at
    <2> HIDE DEF n
    <2> QED
      BY <1>1, <1>2, <1>3, <1>5, <2>1, <2>2, RenewStep
  <1>6. CASE Advance(r, "expire") /\ UNCHANGED <<provider, strained>>
    <2>1. /\ "expire" \in OauthAt \ {"status", "update"}
          /\ oreq[r].at \in Relying /\ oreq[r].at \notin {"token", "manual", "update"}
      BY <1>2 DEF OauthAt, Relying
    <2>2. /\ flow' \in [Flow -> {"none", "open", "expired"}] /\ server' \subseteq Service
          /\ spent' \subseteq Flow /\ UNCHANGED Marks
      BY <1>2, <1>6 DEF OauthInv, OauthTypeOK, Marks
    <2> QED
      BY <1>2, <1>6, <2>1, <2>2, QuietMoves
  <1> QED
    BY <1>1, <1>4, <1>5, <1>6 DEF PostRefresh

LEMMA UpdateStep ==
  ASSUME OauthInv, NEW r \in Request, UpdateToken(r)
  PROVE  OauthInv'
  <1>1. PICK v0 : v0 = Of(r)
    OBVIOUS
  <1>2. PICK c : c = oreq[r].tok
    OBVIOUS
  <1>3. /\ flow' = flow /\ server' = server /\ conn' = conn /\ provider' = provider
        /\ spent' = spent /\ botched' = botched /\ crossed' = crossed
        /\ oreq[r].at = "update" /\ \E n \in {200, 0} : End(r, n)
    BY DEF UpdateToken, Ready, Outside
  <1>4. Turn(r, "done", oreq[r].tok, oreq[r].generation)
    <2>1. \A n \in {200, 0} : n \in Nat
      OBVIOUS
    <2> QED
      BY <1>3, <2>1, EndTurn
  <1>5. /\ v0 \in Service /\ c \in Request /\ Of(c) = v0 /\ token \in [Service -> Token]
        /\ Rows(v0) /\ Nobody \notin Request /\ oreq[r].generation \in Nat
        /\ c \notin strained => oreq[r].generation = provider[c]
        /\ strained \subseteq Request
    BY <1>1, <1>2, <1>3, Facts DEF Knows, Relying, OauthInv, OauthTypeOK
  \* No other service has that token.
  <1>6. ASSUME NEW v \in Service, token[v].by = c
        PROVE  v = v0
    <2>1. Rows(v) /\ c # Nobody
      BY <1>5 DEF OauthInv
    <2> QED
      BY <1>5, <1>6, <2>1 DEF Rows
  <1>7. \A v \in Service : ~Completing(r, v)
    BY <1>3 DEF Completing
  <1>8. CASE token' = token
             /\ ((strained' = strained /\ token[v0].by # c) \/ strained' = strained \cup {c})
    <2>1. OauthTypeOK'
      BY <1>3, <1>4, <1>5, <1>8 DEF OauthInv, OauthTypeOK, Turn
    <2>2. ASSUME NEW v \in Service
          PROVE  Rows(v)' /\ Backed(v)' /\ Kept(v)'
      <3>1. token[v].by \in strained' \/ oreq[r].tok # token[v].by
        BY <1>2, <1>6, <1>8
      <3> QED
        BY <1>3, <1>4, <1>7, <1>8, <3>1, RowKeeps
    <2>3. ASSUME NEW q \in Request
          PROVE  Knows(q)'
      <3>1. CASE q = r
        BY <1>4, <3>1 DEF Knows, Relying, Turn
      <3>2. CASE q # r
        BY <1>3, <1>4, <1>8, <3>2, Bystander, Facts DEF Knows
      <3> QED
        BY <3>1, <3>2
    <2>4. Apart'
      BY <1>4, <1>8, ApartKeeps
    <2> QED
      BY <2>1, <2>2, <2>3, <2>4 DEF OauthInv
  <1>9. CASE /\ token[v0].by = c /\ strained' = strained
             /\ token' = [token EXCEPT ![v0].generation = oreq[r].generation]
    <2> DEFINE old == token[v0]
               n == oreq[r].generation
               row == [old EXCEPT !.generation = n]
    <2>1. old \in Token /\ n \in Nat
      BY <1>5
    <2>2. token' = [token EXCEPT ![v0] = row]
      BY <1>9
    <2> HIDE DEF old, n
    <2>3. row \in Token /\ row.by = old.by /\ row.generation = n
      BY <2>1 DEF Token
    <2> HIDE DEF row
    <2>4. /\ token' \in [Service -> Token] /\ token'[v0] = row
          /\ \A v \in Service : v # v0 => token'[v] = token[v]
          /\ \A v \in Service : token'[v].by = token[v].by
      BY <1>5, <2>2, <2>3 DEF old
    <2>5. OauthTypeOK'
      BY <1>3, <1>4, <1>9, <2>4 DEF OauthInv, OauthTypeOK, Turn
    <2>6. \A q \in Request : oreq'[q].service = oreq[q].service
      BY <1>4 DEF Turn
    <2>7. ASSUME NEW v \in Service
          PROVE  Rows(v)' /\ Backed(v)' /\ Kept(v)'
      <3>1. CASE v # v0
        <4>1. oreq[r].tok # token[v].by
          BY <1>2, <1>6, <3>1
        <4> QED
          BY <1>3, <1>4, <1>7, <1>9, <2>4, <3>1, <4>1, RowKeeps
      <3>2. CASE v = v0
        <4>1. /\ token'[v].by = c /\ conn[v].by = c /\ token[v].by = c
              /\ token'[v].generation = oreq[r].generation
          BY <1>5, <1>9, <2>3, <2>4, <3>2 DEF Rows, n
        <4>2. Rows(v)'
          BY <1>3, <1>5, <2>6, <3>2, <4>1 DEF Rows, Of
        <4>3. Backed(v)' /\ Kept(v)'
          BY <1>3, <1>5, <1>9, <4>1 DEF Backed, Kept
        <4> QED
          BY <4>2, <4>3
      <3> QED
        BY <3>1, <3>2
    <2>8. ASSUME NEW q \in Request
          PROVE  Knows(q)'
      <3>1. CASE q = r
        BY <1>4, <3>1 DEF Knows, Relying, Turn
      <3>2. CASE q # r
        <4>1. Knows(q) /\ Of(q) \in Service
          BY Facts
        <4> QED
          BY <1>3, <1>4, <1>9, <2>4, <3>2, <4>1, Bystander DEF Knows
      <3> QED
        BY <3>1, <3>2
    <2>9. Apart'
      BY <1>4, <1>9, ApartKeeps
    <2> QED
      BY <2>5, <2>7, <2>8, <2>9 DEF OauthInv
  <1> QED
    BY <1>1, <1>2, <1>8, <1>9 DEF UpdateToken

\* A step that at most lets states expire and sweeps them.
LEMMA FlowStep ==
  ASSUME OauthInv, flow' \in [Flow -> {"none", "open", "expired"}],
         UNCHANGED <<server, conn, token, provider, spent, oreq>>, UNCHANGED Marks
  PROVE  OauthInv'
  <1>1. /\ server' = server /\ conn' = conn /\ token' = token /\ provider' = provider
        /\ spent' = spent /\ oreq' = oreq /\ botched' = botched
        /\ crossed' = crossed /\ strained' = strained
    BY DEF Marks
  <1>2. OauthTypeOK'
    BY <1>1 DEF OauthInv, OauthTypeOK
  <1>3. \A v \in Service : Rows(v)' /\ Backed(v)' /\ Kept(v)'
    BY <1>1 DEF OauthInv, Rows, Backed, Kept, Completing, Of
  <1>4. \A q \in Request : Knows(q)'
    BY <1>1 DEF OauthInv, Knows, Of
  <1>5. Apart'
    BY <1>1 DEF OauthInv, Apart
  <1> QED
    BY <1>2, <1>3, <1>4, <1>5 DEF OauthInv

-----------------------------------------------------------------------------
(* The theorems. *)

LEMMA OauthStarts == OauthInit => OauthInv
  <1> SUFFICES ASSUME OauthInit
               PROVE  OauthInv
    OBVIOUS
  <1>1. /\ NoIntegration \in Integration /\ NoIntegration.by = Nobody
        /\ NoIntegration.status = "none"
        /\ NoToken \in Token /\ NoToken.by = Nobody /\ Nobody \notin Request
    BY OauthAssumption DEF NoIntegration, Integration, NoToken, Token, Maker, Method,
       Status
  <1>2. /\ conn = [v \in Service |-> NoIntegration]
        /\ token = [v \in Service |-> NoToken]
        /\ oreq \in [Request -> OauthRequest]
        /\ \A r \in Request : oreq[r].at \in {"start", "done"}
    BY OauthAssumption DEF OauthInit, OauthStart
  <1>3. OauthTypeOK
    BY <1>1, <1>2 DEF OauthInit, OauthStart, OauthTypeOK
  <1>4. \A v \in Service : Rows(v) /\ Backed(v) /\ Kept(v)
    BY <1>1, <1>2 DEF Rows, Backed, Kept
  <1>5. (\A r \in Request : Knows(r)) /\ Apart
    BY <1>2 DEF Knows, Apart, Relying
  <1> QED
    BY <1>3, <1>4, <1>5 DEF OauthInv

LEMMA OauthSteps == OauthInv /\ [OauthNext]_oauthVars => OauthInv'
  <1> SUFFICES ASSUME OauthInv, [OauthNext]_oauthVars
               PROVE  OauthInv'
    OBVIOUS
  <1>1. CASE (\E s \in Flow : ExpireState(s)) \/ CleanupExpiredStates
    <2>1. UNCHANGED <<server, conn, token, provider, spent, oreq>> /\ UNCHANGED Marks
      BY <1>1 DEF ExpireState, CleanupExpiredStates, Outside
    <2>2. flow \in [Flow -> {"none", "open", "expired"}]
      BY DEF OauthInv, OauthTypeOK
    <2>3. flow' \in [Flow -> {"none", "open", "expired"}]
      BY <1>1, <2>2 DEF ExpireState, CleanupExpiredStates
    <2> QED
      BY <2>1, <2>3, FlowStep
  <1>2. ASSUME NEW r \in Request, ServeOauth(r)
        PROVE  OauthInv'
    BY <1>2, CallbackQuiet, ExchangeQuiet, ReaderQuiet, IntegrationStep, DeclareStep,
       PatchStep, TokenStep, ConnectedStep,
       DropStep, ManualStep, PostStep, UpdateStep, ExpiredStep, RemoveStep
       DEF ServeOauth
  <1>3. CASE UNCHANGED oauthVars
    <2>1. /\ UNCHANGED <<server, conn, token, provider, spent, oreq>>
          /\ flow' = flow /\ UNCHANGED Marks
      BY <1>3 DEF oauthVars, Marks
    <2>2. flow' \in [Flow -> {"none", "open", "expired"}]
      BY <2>1 DEF OauthInv, OauthTypeOK
    <2> QED
      BY <2>1, <2>2, FlowStep
  <1> QED
    BY <1>1, <1>2, <1>3 DEF OauthNext

(* The inductive invariant of connections and tokens. *)
THEOREM OauthInvariant == OauthSpec => []OauthInv
  BY OauthStarts, OauthSteps, PTL DEF OauthSpec

(* Every variable keeps its type. *)
THEOREM OauthTypes == OauthSpec => []OauthTypeOK
  <1>1. OauthInv => OauthTypeOK
    BY DEF OauthInv
  <1> QED
    BY <1>1, OauthInvariant, PTL

(* However callbacks, disconnects, deletions and refreshes interleave, an
   integration that says it is connected has its token, unless a client
   declared it connected, a pair of writes was broken off or a disconnect met a
   callback.                                                                *)
THEOREM TokensBehind == OauthSpec => []ConnectedHasToken
  <1>1. ASSUME OauthInv
        PROVE  ConnectedHasToken
    <2>1. SUFFICES ASSUME NEW v \in Service, conn[v].status = "connected",
                          ~conn[v].declared, ~Underway(v), v \notin botched \cup crossed
                   PROVE  token[v].by = conn[v].by
      BY DEF ConnectedHasToken
    <2>2. \A r \in Request : ~Completing(r, v)
      BY <2>1 DEF Underway, Completing
    <2> QED
      BY <1>1, <2>1, <2>2 DEF OauthInv, Backed
  <1> QED
    BY <1>1, OauthInvariant, PTL

(* The stored refresh token is the one in force, unless refreshes overlapped or
   an answer or an update was lost.                                         *)
THEOREM TokensLatest == OauthSpec => []LatestTokenKept
  <1>1. ASSUME OauthInv
        PROVE  LatestTokenKept
    <2>1. SUFFICES ASSUME NEW v \in Service, token[v] # NoToken,
                          token[v].by \notin strained,
                          \A r \in Request : Ready(r, "update") => oreq[r].tok # token[v].by
                   PROVE  token[v].generation = provider[token[v].by]
      BY DEF LatestTokenKept
    <2>2. Rows(v) /\ Kept(v) /\ token[v].by \in Maker
      BY <1>1 DEF OauthInv, OauthTypeOK, Token
    <2>3. token[v].by \in Request \ strained
      BY <2>1, <2>2 DEF Rows, Maker
    <2> QED
      BY <2>1, <2>2, <2>3 DEF Kept, Ready
  <1> QED
    BY <1>1, OauthInvariant, PTL
=============================================================================
