------------------------ MODULE AccessControl_proofs ------------------------
(***************************************************************************)
(* Proofs about AccessControl, for any people, requests, life of a cached  *)
(* decision and number of ticks.                                           *)
(***************************************************************************)
EXTENDS AccessControl, TLAPS

\* What a step may make of a request.
LEMMA Moved ==
  ASSUME NEW s \in AccessRequest, NEW at \in AccessAt
  PROVE  /\ [s EXCEPT !.at = at] \in AccessRequest
         /\ \A n \in Nat : [s EXCEPT !.at = at, !.reply = n] \in AccessRequest
         /\ \A a \in BOOLEAN : [s EXCEPT !.at = at, !.allowed = a] \in AccessRequest
  BY DEF AccessRequest

LEMMA Allowed ==
  ASSUME NEW s \in AccessRequest, NEW at \in AccessAt, NEW n \in Nat, NEW a \in BOOLEAN
  PROVE  [s EXCEPT !.at = at, !.steady = a, !.reply = n] \in AccessRequest
  BY DEF AccessRequest

LEMMA Failed ==
  ASSUME NEW s \in AccessRequest, NEW at \in AccessAt, NEW n \in Nat,
         NEW a \in BOOLEAN, NEW b \in BOOLEAN
  PROVE  [s EXCEPT !.at = at, !.failed = a, !.steady = b, !.reply = n] \in AccessRequest
  BY DEF AccessRequest

LEMMA Decided ==
  ASSUME NEW s \in AccessRequest, NEW at \in AccessAt, NEW n \in Nat,
         NEW a \in BOOLEAN, NEW b \in BOOLEAN,
         NEW d \in 0 .. MaxTicks + 1, NEW l \in 0 .. MaxTicks
  PROVE  [s EXCEPT !.at = at, !.allowed = a, !.decided = b, !.stale = d,
                   !.late = l, !.reply = n] \in AccessRequest
  BY DEF AccessRequest

LEMMA Aged ==
  ASSUME NEW s \in AccessRequest
  PROVE  /\ \A l \in 0 .. MaxTicks : [s EXCEPT !.late = l] \in AccessRequest
         /\ \A a \in BOOLEAN : [s EXCEPT !.steady = a] \in AccessRequest
  BY DEF AccessRequest

\* The check a request makes.
CheckFor(s) == <<s.who, IF s.op = "read" THEN "member" ELSE "admin">>

\* What holds of a request s between what it reads and what it does with it.
Sound(s) ==
    /\ s.at \in {"start", "lookup", "ask", "store"} => ~s.decided
    /\ s.at = "store" => since[CheckFor(s)][s.allowed] <= s.late
    /\ s.decided => s.stale <= CacheTtl + s.late
    /\ s.late <= clock
    /\ s.at = "target" => ruled # {}
    /\ s.at = "write" /\ s.op = "grant" => s.target \in joined /\ ruled # {}

\* An entry that has not expired was true in Warden not longer ago than it is
\* old, and the time it took to be stored.
Fresh(k) ==
    /\ decision[k].age <= CacheTtl =>
         since[k][decision[k].allowed] <= decision[k].age + decision[k].late
    /\ decision[k].late <= clock
    /\ since[k][Holds(warden[k[1]], k[2])] = 0

AccessInv ==
    /\ AccessTypeOK
    /\ GrantsBacked
    /\ Members(roster) \subseteq joined
    /\ Admins(roster) \subseteq ruled
    /\ \A k \in Check : Fresh(k)
    /\ \A r \in Request : Sound(areq[r])

-----------------------------------------------------------------------------
\* A step of request r, in a world that stands still.
LEMMA Serves ==
  ASSUME AccessInv, NEW r \in Request, NEW u \in AccessRequest,
         areq' = [areq EXCEPT ![r] = u], Sound(u), World,
         decision' \in [Check -> Cached], \A k \in Check : Fresh(k)',
         grant' \in [Person -> {"none", "viewer", "editor"}], GrantsBacked'
  PROVE  AccessInv'
  <1>1. areq' \in [Request -> AccessRequest]
    BY DEF AccessInv, AccessTypeOK
  <1>2. AccessTypeOK'
    BY <1>1 DEF AccessInv, AccessTypeOK, World
  <1>3. Members(roster)' \subseteq joined' /\ Admins(roster)' \subseteq ruled'
    BY DEF AccessInv, World, Members, Admins
  <1>4. \A q \in Request : areq'[q] = u \/ areq'[q] = areq[q]
    BY DEF AccessInv, AccessTypeOK
  <1>5. ASSUME NEW s, Sound(s)
        PROVE  Sound(s)'
    BY <1>5 DEF Sound, World
  <1>6. ASSUME NEW q \in Request
        PROVE  Sound(areq[q])'
    <2>1. ASSUME NEW s, Sound(s), areq'[q] = s
          PROVE  Sound(areq[q])'
      BY <1>5, <2>1 DEF Sound
    <2>2. Sound(areq[q])
      BY DEF AccessInv
    <2> QED
      BY <1>4, <2>1, <2>2
  <1> QED
    BY <1>2, <1>3, <1>6 DEF AccessInv

LEMMA Keeps ==
  ASSUME AccessInv, NEW r \in Request, NEW u \in AccessRequest,
         areq' = [areq EXCEPT ![r] = u], Sound(u), World, UNCHANGED <<grant, decision>>
  PROVE  AccessInv'
  <1>1. /\ decision' \in [Check -> Cached]
        /\ grant' \in [Person -> {"none", "viewer", "editor"}]
        /\ GrantsBacked'
    BY DEF AccessInv, AccessTypeOK, World, GrantsBacked
  <1>2. \A k \in Check : Fresh(k)'
    BY DEF AccessInv, World, Fresh
  <1> QED
    BY <1>1, <1>2, Serves

\* The facts about a request that its handlers use.
LEMMA Known ==
  ASSUME AccessInv, NEW r \in Request
  PROVE  /\ areq[r] \in AccessRequest /\ Sound(areq[r])
         /\ areq[r].who \in Person /\ areq[r].target \in Person
         /\ areq[r].late \in 0 .. MaxTicks
         /\ CheckOf(r) \in Check /\ CheckOf(r) = CheckFor(areq[r])
         /\ clock \in 0 .. MaxTicks /\ MaxTicks \in Nat /\ CacheTtl \in Nat
  <1>1. areq[r] \in AccessRequest /\ Sound(areq[r])
    BY DEF AccessInv, AccessTypeOK
  <1>2. /\ areq[r].who \in Person /\ areq[r].target \in Person
        /\ areq[r].late \in 0 .. MaxTicks
    BY <1>1 DEF AccessRequest
  <1>3. CheckOf(r) \in Check /\ CheckOf(r) = CheckFor(areq[r])
    BY <1>2 DEF CheckOf, CheckFor, Needed, Check, Relation
  <1> QED
    BY <1>1, <1>2, <1>3, AccessAssumption DEF AccessInv, AccessTypeOK

\* Where a decision leads.
LEMMA After ==
  ASSUME NEW r, NEW allowed
  PROVE  AfterDecision(r, allowed) \in {"caller", "acl", "done"}
  BY DEF AfterDecision

\* Steps that only answer.
LEMMA Responds ==
  ASSUME AccessInv, NEW r \in Request, NEW n \in Nat, Respond(r, n), World
  PROVE  /\ \E u \in AccessRequest : areq' = [areq EXCEPT ![r] = u] /\ Sound(u)
         /\ UNCHANGED <<grant, decision>> => AccessInv'
  <1> DEFINE s == areq[r]
             u == [s EXCEPT !.at = "done", !.reply = n]
  <1>1. s \in AccessRequest /\ Sound(s)
    BY Known
  <1>2. areq' = [areq EXCEPT ![r] = u]
    BY DEF Respond
  <1> HIDE DEF s
  <1>3. /\ u \in AccessRequest /\ u.at = "done" /\ u.late = s.late
        /\ u.decided = s.decided /\ u.stale = s.stale
    <2>1. "done" \in AccessAt
      BY DEF AccessAt
    <2>2. u \in AccessRequest
      BY <1>1, <2>1, Moved
    <2> QED
      BY <1>1, <2>2 DEF AccessRequest
  <1> HIDE DEF u
  <1>4. Sound(u)
    BY <1>1, <1>3 DEF Sound
  <1> QED
    BY <1>2, <1>3, <1>4, Keeps

\* Steps that only go on.
LEMMA Proceeds ==
  ASSUME AccessInv, NEW r \in Request, NEW step \in {"ask", "rank", "target", "write"},
         Proceed(r, step), World, UNCHANGED <<grant, decision>>,
         step = "ask" => areq[r].at = "lookup",
         step = "target" => ruled # {},
         step = "write" /\ areq[r].op = "grant" =>
           areq[r].target \in joined /\ ruled # {}
  PROVE  AccessInv'
  <1> DEFINE s == areq[r]
             u == [s EXCEPT !.at = step]
  <1>1. s \in AccessRequest /\ Sound(s)
    BY Known
  <1>2. areq' = [areq EXCEPT ![r] = u]
    BY DEF Proceed
  <1>3. /\ step = "ask" => s.at = "lookup"
        /\ step = "write" /\ s.op = "grant" => s.target \in joined /\ ruled # {}
    OBVIOUS
  <1> HIDE DEF s
  <1>4. /\ u \in AccessRequest /\ u.at = step /\ u.late = s.late /\ u.op = s.op
        /\ u.decided = s.decided /\ u.stale = s.stale /\ u.target = s.target
    <2>1. step \in AccessAt
      BY DEF AccessAt
    <2>2. u \in AccessRequest
      BY <1>1, <2>1, Moved
    <2> QED
      BY <1>1, <2>2 DEF AccessRequest
  <1> HIDE DEF u
  <1>5. Sound(u)
    BY <1>1, <1>3, <1>4 DEF Sound
  <1> QED
    BY <1>2, <1>4, <1>5, Keeps

\* A decision that is fresh enough.
LEMMA Decides ==
  ASSUME AccessInv, NEW r \in Request, NEW allowed \in BOOLEAN,
         NEW late \in 0 .. MaxTicks, Decide(r, allowed, late),
         since[CheckOf(r)][allowed] <= CacheTtl + late, late <= clock
  PROVE  \E u \in AccessRequest : areq' = [areq EXCEPT ![r] = u] /\ Sound(u)
  <1> DEFINE s == areq[r]
             at == AfterDecision(r, allowed)
             stale == since[CheckOf(r)][allowed]
             n == IF allowed THEN 200 ELSE 403
             yes == TRUE
             u == [s EXCEPT !.at = at, !.allowed = allowed, !.decided = yes,
                            !.stale = stale, !.late = late, !.reply = n]
  <1>1. s \in AccessRequest
    BY Known
  <1>2. areq' = [areq EXCEPT ![r] = u]
    BY DEF Decide
  <1>3. /\ at \in AccessAt /\ at \in {"caller", "acl", "done"} /\ n \in Nat
        /\ yes \in BOOLEAN /\ stale <= CacheTtl + late
    BY After DEF AccessAt
  <1>4. stale \in 0 .. MaxTicks + 1
    BY Known DEF AccessInv, AccessTypeOK
  <1> HIDE DEF s, at, stale, n, yes
  <1>5. u \in AccessRequest
    BY <1>1, <1>3, <1>4, Decided
  <1>6. u.at = at /\ u.stale = stale /\ u.late = late
    BY <1>1 DEF AccessRequest
  <1> HIDE DEF u
  <1>7. Sound(u)
    BY <1>3, <1>6 DEF Sound
  <1> QED
    BY <1>2, <1>5, <1>7

-----------------------------------------------------------------------------
(* The steps of the handlers. *)

LEMMA AuthenticateStep ==
  ASSUME AccessInv, NEW r \in Request, Authenticate(r)
  PROVE  AccessInv'
  <1> DEFINE s == areq[r]
             at == IF s.via # "service" THEN "lookup" ELSE AfterDecision(r, TRUE)
             steady == /\ s.who \in Admins(roster) \cap Admins(warden)
                       /\ since[CheckOf(r)][FALSE] > MaxTicks
             n == IF at = "done" THEN 200 ELSE s.reply
             u == [s EXCEPT !.at = at, !.steady = steady, !.reply = n]
  <1>1. /\ s \in AccessRequest /\ Sound(s) /\ s.at = "start"
        /\ World /\ UNCHANGED <<grant, decision>>
    BY Known DEF Authenticate
  <1>2. areq' = [areq EXCEPT ![r] = u]
    BY DEF Authenticate
  <1>3. /\ at \in AccessAt /\ at \in {"lookup", "caller", "acl", "done"}
        /\ steady \in BOOLEAN
    BY After DEF AccessAt
  <1>4. n \in Nat
    BY <1>1 DEF AccessRequest
  <1> HIDE DEF s, at, steady, n
  <1>5. u \in AccessRequest
    BY <1>1, <1>3, <1>4, Allowed
  <1>6. u.at = at /\ u.stale = s.stale /\ u.late = s.late /\ u.decided = s.decided
    BY <1>1 DEF AccessRequest
  <1> HIDE DEF u
  <1>7. Sound(u)
    BY <1>1, <1>3, <1>6 DEF Sound
  <1> QED
    BY <1>1, <1>2, <1>5, <1>7, Keeps

\* A cached decision is used within its life.
LEMMA HitStep ==
  ASSUME AccessInv, NEW r \in Request, CacheHit(r)
  PROVE  AccessInv'
  <1> DEFINE k == CheckOf(r)
             allowed == decision[k].allowed
             late == decision[k].late
  <1>1. /\ World /\ UNCHANGED <<grant, decision>> /\ ~Expired(decision[k])
        /\ Decide(r, allowed, late)
    BY DEF CacheHit
  <1>2. k \in Check /\ Fresh(k) /\ decision[k] \in Cached
    BY Known DEF AccessInv, AccessTypeOK
  <1>3. /\ allowed \in BOOLEAN /\ late \in 0 .. MaxTicks
        /\ decision[k].age \in 0 .. CacheTtl + 1
    BY <1>2 DEF Cached
  <1>4. since[k][allowed] \in 0 .. MaxTicks + 1
    BY <1>2, <1>3 DEF AccessInv, AccessTypeOK
  <1>5. decision[k].age <= CacheTtl
    BY <1>1, <1>3, AccessAssumption DEF Expired
  <1>6. since[k][allowed] <= decision[k].age + late /\ late <= clock
    BY <1>2, <1>5 DEF Fresh
  <1>7. since[k][allowed] <= CacheTtl + late
    BY <1>3, <1>4, <1>5, <1>6, AccessAssumption
  <1> HIDE DEF allowed, late
  <1>8. \E u \in AccessRequest : areq' = [areq EXCEPT ![r] = u] /\ Sound(u)
    BY <1>1, <1>3, <1>6, <1>7, Decides
  <1> QED
    BY <1>1, <1>8, Keeps

\* Warden's rule says yes or no.
LEMMA HoldsOrNot ==
  ASSUME NEW role, NEW relation
  PROVE  Holds(role, relation) \in BOOLEAN
  <1>1. CASE relation = "admin"
    <2>1. Holds(role, relation) = (role \in {"admin", "owner"})
      BY <1>1 DEF Holds
    <2> QED
      BY <2>1
  <1>2. CASE relation # "admin"
    <2>1. Holds(role, relation) = (role # "none")
      BY <1>2 DEF Holds
    <2> QED
      BY <2>1
  <1> QED
    BY <1>1, <1>2

LEMMA AnswerSteps ==
  ASSUME AccessInv, NEW r \in Request, WardenAnswers(r) \/ WardenFails(r)
  PROVE  AccessInv'
  <1> DEFINE s == areq[r]
  <1>1. /\ s \in AccessRequest /\ Sound(s) /\ s.at = "ask"
        /\ World /\ UNCHANGED <<grant, decision>>
    BY Known DEF WardenAnswers, WardenFails
  <1>2. CASE WardenAnswers(r)
    <2> DEFINE allowed == Holds(warden[s.who], Needed(r))
               at == "store"
               u == [s EXCEPT !.at = at, !.allowed = allowed]
    <2>1. areq' = [areq EXCEPT ![r] = u]
      BY <1>2 DEF WardenAnswers
    <2>2. at \in AccessAt
      BY DEF AccessAt
    <2>11. allowed \in BOOLEAN
      BY HoldsOrNot
    <2>3. since[CheckFor(s)][allowed] = 0
      <3>1. CheckFor(s) \in Check /\ Fresh(CheckFor(s))
        BY Known DEF AccessInv
      <3> QED
        BY <3>1 DEF Fresh, CheckFor, Needed
    <2>4. s.late \in Nat
      BY Known
    <2> HIDE DEF s, allowed, at
    <2>5. u \in AccessRequest
      BY <1>1, <2>2, <2>11, Moved
    <2>6. /\ u.at = at /\ u.stale = s.stale /\ u.late = s.late
          /\ u.who = s.who /\ u.op = s.op
      BY <1>1 DEF AccessRequest
    <2>7. ~u.decided
      BY <1>1 DEF AccessRequest, Sound
    <2>8. u.allowed = allowed
      BY <1>1, <2>11 DEF AccessRequest
    <2> HIDE DEF u
    <2>9. since[CheckFor(u)][u.allowed] <= u.late
      BY <2>3, <2>4, <2>6, <2>8 DEF CheckFor
    <2>10. Sound(u)
      BY <1>1, <2>6, <2>7, <2>9 DEF Sound, at
    <2> QED
      BY <1>1, <2>1, <2>5, <2>10, Keeps
  <1>3. CASE WardenFails(r)
    <2> DEFINE at == AfterDecision(r, FALSE)
               yes == TRUE
               no == FALSE
               n == 403
               u == [s EXCEPT !.at = at, !.failed = yes, !.steady = no, !.reply = n]
    <2>1. areq' = [areq EXCEPT ![r] = u]
      BY <1>3 DEF WardenFails
    <2>2. at \in AccessAt /\ at \in {"caller", "acl", "done"}
      <3> HIDE DEF at
      <3>1. at \in {"caller", "acl", "done"}
        BY After DEF at
      <3> QED
        BY <3>1 DEF AccessAt
    <2>6. yes \in BOOLEAN /\ no \in BOOLEAN /\ n \in Nat
      OBVIOUS
    <2> HIDE DEF s, at, yes, no, n
    <2>3. u \in AccessRequest
      BY <1>1, <2>2, <2>6, Failed
    <2>4. u.at = at /\ u.stale = s.stale /\ u.late = s.late /\ u.decided = s.decided
      BY <1>1 DEF AccessRequest
    <2> HIDE DEF u
    <2>5. Sound(u)
      BY <1>1, <2>2, <2>4 DEF Sound
    <2> QED
      BY <1>1, <2>1, <2>3, <2>5, Keeps
  <1> QED
    BY <1>2, <1>3

\* The answer is stored as late as it came, or not at all.
LEMMA StoreStep ==
  ASSUME AccessInv, NEW r \in Request, StoreDecision(r)
  PROVE  AccessInv'
  <1> DEFINE k == CheckOf(r)
             allowed == areq[r].allowed
             late == areq[r].late
             entry == [allowed |-> allowed, age |-> 0, late |-> late]
  <1>1. /\ World /\ UNCHANGED grant /\ areq[r].at = "store"
        /\ Decide(r, allowed, late)
        /\ decision' = [decision EXCEPT ![k] = entry] \/ decision' = decision
    BY DEF StoreDecision
  <1>2. /\ k \in Check /\ k = CheckFor(areq[r])
        /\ areq[r] \in AccessRequest /\ Sound(areq[r])
        /\ CacheTtl \in Nat /\ decision \in [Check -> Cached]
    BY Known DEF AccessInv, AccessTypeOK
  <1>3. allowed \in BOOLEAN /\ late \in 0 .. MaxTicks
    BY <1>2 DEF AccessRequest
  <1>4. since[k][allowed] <= late /\ late <= clock
    BY <1>1, <1>2 DEF Sound
  <1>5. since[k][allowed] \in 0 .. MaxTicks + 1
    BY <1>2, <1>3 DEF AccessInv, AccessTypeOK
  <1>6. entry \in Cached
    BY <1>2, <1>3 DEF Cached
  <1>7. /\ entry.allowed = allowed /\ entry.age = 0 /\ entry.late = late
    OBVIOUS
  <1> HIDE DEF k, allowed, late, entry
  <1>8. since[k][allowed] <= CacheTtl + late
    BY <1>2, <1>3, <1>4, <1>5, AccessAssumption
  <1>9. \E u \in AccessRequest : areq' = [areq EXCEPT ![r] = u] /\ Sound(u)
    BY <1>1, <1>3, <1>4, <1>8, Decides DEF k
  <1>10. decision' \in [Check -> Cached]
    BY <1>1, <1>2, <1>6
  <1>11. ASSUME NEW j \in Check
         PROVE  Fresh(j)'
    <2>1. since'[j] = since[j] /\ warden' = warden /\ clock' = clock /\ Fresh(j)
      BY <1>1 DEF World, AccessInv
    <2>2. CASE decision'[j] = decision[j]
      BY <2>1, <2>2 DEF Fresh
    <2>3. CASE j = k /\ decision'[j] = entry
      BY <2>1, <2>3, <1>3, <1>4, <1>5, <1>7 DEF Fresh
    <2> QED
      BY <1>1, <1>2, <2>2, <2>3
  <1>12. grant' \in [Person -> {"none", "viewer", "editor"}] /\ GrantsBacked'
    BY <1>1 DEF AccessInv, AccessTypeOK, World, GrantsBacked
  <1> QED
    BY <1>1, <1>9, <1>10, <1>11, <1>12, Serves

LEMMA RefusalSteps ==
  ASSUME AccessInv, NEW r \in Request, Unauthorized(r) \/ HasWorkflowGrant(r)
  PROVE  AccessInv'
  <1>1. World /\ UNCHANGED <<grant, decision>> /\ \E n \in {200, 401, 403} : Respond(r, n)
    BY DEF Unauthorized, HasWorkflowGrant
  <1>2. \A n \in {200, 401, 403} : n \in Nat
    OBVIOUS
  <1> QED
    BY <1>1, <1>2, Responds

LEMMA MissStep ==
  ASSUME AccessInv, NEW r \in Request, CacheMiss(r)
  PROVE  AccessInv'
  <1>1. /\ World /\ UNCHANGED <<grant, decision>> /\ areq[r].at = "lookup"
        /\ Proceed(r, "ask")
    BY DEF CacheMiss
  <1> QED
    BY <1>1, Proceeds

\* Whoever manages grants was found on the roster, and so was the target.
LEMMA CallerSteps ==
  ASSUME AccessInv, NEW r \in Request, FindCaller(r) \/ RankCaller(r) \/ FindTarget(r)
  PROVE  AccessInv'
  <1>1. World /\ UNCHANGED <<grant, decision>>
    BY DEF FindCaller, RankCaller, FindTarget
  <1>2. CASE \E n \in {400, 403, 404} : Respond(r, n)
    <2>1. \A n \in {400, 403, 404} : n \in Nat
      OBVIOUS
    <2> QED
      BY <1>1, <1>2, <2>1, Responds
  <1>3. CASE Proceed(r, "rank")
    BY <1>1, <1>3, Proceeds
  <1>4. CASE RankCaller(r) /\ ~Respond(r, 403)
    <2>1. /\ areq[r].who \in Person /\ areq[r].op \in AccessOp
          /\ roster[areq[r].who] \in Standing
      BY Known DEF AccessInv, AccessTypeOK, AccessRequest
    <2>2. roster[areq[r].who] \in {"admin", "owner"}
      BY <1>4, <2>1 DEF RankCaller, Standing
    <2>3. areq[r].who \in Admins(roster)
      BY <2>1, <2>2 DEF Admins, Holds
    <2>4. ruled # {}
      BY <2>3 DEF AccessInv
    <2>5. CASE areq[r].op = "grant"
      <3>1. Proceed(r, "target")
        BY <1>4, <2>2, <2>5 DEF RankCaller
      <3> QED
        BY <1>1, <2>4, <3>1, Proceeds
    <2>6. CASE areq[r].op # "grant"
      <3>1. Proceed(r, "write")
        BY <1>4, <2>2, <2>6 DEF RankCaller
      <3> QED
        BY <1>1, <2>6, <3>1, Proceeds
    <2> QED
      BY <2>5, <2>6
  <1>5. CASE FindTarget(r) /\ ~Respond(r, 400)
    <2>1. /\ areq[r].at = "target" /\ roster[areq[r].target] # "none"
          /\ Proceed(r, "write")
      BY <1>5 DEF FindTarget
    <2>2. areq[r].target \in Person /\ Sound(areq[r])
      BY Known
    <2>3. areq[r].target \in Members(roster)
      BY <2>1, <2>2 DEF Members, Holds
    <2>4. areq[r].target \in joined /\ ruled # {}
      BY <2>1, <2>2, <2>3 DEF AccessInv, Sound
    <2> QED
      BY <1>1, <2>1, <2>4, Proceeds
  <1> QED
    BY <1>2, <1>3, <1>4, <1>5 DEF FindCaller, RankCaller, FindTarget

LEMMA WriteSteps ==
  ASSUME AccessInv, NEW r \in Request, WriteGrant(r) \/ RevokeGrant(r)
  PROVE  AccessInv'
  <1> DEFINE t == areq[r].target
  <1>1. World /\ UNCHANGED decision /\ areq[r].at = "write"
    BY DEF WriteGrant, RevokeGrant
  <1>2. \E n \in {200, 404} : Respond(r, n)
    BY DEF WriteGrant, RevokeGrant
  <1>3. \A n \in {200, 404} : n \in Nat
    OBVIOUS
  <1>4. \E u \in AccessRequest : areq' = [areq EXCEPT ![r] = u] /\ Sound(u)
    BY <1>1, <1>2, <1>3, Responds
  <1>5. t \in Person /\ Sound(areq[r]) /\ areq[r].permission \in {"viewer", "editor"}
    BY Known DEF AccessRequest
  <1>6. \A k \in Check : Fresh(k)'
    BY <1>1 DEF AccessInv, World, Fresh
  <1>7. decision' \in [Check -> Cached]
    BY <1>1 DEF AccessInv, AccessTypeOK
  <1>8. CASE WriteGrant(r)
    <2>1. areq[r].op = "grant" /\ grant' = [grant EXCEPT ![t] = areq[r].permission]
      BY <1>8 DEF WriteGrant
    <2>2. t \in joined /\ ruled # {}
      BY <1>1, <1>5, <2>1 DEF Sound
    <2>3. grant' \in [Person -> {"none", "viewer", "editor"}] /\ GrantsBacked'
      BY <1>1, <1>5, <2>1, <2>2 DEF AccessInv, AccessTypeOK, World, GrantsBacked
    <2> QED
      BY <1>1, <1>4, <1>6, <1>7, <2>3, Serves
  <1>9. CASE RevokeGrant(r)
    <2>1. grant' = [grant EXCEPT ![t] = "none"]
      BY <1>9 DEF RevokeGrant
    <2>2. grant' \in [Person -> {"none", "viewer", "editor"}] /\ GrantsBacked'
      BY <1>1, <1>5, <2>1 DEF AccessInv, AccessTypeOK, World, GrantsBacked
    <2> QED
      BY <1>1, <1>4, <1>6, <1>7, <2>2, Serves
  <1> QED
    BY <1>8, <1>9

-----------------------------------------------------------------------------
(* The steps of the world. *)

LEMMA TickStep ==
  ASSUME AccessInv, Tick
  PROVE  AccessInv'
  <1>1. /\ clock \in 0 .. MaxTicks /\ clock < MaxTicks /\ clock' = clock + 1
        /\ UNCHANGED <<warden, roster, grant, changes, joined, ruled>>
        /\ MaxTicks \in Nat /\ CacheTtl \in Nat
    BY AccessAssumption DEF AccessInv, AccessTypeOK, Tick
  <1>2. ASSUME NEW k \in Check
        PROVE  /\ decision'[k] \in Cached
               /\ decision'[k].allowed = decision[k].allowed
               /\ decision'[k].late = decision[k].late
               /\ IF decision[k].age > CacheTtl
                    THEN decision'[k].age = decision[k].age
                    ELSE decision'[k].age = decision[k].age + 1
    <2> DEFINE d == decision[k]
    <2>1. d \in Cached
      BY DEF AccessInv, AccessTypeOK
    <2>2. decision'[k] = [d EXCEPT !.age = IF @ > CacheTtl THEN @ ELSE @ + 1]
      BY DEF Tick
    <2> HIDE DEF d
    <2>3. d.age \in 0 .. CacheTtl + 1
      BY <2>1 DEF Cached
    <2>4. CASE d.age > CacheTtl
      <3>1. decision'[k] = d
        BY <2>1, <2>2, <2>4 DEF Cached
      <3> QED
        BY <2>1, <2>4, <3>1 DEF d
    <2>5. CASE ~(d.age > CacheTtl)
      <3>1. decision'[k] = [d EXCEPT !.age = d.age + 1]
        BY <2>2, <2>5
      <3>2. d.age + 1 \in 0 .. CacheTtl + 1
        BY <1>1, <2>3, <2>5
      <3>3. /\ decision'[k] \in Cached
            /\ decision'[k].allowed = d.allowed /\ decision'[k].late = d.late
            /\ decision'[k].age = d.age + 1
        BY <2>1, <3>1, <3>2 DEF Cached
      <3> QED
        BY <2>5, <3>3 DEF d
    <2> QED
      BY <2>4, <2>5
  <1>3. ASSUME NEW k \in Check, NEW b \in BOOLEAN
        PROVE  /\ since[k][b] \in 0 .. MaxTicks + 1
               /\ since'[k][b] \in 0 .. MaxTicks + 1
               /\ since'[k][b] <= since[k][b] + 1
               /\ b = Holds(warden[k[1]], k[2]) => since'[k][b] = since[k][b]
    <2>1. since[k][b] \in 0 .. MaxTicks + 1
      BY DEF AccessInv, AccessTypeOK
    <2>2. since'[k][b] = IF b = Holds(warden[k[1]], k[2]) \/ since[k][b] > MaxTicks
                           THEN since[k][b] ELSE since[k][b] + 1
      BY DEF Tick
    <2> QED
      BY <1>1, <2>1, <2>2
  <1>4. decision' \in [Check -> Cached]
    BY <1>2 DEF Tick
  <1>5. since' \in [Check -> [BOOLEAN -> 0 .. MaxTicks + 1]]
    BY <1>3 DEF Tick
  <1>6. ASSUME NEW r \in Request
        PROVE  areq'[r] \in AccessRequest /\ Sound(areq[r])'
    <2> DEFINE s == areq[r]
    <2>1. /\ s \in AccessRequest /\ Sound(s) /\ s.late \in 0 .. MaxTicks
          /\ s.late <= clock
      BY Known DEF Sound
    <2>2. CASE s.at = "store"
      <3> DEFINE l == s.late + 1
                 u == [s EXCEPT !.late = l]
      <3>1. areq'[r] = u
        BY <2>2 DEF Tick
      <3>2. l \in 0 .. MaxTicks /\ l <= clock'
        BY <1>1, <2>1
      <3> HIDE DEF s
      <3>3. /\ s.allowed \in BOOLEAN /\ CheckFor(s) \in Check
        BY <2>1 DEF AccessRequest, CheckFor, Check, Relation
      <3>4. since[CheckFor(s)][s.allowed] <= s.late /\ ~s.decided
        BY <2>1, <2>2 DEF Sound
      <3>5. since'[CheckFor(s)][s.allowed] <= l
        BY <1>1, <1>3, <2>1, <3>3, <3>4
      <3> HIDE DEF l
      <3>6. u \in AccessRequest
        BY <2>1, <3>2, Aged
      <3>7. /\ u.at = s.at /\ u.allowed = s.allowed /\ u.late = l /\ u.who = s.who
            /\ u.op = s.op /\ u.decided = s.decided
        BY <2>1 DEF AccessRequest
      <3> HIDE DEF u
      <3>8. CheckFor(u) = CheckFor(s)
        BY <3>7 DEF CheckFor
      <3>9. ASSUME NEW t, areq'[r] = t, t = u
            PROVE  Sound(areq[r])'
        BY <2>2, <3>2, <3>4, <3>5, <3>7, <3>8, <3>9 DEF Sound, CheckFor
      <3> QED
        BY <3>1, <3>6, <3>9
    <2>3. CASE s.at # "store"
      <3>1. areq'[r] = s
        BY <2>3 DEF Tick
      <3> HIDE DEF s
      <3>2. ASSUME NEW t, areq'[r] = t, t = s
            PROVE  Sound(areq[r])'
        BY <1>1, <2>1, <2>3, <3>2 DEF Sound
      <3> QED
        BY <2>1, <3>1, <3>2
    <2> QED
      BY <2>2, <2>3
  <1>7. areq' \in [Request -> AccessRequest]
    BY <1>6 DEF Tick
  <1>8. AccessTypeOK'
    BY <1>1, <1>4, <1>5, <1>7 DEF AccessInv, AccessTypeOK
  <1>9. ASSUME NEW k \in Check
        PROVE  Fresh(k)'
    <2>1. /\ Fresh(k) /\ decision[k] \in Cached
      BY DEF AccessInv, AccessTypeOK
    <2>2. /\ decision[k].allowed \in BOOLEAN /\ decision[k].late \in 0 .. MaxTicks
          /\ decision[k].age \in 0 .. CacheTtl + 1
      BY <2>1 DEF Cached
    <2>3. decision'[k].late <= clock'
      BY <1>1, <1>2, <2>1, <2>2 DEF Fresh
    <2>4. since'[k][Holds(warden'[k[1]], k[2])] = 0
      <3>1. Holds(warden[k[1]], k[2]) \in BOOLEAN
        BY HoldsOrNot
      <3> QED
        BY <1>1, <1>3, <2>1, <3>1 DEF Fresh
    <2>5. decision'[k].age <= CacheTtl =>
            since'[k][decision'[k].allowed] <= decision'[k].age + decision'[k].late
      <3>1. SUFFICES ASSUME decision'[k].age <= CacheTtl
                     PROVE  since'[k][decision'[k].allowed]
                              <= decision'[k].age + decision'[k].late
        OBVIOUS
      <3> DEFINE a == decision[k].allowed
      <3>2. decision[k].age <= CacheTtl /\ decision'[k].age = decision[k].age + 1
        BY <1>1, <1>2, <2>2, <3>1
      <3>3. since[k][a] <= decision[k].age + decision[k].late
        BY <2>1, <3>2 DEF Fresh
      <3>4. /\ since[k][a] \in 0 .. MaxTicks + 1 /\ since'[k][a] \in 0 .. MaxTicks + 1
            /\ since'[k][a] <= since[k][a] + 1
        BY <1>3, <2>2
      <3>5. decision'[k].allowed = a /\ decision'[k].late = decision[k].late
        BY <1>2
      <3> HIDE DEF a
      <3> QED
        BY <2>2, <3>2, <3>3, <3>4, <3>5
    <2> QED
      BY <2>3, <2>4, <2>5 DEF Fresh
  <1>10. /\ GrantsBacked' /\ Members(roster)' \subseteq joined'
         /\ Admins(roster)' \subseteq ruled'
    BY <1>1 DEF AccessInv, GrantsBacked, Members, Admins
  <1> QED
    BY <1>6, <1>8, <1>9, <1>10 DEF AccessInv

\* Losing the admin's role changes nothing a request relies on.
LEMMA UnsteadyKeeps ==
  ASSUME AccessInv, NEW p \in Person, NEW role \in Standing, areq' = Unsteady(p, role)
  PROVE  /\ areq' \in [Request -> AccessRequest]
         /\ \A r \in Request :
              /\ areq'[r].at = areq[r].at /\ areq'[r].op = areq[r].op
              /\ areq'[r].who = areq[r].who /\ areq'[r].target = areq[r].target
              /\ areq'[r].allowed = areq[r].allowed
              /\ areq'[r].decided = areq[r].decided
              /\ areq'[r].stale = areq[r].stale /\ areq'[r].late = areq[r].late
  <1>1. ASSUME NEW r \in Request
        PROVE  /\ areq'[r] \in AccessRequest
               /\ areq'[r].at = areq[r].at /\ areq'[r].op = areq[r].op
               /\ areq'[r].who = areq[r].who /\ areq'[r].target = areq[r].target
               /\ areq'[r].allowed = areq[r].allowed
               /\ areq'[r].decided = areq[r].decided
               /\ areq'[r].stale = areq[r].stale /\ areq'[r].late = areq[r].late
    <2> DEFINE s == areq[r]
               no == FALSE
               u == [s EXCEPT !.steady = no]
    <2>1. s \in AccessRequest /\ no \in BOOLEAN
      BY Known
    <2>2. areq'[r] = s \/ areq'[r] = u
      BY DEF Unsteady
    <2> HIDE DEF s, no
    <2>3. /\ u \in AccessRequest
          /\ u.at = s.at /\ u.op = s.op /\ u.who = s.who /\ u.target = s.target
          /\ u.allowed = s.allowed /\ u.decided = s.decided
          /\ u.stale = s.stale /\ u.late = s.late
      BY <2>1 DEF AccessRequest
    <2> HIDE DEF u
    <2> QED
      BY <2>1, <2>2, <2>3 DEF s
  <1> QED
    BY <1>1 DEF Unsteady

LEMMA WardenStep ==
  ASSUME AccessInv, NEW p \in Person, NEW role \in Standing, WardenChanges(p, role)
  PROVE  AccessInv'
  <1>1. /\ changes \in 0 .. MaxChanges /\ changes < MaxChanges /\ changes' = changes + 1
        /\ warden' = [warden EXCEPT ![p] = role]
        /\ UNCHANGED <<roster, grant, decision, clock, joined, ruled>>
        /\ areq' = Unsteady(p, role)
        /\ MaxChanges \in Nat /\ MaxTicks \in Nat
    BY AccessAssumption DEF AccessInv, AccessTypeOK, WardenChanges
  <1>2. /\ warden \in [Person -> Standing]
        /\ since \in [Check -> [BOOLEAN -> 0 .. MaxTicks + 1]]
    BY DEF AccessInv, AccessTypeOK
  <1>3. ASSUME NEW k \in Check
        PROVE  /\ since'[k] \in [BOOLEAN -> 0 .. MaxTicks + 1]
               /\ \A b \in BOOLEAN : since'[k][b] <= since[k][b]
               /\ since'[k][Holds(warden'[k[1]], k[2])] = 0
    <2>1. k[1] \in Person /\ since[k] \in [BOOLEAN -> 0 .. MaxTicks + 1] /\ Fresh(k)
      BY <1>2 DEF Check, AccessInv
    <2>2. CASE k[1] = p
      <3> DEFINE a == Holds(role, k[2])
      <3>1. since'[k] = [since[k] EXCEPT ![a] = 0] /\ warden'[k[1]] = role
        BY <1>1, <1>2, <2>2 DEF WardenChanges
      <3>2. a \in BOOLEAN
        BY HoldsOrNot
      <3>3. a = Holds(warden'[k[1]], k[2])
        BY <3>1
      <3> HIDE DEF a
      <3>4. /\ since'[k] \in [BOOLEAN -> 0 .. MaxTicks + 1]
            /\ since'[k][a] = 0
            /\ \A b \in BOOLEAN : b # a => since'[k][b] = since[k][b]
        BY <1>1, <2>1, <3>1, <3>2
      <3>5. \A b \in BOOLEAN : since'[k][b] <= since[k][b]
        <4>1. TAKE b \in BOOLEAN
        <4>2. since[k][b] \in 0 .. MaxTicks + 1
          BY <2>1
        <4> QED
          BY <3>4, <4>2
      <3> QED
        BY <3>3, <3>4, <3>5
    <2>3. CASE k[1] # p
      <3>1. since'[k] = since[k] /\ warden'[k[1]] = warden[k[1]]
        BY <1>1, <1>2, <2>1, <2>3 DEF WardenChanges
      <3>2. \A b \in BOOLEAN : since[k][b] \in 0 .. MaxTicks + 1
        BY <2>1
      <3> QED
        BY <2>1, <3>1, <3>2 DEF Fresh
    <2> QED
      BY <2>2, <2>3
  <1>4. since' \in [Check -> [BOOLEAN -> 0 .. MaxTicks + 1]]
    BY <1>3 DEF WardenChanges
  <1>5. AccessTypeOK'
    BY <1>1, <1>2, <1>4, UnsteadyKeeps DEF AccessInv, AccessTypeOK
  <1>6. ASSUME NEW k \in Check, NEW b \in BOOLEAN
        PROVE  /\ since[k][b] \in 0 .. MaxTicks + 1 /\ since'[k][b] \in 0 .. MaxTicks + 1
               /\ since'[k][b] <= since[k][b]
    BY <1>2, <1>3
  <1>7. ASSUME NEW k \in Check
        PROVE  Fresh(k)'
    <2>1. decision[k] \in Cached /\ Fresh(k) /\ CacheTtl \in Nat
      BY AccessAssumption DEF AccessInv, AccessTypeOK
    <2>2. /\ decision[k].allowed \in BOOLEAN /\ decision[k].late \in 0 .. MaxTicks
          /\ decision[k].age \in 0 .. CacheTtl + 1
      BY <2>1 DEF Cached
    <2>3. decision[k].age <= CacheTtl =>
            since'[k][decision[k].allowed] <= decision[k].age + decision[k].late
      BY <1>6, <2>1, <2>2 DEF Fresh
    <2>4. decision[k].late <= clock
      BY <2>1 DEF Fresh
    <2> QED
      BY <1>1, <1>3, <2>3, <2>4 DEF Fresh
  <1>8. ASSUME NEW r \in Request
        PROVE  Sound(areq[r])'
    <2> DEFINE s == areq[r]
    <2>1. /\ s \in AccessRequest /\ Sound(s) /\ s.allowed \in BOOLEAN
          /\ s.late \in 0 .. MaxTicks /\ CheckFor(s) \in Check
      BY Known DEF AccessRequest
    <2>2. s.at = "store" => since'[CheckFor(s)][s.allowed] <= s.late
      <3>1. SUFFICES ASSUME s.at = "store"
                     PROVE  since'[CheckFor(s)][s.allowed] <= s.late
        OBVIOUS
      <3>2. since[CheckFor(s)][s.allowed] <= s.late
        BY <2>1, <3>1 DEF Sound
      <3> HIDE DEF s
      <3> QED
        BY <1>6, <2>1, <3>2
    <2>3. /\ areq'[r].at = s.at /\ areq'[r].op = s.op /\ areq'[r].who = s.who
          /\ areq'[r].target = s.target /\ areq'[r].allowed = s.allowed
          /\ areq'[r].decided = s.decided /\ areq'[r].stale = s.stale
          /\ areq'[r].late = s.late
      BY <1>1, UnsteadyKeeps
    <2> HIDE DEF s
    <2>4. <<areq'[r].who, IF areq'[r].op = "read" THEN "member" ELSE "admin">>
             = CheckFor(s)
      BY <2>3 DEF CheckFor
    <2> QED
      BY <1>1, <2>1, <2>2, <2>3, <2>4 DEF Sound, CheckFor
  <1>9. /\ GrantsBacked' /\ Members(roster)' \subseteq joined'
        /\ Admins(roster)' \subseteq ruled'
    BY <1>1 DEF AccessInv, GrantsBacked, Members, Admins
  <1> QED
    BY <1>5, <1>7, <1>8, <1>9 DEF AccessInv

LEMMA RosterStep ==
  ASSUME AccessInv, NEW p \in Person, NEW role \in Standing, RosterChanges(p, role)
  PROVE  AccessInv'
  <1>1. /\ changes \in 0 .. MaxChanges /\ changes < MaxChanges /\ changes' = changes + 1
        /\ roster' = [roster EXCEPT ![p] = role]
        /\ joined' = joined \cup Members(roster') /\ ruled' = ruled \cup Admins(roster')
        /\ UNCHANGED <<warden, grant, decision, clock, since>>
        /\ areq' = Unsteady(p, role)
        /\ MaxChanges \in Nat
    BY AccessAssumption DEF AccessInv, AccessTypeOK, RosterChanges
  <1>2. joined' \subseteq Person /\ ruled' \subseteq Person
    BY <1>1 DEF AccessInv, AccessTypeOK, Members, Admins
  <1>3. AccessTypeOK'
    <2>1. areq' \in [Request -> AccessRequest] /\ changes' \in 0 .. MaxChanges
      BY <1>1, UnsteadyKeeps
    <2>2. roster' \in [Person -> Standing]
      BY <1>1 DEF AccessInv, AccessTypeOK
    <2> QED
      BY <1>1, <1>2, <2>1, <2>2 DEF AccessInv, AccessTypeOK
  <1>4. \A k \in Check : Fresh(k)'
    BY <1>1 DEF AccessInv, Fresh
  <1>5. ASSUME NEW r \in Request
        PROVE  Sound(areq[r])'
    <2> DEFINE s == areq[r]
    <2>1. Sound(s)
      BY Known
    <2>2. /\ areq'[r].at = s.at /\ areq'[r].op = s.op /\ areq'[r].who = s.who
          /\ areq'[r].target = s.target /\ areq'[r].allowed = s.allowed
          /\ areq'[r].decided = s.decided /\ areq'[r].stale = s.stale
          /\ areq'[r].late = s.late
      BY <1>1, UnsteadyKeeps
    <2>3. joined \subseteq joined' /\ ruled \subseteq ruled'
      BY <1>1
    <2> HIDE DEF s
    <2>4. <<areq'[r].who, IF areq'[r].op = "read" THEN "member" ELSE "admin">>
             = CheckFor(s)
      BY <2>2 DEF CheckFor
    <2> QED
      BY <1>1, <2>1, <2>2, <2>3, <2>4 DEF Sound, CheckFor
  <1>6. GrantsBacked'
    BY <1>1 DEF AccessInv, GrantsBacked
  <1>7. Members(roster)' \subseteq joined' /\ Admins(roster)' \subseteq ruled'
    BY <1>1 DEF Members, Admins
  <1> QED
    BY <1>3, <1>4, <1>5, <1>6, <1>7 DEF AccessInv

-----------------------------------------------------------------------------
(* The theorems. *)

LEMMA AccessStarts == AccessInit => AccessInv
  <1> SUFFICES ASSUME AccessInit
               PROVE  AccessInv
    OBVIOUS
  <1>1. /\ warden = InitialRole /\ roster = InitialRole
        /\ grant = [p \in Person |-> "none"]
        /\ decision = [k \in Check |-> NoEntry]
        /\ clock = 0 /\ changes = 0
        /\ joined = Members(InitialRole) /\ ruled = Admins(InitialRole)
        /\ areq \in AccessMix
    BY DEF AccessInit, AccessStart
  <1>2. /\ InitialRole \in [Person -> Standing] /\ CacheTtl \in Nat
        /\ MaxTicks \in Nat /\ MaxChanges \in Nat
        /\ areq \in [Request -> AccessRequest]
        /\ \A r \in Request : /\ areq[r].at \in {"start", "done"}
                              /\ ~areq[r].decided /\ areq[r].late = 0
    BY <1>1, AccessAssumption
  <1>3. NoEntry \in Cached /\ NoEntry.age = CacheTtl + 1 /\ NoEntry.late = 0
    BY <1>2 DEF NoEntry, Cached
  <1>4. ASSUME NEW k \in Check
        PROVE  /\ since[k] \in [BOOLEAN -> 0 .. MaxTicks + 1]
               /\ since[k][Holds(warden[k[1]], k[2])] = 0
    <2>1. since[k] = [b \in BOOLEAN |->
                        IF b = Holds(InitialRole[k[1]], k[2]) THEN 0 ELSE MaxTicks + 1]
      BY DEF AccessInit, AccessStart
    <2>2. Holds(InitialRole[k[1]], k[2]) \in BOOLEAN
      BY HoldsOrNot
    <2> QED
      BY <1>1, <1>2, <2>1, <2>2
  <1>5. since \in [Check -> [BOOLEAN -> 0 .. MaxTicks + 1]]
    BY <1>4 DEF AccessInit, AccessStart
  <1>6. joined \subseteq Person /\ ruled \subseteq Person
    BY <1>1 DEF Members, Admins
  <1>7. AccessTypeOK
    <2>1. decision \in [Check -> Cached]
      BY <1>1, <1>3
    <2> QED
      BY <1>1, <1>2, <1>5, <1>6, <2>1 DEF AccessTypeOK
  <1>8. GrantsBacked
    BY <1>1 DEF GrantsBacked
  <1>9. ASSUME NEW k \in Check
        PROVE  Fresh(k)
    BY <1>1, <1>2, <1>3, <1>4 DEF Fresh
  <1>10. ASSUME NEW r \in Request
         PROVE  Sound(areq[r])
    BY <1>1, <1>2 DEF Sound
  <1> QED
    BY <1>1, <1>7, <1>8, <1>9, <1>10 DEF AccessInv

LEMMA AccessSteps == AccessInv /\ [AccessNext]_accessVars => AccessInv'
  <1> SUFFICES ASSUME AccessInv, [AccessNext]_accessVars
               PROVE  AccessInv'
    OBVIOUS
  <1>1. CASE Tick
    BY <1>1, TickStep
  <1>2. ASSUME NEW p \in Person, NEW role \in Becomes,
               WardenChanges(p, role) \/ RosterChanges(p, role)
        PROVE  AccessInv'
    <2>1. role \in Standing
      BY AccessAssumption
    <2> QED
      BY <1>2, <2>1, WardenStep, RosterStep
  <1>3. ASSUME NEW r \in Request, ServeAccess(r)
        PROVE  AccessInv'
    BY <1>3, RefusalSteps, AuthenticateStep, HitStep, MissStep, AnswerSteps,
       StoreStep, CallerSteps, WriteSteps DEF ServeAccess
  <1>4. CASE UNCHANGED accessVars
    <2>1. /\ UNCHANGED <<warden, roster, grant, decision, areq, clock, changes>>
          /\ UNCHANGED <<since, joined, ruled>>
      BY <1>4 DEF accessVars
    <2>2. AccessTypeOK' /\ GrantsBacked'
      BY <2>1 DEF AccessInv, AccessTypeOK, GrantsBacked
    <2>3. Members(roster)' \subseteq joined' /\ Admins(roster)' \subseteq ruled'
      BY <2>1 DEF AccessInv, Members, Admins
    <2>4. \A k \in Check : Fresh(k)'
      BY <2>1 DEF AccessInv, Fresh
    <2>5. \A r \in Request : Sound(areq[r])'
      BY <2>1 DEF AccessInv, Sound
    <2> QED
      BY <2>2, <2>3, <2>4, <2>5 DEF AccessInv
  <1> QED
    BY <1>1, <1>2, <1>3, <1>4 DEF AccessNext

(* The inductive invariant of the organization's decisions and grants. *)
THEOREM AccessInvariant == AccessSpec => []AccessInv
  BY AccessStarts, AccessSteps, PTL DEF AccessSpec

(* Every variable keeps its type. *)
THEOREM AccessTypes == AccessSpec => []AccessTypeOK
  <1>1. AccessInv => AccessTypeOK
    BY DEF AccessInv
  <1> QED
    BY <1>1, AccessInvariant, PTL

(* A decision is never older than the cache's life and the answer's way into
   the cache, however requests, changes of roles and time interleave.        *)
THEOREM DecisionsFresh == AccessSpec => []DecisionsExpire
  <1>1. AccessInv => DecisionsExpire
    BY DEF AccessInv, Sound, DecisionsExpire
  <1> QED
    BY <1>1, AccessInvariant, PTL

(* No grant without its holder's membership and an admin's rule, at some time. *)
THEOREM GrantsEarned == AccessSpec => []GrantsBacked
  <1>1. AccessInv => GrantsBacked
    BY DEF AccessInv
  <1> QED
    BY <1>1, AccessInvariant, PTL
=============================================================================
