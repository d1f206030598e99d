-------------------------- MODULE EventPlane_proofs --------------------------
(***************************************************************************)
(* Proofs about the sweeps, the run streams, the events that are sent      *)
(* again, and the composition of those with the polls: for any requests,   *)
(* organizations, letters, events and days.                                *)
(***************************************************************************)
EXTENDS EventPlane, PollingScan_proofs, FiniteSetTheorems

(* SWEEPS: any processes, ticks in flight, life of the keys and failures. *)

Entry == [token : Beat \cup {NoToken}, ttl : Nat]

\* What the operations on a key make of an entry.
LEMMA Entries ==
  ASSUME NEW e \in Entry, NEW n \in Nat, NEW x \in Beat \cup {NoToken}
  PROVE  /\ [e EXCEPT !.ttl = n] \in Entry
         /\ [e EXCEPT !.ttl = n].ttl = n
         /\ [e EXCEPT !.ttl = n].token = e.token
         /\ [e EXCEPT !.token = x] \in Entry
         /\ [token |-> x, ttl |-> n] \in Entry
         /\ [token |-> x, ttl |-> n].token = x
         /\ [token |-> x, ttl |-> n].ttl = n
  BY DEF Entry

\* The absent entry belongs to no tick.
LEMMA Absence ==
  /\ Key!NoEntry \in Entry
  /\ Key!NoEntry.token = NoToken
  /\ NoToken \notin Beat
  BY SweepAssumption DEF Key!NoEntry, Entry

\* A tick at work whose time is not over holds the key, for just that time: what
\* keeps the others out.
Held ==
    \A t \in Beat : Working(t) /\ term[t] > 0 =>
        /\ job \in Job
        /\ sweepLock[job].token = t
        /\ sweepLock[job].ttl = term[t]

ApartInv == SweepTypeOK /\ Held

LEMMA Types ==
  ASSUME ApartInv
  PROVE  /\ sweepLock \in [Job -> Entry]
         /\ beat \in [Beat -> {"idle", "acquire", "work", "release"}]
         /\ term \in [Beat -> 0 .. SweepTTL]
         /\ troubles \in 0 .. MaxTroubles
         /\ job \in Job \cup {"none"}
         /\ SweepTTL \in Nat \ {0} /\ MaxTroubles \in Nat
  BY SweepAssumption DEF ApartInv, SweepTypeOK, Key!LockTypeOK, Entry

LEMMA Typed ==
  ASSUME sweepLock' \in [Job -> Entry],
         beat' \in [Beat -> {"idle", "acquire", "work", "release"}],
         term' \in [Beat -> 0 .. SweepTTL],
         troubles' \in 0 .. MaxTroubles,
         job' \in Job \cup {"none"}
  PROVE  SweepTypeOK'
  BY DEF SweepTypeOK, Key!LockTypeOK, Entry

LEMMA Troubled ==
  ASSUME ApartInv, Trouble
  PROVE  troubles' \in 0 .. MaxTroubles
  BY Types DEF Trouble

-----------------------------------------------------------------------------
\* A tick that is not at work, and a step that touches neither the key nor the
\* terms.
LEMMA Begins ==
  ASSUME ApartInv, NEW t \in Beat, NEW label \in {"idle", "acquire", "release"},
         To(t, label), label = "release" => Working(t), Rest
  PROVE  ApartInv'
  <1>1. beat' \in [Beat -> {"idle", "acquire", "work", "release"}]
    BY Types DEF To
  <1>2. SweepTypeOK'
    BY <1>1, Types, Typed DEF Rest
  <1>3. \A s \in Beat : Working(s)' => Working(s)
    BY Types DEF To, Working
  <1>4. Held'
    BY <1>3 DEF Held, Rest, ApartInv
  <1> QED
    BY <1>2, <1>4 DEF ApartInv

\* Whoever sets an absent key takes it from nobody.
LEMMA Takes ==
  ASSUME ApartInv, NEW t \in Beat, job # "none", TakeKey(t)
  PROVE  ApartInv'
  <1>1. job \in Job /\ job' = job /\ beat[t] = "acquire"
    BY Types DEF TakeKey
  <1>2. CASE /\ Key!SetNX(job, t) /\ To(t, "work")
             /\ term' = [term EXCEPT ![t] = SweepTTL] /\ UNCHANGED troubles
    <2> DEFINE e == [token |-> t, ttl |-> SweepTTL]
    <2>1. e \in Entry /\ e.token = t /\ e.ttl = SweepTTL
      BY Types, Entries
    <2>2. /\ sweepLock' = [sweepLock EXCEPT ![job] = e]
          /\ sweepLock[job] = Key!NoEntry
      BY <1>2 DEF Key!SetNX, Key!Absent
    <2> HIDE DEF e
    <2>3. /\ sweepLock' \in [Job -> Entry] /\ sweepLock'[job] = e
          /\ beat' \in [Beat -> {"idle", "acquire", "work", "release"}]
          /\ \A s \in Beat \ {t} : beat'[s] = beat[s] /\ term'[s] = term[s]
          /\ term' \in [Beat -> 0 .. SweepTTL] /\ term'[t] = SweepTTL
      BY <1>1, <1>2, <2>1, <2>2, Types DEF To
    <2>4. \A s \in Beat \ {t} : ~(Working(s) /\ term[s] > 0)
      BY <2>2, Absence DEF ApartInv, Held
    <2>5. Held'
      BY <1>1, <2>1, <2>3, <2>4 DEF Held, Working
    <2>6. SweepTypeOK'
      BY <1>1, <1>2, <2>3, Types, Typed
    <2> QED
      BY <2>5, <2>6 DEF ApartInv
  <1>3. CASE /\ To(t, "idle") /\ UNCHANGED <<sweepLock, term, troubles>>
    BY <1>1, <1>3, Begins DEF Rest
  <1>4. CASE /\ Trouble /\ (UNCHANGED sweepLock \/ Key!SetNX(job, NoToken))
             /\ To(t, "idle") /\ UNCHANGED term
    <2>1. /\ beat' \in [Beat -> {"idle", "acquire", "work", "release"}]
          /\ \A s \in Beat : Working(s)' => Working(s)
      BY <1>4, Types DEF To, Working
    <2>2. CASE UNCHANGED sweepLock
      <3>1. Held'
        BY <1>1, <1>4, <2>1, <2>2 DEF Held, ApartInv
      <3>2. SweepTypeOK'
        BY <1>1, <1>4, <2>1, <2>2, Types, Typed, Troubled
      <3> QED
        BY <3>1, <3>2 DEF ApartInv
    <2>3. CASE Key!SetNX(job, NoToken)
      <3> DEFINE e == [token |-> NoToken, ttl |-> SweepTTL]
      <3>1. e \in Entry
        BY Types, Entries
      <3>2. /\ sweepLock' = [sweepLock EXCEPT ![job] = e]
            /\ sweepLock[job] = Key!NoEntry
        BY <2>3 DEF Key!SetNX, Key!Absent
      <3> HIDE DEF e
      <3>3. sweepLock' \in [Job -> Entry]
        BY <3>1, <3>2, Types
      <3>4. \A s \in Beat : ~(Working(s) /\ term[s] > 0)
        BY <3>2, Absence DEF ApartInv, Held
      <3>5. Held'
        BY <1>4, <2>1, <3>4 DEF Held
      <3>6. SweepTypeOK'
        BY <1>1, <1>4, <2>1, <3>3, Types, Typed, Troubled
      <3> QED
        BY <3>5, <3>6 DEF ApartInv
    <2> QED
      BY <1>4, <2>2, <2>3
  <1> QED
    BY <1>2, <1>3, <1>4 DEF TakeKey

\* A release deletes the key only with the token of the one who releases.
LEMMA Gives ==
  ASSUME ApartInv, NEW t \in Beat, job \in Job, GiveKey(t)
  PROVE  ApartInv'
  <1>1. /\ job' = job
        /\ beat' \in [Beat -> {"idle", "acquire", "work", "release"}]
        /\ beat'[t] = "idle" /\ term'[t] = 0
        /\ \A s \in Beat \ {t} : beat'[s] = beat[s] /\ term'[s] = term[s]
        /\ term' \in [Beat -> 0 .. SweepTTL]
    BY Types DEF GiveKey, To
  <1>2. CASE Key!CompareAndDelete(job, t) /\ UNCHANGED troubles
    <2>1. sweepLock' \in [Job -> Entry]
      BY <1>2, Types, Absence DEF Key!CompareAndDelete
    <2>2. ASSUME NEW s \in Beat \ {t}, sweepLock[job].token = s
          PROVE  sweepLock'[job] = sweepLock[job]
      BY <1>2, <2>2 DEF Key!CompareAndDelete
    <2>3. Held'
      BY <1>1, <2>2 DEF Held, Working, ApartInv
    <2>4. SweepTypeOK'
      BY <1>1, <1>2, <2>1, Types, Typed
    <2> QED
      BY <2>3, <2>4 DEF ApartInv
  <1>3. CASE Trouble /\ Key!Orphan({t})
    <2>1. /\ sweepLock' \in [Job -> Entry]
          /\ sweepLock[job].token # t => sweepLock'[job] = sweepLock[job]
      BY <1>3, Types, Entries DEF Key!Orphan
    <2>2. Held'
      BY <1>1, <2>1 DEF Held, Working, ApartInv
    <2>3. SweepTypeOK'
      BY <1>1, <1>3, <2>1, Types, Typed, Troubled
    <2> QED
      BY <2>2, <2>3 DEF ApartInv
  <1> QED
    BY <1>2, <1>3 DEF GiveKey

\* The keys of a process that dies are orphaned, those of the others are not.
LEMMA Reboots ==
  ASSUME ApartInv, NEW h \in Host, Reboot(h)
  PROVE  ApartInv'
  <1> DEFINE Dead == {t \in Beat : t[1] = h /\ beat[t] # "idle"}
  <1>1. /\ Trouble /\ job' = job
        /\ beat' = [t \in Beat |-> IF t \in Dead THEN "idle" ELSE beat[t]]
        /\ term' = [t \in Beat |-> IF t \in Dead THEN 0 ELSE term[t]]
        /\ Key!Orphan(Dead)
    BY DEF Reboot
  <1> HIDE DEF Dead
  <1>2. /\ beat' \in [Beat -> {"idle", "acquire", "work", "release"}]
        /\ term' \in [Beat -> 0 .. SweepTTL]
    BY <1>1, Types
  <1>3. sweepLock' \in [Job -> Entry]
    BY <1>1, Types, Entries DEF Key!Orphan
  <1>4. job \in Job /\ sweepLock[job].token \notin Dead
          => sweepLock'[job] = sweepLock[job]
    BY <1>1 DEF Key!Orphan
  <1>5. Held'
    BY <1>1, <1>4 DEF Held, Working, ApartInv
  <1>6. SweepTypeOK'
    BY <1>1, <1>2, <1>3, Types, Typed, Troubled
  <1> QED
    BY <1>5, <1>6 DEF ApartInv

\* The time of the key and that of its holder run down together.
LEMMA Passes ==
  ASSUME ApartInv, TimePasses
  PROVE  ApartInv'
  <1>1. /\ job' = job /\ beat' = beat /\ troubles' = troubles /\ job \in Job
        /\ term' = [t \in Beat |-> IF term[t] = 0 THEN 0 ELSE term[t] - 1]
    BY Types DEF TimePasses
  <1>2. term' \in [Beat -> 0 .. SweepTTL]
    BY <1>1, Types
  <1>3. ASSUME NEW j \in Job
        PROVE  /\ sweepLock'[j] \in Entry
               /\ sweepLock[j].ttl > 1 => /\ sweepLock'[j].token = sweepLock[j].token
                                          /\ sweepLock'[j].ttl = sweepLock[j].ttl - 1
    <2> DEFINE e == sweepLock[j]
               n == e.ttl - 1
    <2>1. e \in Entry /\ e.ttl \in Nat
      BY Types DEF Entry
    <2>2. sweepLock'[j] = CASE e.ttl = 1 -> Key!NoEntry
                            [] e.ttl > 1 -> [e EXCEPT !.ttl = n]
                            [] OTHER -> e
      BY DEF TimePasses, Key!Elapse
    <2> HIDE DEF e
    <2>3. CASE e.ttl = 1
      BY <2>1, <2>2, <2>3, Absence DEF e
    <2>4. CASE e.ttl > 1
      <3>1. n \in Nat
        BY <2>1, <2>4
      <3> HIDE DEF n
      <3>2. /\ [e EXCEPT !.ttl = n] \in Entry
            /\ [e EXCEPT !.ttl = n].ttl = n
            /\ [e EXCEPT !.ttl = n].token = e.token
        BY <2>1, <3>1, Entries
      <3>3. sweepLock'[j] = [e EXCEPT !.ttl = n]
        BY <2>1, <2>2, <2>4
      <3> QED
        BY <3>2, <3>3 DEF e, n
    <2>5. CASE ~(e.ttl = 1) /\ ~(e.ttl > 1)
      BY <2>1, <2>2, <2>5 DEF e
    <2> QED
      BY <2>3, <2>4, <2>5
  <1>4. sweepLock' \in [Job -> Entry]
    <2>1. sweepLock' = [j \in Job |-> sweepLock'[j]]
      BY DEF TimePasses, Key!Elapse
    <2> QED
      BY <1>3, <2>1
  <1>5. Held'
    <2>1. ASSUME NEW t \in Beat, Working(t)', term'[t] > 0
          PROVE  sweepLock'[job].token = t /\ sweepLock'[job].ttl = term'[t]
      <3>1. /\ term[t] \in Nat /\ term[t] > 1 /\ term'[t] = term[t] - 1
            /\ Working(t)
        BY <1>1, <2>1, Types DEF Working
      <3>2. sweepLock[job].token = t /\ sweepLock[job].ttl = term[t]
        BY <3>1 DEF ApartInv, Held
      <3> QED
        BY <1>1, <1>3, <3>1, <3>2
    <2> QED
      BY <1>1, <2>1 DEF Held
  <1>6. SweepTypeOK'
    BY <1>1, <1>2, <1>4, Types, Typed
  <1> QED
    BY <1>5, <1>6 DEF ApartInv

-----------------------------------------------------------------------------
LEMMA ApartStart ==
  ASSUME SweepInit
  PROVE  ApartInv
  <1>1. SweepTypeOK
    BY SweepAssumption DEF SweepInit, SweepStart, SweepTypeOK, Key!LockTypeOK,
       Key!LockInit, Key!NoEntry
  <1>2. Held
    BY DEF SweepInit, SweepStart, Held, Working
  <1> QED
    BY <1>1, <1>2 DEF ApartInv

LEMMA ApartStep ==
  ASSUME ApartInv, [SweepNext]_sweepVars
  PROVE  ApartInv'
  <1>1. ASSUME NEW t \in Beat,
               FireSweep(t) \/ AcquireSweep(t) \/ EndWork(t) \/ ReleaseSweep(t)
        PROVE  ApartInv'
    <2>1. CASE FireSweep(t)
      BY <2>1, Begins DEF FireSweep
    <2>2. CASE AcquireSweep(t)
      <3>1. job # "none" /\ TakeKey(t)
        BY <2>2 DEF AcquireSweep, acquireReaperLock, acquireRetentionLock,
                    acquireWardenSyncLock
      <3> QED
        BY <3>1, Takes
    <2>3. CASE EndWork(t)
      BY <2>3, Begins DEF EndWork, Working
    <2>4. CASE ReleaseSweep(t)
      <3>1. job \in Job /\ GiveKey(t)
        BY <2>4 DEF ReleaseSweep, releaseReaperLock, releaseRetentionLock,
                    releaseWardenSyncLock, Job
      <3> QED
        BY <3>1, Gives
    <2> QED
      BY <1>1, <2>1, <2>2, <2>3, <2>4
  <1>2. ASSUME UNCHANGED sweepVars
        PROVE  ApartInv'
    <2>1. /\ UNCHANGED <<job, sweepLock, beat, term, troubles>>
      BY <1>2 DEF sweepVars
    <2>2. SweepTypeOK'
      BY <2>1, Types, Typed
    <2>3. Held'
      BY <2>1 DEF ApartInv, Held, Working
    <2> QED
      BY <2>2, <2>3 DEF ApartInv
  <1> QED
    BY <1>1, <1>2, Reboots, Passes DEF SweepNext

\* The invariant that the lock keeps, for all three jobs.
THEOREM ApartInvariant == SweepSpec => []ApartInv
  <1>1. SweepInit => ApartInv
    BY ApartStart
  <1>2. ApartInv /\ [SweepNext]_sweepVars => ApartInv'
    BY ApartStep
  <1> QED
    BY <1>1, <1>2, PTL DEF SweepSpec

\* Two ticks of a job are at work at once only if one of them has outlived its
\* key, for any number of processes, ticks and failures.
THEOREM JobsApart == SweepSpec => []SweepsApart
  <1>1. ApartInv => SweepsApart
    <2>1. ASSUME ApartInv, NEW s \in Beat, NEW t \in Beat, s # t,
                 Working(s), Working(t)
          PROVE  term[s] = 0 \/ term[t] = 0
      <3>1. term[s] \in Nat /\ term[t] \in Nat
        BY <2>1, Types
      <3> QED
        BY <2>1, <3>1 DEF ApartInv, Held
    <2> QED
      BY <2>1 DEF SweepsApart
  <1> QED
    BY <1>1, ApartInvariant, PTL

-----------------------------------------------------------------------------
(* RUN STREAMS *)

Enters == {"run", "owner", "authorize"}
Unit(condition) == IF condition THEN 1 ELSE 0

\* The sets that are counted are sets of requests, so they are finite.
LEMMA Counted ==
  /\ IsFiniteSet(OpenStreams) /\ Cardinality(OpenStreams) \in Nat
  /\ IsFiniteSet(Entering) /\ Cardinality(Entering) \in Nat
  /\ Cardinality(Request) \in Nat
  <1>1. OpenStreams \in SUBSET Request /\ Entering \in SUBSET Request
    BY DEF OpenStreams, Entering
  <1> QED
    BY <1>1, PlanAssumption, FS_Subset, FS_CardinalityType

\* When request r moves and the others stay where they are, the number of open
\* streams and of entering requests changes by what r leaves and joins.
LEMMA Moved ==
  ASSUME NEW r \in Request,
         \A q \in Request \ {r} : sreq'[q].at = sreq[q].at
  PROVE  /\ Cardinality(OpenStreams')
              = Cardinality(OpenStreams) - Unit(sreq[r].at = "open")
                                         + Unit(sreq'[r].at = "open")
         /\ Cardinality(Entering')
              = Cardinality(Entering) - Unit(sreq[r].at \in Enters)
                                      + Unit(sreq'[r].at \in Enters)
  <1>1. /\ OpenStreams' = IF sreq'[r].at = "open" THEN OpenStreams \cup {r}
                                                  ELSE OpenStreams \ {r}
        /\ r \in OpenStreams <=> sreq[r].at = "open"
    BY DEF OpenStreams, Where
  <1>2. /\ Entering' = IF sreq'[r].at \in Enters THEN Entering \cup {r}
                                                 ELSE Entering \ {r}
        /\ r \in Entering <=> sreq[r].at \in Enters
    BY DEF Entering, Enters
  <1>3. ASSUME NEW S, IsFiniteSet(S)
        PROVE  /\ Cardinality(S) \in Nat
               /\ Cardinality(S \cup {r}) = Cardinality(S) + 1 - Unit(r \in S)
               /\ Cardinality(S \ {r}) = Cardinality(S) - Unit(r \in S)
    BY <1>3, FS_AddElement, FS_RemoveElement, FS_CardinalityType DEF Unit
  <1>4. /\ Cardinality(OpenStreams \cup {r})
             = Cardinality(OpenStreams) + 1 - Unit(r \in OpenStreams)
        /\ Cardinality(OpenStreams \ {r})
             = Cardinality(OpenStreams) - Unit(r \in OpenStreams)
        /\ Cardinality(Entering \cup {r})
             = Cardinality(Entering) + 1 - Unit(r \in Entering)
        /\ Cardinality(Entering \ {r})
             = Cardinality(Entering) - Unit(r \in Entering)
    BY <1>3, Counted
  <1>5. Cardinality(OpenStreams) \in Nat /\ Cardinality(Entering) \in Nat
    BY Counted
  <1> QED
    BY <1>1, <1>2, <1>4, <1>5 DEF Unit

-----------------------------------------------------------------------------
\* What a step makes of a request is a request again.
LEMMA StreamRecords ==
  ASSUME NEW s \in StreamRequest
  PROVE  /\ \A at \in StreamAt : /\ [s EXCEPT !.at = at] \in StreamRequest
                                 /\ [s EXCEPT !.at = at].at = at
         /\ \A b \in BOOLEAN :
              /\ [s EXCEPT !.polling = b] \in StreamRequest
              /\ [s EXCEPT !.polling = b].at = s.at
         /\ [s EXCEPT !.at = "open", !.sub = "joining"] \in StreamRequest
         /\ [s EXCEPT !.at = "open", !.sub = "joining"].at = "open"
         /\ [s EXCEPT !.sub = "on"] \in StreamRequest
         /\ [s EXCEPT !.sub = "on"].at = s.at
         /\ Close(s) \in StreamRequest
         /\ Close(s).at = "closed"
  BY DEF StreamRequest, StreamAt, Close

\* The requests that passed the check never outnumber the most there were at
\* once, and with the open streams they keep to the maximum and that excess: the
\* part of the invariant that SlotsHeld alone leaves out.
Room ==
    /\ Cardinality(Entering) <= speak
    /\ active + Cardinality(Entering) + 1 <= MaxStreams + speak

SlotsInv == StreamTypeOK /\ SlotsExact /\ Room

\* A step of request r that counts what it leaves and joins keeps the invariant
\* when r comes closer to a stream only by the capacity check.
LEMMA Onwards ==
  ASSUME SlotsInv, NEW r \in Request, NEW u \in StreamRequest,
         sreq' = [sreq EXCEPT ![r] = u],
         over' \in SUBSET Runs, speak' = speak,
         active' = active - Unit(sreq[r].at = "open") + Unit(u.at = "open"),
         u.at \in Enters => sreq[r].at \in Enters,
         u.at = "open" => sreq[r].at \in Enters \cup {"open"}
  PROVE  SlotsInv'
  <1>1. /\ sreq' \in [Request -> StreamRequest]
        /\ sreq'[r] = u
        /\ \A q \in Request \ {r} : sreq'[q].at = sreq[q].at
    BY DEF SlotsInv, StreamTypeOK
  <1>2. /\ Cardinality(OpenStreams')
             = Cardinality(OpenStreams) - Unit(sreq[r].at = "open") + Unit(u.at = "open")
        /\ Cardinality(Entering')
             = Cardinality(Entering) - Unit(sreq[r].at \in Enters) + Unit(u.at \in Enters)
    BY <1>1, Moved
  <1>3. /\ OpenStreams' \in SUBSET Request
        /\ Entering' \in SUBSET Request
    BY DEF OpenStreams, Entering
  <1>4. /\ Cardinality(OpenStreams') \in Nat
        /\ Cardinality(Entering') \in Nat
    BY <1>3, PlanAssumption, FS_Subset, FS_CardinalityType
  <1>5. SlotsExact'
    BY <1>2, Counted DEF SlotsInv, SlotsExact
  <1>6. Room'
    <2>1. /\ active \in Nat /\ speak \in Nat
          /\ Cardinality(Entering) \in Nat /\ MaxStreams \in Nat
      BY Counted, StreamAssumption DEF SlotsInv, StreamTypeOK
    <2>2. /\ Cardinality(Entering) <= speak
          /\ active + Cardinality(Entering) + 1 <= MaxStreams + speak
      BY DEF SlotsInv, Room
    <2> QED
      BY <1>2, <2>1, <2>2 DEF Room, Unit, Enters
  <1>7. StreamTypeOK'
    BY <1>1, <1>4, <1>5 DEF SlotsInv, StreamTypeOK, SlotsExact
  <1> QED
    BY <1>5, <1>6, <1>7 DEF SlotsInv

\* The check itself: r enters when there is room, and the excess grows with it.
LEMMA Checks ==
  ASSUME SlotsInv, NEW r \in Request, CheckCapacity(r)
  PROVE  SlotsInv'
  <1>1. sreq[r] \in StreamRequest /\ sreq[r].at = "start"
    BY DEF SlotsInv, StreamTypeOK, CheckCapacity, Where
  <1>2. CASE active >= MaxStreams
    <2> DEFINE u == [sreq[r] EXCEPT !.at = "done"]
    <2>1. u \in StreamRequest /\ u.at = "done"
      BY <1>1, StreamRecords DEF StreamAt
    <2>2. /\ sreq' = [sreq EXCEPT ![r] = u]
          /\ over' = over /\ active' = active /\ speak' = speak
      BY <1>2 DEF CheckCapacity, Go
    <2>3. over' \in SUBSET Runs /\ active \in Nat
      BY <2>2 DEF SlotsInv, StreamTypeOK
    <2>4. active' = active - Unit(sreq[r].at = "open") + Unit(u.at = "open")
      BY <1>1, <2>1, <2>2, <2>3 DEF Unit
    <2> HIDE DEF u
    <2> QED
      BY <1>1, <2>1, <2>2, <2>3, <2>4, Onwards DEF Enters
  <1>3. CASE ~(active >= MaxStreams)
    <2> DEFINE u == [sreq[r] EXCEPT !.at = "run"]
               n == Cardinality(Entering)
    <2>1. u \in StreamRequest /\ u.at = "run"
      BY <1>1, StreamRecords DEF StreamAt
    <2>2. /\ sreq' = [sreq EXCEPT ![r] = u]
          /\ over' = over /\ active' = active
          /\ speak' = IF n < speak THEN speak ELSE n + 1
      BY <1>3 DEF CheckCapacity, Go
    <2> HIDE DEF u
    <2>3. /\ sreq' \in [Request -> StreamRequest]
          /\ sreq'[r] = u
          /\ \A q \in Request \ {r} : sreq'[q].at = sreq[q].at
      BY <2>1, <2>2 DEF SlotsInv, StreamTypeOK
    <2>4. /\ n \in Nat /\ active \in Nat /\ speak \in Nat /\ MaxStreams \in Nat
          /\ Cardinality(OpenStreams) \in Nat /\ Cardinality(Request) \in Nat
      BY Counted, StreamAssumption DEF SlotsInv, StreamTypeOK
    <2>5. /\ Cardinality(OpenStreams') = Cardinality(OpenStreams)
          /\ Cardinality(Entering') = n + 1
      <3> HIDE DEF n
      <3>1. /\ Cardinality(OpenStreams')
                 = Cardinality(OpenStreams) - Unit(sreq[r].at = "open")
                                            + Unit(sreq'[r].at = "open")
            /\ Cardinality(Entering')
                 = n - Unit(sreq[r].at \in Enters) + Unit(sreq'[r].at \in Enters)
        BY <2>3, Moved DEF n
      <3> QED
        BY <1>1, <2>1, <2>3, <2>4, <3>1 DEF Unit, Enters
    <2>6. n + 1 <= Cardinality(Request)
      <3>1. Entering' \in SUBSET Request
        BY DEF Entering
      <3> QED
        BY <2>5, <3>1, PlanAssumption, FS_Subset
    <2> HIDE DEF n
    <2>7. StreamTypeOK'
      BY <2>2, <2>3, <2>4, <2>6 DEF SlotsInv, StreamTypeOK
    <2>8. SlotsExact'
      BY <2>2, <2>5 DEF SlotsInv, SlotsExact
    <2>9. Room'
      BY <1>3, <2>2, <2>4, <2>5 DEF Room
    <2> QED
      BY <2>7, <2>8, <2>9 DEF SlotsInv
  <1> QED
    BY <1>2, <1>3

-----------------------------------------------------------------------------
\* Cleaning up gives the slot of an open stream back, and of a closed one
\* nothing, whatever else (record) the caller changed of the request.
LEMMA Cleans ==
  ASSUME SlotsInv, NEW r \in Request, NEW record \in StreamRequest,
         record.at = sreq[r].at, sreq[r].at \in {"open", "closed"},
         Cleanup(r, record), over' = over, speak' = speak
  PROVE  SlotsInv'
  <1>1. over' \in SUBSET Runs /\ active \in Nat
    BY DEF SlotsInv, StreamTypeOK
  <1>2. CASE sreq[r].at = "closed"
    <2>1. sreq' = [sreq EXCEPT ![r] = record] /\ active' = active
      BY <1>2 DEF Cleanup, Where
    <2>2. active' = active - Unit(sreq[r].at = "open") + Unit(record.at = "open")
      BY <1>1, <1>2, <2>1 DEF Unit
    <2> QED
      BY <1>1, <1>2, <2>1, <2>2, Onwards DEF Enters
  <1>3. CASE sreq[r].at = "open"
    <2> DEFINE u == Close(record)
    <2>1. u \in StreamRequest /\ u.at = "closed"
      BY StreamRecords
    <2>2. sreq' = [sreq EXCEPT ![r] = u] /\ active' = active - 1
      BY <1>3 DEF Cleanup, Where
    <2> HIDE DEF u
    <2>3. active' = active - Unit(sreq[r].at = "open") + Unit(u.at = "open")
      BY <1>1, <1>3, <2>1, <2>2 DEF Unit
    <2> QED
      BY <1>1, <2>1, <2>2, <2>3, Onwards DEF Enters
  <1> QED
    BY <1>2, <1>3

\* Moving a request that is not open on to a place that is neither a stream nor
\* past the check.
LEMMA Leaves ==
  ASSUME SlotsInv, NEW r \in Request, sreq[r].at # "open",
         Go(r, "done"), UNCHANGED <<over, active, speak>>
  PROVE  SlotsInv'
  <1> DEFINE u == [sreq[r] EXCEPT !.at = "done"]
  <1>1. over' \in SUBSET Runs /\ active \in Nat /\ sreq[r] \in StreamRequest
    BY DEF SlotsInv, StreamTypeOK
  <1>2. u \in StreamRequest /\ u.at = "done"
    BY <1>1, StreamRecords DEF StreamAt
  <1>3. sreq' = [sreq EXCEPT ![r] = u]
    BY DEF Go
  <1> HIDE DEF u
  <1>4. active' = active - Unit(sreq[r].at = "open") + Unit(u.at = "open")
    BY <1>1, <1>2 DEF Unit
  <1> QED
    BY <1>1, <1>2, <1>3, <1>4, Onwards DEF Enters

\* A stream starts from a request past the check, which made room for it.
LEMMA Starts ==
  ASSUME SlotsInv, NEW r \in Request, sreq[r].at \in Enters,
         StartStream(r), UNCHANGED <<over, speak>>
  PROVE  SlotsInv'
  <1> DEFINE u == [sreq[r] EXCEPT !.at = "open", !.sub = "joining"]
  <1>1. over' \in SUBSET Runs /\ active \in Nat /\ sreq[r] \in StreamRequest
    BY DEF SlotsInv, StreamTypeOK
  <1>2. u \in StreamRequest /\ u.at = "open"
    BY <1>1, StreamRecords
  <1>3. sreq' = [sreq EXCEPT ![r] = u] /\ active' = active + 1
    BY DEF StartStream
  <1> HIDE DEF u
  <1>4. active' = active - Unit(sreq[r].at = "open") + Unit(u.at = "open")
    BY <1>1, <1>2, <1>3 DEF Unit, Enters
  <1> QED
    BY <1>1, <1>2, <1>3, <1>4, Onwards

\* Steps that change a request without moving it, or within the handler.
LEMMA Stays ==
  ASSUME SlotsInv, NEW r \in Request, NEW u \in StreamRequest,
         sreq' = [sreq EXCEPT ![r] = u], UNCHANGED <<over, active, speak>>,
         u.at = sreq[r].at \/ (u.at \in Enters /\ sreq[r].at \in Enters)
  PROVE  SlotsInv'
  <1>1. over' \in SUBSET Runs /\ active \in Nat
    BY DEF SlotsInv, StreamTypeOK
  <1>2. active' = active - Unit(sreq[r].at = "open") + Unit(u.at = "open")
    BY <1>1 DEF Unit, Enters
  <1> QED
    BY <1>1, <1>2, Onwards DEF Enters

-----------------------------------------------------------------------------
\* Every step of the streams keeps the invariant.
LEMMA SlotsStep ==
  ASSUME SlotsInv, [StreamNext]_streamVars
  PROVE  SlotsInv'
  <1>1. sreq \in [Request -> StreamRequest] /\ over \in SUBSET Runs
    BY DEF SlotsInv, StreamTypeOK
  <1>2. ASSUME NEW x \in Runs, FinishRun(x)
        PROVE  SlotsInv'
    <2>1. over' \in SUBSET Runs /\ UNCHANGED <<active, sreq, speak>>
      BY <1>1, <1>2 DEF FinishRun
    <2> QED
      BY <2>1 DEF SlotsInv, StreamTypeOK, SlotsExact, Room, OpenStreams, Entering,
                  Where
  <1>3. ASSUME NEW r \in Request, ServeStream(r)
        PROVE  SlotsInv'
    <2>0. sreq[r] \in StreamRequest
      BY <1>1
    <2>1. CASE RefuseStream(r)
      BY <2>1, Leaves DEF RefuseStream, Where
    <2>2. CASE CheckCapacity(r)
      BY <2>2, Checks
    <2>3. CASE ReadRun(r)
      <3> DEFINE b == sreq[r].run \in over
                 u == [sreq[r] EXCEPT !.at = "owner", !.ended = b]
      <3>0. b \in BOOLEAN /\ sreq[r].at = "run"
        BY <2>3 DEF ReadRun, Where
      <3>1. u \in StreamRequest /\ u.at = "owner" /\ sreq[r].at = "run"
        <4> DEFINE s == sreq[r]
        <4>1. s \in StreamRequest
          BY <2>0
        <4> HIDE DEF b, s
        <4>2. /\ [s EXCEPT !.at = "owner", !.ended = b] \in StreamRequest
              /\ [s EXCEPT !.at = "owner", !.ended = b].at = "owner"
          BY <3>0, <4>1 DEF StreamRequest, StreamAt
        <4> QED
          BY <3>0, <4>2 DEF s
      <3>2. \/ sreq' = [sreq EXCEPT ![r] = u]
            \/ Go(r, "done")
        BY <2>3 DEF ReadRun
      <3>3. UNCHANGED <<over, active, speak>>
        BY <2>3 DEF ReadRun
      <3> HIDE DEF u
      <3> QED
        BY <3>1, <3>2, <3>3, Stays, Leaves DEF Enters
    <2>4. CASE ReadOwner(r)
      <3> DEFINE u == [sreq[r] EXCEPT !.at = "authorize"]
      <3>1. sreq[r].at = "owner" /\ UNCHANGED <<over, speak>>
        BY <2>4 DEF ReadOwner, Where
      <3>2. u \in StreamRequest /\ u.at = "authorize"
        BY <2>0, StreamRecords DEF StreamAt
      <3>3. \/ Go(r, "done") /\ UNCHANGED active
            \/ sreq' = [sreq EXCEPT ![r] = u] /\ UNCHANGED active
            \/ StartStream(r)
        BY <2>4 DEF ReadOwner, Go
      <3> HIDE DEF u
      <3> QED
        BY <3>1, <3>2, <3>3, Leaves, Stays, Starts DEF Enters
    <2>5. CASE AuthorizeStream(r)
      BY <2>5, Leaves, Starts DEF AuthorizeStream, Where, Enters
    <2>6. CASE StreamTimeout(r)
      BY <2>0, <2>6, Cleans DEF StreamTimeout, Where
    <2>7. CASE PollStatus(r)
      <3> DEFINE u == [sreq[r] EXCEPT !.polling = TRUE]
      <3>1. u \in StreamRequest /\ u.at = sreq[r].at
        BY <2>0, StreamRecords
      <3>2. sreq' = [sreq EXCEPT ![r] = u] /\ UNCHANGED <<over, active, speak>>
        BY <2>7 DEF PollStatus
      <3> HIDE DEF u
      <3> QED
        BY <3>1, <3>2, Stays
    <2>8. CASE PollAnswered(r)
      <3> DEFINE asked == [sreq[r] EXCEPT !.polling = FALSE]
      <3>1. asked \in StreamRequest /\ asked.at = sreq[r].at
        BY <2>0, StreamRecords
      <3>2. /\ \/ Cleanup(r, asked)
               \/ sreq' = [sreq EXCEPT ![r] = asked] /\ UNCHANGED active
            /\ UNCHANGED <<over, speak>>
        BY <2>8 DEF PollAnswered
      <3>3. sreq[r].at \in {"open", "closed"}
        BY <2>8 DEF PollAnswered
      <3> HIDE DEF asked
      <3> QED
        BY <3>1, <3>2, <3>3, Cleans, Stays
    <2>9. CASE Subscribed(r)
      <3> DEFINE u == [sreq[r] EXCEPT !.sub = "on"]
      <3>1. u \in StreamRequest /\ u.at = sreq[r].at
        BY <2>0, StreamRecords
      <3>2. sreq' = [sreq EXCEPT ![r] = u] /\ UNCHANGED <<over, active, speak>>
        BY <2>9 DEF Subscribed
      <3> HIDE DEF u
      <3> QED
        BY <3>1, <3>2, Stays
    <2>10. CASE SubscriberFails(r)
      BY <2>0, <2>10, Cleans DEF SubscriberFails
    <2>11. CASE LastMessage(r)
      BY <2>0, <2>11, Cleans DEF LastMessage, Where
    <2> QED
      BY <1>3, <2>1, <2>2, <2>3, <2>4, <2>5, <2>6, <2>7, <2>8, <2>9, <2>10, <2>11
         DEF ServeStream
  <1>4. CASE UNCHANGED streamVars
    BY <1>4 DEF streamVars, SlotsInv, StreamTypeOK, SlotsExact, Room, OpenStreams,
                Entering, Where
  <1> QED
    BY <1>2, <1>3, <1>4 DEF StreamNext

-----------------------------------------------------------------------------
\* Nothing is open and nobody is past the check when the process starts.
LEMMA SlotsStart ==
  ASSUME StreamInit
  PROVE  SlotsInv
  <1>1. /\ over = {} /\ active = 0 /\ speak = 0
        /\ sreq \in [Request -> StreamRequest]
        /\ \A r \in Request : sreq[r].at \in {"none", "start"}
    BY StreamAssumption DEF StreamInit, StreamStart
  <1>2. OpenStreams = {} /\ Entering = {}
    BY <1>1 DEF OpenStreams, Entering, Where
  <1>3. Cardinality(OpenStreams) = 0 /\ Cardinality(Entering) = 0
    BY <1>2, FS_EmptySet
  <1>4. 0 \in 0 .. Cardinality(Request)
    BY Counted
  <1> QED
    BY <1>1, <1>3, <1>4, StreamAssumption
       DEF SlotsInv, StreamTypeOK, SlotsExact, Room

\* The counter, the streams and the room the check leaves, in every state.
THEOREM SlotsInvariant == StreamSpec => []SlotsInv
  <1>1. StreamInit => SlotsInv
    BY SlotsStart
  <1>2. SlotsInv /\ [StreamNext]_streamVars => SlotsInv'
    BY SlotsStep
  <1> QED
    BY <1>1, <1>2, PTL DEF StreamSpec

\* Every variable of the streams keeps its type.
THEOREM StreamTypes == StreamSpec => []StreamTypeOK
  <1>1. SlotsInv => StreamTypeOK
    BY DEF SlotsInv
  <1> QED
    BY <1>1, SlotsInvariant, PTL

\* activeSseConnections is the number of open streams, for any number of
\* requests, whatever ends a stream and however often.
THEOREM CounterExact == StreamSpec => []SlotsExact
  <1>1. SlotsInv => SlotsExact
    BY DEF SlotsInv
  <1> QED
    BY <1>1, SlotsInvariant, PTL

\* The maximum is exceeded by no more than the requests that were between the
\* check and the count at once, less one.
THEOREM MaximumHeld == StreamSpec => []SlotsHeld
  <1>1. SlotsInv => SlotsHeld
    <2>1. ASSUME SlotsInv PROVE SlotsHeld
      <3>1. /\ active \in Nat /\ speak \in Nat /\ MaxStreams \in Nat
            /\ Cardinality(Entering) \in Nat
        BY <2>1, Counted, StreamAssumption DEF SlotsInv, StreamTypeOK
      <3> QED
        BY <2>1, <3>1 DEF SlotsInv, Room, SlotsHeld
    <2> QED
      BY <2>1
  <1> QED
    BY <1>1, SlotsInvariant, PTL

-----------------------------------------------------------------------------
(* EVENTS *)

Replays == {"replay", "replayAll"}

\* r has sent d as a dead letter and not yet marked it.
Sent(r, d) == ereq[r].at = "mark" /\ ereq[r].cur = d

\* What a request carries from one step to the next.
Ready(r) ==
    /\ ereq[r].op \in {"replay", "discard"} => ereq[r].event \in Letter
    /\ ereq[r].at \in {"start", "afford"} => ereq[r].cur = NoEvent
    /\ ereq[r].at \in {"start", "delete"} =>
         ereq[r].batches < MaxBatches /\ ~ereq[r].clean
    /\ ereq[r].at = "delete" => ereq[r].op = "sweep"
    /\ ereq[r].at = "drop" => ereq[r].op = "discard"
    /\ ereq[r].at = "afford" => ereq[r].op = "replayAll"
    /\ ereq[r].at \in {"topic", "create", "send", "mark"} =>
         ereq[r].cur \in Event /\ ereq[r].op \in Replays \cup {"ingest", "relog"}
    /\ ereq[r].at = "mark" => ereq[r].op \in Replays
    /\ ereq[r].op \in Replays /\ ereq[r].at \notin {"start", "done"} =>
         \A e \in Event : ereq[r].todo[e] > 0 \/ ereq[r].cur = e => e \in Letter

\* A letter that did not slip is in one hand at most, once, and unsent until it
\* is in that hand only to be marked; after that it is resolved.
Guarded(d) ==
    /\ \A q, r \in Request : d \in Holding(q) /\ d \in Holding(r) => q = r
    /\ \A r \in Request : d \in Holding(r) =>
         /\ ereq[r].todo[d] <= 1
         /\ ereq[r].todo[d] = 1 => ereq[r].cur # d
         /\ Sent(r, d) \/ replayed[d] = 0
    /\ replayed[d] <= 1
    /\ replayed[d] = 1 => letter[d] = "resolved" \/ \E r \in Request : Sent(r, d)

LettersGuarded == \A d \in Letter \ slipped : Guarded(d)

SentBeforeMark ==
    \A r \in Request : ereq[r].at = "mark" => replayed[ereq[r].cur] > 0

\* What is due at a sweep's cutoff is long past.
SweptInv ==
    /\ \A r \in Request : ereq[r].op = "sweep" /\ (ereq[r].at = "delete" \/ ereq[r].clean)
                            => ereq[r].cutoff <= today - Retention
    /\ SweptClean

LogInv == IsFiniteSet(Rows) /\ LoggedWasSent

EventInv ==
    /\ EventTypeOK
    /\ \A r \in Request : Ready(r)
    /\ LettersGuarded
    /\ SentBeforeMark /\ ResolvedWasSent
    /\ LogInv
    /\ SweptInv

-----------------------------------------------------------------------------
(* What a step of a request leaves alone. *)

Served(r) ==
    /\ ereq' \in [Request -> EventRequest]
    /\ \A q \in Request \ {r} : ereq'[q] = ereq[q]
    /\ ereq'[r].op = ereq[r].op
    /\ ereq'[r].event = ereq[r].event
    /\ ereq'[r].cutoff = ereq[r].cutoff
    /\ ereq'[r].batches = ereq[r].batches
    /\ ereq'[r].clean = ereq[r].clean

LEMMA EventTyped ==
  ASSUME EventTypeOK
  PROVE  /\ letter \in [Letter -> {"open", "resolved"}]
         /\ topic \in BOOLEAN
         /\ log \in [Event -> [Days -> Nat]]
         /\ writing \in [Event -> Nat]
         /\ today \in Days /\ today \in Nat
         /\ ereq \in [Request -> EventRequest]
         /\ sent \in [Event -> Nat]
         /\ replayed \in [Letter -> Nat]
         /\ billed \subseteq Letter /\ discarded \subseteq Letter
         /\ slipped \subseteq Letter
         /\ Letter \subseteq Event
         /\ \A r \in Request :
              /\ ereq[r].todo \in [Event -> Nat] /\ ereq[r].event \in Event
              /\ ereq[r].cur \in Event \cup {NoEvent} /\ ereq[r].cutoff \in Int
              /\ ereq[r].batches \in Nat /\ ereq[r].batches <= MaxBatches
              /\ ereq[r].at \in EventAt /\ ereq[r].clean \in BOOLEAN
         /\ MaxBatches \in Nat \ {0} /\ Retention \in Nat \ {0} /\ Batch \in Nat \ {0}
         /\ NoEvent \notin Event /\ MaxDays \in Nat
  <1>1. /\ Letter \subseteq Event /\ MaxBatches \in Nat \ {0} /\ Retention \in Nat \ {0}
        /\ Batch \in Nat \ {0} /\ NoEvent \notin Event /\ MaxDays \in Nat
    BY EventAssumption
  <1>2. /\ letter \in [Letter -> {"open", "resolved"}]
        /\ topic \in BOOLEAN
        /\ log \in [Event -> [Days -> Nat]]
        /\ writing \in [Event -> Nat]
        /\ today \in Days
        /\ ereq \in [Request -> EventRequest]
        /\ sent \in [Event -> Nat]
        /\ replayed \in [Letter -> Nat]
        /\ billed \subseteq Letter /\ discarded \subseteq Letter
        /\ slipped \subseteq Letter
    BY DEF EventTypeOK
  <1>3. today \in Nat
    BY <1>1, <1>2 DEF Days
  <1>4. ASSUME NEW r \in Request
        PROVE  /\ ereq[r].todo \in [Event -> Nat] /\ ereq[r].event \in Event
               /\ ereq[r].cur \in Event \cup {NoEvent} /\ ereq[r].cutoff \in Int
               /\ ereq[r].batches \in Nat /\ ereq[r].batches <= MaxBatches
               /\ ereq[r].at \in EventAt /\ ereq[r].clean \in BOOLEAN
    BY <1>1, <1>2 DEF EventRequest
  <1> QED
    BY <1>1, <1>2, <1>3, <1>4

LEMMA Moves ==
  ASSUME EventTypeOK, NEW r \in Request, NEW step \in EventAt, Move(r, step)
  PROVE  /\ Served(r)
         /\ ereq'[r].at = step
         /\ ereq'[r].todo = ereq[r].todo /\ ereq'[r].cur = ereq[r].cur
  <1>1. ereq \in [Request -> EventRequest]
    BY EventTyped
  <1> QED
    BY <1>1 DEF Move, Served, EventRequest

\* r goes on with less than todo, or is done.
Taken(r, todo) ==
    \/ ereq'[r].at = "done"
    \/ /\ ereq'[r].at = "topic" /\ ereq'[r].cur \in Event /\ todo[ereq'[r].cur] > 0
       /\ \A e \in Event : ereq'[r].todo[e] = IF e = ereq'[r].cur THEN todo[e] - 1
                                                                  ELSE todo[e]

LEMMA TakesUp ==
  ASSUME EventTypeOK, NEW r \in Request, NEW todo \in [Event -> Nat], Take(r, todo)
  PROVE  Served(r) /\ Taken(r, todo)
  <1>1. ereq \in [Request -> EventRequest]
    BY EventTyped
  <1>2. CASE ereq' = [ereq EXCEPT ![r].at = "done", ![r].todo = todo, ![r].cur = NoEvent]
    <2> DEFINE u == [ereq[r] EXCEPT !.at = "done", !.todo = todo, !.cur = NoEvent]
    <2>1. ereq' = [ereq EXCEPT ![r] = u]
      BY <1>2
    <2>2. /\ u \in EventRequest /\ u.at = "done" /\ u.op = ereq[r].op
          /\ u.event = ereq[r].event /\ u.cutoff = ereq[r].cutoff
          /\ u.batches = ereq[r].batches /\ u.clean = ereq[r].clean
      BY <1>1 DEF EventRequest, EventAt
    <2> HIDE DEF u
    <2> QED
      BY <1>1, <2>1, <2>2 DEF Served, Taken
  <1>3. ASSUME NEW e \in Event, todo[e] > 0,
               ereq' = [ereq EXCEPT ![r].at = "topic", ![r].cur = e,
                                    ![r].todo = [todo EXCEPT ![e] = @ - 1]]
        PROVE  Served(r) /\ Taken(r, todo)
    <2> DEFINE rest == [todo EXCEPT ![e] = @ - 1]
               u == [ereq[r] EXCEPT !.at = "topic", !.cur = e, !.todo = rest]
    <2>1. rest \in [Event -> Nat]
      BY <1>3
    <2>2. \A x \in Event : rest[x] = IF x = e THEN todo[x] - 1 ELSE todo[x]
      OBVIOUS
    <2>3. ereq' = [ereq EXCEPT ![r] = u]
      BY <1>3
    <2> HIDE DEF rest
    <2>4. /\ u \in EventRequest /\ u.at = "topic" /\ u.op = ereq[r].op
          /\ u.cur = e /\ u.todo = rest
          /\ u.event = ereq[r].event /\ u.cutoff = ereq[r].cutoff
          /\ u.batches = ereq[r].batches /\ u.clean = ereq[r].clean
      BY <1>1, <2>1 DEF EventRequest, EventAt
    <2> HIDE DEF u
    <2>5. ereq'[r] = u
      BY <1>1, <2>3
    <2>6. Served(r)
      BY <1>1, <2>3, <2>4 DEF Served
    <2>7. Taken(r, todo)
      BY <1>3, <2>2, <2>4, <2>5 DEF Taken
    <2> QED
      BY <2>6, <2>7
  <1> QED
    BY <1>2, <1>3 DEF Take

-----------------------------------------------------------------------------
(* What keeps each part of the invariant. *)

LEMMA OthersReady ==
  ASSUME EventInv, NEW r \in Request, Served(r), Ready(r)'
  PROVE  \A q \in Request : Ready(q)'
  <1>1. ASSUME NEW q \in Request \ {r}
        PROVE  Ready(q)'
    <2>1. ereq'[q] = ereq[q] /\ Ready(q)
      BY DEF EventInv, Served
    <2> QED
      BY <2>1 DEF Ready
  <1> QED
    BY <1>1

LEMMA LogStays ==
  ASSUME LogInv, UNCHANGED <<log, writing, sent>>
  PROVE  LogInv'
  <1>1. Rows' = Rows
    BY DEF Rows
  <1>2. \A e : Count(Rows, e)' = Count(Rows, e)
    BY <1>1 DEF Count
  <1> QED
    BY <1>1, <1>2 DEF LogInv, LoggedWasSent

LEMMA SweepsStay ==
  ASSUME EventInv, NEW r \in Request, Served(r), UNCHANGED <<log, today>>,
         ereq'[r].at # "delete"
  PROVE  SweptInv'
  <1>1. /\ SweptInv
        /\ \A q \in Request : /\ ereq'[q].op = ereq[q].op
                              /\ ereq'[q].clean = ereq[q].clean
                              /\ ereq'[q].cutoff = ereq[q].cutoff
                              /\ ereq'[q].at = "delete" => ereq[q].at = "delete"
    BY DEF Served, EventInv
  <1>2. \A c : Due(c)' = Due(c)
    BY DEF Due, Rows
  <1> QED
    BY <1>1, <1>2 DEF SweptInv, SweptClean

LEMMA MarksStay ==
  ASSUME EventInv, NEW r \in Request, Served(r), UNCHANGED replayed,
         ereq'[r].at # "mark"
  PROVE  SentBeforeMark'
  BY DEF EventInv, Served, SentBeforeMark

\* The letters that r holds and that did not slip it held before, unsent.
Lightens(r) ==
    \A d \in Letter \ slipped' : d \in Holding(r)' =>
        /\ d \in Holding(r) /\ ~Sent(r, d)
        /\ ereq'[r].todo[d] <= 1
        /\ ereq'[r].todo[d] = 1 => ereq'[r].cur # d

LEMMA GuardStays ==
  ASSUME EventInv, NEW r \in Request, Served(r),
         slipped \subseteq slipped', Lightens(r),
         \A d \in Letter \ slipped' : replayed'[d] = replayed[d],
         \A d \in Letter : letter[d] = "resolved" => letter'[d] = "resolved",
         \A d \in Letter \ slipped' : Sent(r, d) => letter'[d] = "resolved"
  PROVE  LettersGuarded'
  <1> SUFFICES ASSUME NEW d \in Letter \ slipped'
               PROVE  Guarded(d)'
    BY DEF LettersGuarded
  <1>1. Guarded(d) /\ d \in Letter /\ replayed'[d] = replayed[d]
    BY DEF EventInv, LettersGuarded
  <1>2. \A q \in Request \ {r} : /\ d \in Holding(q)' <=> d \in Holding(q)
                                 /\ Sent(q, d)' <=> Sent(q, d)
                                 /\ ereq'[q] = ereq[q]
    BY DEF Served, Holding, Sent
  <1>3. d \in Holding(r)' =>
          /\ d \in Holding(r) /\ ~Sent(r, d)
          /\ ereq'[r].todo[d] <= 1
          /\ ereq'[r].todo[d] = 1 => ereq'[r].cur # d
    BY DEF Lightens
  <1>4. \A p, q \in Request : d \in Holding(p)' /\ d \in Holding(q)' => p = q
    BY <1>1, <1>2, <1>3 DEF Guarded
  <1>5. \A q \in Request : d \in Holding(q)' =>
          /\ ereq'[q].todo[d] <= 1
          /\ ereq'[q].todo[d] = 1 => ereq'[q].cur # d
          /\ Sent(q, d)' \/ replayed'[d] = 0
    BY <1>1, <1>2, <1>3 DEF Guarded
  <1>6. replayed'[d] = 1 => letter'[d] = "resolved" \/ \E q \in Request : Sent(q, d)'
    BY <1>1, <1>2 DEF Guarded
  <1> QED
    BY <1>1, <1>4, <1>5, <1>6 DEF Guarded

\* r holds nothing any more, or never did.
LEMMA Unburdened ==
  ASSUME NEW r \in Request, Served(r),
         ereq'[r].at = "done" \/ ereq[r].op \notin Replays
  PROVE  Lightens(r)
  BY DEF Served, Lightens, Holding, Replays

\* r goes on with what it has in hand, which is unsent.
LEMMA Proceeds ==
  ASSUME EventInv, NEW r \in Request, Served(r), slipped \subseteq slipped',
         ereq[r].at \in {"topic", "create"}, ereq'[r].at \in {"create", "send"},
         ereq'[r].todo = ereq[r].todo, ereq'[r].cur = ereq[r].cur
  PROVE  Lightens(r) /\ Ready(r)'
  <1>1. Ready(r) /\ \A d \in Letter \ slipped' : Guarded(d)
    BY DEF EventInv, LettersGuarded
  <1>2. Ready(r)'
    BY <1>1 DEF Ready, Served, Replays
  <1>3. Lightens(r)
    BY <1>1 DEF Lightens, Holding, Served, Guarded, Sent
  <1> QED
    BY <1>2, <1>3

\* r takes the next of what it holds, or lets it go.
LEMMA TakesNext ==
  ASSUME EventInv, NEW r \in Request, Served(r), slipped \subseteq slipped',
         ereq[r].at \in {"afford", "create", "send", "mark"},
         NEW todo \in {ereq[r].todo, Nothing}, Taken(r, todo)
  PROVE  Lightens(r) /\ Ready(r)' /\ ereq'[r].at \in {"topic", "done"}
  <1>1. /\ Ready(r) /\ \A d \in Letter \ slipped' : Guarded(d)
        /\ ereq[r].todo \in [Event -> Nat] /\ Letter \subseteq Event
    BY EventTyped DEF EventInv, LettersGuarded
  <1>2. CASE ereq'[r].at = "done"
    BY <1>1, <1>2, Unburdened DEF Ready, Served
  <1>3. CASE ereq'[r].at # "done"
    <2>1. /\ ereq'[r].at = "topic" /\ ereq'[r].cur \in Event
          /\ ereq[r].todo[ereq'[r].cur] > 0
          /\ \A e \in Event : ereq'[r].todo[e] = IF e = ereq'[r].cur
                                THEN ereq[r].todo[e] - 1 ELSE ereq[r].todo[e]
      BY <1>3 DEF Taken, Nothing
    <2>2. Ready(r)'
      BY <1>1, <2>1 DEF Ready, Served, Replays
    <2>3. ASSUME NEW d \in Letter \ slipped', d \in Holding(r)'
          PROVE  /\ d \in Holding(r) /\ ~Sent(r, d)
                 /\ ereq'[r].todo[d] <= 1
                 /\ ereq'[r].todo[d] = 1 => ereq'[r].cur # d
      <3>1. /\ ereq[r].op \in Replays /\ d \in Event
            /\ ereq'[r].todo[d] > 0 \/ ereq'[r].cur = d
        BY <1>1, <2>3 DEF Holding, Served, Replays
      <3>2. ereq[r].todo[d] > 0 /\ ereq[r].todo[d] \in Nat
        BY <1>1, <2>1, <3>1
      <3>3. d \in Holding(r)
        BY <3>1, <3>2 DEF Holding, Replays
      <3>4. ereq[r].todo[d] = 1 /\ ereq[r].cur # d
        BY <1>1, <3>2, <3>3 DEF Guarded
      <3> QED
        BY <2>1, <3>1, <3>3, <3>4 DEF Sent
    <2> QED
      BY <2>1, <2>2, <2>3 DEF Lightens
  <1> QED
    BY <1>2, <1>3

\* A step that sends nothing and logs nothing.
LEMMA Goes ==
  ASSUME EventInv, NEW r \in Request, Served(r), Ready(r)',
         UNCHANGED <<log, writing, today, sent, replayed>>,
         ereq'[r].at \notin {"delete", "mark"},
         letter' \in [Letter -> {"open", "resolved"}], topic' \in BOOLEAN,
         billed' \cup discarded' \cup slipped' \subseteq Letter,
         LettersGuarded', ResolvedWasSent'
  PROVE  EventInv'
  <1>1. \A q \in Request : Ready(q)'
    BY OthersReady
  <1>2. LogInv' /\ SweptInv' /\ SentBeforeMark'
    BY LogStays, SweepsStay, MarksStay DEF EventInv
  <1>3. EventTypeOK'
    BY DEF EventInv, EventTypeOK, Served
  <1> QED
    BY <1>1, <1>2, <1>3 DEF EventInv

\* A step that does not touch the letters either.
LEMMA GoesOn ==
  ASSUME EventInv, NEW r \in Request, Served(r), Ready(r)', Lightens(r),
         UNCHANGED <<Letters, log, writing, today, sent, replayed>>,
         ereq'[r].at \notin {"delete", "mark"}, ereq[r].at # "mark",
         topic' \in BOOLEAN
  PROVE  EventInv'
  <1>1. /\ UNCHANGED <<letter, billed, discarded, slipped, replayed>>
        /\ EventTypeOK
    BY DEF Letters, EventInv
  <1>2. LettersGuarded'
    BY <1>1, GuardStays DEF Sent
  <1>3. ResolvedWasSent'
    BY <1>1 DEF EventInv, ResolvedWasSent
  <1>4. /\ letter' \in [Letter -> {"open", "resolved"}]
        /\ billed' \cup discarded' \cup slipped' \subseteq Letter
    BY <1>1 DEF EventTypeOK
  <1> QED
    BY <1>1, <1>2, <1>3, <1>4, Goes

-----------------------------------------------------------------------------
(* The steps that read or send nothing and resolve no letter. *)

LEMMA EventEnds ==
  ASSUME EventInv, NEW r \in Request,
         RefuseEvent(r) \/ SweepFails(r) \/ (AffordBatch(r) /\ Move(r, "done"))
  PROVE  EventInv'
  <1>1. /\ Move(r, "done") /\ UNCHANGED <<Letters, Stream>> /\ ereq[r].at # "mark"
        /\ EventTypeOK
    BY DEF RefuseEvent, SweepFails, AffordBatch, Being, EventInv
  <1>2. Served(r) /\ ereq'[r].at = "done"
    BY <1>1, Moves DEF EventAt
  <1>3. Ready(r)'
    BY <1>2 DEF EventInv, Ready, Served
  <1> QED
    BY <1>1, <1>2, <1>3, Unburdened, GoesOn DEF Stream, EventTypeOK

\* A request that takes what it publishes from elsewhere than the letters.
LEMMA PublishSteps ==
  ASSUME EventInv, NEW r \in Request, Ingest(r) \/ ReplayLog(r)
  PROVE  EventInv'
  <1>1. /\ UNCHANGED <<Letters, Stream>> /\ ereq[r].at = "start" /\ EventTypeOK
        /\ ereq[r].op \in {"ingest", "relog"} /\ Ready(r)
    BY DEF Ingest, ReplayLog, Asks, Being, EventInv
  <1>2. PICK todo \in [Event -> Nat] : Take(r, todo)
    <2>1. CASE Ingest(r)
      <3>1. One(ereq[r].event) \in [Event -> Nat]
        BY DEF One, Nothing
      <3> QED
        BY <2>1, <3>1 DEF Ingest
    <2>2. CASE ReplayLog(r)
      <3>1. PICK some \in SUBSET Rows : Take(r, [e \in Event |-> Count(some, e)])
        BY <2>2 DEF ReplayLog
      <3>2. \A e : {x \in some : x[1] = e} \in SUBSET Rows
        OBVIOUS
      <3>3. \A e : Count(some, e) \in Nat
        BY <3>2, FS_Subset, FS_CardinalityType DEF Count, EventInv, LogInv
      <3> QED
        BY <3>1, <3>3
    <2> QED
      BY <2>1, <2>2
  <1>3. Served(r) /\ Taken(r, todo)
    BY <1>1, <1>2, TakesUp
  <1>4. Ready(r)' /\ ereq'[r].at \in {"topic", "done"}
    BY <1>1, <1>3 DEF Ready, Served, Taken, Replays
  <1>5. Lightens(r)
    BY <1>1, <1>3, Unburdened DEF Replays
  <1> QED
    BY <1>1, <1>3, <1>4, <1>5, GoesOn DEF Stream, EventTypeOK

LEMMA TopicSteps ==
  ASSUME EventInv, NEW r \in Request, FindTopic(r) \/ CreateTopic(r)
  PROVE  EventInv'
  <1>1. /\ UNCHANGED <<Letters, log, writing, today, sent, replayed>>
        /\ EventTypeOK /\ Ready(r) /\ ereq[r].todo \in [Event -> Nat]
        /\ ereq[r].at \in {"topic", "create"} /\ UNCHANGED slipped
    BY EventTyped DEF FindTopic, CreateTopic, Stream, Letters, Being, EventInv
  <1>2. topic' \in BOOLEAN
    BY <1>1 DEF FindTopic, CreateTopic, Stream, EventTypeOK
  <1>3. CASE Move(r, "send") \/ Move(r, "create")
    <2>1. /\ Served(r) /\ ereq'[r].at \in {"create", "send"}
          /\ ereq'[r].todo = ereq[r].todo /\ ereq'[r].cur = ereq[r].cur
      BY <1>1, <1>3, Moves DEF EventAt
    <2> QED
      BY <1>1, <1>2, <2>1, Proceeds, GoesOn
  <1>4. CASE CreateTopic(r) /\ PublishFails(r)
    <2>1. PICK todo \in {ereq[r].todo, Nothing} : Take(r, todo)
      BY <1>4 DEF PublishFails
    <2>2. todo \in [Event -> Nat]
      BY <1>1 DEF Nothing
    <2>3. Served(r) /\ Taken(r, todo) /\ ereq[r].at = "create"
      BY <1>1, <1>4, <2>1, <2>2, TakesUp DEF CreateTopic, Being
    <2> QED
      BY <1>1, <1>2, <2>3, TakesNext, GoesOn
  <1> QED
    BY <1>3, <1>4 DEF FindTopic, CreateTopic

LEMMA AffordStep ==
  ASSUME EventInv, NEW r \in Request, AffordBatch(r)
  PROVE  EventInv'
  <1>1. CASE Move(r, "done")
    BY <1>1, EventEnds
  <1>2. CASE Take(r, ereq[r].todo)
    <2>1. /\ UNCHANGED <<Letters, Stream>> /\ ereq[r].at = "afford" /\ EventTypeOK
          /\ ereq[r].todo \in [Event -> Nat]
      BY EventTyped DEF AffordBatch, Being, EventInv
    <2>2. Served(r) /\ Taken(r, ereq[r].todo)
      BY <1>2, <2>1, TakesUp
    <2>3. Lightens(r) /\ Ready(r)' /\ ereq'[r].at \in {"topic", "done"}
      BY <2>1, <2>2, TakesNext DEF Letters
    <2> QED
      BY <2>1, <2>2, <2>3, GoesOn DEF Stream, EventTypeOK
  <1> QED
    BY <1>1, <1>2 DEF AffordBatch

-----------------------------------------------------------------------------
(* Discards, and the mark after a letter was sent. *)

LEMMA DiscardSteps ==
  ASSUME EventInv, NEW r \in Request,
         DiscardLetter(r) \/ DropLetter(r) \/ DiscardLetters(r)
  PROVE  EventInv'
  <1>1. /\ EventTypeOK /\ Ready(r) /\ ResolvedWasSent /\ ereq[r].op \notin Replays
        /\ UNCHANGED <<billed, slipped, Stream>> /\ ereq[r].at # "mark"
    BY DEF DiscardLetter, DropLetter, DiscardLetters, Letters, Being, Asks, EventInv,
           Ready, Replays
  <1>2. /\ Served(r) /\ ereq'[r].at \in {"drop", "done"}
        /\ ereq'[r].at = "drop" => ereq[r].op = "discard"
    <2>1. \/ Move(r, "done")
          \/ Move(r, "drop") /\ ereq[r].op = "discard"
      BY DEF DiscardLetter, DropLetter, DiscardLetters, Asks
    <2> QED
      BY <1>1, <2>1, Moves DEF EventAt
  <1>3. Ready(r)'
    BY <1>1, <1>2 DEF Ready, Served, Replays
  <1>4. \E D \in SUBSET Letter :
          /\ letter' = [d \in Letter |-> IF d \in D THEN "resolved" ELSE letter[d]]
          /\ discarded' = discarded \cup D
    <2>0. letter \in [Letter -> {"open", "resolved"}]
      BY <1>1, EventTyped
    <2>1. CASE DiscardLetter(r)
      <3> WITNESS {} \in SUBSET Letter
      <3> QED
        BY <2>0, <2>1 DEF DiscardLetter, Letters
    <2>2. CASE DropLetter(r)
      <3>1. ereq[r].event \in Letter
        BY <1>1, <2>2 DEF DropLetter, Being, Ready
      <3>2. {ereq[r].event} \in SUBSET Letter
        BY <3>1
      <3> WITNESS {ereq[r].event} \in SUBSET Letter
      <3> QED
        BY <2>0, <2>2, <3>1 DEF DropLetter
    <2>3. CASE DiscardLetters(r)
      BY <2>3 DEF DiscardLetters
    <2> QED
      BY <2>1, <2>2, <2>3
  <1>5. PICK D \in SUBSET Letter :
          /\ letter' = [d \in Letter |-> IF d \in D THEN "resolved" ELSE letter[d]]
          /\ discarded' = discarded \cup D
    BY <1>4
  <1>6. /\ letter' \in [Letter -> {"open", "resolved"}]
        /\ \A d \in Letter : letter[d] = "resolved" => letter'[d] = "resolved"
        /\ billed' \cup discarded' \cup slipped' \subseteq Letter
    BY <1>1, <1>5, EventTyped
  <1>7. ResolvedWasSent'
    BY <1>1, <1>5 DEF ResolvedWasSent, Stream
  <1>8. LettersGuarded'
    BY <1>1, <1>2, <1>6, Unburdened, GuardStays DEF Stream, Sent
  <1> QED
    BY <1>1, <1>2, <1>3, <1>6, <1>7, <1>8, Goes DEF Stream, EventTypeOK

LEMMA MarkStep ==
  ASSUME EventInv, NEW r \in Request, MarkLetter(r)
  PROVE  EventInv'
  <1> DEFINE d == ereq[r].cur
  <1>1. /\ EventTypeOK /\ Ready(r) /\ ResolvedWasSent
        /\ UNCHANGED <<discarded, Stream>> /\ ereq[r].at = "mark"
        /\ Take(r, ereq[r].todo) /\ ereq[r].todo \in [Event -> Nat]
        /\ letter \in [Letter -> {"open", "resolved"}]
        /\ billed \subseteq Letter /\ discarded \subseteq Letter /\ slipped \subseteq Letter
    BY EventTyped DEF MarkLetter, Being, EventInv
  <1>2. d \in Letter /\ replayed[d] > 0
    BY <1>1 DEF Ready, EventInv, SentBeforeMark
  <1>3. Served(r) /\ Taken(r, ereq[r].todo)
    BY <1>1, TakesUp
  <1>4. /\ slipped \subseteq slipped' /\ slipped' \subseteq Letter
        /\ letter' \in [Letter -> {"open", "resolved"}]
        /\ \A x \in Letter : letter'[x] = "resolved" => x = d \/ letter[x] = "resolved"
        /\ \A x \in Letter : letter[x] = "resolved" => letter'[x] = "resolved"
        /\ d \in slipped' \/ letter'[d] = "resolved"
        /\ billed' \subseteq billed \cup {d}
    BY <1>1, <1>2 DEF MarkLetter
  <1>5. Lightens(r) /\ Ready(r)' /\ ereq'[r].at \in {"topic", "done"}
    BY <1>1, <1>3, <1>4, TakesNext
  <1>6. ResolvedWasSent'
    BY <1>1, <1>2, <1>4 DEF ResolvedWasSent, Stream
  <1>7. LettersGuarded'
    BY <1>1, <1>3, <1>4, <1>5, GuardStays DEF Stream, Sent
  <1> HIDE DEF d
  <1> QED
    BY <1>1, <1>2, <1>3, <1>4, <1>5, <1>6, <1>7, Goes DEF Stream, EventTypeOK

-----------------------------------------------------------------------------
(* Reading open letters. *)

\* What r reads as open was not replayed, unless another has it in hand: then it
\* slips.
LEMMA ReadsGuarded ==
  ASSUME EventInv, NEW r \in Request, Served(r), ereq[r].at = "start",
         ereq'[r].at # "mark", UNCHANGED <<letter, replayed>>,
         NEW D \in SUBSET Letter, \A d \in D : letter[d] = "open", Reads(r, D),
         \A d \in Letter : d \in Holding(r)' =>
           /\ d \in D
           /\ ereq'[r].todo[d] <= 1
           /\ ereq'[r].todo[d] = 1 => ereq'[r].cur # d
  PROVE  LettersGuarded'
  <1> SUFFICES ASSUME NEW d \in Letter \ slipped'
               PROVE  Guarded(d)'
    BY DEF LettersGuarded
  <1>1. /\ Guarded(d) /\ d \in Letter /\ slipped \subseteq slipped'
        /\ replayed \in [Letter -> Nat] /\ \A q \in Request : Ready(q)
    BY EventTyped DEF EventInv, LettersGuarded, Reads
  <1>2. \A q \in Request \ {r} : /\ d \in Holding(q)' <=> d \in Holding(q)
                                 /\ Sent(q, d)' <=> Sent(q, d)
                                 /\ ereq'[q] = ereq[q]
    BY DEF Served, Holding, Sent
  <1>3. d \in D => \A q \in Request \ {r} : d \notin Holding(q)
    BY DEF Reads
  <1>4. ASSUME NEW q \in Request, Sent(q, d)
        PROVE  q # r /\ d \in Holding(q)
    BY <1>1, <1>4 DEF Sent, Ready, Holding, Replays
  <1>5. d \in D => replayed[d] = 0
    <2>1. replayed[d] \in Nat /\ replayed[d] <= 1
      BY <1>1 DEF Guarded
    <2> QED
      BY <1>1, <1>3, <1>4, <2>1 DEF Guarded
  <1>6. \A p, q \in Request : d \in Holding(p)' /\ d \in Holding(q)' => p = q
    BY <1>1, <1>2, <1>3 DEF Guarded
  <1>7. \A q \in Request : d \in Holding(q)' =>
          /\ ereq'[q].todo[d] <= 1
          /\ ereq'[q].todo[d] = 1 => ereq'[q].cur # d
          /\ Sent(q, d)' \/ replayed'[d] = 0
    BY <1>1, <1>2, <1>5 DEF Guarded
  <1>8. replayed'[d] = 1 => letter'[d] = "resolved" \/ \E q \in Request : Sent(q, d)'
    BY <1>1, <1>2, <1>4 DEF Guarded
  <1> QED
    BY <1>1, <1>6, <1>7, <1>8 DEF Guarded

LEMMA ReadSteps ==
  ASSUME EventInv, NEW r \in Request, ReplayLetter(r) \/ ReplayLetters(r)
  PROVE  EventInv'
  <1>1. /\ EventTypeOK /\ Ready(r) /\ ResolvedWasSent
        /\ UNCHANGED <<letter, billed, discarded, Stream>>
        /\ ereq[r].at = "start" /\ ereq[r].op \in Replays /\ ereq[r].cur = NoEvent
        /\ ereq \in [Request -> EventRequest]
        /\ Letter \subseteq Event /\ NoEvent \notin Event
        /\ letter \in [Letter -> {"open", "resolved"}]
        /\ billed \subseteq Letter /\ discarded \subseteq Letter /\ slipped \subseteq Letter
    BY EventTyped DEF ReplayLetter, ReplayLetters, Being, Asks, EventInv, Replays, Ready
  <1>2. ResolvedWasSent'
    BY <1>1 DEF ResolvedWasSent, Stream
  <1>3. CASE Move(r, "done") /\ UNCHANGED slipped
    <2>1. Served(r) /\ ereq'[r].at = "done"
      BY <1>1, <1>3, Moves DEF EventAt
    <2>2. Ready(r)'
      BY <1>1, <2>1 DEF Ready, Served
    <2> QED
      BY <1>1, <1>3, <2>1, <2>2, Unburdened, GoesOn DEF Stream, Letters, EventTypeOK
  <1>4. ASSUME NEW D \in SUBSET Letter, \A d \in D : letter[d] = "open", Reads(r, D),
               Served(r), ereq'[r].at \in {"topic", "afford", "done"}, Ready(r)',
               \A d \in Letter : d \in Holding(r)' =>
                 /\ d \in D
                 /\ ereq'[r].todo[d] <= 1
                 /\ ereq'[r].todo[d] = 1 => ereq'[r].cur # d
        PROVE  EventInv'
    <2>1. LettersGuarded'
      BY <1>1, <1>4, ReadsGuarded DEF Stream
    <2>2. slipped' \subseteq Letter
      BY <1>1, <1>4 DEF Reads
    <2> QED
      BY <1>1, <1>2, <1>4, <2>1, <2>2, Goes DEF Stream, EventTypeOK
  <1>5. CASE /\ ereq[r].op = "replay" /\ letter[ereq[r].event] = "open"
             /\ Reads(r, {ereq[r].event}) /\ Take(r, One(ereq[r].event))
    <2> DEFINE d == ereq[r].event
    <2>1. d \in Letter /\ {d} \in SUBSET Letter
      BY <1>1, <1>5 DEF Ready
    <2>2. /\ One(d) \in [Event -> Nat]
          /\ \A e \in Event : One(d)[e] = IF e = d THEN 1 ELSE 0
      BY <1>1, <2>1 DEF One, Nothing
    <2>3. Served(r) /\ Taken(r, One(d))
      BY <1>1, <1>5, <2>2, TakesUp
    <2> HIDE DEF d
    <2>4. \/ ereq'[r].at = "done"
          \/ /\ ereq'[r].at = "topic" /\ ereq'[r].cur = d
             /\ \A e \in Event : ereq'[r].todo[e] = 0
      BY <2>2, <2>3 DEF Taken
    <2>5. Ready(r)'
      BY <1>1, <2>1, <2>3, <2>4 DEF Ready, Served, Replays
    <2>6. \A x \in Letter : x \in Holding(r)' =>
            /\ x \in {d}
            /\ ereq'[r].todo[x] <= 1
            /\ ereq'[r].todo[x] = 1 => ereq'[r].cur # x
      BY <1>1, <2>4 DEF Holding
    <2> QED
      BY <1>4, <1>5, <2>1, <2>3, <2>4, <2>5, <2>6 DEF d
  <1>6. ASSUME ereq[r].op = "replayAll",
               NEW D \in SUBSET {d \in Letter : letter[d] = "open"}, Reads(r, D),
               ereq' = [ereq EXCEPT
                 ![r].at = IF D = {} THEN "done" ELSE "afford",
                 ![r].todo = [e \in Event |-> IF e \in D THEN 1 ELSE 0]]
        PROVE  EventInv'
    <2> DEFINE todo == [e \in Event |-> IF e \in D THEN 1 ELSE 0]
               at == IF D = {} THEN "done" ELSE "afford"
               u == [ereq[r] EXCEPT !.at = at, !.todo = todo]
    <2>1. /\ todo \in [Event -> Nat] /\ at \in EventAt /\ at \in {"done", "afford"}
          /\ \A e \in Event : todo[e] = IF e \in D THEN 1 ELSE 0
      BY DEF EventAt
    <2>2. ereq' = [ereq EXCEPT ![r] = u]
      BY <1>6
    <2> HIDE DEF todo, at
    <2>0. ereq[r] \in EventRequest /\ ereq[r].cur = NoEvent
      BY <1>1
    <2>3. /\ u \in EventRequest /\ u.at = at /\ u.todo = todo /\ u.cur = NoEvent
          /\ u.op = ereq[r].op /\ u.event = ereq[r].event /\ u.cutoff = ereq[r].cutoff
          /\ u.batches = ereq[r].batches /\ u.clean = ereq[r].clean
      BY <2>0, <2>1 DEF EventRequest
    <2> HIDE DEF u
    <2>4. /\ Served(r) /\ ereq'[r].at \in {"done", "afford"}
          /\ ereq'[r].todo = todo /\ ereq'[r].cur = NoEvent
      BY <1>1, <2>1, <2>2, <2>3 DEF Served
    <2>5. Ready(r)'
      BY <1>1, <1>6, <2>1, <2>4 DEF Ready, Served, Replays
    <2>6. \A x \in Letter : x \in Holding(r)' =>
            /\ x \in D
            /\ ereq'[r].todo[x] <= 1
            /\ ereq'[r].todo[x] = 1 => ereq'[r].cur # x
      BY <1>1, <2>1, <2>4 DEF Holding
    <2> QED
      BY <1>4, <1>6, <2>4, <2>5, <2>6
  <1>7. CASE ReplayLetter(r)
    BY <1>3, <1>5, <1>7 DEF ReplayLetter, Asks
  <1>8. CASE ReplayLetters(r)
    BY <1>6, <1>8 DEF ReplayLetters, Asks
  <1> QED
    BY <1>7, <1>8

-----------------------------------------------------------------------------
(* Sending an event. *)

LEMMA Counts ==
  ASSUME IsFiniteSet(Rows)
  PROVE  \A e : Count(Rows, e) \in Nat
  <1>1. \A e : {x \in Rows : x[1] = e} \in SUBSET Rows
    OBVIOUS
  <1> QED
    BY <1>1, FS_Subset, FS_CardinalityType DEF Count

\* What went to the stream may be logged.
LEMMA SentLogged ==
  ASSUME EventInv, NEW e \in Event, UNCHANGED log,
         sent' = [sent EXCEPT ![e] = @ + 1],
         writing' = [writing EXCEPT ![e] = @ + 1]
  PROVE  LogInv' /\ sent' \in [Event -> Nat] /\ writing' \in [Event -> Nat]
  <1>1. LogInv /\ sent \in [Event -> Nat] /\ writing \in [Event -> Nat]
    BY EventTyped DEF EventInv
  <1>2. Rows' = Rows
    BY DEF Rows
  <1>3. \A x : Count(Rows, x)' = Count(Rows, x) /\ Count(Rows, x) \in Nat
    BY <1>1, <1>2, Counts DEF Count, LogInv
  <1>4. ASSUME NEW x \in Event
        PROVE  Count(Rows, x)' + writing'[x] <= sent'[x]
    <2>1. /\ Count(Rows, x) \in Nat /\ Count(Rows, x)' = Count(Rows, x)
          /\ Count(Rows, x) + writing[x] <= sent[x]
      BY <1>1, <1>3 DEF LogInv, LoggedWasSent
    <2> QED
      BY <1>1, <2>1
  <1> QED
    BY <1>1, <1>2, <1>4 DEF LogInv, LoggedWasSent

\* What went to the stream need not be logged.
LEMMA SentUnlogged ==
  ASSUME EventInv, NEW e \in Event, UNCHANGED <<log, writing>>,
         sent' = [sent EXCEPT ![e] = @ + 1]
  PROVE  LogInv' /\ sent' \in [Event -> Nat]
  <1>1. LogInv /\ sent \in [Event -> Nat] /\ writing \in [Event -> Nat]
    BY EventTyped DEF EventInv
  <1>2. Rows' = Rows
    BY DEF Rows
  <1>3. \A x : Count(Rows, x)' = Count(Rows, x) /\ Count(Rows, x) \in Nat
    BY <1>1, <1>2, Counts DEF Count, LogInv
  <1>4. ASSUME NEW x \in Event
        PROVE  Count(Rows, x)' + writing'[x] <= sent'[x]
    <2>1. /\ Count(Rows, x) \in Nat /\ Count(Rows, x)' = Count(Rows, x)
          /\ Count(Rows, x) + writing[x] <= sent[x]
      BY <1>1, <1>3 DEF LogInv, LoggedWasSent
    <2> QED
      BY <1>1, <2>1
  <1> QED
    BY <1>1, <1>2, <1>4 DEF LogInv, LoggedWasSent

LEMMA SendStep ==
  ASSUME EventInv, NEW r \in Request, SendEvent(r)
  PROVE  EventInv'
  <1> DEFINE e == ereq[r].cur
  <1>1. /\ EventTypeOK /\ Ready(r) /\ ResolvedWasSent /\ SentBeforeMark
        /\ \A q \in Request : Ready(q)
        /\ UNCHANGED <<letter, billed, discarded, topic, log, today>>
        /\ ereq[r].at = "send" /\ ereq[r].todo \in [Event -> Nat]
        /\ replayed \in [Letter -> Nat] /\ Letter \subseteq Event /\ billed \subseteq Letter
        /\ slipped \subseteq Letter /\ sent \in [Event -> Nat]
        /\ writing \in [Event -> Nat]
    BY EventTyped DEF SendEvent, Being, EventInv
  <1>2. e \in Event /\ (ereq[r].op \in Replays => e \in Letter)
    BY <1>1 DEF Ready, Replays
  <1>3. CASE PublishFails(r) /\ UNCHANGED <<sent, writing, replayed, slipped>>
    <2>1. PICK todo \in {ereq[r].todo, Nothing} : Take(r, todo)
      BY <1>3 DEF PublishFails
    <2>2. todo \in [Event -> Nat]
      BY <1>1 DEF Nothing
    <2>3. Served(r) /\ Taken(r, todo)
      BY <1>1, <2>1, <2>2, TakesUp
    <2>4. Lightens(r) /\ Ready(r)' /\ ereq'[r].at \in {"topic", "done"}
      BY <1>1, <1>3, <2>3, TakesNext
    <2>5. UNCHANGED <<Letters, log, writing, today, sent, replayed>> /\ topic' \in BOOLEAN
      BY <1>1, <1>3 DEF Letters, EventTypeOK
    <2> QED
      BY <1>1, <2>3, <2>4, <2>5, GoesOn
  <1>4. CASE /\ sent' = [sent EXCEPT ![e] = @ + 1]
             /\ writing' = [writing EXCEPT ![e] = @ + 1]
             /\ IF ereq[r].op \in Replays
                  THEN /\ replayed' = [replayed EXCEPT ![e] = @ + 1]
                       /\ Move(r, "mark")
                  ELSE UNCHANGED replayed /\ Take(r, ereq[r].todo)
             /\ UNCHANGED slipped
    <2> HIDE DEF e
    <2>1. LogInv' /\ sent' \in [Event -> Nat] /\ writing' \in [Event -> Nat]
      BY <1>1, <1>2, <1>4, SentLogged
    <2>2. ASSUME Served(r), Ready(r)', SweptInv', LettersGuarded', SentBeforeMark',
                 ResolvedWasSent', replayed' \in [Letter -> Nat]
          PROVE  EventInv'
      <3>1. \A q \in Request : Ready(q)'
        BY <2>2, OthersReady
      <3>2. EventTypeOK'
        BY <1>1, <1>4, <2>1, <2>2 DEF EventTypeOK, Served
      <3> QED
        BY <2>1, <2>2, <3>1, <3>2 DEF EventInv
    <2>3. CASE /\ ereq[r].op \in Replays
               /\ replayed' = [replayed EXCEPT ![e] = @ + 1] /\ Move(r, "mark")
      <3>1. /\ Served(r) /\ ereq'[r].at = "mark"
            /\ ereq'[r].todo = ereq[r].todo /\ ereq'[r].cur = ereq[r].cur
        BY <1>1, <2>3, Moves DEF EventAt
      <3>2. /\ replayed' \in [Letter -> Nat] /\ e \in Letter
            /\ replayed'[e] = replayed[e] + 1
            /\ \A d \in Letter : replayed'[d] >= replayed[d]
            /\ \A d \in Letter \ {e} : replayed'[d] = replayed[d]
        BY <1>1, <1>2, <2>3
      <3>3. Ready(r)'
        BY <1>1, <2>3, <3>1 DEF Ready, Served, Replays
      <3>4. SweptInv'
        BY <1>1, <3>1, SweepsStay
      <3>5. ResolvedWasSent'
        BY <1>1, <3>2 DEF ResolvedWasSent
      <3>6. SentBeforeMark'
        <4>1. ASSUME NEW q \in Request, ereq'[q].at = "mark", q # r
              PROVE  replayed'[ereq'[q].cur] > 0
          <5>1. /\ ereq'[q] = ereq[q] /\ ereq[q].cur \in Letter
                /\ replayed[ereq[q].cur] > 0
            BY <1>1, <3>1, <4>1 DEF Served, Ready, SentBeforeMark, Replays
          <5> QED
            BY <1>1, <3>2, <5>1
        <4> QED
          BY <1>1, <3>1, <3>2, <4>1 DEF SentBeforeMark, e
      <3>7. LettersGuarded'
        <4> SUFFICES ASSUME NEW d \in Letter \ slipped'
                     PROVE  Guarded(d)'
          BY DEF LettersGuarded
        <4>1. Guarded(d) /\ d \in Letter /\ letter'[d] = letter[d]
          BY <1>1, <1>4 DEF EventInv, LettersGuarded
        <4>2. \A q \in Request : d \in Holding(q)' <=> d \in Holding(q)
          BY <1>1, <3>1 DEF Served, Holding
        <4>3. /\ \A q \in Request : /\ ereq'[q].todo[d] = ereq[q].todo[d]
                                    /\ ereq'[q].cur = ereq[q].cur
                                    /\ Sent(q, d) => Sent(q, d)'
              /\ Sent(r, d)' <=> d = e
          BY <1>1, <3>1 DEF Served, Sent, e
        <4>4. d = e => d \in Holding(r) /\ ~Sent(r, d)
          BY <1>1, <2>3 DEF Holding, Sent, e, Replays
        <4>5. d = e => replayed'[d] = 1 /\ \A q \in Request : d \in Holding(q) => q = r
          BY <3>2, <4>1, <4>4 DEF Guarded
        <4>6. \A q \in Request : d \in Holding(q)' => Sent(q, d)' \/ replayed'[d] = 0
          BY <3>2, <4>1, <4>2, <4>3, <4>5 DEF Guarded
        <4>7. replayed'[d] <= 1
          BY <3>2, <4>1, <4>5 DEF Guarded
        <4>8. replayed'[d] = 1 => letter'[d] = "resolved" \/ \E q \in Request : Sent(q, d)'
          BY <3>2, <4>1, <4>3 DEF Guarded
        <4> QED
          BY <4>1, <4>2, <4>3, <4>6, <4>7, <4>8 DEF Guarded
      <3> QED
        BY <2>2, <3>1, <3>2, <3>3, <3>4, <3>5, <3>6, <3>7
    <2>4. CASE /\ ereq[r].op \notin Replays
               /\ UNCHANGED replayed /\ Take(r, ereq[r].todo)
      <3>1. Served(r) /\ Taken(r, ereq[r].todo)
        BY <1>1, <2>4, TakesUp
      <3>2. Lightens(r) /\ Ready(r)' /\ ereq'[r].at \in {"topic", "done"}
        BY <1>1, <1>4, <3>1, TakesNext
      <3>3. SweptInv' /\ SentBeforeMark'
        BY <1>1, <2>4, <3>1, <3>2, SweepsStay, MarksStay
      <3>4. LettersGuarded'
        BY <1>1, <1>4, <2>4, <3>1, <3>2, GuardStays DEF Sent
      <3>5. ResolvedWasSent'
        BY <1>1, <2>4 DEF ResolvedWasSent
      <3> QED
        BY <1>1, <2>2, <2>4, <3>1, <3>2, <3>3, <3>4, <3>5
    <2> QED
      BY <1>4, <2>3, <2>4
  <1>5. CASE /\ sent' = [sent EXCEPT ![e] = @ + 1]
             /\ IF ereq[r].op \in Replays
                  THEN /\ replayed' = [replayed EXCEPT ![e] = @ + 1]
                       /\ slipped' = slipped \cup {e}
                  ELSE UNCHANGED <<replayed, slipped>>
             /\ PublishFails(r)
             /\ UNCHANGED writing
    <2> HIDE DEF e
    <2>1. PICK todo \in {ereq[r].todo, Nothing} : Take(r, todo)
      BY <1>5 DEF PublishFails
    <2>2. todo \in [Event -> Nat]
      BY <1>1 DEF Nothing
    <2>3. Served(r) /\ Taken(r, todo)
      BY <1>1, <2>1, <2>2, TakesUp
    <2>4. /\ slipped \subseteq slipped' /\ slipped' \subseteq Letter
          /\ replayed' \in [Letter -> Nat]
          /\ \A d \in Letter \ slipped' : replayed'[d] = replayed[d]
          /\ \A d \in Letter : replayed'[d] >= replayed[d]
      BY <1>1, <1>2, <1>5
    <2>5. Lightens(r) /\ Ready(r)' /\ ereq'[r].at \in {"topic", "done"}
      BY <1>1, <2>3, <2>4, TakesNext
    <2>6. LettersGuarded' /\ SweptInv' /\ \A q \in Request : Ready(q)'
      BY <1>1, <2>3, <2>4, <2>5, GuardStays, SweepsStay, OthersReady DEF Sent
    <2>7. ResolvedWasSent'
      BY <1>1, <2>4 DEF ResolvedWasSent
    <2>8. SentBeforeMark'
      <3>1. ASSUME NEW q \in Request, ereq'[q].at = "mark"
            PROVE  replayed'[ereq'[q].cur] > 0
        <4>1. ereq'[q] = ereq[q] /\ ereq[q].cur \in Letter /\ replayed[ereq[q].cur] > 0
          BY <1>1, <2>3, <2>5, <3>1 DEF Served, Ready, SentBeforeMark, Replays
        <4> QED
          BY <1>1, <2>4, <4>1
      <3> QED
        BY <3>1 DEF SentBeforeMark
    <2>9. LogInv' /\ sent' \in [Event -> Nat]
      BY <1>1, <1>2, <1>5, SentUnlogged DEF EventInv
    <2>10. EventTypeOK'
      BY <1>1, <1>5, <2>3, <2>4, <2>9 DEF EventTypeOK, Served
    <2> QED
      BY <2>6, <2>7, <2>8, <2>9, <2>10 DEF EventInv
  <1> QED
    BY <1>3, <1>4, <1>5 DEF SendEvent, Replays

-----------------------------------------------------------------------------
(* The log and its sweeps. *)

LEMMA RowsAre ==
  /\ \A x : x \in Rows <=>
       \E e \in Event, t \in Days : \E n \in 1 .. log[e][t] : x = <<e, t, n>>
  /\ \A x : x \in Rows' <=>
       \E e \in Event, t \in Days : \E n \in 1 .. log'[e][t] : x = <<e, t, n>>
  <1>1. ASSUME NEW x
        PROVE  x \in Rows <=>
                 \E e \in Event, t \in Days : \E n \in 1 .. log[e][t] : x = <<e, t, n>>
    <2> DEFINE S(e, t) == {e} \X {t} \X (1 .. log[e][t])
    <2>0. Rows = UNION {S(e, t) : e \in Event, t \in Days}
      BY DEF Rows
    <2> HIDE DEF S
    <2>1. x \in Rows <=> \E e \in Event, t \in Days : x \in S(e, t)
      BY <2>0
    <2> USE DEF S
    <2>2. ASSUME NEW e \in Event, NEW t \in Days
          PROVE  x \in {e} \X {t} \X (1 .. log[e][t])
                   <=> \E n \in 1 .. log[e][t] : x = <<e, t, n>>
      OBVIOUS
    <2> QED
      BY <2>1, <2>2
  <1>2. ASSUME NEW x
        PROVE  x \in Rows' <=>
                 \E e \in Event, t \in Days : \E n \in 1 .. log'[e][t] : x = <<e, t, n>>
    <2> DEFINE S(e, t) == {e} \X {t} \X (1 .. log'[e][t])
    <2>0. Rows' = UNION {S(e, t) : e \in Event, t \in Days}
      BY DEF Rows
    <2> HIDE DEF S
    <2>1. x \in Rows' <=> \E e \in Event, t \in Days : x \in S(e, t)
      BY <2>0
    <2> USE DEF S
    <2>2. ASSUME NEW e \in Event, NEW t \in Days
          PROVE  x \in {e} \X {t} \X (1 .. log'[e][t])
                   <=> \E n \in 1 .. log'[e][t] : x = <<e, t, n>>
      OBVIOUS
    <2> QED
      BY <2>1, <2>2
  <1> QED
    BY <1>1, <1>2

\* Rows that are deleted are nobody's any more.
LEMMA FewerRows ==
  ASSUME LogInv, Rows' \subseteq Rows, UNCHANGED <<writing, sent>>,
         writing \in [Event -> Nat], sent \in [Event -> Nat]
  PROVE  LogInv'
  <1>1. IsFiniteSet(Rows') /\ IsFiniteSet(Rows)
    BY FS_Subset DEF LogInv
  <1>2. ASSUME NEW e \in Event
        PROVE  Count(Rows, e)' + writing'[e] <= sent'[e]
    <2> DEFINE mine == {x \in Rows : x[1] = e}
               left == {x \in Rows' : x[1] = e}
    <2>1. IsFiniteSet(mine) /\ left \in SUBSET mine
      BY <1>1, FS_Subset
    <2>2. /\ Cardinality(left) \in Nat /\ Cardinality(mine) \in Nat
          /\ Cardinality(left) <= Cardinality(mine)
      BY <2>1, FS_Subset, FS_CardinalityType
    <2>3. Count(Rows, e)' = Cardinality(left) /\ Count(Rows, e) = Cardinality(mine)
      BY DEF Count
    <2>4. Count(Rows, e) + writing[e] <= sent[e]
      BY DEF LogInv, LoggedWasSent
    <2> HIDE DEF mine, left
    <2> QED
      BY <2>2, <2>3, <2>4
  <1> QED
    BY <1>1, <1>2 DEF LogInv, LoggedWasSent

\* What a sweep does to its own request is nothing to the letters.
LEMMA SweepKeeps ==
  ASSUME EventInv, NEW r \in Request, ereq[r].op = "sweep",
         ereq' \in [Request -> EventRequest], ereq'[r].op = "sweep",
         \A q \in Request \ {r} : ereq'[q] = ereq[q],
         ereq[r].at # "mark", ereq'[r].at # "mark", UNCHANGED <<Letters, replayed>>
  PROVE  LettersGuarded' /\ SentBeforeMark' /\ ResolvedWasSent'
  <1>1. /\ UNCHANGED <<letter, billed, discarded, slipped, replayed>>
        /\ LettersGuarded /\ SentBeforeMark /\ ResolvedWasSent
    BY DEF Letters, EventInv
  <1>2. \A d \in Letter, q \in Request :
          /\ d \in Holding(q)' <=> d \in Holding(q)
          /\ Sent(q, d)' <=> Sent(q, d)
          /\ d \in Holding(q) => ereq'[q] = ereq[q]
    BY DEF Holding, Sent
  <1>3. LettersGuarded'
    BY <1>1, <1>2 DEF LettersGuarded, Guarded
  <1>4. SentBeforeMark'
    BY <1>1 DEF SentBeforeMark
  <1>5. ResolvedWasSent'
    BY <1>1 DEF ResolvedWasSent
  <1> QED
    BY <1>3, <1>4, <1>5

LEMMA StartSweepStep ==
  ASSUME EventInv, NEW r \in Request, StartSweep(r)
  PROVE  EventInv'
  <1>1. /\ EventTypeOK /\ ereq[r].at = "start" /\ ereq[r].op = "sweep" /\ Ready(r)
        /\ UNCHANGED <<Letters, Stream>> /\ ereq \in [Request -> EventRequest]
        /\ today \in Nat /\ Retention \in Nat
    BY EventTyped DEF StartSweep, Asks, Being, EventInv
  <1>2. CASE Move(r, "done")
    <2>1. Served(r) /\ ereq'[r].at = "done"
      BY <1>1, <1>2, Moves DEF EventAt
    <2>2. Ready(r)'
      BY <1>1, <2>1 DEF Ready, Served
    <2> QED
      BY <1>1, <2>1, <2>2, Unburdened, GoesOn DEF Stream, EventTypeOK
  <1>3. CASE ereq' = [ereq EXCEPT ![r].at = "delete", ![r].cutoff = today - Retention]
    <2> DEFINE c == today - Retention
               u == [ereq[r] EXCEPT !.at = "delete", !.cutoff = c]
    <2>0. c \in Int
      BY <1>1
    <2> HIDE DEF c
    <2>1. ereq' = [ereq EXCEPT ![r] = u] /\ c \in Int
      BY <1>3, <2>0 DEF c
    <2>2. /\ u \in EventRequest /\ u.at = "delete" /\ u.op = "sweep" /\ u.cutoff = c
          /\ u.batches = ereq[r].batches /\ u.clean = ereq[r].clean
      BY <1>1, <2>1 DEF EventRequest, EventAt
    <2> HIDE DEF u
    <2>3. /\ ereq' \in [Request -> EventRequest] /\ ereq'[r] = u
          /\ \A q \in Request \ {r} : ereq'[q] = ereq[q]
      BY <1>1, <2>1, <2>2
    <2>4. LettersGuarded' /\ SentBeforeMark' /\ ResolvedWasSent'
      BY <1>1, <2>2, <2>3, SweepKeeps DEF Stream
    <2>5. ASSUME NEW q \in Request
          PROVE  Ready(q)'
      <3>1. CASE q = r
        BY <1>1, <2>2, <2>3, <3>1 DEF Ready, Replays
      <3>2. CASE q # r
        <4>1. ereq'[q] = ereq[q] /\ Ready(q)
          BY <2>3, <3>2 DEF EventInv
        <4> QED
          BY <4>1 DEF Ready
      <3> QED
        BY <3>1, <3>2
    <2>6. LogInv' /\ EventTypeOK'
      BY <1>1, <2>3, LogStays DEF EventInv, EventTypeOK, Stream, Letters
    <2>7. SweptInv'
      <3>1. \A x : Due(x)' = Due(x)
        BY <1>1 DEF Due, Rows, Stream
      <3>2. today' = today /\ ~ereq'[r].clean /\ ereq'[r].cutoff = today - Retention
        BY <1>1, <2>2, <2>3 DEF Stream, Ready, c
      <3>3. ereq'[r].cutoff <= today' - Retention
        BY <1>1, <3>2
      <3> QED
        BY <2>3, <3>1, <3>2, <3>3 DEF EventInv, SweptInv, SweptClean
    <2> QED
      BY <2>4, <2>5, <2>6, <2>7 DEF EventInv
  <1> QED
    BY <1>2, <1>3 DEF StartSweep

\* A batch takes rows off the log, and one that falls short takes all there are.
LEMMA Upto ==
  ASSUME NEW n \in Nat
  PROVE  IsFiniteSet(1 .. n) /\ Cardinality(1 .. n) = n
  BY FS_Interval

LEMMA BatchTakes ==
  ASSUME EventInv, NEW c \in Int, NEW cut \in SUBSET Due(c), log' = Without(cut)
  PROVE  /\ log' \in [Event -> [Days -> Nat]]
         /\ Rows' \subseteq Rows
         /\ IsFiniteSet(Due(c)) /\ Cardinality(cut) <= Cardinality(Due(c))
         /\ Cardinality(cut) \in Nat /\ Cardinality(Due(c)) \in Nat
         /\ Cardinality(cut) = Cardinality(Due(c)) => Due(c)' = {}
  <1> DEFINE S(e, t) == {n \in 1 .. log[e][t] : <<e, t, n>> \in cut}
  <1>1. log \in [Event -> [Days -> Nat]] /\ IsFiniteSet(Rows)
    BY EventTyped DEF EventInv, LogInv
  <1>2. Due(c) \in SUBSET Rows
    BY DEF Due
  <1>3. IsFiniteSet(Due(c))
    BY <1>1, <1>2, FS_Subset
  <1>4. /\ Cardinality(cut) <= Cardinality(Due(c))
        /\ Cardinality(cut) \in Nat /\ Cardinality(Due(c)) \in Nat
        /\ Cardinality(cut) = Cardinality(Due(c)) => cut = Due(c)
    BY <1>3, FS_Subset, FS_CardinalityType
  <1>5. ASSUME NEW e \in Event, NEW t \in Days
        PROVE  /\ log'[e][t] \in Nat /\ log'[e][t] <= log[e][t]
               /\ S(e, t) = 1 .. log[e][t] => log'[e][t] = 0
    <2>1. log[e][t] \in Nat /\ log'[e][t] = log[e][t] - Cardinality(S(e, t))
      BY <1>1 DEF Without
    <2>2. /\ IsFiniteSet(1 .. log[e][t]) /\ Cardinality(1 .. log[e][t]) = log[e][t]
          /\ S(e, t) \in SUBSET (1 .. log[e][t])
      BY <2>1, Upto
    <2> HIDE DEF S
    <2>3. Cardinality(S(e, t)) \in Nat /\ Cardinality(S(e, t)) <= log[e][t]
      BY <2>2, FS_Subset, FS_CardinalityType
    <2> QED
      BY <2>1, <2>2, <2>3
  <1>6. log' \in [Event -> [Days -> Nat]]
    <2>1. /\ log' = [e \in Event |-> log'[e]]
          /\ \A e \in Event : log'[e] = [t \in Days |-> log'[e][t]]
      BY DEF Without
    <2> QED
      BY <1>5, <2>1
  <1>7. Rows' \subseteq Rows
    <2>1. ASSUME NEW e \in Event, NEW t \in Days, NEW n \in 1 .. log'[e][t]
          PROVE  n \in 1 .. log[e][t]
      BY <1>1, <1>5
    <2> QED
      BY <2>1, RowsAre
  <1>8. ASSUME cut = Due(c), NEW x \in Due(c)'
        PROVE  FALSE
    <2>0. x \in Rows'
      BY <1>8 DEF Due
    <2>1. x[2] < c
      BY <1>8 DEF Due
    <2>2. PICK e \in Event, t \in Days : \E n \in 1 .. log'[e][t] : x = <<e, t, n>>
      BY <2>0, RowsAre
    <2>3. ASSUME NEW k \in 1 .. log[e][t]
          PROVE  k \in S(e, t)
      <3>1. <<e, t, k>> \in Rows
        BY RowsAre
      <3>2. <<e, t, k>>[2] < c
        BY <2>1, <2>2
      <3> QED
        BY <1>8, <3>1, <3>2 DEF Due
    <2>4. S(e, t) = 1 .. log[e][t]
      BY <2>3
    <2>5. log'[e][t] = 0
      BY <1>5, <2>4
    <2> QED
      BY <2>2, <2>5
  <1> QED
    BY <1>3, <1>4, <1>6, <1>7, <1>8

LEMMA DeleteBatchStep ==
  ASSUME EventInv, NEW r \in Request, DeleteBatch(r)
  PROVE  EventInv'
  <1>0. PICK c \in Int : c = ereq[r].cutoff
    BY EventTyped DEF EventInv
  <1> DEFINE n == ereq[r].batches + 1
  <1>1. /\ EventTypeOK /\ Ready(r) /\ ereq[r].at = "delete" /\ ereq[r].op = "sweep"
        /\ UNCHANGED <<Letters, topic, writing, today, sent, replayed>>
        /\ ereq \in [Request -> EventRequest]
        /\ n \in 0 .. MaxBatches /\ Batch \in Nat /\ MaxBatches \in Nat
        /\ writing \in [Event -> Nat] /\ sent \in [Event -> Nat]
        /\ c <= today - Retention
    BY <1>0, EventTyped DEF DeleteBatch, Being, EventInv, Ready, SweptInv
  <1>2. PICK cut \in SUBSET Due(c) :
          /\ Cardinality(cut) = IF Cardinality(Due(c)) < Batch THEN Cardinality(Due(c))
                                                               ELSE Batch
          /\ log' = Without(cut)
          /\ ereq' = [ereq EXCEPT
               ![r].batches = n, ![r].clean = LastBatch(Cardinality(cut)),
               ![r].at = IF LastBatch(Cardinality(cut)) \/ n = MaxBatches
                           THEN "done" ELSE "delete"]
    BY <1>0 DEF DeleteBatch
  <1> HIDE DEF n
  <1>3. /\ log' \in [Event -> [Days -> Nat]]
        /\ Rows' \subseteq Rows
        /\ Cardinality(cut) \in Nat /\ Cardinality(Due(c)) \in Nat
        /\ Cardinality(cut) = Cardinality(Due(c)) => Due(c)' = {}
    <2>1. log' = Without(cut)
      BY <1>2
    <2> QED
      BY <2>1, BatchTakes
  <1> DEFINE last == LastBatch(Cardinality(cut))
             at == IF last \/ n = MaxBatches THEN "done" ELSE "delete"
             u == [ereq[r] EXCEPT !.batches = n, !.clean = last, !.at = at]
  <1>4. ereq' = [ereq EXCEPT ![r] = u]
    BY <1>2
  <1>5. /\ last \in BOOLEAN /\ at \in EventAt /\ at \in {"done", "delete"}
        /\ at = "delete" => ~last /\ n # MaxBatches
        /\ last => Due(c)' = {}
    BY <1>1, <1>2, <1>3 DEF LastBatch, EventAt
  <1> HIDE DEF last, at
  <1>6. /\ u \in EventRequest /\ u.batches = n /\ u.clean = last /\ u.at = at
        /\ u.op = "sweep" /\ u.cutoff = c
    BY <1>0, <1>1, <1>5 DEF EventRequest
  <1> HIDE DEF u
  <1>7. /\ ereq' \in [Request -> EventRequest] /\ ereq'[r] = u
        /\ \A q \in Request \ {r} : ereq'[q] = ereq[q]
    BY <1>1, <1>4, <1>6
  <1>8. LettersGuarded' /\ SentBeforeMark' /\ ResolvedWasSent'
    BY <1>1, <1>5, <1>6, <1>7, SweepKeeps
  <1>9. ASSUME NEW q \in Request
        PROVE  Ready(q)'
    <2>1. CASE q = r
      BY <1>1, <1>5, <1>6, <1>7, <2>1 DEF Ready, Replays
    <2>2. CASE q # r
      <3>1. ereq'[q] = ereq[q] /\ Ready(q)
        BY <1>7, <2>2 DEF EventInv
      <3> QED
        BY <3>1 DEF Ready
    <2> QED
      BY <2>1, <2>2
  <1>10. LogInv'
    BY <1>1, <1>3, FewerRows DEF EventInv
  <1>11. EventTypeOK'
    BY <1>1, <1>3, <1>7 DEF EventTypeOK, Letters
  <1>12. SweptInv'
    <2>1. SweptInv
      BY DEF EventInv
    <2> DEFINE Left(k) == {x \in Rows' : x[2] < k}
    <2>2. \A k : Left(k) \subseteq Due(k)
      BY <1>3 DEF Due
    <2>3. /\ ereq'[r].cutoff = c /\ c <= today' - Retention
          /\ ereq'[r].clean => Left(c) = {}
      BY <1>1, <1>5, <1>6, <1>7 DEF Due
    <2>4. \A q \in Request \ {r} : ereq'[q] = ereq[q]
      BY <1>7
    <2>5. \A q \in Request : ereq'[q].op = "sweep" /\ ereq'[q].clean =>
                                Left(ereq'[q].cutoff) = {}
      BY <2>1, <2>2, <2>3, <2>4 DEF SweptInv, SweptClean
    <2>6. \A q \in Request :
            ereq'[q].op = "sweep" /\ (ereq'[q].at = "delete" \/ ereq'[q].clean)
              => ereq'[q].cutoff <= today' - Retention
      BY <1>1, <2>1, <2>3, <2>4 DEF SweptInv
    <2> QED
      BY <2>5, <2>6 DEF SweptInv, SweptClean, Due
  <1> QED
    BY <1>8, <1>9, <1>10, <1>11, <1>12 DEF EventInv

LEMMA WriteLogStep ==
  ASSUME EventInv, NEW e \in Event, WriteLog(e)
  PROVE  EventInv'
  <1>1. /\ EventTypeOK /\ LogInv /\ SweptInv
        /\ UNCHANGED <<letter, billed, discarded, slipped, topic, today, ereq, sent,
                       replayed>>
        /\ writing \in [Event -> Nat] /\ sent \in [Event -> Nat] /\ today \in Days
        /\ log \in [Event -> [Days -> Nat]] /\ today \in Nat /\ Retention \in Nat \ {0}
        /\ \A q \in Request : ereq[q].cutoff \in Int
    BY EventTyped DEF WriteLog, EventInv, Letters
  <1> DEFINE row == <<e, today, log[e][today] + 1>>
  <1>2. /\ writing' \in [Event -> Nat] /\ log' \in [Event -> [Days -> Nat]]
        /\ writing'[e] = writing[e] - 1 /\ writing[e] > 0
        /\ \A x \in Event \ {e} : writing'[x] = writing[x]
    BY <1>1 DEF WriteLog
  <1>3. Rows' \subseteq Rows \cup {row}
    <2>1. ASSUME NEW x \in Event, NEW t \in Days, NEW n \in 1 .. log'[x][t]
          PROVE  n \in 1 .. log[x][t] \/ (x = e /\ t = today /\ n = log[e][today] + 1)
      <3>1. log[x][t] \in Nat
        BY <1>1
      <3>2. log'[x][t] = log[x][t] \/ (x = e /\ t = today /\ log'[x][t] = log[x][t] + 1)
        BY <1>1 DEF WriteLog
      <3> QED
        BY <3>1, <3>2
    <2> QED
      BY <2>1, RowsAre
  <1> HIDE DEF row
  <1>4. /\ IsFiniteSet(Rows) /\ IsFiniteSet(Rows \cup {row})
        /\ Rows' \in SUBSET (Rows \cup {row})
    BY <1>1, <1>3, FS_AddElement DEF LogInv
  <1>5. IsFiniteSet(Rows')
    BY <1>4, FS_Subset
  <1>6. ASSUME NEW x \in Event
        PROVE  Count(Rows, x)' + writing'[x] <= sent'[x]
    <2> DEFINE mine == {y \in Rows : y[1] = x}
               now == {y \in Rows' : y[1] = x}
    <2>1. /\ mine \in SUBSET Rows /\ now \in SUBSET Rows'
          /\ now \subseteq mine \cup {row}
          /\ x # e => now \subseteq mine
      BY <1>3 DEF row
    <2>2. /\ Count(Rows, x)' = Cardinality(now) /\ Count(Rows, x) = Cardinality(mine)
          /\ Count(Rows, x) + writing[x] <= sent[x]
      BY <1>1 DEF Count, LogInv, LoggedWasSent
    <2> HIDE DEF mine, now
    <2>3. IsFiniteSet(mine) /\ IsFiniteSet(now)
      BY <1>4, <1>5, <2>1, FS_Subset
    <2>4. Cardinality(mine) \in Nat /\ Cardinality(now) \in Nat
      BY <2>3, FS_CardinalityType
    <2>5. Cardinality(now) <= Cardinality(mine) + 1
      <3>1. /\ IsFiniteSet(mine \cup {row})
            /\ \/ Cardinality(mine \cup {row}) = Cardinality(mine)
               \/ Cardinality(mine \cup {row}) = Cardinality(mine) + 1
        BY <2>3, FS_AddElement
      <3>4. now \in SUBSET (mine \cup {row})
        BY <2>1
      <3>2. Cardinality(now) <= Cardinality(mine \cup {row})
        BY <3>1, <3>4, FS_Subset
      <3>3. Cardinality(mine \cup {row}) \in Nat
        BY <3>1, FS_CardinalityType
      <3> QED
        BY <2>4, <3>1, <3>2, <3>3
    <2>6. x # e => Cardinality(now) <= Cardinality(mine)
      BY <2>1, <2>3, FS_Subset
    <2>7. writing[x] \in Nat /\ sent[x] \in Nat /\ sent'[x] = sent[x] /\ writing'[x] \in Nat
      BY <1>1, <1>2
    <2>8. CASE x = e
      BY <1>2, <2>2, <2>4, <2>5, <2>7, <2>8
    <2>9. CASE x # e
      BY <1>2, <2>2, <2>4, <2>6, <2>7, <2>9
    <2> QED
      BY <2>8, <2>9
  <1>7. LogInv'
    BY <1>5, <1>6 DEF LogInv, LoggedWasSent
  <1>8. SweptInv'
    <2>1. ASSUME NEW q \in Request, ereq[q].op = "sweep", ereq[q].clean
          PROVE  Due(ereq[q].cutoff)' = {}
      <3>1. Due(ereq[q].cutoff) = {} /\ ereq[q].cutoff <= today - Retention
        BY <1>1, <2>1 DEF SweptInv, SweptClean
      <3>2. ~(today < ereq[q].cutoff)
        BY <1>1, <3>1
      <3>3. row[2] = today
        BY DEF row
      <3>4. \A x \in Rows' : ~(x[2] < ereq[q].cutoff)
        BY <1>3, <3>1, <3>2, <3>3 DEF Due
      <3> QED
        BY <1>1, <3>4 DEF Due
    <2>2. \A q \in Request : ereq'[q].op = "sweep" /\ ereq'[q].clean =>
                                {x \in Rows' : x[2] < ereq'[q].cutoff} = {}
      BY <1>1, <2>1 DEF Due
    <2> QED
      BY <1>1, <2>2 DEF SweptInv, SweptClean, Due
  <1>9. EventTypeOK'
    BY <1>1, <1>2 DEF EventTypeOK
  <1>10. /\ \A q \in Request : Ready(q)'
         /\ LettersGuarded' /\ SentBeforeMark' /\ ResolvedWasSent'
    BY <1>1 DEF EventInv, Ready, LettersGuarded, Guarded, Holding, Sent, SentBeforeMark,
                ResolvedWasSent
  <1> QED
    BY <1>7, <1>8, <1>9, <1>10 DEF EventInv

LEMMA NextDayStep ==
  ASSUME EventInv, NextDay
  PROVE  EventInv'
  <1>1. /\ EventTypeOK /\ LogInv /\ SweptInv
        /\ UNCHANGED <<letter, billed, discarded, slipped, topic, log, writing, ereq,
                       sent, replayed>>
        /\ today \in Nat /\ today' = today + 1 /\ today < MaxDays /\ MaxDays \in Nat
        /\ Retention \in Nat /\ \A q \in Request : ereq[q].cutoff \in Int
    BY EventTyped DEF NextDay, EventInv, Letters
  <1>2. today' \in Days
    BY <1>1 DEF Days
  <1>3. EventTypeOK'
    BY <1>1, <1>2 DEF EventTypeOK
  <1>4. SweptInv'
    <2>1. \A c : Due(c)' = Due(c)
      BY <1>1 DEF Due, Rows
    <2>2. \A q \in Request : ereq[q].cutoff <= today - Retention =>
                                ereq'[q].cutoff <= today' - Retention
      BY <1>1
    <2> QED
      BY <1>1, <2>1, <2>2 DEF SweptInv, SweptClean
  <1>5. LogInv'
    BY <1>1, LogStays
  <1>6. /\ \A q \in Request : Ready(q)'
        /\ LettersGuarded' /\ SentBeforeMark' /\ ResolvedWasSent'
    BY <1>1 DEF EventInv, Ready, LettersGuarded, Guarded, Holding, Sent, SentBeforeMark,
                ResolvedWasSent
  <1> QED
    BY <1>3, <1>4, <1>5, <1>6 DEF EventInv

-----------------------------------------------------------------------------
\* Whoever had a letter in hand to be marked lets it slip.
LEMMA CrashStep ==
  ASSUME EventInv, Crash
  PROVE  EventInv'
  <1>1. /\ EventTypeOK /\ LogInv /\ SweptInv /\ LettersGuarded /\ ResolvedWasSent
        /\ \A q \in Request : Ready(q)
        /\ UNCHANGED <<letter, billed, discarded, topic, log, today, sent, replayed>>
        /\ ereq \in [Request -> EventRequest] /\ slipped \subseteq Letter
        /\ writing' = Nothing /\ writing \in [Event -> Nat] /\ sent \in [Event -> Nat]
        /\ replayed \in [Letter -> Nat]
    BY EventTyped DEF Crash, EventInv
  <1>2. /\ ereq' \in [Request -> EventRequest]
        /\ \A q \in Request :
             /\ ereq'[q].op = ereq[q].op /\ ereq'[q].event = ereq[q].event
             /\ ereq'[q].todo = ereq[q].todo /\ ereq'[q].cur = ereq[q].cur
             /\ ereq'[q].cutoff = ereq[q].cutoff /\ ereq'[q].batches = ereq[q].batches
             /\ ereq'[q].clean = ereq[q].clean
             /\ ereq'[q].at \in {"start", "done"}
             /\ ereq'[q].at = "start" => ereq[q].at = "start"
    <2>1. ASSUME NEW s \in EventRequest
          PROVE  LET u == [s EXCEPT !.at = "done"]
                 IN  /\ u \in EventRequest /\ u.at = "done" /\ u.op = s.op
                     /\ u.event = s.event /\ u.todo = s.todo /\ u.cur = s.cur
                     /\ u.cutoff = s.cutoff /\ u.batches = s.batches /\ u.clean = s.clean
      BY DEF EventRequest, EventAt
    <2> QED
      BY <1>1, <2>1 DEF Crash, InFlight
  <1>3. \A q \in Request : Ready(q)'
    BY <1>1, <1>2 DEF Ready
  <1>4. /\ slipped \subseteq slipped' /\ slipped' \subseteq Letter
        /\ \A q \in Request : ereq[q].at = "mark" => ereq[q].cur \in slipped'
    <2>1. \A q \in Request : ereq[q].at = "mark" => ereq[q].cur \in Letter
      BY <1>1 DEF Ready
    <2> QED
      BY <1>1, <2>1 DEF Crash, Being
  <1>5. LettersGuarded'
    <2> SUFFICES ASSUME NEW d \in Letter \ slipped'
                 PROVE  Guarded(d)'
      BY DEF LettersGuarded
    <2>1. Guarded(d) /\ \A q \in Request : ~Sent(q, d)
      BY <1>1, <1>4 DEF LettersGuarded, Sent
    <2>2. \A q \in Request : d \notin Holding(q)'
      BY <1>2 DEF Holding
    <2>3. replayed'[d] <= 1 /\ (replayed'[d] = 1 => letter'[d] = "resolved")
      BY <1>1, <2>1 DEF Guarded
    <2> QED
      BY <2>2, <2>3 DEF Guarded
  <1>6. SentBeforeMark' /\ ResolvedWasSent'
    BY <1>1, <1>2 DEF SentBeforeMark, ResolvedWasSent
  <1>7. LogInv'
    <2>1. Rows' = Rows
      BY <1>1 DEF Rows
    <2>2. \A e : Count(Rows, e)' = Count(Rows, e) /\ Count(Rows, e) \in Nat
      BY <1>1, <2>1, Counts DEF Count, LogInv
    <2>3. ASSUME NEW e \in Event
          PROVE  Count(Rows, e)' + writing'[e] <= sent'[e]
      <3>1. /\ Count(Rows, e) + writing[e] <= sent[e] /\ writing[e] \in Nat
            /\ sent[e] \in Nat /\ writing'[e] = 0 /\ sent'[e] = sent[e]
            /\ Count(Rows, e)' = Count(Rows, e) /\ Count(Rows, e) \in Nat
        BY <1>1, <2>2 DEF LogInv, LoggedWasSent, Nothing
      <3> QED
        BY <3>1
    <2> QED
      BY <1>1, <2>1, <2>3 DEF LogInv, LoggedWasSent
  <1>8. SweptInv'
    <2>1. \A c : Due(c)' = Due(c)
      BY <1>1 DEF Due, Rows
    <2> QED
      BY <1>1, <1>2, <2>1 DEF SweptInv, SweptClean
  <1>9. EventTypeOK'
    BY <1>1, <1>2, <1>4 DEF EventTypeOK, Nothing
  <1> QED
    BY <1>3, <1>5, <1>6, <1>7, <1>8, <1>9 DEF EventInv

LEMMA EventStarts ==
  ASSUME EventInit
  PROVE  EventInv
  <1>1. /\ ereq \in [Request -> EventRequest]
        /\ \A q \in Request :
             /\ ereq[q].at \in {"start", "done"} /\ ereq[q].cur = NoEvent
             /\ ereq[q].batches = 0 /\ ~ereq[q].clean
             /\ ereq[q].op \in {"replay", "discard"} => ereq[q].event \in Letter
        /\ MaxBatches \in Nat \ {0} /\ MaxDays \in Nat
    BY EventAssumption DEF EventInit
  <1>2. EventTypeOK
    <2>1. 0 \in Days /\ 0 \in Nat
      BY <1>1 DEF Days
    <2>2. /\ letter \in [Letter -> {"open", "resolved"}]
          /\ sent \in [Event -> Nat] /\ writing \in [Event -> Nat]
          /\ replayed \in [Letter -> Nat] /\ log \in [Event -> [Days -> Nat]]
      BY <2>1 DEF EventInit, EventStart
    <2>3. topic \in BOOLEAN /\ today \in Days /\ billed \cup discarded \cup slipped \subseteq Letter
      BY <2>1 DEF EventInit, EventStart
    <2> QED
      BY <1>1, <2>2, <2>3 DEF EventTypeOK
  <1>3. \A q \in Request : Ready(q)
    BY <1>1 DEF Ready
  <1>4. LettersGuarded /\ SentBeforeMark /\ ResolvedWasSent
    BY <1>1 DEF EventInit, EventStart, LettersGuarded, Guarded, Holding, SentBeforeMark,
                ResolvedWasSent
  <1>5. Rows = {}
    <2>1. \A e \in Event, t \in Days : log[e][t] = 0
      BY DEF EventInit, EventStart
    <2> QED
      BY <2>1, RowsAre
  <1>6. LogInv
    <2>1. \A e : {x \in Rows : x[1] = e} = {}
      BY <1>5
    <2>2. \A e : Count(Rows, e) = 0
      BY <2>1, FS_EmptySet DEF Count
    <2>3. \A e \in Event : Count(Rows, e) + writing[e] <= sent[e]
      BY <2>2 DEF EventInit, EventStart
    <2> QED
      BY <1>5, <2>3, FS_EmptySet DEF LogInv, LoggedWasSent
  <1>7. SweptInv
    BY <1>1 DEF SweptInv, SweptClean
  <1> QED
    BY <1>2, <1>3, <1>4, <1>6, <1>7 DEF EventInv

LEMMA EventSteps ==
  ASSUME EventInv, [EventNext]_eventVars
  PROVE  EventInv'
  <1>1. ASSUME NEW r \in Request, ServeEvent(r)
        PROVE  EventInv'
    BY <1>1, EventEnds, PublishSteps, TopicSteps, AffordStep, DiscardSteps, MarkStep,
       ReadSteps, SendStep, StartSweepStep, DeleteBatchStep DEF ServeEvent
  <1>2. CASE UNCHANGED eventVars
    <2>1. /\ UNCHANGED <<letter, topic, log, writing, today, ereq, sent, replayed, billed>>
          /\ UNCHANGED <<discarded, slipped>>
      BY <1>2 DEF eventVars
    <2>2. LogInv'
      BY <2>1, LogStays DEF EventInv
    <2>3. SweptInv'
      <3>1. \A c : Due(c)' = Due(c)
        BY <2>1 DEF Due, Rows
      <3> QED
        BY <2>1, <3>1 DEF EventInv, SweptInv, SweptClean
    <2> QED
      BY <2>1, <2>2, <2>3 DEF EventInv, EventTypeOK, Ready, LettersGuarded, Guarded, Holding,
                              Sent, SentBeforeMark, ResolvedWasSent
  <1> QED
    BY <1>1, <1>2, NextDayStep, CrashStep, WriteLogStep DEF EventNext

\* The inductive invariant of the events.
THEOREM EventInvariant == EventSpec => []EventInv
  <1>1. EventInit => EventInv
    BY EventStarts
  <1>2. EventInv /\ [EventNext]_eventVars => EventInv'
    BY EventSteps
  <1> QED
    BY <1>1, <1>2, PTL DEF EventSpec

\* Every variable keeps its type.
THEOREM EventTypes == EventSpec => []EventTypeOK
  <1>1. EventInv => EventTypeOK
    BY DEF EventInv
  <1> QED
    BY <1>1, EventInvariant, PTL

\* However replays, discards, failures and crashes interleave, a letter that did
\* not slip is replayed at most once.
THEOREM LettersReplayedOnce == EventSpec => []ReplayedOnce
  <1>1. ASSUME EventInv
        PROVE  ReplayedOnce
    <2> SUFFICES ASSUME NEW d \in Letter, d \notin slipped
                 PROVE  ~(replayed[d] > 1)
      BY DEF ReplayedOnce
    <2>1. replayed[d] \in Nat /\ replayed[d] <= 1
      BY <1>1, EventTyped DEF EventInv, LettersGuarded, Guarded
    <2> QED
      BY <2>1
  <1> QED
    BY <1>1, EventInvariant, PTL

\* What is resolved was sent or discarded, and what is billed was sent.
THEOREM ResolvedSent == EventSpec => []ResolvedWasSent
  <1>1. EventInv => ResolvedWasSent
    BY DEF EventInv
  <1> QED
    BY <1>1, EventInvariant, PTL

\* The log, with the rows on their way to it, is never ahead of the stream.
THEOREM LoggedSent == EventSpec => []LoggedWasSent
  <1>1. EventInv => LoggedWasSent
    BY DEF EventInv, LogInv
  <1> QED
    BY <1>1, EventInvariant, PTL

\* A sweep that says it is done has left nothing that was due.
THEOREM SweepsClean == EventSpec => []SweptClean
  <1>1. EventInv => SweptClean
    BY DEF EventInv, SweptInv
  <1> QED
    BY <1>1, EventInvariant, PTL

-----------------------------------------------------------------------------
(* THE COMPOSITION: whoever is busy, each part behaves as its own specification
   says, and what is proved of a part holds of the whole.                   *)

LEMMA FlowStarts ==
  ASSUME FlowInit
  PROVE  EventInit /\ PollInit /\ StreamInit /\ SweepInit
  <1>1. IdleEvent \subseteq EventMix /\ IdleStream \subseteq StreamMix
    BY DEF IdleEvent, IdleStream, Idling
  <1>2. /\ ereq \in EventMix /\ sreq \in StreamMix
        /\ poll \in {Polls("idle"), Polls("done")}
        /\ job \in Job \cup {"none"}
    BY <1>1 DEF FlowInit
  <1> QED
    BY <1>2 DEF FlowInit, EventInit, PollInit, StreamInit, SweepInit

LEMMA FlowSteps ==
  ASSUME [FlowNext]_FlowVars
  PROVE  /\ [EventNext]_eventVars /\ [PollNext]_pollVars
         /\ [StreamNext]_streamVars /\ [SweepNext]_sweepVars
  <1>1. CASE FlowNext
    BY <1>1 DEF FlowNext
  <1>2. CASE UNCHANGED FlowVars
    BY <1>2 DEF FlowVars
  <1> QED
    BY <1>1, <1>2

\* Composed with the others, each part still implements its specification, its
\* fairness included.
THEOREM FlowComposes == FlowSpec => EventSpec /\ PollSpec /\ StreamSpec /\ SweepSpec
  <1>1. FlowInit => EventInit /\ PollInit /\ StreamInit /\ SweepInit
    BY FlowStarts
  <1>2. [FlowNext]_FlowVars => /\ [EventNext]_eventVars /\ [PollNext]_pollVars
                               /\ [StreamNext]_streamVars /\ [SweepNext]_sweepVars
    BY FlowSteps
  <1> QED
    BY <1>1, <1>2, PTL DEF FlowSpec, EventSpec, PollSpec, StreamSpec, SweepSpec

\* Every variable of the whole keeps its type.
THEOREM FlowTypes == FlowSpec => []FlowTypeOK
  <1>1. ApartInv => SweepTypeOK
    BY DEF ApartInv
  <1>2. EventTypeOK /\ PollTypeOK /\ StreamTypeOK /\ SweepTypeOK => FlowTypeOK
    BY DEF FlowTypeOK
  <1> QED
    BY <1>1, <1>2, FlowComposes, EventTypes, PollTypes, StreamTypes, ApartInvariant, PTL

\* And what is proved of events, polls, streams and jobs each by itself holds
\* while the others are there.
THEOREM FlowSafe ==
    FlowSpec => [](/\ ReplayedOnce /\ ResolvedWasSent /\ LoggedWasSent /\ SweptClean
                   /\ TriggeredOnce
                   /\ SlotsExact /\ SlotsHeld
                   /\ SweepsApart)
  BY FlowComposes, LettersReplayedOnce, ResolvedSent, LoggedSent, SweepsClean,
     TriggersOnce, CounterExact, MaximumHeld, JobsApart, PTL
=============================================================================
