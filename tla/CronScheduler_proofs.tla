------------------------ MODULE CronScheduler_proofs ------------------------
(***************************************************************************)
(* Proofs about CronScheduler, for any instances, number of ticks in       *)
(* flight, workflows, cron expressions, interval and life of a lock.       *)
(***************************************************************************)
EXTENDS CronScheduler, TLAPS

\* Ticks are pairs of an instance and a slot; no tick is the unknown token.
LEMMA TickFacts ==
  /\ \A a \in Tick : a[1] \in Instance /\ a # Unknown
  /\ \A i \in Instance : TicksOf(i) \subseteq Tick
  /\ \A i \in Instance : \A a \in Tick : a \in TicksOf(i) <=> a[1] = i
  BY CronAssumption DEF Tick, TicksOf

\* A pair is an occurrence of the window (since, upto] exactly when its time
\* lies in the window and the expression of its workflow fires then.
LEMMA OccurrenceMember ==
  ASSUME NEW W \in SUBSET Workflow, NEW since \in Nat, NEW upto \in Nat,
         NEW w \in Workflow, NEW o \in Due[w]
  PROVE  <<w, o>> \in Occurrences(W, since, upto)
           <=> w \in W /\ since < o /\ o <= upto
  <1>1. o \in Nat
    BY CronAssumption
  <1> QED
    BY <1>1 DEF Occurrences

\* Windows contain pairs of workflows and times only.
LEMMA OccurrenceType ==
  ASSUME NEW W \in SUBSET Workflow, NEW since \in Nat, NEW upto \in Nat
  PROVE  Occurrences(W, since, upto) \in SUBSET (Workflow \X Nat)
  BY DEF Occurrences

\* Updates of one field keep a lease and a lock entry what they are.
LEMMA LeaseUpdate ==
  ASSUME NEW r \in Lease, NEW n \in Nat
  PROVE  /\ [r EXCEPT !.ttl = n] \in Lease
         /\ [r EXCEPT !.ttl = n].workflow = r.workflow
         /\ [r EXCEPT !.ttl = n].since = r.since
         /\ [r EXCEPT !.ttl = n].ttl = n
  BY DEF Lease

Entry == [token : Tick \cup {Unknown}, ttl : Nat]

\* The same for the entries of the cache.
LEMMA EntryUpdate ==
  ASSUME NEW r \in Entry, NEW n \in Nat, NEW x \in Tick \cup {Unknown}
  PROVE  /\ [r EXCEPT !.ttl = n] \in Entry
         /\ [r EXCEPT !.token = x] \in Entry
         /\ [token |-> x, ttl |-> n] \in Entry
         /\ Lock!NoEntry \in Entry
  BY DEF Entry, Lock!NoEntry

-----------------------------------------------------------------------------
\* A tick that is past the check of a workflow has that workflow in its lease.
LeaseShape ==
    \A a \in Tick : pc[a] \in {"acquiring", "holding", "releasing"}
                      => lease[a].workflow \in Workflow

\* Every variable keeps its type.  TypeOK needs LeaseShape: the runs that are
\* started are those of the leased workflow.
LEMMA NextType == TypeOK /\ LeaseShape /\ [Next]_vars => TypeOK' /\ LeaseShape'
  <1> SUFFICES ASSUME TypeOK, LeaseShape, [Next]_vars
               PROVE  TypeOK' /\ LeaseShape'
    OBVIOUS
  <1> DEFINE Goal == TypeOK' /\ LeaseShape'
  <1> USE CronAssumption, TickFacts
      DEF TypeOK, LeaseShape, Lock!LockTypeOK, Lease, NoLease, schedule,
          history, Goto, End
  <1>1. ASSUME NEW a \in Tick, Fire(a) PROVE Goal
    BY <1>1 DEF Fire
  <1>2. ASSUME NEW a \in Tick, Fetch(a) PROVE Goal
    BY <1>2 DEF Fetch
  <1>3. ASSUME NEW a \in Tick, FetchFails(a) PROVE Goal
    <2>1. Occurrences(Workflow, lastCheckTime[a[1]], now[a])
            \in SUBSET (Workflow \X Nat)
      BY OccurrenceType
    <2> QED
      BY <1>3, <2>1 DEF FetchFails, GiveUp
  <1>4. ASSUME NEW a \in Tick, NEW w \in Workflow, Check(a, w) PROVE Goal
    <2>1. CASE shouldTrigger(w, lastCheckTime[a[1]], now[a])
      <3>1. lastCheckTime[a[1]] \in Nat
        OBVIOUS
      <3>2. [workflow |-> w, since |-> lastCheckTime[a[1]], ttl |-> 0] \in Lease
        BY <3>1
      <3>3. /\ pc' = [pc EXCEPT ![a] = "acquiring"]
            /\ todo' = [todo EXCEPT ![a] = @ \ {w}]
            /\ lease' = [lease EXCEPT ![a] =
                  [workflow |-> w, since |-> lastCheckTime[a[1]], ttl |-> 0]]
            /\ UNCHANGED <<clock, lock, lastCheckTime, timer, now, history>>
        BY <1>4, <2>1 DEF Check
      <3>4. LeaseShape'
        BY <3>3
      <3> HIDE DEF Lease
      <3>5. lease' \in [Tick -> Lease]
        BY <3>2, <3>3
      <3> QED
        BY <3>3, <3>4, <3>5
    <2>2. CASE ~ shouldTrigger(w, lastCheckTime[a[1]], now[a])
      BY <1>4, <2>2 DEF Check
    <2> QED
      BY <2>1, <2>2
  <1>5. ASSUME NEW a \in Tick, Acquire(a) PROVE Goal
    <2>1. lease[a].workflow \in Workflow
      BY <1>5 DEF Acquire
    <2>2. /\ lease' = [lease EXCEPT ![a].ttl = LockTTL]
          /\ pc' = [pc EXCEPT ![a] = "holding"]
          /\ UNCHANGED <<clock, schedule, history>>
      BY <1>5 DEF Acquire
    <2>3. lock' = [lock EXCEPT ![lease[a].workflow] = [token |-> a, ttl |-> LockTTL]]
      BY <1>5 DEF Acquire, Lock!SetNX
    <2>4. lease' \in [Tick -> Lease]
      <3>1. [lease[a] EXCEPT !.ttl = LockTTL] \in Lease
        BY LeaseUpdate
      <3> HIDE DEF Lease
      <3> QED
        BY <2>2, <3>1
    <2>5. Lock!LockTypeOK'
      BY <2>1, <2>3
    <2>6. LeaseShape'
      BY <2>1, <2>2
    <2> QED
      BY <2>2, <2>4, <2>5, <2>6
  <1>6. ASSUME NEW a \in Tick, AcquireFails(a) PROVE Goal
    <2>1. lease[a].workflow \in Workflow
      BY <1>6 DEF AcquireFails
    <2>2. Occurrences({lease[a].workflow}, lease[a].since, now[a])
            \in SUBSET (Workflow \X Nat)
      BY <2>1, OccurrenceType
    <2>3. Lock!LockTypeOK'
      <3>1. CASE UNCHANGED lock
        BY <3>1
      <3>2. CASE Lock!SetNX(lease[a].workflow, Unknown)
        BY <2>1, <3>2, EntryUpdate DEF Entry, Lock!SetNX
      <3> QED
        BY <1>6, <3>1, <3>2 DEF AcquireFails
    <2>4. accounted' \in [Instance -> SUBSET (Workflow \X Nat)]
      BY <1>6, <2>2 DEF AcquireFails, GiveUp
    <2>5. lease' \in [Tick -> Lease] /\ LeaseShape'
      BY <1>6 DEF AcquireFails
    <2> QED
      BY <1>6, <2>3, <2>4, <2>5 DEF AcquireFails, GiveUp
  <1>7. ASSUME NEW a \in Tick, Trigger(a) PROVE Goal
    <2>1. Occurrences({lease[a].workflow}, lease[a].since, now[a])
            \in SUBSET (Workflow \X Nat)
      BY <1>7, OccurrenceType DEF Trigger
    <2>2. /\ started' \in [Instance -> SUBSET (Workflow \X Nat)]
          /\ again' \in [Instance -> SUBSET (Workflow \X Nat)]
          /\ accounted' \in [Instance -> SUBSET (Workflow \X Nat)]
      BY <1>7, <2>1 DEF Trigger, Start
    <2>3. LeaseShape' /\ Lock!LockTypeOK'
      BY <1>7 DEF Trigger
    <2> QED
      BY <1>7, <2>2, <2>3 DEF Trigger
  <1>8. ASSUME NEW a \in Tick, TriggerFails(a) PROVE Goal
    <2>1. Occurrences({lease[a].workflow}, lease[a].since, now[a])
            \in SUBSET (Workflow \X Nat)
      BY <1>8, OccurrenceType DEF TriggerFails
    <2>2. accounted' \in [Instance -> SUBSET (Workflow \X Nat)]
      BY <1>8, <2>1 DEF TriggerFails, GiveUp
    <2>3. LeaseShape' /\ Lock!LockTypeOK'
      BY <1>8 DEF TriggerFails
    <2> QED
      BY <1>8, <2>2, <2>3 DEF TriggerFails, GiveUp
  <1>9. ASSUME NEW a \in Tick, Release(a) PROVE Goal
    <2>1. Lock!LockTypeOK'
      <3>1. lease[a].workflow \in Workflow
        BY <1>9 DEF Release
      <3>2. CASE UNCHANGED lock
        BY <3>2
      <3>3. CASE lock' = [lock EXCEPT ![lease[a].workflow] = Lock!NoEntry]
        BY <3>1, <3>3 DEF Lock!NoEntry
      <3> QED
        BY <1>9, <3>2, <3>3 DEF Release, Lock!CompareAndDelete
    <2> QED
      BY <1>9, <2>1 DEF Release
  <1>10. ASSUME NEW a \in Tick, Finish(a) PROVE Goal
    BY <1>10 DEF Finish
  <1>11. ASSUME NEW i \in Instance, Restart(i) PROVE Goal
    <2>1. Occurrences(Workflow, lastCheckTime[i], clock)
            \in SUBSET (Workflow \X Nat)
      BY OccurrenceType
    <2>2. Lock!LockTypeOK'
      <3>1. \A k \in Workflow : /\ lock[k] \in Entry
                               /\ [lock[k] EXCEPT !.token = Unknown] \in Entry
        BY EntryUpdate DEF Entry
      <3> QED
        BY <1>11, <3>1 DEF Restart, Lock!Orphan, Entry
    <2>3. accounted' \in [Instance -> SUBSET (Workflow \X Nat)]
      BY <1>11, <2>1 DEF Restart, GiveUp
    <2>4. LeaseShape'
      BY <1>11 DEF Restart
    <2> QED
      BY <1>11, <2>2, <2>3, <2>4 DEF Restart, GiveUp
  <1>12. ASSUME Advance PROVE Goal
    <2>1. \A n \in Nat : OneLess(n) \in Nat
      BY DEF OneLess
    <2>2. Lock!LockTypeOK'
      <3>1. ASSUME NEW k \in Workflow
            PROVE  lock'[k] \in Entry
        <4>1. lock[k] \in Entry /\ lock[k].ttl \in Nat
          BY DEF Entry
        <4>2. ASSUME NEW n \in Nat
              PROVE  [lock[k] EXCEPT !.ttl = n] \in Entry
          BY <4>1, EntryUpdate
        <4>3. \/ lock[k].ttl = 1 /\ lock'[k] = Lock!NoEntry
              \/ lock[k].ttl > 1 /\ lock'[k] = [lock[k] EXCEPT !.ttl = @ - 1]
              \/ lock'[k] = lock[k]
          BY <1>12 DEF Advance, Lock!Elapse
        <4>4. lock[k].ttl > 1 => lock[k].ttl - 1 \in Nat
          BY <4>1
        <4>5. Lock!NoEntry \in Entry
          BY DEF Entry, Lock!NoEntry
        <4> QED
          BY <4>1, <4>2, <4>3, <4>4, <4>5
      <3>2. lock' = [k \in Workflow |-> lock'[k]]
        BY <1>12 DEF Advance, Lock!Elapse
      <3> QED
        BY <3>1, <3>2 DEF Entry
    <2>3. lease' \in [Tick -> Lease] /\ LeaseShape'
      <3>1. \A a \in Tick :
              LET r == [lease[a] EXCEPT !.ttl = OneLess(@)]
              IN  r \in Lease /\ r.workflow = lease[a].workflow
        BY <2>1, LeaseUpdate
      <3>2. lease' = [a \in Tick |-> [lease[a] EXCEPT !.ttl = OneLess(@)]]
        BY <1>12 DEF Advance
      <3>3. lease' \in [Tick -> Lease]
        BY <3>1, <3>2
      <3>4. \A a \in Tick : lease'[a].workflow = lease[a].workflow
        BY <3>1, <3>2
      <3> QED
        BY <1>12, <3>3, <3>4 DEF Advance
    <2> QED
      BY <1>12, <2>1, <2>2, <2>3 DEF Advance
  <1>13. CASE UNCHANGED vars
    BY <1>13 DEF vars
  <1> QED
    BY <1>1, <1>2, <1>3, <1>4, <1>5, <1>6, <1>7, <1>8, <1>9, <1>10, <1>11,
       <1>12, <1>13 DEF Next, TickStep

-----------------------------------------------------------------------------
\* While a lease lives, the key in the cache holds the tick's token and has as
\* long to live.  NoConcurrentTrigger follows; alone it is not inductive, since
\* it says nothing of the key a second tick finds.
LeaseBacked(a) ==
    pc[a] \in {"holding", "releasing"} /\ lease[a].ttl > 0
      => /\ lock[lease[a].workflow].token = a
         /\ lock[lease[a].workflow].ttl = lease[a].ttl

LeaseInv == \A a \in Tick : LeaseBacked(a)

\* A live lease keeps its key: only its own release removes the key, and the
\* two run out of time together.
LEMMA NextLease ==
    TypeOK /\ LeaseShape /\ LeaseInv /\ [Next]_vars => LeaseInv'
  <1> SUFFICES ASSUME TypeOK, LeaseShape, LeaseInv, [Next]_vars,
                      NEW b \in Tick
               PROVE  LeaseBacked(b)'
    BY DEF LeaseInv
  <1>0. LeaseBacked(b)
    BY DEF LeaseInv
  <1> USE CronAssumption, TickFacts
      DEF TypeOK, LeaseShape, Lock!LockTypeOK, LeaseBacked, Goto
  <1>1. ASSUME NEW a \in Tick,
               \/ Fire(a) \/ Fetch(a) \/ FetchFails(a) \/ Finish(a)
               \/ Trigger(a) \/ TriggerFails(a)
        PROVE  LeaseBacked(b)'
    <2>1. UNCHANGED <<lease, lock>>
      BY <1>1 DEF Fire, Fetch, FetchFails, Finish, Trigger, TriggerFails
    <2>2. pc'[b] \in {"holding", "releasing"} => pc[b] \in {"holding", "releasing"}
      BY <1>1 DEF Fire, Fetch, FetchFails, Finish, Trigger, TriggerFails, End
    <2> QED
      BY <1>0, <2>1, <2>2
  <1>2. ASSUME NEW a \in Tick, NEW w \in Workflow, Check(a, w)
        PROVE  LeaseBacked(b)'
    <2>1. UNCHANGED lock
      BY <1>2 DEF Check
    <2>2. CASE a = b
      <3>1. pc'[b] \in {"looping", "acquiring"}
        BY <1>2, <2>2 DEF Check
      <3> QED
        BY <3>1
    <2>3. CASE a # b
      <3>1. pc'[b] = pc[b] /\ lease'[b] = lease[b]
        BY <1>2, <2>3 DEF Check
      <3> QED
        BY <1>0, <2>1, <3>1
    <2> QED
      BY <2>2, <2>3
  <1>3. ASSUME NEW a \in Tick, Acquire(a) PROVE LeaseBacked(b)'
    <2>1. /\ lock[lease[a].workflow] = Lock!NoEntry
          /\ lock' = [lock EXCEPT ![lease[a].workflow]
                        = [token |-> a, ttl |-> LockTTL]]
          /\ lease' = [lease EXCEPT ![a].ttl = LockTTL]
          /\ pc' = [pc EXCEPT ![a] = "holding"]
          /\ lease[a].workflow \in Workflow
      BY <1>3 DEF Acquire, Lock!SetNX, Lock!Absent
    <2>2. CASE a = b
      <3>1. lease'[b].ttl = LockTTL /\ lease'[b].workflow = lease[b].workflow
        BY <2>1, <2>2, LeaseUpdate
      <3>2. lock'[lease[b].workflow] = [token |-> b, ttl |-> LockTTL]
        BY <2>1, <2>2
      <3> QED
        BY <3>1, <3>2
    <2>3. CASE a # b
      <3>1. lease'[b] = lease[b] /\ pc'[b] = pc[b]
        BY <2>1, <2>3
      <3>2. pc[b] \in {"holding", "releasing"} /\ lease[b].ttl > 0
              => lease[b].workflow # lease[a].workflow
        BY <1>0, <2>1 DEF Lock!NoEntry
      <3> QED
        BY <1>0, <2>1, <3>1, <3>2
    <2> QED
      BY <2>2, <2>3
  <1>4. ASSUME NEW a \in Tick, AcquireFails(a) PROVE LeaseBacked(b)'
    <2>1. CASE a = b
      <3>1. pc'[b] = "looping"
        BY <1>4, <2>1 DEF AcquireFails
      <3> QED
        BY <3>1
    <2>2. CASE a # b
      <3>1. lease'[b] = lease[b] /\ pc'[b] = pc[b]
        BY <1>4, <2>2 DEF AcquireFails
      <3>2. CASE UNCHANGED lock
        BY <1>0, <3>1, <3>2
      <3>3. CASE Lock!SetNX(lease[a].workflow, Unknown)
        <4>1. pc[b] \in {"holding", "releasing"} /\ lease[b].ttl > 0
                => lease[b].workflow # lease[a].workflow
          BY <1>0, <3>3 DEF Lock!NoEntry, Lock!SetNX, Lock!Absent
        <4> QED
          BY <1>0, <3>1, <3>3, <4>1 DEF Lock!SetNX
      <3> QED
        BY <1>4, <3>2, <3>3 DEF AcquireFails
    <2> QED
      BY <2>1, <2>2
  <1>5. ASSUME NEW a \in Tick, Release(a) PROVE LeaseBacked(b)'
    <2>1. CASE a = b
      <3>1. pc'[b] = "looping"
        BY <1>5, <2>1 DEF Release
      <3> QED
        BY <3>1
    <2>2. CASE a # b
      <3>1. lease'[b] = lease[b] /\ pc'[b] = pc[b]
        BY <1>5, <2>2 DEF Release
      <3>2. CASE UNCHANGED lock
        BY <1>0, <3>1, <3>2
      <3>3. CASE /\ lock[lease[a].workflow].token = a
                 /\ lock' = [lock EXCEPT ![lease[a].workflow] = Lock!NoEntry]
        <4>1. pc[b] \in {"holding", "releasing"} /\ lease[b].ttl > 0
                => lease[b].workflow # lease[a].workflow
          BY <1>0, <2>2, <3>3
        <4> QED
          BY <1>0, <3>1, <3>3, <4>1
      <3> QED
        BY <1>5, <3>2, <3>3 DEF Release, Lock!CompareAndDelete
    <2> QED
      BY <2>1, <2>2
  <1>6. ASSUME NEW i \in Instance, Restart(i) PROVE LeaseBacked(b)'
    <2>1. CASE b \in TicksOf(i)
      <3>1. pc'[b] = "idle"
        BY <1>6, <2>1 DEF Restart
      <3> QED
        BY <3>1
    <2>2. CASE b \notin TicksOf(i)
      <3>1. lease'[b] = lease[b] /\ pc'[b] = pc[b]
        BY <1>6, <2>2 DEF Restart
      <3>2. \A k \in Workflow : lock[k].token = b => lock'[k] = lock[k]
        BY <1>6, <2>2 DEF Restart, Lock!Orphan
      <3> QED
        BY <1>0, <3>1, <3>2
    <2> QED
      BY <2>1, <2>2
  <1>7. ASSUME Advance PROVE LeaseBacked(b)'
    <2>1. /\ pc' = pc
          /\ lease'[b] = [lease[b] EXCEPT !.ttl = OneLess(lease[b].ttl)]
      BY <1>7 DEF Advance
    <2>2. lease[b] \in Lease /\ OneLess(lease[b].ttl) \in Nat
      BY DEF OneLess, Lease
    <2>3. /\ lease'[b].ttl = OneLess(lease[b].ttl)
          /\ lease'[b].workflow = lease[b].workflow
      BY <2>1, <2>2, LeaseUpdate
    <2>4. \A k \in Workflow :
            lock[k].ttl > 1 => /\ lock'[k].token = lock[k].token
                               /\ lock'[k].ttl = lock[k].ttl - 1
      BY <1>7 DEF Advance, Lock!Elapse
    <2> QED
      BY <1>0, <2>1, <2>2, <2>3, <2>4 DEF OneLess, Lease
  <1>8. CASE UNCHANGED vars
    BY <1>0, <1>8 DEF vars
  <1> QED
    BY <1>1, <1>2, <1>3, <1>4, <1>5, <1>6, <1>7, <1>8 DEF Next, TickStep

-----------------------------------------------------------------------------
\* Instance i has accounted for every occurrence of w up to t.
CoveredUpTo(i, w, t) ==
    \A o \in Due[w] : 0 < o /\ o <= t => <<w, o>> \in accounted[i]

\* A tick in its loop has dealt with w: w is neither still to be looked at nor
\* waiting for its lock or its run.
DealtWith(a, w) ==
    /\ pc[a] \in {"looping", "acquiring", "holding", "releasing"}
    /\ w \notin todo[a]
    /\ pc[a] \in {"acquiring", "holding"} => w # lease[a].workflow

\* What makes EveryOccurrenceAccounted inductive: the windows of a tick start
\* where everything before is accounted for, so that what a tick has dealt with
\* is accounted for up to the time the tick noted, whatever its siblings do to
\* lastCheckTime in the meantime.
CoverInv ==
    \A w \in Workflow :
        /\ \A i \in Instance : CoveredUpTo(i, w, lastCheckTime[i])
        /\ \A a \in Tick :
              /\ DealtWith(a, w) => CoveredUpTo(a[1], w, now[a])
              /\ pc[a] \in {"acquiring", "holding"} /\ w = lease[a].workflow
                   => CoveredUpTo(a[1], w, lease[a].since)

\* A window that starts at a covered time extends the cover to its end.
LEMMA CoverExtends ==
  ASSUME TypeOK, NEW i \in Instance, NEW W \in SUBSET Workflow, NEW w \in W,
         NEW since \in Nat, NEW upto \in Nat,
         CoveredUpTo(i, w, since),
         accounted' = [accounted EXCEPT ![i] = @ \cup Occurrences(W, since, upto)]
  PROVE  CoveredUpTo(i, w, upto)'
  <1> SUFFICES ASSUME NEW o \in Due[w], 0 < o, o <= upto
               PROVE  <<w, o>> \in accounted'[i]
    BY DEF CoveredUpTo
  <1>1. o \in Nat /\ w \in Workflow
    BY CronAssumption
  <1>2. CASE o <= since
    BY <1>1, <1>2 DEF CoveredUpTo, TypeOK
  <1>3. CASE since < o
    BY <1>1, <1>3, OccurrenceMember DEF TypeOK
  <1> QED
    BY <1>1, <1>2, <1>3

\* What is accounted for stays so.
LEMMA CoverStays ==
  ASSUME TypeOK, [Next]_vars, NEW i \in Instance, NEW w, NEW t,
         CoveredUpTo(i, w, t)
  PROVE  \A o \in Due[w] : 0 < o /\ o <= t => <<w, o>> \in accounted'[i]
  <1>1. accounted[i] \subseteq accounted'[i]
    <2>1. CASE UNCHANGED accounted
      BY <2>1
    <2>2. ASSUME NEW a \in Tick,
                 FetchFails(a) \/ AcquireFails(a) \/ Trigger(a) \/ TriggerFails(a)
          PROVE  accounted[i] \subseteq accounted'[i]
      BY <2>2, TickFacts
         DEF TypeOK, FetchFails, AcquireFails, Trigger, TriggerFails, GiveUp, Start
    <2>3. ASSUME NEW j \in Instance, Restart(j)
          PROVE  accounted[i] \subseteq accounted'[i]
      BY <2>3 DEF TypeOK, Restart, GiveUp
    <2>4. ASSUME NEW a \in Tick,
                 \/ Fire(a) \/ Fetch(a) \/ Acquire(a) \/ Release(a) \/ Finish(a)
                 \/ \E x \in Workflow : Check(a, x)
          PROVE  UNCHANGED accounted
      BY <2>4 DEF Fire, Fetch, Acquire, Release, Finish, Check, history
    <2>5. Advance => UNCHANGED accounted
      BY DEF Advance, history
    <2>6. UNCHANGED vars => UNCHANGED accounted
      BY DEF vars, history
    <2> QED
      BY <2>1, <2>2, <2>3, <2>4, <2>5, <2>6 DEF Next, TickStep
  <1> QED
    BY <1>1 DEF CoveredUpTo

\* Every step keeps the cover, also when a tick that started earlier sets
\* lastCheckTime back.
LEMMA NextCover ==
    TypeOK /\ LeaseShape /\ CoverInv /\ [Next]_vars => CoverInv'
  <1> SUFFICES ASSUME TypeOK, LeaseShape, CoverInv, [Next]_vars,
                      NEW w \in Workflow
               PROVE  /\ \A i \in Instance : CoveredUpTo(i, w, lastCheckTime[i])'
                      /\ \A b \in Tick :
                           /\ DealtWith(b, w)' => CoveredUpTo(b[1], w, now[b])'
                           /\ pc'[b] \in {"acquiring", "holding"}
                                /\ w = lease'[b].workflow
                                => CoveredUpTo(b[1], w, lease[b].since)'
    BY DEF CoverInv
  <1> DEFINE Next2(i, t) == \A o \in Due[w] : 0 < o /\ o <= t
                                                => <<w, o>> \in accounted'[i]
             Checked == \A i \in Instance : Next2(i, lastCheckTime'[i])
             Looked(b) == DealtWith(b, w)' => Next2(b[1], now'[b])
             Leased(b) == pc'[b] \in {"acquiring", "holding"}
                            /\ w = lease'[b].workflow
                            => Next2(b[1], lease'[b].since)
             Goal == Checked /\ \A b \in Tick : Looked(b) /\ Leased(b)
  <1> SUFFICES Goal
    BY DEF CoveredUpTo
  <1>0. /\ \A i \in Instance : Next2(i, lastCheckTime[i])
        /\ \A b \in Tick :
             /\ DealtWith(b, w) => Next2(b[1], now[b])
             /\ pc[b] \in {"acquiring", "holding"} /\ w = lease[b].workflow
                  => Next2(b[1], lease[b].since)
    BY TickFacts, CoverStays DEF CoverInv
  <1>1. /\ \A i \in Instance : CoveredUpTo(i, w, lastCheckTime[i])
        /\ \A b \in Tick :
             /\ DealtWith(b, w) => CoveredUpTo(b[1], w, now[b])
             /\ pc[b] \in {"acquiring", "holding"} /\ w = lease[b].workflow
                  => CoveredUpTo(b[1], w, lease[b].since)
    BY DEF CoverInv
  <1>2. ASSUME NEW i \in Instance, NEW W \in SUBSET Workflow, w \in W,
               NEW since \in Nat, NEW upto \in Nat, CoveredUpTo(i, w, since),
               accounted' = [accounted EXCEPT ![i] = @ \cup Occurrences(W, since, upto)]
        PROVE  Next2(i, upto)
    <2>1. CoveredUpTo(i, w, upto)'
      BY <1>2, CoverExtends
    <2> QED
      BY <2>1 DEF CoveredUpTo
  <1> HIDE DEF Next2
  <1> USE TickFacts DEF TypeOK, Lease
  \* A tick that does not move keeps its part; so does lastCheckTime.
  <1>3. ASSUME NEW b \in Tick, pc'[b] = pc[b], todo'[b] = todo[b],
               now'[b] = now[b], lease'[b].workflow = lease[b].workflow,
               lease'[b].since = lease[b].since
        PROVE  Looked(b) /\ Leased(b)
    BY <1>0, <1>3 DEF DealtWith
  <1>4. lastCheckTime' = lastCheckTime => Checked
    BY <1>0
  <1>5. ASSUME NEW a \in Tick, Fire(a) PROVE Goal
    <2>1. \A b \in Tick \ {a} : Looked(b) /\ Leased(b)
      BY <1>3, <1>5 DEF Fire, Goto
    <2>2. pc'[a] = "fetching" /\ lastCheckTime' = lastCheckTime
      BY <1>5 DEF Fire, Goto
    <2> QED
      BY <1>4, <2>1, <2>2 DEF DealtWith
  <1>6. ASSUME NEW a \in Tick, Fetch(a) PROVE Goal
    <2>1. \A b \in Tick \ {a} : Looked(b) /\ Leased(b)
      BY <1>3, <1>6 DEF Fetch, Goto
    <2>2. /\ pc'[a] = "looping" /\ todo'[a] = Workflow
          /\ lastCheckTime' = lastCheckTime
      BY <1>6 DEF Fetch, Goto
    <2> QED
      BY <1>4, <2>1, <2>2 DEF DealtWith
  <1>7. ASSUME NEW a \in Tick, FetchFails(a) PROVE Goal
    <2>1. \A b \in Tick \ {a} : Looked(b) /\ Leased(b)
      BY <1>3, <1>7 DEF FetchFails, End, Goto
    <2>2. /\ pc'[a] = "idle"
          /\ lastCheckTime' = [lastCheckTime EXCEPT ![a[1]] = now[a]]
      BY <1>7 DEF FetchFails, End, Goto
    <2>3. Next2(a[1], now[a])
      <3>1. /\ a[1] \in Instance /\ Workflow \in SUBSET Workflow
            /\ lastCheckTime[a[1]] \in Nat /\ now[a] \in Nat
            /\ CoveredUpTo(a[1], w, lastCheckTime[a[1]])
        BY <1>1
      <3>2. accounted' = [accounted EXCEPT ![a[1]] =
              @ \cup Occurrences(Workflow, lastCheckTime[a[1]], now[a])]
        BY <1>7 DEF FetchFails, GiveUp
      <3> QED
        BY <1>2, <3>1, <3>2
    <2>4. Checked
      BY <1>0, <2>2, <2>3
    <2> QED
      BY <2>1, <2>2, <2>4 DEF DealtWith
  <1>8. ASSUME NEW a \in Tick, NEW x \in Workflow, Check(a, x) PROVE Goal
    <2>1. \A b \in Tick \ {a} : Looked(b) /\ Leased(b)
      BY <1>3, <1>8 DEF Check, Goto
    <2>2. /\ pc[a] = "looping"
          /\ todo' = [todo EXCEPT ![a] = @ \ {x}]
          /\ UNCHANGED <<lastCheckTime, now, accounted>>
      BY <1>8 DEF Check, history
    <2>3. CASE shouldTrigger(x, lastCheckTime[a[1]], now[a])
      <3>1. /\ pc'[a] = "acquiring"
            /\ lease'[a].workflow = x
            /\ lease'[a].since = lastCheckTime[a[1]]
        BY <1>8, <2>3 DEF Check, Goto
      <3>2. Leased(a)
        BY <1>0, <3>1
      <3>3. DealtWith(a, w)' => DealtWith(a, w)
        BY <2>2, <3>1 DEF DealtWith
      <3> QED
        BY <1>0, <1>4, <2>1, <2>2, <3>2, <3>3
    <2>4. CASE ~ shouldTrigger(x, lastCheckTime[a[1]], now[a])
      <3>1. UNCHANGED <<pc, lease>>
        BY <1>8, <2>4 DEF Check
      <3>2. ASSUME w = x PROVE Next2(a[1], now[a])
        <4>1. \A o \in Due[w] : 0 < o /\ o <= now[a] => o <= lastCheckTime[a[1]]
          <5> SUFFICES ASSUME NEW o \in Due[w], 0 < o, o <= now[a]
                       PROVE  o <= lastCheckTime[a[1]]
            OBVIOUS
          <5>1. o \in Nat
            BY CronAssumption
          <5>2. <<w, o>> \notin Occurrences({w}, lastCheckTime[a[1]], now[a])
            BY <2>4, <3>2 DEF shouldTrigger
          <5>3. lastCheckTime[a[1]] \in Nat /\ now[a] \in Nat
            OBVIOUS
          <5>4. o <= lastCheckTime[a[1]] \/ lastCheckTime[a[1]] < o
            BY <5>1, <5>3
          <5>5. {w} \in SUBSET Workflow /\ w \in {w}
            OBVIOUS
          <5> HIDE TickFacts DEF TypeOK
          <5>6. <<w, o>> \in Occurrences({w}, lastCheckTime[a[1]], now[a])
                  <=> /\ w \in {w}
                      /\ lastCheckTime[a[1]] < o
                      /\ o <= now[a]
            BY <5>3, <5>5, OccurrenceMember, Zenon
          <5> QED
            BY <5>2, <5>4, <5>5, <5>6
        <4> QED
          BY <1>0, <4>1 DEF Next2
      <3>3. w # x /\ DealtWith(a, w)' => DealtWith(a, w)
        BY <2>2, <3>1 DEF DealtWith
      <3>4. Looked(a)
        BY <1>0, <2>2, <3>2, <3>3
      <3>5. Leased(a)
        BY <2>2, <3>1
      <3> QED
        BY <1>4, <2>1, <2>2, <3>4, <3>5
    <2> QED
      BY <2>3, <2>4
  <1>9. ASSUME NEW a \in Tick, Acquire(a) PROVE Goal
    <2>1. /\ lease' = [lease EXCEPT ![a].ttl = LockTTL]
          /\ pc[a] = "acquiring" /\ pc' = [pc EXCEPT ![a] = "holding"]
          /\ UNCHANGED <<lastCheckTime, now, todo>>
      BY <1>9 DEF Acquire, Goto, schedule
    <2>2. \A b \in Tick \ {a} : Looked(b) /\ Leased(b)
      BY <1>3, <2>1
    <2>3. /\ lease'[a].workflow = lease[a].workflow
          /\ lease'[a].since = lease[a].since
      BY <2>1, LeaseUpdate, CronAssumption
    <2>4. DealtWith(a, w)' => DealtWith(a, w)
      BY <2>1, <2>3 DEF DealtWith
    <2> QED
      BY <1>0, <1>4, <2>1, <2>2, <2>3, <2>4
  <1>10. ASSUME NEW a \in Tick,
                AcquireFails(a) \/ Trigger(a) \/ TriggerFails(a)
         PROVE  Goal
    <2>1. /\ pc[a] \in {"acquiring", "holding"}
          /\ pc'[a] \in {"looping", "releasing"}
          /\ \A b \in Tick \ {a} : pc'[b] = pc[b] /\ lease'[b] = lease[b]
          /\ UNCHANGED <<lastCheckTime, now, todo>>
          /\ accounted' = [accounted EXCEPT ![a[1]] =
               @ \cup Occurrences({lease[a].workflow}, lease[a].since, now[a])]
      <3>1. CASE AcquireFails(a)
        BY <3>1 DEF AcquireFails, GiveUp, Goto, schedule
      <3>2. CASE Trigger(a)
        BY <3>2 DEF Trigger, Start, Goto, schedule
      <3>3. CASE TriggerFails(a)
        BY <3>3 DEF TriggerFails, GiveUp, Goto, schedule
      <3> QED
        BY <1>10, <3>1, <3>2, <3>3
    <2>2. \A b \in Tick \ {a} : Looked(b) /\ Leased(b)
      BY <1>3, <2>1
    <2>3. lease[a].workflow \in Workflow /\ lease[a].since \in Nat /\ now[a] \in Nat
      BY <2>1 DEF LeaseShape
    <2>4. ASSUME w = lease[a].workflow PROVE Next2(a[1], now[a])
      <3>1. /\ a[1] \in Instance /\ {lease[a].workflow} \in SUBSET Workflow
            /\ w \in {lease[a].workflow}
            /\ CoveredUpTo(a[1], w, lease[a].since)
        BY <1>1, <2>1, <2>3, <2>4
      <3> QED
        BY <1>2, <2>1, <2>3, <3>1
    <2>5. w # lease[a].workflow /\ DealtWith(a, w)' => DealtWith(a, w)
      BY <2>1 DEF DealtWith
    <2>6. Looked(a)
      BY <1>0, <2>1, <2>4, <2>5
    <2> QED
      BY <1>4, <2>1, <2>2, <2>6
  <1>11. ASSUME NEW a \in Tick, Release(a) PROVE Goal
    <2>1. /\ pc[a] = "releasing" /\ pc' = [pc EXCEPT ![a] = "looping"]
          /\ lease' = [lease EXCEPT ![a] = NoLease]
          /\ UNCHANGED <<lastCheckTime, now, todo>>
      BY <1>11 DEF Release, Goto, schedule
    <2>2. \A b \in Tick \ {a} : Looked(b) /\ Leased(b)
      BY <1>3, <2>1
    <2>3. DealtWith(a, w)' => DealtWith(a, w)
      BY <2>1 DEF DealtWith
    <2> QED
      BY <1>0, <1>4, <2>1, <2>2, <2>3
  <1>12. ASSUME NEW a \in Tick, Finish(a) PROVE Goal
    <2>1. \A b \in Tick \ {a} : Looked(b) /\ Leased(b)
      BY <1>3, <1>12 DEF Finish, End, Goto
    <2>2. /\ pc'[a] = "idle"
          /\ lastCheckTime' = [lastCheckTime EXCEPT ![a[1]] = now[a]]
          /\ DealtWith(a, w)
      BY <1>12 DEF Finish, End, Goto, DealtWith
    <2>3. Checked
      BY <1>0, <2>2
    <2> QED
      BY <2>1, <2>2, <2>3 DEF DealtWith
  <1>13. ASSUME NEW j \in Instance, Restart(j) PROVE Goal
    <2>1. \A b \in Tick \ TicksOf(j) : Looked(b) /\ Leased(b)
      BY <1>3, <1>13 DEF Restart
    <2>2. \A b \in TicksOf(j) : pc'[b] = "idle"
      BY <1>13 DEF Restart
    <2>3. Next2(j, clock)
      BY <1>1, <1>2, <1>13 DEF Restart, GiveUp
    <2>4. lastCheckTime' = [lastCheckTime EXCEPT ![j] = clock]
      BY <1>13 DEF Restart
    <2>5. Checked
      BY <1>0, <2>3, <2>4
    <2> QED
      BY <2>1, <2>2, <2>5 DEF DealtWith
  <1>14. ASSUME Advance PROVE Goal
    <2>1. /\ lease' = [a \in Tick |-> [lease[a] EXCEPT !.ttl = OneLess(@)]]
          /\ UNCHANGED <<pc, lastCheckTime, now, todo>>
      BY <1>14 DEF Advance
    <2>2. \A b \in Tick : OneLess(lease[b].ttl) \in Nat /\ lease[b] \in Lease
      BY DEF OneLess
    <2>3. \A b \in Tick : /\ lease'[b].workflow = lease[b].workflow
                          /\ lease'[b].since = lease[b].since
      BY <2>1, <2>2, LeaseUpdate
    <2> QED
      BY <1>3, <1>4, <2>1, <2>3
  <1>15. CASE UNCHANGED vars
    BY <1>3, <1>4, <1>15 DEF vars, schedule
  <1> QED
    BY <1>5, <1>6, <1>7, <1>8, <1>9, <1>10, <1>11, <1>12, <1>13, <1>14, <1>15
       DEF Next, TickStep

-----------------------------------------------------------------------------
\* While the ticks of i do not overlap there is one at a time, its windows start
\* at a lastCheckTime that stays where it is until the tick ends, and what is in
\* its lease is not to be looked at again.
Alone(i) ==
    /\ \A a, b \in TicksOf(i) : pc[a] # "idle" /\ pc[b] # "idle" => a = b
    /\ \A a \in TicksOf(i) :
         /\ pc[a] # "idle" => lastCheckTime[i] <= now[a] /\ now[a] <= clock
         /\ pc[a] \in {"acquiring", "holding"} =>
              lease[a].since = lastCheckTime[i] /\ lease[a].workflow \notin todo[a]

\* An occurrence is started before lastCheckTime passes it only by the tick that
\* has dealt with its workflow.
StartedPast(i) ==
    \A p \in started[i] :
        \/ p[2] <= lastCheckTime[i]
        \/ \E a \in TicksOf(i) : DealtWith(a, p[1]) /\ p[2] <= now[a]

\* What makes OncePerInstance inductive.
OnceFor(i) ==
    again[i] = {} /\ lastCheckTime[i] <= clock /\ Alone(i) /\ StartedPast(i)

OnceInv == \A i \in Instance \ overlapped : OnceFor(i)

\* The time and the marks of a tick are numbers.
LEMMA OnceTypes ==
  ASSUME TypeOK, NEW i \in Instance
  PROVE  /\ clock \in Nat /\ lastCheckTime[i] \in Nat
         /\ \A p \in started[i] : p[1] \in Workflow /\ p[2] \in Nat
         /\ \A a \in TicksOf(i) : /\ a \in Tick /\ a[1] = i
                                  /\ now[a] \in Nat /\ lease[a].since \in Nat
  BY TickFacts DEF TypeOK, Lease

\* A step of an instance leaves what another one has.
LEMMA OthersOnce ==
  ASSUME NEW i \in Instance, OnceFor(i), TypeOK,
         clock' \in Nat, clock <= clock',
         lastCheckTime'[i] = lastCheckTime[i], started'[i] = started[i],
         again'[i] = again[i],
         \A a \in TicksOf(i) : /\ pc'[a] = pc[a] /\ now'[a] = now[a]
                               /\ todo'[a] = todo[a]
                               /\ lease'[a].workflow = lease[a].workflow
                               /\ lease'[a].since = lease[a].since
  PROVE  OnceFor(i)'
  <1>1. \A a \in TicksOf(i) : now[a] <= clock => now'[a] <= clock'
    BY OnceTypes
  <1>2. lastCheckTime'[i] <= clock'
    BY OnceTypes DEF OnceFor
  <1>3. Alone(i)'
    BY <1>1 DEF OnceFor, Alone
  <1>4. StartedPast(i)'
    BY DEF OnceFor, StartedPast, DealtWith
  <1> QED
    BY <1>2, <1>3, <1>4 DEF OnceFor

\* A tick of i ends and sets lastCheckTime to the time it noted.
LEMMA EndsOnce ==
  ASSUME NEW i \in Instance, OnceFor(i), TypeOK, NEW a \in TicksOf(i),
         pc[a] # "idle", pc' = [pc EXCEPT ![a] = "idle"],
         lastCheckTime' = [lastCheckTime EXCEPT ![i] = now[a]],
         UNCHANGED <<clock, started, again>>
  PROVE  OnceFor(i)'
  <1>1. /\ \A b \in TicksOf(i) : pc[b] # "idle" => b = a
        /\ lastCheckTime[i] <= now[a] /\ now[a] <= clock
    BY DEF OnceFor, Alone
  <1>2. /\ pc \in [Tick -> {"idle", "fetching", "looping", "acquiring", "holding",
                            "releasing"}]
        /\ lastCheckTime \in [Instance -> Nat] /\ a \in Tick
    BY TickFacts DEF TypeOK
  <1>3. lastCheckTime'[i] = now[a] /\ \A b \in TicksOf(i) : pc'[b] = "idle"
    BY <1>1, <1>2, OnceTypes
  <1>4. Alone(i)'
    BY <1>3 DEF Alone
  <1>5. ASSUME NEW p \in started[i]
        PROVE  p[2] <= now[a]
    <2>1. CASE p[2] <= lastCheckTime[i]
      BY <1>1, <2>1, OnceTypes
    <2>2. ASSUME NEW b \in TicksOf(i), DealtWith(b, p[1]), p[2] <= now[b]
          PROVE  p[2] <= now[a]
      BY <1>1, <2>2 DEF DealtWith
    <2> QED
      BY <2>1, <2>2 DEF OnceFor, StartedPast
  <1>6. StartedPast(i)'
    BY <1>3, <1>5 DEF StartedPast
  <1> QED
    BY <1>1, <1>3, <1>4, <1>6 DEF OnceFor

\* A tick of i goes on without starting anything: what it had dealt with it still
\* has, and a new lease is of a window that starts at lastCheckTime.
LEMMA GoesOnOnce ==
  ASSUME NEW i \in Instance, OnceFor(i), TypeOK, NEW a \in TicksOf(i),
         pc[a] # "idle", \A b \in TicksOf(i) \ {a} : pc'[b] = pc[b],
         UNCHANGED <<clock, lastCheckTime, now, again>>,
         pc'[a] \in {"acquiring", "holding"} =>
           lease'[a].since = lastCheckTime[i] /\ lease'[a].workflow \notin todo'[a],
         \A p \in started[i] : DealtWith(a, p[1]) => DealtWith(a, p[1])',
         \A p \in started'[i] : p \in started[i] \/ (DealtWith(a, p[1])' /\ p[2] <= now[a])
  PROVE  OnceFor(i)'
  <1>1. \A b \in TicksOf(i) : (pc[b] # "idle" => b = a) /\ (pc'[b] # "idle" => b = a)
    BY DEF OnceFor, Alone
  <1>2. Alone(i)'
    BY <1>1 DEF OnceFor, Alone
  <1>3. StartedPast(i)'
    <2>1. ASSUME NEW p \in started'[i]
          PROVE  \/ p[2] <= lastCheckTime[i]
                 \/ \E b \in TicksOf(i) : DealtWith(b, p[1])' /\ p[2] <= now[b]
      <3>1. CASE p \in started[i]
        <4>1. CASE p[2] <= lastCheckTime[i]
          BY <4>1
        <4>2. ASSUME NEW b \in TicksOf(i), DealtWith(b, p[1]), p[2] <= now[b]
              PROVE  DealtWith(a, p[1])' /\ p[2] <= now[a]
          <5>1. b = a
            BY <1>1, <4>2 DEF DealtWith
          <5> QED
            BY <3>1, <4>2, <5>1
        <4> QED
          BY <3>1, <4>1, <4>2 DEF OnceFor, StartedPast
      <3> QED
        BY <2>1, <3>1
    <2> QED
      BY <2>1 DEF StartedPast, DealtWith
  <1> QED
    BY <1>2, <1>3 DEF OnceFor

\* The run that is started is for occurrences after lastCheckTime, and nothing
\* that was started lies there unless the tick had dealt with its workflow.
LEMMA TriggersOnce ==
  ASSUME NEW i \in Instance, OnceFor(i), TypeOK, LeaseShape,
         NEW a \in TicksOf(i), Trigger(a)
  PROVE  OnceFor(i)'
  <1> DEFINE w == lease[a].workflow
             Os == Occurrences({w}, lastCheckTime[i], now[a])
  <1>1. /\ a \in Tick /\ a[1] = i /\ pc[a] = "holding" /\ w \in Workflow
        /\ lease[a].since = lastCheckTime[i] /\ w \notin todo[a]
        /\ \A b \in TicksOf(i) : pc[b] # "idle" => b = a
    BY OnceTypes DEF OnceFor, Alone, LeaseShape, Trigger
  <1>2. /\ pc' = [pc EXCEPT ![a] = "releasing"]
        /\ UNCHANGED <<clock, lastCheckTime, now, todo, lease>>
        /\ started' = [started EXCEPT ![i] = @ \cup Os]
        /\ again' = [again EXCEPT ![i] = @ \cup (started[i] \cap Os)]
    BY <1>1 DEF Trigger, Start, Goto, schedule
  <1>3. \A p \in Os : p[1] = w /\ p[2] \in Nat /\ lastCheckTime[i] < p[2] /\ p[2] <= now[a]
    BY OnceTypes DEF Occurrences
  <1> HIDE DEF Os
  <1>4. ASSUME NEW p \in Os, p \in started[i]
        PROVE  FALSE
    <2>1. ~(p[2] <= lastCheckTime[i])
      BY <1>3, OnceTypes
    <2>2. PICK b \in TicksOf(i) : DealtWith(b, p[1])
      BY <1>4, <2>1 DEF OnceFor, StartedPast
    <2>3. b = a
      BY <1>1, <2>2 DEF DealtWith
    <2> QED
      BY <1>1, <1>3, <2>2, <2>3 DEF DealtWith
  <1>5. started'[i] = started[i] \cup Os /\ again'[i] = again[i]
    <2>1. started[i] \cap Os = {}
      BY <1>4
    <2>2. started \in [Instance -> SUBSET (Workflow \X Nat)]
          /\ again \in [Instance -> SUBSET (Workflow \X Nat)]
      BY DEF TypeOK
    <2> QED
      BY <1>2, <2>1, <2>2
  <1>6. /\ pc'[a] = "releasing" /\ \A b \in TicksOf(i) \ {a} : pc'[b] = pc[b]
    BY <1>1, <1>2, OnceTypes DEF TypeOK
  <1>7. \A x \in Workflow : x \notin todo[a] => DealtWith(a, x)'
    BY <1>2, <1>6 DEF DealtWith
  <1>8. \A p \in Os : DealtWith(a, p[1])' /\ p[2] <= now[a]
    BY <1>1, <1>3, <1>7
  <1>9. \A p \in started[i] : DealtWith(a, p[1]) => DealtWith(a, p[1])'
    BY <1>7, OnceTypes DEF DealtWith
  <1>10. Alone(i)'
    BY <1>1, <1>2, <1>6 DEF OnceFor, Alone
  <1>11. StartedPast(i)'
    <2>1. ASSUME NEW p \in started'[i]
          PROVE  \/ p[2] <= lastCheckTime[i]
                 \/ \E b \in TicksOf(i) : DealtWith(b, p[1])' /\ p[2] <= now[b]
      <3>1. CASE p \in Os
        BY <1>8, <3>1
      <3>2. CASE p \in started[i]
        <4>1. ASSUME NEW b \in TicksOf(i), DealtWith(b, p[1]), p[2] <= now[b]
              PROVE  DealtWith(a, p[1])' /\ p[2] <= now[a]
          <5>1. b = a
            BY <1>1, <4>1 DEF DealtWith
          <5> QED
            BY <1>9, <3>2, <4>1, <5>1
        <4> QED
          BY <3>2, <4>1 DEF OnceFor, StartedPast
      <3> QED
        BY <1>5, <2>1, <3>1, <3>2
    <2> QED
      BY <1>2, <2>1 DEF StartedPast, DealtWith
  <1> QED
    BY <1>2, <1>5, <1>10, <1>11 DEF OnceFor

LEMMA NextOnce ==
    TypeOK /\ LeaseShape /\ OnceInv /\ [Next]_vars => OnceInv'
  <1> SUFFICES ASSUME TypeOK, LeaseShape, OnceInv, [Next]_vars,
                      NEW i \in Instance, i \notin overlapped'
               PROVE  OnceFor(i)'
    BY DEF OnceInv
  <1>1. ASSUME i \in overlapped
        PROVE  FALSE
    BY <1>1 DEF Next, TickStep, Fire, Fetch, FetchFails, Check, Acquire, AcquireFails,
                Trigger, TriggerFails, Release, Finish, Restart, Advance, history, vars
  <1>2. OnceFor(i)
    BY <1>1 DEF OnceInv
  <1>3. /\ pc \in [Tick -> {"idle", "fetching", "looping", "acquiring", "holding",
                            "releasing"}]
        /\ now \in [Tick -> Nat] /\ todo \in [Tick -> SUBSET Workflow]
        /\ lease \in [Tick -> Lease] /\ clock \in Nat
        /\ lastCheckTime \in [Instance -> Nat]
        /\ started \in [Instance -> SUBSET (Workflow \X Nat)]
        /\ again \in [Instance -> SUBSET (Workflow \X Nat)]
        /\ LockTTL \in Nat
    BY CronAssumption DEF TypeOK
  <1>4. ASSUME NEW a \in Tick, TickStep(a), a[1] # i
        PROVE  OnceFor(i)'
    <2>1. a \notin TicksOf(i) /\ \A b \in TicksOf(i) : b \in Tick /\ b # a
      BY <1>4, TickFacts
    <2>2. /\ \A b \in TicksOf(i) : /\ pc'[b] = pc[b] /\ now'[b] = now[b]
                                   /\ todo'[b] = todo[b] /\ lease'[b] = lease[b]
          /\ clock' = clock /\ started'[i] = started[i] /\ again'[i] = again[i]
          /\ lastCheckTime'[i] = lastCheckTime[i]
      <3>1. CASE Fire(a) \/ Fetch(a) \/ Finish(a)
        BY <1>3, <1>4, <2>1, <3>1 DEF Fire, Fetch, Finish, End, Goto, history
      <3>2. CASE FetchFails(a)
        BY <1>3, <1>4, <2>1, <3>2 DEF FetchFails, End, GiveUp, Goto
      <3>3. ASSUME NEW w \in Workflow, Check(a, w)
            PROVE  /\ \A b \in TicksOf(i) : /\ pc'[b] = pc[b] /\ now'[b] = now[b]
                                            /\ todo'[b] = todo[b] /\ lease'[b] = lease[b]
                   /\ clock' = clock /\ started'[i] = started[i] /\ again'[i] = again[i]
                   /\ lastCheckTime'[i] = lastCheckTime[i]
        BY <1>3, <1>4, <2>1, <3>3 DEF Check, Goto, history
      <3>4. CASE Acquire(a) \/ AcquireFails(a) \/ Release(a)
        BY <1>3, <1>4, <2>1, <3>4
           DEF Acquire, AcquireFails, Release, GiveUp, Goto, history, schedule
      <3>5. CASE Trigger(a) \/ TriggerFails(a)
        BY <1>3, <1>4, <2>1, <3>5 DEF Trigger, TriggerFails, Start, GiveUp, Goto, schedule
      <3> QED
        BY <1>4, <3>1, <3>2, <3>3, <3>4, <3>5 DEF TickStep
    <2> QED
      BY <1>2, <1>3, <2>2, OthersOnce
  <1>5. ASSUME NEW a \in TicksOf(i), Fire(a)
        PROVE  OnceFor(i)'
    <2>1. a \in Tick /\ a[1] = i
      BY OnceTypes
    <2>2. \A b \in TicksOf(i) : pc[b] = "idle"
      BY <1>5, <2>1 DEF Fire
    <2>3. /\ pc' = [pc EXCEPT ![a] = "fetching"] /\ now' = [now EXCEPT ![a] = clock]
          /\ UNCHANGED <<clock, lastCheckTime, started, again>>
      BY <1>5 DEF Fire, Goto
    <2>4. /\ pc'[a] = "fetching" /\ now'[a] = clock
          /\ \A b \in TicksOf(i) \ {a} : pc'[b] = "idle"
      BY <1>3, <2>1, <2>2, <2>3, OnceTypes
    <2>5. Alone(i)'
      BY <1>2, <1>3, <2>3, <2>4 DEF OnceFor, Alone
    <2>6. StartedPast(i)'
      BY <1>2, <2>2, <2>3 DEF OnceFor, StartedPast, DealtWith
    <2> QED
      BY <1>2, <2>3, <2>5, <2>6 DEF OnceFor
  <1>6. ASSUME NEW a \in TicksOf(i), FetchFails(a) \/ Finish(a)
        PROVE  OnceFor(i)'
    <2>1. a[1] = i
      BY OnceTypes
    <2> QED
      BY <1>2, <1>6, <2>1, EndsOnce DEF FetchFails, Finish, End, Goto, GiveUp, history
  <1>7. ASSUME NEW a \in TicksOf(i), Fetch(a)
        PROVE  OnceFor(i)'
    <2>1. /\ pc[a] = "fetching" /\ pc' = [pc EXCEPT ![a] = "looping"] /\ a \in Tick
          /\ UNCHANGED <<clock, lastCheckTime, now, started, again>>
      BY <1>7, OnceTypes DEF Fetch, Goto, history
    <2>2. pc'[a] = "looping" /\ \A b \in TicksOf(i) \ {a} : pc'[b] = pc[b]
      BY <1>3, <2>1, OnceTypes
    <2>3. \A p \in started[i] : ~DealtWith(a, p[1])
      BY <2>1 DEF DealtWith
    <2> QED
      BY <1>2, <2>1, <2>2, <2>3, GoesOnOnce
  <1>8. ASSUME NEW a \in TicksOf(i), NEW w \in Workflow, Check(a, w)
        PROVE  OnceFor(i)'
    <2>1. /\ pc[a] = "looping" /\ a \in Tick /\ a[1] = i /\ w \in todo[a]
          /\ todo'[a] = todo[a] \ {w}
          /\ UNCHANGED <<clock, lastCheckTime, now, started, again>>
      BY <1>3, <1>8, OnceTypes DEF Check, history
    <2>2. /\ \A b \in TicksOf(i) \ {a} : pc'[b] = pc[b]
          /\ \/ pc'[a] = "looping"
             \/ /\ pc'[a] = "acquiring" /\ lease'[a].workflow = w
                /\ lease'[a].since = lastCheckTime[i]
      BY <1>3, <1>8, <2>1, OnceTypes DEF Check, Goto
    <2>3. \A p \in started[i] : DealtWith(a, p[1]) => DealtWith(a, p[1])'
      BY <2>1, <2>2 DEF DealtWith
    <2> QED
      BY <1>2, <2>1, <2>2, <2>3, GoesOnOnce
  <1>9. ASSUME NEW a \in TicksOf(i), Acquire(a)
        PROVE  OnceFor(i)'
    <2>1. /\ pc[a] = "acquiring" /\ a \in Tick /\ lease[a] \in Lease
          /\ pc' = [pc EXCEPT ![a] = "holding"]
          /\ lease' = [lease EXCEPT ![a].ttl = LockTTL]
          /\ UNCHANGED <<clock, lastCheckTime, now, todo, started, again>>
      BY <1>3, <1>9, OnceTypes DEF Acquire, Goto, history, schedule
    <2>2. /\ pc'[a] = "holding" /\ \A b \in TicksOf(i) \ {a} : pc'[b] = pc[b]
          /\ lease'[a].workflow = lease[a].workflow /\ lease'[a].since = lease[a].since
      BY <1>3, <2>1, LeaseUpdate, OnceTypes
    <2>3. \A p \in started[i] : DealtWith(a, p[1]) => DealtWith(a, p[1])'
      BY <2>1, <2>2 DEF DealtWith
    <2>4. lease[a].since = lastCheckTime[i] /\ lease[a].workflow \notin todo[a]
      BY <1>2, <2>1 DEF OnceFor, Alone
    <2> QED
      BY <1>2, <2>1, <2>2, <2>3, <2>4, GoesOnOnce
  <1>10. ASSUME NEW a \in TicksOf(i), AcquireFails(a) \/ TriggerFails(a) \/ Release(a)
         PROVE  OnceFor(i)'
    <2>1. /\ pc[a] \in {"acquiring", "holding", "releasing"} /\ a \in Tick
          /\ \/ pc' = [pc EXCEPT ![a] = "looping"]
             \/ pc' = [pc EXCEPT ![a] = "releasing"]
          /\ UNCHANGED <<clock, lastCheckTime, now, todo, started, again>>
      BY <1>10, OnceTypes
         DEF AcquireFails, TriggerFails, Release, GiveUp, Goto, history, schedule
    <2>2. /\ pc'[a] \in {"looping", "releasing"}
          /\ \A b \in TicksOf(i) \ {a} : pc'[b] = pc[b]
      BY <1>3, <2>1, OnceTypes
    <2>3. \A p \in started[i] : DealtWith(a, p[1]) => DealtWith(a, p[1])'
      BY <2>1, <2>2 DEF DealtWith
    <2> QED
      BY <1>2, <2>1, <2>2, <2>3, GoesOnOnce
  <1>11. ASSUME NEW j \in Instance, Restart(j)
         PROVE  OnceFor(i)'
    <2>1. CASE i = j
      <3>1. /\ \A a \in TicksOf(i) : a \in Tick /\ pc'[a] = "idle"
            /\ lastCheckTime'[i] = clock /\ clock' = clock
            /\ UNCHANGED <<started, again>>
        BY <1>3, <1>11, <2>1, OnceTypes DEF Restart, GiveUp
      <3>2. ASSUME NEW p \in started[i]
            PROVE  p[2] <= clock
        <4>1. CASE p[2] <= lastCheckTime[i]
          BY <1>2, <4>1, OnceTypes DEF OnceFor
        <4>2. ASSUME NEW a \in TicksOf(i), DealtWith(a, p[1]), p[2] <= now[a]
              PROVE  p[2] <= clock
          <5>1. now[a] <= clock
            BY <1>2, <4>2 DEF OnceFor, Alone, DealtWith
          <5> QED
            BY <4>2, <5>1, OnceTypes
        <4> QED
          BY <1>2, <4>1, <4>2 DEF OnceFor, StartedPast
      <3>3. Alone(i)'
        BY <3>1 DEF Alone
      <3>4. StartedPast(i)'
        BY <3>1, <3>2 DEF StartedPast
      <3> QED
        BY <1>2, <1>3, <3>1, <3>3, <3>4 DEF OnceFor
    <2>2. CASE i # j
      <3>1. \A a \in TicksOf(i) : a \in Tick /\ a \notin TicksOf(j)
        BY <2>2, TickFacts, OnceTypes
      <3>2. /\ \A a \in TicksOf(i) : /\ pc'[a] = pc[a] /\ now'[a] = now[a]
                                     /\ todo'[a] = todo[a] /\ lease'[a] = lease[a]
            /\ clock' = clock /\ UNCHANGED <<started, again>>
            /\ lastCheckTime'[i] = lastCheckTime[i]
        BY <1>3, <1>11, <2>2, <3>1 DEF Restart, GiveUp
      <3> QED
        BY <1>2, <1>3, <3>2, OthersOnce
    <2> QED
      BY <2>1, <2>2
  <1>12. ASSUME Advance
         PROVE  OnceFor(i)'
    <2>1. /\ clock' = clock + 1 /\ UNCHANGED <<pc, lastCheckTime, now, todo, started, again>>
          /\ lease' = [a \in Tick |-> [lease[a] EXCEPT !.ttl = OneLess(@)]]
      BY <1>12 DEF Advance, history
    <2>2. \A a \in Tick : OneLess(lease[a].ttl) \in Nat /\ lease[a] \in Lease
      BY <1>3 DEF OneLess, Lease
    <2>3. \A a \in Tick : /\ lease'[a].workflow = lease[a].workflow
                          /\ lease'[a].since = lease[a].since
      BY <2>1, <2>2, LeaseUpdate
    <2>4. clock' \in Nat /\ clock <= clock'
      BY <1>3, <2>1
    <2> QED
      BY <1>2, <2>1, <2>3, <2>4, OnceTypes, OthersOnce
  <1>13. CASE UNCHANGED vars
    BY <1>2, <1>3, <1>13, OthersOnce DEF vars, schedule, history
  <1>14. ASSUME NEW a \in Tick, TickStep(a)
         PROVE  OnceFor(i)'
    <2>1. CASE a[1] = i
      <3>1. a \in TicksOf(i)
        BY <2>1, TickFacts
      <3> QED
        BY <1>2, <1>5, <1>6, <1>7, <1>8, <1>9, <1>10, <1>14, <3>1, TriggersOnce
           DEF TickStep
    <2> QED
      BY <1>4, <1>14, <2>1
  <1> QED
    BY <1>11, <1>12, <1>13, <1>14 DEF Next

LEMMA InitOnce == Init => OnceInv
  BY TickFacts DEF Init, OnceInv, OnceFor, Alone, StartedPast

-----------------------------------------------------------------------------
\* At boot no tick is in flight and nothing lies before lastCheckTime.
LEMMA InitInv == Init => TypeOK /\ LeaseShape /\ LeaseInv /\ CoverInv
  <1> SUFFICES ASSUME Init PROVE TypeOK /\ LeaseShape /\ LeaseInv /\ CoverInv
    OBVIOUS
  <1>1. TypeOK
    BY TickFacts, CronAssumption
       DEF Init, TypeOK, Lease, NoLease, Lock!LockInit, Lock!LockTypeOK,
           Lock!NoEntry
  <1>2. LeaseShape /\ LeaseInv
    BY DEF Init, LeaseShape, LeaseInv, LeaseBacked
  <1>3. \A i \in Instance, w \in Workflow : CoveredUpTo(i, w, lastCheckTime[i])
    BY CronAssumption DEF Init, CoveredUpTo
  <1>4. CoverInv
    BY <1>3 DEF Init, CoverInv, DealtWith
  <1> QED
    BY <1>1, <1>2, <1>4

\* The inductive invariant holds in every reachable state.
THEOREM Invariance == Spec => [](TypeOK /\ LeaseShape /\ LeaseInv /\ CoverInv)
  <1>1. TypeOK /\ LeaseShape /\ LeaseInv /\ CoverInv /\ [Next]_vars
          => (TypeOK /\ LeaseShape /\ LeaseInv /\ CoverInv)'
    BY NextType, NextLease, NextCover
  <1> QED
    BY InitInv, <1>1, PTL DEF Spec

\* Type correctness of the cron scheduler.
THEOREM TypeCorrect == Spec => []TypeOK
  BY Invariance, PTL

\* Two ticks, of one instance or of two, work on a workflow at once only when
\* one of them overran the life of its lock, since both leases alive would put
\* two tokens under one key (acquireLock and releaseLock in cron.ts).
THEOREM LockExcludes == Spec => []NoConcurrentTrigger
  <1>1. TypeOK /\ LeaseInv => NoConcurrentTrigger
    <2> SUFFICES ASSUME TypeOK, LeaseInv, NEW a \in Tick, NEW b \in Tick,
                        a # b,
                        pc[a] \in {"holding", "releasing"},
                        pc[b] \in {"holding", "releasing"},
                        lease[a].workflow = lease[b].workflow,
                        lease[a].ttl # 0, lease[b].ttl # 0
                 PROVE  FALSE
      BY DEF NoConcurrentTrigger
    <2>1. lease[a].ttl \in Nat /\ lease[b].ttl \in Nat
      BY DEF TypeOK, Lease
    <2>2. /\ lock[lease[a].workflow].token = a
          /\ lock[lease[b].workflow].token = b
      BY <2>1 DEF LeaseInv, LeaseBacked
    <2> QED
      BY <2>2
  <1> QED
    BY Invariance, <1>1, PTL

\* lastCheckTime passes no occurrence in silence: there is a run for it, or a
\* logged reason why there is none (checkCronWorkflows in cron.ts).
THEOREM NoOccurrencePassedOver == Spec => []EveryOccurrenceAccounted
  <1>1. TypeOK /\ CoverInv => EveryOccurrenceAccounted
    <2> SUFFICES ASSUME TypeOK, CoverInv, NEW i \in Instance,
                        NEW p \in Occurrences(Workflow, 0, lastCheckTime[i])
                 PROVE  p \in accounted[i]
      BY DEF EveryOccurrenceAccounted
    <2>1. /\ p = <<p[1], p[2]>> /\ p[1] \in Workflow /\ p[2] \in Due[p[1]]
          /\ p[2] \in Nat /\ 0 < p[2] /\ p[2] <= lastCheckTime[i]
      BY DEF Occurrences, TypeOK
    <2> QED
      BY <2>1 DEF CoverInv, CoveredUpTo
  <1> QED
    BY Invariance, <1>1, PTL

\* While the ticks of an instance do not overlap, no occurrence starts two runs
\* there, whatever locks, triggers and restarts do (lastCheckTime in cron.ts).
THEOREM NoInstanceRepeats == Spec => []OncePerInstance
  <1>1. TypeOK /\ LeaseShape /\ OnceInv /\ [Next]_vars => OnceInv'
    BY NextOnce
  <1>2. OnceInv => OncePerInstance
    BY DEF OnceInv, OnceFor, OncePerInstance
  <1> QED
    BY Invariance, InitOnce, <1>1, <1>2, PTL DEF Spec
=============================================================================
