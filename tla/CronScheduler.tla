--------------------------- MODULE CronScheduler ---------------------------
(***************************************************************************)
(* The cron scheduler of every instance of the API server.  A timer starts *)
(* a tick each Interval without waiting for the previous one, so several   *)
(* ticks of an instance may be in flight.  A tick notes the time, fetches  *)
(* the active cron workflows and, for each, compares the instance's        *)
(* lastCheckTime as it is at that moment with the time it noted; a         *)
(* workflow that is due is triggered under a lock in the cache.  The       *)
(* tick's last step sets lastCheckTime to the time it noted.               *)
(***************************************************************************)
EXTENDS Naturals, FiniteSets

CONSTANTS
    Instance,    \* instances of the server sharing database and cache
    MaxInFlight, \* bound: MaxInFlight[i] ticks of instance i are in flight
    Workflow,    \* the active workflows with a cron expression
    Due,         \* Due[w]: the times at which w's expression fires
    Interval,    \* CHECK_INTERVAL_MS
    Unknown,     \* a lock token nobody knows
    LockTTL,     \* CRON_LOCK_TTL_SECONDS
    MaxClock     \* bound: the last instant

ASSUME CronAssumption ==
    /\ MaxInFlight \in [Instance -> Nat]
    /\ Due \in [Workflow -> SUBSET Nat]
    /\ Interval \in Nat \ {0}
    /\ LockTTL \in Nat \ {0}
    /\ Unknown \notin Instance \X Nat
    /\ MaxClock \in Nat

VARIABLES
    clock,           \* the time
    lock,            \* the lock keys, see CacheLock
    lastCheckTime,   \* lastCheckTime[i], set at boot and by every tick's end
    timer,           \* timer[i]: the time until the interval fires next
    pc,              \* pc[a]: where tick a is
    now,             \* now[a]: the time tick a noted at its start
    todo,            \* todo[a]: the workflows still to be looked at
    lease,           \* lease[a]: the workflow a holds or wants, and since when
    started,         \* history: the occurrences an instance started a run for
    again,           \* history: those it started several runs for
    accounted,       \* history: those it started a run for or gave up
    overlapped       \* history: the instances that had two ticks in flight

schedule == <<lastCheckTime, timer, now, todo>>
history  == <<started, again, accounted, overlapped>>
vars == <<clock, lock, pc, lease, schedule, history>>

\* A tick in flight: its instance and a slot.
TicksOf(i) == {i} \X (1 .. MaxInFlight[i])
Tick == UNION {TicksOf(i) : i \in Instance}

Lock == INSTANCE CacheLock WITH Key <- Workflow, Holder <- Tick

\* The lease a tick believes to have on a workflow: it found the workflow due
\* in (since, now], its key has ttl left to live.
Lease == [workflow : Workflow \cup {"none"}, since : Nat, ttl : Nat]
NoLease == [workflow |-> "none", since |-> 0, ttl |-> 0]

TypeOK ==
    /\ clock \in Nat
    /\ Lock!LockTypeOK
    /\ lastCheckTime \in [Instance -> Nat]
    /\ timer \in [Instance -> Nat]
    /\ pc \in [Tick -> {"idle", "fetching", "looping", "acquiring", "holding",
                        "releasing"}]
    /\ now \in [Tick -> Nat]
    /\ todo \in [Tick -> SUBSET Workflow]
    /\ lease \in [Tick -> Lease]
    /\ started \in [Instance -> SUBSET (Workflow \X Nat)]
    /\ again \in [Instance -> SUBSET (Workflow \X Nat)]
    /\ accounted \in [Instance -> SUBSET (Workflow \X Nat)]
    /\ overlapped \subseteq Instance

Init ==
    /\ clock = 0
    /\ Lock!LockInit
    /\ lastCheckTime = [i \in Instance |-> 0]
    /\ timer = [i \in Instance |-> 0]
    /\ pc = [a \in Tick |-> "idle"]
    /\ now = [a \in Tick |-> 0]
    /\ todo = [a \in Tick |-> {}]
    /\ lease = [a \in Tick |-> NoLease]
    /\ started = [i \in Instance |-> {}]
    /\ again = [i \in Instance |-> {}]
    /\ accounted = [i \in Instance |-> {}]
    /\ overlapped = {}

-----------------------------------------------------------------------------
\* Mutant: an occurrence at the last check counts again.
OccurrencesFromSince(W, since, upto) ==
    {p \in W \X (since .. upto) : p[2] \in Due[p[1]]}

\* The occurrences of the workflows W in the window (since, upto].
Occurrences(W, since, upto) ==
    {p \in W \X (since + 1 .. upto) : p[2] \in Due[p[1]]}

shouldTrigger(w, since, upto) == Occurrences({w}, since, upto) # {}

\* Instance i starts a run for the occurrences of w in (since, upto], one run
\* however many there are.
Start(i, w, since, upto) ==
    LET Os == Occurrences({w}, since, upto)
    IN  /\ started' = [started EXCEPT ![i] = @ \cup Os]
        /\ again' = [again EXCEPT ![i] = @ \cup (started[i] \cap Os)]
        /\ accounted' = [accounted EXCEPT ![i] = @ \cup Os]

\* Instance i gives up the occurrences of W in (since, upto].
GiveUp(i, W, since, upto) ==
    /\ accounted' = [accounted EXCEPT ![i] = @ \cup Occurrences(W, since, upto)]
    /\ UNCHANGED <<started, again>>

Goto(a, label) == pc' = [pc EXCEPT ![a] = label]

\* Tick a returns, its local variables go.
End(a) ==
    /\ Goto(a, "idle")
    /\ now' = [now EXCEPT ![a] = 0]

-----------------------------------------------------------------------------
(***************************************************************************)
(* checkCronWorkflows, step by step.                                       *)
(***************************************************************************)
\* The interval fires; it is not held up by a tick that is still running.
Fire(a) ==
    LET i == a[1]
    IN  /\ timer[i] = 0
        /\ pc[a] = "idle"
        /\ Goto(a, "fetching")
        /\ now' = [now EXCEPT ![a] = clock]
        /\ timer' = [timer EXCEPT ![i] = Interval]
        /\ overlapped' = IF \E b \in TicksOf(i) : pc[b] # "idle"
                           THEN overlapped \cup {i}
                           ELSE overlapped
        /\ UNCHANGED <<clock, lock, lease, lastCheckTime, todo, started, again,
                       accounted>>

Fetch(a) ==
    /\ pc[a] = "fetching"
    /\ Goto(a, "looping")
    /\ todo' = [todo EXCEPT ![a] = Workflow]
    /\ UNCHANGED <<clock, lock, lease, lastCheckTime, timer, now, history>>

\* The query fails: logged, and the window counts as checked.
FetchFails(a) ==
    LET i == a[1]
    IN  /\ pc[a] = "fetching"
        /\ End(a)
        /\ lastCheckTime' = [lastCheckTime EXCEPT ![i] = now[a]]
        /\ GiveUp(i, Workflow, lastCheckTime[i], now[a])
        /\ UNCHANGED <<clock, lock, lease, timer, todo, overlapped>>

\* The next workflow is compared with lastCheckTime as it is now, which a
\* later tick of the instance may have moved since this one started.
Check(a, w) ==
    LET since == lastCheckTime[a[1]]
    IN  /\ pc[a] = "looping"
        /\ w \in todo[a]
        /\ todo' = [todo EXCEPT ![a] = @ \ {w}]
        /\ IF shouldTrigger(w, since, now[a])
             THEN /\ Goto(a, "acquiring")
                  /\ lease' = [lease EXCEPT ![a] = [workflow |-> w,
                                                   since |-> since, ttl |-> 0]]
             ELSE UNCHANGED <<pc, lease>>
        /\ UNCHANGED <<clock, lock, lastCheckTime, timer, now, history>>

Acquire(a) ==
    /\ pc[a] = "acquiring"
    /\ Lock!SetNX(lease[a].workflow, a)
    /\ lease' = [lease EXCEPT ![a].ttl = LockTTL]
    /\ Goto(a, "holding")
    /\ UNCHANGED <<clock, schedule, history>>

\* No token: the key is there, or the cache call failed, with the key set or
\* not.  The workflow is skipped.
AcquireFails(a) ==
    /\ pc[a] = "acquiring"
    /\ UNCHANGED lock \/ Lock!SetNX(lease[a].workflow, Unknown)
    /\ GiveUp(a[1], {lease[a].workflow}, lease[a].since, now[a])
    /\ lease' = [lease EXCEPT ![a] = NoLease]
    /\ Goto(a, "looping")
    /\ UNCHANGED <<clock, schedule, overlapped>>

\* triggerWorkflow inserts a run.  What becomes of the run is WorkflowRun's
\* subject; it takes its time, with the lock held.
Trigger(a) ==
    /\ pc[a] = "holding"
    /\ Start(a[1], lease[a].workflow, lease[a].since, now[a])
    /\ Goto(a, "releasing")
    /\ UNCHANGED <<clock, lock, lease, schedule, overlapped>>

\* No run: the execution limit is reached, or the insert fails.
TriggerFails(a) ==
    /\ pc[a] = "holding"
    /\ GiveUp(a[1], {lease[a].workflow}, lease[a].since, now[a])
    /\ Goto(a, "releasing")
    /\ UNCHANGED <<clock, lock, lease, schedule, overlapped>>

\* The release is executed, or fails and is logged.
Release(a) ==
    /\ pc[a] = "releasing"
    /\ Lock!CompareAndDelete(lease[a].workflow, a) \/ UNCHANGED lock
    /\ lease' = [lease EXCEPT ![a] = NoLease]
    /\ Goto(a, "looping")
    /\ UNCHANGED <<clock, schedule, history>>

\* Mutant: the time of the end, instead of the time noted at the start.
FinishAtClock(a) ==
    /\ pc[a] = "looping"
    /\ todo[a] = {}
    /\ lastCheckTime' = [lastCheckTime EXCEPT ![a[1]] = clock]
    /\ End(a)
    /\ UNCHANGED <<clock, lock, lease, timer, todo, history>>

Finish(a) ==
    /\ pc[a] = "looping"
    /\ todo[a] = {}
    /\ lastCheckTime' = [lastCheckTime EXCEPT ![a[1]] = now[a]]
    /\ End(a)
    /\ UNCHANGED <<clock, lock, lease, timer, todo, history>>

-----------------------------------------------------------------------------
\* The process dies, or is stopped, which does not wait for ticks either; a new
\* one boots and checks at once.  Its predecessor's keys stay in the cache.
Restart(i) ==
    LET Dead == TicksOf(i)
    IN  /\ pc' = [a \in Tick |-> IF a \in Dead THEN "idle" ELSE pc[a]]
        /\ lease' = [a \in Tick |-> IF a \in Dead THEN NoLease ELSE lease[a]]
        /\ todo' = [a \in Tick |-> IF a \in Dead THEN {} ELSE todo[a]]
        /\ now' = [a \in Tick |-> IF a \in Dead THEN 0 ELSE now[a]]
        /\ Lock!Orphan(Dead)
        /\ lastCheckTime' = [lastCheckTime EXCEPT ![i] = clock]
        /\ timer' = [timer EXCEPT ![i] = 0]
        /\ GiveUp(i, Workflow, lastCheckTime[i], clock)
        /\ UNCHANGED <<clock, overlapped>>

OneLess(n) == IF n = 0 THEN 0 ELSE n - 1

Advance ==
    /\ clock < MaxClock
    /\ clock' = clock + 1
    /\ timer' = [i \in Instance |-> OneLess(timer[i])]
    /\ lease' = [a \in Tick |-> [lease[a] EXCEPT !.ttl = OneLess(@)]]
    /\ Lock!Elapse
    /\ UNCHANGED <<pc, lastCheckTime, now, todo, history>>

TickStep(a) ==
    \/ Fire(a)
    \/ Fetch(a)
    \/ FetchFails(a)
    \/ \E w \in Workflow : Check(a, w)
    \/ Acquire(a)
    \/ AcquireFails(a)
    \/ Trigger(a)
    \/ TriggerFails(a)
    \/ Release(a)
    \/ Finish(a)

Next ==
    \/ \E a \in Tick : TickStep(a)
    \/ \E i \in Instance : Restart(i)
    \/ Advance

Spec == Init /\ [][Next]_vars
-----------------------------------------------------------------------------
(***************************************************************************)
(* Properties.                                                             *)
(***************************************************************************)
\* Two ticks work on the same workflow at once only if one of them overran
\* the life of its lock: nobody releases a lock that another tick holds.
NoConcurrentTrigger ==
    \A a, b \in Tick :
        /\ a # b
        /\ pc[a] \in {"holding", "releasing"}
        /\ pc[b] \in {"holding", "releasing"}
        /\ lease[a].workflow = lease[b].workflow
        => lease[a].ttl = 0 \/ lease[b].ttl = 0

\* lastCheckTime never passes an occurrence in silence, even when ticks of the
\* instance overlap and set it back: the instance started a run for it, or gave
\* it up for a failed query, a held lock, a refused trigger or a restart.
EveryOccurrenceAccounted ==
    \A i \in Instance :
        Occurrences(Workflow, 0, lastCheckTime[i]) \subseteq accounted[i]

\* "Track last check time to avoid duplicate triggers" (within an instance):
\* while its ticks do not overlap, no occurrence starts two runs, restarts
\* included.
OncePerInstance == \A i \in Instance \ overlapped : again[i] = {}

\* "Uses distributed locking to prevent duplicate triggers in multi-instance
\* deployments": no two instances start a run for the same occurrence.
NoDuplicateTrigger ==
    \A i, j \in Instance : i # j => started[i] \cap started[j] = {}
=============================================================================
