----------------------------- MODULE SweepLock -----------------------------
(***************************************************************************)
(* The three jobs that every instance starts on a timer and of which a key *)
(* in the cache lets one work at a time: the reaper of stale runs, the     *)
(* retention sweep and the poller of the sync queue.  What a job does to   *)
(* the tables is in WorkflowRun, EventReplay and WardenSync; here a job    *)
(* works for as long as it pleases, and the lock may expire under it.      *)
(***************************************************************************)
EXTENDS Integers, FiniteSets

CONSTANTS
    Host,         \* the processes
    Overlap,      \* bound: the ticks a process has in flight of a job
    NoToken,      \* a token nobody knows
    SweepTTL,     \* the life of a key, whichever job is looked at
    MaxTroubles   \* bound: cache calls that fail, and crashes

VARIABLES
    job,          \* the job that is looked at: none touches another's key
    sweepLock,    \* the keys, see CacheLock
    beat,         \* beat[t]: where tick t is
    term,         \* term[t]: the time left since t got its key
    troubles      \* how much of MaxTroubles is used

sweepVars == <<job, sweepLock, beat, term, troubles>>

Job == {"reaper", "retention", "sync"}
Beat == Host \X (1 .. Overlap)

Key == INSTANCE CacheLock WITH Key <- Job, Holder <- Beat, Unknown <- NoToken,
                               LockTTL <- SweepTTL, lock <- sweepLock

ASSUME SweepAssumption ==
    /\ NoToken \notin Beat
    /\ Overlap \in Nat
    /\ SweepTTL \in Nat \ {0}
    /\ MaxTroubles \in Nat

SweepTypeOK ==
    /\ Key!LockTypeOK
    /\ job \in Job \cup {"none"}
    /\ beat \in [Beat -> {"idle", "acquire", "work", "release"}]
    /\ term \in [Beat -> 0 .. SweepTTL]
    /\ troubles \in 0 .. MaxTroubles

SweepStart ==
    /\ Key!LockInit
    /\ beat = [t \in Beat |-> "idle"]
    /\ term = [t \in Beat |-> 0]
    /\ troubles = 0

\* The ticks are those of one job, or of none.
SweepInit == SweepStart /\ job \in Job \cup {"none"}

To(t, label) == beat' = [beat EXCEPT ![t] = label]

Rest == UNCHANGED <<job, sweepLock, term, troubles>>

Trouble == troubles < MaxTroubles /\ troubles' = troubles + 1

-----------------------------------------------------------------------------
\* The interval fires, or the first check after the start, whether or not the
\* process's last tick is through.
FireSweep(t) ==
    /\ job # "none"
    /\ beat[t] = "idle"
    /\ To(t, "acquire")
    /\ Rest

\* The key is set; or it is there; or the call fails, with the key set under a
\* token that no process will know, or not.
TakeKey(t) ==
    /\ beat[t] = "acquire"
    /\ \/ /\ Key!SetNX(job, t)
          /\ To(t, "work")
          /\ term' = [term EXCEPT ![t] = SweepTTL]
          /\ UNCHANGED troubles
       \/ /\ ~Key!Absent(job)
          /\ To(t, "idle")
          /\ UNCHANGED <<sweepLock, term, troubles>>
       \/ /\ Trouble
          /\ UNCHANGED sweepLock \/ Key!SetNX(job, NoToken)
          /\ To(t, "idle")
          /\ UNCHANGED term
    /\ UNCHANGED job

acquireReaperLock(t) == job = "reaper" /\ TakeKey(t)
acquireRetentionLock(t) == job = "retention" /\ TakeKey(t)
acquireWardenSyncLock(t) == job = "sync" /\ TakeKey(t)

\* The work is done or has thrown: the key is released either way.
EndWork(t) ==
    /\ beat[t] = "work"
    /\ To(t, "release")
    /\ Rest

\* The release is executed, or fails and is logged.
GiveKey(t) ==
    /\ beat[t] = "release"
    /\ \/ Key!CompareAndDelete(job, t) /\ UNCHANGED troubles
       \/ Trouble /\ Key!Orphan({t})
    /\ To(t, "idle")
    /\ term' = [term EXCEPT ![t] = 0]
    /\ UNCHANGED job

releaseReaperLock(t) == job = "reaper" /\ GiveKey(t)
releaseRetentionLock(t) == job = "retention" /\ GiveKey(t)
releaseWardenSyncLock(t) == job = "sync" /\ GiveKey(t)

\* The process dies, or is stopped, which waits for no tick; another boots.  Its
\* keys stay.
Reboot(h) ==
    LET Dead == {t \in Beat : t[1] = h /\ beat[t] # "idle"}
    IN  /\ Dead # {}
        /\ Trouble
        /\ beat' = [t \in Beat |-> IF t \in Dead THEN "idle" ELSE beat[t]]
        /\ term' = [t \in Beat |-> IF t \in Dead THEN 0 ELSE term[t]]
        /\ Key!Orphan(Dead)
        /\ UNCHANGED job

TimePasses ==
    /\ job # "none"
    /\ Key!Elapse
    /\ term' = [t \in Beat |-> IF term[t] = 0 THEN 0 ELSE term[t] - 1]
    /\ UNCHANGED <<job, beat, troubles>>

-----------------------------------------------------------------------------
AcquireSweep(t) ==
    \/ acquireReaperLock(t) \/ acquireRetentionLock(t) \/ acquireWardenSyncLock(t)

ReleaseSweep(t) ==
    \/ releaseReaperLock(t) \/ releaseRetentionLock(t) \/ releaseWardenSyncLock(t)

SweepNext ==
    \/ \E t \in Beat :
         FireSweep(t) \/ AcquireSweep(t) \/ EndWork(t) \/ ReleaseSweep(t)
    \/ \E h \in Host : Reboot(h)
    \/ TimePasses

\* Time passes, some interval keeps firing and its calls of the cache return; the
\* work itself may hang.
SweepFairness ==
    /\ WF_sweepVars(TimePasses)
    /\ WF_sweepVars(\E t \in Beat : FireSweep(t) \/ AcquireSweep(t) \/ ReleaseSweep(t))

SweepSpec == SweepInit /\ [][SweepNext]_sweepVars /\ SweepFairness

-----------------------------------------------------------------------------
Working(t) == beat[t] \in {"work", "release"}

(* Two ticks of a job work at once, in one process or in two, only if one of
   them outlived its key: a tick that is late never releases the key of another. *)
SweepsApart ==
    \A s, t \in Beat :
        s # t /\ Working(s) /\ Working(t) => term[s] = 0 \/ term[t] = 0

(* No crash, lost answer or failed release stops a job for good: while a process
   has a free timer some process gets to work again.                        *)
SweepsGoOn ==
    (job # "none" /\ \E t \in Beat : beat[t] = "idle")
        ~> (\E t \in Beat : Working(t))
=============================================================================
