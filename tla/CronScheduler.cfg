\* Instance 1 with up to two ticks in flight, instance 2 with one; a workflow that
\* fires every minute.  Time stops at MaxClock, so a behaviour may end.
SPECIFICATION Spec
CONSTANTS
    Instance = {1, 2}
    MaxInFlight <- TwoAndOne
    Workflow = {w1}
    Due <- EveryMinute
    Interval = 2
    LockTTL = 3
    Unknown = Unknown
    MaxClock = 4
INVARIANTS
    TypeOK
    NoConcurrentTrigger
    EveryOccurrenceAccounted
    OncePerInstance
CHECK_DEADLOCK FALSE
