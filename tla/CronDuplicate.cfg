\* Two instances, one tick each, one workflow.
SPECIFICATION Spec
CONSTANTS
    Instance = {1, 2}
    MaxInFlight <- OneEach
    Workflow = {w1}
    Due <- EveryMinute
    Interval = 2
    LockTTL = 3
    Unknown = Unknown
    MaxClock = 4
INVARIANTS
    NoDuplicateTrigger
CHECK_DEADLOCK FALSE
