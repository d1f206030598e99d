SPECIFICATION FlowSpec
CONSTANTS
    Request = {1, 2, 3}
    LimitRead = {1, 2}
    Letter = {"d1", "d2"}
    Event = {"d1", "d2", "e1"}
    NoEvent = "none"
    Retention = 1
    MaxDays = 2
    Batch = 1
    MaxBatches = 2
    EventMix <- MCEventMix
    Instance = {"i1"}
    Watched = {"w1"}
    Config = {"c1", "c2"}
    InitialConfig <- MCInitialConfig
    Off = "off"
    Dedup <- MCDedup
    Poll = {1, 2, 3}
    MaxContent = 2
    MaxChanges = 2
    Runs = {"x1"}
    MaxStreams = 1
    StreamMix <- MCStreamMix
    Host = {"i1", "i2"}
    Overlap = 2
    NoToken = NoToken
    SweepTTL = 2
    MaxTroubles = 2
INVARIANTS
    FlowTypeOK
    ReplayedOnce
    ResolvedWasSent
    LoggedWasSent
    SweptClean
    
    SlotsExact
    SlotsHeld
    SweepsApart
PROPERTIES
    SlotsReturned
    SweepsGoOn
\* The requests are all served in the end.
CHECK_DEADLOCK FALSE
