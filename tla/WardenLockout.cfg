SPECIFICATION FairSpec
CONSTANTS
    User = {"u1", "u2"}
    Org = {"o1"}
    Initial <- OwnerAndMember
    Event = {1}
    Poller = {p1}
    MaxAttempts = 2
    MaxFaults = 2
PROPERTIES
    NeverLockedOut
CHECK_DEADLOCK FALSE
