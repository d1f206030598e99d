SPECIFICATION Spec
CONSTANTS
    User = {"u1", "u2"}
    Org = {"o1", "o2"}
    Initial <- OwnerAndMember
    Event = {1}
    Poller = {p1}
    MaxAttempts = 2
    MaxFaults = 0
INVARIANTS
    OnlyGranted
CHECK_DEADLOCK FALSE
