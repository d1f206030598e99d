SPECIFICATION Spec
CONSTANTS
    User = {"u1", "u2"}
    Org = {"o1"}
    Initial <- OwnerAndMember
    Event = {1, 2}
    Poller = {p1}
    MaxAttempts = 2
    MaxFaults = 1
INVARIANTS
    TypeOK
    SyncedWhenSettled
CHECK_DEADLOCK FALSE
