\* Two polling ticks: the "running" update of a poller is not guarded.
SPECIFICATION Spec
CONSTANTS
    Trigger = {t1, t2}
    Kinds = {"polling"}
PROPERTIES
    NeverReopened
CHECK_DEADLOCK FALSE
