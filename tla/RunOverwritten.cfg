\* Two API triggers: the catch block of an API trigger is not guarded.
SPECIFICATION Spec
CONSTANTS
    Trigger = {t1, t2}
    Kinds = {"api"}
PROPERTIES
    CompletedNeverFailed
CHECK_DEADLOCK FALSE
