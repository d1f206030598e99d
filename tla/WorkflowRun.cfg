\* Two trigger invocations of any kind: a retry needs the other to have failed.
\* Finitely many triggers, so a behaviour may end.
SPECIFICATION FairSpec
CONSTANTS
    Trigger = {t1, t2}
    Kinds = {"api", "webhook", "cron", "polling", "retry", "event"}
INVARIANTS
    TypeOK
    AcceptedBeforeRunning
    CompletedAtMatchesStatus
    NoOrphanRun
PROPERTIES
    OutcomeKept
    ImplementsLedger
    EventuallySettled
CHECK_DEADLOCK FALSE
