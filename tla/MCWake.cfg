SPECIFICATION WakeSpec
CONSTANTS
    Jobs = {j1, j2}
    Enqueues = {e1, e2}
    NoWake = NoWake
    Concurrency = 1
    HostBudget <- EachFaultOnce
INVARIANTS
    WakeInv
    OneWakeInFlight
    NoStrandedJob
    JobsOnlyWhenVerified
PROPERTIES
    QueuedIsServed
CHECK_DEADLOCK FALSE
