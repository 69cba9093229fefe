SPECIFICATION FairSpec
CONSTANTS
    Workers = {w1, w2}
    NoWorker = NoWorker
    Creator = creator
    Requests = {r1}
    RequestKinds = {"resume", "cancel"}
    RequestedRowLimit = 3
    BatchSize = 2
    InitialRecords = 3
    MaxRecordId = 3
    Attempts = 2
    MaxStalledCount = 1
    FaultBudget <- CrashAndError
INVARIANTS
    TypeOK
    AtMostOneRun
PROPERTIES
    DeadRunIsNoticed
    RetryIsServed
    ExportIsDelivered
    InterruptedAsListed
    FinishedStaysFinished
CHECK_DEADLOCK FALSE
