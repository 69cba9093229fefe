SPECIFICATION Spec
CONSTANTS
    Workers = {w1}
    NoWorker = NoWorker
    Creator = creator
    Requests = {r1, r2}
    RequestKinds = {"resume", "cancel"}
    RequestedRowLimit = 3
    BatchSize = 2
    InitialRecords = 3
    MaxRecordId = 3
    Attempts = 2
    MaxStalledCount = 1
    FaultBudget <- NoFaults
PROPERTIES
    CancelledIsFinal
CHECK_DEADLOCK FALSE
