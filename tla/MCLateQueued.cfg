SPECIFICATION Spec
CONSTANTS
    Workers = {w1}
    NoWorker = NoWorker
    Creator = creator
    Requests = {}
    RequestKinds = {"resume"}
    RequestedRowLimit = 3
    BatchSize = 2
    InitialRecords = 3
    MaxRecordId = 3
    Attempts = 2
    MaxStalledCount = 1
    FaultBudget <- NoFaults
PROPERTIES
    CompletedIsFinal
CHECK_DEADLOCK FALSE
