SPECIFICATION Spec
CONSTANTS
    Workers = {w1}
    NoWorker = NoWorker
    Creator = creator
    Requests = {}
    RequestKinds = {"resume"}
    RequestedRowLimit = 3
    BatchSize = 2
    InitialRecords = 2
    MaxRecordId = 4
    Attempts = 2
    MaxStalledCount = 1
    FaultBudget <- OneOpenInsert
INVARIANTS
    NothingSkipped
CHECK_DEADLOCK FALSE
