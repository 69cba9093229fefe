SPECIFICATION FairSpec
CONSTANTS
    Workers = {w1}
    NoWorker = NoWorker
    Creator = creator
    Requests = {r1}
    RequestKinds = {"resume"}
    RequestedRowLimit = 3
    BatchSize = 2
    InitialRecords = 3
    MaxRecordId = 3
    Attempts = 2
    MaxStalledCount = 1
    FaultBudget <- NoFaults
PROPERTIES
    ResumeIsServed
CHECK_DEADLOCK FALSE
