SPECIFICATION Spec
CONSTANTS
    Workers = {w1, w2}
    NoWorker = NoWorker
    Creator = creator
    Requests = {r1}
    RequestKinds = {"resume"}
    RequestedRowLimit = 3
    BatchSize = 2
    InitialRecords = 1
    MaxRecordId = 4
    Attempts = 2
    MaxStalledCount = 1
    FaultBudget <- RestartCrashLate
SYMMETRY Symmetry
VIEW WithoutMessage
INVARIANTS
    DurableProgress
    LogIsSound
    EnoughInv
    DurableInv
CHECK_DEADLOCK FALSE
