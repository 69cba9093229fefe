SPECIFICATION Spec
CONSTANTS
    Workers = {w1, w2}
    NoWorker = NoWorker
    Creator = creator
    Requests = {r1}
    RequestKinds = {"resume", "cancel", "verify"}
    RequestedRowLimit = 3
    BatchSize = 2
    InitialRecords = 4
    MaxRecordId = 5
    Attempts = 2
    MaxStalledCount = 1
    FaultBudget <- DeleteErrorAbort
SYMMETRY Symmetry
VIEW WithoutMessage
INVARIANTS
    ProgressInv
    CompletedMeansVerified
    NothingSkipped
    FileInv
    CoverInv
    AbandonedIsResumable
    OutcomeInv
CHECK_DEADLOCK FALSE
