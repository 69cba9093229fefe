SPECIFICATION Spec
CONSTANTS
    Workers = {w1, w2}
    NoWorker = NoWorker
    Creator = creator
    Requests = {r1}
    RequestKinds = {"resume", "cancel"}
    RequestedRowLimit = 3
    BatchSize = 2
    InitialRecords = 5
    MaxRecordId = 5
    Attempts = 2
    MaxStalledCount = 1
    FaultBudget <- LockLossAndError
SYMMETRY Symmetry
VIEW WithoutMessage
INVARIANTS
    CursorsAreLogged
    ProgressIsLogged
    CompletedFileIsExact
    ExactInv
PROPERTIES
    ImplementsLog
    MovesAreShown
CHECK_DEADLOCK FALSE
