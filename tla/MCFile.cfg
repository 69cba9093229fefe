SPECIFICATION Spec
CONSTANTS
    Header <- CSV_COLUMNS
    ExpectedRows = 3
    SnapshotMaxId = 3
    NotANumber = NotANumber
    NoReport = NoReport
    Texts <- AllTexts
    IdValue <- BigInt
    NumberTwice <- TwiceNumber
    Files <- MCFiles
    MaxRows = 3
INVARIANTS
    ScanInv
    ReadBackAsWritten
    AuditorsAgree
PROPERTIES
    ImplementsAudit
CHECK_DEADLOCK FALSE
