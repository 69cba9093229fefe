------------------------------ MODULE FileAudit ------------------------------
(***************************************************************************)
(* What verifyExportFile promises, without the stream: the audit of a file *)
(* is one step that compares its rows with what was asked for.  A file     *)
(* that does not change gets the same report every time.                   *)
(***************************************************************************)
EXTENDS Naturals, Sequences, FiniteSets, FiniteSetsExt

CONSTANTS Header, ExpectedRows, SnapshotMaxId, NoReport, NotANumber, IdValue(_)

VARIABLES rows,   \* the rows of the file, its first line included
          report  \* the latest row of export_verifications

Data(r)   == {i \in 2..Len(r) : Len(r[i]) = Len(Header)}
Value(r, i)   == IdValue(r[i][1])
Numeric(r) == {i \in Data(r) : Value(r, i) # NotANumber}
IdTexts(r) == {r[i][1] : i \in Data(r)}
IdValues(r) == {Value(r, i) : i \in Numeric(r)}

(* The file the user asked for: ExpectedRows rows, every one complete, with *)
(* ids of the snapshot that only go up.                                     *)
IsExact(r) ==
    /\ r # <<>> /\ r[1] = Header
    /\ Len(r) = ExpectedRows + 1
    /\ Numeric(r) = 2..Len(r)
    /\ \A i \in 2..Len(r) : Value(r, i) <= SnapshotMaxId
    /\ \A i, j \in 2..Len(r) : i < j => Value(r, i) < Value(r, j)

ReportOf(r) ==
    [passed        |-> IsExact(r),
     actualRows    |-> Cardinality(Data(r)),
     uniqueRows    |-> Cardinality(IdTexts(r)),
     duplicates    |-> Cardinality(Data(r)) - Cardinality(IdTexts(r)),
     outOfSnapshot |-> Cardinality({i \in Numeric(r) : Value(r, i) > SnapshotMaxId}),
     minId         |-> IF IdValues(r) = {} THEN NotANumber ELSE Min(IdValues(r)),
     maxId         |-> IF IdValues(r) = {} THEN NotANumber ELSE Max(IdValues(r))]

Init == report = NoReport
Next == report' = ReportOf(rows) /\ UNCHANGED rows
Spec == Init /\ [][Next]_<<rows, report>>
=============================================================================
