--------------------------- MODULE VerificationScan ---------------------------
(***************************************************************************)
(* verifyExportFile row by row: the counters of the loop over the rows of  *)
(* csv-parse, the problems they amount to and the row of                   *)
(* export_verifications they are written to.  ExportVerification takes the *)
(* verdict in one step; this module is what that step consists of.         *)
(***************************************************************************)
EXTENDS Naturals, Sequences, FiniteSets

CONSTANTS
    Header,         \* CSV_COLUMNS
    ExpectedRows,   \* requestedRowLimit of the job
    SnapshotMaxId,
    NotANumber,     \* what BigInt makes of an id that is no number: it throws
    NoReport,       \* no row in export_verifications yet
    Texts,          \* texts a field may hold
    IdValue(_),     \* BigInt
    Files           \* files the audit may meet: their rows, and if csv-parse fails on them

ASSUME ScanAssumption ==
    /\ Len(Header) \in Nat \ {0}
    /\ ExpectedRows \in Nat \ {0}
    /\ SnapshotMaxId \in Nat
    /\ NotANumber \notin Nat
    /\ \A text \in Texts : IdValue(text) \in Nat \cup {NotANumber}
    /\ \A file \in Files : file.rows \in Seq(Seq(Texts) \ {<<>>})

VARIABLES
    file, pc, fileBytes, rowIndex,
    seenIds, actualRows, duplicates, outOfSnapshot, headerValid,
    strictlyAscending, previousId, minId, maxId, malformedRows,
    report

counters == <<seenIds, actualRows, duplicates, outOfSnapshot, strictlyAscending,
              previousId, minId, maxId, malformedRows>>
vars == <<file, pc, fileBytes, rowIndex, headerValid, counters, report>>

(* Faulty variant: counters that are not declared inside the function.      *)
ResetCountersPartly ==
    /\ seenIds' = {}
    /\ actualRows' = 0 /\ outOfSnapshot' = 0 /\ malformedRows' = 0
    /\ strictlyAscending' = TRUE
    /\ previousId' = NotANumber /\ minId' = NotANumber /\ maxId' = NotANumber
    /\ UNCHANGED duplicates

ResetCounters ==
    /\ seenIds' = {}
    /\ actualRows' = 0 /\ duplicates' = 0 /\ outOfSnapshot' = 0 /\ malformedRows' = 0
    /\ strictlyAscending' = TRUE
    /\ previousId' = NotANumber /\ minId' = NotANumber /\ maxId' = NotANumber

(* headObject tells the size; an empty file has no bytes.                   *)
HeadObject ==
    /\ pc = "idle"
    /\ pc' = "header"
    /\ fileBytes' = Len(file.rows)
    /\ rowIndex' = 0
    /\ headerValid' = FALSE
    /\ ResetCounters
    /\ UNCHANGED <<file, report>>

ReadHeader ==
    /\ pc = "header"
    /\ file.rows # <<>>
    /\ headerValid' = (file.rows[1] = Header)
    /\ rowIndex' = 1
    /\ pc' = "rows"
    /\ UNCHANGED <<file, fileBytes, counters, report>>

Row == file.rows[rowIndex + 1]
RowsLeft == rowIndex < Len(file.rows)

SkipMalformed ==
    /\ pc = "rows" /\ RowsLeft
    /\ Len(Row) # Len(Header)
    /\ malformedRows' = malformedRows + 1
    /\ rowIndex' = rowIndex + 1
    /\ UNCHANGED <<file, pc, fileBytes, headerValid, seenIds, actualRows, duplicates,
                   outOfSnapshot, strictlyAscending, previousId, minId, maxId, report>>

CountRow ==
    /\ pc = "rows" /\ RowsLeft
    /\ Len(Row) = Len(Header)
    /\ actualRows' = actualRows + 1
    /\ duplicates' = duplicates + (IF Row[1] \in seenIds THEN 1 ELSE 0)
    /\ seenIds' = seenIds \cup {Row[1]}
    /\ rowIndex' = rowIndex + 1
    /\ UNCHANGED <<file, pc, fileBytes, headerValid, report>>

CountNonNumeric ==
    /\ CountRow
    /\ IdValue(Row[1]) = NotANumber
    /\ malformedRows' = malformedRows + 1
    /\ UNCHANGED <<outOfSnapshot, strictlyAscending, previousId, minId, maxId>>

(* Faulty variant: a later pair in order makes up for one out of order.     *)
CountNumericLatestPair ==
    /\ CountRow
    /\ LET id == IdValue(Row[1])
       IN  /\ id # NotANumber
           /\ outOfSnapshot' = outOfSnapshot + (IF id > SnapshotMaxId THEN 1 ELSE 0)
           /\ strictlyAscending' = (previousId = NotANumber \/ previousId < id)
           /\ previousId' = id
           /\ minId' = IF minId = NotANumber \/ id < minId THEN id ELSE minId
           /\ maxId' = IF maxId = NotANumber \/ id > maxId THEN id ELSE maxId
    /\ UNCHANGED malformedRows

CountNumeric ==
    /\ CountRow
    /\ LET id == IdValue(Row[1])
       IN  /\ id # NotANumber
           /\ outOfSnapshot' = outOfSnapshot + (IF id > SnapshotMaxId THEN 1 ELSE 0)
           /\ strictlyAscending' = (strictlyAscending
                                       /\ (previousId = NotANumber \/ previousId < id))
           /\ previousId' = id
           /\ minId' = IF minId = NotANumber \/ id < minId THEN id ELSE minId
           /\ maxId' = IF maxId = NotANumber \/ id > maxId THEN id ELSE maxId
    /\ UNCHANGED malformedRows

(* Faulty variant: malformed rows are logged but are no problem.            *)
NoProblemsButMalformed ==
    /\ headerValid
    /\ actualRows = ExpectedRows
    /\ Cardinality(seenIds) = ExpectedRows
    /\ duplicates = 0 /\ outOfSnapshot = 0 /\ strictlyAscending
    /\ fileBytes > 0

(* No entry in the list of problems.                                        *)
NoProblems ==
    /\ headerValid
    /\ actualRows = ExpectedRows
    /\ Cardinality(seenIds) = ExpectedRows
    /\ duplicates = 0
    /\ outOfSnapshot = 0
    /\ strictlyAscending
    /\ malformedRows = 0
    /\ fileBytes > 0

(* The stream ends, and the row of export_verifications is created.         *)
StreamEnds ==
    /\ pc \in {"header", "rows"}
    /\ ~RowsLeft
    /\ ~file.failed
    /\ report' = [passed |-> NoProblems, actualRows |-> actualRows,
                  uniqueRows |-> Cardinality(seenIds), duplicates |-> duplicates,
                  outOfSnapshot |-> outOfSnapshot, minId |-> minId, maxId |-> maxId]
    /\ pc' = "idle"
    /\ UNCHANGED <<file, fileBytes, rowIndex, headerValid, counters>>

(* An error of the parser, at the latest when its rows are used up, or of   *)
(* the body rejects the promise: verifyExportFile throws and records nothing. *)
StreamFails ==
    /\ pc \in {"header", "rows"}
    /\ pc' = "idle"
    /\ UNCHANGED <<file, fileBytes, rowIndex, headerValid, counters, report>>

-----------------------------------------------------------------------------
Init ==
    /\ file \in Files
    /\ pc = "idle"
    /\ fileBytes = 0 /\ rowIndex = 0
    /\ headerValid = FALSE
    /\ seenIds = {}
    /\ actualRows = 0 /\ duplicates = 0 /\ outOfSnapshot = 0 /\ malformedRows = 0
    /\ strictlyAscending = TRUE
    /\ previousId = NotANumber /\ minId = NotANumber /\ maxId = NotANumber
    /\ report = NoReport

Next == \/ HeadObject \/ ReadHeader
        \/ SkipMalformed \/ CountNonNumeric \/ CountNumeric
        \/ StreamEnds \/ StreamFails

Spec == Init /\ [][Next]_vars

-----------------------------------------------------------------------------
(* Types, and the books balance: every data row read is a new id, a repeated *)
(* one or malformed.                                                         *)
ScanTypeOK ==
    /\ pc \in {"idle", "header", "rows"}
    /\ fileBytes \in Nat /\ rowIndex \in 0..Len(file.rows)
    /\ headerValid \in BOOLEAN /\ strictlyAscending \in BOOLEAN
    /\ seenIds \subseteq Texts
    /\ actualRows \in Nat /\ duplicates \in Nat
    /\ outOfSnapshot \in Nat /\ malformedRows \in Nat
    /\ {previousId, minId, maxId} \subseteq Nat \cup {NotANumber}
    /\ actualRows = Cardinality(seenIds) + duplicates

(* The strengthening behind the refinement below: at every row, the counters *)
(* are what the rows read so far amount to.                                  *)
IdOf(i)     == IdValue(file.rows[i][1])
DataRead    == {i \in 2..rowIndex : Len(file.rows[i]) = Len(Header)}
NumericRead == {i \in DataRead : IdOf(i) # NotANumber}

RowsAreCounted ==
    /\ actualRows = Cardinality(DataRead)
    /\ seenIds = {file.rows[i][1] : i \in DataRead}
    /\ outOfSnapshot = Cardinality({i \in NumericRead : IdOf(i) > SnapshotMaxId})
    /\ malformedRows = 0 <=> NumericRead = 2..rowIndex

IdsAreOrdered ==
    /\ strictlyAscending <=> \A i, j \in NumericRead : i < j => IdOf(i) < IdOf(j)
    /\ strictlyAscending /\ malformedRows = 0 => duplicates = 0

IdsAreBounded ==
    IF NumericRead = {}
    THEN previousId = NotANumber /\ minId = NotANumber /\ maxId = NotANumber
    ELSE /\ \E i \in NumericRead : previousId = IdOf(i) /\ \A j \in NumericRead : j <= i
         /\ \E i \in NumericRead : minId = IdOf(i) /\ \A j \in NumericRead : minId <= IdOf(j)
         /\ \E i \in NumericRead : maxId = IdOf(i) /\ \A j \in NumericRead : IdOf(j) <= maxId

ScanBegan ==
    /\ pc # "idle" => fileBytes = Len(file.rows)
    /\ pc = "header" => rowIndex = 0
    /\ pc = "rows" => rowIndex > 0 /\ headerValid = (file.rows[1] = Header)

ScanInv == /\ ScanTypeOK
           /\ IsFiniteSet(seenIds)
           /\ RowsAreCounted /\ IdsAreOrdered /\ IdsAreBounded /\ ScanBegan

(* The loop comes to the report that the file as a whole deserves, each time *)
(* it is run to its end.                                                     *)
Audit == INSTANCE FileAudit WITH rows <- file.rows
ImplementsAudit == Audit!Spec
=============================================================================
