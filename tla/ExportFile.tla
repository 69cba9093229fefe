------------------------------ MODULE ExportFile ------------------------------
(***************************************************************************)
(* The text of a file between its writer and its two auditors: the         *)
(* server's, which streams it, and scripts/auditLiveExport.mjs, which      *)
(* downloads it and shares no code with the server.                        *)
(***************************************************************************)
EXTENDS VerificationScan, CsvText

(* Number, with which the script reads an id, times two: of the fractions    *)
(* that BigInt refuses, halves are enough.                                  *)
CONSTANT NumberTwice(_)

(* Where BigInt reads an id, Number reads the same; that is so up to 2^53,   *)
(* beyond which Number rounds.  Where BigInt throws, Number is NaN ("x") or  *)
(* an ordinary number ("1.0").                                               *)
ASSUME NumberAssumption ==
    \A text \in Texts :
        /\ NumberTwice(text) \in Nat \cup {NotANumber}
        /\ IdValue(text) # NotANumber => NumberTwice(text) = 2 * IdValue(text)

(* The two on the texts of the runs: a digit, a digit with one decimal, or   *)
(* the empty text, which is 0.                                               *)
Numerals == <<"0", "1", "2", "3", "4">>
BigInt(text) ==
    IF text = <<>> THEN 0
    ELSE IF \E n \in DOMAIN Numerals : text = <<Numerals[n]>>
         THEN (CHOOSE n \in DOMAIN Numerals : text = <<Numerals[n]>>) - 1
         ELSE NotANumber

WithDecimal == {<<n, ".", d>> : n \in ToSet(Numerals), d \in {"0", "5"}}

TwiceNumber(text) ==
    CASE BigInt(text) # NotANumber -> 2 * BigInt(text)
      [] text \in WithDecimal      -> 2 * BigInt(<<text[1]>>) + (IF text[3] = "5" THEN 1 ELSE 0)
      [] OTHER                     -> NotANumber

(* A file, and what csv-parse makes of it.                                  *)
FileOf(headers, rows) ==
    LET text   == CsvFile(headers, rows)
        parsed == CsvParse(text)
    IN  [written |-> headers \o rows, text |-> text,
         rows |-> parsed.rows, failed |-> parsed.failed]

-----------------------------------------------------------------------------
(* The audit of the script.  An id that is NaN is in no order with another. *)
Ascends(id, next) == /\ id # NotANumber /\ next # NotANumber
                     /\ id < next

(* Rows that hold one empty field are left out, and the header is compared  *)
(* with its fields joined.                                                  *)
ScriptAccepts(text) ==
    LET rows     == ParseCsv(text)
        dataRows == {i \in 2..Len(rows) : Len(rows[i]) > 1 \/ rows[i][1] # <<>>}
        Id(i)    == NumberTwice(rows[i][1])
    IN  /\ rows # <<>> /\ Joined(rows[1]) = Joined(Header)
        /\ Cardinality(dataRows) = ExpectedRows
        /\ Cardinality({Id(i) : i \in dataRows}) = ExpectedRows
        /\ \A i \in dataRows : Len(rows[i]) = Len(Header)
        /\ \A i, j \in dataRows :
              i < j /\ (\A k \in dataRows : k <= i \/ j <= k) => Ascends(Id(i), Id(j))
        /\ \A i \in dataRows : Id(i) = NotANumber \/ Id(i) <= 2 * SnapshotMaxId

(* What is written is what is read: whatever a row holds, the rows of a file *)
(* come back from both parsers field by field; csv-parse refuses a file only *)
(* for rows of different widths.                                             *)
ReadBackAsWritten ==
    /\ file.rows = file.written
    /\ ParseCsv(file.text) = file.written
    /\ file.failed => \E i, j \in DOMAIN file.written :
                           Len(file.written[i]) # Len(file.written[j])

(* The auditors agree but for the writing of an id: the script accepts every *)
(* file the server passes, and what it accepts beyond those are files with   *)
(* an id that Number reads and BigInt does not, such as "1.0", or with one   *)
(* row, whose id it compares with none.                                      *)
IdsAreWhole(rows) == \A i \in 2..Len(rows) : IdValue(rows[i][1]) # NotANumber

AuditorsAgree ==
    report # NoReport =>
        (report.passed <=> ScriptAccepts(file.text) /\ IdsAreWhole(file.rows))
=============================================================================
