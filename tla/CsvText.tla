------------------------------- MODULE CsvText -------------------------------
(***************************************************************************)
(* The text of an exported file: the writer (utils/csv.ts), the parser of  *)
(* the server's audit (csv-parse, external) and the parser of the script   *)
(* that audits a download (scripts/auditLiveExport.mjs).  A text is a      *)
(* sequence of characters.  A row has two of its nine columns here: the id *)
(* and one column of free text, the one hostileName fills.                 *)
(***************************************************************************)
EXTENDS Sequences, Naturals, FiniteSets, SequencesExt

Quote == "\""
Comma == ","
LF    == "\n"
CR    == "\r"

CSV_COLUMNS == << <<"i">>, <<"n">> >>

-----------------------------------------------------------------------------
Doubled(str) ==
    FlattenSeq([i \in DOMAIN str |-> IF str[i] = Quote THEN <<Quote, Quote>> ELSE <<str[i]>>])

(* Faulty variant: a line break inside a field is not a reason to quote it. *)
EscapeOnOneLine(str) ==
    IF ToSet(str) \cap {Quote, Comma} = {}
    THEN str
    ELSE <<Quote>> \o Doubled(str) \o <<Quote>>

(* null and the empty string are both the empty field.                      *)
EscapeCsvField(str) ==
    IF ToSet(str) \cap {Quote, Comma, CR, LF} = {}
    THEN str
    ELSE <<Quote>> \o Doubled(str) \o <<Quote>>

Joined(fields) ==
    FlattenSeq([i \in DOMAIN fields |-> (IF i = 1 THEN <<>> ELSE <<Comma>>) \o fields[i]])

SerializeCsvRow(row) == Joined([i \in DOMAIN row |-> EscapeCsvField(row[i])])

SerializeCsvChunk(rows) == FlattenSeq([i \in DOMAIN rows |-> SerializeCsvRow(rows[i]) \o <<LF>>])

CsvHeader(columns) == Joined(columns) \o <<LF>>

(* Rows below header lines (one, if all is well).                           *)
CsvFile(headers, rows) ==
    FlattenSeq([i \in DOMAIN headers |-> CsvHeader(headers[i])]) \o SerializeCsvChunk(rows)

-----------------------------------------------------------------------------
(* A parser half way: the rows it has read, the row and the field it reads, *)
(* and where in the field it is.                                            *)
StartOfText == [rows |-> <<>>, row |-> <<>>, field |-> <<>>, mode |-> "start"]

Keep(p, char, mode) == [p EXCEPT !.field = Append(@, char), !.mode = mode]
EndField(p)  == [rows |-> p.rows, row |-> Append(p.row, p.field),
                 field |-> <<>>, mode |-> "start"]
EndRecord(p) == [StartOfText EXCEPT !.rows = Append(p.rows, EndField(p).row)]
LastRecord(p) == IF p.field # <<>> \/ p.row # <<>> THEN EndRecord(p) ELSE p

InQuotes(p, char) == IF char = Quote THEN [p EXCEPT !.mode = "closing"]
                                     ELSE Keep(p, char, "quoted")

(* parseCsv of the script accepts every text.  Its look at the next         *)
(* character after a quote is the mode "closing".                           *)
ScriptChar(p, char) ==
    CASE p.mode = "quoted" -> InQuotes(p, char)
      [] p.mode # "quoted" /\ char = Quote -> IF p.mode = "closing"
                                              THEN Keep(p, Quote, "quoted")
                                              ELSE [p EXCEPT !.mode = "quoted"]
      [] p.mode # "quoted" /\ char = Comma -> EndField(p)
      [] p.mode # "quoted" /\ char = LF    -> EndRecord(p)
      [] OTHER -> IF char = CR THEN [p EXCEPT !.mode = "plain"] ELSE Keep(p, char, "plain")

(* csv-parse refuses a quote inside an unquoted field, text after a closing *)
(* quote, a quotation without end and a row of another width than the first. *)
CsvParseChar(p, char) ==
    CASE p.mode = "error"  -> p
      [] p.mode = "quoted" -> InQuotes(p, char)
      [] p.mode \in {"start", "plain", "closing"} /\ char = Comma -> EndField(p)
      [] p.mode \in {"start", "plain", "closing"} /\ char = LF    -> EndRecord(p)
      [] p.mode = "start"   /\ char = Quote -> [p EXCEPT !.mode = "quoted"]
      [] p.mode = "closing" /\ char = Quote -> Keep(p, Quote, "quoted")
      [] p.mode \in {"start", "plain"} /\ char \notin {Quote, Comma, LF} -> Keep(p, char, "plain")
      [] OTHER -> [p EXCEPT !.mode = "error"]

NextChar(parser, p, char) == IF parser = "script" THEN ScriptChar(p, char)
                                                  ELSE CsvParseChar(p, char)

(* Both parsers take a text character by character.                         *)
Read(parser, p, text) ==
    LET read[n \in 0..Len(text)] ==
            IF n = 0 THEN p ELSE NextChar(parser, read[n - 1], text[n])
    IN  read[Len(text)]

ParseCsv(text) == LastRecord(Read("script", StartOfText, text)).rows

CsvParse(text) ==
    LET p == Read("csv-parse", StartOfText, text)
        q == LastRecord(p)
    IN  [rows   |-> q.rows,
         failed |-> \/ p.mode \in {"quoted", "error"}
                    \/ \E i \in DOMAIN q.rows : Len(q.rows[i]) # Len(q.rows[1])]
=============================================================================
