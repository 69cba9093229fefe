----------------------------- MODULE CheckpointLog -----------------------------
(***************************************************************************)
(* What an export promises about its progress, whoever runs it and however *)
(* often it is interrupted: a log of pages that only grows at its end,     *)
(* within the boundary that was captured before its first page and within  *)
(* the number of rows asked for; and an export counts as completed only    *)
(* once its log holds exactly that number of rows.                         *)
(***************************************************************************)
EXTENDS Naturals, FiniteSets

CONSTANTS RequestedRowLimit, BatchSize

VARIABLES
    log,        \* the pages exported so far
    boundary,   \* the highest record id the export may contain
    completed   \* the export is reported as completed

TotalRows ==
    Cardinality({row \in log \X (1 .. BatchSize) : row[2] <= row[1].rowsWritten})

Init == log = {} /\ boundary = 0 /\ completed = FALSE

CaptureBoundary ==
    /\ log = {}
    /\ boundary' \in Nat
    /\ UNCHANGED <<log, completed>>

AppendPage ==
    \E batch \in {1} \cup {page.batchNumber + 1 : page \in log},
       last \in 1 .. boundary,
       rows \in 1 .. BatchSize :
       /\ \A page \in log : page.batchNumber < batch /\ page.lastRecordId < last
       /\ TotalRows + rows <= RequestedRowLimit
       /\ log' = log \cup {[batchNumber  |-> batch,
                            lastRecordId |-> last,
                            rowsWritten  |-> rows]}
       /\ UNCHANGED <<boundary, completed>>

Complete ==
    /\ TotalRows = RequestedRowLimit
    /\ completed' = TRUE
    /\ UNCHANGED <<log, boundary>>

(* The report may be taken back: the run that wrote it can still fail.      *)
TakeBack ==
    /\ completed' = FALSE
    /\ UNCHANGED <<log, boundary>>

Next == CaptureBoundary \/ TakeBack \/ Complete \/ AppendPage

Spec == Init /\ [][Next]_<<log, boundary, completed>>
=============================================================================
