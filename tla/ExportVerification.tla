-------------------------- MODULE ExportVerification --------------------------
(***************************************************************************)
(* verifyExportFile: the audit that reads the assembled CSV back.  A line  *)
(* is <<batch number, record id>>: lines are ordered by batch, and by id   *)
(* within a batch, which one ORDER BY id query produced.                   *)
(* The audit reads first and records its verdict later: worker and request *)
(* keep it in `verdict` in between.                                        *)
(***************************************************************************)
EXTENDS ExportState

ActualRows(file) == Cardinality(file)
UniqueRows(file) == Cardinality({line[2] : line \in file})
StrictlyAscending(file) == \A l, m \in file : l[1] < m[1] => l[2] < m[2]

Passed(file) ==
    /\ ActualRows(file) = RequestedRowLimit
    /\ UniqueRows(file) = RequestedRowLimit
    /\ \A line \in file : line[2] <= snapshotMaxId
    /\ StrictlyAscending(file)

VerdictValue == {"none", "passed", "failed"}

Verdict(file) == IF Passed(file) THEN "passed" ELSE "failed"

(* getExportDownload hands out a URL for the final file.                    *)
DownloadAllowed == /\ job.status = "COMPLETED"
                   /\ job.fileKey
                   /\ verification = "passed"
=============================================================================
