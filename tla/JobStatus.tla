------------------------------ MODULE JobStatus ------------------------------
(***************************************************************************)
(* The statuses of an export, and how they change while nobody asks for    *)
(* it.  The pipeline keeps to these moves, and the page of a client follows *)
(* them.                                                                   *)
(***************************************************************************)

ExportStatus == {"PENDING", "QUEUED", "RUNNING", "INTERRUPTED", "RESUMING",
                 "VERIFYING", "COMPLETED", "FAILED", "CANCELLED"}

(* A worker claims the job; the sweep takes a claim back; a run that claimed *)
(* it once writes what comes of it, whatever the status is by then: it may  *)
(* have been thought dead, resumed by a request or overtaken by another run. *)
JobMoves ==
    ({"PENDING", "QUEUED", "INTERRUPTED", "RESUMING", "FAILED"} \X {"RUNNING"})
        \cup {<<"RUNNING", "INTERRUPTED">>}
        \cup ((ExportStatus \ {"PENDING"}) \X {"VERIFYING", "COMPLETED", "FAILED", "CANCELLED"})
=============================================================================
