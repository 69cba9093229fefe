---------------------------- MODULE StalledSweeper ----------------------------
(***************************************************************************)
(* sweepStalledExports, run by the API on a timer: list the RUNNING jobs   *)
(* whose heartbeat is older than a cutoff, then mark each of them with an  *)
(* update that repeats the condition against the same cutoff.              *)
(***************************************************************************)
EXTENDS ExportState

(* findMany: the cutoff is fixed here, so the row is "listed" against it.   *)
(* The message of the error is made of the row as it is now.               *)
ListStalled ==
    /\ ~sweeping.listed
    /\ job.status = "RUNNING"
    /\ HeartbeatExpired
    /\ sweeping' = [listed |-> TRUE, exportedRowCount |-> job.exportedRowCount]
    /\ job' = [job EXCEPT !.heartbeat = "listed"]
    /\ UNCHANGED <<snapshotMaxId, checkpoints, verification, storageVars, recordVars, queue,
                   worker, request, faults>>

(* Faulty variant: the update repeats the status but not the cutoff.        *)
StillRunning == job.status = "RUNNING"

(* Faulty variant: the comparison with the cutoff is the wrong way round.   *)
StillFresh == job.status = "RUNNING" /\ job.heartbeat = "fresh"

(* The where clause of the guarded update.                                  *)
StillStalled == job.status = "RUNNING" /\ job.heartbeat = "listed"

MarkInterrupted ==
    /\ sweeping.listed
    /\ sweeping' = NoSweep
    /\ job' = IF StillStalled THEN WithStatus("INTERRUPTED") ELSE job
    /\ UNCHANGED <<snapshotMaxId, checkpoints, verification, storageVars, recordVars, queue,
                   worker, request, faults>>

(* The sweep throws, or the API restarts, between its two statements.       *)
SweepAborts ==
    /\ CanFail("abort")
    /\ sweeping.listed
    /\ sweeping' = NoSweep
    /\ Spend("abort")
    /\ UNCHANGED <<jobVars, storageVars, recordVars, queue, worker, request>>

SweepStep == ListStalled \/ MarkInterrupted
=============================================================================
