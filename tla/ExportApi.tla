------------------------------ MODULE ExportApi ------------------------------
(***************************************************************************)
(* The request handlers of export.service.ts that change state, one action *)
(* per awaited call.  A handler decides on the row it read first; its      *)
(* later writes do not look at the row again.                              *)
(***************************************************************************)
EXTENDS RecordSource, ExportQueue, ExportVerification

RequestOp == {"none", "create", "resume", "cancel", "verify"}
RequestPc == {"idle", "snapshot", "create", "markResuming", "flag", "flagAndCancel",
              "inspect", "remove", "add", "markQueued", "scan", "record", "done"}

(* POST /api/exports: the boundary is captured first, ...                   *)
CaptureSnapshotMaxId ==
    /\ request[Creator].pc = "snapshot"
    /\ \E id \in records \cup {0} : IsMaxId(id) /\ snapshotMaxId' = id
    /\ Goto(Creator, "create")
    /\ UNCHANGED <<job, checkpoints, verification, storageVars, recordVars, queue, worker,
                   sweeping, faults>>

(* ... then the rows within it are counted and the row is created.          *)
CreateExportJob ==
    /\ request[Creator].pc = "create"
    /\ IF CountRecordsWithinSnapshot < RequestedRowLimit
       THEN Goto(Creator, "done") /\ UNCHANGED job
       ELSE Goto(Creator, "inspect") /\ job' = [NoJob EXCEPT !.status = "PENDING"]
    /\ UNCHANGED <<snapshotMaxId, checkpoints, verification, storageVars, recordVars, queue,
                   worker, sweeping, faults>>

(* After the enqueue the row becomes QUEUED, whatever it is by then.        *)
MarkQueued ==
    /\ request[Creator].pc = "markQueued"
    /\ job' = WithStatus("QUEUED")
    /\ Goto(Creator, "done")
    /\ UNCHANGED <<snapshotMaxId, checkpoints, verification, storageVars, recordVars, queue,
                   worker, sweeping, faults>>

-----------------------------------------------------------------------------
Begin(r, op, label) ==
    op \in RequestKinds /\ request' = [request EXCEPT ![r].op = op, ![r].pc = label]

(* Faulty variant: what looks queued cannot be resumed.                     *)
RESUMABLE_WHEN_DOWN == {"INTERRUPTED", "FAILED", "PENDING", "QUEUED"}

(* Faulty variant: a finished export may be resumed.                        *)
RESUMABLE_EVER == {"INTERRUPTED", "FAILED", "PENDING", "QUEUED", "RESUMING", "COMPLETED"}

RESUMABLE_FOR_USER == {"INTERRUPTED", "FAILED", "PENDING", "QUEUED", "RESUMING"}

ResumeRead(r) ==
    /\ request[r].pc = "idle"
    /\ job.status \in RESUMABLE_FOR_USER
    /\ Begin(r, "resume", "markResuming")
    /\ UNCHANGED <<jobVars, storageVars, recordVars, queue, worker, sweeping, faults>>

MarkResuming(r) ==
    /\ request[r].pc = "markResuming"
    /\ job' = [WithStatus("RESUMING") EXCEPT !.cancelRequested = FALSE]
    /\ Goto(r, "inspect")
    /\ UNCHANGED <<snapshotMaxId, checkpoints, verification, storageVars, recordVars, queue,
                   worker, sweeping, faults>>

CANCELLABLE == {"PENDING", "QUEUED", "RUNNING", "RESUMING", "INTERRUPTED"}

(* Only the flag is set on a job seen RUNNING; its worker will notice.      *)
CancelRead(r) ==
    /\ request[r].pc = "idle"
    /\ job.status \in CANCELLABLE
    /\ Begin(r, "cancel", IF job.status = "RUNNING" THEN "flag" ELSE "flagAndCancel")
    /\ UNCHANGED <<jobVars, storageVars, recordVars, queue, worker, sweeping, faults>>

CancelWrite(r) ==
    /\ request[r].pc \in {"flag", "flagAndCancel"}
    /\ job' = [job EXCEPT !.cancelRequested = TRUE,
                          !.heartbeat = "fresh",
                          !.status = IF request[r].pc = "flag" THEN @ ELSE "CANCELLED"]
    /\ Goto(r, "done")
    /\ UNCHANGED <<snapshotMaxId, checkpoints, verification, storageVars, recordVars, queue,
                   worker, sweeping, faults>>

(* verifyExportJobById: a job that has a file is audited again on request.  *)
VerifyRead(r) ==
    /\ request[r].pc = "idle"
    /\ job.fileKey
    /\ Begin(r, "verify", "scan")
    /\ UNCHANGED <<jobVars, storageVars, recordVars, queue, worker, sweeping, faults>>

VerifyScan(r) ==
    /\ request[r].pc = "scan"
    /\ request' = [request EXCEPT ![r].pc = "record", ![r].verdict = Verdict(finalFile)]
    /\ UNCHANGED <<jobVars, storageVars, recordVars, queue, worker, sweeping, faults>>

VerifyRecord(r) ==
    /\ request[r].pc = "record"
    /\ verification' = request[r].verdict
    /\ Goto(r, "done")
    /\ UNCHANGED <<job, snapshotMaxId, checkpoints, storageVars, recordVars, queue, worker,
                   sweeping, faults>>

(* A call of the handler fails, or the API process dies under it.           *)
RequestAborts(h) ==
    /\ CanFail("abort")
    /\ request[h].pc \notin {"idle", "done"}
    /\ Goto(h, "done")
    /\ Spend("abort")
    /\ UNCHANGED <<jobVars, storageVars, recordVars, queue, worker, sweeping>>

CreateStep == CaptureSnapshotMaxId \/ CreateExportJob \/ MarkQueued

(* The steps a handler that has begun still has to take.                    *)
HandlerStep(h) == \/ h = Creator /\ CreateStep
                  \/ /\ h \in Requests
                     /\ \/ MarkResuming(h) \/ CancelWrite(h)
                        \/ VerifyScan(h) \/ VerifyRecord(h)
                  \/ EnqueueStep(h)

RequestArrives(r) == ResumeRead(r) \/ CancelRead(r) \/ VerifyRead(r)
=============================================================================
