----------------------------- MODULE ExportWorker -----------------------------
(***************************************************************************)
(* runExportJob, one action per awaited statement: what a worker does with *)
(* the job between the call of the BullMQ processor and its return.        *)
(* Any number of workers may be inside it at once; each knows only what it *)
(* has read, kept in its record of `worker`.                               *)
(***************************************************************************)
EXTENDS RecordSource, ExportQueue, ExportVerification

Advance(w, label) == worker' = [worker EXCEPT ![w].pc = label]

(* Label groups: before the try block, inside it, and in its catch.         *)
BeforeTry == {"read", "cancelEarly", "claim", "start"}
InTry == {"load", "reconcile", "cancelCheck", "cancelWrite", "cancelCleanup", "fetch", "put",
          "checkpoint", "finalCheck", "setVerifying", "assemble", "assemblyFailed",
          "verify", "recordVerdict", "keepRejected", "complete", "cleanup", "failReturn"}
WorkerPc == {"idle", "failThrow", "returned", "threw"} \cup BeforeTry \cup InTry

-----------------------------------------------------------------------------
(* Read the row; a finished, cancelled or missing job is skipped.           *)
ReadJob(w) ==
    /\ worker[w].pc = "read"
    /\ Advance(w, CASE job.status \in {"ABSENT", "COMPLETED", "CANCELLED"} -> "returned"
                    [] OTHER -> IF job.cancelRequested THEN "cancelEarly" ELSE "claim")
    /\ UNCHANGED <<jobVars, storageVars, recordVars, queue, request, sweeping, faults>>

CancelBeforeStart(w) ==
    /\ worker[w].pc = "cancelEarly"
    /\ job' = WithStatus("CANCELLED")
    /\ Advance(w, "returned")
    /\ UNCHANGED <<snapshotMaxId, checkpoints, verification, storageVars, recordVars,
                   queue, request, sweeping, faults>>

(* Faulty variant: a run that failed may not be claimed again.              *)
RESUMABLE_WITHOUT_FAILED == {"PENDING", "QUEUED", "INTERRUPTED", "RESUMING"}

(* Faulty variant: create is expected to have written QUEUED by then.       *)
RESUMABLE_WITHOUT_PENDING == {"QUEUED", "INTERRUPTED", "RESUMING", "FAILED"}

RESUMABLE_STATUSES == {"PENDING", "QUEUED", "INTERRUPTED", "RESUMING", "FAILED"}

(* Faulty variant: the claim relies on the status that was read.            *)
ClaimedUnseen == job.status # "COMPLETED"

Claimable ==
    \/ job.status \in RESUMABLE_STATUSES
    \/ job.status = "RUNNING" /\ HeartbeatExpired

(* claimJob: one conditional update decides; the first claim of a job is    *)
(* followed by a second update that sets started_at.                        *)
ClaimJob(w) ==
    /\ worker[w].pc = "claim"
    /\ IF Claimable
       THEN job' = WithStatus("RUNNING") /\ Advance(w, "start")
       ELSE Advance(w, "returned") /\ UNCHANGED job
    /\ UNCHANGED <<snapshotMaxId, checkpoints, verification, storageVars, recordVars,
                   queue, request, sweeping, faults>>

SetStartedAt(w) ==
    /\ worker[w].pc = "start"
    /\ job' = IF job.startedAt
              THEN job
              ELSE [job EXCEPT !.startedAt = TRUE, !.heartbeat = "fresh"]
    /\ Advance(w, "load")
    /\ UNCHANGED <<snapshotMaxId, checkpoints, verification, storageVars, recordVars,
                   queue, request, sweeping, faults>>

-----------------------------------------------------------------------------
(* loadResumeState: derive the position from the checkpoint log.            *)
ResumeAt(w, next, lastId, rows) ==
    worker' = [worker EXCEPT ![w].pc = "reconcile",
                             ![w].batchNumber = next,
                             ![w].lastExportedId = lastId,
                             ![w].exportedRowCount = rows]

(* Faulty variant: resume from the denormalised copy in the job row.        *)
LoadResumeStateFromJob(w) ==
    /\ worker[w].pc = "load"
    /\ \/ checkpoints = {} /\ ResumeAt(w, 1, 0, 0)
       \/ \E last \in checkpoints :
             /\ IsLast(last, checkpoints)
             /\ ResumeAt(w, last.batchNumber + 1, job.lastExportedId, job.exportedRowCount)
    /\ UNCHANGED <<jobVars, storageVars, recordVars, queue, request, sweeping, faults>>

LoadResumeState(w) ==
    /\ worker[w].pc = "load"
    /\ \/ checkpoints = {} /\ ResumeAt(w, 1, 0, 0)
       \/ checkpoints # {} /\ LogIsRefused(checkpoints) /\ Advance(w, "failThrow")
       \/ /\ ~LogIsRefused(checkpoints)
          /\ \E last \in checkpoints :
                /\ IsLast(last, checkpoints)
                /\ ResumeAt(w, last.batchNumber + 1, last.lastRecordId,
                            RowsWritten(checkpoints))
    /\ UNCHANGED <<jobVars, storageVars, recordVars, queue, request, sweeping, faults>>

(* The loop test, and the row count check behind the loop.                  *)
LoopLabel(rows) == CASE rows < RequestedRowLimit -> "cancelCheck"
                     [] rows = RequestedRowLimit -> "finalCheck"
                     [] OTHER                    -> "failReturn"

JobAgrees(w) == /\ job.lastExportedId = worker[w].lastExportedId
                /\ job.exportedRowCount = worker[w].exportedRowCount

(* Faulty variant: only the cursor of the job row is corrected.             *)
ReconcileCursorOnly(w) ==
    /\ worker[w].pc = "reconcile"
    /\ job' = IF JobAgrees(w)
              THEN job
              ELSE [job EXCEPT !.lastExportedId = worker[w].lastExportedId,
                               !.heartbeat = "fresh"]
    /\ Advance(w, LoopLabel(worker[w].exportedRowCount))
    /\ UNCHANGED <<snapshotMaxId, checkpoints, verification, storageVars, recordVars,
                   queue, request, sweeping, faults>>

(* reconcileJobProgress: the log wins over the copy in the job row.         *)
ReconcileJobProgress(w) ==
    /\ worker[w].pc = "reconcile"
    /\ job' = IF JobAgrees(w)
              THEN job
              ELSE [job EXCEPT !.lastExportedId = worker[w].lastExportedId,
                               !.exportedRowCount = worker[w].exportedRowCount,
                               !.heartbeat = "fresh"]
    /\ Advance(w, LoopLabel(worker[w].exportedRowCount))
    /\ UNCHANGED <<snapshotMaxId, checkpoints, verification, storageVars, recordVars,
                   queue, request, sweeping, faults>>

-----------------------------------------------------------------------------
IsCancelRequested(w) ==
    /\ worker[w].pc = "cancelCheck"
    /\ Advance(w, IF job.cancelRequested THEN "cancelWrite" ELSE "fetch")
    /\ UNCHANGED <<jobVars, storageVars, recordVars, queue, request, sweeping, faults>>

CancelMidRun(w) ==
    /\ worker[w].pc = "cancelWrite"
    /\ job' = WithStatus("CANCELLED")
    /\ Advance(w, "cancelCleanup")
    /\ UNCHANGED <<snapshotMaxId, checkpoints, verification, storageVars, recordVars,
                   queue, request, sweeping, faults>>

(* deleteChunks removes every chunk that exists when it lists them.         *)
DeleteChunks(w) ==
    /\ worker[w].pc \in {"cancelCleanup", "cleanup"}
    /\ chunks' = {}
    /\ Advance(w, "returned")
    /\ UNCHANGED <<jobVars, finalFile, recordVars, queue, request, sweeping, faults>>

(* It deletes page by page in key order and may throw after any page.       *)
DeleteChunksThrows(w) ==
    /\ worker[w].pc \in {"cancelCleanup", "cleanup"}
    /\ CanFail("error")
    /\ \E page \in {line[1] : line \in chunks} :
          chunks' = {line \in chunks : line[1] > page}
    /\ Advance(w, "failThrow")
    /\ Spend("error")
    /\ UNCHANGED <<jobVars, finalFile, recordVars, queue, request, sweeping>>

(* Faulty variant: a page is a whole batch, also at the row limit.          *)
WholeBatch(w) == BatchSize

Limit(w) == LET remaining == RequestedRowLimit - worker[w].exportedRowCount
            IN  IF BatchSize <= remaining THEN BatchSize ELSE remaining

FetchRecordBatch(w) ==
    /\ worker[w].pc = "fetch"
    /\ LET rows == Eligible(worker[w].lastExportedId)
       IN  \/ rows = {} /\ Advance(w, "failReturn")
           \/ \E lastId \in rows :
                 /\ ClosesPage(lastId, rows, Limit(w))
                 /\ worker' = [worker EXCEPT ![w].pc = "put", ![w].batch = UpTo(rows, lastId)]
    /\ UNCHANGED <<jobVars, storageVars, recordVars, queue, request, sweeping, faults>>

(* Faulty variant: the chunk key does not contain the batch number.         *)
NoOtherChunks(b) == {line \in chunks : line[1] = 0}

OtherChunks(b) == {line \in chunks : line[1] # b}

(* putObjectVerified overwrites the deterministic key of the batch.         *)
PutChunk(w) ==
    /\ worker[w].pc = "put"
    /\ chunks' = OtherChunks(worker[w].batchNumber)
                 \cup {worker[w].batchNumber} \X worker[w].batch
    /\ Advance(w, "checkpoint")
    /\ UNCHANGED <<jobVars, finalFile, recordVars, queue, request, sweeping, faults>>

BatchLastId(w, id) == id \in worker[w].batch /\ \A r \in worker[w].batch : r <= id

(* Faulty variant: no unique constraint on (export_job_id, batch_number).   *)
NoUniqueConstraint(b) == b = 0

UniqueViolation(b) == \E c \in checkpoints : c.batchNumber = b

(* One transaction: the checkpoint and the progress of the row, or neither. *)
Checkpoint(w) ==
    /\ worker[w].pc = "checkpoint"
    /\ \/ /\ UniqueViolation(worker[w].batchNumber)
          /\ Advance(w, "failThrow")
          /\ UNCHANGED <<job, checkpoints>>
       \/ /\ ~UniqueViolation(worker[w].batchNumber)
          /\ \E id \in worker[w].batch :
                /\ BatchLastId(w, id)
                /\ LET rows  == Cardinality(worker[w].batch)
                       total == worker[w].exportedRowCount + rows
                   IN /\ checkpoints' = checkpoints \cup
                            {[batchNumber  |-> worker[w].batchNumber,
                              lastRecordId |-> id,
                              rowsWritten  |-> rows]}
                      /\ job' = [job EXCEPT !.lastExportedId = id,
                                            !.exportedRowCount = total,
                                            !.heartbeat = "fresh"]
                      /\ worker' = [worker EXCEPT ![w].pc = LoopLabel(total),
                                                  ![w].batchNumber = @ + 1,
                                                  ![w].lastExportedId = id,
                                                  ![w].exportedRowCount = total,
                                                  ![w].batch = {}]
    /\ UNCHANGED <<snapshotMaxId, verification, storageVars, recordVars, queue, request,
                   sweeping, faults>>

-----------------------------------------------------------------------------
(* The log is loaded once more before the chunk set is trusted.             *)
CrossCheckLog(w) ==
    /\ worker[w].pc = "finalCheck"
    /\ \/ LogIsRefused(checkpoints) /\ Advance(w, "failThrow")
       \/ /\ ~LogIsRefused(checkpoints)
          /\ RowsWritten(checkpoints) # RequestedRowLimit
          /\ Advance(w, "failReturn")
       \/ /\ ~LogIsRefused(checkpoints)
          /\ RowsWritten(checkpoints) = RequestedRowLimit
          /\ worker' = [worker EXCEPT ![w].pc = "setVerifying",
                                      ![w].batchCount = Cardinality(checkpoints)]
    /\ UNCHANGED <<jobVars, storageVars, recordVars, queue, request, sweeping, faults>>

SetVerifying(w) ==
    /\ worker[w].pc = "setVerifying"
    /\ job' = WithStatus("VERIFYING")
    /\ Advance(w, "assemble")
    /\ UNCHANGED <<snapshotMaxId, checkpoints, verification, storageVars, recordVars,
                   queue, request, sweeping, faults>>

ChunkExists(b) == \E line \in chunks : line[1] = b

(* assembleFinalCsv: the chunks, read one by one in batch order; a missing  *)
(* one throws.                                                              *)
AssembleChunk(w) ==
    /\ worker[w].pc = "assemble"
    /\ worker[w].nextChunk <= worker[w].batchCount
    /\ LET b == worker[w].nextChunk
       IN  IF ChunkExists(b)
           THEN worker' = [worker EXCEPT ![w].nextChunk = b + 1,
                                         ![w].assembled = @ \cup (chunks \ OtherChunks(b))]
           ELSE Advance(w, "assemblyFailed")
    /\ UNCHANGED <<jobVars, storageVars, recordVars, queue, request, sweeping, faults>>

(* The stream ends, and the upload makes the file visible as a whole.       *)
UploadFinalCsv(w) ==
    /\ worker[w].pc = "assemble"
    /\ worker[w].nextChunk > worker[w].batchCount
    /\ finalFile' = worker[w].assembled
    /\ worker' = [worker EXCEPT ![w].pc = "verify", ![w].nextChunk = 1, ![w].assembled = {}]
    /\ UNCHANGED <<jobVars, chunks, recordVars, queue, request, sweeping, faults>>

(* The upload of the destroyed stream rejects with nobody awaiting it: the  *)
(* process may die of the unhandled rejection before failJob is through.    *)
AssemblyFails(w) ==
    /\ worker[w].pc = "assemblyFailed"
    /\ \/ Advance(w, "failThrow")
       \/ worker' = [worker EXCEPT ![w] = IdleWorker]
    /\ UNCHANGED <<jobVars, storageVars, recordVars, queue, request, sweeping, faults>>

(* verifyExportFile: the object as storage now holds it is audited, ...     *)
VerifyExportFile(w) ==
    /\ worker[w].pc = "verify"
    /\ worker' = [worker EXCEPT ![w].pc = "recordVerdict", ![w].verdict = Verdict(finalFile)]
    /\ UNCHANGED <<jobVars, storageVars, recordVars, queue, request, sweeping, faults>>

(* ... the verdict is recorded, and decides what follows.                   *)
RecordVerdict(w) ==
    /\ worker[w].pc = "recordVerdict"
    /\ verification' = worker[w].verdict
    /\ \E label \in {"complete", "keepRejected"} :
          /\ (label = "complete") <=> (worker[w].verdict = "passed")
          /\ worker' = [worker EXCEPT ![w].pc = label, ![w].verdict = "none"]
    /\ UNCHANGED <<job, snapshotMaxId, checkpoints, storageVars, recordVars, queue,
                   request, sweeping, faults>>

KeepRejectedFile(w) ==
    /\ worker[w].pc = "keepRejected"
    /\ job' = [job EXCEPT !.fileKey = TRUE, !.heartbeat = "fresh"]
    /\ Advance(w, "failReturn")
    /\ UNCHANGED <<snapshotMaxId, checkpoints, verification, storageVars, recordVars,
                   queue, request, sweeping, faults>>

(* Faulty variant: the key of the file is not stored with the status.       *)
CompleteWithoutFileKey(w) ==
    /\ worker[w].pc = "complete"
    /\ job' = WithStatus("COMPLETED")
    /\ Advance(w, "cleanup")
    /\ UNCHANGED <<snapshotMaxId, checkpoints, verification, storageVars, recordVars,
                   queue, request, sweeping, faults>>

CompleteJob(w) ==
    /\ worker[w].pc = "complete"
    /\ job' = [WithStatus("COMPLETED") EXCEPT !.fileKey = TRUE]
    /\ Advance(w, "cleanup")
    /\ UNCHANGED <<snapshotMaxId, checkpoints, verification, storageVars, recordVars,
                   queue, request, sweeping, faults>>

-----------------------------------------------------------------------------
(* failJob writes FAILED whatever the status is.  From the checks it is     *)
(* followed by a normal return, from the catch by a rethrow.                *)
FailJob(w) ==
    /\ worker[w].pc \in {"failReturn", "failThrow"}
    /\ job' = WithStatus("FAILED")
    /\ Advance(w, IF worker[w].pc = "failReturn" THEN "returned" ELSE "threw")
    /\ UNCHANGED <<snapshotMaxId, checkpoints, verification, storageVars, recordVars,
                   queue, request, sweeping, faults>>

(* A call to Postgres or S3 fails without taking effect.                    *)
StepThrows(w) ==
    /\ CanFail("error")
    /\ \/ worker[w].pc \in BeforeTry \cup {"failThrow"} /\ Advance(w, "threw")
       \/ worker[w].pc \in InTry \ {"assemble", "assemblyFailed"} /\ Advance(w, "failThrow")
       \/ worker[w].pc = "assemble" /\ Advance(w, "assemblyFailed")
    /\ Spend("error")
    /\ UNCHANGED <<jobVars, storageVars, recordVars, queue, request, sweeping>>

(* The process dies: SIGKILL, a redeploy, the fault injection hook.         *)
Crash(w) ==
    /\ CanFail("crash")
    /\ worker[w].pc # "idle"
    /\ worker' = [worker EXCEPT ![w] = IdleWorker]
    /\ Spend("crash")
    /\ UNCHANGED <<jobVars, storageVars, recordVars, queue, request, sweeping>>

RunStep(w) ==
    \/ ReadJob(w) \/ CancelBeforeStart(w) \/ ClaimJob(w) \/ SetStartedAt(w)
    \/ LoadResumeState(w) \/ ReconcileJobProgress(w)
    \/ IsCancelRequested(w) \/ CancelMidRun(w) \/ DeleteChunks(w)
    \/ FetchRecordBatch(w) \/ PutChunk(w) \/ Checkpoint(w)
    \/ CrossCheckLog(w) \/ SetVerifying(w)
    \/ AssembleChunk(w) \/ UploadFinalCsv(w) \/ AssemblyFails(w)
    \/ VerifyExportFile(w) \/ RecordVerdict(w)
    \/ KeepRejectedFile(w) \/ CompleteJob(w) \/ FailJob(w)

RunFault(w) == DeleteChunksThrows(w) \/ StepThrows(w) \/ Crash(w)
=============================================================================
