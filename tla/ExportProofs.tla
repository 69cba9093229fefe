----------------------------- MODULE ExportProofs -----------------------------
(***************************************************************************)
(* Proofs, for every number of workers, requests, rows, batches and faults *)
(* the constants allow.                                                    *)
(***************************************************************************)
EXTENDS ExportProperties, FiniteSetTheorems, TLAPS

(* A finite log has a natural number of rows.                               *)
LEMMA RowsWrittenType ==
    ASSUME NEW log, IsFiniteSet(log)
    PROVE  RowsWritten(log) \in Nat
<1>1. BatchSize \in Nat
  BY StateAssumption
<1>2. IsFiniteSet(1 .. BatchSize)
  BY <1>1, FS_Interval
<1>3. IsFiniteSet(log \X (1 .. BatchSize))
  BY <1>2, FS_Product
<1>. DEFINE R == {row \in log \X (1 .. BatchSize) : row[2] <= row[1].rowsWritten}
<1>4. IsFiniteSet(R)
  <2>1. R \in SUBSET (log \X (1 .. BatchSize))
    OBVIOUS
  <2>. QED
    BY <1>3, <2>1, FS_Subset
<1>. QED
  BY <1>4, FS_CardinalityType DEF RowsWritten

(* A page fetched from the records table is finite.                         *)
LEMMA PageCardinality ==
    ASSUME NEW rows \in SUBSET (1 .. MaxRecordId)
    PROVE  IsFiniteSet(rows) /\ Cardinality(rows) \in Nat
<1>1. MaxRecordId \in Nat
  BY StateAssumption
<1>2. IsFiniteSet(1 .. MaxRecordId)
  BY <1>1, FS_Interval
<1>. QED
  BY <1>2, FS_Subset, FS_CardinalityType

-----------------------------------------------------------------------------
(* Moving a worker to a label leaves it well typed.                         *)
LEMMA AdvanceType ==
    ASSUME TypeOK, NEW w \in Workers, NEW label \in WorkerPc, Advance(w, label)
    PROVE  worker' \in [Workers -> WorkerState]
<1>1. worker[w] \in WorkerState /\ worker \in [Workers -> WorkerState]
  BY DEF TypeOK
<1>2. [worker[w] EXCEPT !.pc = label] \in WorkerState
  BY <1>1 DEF WorkerState
<1>. QED
  BY <1>1, <1>2 DEF Advance

LEMMA IdleType ==
    ASSUME TypeOK, NEW w \in Workers, worker' = [worker EXCEPT ![w] = IdleWorker]
    PROVE  worker' \in [Workers -> WorkerState]
BY DEF TypeOK, WorkerState, IdleWorker, WorkerPc, VerdictValue

LEMMA GotoType ==
    ASSUME TypeOK, NEW h \in Handlers, NEW label \in RequestPc, Goto(h, label)
    PROVE  request' \in [Handlers -> RequestState]
BY DEF TypeOK, Goto, RequestState

LEMMA StatusType ==
    ASSUME TypeOK, NEW s \in ExportStatus
    PROVE  WithStatus(s) \in ExportJob
BY DEF TypeOK, WithStatus, ExportJob

LEMMA SpendType ==
    ASSUME TypeOK, NEW k \in FaultKinds, Spend(k)
    PROVE  faults' \in [FaultKinds -> Nat]
BY DEF TypeOK, Spend

-----------------------------------------------------------------------------
(* Steps of a run keep the types.                                           *)
LEMMA RunStepType ==
    ASSUME LogInv, NEW w \in Workers, RunStep(w)
    PROVE  TypeOK'
<1>a. TypeOK /\ IsFiniteSet(checkpoints)
  BY DEF LogInv
<1>b. worker[w].pc \in {"put", "checkpoint"} => PageIsAhead(w)
  BY DEF LogInv
<1>c. worker[w] \in WorkerState
  BY <1>a DEF TypeOK
<1>. USE <1>a
<1>1. CASE ReadJob(w)
  BY <1>1, AdvanceType DEF ReadJob, WorkerPc, BeforeTry, InTry, TypeOK, jobVars, storageVars,
     recordVars
<1>2. CASE CancelBeforeStart(w)
  BY <1>2, AdvanceType, StatusType DEF CancelBeforeStart, WorkerPc, BeforeTry, InTry, TypeOK,
     jobVars, storageVars, recordVars, ExportStatus
<1>3. CASE ClaimJob(w)
  BY <1>3, AdvanceType, StatusType DEF ClaimJob, WorkerPc, BeforeTry, InTry, TypeOK, jobVars,
     storageVars, recordVars, ExportStatus
<1>4. CASE LoadResumeState(w)
  <2>1. RowsWritten(checkpoints) \in Nat
    BY RowsWrittenType
  <2>2. worker' \in [Workers -> WorkerState]
    <3>1. ASSUME NEW n \in Nat, NEW id \in Nat, NEW rows \in Nat, ResumeAt(w, n, id, rows)
          PROVE  worker' \in [Workers -> WorkerState]
      <4>1. "reconcile" \in WorkerPc
        BY DEF WorkerPc, InTry
      <4>. QED
        BY <1>c, <3>1, <4>1 DEF ResumeAt, TypeOK, WorkerState
    <3>2. CASE Advance(w, "failThrow")
      BY <3>2, AdvanceType DEF WorkerPc
    <3>. QED
      BY <1>4, <2>1, <3>1, <3>2 DEF LoadResumeState, IsLast, TypeOK, ExportCheckpoint
  <2>. QED
    BY <1>4, <2>2 DEF LoadResumeState, TypeOK, jobVars, storageVars, recordVars
<1>5. CASE ReconcileJobProgress(w)
  BY <1>5, AdvanceType DEF ReconcileJobProgress, WorkerPc, BeforeTry, InTry, TypeOK, jobVars,
     storageVars, recordVars, LoopLabel, ExportJob, WorkerState
<1>6. CASE IsCancelRequested(w)
  BY <1>6, AdvanceType DEF IsCancelRequested, WorkerPc, BeforeTry, InTry, TypeOK, jobVars,
     storageVars, recordVars
<1>7. CASE CancelMidRun(w)
  BY <1>7, AdvanceType, StatusType DEF CancelMidRun, WorkerPc, BeforeTry, InTry, TypeOK,
     jobVars, storageVars, recordVars, ExportStatus
<1>8. CASE DeleteChunks(w)
  BY <1>8, AdvanceType DEF DeleteChunks, WorkerPc, BeforeTry, InTry, TypeOK, jobVars,
     storageVars, recordVars
<1>9. CASE FetchRecordBatch(w)
  <2>1. ASSUME NEW lastId, worker' = [worker EXCEPT ![w].pc = "put",
              ![w].batch = UpTo(Eligible(worker[w].lastExportedId), lastId)]
        PROVE  worker' \in [Workers -> WorkerState]
    <3>1. "put" \in WorkerPc
      BY DEF WorkerPc, InTry
    <3>2. UpTo(Eligible(worker[w].lastExportedId), lastId) \in SUBSET (1 .. MaxRecordId)
      BY DEF UpTo, Eligible, TypeOK
    <3>. QED
      BY <1>c, <2>1, <3>1, <3>2 DEF TypeOK, WorkerState
  <2>2. worker' \in [Workers -> WorkerState]
    BY <1>9, <2>1, AdvanceType DEF FetchRecordBatch, WorkerPc, InTry
  <2>. QED
    BY <1>9, <2>2 DEF FetchRecordBatch, TypeOK, jobVars, storageVars, recordVars
<1>10. CASE PutChunk(w)
  BY <1>10, AdvanceType DEF PutChunk, WorkerPc, BeforeTry, InTry, TypeOK, jobVars,
     storageVars, recordVars, OtherChunks, WorkerState
<1>11. CASE Checkpoint(w)
  <2>1. CASE UniqueViolation(worker[w].batchNumber)
    BY <1>11, <2>1, AdvanceType DEF Checkpoint, WorkerPc, TypeOK, jobVars, storageVars,
       recordVars
  <2>2. ASSUME NEW id \in worker[w].batch,
              worker[w].pc = "checkpoint",
              checkpoints' = checkpoints \cup
                  {[batchNumber  |-> worker[w].batchNumber,
                    lastRecordId |-> id,
                    rowsWritten  |-> Cardinality(worker[w].batch)]},
              job' = [job EXCEPT !.lastExportedId = id,
                                 !.exportedRowCount = worker[w].exportedRowCount
                                                      + Cardinality(worker[w].batch),
                                 !.heartbeat = "fresh"],
              worker' = [worker EXCEPT
                  ![w].pc = LoopLabel(worker[w].exportedRowCount + Cardinality(worker[w].batch)),
                  ![w].batchNumber = @ + 1,
                  ![w].lastExportedId = id,
                  ![w].exportedRowCount = worker[w].exportedRowCount
                                          + Cardinality(worker[w].batch),
                  ![w].batch = {}]
        PROVE  /\ job' \in ExportJob
               /\ checkpoints' \subseteq ExportCheckpoint
               /\ worker' \in [Workers -> WorkerState]
    <3>1. worker[w] \in WorkerState
      BY <1>c
    <3>2. Cardinality(worker[w].batch) \in 0 .. BatchSize
      BY <1>b, <2>2, <3>1, PageCardinality, StateAssumption DEF PageIsAhead, WorkerState
    <3>3. id \in Nat
      BY <3>1, StateAssumption DEF WorkerState
    <3>. DEFINE total == worker[w].exportedRowCount + Cardinality(worker[w].batch)
    <3>4. total \in Nat /\ LoopLabel(total) \in WorkerPc
      BY <3>1, <3>2, StateAssumption DEF WorkerState, LoopLabel, WorkerPc, InTry
    <3>5. job' \in ExportJob
      BY <2>2, <3>3, <3>4 DEF TypeOK, ExportJob
    <3>6. checkpoints' \subseteq ExportCheckpoint
      BY <2>2, <3>1, <3>2, <3>3 DEF TypeOK, ExportCheckpoint, WorkerState
    <3>7. worker' \in [Workers -> WorkerState]
      <4>. HIDE DEF total
      <4>1. worker' = [worker EXCEPT ![w].pc = LoopLabel(total),
                                     ![w].batchNumber = @ + 1,
                                     ![w].lastExportedId = id,
                                     ![w].exportedRowCount = total,
                                     ![w].batch = {}]
        BY <2>2 DEF total
      <4>. QED
        BY <4>1, <3>1, <3>3, <3>4 DEF TypeOK, WorkerState
    <3>. QED
      BY <3>5, <3>6, <3>7
  <2>3. CASE ~UniqueViolation(worker[w].batchNumber)
    <3>1. /\ job' \in ExportJob
          /\ checkpoints' \subseteq ExportCheckpoint
          /\ worker' \in [Workers -> WorkerState]
      BY <1>11, <2>2, <2>3 DEF Checkpoint, BatchLastId
    <3>. QED
      BY <1>11, <3>1 DEF Checkpoint, TypeOK, jobVars, storageVars, recordVars
  <2>. QED
    BY <2>1, <2>3
<1>12. CASE CrossCheckLog(w)
  <2>1. ASSUME worker' = [worker EXCEPT ![w].pc = "setVerifying",
                                       ![w].batchCount = Cardinality(checkpoints)]
        PROVE  worker' \in [Workers -> WorkerState]
    <3>1. "setVerifying" \in WorkerPc
      BY DEF WorkerPc, InTry
    <3>2. Cardinality(checkpoints) \in Nat
      BY FS_CardinalityType
    <3>. QED
      BY <1>c, <2>1, <3>1, <3>2 DEF TypeOK, WorkerState
  <2>2. worker' \in [Workers -> WorkerState]
    BY <1>12, <2>1, AdvanceType DEF CrossCheckLog, WorkerPc, InTry
  <2>. QED
    BY <1>12, <2>2 DEF CrossCheckLog, TypeOK, jobVars, storageVars, recordVars
<1>13. CASE SetVerifying(w)
  BY <1>13, AdvanceType, StatusType DEF SetVerifying, WorkerPc, BeforeTry, InTry, TypeOK,
     jobVars, storageVars, recordVars, ExportStatus
<1>14. CASE AssembleChunk(w)
  <2>1. ASSUME NEW n \in Nat, NEW lines \in SUBSET (Nat \X Nat),
               worker' = [worker EXCEPT ![w].nextChunk = n, ![w].assembled = lines]
        PROVE  worker' \in [Workers -> WorkerState]
    BY <1>c, <2>1 DEF TypeOK, WorkerState
  <2>2. worker[w].nextChunk + 1 \in Nat
    BY <1>c DEF WorkerState
  <2>3. worker[w].assembled \cup (chunks \ OtherChunks(worker[w].nextChunk)) \in SUBSET (Nat \X Nat)
    BY <1>c DEF TypeOK, WorkerState
  <2>4. worker' \in [Workers -> WorkerState]
    BY <1>14, <2>1, <2>2, <2>3, AdvanceType DEF AssembleChunk, WorkerPc, InTry
  <2>. QED
    BY <1>14, <2>4 DEF AssembleChunk, TypeOK, jobVars, storageVars, recordVars
<1>15. CASE AssemblyFails(w)
  BY <1>15, AdvanceType, IdleType DEF AssemblyFails, WorkerPc, BeforeTry, InTry, TypeOK,
     jobVars, storageVars, recordVars
<1>16. CASE VerifyExportFile(w)
  <2>1. "recordVerdict" \in WorkerPc /\ Verdict(finalFile) \in VerdictValue
    BY DEF WorkerPc, InTry, Verdict, VerdictValue
  <2>2. worker' \in [Workers -> WorkerState]
    BY <1>c, <1>16, <2>1 DEF VerifyExportFile, TypeOK, WorkerState
  <2>. QED
    BY <1>16, <2>2 DEF VerifyExportFile, TypeOK, jobVars, storageVars, recordVars
<1>17. CASE KeepRejectedFile(w)
  BY <1>17, AdvanceType DEF KeepRejectedFile, WorkerPc, BeforeTry, InTry, TypeOK, jobVars,
     storageVars, recordVars, ExportJob
<1>18. CASE CompleteJob(w)
  BY <1>18, AdvanceType, StatusType DEF CompleteJob, WorkerPc, BeforeTry, InTry, TypeOK,
     jobVars, storageVars, recordVars, ExportJob, ExportStatus
<1>19. CASE FailJob(w)
  BY <1>19, AdvanceType, StatusType DEF FailJob, WorkerPc, BeforeTry, InTry, TypeOK, jobVars,
     storageVars, recordVars, ExportStatus
<1>20. CASE SetStartedAt(w)
  BY <1>20, AdvanceType DEF SetStartedAt, WorkerPc, BeforeTry, InTry, TypeOK, jobVars,
     storageVars, recordVars, ExportJob
<1>21. CASE UploadFinalCsv(w)
  <2>1. "verify" \in WorkerPc /\ 1 \in Nat /\ {} \in SUBSET (Nat \X Nat)
    BY DEF WorkerPc, InTry
  <2>2. worker' \in [Workers -> WorkerState]
    BY <1>c, <1>21, <2>1 DEF UploadFinalCsv, TypeOK, WorkerState
  <2>3. worker[w].assembled \subseteq Nat \X Nat
    BY <1>c DEF WorkerState
  <2>. QED
    BY <1>21, <2>2, <2>3 DEF UploadFinalCsv, TypeOK, jobVars, storageVars, recordVars
<1>22. CASE RecordVerdict(w)
  <2>1. PICK label \in WorkerPc : worker' = [worker EXCEPT ![w].pc = label, ![w].verdict = "none"]
    BY <1>22 DEF RecordVerdict, WorkerPc, InTry
  <2>2. worker' \in [Workers -> WorkerState]
    <3>1. "none" \in VerdictValue
      BY DEF VerdictValue
    <3>2. [worker[w] EXCEPT !.pc = label, !.verdict = "none"] \in WorkerState
      BY <1>c, <3>1 DEF WorkerState
    <3>. QED
      BY <2>1, <3>2 DEF TypeOK
  <2>3. worker[w].verdict \in VerdictValue
    BY <1>c DEF WorkerState
  <2>. QED
    BY <1>22, <2>2, <2>3 DEF RecordVerdict, TypeOK, jobVars, storageVars, recordVars
<1>. QED
  BY <1>1, <1>2, <1>3, <1>4, <1>5, <1>6, <1>7, <1>8, <1>9, <1>10, <1>11, <1>12, <1>13, <1>14,
     <1>15, <1>16, <1>17, <1>18, <1>19, <1>20, <1>21, <1>22 DEF RunStep

(* The faults of a run and everything outside runs keep the types too.      *)
LEMMA OtherStepType ==
    ASSUME LogInv,
           \/ \E w \in Workers : RunFault(w)
           \/ \E h \in Handlers : HandlerStep(h) \/ RequestAborts(h)
           \/ \E r \in Requests : RequestArrives(r)
           \/ QueueStep \/ QueueFault
           \/ SweepStep \/ SweepAborts
           \/ HeartbeatExpires
           \/ RecordTraffic
    PROVE  TypeOK'
<1>a. TypeOK /\ QueueCanRun
  BY DEF LogInv
<1>q. queue \in QueueEntry
  BY <1>a DEF TypeOK
<1>. USE <1>a
<1>1. ASSUME NEW w \in Workers, DeleteChunksThrows(w)
      PROVE  TypeOK'
  BY <1>1, AdvanceType, SpendType DEF DeleteChunksThrows, WorkerPc, FaultKinds, TypeOK,
     jobVars, storageVars, recordVars
<1>2. ASSUME NEW w \in Workers, StepThrows(w)
      PROVE  TypeOK'
  <2>1. \E label \in {"threw", "failThrow", "assemblyFailed"} : Advance(w, label)
    BY <1>2 DEF StepThrows
  <2>2. worker' \in [Workers -> WorkerState]
    BY <2>1, AdvanceType DEF WorkerPc, InTry
  <2>. QED
    BY <1>2, <2>2, SpendType DEF StepThrows, FaultKinds, TypeOK, jobVars, storageVars,
       recordVars
<1>3. ASSUME NEW w \in Workers, Crash(w)
      PROVE  TypeOK'
  BY <1>3, IdleType, SpendType DEF Crash, FaultKinds, TypeOK, jobVars, storageVars, recordVars
<1>4. CASE CaptureSnapshotMaxId
  BY <1>4, GotoType, StateAssumption DEF CaptureSnapshotMaxId, Handlers, RequestPc, TypeOK,
     jobVars, storageVars, recordVars
<1>5. CASE CreateExportJob
  <2>1. [NoJob EXCEPT !.status = "PENDING"] \in ExportJob
    BY DEF NoJob, ExportJob, ExportStatus
  <2>2. request' \in [Handlers -> RequestState]
    BY <1>5, GotoType DEF CreateExportJob, Handlers, RequestPc
  <2>. QED
    BY <1>5, <2>1, <2>2 DEF CreateExportJob, TypeOK, jobVars, storageVars, recordVars
<1>6. CASE MarkQueued
  BY <1>6, GotoType, StatusType DEF MarkQueued, ExportStatus, Handlers, RequestPc, TypeOK,
     jobVars, storageVars, recordVars
<1>7. ASSUME NEW r \in Requests, MarkResuming(r)
      PROVE  TypeOK'
  BY <1>7, GotoType DEF MarkResuming, WithStatus, ExportJob, ExportStatus, Handlers,
     RequestPc, TypeOK, jobVars, storageVars, recordVars
<1>8. ASSUME NEW r \in Requests, CancelWrite(r)
      PROVE  TypeOK'
  BY <1>8, GotoType DEF CancelWrite, ExportJob, ExportStatus, Handlers, RequestPc, TypeOK,
     jobVars, storageVars, recordVars
<1>9. ASSUME NEW h \in Handlers, InspectEntry(h)
      PROVE  TypeOK'
  BY <1>9, GotoType DEF InspectEntry, AfterInspect, AfterEnqueue, RequestPc, TypeOK, jobVars,
     storageVars, recordVars
<1>10. ASSUME NEW h \in Handlers, RemoveEntry(h)
      PROVE  TypeOK'
  BY <1>10, GotoType, StateAssumption DEF RemoveEntry, NoEntry, QueueEntry, QueueState,
     RequestPc, TypeOK, jobVars, storageVars, recordVars
<1>11. ASSUME NEW h \in Handlers, AddEntry(h)
      PROVE  TypeOK'
  BY <1>11, GotoType, StateAssumption DEF AddEntry, NoEntry, QueueEntry, QueueState,
     AfterEnqueue, RequestPc, TypeOK, jobVars, storageVars, recordVars
<1>12. ASSUME NEW h \in Handlers, RequestAborts(h)
      PROVE  TypeOK'
  BY <1>12, GotoType, SpendType DEF RequestAborts, RequestPc, FaultKinds, TypeOK, jobVars,
     storageVars, recordVars
<1>13. ASSUME NEW r \in Requests, RequestArrives(r)
      PROVE  TypeOK'
  <2>1. \E op \in RequestOp, label \in RequestPc :
            request' = [request EXCEPT ![r].op = op, ![r].pc = label]
    BY <1>13 DEF RequestArrives, ResumeRead, CancelRead, VerifyRead, Begin, RequestOp, RequestPc
  <2>2. request' \in [Handlers -> RequestState]
    BY <2>1 DEF Handlers, RequestState, TypeOK
  <2>. QED
    BY <1>13, <2>2 DEF RequestArrives, ResumeRead, CancelRead, VerifyRead, TypeOK, jobVars,
       storageVars, recordVars
<1>14. ASSUME NEW r \in Requests, VerifyScan(r) \/ VerifyRecord(r)
       PROVE  TypeOK'
  <2>1. Verdict(finalFile) \in VerdictValue /\ "record" \in RequestPc
    BY DEF Verdict, VerdictValue, RequestPc
  <2>2. r \in Handlers /\ request[r] \in RequestState
    BY DEF Handlers, TypeOK
  <2>3. CASE VerifyScan(r)
    <3>1. request' \in [Handlers -> RequestState]
      BY <2>1, <2>2, <2>3 DEF VerifyScan, RequestState, TypeOK
    <3>. QED
      BY <2>3, <3>1 DEF VerifyScan, TypeOK, jobVars, storageVars, recordVars
  <2>4. CASE VerifyRecord(r)
    BY <2>2, <2>4, GotoType DEF VerifyRecord, RequestState, RequestPc, TypeOK, jobVars,
       storageVars, recordVars
  <2>. QED
    BY <1>14, <2>3, <2>4
<1>15. ASSUME NEW w \in Workers, PickUp(w)
       PROVE  TypeOK'
  <2>1. "read" \in WorkerPc /\ "active" \in QueueState
    BY DEF WorkerPc, BeforeTry, QueueState
  <2>2. worker' \in [Workers -> WorkerState]
    BY <1>15, <2>1, AdvanceType DEF PickUp, Advance
  <2>3. queue' \in QueueEntry
    BY <1>15, <1>q, <2>1 DEF PickUp, QueueEntry
  <2>. QED
    BY <1>15, <2>2, <2>3 DEF PickUp, TypeOK, jobVars, storageVars, recordVars
<1>16. ASSUME NEW w \in Workers, ProcessorReturns(w)
      PROVE  TypeOK'
  BY <1>16, IdleType DEF ProcessorReturns, QueueEntry, QueueState, TypeOK, jobVars,
     storageVars, recordVars
<1>17. ASSUME NEW w \in Workers, ProcessorThrows(w)
      PROVE  TypeOK'
  <2>1. ASSUME queue.owner = w
        PROVE  [queue EXCEPT !.state = IF AttemptsLeft THEN "delayed" ELSE "failed",
                             !.owner = NoWorker,
                             !.attemptsMade = @ + 1] \in QueueEntry
    <3>1. queue.attemptsMade + 1 \in 0 .. Attempts
      BY <1>q, <2>1, StateAssumption DEF QueueCanRun, QueueEntry
    <3>2. (IF AttemptsLeft THEN "delayed" ELSE "failed") \in QueueState
      BY DEF QueueState
    <3>. QED
      BY <1>q, <3>1, <3>2 DEF QueueEntry
  <2>2. queue' \in QueueEntry
    BY <1>17, <1>q, <2>1 DEF ProcessorThrows
  <2>. QED
    BY <1>17, <2>2, IdleType DEF ProcessorThrows, TypeOK, jobVars, storageVars, recordVars
<1>18. CASE BackoffElapses
  BY <1>18 DEF BackoffElapses, QueueEntry, QueueState, TypeOK, jobVars, storageVars, recordVars
<1>r. Reclaimed \in QueueEntry
  <2>1. queue.stalledCount < MaxStalledCount => queue.stalledCount + 1 \in 0 .. MaxStalledCount
    BY <1>q, StateAssumption DEF QueueEntry
  <2>2. "waiting" \in QueueState /\ "failed" \in QueueState
    BY DEF QueueState
  <2>. QED
    BY <1>q, <2>1, <2>2 DEF Reclaimed, QueueEntry
<1>19. CASE ReclaimFromDead
  BY <1>19, <1>r DEF ReclaimFromDead, TypeOK, jobVars, storageVars, recordVars
<1>20. CASE QueueFault
  <2>1. CASE ReclaimFromLive
    BY <2>1, <1>r, SpendType DEF ReclaimFromLive, FaultKinds, TypeOK, jobVars, storageVars,
       recordVars
  <2>2. CASE RedisRestarts
    <3>1. NoEntry \in QueueEntry
      BY StateAssumption DEF NoEntry, QueueEntry, QueueState
    <3>. QED
      BY <2>2, <3>1, SpendType DEF RedisRestarts, FaultKinds, TypeOK, jobVars, storageVars,
         recordVars
  <2>. QED
    BY <1>20, <2>1, <2>2 DEF QueueFault
<1>21. CASE ListStalled
  BY <1>21 DEF ListStalled, ExportJob, SweptRow, TypeOK, jobVars, storageVars, recordVars
<1>22. CASE MarkInterrupted
  BY <1>22, StatusType DEF MarkInterrupted, NoSweep, SweptRow, ExportStatus, TypeOK, jobVars,
     storageVars, recordVars
<1>23. CASE SweepAborts
  BY <1>23, SpendType DEF SweepAborts, NoSweep, SweptRow, FaultKinds, TypeOK, jobVars,
     storageVars, recordVars
<1>24. CASE HeartbeatExpires
  BY <1>24 DEF HeartbeatExpires, ExportJob, TypeOK, jobVars, storageVars, recordVars
<1>25. CASE InsertRecord
  BY <1>25, StateAssumption DEF InsertRecord, TypeOK, jobVars, storageVars, recordVars
<1>26. CASE BeginInsert
  BY <1>26, StateAssumption, SpendType DEF BeginInsert, FaultKinds, TypeOK, jobVars,
     storageVars, recordVars
<1>27. CASE CommitInsert
  BY <1>27 DEF CommitInsert, TypeOK, jobVars, storageVars, recordVars
<1>28. CASE DeleteRecord
  BY <1>28, SpendType DEF DeleteRecord, FaultKinds, TypeOK, jobVars, storageVars, recordVars
<1>. QED
  BY <1>1, <1>2, <1>3, <1>4, <1>5, <1>6, <1>7, <1>8, <1>9, <1>10, <1>11, <1>12, <1>13, <1>14,
     <1>15, <1>16, <1>17, <1>18, <1>19, <1>20, <1>21, <1>22, <1>23, <1>24, <1>25, <1>26,
     <1>27, <1>28
  DEF RunFault, HandlerStep, CreateStep, EnqueueStep, QueueStep, SweepStep, RecordTraffic

-----------------------------------------------------------------------------
(* A run never touches the queue itself.                                    *)
LEMMA RunKeepsQueue ==
    ASSUME NEW w \in Workers, RunStep(w) \/ RunFault(w)
    PROVE  queue' = queue
<1>1. CASE RunStep(w)
  BY <1>1 DEF RunStep, ReadJob, CancelBeforeStart, ClaimJob, SetStartedAt, LoadResumeState,
     ReconcileJobProgress, IsCancelRequested, CancelMidRun, DeleteChunks, FetchRecordBatch,
     PutChunk, Checkpoint, CrossCheckLog, SetVerifying, AssembleChunk, UploadFinalCsv,
     AssemblyFails,
     VerifyExportFile, RecordVerdict, KeepRejectedFile, CompleteJob, FailJob
<1>2. CASE RunFault(w)
  BY <1>2 DEF RunFault, DeleteChunksThrows, StepThrows, Crash
<1>. QED
  BY <1>1, <1>2

(* An entry that can still run has attempts left, and only an active entry  *)
(* has an owner.                                                            *)
LEMMA QueueStepCanRun ==
    ASSUME LogInv, [Next]_vars
    PROVE  QueueCanRun'
<1>a. queue \in QueueEntry /\ QueueCanRun /\ Attempts \in Nat \ {0}
  BY StateAssumption DEF LogInv, TypeOK
<1>b. NoEntry.state = "absent" /\ NoEntry.owner = NoWorker /\ NoEntry.attemptsMade = 0
  BY DEF NoEntry
<1>. USE <1>a
<1>1. CASE queue' = queue
  BY <1>1 DEF QueueCanRun
<1>2. CASE queue' = NoEntry
  BY <1>b, <1>2 DEF QueueCanRun
<1>3. CASE queue' = [NoEntry EXCEPT !.state = "waiting"]
  BY <1>3 DEF QueueCanRun, NoEntry
<1>4. CASE queue' = Reclaimed /\ queue.state = "active"
  BY <1>4 DEF QueueCanRun, Reclaimed, QueueEntry
<1>5. CASE BackoffElapses
  BY <1>5 DEF QueueCanRun, BackoffElapses, QueueEntry
<1>6. ASSUME NEW w \in Workers, PickUp(w)
      PROVE  QueueCanRun'
  BY <1>6 DEF QueueCanRun, PickUp, QueueEntry
<1>7. ASSUME NEW w \in Workers, ProcessorReturns(w)
      PROVE  QueueCanRun'
  BY <1>7 DEF QueueCanRun, ProcessorReturns, QueueEntry
<1>8. ASSUME NEW w \in Workers, ProcessorThrows(w), queue' # queue
      PROVE  QueueCanRun'
  <2>1. queue.attemptsMade < Attempts
    BY <1>8, StateAssumption DEF QueueCanRun, ProcessorThrows
  <2>2. AttemptsLeft => queue.attemptsMade + 1 < Attempts
    BY DEF AttemptsLeft
  <2>. QED
    BY <1>8, <2>1, <2>2 DEF QueueCanRun, ProcessorThrows, QueueEntry
<1>. QED
  <2>1. ASSUME NEW h \in Handlers, HandlerStep(h)
        PROVE  queue' = queue \/ queue' = NoEntry \/ queue' = [NoEntry EXCEPT !.state = "waiting"]
    BY <2>1 DEF HandlerStep, CreateStep, CaptureSnapshotMaxId, CreateExportJob, MarkQueued,
       MarkResuming, CancelWrite, VerifyScan, VerifyRecord, EnqueueStep, InspectEntry,
       RemoveEntry, AddEntry
  <2>2. CASE QueueFault
    BY <2>2, <1>2, <1>4 DEF QueueFault, ReclaimFromLive, RedisRestarts
  <2>3. CASE QueueStep
    BY <2>3, <1>1, <1>4, <1>5, <1>6, <1>7, <1>8 DEF QueueStep, ReclaimFromDead
  <2>4. ASSUME \/ \E h \in Handlers : RequestAborts(h)
               \/ \E r \in Requests : RequestArrives(r)
               \/ SweepStep \/ SweepAborts
               \/ HeartbeatExpires
               \/ RecordTraffic
               \/ UNCHANGED vars
        PROVE  queue' = queue
    BY <2>4 DEF RequestAborts, RequestArrives, ResumeRead, CancelRead, VerifyRead,
       SweepStep, ListStalled, MarkInterrupted, SweepAborts, HeartbeatExpires, RecordTraffic,
       InsertRecord, BeginInsert, CommitInsert, DeleteRecord, vars
  <2>. QED
    BY <1>1, <1>2, <1>3, <2>1, <2>2, <2>3, <2>4, RunKeepsQueue DEF Next

-----------------------------------------------------------------------------
(* What a step does to the cursor and the page of a worker, when it does not *)
(* establish them anew.                                                     *)
KeepsCursor(w) ==
    \/ worker'[w].pc \notin InLoop
    \/ /\ worker[w].pc \in InLoop
       /\ worker'[w].batchNumber = worker[w].batchNumber
       /\ worker'[w].lastExportedId = worker[w].lastExportedId

KeepsPage(w) ==
    \/ worker'[w].pc \notin {"put", "checkpoint"}
    \/ /\ worker[w].pc \in {"put", "checkpoint"}
       /\ worker'[w].batch = worker[w].batch
       /\ worker'[w].lastExportedId = worker[w].lastExportedId

CursorsInLog == \A w \in Workers : worker[w].pc \in InLoop => CursorInLog(w)
PagesAhead   == \A w \in Workers : worker[w].pc \in {"put", "checkpoint"} => PageIsAhead(w)

(* A growing log keeps every cursor in it.                                  *)
LEMMA CursorsKept ==
    ASSUME CursorsInLog, checkpoints \subseteq checkpoints',
           \A w \in Workers : KeepsCursor(w) \/ CursorInLog(w)'
    PROVE  CursorsInLog'
BY DEF CursorsInLog, CursorInLog, KeepsCursor

LEMMA PagesKept ==
    ASSUME PagesAhead, \A w \in Workers : KeepsPage(w) \/ PageIsAhead(w)'
    PROVE  PagesAhead'
BY DEF PagesAhead, PageIsAhead, KeepsPage

-----------------------------------------------------------------------------
(* Appending the batch that follows the newest one keeps a log sound.       *)
LEMMA AppendKeepsLog ==
    ASSUME NEW log \in SUBSET ExportCheckpoint, NEW c \in ExportCheckpoint,
           \A d, e \in log : d.batchNumber = e.batchNumber => d = e,
           ~LogIsRefused(log),
           \A d \in log : d.batchNumber # c.batchNumber,
           c.lastRecordId # 0,
           \/ c.batchNumber = 1
           \/ \E p \in log : /\ p.batchNumber + 1 = c.batchNumber
                            /\ p.lastRecordId < c.lastRecordId
    PROVE  /\ \A d, e \in log \cup {c} : d.batchNumber = e.batchNumber => d = e
           /\ ~LogIsRefused(log \cup {c})
<1>1. \A d \in log \cup {c} : d.batchNumber \in Nat /\ d.lastRecordId \in Nat
  BY DEF ExportCheckpoint
<1>2. \A d \in log : d.batchNumber # 0
  (* a batch 0 would need a predecessor *)
  BY <1>1 DEF LogIsRefused, HasGap
<1>3. c.batchNumber # 0
  BY <1>1, <1>2
<1>4. ~HasGap(log \cup {c})
  BY <1>1 DEF LogIsRefused, HasGap
<1>5. \A d \in log : d.batchNumber # c.batchNumber + 1
  (* its predecessor in the log would be a second batch c.batchNumber *)
  BY <1>1, <1>3 DEF LogIsRefused, HasGap
<1>6. ASSUME NEW d \in log, c.batchNumber = d.batchNumber + 1
      PROVE  d.lastRecordId < c.lastRecordId
  <2>1. PICK p \in log : p.batchNumber + 1 = c.batchNumber /\ p.lastRecordId < c.lastRecordId
    BY <1>1, <1>2, <1>6
  <2>2. p = d
    BY <1>1, <1>6, <2>1
  <2>. QED
    BY <2>1, <2>2
<1>7. ~NotIncreasing(log \cup {c})
  <2>1. \A d \in log \cup {c} : d.lastRecordId # 0
    BY DEF LogIsRefused, NotIncreasing
  <2>2. ASSUME NEW d \in log \cup {c}, NEW e \in log \cup {c}, e.batchNumber = d.batchNumber + 1
        PROVE  d.lastRecordId < e.lastRecordId
    <3>1. CASE d \in log /\ e \in log
      BY <1>1, <2>2, <3>1 DEF LogIsRefused, NotIncreasing
    <3>2. CASE d = c
      BY <1>1, <1>5, <2>2, <3>2
    <3>3. CASE d \in log /\ e = c
      BY <1>6, <2>2, <3>3
    <3>. QED
      BY <3>1, <3>2, <3>3
  <2>. QED
    BY <1>1, <2>1, <2>2 DEF NotIncreasing
<1>. QED
  BY <1>4, <1>7 DEF LogIsRefused

(* The checkpoint transaction: a run whose cursor is in the log either sees *)
(* its batch refused by the unique constraint or appends the next batch.    *)
LEMMA CheckpointStep ==
    ASSUME LogInv, NEW w \in Workers, Checkpoint(w)
    PROVE  /\ IsFiniteSet(checkpoints)'
           /\ LogIsSound'
           /\ CursorsInLog'
           /\ PagesAhead'
<1>a. /\ CursorInLog(w) /\ PageIsAhead(w)
      /\ CursorsInLog /\ PagesAhead
      /\ TypeOK /\ LogIsSound /\ IsFiniteSet(checkpoints)
  BY DEF LogInv, Checkpoint, InLoop, CursorsInLog, PagesAhead
<1>b. /\ worker[w] \in WorkerState
      /\ checkpoints \in SUBSET ExportCheckpoint
      /\ worker \in [Workers -> WorkerState]
  BY <1>a DEF TypeOK
<1>. USE <1>a, <1>b
<1>1. CASE UNCHANGED checkpoints /\ Advance(w, "failThrow")
  <2>1. \A u \in Workers : KeepsCursor(u) /\ KeepsPage(u)
    BY <1>1 DEF Advance, KeepsCursor, KeepsPage, InLoop, WorkerState
  <2>2. LogIsSound'
    BY <1>1 DEF LogIsSound, OneCheckpointPerBatch
  <2>. QED
    BY <1>1, <2>1, <2>2, CursorsKept, PagesKept
<1>2. CASE ~UniqueViolation(worker[w].batchNumber)
  <2>. DEFINE rows  == Cardinality(worker[w].batch)
              total == worker[w].exportedRowCount + rows
  <2>1. PICK id \in worker[w].batch :
          /\ checkpoints' = checkpoints \cup {[batchNumber  |-> worker[w].batchNumber,
                                               lastRecordId |-> id,
                                               rowsWritten  |-> rows]}
          /\ worker' = [worker EXCEPT ![w].pc = LoopLabel(total),
                                      ![w].batchNumber = @ + 1,
                                      ![w].lastExportedId = id,
                                      ![w].exportedRowCount = total,
                                      ![w].batch = {}]
    BY <1>2 DEF Checkpoint, BatchLastId
  <2>. DEFINE c == [batchNumber  |-> worker[w].batchNumber,
                    lastRecordId |-> id,
                    rowsWritten  |-> rows]
  <2>2. id \in Nat \ {0} /\ worker[w].lastExportedId < id
    BY StateAssumption DEF WorkerState, PageIsAhead
  <2>3. c \in ExportCheckpoint
    <3>1. rows \in 0 .. BatchSize
      BY PageCardinality, StateAssumption DEF WorkerState, PageIsAhead
    <3>. QED
      BY <2>2, <3>1 DEF ExportCheckpoint, WorkerState
  <2>4. \A d \in checkpoints : d.batchNumber # c.batchNumber
    BY <1>2 DEF UniqueViolation
  <2>5. \/ c.batchNumber = 1
        \/ \E p \in checkpoints : /\ p.batchNumber + 1 = c.batchNumber
                                 /\ p.lastRecordId < c.lastRecordId
    BY <2>2 DEF CursorInLog
  <2>6. LogIsSound'
    <3>. HIDE DEF c
    <3>1. c.lastRecordId # 0 /\ checkpoints' = checkpoints \cup {c}
      BY <2>1, <2>2 DEF c
    <3>2. \A d, e \in checkpoints : d.batchNumber = e.batchNumber => d = e
      BY DEF LogIsSound, OneCheckpointPerBatch
    <3>3. /\ \A d, e \in checkpoints' : d.batchNumber = e.batchNumber => d = e
          /\ ~LogIsRefused(checkpoints')
      BY <2>3, <2>4, <2>5, <3>1, <3>2, AppendKeepsLog DEF LogIsSound
    <3>. QED
      BY <3>3 DEF LogIsSound, OneCheckpointPerBatch
  <2>7. IsFiniteSet(checkpoints')
    BY <2>1, FS_AddElement
  <2>8. CursorInLog(w)'
    <3>1. c \in checkpoints' /\ checkpoints' = checkpoints \cup {c}
      BY <2>1
    <3>2. worker'[w].batchNumber = c.batchNumber + 1 /\ worker'[w].lastExportedId = c.lastRecordId
      BY <2>1 DEF WorkerState
    <3>. QED
      BY <3>1, <3>2 DEF CursorInLog
  <2>9. \A u \in Workers : u # w => KeepsCursor(u) /\ KeepsPage(u)
    BY <2>1 DEF KeepsCursor, KeepsPage
  <2>10. KeepsPage(w)
    <3>1. LoopLabel(total) \notin {"put", "checkpoint"}
      BY DEF LoopLabel
    <3>2. worker'[w].pc = LoopLabel(total)
      BY <2>1 DEF WorkerState
    <3>. QED
      BY <3>1, <3>2 DEF KeepsPage
  <2>. QED
    BY <2>1, <2>6, <2>7, <2>8, <2>9, <2>10, CursorsKept, PagesKept
<1>. QED
  BY <1>1, <1>2 DEF Checkpoint

(* Every other step leaves the log alone; cursors come out of the log when  *)
(* it is loaded, pages lie ahead of the cursor when they are fetched.       *)
LEMMA LoadedCursor ==
    ASSUME LogInv, NEW w \in Workers, LoadResumeState(w)
    PROVE  /\ UNCHANGED checkpoints
           /\ \A u \in Workers : KeepsCursor(u) \/ CursorInLog(u)'
           /\ \A u \in Workers : KeepsPage(u)
<1>a. /\ worker[w] \in WorkerState
      /\ worker \in [Workers -> WorkerState]
  BY DEF LogInv, TypeOK
<1>. USE <1>a
<1>1. UNCHANGED checkpoints
  BY DEF LoadResumeState, jobVars
<1>2. CASE Advance(w, "failThrow")
  BY <1>1, <1>2 DEF Advance, KeepsCursor, KeepsPage, InLoop, WorkerState
<1>3. ASSUME NEW n, NEW id, NEW rows, ResumeAt(w, n, id, rows),
             \/ n = 1 /\ id = 0
             \/ \E c \in checkpoints : c.batchNumber + 1 = n /\ c.lastRecordId = id
      PROVE  /\ \A u \in Workers : KeepsCursor(u) \/ CursorInLog(u)'
             /\ \A u \in Workers : KeepsPage(u)
  <2>1. /\ worker'[w].pc = "reconcile"
        /\ worker'[w].batchNumber = n
        /\ worker'[w].lastExportedId = id
    BY <1>3 DEF ResumeAt, WorkerState
  <2>2. CursorInLog(w)'
    BY <1>1, <1>3, <2>1 DEF CursorInLog
  <2>3. \A u \in Workers : u # w => KeepsCursor(u) /\ KeepsPage(u)
    BY <1>3 DEF ResumeAt, KeepsCursor, KeepsPage
  <2>4. KeepsPage(w)
    BY <2>1 DEF KeepsPage
  <2>. QED
    BY <2>2, <2>3, <2>4
<1>. QED
  BY <1>1, <1>2, <1>3 DEF LoadResumeState, IsLast

LEMMA FetchedPage ==
    ASSUME LogInv, NEW w \in Workers, FetchRecordBatch(w)
    PROVE  /\ UNCHANGED checkpoints
           /\ \A u \in Workers : KeepsCursor(u)
           /\ \A u \in Workers : KeepsPage(u) \/ PageIsAhead(u)'
<1>a. /\ worker[w] \in WorkerState
      /\ worker \in [Workers -> WorkerState]
      /\ records \in SUBSET (1 .. MaxRecordId)
      /\ BatchSize \in Nat /\ RequestedRowLimit \in Nat /\ MaxRecordId \in Nat
  BY StateAssumption DEF LogInv, TypeOK
<1>. USE <1>a
<1>1. UNCHANGED checkpoints
  BY DEF FetchRecordBatch, jobVars
<1>2. CASE Advance(w, "failReturn")
  BY <1>1, <1>2 DEF Advance, KeepsCursor, KeepsPage, InLoop, WorkerState
<1>. DEFINE rows == Eligible(worker[w].lastExportedId)
<1>3. ASSUME NEW lastId \in rows,
             ClosesPage(lastId, rows, Limit(w)),
             worker' = [worker EXCEPT ![w].pc = "put", ![w].batch = UpTo(rows, lastId)]
      PROVE  /\ \A u \in Workers : KeepsCursor(u)
             /\ \A u \in Workers : KeepsPage(u) \/ PageIsAhead(u)'
  <2>. DEFINE page == UpTo(rows, lastId)
  <2>1. rows \in SUBSET (1 .. MaxRecordId) /\ page \subseteq rows
    BY DEF Eligible, UpTo
  <2>2. \A r \in page : worker[w].lastExportedId < r
    BY <2>1 DEF Eligible
  <2>3. /\ worker'[w].pc = "put"
        /\ worker'[w].batch = page
        /\ worker'[w].batchNumber = worker[w].batchNumber
        /\ worker'[w].lastExportedId = worker[w].lastExportedId
    BY <1>3 DEF WorkerState
  <2>4. Cardinality(page) <= BatchSize
    <3>1. IsFiniteSet(rows) /\ Cardinality(rows) \in Nat
      BY <2>1, PageCardinality
    <3>2. Cardinality(page) \in Nat /\ Cardinality(page) <= Cardinality(rows)
      BY <2>1, <3>1, PageCardinality, FS_Subset
    <3>3. worker[w].exportedRowCount \in Nat
      BY DEF WorkerState
    <3>4. Limit(w) \in Int /\ Limit(w) <= BatchSize
      BY <3>3 DEF Limit
    <3>5. CASE Cardinality(page) = Limit(w)
      BY <3>2, <3>4, <3>5
    <3>6. CASE Cardinality(rows) < Limit(w)
      BY <3>1, <3>2, <3>4, <3>6
    <3>. QED
      BY <1>3, <3>5, <3>6 DEF ClosesPage
  <2>5. PageIsAhead(w)'
    BY <2>2, <2>3, <2>4 DEF PageIsAhead
  <2>6. KeepsCursor(w)
    BY <2>3 DEF KeepsCursor, InLoop, FetchRecordBatch
  <2>7. \A u \in Workers : u # w => KeepsCursor(u) /\ KeepsPage(u)
    BY <1>3 DEF KeepsCursor, KeepsPage
  <2>. QED
    BY <2>5, <2>6, <2>7
<1>. QED
  BY <1>1, <1>2, <1>3 DEF FetchRecordBatch

LEMMA QuietRunStep ==
    ASSUME LogInv, NEW w \in Workers,
           RunStep(w) \/ RunFault(w),
           ~LoadResumeState(w), ~FetchRecordBatch(w), ~Checkpoint(w)
    PROVE  /\ UNCHANGED checkpoints
           /\ \A u \in Workers : KeepsCursor(u) /\ KeepsPage(u)
<1>a. worker \in [Workers -> WorkerState]
  BY DEF LogInv, TypeOK
<1>1. ASSUME NEW label, Advance(w, label),
             \/ label \notin InLoop
             \/ label \notin {"put", "checkpoint"} /\ worker[w].pc \in InLoop
             \/ worker[w].pc \in {"put", "checkpoint"}
      PROVE  \A u \in Workers : KeepsCursor(u) /\ KeepsPage(u)
  <2>1. \A u \in Workers : u # w => worker'[u] = worker[u]
    BY <1>1 DEF Advance
  <2>2. /\ worker'[w].pc = label
        /\ worker'[w].batchNumber = worker[w].batchNumber
        /\ worker'[w].lastExportedId = worker[w].lastExportedId
        /\ worker'[w].batch = worker[w].batch
    BY <1>a, <1>1 DEF Advance, WorkerState
  <2>3. KeepsCursor(w) /\ KeepsPage(w)
    BY <1>1, <2>2 DEF KeepsCursor, KeepsPage, InLoop
  <2>. QED
    BY <2>1, <2>3 DEF KeepsCursor, KeepsPage
<1>2. ASSUME worker' = [worker EXCEPT ![w] = IdleWorker]
      PROVE  \A u \in Workers : KeepsCursor(u) /\ KeepsPage(u)
  BY <1>a, <1>2 DEF IdleWorker, KeepsCursor, KeepsPage, InLoop
<1>3. CASE ReadJob(w)
  BY <1>1, <1>3 DEF ReadJob, jobVars, InLoop
<1>4. CASE CancelBeforeStart(w) \/ ClaimJob(w) \/ SetStartedAt(w)
  BY <1>1, <1>4 DEF CancelBeforeStart, ClaimJob, SetStartedAt, InLoop
<1>5. CASE ReconcileJobProgress(w)
  BY <1>1, <1>5 DEF ReconcileJobProgress, LoopLabel, InLoop
<1>6. CASE IsCancelRequested(w)
  BY <1>1, <1>6 DEF IsCancelRequested, jobVars, InLoop
<1>7. CASE PutChunk(w)
  BY <1>1, <1>7 DEF PutChunk, jobVars, InLoop
<1>8. CASE CancelMidRun(w) \/ DeleteChunks(w) \/ SetVerifying(w)
  BY <1>1, <1>8 DEF CancelMidRun, DeleteChunks, SetVerifying, jobVars, InLoop
<1>9. CASE CrossCheckLog(w)
  <2>1. ASSUME worker' = [worker EXCEPT ![w].pc = "setVerifying",
                                       ![w].batchCount = Cardinality(checkpoints)]
        PROVE  \A u \in Workers : KeepsCursor(u) /\ KeepsPage(u)
    BY <1>a, <2>1 DEF KeepsCursor, KeepsPage, InLoop, WorkerState
  <2>. QED
    BY <1>1, <1>9, <2>1 DEF CrossCheckLog, jobVars, InLoop
<1>10. CASE AssembleChunk(w) \/ AssemblyFails(w)
  <2>1. ASSUME NEW n, NEW lines, worker[w].pc = "assemble",
               worker' = [worker EXCEPT ![w].nextChunk = n, ![w].assembled = lines]
        PROVE  \A u \in Workers : KeepsCursor(u) /\ KeepsPage(u)
    BY <1>a, <2>1 DEF KeepsCursor, KeepsPage, InLoop, WorkerState
  <2>. QED
    BY <1>1, <1>2, <1>10, <2>1 DEF AssembleChunk, AssemblyFails, jobVars, InLoop
<1>13. CASE UploadFinalCsv(w) \/ VerifyExportFile(w) \/ RecordVerdict(w)
  <2>1. UNCHANGED checkpoints /\ \A u \in Workers : u # w => worker'[u] = worker[u]
    BY <1>a, <1>13 DEF UploadFinalCsv, VerifyExportFile, RecordVerdict, jobVars
  <2>2. worker'[w].pc \in {"verify", "recordVerdict", "complete", "keepRejected"}
    BY <1>a, <1>13 DEF UploadFinalCsv, VerifyExportFile, RecordVerdict, WorkerState
  <2>. QED
    BY <2>1, <2>2 DEF KeepsCursor, KeepsPage, InLoop
<1>11. CASE KeepRejectedFile(w) \/ CompleteJob(w) \/ FailJob(w)
  BY <1>1, <1>11 DEF KeepRejectedFile, CompleteJob, FailJob, InLoop
<1>12. CASE RunFault(w)
  BY <1>1, <1>2, <1>12 DEF RunFault, DeleteChunksThrows, StepThrows, Crash, jobVars, InLoop
<1>. QED
  BY <1>3, <1>4, <1>5, <1>6, <1>7, <1>8, <1>9, <1>10, <1>11, <1>12, <1>13 DEF RunStep

LEMMA QuietOtherStep ==
    ASSUME LogInv,
           \/ \E h \in Handlers : HandlerStep(h) \/ RequestAborts(h)
           \/ \E r \in Requests : RequestArrives(r)
           \/ QueueStep \/ QueueFault
           \/ SweepStep \/ SweepAborts
           \/ HeartbeatExpires
           \/ RecordTraffic
           \/ UNCHANGED vars
    PROVE  /\ UNCHANGED checkpoints
           /\ \A u \in Workers : KeepsCursor(u) /\ KeepsPage(u)
<1>a. worker \in [Workers -> WorkerState]
  BY DEF LogInv, TypeOK
<1>1. worker' = worker => \A u \in Workers : KeepsCursor(u) /\ KeepsPage(u)
  BY DEF KeepsCursor, KeepsPage
<1>2. ASSUME NEW w \in Workers, PickUp(w) \/ ProcessorReturns(w) \/ ProcessorThrows(w)
      PROVE  /\ UNCHANGED checkpoints
             /\ \A u \in Workers : KeepsCursor(u) /\ KeepsPage(u)
  <2>1. UNCHANGED checkpoints
    BY <1>2 DEF PickUp, ProcessorReturns, ProcessorThrows, jobVars
  <2>2. \A u \in Workers : u # w => worker'[u] = worker[u]
    BY <1>a, <1>2 DEF PickUp, ProcessorReturns, ProcessorThrows
  <2>3. worker'[w].pc \in {"read", "idle"}
    BY <1>a, <1>2 DEF PickUp, ProcessorReturns, ProcessorThrows, IdleWorker, WorkerState
  <2>. QED
    BY <2>1, <2>2, <2>3 DEF KeepsCursor, KeepsPage, InLoop
<1>3. ASSUME \/ BackoffElapses \/ ReclaimFromDead \/ QueueFault
             \/ \E h \in Handlers : HandlerStep(h) \/ RequestAborts(h)
             \/ \E r \in Requests : RequestArrives(r)
             \/ SweepStep \/ SweepAborts
             \/ HeartbeatExpires
             \/ RecordTraffic
             \/ UNCHANGED vars
      PROVE  worker' = worker /\ UNCHANGED checkpoints
  BY <1>3 DEF BackoffElapses, ReclaimFromDead, QueueFault, ReclaimFromLive, RedisRestarts,
     HandlerStep, CreateStep, CaptureSnapshotMaxId, CreateExportJob, MarkQueued, MarkResuming,
     CancelWrite, VerifyScan, VerifyRecord, EnqueueStep, InspectEntry, RemoveEntry, AddEntry,
     RequestAborts,
     RequestArrives, ResumeRead, CancelRead, VerifyRead, SweepStep, ListStalled,
     MarkInterrupted, SweepAborts, HeartbeatExpires, RecordTraffic, InsertRecord, BeginInsert,
     CommitInsert, DeleteRecord, vars, jobVars
<1>. QED
  BY <1>1, <1>2, <1>3 DEF QueueStep

-----------------------------------------------------------------------------
LEMMA InitLogInv == Init => LogInv
<1>. SUFFICES ASSUME Init PROVE LogInv
  OBVIOUS
<1>1. TypeOK
  <2>1. NoJob \in ExportJob
    BY DEF NoJob, ExportJob
  <2>2. NoEntry \in QueueEntry
    BY StateAssumption DEF NoEntry, QueueEntry, QueueState
  <2>3. IdleWorker \in WorkerState
    BY DEF IdleWorker, WorkerState, WorkerPc, VerdictValue
  <2>4. request \in [Handlers -> RequestState]
    BY DEF Init, RequestState, RequestOp, RequestPc, VerdictValue
  <2>5. faults \in [FaultKinds -> Nat] /\ worker \in [Workers -> WorkerState]
    BY <2>3 DEF Init
  <2>6. /\ records \subseteq 1 .. MaxRecordId
        /\ nextRecordId \in 1 .. MaxRecordId + 1
    BY StateAssumption DEF Init
  <2>. QED
    BY <2>1, <2>2, <2>4, <2>5, <2>6 DEF Init, NoSweep, SweptRow, TypeOK, VerdictValue
<1>2. QueueCanRun
  BY StateAssumption DEF Init, QueueCanRun, NoEntry
<1>3. LogIsSound /\ IsFiniteSet(checkpoints)
  BY FS_EmptySet DEF Init, LogIsSound, OneCheckpointPerBatch, LogIsRefused, HasGap,
     NotIncreasing
<1>. QED
  BY <1>1, <1>2, <1>3 DEF Init, LogInv, IdleWorker, InLoop

LEMMA NextLogInv == LogInv /\ [Next]_vars => LogInv'
<1>. SUFFICES ASSUME LogInv, [Next]_vars PROVE LogInv'
  OBVIOUS
<1>a. CursorsInLog /\ PagesAhead /\ LogIsSound /\ IsFiniteSet(checkpoints) /\ TypeOK
  BY DEF LogInv, CursorsInLog, PagesAhead
<1>1. TypeOK'
  <2>1. CASE UNCHANGED vars
    BY <1>a, <2>1 DEF TypeOK, vars, jobVars, storageVars, recordVars
  <2>. QED
    BY <2>1, RunStepType, OtherStepType DEF Next
<1>2. QueueCanRun'
  BY QueueStepCanRun
<1>3. /\ IsFiniteSet(checkpoints)'
      /\ LogIsSound'
      /\ CursorsInLog'
      /\ PagesAhead'
  <2>1. CASE \E w \in Workers : Checkpoint(w)
    BY <2>1, CheckpointStep
  <2>2. CASE ~ \E w \in Workers : Checkpoint(w)
    <3>1. /\ UNCHANGED checkpoints
          /\ \A u \in Workers : KeepsCursor(u) \/ CursorInLog(u)'
          /\ \A u \in Workers : KeepsPage(u) \/ PageIsAhead(u)'
      <4>1. ASSUME NEW w \in Workers, RunStep(w) \/ RunFault(w)
            PROVE  /\ UNCHANGED checkpoints
                   /\ \A u \in Workers : KeepsCursor(u) \/ CursorInLog(u)'
                   /\ \A u \in Workers : KeepsPage(u) \/ PageIsAhead(u)'
        BY <2>2, <4>1, LoadedCursor, FetchedPage, QuietRunStep
      <4>. QED
        BY <4>1, QuietOtherStep DEF Next
    <3>2. LogIsSound'
      BY <1>a, <3>1 DEF LogIsSound, OneCheckpointPerBatch
    <3>. QED
      BY <1>a, <3>1, <3>2, CursorsKept, PagesKept
  <2>. QED
    BY <2>1, <2>2
<1>. QED
  BY <1>1, <1>2, <1>3 DEF LogInv, CursorsInLog, PagesAhead

(* The strengthening is an invariant of the system, with any faults.        *)
THEOREM LogInvariant == Spec => []LogInv
BY InitLogInv, NextLogInv, PTL DEF Spec

(* Every variable keeps its type: rows, objects, queue entry and processes  *)
(* never leave the states the code knows.                                   *)
THEOREM TypeCorrect == Spec => []TypeOK
<1>1. LogInv => TypeOK
  BY DEF LogInv
<1>. QED
  BY <1>1, LogInvariant, PTL

(* No interleaving of overlapping runs, crashes, failed calls, cancels,     *)
(* resumes and record traffic makes a checkpoint log that loadResumeState   *)
(* refuses.                                                                 *)
THEOREM LogAlwaysSound == Spec => []LogIsSound
<1>1. LogInv => LogIsSound
  BY DEF LogInv
<1>. QED
  BY <1>1, LogInvariant, PTL

-----------------------------------------------------------------------------
(* Who runs an export, and who may take it from its worker.  The inductive  *)
(* invariant behind AtMostOneRun: a slot that is inside the processor owns  *)
(* the active entry.                                                        *)
RunHoldsEntry ==
    \A w \in Workers :
        worker[w].pc # "idle" => queue.state = "active" /\ queue.owner = w

(* A step of a run belongs to a slot that already runs.                     *)
LEMMA OnlyBusyRuns ==
    ASSUME LogInv, NEW w \in Workers, RunStep(w) \/ RunFault(w)
    PROVE  \A u \in Workers : worker'[u].pc # "idle" => worker[u].pc # "idle"
<1>a. worker \in [Workers -> WorkerState]
  BY DEF LogInv, TypeOK
<1>1. CASE RunStep(w)
  <2>1. worker[w].pc # "idle"
    BY <1>1 DEF RunStep, ReadJob, CancelBeforeStart, ClaimJob, SetStartedAt, LoadResumeState,
       ReconcileJobProgress, IsCancelRequested, CancelMidRun, DeleteChunks, FetchRecordBatch,
       PutChunk, Checkpoint, CrossCheckLog, SetVerifying, AssembleChunk, UploadFinalCsv,
       AssemblyFails,
       VerifyExportFile, RecordVerdict, KeepRejectedFile, CompleteJob, FailJob
  <2>2. \A u \in Workers : u # w => worker'[u] = worker[u]
    BY <1>a, <1>1 DEF RunStep, ReadJob, CancelBeforeStart, ClaimJob, SetStartedAt,
       LoadResumeState, ResumeAt,
       ReconcileJobProgress, IsCancelRequested, CancelMidRun, DeleteChunks, FetchRecordBatch,
       PutChunk, Checkpoint, CrossCheckLog, SetVerifying, AssembleChunk, UploadFinalCsv,
       AssemblyFails,
       VerifyExportFile, RecordVerdict, KeepRejectedFile, CompleteJob, FailJob, Advance
  <2>. QED
    BY <2>1, <2>2
<1>2. CASE RunFault(w)
  <2>1. worker[w].pc # "idle"
    BY <1>2 DEF RunFault, DeleteChunksThrows, StepThrows, Crash, BeforeTry, InTry
  <2>2. \A u \in Workers : u # w => worker'[u] = worker[u]
    BY <1>a, <1>2 DEF RunFault, DeleteChunksThrows, StepThrows, Crash, Advance
  <2>. QED
    BY <2>1, <2>2
<1>. QED
  BY <1>1, <1>2

(* While no lock is lost and Redis keeps its entries, a busy slot keeps the *)
(* entry it locked, and nobody else gets one.                               *)
LEMMA NextRunHoldsEntry ==
    ASSUME FaultBudget["lockLoss"] = 0, FaultBudget["redisRestart"] = 0,
           LogInv, RunHoldsEntry, [Next]_vars
    PROVE  RunHoldsEntry'
<1>a. /\ worker \in [Workers -> WorkerState]
      /\ queue \in QueueEntry
      /\ NoWorker \notin Workers
      /\ QueueCanRun
  BY StateAssumption DEF LogInv, TypeOK
<1>1. CASE worker' = worker /\ queue' = queue
  BY <1>1 DEF RunHoldsEntry
<1>2. ASSUME NEW w \in Workers, RunStep(w) \/ RunFault(w)
      PROVE  RunHoldsEntry'
  BY <1>2, OnlyBusyRuns, RunKeepsQueue DEF RunHoldsEntry
<1>3. ASSUME worker' = worker, queue.state # "active"
      PROVE  RunHoldsEntry'
  BY <1>3 DEF RunHoldsEntry
<1>4. CASE QueueStep
  <2>1. ASSUME NEW w \in Workers, PickUp(w)
        PROVE  RunHoldsEntry'
    <3>1. \A u \in Workers : u # w => worker'[u].pc = "idle"
      BY <1>a, <2>1 DEF PickUp, RunHoldsEntry
    <3>2. queue'.state = "active" /\ queue'.owner = w
      BY <1>a, <2>1 DEF PickUp, QueueEntry
    <3>. QED
      BY <3>1, <3>2 DEF RunHoldsEntry
  <2>2. ASSUME NEW w \in Workers, ProcessorReturns(w) \/ ProcessorThrows(w)
        PROVE  RunHoldsEntry'
    <3>1. queue.owner = w
      BY <2>2 DEF ProcessorReturns, ProcessorThrows, RunHoldsEntry
    <3>2. \A u \in Workers : worker'[u].pc = "idle"
      BY <1>a, <2>2, <3>1 DEF ProcessorReturns, ProcessorThrows, RunHoldsEntry, IdleWorker
    <3>. QED
      BY <3>2 DEF RunHoldsEntry
  <2>3. CASE BackoffElapses
    BY <1>3, <2>3 DEF BackoffElapses
  <2>4. CASE ReclaimFromDead
    <3>1. \A u \in Workers : worker[u].pc = "idle"
      BY <1>a, <2>4 DEF ReclaimFromDead, OwnerIsAlive, RunHoldsEntry
    <3>. QED
      BY <2>4, <3>1 DEF ReclaimFromDead, RunHoldsEntry
  <2>. QED
    BY <1>4, <2>1, <2>2, <2>3, <2>4 DEF QueueStep
<1>5. ~QueueFault
  <2>1. faults["lockLoss"] \in Nat /\ faults["redisRestart"] \in Nat
    BY DEF LogInv, TypeOK, FaultKinds
  <2>. QED
    BY <2>1 DEF QueueFault, ReclaimFromLive, RedisRestarts, CanFail
<1>6. ASSUME NEW h \in Handlers, EnqueueStep(h)
      PROVE  RunHoldsEntry'
  <2>1. worker' = worker /\ (queue' = queue \/ queue.state # "active")
    BY <1>6 DEF EnqueueStep, InspectEntry, RemoveEntry, AddEntry, EntryIsLocked
  <2>. QED
    BY <1>1, <1>3, <2>1
<1>7. ASSUME \/ CreateStep
             \/ \E r \in Requests : \/ MarkResuming(r) \/ CancelWrite(r)
                                     \/ VerifyScan(r) \/ VerifyRecord(r)
                                     \/ RequestArrives(r)
             \/ \E h \in Handlers : RequestAborts(h)
             \/ SweepStep \/ SweepAborts
             \/ HeartbeatExpires
             \/ RecordTraffic
             \/ UNCHANGED vars
      PROVE  worker' = worker /\ queue' = queue
  BY <1>7 DEF CreateStep, CaptureSnapshotMaxId, CreateExportJob, MarkQueued, MarkResuming,
     CancelWrite, VerifyScan, VerifyRecord, RequestArrives, ResumeRead, CancelRead, VerifyRead,
     RequestAborts,
     SweepStep, ListStalled, MarkInterrupted, SweepAborts, HeartbeatExpires, RecordTraffic,
     InsertRecord, BeginInsert, CommitInsert, DeleteRecord, vars
<1>. QED
  BY <1>1, <1>2, <1>4, <1>5, <1>6, <1>7 DEF Next, HandlerStep

(* With BullMQ's locks intact, at most one worker is ever inside            *)
(* runExportJob for the export, whatever crashes, errors, retries, resumes  *)
(* and cancels happen: the hypotheses are the two faults it depends on.     *)
THEOREM OneRunWhileLocksHold ==
    ASSUME FaultBudget["lockLoss"] = 0, FaultBudget["redisRestart"] = 0
    PROVE  Spec => []AtMostOneRun
<1>1. Init => RunHoldsEntry
  BY DEF Init, RunHoldsEntry, IdleWorker
<1>2. LogInv /\ RunHoldsEntry /\ [Next]_vars => RunHoldsEntry'
  BY NextRunHoldsEntry
<1>3. RunHoldsEntry => AtMostOneRun
  BY DEF RunHoldsEntry, AtMostOneRun, Busy
<1>. QED
  BY <1>1, <1>2, <1>3, LogInvariant, PTL DEF Spec

-----------------------------------------------------------------------------
(* No step but the sweeper's update makes a job INTERRUPTED.                *)
LEMMA OnlySweeperInterrupts ==
    ASSUME LogInv, [Next]_vars, ~MarkInterrupted
    PROVE  ~BecomesInterrupted
<1>a. job \in ExportJob
  BY DEF LogInv, TypeOK
<1>b. \A s \in ExportStatus : WithStatus(s).status = s
  BY <1>a DEF WithStatus, ExportJob
<1>1. ASSUME NEW w \in Workers, RunStep(w)
      PROVE  ~BecomesInterrupted
  <2>1. CASE \/ job' = job
             \/ \E s \in ExportStatus \ {"INTERRUPTED"} : job' = WithStatus(s)
    BY <1>b, <2>1 DEF BecomesInterrupted
  <2>2. CASE \/ ReconcileJobProgress(w) \/ Checkpoint(w) \/ KeepRejectedFile(w)
             \/ SetStartedAt(w)
    <3>1. job'.status = job.status
      BY <1>a, <2>2 DEF ReconcileJobProgress, Checkpoint, KeepRejectedFile, SetStartedAt,
         ExportJob
    <3>. QED
      BY <3>1 DEF BecomesInterrupted
  <2>3. CASE CompleteJob(w)
    <3>1. job'.status = "COMPLETED"
      BY <1>a, <2>3 DEF CompleteJob, WithStatus, ExportJob
    <3>. QED
      BY <3>1 DEF BecomesInterrupted
  <2>. QED
    BY <1>1, <2>1, <2>2, <2>3 DEF RunStep, ReadJob, CancelBeforeStart, ClaimJob, SetStartedAt,
       LoadResumeState,
       IsCancelRequested, CancelMidRun, DeleteChunks, FetchRecordBatch, PutChunk, CrossCheckLog,
       SetVerifying, AssembleChunk, UploadFinalCsv, AssemblyFails, VerifyExportFile,
       RecordVerdict, FailJob, jobVars,
       ExportStatus
<1>2. ASSUME NEW r \in Requests, MarkResuming(r) \/ CancelWrite(r)
      PROVE  ~BecomesInterrupted
  <2>1. job'.status \in {"RESUMING", "CANCELLED", job.status}
    BY <1>a, <1>2 DEF MarkResuming, CancelWrite, WithStatus, ExportJob
  <2>. QED
    BY <2>1 DEF BecomesInterrupted
<1>3. CASE CreateStep
  <2>1. job' = job \/ job'.status \in {"PENDING", "QUEUED"}
    BY <1>a, <1>3 DEF CreateStep, CaptureSnapshotMaxId, CreateExportJob, MarkQueued, WithStatus,
       NoJob, ExportJob
  <2>. QED
    BY <2>1 DEF BecomesInterrupted
<1>4. ASSUME \/ ListStalled \/ HeartbeatExpires
      PROVE  ~BecomesInterrupted
  BY <1>a, <1>4 DEF ListStalled, HeartbeatExpires, BecomesInterrupted, ExportJob
<1>5. ASSUME \/ \E w \in Workers : RunFault(w)
             \/ QueueStep \/ QueueFault
             \/ \E h \in Handlers : EnqueueStep(h) \/ RequestAborts(h)
             \/ \E r \in Requests : VerifyScan(r) \/ VerifyRecord(r) \/ RequestArrives(r)
             \/ SweepAborts
             \/ RecordTraffic
             \/ UNCHANGED vars
      PROVE  job' = job
  BY <1>5 DEF RunFault, DeleteChunksThrows, StepThrows, Crash, QueueStep, PickUp,
     ProcessorReturns, ProcessorThrows, BackoffElapses, ReclaimFromDead, QueueFault,
     ReclaimFromLive, RedisRestarts, EnqueueStep, InspectEntry, RemoveEntry, AddEntry,
     VerifyScan, VerifyRecord, RequestAborts, RequestArrives, ResumeRead, CancelRead,
     VerifyRead, SweepAborts,
     RecordTraffic, InsertRecord, BeginInsert, CommitInsert, DeleteRecord, vars, jobVars
<1>6. ~BecomesInterrupted \/ job' # job
  BY DEF BecomesInterrupted
<1>. QED
  BY <1>1, <1>2, <1>3, <1>4, <1>5, <1>6 DEF Next, HandlerStep, SweepStep

(* A row the sweep still finds as it listed it: every other update of the    *)
(* row takes it out of the reach of the sweep.                              *)
ListedAsRow ==
    sweeping.listed /\ job.heartbeat = "listed" =>
        job.exportedRowCount = sweeping.exportedRowCount

Untouched == job'.heartbeat = "listed" => job' = job

LEMMA OthersTouchTheRow ==
    ASSUME LogInv, [Next]_vars, ~SweepStep, ~SweepAborts
    PROVE  UNCHANGED sweeping /\ Untouched
<1>a. job \in ExportJob
  BY DEF LogInv, TypeOK
<1>b. \A s \in ExportStatus : WithStatus(s).heartbeat = "fresh"
  BY <1>a DEF WithStatus, ExportJob
<1>1. ASSUME NEW w \in Workers, RunStep(w)
      PROVE  UNCHANGED sweeping /\ Untouched
  <2>1. ASSUME \/ job' = job
               \/ \E s \in ExportStatus : job' = WithStatus(s)
        PROVE  Untouched
    BY <1>b, <2>1 DEF Untouched
  <2>2. ASSUME \/ ReconcileJobProgress(w) \/ Checkpoint(w) \/ KeepRejectedFile(w)
               \/ SetStartedAt(w) \/ CompleteJob(w)
        PROVE  Untouched
    <3>1. CASE Checkpoint(w)
      BY <1>a, <3>1 DEF Checkpoint, ExportJob, Untouched
    <3>2. CASE ReconcileJobProgress(w) \/ KeepRejectedFile(w) \/ SetStartedAt(w)
      BY <1>a, <3>2 DEF ReconcileJobProgress, KeepRejectedFile, SetStartedAt, ExportJob,
         Untouched
    <3>3. CASE CompleteJob(w)
      BY <1>a, <3>3 DEF CompleteJob, WithStatus, ExportJob, Untouched
    <3>. QED
      BY <2>2, <3>1, <3>2, <3>3
  <2>3. UNCHANGED sweeping
    BY <1>1 DEF RunStep, ReadJob, CancelBeforeStart, ClaimJob, SetStartedAt,
       LoadResumeState, ReconcileJobProgress, IsCancelRequested, CancelMidRun, DeleteChunks,
       FetchRecordBatch, PutChunk, Checkpoint, CrossCheckLog, SetVerifying, AssembleChunk,
       UploadFinalCsv, AssemblyFails, VerifyExportFile, RecordVerdict, KeepRejectedFile,
       CompleteJob, FailJob
  <2>. QED
    BY <1>1, <2>1, <2>2, <2>3 DEF RunStep, ReadJob, CancelBeforeStart, ClaimJob, LoadResumeState,
       IsCancelRequested, CancelMidRun, DeleteChunks, FetchRecordBatch, PutChunk, CrossCheckLog,
       SetVerifying, AssembleChunk, UploadFinalCsv, AssemblyFails, VerifyExportFile,
       RecordVerdict, FailJob, jobVars, ExportStatus
<1>2. ASSUME NEW r \in Requests, MarkResuming(r) \/ CancelWrite(r)
      PROVE  UNCHANGED sweeping /\ Untouched
  BY <1>a, <1>2 DEF MarkResuming, CancelWrite, WithStatus, ExportJob, Untouched
<1>3. CASE CreateStep
  <2>1. job' = job \/ job'.heartbeat = "fresh"
    BY <1>a, <1>3 DEF CreateStep, CaptureSnapshotMaxId, CreateExportJob, MarkQueued, WithStatus,
       NoJob, ExportJob
  <2>. QED
    BY <1>3, <2>1 DEF CreateStep, CaptureSnapshotMaxId, CreateExportJob, MarkQueued, Untouched
<1>4. CASE HeartbeatExpires
  BY <1>a, <1>4 DEF HeartbeatExpires, ExportJob, Untouched
<1>5. ASSUME \/ \E w \in Workers : RunFault(w)
             \/ QueueStep \/ QueueFault
             \/ \E h \in Handlers : EnqueueStep(h) \/ RequestAborts(h)
             \/ \E r \in Requests : VerifyScan(r) \/ VerifyRecord(r) \/ RequestArrives(r)
             \/ RecordTraffic
             \/ UNCHANGED vars
      PROVE  UNCHANGED sweeping /\ Untouched
  <2>1. UNCHANGED <<job, sweeping>>
    BY <1>5 DEF RunFault, DeleteChunksThrows, StepThrows, Crash, QueueStep, PickUp,
       ProcessorReturns, ProcessorThrows, BackoffElapses, ReclaimFromDead, QueueFault,
       ReclaimFromLive, RedisRestarts, EnqueueStep, InspectEntry, RemoveEntry, AddEntry,
       VerifyScan, VerifyRecord, RequestAborts, RequestArrives, ResumeRead, CancelRead,
       VerifyRead, RecordTraffic, InsertRecord, BeginInsert, CommitInsert, DeleteRecord,
       vars, jobVars
  <2>. QED
    BY <2>1 DEF Untouched
<1>. QED
  BY <1>1, <1>2, <1>3, <1>4, <1>5 DEF Next, HandlerStep

LEMMA ListedRowStands == LogInv /\ ListedAsRow /\ [Next]_vars => ListedAsRow'
<1>. SUFFICES ASSUME LogInv, ListedAsRow, [Next]_vars PROVE ListedAsRow'
  OBVIOUS
<1>a. job \in ExportJob
  BY DEF LogInv, TypeOK
<1>1. CASE ListStalled
  <2>1. /\ job'.exportedRowCount = job.exportedRowCount
        /\ sweeping'.exportedRowCount = job.exportedRowCount
    BY <1>a, <1>1 DEF ListStalled, ExportJob
  <2>. QED
    BY <2>1 DEF ListedAsRow
<1>2. CASE MarkInterrupted \/ SweepAborts
  <2>1. sweeping'.listed = FALSE
    BY <1>2 DEF MarkInterrupted, SweepAborts, NoSweep
  <2>. QED
    BY <2>1 DEF ListedAsRow
<1>3. CASE ~SweepStep /\ ~SweepAborts
  BY <1>3, OthersTouchTheRow DEF Untouched, ListedAsRow
<1>. QED
  BY <1>1, <1>2, <1>3 DEF SweepStep

(* Only the guarded update of the sweeper interrupts a job, and only one     *)
(* that nothing has updated since the sweep listed it: what the message says *)
(* is so.                                                                    *)
THEOREM InterruptedIsAsListed == Spec => InterruptedAsListed
<1>1. Init => ListedAsRow
  BY DEF Init, NoSweep, ListedAsRow
<1>2. LogInv /\ ListedAsRow /\ [Next]_vars
          => [BecomesInterrupted => job.exportedRowCount = sweeping.exportedRowCount]_vars
  <2>1. MarkInterrupted /\ BecomesInterrupted => sweeping.listed /\ job.heartbeat = "listed"
    BY DEF MarkInterrupted, StillStalled, BecomesInterrupted
  <2>. QED
    BY <2>1, OnlySweeperInterrupts DEF ListedAsRow
<1>. QED
  BY <1>1, <1>2, ListedRowStands, LogInvariant, PTL DEF Spec, InterruptedAsListed

-----------------------------------------------------------------------------
(* A run that finds the job finished only returns to the queue.             *)
LEMMA FinishedRunStep ==
    ASSUME LogInv, FinishedForGood, NEW w \in Workers, RunStep(w) \/ RunFault(w)
    PROVE  /\ UNCHANGED <<job, request>>
           /\ \A u \in Workers : worker'[u].pc \in {worker[u].pc, "returned", "threw", "idle"}
<1>a. /\ worker \in [Workers -> WorkerState]
      /\ worker[w].pc \in {"idle", "read", "returned", "threw"}
      /\ job.status \in {"COMPLETED", "CANCELLED"}
  BY DEF LogInv, TypeOK, FinishedForGood, NoDecisionPending
<1>1. ASSUME NEW label, Advance(w, label)
      PROVE  \A u \in Workers : worker'[u].pc \in {worker[u].pc, label}
  BY <1>a, <1>1 DEF Advance, WorkerState
<1>2. CASE ReadJob(w)
  BY <1>1, <1>2, <1>a DEF ReadJob, jobVars
<1>3. CASE StepThrows(w)
  BY <1>1, <1>3, <1>a DEF StepThrows, InTry, BeforeTry, jobVars
<1>4. CASE Crash(w)
  BY <1>4, <1>a DEF Crash, IdleWorker, jobVars
<1>5. ReadJob(w) \/ StepThrows(w) \/ Crash(w)
  BY <1>a DEF RunStep, RunFault, CancelBeforeStart, ClaimJob, SetStartedAt,
     LoadResumeState, ReconcileJobProgress, IsCancelRequested, CancelMidRun, DeleteChunks,
     FetchRecordBatch, PutChunk, Checkpoint, CrossCheckLog, SetVerifying, AssembleChunk,
     UploadFinalCsv, AssemblyFails, VerifyExportFile, RecordVerdict, KeepRejectedFile,
     CompleteJob, FailJob, DeleteChunksThrows
<1>. QED
  BY <1>2, <1>3, <1>4, <1>5

(* A request that meets a finished job can at most audit it, and what an    *)
(* earlier resume still has to do concerns the queue entry only.            *)
LEMMA FinishedRequestStep ==
    ASSUME LogInv, FinishedForGood,
           \/ \E h \in Handlers : HandlerStep(h) \/ RequestAborts(h)
           \/ \E r \in Requests : RequestArrives(r)
    PROVE  /\ UNCHANGED <<job, worker>>
           /\ request'[Creator].pc = "done"
           /\ \A r \in Requests : request'[r].pc \notin {"markResuming", "flag", "flagAndCancel"}
<1>. DEFINE Decides == {"markResuming", "flag", "flagAndCancel"}
<1>a. /\ request \in [Handlers -> RequestState]
      /\ Handlers = Requests \cup {Creator} /\ Creator \notin Requests
      /\ request[Creator].pc = "done"
      /\ \A r \in Requests : request[r].pc \notin Decides
      /\ job.status \in {"COMPLETED", "CANCELLED"}
  BY StateAssumption DEF LogInv, TypeOK, Handlers, FinishedForGood, NoDecisionPending
<1>1. ASSUME NEW h \in Handlers, NEW label, Goto(h, label), label \notin Decides,
             h = Creator => label = "done"
      PROVE  /\ request'[Creator].pc = "done"
             /\ \A r \in Requests : request'[r].pc \notin Decides
  BY <1>a, <1>1 DEF Goto, RequestState
<1>2. ASSUME NEW h \in Handlers, EnqueueStep(h)
      PROVE  /\ UNCHANGED <<job, worker>>
             /\ h # Creator
             /\ \E label \in {"remove", "add", "done", "markQueued"} : Goto(h, label)
  BY <1>a, <1>2 DEF EnqueueStep, InspectEntry, AfterInspect, AfterEnqueue, RemoveEntry,
     AddEntry, jobVars
<1>3. ASSUME NEW h \in Handlers, RequestAborts(h)
      PROVE  UNCHANGED <<job, worker>> /\ Goto(h, "done")
  BY <1>3 DEF RequestAborts, jobVars
<1>4. ~CreateStep
  BY <1>a DEF CreateStep, CaptureSnapshotMaxId, CreateExportJob, MarkQueued
<1>5. ASSUME NEW r \in Requests
      PROVE  ~MarkResuming(r) /\ ~CancelWrite(r) /\ ~ResumeRead(r) /\ ~CancelRead(r)
  BY <1>a DEF MarkResuming, CancelWrite, ResumeRead, CancelRead, RESUMABLE_FOR_USER,
     CANCELLABLE
<1>6. ASSUME NEW r \in Requests, VerifyRecord(r)
      PROVE  UNCHANGED <<job, worker>> /\ Goto(r, "done")
  BY <1>6 DEF VerifyRecord
<1>7. ASSUME NEW r \in Requests, VerifyRead(r) \/ VerifyScan(r)
      PROVE  /\ UNCHANGED <<job, worker>>
             /\ request'[Creator].pc = "done"
             /\ \A q \in Requests : request'[q].pc \notin Decides
  BY <1>a, <1>7 DEF VerifyRead, VerifyScan, Begin, RequestState, jobVars
<1>8. ASSUME NEW h \in Handlers, HandlerStep(h)
      PROVE  \/ EnqueueStep(h)
             \/ h \in Requests /\ (VerifyScan(h) \/ VerifyRecord(h))
  BY <1>4, <1>5, <1>8 DEF HandlerStep
<1>. QED
  BY <1>a, <1>1, <1>2, <1>3, <1>5, <1>6, <1>7, <1>8 DEF RequestArrives

(* Once no decision on an older row is pending, no step starts one.         *)
LEMMA FinishedStep ==
    ASSUME LogInv, FinishedForGood, [Next]_vars
    PROVE  FinishedForGood' /\ job' = job
<1>a. /\ worker \in [Workers -> WorkerState]
      /\ \A w \in Workers : worker[w].pc \in {"idle", "read", "returned", "threw"}
      /\ job.status \in {"COMPLETED", "CANCELLED"}
  BY DEF LogInv, TypeOK, FinishedForGood, NoDecisionPending
<1>1. ASSUME UNCHANGED <<job, request>>,
             \A u \in Workers : worker'[u].pc \in
                 {worker[u].pc, "idle", "read", "returned", "threw"}
      PROVE  FinishedForGood' /\ job' = job
  BY <1>a, <1>1 DEF FinishedForGood, NoDecisionPending
<1>2. ASSUME NEW w \in Workers, RunStep(w) \/ RunFault(w)
      PROVE  FinishedForGood' /\ job' = job
  BY <1>1, <1>2, FinishedRunStep
<1>3. CASE \/ \E h \in Handlers : HandlerStep(h) \/ RequestAborts(h)
           \/ \E r \in Requests : RequestArrives(r)
  BY <1>3, FinishedRequestStep DEF FinishedForGood, NoDecisionPending
<1>4. CASE QueueStep \/ QueueFault
  <2>1. UNCHANGED <<job, request>>
    BY <1>4 DEF QueueStep, QueueFault, PickUp, ProcessorReturns, ProcessorThrows,
       BackoffElapses, ReclaimFromDead, ReclaimFromLive, RedisRestarts, jobVars
  <2>2. ASSUME NEW w \in Workers, PickUp(w) \/ ProcessorReturns(w) \/ ProcessorThrows(w)
        PROVE  \A u \in Workers : worker'[u].pc \in {worker[u].pc, "idle", "read"}
    <3>1. CASE PickUp(w)
      BY <1>a, <3>1 DEF PickUp, WorkerState
    <3>2. CASE worker' = [worker EXCEPT ![w] = IdleWorker]
      BY <1>a, <3>2 DEF IdleWorker
    <3>. QED
      BY <2>2, <3>1, <3>2 DEF ProcessorReturns, ProcessorThrows
  <2>3. ASSUME BackoffElapses \/ ReclaimFromDead \/ QueueFault
        PROVE  worker' = worker
    BY <2>3 DEF BackoffElapses, ReclaimFromDead, QueueFault, ReclaimFromLive, RedisRestarts
  <2>. QED
    BY <1>1, <1>4, <2>1, <2>2, <2>3 DEF QueueStep
<1>5. CASE SweepStep \/ SweepAborts \/ HeartbeatExpires \/ RecordTraffic \/ UNCHANGED vars
  <2>1. UNCHANGED <<job, request, worker>>
    BY <1>5, <1>a DEF SweepStep, ListStalled, MarkInterrupted, StillStalled, SweepAborts,
       HeartbeatExpires, RecordTraffic, InsertRecord, BeginInsert, CommitInsert,
       DeleteRecord, vars, jobVars
  <2>. QED
    BY <1>1, <2>1
<1>. QED
  BY <1>2, <1>3, <1>4, <1>5 DEF Next

(* A finished job that no run and no handler is about to write stays as it  *)
(* is: deliveries of a left-over queue entry, later requests and sweeps all *)
(* leave the row alone, with any faults.                                    *)
THEOREM FinishedForGoodStays == Spec => FinishedStaysFinished
<1>1. LogInv /\ [Next]_vars => [FinishedForGood => FinishedForGood' /\ job' = job]_vars
  BY FinishedStep
<1>. QED
  BY <1>1, LogInvariant, PTL DEF Spec, FinishedStaysFinished

-----------------------------------------------------------------------------
(* No run is beyond its claim, and nothing but a request is about to write,  *)
(* before the job has been claimed for the first time.                      *)
Unclaimed == job.status \in {"ABSENT", "PENDING"}

UnclaimedInv ==
    /\ Unclaimed =>
          /\ ~job.cancelRequested
          /\ \A w \in Workers : worker[w].pc \in {"idle", "read", "claim", "returned", "threw"}
          /\ \A r \in Requests : request[r].pc # "flag"
    /\ job.status = "ABSENT" =>
          \A r \in Requests : request[r].pc \notin {"markResuming", "flagAndCancel"}
    /\ request[Creator].pc \in {"snapshot", "create"} => job.status = "ABSENT"

LEMMA UnclaimedRun ==
    ASSUME LogInv, UnclaimedInv, NEW w \in Workers, RunStep(w) \/ RunFault(w)
    PROVE  UnclaimedInv' /\ (job'.status # job.status => <<job.status, job'.status>> \in JobMoves)
<1>a. /\ worker \in [Workers -> WorkerState] /\ job \in ExportJob
      /\ request' = request
  BY DEF LogInv, TypeOK, RunStep, RunFault, ReadJob, CancelBeforeStart, ClaimJob, SetStartedAt,
     LoadResumeState, ReconcileJobProgress, IsCancelRequested, CancelMidRun, DeleteChunks,
     FetchRecordBatch, PutChunk, Checkpoint, CrossCheckLog, SetVerifying, AssembleChunk,
     UploadFinalCsv, AssemblyFails, VerifyExportFile, RecordVerdict, KeepRejectedFile,
     CompleteJob, FailJob, DeleteChunksThrows, StepThrows, Crash
<1>1. CASE Unclaimed
  <2>1. worker[w].pc \in {"idle", "read", "claim", "returned", "threw"} /\ ~job.cancelRequested
    BY <1>1 DEF UnclaimedInv
  <2>2. CASE ReadJob(w) \/ StepThrows(w) \/ Crash(w)
    <3>1. /\ job' = job
          /\ \A u \in Workers :
                worker'[u].pc \in {worker[u].pc, "idle", "claim", "returned", "threw"}
      BY <1>a, <2>1, <2>2 DEF ReadJob, StepThrows, Crash, Advance, IdleWorker, WorkerState, jobVars,
         BeforeTry, InTry
    <3>. QED
      BY <1>a, <1>1, <3>1 DEF UnclaimedInv, Unclaimed
  <2>3. CASE ClaimJob(w) /\ Claimable
    <3>1. job.status = "PENDING" /\ job'.status = "RUNNING"
      BY <1>a, <1>1, <2>3
         DEF ClaimJob, Claimable, RESUMABLE_STATUSES, Unclaimed, WithStatus, ExportJob
    <3>. QED
      BY <1>a, <3>1 DEF UnclaimedInv, Unclaimed, JobMoves
  <2>4. CASE ClaimJob(w) /\ ~Claimable
    <3>1. /\ job' = job
          /\ \A u \in Workers : worker'[u].pc \in {worker[u].pc, "returned"}
      BY <1>a, <2>4 DEF ClaimJob, Advance, WorkerState
    <3>. QED
      BY <1>a, <1>1, <3>1 DEF UnclaimedInv, Unclaimed
  <2>. QED
    BY <2>1, <2>2, <2>3, <2>4 DEF RunStep, RunFault, CancelBeforeStart, SetStartedAt,
       LoadResumeState, ReconcileJobProgress, IsCancelRequested, CancelMidRun, DeleteChunks,
       FetchRecordBatch, PutChunk, Checkpoint, CrossCheckLog, SetVerifying, AssembleChunk,
       UploadFinalCsv, AssemblyFails, VerifyExportFile, RecordVerdict, KeepRejectedFile,
       CompleteJob, FailJob, DeleteChunksThrows
<1>2. CASE ~Unclaimed
  <2>1. job'.status = job.status \/ <<job.status, job'.status>> \in JobMoves
    <3>1. job.status \in ExportStatus \ {"PENDING"}
      BY <1>a, <1>2 DEF Unclaimed, ExportJob
    <3>2. CASE ClaimJob(w) /\ Claimable
      BY <1>a, <3>2 DEF ClaimJob, Claimable, RESUMABLE_STATUSES, WithStatus, ExportJob, JobMoves
    <3>3. CASE CancelBeforeStart(w) \/ CancelMidRun(w) \/ SetVerifying(w) \/ CompleteJob(w)
               \/ FailJob(w)
      <4>1. job'.status \in {"VERIFYING", "COMPLETED", "FAILED", "CANCELLED"}
        BY <1>a, <3>3 DEF CancelBeforeStart, CancelMidRun, SetVerifying, CompleteJob, FailJob,
           WithStatus, ExportJob
      <4>. QED
        BY <3>1, <4>1 DEF JobMoves
    <3>4. CASE SetStartedAt(w) \/ ReconcileJobProgress(w) \/ Checkpoint(w) \/ KeepRejectedFile(w)
      BY <1>a, <3>4 DEF SetStartedAt, ReconcileJobProgress, Checkpoint, KeepRejectedFile, ExportJob
    <3>. QED
      BY <3>2, <3>3, <3>4 DEF RunStep, RunFault, ReadJob, ClaimJob, LoadResumeState,
         IsCancelRequested, DeleteChunks, FetchRecordBatch, PutChunk, CrossCheckLog, AssembleChunk,
         UploadFinalCsv, AssemblyFails, VerifyExportFile, RecordVerdict, DeleteChunksThrows,
         StepThrows, Crash, jobVars
  <2>2. \A x : <<job.status, x>> \in JobMoves => x \notin {"ABSENT", "PENDING"}
    BY DEF JobMoves
  <2>. QED
    BY <1>a, <1>2, <2>1, <2>2 DEF UnclaimedInv, Unclaimed
<1>. QED
  BY <1>1, <1>2

LEMMA UnclaimedRequest ==
    ASSUME LogInv, UnclaimedInv,
           \/ \E h \in Handlers : HandlerStep(h) \/ RequestAborts(h)
           \/ \E r \in Requests : RequestArrives(r)
    PROVE  UnclaimedInv' /\ request' # request
<1>a. /\ worker \in [Workers -> WorkerState] /\ job \in ExportJob
      /\ request \in [Handlers -> RequestState]
      /\ Creator \in Handlers /\ Requests \subseteq Handlers /\ Creator \notin Requests
  BY StateAssumption DEF LogInv, TypeOK, Handlers
<1>1. ASSUME UNCHANGED <<job, worker>>, request' # request,
             request'[Creator].pc = request[Creator].pc,
             \A q \in Requests :
                \/ request'[q].pc = request[q].pc
                \/ request'[q].pc \notin {"flag", "markResuming", "flagAndCancel"}
      PROVE  UnclaimedInv' /\ request' # request
  BY <1>1 DEF UnclaimedInv, Unclaimed
<1>2. ASSUME NEW r \in Requests,
             EnqueueStep(r) \/ VerifyRead(r) \/ VerifyScan(r) \/ VerifyRecord(r) \/ RequestAborts(r)
      PROVE  UnclaimedInv' /\ request' # request
  <2>1. UNCHANGED <<job, worker>>
    BY <1>2 DEF EnqueueStep, InspectEntry, RemoveEntry, AddEntry, VerifyRead, VerifyScan,
       VerifyRecord, RequestAborts, jobVars
  <2>2. \E label \in {"add", "remove", "markQueued", "done", "scan", "record"} :
           request'[r].pc = label /\ request[r].pc # label
    BY <1>2, <1>a DEF EnqueueStep, InspectEntry, RemoveEntry, AddEntry, VerifyRead, VerifyScan,
       VerifyRecord, RequestAborts, AfterInspect, AfterEnqueue, Goto, Begin, RequestState
  <2>3. \A q \in Handlers \ {r} : request'[q] = request[q]
    BY <1>2, <1>a DEF EnqueueStep, InspectEntry, RemoveEntry, AddEntry, VerifyRead, VerifyScan,
       VerifyRecord, RequestAborts, Goto, Begin
  <2>. QED
    BY <1>1, <1>a, <2>1, <2>2, <2>3
<1>3. ASSUME NEW r \in Requests, ResumeRead(r) \/ CancelRead(r)
      PROVE  UnclaimedInv' /\ request' # request
  <2>1. /\ job.status # "ABSENT" /\ UNCHANGED <<job, worker>> /\ request[r].pc = "idle"
        /\ \A q \in Handlers \ {r} : request'[q] = request[q]
    BY <1>3, <1>a DEF ResumeRead, CancelRead, RESUMABLE_FOR_USER, CANCELLABLE, Begin, jobVars
  <2>2. /\ request'[r].pc \in {"markResuming", "flag", "flagAndCancel"}
        /\ request'[r].pc = "flag" => ~Unclaimed
    BY <1>3, <1>a DEF ResumeRead, CancelRead, Begin, RequestState, Unclaimed
  <2>. QED
    BY <1>a, <2>1, <2>2 DEF UnclaimedInv, Unclaimed
<1>4. ASSUME NEW r \in Requests, MarkResuming(r) \/ CancelWrite(r)
      PROVE  UnclaimedInv' /\ request' # request
  <2>1. /\ request[r].pc \in {"markResuming", "flag", "flagAndCancel"} /\ worker' = worker
        /\ request'[r].pc \in {"inspect", "done"}
        /\ \A q \in Handlers \ {r} : request'[q] = request[q]
    BY <1>4, <1>a DEF MarkResuming, CancelWrite, Goto, RequestState
  <2>2. /\ job.status # "ABSENT"
        /\ request[Creator].pc \notin {"snapshot", "create"}
    BY <2>1 DEF UnclaimedInv, Unclaimed
  <2>3. job'.status \notin {"ABSENT", "PENDING"}
    <3>1. CASE request[r].pc = "flag"
      <4>1. job'.status = job.status /\ ~Unclaimed
        BY <1>4, <1>a, <3>1 DEF MarkResuming, CancelWrite, UnclaimedInv, ExportJob
      <4>. QED
        BY <4>1 DEF Unclaimed
    <3>2. CASE request[r].pc # "flag"
      BY <1>4, <1>a, <3>2 DEF MarkResuming, CancelWrite, WithStatus, ExportJob
    <3>. QED
      BY <3>1, <3>2
  <2>. QED
    BY <1>a, <2>1, <2>2, <2>3 DEF UnclaimedInv, Unclaimed
<1>5. ASSUME CreateStep \/ EnqueueStep(Creator) \/ RequestAborts(Creator)
      PROVE  UnclaimedInv' /\ request' # request
  <2>1. /\ worker' = worker /\ request'[Creator].pc # request[Creator].pc
        /\ \A q \in Handlers \ {Creator} : request'[q] = request[q]
    BY <1>5, <1>a DEF CreateStep, CaptureSnapshotMaxId, CreateExportJob, MarkQueued, EnqueueStep,
       InspectEntry, RemoveEntry, AddEntry, RequestAborts, AfterInspect, AfterEnqueue, Goto,
       RequestState
  <2>2. CASE CreateExportJob
    <3>1. job.status = "ABSENT"
      BY <2>2 DEF CreateExportJob, UnclaimedInv
    <3>2. request'[Creator].pc \in {"inspect", "done"}
      BY <1>a, <2>2 DEF CreateExportJob, Goto, RequestState
    <3>3. job' = job \/ (job'.status = "PENDING" /\ ~job'.cancelRequested)
      BY <2>2 DEF CreateExportJob, NoJob
    <3>. QED
      BY <1>a, <2>1, <3>1, <3>2, <3>3 DEF UnclaimedInv, Unclaimed
  <2>3. CASE MarkQueued
    <3>1. job'.status = "QUEUED" /\ request'[Creator].pc = "done"
      BY <1>a, <2>3 DEF MarkQueued, WithStatus, ExportJob, Goto, RequestState
    <3>. QED
      BY <2>1, <3>1 DEF UnclaimedInv, Unclaimed
  <2>4. CASE CaptureSnapshotMaxId \/ EnqueueStep(Creator) \/ RequestAborts(Creator)
    <3>1. job' = job
      BY <2>4 DEF CaptureSnapshotMaxId, EnqueueStep, InspectEntry, RemoveEntry, AddEntry,
         RequestAborts, jobVars
    <3>2. request'[Creator].pc \in {"snapshot", "create"}
              => request[Creator].pc \in {"snapshot", "create"}
      BY <1>a, <2>4 DEF CaptureSnapshotMaxId, EnqueueStep, InspectEntry, RemoveEntry, AddEntry,
         RequestAborts, AfterInspect, AfterEnqueue, Goto, RequestState
    <3>. QED
      BY <1>a, <2>1, <3>1, <3>2 DEF UnclaimedInv, Unclaimed
  <2>. QED
    BY <1>5, <2>2, <2>3, <2>4 DEF CreateStep
<1>. QED
  BY <1>a, <1>2, <1>3, <1>4, <1>5 DEF HandlerStep, RequestArrives, Handlers

LEMMA UnclaimedNext ==
    ASSUME LogInv, UnclaimedInv, [Next]_vars
    PROVE  /\ UnclaimedInv'
           /\ request' = request => \/ job'.status = job.status
                                    \/ <<job.status, job'.status>> \in JobMoves
<1>a. worker \in [Workers -> WorkerState] /\ job \in ExportJob
  BY DEF LogInv, TypeOK
<1>1. ASSUME NEW w \in Workers, RunStep(w) \/ RunFault(w)
      PROVE  UnclaimedInv' /\ (job'.status # job.status => <<job.status, job'.status>> \in JobMoves)
  BY <1>1, UnclaimedRun
<1>2. CASE \/ \E h \in Handlers : HandlerStep(h) \/ RequestAborts(h)
           \/ \E r \in Requests : RequestArrives(r)
  BY <1>2, UnclaimedRequest
<1>3. CASE QueueStep \/ QueueFault
  <2>1. UNCHANGED <<job, request>>
    BY <1>3 DEF QueueStep, QueueFault, PickUp, ProcessorReturns, ProcessorThrows,
       BackoffElapses, ReclaimFromDead, ReclaimFromLive, RedisRestarts, jobVars
  <2>2. \A u \in Workers : worker'[u].pc \in {worker[u].pc, "idle", "read"}
    <3>1. ASSUME NEW w \in Workers, PickUp(w) \/ ProcessorReturns(w) \/ ProcessorThrows(w)
          PROVE  \A u \in Workers : worker'[u].pc \in {worker[u].pc, "idle", "read"}
      <4>1. CASE PickUp(w)
        BY <1>a, <4>1 DEF PickUp, WorkerState
      <4>2. CASE worker' = [worker EXCEPT ![w] = IdleWorker]
        BY <1>a, <4>2 DEF IdleWorker
      <4>. QED
        BY <3>1, <4>1, <4>2 DEF ProcessorReturns, ProcessorThrows
    <3>2. ASSUME BackoffElapses \/ ReclaimFromDead \/ QueueFault
          PROVE  worker' = worker
      BY <3>2 DEF BackoffElapses, ReclaimFromDead, QueueFault, ReclaimFromLive, RedisRestarts
    <3>. QED
      BY <1>3, <3>1, <3>2 DEF QueueStep
  <2>. QED
    BY <2>1, <2>2 DEF UnclaimedInv, Unclaimed
<1>4. CASE SweepStep \/ SweepAborts \/ HeartbeatExpires \/ RecordTraffic \/ UNCHANGED vars
  <2>1. UNCHANGED <<request, worker>>
    BY <1>4 DEF SweepStep, ListStalled, MarkInterrupted, SweepAborts, HeartbeatExpires,
       RecordTraffic, InsertRecord, BeginInsert, CommitInsert, DeleteRecord, vars
  <2>2. \/ job'.status = job.status /\ job'.cancelRequested = job.cancelRequested
        \/ job.status = "RUNNING" /\ job'.status = "INTERRUPTED"
    BY <1>4, <1>a DEF SweepStep, ListStalled, MarkInterrupted, StillStalled, SweepAborts,
       HeartbeatExpires, RecordTraffic, InsertRecord, BeginInsert, CommitInsert,
       DeleteRecord, vars, jobVars, WithStatus, ExportJob
  <2>. QED
    BY <2>1, <2>2 DEF UnclaimedInv, Unclaimed, JobMoves
<1>. QED
  BY <1>1, <1>2, <1>3, <1>4 DEF Next

(* Whatever workers, queue and sweep do to the status of a job between two   *)
(* requests is one of the moves the page of a client is checked against,    *)
(* with any overlap of runs and any faults.                                 *)
THEOREM MovesAlwaysShown == Spec => MovesAreShown
<1>1. Init => UnclaimedInv
  BY StateAssumption DEF Init, UnclaimedInv, Unclaimed, NoJob, IdleWorker, Handlers
<1>2. LogInv /\ UnclaimedInv /\ [Next]_vars => UnclaimedInv'
  BY UnclaimedNext
<1>3. LogInv /\ UnclaimedInv /\ [Next]_vars
        => [request' = request => \/ job'.status = job.status
                                  \/ <<job.status, job'.status>> \in JobMoves]_vars
  BY UnclaimedNext
<1>. QED
  BY <1>1, <1>2, <1>3, LogInvariant, PTL DEF Spec, MovesAreShown
=============================================================================
