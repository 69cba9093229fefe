---------------------------- MODULE ProgressProofs ----------------------------
(***************************************************************************)
(* Proofs that cursors and reported progress are positions of the log, and *)
(* that the pipeline implements CheckpointLog.                             *)
(***************************************************************************)
EXTENDS ExportProofs

(* The counted rows of an empty log, and of a log with one more checkpoint. *)
LEMMA RowsOfEmptyLog == RowsWritten({}) = 0
<1>1. {row \in {} \X (1 .. BatchSize) : row[2] <= row[1].rowsWritten} = {}
  OBVIOUS
<1>. QED
  BY <1>1, FS_EmptySet DEF RowsWritten

LEMMA RowsOfLongerLog ==
    ASSUME NEW log, IsFiniteSet(log), NEW c, c \notin log, c.rowsWritten \in 0 .. BatchSize
    PROVE  RowsWritten(log \cup {c}) = RowsWritten(log) + c.rowsWritten
<1>. DEFINE Rows(l) == {row \in l \X (1 .. BatchSize) : row[2] <= row[1].rowsWritten}
            new == 1 .. c.rowsWritten
<1>1. BatchSize \in Nat /\ c.rowsWritten \in Nat
  BY StateAssumption
<1>2. /\ IsFiniteSet(1 .. BatchSize) /\ IsFiniteSet(new) /\ IsFiniteSet({c})
      /\ Cardinality(new) = c.rowsWritten /\ Cardinality({c}) = 1
  <2>1. IsFiniteSet(1 .. BatchSize)
    BY <1>1, FS_Interval
  <2>2. ASSUME NEW k \in Nat
        PROVE  IsFiniteSet(1 .. k) /\ Cardinality(1 .. k) = k
    <3>1. /\ IsFiniteSet(1 .. k)
          /\ Cardinality(1 .. k) = IF 1 > k THEN 0 ELSE k - 1 + 1
      BY FS_Interval
    <3>. QED
      BY <3>1
  <2>. QED
    BY <1>1, <2>1, <2>2, FS_Singleton, Zenon
<1>. HIDE DEF new
<1>3. IsFiniteSet(Rows(log))
  <2>1. Rows(log) \in SUBSET (log \X (1 .. BatchSize))
    OBVIOUS
  <2>. QED
    BY <1>2, <2>1, FS_Subset, FS_Product
<1>4. Rows(log \cup {c}) = Rows(log) \cup ({c} \X new)
  BY <1>1 DEF new
<1>5. Rows(log) \cap ({c} \X new) = {}
  OBVIOUS
<1>6. IsFiniteSet({c} \X new) /\ Cardinality({c} \X new) = c.rowsWritten
  <2>1. /\ IsFiniteSet({c} \X new)
        /\ Cardinality({c} \X new) = Cardinality({c}) * Cardinality(new)
    BY <1>2, FS_Product, Zenon
  <2>. QED
    BY <1>1, <1>2, <2>1
<1>7. Cardinality(Rows(log \cup {c})) = Cardinality(Rows(log)) + c.rowsWritten
  <2>. HIDE DEF Rows
  <2>1. Cardinality(Rows(log) \cup ({c} \X new)) =
            Cardinality(Rows(log)) + Cardinality({c} \X new) - Cardinality({})
    BY <1>3, <1>5, <1>6, FS_Union
  <2>2. Cardinality(Rows(log)) \in Nat /\ Cardinality({}) = 0
    BY <1>3, FS_CardinalityType, FS_EmptySet
  <2>. QED
    <3>1. Cardinality(Rows(log \cup {c})) =
              Cardinality(Rows(log)) + c.rowsWritten - 0
      BY <1>4, <1>6, <2>1, <2>2, Zenon
    <3>. QED
      BY <1>1, <2>2, <3>1
<1>. QED
  BY <1>7 DEF RowsWritten

-----------------------------------------------------------------------------
(* What the transaction appends: the batch after the newest one, beyond     *)
(* every record id of the log, by a run that has counted every row of it.   *)
Appends(w, id) ==
    /\ id \in worker[w].batch
    /\ checkpoints' = checkpoints \cup
          {[batchNumber  |-> worker[w].batchNumber,
            lastRecordId |-> id,
            rowsWritten  |-> Cardinality(worker[w].batch)]}
    /\ \A d \in checkpoints : d.batchNumber # worker[w].batchNumber

LEMMA AppendedIsNext ==
    ASSUME LogInv, BatchesAreNumbered, LogRises, NEW w \in Workers, NEW id,
           CursorInLog(w), PageIsAhead(w), Appends(w, id)
    PROVE  /\ worker[w].batchNumber \in {1} \cup {d.batchNumber + 1 : d \in checkpoints}
           /\ BatchNumbers = 1 .. (worker[w].batchNumber - 1)
           /\ \A d \in checkpoints : d.batchNumber < worker[w].batchNumber
           /\ \A d \in checkpoints : d.lastRecordId < id
<1>. DEFINE b == worker[w].batchNumber
<1>a. /\ worker[w] \in WorkerState
      /\ checkpoints \in SUBSET ExportCheckpoint
      /\ \A c, d \in checkpoints : c.batchNumber = d.batchNumber => c = d
  BY DEF LogInv, TypeOK, LogIsSound, OneCheckpointPerBatch
<1>b. \A d \in checkpoints : d.batchNumber \in Nat /\ d.lastRecordId \in Nat
  BY <1>a DEF ExportCheckpoint
<1>c. b \in Nat /\ id \in Nat /\ worker[w].lastExportedId < id /\ id # 0
      /\ worker[w].lastExportedId \in Nat
  BY <1>a, StateAssumption DEF Appends, PageIsAhead, WorkerState
<1>1. PICK n \in {0} \cup BatchNumbers : BatchNumbers = 1 .. n
  BY DEF BatchesAreNumbered
<1>2. n \in Nat
  BY <1>b DEF BatchNumbers
<1>3. b \notin 1 .. n
  BY <1>1 DEF Appends, BatchNumbers
<1>4. b = n + 1
  <2>1. CASE b = 1
    BY <1>2, <1>3, <2>1
  <2>2. CASE \E c \in checkpoints : c.batchNumber + 1 = b
    <3>1. PICK c \in checkpoints : c.batchNumber + 1 = b
      BY <2>2
    <3>2. c.batchNumber \in 1 .. n
      BY <1>1 DEF BatchNumbers
    <3>. QED
      BY <1>2, <1>3, <1>c, <3>1, <3>2
  <2>. QED
    BY <2>1, <2>2 DEF CursorInLog
<1>5. \A d \in checkpoints : d.batchNumber \in 1 .. n
  BY <1>1 DEF BatchNumbers
<1>6. \A d \in checkpoints : d.batchNumber < b
  BY <1>2, <1>4, <1>5
<1>7. ASSUME NEW d \in checkpoints
      PROVE  d.lastRecordId < id
  <2>1. PICK c \in checkpoints : c.batchNumber + 1 = b /\ c.lastRecordId = worker[w].lastExportedId
    BY <1>2, <1>4, <1>5, <1>b DEF CursorInLog
  <2>2. CASE d.batchNumber = c.batchNumber
    BY <1>a, <1>c, <2>1, <2>2
  <2>3. CASE d.batchNumber < c.batchNumber
    BY <1>b, <1>c, <2>1, <2>3 DEF LogRises
  <2>. QED
    BY <1>6, <1>b, <1>c, <2>1, <2>2, <2>3
<1>8. b \in {1} \cup {d.batchNumber + 1 : d \in checkpoints}
  BY DEF CursorInLog
<1>. QED
  BY <1>1, <1>2, <1>4, <1>6, <1>7, <1>8

-----------------------------------------------------------------------------
(* What a step leaves of the position of a run it does not establish anew.  *)
KeepsRun(u) ==
    /\ worker'[u].pc \in InLoop =>
          /\ worker[u].pc \in InLoop
          /\ worker'[u].batchNumber = worker[u].batchNumber
          /\ worker'[u].lastExportedId = worker[u].lastExportedId
          /\ worker'[u].exportedRowCount = worker[u].exportedRowCount
    /\ worker'[u].pc \in {"put", "checkpoint"} =>
          /\ worker[u].pc \in {"put", "checkpoint"}
          /\ worker'[u].batch = worker[u].batch
    /\ worker'[u].pc \in Finishing => worker[u].pc \in Finishing

(* The parts of ProgressInv about one run.                                  *)
RunInv(u) ==
    /\ worker[u].pc \in InLoop => CursorInLog(u) /\ CountInLog(u)
    /\ worker[u].pc \in {"put", "checkpoint"} =>
          /\ worker[u].exportedRowCount + Cardinality(worker[u].batch) <= RequestedRowLimit
          /\ \A r \in worker[u].batch : r <= snapshotMaxId
    /\ worker[u].pc \in Finishing => RowsWritten(checkpoints) = RequestedRowLimit

LEMMA RunInvParts ==
    (\A u \in Workers : RunInv(u)) <=> (CursorsAreLogged /\ PagesFit /\ FullBeyondLoop)
BY DEF RunInv, CursorsAreLogged, PagesFit, FullBeyondLoop

LEMMA RunKept ==
    ASSUME NEW u \in Workers, RunInv(u), KeepsRun(u), UNCHANGED <<checkpoints, snapshotMaxId>>
    PROVE  RunInv(u)'
<1>1. worker'[u].pc \in InLoop => CursorInLog(u)' /\ CountInLog(u)'
  BY DEF RunInv, KeepsRun, CursorInLog, CountInLog
<1>2. worker'[u].pc \in {"put", "checkpoint"} => worker'[u].pc \in InLoop
  BY DEF InLoop
<1>. QED
  BY <1>1, <1>2 DEF RunInv, KeepsRun

(* Loading puts a run behind the newest batch, with every row counted.      *)
LEMMA LoadedRun ==
    ASSUME LogInv, NEW w \in Workers, LoadResumeState(w), \A u \in Workers : RunInv(u)
    PROVE  \A u \in Workers : RunInv(u)'
<1>a. /\ worker[w] \in WorkerState
      /\ worker \in [Workers -> WorkerState]
      /\ checkpoints \in SUBSET ExportCheckpoint
  BY DEF LogInv, TypeOK
<1>. USE <1>a
<1>1. UNCHANGED <<checkpoints, snapshotMaxId>>
  BY DEF LoadResumeState, jobVars
<1>2. CASE Advance(w, "failThrow")
  <2>1. \A u \in Workers : KeepsRun(u)
    BY <1>2 DEF Advance, KeepsRun, InLoop, Finishing, WorkerState
  <2>. QED
    BY <1>1, <2>1, RunKept
<1>3. ASSUME NEW n, NEW id, NEW rows, ResumeAt(w, n, id, rows),
             \/ n = 1 /\ id = 0
             \/ \E c \in checkpoints : c.batchNumber + 1 = n /\ c.lastRecordId = id,
             rows = RowsWritten({c \in checkpoints : c.batchNumber < n})
      PROVE  \A u \in Workers : RunInv(u)'
  <2>1. /\ worker'[w].pc = "reconcile"
        /\ worker'[w].batchNumber = n
        /\ worker'[w].lastExportedId = id
        /\ worker'[w].exportedRowCount = rows
    BY <1>3 DEF ResumeAt, WorkerState
  <2>2. CursorInLog(w)' /\ CountInLog(w)'
    BY <1>1, <1>3, <2>1 DEF CursorInLog, CountInLog
  <2>3. RunInv(w)'
    BY <2>1, <2>2 DEF RunInv, Finishing
  <2>4. \A u \in Workers : u # w => KeepsRun(u)
    BY <1>3 DEF ResumeAt, KeepsRun
  <2>. QED
    BY <1>1, <2>3, <2>4, RunKept
<1>4. CASE checkpoints = {} /\ ResumeAt(w, 1, 0, 0)
  <2>1. {c \in checkpoints : c.batchNumber < 1} = {}
    BY <1>4
  <2>. QED
    BY <1>3, <1>4, <2>1, RowsOfEmptyLog
<1>5. ASSUME NEW last \in checkpoints, IsLast(last, checkpoints),
             ResumeAt(w, last.batchNumber + 1, last.lastRecordId, RowsWritten(checkpoints))
      PROVE  \A u \in Workers : RunInv(u)'
  <2>1. {c \in checkpoints : c.batchNumber < last.batchNumber + 1} = checkpoints
    BY <1>5 DEF IsLast, ExportCheckpoint
  <2>. QED
    BY <1>3, <1>5, <2>1
<1>. QED
  BY <1>2, <1>4, <1>5 DEF LoadResumeState

(* A fetched page fits the row limit and the boundary.                      *)
LEMMA FetchedRun ==
    ASSUME LogInv, NEW w \in Workers, FetchRecordBatch(w), \A u \in Workers : RunInv(u)
    PROVE  \A u \in Workers : RunInv(u)'
<1>a. /\ worker[w] \in WorkerState
      /\ worker \in [Workers -> WorkerState]
      /\ records \in SUBSET (1 .. MaxRecordId)
      /\ snapshotMaxId \in Nat
      /\ BatchSize \in Nat /\ RequestedRowLimit \in Nat /\ MaxRecordId \in Nat
  BY StateAssumption DEF LogInv, TypeOK
<1>. USE <1>a
<1>1. UNCHANGED <<checkpoints, snapshotMaxId>> /\ worker[w].pc = "fetch"
  BY DEF FetchRecordBatch, jobVars
<1>2. CASE Advance(w, "failReturn")
  <2>1. \A u \in Workers : KeepsRun(u)
    BY <1>2 DEF Advance, KeepsRun, InLoop, Finishing, WorkerState
  <2>. QED
    BY <1>1, <2>1, RunKept
<1>. DEFINE rows == Eligible(worker[w].lastExportedId)
<1>3. ASSUME NEW lastId \in rows,
             ClosesPage(lastId, rows, Limit(w)),
             worker' = [worker EXCEPT ![w].pc = "put", ![w].batch = UpTo(rows, lastId)]
      PROVE  \A u \in Workers : RunInv(u)'
  <2>. DEFINE page == UpTo(rows, lastId)
              left == RequestedRowLimit - worker[w].exportedRowCount
  <2>1. rows \in SUBSET (1 .. MaxRecordId) /\ page \subseteq rows
    BY DEF Eligible, UpTo
  <2>2. \A r \in page : r <= snapshotMaxId
    BY <2>1 DEF Eligible
  <2>3. /\ worker'[w].pc = "put"
        /\ worker'[w].batch = page
        /\ worker'[w].batchNumber = worker[w].batchNumber
        /\ worker'[w].lastExportedId = worker[w].lastExportedId
        /\ worker'[w].exportedRowCount = worker[w].exportedRowCount
    BY <1>3 DEF WorkerState
  <2>4. worker[w].exportedRowCount + Cardinality(page) <= RequestedRowLimit
    <3>1. IsFiniteSet(rows) /\ Cardinality(rows) \in Nat
      BY <2>1, PageCardinality
    <3>2. Cardinality(page) \in Nat /\ Cardinality(page) <= Cardinality(rows)
      BY <2>1, <3>1, PageCardinality, FS_Subset
    <3>3. worker[w].exportedRowCount \in Nat
      BY DEF WorkerState
    <3>4. Limit(w) \in Int /\ Limit(w) <= left
      BY <3>3 DEF Limit
    <3>5. Cardinality(page) <= Limit(w)
      <4>1. CASE Cardinality(page) = Limit(w)
        BY <3>4, <4>1
      <4>2. CASE Cardinality(rows) < Limit(w)
        BY <3>1, <3>2, <3>4, <4>2
      <4>. QED
        BY <1>3, <4>1, <4>2 DEF ClosesPage
    <3>. QED
      BY <3>2, <3>3, <3>4, <3>5
  <2>5. CursorInLog(w)' /\ CountInLog(w)'
    BY <1>1, <2>3 DEF RunInv, InLoop, CursorInLog, CountInLog
  <2>6. RunInv(w)'
    BY <1>1, <2>2, <2>3, <2>4, <2>5 DEF RunInv, Finishing
  <2>7. \A u \in Workers : u # w => KeepsRun(u)
    BY <1>3 DEF KeepsRun
  <2>. QED
    BY <1>1, <2>6, <2>7, RunKept
<1>. QED
  BY <1>2, <1>3 DEF FetchRecordBatch

(* The steps of a run that leave the log and its position alone.            *)
LEMMA QuietRun ==
    ASSUME LogInv, NEW w \in Workers,
           RunStep(w) \/ RunFault(w),
           ~LoadResumeState(w), ~FetchRecordBatch(w), ~Checkpoint(w), ~CrossCheckLog(w)
    PROVE  /\ UNCHANGED <<checkpoints, snapshotMaxId>>
           /\ \A u \in Workers : KeepsRun(u)
<1>a. worker \in [Workers -> WorkerState]
  BY DEF LogInv, TypeOK
<1>1. ASSUME NEW label, Advance(w, label),
             \/ label \notin InLoop \cup Finishing
             \/ label \in {"cancelCheck", "fetch"} /\ worker[w].pc \in InLoop
             \/ label = "checkpoint" /\ worker[w].pc = "put"
             \/ label \in {"finalCheck", "failReturn"}
             \/ label \in Finishing /\ worker[w].pc \in Finishing
      PROVE  \A u \in Workers : KeepsRun(u)
  <2>1. \A u \in Workers : u # w => worker'[u] = worker[u]
    BY <1>1 DEF Advance
  <2>2. /\ worker'[w].pc = label
        /\ worker'[w].batchNumber = worker[w].batchNumber
        /\ worker'[w].lastExportedId = worker[w].lastExportedId
        /\ worker'[w].exportedRowCount = worker[w].exportedRowCount
        /\ worker'[w].batch = worker[w].batch
    BY <1>a, <1>1 DEF Advance, WorkerState
  <2>3. KeepsRun(w)
    BY <1>1, <2>2 DEF KeepsRun, InLoop, Finishing
  <2>. QED
    BY <2>1, <2>3 DEF KeepsRun
<1>2. ASSUME worker' = [worker EXCEPT ![w] = IdleWorker]
      PROVE  \A u \in Workers : KeepsRun(u)
  BY <1>a, <1>2 DEF IdleWorker, KeepsRun, InLoop, Finishing
<1>3. CASE ReadJob(w)
  BY <1>1, <1>3 DEF ReadJob, jobVars, InLoop, Finishing
<1>4. CASE CancelBeforeStart(w) \/ ClaimJob(w) \/ SetStartedAt(w)
  BY <1>1, <1>4 DEF CancelBeforeStart, ClaimJob, SetStartedAt, InLoop, Finishing
<1>5. CASE ReconcileJobProgress(w)
  BY <1>1, <1>5 DEF ReconcileJobProgress, LoopLabel, InLoop
<1>6. CASE IsCancelRequested(w)
  BY <1>1, <1>6 DEF IsCancelRequested, jobVars, InLoop, Finishing
<1>7. CASE PutChunk(w)
  BY <1>1, <1>7 DEF PutChunk, jobVars
<1>8. CASE CancelMidRun(w) \/ DeleteChunks(w) \/ SetVerifying(w)
  BY <1>1, <1>8 DEF CancelMidRun, DeleteChunks, SetVerifying, jobVars, InLoop, Finishing
<1>9. CASE AssembleChunk(w) \/ AssemblyFails(w)
  <2>1. ASSUME NEW n, NEW lines, worker[w].pc = "assemble",
               worker' = [worker EXCEPT ![w].nextChunk = n, ![w].assembled = lines]
        PROVE  \A u \in Workers : KeepsRun(u)
    BY <1>a, <2>1 DEF KeepsRun, InLoop, Finishing, WorkerState
  <2>. QED
    BY <1>1, <1>2, <1>9, <2>1 DEF AssembleChunk, AssemblyFails, jobVars, InLoop, Finishing
<1>10. CASE UploadFinalCsv(w) \/ VerifyExportFile(w) \/ RecordVerdict(w)
  <2>1. /\ UNCHANGED <<checkpoints, snapshotMaxId>>
        /\ \A u \in Workers : u # w => worker'[u] = worker[u]
    BY <1>a, <1>10 DEF UploadFinalCsv, VerifyExportFile, RecordVerdict, jobVars
  <2>2. /\ worker'[w].pc \in {"verify", "recordVerdict", "complete", "keepRejected"}
        /\ worker[w].pc \in Finishing
    BY <1>a, <1>10 DEF UploadFinalCsv, VerifyExportFile, RecordVerdict, WorkerState, Finishing
  <2>. QED
    BY <2>1, <2>2 DEF KeepsRun, InLoop
<1>11. CASE KeepRejectedFile(w) \/ CompleteJob(w) \/ FailJob(w)
  BY <1>1, <1>11 DEF KeepRejectedFile, CompleteJob, FailJob, InLoop, Finishing
<1>12. CASE RunFault(w)
  BY <1>1, <1>2, <1>12 DEF RunFault, DeleteChunksThrows, StepThrows, Crash, jobVars, InLoop,
     Finishing
<1>. QED
  BY <1>3, <1>4, <1>5, <1>6, <1>7, <1>8, <1>9, <1>10, <1>11, <1>12 DEF RunStep

(* Past the cross-check the log is full.                                    *)
LEMMA CrossCheckedRun ==
    ASSUME LogInv, NEW w \in Workers, CrossCheckLog(w), \A u \in Workers : RunInv(u)
    PROVE  \A u \in Workers : RunInv(u)'
<1>a. worker \in [Workers -> WorkerState]
  BY DEF LogInv, TypeOK
<1>1. UNCHANGED <<checkpoints, snapshotMaxId>>
  BY DEF CrossCheckLog, jobVars
<1>2. CASE Advance(w, "failThrow") \/ Advance(w, "failReturn")
  <2>1. \A u \in Workers : KeepsRun(u)
    BY <1>a, <1>2 DEF Advance, KeepsRun, InLoop, Finishing, WorkerState
  <2>. QED
    BY <1>1, <2>1, RunKept
<1>3. CASE /\ RowsWritten(checkpoints) = RequestedRowLimit
           /\ worker' = [worker EXCEPT ![w].pc = "setVerifying",
                                       ![w].batchCount = Cardinality(checkpoints)]
  <2>1. \A u \in Workers : u # w => KeepsRun(u)
    <3>1. \A u \in Workers : u # w => worker'[u] = worker[u]
      BY <1>a, <1>3
    <3>. QED
      BY <3>1 DEF KeepsRun
  <2>2. worker'[w].pc = "setVerifying"
    BY <1>a, <1>3 DEF WorkerState
  <2>3. RunInv(w)'
    BY <1>1, <1>3, <2>2 DEF RunInv, InLoop
  <2>. QED
    BY <1>1, <2>1, <2>3, RunKept
<1>. QED
  BY <1>2, <1>3 DEF CrossCheckLog

-----------------------------------------------------------------------------
(* The transaction.  Either the unique constraint refuses it, or it appends *)
(* the next page of the log and moves the progress of the row to it.        *)
LEMMA RefusedCheckpoint ==
    ASSUME LogInv, NEW w \in Workers, Checkpoint(w), UniqueViolation(worker[w].batchNumber)
    PROVE  /\ UNCHANGED <<checkpoints, snapshotMaxId, job>>
           /\ \A u \in Workers : KeepsRun(u)
<1>1. UNCHANGED <<checkpoints, snapshotMaxId, job>> /\ Advance(w, "failThrow")
  BY DEF Checkpoint
<1>2. worker \in [Workers -> WorkerState]
  BY DEF LogInv, TypeOK
<1>3. \A u \in Workers : KeepsRun(u)
  BY <1>1, <1>2 DEF Advance, KeepsRun, InLoop, Finishing, WorkerState
<1>. QED
  BY <1>1, <1>3

LEMMA AcceptedCheckpoint ==
    ASSUME ProgressInv, NEW w \in Workers, Checkpoint(w),
           ~UniqueViolation(worker[w].batchNumber)
    PROVE  /\ BatchesAreNumbered'
           /\ LogRises'
           /\ \A u \in Workers : RunInv(u)'
           /\ ProgressIsLogged'
           /\ Log!AppendPage
<1>a. /\ LogInv /\ BatchesAreNumbered /\ LogRises /\ TypeOK
      /\ \A u \in Workers : RunInv(u)
  BY RunInvParts DEF ProgressInv, LogInv
<1>b. /\ worker \in [Workers -> WorkerState]
      /\ worker[w] \in WorkerState
      /\ checkpoints \in SUBSET ExportCheckpoint
      /\ IsFiniteSet(checkpoints)
      /\ BatchSize \in Nat /\ RequestedRowLimit \in Nat /\ MaxRecordId \in Nat
      /\ snapshotMaxId \in Nat
      /\ job \in ExportJob
  BY <1>a, StateAssumption DEF LogInv, TypeOK
<1>c. /\ worker[w].pc = "checkpoint"
      /\ CursorInLog(w) /\ CountInLog(w) /\ PageIsAhead(w)
      /\ worker[w].exportedRowCount + Cardinality(worker[w].batch) <= RequestedRowLimit
      /\ \A r \in worker[w].batch : r <= snapshotMaxId
  BY <1>a DEF Checkpoint, LogInv, RunInv, InLoop
<1>. DEFINE b     == worker[w].batchNumber
            rows  == Cardinality(worker[w].batch)
            total == worker[w].exportedRowCount + rows
<1>1. PICK id \in worker[w].batch :
        /\ checkpoints' = checkpoints \cup
              {[batchNumber |-> b, lastRecordId |-> id, rowsWritten |-> rows]}
        /\ job' = [job EXCEPT !.lastExportedId = id,
                              !.exportedRowCount = total,
                              !.heartbeat = "fresh"]
        /\ worker' = [worker EXCEPT ![w].pc = LoopLabel(total),
                                    ![w].batchNumber = @ + 1,
                                    ![w].lastExportedId = id,
                                    ![w].exportedRowCount = total,
                                    ![w].batch = {}]
        /\ snapshotMaxId' = snapshotMaxId
  BY DEF Checkpoint, BatchLastId
<1>. DEFINE c == [batchNumber |-> b, lastRecordId |-> id, rowsWritten |-> rows]
<1>2. Appends(w, id)
  BY <1>1 DEF Appends, UniqueViolation
<1>3. /\ b \in {1} \cup {d.batchNumber + 1 : d \in checkpoints}
      /\ BatchNumbers = 1 .. (b - 1)
      /\ \A d \in checkpoints : d.batchNumber < b
      /\ \A d \in checkpoints : d.lastRecordId < id
  BY <1>2, <1>a, <1>c, AppendedIsNext
<1>4. /\ id \in Nat \ {0} /\ id <= snapshotMaxId /\ b \in Nat \ {0}
      /\ \A d \in checkpoints : d.batchNumber \in Nat /\ d.lastRecordId \in Nat
  BY <1>b, <1>c, <1>3 DEF WorkerState, ExportCheckpoint
<1>5. rows \in 1 .. BatchSize /\ worker[w].exportedRowCount \in Nat
  <2>1. IsFiniteSet(worker[w].batch) /\ rows \in Nat
    BY <1>b, PageCardinality DEF WorkerState
  <2>2. rows # 0
    BY <2>1, FS_EmptySet
  <2>. QED
    BY <1>b, <1>c, <2>1, <2>2 DEF PageIsAhead, WorkerState
<1>6. c \notin checkpoints /\ c.rowsWritten = rows
  BY <1>3, <1>4
<1>7. worker[w].exportedRowCount = RowsWritten(checkpoints)
  <2>1. {d \in checkpoints : d.batchNumber < b} = checkpoints
    BY <1>3
  <2>. QED
    BY <1>c, <2>1 DEF CountInLog
<1>8. RowsWritten(checkpoints') = total
  <2>1. rows \in 0 .. BatchSize
    BY <1>5
  <2>2. RowsWritten(checkpoints \cup {c}) = RowsWritten(checkpoints) + c.rowsWritten
    BY <1>b, <1>6, <2>1, RowsOfLongerLog
  <2>. QED
    BY <1>1, <1>6, <1>7, <2>2
<1>9. BatchesAreNumbered'
  <2>1. BatchNumbers' = BatchNumbers \cup {b}
    <3>1. checkpoints' = checkpoints \cup {c} /\ c.batchNumber = b
      BY <1>1
    <3>. HIDE DEF c, b
    <3>. QED
      BY <3>1 DEF BatchNumbers
  <2>2. BatchNumbers' = 1 .. b /\ b \in BatchNumbers'
    BY <1>3, <1>4, <2>1
  <2>. QED
    BY <2>2 DEF BatchesAreNumbered
<1>10. LogRises'
  <2>1. ASSUME NEW d \in checkpoints', NEW e \in checkpoints', d.batchNumber < e.batchNumber
        PROVE  d.lastRecordId < e.lastRecordId
    <3>1. CASE d \in checkpoints /\ e \in checkpoints
      BY <1>a, <2>1, <3>1 DEF LogRises
    <3>2. CASE d \in checkpoints /\ e = c
      BY <1>3, <3>2
    <3>3. CASE d = c
      BY <1>1, <1>3, <1>4, <2>1, <3>3
    <3>. QED
      BY <1>1, <3>1, <3>2, <3>3
  <2>. QED
    BY <2>1 DEF LogRises
<1>11. ASSUME NEW u \in Workers PROVE RunInv(u)'
  <2>1. CASE u = w
    <3>1. /\ worker'[w].pc \notin {"put", "checkpoint"} \cup Finishing
          /\ worker'[w].batchNumber = b + 1
          /\ worker'[w].lastExportedId = id
          /\ worker'[w].exportedRowCount = total
      BY <1>b, <1>1 DEF LoopLabel, Finishing, WorkerState
    <3>2. CursorInLog(w)'
      <4>1. c \in checkpoints' /\ c.batchNumber = b /\ c.lastRecordId = id
        BY <1>1
      <4>. QED
        BY <3>1, <4>1, Zenon DEF CursorInLog
    <3>3. {d \in checkpoints' : d.batchNumber < b + 1} = checkpoints'
      BY <1>1, <1>3, <1>4
    <3>. QED
      BY <1>8, <2>1, <3>1, <3>2, <3>3 DEF RunInv, CountInLog
  <2>2. CASE u # w
    <3>1. worker'[u] = worker[u] /\ worker[u] \in WorkerState
      BY <1>b, <1>1, <2>2
    <3>2. worker[u].pc \notin Finishing
      BY <1>a, <1>b, <1>c, <1>5, <1>7 DEF RunInv
    <3>3. ASSUME worker[u].pc \in InLoop
          PROVE  CursorInLog(u)' /\ CountInLog(u)'
      <4>1. CursorInLog(u) /\ CountInLog(u)
        BY <1>a, <3>3 DEF RunInv
      <4>2. worker[u].batchNumber <= b
        BY <1>3, <1>4, <3>1, <4>1 DEF CursorInLog, WorkerState
      <4>3. {d \in checkpoints' : d.batchNumber < worker[u].batchNumber}
              = {d \in checkpoints : d.batchNumber < worker[u].batchNumber}
        BY <1>1, <1>4, <3>1, <4>2 DEF WorkerState
      <4>4. CursorInLog(u)'
        BY <1>1, <3>1, <4>1 DEF CursorInLog
      <4>. QED
        BY <3>1, <4>1, <4>3, <4>4 DEF CountInLog
    <3>. QED
      BY <1>a, <1>1, <3>1, <3>2, <3>3 DEF RunInv
  <2>. QED
    BY <2>1, <2>2
<1>12. ProgressIsLogged'
  <2>1. job'.lastExportedId = id /\ job'.exportedRowCount = total
    BY <1>b, <1>1 DEF ExportJob
  <2>2. c \in checkpoints' /\ c.lastRecordId = id
    BY <1>1
  <2>3. {d \in checkpoints' : d.lastRecordId <= id} = checkpoints'
    BY <1>1, <1>3, <1>4
  <2>. QED
    BY <1>8, <2>1, <2>2, <2>3 DEF ProgressIsLogged
<1>13. Log!AppendPage
  <2>1. id \in 1 .. snapshotMaxId
    BY <1>b, <1>4
  <2>2. Log!TotalRows = RowsWritten(checkpoints)
    BY Zenon DEF Log!TotalRows, RowsWritten, Log!Cardinality, Cardinality
  <2>3. Log!TotalRows + rows <= RequestedRowLimit
    BY <1>c, <1>7, <2>2
  <2>4. (job'.status = "COMPLETED") = (job.status = "COMPLETED")
    BY <1>b, <1>1 DEF ExportJob
  <2>. QED
    BY <1>1, <1>3, <1>5, <2>1, <2>3, <2>4 DEF Log!AppendPage
<1>. QED
  BY <1>9, <1>10, <1>11, <1>12, <1>13

-----------------------------------------------------------------------------
(* Which steps move the progress of the row, and which write COMPLETED.     *)
KeepsProgress == /\ job'.lastExportedId = job.lastExportedId
                 /\ job'.exportedRowCount = job.exportedRowCount

KeepsCompleted == job'.status = "COMPLETED" => job.status = "COMPLETED"

LEMMA RunWritesJob ==
    ASSUME LogInv, NEW w \in Workers, RunStep(w) \/ RunFault(w)
    PROVE  /\ ReconcileJobProgress(w) \/ Checkpoint(w) \/ KeepsProgress
           /\ CompleteJob(w) \/ KeepsCompleted
<1>a. job \in ExportJob
  BY DEF LogInv, TypeOK
<1>1. CASE UNCHANGED job
  BY <1>1 DEF KeepsProgress, KeepsCompleted
<1>2. CASE \/ CancelBeforeStart(w) \/ ClaimJob(w) \/ SetStartedAt(w) \/ CancelMidRun(w)
           \/ SetVerifying(w) \/ KeepRejectedFile(w) \/ FailJob(w)
  BY <1>a, <1>2 DEF CancelBeforeStart, ClaimJob, SetStartedAt, CancelMidRun, SetVerifying,
     KeepRejectedFile, FailJob, WithStatus, ExportJob, KeepsProgress, KeepsCompleted
<1>3. CASE CompleteJob(w)
  BY <1>a, <1>3 DEF CompleteJob, WithStatus, ExportJob, KeepsProgress
<1>4. CASE ReconcileJobProgress(w) \/ Checkpoint(w)
  <2>1. job'.status = job.status
    BY <1>a, <1>4 DEF ReconcileJobProgress, Checkpoint, ExportJob
  <2>. QED
    BY <1>4, <2>1 DEF KeepsCompleted
<1>5. CASE \/ ReadJob(w) \/ LoadResumeState(w) \/ IsCancelRequested(w) \/ DeleteChunks(w)
           \/ FetchRecordBatch(w) \/ PutChunk(w) \/ CrossCheckLog(w) \/ AssembleChunk(w)
           \/ UploadFinalCsv(w) \/ AssemblyFails(w) \/ VerifyExportFile(w) \/ RecordVerdict(w)
           \/ RunFault(w)
  <2>1. UNCHANGED job
    BY <1>5 DEF ReadJob, LoadResumeState, IsCancelRequested, DeleteChunks, FetchRecordBatch,
       PutChunk, CrossCheckLog, AssembleChunk, UploadFinalCsv, AssemblyFails,
       VerifyExportFile, RecordVerdict, RunFault, DeleteChunksThrows, StepThrows, Crash, jobVars
  <2>. QED
    BY <1>1, <2>1
<1>. QED
  BY <1>2, <1>3, <1>4, <1>5 DEF RunStep

OtherStep ==
    \/ \E h \in Handlers : HandlerStep(h) \/ RequestAborts(h)
    \/ \E r \in Requests : RequestArrives(r)
    \/ QueueStep \/ QueueFault
    \/ SweepStep \/ SweepAborts
    \/ HeartbeatExpires
    \/ RecordTraffic
    \/ UNCHANGED vars

LEMMA OtherWritesJob ==
    ASSUME LogInv, OtherStep
    PROVE  /\ CreateExportJob \/ KeepsProgress
           /\ KeepsCompleted
<1>a. job \in ExportJob
  BY DEF LogInv, TypeOK
<1>1. CASE UNCHANGED job
  BY <1>1 DEF KeepsProgress, KeepsCompleted
<1>2. CASE CreateExportJob
  BY <1>2 DEF CreateExportJob, NoJob, KeepsCompleted
<1>3. CASE MarkQueued \/ ListStalled \/ MarkInterrupted \/ HeartbeatExpires
  BY <1>a, <1>3 DEF MarkQueued, ListStalled, MarkInterrupted, HeartbeatExpires, WithStatus,
     ExportJob, KeepsProgress, KeepsCompleted
<1>4. ASSUME NEW h \in Handlers, MarkResuming(h) \/ CancelWrite(h)
      PROVE  KeepsProgress /\ KeepsCompleted
  BY <1>a, <1>4 DEF MarkResuming, CancelWrite, WithStatus, ExportJob, KeepsProgress,
     KeepsCompleted
<1>5. ASSUME NEW h \in Handlers, CaptureSnapshotMaxId \/ VerifyScan(h) \/ VerifyRecord(h)
                                 \/ EnqueueStep(h) \/ RequestAborts(h)
      PROVE  UNCHANGED job
  BY <1>5 DEF CaptureSnapshotMaxId, VerifyScan, VerifyRecord, EnqueueStep, InspectEntry,
     RemoveEntry, AddEntry, RequestAborts, jobVars
<1>6. CASE \/ \E r \in Requests : RequestArrives(r)
           \/ QueueStep \/ QueueFault \/ SweepAborts \/ RecordTraffic \/ UNCHANGED vars
  <2>1. UNCHANGED job
    BY <1>6 DEF RequestArrives, ResumeRead, CancelRead, VerifyRead, QueueStep, PickUp,
       ProcessorReturns, ProcessorThrows, BackoffElapses, ReclaimFromDead, QueueFault,
       ReclaimFromLive, RedisRestarts, SweepAborts, RecordTraffic, InsertRecord, BeginInsert,
       CommitInsert, DeleteRecord, vars, jobVars
  <2>. QED
    BY <1>1, <2>1
<1>. QED
  BY <1>1, <1>2, <1>3, <1>4, <1>5, <1>6 DEF OtherStep, HandlerStep, CreateStep, SweepStep,
     Handlers

(* Where a run stands, the ids up to its cursor are those of the batches    *)
(* before its next one.                                                     *)
LEMMA CursorSplitsLog ==
    ASSUME LogInv, BatchesAreNumbered, LogRises, NEW w \in Workers, CursorInLog(w)
    PROVE  {c \in checkpoints : c.lastRecordId <= worker[w].lastExportedId}
             = {c \in checkpoints : c.batchNumber < worker[w].batchNumber}
<1>a. /\ checkpoints \in SUBSET ExportCheckpoint
      /\ \A c, d \in checkpoints : c.batchNumber = d.batchNumber => c = d
      /\ \A c \in checkpoints : c.lastRecordId # 0
      /\ worker[w] \in WorkerState
  BY DEF LogInv, TypeOK, LogIsSound, OneCheckpointPerBatch, LogIsRefused, NotIncreasing
<1>b. \A c \in checkpoints : c.batchNumber \in Nat /\ c.lastRecordId \in Nat
  BY <1>a DEF ExportCheckpoint
<1>c. \A c \in checkpoints : c.batchNumber # 0
  BY <1>b DEF BatchesAreNumbered, BatchNumbers
<1>1. CASE worker[w].batchNumber = 1 /\ worker[w].lastExportedId = 0
  BY <1>a, <1>b, <1>c, <1>1
<1>2. ASSUME NEW p \in checkpoints, p.batchNumber + 1 = worker[w].batchNumber,
             p.lastRecordId = worker[w].lastExportedId
      PROVE  \A c \in checkpoints : c.lastRecordId <= p.lastRecordId
                                       <=> c.batchNumber < p.batchNumber + 1
  <2>1. ASSUME NEW c \in checkpoints
        PROVE  c.lastRecordId <= p.lastRecordId <=> c.batchNumber < p.batchNumber + 1
    <3>1. CASE c.batchNumber < p.batchNumber
      BY <1>b, <3>1 DEF LogRises
    <3>2. CASE p.batchNumber < c.batchNumber
      BY <1>b, <3>2 DEF LogRises
    <3>3. CASE p.batchNumber = c.batchNumber
      BY <1>a, <1>b, <3>3
    <3>. QED
      BY <1>b, <3>1, <3>2, <3>3
  <2>. QED
    BY <2>1
<1>. QED
  BY <1>1, <1>2 DEF CursorInLog

LEMMA ProgressKept ==
    ASSUME ProgressInv, UNCHANGED checkpoints,
           \/ \E w \in Workers : ReconcileJobProgress(w)
           \/ CreateExportJob
           \/ KeepsProgress
    PROVE  ProgressIsLogged'
<1>a. job \in ExportJob /\ LogInv /\ BatchesAreNumbered /\ LogRises /\ ProgressIsLogged
  BY DEF ProgressInv, LogInv, TypeOK
<1>b. \A c \in checkpoints : c.lastRecordId \in Nat /\ c.lastRecordId # 0
  BY <1>a DEF LogInv, TypeOK, LogIsSound, LogIsRefused, NotIncreasing, ExportCheckpoint
<1>1. CASE KeepsProgress
  BY <1>a, <1>1 DEF KeepsProgress, ProgressIsLogged
<1>2. CASE CreateExportJob /\ ~KeepsProgress
  <2>1. job'.lastExportedId = 0 /\ job'.exportedRowCount = 0
    BY <1>2 DEF CreateExportJob, NoJob, KeepsProgress
  <2>2. {c \in checkpoints : c.lastRecordId <= 0} = {}
    BY <1>b
  <2>. QED
    BY <2>1, <2>2, RowsOfEmptyLog DEF ProgressIsLogged
<1>3. ASSUME NEW w \in Workers, ReconcileJobProgress(w)
      PROVE  ProgressIsLogged'
  <2>1. CursorInLog(w) /\ CountInLog(w)
    BY <1>3 DEF ProgressInv, CursorsAreLogged, ReconcileJobProgress, InLoop
  <2>2. /\ job'.lastExportedId = worker[w].lastExportedId
        /\ job'.exportedRowCount = worker[w].exportedRowCount
    BY <1>a, <1>3 DEF ReconcileJobProgress, JobAgrees, ExportJob
  <2>3. {c \in checkpoints : c.lastRecordId <= worker[w].lastExportedId}
          = {c \in checkpoints : c.batchNumber < worker[w].batchNumber}
    BY <1>a, <2>1, CursorSplitsLog
  <2>4. worker[w].lastExportedId \in {0} \cup {c.lastRecordId : c \in checkpoints}
    BY <2>1 DEF CursorInLog
  <2>. QED
    BY <2>1, <2>2, <2>3, <2>4 DEF CountInLog, ProgressIsLogged
<1>. QED
  BY <1>1, <1>2, <1>3

-----------------------------------------------------------------------------
(* The steps outside runs leave runs alone.  The boundary is captured while *)
(* nothing has begun.                                                       *)
LEMMA OtherStepKeepsRuns ==
    ASSUME ProgressInv, OtherStep
    PROVE  /\ UNCHANGED checkpoints
           /\ \A u \in Workers : RunInv(u)'
           /\ CaptureSnapshotMaxId \/ UNCHANGED snapshotMaxId
<1>a. /\ LogInv /\ worker \in [Workers -> WorkerState]
      /\ \A u \in Workers : RunInv(u)
  BY RunInvParts DEF ProgressInv, LogInv, TypeOK
<1>1. CASE CaptureSnapshotMaxId
  <2>1. UNCHANGED <<checkpoints, worker>> /\ \A u \in Workers : worker[u].pc = "idle"
    BY <1>1 DEF CaptureSnapshotMaxId, ProgressInv, NothingBeforeBoundary, NotBegun
  <2>. QED
    BY <1>1, <2>1 DEF RunInv, InLoop, Finishing
<1>2. ASSUME UNCHANGED <<checkpoints, snapshotMaxId>>, \A u \in Workers : KeepsRun(u)
      PROVE  \A u \in Workers : RunInv(u)'
  BY <1>a, <1>2, RunKept
<1>3. ASSUME NEW w \in Workers, PickUp(w) \/ ProcessorReturns(w) \/ ProcessorThrows(w)
      PROVE  /\ UNCHANGED <<checkpoints, snapshotMaxId>>
             /\ \A u \in Workers : KeepsRun(u)
  <2>1. UNCHANGED <<checkpoints, snapshotMaxId>>
    BY <1>3 DEF PickUp, ProcessorReturns, ProcessorThrows, jobVars
  <2>2. \A u \in Workers : u # w => worker'[u] = worker[u]
    BY <1>a, <1>3 DEF PickUp, ProcessorReturns, ProcessorThrows
  <2>3. worker'[w].pc \in {"read", "idle"}
    BY <1>a, <1>3 DEF PickUp, ProcessorReturns, ProcessorThrows, IdleWorker, WorkerState
  <2>. QED
    BY <2>1, <2>2, <2>3 DEF KeepsRun, InLoop, Finishing
<1>4. ASSUME NEW h \in Handlers,
             \/ h = Creator /\ (CreateExportJob \/ MarkQueued)
             \/ h \in Requests /\ (MarkResuming(h) \/ CancelWrite(h)
                                    \/ VerifyScan(h) \/ VerifyRecord(h))
             \/ EnqueueStep(h) \/ RequestAborts(h)
      PROVE  worker' = worker /\ UNCHANGED <<checkpoints, snapshotMaxId>>
  BY <1>4 DEF CreateExportJob, MarkQueued, MarkResuming, CancelWrite, VerifyScan,
     VerifyRecord, EnqueueStep, InspectEntry, RemoveEntry, AddEntry, RequestAborts, jobVars
<1>5. ASSUME \/ BackoffElapses \/ ReclaimFromDead \/ QueueFault
             \/ \E r \in Requests : RequestArrives(r)
             \/ SweepStep \/ SweepAborts
             \/ HeartbeatExpires
             \/ RecordTraffic
             \/ UNCHANGED vars
      PROVE  worker' = worker /\ UNCHANGED <<checkpoints, snapshotMaxId>>
  BY <1>5 DEF BackoffElapses, ReclaimFromDead, QueueFault, ReclaimFromLive, RedisRestarts,
     RequestArrives, ResumeRead, CancelRead, VerifyRead, SweepStep, ListStalled,
     MarkInterrupted, SweepAborts, HeartbeatExpires, RecordTraffic, InsertRecord, BeginInsert,
     CommitInsert, DeleteRecord, vars, jobVars
<1>6. worker' = worker => \A u \in Workers : KeepsRun(u)
  BY DEF KeepsRun
<1>. QED
  BY <1>1, <1>2, <1>3, <1>4, <1>5, <1>6 DEF OtherStep, HandlerStep, CreateStep, QueueStep

LEMMA BoundaryComesFirst ==
    ASSUME ProgressInv, [Next]_vars
    PROVE  NothingBeforeBoundary'
<1>. SUFFICES ASSUME request'[Creator].pc = "snapshot" PROVE NotBegun'
  BY DEF NothingBeforeBoundary
<1>a. /\ request \in [Handlers -> RequestState] /\ worker \in [Workers -> WorkerState]
      /\ Creator \in Handlers /\ Requests \subseteq Handlers /\ Creator \notin Requests
      /\ queue \in QueueEntry /\ NoWorker \notin Workers
  BY StateAssumption DEF ProgressInv, LogInv, TypeOK, Handlers
<1>1. ASSUME NEW h \in Handlers, NEW label, Goto(h, label), label # "snapshot"
      PROVE  request[Creator].pc = "snapshot"
             /\ h # Creator
  BY <1>a, <1>1 DEF Goto, RequestState
<1>2. ASSUME NEW r \in Requests, RequestArrives(r) \/ VerifyScan(r)
      PROVE  request[Creator].pc = "snapshot"
  BY <1>a, <1>2 DEF RequestArrives, ResumeRead, CancelRead, VerifyRead, Begin, VerifyScan
<1>3. request[Creator].pc = "snapshot"
  <2>1. CASE request' = request
    BY <2>1
  <2>2. ASSUME NEW h \in Handlers,
               HandlerStep(h) \/ RequestAborts(h), ~(h \in Requests /\ VerifyScan(h))
        PROVE  request[Creator].pc = "snapshot"
    BY <1>a, <1>1, <2>2 DEF HandlerStep, CreateStep, CaptureSnapshotMaxId, CreateExportJob,
       MarkQueued, MarkResuming, CancelWrite, VerifyRecord, EnqueueStep, InspectEntry,
       AfterInspect, AfterEnqueue, RemoveEntry, AddEntry, RequestAborts
  <2>3. ASSUME NEW w \in Workers, RunStep(w) \/ RunFault(w)
        PROVE  request' = request
    BY <2>3 DEF RunStep, RunFault, ReadJob, CancelBeforeStart, ClaimJob, SetStartedAt,
       LoadResumeState, ReconcileJobProgress, IsCancelRequested, CancelMidRun, DeleteChunks,
       FetchRecordBatch, PutChunk, Checkpoint, CrossCheckLog, SetVerifying, AssembleChunk,
       UploadFinalCsv, AssemblyFails, VerifyExportFile, RecordVerdict, KeepRejectedFile,
       CompleteJob, FailJob, DeleteChunksThrows, StepThrows, Crash
  <2>4. ASSUME \/ QueueStep \/ QueueFault \/ SweepStep \/ SweepAborts \/ HeartbeatExpires
               \/ RecordTraffic \/ UNCHANGED vars
        PROVE  request' = request
    BY <2>4 DEF QueueStep, PickUp, ProcessorReturns, ProcessorThrows, BackoffElapses,
       ReclaimFromDead, QueueFault, ReclaimFromLive, RedisRestarts, SweepStep, ListStalled,
       MarkInterrupted, SweepAborts, HeartbeatExpires, RecordTraffic, InsertRecord,
       BeginInsert, CommitInsert, DeleteRecord, vars
  <2>. QED
    BY <1>2, <2>1, <2>2, <2>3, <2>4 DEF Next
<1>4. NotBegun
  BY <1>3 DEF ProgressInv, NothingBeforeBoundary
<1>5. job.status = "ABSENT" /\ ~job.fileKey
  BY <1>4 DEF NotBegun, NoJob
<1>6. ASSUME NEW w \in Workers
      PROVE  ~RunStep(w) /\ ~RunFault(w)
  <2>1. worker[w].pc = "idle"
    BY <1>4 DEF NotBegun
  <2>2. ~RunStep(w)
    BY <2>1 DEF RunStep, ReadJob, CancelBeforeStart, ClaimJob, SetStartedAt,
       LoadResumeState, ReconcileJobProgress, IsCancelRequested, CancelMidRun, DeleteChunks,
       FetchRecordBatch, PutChunk, Checkpoint, CrossCheckLog, SetVerifying, AssembleChunk,
       UploadFinalCsv, AssemblyFails, VerifyExportFile, RecordVerdict, KeepRejectedFile,
       CompleteJob, FailJob
  <2>3. ~RunFault(w)
    BY <2>1 DEF RunFault, DeleteChunksThrows, StepThrows, Crash, BeforeTry, InTry
  <2>. QED
    BY <2>2, <2>3
<1>7. ASSUME NEW h \in Handlers, HandlerStep(h) \/ RequestAborts(h)
      PROVE  FALSE
  <2>1. CASE h = Creator
    <3>1. CASE Goto(Creator, "create") \/ Goto(Creator, "done")
      BY <1>1, <1>a, <3>1
    <3>2. Goto(Creator, "create") \/ Goto(Creator, "done")
      BY <1>3, <1>7, <1>a, <2>1 DEF HandlerStep, CreateStep, CaptureSnapshotMaxId,
         CreateExportJob, MarkQueued, EnqueueStep, InspectEntry, RemoveEntry, AddEntry,
         RequestAborts
    <3>. QED
      BY <3>1, <3>2
  <2>2. CASE h \in Requests /\ h # Creator
    <3>1. request[h].pc = "idle"
      BY <1>4, <2>2 DEF NotBegun
    <3>. QED
      BY <1>7, <2>2, <3>1 DEF HandlerStep, MarkResuming, CancelWrite, VerifyScan,
         VerifyRecord, EnqueueStep, InspectEntry, RemoveEntry, AddEntry, RequestAborts
  <2>. QED
    BY <1>a, <2>1, <2>2 DEF Handlers
<1>8. ASSUME NEW r \in Requests, RequestArrives(r)
      PROVE  FALSE
  BY <1>5, <1>8 DEF RequestArrives, ResumeRead, CancelRead, VerifyRead, RESUMABLE_FOR_USER,
     CANCELLABLE
<1>9. ~QueueStep /\ ~QueueFault
  <2>1. queue.state = "absent" /\ \A w \in Workers : worker[w].pc = "idle"
    BY <1>4 DEF NotBegun
  <2>. QED
    BY <2>1 DEF QueueStep, PickUp, ProcessorReturns, ProcessorThrows, BackoffElapses,
       ReclaimFromDead, QueueFault, ReclaimFromLive, RedisRestarts
<1>10. ASSUME SweepStep \/ SweepAborts \/ HeartbeatExpires \/ RecordTraffic \/ UNCHANGED vars
       PROVE  UNCHANGED <<job, checkpoints, queue, worker, request>>
  BY <1>5, <1>10 DEF SweepStep, ListStalled, MarkInterrupted, StillStalled, SweepAborts,
     HeartbeatExpires, RecordTraffic, InsertRecord, BeginInsert, CommitInsert, DeleteRecord,
     vars, jobVars
<1>11. UNCHANGED <<job, checkpoints, queue, worker, request>>
  BY <1>6, <1>7, <1>8, <1>9, <1>10 DEF Next
<1>. QED
  BY <1>4, <1>11 DEF NotBegun

-----------------------------------------------------------------------------
LEMMA InitProgressInv == Init => ProgressInv
<1>. SUFFICES ASSUME Init PROVE ProgressInv
  OBVIOUS
<1>1. LogInv
  BY InitLogInv
<1>2. BatchesAreNumbered
  <2>1. BatchNumbers = {} /\ 1 .. 0 = {}
    BY DEF Init, BatchNumbers
  <2>. QED
    BY <2>1 DEF BatchesAreNumbered
<1>3. LogRises
  BY DEF Init, LogRises
<1>4. CursorsAreLogged /\ PagesFit /\ FullBeyondLoop
  BY DEF Init, IdleWorker, CursorsAreLogged, PagesFit, FullBeyondLoop, InLoop, Finishing
<1>5. ProgressIsLogged
  <2>1. job.lastExportedId = 0 /\ job.exportedRowCount = 0 /\ checkpoints = {}
    BY DEF Init, NoJob
  <2>2. {c \in checkpoints : c.lastRecordId <= 0} = {}
    BY <2>1
  <2>. QED
    BY <2>1, <2>2, RowsOfEmptyLog DEF ProgressIsLogged
<1>6. NothingBeforeBoundary
  <2>1. \A r \in Requests : request[r].pc = "idle"
    BY StateAssumption DEF Init, Handlers
  <2>. QED
    BY <2>1 DEF Init, NothingBeforeBoundary, NotBegun, NoEntry, IdleWorker
<1>. QED
  BY <1>1, <1>2, <1>3, <1>4, <1>5, <1>6 DEF ProgressInv

(* A step of a run appends the next page, or leaves the log as it is; it    *)
(* keeps every part of the invariant.                                       *)
LEMMA RunStepProgress ==
    ASSUME ProgressInv, NEW w \in Workers, RunStep(w) \/ RunFault(w)
    PROVE  /\ BatchesAreNumbered' /\ LogRises' /\ ProgressIsLogged'
           /\ \A u \in Workers : RunInv(u)'
           /\ \/ Log!AppendPage
              \/ /\ UNCHANGED <<checkpoints, snapshotMaxId>>
                 /\ CompleteJob(w) \/ KeepsCompleted
<1>a. /\ LogInv /\ BatchesAreNumbered /\ LogRises /\ ProgressIsLogged
      /\ \A u \in Workers : RunInv(u)
  BY RunInvParts DEF ProgressInv
<1>1. CASE Checkpoint(w) /\ ~UniqueViolation(worker[w].batchNumber)
  BY <1>1, AcceptedCheckpoint
<1>2. CASE ~(Checkpoint(w) /\ ~UniqueViolation(worker[w].batchNumber))
  <2>1. UNCHANGED <<checkpoints, snapshotMaxId>> /\ \A u \in Workers : RunInv(u)'
    <3>1. CASE Checkpoint(w)
      BY <1>2, <1>a, <3>1, RefusedCheckpoint, RunKept
    <3>2. CASE LoadResumeState(w)
      BY <1>a, <3>2, LoadedRun DEF LoadResumeState, jobVars
    <3>3. CASE FetchRecordBatch(w)
      BY <1>a, <3>3, FetchedRun DEF FetchRecordBatch, jobVars
    <3>4. CASE CrossCheckLog(w)
      BY <1>a, <3>4, CrossCheckedRun DEF CrossCheckLog, jobVars
    <3>5. CASE ~Checkpoint(w) /\ ~LoadResumeState(w) /\ ~FetchRecordBatch(w) /\ ~CrossCheckLog(w)
      BY <1>a, <3>5, QuietRun, RunKept
    <3>. QED
      BY <3>1, <3>2, <3>3, <3>4, <3>5
  <2>2. BatchesAreNumbered' /\ LogRises'
    BY <1>a, <2>1 DEF BatchesAreNumbered, BatchNumbers, LogRises
  <2>3. ReconcileJobProgress(w) \/ KeepsProgress
    <3>1. CASE Checkpoint(w)
      BY <1>2, <1>a, <3>1, RefusedCheckpoint DEF KeepsProgress
    <3>. QED
      BY <1>a, <3>1, RunWritesJob
  <2>4. ProgressIsLogged'
    BY <2>1, <2>3, ProgressKept
  <2>. QED
    BY <1>a, <2>1, <2>2, <2>4, RunWritesJob
<1>. QED
  BY <1>1, <1>2

LEMMA OtherStepProgress ==
    ASSUME ProgressInv, OtherStep
    PROVE  /\ BatchesAreNumbered' /\ LogRises' /\ ProgressIsLogged'
           /\ \A u \in Workers : RunInv(u)'
           /\ UNCHANGED checkpoints /\ KeepsCompleted
           /\ CaptureSnapshotMaxId \/ UNCHANGED snapshotMaxId
<1>a. LogInv /\ BatchesAreNumbered /\ LogRises /\ ProgressIsLogged
  BY DEF ProgressInv
<1>b. job \in ExportJob /\ \A c \in checkpoints : c.lastRecordId \in Nat /\ c.lastRecordId # 0
  BY <1>a DEF LogInv, TypeOK, LogIsSound, LogIsRefused, NotIncreasing, ExportCheckpoint
<1>1. /\ UNCHANGED checkpoints /\ \A u \in Workers : RunInv(u)'
      /\ CaptureSnapshotMaxId \/ UNCHANGED snapshotMaxId
  BY OtherStepKeepsRuns
<1>2. BatchesAreNumbered' /\ LogRises'
  BY <1>a, <1>1 DEF BatchesAreNumbered, BatchNumbers, LogRises
<1>3. ProgressIsLogged' /\ KeepsCompleted
  BY <1>a, <1>1, OtherWritesJob, ProgressKept
<1>. QED
  BY <1>1, <1>2, <1>3

LEMMA NextProgressInv == ProgressInv /\ [Next]_vars => ProgressInv'
<1>. SUFFICES ASSUME ProgressInv, [Next]_vars PROVE ProgressInv'
  OBVIOUS
<1>1. LogInv'
  BY NextLogInv DEF ProgressInv
<1>2. NothingBeforeBoundary'
  BY BoundaryComesFirst
<1>3. (\E w \in Workers : RunStep(w) \/ RunFault(w)) \/ OtherStep
  BY DEF Next, OtherStep
<1>4. /\ BatchesAreNumbered' /\ LogRises' /\ ProgressIsLogged'
      /\ \A u \in Workers : RunInv(u)'
  BY <1>3, RunStepProgress, OtherStepProgress
<1>5. (CursorsAreLogged /\ PagesFit /\ FullBeyondLoop)'
  BY <1>4 DEF RunInv, CursorsAreLogged, PagesFit, FullBeyondLoop
<1>. QED
  BY <1>1, <1>2, <1>4, <1>5 DEF ProgressInv

(* The strengthening is an invariant of the system, with any faults.        *)
THEOREM ProgressInvariant == Spec => []ProgressInv
BY InitProgressInv, NextProgressInv, PTL DEF Spec

(* However many runs overlap, wherever they were interrupted and resumed,   *)
(* the cursor and the row count a run works from are those of the log.      *)
THEOREM CursorsAlwaysLogged == Spec => []CursorsAreLogged
<1>1. ProgressInv => CursorsAreLogged
  BY DEF ProgressInv
<1>. QED
  BY <1>1, ProgressInvariant, PTL

(* The progress shown to the user is at every moment a position of the log. *)
THEOREM ProgressAlwaysLogged == Spec => []ProgressIsLogged
<1>1. ProgressInv => ProgressIsLogged
  BY DEF ProgressInv
<1>. QED
  BY <1>1, ProgressInvariant, PTL

-----------------------------------------------------------------------------
(* Every step of the pipeline is a step of CheckpointLog or invisible there. *)
LEMMA StepImplementsLog ==
    ProgressInv /\ [Next]_vars =>
        [Log!Next]_<<checkpoints, snapshotMaxId, job.status = "COMPLETED">>
<1>. SUFFICES ASSUME ProgressInv, [Next]_vars
              PROVE  Log!Next \/ UNCHANGED <<checkpoints, snapshotMaxId,
                                             job.status = "COMPLETED">>
  OBVIOUS
<1>1. ASSUME UNCHANGED <<checkpoints, snapshotMaxId>>, KeepsCompleted
      PROVE  Log!TakeBack \/ UNCHANGED <<checkpoints, snapshotMaxId, job.status = "COMPLETED">>
  BY <1>1 DEF KeepsCompleted, Log!TakeBack
<1>2. ASSUME NEW w \in Workers, CompleteJob(w), UNCHANGED <<checkpoints, snapshotMaxId>>
      PROVE  Log!Complete
  <2>1. RowsWritten(checkpoints) = RequestedRowLimit
    BY <1>2 DEF ProgressInv, FullBeyondLoop, Finishing, CompleteJob
  <2>2. Log!TotalRows = RowsWritten(checkpoints)
    BY Zenon DEF Log!TotalRows, RowsWritten, Log!Cardinality, Cardinality
  <2>3. job'.status = "COMPLETED"
    BY <1>2 DEF CompleteJob, WithStatus, ProgressInv, LogInv, TypeOK, ExportJob
  <2>. QED
    BY <1>2, <2>1, <2>2, <2>3 DEF Log!Complete
<1>3. ASSUME CaptureSnapshotMaxId
      PROVE  Log!CaptureBoundary
  <2>1. checkpoints = {}
    BY <1>3 DEF CaptureSnapshotMaxId, ProgressInv, NothingBeforeBoundary, NotBegun
  <2>2. records \subseteq Nat
    BY StateAssumption DEF ProgressInv, LogInv, TypeOK
  <2>3. snapshotMaxId' \in Nat /\ UNCHANGED <<checkpoints, job>>
    BY <1>3, <2>2 DEF CaptureSnapshotMaxId
  <2>. QED
    BY <2>1, <2>3 DEF Log!CaptureBoundary
<1>4. CASE \E w \in Workers : RunStep(w) \/ RunFault(w)
  BY <1>1, <1>2, <1>4, RunStepProgress DEF Log!Next
<1>5. CASE OtherStep
  BY <1>1, <1>3, <1>5, OtherStepProgress DEF Log!Next
<1>. QED
  BY <1>4, <1>5 DEF Next, OtherStep

(* The pipeline implements CheckpointLog: for any number of workers, crashes *)
(* and overlapping runs, pages are appended in order within boundary and row *)
(* limit, and COMPLETED is only reported over a full log.                   *)
THEOREM PipelineImplementsLog == Spec => ImplementsLog
<1>1. Init => Log!Init
  <2>1. Init => checkpoints = {} /\ snapshotMaxId = 0 /\ job.status # "COMPLETED"
    BY DEF Init, NoJob
  <2>. QED
    BY <2>1 DEF Log!Init
<1>. QED
  BY <1>1, ProgressInvariant, StepImplementsLog, PTL DEF Spec, ImplementsLog, Log!Spec
=============================================================================
