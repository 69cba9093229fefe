------------------------------ MODULE ExactProofs ------------------------------
(***************************************************************************)
(* Overlapping runs and the durability of progress: where no row is        *)
(* deleted, the length of a page follows from its number, so that whoever  *)
(* writes the object of a batch again writes as much; where no row is      *)
(* committed late either, he writes the same, and the file is exact.  At   *)
(* the end: while runs are kept apart, a job in progress has a run that    *)
(* will write its outcome, and what nobody works on can be resumed.        *)
(***************************************************************************)
EXTENDS FileProofs

-----------------------------------------------------------------------------
(* Sets of record ids can be counted, and more of them are more.            *)
LEMMA RowsCounted ==
    ASSUME ProgressInv, NEW rows \in SUBSET records
    PROVE  IsFiniteSet(rows) /\ Cardinality(rows) \in Nat
BY LogFacts, PageCardinality

LEMMA FewerRows ==
    ASSUME NEW rows, NEW more \in SUBSET (1 .. MaxRecordId), rows \subseteq more
    PROVE  /\ Cardinality(rows) <= Cardinality(more)
           /\ Cardinality(rows) \in Nat /\ Cardinality(more) \in Nat
<1>1. IsFiniteSet(more) /\ Cardinality(more) \in Nat
  BY PageCardinality
<1>2. IsFiniteSet(rows) /\ Cardinality(rows) <= Cardinality(more)
  BY <1>1, FS_Subset
<1>. QED
  BY <1>1, <1>2, FS_CardinalityType

(* The rows a log counts can be counted at every point of it.               *)
LEMMA RowsOfPart ==
    ASSUME ProgressInv, NEW part \in SUBSET checkpoints
    PROVE  IsFiniteSet(part) /\ RowsWritten(part) \in Nat
<1>1. IsFiniteSet(part)
  BY LogFacts, FS_Subset
<1>. QED
  BY <1>1, RowsWrittenType

(* The log up to a batch is the log before it and the batch.                *)
LEMMA RowsUpToBatch ==
    ASSUME ProgressInv, NEW c \in checkpoints
    PROVE  RowsUpTo(c.batchNumber)
             = RowsWritten({d \in checkpoints : d.batchNumber < c.batchNumber}) + c.rowsWritten
<1>. DEFINE before == {d \in checkpoints : d.batchNumber < c.batchNumber}
<1>1. {d \in checkpoints : d.batchNumber <= c.batchNumber} = before \cup {c}
  <2>1. \A d \in checkpoints : d.batchNumber \in Nat /\ (d.batchNumber = c.batchNumber => d = c)
    BY LogFacts
  <2>. QED
    BY <2>1
<1>2. c \notin before /\ IsFiniteSet(before) /\ c.rowsWritten \in 0 .. BatchSize
  BY LogFacts, RowsOfPart
<1>. QED
  BY <1>1, <1>2, RowsOfLongerLog DEF RowsUpTo

-----------------------------------------------------------------------------
(* Before the job there is nothing, and it is created over enough rows.     *)
BeforeCreation ==
    NotBegun /\ request[Creator].pc \in {"snapshot", "create", "done"}

LEMMA CreationComesFirst ==
    ASSUME ProgressInv, BeforeCreation, [Next]_vars
    PROVE  \/ BeforeCreation'
           \/ /\ UNCHANGED <<recordVars, checkpoints, snapshotMaxId, worker>>
              /\ CountRecordsWithinSnapshot >= RequestedRowLimit
<1>a. /\ request \in [Handlers -> RequestState] /\ worker \in [Workers -> WorkerState]
      /\ Creator \in Handlers /\ Requests \subseteq Handlers /\ Creator \notin Requests
      /\ NotBegun /\ request[Creator].pc \in {"snapshot", "create", "done"}
  BY StateAssumption DEF ProgressInv, LogInv, TypeOK, Handlers, BeforeCreation
<1>b. job = NoJob /\ job.status = "ABSENT" /\ ~job.fileKey
  BY <1>a DEF NotBegun, NoJob
<1>1. ASSUME NEW label \in {"create", "done"}, Goto(Creator, label),
             UNCHANGED <<job, checkpoints, queue, worker>>
      PROVE  BeforeCreation'
  BY <1>1, <1>a DEF Goto, RequestState, BeforeCreation, NotBegun
<1>2. ASSUME NEW w \in Workers
      PROVE  ~RunStep(w) /\ ~RunFault(w)
  <2>1. worker[w].pc = "idle"
    BY <1>a DEF NotBegun
  <2>2. ~RunStep(w)
    BY <2>1 DEF RunStep, ReadJob, CancelBeforeStart, ClaimJob, SetStartedAt,
       LoadResumeState, ReconcileJobProgress, IsCancelRequested, CancelMidRun, DeleteChunks,
       FetchRecordBatch, PutChunk, Checkpoint, CrossCheckLog, SetVerifying, AssembleChunk,
       UploadFinalCsv, AssemblyFails, VerifyExportFile, RecordVerdict, KeepRejectedFile,
       CompleteJob, FailJob
  <2>3. ~RunFault(w)
    BY <2>1 DEF RunFault, DeleteChunksThrows, StepThrows, Crash, BeforeTry, InTry
  <2>. QED
    BY <2>2, <2>3
<1>3. CASE CaptureSnapshotMaxId \/ RequestAborts(Creator)
  BY <1>1, <1>3 DEF CaptureSnapshotMaxId, RequestAborts, jobVars
<1>4. CASE CreateExportJob
  <2>1. CASE CountRecordsWithinSnapshot < RequestedRowLimit
    BY <1>1, <1>4, <2>1 DEF CreateExportJob
  <2>2. CASE ~(CountRecordsWithinSnapshot < RequestedRowLimit)
    <3>1. CountRecordsWithinSnapshot \in Nat /\ RequestedRowLimit \in Nat
      BY LogFacts, RowsCounted DEF CountRecordsWithinSnapshot, UpTo
    <3>. QED
      BY <1>4, <2>2, <3>1 DEF CreateExportJob
  <2>. QED
    BY <2>1, <2>2
<1>5. ASSUME NEW h \in Handlers, HandlerStep(h) \/ RequestAborts(h),
             ~CaptureSnapshotMaxId, ~CreateExportJob, ~RequestAborts(Creator)
      PROVE  FALSE
  <2>1. CASE h = Creator
    BY <1>5, <1>a, <2>1 DEF HandlerStep, CreateStep, MarkQueued, EnqueueStep, InspectEntry,
       RemoveEntry, AddEntry
  <2>2. CASE h \in Requests /\ h # Creator
    <3>1. request[h].pc = "idle"
      BY <1>a, <2>2 DEF NotBegun
    <3>. QED
      BY <1>5, <2>2, <3>1 DEF HandlerStep, MarkResuming, CancelWrite, VerifyScan,
         VerifyRecord, EnqueueStep, InspectEntry, RemoveEntry, AddEntry, RequestAborts
  <2>. QED
    BY <1>a, <2>1, <2>2 DEF Handlers
<1>6. ASSUME NEW r \in Requests, RequestArrives(r)
      PROVE  FALSE
  BY <1>b, <1>6 DEF RequestArrives, ResumeRead, CancelRead, VerifyRead, RESUMABLE_FOR_USER,
     CANCELLABLE
<1>7. ~QueueStep /\ ~QueueFault
  <2>1. queue.state = "absent" /\ \A w \in Workers : worker[w].pc = "idle"
    BY <1>a DEF NotBegun
  <2>. QED
    BY <2>1 DEF QueueStep, PickUp, ProcessorReturns, ProcessorThrows, BackoffElapses,
       ReclaimFromDead, QueueFault, ReclaimFromLive, RedisRestarts
<1>8. CASE SweepStep \/ SweepAborts \/ HeartbeatExpires \/ RecordTraffic \/ UNCHANGED vars
  <2>1. UNCHANGED <<job, checkpoints, queue, worker, request>>
    BY <1>b, <1>8 DEF SweepStep, ListStalled, MarkInterrupted, StillStalled, SweepAborts,
       HeartbeatExpires, RecordTraffic, InsertRecord, BeginInsert, CommitInsert, DeleteRecord,
       vars, jobVars
  <2>. QED
    BY <1>a, <2>1 DEF BeforeCreation, NotBegun
<1>. QED
  BY <1>2, <1>3, <1>4, <1>5, <1>6, <1>7, <1>8 DEF Next
-----------------------------------------------------------------------------
(* EnoughInv by what it is about.                                           *)
LogEnough ==
    \A c \in checkpoints : /\ c.rowsWritten = PageSize(c.batchNumber)
                           /\ EnoughBeyond(c.lastRecordId, RowsUpTo(c.batchNumber))
RunEnough(w) ==
    worker[w].pc \in {"put", "checkpoint"} =>
        LET rows == Cardinality(worker[w].batch)
        IN  /\ rows = PageSize(worker[w].batchNumber)
            /\ \A id \in worker[w].batch :
                  BatchLastId(w, id) => EnoughBeyond(id, worker[w].exportedRowCount + rows)

(* New rows beyond a cursor only add to what is left.                       *)
LEMMA StillEnough ==
    ASSUME ProgressInv, ProgressInv', records \subseteq records',
           snapshotMaxId' = snapshotMaxId, NEW id, NEW rows \in Nat, EnoughBeyond(id, rows)
    PROVE  EnoughBeyond(id, rows)'
<1>1. Eligible(id) \subseteq Eligible(id)' /\ Eligible(id)' \in SUBSET (1 .. MaxRecordId)
  BY LogFacts DEF Eligible, ProgressInv, LogInv, TypeOK
<1>2. /\ Cardinality(Eligible(id)) <= Cardinality(Eligible(id)')
      /\ Cardinality(Eligible(id)) \in Nat /\ Cardinality(Eligible(id)') \in Nat
  BY <1>1, FewerRows
<1>. QED
  BY <1>2, LogFacts DEF EnoughBeyond

LEMMA StillCounted ==
    ASSUME ProgressInv, ProgressInv', records \subseteq records',
           snapshotMaxId' = snapshotMaxId, CountRecordsWithinSnapshot >= RequestedRowLimit
    PROVE  (CountRecordsWithinSnapshot >= RequestedRowLimit)'
<1>. DEFINE rows == UpTo(records, snapshotMaxId)
            more == UpTo(records', snapshotMaxId)
<1>1. rows \subseteq more /\ more \in SUBSET (1 .. MaxRecordId)
  BY DEF UpTo, ProgressInv, LogInv, TypeOK
<1>2. /\ Cardinality(rows) <= Cardinality(more)
      /\ Cardinality(rows) \in Nat /\ Cardinality(more) \in Nat
  BY <1>1, FewerRows
<1>. QED
  BY <1>2, LogFacts DEF CountRecordsWithinSnapshot, UpTo

(* What a step keeps that appends nothing and removes no row.               *)
LEMMA QuietEnough ==
    ASSUME ProgressInv, ProgressInv', LogEnough, \A u \in Workers : RunEnough(u),
           checkpoints = {} \/ snapshotMaxId' = snapshotMaxId,
           UNCHANGED checkpoints, records \subseteq records',
           \A u \in Workers :
               \/ worker'[u].pc \notin {"put", "checkpoint"}
               \/ RunEnough(u)'
               \/ /\ worker[u].pc \in {"put", "checkpoint"}
                  /\ worker'[u].batchNumber = worker[u].batchNumber
                  /\ worker'[u].exportedRowCount = worker[u].exportedRowCount
                  /\ worker'[u].batch = worker[u].batch
                  /\ snapshotMaxId' = snapshotMaxId
    PROVE  LogEnough' /\ \A u \in Workers : RunEnough(u)'
<1>1. LogEnough'
  <2>1. ASSUME NEW c \in checkpoints
        PROVE  EnoughBeyond(c.lastRecordId, RowsUpTo(c.batchNumber))'
    <3>1. RowsUpTo(c.batchNumber) \in Nat
      BY RowsOfPart DEF RowsUpTo
    <3>2. EnoughBeyond(c.lastRecordId, RowsUpTo(c.batchNumber))
      BY DEF LogEnough
    <3>3. PICK n \in Nat : n = RowsUpTo(c.batchNumber)
      BY <3>1
    <3>4. EnoughBeyond(c.lastRecordId, n)'
      BY <3>2, <3>3, StillEnough
    <3>. QED
      BY <3>3, <3>4 DEF EnoughBeyond, RowsUpTo
  <2>. QED
    BY <2>1 DEF LogEnough, PageSize
<1>2. ASSUME NEW u \in Workers
      PROVE  RunEnough(u)'
  <2>1. CASE worker'[u].pc \notin {"put", "checkpoint"}
    BY <2>1 DEF RunEnough
  <2>2. CASE /\ worker[u].pc \in {"put", "checkpoint"}
             /\ worker'[u].batchNumber = worker[u].batchNumber
             /\ worker'[u].exportedRowCount = worker[u].exportedRowCount
             /\ worker'[u].batch = worker[u].batch
             /\ snapshotMaxId' = snapshotMaxId
    <3>. DEFINE rows == Cardinality(worker[u].batch)
    <3>1. worker[u].exportedRowCount + rows \in Nat
      <4>1. rows \in Nat /\ worker[u].exportedRowCount \in Nat
        BY LogFacts, PageCardinality DEF WorkerState
      <4>. QED
        BY <4>1
    <3>2. PICK n \in Nat : n = worker[u].exportedRowCount + rows
      BY <3>1
    <3>3. ASSUME NEW id \in worker[u].batch, BatchLastId(u, id)
          PROVE  EnoughBeyond(id, n)'
      <4>1. EnoughBeyond(id, n)
        BY <2>2, <3>2, <3>3 DEF RunEnough
      <4>. QED
        BY <2>2, <4>1, StillEnough
    <3>4. rows = PageSize(worker[u].batchNumber)
      BY <2>2 DEF RunEnough
    <3>5. PageSize(worker[u].batchNumber)' = PageSize(worker[u].batchNumber)
      BY <2>2 DEF PageSize
    <3>6. \A id : BatchLastId(u, id)' => BatchLastId(u, id)
      BY <2>2 DEF BatchLastId
    <3>. QED
      BY <2>2, <3>2, <3>3, <3>4, <3>5, <3>6 DEF RunEnough, EnoughBeyond
  <2>. QED
    BY <2>1, <2>2
<1>. QED
  BY <1>1, <1>2
(* A run in the loop has enough rows ahead of its cursor.                   *)
LEMMA EnoughAhead ==
    ASSUME ProgressInv, LogEnough, CountRecordsWithinSnapshot >= RequestedRowLimit,
           NEW w \in Workers, worker[w].pc \in InLoop
    PROVE  EnoughBeyond(worker[w].lastExportedId, worker[w].exportedRowCount)
<1>a. CursorInLog(w) /\ CountInLog(w)
  BY DEF ProgressInv, CursorsAreLogged
<1>1. CASE worker[w].batchNumber = 1 /\ worker[w].lastExportedId = 0
  <2>1. {c \in checkpoints : c.batchNumber < worker[w].batchNumber} = {}
    BY <1>1, BatchesBeginAtOne
  <2>2. worker[w].exportedRowCount = 0
    BY <1>a, <2>1, RowsOfEmptyLog DEF CountInLog
  <2>3. Eligible(0) = UpTo(records, snapshotMaxId)
    BY LogFacts DEF Eligible, UpTo
  <2>4. CountRecordsWithinSnapshot \in Nat
    BY RowsCounted DEF CountRecordsWithinSnapshot, UpTo
  <2>. QED
    BY <1>1, <2>2, <2>3, <2>4, LogFacts DEF EnoughBeyond, CountRecordsWithinSnapshot
<1>2. ASSUME NEW c \in checkpoints, c.batchNumber + 1 = worker[w].batchNumber,
             c.lastRecordId = worker[w].lastExportedId
      PROVE  EnoughBeyond(worker[w].lastExportedId, worker[w].exportedRowCount)
  <2>1. {d \in checkpoints : d.batchNumber < worker[w].batchNumber}
          = {d \in checkpoints : d.batchNumber <= c.batchNumber}
    BY <1>2, LogFacts
  <2>2. worker[w].exportedRowCount = RowsUpTo(c.batchNumber)
    BY <1>a, <2>1 DEF CountInLog, RowsUpTo
  <2>. QED
    BY <1>2, <2>2 DEF LogEnough
<1>. QED
  BY <1>a, <1>1, <1>2 DEF CursorInLog

(* So its query fills the page, and leaves enough beyond it.                *)
LEMMA FetchedEnough ==
    ASSUME ProgressInv, LogEnough, CountRecordsWithinSnapshot >= RequestedRowLimit,
           NEW w \in Workers, FetchRecordBatch(w), worker'[w].pc = "put"
    PROVE  RunEnough(w)'
<1>. DEFINE cursor == worker[w].lastExportedId
            count  == worker[w].exportedRowCount
            rows   == Eligible(cursor)
<1>a. /\ worker \in [Workers -> WorkerState] /\ worker[w] \in WorkerState
      /\ worker[w].pc \in InLoop /\ BatchSize \in Nat /\ RequestedRowLimit \in Nat
      /\ UNCHANGED <<records, checkpoints, snapshotMaxId>>
  BY LogFacts DEF FetchRecordBatch, InLoop, jobVars, recordVars
<1>1. PICK lastId \in rows :
        /\ ClosesPage(lastId, rows, Limit(w))
        /\ worker' = [worker EXCEPT ![w].pc = "put", ![w].batch = UpTo(rows, lastId)]
  BY <1>a DEF FetchRecordBatch, Advance, WorkerState
<1>. DEFINE page == UpTo(rows, lastId)
            left == Eligible(lastId)
<1>2. /\ worker'[w].batchNumber = worker[w].batchNumber
      /\ worker'[w].exportedRowCount = count
      /\ worker'[w].batch = page
  BY <1>a, <1>1 DEF WorkerState
<1>3. /\ rows = page \cup left /\ page \cap left = {}
      /\ page \in SUBSET records /\ left \in SUBSET records /\ rows \in SUBSET records
  <2>1. /\ records \in SUBSET Nat /\ lastId \in records /\ cursor \in Nat /\ cursor < lastId
        /\ \A r \in records : r \in Nat
        /\ snapshotMaxId \in Nat /\ lastId <= snapshotMaxId
    BY <1>a, <1>1, LogFacts DEF Eligible, WorkerState
  <2>2. page \in SUBSET records /\ left \in SUBSET records /\ rows \in SUBSET records
    BY DEF UpTo, Eligible
  <2>3. ASSUME NEW r \in records
        PROVE  /\ r \in rows <=> r \in page \/ r \in left
               /\ ~(r \in page /\ r \in left)
    BY <2>1 DEF UpTo, Eligible
  <2>. HIDE DEF rows, page, left
  <2>. QED
    BY <2>2, <2>3
<1>4. /\ IsFiniteSet(page) /\ IsFiniteSet(left)
      /\ Cardinality(page) \in Nat /\ Cardinality(left) \in Nat /\ Cardinality(rows) \in Nat
  BY <1>3, RowsCounted
<1>5. Cardinality(rows) = Cardinality(page) + Cardinality(left)
  <2>1. Cardinality(page \cup left)
          = Cardinality(page) + Cardinality(left) - Cardinality(page \cap left)
    BY <1>4, FS_Union
  <2>2. Cardinality(page \cap left) = 0
    BY <1>3, FS_EmptySet
  <2>. HIDE DEF rows, page, left
  <2>. QED
    BY <1>3, <1>4, <2>1, <2>2
<1>6. count \in Nat /\ Cardinality(rows) + count >= RequestedRowLimit
  BY <1>a, EnoughAhead DEF EnoughBeyond, WorkerState
<1>7. Cardinality(page) = Limit(w)
  <2>1. Limit(w) <= RequestedRowLimit - count
    BY <1>a, <1>6 DEF Limit
  <2>2. ~(Cardinality(rows) < Limit(w))
    <3>1. Limit(w) \in Int
      BY <1>a, <1>6 DEF Limit
    <3>. HIDE DEF rows
    <3>. QED
      BY <1>a, <1>4, <1>6, <2>1, <3>1
  <2>. QED
    BY <1>1, <2>2 DEF ClosesPage
<1>8. Limit(w) = PageSize(worker[w].batchNumber)
  BY <1>a DEF ProgressInv, CursorsAreLogged, CountInLog, Limit, PageSize
<1>9. EnoughBeyond(lastId, count + Cardinality(page))
  <2>. HIDE DEF rows, page, count
  <2>. QED
    BY <1>4, <1>5, <1>6, <1>a DEF EnoughBeyond
<1>10. PICK pg, n : pg = page /\ n = count + Cardinality(page)
  OBVIOUS
<1>11. ASSUME NEW id \in pg, \A r \in pg : r <= id
       PROVE  EnoughBeyond(id, n)'
  <2>1. lastId \in page /\ id <= lastId
    BY <1>1, <1>3, <1>10, <1>11, LogFacts DEF UpTo
  <2>2. id \in Nat /\ lastId \in Nat
    BY <2>1, <1>3, <1>10, LogFacts
  <2>3. id = lastId
    BY <1>10, <1>11, <2>1, <2>2
  <2>. QED
    BY <1>9, <1>10, <1>a, <2>3 DEF EnoughBeyond, Eligible
<1>12. PageSize(worker[w].batchNumber)' = PageSize(worker[w].batchNumber)
  BY <1>a, <1>2 DEF PageSize
<1>13. worker'[w].batch = pg /\ worker'[w].exportedRowCount + Cardinality(pg) = n
  BY <1>2, <1>10
<1>14. Cardinality(pg) = PageSize(worker[w].batchNumber)'
  BY <1>7, <1>8, <1>10, <1>12
<1>15. \A id \in pg : BatchLastId(w, id)' => EnoughBeyond(id, n)'
  BY <1>11, <1>13 DEF BatchLastId
<1>. QED
  BY <1>13, <1>14, <1>15 DEF RunEnough

(* The batch appended to the log is as long as its page.                    *)
LEMMA AppendedEnough ==
    ASSUME ProgressInv, ProgressInv', LogEnough, \A u \in Workers : RunEnough(u),
           NEW w \in Workers, Checkpoint(w), ~UniqueViolation(worker[w].batchNumber)
    PROVE  LogEnough' /\ \A u \in Workers : RunEnough(u)'
<1>a. /\ worker \in [Workers -> WorkerState] /\ worker[w] \in WorkerState
      /\ worker[w].pc = "checkpoint" /\ worker[w].pc \in InLoop
      /\ UNCHANGED <<records, snapshotMaxId>>
      /\ \A d \in checkpoints : d.batchNumber \in Nat
  BY LogFacts DEF Checkpoint, InLoop, recordVars
<1>1. /\ \A d \in checkpoints : d.batchNumber < worker[w].batchNumber
      /\ worker' = [worker EXCEPT ![w] = worker'[w]]
      /\ worker'[w].pc \in {"cancelCheck", "finalCheck", "failReturn"}
  BY AppendedPage
<1>2. PICK id \in worker[w].batch :
        checkpoints' = checkpoints \cup {NewCheckpoint(w, id)} /\ BatchLastId(w, id)
  BY AppendedPage
<1>3. PICK new : new = NewCheckpoint(w, id)
  OBVIOUS
<1>4. /\ new.batchNumber = worker[w].batchNumber /\ new.lastRecordId = id
      /\ new.rowsWritten = Cardinality(worker[w].batch)
      /\ checkpoints' = checkpoints \cup {new}
      /\ new.batchNumber \in Nat /\ new.rowsWritten \in Nat
  <2>1. Cardinality(worker[w].batch) \in Nat
    BY <1>a, PageCardinality DEF WorkerState
  <2>. QED
    BY <1>2, <1>3, <1>a, <2>1 DEF NewCheckpoint, WorkerState
<1>5. ASSUME NEW b \in Nat, b <= worker[w].batchNumber
      PROVE  PageSize(b)' = PageSize(b)
  <2>1. {c \in checkpoints' : c.batchNumber < b} = {c \in checkpoints : c.batchNumber < b}
    BY <1>4, <1>5
  <2>. QED
    BY <2>1 DEF PageSize
<1>6. ASSUME NEW c \in checkpoints
      PROVE  /\ c.rowsWritten = PageSize(c.batchNumber)'
             /\ EnoughBeyond(c.lastRecordId, RowsUpTo(c.batchNumber))'
  <2>1. {d \in checkpoints' : d.batchNumber <= c.batchNumber}
          = {d \in checkpoints : d.batchNumber <= c.batchNumber}
    BY <1>1, <1>4, <1>a
  <2>2. RowsUpTo(c.batchNumber)' = RowsUpTo(c.batchNumber)
    BY <2>1 DEF RowsUpTo
  <2>3. PageSize(c.batchNumber)' = PageSize(c.batchNumber)
    BY <1>1, <1>4, <1>5, <1>a
  <2>. QED
    BY <2>2, <2>3, <1>a DEF LogEnough, EnoughBeyond, Eligible
<1>7. new.rowsWritten = PageSize(new.batchNumber)'
  <2>1. new.rowsWritten = PageSize(worker[w].batchNumber)
    BY <1>4, <1>a DEF RunEnough
  <2>. QED
    BY <1>4, <1>5, <2>1
<1>8. EnoughBeyond(new.lastRecordId, RowsUpTo(new.batchNumber))'
  <2>1. RowsUpTo(new.batchNumber)' = RowsWritten(checkpoints) + new.rowsWritten
    <3>1. {d \in checkpoints' : d.batchNumber <= new.batchNumber} = checkpoints \cup {new}
      BY <1>1, <1>4, <1>a
    <3>2. new \notin checkpoints /\ IsFiniteSet(checkpoints)
      BY <1>1, <1>4, LogFacts
    <3>3. new.rowsWritten \in 0 .. BatchSize
      <4>1. new \in checkpoints'
        BY <1>4
      <4>. QED
        BY <4>1 DEF ProgressInv, LogInv, TypeOK, ExportCheckpoint
    <3>. QED
      BY <3>1, <3>2, <3>3, RowsOfLongerLog DEF RowsUpTo
  <2>2. worker[w].exportedRowCount = RowsWritten(checkpoints)
    <3>1. {d \in checkpoints : d.batchNumber < worker[w].batchNumber} = checkpoints
      BY <1>1
    <3>. QED
      BY <1>a, <3>1 DEF ProgressInv, CursorsAreLogged, CountInLog
  <2>3. EnoughBeyond(id, worker[w].exportedRowCount + Cardinality(worker[w].batch))
    BY <1>2, <1>a DEF RunEnough
  <2>. QED
    BY <1>4, <1>a, <2>1, <2>2, <2>3 DEF EnoughBeyond, Eligible
<1>9. LogEnough'
  BY <1>4, <1>6, <1>7, <1>8 DEF LogEnough
<1>10. ASSUME NEW u \in Workers
       PROVE  RunEnough(u)'
  <2>1. CASE u = w
    BY <1>1, <2>1 DEF RunEnough
  <2>2. ASSUME u # w, worker[u].pc \in {"put", "checkpoint"}
        PROVE  RunEnough(u)'
    <3>1. worker'[u] = worker[u]
      BY <1>1, <1>a, <2>2
    <3>2. worker[u].batchNumber \in Nat /\ worker[u].batchNumber <= worker[w].batchNumber
      <4>1. CursorInLog(u) /\ worker[u].batchNumber \in Nat /\ worker[w].batchNumber \in Nat
        BY <1>a, <2>2 DEF ProgressInv, CursorsAreLogged, InLoop, WorkerState
      <4>2. worker[w].batchNumber # 0
        BY <1>a, BatchesBeginAtOne DEF ProgressInv, CursorsAreLogged, CursorInLog
      <4>. QED
        BY <1>1, <1>a, <4>1, <4>2 DEF CursorInLog
    <3>3. PageSize(worker[u].batchNumber)' = PageSize(worker[u].batchNumber)
      BY <1>5, <3>1, <3>2 DEF PageSize
    <3>. QED
      BY <1>a, <2>2, <3>1, <3>3 DEF RunEnough, BatchLastId, EnoughBeyond, Eligible
  <2>3. CASE u # w /\ worker[u].pc \notin {"put", "checkpoint"}
    BY <1>1, <1>a, <2>3 DEF RunEnough
  <2>. QED
    BY <2>1, <2>2, <2>3
<1>. QED
  BY <1>9, <1>10
LEMMA RunStepEnough ==
    ASSUME ProgressInv, ProgressInv', LogEnough, \A u \in Workers : RunEnough(u),
           CountRecordsWithinSnapshot >= RequestedRowLimit,
           NEW w \in Workers, RunStep(w) \/ RunFault(w)
    PROVE  LogEnough' /\ \A u \in Workers : RunEnough(u)'
<1>a. worker \in [Workers -> WorkerState] /\ UNCHANGED <<recordVars, snapshotMaxId>>
  BY LogFacts, RunKeepsTable
<1>1. CASE Checkpoint(w) /\ ~UniqueViolation(worker[w].batchNumber)
  BY <1>1, AppendedEnough
<1>2. ASSUME ~(Checkpoint(w) /\ ~UniqueViolation(worker[w].batchNumber))
      PROVE  LogEnough' /\ \A u \in Workers : RunEnough(u)'
  <2>1. UNCHANGED checkpoints
    BY <1>2 DEF RunStep, RunFault, ReadJob, CancelBeforeStart, ClaimJob, SetStartedAt,
       LoadResumeState, ReconcileJobProgress, IsCancelRequested, CancelMidRun, DeleteChunks,
       FetchRecordBatch, PutChunk, Checkpoint, CrossCheckLog, SetVerifying, AssembleChunk,
       UploadFinalCsv, AssemblyFails, VerifyExportFile, RecordVerdict, KeepRejectedFile,
       CompleteJob, FailJob, DeleteChunksThrows, StepThrows, Crash, jobVars
  <2>2. /\ \A u \in Workers : u # w => worker'[u] = worker[u]
        /\ \/ worker'[w].pc \notin {"put", "checkpoint"}
           \/ RunEnough(w)'
           \/ /\ worker[w].pc \in {"put", "checkpoint"}
              /\ worker'[w].batchNumber = worker[w].batchNumber
              /\ worker'[w].exportedRowCount = worker[w].exportedRowCount
              /\ worker'[w].batch = worker[w].batch
    <3>1. CASE FetchRecordBatch(w)
      <4>1. worker'[w].pc \in {"put", "failReturn"}
            /\ \A u \in Workers : u # w => worker'[u] = worker[u]
        BY <1>a, <3>1 DEF FetchRecordBatch, Advance, WorkerState
      <4>. QED
        BY <3>1, <4>1, FetchedEnough
    <3>2. CASE PutChunk(w)
      BY <1>a, <3>2 DEF PutChunk, Advance, WorkerState
    <3>3. CASE SetVerifying(w) \/ AssembleChunk(w)
      BY <1>a, <3>3 DEF SetVerifying, AssembleChunk, Advance, WorkerState
    <3>. QED
      BY <1>a, <3>1, <3>2, <3>3, PlainRunLabel
  <2>3. \A u \in Workers :
            \/ worker'[u].pc \notin {"put", "checkpoint"}
            \/ RunEnough(u)'
            \/ /\ worker[u].pc \in {"put", "checkpoint"}
               /\ worker'[u].batchNumber = worker[u].batchNumber
               /\ worker'[u].exportedRowCount = worker[u].exportedRowCount
               /\ worker'[u].batch = worker[u].batch
               /\ snapshotMaxId' = snapshotMaxId
    BY <1>a, <2>2
  <2>. QED
    BY <1>a, <2>1, <2>3, QuietEnough DEF recordVars
<1>. QED
  BY <1>1, <1>2

(* Other steps start no page, and take no row away.                         *)
LEMMA OtherKeepsRows ==
    ASSUME FaultBudget["delete"] = 0, ProgressInv, OtherStep
    PROVE  /\ records \subseteq records'
           /\ UNCHANGED <<checkpoints, chunks, finalFile>>
           /\ \A u \in Workers : worker'[u] = worker[u] \/ worker'[u].pc \in {"idle", "read"}
           /\ \/ snapshotMaxId' = snapshotMaxId
              \/ /\ CaptureSnapshotMaxId /\ NotBegun
                 /\ request[Creator].pc = "snapshot" /\ UNCHANGED <<recordVars, worker>>
<1>a. /\ worker \in [Workers -> WorkerState] /\ FaultBudget["delete"] = 0
      /\ faults["delete"] \in Nat
  BY LogFacts DEF ProgressInv, LogInv, TypeOK, FaultKinds
<1>1. records \subseteq records'
  <2>1. ~DeleteRecord
    BY <1>a DEF DeleteRecord, CanFail
  <2>2. CASE RecordTraffic
    BY <2>1, <2>2 DEF RecordTraffic, InsertRecord, BeginInsert, CommitInsert
  <2>3. CASE ~RecordTraffic
    BY <2>3 DEF OtherStep, HandlerStep, CreateStep, CaptureSnapshotMaxId, CreateExportJob,
       MarkQueued, MarkResuming, CancelWrite, VerifyScan, VerifyRecord, EnqueueStep,
       InspectEntry, RemoveEntry, AddEntry, RequestAborts, RequestArrives, ResumeRead,
       CancelRead, VerifyRead, QueueStep, PickUp, ProcessorReturns, ProcessorThrows,
       BackoffElapses, ReclaimFromDead, QueueFault, ReclaimFromLive, RedisRestarts, SweepStep,
       ListStalled, MarkInterrupted, SweepAborts, HeartbeatExpires, vars, recordVars
  <2>. QED
    BY <2>2, <2>3
<1>2. /\ UNCHANGED <<checkpoints, chunks, finalFile>>
      /\ CaptureSnapshotMaxId \/ snapshotMaxId' = snapshotMaxId
  BY DEF OtherStep, HandlerStep, CreateStep, CaptureSnapshotMaxId, CreateExportJob,
     MarkQueued, MarkResuming, CancelWrite, VerifyScan, VerifyRecord, EnqueueStep,
     InspectEntry, RemoveEntry, AddEntry, RequestAborts, RequestArrives, ResumeRead,
     CancelRead, VerifyRead, QueueStep, PickUp, ProcessorReturns, ProcessorThrows,
     BackoffElapses, ReclaimFromDead, QueueFault, ReclaimFromLive, RedisRestarts, SweepStep,
     ListStalled, MarkInterrupted, SweepAborts, HeartbeatExpires, RecordTraffic, InsertRecord,
     BeginInsert, CommitInsert, DeleteRecord, vars, jobVars, storageVars
<1>3. CaptureSnapshotMaxId => /\ NotBegun /\ request[Creator].pc = "snapshot"
                              /\ UNCHANGED <<recordVars, worker>>
  BY DEF CaptureSnapshotMaxId, ProgressInv, NothingBeforeBoundary
<1>4. \A u \in Workers : worker'[u] = worker[u] \/ worker'[u].pc \in {"idle", "read"}
  <2>1. CASE worker' = worker
    BY <2>1
  <2>2. ASSUME NEW w \in Workers, PickUp(w) \/ ProcessorReturns(w) \/ ProcessorThrows(w)
        PROVE  \A u \in Workers : worker'[u] = worker[u] \/ worker'[u].pc \in {"idle", "read"}
    BY <1>a, <2>2 DEF PickUp, ProcessorReturns, ProcessorThrows, IdleWorker, WorkerState
  <2>. QED
    BY <2>1, <2>2, OtherKeepsWorkers
<1>. QED
  BY <1>1, <1>2, <1>3, <1>4

LEMMA OtherStepEnough ==
    ASSUME FaultBudget["delete"] = 0, ProgressInv, ProgressInv', LogEnough,
           \A u \in Workers : RunEnough(u), OtherStep
    PROVE  LogEnough' /\ \A u \in Workers : RunEnough(u)'
<1>1. checkpoints = {} \/ snapshotMaxId' = snapshotMaxId
  BY OtherKeepsRows DEF NotBegun
<1>2. ASSUME NEW u \in Workers
      PROVE  \/ worker'[u].pc \notin {"put", "checkpoint"}
             \/ RunEnough(u)'
             \/ /\ worker[u].pc \in {"put", "checkpoint"}
                /\ worker'[u].batchNumber = worker[u].batchNumber
                /\ worker'[u].exportedRowCount = worker[u].exportedRowCount
                /\ worker'[u].batch = worker[u].batch
                /\ snapshotMaxId' = snapshotMaxId
  <2>1. worker'[u] = worker[u] \/ worker'[u].pc \in {"idle", "read"}
    BY OtherKeepsRows
  <2>2. snapshotMaxId' = snapshotMaxId \/ (worker'[u] = worker[u] /\ worker[u].pc = "idle")
    BY OtherKeepsRows DEF NotBegun
  <2>. QED
    BY <2>1, <2>2
<1>. QED
  BY <1>1, <1>2, OtherKeepsRows, QuietEnough

LEMMA NextEnoughInv ==
    ASSUME FaultBudget["delete"] = 0, ProgressInv, ProgressInv', EnoughInv, [Next]_vars
    PROVE  EnoughInv'
<1>a. /\ LogEnough /\ \A u \in Workers : RunEnough(u)
      /\ BeforeCreation \/ CountRecordsWithinSnapshot >= RequestedRowLimit
  BY DEF EnoughInv, LogEnough, RunEnough, BeforeCreation
<1>1. /\ (BeforeCreation \/ CountRecordsWithinSnapshot >= RequestedRowLimit)'
      /\ LogEnough' /\ \A u \in Workers : RunEnough(u)'
  <2>1. ASSUME NEW w \in Workers, RunStep(w) \/ RunFault(w)
        PROVE  /\ CountRecordsWithinSnapshot >= RequestedRowLimit
               /\ (CountRecordsWithinSnapshot >= RequestedRowLimit)'
               /\ LogEnough' /\ \A u \in Workers : RunEnough(u)'
    <3>1. worker[w].pc # "idle"
      <4>1. worker[w].pc = "idle" => ~RunStep(w)
        BY DEF RunStep, ReadJob, CancelBeforeStart, ClaimJob, SetStartedAt,
           LoadResumeState, ReconcileJobProgress, IsCancelRequested, CancelMidRun,
           DeleteChunks, FetchRecordBatch, PutChunk, Checkpoint, CrossCheckLog, SetVerifying,
           AssembleChunk, UploadFinalCsv, AssemblyFails, VerifyExportFile, RecordVerdict,
           KeepRejectedFile, CompleteJob, FailJob
      <4>2. worker[w].pc = "idle" => ~RunFault(w)
        BY DEF RunFault, DeleteChunksThrows, StepThrows, Crash, BeforeTry, InTry
      <4>. QED
        BY <2>1, <4>1, <4>2
    <3>2. CountRecordsWithinSnapshot >= RequestedRowLimit
      BY <1>a, <3>1 DEF BeforeCreation, NotBegun
    <3>3. UNCHANGED <<recordVars, snapshotMaxId>>
      BY <2>1, RunKeepsTable
    <3>. QED
      BY <1>a, <2>1, <3>2, <3>3, RunStepEnough DEF CountRecordsWithinSnapshot, UpTo, recordVars
  <2>2. CASE OtherStep
    <3>1. LogEnough' /\ \A u \in Workers : RunEnough(u)'
      BY <1>a, <2>2, OtherStepEnough
    <3>2. CASE BeforeCreation
      <4>1. UNCHANGED <<recordVars, snapshotMaxId>>
            => CountRecordsWithinSnapshot' = CountRecordsWithinSnapshot
        BY DEF CountRecordsWithinSnapshot, UpTo, recordVars
      <4>. QED
        BY <3>1, <3>2, <4>1, CreationComesFirst
    <3>3. CASE ~BeforeCreation
      <4>1. /\ snapshotMaxId' = snapshotMaxId /\ records \subseteq records'
        BY <2>2, <3>3, OtherKeepsRows DEF BeforeCreation
      <4>. QED
        BY <1>a, <3>1, <3>3, <4>1, StillCounted
    <3>. QED
      BY <3>2, <3>3
  <2>. QED
    BY <2>1, <2>2 DEF Next, OtherStep
<1>. QED
  BY <1>1 DEF EnoughInv, LogEnough, RunEnough, BeforeCreation

LEMMA InitEnoughInv == Init => EnoughInv
<1>. SUFFICES ASSUME Init PROVE EnoughInv
  OBVIOUS
<1>1. /\ NotBegun /\ request[Creator].pc = "snapshot"
      /\ checkpoints = {} /\ \A w \in Workers : worker[w].pc = "idle"
  BY StateAssumption DEF Init, NotBegun, IdleWorker, NoEntry, Handlers
<1>. QED
  BY <1>1 DEF EnoughInv

(* Where no row is deleted, an export that was accepted has enough rows     *)
(* ahead at every moment: each page is as long as its number says, however  *)
(* many runs overlap and whatever is committed late.                        *)
THEOREM EnoughInvariant ==
    ASSUME FaultBudget["delete"] = 0
    PROVE  Spec => []EnoughInv
<1>1. ProgressInv /\ ProgressInv' /\ EnoughInv /\ [Next]_vars => EnoughInv'
  BY NextEnoughInv
<1>. QED
  BY <1>1, InitEnoughInv, ProgressInvariant, PTL DEF Spec
-----------------------------------------------------------------------------
(* DurableInv by what it is about: the log, a run, the file.                *)
LogKept ==
    \A c \in checkpoints : c.rowsWritten # 0 /\ Kept(c.batchNumber, c.rowsWritten)
RunIsStored(w) ==
    /\ worker[w].pc \in {"put", "checkpoint"} => worker[w].batch # {}
    /\ worker[w].pc = "checkpoint" => Kept(worker[w].batchNumber, Cardinality(worker[w].batch))
    /\ AssemblyIsStored(w)
    /\ worker[w].pc \in {"verify", "recordVerdict", "complete", "cleanup"} => finalFile # {}
FileStored ==
    finalFile # {} =>
        /\ RowsWritten(checkpoints) = RequestedRowLimit
        /\ \A c \in checkpoints : Stored(c.batchNumber, c.rowsWritten, finalFile)

(* Who writes the object of a batch once more writes as many lines.         *)
SizesAgree ==
    /\ \A v, w \in Workers :
          /\ worker[v].pc \in {"put", "checkpoint"} /\ worker[w].pc \in {"put", "checkpoint"}
          /\ worker[v].batchNumber = worker[w].batchNumber
          => Cardinality(worker[v].batch) = Cardinality(worker[w].batch)
    /\ \A w \in Workers, c \in checkpoints :
          /\ worker[w].pc \in {"put", "checkpoint"}
          /\ c.batchNumber = worker[w].batchNumber
          => c.rowsWritten = Cardinality(worker[w].batch)

LEMMA EqualSizes == EnoughInv \/ PagesAgree => SizesAgree
<1>1. EnoughInv => SizesAgree
  BY DEF EnoughInv, SizesAgree
<1>2. PagesAgree => SizesAgree
  BY DEF PagesAgree, SizesAgree
<1>. QED
  BY <1>1, <1>2

(* A step that touches neither log nor objects nor file.                    *)
LEMMA QuietKept ==
    ASSUME LogKept, FileStored, \A u \in Workers : RunIsStored(u),
           UNCHANGED <<checkpoints, chunks, finalFile>>,
           \A u \in Workers : worker'[u] = worker[u] \/ RunIsStored(u)'
    PROVE  LogKept' /\ FileStored' /\ \A u \in Workers : RunIsStored(u)'
<1>1. LogKept' /\ FileStored'
  BY DEF LogKept, FileStored, Kept, Stored, LinesOf
<1>2. ASSUME NEW u \in Workers, worker'[u] = worker[u]
      PROVE  RunIsStored(u)'
  BY <1>2 DEF RunIsStored, Kept, AssemblyIsStored, Stored, LinesOf
<1>. QED
  BY <1>1, <1>2

(* A run that goes on with the assembly it has, and is at no file before    *)
(* there is one.                                                            *)
LEMMA PlainRunKept ==
    ASSUME ProgressInv, \A u \in Workers : RunIsStored(u), NEW w \in Workers,
           RunStep(w) \/ RunFault(w),
           ~FetchRecordBatch(w), ~PutChunk(w), ~CrossCheckLog(w), ~SetVerifying(w),
           ~AssembleChunk(w), ~UploadFinalCsv(w), finalFile' = finalFile
    PROVE  RunIsStored(w)' /\ \A u \in Workers : u # w => worker'[u] = worker[u]
<1>. DEFINE Judging == {"verify", "recordVerdict", "complete", "cleanup"}
<1>a. /\ worker \in [Workers -> WorkerState] /\ RunIsStored(w)
      /\ worker'[w].pc \notin {"put", "checkpoint", "assemble"}
      /\ \A u \in Workers : u # w => worker'[u] = worker[u]
  BY LogFacts, PlainRunLabel
<1>. SUFFICES RunIsStored(w)'
  BY <1>a
<1>1. ASSUME worker'[w].pc # "setVerifying",
             worker'[w].nextChunk = worker[w].nextChunk,
             worker'[w].assembled = worker[w].assembled,
             worker'[w].pc \in BeforeAssembly => worker[w].pc \in BeforeAssembly,
             worker'[w].pc \in Judging => worker[w].pc \in Judging
      PROVE  RunIsStored(w)'
  BY <1>1, <1>a DEF RunIsStored, AssemblyIsStored
<1>2. ASSUME NEW label, Advance(w, label), label # "setVerifying",
             label \in BeforeAssembly => worker[w].pc \in BeforeAssembly,
             label \in Judging => worker[w].pc \in Judging
      PROVE  RunIsStored(w)'
  BY <1>1, <1>2, <1>a DEF Advance, WorkerState
<1>3. ASSUME worker' = [worker EXCEPT ![w] = IdleWorker]
      PROVE  RunIsStored(w)'
  <2>1. worker'[w] = IdleWorker
    BY <1>3, <1>a
  <2>. QED
    BY <2>1 DEF IdleWorker, RunIsStored, AssemblyIsStored
<1>. DEFINE Plain == {"returned", "threw", "failThrow", "failReturn", "cancelCleanup",
                      "cancelWrite", "assemblyFailed"}
            Front == {"cancelEarly", "claim", "start", "load", "cancelCheck", "fetch",
                      "finalCheck"}
<1>4. ASSUME NEW label, Advance(w, label),
             \/ label \in Plain
             \/ label \in Front /\ worker[w].pc \in BeforeAssembly
             \/ label = "cleanup" /\ worker[w].pc = "complete"
      PROVE  RunIsStored(w)'
  <2>1. label \in Plain => label \notin BeforeAssembly \cup Judging
    BY DEF BeforeAssembly, BeforeTry, InLoop
  <2>2. label \in Front => label \notin Judging
    OBVIOUS
  <2>3. label # "setVerifying"
    BY <1>4
  <2>4. "cleanup" \notin BeforeAssembly /\ "complete" \in Judging
    BY DEF BeforeAssembly, BeforeTry, InLoop
  <2>. HIDE DEF Plain, Front, Judging
  <2>. QED
    BY <1>2, <1>4, <2>1, <2>2, <2>3, <2>4
<1>5. CASE ReadJob(w)
  BY <1>4, <1>5 DEF ReadJob, BeforeAssembly, BeforeTry
<1>6. CASE CancelBeforeStart(w) \/ ClaimJob(w) \/ SetStartedAt(w)
  BY <1>4, <1>6 DEF CancelBeforeStart, ClaimJob, SetStartedAt, BeforeAssembly, BeforeTry
<1>7. CASE LoadResumeState(w)
  <2>1. ASSUME NEW n, NEW id, NEW rows, ResumeAt(w, n, id, rows)
        PROVE  RunIsStored(w)'
    <3>1. /\ worker'[w].pc = "reconcile" /\ worker'[w].nextChunk = worker[w].nextChunk
          /\ worker'[w].assembled = worker[w].assembled
      BY <1>a, <2>1 DEF ResumeAt, WorkerState
    <3>2. worker[w].pc = "load"
      BY <1>7 DEF LoadResumeState
    <3>. QED
      BY <1>1, <3>1, <3>2 DEF BeforeAssembly
  <2>. QED
    BY <1>4, <1>7, <2>1 DEF LoadResumeState
<1>8. CASE ReconcileJobProgress(w) \/ IsCancelRequested(w) \/ CancelMidRun(w)
  BY <1>4, <1>8 DEF ReconcileJobProgress, IsCancelRequested, CancelMidRun, LoopLabel,
     BeforeAssembly, InLoop
<1>9. CASE DeleteChunks(w) \/ DeleteChunksThrows(w) \/ StepThrows(w) \/ FailJob(w)
  BY <1>4, <1>9 DEF DeleteChunks, DeleteChunksThrows, StepThrows, FailJob
<1>10. CASE Checkpoint(w)
  <2>1. CASE UniqueViolation(worker[w].batchNumber)
    BY <1>4, <1>10, <2>1 DEF Checkpoint
  <2>2. CASE ~UniqueViolation(worker[w].batchNumber)
    <3>1. worker[w].pc \in BeforeAssembly
      BY <1>10 DEF Checkpoint, BeforeAssembly, InLoop
    <3>2. /\ worker'[w].pc \in {"cancelCheck", "finalCheck", "failReturn"}
          /\ worker'[w].nextChunk = worker[w].nextChunk
          /\ worker'[w].assembled = worker[w].assembled
      BY <1>10, <2>2, AppendedPage
    <3>. QED
      BY <1>1, <3>1, <3>2
  <2>. QED
    BY <2>1, <2>2
<1>11. CASE AssemblyFails(w) \/ Crash(w)
  BY <1>3, <1>4, <1>11 DEF AssemblyFails, Crash
<1>12. CASE VerifyExportFile(w) \/ RecordVerdict(w)
  <2>1. /\ worker'[w].pc \in {"recordVerdict", "complete", "keepRejected"}
        /\ worker'[w].nextChunk = worker[w].nextChunk
        /\ worker'[w].assembled = worker[w].assembled
        /\ worker[w].pc \in Judging
    BY <1>a, <1>12 DEF VerifyExportFile, RecordVerdict, WorkerState
  <2>2. worker'[w].pc \notin BeforeAssembly
    BY <2>1 DEF BeforeAssembly, BeforeTry, InLoop
  <2>. QED
    BY <1>1, <2>1, <2>2
<1>13. CASE KeepRejectedFile(w) \/ CompleteJob(w)
  BY <1>4, <1>13 DEF KeepRejectedFile, CompleteJob
<1>. QED
  BY <1>5, <1>6, <1>7, <1>8, <1>9, <1>10, <1>11, <1>12, <1>13 DEF RunStep, RunFault

(* A fetched page has rows, a counted log is counted, an assembly begins    *)
(* with no lines and copies the objects of its batches as they are.         *)
LEMMA MovedRunKept ==
    ASSUME ProgressInv, LogKept, \A u \in Workers : RunIsStored(u), NEW w \in Workers,
           FetchRecordBatch(w) \/ CrossCheckLog(w) \/ SetVerifying(w) \/ AssembleChunk(w)
    PROVE  \A u \in Workers : worker'[u] = worker[u] \/ RunIsStored(u)'
<1>a. /\ worker \in [Workers -> WorkerState] /\ worker[w] \in WorkerState /\ RunIsStored(w)
      /\ UNCHANGED <<checkpoints, chunks, finalFile>>
      /\ \A u \in Workers : u # w => worker'[u] = worker[u]
  BY LogFacts DEF FetchRecordBatch, CrossCheckLog, SetVerifying, AssembleChunk, Advance,
     jobVars, storageVars
<1>. SUFFICES RunIsStored(w)'
  BY <1>a
<1>1. ASSUME NEW label \in {"failReturn", "failThrow", "assemblyFailed"}, Advance(w, label)
      PROVE  RunIsStored(w)'
  <2>1. worker'[w].pc = label
    BY <1>a, <1>1 DEF Advance, WorkerState
  <2>2. label \notin BeforeAssembly
    BY DEF BeforeAssembly, BeforeTry, InLoop
  <2>. QED
    BY <2>1, <2>2 DEF RunIsStored, AssemblyIsStored
<1>2. CASE FetchRecordBatch(w)
  <2>1. ASSUME NEW lastId \in Eligible(worker[w].lastExportedId),
               worker' = [worker EXCEPT ![w].pc = "put",
                              ![w].batch = UpTo(Eligible(worker[w].lastExportedId), lastId)]
        PROVE  RunIsStored(w)'
    <3>1. /\ worker'[w].pc = "put" /\ lastId \in worker'[w].batch
          /\ worker'[w].nextChunk = worker[w].nextChunk
          /\ worker'[w].assembled = worker[w].assembled
      <4>1. lastId <= lastId
        BY LogFacts DEF Eligible
      <4>. QED
        BY <1>a, <2>1, <4>1 DEF UpTo, WorkerState
    <3>2. worker[w].pc \in BeforeAssembly
      BY <1>2 DEF FetchRecordBatch, BeforeAssembly, InLoop
    <3>. QED
      BY <1>a, <3>1, <3>2 DEF RunIsStored, AssemblyIsStored
  <2>. QED
    BY <1>1, <1>2, <2>1 DEF FetchRecordBatch
<1>3. CASE CrossCheckLog(w)
  <2>1. CASE worker' = [worker EXCEPT ![w].pc = "setVerifying",
                                      ![w].batchCount = Cardinality(checkpoints)]
    <3>1. /\ worker'[w].pc = "setVerifying"
          /\ worker'[w].batchCount = Cardinality(checkpoints)
          /\ worker'[w].nextChunk = worker[w].nextChunk
          /\ worker'[w].assembled = worker[w].assembled
      BY <1>a, <2>1 DEF WorkerState
    <3>2. worker[w].pc \in BeforeAssembly
      BY <1>3 DEF CrossCheckLog, BeforeAssembly
    <3>. QED
      BY <1>a, <3>1, <3>2 DEF RunIsStored, AssemblyIsStored
  <2>. QED
    BY <1>1, <1>3, <2>1 DEF CrossCheckLog
<1>4. CASE SetVerifying(w)
  <2>1. /\ worker'[w].pc = "assemble"
        /\ worker'[w].batchCount = worker[w].batchCount
        /\ worker'[w].nextChunk = worker[w].nextChunk
        /\ worker'[w].assembled = worker[w].assembled
        /\ worker[w].pc = "setVerifying"
    BY <1>a, <1>4 DEF SetVerifying, Advance, WorkerState
  <2>2. /\ worker[w].batchCount = Cardinality(checkpoints)
        /\ worker[w].nextChunk = 1 /\ worker[w].assembled = {}
    BY <1>a, <2>1 DEF RunIsStored, AssemblyIsStored, BeforeAssembly
  <2>3. \A c \in checkpoints : ~(c.batchNumber < 1)
    BY BatchesBeginAtOne
  <2>4. "assemble" \notin BeforeAssembly
    BY DEF BeforeAssembly, BeforeTry, InLoop
  <2>. QED
    BY <1>a, <2>1, <2>2, <2>3, <2>4 DEF RunIsStored, AssemblyIsStored
<1>5. CASE AssembleChunk(w)
  <2>. DEFINE b     == worker[w].nextChunk
              lines == worker[w].assembled \cup (chunks \ OtherChunks(b))
  <2>1. CASE worker' = [worker EXCEPT ![w].nextChunk = b + 1, ![w].assembled = lines]
    <3>1. CASE ~ChunkExists(b)
      BY <1>1, <1>5, <3>1 DEF AssembleChunk
    <3>2. CASE ChunkExists(b)
      <4>1. /\ worker'[w].pc = "assemble" /\ worker'[w].nextChunk = b + 1
            /\ worker'[w].assembled = lines
            /\ worker'[w].batchCount = worker[w].batchCount
            /\ worker[w].pc = "assemble" /\ b \in Nat
        <5>1. worker[w].pc = "assemble"
          BY <1>5 DEF AssembleChunk
        <5>. QED
          BY <1>a, <2>1, <5>1 DEF WorkerState
      <4>2. chunks \ OtherChunks(b) = LinesOf(b, chunks) /\ LinesOf(b, chunks) # {}
        BY <3>2 DEF OtherChunks, LinesOf, ChunkExists
      <4>3. /\ worker[w].batchCount = Cardinality(checkpoints)
            /\ \A c \in checkpoints : c.batchNumber < b =>
                  Stored(c.batchNumber, c.rowsWritten, worker[w].assembled)
            /\ \A line \in worker[w].assembled : line[1] < b
            /\ worker[w].assembled \in SUBSET (Nat \X Nat)
        BY <1>a, <4>1 DEF RunIsStored, AssemblyIsStored, WorkerState
      <4>4. ASSUME NEW c \in checkpoints, c.batchNumber < b + 1
            PROVE  Stored(c.batchNumber, c.rowsWritten, lines)
        <5>1. CASE c.batchNumber = b
          <6>1. \A line \in worker[w].assembled : line[1] # b
            BY <4>1, <4>3
          <6>2. LinesOf(b, lines) = LinesOf(b, chunks)
            BY <4>2, <6>1 DEF LinesOf
          <6>3. Stored(c.batchNumber, c.rowsWritten, chunks)
            BY <4>2, <5>1 DEF LogKept, Kept
          <6>. QED
            BY <5>1, <6>2, <6>3 DEF Stored
        <5>2. CASE c.batchNumber < b
          <6>1. LinesOf(c.batchNumber, lines) = LinesOf(c.batchNumber, worker[w].assembled)
            BY <4>1, <4>2, <5>2, LogFacts DEF LinesOf
          <6>. QED
            BY <4>3, <5>2, <6>1 DEF Stored
        <5>. QED
          BY <4>1, <4>4, <5>1, <5>2, LogFacts
      <4>5. \A line \in lines : line[1] < b + 1
        <5>1. \A line \in worker[w].assembled : line[1] < b + 1
          BY <4>1, <4>3
        <5>2. \A line \in LinesOf(b, chunks) : line[1] < b + 1
          BY <4>1 DEF LinesOf
        <5>. QED
          BY <4>2, <5>1, <5>2
      <4>6. "assemble" \notin BeforeAssembly
        BY DEF BeforeAssembly, BeforeTry, InLoop
      <4>. HIDE DEF lines, b
      <4>. QED
        BY <1>a, <4>1, <4>3, <4>4, <4>5, <4>6 DEF RunIsStored, AssemblyIsStored, Stored, LinesOf
    <3>. QED
      BY <3>1, <3>2
  <2>. QED
    BY <1>1, <1>5, <2>1 DEF AssembleChunk
<1>. QED
  BY <1>2, <1>3, <1>4, <1>5

(* Whoever writes the object of a batch writes as many lines as are kept.   *)
LEMMA PutKept ==
    ASSUME ProgressInv, SizesAgree, LogKept, FileStored, \A u \in Workers : RunIsStored(u),
           NEW w \in Workers, PutChunk(w)
    PROVE  LogKept' /\ FileStored' /\ \A u \in Workers : RunIsStored(u)'
<1>. DEFINE b    == worker[w].batchNumber
            rows == worker[w].batch
<1>a. /\ worker \in [Workers -> WorkerState] /\ worker[w] \in WorkerState
      /\ worker[w].pc = "put" /\ Advance(w, "checkpoint")
      /\ UNCHANGED <<checkpoints, finalFile>>
      /\ chunks' = OtherChunks(b) \cup {b} \X rows
  BY LogFacts DEF PutChunk, jobVars
<1>1. LinesOf(b, chunks') = {b} \X rows /\ \A k : k # b => LinesOf(k, chunks') = LinesOf(k, chunks)
  BY <1>a DEF LinesOf, OtherChunks
<1>2. Cardinality({b} \X rows) = Cardinality(rows)
  <2>1. IsFiniteSet(rows) /\ Cardinality(rows) \in Nat
    BY <1>a, PageCardinality DEF WorkerState
  <2>2. IsFiniteSet({b}) /\ Cardinality({b}) = 1
    BY FS_Singleton
  <2>3. Cardinality({b} \X rows) = Cardinality({b}) * Cardinality(rows)
    BY <2>1, <2>2, FS_Product
  <2>. QED
    BY <2>1, <2>2, <2>3
<1>3. ASSUME NEW k, NEW n, Kept(k, n), k = b => n = Cardinality(rows)
      PROVE  Kept(k, n)'
  BY <1>1, <1>2, <1>3, <1>a DEF Kept, Stored, LinesOf
<1>4. LogKept'
  BY <1>3, <1>a DEF LogKept, SizesAgree
<1>5. ASSUME NEW u \in Workers
      PROVE  RunIsStored(u)'
  <2>1. CASE u = w
    <3>1. /\ worker'[w].pc = "checkpoint" /\ worker'[w].batchNumber = b
          /\ worker'[w].batch = rows
          /\ worker'[w].nextChunk = worker[w].nextChunk
          /\ worker'[w].assembled = worker[w].assembled
      BY <1>a DEF Advance, WorkerState
    <3>2. rows # {} /\ worker[w].nextChunk = 1 /\ worker[w].assembled = {}
      BY <1>a DEF RunIsStored, AssemblyIsStored, BeforeAssembly, InLoop
    <3>3. Kept(b, Cardinality(rows))'
      BY <1>1, <1>2, <1>a, <3>1 DEF Kept, Stored, LinesOf
    <3>. QED
      BY <2>1, <3>1, <3>2, <3>3 DEF RunIsStored, AssemblyIsStored, Kept, Stored, LinesOf
  <2>2. CASE u # w
    <3>1. worker'[u] = worker[u]
      BY <1>a, <2>2 DEF Advance
    <3>2. worker[u].pc = "checkpoint" =>
              Kept(worker[u].batchNumber, Cardinality(worker[u].batch))'
      <4>. SUFFICES ASSUME worker[u].pc = "checkpoint"
                    PROVE  Kept(worker[u].batchNumber, Cardinality(worker[u].batch))'
        OBVIOUS
      <4>1. PICK k, n : k = worker[u].batchNumber /\ n = Cardinality(worker[u].batch)
        OBVIOUS
      <4>2. Kept(k, n)
        BY <4>1 DEF RunIsStored
      <4>3. k = b => n = Cardinality(rows)
        BY <1>a, <4>1 DEF SizesAgree
      <4>4. Kept(k, n)'
        BY <1>3, <4>2, <4>3
      <4>. QED
        BY <3>1, <4>1, <4>4
    <3>. QED
      BY <1>a, <3>1, <3>2 DEF RunIsStored, AssemblyIsStored, Stored, LinesOf, Kept
  <2>. QED
    BY <2>1, <2>2
<1>6. FileStored'
  BY <1>a DEF FileStored, Stored, LinesOf
<1>. QED
  BY <1>4, <1>5, <1>6

(* The appended batch is kept as it was put; no run assembles yet.          *)
LEMMA AppendKept ==
    ASSUME ProgressInv, LogKept, FileStored, \A u \in Workers : RunIsStored(u),
           NEW w \in Workers, Checkpoint(w), ~UniqueViolation(worker[w].batchNumber)
    PROVE  LogKept' /\ FileStored' /\ \A u \in Workers : RunIsStored(u)'
<1>a. /\ worker \in [Workers -> WorkerState] /\ worker[w] \in WorkerState
      /\ UNCHANGED <<chunks, finalFile>> /\ worker[w].pc = "checkpoint"
  BY LogFacts DEF Checkpoint, storageVars
<1>1. PICK id \in worker[w].batch : checkpoints' = checkpoints \cup {NewCheckpoint(w, id)}
  BY AppendedPage
<1>2. (\A u \in Workers : worker[u].pc \notin Finishing) /\ finalFile = {}
  <2>1. RowsWritten(checkpoints) \in Nat /\ RowsWritten(checkpoints) < RequestedRowLimit
    BY AppendedPage, LogFacts, RowsWrittenType
  <2>2. RowsWritten(checkpoints) # RequestedRowLimit
    BY <2>1, LogFacts
  <2>. QED
    BY <2>2 DEF ProgressInv, FullBeyondLoop, FileStored
<1>3. LogKept'
  <2>1. Cardinality(worker[w].batch) # 0
    <3>1. IsFiniteSet(worker[w].batch)
      BY <1>a, PageCardinality DEF WorkerState
    <3>. QED
      BY <1>1, <3>1, FS_EmptySet
  <2>2. Kept(worker[w].batchNumber, Cardinality(worker[w].batch))
    BY <1>a DEF RunIsStored
  <2>3. PICK new : new = NewCheckpoint(w, id)
    OBVIOUS
  <2>4. /\ new.batchNumber = worker[w].batchNumber
        /\ new.rowsWritten = Cardinality(worker[w].batch)
        /\ checkpoints' = checkpoints \cup {new}
    BY <1>1, <2>3 DEF NewCheckpoint
  <2>. QED
    BY <1>a, <2>1, <2>2, <2>4 DEF LogKept, Kept, Stored, LinesOf
<1>4. RunIsStored(w)' /\ \A u \in Workers : u # w => worker'[u] = worker[u]
  <2>1. RunStep(w)
    BY DEF RunStep
  <2>2. /\ ~FetchRecordBatch(w) /\ ~PutChunk(w) /\ ~CrossCheckLog(w) /\ ~SetVerifying(w)
        /\ ~AssembleChunk(w) /\ ~UploadFinalCsv(w)
    BY <1>a DEF FetchRecordBatch, PutChunk, CrossCheckLog, SetVerifying, AssembleChunk,
       UploadFinalCsv
  <2>. QED
    BY <1>a, <2>1, <2>2, PlainRunKept
<1>5. ASSUME NEW u \in Workers, u # w
      PROVE  RunIsStored(u)'
  <2>1. worker'[u] = worker[u] /\ worker[u].pc \notin {"setVerifying", "assemble"}
    BY <1>2, <1>4, <1>5 DEF Finishing
  <2>. QED
    BY <1>a, <2>1 DEF RunIsStored, AssemblyIsStored, Kept, Stored, LinesOf
<1>6. FileStored'
  BY <1>2, <1>a DEF FileStored
<1>. QED
  BY <1>3, <1>4, <1>5, <1>6

(* The file has every line of the objects, so that they may go.             *)
LEMMA UploadKept ==
    ASSUME ProgressInv, LogKept, FileStored, \A u \in Workers : RunIsStored(u),
           NEW w \in Workers, UploadFinalCsv(w)
    PROVE  LogKept' /\ FileStored' /\ \A u \in Workers : RunIsStored(u)'
<1>a. /\ worker \in [Workers -> WorkerState] /\ worker[w] \in WorkerState /\ RunIsStored(w)
      /\ UNCHANGED <<checkpoints, chunks>>
      /\ worker[w].pc = "assemble" /\ worker[w].nextChunk > worker[w].batchCount
      /\ finalFile' = worker[w].assembled
  BY LogFacts DEF UploadFinalCsv, jobVars
<1>1. RowsWritten(checkpoints) = RequestedRowLimit
  BY <1>a DEF ProgressInv, FullBeyondLoop, Finishing
<1>2. ASSUME NEW c \in checkpoints
      PROVE  Stored(c.batchNumber, c.rowsWritten, worker[w].assembled)
  <2>1. c.batchNumber \in 1 .. Cardinality(checkpoints) /\ Cardinality(checkpoints) \in Nat
    BY BatchesCounted DEF BatchNumbers
  <2>2. c.batchNumber < worker[w].nextChunk
    BY <1>a, <2>1 DEF RunIsStored, AssemblyIsStored, WorkerState
  <2>. QED
    BY <1>a, <2>2 DEF RunIsStored, AssemblyIsStored
<1>3. FileStored'
  BY <1>1, <1>2, <1>a DEF FileStored, Stored, LinesOf
<1>4. finalFile' # {}
  <2>1. PICK c : c \in checkpoints
    BY <1>1, LogFacts, RowsOfEmptyLog
  <2>2. Cardinality(LinesOf(c.batchNumber, worker[w].assembled)) # 0
    BY <1>2, <2>1 DEF LogKept, Stored
  <2>3. LinesOf(c.batchNumber, worker[w].assembled) # {}
    BY <2>2, FS_EmptySet
  <2>. QED
    BY <1>a, <2>3 DEF LinesOf
<1>5. ASSUME NEW k, NEW n, Kept(k, n)
      PROVE  Kept(k, n)'
  BY <1>4, <1>5, <1>a DEF Kept, Stored, LinesOf
<1>6. LogKept'
  BY <1>5, <1>a DEF LogKept
<1>7. ASSUME NEW u \in Workers
      PROVE  RunIsStored(u)'
  <2>1. CASE u = w
    <3>1. worker'[w].pc = "verify"
      BY <1>a DEF UploadFinalCsv, WorkerState
    <3>. QED
      BY <1>4, <2>1, <3>1 DEF RunIsStored, AssemblyIsStored, BeforeAssembly, BeforeTry, InLoop
  <2>2. CASE u # w
    <3>1. worker'[u] = worker[u]
      BY <1>a, <2>2 DEF UploadFinalCsv
    <3>2. worker[u].pc = "checkpoint" =>
              Kept(worker[u].batchNumber, Cardinality(worker[u].batch))'
      <4>1. PICK k, n : k = worker[u].batchNumber /\ n = Cardinality(worker[u].batch)
        OBVIOUS
      <4>. QED
        BY <1>5, <3>1, <4>1 DEF RunIsStored
    <3>. QED
      BY <1>4, <1>a, <3>1, <3>2 DEF RunIsStored, AssemblyIsStored, Stored, LinesOf
  <2>. QED
    BY <2>1, <2>2
<1>. QED
  BY <1>3, <1>6, <1>7

(* Objects are deleted behind a file only, as nobody cancels.               *)
LEMMA DeleteKept ==
    ASSUME ProgressInv, NobodyCancels, LogKept, FileStored, \A u \in Workers : RunIsStored(u),
           NEW w \in Workers, DeleteChunks(w) \/ DeleteChunksThrows(w)
    PROVE  LogKept' /\ FileStored' /\ \A u \in Workers : RunIsStored(u)'
<1>a. /\ worker \in [Workers -> WorkerState]
      /\ UNCHANGED <<checkpoints, finalFile>>
      /\ worker[w].pc \in {"cancelCleanup", "cleanup"}
  BY LogFacts DEF DeleteChunks, DeleteChunksThrows, jobVars
<1>1. finalFile # {}
  BY <1>a DEF NobodyCancels, RunIsStored
<1>2. \A k : LinesOf(k, chunks') = {} \/ LinesOf(k, chunks') = LinesOf(k, chunks)
  <2>1. CASE chunks' = {}
    BY <2>1 DEF LinesOf
  <2>2. ASSUME NEW k, NEW page, chunks' = {line \in chunks : line[1] > page}
        PROVE  LinesOf(k, chunks') = LinesOf(k, chunks) \/ LinesOf(k, chunks') = {}
    BY <2>2 DEF LinesOf
  <2>. QED
    BY <2>1, <2>2 DEF DeleteChunks, DeleteChunksThrows
<1>3. ASSUME NEW k, NEW n, Kept(k, n)
      PROVE  Kept(k, n)'
  BY <1>1, <1>2, <1>3, <1>a DEF Kept, Stored, LinesOf
<1>4. LogKept' /\ FileStored'
  BY <1>3, <1>a DEF LogKept, FileStored, Stored, LinesOf
<1>5. RunIsStored(w)' /\ \A u \in Workers : u # w => worker'[u] = worker[u]
  <2>1. RunStep(w) \/ RunFault(w)
    BY DEF RunStep, RunFault
  <2>2. /\ ~FetchRecordBatch(w) /\ ~PutChunk(w) /\ ~CrossCheckLog(w) /\ ~SetVerifying(w)
        /\ ~AssembleChunk(w) /\ ~UploadFinalCsv(w)
    BY <1>a DEF FetchRecordBatch, PutChunk, CrossCheckLog, SetVerifying, AssembleChunk,
       UploadFinalCsv
  <2>. QED
    BY <1>a, <2>1, <2>2, PlainRunKept
<1>6. ASSUME NEW u \in Workers, u # w
      PROVE  RunIsStored(u)'
  <2>1. worker'[u] = worker[u]
    BY <1>5, <1>6
  <2>2. worker[u].pc = "checkpoint" =>
            Kept(worker[u].batchNumber, Cardinality(worker[u].batch))'
    <3>1. PICK k, n : k = worker[u].batchNumber /\ n = Cardinality(worker[u].batch)
      OBVIOUS
    <3>. QED
      BY <1>3, <2>1, <3>1 DEF RunIsStored
  <2>. QED
    BY <1>a, <2>1, <2>2 DEF RunIsStored, AssemblyIsStored, Stored, LinesOf
<1>. QED
  BY <1>4, <1>5, <1>6

LEMMA RunStepKept ==
    ASSUME ProgressInv, NobodyCancels, SizesAgree, LogKept, FileStored,
           \A u \in Workers : RunIsStored(u), NEW w \in Workers, RunStep(w) \/ RunFault(w)
    PROVE  LogKept' /\ FileStored' /\ \A u \in Workers : RunIsStored(u)'
<1>1. CASE PutChunk(w)
  BY <1>1, PutKept
<1>2. CASE Checkpoint(w) /\ ~UniqueViolation(worker[w].batchNumber)
  BY <1>2, AppendKept
<1>3. CASE UploadFinalCsv(w)
  BY <1>3, UploadKept
<1>4. CASE DeleteChunks(w) \/ DeleteChunksThrows(w)
  BY <1>4, DeleteKept
<1>5. ASSUME ~PutChunk(w), ~UploadFinalCsv(w), ~DeleteChunks(w), ~DeleteChunksThrows(w),
             ~(Checkpoint(w) /\ ~UniqueViolation(worker[w].batchNumber))
      PROVE  LogKept' /\ FileStored' /\ \A u \in Workers : RunIsStored(u)'
  <2>1. UNCHANGED <<checkpoints, chunks, finalFile>>
    BY <1>5 DEF RunStep, RunFault, ReadJob, CancelBeforeStart, ClaimJob, SetStartedAt,
       LoadResumeState, ReconcileJobProgress, IsCancelRequested, CancelMidRun,
       FetchRecordBatch, Checkpoint, CrossCheckLog, SetVerifying, AssembleChunk,
       AssemblyFails, VerifyExportFile, RecordVerdict, KeepRejectedFile, CompleteJob,
       FailJob, StepThrows, Crash, jobVars, storageVars
  <2>2. \A u \in Workers : worker'[u] = worker[u] \/ RunIsStored(u)'
    <3>1. CASE FetchRecordBatch(w) \/ CrossCheckLog(w) \/ SetVerifying(w) \/ AssembleChunk(w)
      BY <3>1, MovedRunKept
    <3>2. CASE ~(FetchRecordBatch(w) \/ CrossCheckLog(w) \/ SetVerifying(w) \/ AssembleChunk(w))
      BY <1>5, <2>1, <3>2, PlainRunKept
    <3>. QED
      BY <3>1, <3>2
  <2>. QED
    BY <2>1, <2>2, QuietKept
<1>. QED
  BY <1>1, <1>2, <1>3, <1>4, <1>5

(* Other steps leave log, objects and file alone.                           *)
LEMMA OtherStepKept ==
    ASSUME ProgressInv, LogKept, FileStored, \A u \in Workers : RunIsStored(u), OtherStep
    PROVE  LogKept' /\ FileStored' /\ \A u \in Workers : RunIsStored(u)'
<1>a. worker \in [Workers -> WorkerState]
  BY LogFacts
<1>1. UNCHANGED <<checkpoints, chunks, finalFile>>
  BY DEF OtherStep, HandlerStep, CreateStep, CaptureSnapshotMaxId, CreateExportJob,
     MarkQueued, MarkResuming, CancelWrite, VerifyScan, VerifyRecord, EnqueueStep,
     InspectEntry, RemoveEntry, AddEntry, RequestAborts, RequestArrives, ResumeRead,
     CancelRead, VerifyRead, QueueStep, PickUp, ProcessorReturns, ProcessorThrows,
     BackoffElapses, ReclaimFromDead, QueueFault, ReclaimFromLive, RedisRestarts, SweepStep,
     ListStalled, MarkInterrupted, SweepAborts, HeartbeatExpires, RecordTraffic, InsertRecord,
     BeginInsert, CommitInsert, DeleteRecord, vars, jobVars, storageVars
<1>2. ASSUME NEW w \in Workers, PickUp(w) \/ ProcessorReturns(w) \/ ProcessorThrows(w)
      PROVE  \A u \in Workers : worker'[u] = worker[u] \/ RunIsStored(u)'
  <2>1. CASE PickUp(w)
    <3>1. /\ worker'[w].pc = "read" /\ worker'[w].nextChunk = worker[w].nextChunk
          /\ worker'[w].assembled = worker[w].assembled
          /\ worker[w].pc \in BeforeAssembly
          /\ \A u \in Workers : u # w => worker'[u] = worker[u]
      BY <1>a, <2>1 DEF PickUp, WorkerState, BeforeAssembly
    <3>2. RunIsStored(w)'
      BY <3>1 DEF RunIsStored, AssemblyIsStored
    <3>. QED
      BY <3>1, <3>2
  <2>2. CASE ProcessorReturns(w) \/ ProcessorThrows(w)
    <3>1. worker'[w] = IdleWorker /\ \A u \in Workers : u # w => worker'[u] = worker[u]
      BY <1>a, <2>2 DEF ProcessorReturns, ProcessorThrows
    <3>2. RunIsStored(w)'
      BY <3>1 DEF IdleWorker, RunIsStored, AssemblyIsStored
    <3>. QED
      BY <3>1, <3>2
  <2>. QED
    BY <1>2, <2>1, <2>2
<1>3. \A u \in Workers : worker'[u] = worker[u] \/ RunIsStored(u)'
  BY <1>2, OtherKeepsWorkers
<1>. QED
  BY <1>1, <1>3, QuietKept

(* A run touches no request.                                                *)
LEMMA RunKeepsRequests ==
    ASSUME NEW w \in Workers, RunStep(w) \/ RunFault(w)
    PROVE  UNCHANGED request
BY DEF RunStep, RunFault, ReadJob, CancelBeforeStart, ClaimJob, SetStartedAt, LoadResumeState,
   ReconcileJobProgress, IsCancelRequested, CancelMidRun, DeleteChunks, FetchRecordBatch,
   PutChunk, Checkpoint, CrossCheckLog, SetVerifying, AssembleChunk, UploadFinalCsv,
   AssemblyFails, VerifyExportFile, RecordVerdict, KeepRejectedFile, CompleteJob, FailJob,
   DeleteChunksThrows, StepThrows, Crash

(* A handler keeps to the labels of its operation, and to its operation.    *)
LEMMA OpsKept ==
    ASSUME ProgressInv, OpsFit, [Next]_vars
    PROVE  /\ OpsFit'
           /\ \A op : op # "none" /\ Asked(op) => Asked(op)'
<1>a. /\ request \in [Handlers -> RequestState] /\ Requests \subseteq Handlers
      /\ Creator \in Handlers /\ Creator \notin Requests
      /\ \A r \in Requests : request[r] \in RequestState
  BY LogFacts, StateAssumption DEF Handlers
<1>. DEFINE Fits(x) ==
              /\ x.op # "create"
              /\ x.pc = "idle" => x.op = "none"
              /\ x.pc \in {"markResuming", "inspect", "remove", "add"} => x.op = "resume"
            Moved(r) ==
              /\ Fits(request'[r])
              /\ request[r].op # "none" => request'[r].op = request[r].op
<1>1. ASSUME NEW r \in Requests, request'[r] = request[r]
      PROVE  Moved(r)
  BY <1>1 DEF OpsFit
<1>2. ASSUME NEW h \in Handlers, HandlerStep(h) \/ RequestAborts(h), NEW r \in Requests
      PROVE  Moved(r)
  <2>1. ASSUME NEW label, request' = [request EXCEPT ![h].pc = label],
               label # "idle",
               h \in Requests /\ label \in {"markResuming", "inspect", "remove", "add"}
                 => request[h].op = "resume"
        PROVE  Moved(r)
    BY <1>a, <2>1 DEF OpsFit, RequestState
  <2>2. CASE RequestAborts(h) \/ VerifyRecord(h) \/ CancelWrite(h) \/ MarkResuming(h)
    BY <2>1, <2>2 DEF RequestAborts, VerifyRecord, CancelWrite, MarkResuming, Goto, OpsFit
  <2>3. CASE VerifyScan(h)
    BY <1>a, <2>3 DEF VerifyScan, OpsFit, RequestState
  <2>4. CASE h = Creator /\ CreateStep
    BY <1>a, <2>1, <2>4 DEF CreateStep, CaptureSnapshotMaxId, CreateExportJob, MarkQueued, Goto
  <2>5. CASE EnqueueStep(h)
    <3>1. h \in Requests => request[h].op = "resume"
      BY <2>5 DEF EnqueueStep, InspectEntry, RemoveEntry, AddEntry, OpsFit
    <3>2. AfterEnqueue(h) \in {"markQueued", "done"}
      BY DEF AfterEnqueue
    <3>3. AfterInspect(h) \in {"add", "remove", "markQueued", "done"}
      BY <3>2 DEF AfterInspect
    <3>. QED
      BY <2>1, <2>5, <3>1, <3>2, <3>3 DEF EnqueueStep, InspectEntry, RemoveEntry, AddEntry, Goto
  <2>. QED
    BY <1>2, <2>2, <2>3, <2>4, <2>5 DEF HandlerStep
<1>3. ASSUME NEW q \in Requests, RequestArrives(q), NEW r \in Requests
      PROVE  Moved(r)
  <2>1. ASSUME NEW op, NEW label, Begin(q, op, label), request[q].pc = "idle",
               <<op, label>> \in {<<"resume", "markResuming">>, <<"cancel", "flag">>,
                                  <<"cancel", "flagAndCancel">>, <<"verify", "scan">>}
        PROVE  Moved(r)
    BY <1>a, <2>1 DEF Begin, OpsFit, RequestState
  <2>. QED
    BY <1>3, <2>1 DEF RequestArrives, ResumeRead, CancelRead, VerifyRead
<1>4. ASSUME UNCHANGED request, NEW r \in Requests
      PROVE  Moved(r)
  BY <1>1, <1>4
<1>5. ASSUME \/ QueueStep \/ QueueFault \/ SweepStep \/ SweepAborts \/ HeartbeatExpires
             \/ RecordTraffic \/ UNCHANGED vars
      PROVE  UNCHANGED request
  BY <1>5 DEF QueueStep, PickUp, ProcessorReturns, ProcessorThrows, BackoffElapses,
     ReclaimFromDead, QueueFault, ReclaimFromLive, RedisRestarts, SweepStep, ListStalled,
     MarkInterrupted, SweepAborts, HeartbeatExpires, RecordTraffic, InsertRecord,
     BeginInsert, CommitInsert, DeleteRecord, vars
<1>6. \A r \in Requests : Moved(r)
  BY <1>2, <1>3, <1>4, <1>5, RunKeepsRequests DEF Next
<1>7. OpsFit'
  <2>1. ASSUME NEW r \in Requests
        PROVE  /\ request'[r].op # "create"
               /\ request'[r].pc = "idle" => request'[r].op = "none"
               /\ request'[r].pc \in {"markResuming", "inspect", "remove", "add"}
                     => request'[r].op = "resume"
    BY <1>6
  <2>. HIDE DEF Moved, Fits
  <2>. QED
    BY <2>1 DEF OpsFit
<1>8. ASSUME NEW op, op # "none", Asked(op)
      PROVE  Asked(op)'
  BY <1>6, <1>8 DEF Asked
<1>. QED
  BY <1>7, <1>8

THEOREM OpsInvariant == Spec => []OpsFit
<1>1. Init => OpsFit
  BY StateAssumption DEF Init, OpsFit, Handlers
<1>. QED
  BY <1>1, OpsKept, ProgressInvariant, PTL DEF Spec

(* Where no request is to cancel, nobody cancels.                           *)
LEMMA NextNobodyCancels ==
    ASSUME ProgressInv, NobodyCancels, [Next]_vars, ~Asked("cancel")'
    PROVE  NobodyCancels'
<1>a. /\ worker \in [Workers -> WorkerState] /\ request \in [Handlers -> RequestState]
      /\ job \in ExportJob /\ Requests \subseteq Handlers /\ Creator \in Handlers
      /\ Creator \notin Requests
  BY StateAssumption DEF ProgressInv, LogInv, TypeOK, Handlers
<1>. DEFINE Cancelling == {"cancelEarly", "cancelWrite", "cancelCleanup"}
            Flagging   == {"flag", "flagAndCancel"}
<1>1. ~job'.cancelRequested
  <2>1. ASSUME UNCHANGED job PROVE ~job'.cancelRequested
    BY <2>1 DEF NobodyCancels
  <2>2. ~\E r \in Requests : CancelWrite(r)
    BY DEF NobodyCancels, CancelWrite
  <2>3. ASSUME NEW w \in Workers, RunStep(w) \/ RunFault(w)
        PROVE  ~job'.cancelRequested
    BY <1>a, <2>3 DEF NobodyCancels, RunStep, RunFault, ReadJob, CancelBeforeStart, ClaimJob,
       SetStartedAt, LoadResumeState, ReconcileJobProgress, IsCancelRequested, CancelMidRun,
       DeleteChunks, FetchRecordBatch, PutChunk, Checkpoint, CrossCheckLog, SetVerifying,
       AssembleChunk, UploadFinalCsv, AssemblyFails, VerifyExportFile, RecordVerdict,
       KeepRejectedFile, CompleteJob, FailJob, DeleteChunksThrows, StepThrows, Crash,
       WithStatus, ExportJob, jobVars
  <2>4. ASSUME OtherStep
        PROVE  ~job'.cancelRequested
    BY <1>a, <2>2, <2>4 DEF NobodyCancels, OtherStep, HandlerStep, CreateStep,
       CaptureSnapshotMaxId, CreateExportJob, MarkQueued, MarkResuming, VerifyScan,
       VerifyRecord, EnqueueStep, InspectEntry, RemoveEntry, AddEntry, RequestAborts,
       RequestArrives, ResumeRead, CancelRead, VerifyRead, QueueStep, PickUp,
       ProcessorReturns, ProcessorThrows, BackoffElapses, ReclaimFromDead, QueueFault,
       ReclaimFromLive, RedisRestarts, SweepStep, ListStalled, MarkInterrupted, SweepAborts,
       HeartbeatExpires, RecordTraffic, InsertRecord, BeginInsert, CommitInsert, DeleteRecord,
       vars, jobVars, NoJob, WithStatus, ExportJob
  <2>. QED
    BY <2>3, <2>4 DEF Next, OtherStep
<1>2. ASSUME NEW r \in Requests
      PROVE  request'[r].pc \notin Flagging
  <2>1. ASSUME NEW w \in Workers, RunStep(w) \/ RunFault(w)
        PROVE  UNCHANGED request
    BY <2>1, RunKeepsRequests
  <2>2. ASSUME NEW h \in Handlers, HandlerStep(h) \/ RequestAborts(h)
        PROVE  request'[r].pc \notin Flagging
    BY <1>a, <2>2 DEF NobodyCancels, HandlerStep, CreateStep, CaptureSnapshotMaxId,
       CreateExportJob, MarkQueued, MarkResuming, CancelWrite, VerifyScan, VerifyRecord,
       EnqueueStep, InspectEntry, RemoveEntry, AddEntry, RequestAborts, Goto, AfterInspect,
       AfterEnqueue, RequestState
  <2>3. ASSUME NEW q \in Requests, RequestArrives(q)
        PROVE  request'[r].pc \notin Flagging
    <3>1. ~CancelRead(q)
      <4>1. ASSUME CancelRead(q) PROVE request'[q].op = "cancel"
        BY <1>a, <4>1 DEF CancelRead, Begin, RequestState
      <4>. QED
        BY <4>1 DEF Asked
    <3>. QED
      BY <1>a, <2>3, <3>1 DEF NobodyCancels, RequestArrives, ResumeRead, VerifyRead, Begin,
         RequestState
  <2>4. CASE UNCHANGED request
    BY <2>4 DEF NobodyCancels
  <2>5. CASE \/ QueueStep \/ QueueFault \/ SweepStep \/ SweepAborts \/ HeartbeatExpires
             \/ RecordTraffic \/ UNCHANGED vars
    BY <2>4, <2>5 DEF QueueStep, PickUp, ProcessorReturns, ProcessorThrows, BackoffElapses,
       ReclaimFromDead, QueueFault, ReclaimFromLive, RedisRestarts, SweepStep, ListStalled,
       MarkInterrupted, SweepAborts, HeartbeatExpires, RecordTraffic, InsertRecord,
       BeginInsert, CommitInsert, DeleteRecord, vars
  <2>. QED
    BY <2>1, <2>2, <2>3, <2>4, <2>5 DEF Next
<1>3. ASSUME NEW u \in Workers
      PROVE  worker'[u].pc \notin Cancelling
  <2>1. ASSUME NEW w \in Workers, RunStep(w) \/ RunFault(w)
        PROVE  worker'[u].pc \notin Cancelling
    <3>1. \/ worker' = [worker EXCEPT ![w] = worker'[w]]
          \/ UNCHANGED worker
      BY <1>a, <2>1 DEF RunStep, RunFault, ReadJob, CancelBeforeStart, ClaimJob,
         SetStartedAt, LoadResumeState, ResumeAt, ReconcileJobProgress, IsCancelRequested,
         CancelMidRun, DeleteChunks, FetchRecordBatch, PutChunk, Checkpoint, CrossCheckLog,
         SetVerifying, AssembleChunk, UploadFinalCsv, AssemblyFails, VerifyExportFile,
         RecordVerdict, KeepRejectedFile, CompleteJob, FailJob, DeleteChunksThrows,
         StepThrows, Crash, Advance
    <3>2. worker'[w].pc \notin Cancelling
      <4>1. CASE ReadJob(w) \/ IsCancelRequested(w) \/ CancelMidRun(w)
        BY <1>a, <4>1 DEF ReadJob, IsCancelRequested, CancelMidRun, NobodyCancels, Advance,
           WorkerState
      <4>a. \A rows : LoopLabel(rows) \in {"cancelCheck", "finalCheck", "failReturn"}
        BY DEF LoopLabel
      <4>b. ASSUME NEW label, label \notin Cancelling, Advance(w, label)
            PROVE  worker'[w].pc \notin Cancelling
        BY <1>a, <4>b DEF Advance, WorkerState
      <4>2. CASE \/ CancelBeforeStart(w) \/ ClaimJob(w) \/ SetStartedAt(w)
                 \/ ReconcileJobProgress(w) \/ DeleteChunks(w) \/ PutChunk(w)
                 \/ SetVerifying(w)
        BY <4>a, <4>b, <4>2 DEF CancelBeforeStart, ClaimJob, SetStartedAt,
           ReconcileJobProgress, DeleteChunks, PutChunk, SetVerifying
      <4>3. CASE LoadResumeState(w)
        <5>1. ASSUME NEW n, NEW id, NEW rows, ResumeAt(w, n, id, rows)
              PROVE  worker'[w].pc \notin Cancelling
          BY <1>a, <5>1 DEF ResumeAt, WorkerState
        <5>. QED
          BY <4>b, <4>3, <5>1 DEF LoadResumeState
      <4>5. CASE FetchRecordBatch(w) \/ CrossCheckLog(w)
        BY <1>a, <4>b, <4>5 DEF FetchRecordBatch, CrossCheckLog, WorkerState
      <4>6. CASE Checkpoint(w)
        <5>1. CASE UniqueViolation(worker[w].batchNumber)
          BY <4>b, <4>6, <5>1 DEF Checkpoint
        <5>2. CASE ~UniqueViolation(worker[w].batchNumber)
          BY <4>6, <5>2, AppendedPage
        <5>. QED
          BY <5>1, <5>2
      <4>7. CASE AssembleChunk(w) \/ UploadFinalCsv(w) \/ AssemblyFails(w)
        BY <1>a, <4>b, <4>7 DEF AssembleChunk, UploadFinalCsv, AssemblyFails, IdleWorker,
           WorkerState
      <4>4. CASE \/ VerifyExportFile(w) \/ RecordVerdict(w) \/ KeepRejectedFile(w)
                 \/ CompleteJob(w) \/ FailJob(w) \/ RunFault(w)
        BY <1>a, <4>4 DEF VerifyExportFile, RecordVerdict, KeepRejectedFile, CompleteJob,
           FailJob, RunFault, DeleteChunksThrows, StepThrows, Crash, Advance, IdleWorker,
           WorkerState
      <4>. QED
        BY <2>1, <4>1, <4>2, <4>3, <4>4, <4>5, <4>6, <4>7 DEF RunStep
    <3>. QED
      BY <1>a, <3>1, <3>2 DEF NobodyCancels
  <2>2. CASE OtherStep
    <3>1. ASSUME NEW w \in Workers, PickUp(w) \/ ProcessorReturns(w) \/ ProcessorThrows(w)
          PROVE  worker'[u] = worker[u] \/ worker'[u].pc \in {"idle", "read"}
      BY <1>a, <3>1 DEF PickUp, ProcessorReturns, ProcessorThrows, IdleWorker, WorkerState
    <3>. QED
      BY <2>2, <3>1, OtherKeepsWorkers DEF NobodyCancels
  <2>. QED
    BY <2>1, <2>2 DEF Next, OtherStep
<1>. QED
  BY <1>1, <1>2, <1>3 DEF NobodyCancels

LEMMA NextDurableInv ==
    ASSUME ProgressInv, SizesAgree, DurableInv, [Next]_vars, ~Asked("cancel")'
    PROVE  DurableInv'
<1>1. NobodyCancels /\ LogKept /\ FileStored /\ \A u \in Workers : RunIsStored(u)
  BY DEF DurableInv, LogKept, FileStored, RunIsStored
<1>2. NobodyCancels'
  BY <1>1, NextNobodyCancels
<1>3. LogKept' /\ FileStored' /\ \A u \in Workers : RunIsStored(u)'
  BY <1>1, RunStepKept, OtherStepKept DEF Next, OtherStep
<1>. QED
  BY <1>2, <1>3 DEF DurableInv, LogKept, FileStored, RunIsStored

LEMMA InitDurableInv == Init => DurableInv
<1>. SUFFICES ASSUME Init PROVE DurableInv
  OBVIOUS
<1>1. /\ checkpoints = {} /\ finalFile = {} /\ ~job.cancelRequested
      /\ \A w \in Workers : worker[w] = IdleWorker
  BY DEF Init, NoJob
<1>2. \A r \in Requests : request[r].pc = "idle"
  BY StateAssumption DEF Init, Handlers
<1>3. NobodyCancels
  BY <1>1, <1>2 DEF NobodyCancels, IdleWorker
<1>4. \A w \in Workers : AssemblyIsStored(w) /\ worker[w].pc = "idle"
  BY <1>1 DEF IdleWorker, AssemblyIsStored
<1>. QED
  BY <1>1, <1>3, <1>4 DEF DurableInv

(* The progress of an export nobody cancels is never ahead of the bytes in  *)
(* the bucket.  For any number of overlapping runs, if the table does not   *)
(* shrink meanwhile: a row that is committed late may change what a page    *)
(* says, not how much.                                                      *)
THEOREM DurableInvariant ==
    ASSUME FaultBudget["delete"] = 0
    PROVE  Spec => [](~Asked("cancel") => DurableInv)
<1>1. /\ ProgressInv /\ EnoughInv /\ OpsFit
      /\ (~Asked("cancel") => DurableInv) /\ [Next]_vars
      => (~Asked("cancel") => DurableInv)'
  BY NextDurableInv, EqualSizes, OpsKept
<1>. QED
  BY <1>1, InitDurableInv, EnoughInvariant, OpsInvariant, ProgressInvariant, PTL DEF Spec

LEMMA DurableProgressHolds == ProgressInv /\ DurableInv => DurableProgress
BY DEF DurableInv, Kept, Stored, DurableProgress

(* In particular, every row the progress counts is in the bucket or the     *)
(* file.                                                                    *)
THEOREM ProgressAlwaysDurable ==
    ASSUME FaultBudget["delete"] = 0
    PROVE  Spec => [](~Asked("cancel") => DurableProgress)
BY DurableInvariant, DurableProgressHolds, ProgressInvariant, PTL

(* Rows may be deleted, too, where runs do not overlap.                     *)
THEOREM DurableInvariantAlone ==
    ASSUME FaultBudget["lockLoss"] = 0, FaultBudget["redisRestart"] = 0
    PROVE  Spec => [](~Asked("cancel") => DurableInv)
<1>1. /\ ProgressInv /\ (FileInv /\ PagesAgree) /\ OpsFit
      /\ (~Asked("cancel") => DurableInv) /\ [Next]_vars
      => (~Asked("cancel") => DurableInv)'
  BY NextDurableInv, EqualSizes, OpsKept
<1>. QED
  BY <1>1, InitDurableInv, FileInvariant, OpsInvariant, ProgressInvariant, PTL DEF Spec

THEOREM ProgressAlwaysDurableAlone ==
    ASSUME FaultBudget["lockLoss"] = 0, FaultBudget["redisRestart"] = 0
    PROVE  Spec => [](~Asked("cancel") => DurableProgress)
BY DurableInvariantAlone, DurableProgressHolds, ProgressInvariant, PTL

-----------------------------------------------------------------------------
(* ExactInv by what it is about: the objects and the file, a run, the log.  *)
BytesAreRows == RowsOf(chunks) \subseteq records /\ RowsOf(finalFile) \subseteq records
RunHoldsRows(w) ==
    worker[w].batch \subseteq records /\ RowsOf(worker[w].assembled) \subseteq records
RangeOf(c) == {r \in records : InRange(c, r)}
LogCountsRows ==
    \A c \in checkpoints : c.lastRecordId \in records /\ Cardinality(RangeOf(c)) = c.rowsWritten

(* Two pages that begin at the same cursor, skip nothing and are as long,   *)
(* are the same page.                                                       *)
ContinuesAt(page, cursor) ==
    /\ page \subseteq records /\ \A r \in page : cursor < r
    /\ \A r \in records : cursor < r /\ (\E q \in page : r <= q) => r \in page

LEMMA SamePage ==
    ASSUME ProgressInv, NEW cursor \in Nat, NEW p, NEW q,
           ContinuesAt(p, cursor), ContinuesAt(q, cursor), Cardinality(p) = Cardinality(q)
    PROVE  p = q
<1>a. records \in SUBSET Nat /\ p \in SUBSET records /\ q \in SUBSET records
  BY LogFacts DEF ContinuesAt
<1>b. /\ IsFiniteSet(p) /\ IsFiniteSet(q)
      /\ Cardinality(p) \in Nat /\ Cardinality(q) \in Nat
  BY <1>a, RowsCounted
<1>1. CASE p \subseteq q
  BY <1>1, <1>b, FS_Subset
<1>2. ASSUME NEW x \in p, x \notin q
      PROVE  p = q
  <2>1. ASSUME NEW y \in q
        PROVE  y \in p
    <3>1. x \in Nat /\ y \in Nat /\ cursor < x /\ cursor < y /\ x \in records /\ y \in records
      BY <1>a DEF ContinuesAt
    <3>2. ~(x <= y)
      BY <1>2, <3>1 DEF ContinuesAt
    <3>3. y <= x
      BY <3>1, <3>2
    <3>. QED
      BY <3>1, <3>3 DEF ContinuesAt
  <2>2. q \subseteq p
    BY <2>1
  <2>. QED
    BY <1>b, <2>2, FS_Subset
<1>. QED
  BY <1>1, <1>2

(* Runs at the same batch have the cursor of the batch before.              *)
LEMMA SameCursor ==
    ASSUME ProgressInv, NEW v \in Workers, NEW w \in Workers,
           worker[v].pc \in InLoop, worker[w].pc \in InLoop,
           worker[v].batchNumber = worker[w].batchNumber
    PROVE  worker[v].lastExportedId = worker[w].lastExportedId
<1>1. CursorInLog(v) /\ CursorInLog(w)
  BY DEF ProgressInv, CursorsAreLogged
<1>2. \A c \in checkpoints : c.batchNumber + 1 # 1
  BY BatchesBeginAtOne
<1>3. \A c, d \in checkpoints : c.batchNumber + 1 = d.batchNumber + 1 => c = d
  <2>1. ASSUME NEW c \in checkpoints, NEW d \in checkpoints,
               c.batchNumber + 1 = d.batchNumber + 1
        PROVE  c = d
    <3>1. c.batchNumber \in Nat /\ d.batchNumber \in Nat
      BY LogFacts
    <3>2. c.batchNumber = d.batchNumber
      BY <2>1, <3>1
    <3>. QED
      BY <3>2, LogFacts
  <2>. QED
    BY <2>1
<1>. QED
  BY <1>1, <1>2, <1>3 DEF CursorInLog

(* The page a run holds, and the range of a checkpoint, begin there.        *)
LEMMA HeldPageContinues ==
    ASSUME ProgressInv, CoverInv, ExactInv, NEW w \in Workers,
           worker[w].pc \in {"put", "checkpoint"}
    PROVE  ContinuesAt(worker[w].batch, worker[w].lastExportedId)
BY DEF ContinuesAt, CoverInv, PageCovers, ExactInv, ProgressInv, LogInv, PageIsAhead

LEMMA RangeContinues ==
    ASSUME ProgressInv, NEW w \in Workers, worker[w].pc \in InLoop,
           NEW c \in checkpoints, c.batchNumber = worker[w].batchNumber
    PROVE  ContinuesAt(RangeOf(c), worker[w].lastExportedId)
<1>a. records \in SUBSET Nat /\ c.lastRecordId \in Nat /\ worker[w].lastExportedId \in Nat
  BY LogFacts DEF WorkerState
<1>1. ASSUME NEW r \in RangeOf(c)
      PROVE  worker[w].lastExportedId < r
  <2>1. CASE worker[w].batchNumber = 1 /\ worker[w].lastExportedId = 0
    <3>1. r \in 1 .. MaxRecordId
      BY LogFacts DEF RangeOf
    <3>. QED
      BY <2>1, <3>1, LogFacts
  <2>2. ASSUME NEW d \in checkpoints, d.batchNumber + 1 = worker[w].batchNumber,
               d.lastRecordId = worker[w].lastExportedId
        PROVE  worker[w].lastExportedId < r
    <3>1. d.batchNumber < c.batchNumber
      BY <2>2, LogFacts
    <3>. QED
      BY <2>2, <3>1 DEF RangeOf, InRange
  <2>. QED
    BY <2>1, <2>2 DEF ProgressInv, CursorsAreLogged, CursorInLog
<1>2. ASSUME NEW r \in records, worker[w].lastExportedId < r,
             NEW q \in RangeOf(c), r <= q
      PROVE  r \in RangeOf(c)
  <2>1. r <= c.lastRecordId
    BY <1>2, <1>a DEF RangeOf, InRange
  <2>2. ASSUME NEW d \in checkpoints, d.batchNumber < c.batchNumber
        PROVE  d.lastRecordId < r
    <3>1. d.lastRecordId <= worker[w].lastExportedId /\ d.lastRecordId \in Nat
      BY <2>2, CursorIsAhead, LogFacts
    <3>. QED
      BY <1>2, <1>a, <3>1
  <2>. QED
    BY <2>1, <2>2 DEF RangeOf, InRange
<1>. QED
  BY <1>1, <1>2 DEF ContinuesAt, RangeOf

(* So runs that overlap agree on their pages, with each other and with the  *)
(* log.                                                                     *)
LEMMA ExactPagesAgree ==
    ASSUME ProgressInv, EnoughInv, CoverInv, ExactInv
    PROVE  PagesAgree
<1>a. SizesAgree
  BY EqualSizes
<1>1. ASSUME NEW v \in Workers, NEW w \in Workers,
             worker[v].pc \in {"put", "checkpoint"}, worker[w].pc \in {"put", "checkpoint"},
             worker[v].batchNumber = worker[w].batchNumber
      PROVE  worker[v].batch = worker[w].batch
  <2>1. /\ worker[v].lastExportedId = worker[w].lastExportedId
        /\ worker[w].lastExportedId \in Nat
    BY <1>1, SameCursor, LogFacts DEF InLoop, WorkerState
  <2>2. Cardinality(worker[v].batch) = Cardinality(worker[w].batch)
    BY <1>1, <1>a DEF SizesAgree
  <2>3. /\ ContinuesAt(worker[v].batch, worker[w].lastExportedId)
        /\ ContinuesAt(worker[w].batch, worker[w].lastExportedId)
    BY <1>1, <2>1, HeldPageContinues
  <2>. QED
    BY <2>1, <2>2, <2>3, SamePage
<1>2. ASSUME NEW w \in Workers, NEW c \in checkpoints, worker[w].pc \in {"put", "checkpoint"},
             c.batchNumber = worker[w].batchNumber
      PROVE  BatchLastId(w, c.lastRecordId) /\ c.rowsWritten = Cardinality(worker[w].batch)
  <2>1. c.rowsWritten = Cardinality(worker[w].batch)
    BY <1>2, <1>a DEF SizesAgree
  <2>2. c.lastRecordId \in records /\ Cardinality(RangeOf(c)) = c.rowsWritten
    BY DEF ExactInv, RangeOf
  <2>3. worker[w].lastExportedId \in Nat /\ worker[w].pc \in InLoop
    BY <1>2, LogFacts DEF InLoop, WorkerState
  <2>4. RangeOf(c) = worker[w].batch
    BY <1>2, <2>1, <2>2, <2>3, HeldPageContinues, RangeContinues, SamePage
  <2>5. c.lastRecordId \in RangeOf(c) /\ \A r \in RangeOf(c) : r <= c.lastRecordId
    <3>1. c.lastRecordId <= c.lastRecordId
      BY LogFacts
    <3>. QED
      BY <2>2, <3>1, LogFacts DEF RangeOf, InRange, LogRises
  <2>. QED
    BY <2>1, <2>4, <2>5 DEF BatchLastId
<1>. QED
  BY <1>1, <1>2 DEF PagesAgree

-----------------------------------------------------------------------------
(* A run holds rows of the table, and copies them on.                       *)
LEMMA RunHeld ==
    ASSUME ProgressInv, BytesAreRows, \A u \in Workers : RunHoldsRows(u), NEW w \in Workers,
           RunStep(w) \/ RunFault(w)
    PROVE  BytesAreRows' /\ \A u \in Workers : RunHoldsRows(u)'
<1>a. /\ worker \in [Workers -> WorkerState] /\ worker[w] \in WorkerState
      /\ records' = records /\ RunHoldsRows(w)
  BY LogFacts, RunKeepsTable DEF recordVars
<1>. DEFINE Held(page, lines) == page \subseteq records /\ RowsOf(lines) \subseteq records
<1>1. ASSUME NEW page, NEW lines, Held(page, lines),
             worker' = [worker EXCEPT ![w] = worker'[w]],
             worker'[w].batch = page, worker'[w].assembled = lines
      PROVE  \A u \in Workers : RunHoldsRows(u)'
  BY <1>1, <1>a DEF RunHoldsRows, RowsOf
<1>2. ASSUME worker' = [worker EXCEPT ![w] = worker'[w]],
             worker'[w].batch \in {worker[w].batch, {}},
             worker'[w].assembled \in {worker[w].assembled, {}}
      PROVE  \A u \in Workers : RunHoldsRows(u)'
  <2>1. Held(worker'[w].batch, worker'[w].assembled)
    BY <1>2, <1>a DEF RunHoldsRows, RowsOf
  <2>2. PICK page, lines : page = worker'[w].batch /\ lines = worker'[w].assembled
    OBVIOUS
  <2>. QED
    BY <1>1, <1>2, <2>1, <2>2
<1>3. ASSUME NEW label, Advance(w, label)
      PROVE  \A u \in Workers : RunHoldsRows(u)'
  <2>1. /\ worker' = [worker EXCEPT ![w] = worker'[w]]
        /\ worker'[w].batch = worker[w].batch /\ worker'[w].assembled = worker[w].assembled
    BY <1>3, <1>a DEF Advance, WorkerState
  <2>. QED
    BY <1>2, <2>1
<1>4. \A u \in Workers : RunHoldsRows(u)'
  <2>1. CASE \/ ReadJob(w) \/ CancelBeforeStart(w) \/ ClaimJob(w) \/ SetStartedAt(w)
             \/ ReconcileJobProgress(w) \/ IsCancelRequested(w) \/ CancelMidRun(w)
             \/ DeleteChunks(w) \/ DeleteChunksThrows(w) \/ PutChunk(w) \/ SetVerifying(w)
             \/ KeepRejectedFile(w) \/ CompleteJob(w) \/ FailJob(w) \/ StepThrows(w)
    BY <1>3, <2>1 DEF ReadJob, CancelBeforeStart, ClaimJob, SetStartedAt,
       ReconcileJobProgress, IsCancelRequested, CancelMidRun, DeleteChunks,
       DeleteChunksThrows, PutChunk, SetVerifying, KeepRejectedFile, CompleteJob, FailJob,
       StepThrows
  <2>2. CASE LoadResumeState(w)
    <3>1. ASSUME NEW n, NEW id, NEW rows, ResumeAt(w, n, id, rows)
          PROVE  \A u \in Workers : RunHoldsRows(u)'
      <4>1. /\ worker' = [worker EXCEPT ![w] = worker'[w]]
            /\ worker'[w].batch = worker[w].batch
            /\ worker'[w].assembled = worker[w].assembled
        BY <1>a, <3>1 DEF ResumeAt, WorkerState
      <4>. QED
        BY <1>2, <4>1
    <3>. QED
      BY <1>3, <2>2, <3>1 DEF LoadResumeState
  <2>3. CASE FetchRecordBatch(w)
    <3>1. ASSUME NEW lastId, worker' = [worker EXCEPT ![w].pc = "put",
                                 ![w].batch = UpTo(Eligible(worker[w].lastExportedId), lastId)]
          PROVE  \A u \in Workers : RunHoldsRows(u)'
      <4>1. PICK page : page = UpTo(Eligible(worker[w].lastExportedId), lastId)
        OBVIOUS
      <4>2. Held(page, worker[w].assembled)
        BY <1>a, <4>1 DEF RunHoldsRows, UpTo, Eligible
      <4>3. /\ worker' = [worker EXCEPT ![w] = worker'[w]]
            /\ worker'[w].batch = page /\ worker'[w].assembled = worker[w].assembled
        BY <1>a, <3>1, <4>1 DEF WorkerState
      <4>. QED
        BY <1>1, <4>2, <4>3
    <3>. QED
      BY <1>3, <2>3, <3>1 DEF FetchRecordBatch
  <2>4. CASE Checkpoint(w)
    <3>1. CASE UniqueViolation(worker[w].batchNumber)
      BY <1>3, <2>4, <3>1 DEF Checkpoint
    <3>2. CASE ~UniqueViolation(worker[w].batchNumber)
      <4>1. worker'[w].batch = {}
        BY <1>a, <2>4, <3>2, CheckpointedRun
      <4>2. /\ worker' = [worker EXCEPT ![w] = worker'[w]]
            /\ worker'[w].assembled = worker[w].assembled
        BY <2>4, <3>2, AppendedPage
      <4>. QED
        BY <1>2, <4>1, <4>2
    <3>. QED
      BY <3>1, <3>2
  <2>5. CASE CrossCheckLog(w) \/ VerifyExportFile(w) \/ RecordVerdict(w)
    <3>1. ASSUME NEW label, NEW n,
                 \/ worker' = [worker EXCEPT ![w].pc = label, ![w].batchCount = n]
                 \/ worker' = [worker EXCEPT ![w].pc = label, ![w].verdict = n]
          PROVE  \A u \in Workers : RunHoldsRows(u)'
      <4>1. /\ worker' = [worker EXCEPT ![w] = worker'[w]]
            /\ worker'[w].batch = worker[w].batch
            /\ worker'[w].assembled = worker[w].assembled
        BY <1>a, <3>1 DEF WorkerState
      <4>. QED
        BY <1>2, <4>1
    <3>. QED
      BY <1>3, <2>5, <3>1 DEF CrossCheckLog, VerifyExportFile, RecordVerdict
  <2>6. CASE AssembleChunk(w)
    <3>. DEFINE copied == worker[w].assembled \cup (chunks \ OtherChunks(worker[w].nextChunk))
    <3>1. CASE worker' = [worker EXCEPT ![w].nextChunk = @ + 1, ![w].assembled = copied]
      <4>1. PICK lines : lines = copied
        OBVIOUS
      <4>2. Held(worker[w].batch, lines)
        BY <1>a, <4>1 DEF RunHoldsRows, BytesAreRows, RowsOf
      <4>3. /\ worker' = [worker EXCEPT ![w] = worker'[w]]
            /\ worker'[w].batch = worker[w].batch /\ worker'[w].assembled = lines
        <5>. HIDE DEF copied
        <5>. QED
          BY <1>a, <3>1, <4>1 DEF WorkerState
      <4>. QED
        BY <1>1, <4>2, <4>3
    <3>. QED
      BY <1>3, <2>6, <3>1 DEF AssembleChunk
  <2>7. CASE UploadFinalCsv(w)
    <3>1. /\ worker' = [worker EXCEPT ![w] = worker'[w]]
          /\ worker'[w].batch = worker[w].batch /\ worker'[w].assembled = {}
      BY <1>a, <2>7 DEF UploadFinalCsv, WorkerState
    <3>. QED
      BY <1>2, <3>1
  <2>8. CASE AssemblyFails(w) \/ Crash(w)
    <3>1. CASE worker' = [worker EXCEPT ![w] = IdleWorker]
      BY <1>2, <1>a, <3>1 DEF IdleWorker
    <3>. QED
      BY <1>3, <2>8, <3>1 DEF AssemblyFails, Crash
  <2>. QED
    BY <2>1, <2>2, <2>3, <2>4, <2>5, <2>6, <2>7, <2>8 DEF RunStep, RunFault
<1>5. BytesAreRows'
  <2>1. CASE UNCHANGED <<chunks, finalFile>>
    BY <1>a, <2>1 DEF BytesAreRows
  <2>2. CASE PutChunk(w)
    <3>1. /\ chunks' = OtherChunks(worker[w].batchNumber)
                       \cup {worker[w].batchNumber} \X worker[w].batch
          /\ finalFile' = finalFile
      BY <2>2 DEF PutChunk
    <3>. QED
      BY <1>a, <3>1 DEF BytesAreRows, RunHoldsRows, RowsOf, OtherChunks
  <2>3. CASE UploadFinalCsv(w)
    BY <1>a, <2>3 DEF UploadFinalCsv, BytesAreRows, RunHoldsRows
  <2>4. CASE DeleteChunks(w) \/ DeleteChunksThrows(w)
    <3>1. chunks' \subseteq chunks /\ finalFile' = finalFile
      BY <2>4 DEF DeleteChunks, DeleteChunksThrows
    <3>. QED
      BY <1>a, <3>1 DEF BytesAreRows, RowsOf
  <2>5. \/ PutChunk(w) \/ UploadFinalCsv(w) \/ DeleteChunks(w) \/ DeleteChunksThrows(w)
        \/ UNCHANGED <<chunks, finalFile>>
    BY DEF RunStep, RunFault, ReadJob, CancelBeforeStart, ClaimJob, SetStartedAt,
       LoadResumeState, ReconcileJobProgress, IsCancelRequested, CancelMidRun,
       FetchRecordBatch, Checkpoint, CrossCheckLog, SetVerifying, AssembleChunk,
       AssemblyFails, VerifyExportFile, RecordVerdict, KeepRejectedFile, CompleteJob,
       FailJob, StepThrows, Crash, storageVars
  <2>. QED
    BY <2>1, <2>2, <2>3, <2>4, <2>5
<1>. QED
  BY <1>4, <1>5

(* The appended page is what the table has in the range of its checkpoint.  *)
LEMMA AppendedExact ==
    ASSUME ProgressInv, CoverInv, ExactInv, NEW w \in Workers, Checkpoint(w),
           ~UniqueViolation(worker[w].batchNumber)
    PROVE  LogCountsRows'
<1>a. /\ worker[w].pc = "checkpoint" /\ records' = records
      /\ worker[w].batch \subseteq records
      /\ \A c \in checkpoints : c.batchNumber \in Nat
  BY LogFacts DEF Checkpoint, recordVars, ExactInv
<1>1. PICK id \in worker[w].batch :
        /\ checkpoints' = checkpoints \cup {NewCheckpoint(w, id)}
        /\ \A r \in worker[w].batch : r <= id /\ \A d \in checkpoints : d.lastRecordId < r
  BY AppendedPage
<1>2. \A d \in checkpoints : d.batchNumber < worker[w].batchNumber
  BY AppendedPage
<1>3. PICK new : new = NewCheckpoint(w, id)
  OBVIOUS
<1>4. /\ new.batchNumber = worker[w].batchNumber /\ new.lastRecordId = id
      /\ new.rowsWritten = Cardinality(worker[w].batch)
      /\ checkpoints' = checkpoints \cup {new} /\ worker[w].batchNumber \in Nat
  BY <1>1, <1>3, LogFacts DEF NewCheckpoint, WorkerState
<1>5. RangeOf(new)' = worker[w].batch
  <2>1. ASSUME NEW r \in worker[w].batch
        PROVE  r \in RangeOf(new)'
    <3>1. \A d \in checkpoints' : d.batchNumber < new.batchNumber => d.lastRecordId < r
      BY <1>1, <1>4
    <3>. QED
      BY <1>1, <1>4, <1>a, <3>1 DEF RangeOf, InRange
  <2>2. ASSUME NEW r \in RangeOf(new)'
        PROVE  r \in worker[w].batch
    <3>1. /\ r \in records /\ r <= id
          /\ \A d \in checkpoints : d.batchNumber < worker[w].batchNumber => d.lastRecordId < r
      BY <1>4, <1>a, <2>2 DEF RangeOf, InRange
    <3>. QED
      BY <1>a, <3>1, PageCoversRange
  <2>. QED
    BY <2>1, <2>2
<1>6. ASSUME NEW c \in checkpoints
      PROVE  c.lastRecordId \in records' /\ Cardinality(RangeOf(c)') = c.rowsWritten
  <2>1. ~(new.batchNumber < c.batchNumber)
    BY <1>2, <1>4, <1>a
  <2>2. RangeOf(c)' = RangeOf(c)
    BY <1>4, <1>a, <2>1 DEF RangeOf, InRange
  <2>. QED
    BY <1>a, <2>2 DEF ExactInv, RangeOf
<1>. QED
  BY <1>1, <1>4, <1>5, <1>6, <1>a DEF LogCountsRows

LEMMA RunStepExact ==
    ASSUME ProgressInv, CoverInv, ExactInv, NEW w \in Workers, RunStep(w) \/ RunFault(w)
    PROVE  ExactInv'
<1>1. BytesAreRows /\ (\A u \in Workers : RunHoldsRows(u)) /\ LogCountsRows
  BY DEF ExactInv, BytesAreRows, RunHoldsRows, LogCountsRows, RangeOf
<1>2. BytesAreRows' /\ \A u \in Workers : RunHoldsRows(u)'
  BY <1>1, RunHeld
<1>3. LogCountsRows'
  <2>1. CASE Checkpoint(w) /\ ~UniqueViolation(worker[w].batchNumber)
    BY <2>1, AppendedExact
  <2>2. CASE ~(Checkpoint(w) /\ ~UniqueViolation(worker[w].batchNumber))
    <3>1. UNCHANGED checkpoints /\ records' = records
      <4>1. UNCHANGED checkpoints
        BY <2>2 DEF RunStep, RunFault, ReadJob, CancelBeforeStart, ClaimJob, SetStartedAt,
           LoadResumeState, ReconcileJobProgress, IsCancelRequested, CancelMidRun,
           DeleteChunks, FetchRecordBatch, PutChunk, Checkpoint, CrossCheckLog, SetVerifying,
           AssembleChunk, UploadFinalCsv, AssemblyFails, VerifyExportFile, RecordVerdict,
           KeepRejectedFile, CompleteJob, FailJob, DeleteChunksThrows, StepThrows, Crash,
           jobVars
      <4>. QED
        BY <4>1, RunKeepsTable DEF recordVars
    <3>. QED
      BY <1>1, <3>1 DEF LogCountsRows, RangeOf, InRange
  <2>. QED
    BY <2>1, <2>2
<1>. QED
  BY <1>2, <1>3 DEF ExactInv, BytesAreRows, RunHoldsRows, LogCountsRows, RangeOf

(* A row that is inserted lies beyond the boundary, in no range.            *)
LEMMA OtherStepExact ==
    ASSUME FaultBudget["delete"] = 0, ProgressInv, FileInv, CoverInv, ExactInv, OtherStep
    PROVE  ExactInv'
<1>a. /\ records \subseteq records'
      /\ UNCHANGED <<checkpoints, chunks, finalFile>>
      /\ worker \in [Workers -> WorkerState]
  BY OtherKeepsRows, LogFacts
<1>1. ASSUME NEW r \in records' \ records
      PROVE  r = nextRecordId
  <2>1. RecordTraffic
    BY <1>1 DEF OtherStep, HandlerStep, CreateStep, CaptureSnapshotMaxId,
       CreateExportJob, MarkQueued, MarkResuming, CancelWrite, VerifyScan, VerifyRecord,
       EnqueueStep, InspectEntry, RemoveEntry, AddEntry, RequestAborts, RequestArrives,
       ResumeRead, CancelRead, VerifyRead, QueueStep, PickUp, ProcessorReturns,
       ProcessorThrows, BackoffElapses, ReclaimFromDead, QueueFault, ReclaimFromLive,
       RedisRestarts, SweepStep, ListStalled, MarkInterrupted, SweepAborts, HeartbeatExpires,
       vars, recordVars
  <2>2. openInserts = {}
    BY DEF CoverInv
  <2>. QED
    BY <1>1, <2>1, <2>2 DEF RecordTraffic, InsertRecord, BeginInsert, CommitInsert,
       DeleteRecord
<1>2. ASSUME NEW c \in checkpoints
      PROVE  c.lastRecordId \in records' /\ Cardinality(RangeOf(c)') = c.rowsWritten
  <2>1. c.lastRecordId \in Nat /\ c.lastRecordId < nextRecordId
    <3>1. c.lastRecordId \in Nat /\ c.lastRecordId <= snapshotMaxId /\ snapshotMaxId \in Nat
      BY LogFacts DEF FileInv
    <3>2. nextRecordId \in Nat /\ snapshotMaxId < nextRecordId
      BY LogFacts DEF CoverInv, ProgressInv, LogInv, TypeOK
    <3>. QED
      BY <3>1, <3>2
  <2>2. nextRecordId \in Nat
    BY LogFacts DEF ProgressInv, LogInv, TypeOK
  <2>3. ~(nextRecordId <= c.lastRecordId)
    BY <2>1, <2>2
  <2>4. RangeOf(c)' = RangeOf(c)
    BY <1>1, <1>a, <2>3 DEF RangeOf, InRange
  <2>. QED
    BY <1>a, <2>4 DEF ExactInv, RangeOf
<1>3. LogCountsRows'
  BY <1>2, <1>a DEF LogCountsRows
<1>4. BytesAreRows'
  BY <1>a DEF ExactInv, BytesAreRows
<1>5. ASSUME NEW w \in Workers, PickUp(w) \/ ProcessorReturns(w) \/ ProcessorThrows(w)
      PROVE  \A u \in Workers : RunHoldsRows(u)'
  <2>1. /\ worker'[w].batch \in {worker[w].batch, {}}
        /\ worker'[w].assembled \in {worker[w].assembled, {}}
        /\ \A u \in Workers : u # w => worker'[u] = worker[u]
    BY <1>5, <1>a DEF PickUp, ProcessorReturns, ProcessorThrows, IdleWorker, WorkerState
  <2>2. ASSUME NEW u \in Workers
        PROVE  RunHoldsRows(u)'
    <3>1. /\ worker'[u].batch \in {worker[u].batch, {}}
          /\ worker'[u].assembled \in {worker[u].assembled, {}}
      BY <2>1
    <3>2. worker[u].batch \subseteq records /\ RowsOf(worker[u].assembled) \subseteq records
      BY DEF ExactInv
    <3>3. RowsOf({}) = {}
      BY DEF RowsOf
    <3>. QED
      BY <1>a, <3>1, <3>2, <3>3 DEF RunHoldsRows, RowsOf
  <2>. QED
    BY <2>2
<1>6. ASSUME worker' = worker
      PROVE  \A u \in Workers : RunHoldsRows(u)'
  BY <1>a, <1>6 DEF ExactInv, RunHoldsRows, RowsOf
<1>7. \A u \in Workers : RunHoldsRows(u)'
  BY <1>5, <1>6, OtherKeepsWorkers
<1>. QED
  BY <1>3, <1>4, <1>7 DEF ExactInv, BytesAreRows, RunHoldsRows, LogCountsRows, RangeOf

LEMMA InitExactInv == Init => ExactInv
<1>. SUFFICES ASSUME Init PROVE ExactInv
  OBVIOUS
<1>1. /\ checkpoints = {} /\ finalFile = {} /\ chunks = {}
      /\ \A w \in Workers : worker[w].batch = {} /\ worker[w].assembled = {}
  BY DEF Init, IdleWorker
<1>. QED
  BY <1>1 DEF ExactInv, RowsOf

(* Where the rows up to the boundary do not change, runs that overlap write *)
(* the same bytes: they all begin at the last id of the same batch, skip    *)
(* nothing, and their pages are of the same length.                         *)
THEOREM ExactInvariant ==
    ASSUME FaultBudget["delete"] = 0, FaultBudget["openInsert"] = 0
    PROVE  Spec => [](FileInv /\ CoverInv /\ ExactInv)
<1>. DEFINE Exact == FileInv /\ CoverInv /\ ExactInv
<1>1. ProgressInv /\ EnoughInv /\ Exact /\ [Next]_vars => Exact'
  <2>. SUFFICES ASSUME ProgressInv, EnoughInv, Exact, [Next]_vars
                PROVE  Exact'
    OBVIOUS
  <2>1. PagesAgree
    BY ExactPagesAgree
  <2>2. FileInv'
    BY <2>1, NextFileInv
  <2>3. CoverInv'
    BY <2>1, RunStepCovers, OtherStepCovers DEF Next, OtherStep
  <2>4. ExactInv'
    BY RunStepExact, OtherStepExact DEF Next, OtherStep
  <2>. QED
    BY <2>2, <2>3, <2>4
<1>2. Init => Exact
  BY InitFileInv, InitCoverInv, InitExactInv
<1>. QED
  BY <1>1, <1>2, EnoughInvariant, ProgressInvariant, PTL DEF Spec

(* A file of rows of the table that skips none of them and has as many as   *)
(* were asked for has the first ones.                                       *)
LEMMA FirstOnes ==
    ASSUME NEW rows \in SUBSET (1 .. MaxRecordId), NEW first \in SUBSET rows,
           \A r \in rows : (\E l \in first : l > r) => r \in first
    PROVE  \A limit : Cardinality(first) = limit =>
               first = {r \in rows : Cardinality(UpTo(rows, r)) <= limit}
<1>a. IsFiniteSet(rows) /\ IsFiniteSet(first) /\ Cardinality(first) \in Nat
  BY PageCardinality, FS_Subset, FS_CardinalityType
<1>b. \A r \in rows : r \in Nat
  BY StateAssumption
<1>1. ASSUME NEW r \in first
      PROVE  Cardinality(UpTo(rows, r)) <= Cardinality(first)
  <2>1. UpTo(rows, r) \subseteq first
    <3>1. ASSUME NEW q \in UpTo(rows, r)
          PROVE  q \in first
      <4>1. q \in rows /\ q <= r /\ q \in Nat /\ r \in Nat
        BY <1>b DEF UpTo
      <4>. QED
        BY <4>1
    <3>. QED
      BY <3>1
  <2>. QED
    BY <1>a, <2>1, FS_Subset
<1>2. ASSUME NEW r \in rows, r \notin first
      PROVE  ~(Cardinality(UpTo(rows, r)) <= Cardinality(first))
  <2>1. first \cup {r} \subseteq UpTo(rows, r)
    <3>1. ASSUME NEW l \in first
          PROVE  l \in UpTo(rows, r)
      <4>1. l \in rows /\ l \in Nat /\ r \in Nat /\ ~(l > r)
        BY <1>2, <1>b
      <4>. QED
        BY <4>1 DEF UpTo
    <3>2. r \in UpTo(rows, r)
      BY <1>b DEF UpTo
    <3>. QED
      BY <3>1, <3>2
  <2>2. Cardinality(first \cup {r}) = Cardinality(first) + 1
    BY <1>2, <1>a, FS_AddElement
  <2>3. IsFiniteSet(UpTo(rows, r))
    BY <1>a, FS_Subset DEF UpTo
  <2>4. Cardinality(first \cup {r}) <= Cardinality(UpTo(rows, r))
    BY <2>1, <2>3, FS_Subset
  <2>5. Cardinality(UpTo(rows, r)) \in Nat
    BY <2>3, FS_CardinalityType
  <2>. QED
    BY <1>a, <2>2, <2>4, <2>5
<1>. QED
  BY <1>1, <1>2

LEMMA ExactFile ==
    ASSUME ProgressInv, FileInv, CoverInv, ExactInv
    PROVE  CompletedFileIsExact
<1>. SUFFICES ASSUME job.status = "COMPLETED"
              PROVE  /\ RowsOf(finalFile) = FirstRows
                     /\ Cardinality(finalFile) = RequestedRowLimit
                     /\ StrictlyAscending(finalFile)
                     /\ DownloadAllowed
  BY DEF CompletedFileIsExact
<1>1. finalFile # {} /\ WholeFile(finalFile) /\ DownloadAllowed
  BY DEF FileInv, DownloadAllowed
<1>2. Passed(finalFile)
  BY <1>1, LogFacts, WholeFilePasses DEF FileInv
<1>3. RowsOf(finalFile) \in SUBSET SnapshotRows
  BY <1>2 DEF ExactInv, Passed, SnapshotRows, UpTo, RowsOf
<1>4. SnapshotRows \in SUBSET (1 .. MaxRecordId)
  BY LogFacts DEF SnapshotRows, UpTo
<1>5. \A r \in SnapshotRows : (\E l \in RowsOf(finalFile) : l > r) => r \in RowsOf(finalFile)
  BY NothingIsSkipped DEF NothingSkipped, SnapshotRows, UpTo, RowsOf
<1>6. Cardinality(RowsOf(finalFile)) = RequestedRowLimit
  BY <1>2 DEF Passed, UniqueRows, RowsOf
<1>7. RowsOf(finalFile) = FirstRows
  BY <1>3, <1>4, <1>5, <1>6, FirstOnes DEF FirstRows
<1>. QED
  BY <1>1, <1>2, <1>7 DEF Passed, ActualRows

(* A COMPLETED export is exactly the first rows of its snapshot, each once  *)
(* and in order, and offered for download: for any number of workers that   *)
(* lose their locks and overlap, crashes, failing calls, restarts of Redis, *)
(* cancels, resumes and re-audits; for tables that only grow beyond the     *)
(* boundary.                                                                *)
THEOREM CompletedFileAlwaysExact ==
    ASSUME FaultBudget["delete"] = 0, FaultBudget["openInsert"] = 0
    PROVE  Spec => []CompletedFileIsExact
<1>1. ProgressInv /\ (FileInv /\ CoverInv /\ ExactInv) => CompletedFileIsExact
  BY ExactFile
<1>. QED
  BY <1>1, ExactInvariant, ProgressInvariant, PTL

(* What the two weaker theorems of FileProofs say of runs that are kept     *)
(* apart holds of runs that overlap too, where the rows up to the boundary  *)
(* do not change: no row is skipped, and what is completed was verified.    *)
THEOREM OverlapNeverSkips ==
    ASSUME FaultBudget["delete"] = 0, FaultBudget["openInsert"] = 0
    PROVE  Spec => [](NothingSkipped /\ CompletedMeansVerified)
<1>1. ProgressInv /\ (FileInv /\ CoverInv /\ ExactInv)
      => NothingSkipped /\ CompletedMeansVerified
  BY NothingIsSkipped, CompletedIsVerified
<1>. QED
  BY <1>1, ExactInvariant, ProgressInvariant, PTL
-----------------------------------------------------------------------------
(* While the locks hold, a run has the entry and works at the end of the    *)
(* log.                                                                     *)
THEOREM RunsKeptApart ==
    ASSUME FaultBudget["lockLoss"] = 0, FaultBudget["redisRestart"] = 0
    PROVE  Spec => [](RunHoldsEntry /\ RunAtEnd)
<1>1. Init => RunHoldsEntry /\ RunAtEnd
  BY DEF Init, RunHoldsEntry, RunAtEnd, IdleWorker, InLoop
<1>2. ProgressInv /\ (RunHoldsEntry /\ RunAtEnd) /\ [Next]_vars
      => (RunHoldsEntry /\ RunAtEnd)'
  BY NextRunHoldsEntry, NextRunAtEnd DEF ProgressInv
<1>. QED
  BY <1>1, <1>2, ProgressInvariant, PTL DEF Spec

(* An undisturbed step is that of a run, or comes from outside and breaks   *)
(* no lock.                                                                 *)
LEMMA UndisturbedStep ==
    ASSUME FaultBudget["lockLoss"] = 0, FaultBudget["redisRestart"] = 0,
           ProgressInv, [Next]_vars, RunsUndisturbed'
    PROVE  /\ RunsUndisturbed
           /\ \/ \E w \in Workers : RunStep(w)
              \/ OtherStep /\ ~QueueFault
<1>a. /\ faults \in [FaultKinds -> Nat]
      /\ \A kind \in {"crash", "error", "lockLoss", "redisRestart", "abort", "delete",
                      "openInsert"} : kind \in FaultKinds
  BY DEF ProgressInv, LogInv, TypeOK, FaultKinds
<1>1. ~QueueFault
  BY <1>a DEF QueueFault, ReclaimFromLive, RedisRestarts, CanFail
<1>2. ASSUME NEW w \in Workers, RunFault(w)
      PROVE  FALSE
  <2>1. Spend("crash") \/ Spend("error")
    BY <1>2 DEF RunFault, DeleteChunksThrows, StepThrows, Crash
  <2>. QED
    BY <1>a, <2>1 DEF Spend, RunsUndisturbed
<1>3. ASSUME NEW w \in Workers, RunStep(w)
      PROVE  faults' = faults
  BY <1>3 DEF RunStep, ReadJob, CancelBeforeStart, ClaimJob, SetStartedAt, LoadResumeState,
     ReconcileJobProgress, IsCancelRequested, CancelMidRun, DeleteChunks, FetchRecordBatch,
     PutChunk, Checkpoint, CrossCheckLog, SetVerifying, AssembleChunk, UploadFinalCsv,
     AssemblyFails, VerifyExportFile, RecordVerdict, KeepRejectedFile, CompleteJob, FailJob
<1>4. ASSUME OtherStep
      PROVE  \/ faults' = faults
             \/ \E kind \in {"abort", "delete", "openInsert"} : Spend(kind)
  BY <1>1, <1>4 DEF OtherStep, HandlerStep, CreateStep, CaptureSnapshotMaxId, CreateExportJob,
     MarkQueued, MarkResuming, CancelWrite, VerifyScan, VerifyRecord, EnqueueStep,
     InspectEntry, RemoveEntry, AddEntry, RequestAborts, RequestArrives, ResumeRead,
     CancelRead, VerifyRead, QueueStep, PickUp, ProcessorReturns, ProcessorThrows,
     BackoffElapses, ReclaimFromDead, SweepStep, ListStalled, MarkInterrupted, SweepAborts,
     HeartbeatExpires, RecordTraffic, InsertRecord, BeginInsert, CommitInsert, DeleteRecord,
     vars
<1>5. RunsUndisturbed
  <2>1. ASSUME faults' = faults PROVE RunsUndisturbed
    BY <2>1 DEF RunsUndisturbed
  <2>2. ASSUME NEW kind \in {"abort", "delete", "openInsert"}, Spend(kind)
        PROVE  RunsUndisturbed
    BY <1>a, <2>2 DEF Spend, RunsUndisturbed
  <2>. QED
    BY <1>2, <1>3, <1>4, <2>1, <2>2 DEF Next, OtherStep
<1>. QED
  BY <1>1, <1>2, <1>5 DEF Next, OtherStep

(* A run that has its entry to itself is the only one that is not idle.     *)
LEMMA OthersAreIdle ==
    ASSUME ProgressInv, RunHoldsEntry, NEW w \in Workers, RunStep(w)
    PROVE  /\ worker[w].pc \notin {"idle", "returned", "threw"}
           /\ queue.state = "active" /\ queue.owner = w /\ queue' = queue
           /\ request' = request
           /\ \A u \in Workers : u # w => worker[u].pc = "idle" /\ worker'[u] = worker[u]
<1>a. worker \in [Workers -> WorkerState]
  BY LogFacts
<1>1. worker[w].pc \notin {"idle", "returned", "threw"}
  BY DEF RunStep, ReadJob, CancelBeforeStart, ClaimJob, SetStartedAt, LoadResumeState,
     ReconcileJobProgress, IsCancelRequested, CancelMidRun, DeleteChunks, FetchRecordBatch,
     PutChunk, Checkpoint, CrossCheckLog, SetVerifying, AssembleChunk, UploadFinalCsv,
     AssemblyFails, VerifyExportFile, RecordVerdict, KeepRejectedFile, CompleteJob, FailJob
<1>2. \A u \in Workers : u # w => worker[u].pc = "idle"
  BY <1>1 DEF RunHoldsEntry
<1>3. \A u \in Workers : u # w => worker'[u] = worker[u]
  BY <1>a DEF RunStep, ReadJob, CancelBeforeStart, ClaimJob, SetStartedAt, LoadResumeState,
     ResumeAt, ReconcileJobProgress, IsCancelRequested, CancelMidRun, DeleteChunks,
     FetchRecordBatch, PutChunk, Checkpoint, CrossCheckLog, SetVerifying, AssembleChunk,
     UploadFinalCsv, AssemblyFails, VerifyExportFile, RecordVerdict, KeepRejectedFile,
     CompleteJob, FailJob, Advance
<1>. QED
  BY <1>1, <1>2, <1>3, RunKeepsQueue, RunKeepsRequests DEF RunHoldsEntry

(* An assembly asks for the objects of logged batches.                      *)
LEMMA AssemblyFindsChunk ==
    ASSUME ProgressInv, FileInv, NEW w \in Workers, worker[w].pc = "assemble",
           worker[w].nextChunk <= worker[w].batchCount,
           \A c \in checkpoints : ChunkExists(c.batchNumber)
    PROVE  ChunkExists(worker[w].nextChunk)
<1>1. /\ worker[w].nextChunk \in Nat /\ worker[w].nextChunk # 0
      /\ worker[w].batchCount = Cardinality(checkpoints)
  BY LogFacts DEF FileInv, AssemblyHoldsPages, WorkerState
<1>2. worker[w].nextChunk \in BatchNumbers
  BY <1>1, BatchesCounted
<1>. QED
  BY <1>2 DEF BatchNumbers

(* What the one run of a job must leave for SingleRun to hold on.           *)
LEMMA SingleRunMoves ==
    ASSUME ProgressInv, RunHoldsEntry, SingleRun, NEW w \in Workers, RunStep(w),
           worker'[w].pc \notin {"idle", "threw", "failThrow", "assemblyFailed"},
           worker'[w].pc \in {"put", "checkpoint"} => worker'[w].batch # {},
           worker'[w].pc = "checkpoint" => ChunkExists(worker[w].batchNumber)',
           worker'[w].pc # "returned" => (\A c \in checkpoints : ChunkExists(c.batchNumber))'
    PROVE  SingleRun'
<1>1. /\ queue.state = "active" /\ queue.owner = w /\ queue' = queue /\ request' = request
      /\ \A u \in Workers : u # w => worker'[u].pc = "idle"
  BY OthersAreIdle
<1>2. /\ queue'.state = "active"
      /\ queue'.state = "absent" \/ request'[Creator].pc \in {"markQueued", "done"}
  BY <1>1 DEF SingleRun
<1>3. OwnerIsAlive'
  BY <1>1, StateAssumption DEF OwnerIsAlive
<1>4. ASSUME NEW u \in Workers
      PROVE  /\ worker'[u].pc \notin {"threw", "failThrow", "assemblyFailed"}
             /\ worker'[u].pc \in {"put", "checkpoint"} => worker'[u].batch # {}
             /\ worker'[u].pc = "checkpoint" => ChunkExists(worker[u].batchNumber)'
  BY <1>1
<1>5. \/ (\A c \in checkpoints : ChunkExists(c.batchNumber))'
      \/ \A u \in Workers : worker'[u].pc \in {"idle", "returned"}
  BY <1>1
<1>. QED
  BY <1>2, <1>3, <1>4, <1>5 DEF SingleRun

(* The steps of the one run of a job, assembly and its end included.        *)
LEMMA SingleRunStep ==
    ASSUME ProgressInv, RunHoldsEntry, RunAtEnd, FileInv, SingleRun,
           NEW w \in Workers, RunStep(w)
    PROVE  SingleRun'
<1>a. /\ worker \in [Workers -> WorkerState] /\ worker[w] \in WorkerState
      /\ worker[w].pc \notin {"idle", "returned", "threw", "failThrow", "assemblyFailed"}
      /\ worker[w].pc \in {"put", "checkpoint"} => worker[w].batch # {}
      /\ worker[w].pc = "checkpoint" => ChunkExists(worker[w].batchNumber)
      /\ ~LogIsRefused(checkpoints)
  BY LogFacts, OthersAreIdle DEF SingleRun, ProgressInv, LogInv, LogIsSound
<1>b. \A c \in checkpoints : ChunkExists(c.batchNumber)
  BY <1>a DEF SingleRun
<1>. DEFINE Stops == {"idle", "threw", "failThrow", "assemblyFailed"}
            Writes == {"put", "checkpoint"}
<1>1. ASSUME worker'[w].pc \notin Stops \cup Writes, UNCHANGED <<chunks, checkpoints>>
      PROVE  SingleRun'
  BY <1>1, <1>b, SingleRunMoves DEF ChunkExists
<1>2. ASSUME NEW label, Advance(w, label), label \notin Stops \cup Writes,
             UNCHANGED <<chunks, checkpoints>>
      PROVE  SingleRun'
  <2>1. worker'[w].pc = label
    BY <1>2, <1>a DEF Advance, WorkerState
  <2>. QED
    BY <1>1, <1>2, <2>1
<1>c. \A rows : LoopLabel(rows) \in {"cancelCheck", "finalCheck", "failReturn"}
  BY DEF LoopLabel
<1>3. CASE \/ ReadJob(w) \/ CancelBeforeStart(w) \/ ClaimJob(w) \/ SetStartedAt(w)
           \/ ReconcileJobProgress(w) \/ IsCancelRequested(w) \/ CancelMidRun(w)
           \/ SetVerifying(w) \/ KeepRejectedFile(w) \/ CompleteJob(w) \/ FailJob(w)
  <2>1. UNCHANGED <<chunks, checkpoints>>
    BY <1>3 DEF ReadJob, CancelBeforeStart, ClaimJob, SetStartedAt, ReconcileJobProgress,
       IsCancelRequested, CancelMidRun, SetVerifying, KeepRejectedFile, CompleteJob, FailJob,
       jobVars, storageVars
  <2>. QED
    BY <1>2, <1>3, <1>a, <1>c, <2>1 DEF ReadJob, CancelBeforeStart, ClaimJob, SetStartedAt,
       ReconcileJobProgress, IsCancelRequested, CancelMidRun, SetVerifying, KeepRejectedFile,
       CompleteJob, FailJob
<1>4. CASE LoadResumeState(w)
  <2>1. UNCHANGED <<chunks, checkpoints>>
    BY <1>4 DEF LoadResumeState, jobVars, storageVars
  <2>2. ASSUME NEW n, NEW id, NEW rows, ResumeAt(w, n, id, rows)
        PROVE  worker'[w].pc = "reconcile"
    BY <1>a, <2>2 DEF ResumeAt, WorkerState
  <2>3. worker'[w].pc = "reconcile"
    BY <1>4, <1>a, <2>2 DEF LoadResumeState
  <2>. QED
    BY <1>1, <2>1, <2>3
<1>5. CASE \/ CrossCheckLog(w) \/ UploadFinalCsv(w) \/ AssemblyFails(w) \/ VerifyExportFile(w)
           \/ RecordVerdict(w)
  <2>1. UNCHANGED <<chunks, checkpoints>>
    BY <1>5 DEF CrossCheckLog, UploadFinalCsv, AssemblyFails, VerifyExportFile, RecordVerdict,
       jobVars, storageVars
  <2>2. worker'[w].pc \in {"failReturn", "setVerifying", "verify", "recordVerdict", "complete",
                           "keepRejected"}
    BY <1>5, <1>a DEF CrossCheckLog, UploadFinalCsv, AssemblyFails, VerifyExportFile,
       RecordVerdict, Advance, WorkerState
  <2>. QED
    BY <1>1, <2>1, <2>2
<1>6. CASE FetchRecordBatch(w)
  <2>1. UNCHANGED <<chunks, checkpoints>>
    BY <1>6 DEF FetchRecordBatch, jobVars, storageVars
  <2>2. \/ worker'[w].pc = "failReturn"
        \/ worker'[w].pc = "put" /\ worker'[w].batch # {}
    <3>1. ASSUME NEW lastId \in Eligible(worker[w].lastExportedId),
                 worker' = [worker EXCEPT ![w].pc = "put",
                              ![w].batch = UpTo(Eligible(worker[w].lastExportedId), lastId)]
          PROVE  worker'[w].pc = "put" /\ worker'[w].batch # {}
      <4>1. PICK page : page = UpTo(Eligible(worker[w].lastExportedId), lastId)
        OBVIOUS
      <4>2. lastId \in page
        BY <4>1, LogFacts DEF UpTo, Eligible
      <4>3. worker'[w].pc = "put" /\ worker'[w].batch = page
        BY <1>a, <3>1, <4>1 DEF WorkerState
      <4>. QED
        BY <4>2, <4>3
    <3>2. ASSUME Advance(w, "failReturn")
          PROVE  worker'[w].pc = "failReturn"
      BY <1>a, <3>2 DEF Advance, WorkerState
    <3>. QED
      BY <1>6, <3>1, <3>2 DEF FetchRecordBatch
  <2>3. (\A c \in checkpoints : ChunkExists(c.batchNumber))'
    BY <1>b, <2>1 DEF ChunkExists
  <2>. QED
    BY <2>2, <2>3, SingleRunMoves
<1>7. CASE PutChunk(w)
  <2>1. /\ worker'[w].pc = "checkpoint" /\ worker'[w].batch = worker[w].batch
        /\ worker'[w].batchNumber = worker[w].batchNumber
        /\ UNCHANGED checkpoints /\ worker[w].batch # {}
        /\ chunks' = OtherChunks(worker[w].batchNumber)
                     \cup {worker[w].batchNumber} \X worker[w].batch
    BY <1>7, <1>a DEF PutChunk, Advance, WorkerState, jobVars
  <2>2. ChunkExists(worker[w].batchNumber)'
    <3>1. PICK r : r \in worker[w].batch
      BY <2>1
    <3>2. <<worker[w].batchNumber, r>> \in chunks'
      BY <2>1, <3>1
    <3>. QED
      BY <2>1, <3>2 DEF ChunkExists
  <2>3. ASSUME NEW c \in checkpoints
        PROVE  \E line \in chunks' : line[1] = c.batchNumber
    <3>1. CASE c.batchNumber = worker[w].batchNumber
      BY <2>1, <2>2, <3>1 DEF ChunkExists
    <3>2. CASE c.batchNumber # worker[w].batchNumber
      BY <1>b, <2>1, <3>2 DEF ChunkExists, OtherChunks
    <3>. QED
      BY <3>1, <3>2
  <2>4. (\A c \in checkpoints : ChunkExists(c.batchNumber))'
    BY <2>1, <2>3 DEF ChunkExists
  <2>. QED
    BY <2>1, <2>2, <2>4, SingleRunMoves
<1>8. CASE Checkpoint(w)
  <2>1. worker[w].pc = "checkpoint"
    BY <1>8 DEF Checkpoint
  <2>2. ~UniqueViolation(worker[w].batchNumber)
    BY <2>1, <1>a, LogFacts DEF RunAtEnd, InLoop, UniqueViolation, WorkerState
  <2>3. worker'[w].pc \in {"cancelCheck", "finalCheck", "failReturn"}
    BY <1>8, <1>a, <2>2, CheckpointedRun
  <2>4. PICK id : checkpoints' = checkpoints \cup {NewCheckpoint(w, id)}
    BY <1>8, <2>2, AppendedPage
  <2>5. UNCHANGED chunks
    BY <1>8 DEF Checkpoint, storageVars
  <2>6. (\A c \in checkpoints : ChunkExists(c.batchNumber))'
    BY <1>a, <1>b, <2>1, <2>4, <2>5 DEF ChunkExists, NewCheckpoint
  <2>. QED
    BY <2>3, <2>6, SingleRunMoves
<1>9. CASE AssembleChunk(w)
  <2>1. UNCHANGED <<chunks, checkpoints>>
    BY <1>9 DEF AssembleChunk, jobVars, storageVars
  <2>2. ChunkExists(worker[w].nextChunk)
    BY <1>9, <1>b, AssemblyFindsChunk DEF AssembleChunk
  <2>3. worker'[w].pc = "assemble"
    <3>1. PICK n, lines : worker' = [worker EXCEPT ![w].nextChunk = n, ![w].assembled = lines]
      BY <1>9, <2>2 DEF AssembleChunk
    <3>. QED
      BY <1>9, <1>a, <3>1 DEF AssembleChunk, WorkerState
  <2>. QED
    BY <1>1, <2>1, <2>3
<1>10. CASE DeleteChunks(w)
  <2>1. worker'[w].pc = "returned"
    BY <1>10, <1>a DEF DeleteChunks, Advance, WorkerState
  <2>. QED
    BY <2>1, SingleRunMoves
<1>. QED
  BY <1>3, <1>4, <1>5, <1>6, <1>7, <1>8, <1>9, <1>10 DEF RunStep
(* What leaves the runs, their log and their objects alone keeps SingleRun  *)
(* as long as the entry stays where it is or the creator enqueues it.       *)
LEMMA SingleRunUntouched ==
    ASSUME StateAssumption, SingleRun, UNCHANGED <<worker, chunks, checkpoints>>,
           \/ queue' = queue
           \/ queue.state = "absent" /\ queue'.state \in {"absent", "waiting"},
           queue'.state = "absent" \/ request'[Creator].pc \in {"markQueued", "done"}
    PROVE  SingleRun'
<1>1. queue'.state \in {"absent", "waiting", "active", "completed"}
  BY DEF SingleRun
<1>2. queue'.state \in {"absent", "waiting"} => Busy' = {} /\ checkpoints' = {}
  BY DEF SingleRun, Busy
<1>3. queue'.state = "active" => OwnerIsAlive'
  BY DEF SingleRun, OwnerIsAlive
<1>4. ASSUME NEW u \in Workers
      PROVE  /\ worker'[u].pc \notin {"threw", "failThrow", "assemblyFailed"}
             /\ worker'[u].pc \in {"put", "checkpoint"} => worker'[u].batch # {}
             /\ worker'[u].pc = "checkpoint" => ChunkExists(worker[u].batchNumber)'
  BY DEF SingleRun, ChunkExists
<1>5. \/ (\A c \in checkpoints : ChunkExists(c.batchNumber))'
      \/ \A u \in Workers : worker'[u].pc \in {"idle", "returned"}
  BY DEF SingleRun, ChunkExists
<1>. QED
  BY <1>1, <1>2, <1>3, <1>4, <1>5 DEF SingleRun

(* Nothing else enqueues, retries or reclaims a job nobody resumes.         *)
LEMMA SingleRunOther ==
    ASSUME ProgressInv, RunHoldsEntry, SingleRun, OpsFit, ~Asked("resume"),
           OtherStep, ~QueueFault
    PROVE  SingleRun'
<1>a. /\ worker \in [Workers -> WorkerState] /\ request \in [Handlers -> RequestState]
      /\ Handlers = Requests \cup {Creator} /\ Creator \notin Requests /\ StateAssumption
      /\ queue \in QueueEntry /\ NoWorker \notin Workers
  BY LogFacts, StateAssumption DEF Handlers, ProgressInv, LogInv, TypeOK
<1>1. ASSUME UNCHANGED <<worker, chunks, checkpoints, queue>>,
             \/ request'[Creator] = request[Creator]
             \/ request'[Creator].pc \in {"markQueued", "done"}
             \/ request[Creator].pc \notin {"markQueued", "done"}
      PROVE  SingleRun'
  BY <1>a, <1>1, SingleRunUntouched DEF SingleRun
<1>2. ASSUME NEW w \in Workers, PickUp(w)
      PROVE  SingleRun'
  <2>1. /\ queue.state = "waiting" /\ Busy = {} /\ checkpoints = {}
        /\ UNCHANGED <<chunks, checkpoints, request>>
        /\ queue'.state = "active" /\ queue'.owner = w
        /\ request[Creator].pc \in {"markQueued", "done"}
    BY <1>2, <1>a DEF PickUp, SingleRun, jobVars, storageVars, QueueEntry
  <2>2. /\ worker'[w].pc = "read"
        /\ \A u \in Workers : u # w => worker'[u].pc = "idle"
    BY <1>2, <1>a, <2>1 DEF PickUp, WorkerState, Busy
  <2>3. OwnerIsAlive'
    BY <1>a, <2>1, <2>2 DEF OwnerIsAlive
  <2>4. \A u \in Workers : worker'[u].pc \in {"idle", "read"}
    BY <2>2
  <2>. QED
    BY <2>1, <2>3, <2>4 DEF SingleRun
<1>3. ASSUME NEW w \in Workers, ProcessorReturns(w)
      PROVE  SingleRun'
  <2>1. /\ queue.state = "active" /\ queue.owner = w /\ UNCHANGED <<checkpoints, request>>
        /\ request[Creator].pc \in {"markQueued", "done"}
    BY <1>3 DEF ProcessorReturns, RunHoldsEntry, SingleRun, jobVars
  <2>2. queue'.state = "completed"
    BY <1>3, <1>a, <2>1 DEF ProcessorReturns, QueueEntry
  <2>3. \A u \in Workers : worker'[u].pc = "idle"
    BY <1>3, <1>a DEF ProcessorReturns, RunHoldsEntry, IdleWorker
  <2>. QED
    BY <2>1, <2>2, <2>3 DEF SingleRun
<1>4. ASSUME NEW w \in Workers, ProcessorThrows(w)
      PROVE  FALSE
  BY <1>4 DEF ProcessorThrows, SingleRun
<1>5. ~BackoffElapses /\ ~ReclaimFromDead
  BY DEF BackoffElapses, ReclaimFromDead, SingleRun
<1>6. CASE EnqueueStep(Creator)
  <2>1. AfterEnqueue(Creator) \in {"markQueued", "done"}
    BY DEF AfterEnqueue
  <2>2. queue.state = "absent" /\ UNCHANGED <<worker, chunks, checkpoints>>
    BY <1>6 DEF EnqueueStep, InspectEntry, RemoveEntry, AddEntry, SingleRun, jobVars, storageVars
  <2>3. \/ queue' = queue
        \/ queue'.state = "absent"
        \/ queue'.state = "waiting" /\ request'[Creator].pc \in {"markQueued", "done"}
    BY <1>6, <1>a, <2>1 DEF EnqueueStep, InspectEntry, RemoveEntry, AddEntry, Goto, NoEntry,
       RequestState
  <2>. QED
    BY <1>a, <2>2, <2>3, SingleRunUntouched
<1>7. ASSUME NEW h \in Requests, EnqueueStep(h) \/ MarkResuming(h)
      PROVE  FALSE
  BY <1>7 DEF EnqueueStep, InspectEntry, RemoveEntry, AddEntry, MarkResuming, OpsFit, Asked
<1>8. CASE CreateStep
  <2>1. /\ UNCHANGED <<worker, chunks, checkpoints, queue>>
        /\ \/ request'[Creator].pc = "done"
           \/ request[Creator].pc \in {"snapshot", "create"}
    BY <1>8, <1>a DEF CreateStep, CaptureSnapshotMaxId, CreateExportJob, MarkQueued, Goto,
       RequestState, jobVars, storageVars
  <2>. QED
    BY <1>1, <2>1
<1>9. ASSUME NEW h \in Handlers, RequestAborts(h)
      PROVE  SingleRun'
  <2>1. /\ UNCHANGED <<worker, chunks, checkpoints, queue>>
        /\ request'[Creator] = request[Creator] \/ request'[Creator].pc = "done"
    BY <1>9, <1>a DEF RequestAborts, Goto, RequestState, jobVars, storageVars
  <2>. QED
    BY <1>1, <2>1
<1>10. ASSUME NEW r \in Requests, \/ CancelWrite(r) \/ VerifyScan(r) \/ VerifyRecord(r)
                                  \/ RequestArrives(r)
      PROVE  SingleRun'
  <2>1. /\ UNCHANGED <<worker, chunks, checkpoints, queue>>
        /\ request'[Creator] = request[Creator]
    BY <1>10, <1>a DEF CancelWrite, VerifyScan, VerifyRecord, RequestArrives, ResumeRead,
       CancelRead, VerifyRead, Begin, Goto, jobVars, storageVars
  <2>. QED
    BY <1>1, <2>1
<1>11. CASE \/ SweepStep \/ SweepAborts \/ HeartbeatExpires \/ RecordTraffic
            \/ UNCHANGED vars
  <2>1. UNCHANGED <<worker, chunks, checkpoints, queue, request>>
    BY <1>11 DEF SweepStep, ListStalled, MarkInterrupted, SweepAborts, HeartbeatExpires,
       RecordTraffic, InsertRecord, BeginInsert, CommitInsert, DeleteRecord, vars, jobVars,
       storageVars
  <2>. QED
    BY <1>1, <2>1
<1>. QED
  BY <1>a, <1>2, <1>3, <1>4, <1>5, <1>6, <1>7, <1>8, <1>9, <1>10, <1>11
     DEF OtherStep, HandlerStep, QueueStep
(* What Undecided says of a job, in every state of an undisturbed run.      *)
Outcome ==
    /\ \A w \in Workers : worker[w].pc # "assemblyFailed"
    /\ finalFile # {} => \E w \in Workers : worker[w].pc \in {"verify", "recordVerdict"}
    /\ job.status \in {"RUNNING", "VERIFYING"} => \E w \in Workers : worker[w].pc \in ClaimedPc

(* No assembly misses a chunk: a job that is not resumed has one run, and   *)
(* where nobody cancels no object of a logged batch goes before the file.   *)
LEMMA ChunksInPlace ==
    ASSUME ProgressInv, RunHoldsEntry, FileInv, Outcome,
           SingleRun \/ DurableInv,
           NEW w \in Workers, worker[w].pc = "assemble",
           worker[w].nextChunk <= worker[w].batchCount
    PROVE  ChunkExists(worker[w].nextChunk)
<1>1. CASE SingleRun
  BY <1>1, AssemblyFindsChunk DEF SingleRun
<1>2. CASE DurableInv
  <2>1. finalFile = {}
    BY DEF Outcome, RunHoldsEntry
  <2>2. ASSUME NEW c \in checkpoints
        PROVE  ChunkExists(c.batchNumber)
    <3>1. /\ c.rowsWritten # 0
          /\ Cardinality(LinesOf(c.batchNumber, chunks)) = c.rowsWritten
      BY <1>2, <2>1, <2>2 DEF DurableInv, Kept, Stored
    <3>2. LinesOf(c.batchNumber, chunks) # {}
      BY <3>1, FS_EmptySet
    <3>. QED
      BY <3>2 DEF LinesOf, ChunkExists
  <2>. QED
    BY <2>2, AssemblyFindsChunk
<1>. QED
  BY <1>1, <1>2

(* A recorded verdict stays one.                                            *)
LEMMA VerdictStays ==
    ASSUME ProgressInv, FileInv, [Next]_vars, verification' = "none"
    PROVE  /\ verification = "none"
           /\ \A w \in Workers : ~RecordVerdict(w)
<1>1. ASSUME NEW w \in Workers, RecordVerdict(w)
      PROVE  FALSE
  BY <1>1 DEF RecordVerdict, FileInv, VerdictPasses
<1>2. ASSUME NEW h \in Requests, VerifyRecord(h)
      PROVE  FALSE
  BY <1>2 DEF VerifyRecord, FileInv, ReauditPasses, Handlers
<1>3. ASSUME NEW w \in Workers, RunStep(w) \/ RunFault(w)
      PROVE  UNCHANGED verification
  BY <1>1, <1>3 DEF RunStep, RunFault, ReadJob, CancelBeforeStart, ClaimJob, SetStartedAt,
     LoadResumeState, ReconcileJobProgress, IsCancelRequested, CancelMidRun, DeleteChunks,
     FetchRecordBatch, PutChunk, Checkpoint, CrossCheckLog, SetVerifying, AssembleChunk,
     UploadFinalCsv, AssemblyFails, VerifyExportFile, KeepRejectedFile, CompleteJob, FailJob,
     DeleteChunksThrows, StepThrows, Crash, jobVars
<1>4. ASSUME OtherStep
      PROVE  UNCHANGED verification
  BY <1>2, <1>4 DEF OtherStep, HandlerStep, CreateStep, CaptureSnapshotMaxId, CreateExportJob,
     MarkQueued, MarkResuming, CancelWrite, VerifyScan, EnqueueStep, InspectEntry,
     RemoveEntry, AddEntry, RequestAborts, RequestArrives, ResumeRead, CancelRead,
     VerifyRead, QueueStep, PickUp, ProcessorReturns, ProcessorThrows, BackoffElapses,
     ReclaimFromDead, QueueFault, ReclaimFromLive, RedisRestarts, SweepStep, ListStalled,
     MarkInterrupted, SweepAborts, HeartbeatExpires, RecordTraffic, InsertRecord,
     BeginInsert, CommitInsert, DeleteRecord, vars, jobVars
<1>. QED
  BY <1>1, <1>3, <1>4 DEF Next, OtherStep

(* The only run writes the outcome of the job it claimed before it ends.    *)
LEMMA OutcomeOfRun ==
    ASSUME ProgressInv, RunHoldsEntry, FileInv, Outcome, SingleRun \/ DurableInv,
           NEW w \in Workers, RunStep(w), ~RecordVerdict(w)
    PROVE  Outcome'
<1>a. /\ worker \in [Workers -> WorkerState] /\ worker[w] \in WorkerState /\ job \in ExportJob
      /\ worker[w].pc # "assemblyFailed"
      /\ \A u \in Workers : u # w => worker[u].pc = "idle" /\ worker'[u] = worker[u]
  BY LogFacts, OthersAreIdle DEF Outcome
<1>b. /\ finalFile # {} => worker[w].pc \in {"verify", "recordVerdict"}
      /\ job.status \in {"RUNNING", "VERIFYING"} => worker[w].pc \in ClaimedPc
  BY <1>a DEF Outcome, ClaimedPc, InTry
<1>1. ASSUME worker'[w].pc # "assemblyFailed",
             finalFile' # {} => worker'[w].pc \in {"verify", "recordVerdict"},
             job'.status \in {"RUNNING", "VERIFYING"} => worker'[w].pc \in ClaimedPc
      PROVE  Outcome'
  <2>1. \A u \in Workers : worker'[u].pc # "assemblyFailed"
    BY <1>a, <1>1
  <2>. QED
    BY <1>1, <2>1 DEF Outcome
<1>c. ASSUME NEW label, Advance(w, label)
      PROVE  worker'[w].pc = label
  BY <1>a, <1>c DEF Advance, WorkerState
<1>d. ASSUME NEW s, job' = WithStatus(s)
      PROVE  job'.status = s
  BY <1>a, <1>d DEF WithStatus, ExportJob
<1>e. \A rows : LoopLabel(rows) \in {"cancelCheck", "finalCheck", "failReturn"}
  BY DEF LoopLabel
<1>2. CASE ReadJob(w) \/ IsCancelRequested(w)
  <2>1. UNCHANGED <<job, finalFile>>
    BY <1>2 DEF ReadJob, IsCancelRequested, jobVars, storageVars
  <2>. QED
    BY <1>1, <1>2, <1>b, <1>c, <2>1 DEF ReadJob, IsCancelRequested, ClaimedPc, InTry, BeforeTry
<1>3. CASE \/ CancelBeforeStart(w) \/ ClaimJob(w) \/ CancelMidRun(w) \/ SetVerifying(w)
           \/ FailJob(w)
  <2>1. UNCHANGED finalFile
    BY <1>3 DEF CancelBeforeStart, ClaimJob, CancelMidRun, SetVerifying, FailJob, storageVars
  <2>. QED
    BY <1>1, <1>3, <1>b, <1>c, <1>d, <2>1 DEF CancelBeforeStart, ClaimJob, CancelMidRun,
       SetVerifying, FailJob, ClaimedPc, InTry, BeforeTry
<1>4. CASE SetStartedAt(w) \/ ReconcileJobProgress(w) \/ KeepRejectedFile(w)
  <2>1. UNCHANGED finalFile /\ job'.status = job.status
    BY <1>4, <1>a DEF SetStartedAt, ReconcileJobProgress, KeepRejectedFile, storageVars, ExportJob
  <2>. QED
    BY <1>1, <1>4, <1>b, <1>c, <1>e, <2>1 DEF SetStartedAt, ReconcileJobProgress,
       KeepRejectedFile, ClaimedPc, InTry
<1>5. CASE LoadResumeState(w)
  <2>1. UNCHANGED <<job, finalFile>> /\ worker[w].pc = "load"
    BY <1>5 DEF LoadResumeState, jobVars, storageVars
  <2>2. ASSUME NEW n, NEW id, NEW rows, ResumeAt(w, n, id, rows)
        PROVE  worker'[w].pc = "reconcile"
    BY <1>a, <2>2 DEF ResumeAt, WorkerState
  <2>3. worker'[w].pc \in {"reconcile", "failThrow"}
    BY <1>5, <1>c, <2>2 DEF LoadResumeState
  <2>. QED
    BY <1>1, <1>b, <2>1, <2>3 DEF ClaimedPc, InTry
<1>6. CASE DeleteChunks(w)
  <2>1. UNCHANGED <<job, finalFile>> /\ worker'[w].pc = "returned"
    BY <1>6, <1>c DEF DeleteChunks, jobVars
  <2>. QED
    BY <1>1, <1>6, <1>b, <2>1 DEF DeleteChunks, ClaimedPc
<1>7. CASE \/ FetchRecordBatch(w) \/ PutChunk(w) \/ CrossCheckLog(w) \/ VerifyExportFile(w)
  <2>1. UNCHANGED <<job, finalFile>>
    BY <1>7 DEF FetchRecordBatch, PutChunk, CrossCheckLog, VerifyExportFile, jobVars, storageVars
  <2>2. \/ /\ worker[w].pc \in {"fetch", "put", "finalCheck"}
           /\ worker'[w].pc \in {"put", "checkpoint", "failReturn", "failThrow", "setVerifying"}
        \/ worker[w].pc = "verify" /\ worker'[w].pc = "recordVerdict"
    BY <1>7, <1>a, <1>c DEF FetchRecordBatch, PutChunk, CrossCheckLog, VerifyExportFile,
       WorkerState
  <2>. QED
    BY <1>1, <1>b, <2>1, <2>2 DEF ClaimedPc, InTry
<1>8. CASE Checkpoint(w)
  <2>1. /\ UNCHANGED finalFile /\ worker[w].pc = "checkpoint" /\ job'.status = job.status
    BY <1>8, <1>a DEF Checkpoint, storageVars, ExportJob
  <2>2. worker'[w].pc \in {"cancelCheck", "finalCheck", "failReturn", "failThrow"}
    <3>1. CASE UniqueViolation(worker[w].batchNumber)
      BY <1>8, <1>c, <3>1 DEF Checkpoint
    <3>2. CASE ~UniqueViolation(worker[w].batchNumber)
      BY <1>8, <1>a, <3>2, CheckpointedRun
    <3>. QED
      BY <3>1, <3>2
  <2>. QED
    BY <1>1, <1>b, <2>1, <2>2 DEF ClaimedPc, InTry
<1>9. CASE AssembleChunk(w)
  <2>1. UNCHANGED <<job, finalFile>> /\ worker[w].pc = "assemble"
    BY <1>9 DEF AssembleChunk, jobVars, storageVars
  <2>2. ChunkExists(worker[w].nextChunk)
    BY <1>9, ChunksInPlace DEF AssembleChunk
  <2>3. worker'[w].pc = "assemble"
    <3>1. PICK n, lines : worker' = [worker EXCEPT ![w].nextChunk = n, ![w].assembled = lines]
      BY <1>9, <2>2 DEF AssembleChunk
    <3>. QED
      BY <1>a, <2>1, <3>1 DEF WorkerState
  <2>. QED
    BY <1>1, <1>b, <2>1, <2>3 DEF ClaimedPc, InTry
<1>10. CASE UploadFinalCsv(w)
  <2>1. /\ UNCHANGED job /\ worker[w].pc = "assemble" /\ worker'[w].pc = "verify"
    BY <1>10, <1>a DEF UploadFinalCsv, jobVars, WorkerState
  <2>. QED
    BY <1>1, <2>1 DEF ClaimedPc, InTry
<1>11. CASE AssemblyFails(w)
  BY <1>11, <1>a DEF AssemblyFails
<1>12. CASE CompleteJob(w)
  <2>1. /\ UNCHANGED finalFile /\ worker[w].pc = "complete" /\ worker'[w].pc = "cleanup"
        /\ job'.status = "COMPLETED"
    BY <1>12, <1>a, <1>c DEF CompleteJob, storageVars, WithStatus, ExportJob
  <2>. QED
    BY <1>1, <1>b, <2>1
<1>. QED
  BY <1>2, <1>3, <1>4, <1>5, <1>6, <1>7, <1>8, <1>9, <1>10, <1>11, <1>12 DEF RunStep
(* Nobody else claims the job, uploads a file or ends a run that is not     *)
(* over.                                                                    *)
LEMMA OutcomeOfOthers ==
    ASSUME ProgressInv, Outcome, OtherStep
    PROVE  Outcome'
<1>a. worker \in [Workers -> WorkerState] /\ job \in ExportJob
  BY LogFacts
<1>1. UNCHANGED finalFile
  BY DEF OtherStep, HandlerStep, CreateStep, CaptureSnapshotMaxId, CreateExportJob,
     MarkQueued, MarkResuming, CancelWrite, VerifyScan, VerifyRecord, EnqueueStep,
     InspectEntry, RemoveEntry, AddEntry, RequestAborts, RequestArrives, ResumeRead,
     CancelRead, VerifyRead, QueueStep, PickUp, ProcessorReturns, ProcessorThrows,
     BackoffElapses, ReclaimFromDead, QueueFault, ReclaimFromLive, RedisRestarts, SweepStep,
     ListStalled, MarkInterrupted, SweepAborts, HeartbeatExpires, RecordTraffic, InsertRecord,
     BeginInsert, CommitInsert, DeleteRecord, vars, storageVars
<1>2. job'.status \in {"RUNNING", "VERIFYING"} => job'.status = job.status
  <2>1. CASE UNCHANGED job
    BY <2>1
  <2>2. CASE \/ CreateExportJob \/ MarkQueued \/ ListStalled \/ MarkInterrupted
             \/ HeartbeatExpires
    BY <1>a, <2>2 DEF CreateExportJob, MarkQueued, ListStalled, MarkInterrupted,
       HeartbeatExpires, WithStatus, ExportJob, NoJob
  <2>3. ASSUME NEW r \in Requests, MarkResuming(r) \/ CancelWrite(r)
        PROVE  job'.status \in {"RUNNING", "VERIFYING"} => job'.status = job.status
    BY <1>a, <2>3 DEF MarkResuming, CancelWrite, WithStatus, ExportJob
  <2>. QED
    BY <2>1, <2>2, <2>3 DEF OtherStep, HandlerStep, CreateStep, CaptureSnapshotMaxId,
       VerifyScan, VerifyRecord, EnqueueStep, InspectEntry, RemoveEntry, AddEntry,
       RequestAborts, RequestArrives, ResumeRead, CancelRead, VerifyRead, QueueStep, PickUp,
       ProcessorReturns, ProcessorThrows, BackoffElapses, ReclaimFromDead, QueueFault,
       ReclaimFromLive, RedisRestarts, SweepStep, SweepAborts, RecordTraffic, InsertRecord,
       BeginInsert, CommitInsert, DeleteRecord, vars, jobVars
<1>3. ASSUME NEW u \in Workers
      PROVE  \/ worker'[u] = worker[u]
             \/ /\ worker[u].pc \in {"idle", "returned", "threw"}
                /\ worker'[u].pc \in {"idle", "read"}
  <2>1. ASSUME NEW w \in Workers, PickUp(w) \/ ProcessorReturns(w) \/ ProcessorThrows(w)
        PROVE  \/ worker'[u] = worker[u]
               \/ /\ worker[u].pc \in {"idle", "returned", "threw"}
                  /\ worker'[u].pc \in {"idle", "read"}
    BY <1>a, <2>1 DEF PickUp, ProcessorReturns, ProcessorThrows, IdleWorker, WorkerState
  <2>. QED
    BY <2>1, OtherKeepsWorkers
<1>4. \A u \in Workers : worker'[u].pc # "assemblyFailed"
  BY <1>3 DEF Outcome
<1>5. ASSUME NEW u \in Workers, worker[u].pc \in ClaimedPc
      PROVE  worker'[u].pc = worker[u].pc
  BY <1>3, <1>5 DEF ClaimedPc, InTry
<1>6. finalFile' # {} => \E u \in Workers : worker'[u].pc \in {"verify", "recordVerdict"}
  BY <1>1, <1>5 DEF Outcome, ClaimedPc, InTry
<1>7. job'.status \in {"RUNNING", "VERIFYING"} =>
          \E u \in Workers : worker'[u].pc \in ClaimedPc
  BY <1>2, <1>5 DEF Outcome
<1>. QED
  BY <1>4, <1>6, <1>7 DEF Outcome

(* Every step of the system.  The guards of OutcomeInv only ever go from    *)
(* true to false: faults are counted, requests and verdicts are kept.       *)
LEMMA NextOutcomeInv ==
    ASSUME FaultBudget["lockLoss"] = 0, FaultBudget["redisRestart"] = 0,
           ProgressInv, RunHoldsEntry, RunAtEnd, FileInv, ~Asked("cancel") => DurableInv,
           OutcomeInv, [Next]_vars
    PROVE  OutcomeInv'
<1>1. /\ OpsFit'
      /\ Asked("cancel") => Asked("cancel")'
      /\ Asked("resume") => Asked("resume")'
  BY OpsKept DEF OutcomeInv
<1>2. ASSUME RunsUndisturbed', ~Asked("resume")'
      PROVE  SingleRun'
  <2>1. /\ SingleRun /\ OpsFit /\ ~Asked("resume")
        /\ (\E w \in Workers : RunStep(w)) \/ (OtherStep /\ ~QueueFault)
    BY <1>1, <1>2, UndisturbedStep DEF OutcomeInv
  <2>. QED
    BY <2>1, SingleRunStep, SingleRunOther
<1>3. ASSUME RunsUndisturbed', Undecided'
      PROVE  Outcome'
  <2>1. /\ RunsUndisturbed
        /\ (\E w \in Workers : RunStep(w)) \/ (OtherStep /\ ~QueueFault)
    BY <1>3, UndisturbedStep
  <2>2. /\ verification = "none" /\ \A w \in Workers : ~RecordVerdict(w)
    BY <1>3, VerdictStays DEF Undecided
  <2>3. ~(Asked("cancel") /\ Asked("resume"))
    BY <1>1, <1>3 DEF Undecided
  <2>4. Outcome /\ (SingleRun \/ DurableInv)
    BY <2>1, <2>2, <2>3 DEF OutcomeInv, Outcome, Undecided
  <2>. QED
    BY <2>1, <2>2, <2>4, OutcomeOfRun, OutcomeOfOthers
<1>. QED
  BY <1>1, <1>2, <1>3 DEF OutcomeInv, Outcome

LEMMA InitOutcomeInv == Init => OutcomeInv
<1>. SUFFICES ASSUME Init PROVE OutcomeInv
  OBVIOUS
<1>1. /\ \A w \in Workers : worker[w].pc = "idle"
      /\ queue.state = "absent" /\ checkpoints = {} /\ finalFile = {} /\ job.status = "ABSENT"
  BY DEF Init, IdleWorker, NoEntry, NoJob
<1>2. OpsFit
  BY StateAssumption DEF Init, OpsFit, Handlers
<1>3. SingleRun
  BY <1>1 DEF SingleRun, Busy
<1>. QED
  BY <1>1, <1>2, <1>3 DEF OutcomeInv

(* A job in progress has a run that will write its outcome.  The runs of a  *)
(* job have the queue entry to themselves, so this needs a queue that does  *)
(* not break its locks; faults inside a run, deletes and aborted requests   *)
(* are not excluded, they are what the invariant counts or survives.        *)
THEOREM OutcomeInvariant ==
    ASSUME FaultBudget["lockLoss"] = 0, FaultBudget["redisRestart"] = 0
    PROVE  Spec => []OutcomeInv
<1>1. /\ ProgressInv /\ (RunHoldsEntry /\ RunAtEnd) /\ (FileInv /\ PagesAgree)
      /\ (~Asked("cancel") => DurableInv) /\ OutcomeInv /\ [Next]_vars
      => OutcomeInv'
  BY NextOutcomeInv
<1>. QED
  BY <1>1, InitOutcomeInv, RunsKeptApart, FileInvariant, DurableInvariantAlone,
     ProgressInvariant, PTL DEF Spec

(* A job nobody works on any more is not left in a status resume refuses:   *)
(* whatever the moments at which its requests were cut off.                 *)
THEOREM AbandonedAlwaysResumable ==
    ASSUME FaultBudget["lockLoss"] = 0, FaultBudget["redisRestart"] = 0
    PROVE  Spec => []AbandonedIsResumable
<1>1. ProgressInv /\ OutcomeInv => AbandonedIsResumable
  <2>. SUFFICES ASSUME ProgressInv, OutcomeInv, Abandoned, RunsUndisturbed, Undecided
                PROVE  job.status \in RESUMABLE_FOR_USER
                                      \cup {"ABSENT", "COMPLETED", "CANCELLED"}
    BY DEF AbandonedIsResumable
  <2>1. \A w \in Workers : worker[w].pc \notin ClaimedPc
    BY DEF Abandoned, Busy, ClaimedPc, InTry
  <2>2. job.status \notin {"RUNNING", "VERIFYING"}
    BY <2>1 DEF OutcomeInv
  <2>. QED
    BY <2>2, LogFacts DEF ExportJob, ExportStatus, RESUMABLE_FOR_USER
<1>. QED
  BY <1>1, OutcomeInvariant, ProgressInvariant, PTL
=============================================================================
