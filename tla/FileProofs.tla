------------------------------ MODULE FileProofs ------------------------------
(***************************************************************************)
(* Proofs about the file of a completed export: that it passes the audit,  *)
(* and that it skips no row of the table.                                  *)
(***************************************************************************)
EXTENDS ProgressProofs, WellFoundedInduction

(* The log: one checkpoint per batch, ids that rise with the batches.       *)
LEMMA LogFacts ==
    ASSUME ProgressInv
    PROVE  /\ checkpoints \in SUBSET ExportCheckpoint /\ IsFiniteSet(checkpoints)
           /\ \A c \in checkpoints : /\ c.batchNumber \in Nat /\ c.lastRecordId \in Nat
                                     /\ c.rowsWritten \in 0 .. BatchSize
           /\ \A c, d \in checkpoints : c.batchNumber = d.batchNumber => c = d
           /\ LogRises
           /\ BatchSize \in Nat /\ RequestedRowLimit \in Nat \ {0} /\ MaxRecordId \in Nat
           /\ chunks \in SUBSET (Nat \X Nat) /\ finalFile \in SUBSET (Nat \X Nat)
           /\ worker \in [Workers -> WorkerState] /\ snapshotMaxId \in Nat
           /\ request \in [Handlers -> RequestState] /\ job \in ExportJob
           /\ records \in SUBSET (1 .. MaxRecordId)
BY StateAssumption DEF ProgressInv, LogInv, TypeOK, LogIsSound, OneCheckpointPerBatch,
   ExportCheckpoint

LEMMA OneToOne ==
    ASSUME NEW S, NEW T, NEW f \in [S -> T],
           \A a, b \in S : f[a] = f[b] => a = b,
           \A t \in T : \E s \in S : f[s] = t
    PROVE  f \in Bijection(S, T)
<1>1. f \in Injection(S, T)
  BY Zenon DEF Injection, IsInjective
<1>2. f \in Surjection(S, T)
  BY Zenon DEF Surjection
<1>. QED
  BY <1>1, <1>2, Zenon DEF Bijection

-----------------------------------------------------------------------------
(* The lines of a page can be counted.                                      *)
LEMMA PageLines ==
    ASSUME ProgressInv, NEW c \in checkpoints, NEW lines \in SUBSET (Nat \X Nat),
           PageIn(c, lines)
    PROVE  ExistsBijection(1 .. c.rowsWritten, LinesOf(c.batchNumber, lines))
<1>. DEFINE page == LinesOf(c.batchNumber, lines)
<1>a. c.batchNumber \in Nat /\ c.lastRecordId \in Nat
  BY LogFacts
<1>1. IsFiniteSet({c.batchNumber} \X (0 .. c.lastRecordId))
  <2>1. IsFiniteSet(0 .. c.lastRecordId)
    BY <1>a, FS_Interval
  <2>. QED
    BY <2>1, FS_Singleton, FS_Product
<1>2. page \in SUBSET ({c.batchNumber} \X (0 .. c.lastRecordId))
  BY <1>a DEF PageIn, InRange, LinesOf
<1>3. IsFiniteSet(page)
  BY <1>1, <1>2, FS_Subset
<1>. QED
  BY <1>3, FS_CardinalityType DEF PageIn

(* A file that holds the page of every checkpoint has the rows of the log.  *)
LEMMA WholeFileRows ==
    ASSUME ProgressInv, NEW file \in SUBSET (Nat \X Nat), WholeFile(file)
    PROVE  IsFiniteSet(file) /\ Cardinality(file) = RequestedRowLimit
<1>. DEFINE Rows   == {row \in checkpoints \X (1 .. BatchSize) : row[2] <= row[1].rowsWritten}
            Of(c)  == Bijection(1 .. c.rowsWritten, LinesOf(c.batchNumber, file))
            place  == [c \in checkpoints |-> CHOOSE f : f \in Of(c)]
            number == [row \in Rows |-> place[row[1]][row[2]]]
<1>1. ASSUME NEW c \in checkpoints
      PROVE  place[c] \in Of(c)
  <2>1. \E f : f \in Of(c)
    BY PageLines DEF WholeFile, ExistsBijection
  <2>. QED
    BY <2>1
<1>2. ASSUME NEW row \in Rows
      PROVE  /\ row[1] \in checkpoints /\ row[2] \in 1 .. row[1].rowsWritten
             /\ number[row] \in LinesOf(row[1].batchNumber, file)
  <2>1. row[1] \in checkpoints /\ row[2] \in 1 .. row[1].rowsWritten
    BY LogFacts
  <2>2. place[row[1]] \in Of(row[1])
    BY <1>1, <2>1
  <2>. QED
    BY <2>1, <2>2 DEF Bijection, Injection
<1>3. number \in [Rows -> file]
  BY <1>2 DEF LinesOf
<1>4. ASSUME NEW p \in Rows, NEW q \in Rows, number[p] = number[q]
      PROVE  p = q
  <2>1. p[1].batchNumber = q[1].batchNumber
    BY <1>2, <1>4 DEF LinesOf
  <2>2. p[1] = q[1]
    BY <1>2, <2>1, LogFacts
  <2>3. place[p[1]] \in Of(p[1])
    BY <1>1, <1>2
  <2>4. place[p[1]][p[2]] = place[p[1]][q[2]]
    BY <1>4, <2>2
  <2>5. p[2] \in 1 .. p[1].rowsWritten /\ q[2] \in 1 .. p[1].rowsWritten
    BY <1>2, <2>2
  <2>6. p[2] = q[2]
    <3>1. PICK f : f = place[p[1]]
      OBVIOUS
    <3>2. f \in Injection(1 .. p[1].rowsWritten, LinesOf(p[1].batchNumber, file))
      BY <2>3, <3>1 DEF Bijection
    <3>3. \A k, m \in 1 .. p[1].rowsWritten : f[k] = f[m] => k = m
      BY <3>2, Zenon DEF Injection, IsInjective
    <3>. QED
      BY <2>4, <2>5, <3>1, <3>3
  <2>. QED
    BY <2>2, <2>6
<1>5. ASSUME NEW line \in file
      PROVE  \E row \in Rows : number[row] = line
  <2>1. PICK c \in checkpoints : line[1] = c.batchNumber
    BY DEF WholeFile, BatchNumbers
  <2>2. place[c] \in Of(c)
    BY <1>1
  <2>3. PICK k \in 1 .. c.rowsWritten : place[c][k] = line
    BY <2>1, <2>2 DEF LinesOf, Bijection, Surjection
  <2>4. <<c, k>> \in Rows
    BY <2>3, LogFacts
  <2>. QED
    BY <2>3, <2>4
<1>6. number \in Bijection(Rows, file)
  <2>. HIDE DEF number, Rows
  <2>. QED
    BY <1>3, <1>4, <1>5, OneToOne
<1>7. IsFiniteSet(Rows)
  <2>1. Rows \in SUBSET (checkpoints \X (1 .. BatchSize))
    OBVIOUS
  <2>2. IsFiniteSet(checkpoints \X (1 .. BatchSize))
    <3>1. IsFiniteSet(1 .. BatchSize) /\ IsFiniteSet(checkpoints)
      BY LogFacts, FS_Interval
    <3>. QED
      BY <3>1, FS_Product
  <2>. QED
    BY <2>1, <2>2, FS_Subset
<1>8. Cardinality(Rows) = RequestedRowLimit
  BY DEF WholeFile, RowsWritten
<1>. HIDE DEF number, Rows
<1>. QED
  BY <1>6, <1>7, <1>8, FS_Bijection DEF ExistsBijection

(* The lines of a file come from ranges that do not overlap.                *)
LEMMA LinesAscend ==
    ASSUME ProgressInv, NEW file \in SUBSET (Nat \X Nat), WholeFile(file),
           NEW l \in file, NEW m \in file, l[1] < m[1]
    PROVE  l[2] < m[2]
<1>1. PICK c \in checkpoints : c.batchNumber = l[1]
  BY DEF WholeFile, BatchNumbers
<1>2. PICK d \in checkpoints : d.batchNumber = m[1]
  BY DEF WholeFile, BatchNumbers
<1>3. l[2] <= c.lastRecordId /\ c.lastRecordId < m[2]
  BY <1>1, <1>2 DEF WholeFile, PageIn, InRange, LinesOf
<1>. QED
  BY <1>3, LogFacts

(* A whole file passes the audit.                                           *)
LEMMA WholeFilePasses ==
    ASSUME ProgressInv, NEW file \in SUBSET (Nat \X Nat), WholeFile(file),
           \A c \in checkpoints : c.lastRecordId <= snapshotMaxId
    PROVE  Passed(file) /\ file # {}
<1>1. IsFiniteSet(file) /\ Cardinality(file) = RequestedRowLimit
  BY WholeFileRows
<1>2. StrictlyAscending(file)
  BY LinesAscend DEF StrictlyAscending
<1>3. ASSUME NEW line \in file
      PROVE  line[2] <= snapshotMaxId
  <2>1. PICK c \in checkpoints : c.batchNumber = line[1]
    BY DEF WholeFile, BatchNumbers
  <2>2. line[2] <= c.lastRecordId /\ c.lastRecordId <= snapshotMaxId
    BY <2>1 DEF WholeFile, PageIn, InRange, LinesOf
  <2>. QED
    BY <2>2, LogFacts
<1>4. Cardinality({line[2] : line \in file}) = RequestedRowLimit
  <2>. DEFINE ids == {line[2] : line \in file}
              id  == [line \in file |-> line[2]]
  <2>1. ASSUME NEW l \in file, NEW m \in file, l[2] = m[2]
        PROVE  l = m
    <3>1. l[1] \in Nat /\ m[1] \in Nat /\ l[2] \in Nat /\ m[2] \in Nat
      OBVIOUS
    <3>2. ~(l[1] < m[1]) /\ ~(m[1] < l[1])
      BY <2>1, <3>1, LinesAscend
    <3>. QED
      BY <2>1, <3>1, <3>2
  <2>2. id \in Bijection(file, ids)
    <3>1. id \in [file -> ids] /\ \A l \in file : id[l] = l[2]
      OBVIOUS
    <3>2. \A k \in ids : \E line \in file : id[line] = k
      OBVIOUS
    <3>. HIDE DEF id
    <3>. QED
      BY <2>1, <3>1, <3>2, OneToOne
  <2>. QED
    BY <1>1, <2>2, FS_Bijection DEF ExistsBijection
<1>5. file # {}
  BY <1>1, LogFacts, FS_EmptySet
<1>. QED
  BY <1>1, <1>2, <1>3, <1>4, <1>5 DEF Passed, ActualRows, UniqueRows

-----------------------------------------------------------------------------
(* A run is past the record ids of every batch it does not work on.         *)
LEMMA CursorIsAhead ==
    ASSUME ProgressInv, NEW w \in Workers, worker[w].pc \in InLoop,
           NEW d \in checkpoints, d.batchNumber < worker[w].batchNumber
    PROVE  d.lastRecordId <= worker[w].lastExportedId
<1>a. CursorInLog(w) /\ d.batchNumber # 0
  <2>1. PICK n \in {0} \cup BatchNumbers : BatchNumbers = 1 .. n
    BY DEF ProgressInv, BatchesAreNumbered
  <2>2. d.batchNumber \in 1 .. n
    BY <2>1 DEF BatchNumbers
  <2>3. n \in Nat
    BY <2>1, LogFacts DEF BatchNumbers
  <2>. QED
    BY <2>2, <2>3 DEF ProgressInv, CursorsAreLogged
<1>b. d.batchNumber \in Nat /\ d.lastRecordId \in Nat
  BY LogFacts
<1>1. CASE worker[w].batchNumber = 1
  BY <1>a, <1>b, <1>1
<1>2. ASSUME NEW c \in checkpoints, c.batchNumber + 1 = worker[w].batchNumber,
             c.lastRecordId = worker[w].lastExportedId
      PROVE  d.lastRecordId <= worker[w].lastExportedId
  <2>1. c.batchNumber \in Nat /\ c.lastRecordId \in Nat
    BY LogFacts
  <2>2. CASE d.batchNumber = c.batchNumber
    BY <1>2, <1>b, <2>2, LogFacts
  <2>3. CASE d.batchNumber < c.batchNumber
    BY <1>2, <1>b, <2>1, <2>3, LogFacts DEF LogRises
  <2>. QED
    BY <1>2, <1>b, <2>1, <2>2, <2>3
<1>. QED
  BY <1>a, <1>1, <1>2 DEF CursorInLog

(* The run whose checkpoint is accepted is where the count says, with no    *)
(* page in its hands.                                                       *)
LEMMA CheckpointedRun ==
    ASSUME worker \in [Workers -> WorkerState], NEW w \in Workers, Checkpoint(w),
           ~UniqueViolation(worker[w].batchNumber)
    PROVE  /\ worker'[w].pc \in {"cancelCheck", "finalCheck", "failReturn"}
           /\ worker'[w].batch = {}
<1>1. PICK id \in worker[w].batch :
        LET total == worker[w].exportedRowCount + Cardinality(worker[w].batch)
        IN  worker' = [worker EXCEPT ![w].pc = LoopLabel(total),
                                     ![w].batchNumber = @ + 1,
                                     ![w].lastExportedId = id,
                                     ![w].exportedRowCount = total,
                                     ![w].batch = {}]
  BY DEF Checkpoint
<1>2. \A rows : LoopLabel(rows) \in {"cancelCheck", "finalCheck", "failReturn"}
  BY DEF LoopLabel
<1>. QED
  BY <1>1, <1>2 DEF WorkerState

(* What an accepted checkpoint appends: the page of its run, as the newest  *)
(* batch, to a log that is not full.                                        *)
NewCheckpoint(w, id) == [batchNumber  |-> worker[w].batchNumber,
                         lastRecordId |-> id,
                         rowsWritten  |-> Cardinality(worker[w].batch)]

LEMMA AppendedPage ==
    ASSUME ProgressInv, NEW w \in Workers, Checkpoint(w),
           ~UniqueViolation(worker[w].batchNumber)
    PROVE  /\ RowsWritten(checkpoints) < RequestedRowLimit
           /\ \A d \in checkpoints : d.batchNumber < worker[w].batchNumber
           /\ \E id \in worker[w].batch :
                 /\ checkpoints' = checkpoints \cup {NewCheckpoint(w, id)}
                 /\ BatchLastId(w, id)
                 /\ id <= snapshotMaxId
                 /\ \A r \in worker[w].batch :
                       /\ r <= id
                       /\ \A d \in checkpoints : d.lastRecordId < r
           /\ worker' = [worker EXCEPT ![w] = worker'[w]]
           /\ worker'[w].pc \in {"cancelCheck", "finalCheck", "failReturn"}
           /\ worker'[w].batchNumber = worker[w].batchNumber + 1
           /\ worker'[w].nextChunk = worker[w].nextChunk
           /\ worker'[w].assembled = worker[w].assembled
<1>a. /\ worker[w].pc = "checkpoint" /\ worker[w].pc \in InLoop
      /\ worker[w] \in WorkerState /\ worker \in [Workers -> WorkerState]
      /\ LogInv /\ BatchesAreNumbered /\ LogRises
      /\ CursorInLog(w) /\ CountInLog(w) /\ PageIsAhead(w)
      /\ worker[w].exportedRowCount + Cardinality(worker[w].batch) <= RequestedRowLimit
      /\ \A r \in worker[w].batch : r <= snapshotMaxId
      /\ RequestedRowLimit \in Nat
  BY StateAssumption
     DEF ProgressInv, LogInv, TypeOK, Checkpoint, InLoop, CursorsAreLogged, PagesFit
<1>1. PICK id \in worker[w].batch :
        /\ checkpoints' = checkpoints \cup {NewCheckpoint(w, id)}
        /\ BatchLastId(w, id)
        /\ LET total == worker[w].exportedRowCount + Cardinality(worker[w].batch)
           IN  worker' = [worker EXCEPT ![w].pc = LoopLabel(total),
                                        ![w].batchNumber = @ + 1,
                                        ![w].lastExportedId = id,
                                        ![w].exportedRowCount = total,
                                        ![w].batch = {}]
  BY DEF Checkpoint, NewCheckpoint
<1>2. Appends(w, id)
  BY <1>1 DEF Appends, NewCheckpoint, UniqueViolation
<1>3. \A d \in checkpoints : d.batchNumber < worker[w].batchNumber
  BY <1>a, <1>2, AppendedIsNext
<1>4. RowsWritten(checkpoints) < RequestedRowLimit
  <2>1. {d \in checkpoints : d.batchNumber < worker[w].batchNumber} = checkpoints
    BY <1>3
  <2>2. worker[w].exportedRowCount = RowsWritten(checkpoints)
    BY <1>a, <2>1 DEF CountInLog
  <2>3. IsFiniteSet(worker[w].batch) /\ Cardinality(worker[w].batch) \in Nat
    BY <1>a, PageCardinality DEF WorkerState
  <2>4. Cardinality(worker[w].batch) # 0
    BY <2>3, FS_EmptySet
  <2>5. RowsWritten(checkpoints) \in Nat
    BY LogFacts, RowsWrittenType
  <2>. QED
    BY <1>a, <2>2, <2>3, <2>4, <2>5
<1>5. ASSUME NEW r \in worker[w].batch
      PROVE  r <= id /\ \A d \in checkpoints : d.lastRecordId < r
  <2>1. r \in Nat /\ worker[w].lastExportedId \in Nat /\ worker[w].lastExportedId < r
    BY <1>a, StateAssumption DEF PageIsAhead, WorkerState
  <2>2. ASSUME NEW d \in checkpoints
        PROVE  d.lastRecordId < r
    <3>1. d.lastRecordId <= worker[w].lastExportedId
      BY <1>a, <1>3, CursorIsAhead
    <3>2. d.lastRecordId \in Nat
      BY LogFacts
    <3>. QED
      BY <2>1, <3>1, <3>2
  <2>. QED
    BY <1>1, <2>2 DEF BatchLastId
<1>6. /\ worker' = [worker EXCEPT ![w] = worker'[w]]
      /\ worker'[w].pc \in {"cancelCheck", "finalCheck", "failReturn"}
      /\ worker'[w].batchNumber = worker[w].batchNumber + 1
      /\ worker'[w].nextChunk = worker[w].nextChunk
      /\ worker'[w].assembled = worker[w].assembled
  BY <1>a, <1>1 DEF LoopLabel, WorkerState
<1>. QED
  BY <1>a, <1>1, <1>3, <1>4, <1>5, <1>6

(* The batches are numbered up to the number of checkpoints.                *)
LEMMA BatchesCounted ==
    ASSUME ProgressInv
    PROVE  /\ Cardinality(checkpoints) \in Nat
           /\ BatchNumbers = 1 .. Cardinality(checkpoints)
<1>1. PICK n \in {0} \cup BatchNumbers : BatchNumbers = 1 .. n
  BY DEF ProgressInv, BatchesAreNumbered
<1>2. n \in Nat
  BY <1>1, LogFacts DEF BatchNumbers
<1>. DEFINE number == [c \in checkpoints |-> c.batchNumber]
<1>3. number \in Bijection(checkpoints, 1 .. n)
  <2>1. number \in [checkpoints -> 1 .. n]
    BY <1>1 DEF BatchNumbers
  <2>2. \A c, d \in checkpoints : number[c] = number[d] => c = d
    BY LogFacts
  <2>3. \A k \in 1 .. n : \E c \in checkpoints : number[c] = k
    BY <1>1 DEF BatchNumbers
  <2>. HIDE DEF number
  <2>. QED
    BY <2>1, <2>2, <2>3, OneToOne
<1>4. Cardinality(1 .. n) = Cardinality(checkpoints)
  BY <1>3, LogFacts, FS_Bijection DEF ExistsBijection
<1>5. Cardinality(1 .. n) = IF 1 > n THEN 0 ELSE n - 1 + 1
  BY <1>2, FS_Interval
<1>. QED
  BY <1>1, <1>2, <1>4, <1>5

-----------------------------------------------------------------------------
(* FileInv by what it is about: the boundary, a run, a re-audit, the row.   *)
WithinBoundary == \A c \in checkpoints : c.lastRecordId <= snapshotMaxId
RunFileInv(w) == ChunkIsPut(w) /\ AssemblyHoldsPages(w) /\ VerdictPasses(w)
RowFileInv == /\ job.fileKey => finalFile # {}
              /\ job.status = "COMPLETED" => job.fileKey /\ verification = "passed"

(* What most steps leave of the row: no file and no completion is added.    *)
KeepsFile ==
    /\ job'.fileKey => job.fileKey
    /\ job'.status = "COMPLETED" =>
          job.status = "COMPLETED" /\ (job.fileKey => job'.fileKey)

(* A step that leaves log, objects and file alone keeps the invariant if it *)
(* keeps its part for the run and the request that move.                    *)
LEMMA QuietFile ==
    ASSUME FileInv, UNCHANGED <<checkpoints, chunks, finalFile>>,
           checkpoints = {} \/ UNCHANGED snapshotMaxId,
           verification' \in {verification, "passed"},
           \A u \in Workers : worker'[u] = worker[u] \/ RunFileInv(u)',
           \A h \in Handlers : request'[h] = request[h] \/ ReauditPasses(h)',
           KeepsFile \/ RowFileInv'
    PROVE  FileInv'
<1>1. ChunksHoldPages' /\ WithinBoundary'
  BY DEF FileInv, ChunksHoldPages, WithinBoundary, PageIn, InRange, LinesOf
<1>2. \A u \in Workers : RunFileInv(u)'
  <2>1. ASSUME NEW u \in Workers, worker'[u] = worker[u]
        PROVE  RunFileInv(u)'
    <3>1. ChunkIsPut(u)' /\ VerdictPasses(u)'
      BY <2>1 DEF FileInv, ChunkIsPut, VerdictPasses, LinesOf
    <3>2. AssemblyHoldsPages(u)'
      BY <2>1 DEF FileInv, AssemblyHoldsPages, PageIn, InRange, LinesOf, BatchNumbers
    <3>. QED
      BY <3>1, <3>2 DEF RunFileInv
  <2>. QED
    BY <2>1
<1>3. \A h \in Handlers : ReauditPasses(h)'
  BY DEF FileInv, ReauditPasses
<1>4. finalFile' = {} \/ WholeFile(finalFile)'
  BY DEF FileInv, WholeFile, PageIn, InRange, LinesOf, BatchNumbers
<1>5. RowFileInv'
  BY DEF FileInv, RowFileInv, KeepsFile
<1>. QED
  BY <1>1, <1>2, <1>3, <1>4, <1>5 DEF FileInv, WithinBoundary, RunFileInv, RowFileInv

(* There is no batch before the first.                                      *)
LEMMA BatchesBeginAtOne ==
    ASSUME ProgressInv
    PROVE  \A c \in checkpoints : c.batchNumber \in Nat \ {0}
<1>1. PICK n \in {0} \cup BatchNumbers : BatchNumbers = 1 .. n
  BY DEF ProgressInv, BatchesAreNumbered
<1>2. n \in Nat
  BY <1>1, LogFacts DEF BatchNumbers
<1>3. \A c \in checkpoints : c.batchNumber \in 1 .. n
  BY <1>1 DEF BatchNumbers
<1>. QED
  BY <1>2, <1>3

(* A run that goes to a label where nothing more is asked of it.            *)
LEMMA AdvancedRun ==
    ASSUME FileInv, ProgressInv, NEW w \in Workers, worker \in [Workers -> WorkerState],
           NEW label, Advance(w, label),
           UNCHANGED <<checkpoints, finalFile>>,
           label \notin {"checkpoint", "verify", "recordVerdict", "complete", "keepRejected",
                         "setVerifying"},
           label = "cleanup" => worker[w].pc = "complete",
           label = "assemble" => worker[w].pc = "setVerifying",
           label \in BeforeAssembly => worker[w].pc \in BeforeAssembly
    PROVE  /\ \A u \in Workers : worker'[u] = worker[u] \/ RunFileInv(u)'
           /\ RunFileInv(w)'
<1>1. /\ worker'[w].pc = label
      /\ worker'[w].nextChunk = worker[w].nextChunk
      /\ worker'[w].assembled = worker[w].assembled
      /\ worker'[w].batchCount = worker[w].batchCount
      /\ \A u \in Workers : u # w => worker'[u] = worker[u]
  BY DEF Advance, WorkerState
<1>2. AssemblyHoldsPages(w) /\ VerdictPasses(w)
  BY DEF FileInv
<1>3. AssemblyHoldsPages(w)'
  <2>1. CASE label = "assemble"
    <3>1. /\ worker[w].batchCount = Cardinality(checkpoints)
          /\ worker[w].nextChunk = 1 /\ worker[w].assembled = {}
      BY <1>2, <2>1 DEF AssemblyHoldsPages, BeforeAssembly
    <3>2. \A c \in checkpoints : ~(c.batchNumber < 1)
      BY BatchesBeginAtOne
    <3>. QED
      BY <1>1, <2>1, <3>1, <3>2 DEF AssemblyHoldsPages, BeforeAssembly, InLoop, BeforeTry
  <2>2. CASE label # "assemble"
    BY <1>1, <1>2, <2>2 DEF AssemblyHoldsPages
  <2>. QED
    BY <2>1, <2>2
<1>4. VerdictPasses(w)' /\ ChunkIsPut(w)'
  BY <1>1, <1>2 DEF VerdictPasses, ChunkIsPut
<1>. QED
  BY <1>1, <1>3, <1>4 DEF RunFileInv

(* Only CompleteJob and KeepRejectedFile store the key of the file.         *)
LEMMA RunKeepsFile ==
    ASSUME LogInv, NEW w \in Workers, RunStep(w) \/ RunFault(w)
    PROVE  CompleteJob(w) \/ KeepRejectedFile(w) \/ KeepsFile
<1>a. job \in ExportJob
  BY DEF LogInv, TypeOK
<1>1. CASE UNCHANGED job
  BY <1>1 DEF KeepsFile
<1>2. CASE \/ CancelBeforeStart(w) \/ ClaimJob(w) \/ SetStartedAt(w) \/ CancelMidRun(w)
           \/ SetVerifying(w) \/ FailJob(w)
  BY <1>a, <1>2 DEF CancelBeforeStart, ClaimJob, SetStartedAt, CancelMidRun, SetVerifying,
     FailJob, WithStatus, ExportJob, KeepsFile
<1>3. CASE ReconcileJobProgress(w) \/ Checkpoint(w)
  <2>1. job'.status = job.status /\ job'.fileKey = job.fileKey
    BY <1>a, <1>3 DEF ReconcileJobProgress, Checkpoint, ExportJob
  <2>. QED
    BY <2>1 DEF KeepsFile
<1>4. CASE \/ ReadJob(w) \/ LoadResumeState(w) \/ IsCancelRequested(w) \/ DeleteChunks(w)
           \/ FetchRecordBatch(w) \/ PutChunk(w) \/ CrossCheckLog(w) \/ AssembleChunk(w)
           \/ UploadFinalCsv(w) \/ AssemblyFails(w) \/ VerifyExportFile(w) \/ RecordVerdict(w)
           \/ RunFault(w)
  <2>1. UNCHANGED job
    BY <1>4 DEF ReadJob, LoadResumeState, IsCancelRequested, DeleteChunks, FetchRecordBatch,
       PutChunk, CrossCheckLog, AssembleChunk, UploadFinalCsv, AssemblyFails,
       VerifyExportFile, RecordVerdict, RunFault, DeleteChunksThrows, StepThrows, Crash, jobVars
  <2>. QED
    BY <1>1, <2>1
<1>. QED
  BY <1>2, <1>3, <1>4 DEF RunStep

(* The steps of a run that only move it on.                                 *)
LEMMA MovingRun ==
    ASSUME ProgressInv, FileInv, NEW w \in Workers,
           \/ ReadJob(w) \/ CancelBeforeStart(w) \/ ClaimJob(w) \/ SetStartedAt(w)
           \/ ReconcileJobProgress(w) \/ IsCancelRequested(w) \/ CancelMidRun(w)
           \/ SetVerifying(w) \/ FailJob(w) \/ StepThrows(w)
           \/ Checkpoint(w) /\ UniqueViolation(worker[w].batchNumber)
    PROVE  /\ UNCHANGED <<checkpoints, snapshotMaxId, chunks, finalFile, verification, request>>
           /\ \A u \in Workers : worker'[u] = worker[u] \/ RunFileInv(u)'
<1>a. worker \in [Workers -> WorkerState]
  BY LogFacts
<1>1. UNCHANGED <<checkpoints, snapshotMaxId, chunks, finalFile, verification, request>>
  BY DEF ReadJob, CancelBeforeStart, ClaimJob, SetStartedAt, ReconcileJobProgress,
     IsCancelRequested, CancelMidRun, SetVerifying, FailJob, StepThrows, Checkpoint, jobVars,
     storageVars
<1>. DEFINE Plain == {"returned", "threw", "failThrow", "failReturn", "cancelCleanup",
                      "cancelWrite", "assemblyFailed"}
            Front == {"cancelEarly", "claim", "start", "load", "cancelCheck", "fetch",
                      "finalCheck"}
<1>2. \E label : /\ Advance(w, label)
                 /\ \/ label \in Plain
                    \/ label = "assemble" /\ worker[w].pc = "setVerifying"
                    \/ label \in Front /\ worker[w].pc \in BeforeAssembly
  <2>1. CASE ReadJob(w)
    BY <2>1 DEF ReadJob, BeforeAssembly, BeforeTry
  <2>2. CASE CancelBeforeStart(w) \/ ClaimJob(w) \/ SetStartedAt(w)
    BY <2>2 DEF CancelBeforeStart, ClaimJob, SetStartedAt, BeforeAssembly, BeforeTry
  <2>3. CASE ReconcileJobProgress(w) \/ IsCancelRequested(w) \/ CancelMidRun(w)
    BY <2>3 DEF ReconcileJobProgress, IsCancelRequested, CancelMidRun, LoopLabel,
       BeforeAssembly, InLoop
  <2>4. CASE SetVerifying(w) \/ FailJob(w)
    BY <2>4 DEF SetVerifying, FailJob
  <2>5. CASE StepThrows(w)
    BY <2>5 DEF StepThrows
  <2>6. CASE Checkpoint(w) /\ UniqueViolation(worker[w].batchNumber)
    BY <2>6 DEF Checkpoint
  <2>. QED
    BY <2>1, <2>2, <2>3, <2>4, <2>5, <2>6
<1>3. PICK label : /\ Advance(w, label)
                   /\ \/ label \in Plain
                      \/ label = "assemble" /\ worker[w].pc = "setVerifying"
                      \/ label \in Front /\ worker[w].pc \in BeforeAssembly
  BY <1>2
<1>4. \A u \in Workers : worker'[u] = worker[u] \/ RunFileInv(u)'
  <2>1. label \in Plain => label \notin BeforeAssembly
    BY DEF BeforeAssembly, BeforeTry, InLoop
  <2>2. "assemble" \notin BeforeAssembly
    BY DEF BeforeAssembly, BeforeTry, InLoop
  <2>. QED
    BY <1>1, <1>3, <1>a, <2>1, <2>2, AdvancedRun
<1>. QED
  BY <1>1, <1>4

(* A slot whose run is over, or begins, works on nothing.                   *)
LEMMA FreshRun ==
    ASSUME ProgressInv, FileInv, NEW w \in Workers,
           \/ worker' = [worker EXCEPT ![w] = IdleWorker]
           \/ worker[w].pc = "idle" /\ Advance(w, "read"),
           UNCHANGED <<checkpoints, finalFile>>
    PROVE  \A u \in Workers : worker'[u] = worker[u] \/ RunFileInv(u)'
<1>a. worker \in [Workers -> WorkerState]
  BY LogFacts
<1>1. CASE worker' = [worker EXCEPT ![w] = IdleWorker]
  <2>1. worker'[w] = IdleWorker /\ \A u \in Workers : u # w => worker'[u] = worker[u]
    BY <1>a, <1>1
  <2>2. RunFileInv(w)'
    BY <2>1 DEF IdleWorker, RunFileInv, ChunkIsPut, AssemblyHoldsPages, VerdictPasses
  <2>. QED
    BY <2>1, <2>2
<1>2. CASE worker[w].pc = "idle" /\ Advance(w, "read")
  BY <1>a, <1>2, AdvancedRun DEF BeforeAssembly, BeforeTry
<1>. QED
  BY <1>1, <1>2

(* Loading the log and fetching a page leave the assembly of a run alone.   *)
LEMMA LoadingRun ==
    ASSUME ProgressInv, FileInv, NEW w \in Workers, LoadResumeState(w) \/ FetchRecordBatch(w)
    PROVE  \A u \in Workers : worker'[u] = worker[u] \/ RunFileInv(u)'
<1>a. worker \in [Workers -> WorkerState] /\ UNCHANGED <<checkpoints, finalFile>>
  BY LogFacts DEF LoadResumeState, FetchRecordBatch, jobVars, storageVars
<1>b. worker[w].pc \in BeforeAssembly
  BY DEF LoadResumeState, FetchRecordBatch, BeforeAssembly, InLoop
<1>1. ASSUME NEW label \in {"failThrow", "failReturn"}, Advance(w, label)
      PROVE  \A u \in Workers : worker'[u] = worker[u] \/ RunFileInv(u)'
  BY <1>a, <1>b, <1>1, AdvancedRun DEF BeforeAssembly, BeforeTry, InLoop
<1>2. ASSUME worker' = [worker EXCEPT ![w] = worker'[w]],
             worker'[w].pc \in {"reconcile", "put"},
             worker'[w].nextChunk = worker[w].nextChunk,
             worker'[w].assembled = worker[w].assembled
      PROVE  \A u \in Workers : worker'[u] = worker[u] \/ RunFileInv(u)'
  <2>1. worker[w].nextChunk = 1 /\ worker[w].assembled = {}
    BY <1>b DEF FileInv, AssemblyHoldsPages
  <2>2. RunFileInv(w)'
    BY <1>2, <2>1 DEF RunFileInv, ChunkIsPut, AssemblyHoldsPages, VerdictPasses
  <2>3. \A u \in Workers : u # w => worker'[u] = worker[u]
    BY <1>a, <1>2
  <2>. QED
    BY <2>2, <2>3
<1>3. ASSUME NEW n, NEW id, NEW rows, ResumeAt(w, n, id, rows)
      PROVE  \A u \in Workers : worker'[u] = worker[u] \/ RunFileInv(u)'
  BY <1>a, <1>2, <1>3 DEF ResumeAt, WorkerState
<1>4. ASSUME NEW page, worker' = [worker EXCEPT ![w].pc = "put", ![w].batch = page]
      PROVE  \A u \in Workers : worker'[u] = worker[u] \/ RunFileInv(u)'
  BY <1>a, <1>2, <1>4 DEF WorkerState
<1>. QED
  BY <1>1, <1>3, <1>4 DEF LoadResumeState, FetchRecordBatch

(* The count of chunks to assemble is that of the log.                      *)
LEMMA CountingRun ==
    ASSUME ProgressInv, FileInv, NEW w \in Workers, CrossCheckLog(w)
    PROVE  \A u \in Workers : worker'[u] = worker[u] \/ RunFileInv(u)'
<1>a. /\ worker \in [Workers -> WorkerState] /\ UNCHANGED <<checkpoints, finalFile>>
      /\ worker[w].pc = "finalCheck"
  BY LogFacts DEF CrossCheckLog, jobVars, storageVars
<1>1. CASE Advance(w, "failThrow") \/ Advance(w, "failReturn")
  BY <1>a, <1>1, AdvancedRun DEF BeforeAssembly, BeforeTry, InLoop
<1>2. CASE worker' = [worker EXCEPT ![w].pc = "setVerifying",
                                    ![w].batchCount = Cardinality(checkpoints)]
  <2>1. worker[w].nextChunk = 1 /\ worker[w].assembled = {}
    BY <1>a DEF FileInv, AssemblyHoldsPages, BeforeAssembly
  <2>2. /\ worker'[w].pc = "setVerifying"
        /\ worker'[w].batchCount = Cardinality(checkpoints)
        /\ worker'[w].nextChunk = 1 /\ worker'[w].assembled = {}
        /\ \A u \in Workers : u # w => worker'[u] = worker[u]
    BY <1>a, <1>2, <2>1 DEF WorkerState
  <2>3. RunFileInv(w)'
    BY <1>a, <2>2 DEF RunFileInv, ChunkIsPut, AssemblyHoldsPages, VerdictPasses
  <2>. QED
    BY <2>2, <2>3
<1>. QED
  BY <1>1, <1>2 DEF CrossCheckLog

(* An assembly copies the page of the batch it is at.                       *)
LEMMA AssemblingRun ==
    ASSUME ProgressInv, FileInv, NEW w \in Workers, AssembleChunk(w)
    PROVE  \A u \in Workers : worker'[u] = worker[u] \/ RunFileInv(u)'
<1>a. /\ worker \in [Workers -> WorkerState] /\ UNCHANGED <<checkpoints, finalFile>>
      /\ worker[w].pc = "assemble"
  BY LogFacts DEF AssembleChunk, jobVars, storageVars
<1>. DEFINE b     == worker[w].nextChunk
            lines == worker[w].assembled \cup (chunks \ OtherChunks(b))
<1>1. CASE ~ChunkExists(b)
  <2>1. Advance(w, "assemblyFailed")
    BY <1>1 DEF AssembleChunk
  <2>. QED
    BY <1>a, <2>1, AdvancedRun DEF BeforeAssembly, BeforeTry, InLoop
<1>2. CASE ChunkExists(b)
  <2>1. worker' = [worker EXCEPT ![w].nextChunk = b + 1, ![w].assembled = lines]
    BY <1>2 DEF AssembleChunk
  <2>2. /\ worker'[w].pc = "assemble" /\ worker'[w].nextChunk = b + 1
        /\ worker'[w].assembled = lines
        /\ worker'[w].batchCount = worker[w].batchCount
        /\ \A u \in Workers : u # w => worker'[u] = worker[u]
    BY <1>a, <2>1 DEF WorkerState
  <2>3. AssemblyHoldsPages(w) /\ ChunksHoldPages /\ b \in Nat
    BY <1>a DEF FileInv, WorkerState
  <2>4. chunks \ OtherChunks(b) = LinesOf(b, chunks) /\ LinesOf(b, chunks) # {}
    BY <1>2 DEF OtherChunks, LinesOf, ChunkExists
  <2>5. ASSUME NEW c \in checkpoints, c.batchNumber < b + 1
        PROVE  PageIn(c, lines)
    <3>1. c.batchNumber \in Nat /\ \A line \in worker[w].assembled : line[1] < b
      BY <1>a, <2>3, LogFacts DEF AssemblyHoldsPages
    <3>2. CASE c.batchNumber = b
      <4>1. \A line \in worker[w].assembled : line[1] # b
        BY <1>a, <2>3, <3>1 DEF WorkerState
      <4>2. LinesOf(b, lines) = LinesOf(b, chunks)
        BY <2>4, <4>1 DEF LinesOf
      <4>3. PageIn(c, chunks)
        BY <2>3, <2>4, <3>2 DEF ChunksHoldPages
      <4>. QED
        BY <3>2, <4>2, <4>3 DEF PageIn
    <3>3. CASE c.batchNumber < b
      <4>1. LinesOf(c.batchNumber, lines) = LinesOf(c.batchNumber, worker[w].assembled)
        BY <2>3, <2>4, <3>1, <3>3 DEF LinesOf
      <4>2. PageIn(c, worker[w].assembled)
        BY <1>a, <2>3, <3>3 DEF AssemblyHoldsPages
      <4>. QED
        BY <4>1, <4>2 DEF PageIn
    <3>. QED
      BY <2>3, <2>5, <3>1, <3>2, <3>3
  <2>6. ASSUME NEW line \in lines
        PROVE  line[1] \in BatchNumbers /\ line[1] < b + 1
    <3>1. CASE line \in worker[w].assembled
      <4>1. line[1] \in BatchNumbers /\ line[1] < b
        BY <1>a, <2>3, <3>1 DEF AssemblyHoldsPages
      <4>. QED
        BY <2>3, <4>1, LogFacts DEF BatchNumbers
    <3>2. CASE line \in LinesOf(b, chunks)
      <4>1. b \in 1 .. Cardinality(checkpoints)
        <5>1. b <= Cardinality(checkpoints)
          BY <1>a, <2>3 DEF AssembleChunk, AssemblyHoldsPages
        <5>2. Cardinality(checkpoints) \in Nat
          BY BatchesCounted
        <5>3. b # 0
          BY <1>a, <2>3 DEF AssemblyHoldsPages
        <5>. QED
          BY <2>3, <5>1, <5>2, <5>3
      <4>2. b \in BatchNumbers
        BY <4>1, BatchesCounted
      <4>. QED
        BY <2>3, <3>2, <4>2 DEF LinesOf
    <3>. QED
      BY <2>4, <3>1, <3>2
  <2>7. AssemblyHoldsPages(w)'
    <3>1. "assemble" \notin BeforeAssembly
      BY DEF BeforeAssembly, BeforeTry, InLoop
    <3>2. worker'[w].batchCount = Cardinality(checkpoints)
      BY <1>a, <2>2, <2>3 DEF AssemblyHoldsPages
    <3>3. \A c \in checkpoints' :
              c.batchNumber < b + 1 => PageIn(c, worker[w].assembled)'
      <4>. HIDE DEF lines
      <4>. QED
        BY <1>a, <2>2, <2>5 DEF PageIn, InRange, LinesOf
    <3>4. b + 1 # 0
      BY <2>3
    <3>. HIDE DEF lines
    <3>. QED
      BY <1>a, <2>2, <2>6, <3>1, <3>2, <3>3, <3>4 DEF AssemblyHoldsPages, BatchNumbers
  <2>8. RunFileInv(w)'
    BY <2>2, <2>7 DEF RunFileInv, ChunkIsPut, VerdictPasses
  <2>. QED
    BY <2>2, <2>8
<1>. QED
  BY <1>1, <1>2

(* Every file a run has audited passed, so none is ever kept as rejected.   *)
LEMMA JudgingRun ==
    ASSUME ProgressInv, FileInv, NEW w \in Workers,
           VerifyExportFile(w) \/ RecordVerdict(w) \/ KeepRejectedFile(w) \/ CompleteJob(w)
    PROVE  FileInv'
<1>a. /\ worker \in [Workers -> WorkerState] /\ job \in ExportJob
      /\ AssemblyHoldsPages(w) /\ VerdictPasses(w) /\ RowFileInv
  BY LogFacts DEF FileInv, RowFileInv
<1>b. /\ UNCHANGED <<checkpoints, snapshotMaxId, chunks, finalFile, request>>
      /\ worker[w].pc \in {"verify", "recordVerdict", "keepRejected", "complete"}
  BY DEF VerifyExportFile, RecordVerdict, KeepRejectedFile, CompleteJob, jobVars, storageVars
<1>1. ASSUME worker' = [worker EXCEPT ![w] = worker'[w]],
             worker'[w].pc \in {"recordVerdict", "complete", "cleanup"},
             worker'[w].pc = "recordVerdict" => worker'[w].verdict = "passed",
             worker'[w].pc = "complete" => verification' = "passed"
      PROVE  \A u \in Workers : worker'[u] = worker[u] \/ RunFileInv(u)'
  <2>1. finalFile # {}
    BY <1>a, <1>b DEF VerdictPasses
  <2>2. RunFileInv(w)'
    BY <1>b, <1>1, <2>1 DEF RunFileInv, ChunkIsPut, AssemblyHoldsPages, VerdictPasses,
       BeforeAssembly, BeforeTry, InLoop
  <2>3. \A u \in Workers : u # w => worker'[u] = worker[u]
    BY <1>a, <1>1
  <2>. QED
    BY <2>2, <2>3
<1>2. CASE VerifyExportFile(w)
  <2>1. Passed(finalFile)
    <3>1. finalFile # {}
      BY <1>2, <1>a DEF VerifyExportFile, VerdictPasses
    <3>2. WholeFile(finalFile) /\ \A c \in checkpoints : c.lastRecordId <= snapshotMaxId
      BY <3>1 DEF FileInv
    <3>. QED
      BY <3>2, LogFacts, WholeFilePasses
  <2>2. worker' = [worker EXCEPT ![w].pc = "recordVerdict", ![w].verdict = "passed"]
    BY <1>2, <2>1 DEF VerifyExportFile, Verdict
  <2>3. /\ worker' = [worker EXCEPT ![w] = worker'[w]]
        /\ worker'[w].pc = "recordVerdict" /\ worker'[w].verdict = "passed"
    BY <1>a, <2>2 DEF WorkerState
  <2>4. UNCHANGED <<job, verification>>
    BY <1>2 DEF VerifyExportFile, jobVars
  <2>. QED
    BY <1>1, <1>b, <2>3, <2>4, QuietFile DEF KeepsFile
<1>3. CASE RecordVerdict(w)
  <2>1. worker[w].verdict = "passed"
    BY <1>3, <1>a DEF RecordVerdict, VerdictPasses
  <2>2. /\ worker' = [worker EXCEPT ![w].pc = "complete", ![w].verdict = "none"]
        /\ verification' = "passed" /\ UNCHANGED job
    BY <1>3, <2>1 DEF RecordVerdict
  <2>3. worker' = [worker EXCEPT ![w] = worker'[w]] /\ worker'[w].pc = "complete"
    BY <1>a, <2>2 DEF WorkerState
  <2>. QED
    BY <1>1, <1>b, <2>2, <2>3, QuietFile DEF KeepsFile
<1>4. ~KeepRejectedFile(w)
  BY <1>a DEF KeepRejectedFile, VerdictPasses
<1>5. CASE CompleteJob(w)
  <2>1. verification = "passed" /\ finalFile # {}
    BY <1>5, <1>a DEF CompleteJob, VerdictPasses
  <2>2. /\ worker' = [worker EXCEPT ![w].pc = "cleanup"] /\ UNCHANGED verification
        /\ job'.fileKey
    BY <1>5, <1>a DEF CompleteJob, Advance, WithStatus, ExportJob
  <2>3. worker' = [worker EXCEPT ![w] = worker'[w]] /\ worker'[w].pc = "cleanup"
    BY <1>a, <2>2 DEF WorkerState
  <2>4. RowFileInv'
    BY <1>b, <2>1, <2>2 DEF RowFileInv
  <2>. QED
    BY <1>1, <1>b, <2>2, <2>3, <2>4, QuietFile
<1>. QED
  BY <1>2, <1>3, <1>4, <1>5

-----------------------------------------------------------------------------
(* Overwriting an object: a run at "put" whose batch is logged puts the     *)
(* page of the checkpoint (PagesAgree); one whose batch is not is alone     *)
(* with its batch number, or agrees with whoever put that page.             *)
PagesAgree ==
    /\ \A v, w \in Workers :
          /\ worker[v].pc \in {"put", "checkpoint"} /\ worker[w].pc \in {"put", "checkpoint"}
          /\ worker[v].batchNumber = worker[w].batchNumber
          => worker[v].batch = worker[w].batch
    /\ \A w \in Workers, c \in checkpoints :
          /\ worker[w].pc \in {"put", "checkpoint"}
          /\ c.batchNumber = worker[w].batchNumber
          => /\ BatchLastId(w, c.lastRecordId)
             /\ c.rowsWritten = Cardinality(worker[w].batch)

LEMMA PuttingRun ==
    ASSUME ProgressInv, FileInv, PagesAgree, NEW w \in Workers, PutChunk(w)
    PROVE  FileInv'
<1>. DEFINE b    == worker[w].batchNumber
            page == {b} \X worker[w].batch
<1>a. /\ worker \in [Workers -> WorkerState] /\ worker[w] \in WorkerState
      /\ worker[w].pc = "put" /\ worker[w].pc \in InLoop /\ Advance(w, "checkpoint")
      /\ UNCHANGED <<checkpoints, snapshotMaxId, finalFile, verification, job, request>>
      /\ chunks' = OtherChunks(b) \cup page
      /\ PageIsAhead(w) /\ b \in Nat
  BY LogFacts DEF PutChunk, jobVars, InLoop, ProgressInv, LogInv, WorkerState
<1>1. LinesOf(b, chunks') = page
  BY <1>a DEF LinesOf, OtherChunks
<1>2. \A k : k # b => LinesOf(k, chunks') = LinesOf(k, chunks)
  BY <1>a DEF LinesOf, OtherChunks
<1>3. ASSUME NEW c \in checkpoints, c.batchNumber = b
      PROVE  PageIn(c, chunks')
  <2>1. BatchLastId(w, c.lastRecordId) /\ c.rowsWritten = Cardinality(worker[w].batch)
    BY <1>a, <1>3 DEF PagesAgree
  <2>2. Cardinality(page) = Cardinality(worker[w].batch)
    <3>1. IsFiniteSet(worker[w].batch)
      BY <1>a, PageCardinality DEF WorkerState
    <3>2. IsFiniteSet({b}) /\ Cardinality({b}) = 1
      BY FS_Singleton
    <3>3. Cardinality(page) = Cardinality({b}) * Cardinality(worker[w].batch)
      BY <3>1, <3>2, FS_Product
    <3>4. Cardinality(worker[w].batch) \in Nat
      BY <3>1, FS_CardinalityType
    <3>. QED
      BY <3>2, <3>3, <3>4
  <2>3. ASSUME NEW r \in worker[w].batch
        PROVE  InRange(c, r)
    <3>1. r <= c.lastRecordId
      BY <2>1 DEF BatchLastId
    <3>2. ASSUME NEW d \in checkpoints, d.batchNumber < c.batchNumber
          PROVE  d.lastRecordId < r
      <4>1. d.lastRecordId <= worker[w].lastExportedId
        BY <1>3, <1>a, <3>2, CursorIsAhead
      <4>2. worker[w].lastExportedId < r
        BY <1>a DEF PageIsAhead
      <4>3. d.lastRecordId \in Nat /\ worker[w].lastExportedId \in Nat /\ r \in Nat
        BY <1>a, LogFacts DEF WorkerState
      <4>. QED
        BY <4>1, <4>2, <4>3
    <3>. QED
      BY <3>1, <3>2 DEF InRange
  <2>. QED
    BY <1>1, <1>3, <2>1, <2>2, <2>3 DEF PageIn
<1>4. ChunksHoldPages'
  <2>1. ASSUME NEW c \in checkpoints
        PROVE  LinesOf(c.batchNumber, chunks') = {} \/ PageIn(c, chunks')
    BY <1>2, <1>3, <2>1 DEF FileInv, ChunksHoldPages, PageIn
  <2>. QED
    BY <1>a, <2>1 DEF ChunksHoldPages, PageIn, InRange, LinesOf
<1>5. ASSUME NEW u \in Workers
      PROVE  RunFileInv(u)'
  <2>1. CASE u = w
    <3>1. /\ worker'[w].pc = "checkpoint" /\ worker'[w].batchNumber = b
          /\ worker'[w].batch = worker[w].batch
          /\ worker'[w].nextChunk = worker[w].nextChunk
          /\ worker'[w].assembled = worker[w].assembled
      BY <1>a DEF Advance, WorkerState
    <3>2. ChunkIsPut(w)'
      BY <1>1, <3>1 DEF ChunkIsPut, LinesOf
    <3>3. worker[w].nextChunk = 1 /\ worker[w].assembled = {}
      BY <1>a DEF FileInv, AssemblyHoldsPages, BeforeAssembly
    <3>. QED
      BY <2>1, <3>1, <3>2, <3>3 DEF RunFileInv, AssemblyHoldsPages, VerdictPasses
  <2>2. CASE u # w
    <3>1. worker'[u] = worker[u]
      BY <1>a, <2>2 DEF Advance
    <3>2. ChunkIsPut(u)'
      <4>. SUFFICES ASSUME worker[u].pc = "checkpoint"
                    PROVE  LinesOf(worker[u].batchNumber, chunks')
                               \in {{}, {worker[u].batchNumber} \X worker[u].batch}
        BY <3>1 DEF ChunkIsPut, LinesOf
      <4>1. CASE worker[u].batchNumber = b
        BY <1>1, <1>a, <4>1 DEF PagesAgree
      <4>2. CASE worker[u].batchNumber # b
        BY <1>2, <4>2 DEF FileInv, ChunkIsPut
      <4>. QED
        BY <4>1, <4>2
    <3>3. AssemblyHoldsPages(u)' /\ VerdictPasses(u)'
      BY <1>a, <3>1 DEF FileInv, AssemblyHoldsPages, VerdictPasses, PageIn, InRange,
         LinesOf, BatchNumbers
    <3>. QED
      BY <3>2, <3>3 DEF RunFileInv
  <2>. QED
    BY <2>1, <2>2
<1>6. finalFile' = {} \/ WholeFile(finalFile)'
  BY <1>a DEF FileInv, WholeFile, PageIn, InRange, LinesOf, BatchNumbers
<1>. QED
  BY <1>4, <1>5, <1>6, <1>a DEF FileInv, RunFileInv, ReauditPasses

(* Deleting takes whole objects.                                            *)
LEMMA DeletingRun ==
    ASSUME ProgressInv, FileInv, NEW w \in Workers, DeleteChunks(w) \/ DeleteChunksThrows(w)
    PROVE  FileInv'
<1>a. /\ worker \in [Workers -> WorkerState]
      /\ UNCHANGED <<checkpoints, snapshotMaxId, finalFile, verification, job, request>>
      /\ worker[w].pc \in {"cancelCleanup", "cleanup"}
  BY LogFacts DEF DeleteChunks, DeleteChunksThrows, jobVars
<1>1. \A k : LinesOf(k, chunks') = LinesOf(k, chunks) \/ LinesOf(k, chunks') = {}
  <2>1. CASE chunks' = {}
    BY <2>1 DEF LinesOf
  <2>2. ASSUME NEW k, NEW page, chunks' = {line \in chunks : line[1] > page}
        PROVE  LinesOf(k, chunks') = LinesOf(k, chunks) \/ LinesOf(k, chunks') = {}
    BY <2>2 DEF LinesOf
  <2>. QED
    BY <2>1, <2>2 DEF DeleteChunks, DeleteChunksThrows
<1>2. \E label \in {"returned", "failThrow"} : Advance(w, label)
  BY DEF DeleteChunks, DeleteChunksThrows
<1>3. \A u \in Workers : worker'[u] = worker[u] \/ RunFileInv(u)'
  BY <1>2, <1>a, AdvancedRun DEF BeforeAssembly, BeforeTry, InLoop
<1>4. ChunksHoldPages'
  <2>1. \A c \in checkpoints : LinesOf(c.batchNumber, chunks') = {} \/ PageIn(c, chunks')
    BY <1>1 DEF FileInv, ChunksHoldPages, PageIn
  <2>. QED
    BY <1>a, <2>1 DEF ChunksHoldPages, PageIn, InRange, LinesOf
<1>5. ASSUME NEW u \in Workers
      PROVE  RunFileInv(u)'
  <2>1. CASE worker'[u] = worker[u]
    <3>1. ChunkIsPut(u)'
      <4>1. worker[u].pc = "checkpoint" =>
                LinesOf(worker[u].batchNumber, chunks')
                    \in {{}, {worker[u].batchNumber} \X worker[u].batch}
        BY <1>1 DEF FileInv, ChunkIsPut
      <4>. QED
        BY <2>1, <4>1 DEF ChunkIsPut, LinesOf
    <3>2. AssemblyHoldsPages(u)' /\ VerdictPasses(u)'
      BY <1>a, <2>1 DEF FileInv, AssemblyHoldsPages, VerdictPasses, PageIn, InRange,
         LinesOf, BatchNumbers
    <3>. QED
      BY <3>1, <3>2 DEF RunFileInv
  <2>. QED
    BY <1>3, <2>1
<1>6. finalFile' = {} \/ WholeFile(finalFile)'
  BY <1>a DEF FileInv, WholeFile, PageIn, InRange, LinesOf, BatchNumbers
<1>. QED
  BY <1>4, <1>5, <1>6, <1>a DEF FileInv, RunFileInv, ReauditPasses

(* The upload publishes a whole file.                                       *)
LEMMA UploadingRun ==
    ASSUME ProgressInv, FileInv, NEW w \in Workers, UploadFinalCsv(w)
    PROVE  FileInv'
<1>a. /\ worker \in [Workers -> WorkerState] /\ worker[w] \in WorkerState
      /\ UNCHANGED <<checkpoints, snapshotMaxId, chunks, verification, job, request>>
      /\ worker[w].pc = "assemble" /\ worker[w].nextChunk > worker[w].batchCount
      /\ finalFile' = worker[w].assembled
      /\ AssemblyHoldsPages(w)
  BY LogFacts DEF UploadFinalCsv, jobVars, FileInv
<1>1. WholeFile(worker[w].assembled)
  <2>1. RowsWritten(checkpoints) = RequestedRowLimit
    BY <1>a DEF ProgressInv, FullBeyondLoop, Finishing
  <2>2. ASSUME NEW c \in checkpoints
        PROVE  PageIn(c, worker[w].assembled)
    <3>1. c.batchNumber \in 1 .. Cardinality(checkpoints) /\ Cardinality(checkpoints) \in Nat
      BY BatchesCounted DEF BatchNumbers
    <3>2. c.batchNumber < worker[w].nextChunk
      BY <1>a, <3>1 DEF AssemblyHoldsPages, WorkerState
    <3>. QED
      BY <1>a, <3>2 DEF AssemblyHoldsPages
  <2>. QED
    BY <1>a, <2>1, <2>2 DEF AssemblyHoldsPages, WholeFile
<1>2. finalFile' # {}
  <2>1. \A c \in checkpoints : c.lastRecordId <= snapshotMaxId
    BY DEF FileInv
  <2>2. worker[w].assembled \in SUBSET (Nat \X Nat)
    BY <1>a DEF WorkerState
  <2>. QED
    BY <1>1, <1>a, <2>1, <2>2, WholeFilePasses
<1>3. WholeFile(finalFile)'
  BY <1>1, <1>a DEF WholeFile, PageIn, InRange, LinesOf, BatchNumbers
<1>4. ChunksHoldPages'
  BY <1>a DEF FileInv, ChunksHoldPages, PageIn, InRange, LinesOf
<1>5. ASSUME NEW u \in Workers
      PROVE  RunFileInv(u)'
  <2>1. CASE u = w
    <3>1. worker'[w].pc = "verify"
      BY <1>a DEF UploadFinalCsv, WorkerState
    <3>. QED
      BY <1>2, <2>1, <3>1 DEF RunFileInv, ChunkIsPut, AssemblyHoldsPages, VerdictPasses,
         BeforeAssembly, BeforeTry, InLoop
  <2>2. CASE u # w
    <3>1. worker'[u] = worker[u]
      BY <1>a, <2>2 DEF UploadFinalCsv
    <3>2. ChunkIsPut(u)' /\ VerdictPasses(u)'
      BY <1>2, <1>a, <3>1 DEF FileInv, ChunkIsPut, VerdictPasses, LinesOf
    <3>3. AssemblyHoldsPages(u)'
      BY <1>a, <3>1 DEF FileInv, AssemblyHoldsPages, PageIn, InRange, LinesOf, BatchNumbers
    <3>. QED
      BY <3>2, <3>3 DEF RunFileInv
  <2>. QED
    BY <2>1, <2>2
<1>. QED
  BY <1>2, <1>3, <1>4, <1>5, <1>a DEF FileInv, RunFileInv, ReauditPasses

(* An accepted checkpoint logs the page its run has put, while no run is    *)
(* past the loop and there is no file.                                      *)
LEMMA AppendingRun ==
    ASSUME ProgressInv, FileInv, NEW w \in Workers, Checkpoint(w),
           ~UniqueViolation(worker[w].batchNumber)
    PROVE  FileInv'
<1>a. /\ worker \in [Workers -> WorkerState] /\ worker[w] \in WorkerState
      /\ UNCHANGED <<snapshotMaxId, chunks, finalFile, verification, request>>
      /\ worker[w].pc = "checkpoint"
      /\ worker[w].batchNumber \in Nat
  BY LogFacts DEF Checkpoint, storageVars, WorkerState
<1>1. PICK id \in worker[w].batch :
        /\ checkpoints' = checkpoints \cup {NewCheckpoint(w, id)}
        /\ BatchLastId(w, id)
        /\ id <= snapshotMaxId
        /\ \A r \in worker[w].batch :
              /\ r <= id
              /\ \A d \in checkpoints : d.lastRecordId < r
  BY AppendedPage
<1>c. PICK new : new = NewCheckpoint(w, id)
  OBVIOUS
<1>b. /\ new.batchNumber = worker[w].batchNumber
      /\ new.lastRecordId = id
      /\ new.rowsWritten = Cardinality(worker[w].batch)
      /\ checkpoints' = checkpoints \cup {new}
  BY <1>1, <1>c DEF NewCheckpoint
<1>2. /\ RowsWritten(checkpoints) # RequestedRowLimit
      /\ \A d \in checkpoints : d.batchNumber \in Nat /\ d.batchNumber < worker[w].batchNumber
  <2>1. RowsWritten(checkpoints) < RequestedRowLimit
    BY AppendedPage
  <2>2. RowsWritten(checkpoints) \in Nat /\ RequestedRowLimit \in Nat
    BY LogFacts, RowsWrittenType
  <2>. QED
    BY <2>1, <2>2, AppendedPage, LogFacts
<1>3. /\ \A u \in Workers : worker[u].pc \notin Finishing
      /\ finalFile = {}
  BY <1>2 DEF ProgressInv, FullBeyondLoop, FileInv, WholeFile
<1>4. ASSUME NEW c \in checkpoints, NEW r, InRange(c, r)
      PROVE  InRange(c, r)'
  <2>1. \A d \in checkpoints' : d.batchNumber < c.batchNumber => d \in checkpoints
    BY <1>2, <1>a, <1>b
  <2>. QED
    BY <1>4, <2>1 DEF InRange
<1>5. \A r \in worker[w].batch : InRange(new, r)'
  <2>1. \A d \in checkpoints' : d.batchNumber < new.batchNumber => d \in checkpoints
    BY <1>a, <1>b
  <2>. QED
    BY <1>1, <1>b, <2>1 DEF InRange
<1>6. ChunksHoldPages'
  <2>1. ASSUME NEW c \in checkpoints
        PROVE  LinesOf(c.batchNumber, chunks') = {} \/ PageIn(c, chunks)'
    BY <1>4, <1>a DEF FileInv, ChunksHoldPages, PageIn, LinesOf
  <2>2. LinesOf(new.batchNumber, chunks') = {} \/ PageIn(new, chunks)'
    <3>1. CASE LinesOf(worker[w].batchNumber, chunks) = {worker[w].batchNumber} \X worker[w].batch
      <4>1. Cardinality({worker[w].batchNumber} \X worker[w].batch) = Cardinality(worker[w].batch)
        <5>1. IsFiniteSet(worker[w].batch)
          BY <1>a, PageCardinality DEF WorkerState
        <5>2. /\ IsFiniteSet({worker[w].batchNumber})
              /\ Cardinality({worker[w].batchNumber}) = 1
          BY FS_Singleton
        <5>3. Cardinality({worker[w].batchNumber} \X worker[w].batch)
                = Cardinality({worker[w].batchNumber}) * Cardinality(worker[w].batch)
          BY <5>1, <5>2, FS_Product
        <5>4. Cardinality(worker[w].batch) \in Nat
          BY <5>1, FS_CardinalityType
        <5>. QED
          BY <5>2, <5>3, <5>4
      <4>2. LinesOf(new.batchNumber, chunks') = {worker[w].batchNumber} \X worker[w].batch
        BY <1>a, <1>b, <3>1
      <4>. QED
        BY <1>5, <1>b, <4>1, <4>2 DEF PageIn, LinesOf
    <3>2. CASE LinesOf(worker[w].batchNumber, chunks) = {}
      BY <1>a, <1>b, <3>2
    <3>. QED
      BY <1>a, <3>1, <3>2 DEF FileInv, ChunkIsPut
  <2>. QED
    BY <2>1, <2>2, <1>b DEF ChunksHoldPages, LinesOf
<1>7. ASSUME NEW u \in Workers
      PROVE  RunFileInv(u)'
  <2>1. CASE u = w
    <3>1. /\ worker'[w].pc \in {"cancelCheck", "finalCheck", "failReturn"}
          /\ worker'[w].nextChunk = worker[w].nextChunk
          /\ worker'[w].assembled = worker[w].assembled
      BY AppendedPage
    <3>2. worker[w].nextChunk = 1 /\ worker[w].assembled = {}
      BY <1>a DEF FileInv, AssemblyHoldsPages, BeforeAssembly, InLoop
    <3>. QED
      BY <2>1, <3>1, <3>2 DEF RunFileInv, ChunkIsPut, AssemblyHoldsPages, VerdictPasses
  <2>2. CASE u # w
    <3>1. worker'[u] = worker[u]
      BY <1>a, <2>2, AppendedPage
    <3>2. worker[u].pc \notin Finishing
      BY <1>3
    <3>. QED
      BY <1>3, <1>a, <3>1, <3>2 DEF FileInv, RunFileInv, ChunkIsPut, AssemblyHoldsPages,
         VerdictPasses, Finishing, LinesOf
  <2>. QED
    BY <2>1, <2>2
<1>8. \A c \in checkpoints' : c.lastRecordId <= snapshotMaxId'
  BY <1>1, <1>a, <1>b DEF FileInv
<1>9. job'.fileKey = job.fileKey /\ job'.status = job.status
  BY <1>a, LogFacts DEF Checkpoint, ExportJob
<1>. QED
  BY <1>3, <1>6, <1>7, <1>8, <1>9, <1>a DEF FileInv, RunFileInv, ReauditPasses

-----------------------------------------------------------------------------
LEMMA RunStepFile ==
    ASSUME ProgressInv, FileInv, PagesAgree, NEW w \in Workers, RunStep(w) \/ RunFault(w)
    PROVE  FileInv'
<1>a. LogInv
  BY DEF ProgressInv
<1>1. ASSUME ~CompleteJob(w), ~KeepRejectedFile(w),
             UNCHANGED <<checkpoints, snapshotMaxId, chunks, finalFile, verification, request>>,
             \A u \in Workers : worker'[u] = worker[u] \/ RunFileInv(u)'
      PROVE  FileInv'
  <2>1. KeepsFile
    BY <1>1, <1>a, RunKeepsFile
  <2>. QED
    BY <1>1, <2>1, QuietFile
<1>2. CASE VerifyExportFile(w) \/ RecordVerdict(w) \/ KeepRejectedFile(w) \/ CompleteJob(w)
  BY <1>2, JudgingRun
<1>3. CASE \/ ReadJob(w) \/ CancelBeforeStart(w) \/ ClaimJob(w) \/ SetStartedAt(w)
           \/ ReconcileJobProgress(w) \/ IsCancelRequested(w) \/ CancelMidRun(w)
           \/ SetVerifying(w) \/ FailJob(w) \/ StepThrows(w)
           \/ Checkpoint(w) /\ UniqueViolation(worker[w].batchNumber)
  BY <1>1, <1>2, <1>3, MovingRun
<1>4. CASE LoadResumeState(w) \/ FetchRecordBatch(w)
  <2>1. UNCHANGED <<checkpoints, snapshotMaxId, chunks, finalFile, verification, request>>
    BY <1>4 DEF LoadResumeState, FetchRecordBatch, jobVars, storageVars
  <2>. QED
    BY <1>1, <1>2, <1>4, <2>1, LoadingRun
<1>5. CASE CrossCheckLog(w)
  <2>1. UNCHANGED <<checkpoints, snapshotMaxId, chunks, finalFile, verification, request>>
    BY <1>5 DEF CrossCheckLog, jobVars, storageVars
  <2>. QED
    BY <1>1, <1>2, <1>5, <2>1, CountingRun
<1>6. CASE AssembleChunk(w)
  <2>1. UNCHANGED <<checkpoints, snapshotMaxId, chunks, finalFile, verification, request>>
    BY <1>6 DEF AssembleChunk, jobVars, storageVars
  <2>. QED
    BY <1>1, <1>2, <1>6, <2>1, AssemblingRun
<1>7. CASE AssemblyFails(w) \/ Crash(w)
  <2>1. UNCHANGED <<checkpoints, snapshotMaxId, chunks, finalFile, verification, request>>
    BY <1>7 DEF AssemblyFails, Crash, jobVars, storageVars
  <2>2. worker' = [worker EXCEPT ![w] = IdleWorker] \/ Advance(w, "failThrow")
    BY <1>7 DEF AssemblyFails, Crash
  <2>3. \A u \in Workers : worker'[u] = worker[u] \/ RunFileInv(u)'
    <3>1. CASE worker' = [worker EXCEPT ![w] = IdleWorker]
      BY <2>1, <3>1, FreshRun
    <3>2. CASE Advance(w, "failThrow")
      BY <2>1, <3>2, LogFacts, AdvancedRun DEF BeforeAssembly, BeforeTry, InLoop
    <3>. QED
      BY <2>2, <3>1, <3>2
  <2>. QED
    BY <1>1, <1>2, <2>1, <2>3
<1>8. CASE PutChunk(w)
  BY <1>8, PuttingRun
<1>9. CASE DeleteChunks(w) \/ DeleteChunksThrows(w)
  BY <1>9, DeletingRun
<1>10. CASE Checkpoint(w) /\ ~UniqueViolation(worker[w].batchNumber)
  BY <1>10, AppendingRun
<1>11. CASE UploadFinalCsv(w)
  BY <1>11, UploadingRun
<1>. QED
  BY <1>2, <1>3, <1>4, <1>5, <1>6, <1>7, <1>8, <1>9, <1>10, <1>11 DEF RunStep, RunFault

(* Nobody else completes a job or stores the key of a file.                 *)
LEMMA OtherKeepsFile ==
    ASSUME LogInv, OtherStep
    PROVE  KeepsFile
<1>a. job \in ExportJob
  BY DEF LogInv, TypeOK
<1>1. CASE UNCHANGED job
  BY <1>1 DEF KeepsFile
<1>2. CASE CreateExportJob
  BY <1>2 DEF CreateExportJob, NoJob, KeepsFile
<1>3. CASE MarkQueued \/ ListStalled \/ MarkInterrupted \/ HeartbeatExpires
  BY <1>a, <1>3 DEF MarkQueued, ListStalled, MarkInterrupted, HeartbeatExpires, WithStatus,
     ExportJob, KeepsFile
<1>4. ASSUME NEW h \in Handlers, MarkResuming(h) \/ CancelWrite(h)
      PROVE  KeepsFile
  BY <1>a, <1>4 DEF MarkResuming, CancelWrite, WithStatus, ExportJob, KeepsFile
<1>5. ASSUME NEW h \in Handlers, CaptureSnapshotMaxId \/ VerifyScan(h) \/ VerifyRecord(h)
                                 \/ EnqueueStep(h) \/ RequestAborts(h)
      PROVE  UNCHANGED job
  BY <1>5 DEF CaptureSnapshotMaxId, VerifyScan, VerifyRecord, EnqueueStep, InspectEntry,
     RemoveEntry, AddEntry, RequestAborts, jobVars
<1>6. CASE \/ \E r \in Requests : RequestArrives(r)
           \/ QueueStep \/ QueueFault \/ SweepAborts \/ RecordTraffic \/ UNCHANGED vars
  <2>1. UNCHANGED job
    BY <1>6 DEF RequestArrives, ResumeRead, CancelRead, VerifyRead, QueueStep, PickUp,
       ProcessorReturns, ProcessorThrows, BackoffElapses, ReclaimFromDead, QueueFault,
       ReclaimFromLive, RedisRestarts, SweepAborts, RecordTraffic, InsertRecord, BeginInsert,
       CommitInsert, DeleteRecord, vars, jobVars
  <2>. QED
    BY <1>1, <2>1
<1>. QED
  BY <1>1, <1>2, <1>3, <1>4, <1>5, <1>6 DEF OtherStep, HandlerStep, CreateStep, SweepStep,
     Handlers

(* A request that audits the file again finds it whole.                     *)
LEMMA RequestStepFile ==
    ASSUME ProgressInv, FileInv,
           \/ \E h \in Handlers : HandlerStep(h) \/ RequestAborts(h)
           \/ \E r \in Requests : RequestArrives(r)
    PROVE  FileInv'
<1>a. /\ request \in [Handlers -> RequestState] /\ Requests \subseteq Handlers
      /\ Creator \in Handlers
      /\ LogInv
  BY LogFacts DEF Handlers, ProgressInv
<1>b. KeepsFile
  BY <1>a, OtherKeepsFile DEF OtherStep
<1>c. UNCHANGED <<worker, checkpoints, chunks, finalFile>>
  BY DEF HandlerStep, CreateStep, CaptureSnapshotMaxId, CreateExportJob, MarkQueued,
     MarkResuming, CancelWrite, VerifyScan, VerifyRecord, EnqueueStep, InspectEntry,
     RemoveEntry, AddEntry, RequestAborts, RequestArrives, ResumeRead, CancelRead, VerifyRead,
     jobVars, storageVars
<1>1. ASSUME UNCHANGED verification, checkpoints = {} \/ UNCHANGED snapshotMaxId,
             NEW h \in Handlers, NEW label, label \notin {"scan", "record"},
             \/ Goto(h, label)
             \/ \E op : Begin(h, op, label)
      PROVE  FileInv'
  <2>1. \A g \in Handlers : request'[g] = request[g] \/ ReauditPasses(g)'
    BY <1>a, <1>1 DEF Goto, Begin, ReauditPasses, RequestState
  <2>. QED
    BY <1>1, <1>b, <1>c, <2>1, QuietFile
<1>2. CASE CaptureSnapshotMaxId
  <2>1. checkpoints = {}
    BY <1>2 DEF CaptureSnapshotMaxId, ProgressInv, NothingBeforeBoundary, NotBegun
  <2>. QED
    BY <1>1, <1>2, <1>a, <2>1 DEF CaptureSnapshotMaxId
<1>3. CASE CreateExportJob \/ MarkQueued
  BY <1>1, <1>3, <1>a DEF CreateExportJob, MarkQueued
<1>4. ASSUME NEW r \in Requests, MarkResuming(r) \/ CancelWrite(r)
      PROVE  FileInv'
  BY <1>1, <1>4, <1>a DEF MarkResuming, CancelWrite
<1>5. ASSUME NEW r \in Requests, ResumeRead(r) \/ CancelRead(r)
      PROVE  FileInv'
  BY <1>1, <1>5, <1>a DEF ResumeRead, CancelRead, jobVars
<1>6. ASSUME NEW h \in Handlers, EnqueueStep(h) \/ RequestAborts(h)
      PROVE  FileInv'
  <2>1. \E label \in {"remove", "add", "done", "markQueued"} : Goto(h, label)
    BY <1>6 DEF EnqueueStep, InspectEntry, AfterInspect, AfterEnqueue, RemoveEntry, AddEntry,
       RequestAborts
  <2>2. UNCHANGED <<verification, snapshotMaxId>>
    BY <1>6 DEF EnqueueStep, InspectEntry, RemoveEntry, AddEntry, RequestAborts, jobVars
  <2>. QED
    BY <1>1, <2>1, <2>2
<1>7. ASSUME NEW r \in Requests, VerifyRead(r) \/ VerifyScan(r)
      PROVE  FileInv'
  <2>1. UNCHANGED <<verification, snapshotMaxId>>
    BY <1>7 DEF VerifyRead, VerifyScan, jobVars
  <2>2. finalFile # {}
    BY <1>7, <1>a DEF VerifyRead, VerifyScan, FileInv, ReauditPasses
  <2>3. ReauditPasses(r)'
    <3>1. CASE VerifyRead(r)
      BY <1>a, <1>c, <2>2, <3>1 DEF VerifyRead, Begin, ReauditPasses, RequestState
    <3>2. CASE VerifyScan(r)
      <4>1. Passed(finalFile)
        <5>1. WholeFile(finalFile) /\ \A c \in checkpoints : c.lastRecordId <= snapshotMaxId
          BY <2>2 DEF FileInv
        <5>. QED
          BY <5>1, LogFacts, WholeFilePasses
      <4>. QED
        BY <1>a, <3>2, <4>1 DEF VerifyScan, Verdict, ReauditPasses, RequestState
    <3>. QED
      BY <1>7, <3>1, <3>2
  <2>4. \A g \in Handlers : g # r => request'[g] = request[g]
    BY <1>a, <1>7 DEF VerifyRead, VerifyScan, Begin
  <2>. QED
    BY <1>b, <1>c, <2>1, <2>3, <2>4, QuietFile
<1>8. ASSUME NEW r \in Requests, VerifyRecord(r)
      PROVE  FileInv'
  <2>1. verification' = "passed" /\ UNCHANGED snapshotMaxId
    BY <1>8, <1>a DEF VerifyRecord, FileInv, ReauditPasses
  <2>2. \A g \in Handlers : request'[g] = request[g] \/ ReauditPasses(g)'
    BY <1>8, <1>a DEF VerifyRecord, Goto, ReauditPasses, RequestState
  <2>. QED
    BY <1>b, <1>c, <2>1, <2>2, QuietFile
<1>. QED
  BY <1>2, <1>3, <1>4, <1>5, <1>6, <1>7, <1>8 DEF HandlerStep, CreateStep, RequestArrives

LEMMA OtherStepFile ==
    ASSUME ProgressInv, FileInv, OtherStep
    PROVE  FileInv'
<1>a. KeepsFile
  BY OtherKeepsFile DEF ProgressInv
<1>1. CASE \/ \E h \in Handlers : HandlerStep(h) \/ RequestAborts(h)
           \/ \E r \in Requests : RequestArrives(r)
  BY <1>1, RequestStepFile
<1>2. ASSUME NEW w \in Workers, PickUp(w) \/ ProcessorReturns(w) \/ ProcessorThrows(w)
      PROVE  FileInv'
  <2>1. UNCHANGED <<checkpoints, snapshotMaxId, chunks, finalFile, verification, request>>
    BY <1>2 DEF PickUp, ProcessorReturns, ProcessorThrows, jobVars, storageVars
  <2>2. \/ worker' = [worker EXCEPT ![w] = IdleWorker]
        \/ worker[w].pc = "idle" /\ Advance(w, "read")
    BY <1>2 DEF PickUp, ProcessorReturns, ProcessorThrows, Advance
  <2>3. \A u \in Workers : worker'[u] = worker[u] \/ RunFileInv(u)'
    BY <2>1, <2>2, FreshRun
  <2>. QED
    BY <1>a, <2>1, <2>3, QuietFile
<1>3. CASE \/ BackoffElapses \/ ReclaimFromDead \/ QueueFault
           \/ SweepStep \/ SweepAborts
           \/ HeartbeatExpires
           \/ RecordTraffic
           \/ UNCHANGED vars
  <2>1. /\ UNCHANGED <<checkpoints, snapshotMaxId, chunks, finalFile, verification>>
        /\ UNCHANGED <<worker, request>>
    BY <1>3 DEF BackoffElapses, ReclaimFromDead, QueueFault, ReclaimFromLive, RedisRestarts,
       SweepStep, ListStalled, MarkInterrupted, SweepAborts, HeartbeatExpires, RecordTraffic,
       InsertRecord, BeginInsert, CommitInsert, DeleteRecord, vars, jobVars, storageVars
  <2>. QED
    BY <1>a, <2>1, QuietFile
<1>. QED
  BY <1>1, <1>2, <1>3 DEF OtherStep, QueueStep

(* As long as runs that write the same batch write the same page, every     *)
(* step keeps the file invariant.                                           *)
LEMMA NextFileInv == ProgressInv /\ FileInv /\ PagesAgree /\ [Next]_vars => FileInv'
BY RunStepFile, OtherStepFile DEF Next, OtherStep

LEMMA InitFileInv == Init => FileInv
<1>. SUFFICES ASSUME Init PROVE FileInv
  OBVIOUS
<1>1. checkpoints = {} /\ finalFile = {} /\ ~job.fileKey /\ job.status = "ABSENT"
  BY DEF Init, NoJob
<1>2. \A w \in Workers : worker[w] = IdleWorker
  BY DEF Init
<1>3. \A w \in Workers : ChunkIsPut(w) /\ AssemblyHoldsPages(w) /\ VerdictPasses(w)
  BY <1>2 DEF IdleWorker, ChunkIsPut, AssemblyHoldsPages, VerdictPasses
<1>4. \A h \in Handlers : ReauditPasses(h)
  BY DEF Init, ReauditPasses
<1>. QED
  BY <1>1, <1>3, <1>4 DEF FileInv, ChunksHoldPages

-----------------------------------------------------------------------------
(* While the locks hold, the one run there may be works behind the newest   *)
(* batch, and agrees with itself.                                           *)
RunAtEnd ==
    \A w \in Workers : worker[w].pc \in InLoop =>
        \A c \in checkpoints : c.batchNumber < worker[w].batchNumber

LEMMA AloneAgrees ==
    ASSUME ProgressInv, RunHoldsEntry, RunAtEnd
    PROVE  PagesAgree
<1>1. ASSUME NEW v \in Workers, NEW w \in Workers,
             worker[v].pc \in {"put", "checkpoint"}, worker[w].pc \in {"put", "checkpoint"}
      PROVE  v = w
  BY <1>1 DEF RunHoldsEntry
<1>2. ASSUME NEW w \in Workers, NEW c \in checkpoints, worker[w].pc \in {"put", "checkpoint"}
      PROVE  c.batchNumber # worker[w].batchNumber
  <2>1. c.batchNumber < worker[w].batchNumber /\ c.batchNumber \in Nat
    BY <1>2, LogFacts DEF RunAtEnd, InLoop
  <2>. QED
    BY <2>1
<1>. QED
  BY <1>1, <1>2 DEF PagesAgree

(* Only BullMQ moves a worker from outside, into the processor or out of it. *)
LEMMA OtherKeepsWorkers ==
    ASSUME OtherStep
    PROVE  \/ worker' = worker
           \/ \E w \in Workers : PickUp(w) \/ ProcessorReturns(w) \/ ProcessorThrows(w)
BY DEF OtherStep, HandlerStep, CreateStep, CaptureSnapshotMaxId, CreateExportJob, MarkQueued,
   MarkResuming, CancelWrite, VerifyScan, VerifyRecord, EnqueueStep, InspectEntry, RemoveEntry,
   AddEntry, RequestAborts, RequestArrives, ResumeRead, CancelRead, VerifyRead, QueueStep,
   BackoffElapses, ReclaimFromDead, QueueFault, ReclaimFromLive, RedisRestarts, SweepStep,
   ListStalled, MarkInterrupted, SweepAborts, HeartbeatExpires, RecordTraffic, InsertRecord,
   BeginInsert, CommitInsert, DeleteRecord, vars

(* Loading puts a run behind the newest batch, and it stays there.          *)
LEMMA NextRunAtEnd ==
    ASSUME ProgressInv, RunHoldsEntry, RunAtEnd, [Next]_vars
    PROVE  RunAtEnd'
<1>a. /\ LogInv /\ worker \in [Workers -> WorkerState]
      /\ \A c \in checkpoints : c.batchNumber \in Nat
      /\ \A u \in Workers : RunInv(u)
  BY LogFacts, RunInvParts DEF ProgressInv
<1>1. ASSUME UNCHANGED checkpoints,
             \A u \in Workers : worker'[u].pc \in InLoop =>
                 worker[u].pc \in InLoop /\ worker'[u].batchNumber = worker[u].batchNumber
      PROVE  RunAtEnd'
  BY <1>1 DEF RunAtEnd
<1>2. ASSUME NEW w \in Workers, Checkpoint(w), ~UniqueViolation(worker[w].batchNumber)
      PROVE  RunAtEnd'
  <2>1. \A u \in Workers : u # w => worker[u].pc = "idle" /\ worker'[u] = worker[u]
    <3>1. worker[w].pc = "checkpoint" /\ worker' = [worker EXCEPT ![w] = worker'[w]]
      BY <1>2, AppendedPage DEF Checkpoint
    <3>2. \A u \in Workers : u # w => worker[u].pc = "idle"
      BY <3>1 DEF RunHoldsEntry
    <3>3. \A u \in Workers : u # w => worker'[u] = worker[u]
      BY <1>a, <3>1
    <3>. QED
      BY <3>2, <3>3
  <2>2. worker'[w].batchNumber = worker[w].batchNumber + 1 /\ worker[w].batchNumber \in Nat
    BY <1>2, <1>a, AppendedPage DEF WorkerState
  <2>3. \A c \in checkpoints' : c.batchNumber <= worker[w].batchNumber
    BY <1>2, <1>a, <2>2, AppendedPage DEF NewCheckpoint
  <2>4. \A c \in checkpoints' : c.batchNumber \in Nat
    BY <1>2, <1>a, <2>2, AppendedPage DEF NewCheckpoint
  <2>5. \A c \in checkpoints' : c.batchNumber < worker'[w].batchNumber
    BY <2>2, <2>3, <2>4
  <2>6. \A u \in Workers : u # w => worker'[u].pc \notin InLoop
    BY <2>1 DEF InLoop
  <2>. QED
    BY <2>5, <2>6 DEF RunAtEnd
<1>3. ASSUME NEW w \in Workers, Checkpoint(w), UniqueViolation(worker[w].batchNumber)
      PROVE  RunAtEnd'
  BY <1>1, <1>3, <1>a, RefusedCheckpoint DEF KeepsRun
<1>4. ASSUME NEW w \in Workers, LoadResumeState(w)
      PROVE  RunAtEnd'
  <2>1. UNCHANGED checkpoints
    BY <1>4 DEF LoadResumeState, jobVars
  <2>2. \A u \in Workers : u # w => worker'[u] = worker[u]
    BY <1>4, <1>a DEF LoadResumeState, ResumeAt, Advance
  <2>3. worker'[w].pc \in InLoop =>
            \A c \in checkpoints : c.batchNumber < worker'[w].batchNumber
    <3>1. CASE checkpoints = {}
      BY <3>1
    <3>2. CASE Advance(w, "failThrow")
      BY <1>a, <3>2 DEF Advance, InLoop, WorkerState
    <3>3. ASSUME NEW last \in checkpoints, IsLast(last, checkpoints),
                 ResumeAt(w, last.batchNumber + 1, last.lastRecordId, RowsWritten(checkpoints))
          PROVE  \A c \in checkpoints : c.batchNumber < worker'[w].batchNumber
      BY <1>a, <3>3 DEF ResumeAt, IsLast, WorkerState
    <3>. QED
      BY <1>4, <3>1, <3>2, <3>3 DEF LoadResumeState
  <2>. QED
    BY <2>1, <2>2, <2>3 DEF RunAtEnd
<1>5. ASSUME NEW w \in Workers, FetchRecordBatch(w) \/ CrossCheckLog(w)
      PROVE  RunAtEnd'
  <2>1. UNCHANGED checkpoints
    BY <1>5 DEF FetchRecordBatch, CrossCheckLog, jobVars
  <2>2. /\ \A u \in Workers : u # w => worker'[u] = worker[u]
        /\ worker'[w].batchNumber = worker[w].batchNumber
        /\ worker'[w].pc \in InLoop => worker[w].pc \in InLoop
    BY <1>5, <1>a DEF FetchRecordBatch, CrossCheckLog, Advance, InLoop, WorkerState
  <2>. QED
    BY <1>1, <2>1, <2>2
<1>6. ASSUME NEW w \in Workers, RunStep(w) \/ RunFault(w),
             ~Checkpoint(w), ~LoadResumeState(w), ~FetchRecordBatch(w), ~CrossCheckLog(w)
      PROVE  RunAtEnd'
  BY <1>1, <1>6, <1>a, QuietRun DEF KeepsRun
<1>7. CASE OtherStep
  <2>1. UNCHANGED checkpoints
    BY <1>7, <1>a, OtherStepKeepsRuns DEF ProgressInv
  <2>2. \A u \in Workers : worker'[u] = worker[u] \/ worker'[u].pc \in {"idle", "read"}
    <3>1. CASE worker' = worker
      BY <3>1
    <3>2. ASSUME NEW w \in Workers, PickUp(w) \/ ProcessorReturns(w) \/ ProcessorThrows(w)
          PROVE  \A u \in Workers : worker'[u] = worker[u] \/ worker'[u].pc \in {"idle", "read"}
      BY <1>a, <3>2 DEF PickUp, ProcessorReturns, ProcessorThrows, IdleWorker, WorkerState
    <3>. QED
      BY <1>7, <3>1, <3>2, OtherKeepsWorkers
  <2>. QED
    BY <1>1, <2>1, <2>2 DEF InLoop
<1>. QED
  BY <1>2, <1>3, <1>4, <1>5, <1>6, <1>7 DEF Next, OtherStep

(* With BullMQ's locks and its entry intact, the file invariant holds,      *)
(* whatever crashes, retries, cancels, resumes, inserts and deletes happen. *)
THEOREM FileInvariant ==
    ASSUME FaultBudget["lockLoss"] = 0, FaultBudget["redisRestart"] = 0
    PROVE  Spec => [](FileInv /\ PagesAgree)
<1>. DEFINE Alone == RunHoldsEntry /\ RunAtEnd /\ FileInv
<1>1. Init => Alone
  BY InitFileInv DEF Init, RunHoldsEntry, RunAtEnd, IdleWorker
<1>2. ProgressInv /\ Alone /\ [Next]_vars => Alone'
  <2>. SUFFICES ASSUME ProgressInv, Alone, [Next]_vars
                PROVE  Alone'
    OBVIOUS
  <2>1. RunHoldsEntry'
    BY NextRunHoldsEntry DEF ProgressInv
  <2>2. RunAtEnd'
    BY NextRunAtEnd
  <2>3. FileInv'
    BY AloneAgrees, NextFileInv
  <2>. QED
    BY <2>1, <2>2, <2>3
<1>3. ProgressInv /\ Alone => FileInv /\ PagesAgree
  BY AloneAgrees
<1>. HIDE DEF Alone
<1>. QED
  BY <1>1, <1>2, <1>3, ProgressInvariant, PTL DEF Spec

(* A completed file that FileInv describes passes the audit.                *)
LEMMA CompletedIsVerified == ProgressInv /\ FileInv => CompletedMeansVerified
<1>. SUFFICES ASSUME ProgressInv, FileInv, job.status = "COMPLETED"
              PROVE  Passed(finalFile) /\ DownloadAllowed
  BY DEF CompletedMeansVerified
<1>1. finalFile # {} /\ job.fileKey /\ verification = "passed"
  BY DEF FileInv
<1>2. WholeFile(finalFile) /\ \A c \in checkpoints : c.lastRecordId <= snapshotMaxId
  BY <1>1 DEF FileInv
<1>. QED
  BY <1>1, <1>2, LogFacts, WholeFilePasses DEF DownloadAllowed

(* What a completed export offers for download passes the audit as it is,   *)
(* and the latest verdict on record says so, also when rows were deleted    *)
(* while it ran.                                                            *)
THEOREM CompletedIsAlwaysVerified ==
    ASSUME FaultBudget["lockLoss"] = 0, FaultBudget["redisRestart"] = 0
    PROVE  Spec => []CompletedMeansVerified
BY CompletedIsVerified, FileInvariant, ProgressInvariant, PTL

-----------------------------------------------------------------------------
(* CoverInv by what it is about: an object, a run, the file.                *)
ObjectsCover ==
    \A c \in checkpoints : LinesOf(c.batchNumber, chunks) = {} \/ Covers(c, chunks)
RunCover(w) ==
    /\ worker[w].pc \in {"put", "checkpoint"} => PageCovers(w)
    /\ worker[w].pc = "assemble" =>
          \A c \in checkpoints :
              c.batchNumber < worker[w].nextChunk => Covers(c, worker[w].assembled)
FileCovers == finalFile # {} => \A c \in checkpoints : Covers(c, finalFile)
IdsAscend == /\ openInserts = {}
             /\ snapshotMaxId < nextRecordId /\ \A r \in records : r < nextRecordId

LEMMA QuietCover ==
    ASSUME CoverInv, UNCHANGED <<recordVars, checkpoints, snapshotMaxId, chunks, finalFile>>,
           \A u \in Workers : worker'[u] = worker[u] \/ RunCover(u)'
    PROVE  CoverInv'
<1>1. IdsAscend' /\ ObjectsCover' /\ FileCovers'
  BY DEF CoverInv, IdsAscend, ObjectsCover, FileCovers, Covers, InRange, LinesOf, recordVars
<1>2. ASSUME NEW u \in Workers, worker'[u] = worker[u]
      PROVE  RunCover(u)'
  BY <1>2 DEF CoverInv, RunCover, PageCovers, Covers, InRange, recordVars
<1>. QED
  BY <1>1, <1>2 DEF CoverInv, IdsAscend, ObjectsCover, RunCover, FileCovers

(* Inserted rows lie beyond the boundary, and a deleted row is no longer    *)
(* asked for.                                                               *)
LEMMA TrafficCovers ==
    ASSUME FaultBudget["openInsert"] = 0, ProgressInv, FileInv, CoverInv, RecordTraffic
    PROVE  CoverInv'
<1>a. /\ UNCHANGED <<checkpoints, snapshotMaxId, chunks, finalFile, worker>>
      /\ snapshotMaxId \in Nat /\ nextRecordId \in Nat /\ records \in SUBSET Nat
      /\ faults["openInsert"] \in Nat
      /\ worker \in [Workers -> WorkerState] /\ MaxRecordId \in Nat
      /\ \A c \in checkpoints : c.lastRecordId \in Nat /\ c.lastRecordId <= snapshotMaxId
      /\ PagesFit
  BY StateAssumption, LogFacts DEF RecordTraffic, InsertRecord, BeginInsert, CommitInsert,
     DeleteRecord, jobVars, storageVars, ProgressInv, LogInv, TypeOK, FaultKinds, FileInv
<1>1. /\ records' \subseteq records \cup {nextRecordId}
      /\ openInserts' = {} /\ nextRecordId' \in {nextRecordId, nextRecordId + 1}
      /\ records' \subseteq records \/ nextRecordId' = nextRecordId + 1
  BY <1>a DEF RecordTraffic, InsertRecord, BeginInsert, CommitInsert, DeleteRecord, CoverInv,
     CanFail
<1>2. IdsAscend'
  <2>1. /\ snapshotMaxId' = snapshotMaxId /\ records' \in SUBSET Nat
        /\ snapshotMaxId < nextRecordId /\ \A r \in records : r < nextRecordId
    BY <1>1, <1>a DEF CoverInv
  <2>2. snapshotMaxId < nextRecordId'
    BY <1>1, <1>a, <2>1
  <2>3. \A r \in records' : r < nextRecordId'
    BY <1>1, <1>a, <2>1
  <2>. QED
    BY <1>1, <2>1, <2>2, <2>3 DEF IdsAscend
<1>3. ASSUME NEW c \in checkpoints, NEW r \in records', InRange(c, r)'
      PROVE  r \in records /\ InRange(c, r)
  <2>1. r <= c.lastRecordId /\ InRange(c, r)
    BY <1>3, <1>a DEF InRange
  <2>2. r # nextRecordId
    BY <1>a, <2>1 DEF CoverInv
  <2>. QED
    BY <1>1, <2>1, <2>2
<1>4. ObjectsCover' /\ FileCovers'
  BY <1>3, <1>a DEF CoverInv, ObjectsCover, FileCovers, Covers, LinesOf
<1>5. ASSUME NEW u \in Workers
      PROVE  RunCover(u)'
  <2>1. ASSUME worker[u].pc \in {"put", "checkpoint"}
        PROVE  PageCovers(u)'
    <3>1. PageCovers(u) /\ \A q \in worker[u].batch : q \in Nat /\ q <= snapshotMaxId
      BY <2>1, <1>a DEF CoverInv, PagesFit, WorkerState
    <3>2. ASSUME NEW r \in records', NEW q \in worker[u].batch, r <= q
          PROVE  r \in records
      <4>1. r # nextRecordId
        BY <1>a, <3>1, <3>2 DEF CoverInv
      <4>. QED
        BY <1>1, <4>1
    <3>. QED
      BY <1>a, <3>1, <3>2 DEF PageCovers
  <2>2. ASSUME worker[u].pc = "assemble"
        PROVE  \A c \in checkpoints' :
                   c.batchNumber < worker'[u].nextChunk => Covers(c, worker[u].assembled)'
    BY <2>2, <1>3, <1>a DEF CoverInv, Covers
  <2>. QED
    BY <1>a, <2>1, <2>2 DEF RunCover
<1>. QED
  BY <1>2, <1>4, <1>5 DEF CoverInv, IdsAscend, ObjectsCover, RunCover, FileCovers

(* A run never writes the records table, the boundary is not its either.    *)
LEMMA RunKeepsTable ==
    ASSUME NEW w \in Workers, RunStep(w) \/ RunFault(w)
    PROVE  UNCHANGED <<recordVars, snapshotMaxId>>
BY DEF RunStep, RunFault, ReadJob, CancelBeforeStart, ClaimJob, SetStartedAt,
   LoadResumeState, ReconcileJobProgress, IsCancelRequested, CancelMidRun, DeleteChunks,
   FetchRecordBatch, PutChunk, Checkpoint, CrossCheckLog, SetVerifying, AssembleChunk,
   UploadFinalCsv, AssemblyFails, VerifyExportFile, RecordVerdict, KeepRejectedFile,
   CompleteJob, FailJob, DeleteChunksThrows, StepThrows, Crash, jobVars

(* A run that goes to a label where no page and no assembly is asked for.   *)
LEMMA PlainRunLabel ==
    ASSUME worker \in [Workers -> WorkerState], NEW w \in Workers, RunStep(w) \/ RunFault(w),
           ~FetchRecordBatch(w), ~PutChunk(w), ~SetVerifying(w), ~AssembleChunk(w)
    PROVE  /\ worker'[w].pc \notin {"put", "checkpoint", "assemble"}
           /\ \A u \in Workers : u # w => worker'[u] = worker[u]
<1>1. worker'[w].pc \notin {"put", "checkpoint", "assemble"}
  <2>1. ASSUME NEW label, Advance(w, label), label \notin {"put", "checkpoint", "assemble"}
        PROVE  worker'[w].pc \notin {"put", "checkpoint", "assemble"}
    BY <2>1 DEF Advance, WorkerState
  <2>2. CASE \/ ReadJob(w) \/ CancelBeforeStart(w) \/ ClaimJob(w) \/ SetStartedAt(w)
             \/ IsCancelRequested(w) \/ CancelMidRun(w) \/ DeleteChunks(w)
             \/ KeepRejectedFile(w) \/ CompleteJob(w) \/ FailJob(w)
             \/ DeleteChunksThrows(w) \/ StepThrows(w)
    BY <2>1, <2>2 DEF ReadJob, CancelBeforeStart, ClaimJob, SetStartedAt, IsCancelRequested,
       CancelMidRun, DeleteChunks, KeepRejectedFile, CompleteJob, FailJob, DeleteChunksThrows,
       StepThrows
  <2>3. CASE LoadResumeState(w)
    <3>1. ASSUME NEW n, NEW id, NEW rows, ResumeAt(w, n, id, rows)
          PROVE  worker'[w].pc = "reconcile"
      BY <3>1 DEF ResumeAt, WorkerState
    <3>. QED
      BY <2>1, <2>3, <3>1 DEF LoadResumeState
  <2>4. CASE ReconcileJobProgress(w) \/ Checkpoint(w)
    <3>1. ASSUME NEW total
          PROVE  LoopLabel(total) \notin {"put", "checkpoint", "assemble"}
      BY DEF LoopLabel
    <3>2. CASE ReconcileJobProgress(w)
      BY <2>1, <3>1, <3>2 DEF ReconcileJobProgress
    <3>3. CASE Checkpoint(w)
      <4>1. CASE UniqueViolation(worker[w].batchNumber)
        BY <2>1, <3>3, <4>1 DEF Checkpoint
      <4>2. CASE ~UniqueViolation(worker[w].batchNumber)
        BY <3>3, <4>2, CheckpointedRun
      <4>. QED
        BY <4>1, <4>2
    <3>. QED
      BY <2>4, <3>2, <3>3
  <2>5. CASE \/ CrossCheckLog(w) \/ UploadFinalCsv(w) \/ AssemblyFails(w)
             \/ VerifyExportFile(w) \/ RecordVerdict(w) \/ Crash(w)
    BY <2>1, <2>5 DEF CrossCheckLog, UploadFinalCsv, AssemblyFails, VerifyExportFile,
       RecordVerdict, Crash, IdleWorker, WorkerState
  <2>. QED
    BY <2>2, <2>3, <2>4, <2>5 DEF RunStep, RunFault
<1>2. \A u \in Workers : u # w => worker'[u] = worker[u]
  BY DEF RunStep, RunFault, ReadJob, CancelBeforeStart, ClaimJob, SetStartedAt,
     LoadResumeState, ResumeAt, ReconcileJobProgress, IsCancelRequested, CancelMidRun,
     DeleteChunks, Checkpoint, CrossCheckLog, UploadFinalCsv, AssemblyFails, VerifyExportFile,
     RecordVerdict, KeepRejectedFile, CompleteJob, FailJob, DeleteChunksThrows, StepThrows,
     Crash, Advance
<1>. QED
  BY <1>1, <1>2

LEMMA PlainRun ==
    ASSUME worker \in [Workers -> WorkerState], NEW w \in Workers, RunStep(w) \/ RunFault(w),
           ~FetchRecordBatch(w), ~PutChunk(w), ~SetVerifying(w), ~AssembleChunk(w)
    PROVE  \A u \in Workers : worker'[u] = worker[u] \/ RunCover(u)'
BY PlainRunLabel DEF RunCover

(* A fetched page has every row of the table up to its last.                *)
LEMMA FetchingCovers ==
    ASSUME ProgressInv, CoverInv, NEW w \in Workers, FetchRecordBatch(w)
    PROVE  CoverInv'
<1>a. /\ worker \in [Workers -> WorkerState] /\ records \in SUBSET Nat
      /\ UNCHANGED <<recordVars, checkpoints, snapshotMaxId, chunks, finalFile>>
  BY StateAssumption, LogFacts DEF FetchRecordBatch, jobVars, storageVars
<1>1. CASE Advance(w, "failReturn")
  <2>1. \A u \in Workers : worker'[u] = worker[u] \/ RunCover(u)'
    BY <1>a, <1>1 DEF Advance, RunCover, WorkerState
  <2>. QED
    BY <1>a, <2>1, QuietCover
<1>2. ASSUME NEW lastId \in Eligible(worker[w].lastExportedId),
             worker' = [worker EXCEPT ![w].pc = "put",
                          ![w].batch = UpTo(Eligible(worker[w].lastExportedId), lastId)]
      PROVE  CoverInv'
  <2>1. /\ worker'[w].pc = "put"
        /\ worker'[w].batch = UpTo(Eligible(worker[w].lastExportedId), lastId)
        /\ worker'[w].lastExportedId = worker[w].lastExportedId
        /\ \A u \in Workers : u # w => worker'[u] = worker[u]
    BY <1>a, <1>2 DEF WorkerState
  <2>2. ASSUME NEW r \in records, worker[w].lastExportedId < r,
               NEW q \in UpTo(Eligible(worker[w].lastExportedId), lastId), r <= q
        PROVE  r \in UpTo(Eligible(worker[w].lastExportedId), lastId)
    <3>1. /\ q \in records /\ q <= snapshotMaxId /\ q <= lastId
          /\ r \in Nat /\ q \in Nat /\ lastId \in Nat /\ snapshotMaxId \in Nat
      BY <1>2, <1>a, LogFacts DEF UpTo, Eligible
    <3>. QED
      BY <2>2, <3>1 DEF UpTo, Eligible
  <2>3. PageCovers(w)'
    BY <1>a, <2>1, <2>2 DEF PageCovers, recordVars
  <2>4. RunCover(w)'
    BY <2>1, <2>3 DEF RunCover
  <2>. QED
    BY <1>a, <2>1, <2>4, QuietCover
<1>. QED
  BY <1>1, <1>2 DEF FetchRecordBatch

(* A page covers what lies between the log before its batch and its last id. *)
LEMMA PageCoversRange ==
    ASSUME ProgressInv, CoverInv, NEW w \in Workers, worker[w].pc \in {"put", "checkpoint"},
           NEW id \in worker[w].batch, NEW r \in records, r <= id,
           \A d \in checkpoints : d.batchNumber < worker[w].batchNumber => d.lastRecordId < r
    PROVE  r \in worker[w].batch
<1>1. CursorInLog(w) /\ PageCovers(w)
  BY DEF ProgressInv, CursorsAreLogged, InLoop, CoverInv
<1>2. worker[w].lastExportedId < r
  <2>1. r \in Nat \ {0}
    BY LogFacts
  <2>2. CASE worker[w].lastExportedId = 0
    BY <2>1, <2>2
  <2>3. ASSUME NEW c \in checkpoints, c.batchNumber + 1 = worker[w].batchNumber,
               c.lastRecordId = worker[w].lastExportedId
        PROVE  worker[w].lastExportedId < r
    <3>1. c.batchNumber < worker[w].batchNumber
      BY <2>3, LogFacts
    <3>. QED
      BY <2>3, <3>1
  <2>. QED
    BY <1>1, <2>2, <2>3 DEF CursorInLog
<1>. QED
  BY <1>1, <1>2 DEF PageCovers

LEMMA PuttingCovers ==
    ASSUME ProgressInv, CoverInv, PagesAgree, NEW w \in Workers, PutChunk(w)
    PROVE  CoverInv'
<1>. DEFINE b    == worker[w].batchNumber
            page == {b} \X worker[w].batch
<1>a. /\ worker \in [Workers -> WorkerState]
      /\ worker[w].pc = "put" /\ Advance(w, "checkpoint")
      /\ UNCHANGED <<recordVars, checkpoints, snapshotMaxId, finalFile>>
      /\ chunks' = OtherChunks(b) \cup page
  BY LogFacts DEF PutChunk, jobVars
<1>1. ASSUME NEW c \in checkpoints
      PROVE  LinesOf(c.batchNumber, chunks') = {} \/ Covers(c, chunks')
  <2>1. CASE c.batchNumber = b
    <3>1. c.lastRecordId \in worker[w].batch
      BY <1>a, <2>1 DEF PagesAgree, BatchLastId
    <3>2. ASSUME NEW r \in records, InRange(c, r)
          PROVE  r \in worker[w].batch
      BY <1>a, <2>1, <3>1, <3>2, PageCoversRange DEF InRange
    <3>. QED
      BY <1>a, <2>1, <3>2 DEF Covers
  <2>2. CASE c.batchNumber # b
    <3>1. LinesOf(c.batchNumber, chunks') = LinesOf(c.batchNumber, chunks)
      BY <1>a, <2>2 DEF LinesOf, OtherChunks
    <3>2. Covers(c, chunks) => Covers(c, chunks')
      BY <1>a, <2>2 DEF Covers, OtherChunks
    <3>. QED
      BY <3>1, <3>2 DEF CoverInv
  <2>. QED
    BY <2>1, <2>2
<1>2. ObjectsCover'
  BY <1>1, <1>a DEF ObjectsCover, Covers, InRange, LinesOf, recordVars
<1>3. ASSUME NEW u \in Workers
      PROVE  RunCover(u)'
  <2>1. worker'[u] = worker[u] \/ (u = w /\ worker'[u] = [worker[u] EXCEPT !.pc = "checkpoint"])
    BY <1>a DEF Advance
  <2>2. CASE worker'[u] = worker[u]
    BY <1>a, <2>2 DEF CoverInv, RunCover, PageCovers, Covers, InRange, recordVars
  <2>3. CASE u = w /\ worker'[u] = [worker[u] EXCEPT !.pc = "checkpoint"]
    <3>1. /\ worker'[w].pc = "checkpoint"
          /\ worker'[w].batch = worker[w].batch
          /\ worker'[w].lastExportedId = worker[w].lastExportedId
      BY <1>a, <2>3 DEF WorkerState
    <3>2. PageCovers(w)
      BY <1>a DEF CoverInv
    <3>. QED
      BY <1>a, <2>3, <3>1, <3>2 DEF RunCover, PageCovers, recordVars
  <2>. QED
    BY <2>1, <2>2, <2>3
<1>4. IdsAscend' /\ FileCovers'
  BY <1>a DEF CoverInv, IdsAscend, FileCovers, Covers, InRange, recordVars
<1>. QED
  BY <1>2, <1>3, <1>4 DEF CoverInv, IdsAscend, ObjectsCover, RunCover, FileCovers

(* What an assembly has copied covers every batch it is past.               *)
LEMMA AssemblingCovers ==
    ASSUME ProgressInv, FileInv, CoverInv, NEW w \in Workers, SetVerifying(w) \/ AssembleChunk(w)
    PROVE  CoverInv'
<1>a. /\ worker \in [Workers -> WorkerState]
      /\ UNCHANGED <<recordVars, checkpoints, snapshotMaxId, chunks, finalFile>>
      /\ AssemblyHoldsPages(w)
  BY LogFacts DEF SetVerifying, AssembleChunk, jobVars, storageVars, FileInv
<1>1. ASSUME worker'[w].pc = "assemble",
             \A u \in Workers : u # w => worker'[u] = worker[u],
             \A c \in checkpoints :
                 c.batchNumber < worker'[w].nextChunk => Covers(c, worker'[w].assembled)
      PROVE  CoverInv'
  <2>1. \A c \in checkpoints' :
            c.batchNumber < worker'[w].nextChunk => Covers(c, worker[w].assembled)'
    BY <1>1, <1>a DEF Covers, InRange, recordVars
  <2>2. RunCover(w)'
    BY <1>1, <2>1 DEF RunCover
  <2>. QED
    BY <1>1, <1>a, <2>2, QuietCover
<1>2. CASE SetVerifying(w)
  <2>1. worker[w].nextChunk = 1 /\ Advance(w, "assemble")
    BY <1>2, <1>a DEF SetVerifying, AssemblyHoldsPages, BeforeAssembly
  <2>2. /\ worker'[w].pc = "assemble" /\ worker'[w].nextChunk = 1
        /\ \A u \in Workers : u # w => worker'[u] = worker[u]
    BY <2>1, <1>a DEF Advance, WorkerState
  <2>. QED
    BY <1>1, <2>2, BatchesBeginAtOne
<1>3. CASE AssembleChunk(w)
  <2>. DEFINE b     == worker[w].nextChunk
              lines == worker[w].assembled \cup (chunks \ OtherChunks(b))
  <2>1. CASE Advance(w, "assemblyFailed")
    <3>1. \A u \in Workers : worker'[u] = worker[u] \/ RunCover(u)'
      BY <1>a, <2>1 DEF Advance, RunCover, WorkerState
    <3>. QED
      BY <1>a, <3>1, QuietCover
  <2>2. ASSUME ChunkExists(b),
               worker' = [worker EXCEPT ![w].nextChunk = b + 1, ![w].assembled = lines]
        PROVE  CoverInv'
    <3>1. /\ worker'[w].pc = "assemble" /\ worker'[w].nextChunk = b + 1
          /\ worker'[w].assembled = lines /\ b \in Nat
          /\ \A u \in Workers : u # w => worker'[u] = worker[u]
      BY <1>a, <1>3, <2>2 DEF WorkerState, AssembleChunk
    <3>2. ASSUME NEW c \in checkpoints, c.batchNumber < b + 1
          PROVE  Covers(c, lines)
      <4>1. CASE c.batchNumber = b
        <5>1. LinesOf(b, chunks) # {}
          BY <2>2 DEF ChunkExists, LinesOf
        <5>2. Covers(c, chunks)
          BY <4>1, <5>1 DEF CoverInv
        <5>. QED
          BY <4>1, <5>2 DEF Covers, OtherChunks
      <4>2. CASE c.batchNumber < b
        <5>1. Covers(c, worker[w].assembled)
          BY <1>3, <4>2 DEF CoverInv, AssembleChunk
        <5>. QED
          BY <5>1 DEF Covers
      <4>. QED
        BY <3>1, <3>2, <4>1, <4>2, LogFacts
    <3>. HIDE DEF lines
    <3>. QED
      BY <1>1, <3>1, <3>2
  <2>. QED
    BY <1>3, <2>1, <2>2 DEF AssembleChunk
<1>. QED
  BY <1>2, <1>3

LEMMA UploadingCovers ==
    ASSUME ProgressInv, FileInv, CoverInv, NEW w \in Workers, UploadFinalCsv(w)
    PROVE  CoverInv'
<1>a. /\ worker \in [Workers -> WorkerState] /\ worker[w] \in WorkerState
      /\ UNCHANGED <<recordVars, checkpoints, snapshotMaxId, chunks>>
      /\ worker[w].pc = "assemble" /\ worker[w].nextChunk > worker[w].batchCount
      /\ finalFile' = worker[w].assembled
      /\ AssemblyHoldsPages(w)
  BY LogFacts DEF UploadFinalCsv, jobVars, FileInv
<1>1. ASSUME NEW c \in checkpoints
      PROVE  Covers(c, worker[w].assembled)
  <2>1. c.batchNumber \in 1 .. Cardinality(checkpoints) /\ Cardinality(checkpoints) \in Nat
    BY BatchesCounted DEF BatchNumbers
  <2>2. c.batchNumber < worker[w].nextChunk
    BY <1>a, <2>1 DEF AssemblyHoldsPages, WorkerState
  <2>. QED
    BY <1>a, <2>2 DEF CoverInv
<1>2. FileCovers'
  BY <1>1, <1>a DEF FileCovers, Covers, InRange, recordVars
<1>3. \A u \in Workers : worker'[u] = worker[u] \/ RunCover(u)'
  <2>1. RunStep(w)
    BY DEF RunStep
  <2>2. ~FetchRecordBatch(w) /\ ~PutChunk(w) /\ ~SetVerifying(w) /\ ~AssembleChunk(w)
    BY <1>a DEF FetchRecordBatch, PutChunk, SetVerifying, AssembleChunk, WorkerState
  <2>. QED
    BY <1>a, <2>1, <2>2, PlainRun
<1>4. ASSUME NEW u \in Workers, worker'[u] = worker[u]
      PROVE  RunCover(u)'
  BY <1>4, <1>a DEF CoverInv, RunCover, PageCovers, Covers, InRange, recordVars
<1>5. IdsAscend' /\ ObjectsCover'
  BY <1>a DEF CoverInv, IdsAscend, ObjectsCover, Covers, InRange, LinesOf, recordVars
<1>. QED
  BY <1>2, <1>3, <1>4, <1>5 DEF CoverInv, IdsAscend, ObjectsCover, RunCover, FileCovers

LEMMA DeletingCovers ==
    ASSUME ProgressInv, CoverInv, NEW w \in Workers, DeleteChunks(w) \/ DeleteChunksThrows(w)
    PROVE  CoverInv'
<1>a. /\ worker \in [Workers -> WorkerState]
      /\ UNCHANGED <<recordVars, checkpoints, snapshotMaxId, finalFile>>
      /\ worker[w].pc \in {"cancelCleanup", "cleanup"}
  BY LogFacts DEF DeleteChunks, DeleteChunksThrows, jobVars
<1>1. \A k : LinesOf(k, chunks') = {} \/ LinesOf(k, chunks') = LinesOf(k, chunks)
  <2>1. CASE chunks' = {}
    BY <2>1 DEF LinesOf
  <2>2. ASSUME NEW k, NEW page, chunks' = {line \in chunks : line[1] > page}
        PROVE  LinesOf(k, chunks') = LinesOf(k, chunks) \/ LinesOf(k, chunks') = {}
    BY <2>2 DEF LinesOf
  <2>. QED
    BY <2>1, <2>2 DEF DeleteChunks, DeleteChunksThrows
<1>2. ASSUME NEW c \in checkpoints
      PROVE  LinesOf(c.batchNumber, chunks') = {} \/ Covers(c, chunks')
  <2>1. CASE LinesOf(c.batchNumber, chunks') = LinesOf(c.batchNumber, chunks)
    <3>1. Covers(c, chunks) => Covers(c, chunks')
      <4>. SUFFICES ASSUME Covers(c, chunks), NEW r \in records, InRange(c, r)
                    PROVE  <<c.batchNumber, r>> \in chunks'
        BY DEF Covers
      <4>1. <<c.batchNumber, r>> \in LinesOf(c.batchNumber, chunks)
        BY DEF Covers, LinesOf
      <4>. QED
        BY <2>1, <4>1 DEF LinesOf
    <3>. QED
      BY <2>1, <3>1 DEF CoverInv
  <2>. QED
    BY <1>1, <2>1
<1>3. ObjectsCover'
  BY <1>2, <1>a DEF ObjectsCover, Covers, InRange, LinesOf, recordVars
<1>4. \A u \in Workers : worker'[u] = worker[u] \/ RunCover(u)'
  <2>1. RunStep(w) \/ RunFault(w)
    BY DEF RunStep, RunFault
  <2>2. ~FetchRecordBatch(w) /\ ~PutChunk(w) /\ ~SetVerifying(w) /\ ~AssembleChunk(w)
    BY <1>a DEF FetchRecordBatch, PutChunk, SetVerifying, AssembleChunk
  <2>. QED
    BY <1>a, <2>1, <2>2, PlainRun
<1>5. ASSUME NEW u \in Workers, worker'[u] = worker[u]
      PROVE  RunCover(u)'
  BY <1>5, <1>a DEF CoverInv, RunCover, PageCovers, Covers, InRange, recordVars
<1>6. IdsAscend' /\ FileCovers'
  BY <1>a DEF CoverInv, IdsAscend, FileCovers, Covers, InRange, recordVars
<1>. QED
  BY <1>3, <1>4, <1>5, <1>6 DEF CoverInv, IdsAscend, ObjectsCover, RunCover, FileCovers

(* The appended page covers the range between the log and its last row.     *)
LEMMA AppendingCovers ==
    ASSUME ProgressInv, FileInv, CoverInv, NEW w \in Workers, Checkpoint(w),
           ~UniqueViolation(worker[w].batchNumber)
    PROVE  CoverInv'
<1>a. /\ worker \in [Workers -> WorkerState]
      /\ UNCHANGED <<recordVars, snapshotMaxId, chunks, finalFile>>
      /\ worker[w].pc = "checkpoint"
  BY LogFacts DEF Checkpoint, storageVars
<1>1. PICK id \in worker[w].batch :
        /\ checkpoints' = checkpoints \cup {NewCheckpoint(w, id)}
        /\ BatchLastId(w, id)
  BY AppendedPage
<1>2. PICK new : new = NewCheckpoint(w, id)
  OBVIOUS
<1>3. /\ new.batchNumber = worker[w].batchNumber
      /\ new.lastRecordId = id
      /\ checkpoints' = checkpoints \cup {new}
  BY <1>1, <1>2 DEF NewCheckpoint
<1>4. /\ \A u \in Workers : worker[u].pc \notin Finishing
      /\ finalFile = {}
  <2>1. RowsWritten(checkpoints) < RequestedRowLimit
    BY AppendedPage
  <2>2. RowsWritten(checkpoints) \in Nat /\ RequestedRowLimit \in Nat
    BY LogFacts, RowsWrittenType
  <2>3. RowsWritten(checkpoints) # RequestedRowLimit
    BY <2>1, <2>2
  <2>. QED
    BY <2>3 DEF ProgressInv, FullBeyondLoop, FileInv, WholeFile
<1>5. ASSUME NEW c, NEW r, InRange(c, r)'
      PROVE  InRange(c, r)
  BY <1>3, <1>5 DEF InRange
<1>6. ObjectsCover'
  <2>1. ASSUME NEW c \in checkpoints
        PROVE  LinesOf(c.batchNumber, chunks)' = {} \/ Covers(c, chunks)'
    BY <1>5, <1>a DEF CoverInv, Covers, LinesOf, recordVars
  <2>2. CASE LinesOf(worker[w].batchNumber, chunks) = {}
    BY <1>3, <1>a, <2>1, <2>2 DEF ObjectsCover, LinesOf
  <2>3. CASE LinesOf(worker[w].batchNumber, chunks)
               = {worker[w].batchNumber} \X worker[w].batch
    <3>1. ASSUME NEW r \in records, InRange(new, r)'
          PROVE  <<new.batchNumber, r>> \in chunks
      <4>1. r <= id /\ \A d \in checkpoints :
                           d.batchNumber < worker[w].batchNumber => d.lastRecordId < r
        BY <1>3, <1>5, <3>1 DEF InRange
      <4>2. r \in worker[w].batch
        BY <1>a, <4>1, PageCoversRange
      <4>3. <<worker[w].batchNumber, r>> \in LinesOf(worker[w].batchNumber, chunks)
        BY <2>3, <4>2
      <4>. QED
        BY <1>3, <4>3 DEF LinesOf
    <3>2. Covers(new, chunks)'
      BY <1>a, <3>1 DEF Covers, recordVars
    <3>. QED
      BY <1>3, <2>1, <3>2 DEF ObjectsCover
  <2>. QED
    BY <1>a, <2>2, <2>3 DEF FileInv, ChunkIsPut
<1>7. \A u \in Workers : worker'[u] = worker[u] \/ RunCover(u)'
  <2>1. RunStep(w)
    BY DEF RunStep
  <2>2. ~FetchRecordBatch(w) /\ ~PutChunk(w) /\ ~SetVerifying(w) /\ ~AssembleChunk(w)
    BY <1>a DEF FetchRecordBatch, PutChunk, SetVerifying, AssembleChunk
  <2>. QED
    BY <1>a, <2>1, <2>2, PlainRun
<1>8. ASSUME NEW u \in Workers, worker'[u] = worker[u]
      PROVE  RunCover(u)'
  <2>1. worker[u].pc # "assemble"
    BY <1>4 DEF Finishing
  <2>. QED
    BY <1>8, <1>a, <2>1 DEF CoverInv, RunCover, PageCovers, recordVars
<1>9. IdsAscend' /\ FileCovers'
  BY <1>4, <1>a DEF CoverInv, IdsAscend, FileCovers, recordVars
<1>. QED
  BY <1>6, <1>7, <1>8, <1>9 DEF CoverInv, IdsAscend, ObjectsCover, RunCover, FileCovers

-----------------------------------------------------------------------------
LEMMA RunStepCovers ==
    ASSUME ProgressInv, FileInv, PagesAgree, CoverInv, NEW w \in Workers,
           RunStep(w) \/ RunFault(w)
    PROVE  CoverInv'
<1>a. worker \in [Workers -> WorkerState]
  BY LogFacts
<1>1. CASE FetchRecordBatch(w)
  BY <1>1, FetchingCovers
<1>2. CASE PutChunk(w)
  BY <1>2, PuttingCovers
<1>3. CASE SetVerifying(w) \/ AssembleChunk(w)
  BY <1>3, AssemblingCovers
<1>4. CASE UploadFinalCsv(w)
  BY <1>4, UploadingCovers
<1>5. CASE DeleteChunks(w) \/ DeleteChunksThrows(w)
  BY <1>5, DeletingCovers
<1>6. CASE Checkpoint(w) /\ ~UniqueViolation(worker[w].batchNumber)
  BY <1>6, AppendingCovers
<1>7. ASSUME ~FetchRecordBatch(w), ~PutChunk(w), ~SetVerifying(w), ~AssembleChunk(w),
             ~UploadFinalCsv(w), ~DeleteChunks(w), ~DeleteChunksThrows(w),
             ~(Checkpoint(w) /\ ~UniqueViolation(worker[w].batchNumber))
      PROVE  CoverInv'
  <2>1. UNCHANGED <<recordVars, snapshotMaxId>>
    BY RunKeepsTable
  <2>2. UNCHANGED <<checkpoints, chunks, finalFile>>
    BY <1>7 DEF RunStep, RunFault, ReadJob, CancelBeforeStart, ClaimJob, SetStartedAt,
       LoadResumeState, ReconcileJobProgress, IsCancelRequested, CancelMidRun, Checkpoint,
       CrossCheckLog, AssemblyFails, VerifyExportFile, RecordVerdict, KeepRejectedFile,
       CompleteJob, FailJob, StepThrows, Crash, jobVars, storageVars
  <2>3. \A u \in Workers : worker'[u] = worker[u] \/ RunCover(u)'
    BY <1>7, <1>a, PlainRun
  <2>. QED
    BY <2>1, <2>2, <2>3, QuietCover
<1>. QED
  BY <1>1, <1>2, <1>3, <1>4, <1>5, <1>6, <1>7

LEMMA OtherStepCovers ==
    ASSUME FaultBudget["openInsert"] = 0, ProgressInv, FileInv, CoverInv, OtherStep
    PROVE  CoverInv'
<1>a. worker \in [Workers -> WorkerState]
  BY LogFacts
<1>1. CASE RecordTraffic
  BY <1>1, TrafficCovers
<1>2. CASE CaptureSnapshotMaxId
  <2>1. /\ checkpoints = {} /\ \A u \in Workers : worker[u].pc = "idle"
        /\ UNCHANGED <<recordVars, checkpoints, chunks, finalFile, worker>>
    BY <1>2 DEF CaptureSnapshotMaxId, ProgressInv, NothingBeforeBoundary, NotBegun,
       storageVars
  <2>2. snapshotMaxId' < nextRecordId
    <3>1. snapshotMaxId' \in records \cup {0}
      BY <1>2 DEF CaptureSnapshotMaxId
    <3>2. nextRecordId \in Nat \ {0}
      BY StateAssumption DEF ProgressInv, LogInv, TypeOK
    <3>. QED
      BY <3>1, <3>2 DEF CoverInv
  <2>. QED
    BY <2>1, <2>2 DEF CoverInv, recordVars
<1>3. ASSUME ~RecordTraffic, ~CaptureSnapshotMaxId
      PROVE  CoverInv'
  <2>1. UNCHANGED <<recordVars, checkpoints, snapshotMaxId, chunks, finalFile>>
    BY <1>3 DEF OtherStep, HandlerStep, CreateStep, CreateExportJob, MarkQueued,
       MarkResuming, CancelWrite, VerifyScan, VerifyRecord, EnqueueStep, InspectEntry,
       RemoveEntry, AddEntry, RequestAborts, RequestArrives, ResumeRead, CancelRead,
       VerifyRead, QueueStep, PickUp, ProcessorReturns, ProcessorThrows, BackoffElapses,
       ReclaimFromDead, QueueFault, ReclaimFromLive, RedisRestarts, SweepStep, ListStalled,
       MarkInterrupted, SweepAborts, HeartbeatExpires, vars, jobVars, storageVars
  <2>2. \A u \in Workers : worker'[u] = worker[u] \/ worker'[u].pc \in {"idle", "read"}
    <3>1. CASE worker' = worker
      BY <3>1
    <3>2. ASSUME NEW w \in Workers, PickUp(w) \/ ProcessorReturns(w) \/ ProcessorThrows(w)
          PROVE  \A u \in Workers : worker'[u] = worker[u] \/ worker'[u].pc \in {"idle", "read"}
      BY <1>a, <3>2 DEF PickUp, ProcessorReturns, ProcessorThrows, IdleWorker, WorkerState
    <3>. QED
      BY <3>1, <3>2, OtherKeepsWorkers
  <2>3. \A u \in Workers : worker'[u] = worker[u] \/ RunCover(u)'
    BY <2>2 DEF RunCover
  <2>. QED
    BY <2>1, <2>3, QuietCover
<1>. QED
  BY <1>1, <1>2, <1>3

LEMMA InitCoverInv == Init => CoverInv
<1>. SUFFICES ASSUME Init PROVE CoverInv
  OBVIOUS
<1>1. /\ openInserts = {} /\ snapshotMaxId = 0 /\ checkpoints = {}
      /\ records = 1 .. InitialRecords /\ nextRecordId = InitialRecords + 1
      /\ \A w \in Workers : worker[w].pc = "idle"
  BY DEF Init, IdleWorker
<1>. QED
  BY <1>1, StateAssumption DEF CoverInv

(* Without inserts that commit late, every page has all rows of its range:  *)
(* for any number of crashes, retries, resumes, inserts and deletes.        *)
THEOREM CoverInvariant ==
    ASSUME FaultBudget["lockLoss"] = 0, FaultBudget["redisRestart"] = 0,
           FaultBudget["openInsert"] = 0
    PROVE  Spec => []CoverInv
<1>1. /\ ProgressInv /\ (FileInv /\ PagesAgree) /\ CoverInv /\ [Next]_vars
      => CoverInv'
  BY RunStepCovers, OtherStepCovers DEF Next, OtherStep
<1>. QED
  BY <1>1, InitCoverInv, FileInvariant, ProgressInvariant, PTL DEF Spec

(* A row that is in no page of the file lies beyond it: the first           *)
(* checkpoint at or beyond the row would have it in its range.              *)
LEMMA NothingIsSkipped ==
    ASSUME ProgressInv, FileInv, CoverInv
    PROVE  NothingSkipped
<1>. SUFFICES ASSUME NEW r \in records, NEW line \in finalFile, line[2] > r
              PROVE  r \in RowsOf(finalFile)
  BY DEF NothingSkipped
<1>1. WholeFile(finalFile) /\ \A c \in checkpoints : Covers(c, finalFile)
  BY DEF FileInv, CoverInv
<1>2. PICK c \in checkpoints : c.batchNumber = line[1]
  BY <1>1 DEF WholeFile, BatchNumbers
<1>3. line[2] <= c.lastRecordId
  BY <1>1, <1>2 DEF WholeFile, PageIn, InRange, LinesOf
<1>4. r \in Nat /\ line[2] \in Nat /\ c.lastRecordId \in Nat /\ r <= c.lastRecordId
  <2>1. r \in Nat /\ line[2] \in Nat /\ c.lastRecordId \in Nat
    BY LogFacts
  <2>. QED
    BY <1>3, <2>1
<1>. DEFINE Beyond == {d \in checkpoints : r <= d.lastRecordId}
            Batches == {d.batchNumber : d \in Beyond}
<1>5. Batches \in SUBSET Nat /\ Batches # {}
  BY <1>4, LogFacts
<1>6. PICK n \in Batches : \A m \in Batches : n <= m
  <2>. HIDE DEF Batches
  <2>1. PICK n \in Batches : \A m \in Batches : <<m, n>> \notin OpToRel(<, Nat)
    BY <1>5, WFMin, NatLessThanWellFounded, Zenon
  <2>2. \A m \in Batches : ~(m < n)
    BY <1>5, <2>1 DEF OpToRel
  <2>. QED
    BY <1>5, <2>2
<1>7. PICK d \in Beyond : d.batchNumber = n
  BY <1>6
<1>8. InRange(d, r)
  <2>1. ASSUME NEW e \in checkpoints, e.batchNumber < d.batchNumber
        PROVE  e.lastRecordId < r
    <3>1. e.batchNumber \in Nat /\ d.batchNumber \in Nat /\ e.lastRecordId \in Nat
      BY LogFacts
    <3>2. e.batchNumber \notin Batches
      BY <1>6, <1>7, <2>1, <3>1
    <3>. QED
      BY <1>4, <3>1, <3>2
  <2>. QED
    BY <1>7, <2>1 DEF InRange
<1>9. <<d.batchNumber, r>> \in finalFile
  BY <1>1, <1>8 DEF Covers
<1>. QED
  BY <1>9 DEF RowsOf

(* The file skips no row: what lies in the table below its last row is in   *)
(* it, whatever has been inserted and deleted meanwhile.                    *)
THEOREM NothingIsEverSkipped ==
    ASSUME FaultBudget["lockLoss"] = 0, FaultBudget["redisRestart"] = 0,
           FaultBudget["openInsert"] = 0
    PROVE  Spec => []NothingSkipped
BY NothingIsSkipped, CoverInvariant, FileInvariant, ProgressInvariant, PTL
=============================================================================
