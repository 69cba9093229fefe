--------------------------- MODULE ExportProperties ---------------------------
(***************************************************************************)
(* What the export pipeline promises, stated over ExportSystem.  Which of  *)
(* these hold under which faults is the subject of the MC*.cfg runs.       *)
(***************************************************************************)
EXTENDS ExportSystem

(* The checkpoint log: one row per batch, batches 1..n without a gap, record *)
(* ids strictly increasing.  loadResumeState refuses any other log, which    *)
(* would end every further run of the job in FAILED; no interleaving of      *)
(* runs, crashes, cancels and record traffic may produce one.                *)
OneCheckpointPerBatch ==
    \A c, d \in checkpoints : c.batchNumber = d.batchNumber => c = d

LogIsSound == OneCheckpointPerBatch /\ ~LogIsRefused(checkpoints)

(* The in-memory cursor of a run, however outdated, is one the log held when *)
(* the run reached it: the batches before its next one are checkpointed and  *)
(* the cursor is the last record id of the newest of them.  Otherwise a run  *)
(* skips or repeats rows.                                                    *)
InLoop == {"reconcile", "cancelCheck", "fetch", "put", "checkpoint"}

CursorInLog(w) ==
    \/ worker[w].batchNumber = 1 /\ worker[w].lastExportedId = 0
    \/ \E c \in checkpoints : /\ c.batchNumber + 1 = worker[w].batchNumber
                             /\ c.lastRecordId = worker[w].lastExportedId

CountInLog(w) ==
    worker[w].exportedRowCount =
        RowsWritten({c \in checkpoints : c.batchNumber < worker[w].batchNumber})

CursorsAreLogged ==
    \A w \in Workers : worker[w].pc \in InLoop => CursorInLog(w) /\ CountInLog(w)

(* The strengthening that makes TypeOK and LogIsSound inductive: cursors     *)
(* come from the log, a page that waits to be written lies beyond its        *)
(* cursor, and an entry that can still run has attempts left.                *)
PageIsAhead(w) == /\ Cardinality(worker[w].batch) <= BatchSize
                  /\ \A r \in worker[w].batch : worker[w].lastExportedId < r

QueueCanRun ==
    /\ queue.owner # NoWorker => queue.state = "active"
    /\ queue.state \in {"waiting", "active", "delayed"} => queue.attemptsMade < Attempts

LogInv ==
    /\ TypeOK
    /\ QueueCanRun
    /\ IsFiniteSet(checkpoints)
    /\ LogIsSound
    /\ \A w \in Workers : worker[w].pc \in InLoop => CursorInLog(w)
    /\ \A w \in Workers : worker[w].pc \in {"put", "checkpoint"} => PageIsAhead(w)

(* The progress the UI shows, last_exported_id and exported_row_count of the *)
(* row, is always a position of the log: the two never disagree with each    *)
(* other and are never ahead of the checkpoints.                             *)
ProgressIsLogged ==
    /\ job.lastExportedId \in {0} \cup {c.lastRecordId : c \in checkpoints}
    /\ job.exportedRowCount =
          RowsWritten({c \in checkpoints : c.lastRecordId <= job.lastExportedId})

(* last_exported_id never moves ahead of bytes that exist: every batch up to *)
(* the reported progress of an export that is not cancelled is in the bucket *)
(* in full, as its chunk object or in the final file.                        *)
LinesOf(b, lines) == {line \in lines : line[1] = b}

DurableProgress ==
    job.status # "CANCELLED" =>
        \A c \in checkpoints :
            c.lastRecordId <= job.lastExportedId =>
                \/ Cardinality(LinesOf(c.batchNumber, chunks)) = c.rowsWritten
                \/ Cardinality(LinesOf(c.batchNumber, finalFile)) = c.rowsWritten

(* The strengthening behind CursorsAreLogged, ProgressIsLogged and the        *)
(* refinement below: batches are numbered 1..n, ids rise with them, a page   *)
(* that waits to be logged fits the boundary and the row limit, a run that   *)
(* is past the loop has seen a full log, and nothing has begun before the    *)
(* boundary is captured.                                                     *)
Finishing == {"setVerifying", "assemble", "verify", "recordVerdict", "complete"}

BatchNumbers == {c.batchNumber : c \in checkpoints}
BatchesAreNumbered == \E n \in {0} \cup BatchNumbers : BatchNumbers = 1 .. n

LogRises ==
    \A c, d \in checkpoints :
        c.batchNumber < d.batchNumber => c.lastRecordId < d.lastRecordId

PagesFit ==
    \A w \in Workers : worker[w].pc \in {"put", "checkpoint"} =>
        /\ worker[w].exportedRowCount + Cardinality(worker[w].batch) <= RequestedRowLimit
        /\ \A r \in worker[w].batch : r <= snapshotMaxId

FullBeyondLoop ==
    \A w \in Workers :
        worker[w].pc \in Finishing => RowsWritten(checkpoints) = RequestedRowLimit

NotBegun ==
    /\ job = NoJob
    /\ checkpoints = {}
    /\ queue.state = "absent"
    /\ \A w \in Workers : worker[w].pc = "idle"
    /\ \A r \in Requests : request[r].pc = "idle"

NothingBeforeBoundary == request[Creator].pc = "snapshot" => NotBegun

ProgressInv ==
    /\ LogInv
    /\ BatchesAreNumbered
    /\ LogRises
    /\ CursorsAreLogged
    /\ PagesFit
    /\ FullBeyondLoop
    /\ ProgressIsLogged
    /\ NothingBeforeBoundary

(* The pipeline implements the promise of CheckpointLog: however runs,       *)
(* retries, crashes and cancels interleave, the checkpoints are appended in  *)
(* order, within the boundary of the create request and the row limit, none  *)
(* is changed or removed, and COMPLETED is written over a full log only.     *)
Log == INSTANCE CheckpointLog WITH log       <- checkpoints,
                                   boundary  <- snapshotMaxId,
                                   completed <- (job.status = "COMPLETED")
ImplementsLog == Log!Spec

(* A COMPLETED export is a file of exactly the first RequestedRowLimit rows  *)
(* of its snapshot, each once, and the latest verification on record passed. *)
(* For record tables whose rows up to the boundary do not change.            *)
SnapshotRows == UpTo(records, snapshotMaxId)
FirstRows == {r \in SnapshotRows : Cardinality(UpTo(SnapshotRows, r)) <= RequestedRowLimit}
RowsOf(lines) == {line[2] : line \in lines}

CompletedFileIsExact ==
    job.status = "COMPLETED" =>
        /\ RowsOf(finalFile) = FirstRows
        /\ Cardinality(finalFile) = RequestedRowLimit
        /\ StrictlyAscending(finalFile)
        /\ DownloadAllowed

(* Whatever happens to the records table meanwhile, what a COMPLETED export  *)
(* offers for download passes the audit as it is, and the latest row on      *)
(* record says so.                                                           *)
CompletedMeansVerified ==
    job.status = "COMPLETED" => Passed(finalFile) /\ DownloadAllowed

(* The file skips no row: a row of the table below the last row of the file  *)
(* is in the file.                                                           *)
NothingSkipped ==
    \A r \in records : (\E line \in finalFile : line[2] > r) => r \in RowsOf(finalFile)

(* The strengthening behind CompletedMeansVerified.  The page of a          *)
(* checkpoint are its rows_written lines, in the id range between its        *)
(* predecessors and itself.                                                  *)
InRange(c, r) == /\ r <= c.lastRecordId
                 /\ \A d \in checkpoints :
                       d.batchNumber < c.batchNumber => d.lastRecordId < r

PageIn(c, lines) ==
    /\ Cardinality(LinesOf(c.batchNumber, lines)) = c.rowsWritten
    /\ \A line \in LinesOf(c.batchNumber, lines) : InRange(c, line[2])

WholeFile(file) ==
    /\ RowsWritten(checkpoints) = RequestedRowLimit
    /\ \A c \in checkpoints : PageIn(c, file)
    /\ \A line \in file : line[1] \in BatchNumbers

(* The object of a logged batch holds its page, or is deleted.              *)
ChunksHoldPages ==
    \A c \in checkpoints : LinesOf(c.batchNumber, chunks) = {} \/ PageIn(c, chunks)

ChunkIsPut(w) ==
    worker[w].pc = "checkpoint" =>
        LinesOf(worker[w].batchNumber, chunks)
            \in {{}, {worker[w].batchNumber} \X worker[w].batch}

(* An assembly has copied the page of every batch it is past.               *)
BeforeAssembly ==
    {"idle", "load", "finalCheck", "setVerifying"} \cup BeforeTry \cup InLoop

AssemblyHoldsPages(w) ==
    /\ worker[w].pc \in {"setVerifying", "assemble"} =>
          worker[w].batchCount = Cardinality(checkpoints)
    /\ worker[w].pc \in BeforeAssembly =>
          worker[w].nextChunk = 1 /\ worker[w].assembled = {}
    /\ worker[w].pc = "assemble" =>
          /\ worker[w].nextChunk # 0
          /\ \A c \in checkpoints :
                c.batchNumber < worker[w].nextChunk => PageIn(c, worker[w].assembled)
          /\ \A line \in worker[w].assembled :
                line[1] \in BatchNumbers /\ line[1] < worker[w].nextChunk

(* Every verdict that is reached, kept or recorded is about a whole file.   *)
VerdictPasses(w) ==
    /\ worker[w].pc \in {"verify", "recordVerdict", "complete", "cleanup"} => finalFile # {}
    /\ worker[w].pc = "recordVerdict" => worker[w].verdict = "passed"
    /\ worker[w].pc = "complete" => verification = "passed"
    /\ worker[w].pc # "keepRejected"

ReauditPasses(h) ==
    /\ request[h].pc = "scan" => finalFile # {}
    /\ request[h].pc = "record" => request[h].verdict = "passed"

(* Objects, assemblies, verdicts and the file are made of the logged pages:  *)
(* what a run reads back is what was logged, and what is completed is whole. *)
FileInv ==
    /\ \A c \in checkpoints : c.lastRecordId <= snapshotMaxId
    /\ ChunksHoldPages
    /\ \A w \in Workers : ChunkIsPut(w) /\ AssemblyHoldsPages(w) /\ VerdictPasses(w)
    /\ \A h \in Handlers : ReauditPasses(h)
    /\ finalFile = {} \/ WholeFile(finalFile)
    /\ job.fileKey => finalFile # {}
    /\ job.status = "COMPLETED" => job.fileKey /\ verification = "passed"

(* The strengthening behind NothingSkipped: a page, in a run, an object, an  *)
(* assembly or the file, has every row of the table in its range.           *)
Covers(c, lines) ==
    \A r \in records : InRange(c, r) => <<c.batchNumber, r>> \in lines

PageCovers(w) ==
    \A r \in records :
        worker[w].lastExportedId < r /\ (\E q \in worker[w].batch : r <= q)
            => r \in worker[w].batch

(* No page leaves out a row of its range, wherever the page is on its way.   *)
CoverInv ==
    /\ openInserts = {}
    /\ snapshotMaxId < nextRecordId /\ \A r \in records : r < nextRecordId
    /\ \A c \in checkpoints : LinesOf(c.batchNumber, chunks) = {} \/ Covers(c, chunks)
    /\ \A w \in Workers :
          /\ worker[w].pc \in {"put", "checkpoint"} => PageCovers(w)
          /\ worker[w].pc = "assemble" =>
                \A c \in checkpoints :
                    c.batchNumber < worker[w].nextChunk => Covers(c, worker[w].assembled)
    /\ finalFile # {} => \A c \in checkpoints : Covers(c, finalFile)

(* The strengthening behind DurableProgress, first: the table holds enough   *)
(* rows.  A job begins only if it does, every page is as long as its number  *)
(* says, and beyond each page lie the rows that are still asked for.         *)
PageSize(b) ==
    LET remaining == RequestedRowLimit - RowsWritten({c \in checkpoints : c.batchNumber < b})
    IN  IF BatchSize <= remaining THEN BatchSize ELSE remaining

RowsUpTo(b) == RowsWritten({c \in checkpoints : c.batchNumber <= b})
EnoughBeyond(id, rows) == Cardinality(Eligible(id)) + rows >= RequestedRowLimit

(* A run is never left short: the table has the rows asked for, every page   *)
(* is as long as its number says, and enough rows follow it.                 *)
EnoughInv ==
    /\ \/ NotBegun /\ request[Creator].pc \in {"snapshot", "create", "done"}
       \/ CountRecordsWithinSnapshot >= RequestedRowLimit
    /\ \A c \in checkpoints : /\ c.rowsWritten = PageSize(c.batchNumber)
                              /\ EnoughBeyond(c.lastRecordId, RowsUpTo(c.batchNumber))
    /\ \A w \in Workers : worker[w].pc \in {"put", "checkpoint"} =>
          LET rows == Cardinality(worker[w].batch)
          IN  /\ rows = PageSize(worker[w].batchNumber)
              /\ \A id \in worker[w].batch :
                    BatchLastId(w, id) => EnoughBeyond(id, worker[w].exportedRowCount + rows)

(* Second: nobody cancels, and no object of a logged batch shrinks or goes  *)
(* before a file with all its lines is there.                               *)
Stored(b, rows, lines) == Cardinality(LinesOf(b, lines)) = rows
Kept(b, rows) ==
    Stored(b, rows, chunks) \/ (finalFile # {} /\ LinesOf(b, chunks) = {})

NobodyCancels ==
    /\ ~job.cancelRequested
    /\ \A r \in Requests : request[r].pc \notin {"flag", "flagAndCancel"}
    /\ \A w \in Workers : worker[w].pc \notin {"cancelEarly", "cancelWrite", "cancelCleanup"}

AssemblyIsStored(w) ==
    /\ worker[w].pc \in {"setVerifying", "assemble"} =>
          worker[w].batchCount = Cardinality(checkpoints)
    /\ worker[w].pc \in BeforeAssembly =>
          worker[w].nextChunk = 1 /\ worker[w].assembled = {}
    /\ worker[w].pc = "assemble" =>
          /\ \A c \in checkpoints : c.batchNumber < worker[w].nextChunk =>
                Stored(c.batchNumber, c.rowsWritten, worker[w].assembled)
          /\ \A line \in worker[w].assembled : line[1] < worker[w].nextChunk

(* Every logged page has its lines in the bucket or in the file, and every   *)
(* run and assembly on its way to the file has what it needs for that.       *)
DurableInv ==
    /\ NobodyCancels
    /\ \A c \in checkpoints : c.rowsWritten # 0 /\ Kept(c.batchNumber, c.rowsWritten)
    /\ \A w \in Workers :
          /\ worker[w].pc \in {"put", "checkpoint"} => worker[w].batch # {}
          /\ worker[w].pc = "checkpoint" =>
                Kept(worker[w].batchNumber, Cardinality(worker[w].batch))
          /\ AssemblyIsStored(w)
          /\ worker[w].pc \in {"verify", "recordVerdict", "complete", "cleanup"} =>
                finalFile # {}
    /\ finalFile # {} =>
          /\ RowsWritten(checkpoints) = RequestedRowLimit
          /\ \A c \in checkpoints : Stored(c.batchNumber, c.rowsWritten, finalFile)

(* The strengthening behind CompletedFileIsExact, together with EnoughInv,  *)
(* FileInv and CoverInv: what is exported are rows of the table, and a      *)
(* checkpoint counts the rows in its range.                                 *)
ExactInv ==
    /\ RowsOf(chunks) \subseteq records /\ RowsOf(finalFile) \subseteq records
    /\ \A w \in Workers :
          worker[w].batch \subseteq records /\ RowsOf(worker[w].assembled) \subseteq records
    /\ \A c \in checkpoints :
          /\ c.lastRecordId \in records
          /\ Cardinality({r \in records : InRange(c, r)}) = c.rowsWritten

(* The queue keeps runs apart: while no worker loses a lock it needs and     *)
(* Redis keeps the entry, at most one worker is inside runExportJob.         *)
Busy == {w \in Workers : worker[w].pc # "idle"}
AtMostOneRun == \A v, w \in Busy : v = w

(* A job nobody works on any more, because a handler was cut off between two *)
(* of its calls, can be taken up again by its owner: it is not left in a     *)
(* status that resume refuses.  For jobs no run has brought to a verdict,    *)
(* processes that do not die in a run, and users who do not both cancel and  *)
(* resume the job.                                                           *)
Asked(op) == \E r \in Requests : request[r].op = op

Abandoned ==
    /\ Busy = {}
    /\ queue.state \notin {"waiting", "active", "delayed"}
    /\ \A h \in Handlers : request[h].pc \in {"idle", "done"}

RunsUndisturbed == faults["crash"] + faults["error"] = 0
Undecided == verification = "none" /\ ~(Asked("cancel") /\ Asked("resume"))

AbandonedIsResumable ==
    Abandoned /\ RunsUndisturbed /\ Undecided =>
        job.status \in RESUMABLE_FOR_USER \cup {"ABSENT", "COMPLETED", "CANCELLED"}

(* The strengthening behind AbandonedIsResumable.  A handler is at a label   *)
(* of its operation.                                                         *)
OpsFit ==
    \A r \in Requests :
        /\ request[r].op # "create"
        /\ request[r].pc = "idle" => request[r].op = "none"
        /\ request[r].pc \in {"markResuming", "inspect", "remove", "add"}
               => request[r].op = "resume"

(* A job that is never resumed is run once, and its objects are there until  *)
(* that run is over.                                                         *)
SingleRun ==
    /\ queue.state \in {"absent", "waiting", "active", "completed"}
    /\ queue.state = "absent" \/ request[Creator].pc \in {"markQueued", "done"}
    /\ queue.state \in {"absent", "waiting"} => Busy = {} /\ checkpoints = {}
    /\ queue.state = "active" => OwnerIsAlive
    /\ \A w \in Workers :
          /\ worker[w].pc \notin {"threw", "failThrow", "assemblyFailed"}
          /\ worker[w].pc \in {"put", "checkpoint"} => worker[w].batch # {}
          /\ worker[w].pc = "checkpoint" => ChunkExists(worker[w].batchNumber)
    /\ \/ \A c \in checkpoints : ChunkExists(c.batchNumber)
       \/ \A w \in Workers : worker[w].pc \in {"idle", "returned"}

(* A run that claimed the job has yet to write what becomes of it.           *)
ClaimedPc == ({"start", "failThrow"} \cup InTry) \ {"cancelCleanup", "assemblyFailed", "cleanup"}

(* A job in progress has a run that will write its outcome: no assembly of   *)
(* an undisturbed run misses a chunk and takes its process down.             *)
OutcomeInv ==
    /\ OpsFit
    /\ RunsUndisturbed /\ ~Asked("resume") => SingleRun
    /\ RunsUndisturbed /\ Undecided =>
          /\ \A w \in Workers : worker[w].pc # "assemblyFailed"
          /\ finalFile # {} => \E w \in Workers : worker[w].pc \in {"verify", "recordVerdict"}
          /\ job.status \in {"RUNNING", "VERIFYING"} =>
                \E w \in Workers : worker[w].pc \in ClaimedPc

-----------------------------------------------------------------------------
(* What the user is told of an interrupted job is true of it: the message    *)
(* "after n of m rows" is made of the row the sweeper listed, and whatever   *)
(* workers, resumes and cancels did since, n are the rows of the job that is *)
(* marked.  A worker that wrote a batch after the listing keeps its job.     *)
BecomesInterrupted == job.status # "INTERRUPTED" /\ job'.status = "INTERRUPTED"
InterruptedAsListed ==
    [][BecomesInterrupted => job.exportedRowCount = sweeping.exportedRowCount]_vars

(* Finished is final once nobody acts on an older row: while no handler and  *)
(* no run is between reading the row and writing it, no delivery of a queue  *)
(* entry, no request and no sweep takes a job out of COMPLETED or CANCELLED, *)
(* nor starts anything that later would.                                     *)
NoDecisionPending ==
    /\ \A w \in Workers : worker[w].pc \in {"idle", "read", "returned", "threw"}
    /\ \A r \in Requests : request[r].pc \notin {"markResuming", "flag", "flagAndCancel"}
    /\ request[Creator].pc = "done"

FinishedForGood == job.status \in {"COMPLETED", "CANCELLED"} /\ NoDecisionPending

FinishedStaysFinished == [][FinishedForGood => FinishedForGood' /\ job' = job]_vars

(* What no request does, a client has to expect: only workers and the sweep  *)
(* move the job then, to RUNNING only what may be claimed, to INTERRUPTED    *)
(* only what runs, and to nothing else what no run has claimed yet.          *)
MovesAreShown ==
    [][request' = request =>
           \/ job'.status = job.status
           \/ <<job.status, job'.status>> \in JobMoves]_vars

(* Cancelled is final: a cancelled export is never resumed or run again.     *)
CancelledIsFinal == [][job.status = "CANCELLED" => job'.status = "CANCELLED"]_vars

(* Completed is final: there is nothing left to run, queue or resume.        *)
CompletedIsFinal == [][job.status = "COMPLETED" => job'.status = "COMPLETED"]_vars

-----------------------------------------------------------------------------
(* A RUNNING job nobody runs does not stay so: it is swept to INTERRUPTED or *)
(* taken over.                                                               *)
DeadRunIsNoticed ==
    (job.status = "RUNNING" /\ Busy = {}) ~> (job.status # "RUNNING" \/ Busy # {})

(* A job somebody has claimed reaches a status the user can act on or read   *)
(* as an outcome; it does not hang in between.                               *)
Settled == {"INTERRUPTED", "COMPLETED", "FAILED", "CANCELLED"}
RunsSettle == (job.status \in {"RUNNING", "VERIFYING"}) ~> (job.status \in Settled)

(* An accepted resume is followed by a run.                                  *)
ResumeIsServed == (job.status = "RESUMING") ~> (job.status # "RESUMING")

(* Left alone, an export is delivered: a created job ends up with a file     *)
(* that passed the audit, however slow its worker is and whatever the sweeper *)
(* and resume requests do meanwhile; only a fault or a cancel excuses it.    *)
FaultHappened == \E k \in FaultKinds : faults[k] > 0
CancelAsked == job.cancelRequested \/ job.status = "CANCELLED"

ExportIsDelivered ==
    (job.status # "ABSENT") ~> (verification = "passed" \/ FaultHappened \/ CancelAsked)

(* A failed attempt that BullMQ retries is not dropped: a run claims the job *)
(* again, unless the user has asked to cancel it or the attempts run out.    *)
(* The status FAILED by itself is not in the way of the attempts left.       *)
RetryIsServed ==
    (queue.state = "delayed" /\ job.status = "FAILED")
        ~> (job.status = "RUNNING" \/ job.cancelRequested \/ queue.state = "failed")
=============================================================================
