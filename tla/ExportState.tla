----------------------------- MODULE ExportState -----------------------------
(***************************************************************************)
(* The state the parts of ExportVault share: one export job with its rows  *)
(* in Postgres, its objects in the S3 bucket, its BullMQ entry in Redis,   *)
(* the records table it exports, and the position of every process that    *)
(* works on it.  Rows, objects and queue entries are all keyed by the job  *)
(* id, so jobs do not share state and one job is modelled.                 *)
(***************************************************************************)
EXTENDS Naturals, FiniteSets, JobStatus

CONSTANTS
    Workers,            \* slots that may run the job: processes x WORKER_CONCURRENCY
    NoWorker,           \* the owner of an entry nobody has locked
    Creator,            \* the POST /api/exports request that creates the job
    Requests,           \* later requests for the job, each handled once
    RequestKinds,       \* what they may ask for: "resume", "cancel", "verify"
    RequestedRowLimit,  \* requested_row_limit of the job
    BatchSize,          \* batch_size of the job
    InitialRecords,     \* rows 1..InitialRecords are there before the request
    MaxRecordId,        \* bound: ids the records sequence may hand out
    Attempts,           \* BullMQ attempts
    MaxStalledCount,    \* BullMQ maxStalledCount
    FaultBudget         \* bound: how often each kind of fault may occur

FaultKinds == {"crash", "error", "lockLoss", "redisRestart", "abort", "delete",
               "openInsert"}

ASSUME StateAssumption ==
    /\ NoWorker \notin Workers
    /\ Creator \notin Requests
    /\ RequestKinds \subseteq {"resume", "cancel", "verify"}
    /\ RequestedRowLimit \in Nat \ {0}
    /\ BatchSize \in Nat \ {0}
    /\ InitialRecords \in Nat
    /\ MaxRecordId \in Nat
    /\ InitialRecords <= MaxRecordId
    /\ Attempts \in Nat \ {0}
    /\ MaxStalledCount \in Nat
    /\ FaultBudget \in [FaultKinds -> Nat]

VARIABLES
    job,            \* the export_jobs row
    snapshotMaxId,  \* its snapshot_max_id, written once by the create request
    checkpoints,    \* the export_checkpoints rows
    verification,   \* passed of the latest export_verifications row
    chunks,         \* lines of the chunk objects, as <<batch number, record id>>
    finalFile,      \* data lines of the assembled CSV, {} while there is none
    records,        \* committed ids of the records table
    openInserts,    \* ids taken from the sequence by transactions still open
    nextRecordId,   \* next value of the records id sequence
    queue,          \* the BullMQ entry whose job id is the export job id
    worker,         \* position and local variables of each worker slot
    request,        \* position of each API request
    sweeping,       \* the row the sweeper has listed and not yet marked, or NoSweep
    faults          \* faults of each kind that have occurred

jobVars     == <<job, snapshotMaxId, checkpoints, verification>>
storageVars == <<chunks, finalFile>>
recordVars  == <<records, openInserts, nextRecordId>>
vars == <<jobVars, storageVars, recordVars, queue, worker, request, sweeping, faults>>

-----------------------------------------------------------------------------
(* The export_jobs row.  heartbeat abstracts updated_at: every update makes *)
(* it "fresh"; "stale" is older than the stall timeout now; "listed" is     *)
(* older than the cutoff a running sweep computed.  startedAt and fileKey:  *)
(* whether the column is set.  ABSENT: no row yet.                          *)

ExportJob == [status           : ExportStatus \cup {"ABSENT"},
              cancelRequested  : BOOLEAN,
              lastExportedId   : Nat,
              exportedRowCount : Nat,
              startedAt        : BOOLEAN,
              fileKey          : BOOLEAN,
              heartbeat        : {"fresh", "stale", "listed"}]

NoJob == [status |-> "ABSENT", cancelRequested |-> FALSE, lastExportedId |-> 0,
          exportedRowCount |-> 0, startedAt |-> FALSE, fileKey |-> FALSE,
          heartbeat |-> "fresh"]

(* An update of the row that sets its status; @updatedAt makes it fresh.    *)
WithStatus(s) == [job EXCEPT !.status = s, !.heartbeat = "fresh"]

HeartbeatExpired == job.heartbeat # "fresh"

(* What a sweep keeps of the row it listed, for the error message.          *)
SweptRow == [listed : BOOLEAN, exportedRowCount : Nat]

NoSweep == [listed |-> FALSE, exportedRowCount |-> 0]

(* The stall timeout passes without an update of the row.  Only a RUNNING   *)
(* row is ever tested for staleness, so only its heartbeat ages.            *)
HeartbeatExpires ==
    /\ job.status = "RUNNING"
    /\ job.heartbeat = "fresh"
    /\ job' = [job EXCEPT !.heartbeat = "stale"]
    /\ UNCHANGED <<snapshotMaxId, checkpoints, verification, storageVars, recordVars,
                   queue, worker, request, sweeping, faults>>

-----------------------------------------------------------------------------
(* export_checkpoints, and what a reader derives from it.                   *)

ExportCheckpoint == [batchNumber : Nat, lastRecordId : Nat, rowsWritten : 0 .. BatchSize]

(* Sum of rows_written: the rows of the log, counted one by one.            *)
RowsWritten(log) ==
    Cardinality({row \in log \X (1 .. BatchSize) : row[2] <= row[1].rowsWritten})

IsLast(c, log) == c \in log /\ \A d \in log : d.batchNumber <= c.batchNumber

HasGap(log) ==
    \E c \in log : /\ c.batchNumber # 1
                   /\ \A d \in log : d.batchNumber + 1 # c.batchNumber

NotIncreasing(log) ==
    \/ \E c \in log : c.lastRecordId = 0
    \/ \E c, d \in log : /\ d.batchNumber = c.batchNumber + 1
                         /\ d.lastRecordId <= c.lastRecordId

(* loadResumeState throws on a log it cannot trust.                         *)
LogIsRefused(log) == HasGap(log) \/ NotIncreasing(log)

-----------------------------------------------------------------------------
(* Budgets for what the environment may do.                                 *)

CanFail(kind) == faults[kind] < FaultBudget[kind]
Spend(kind)   == faults' = [faults EXCEPT ![kind] = @ + 1]

IdleWorker == [pc |-> "idle", batchNumber |-> 0, lastExportedId |-> 0,
               exportedRowCount |-> 0, batch |-> {}, batchCount |-> 0,
               nextChunk |-> 1, assembled |-> {}, verdict |-> "none"]

NoEntry == [state |-> "absent", owner |-> NoWorker, attemptsMade |-> 0, stalledCount |-> 0]

Handlers == Requests \cup {Creator}

Init ==
    /\ job = NoJob
    /\ snapshotMaxId = 0
    /\ checkpoints = {}
    /\ verification = "none"
    /\ chunks = {}
    /\ finalFile = {}
    /\ records = 1 .. InitialRecords
    /\ openInserts = {}
    /\ nextRecordId = InitialRecords + 1
    /\ queue = NoEntry
    /\ worker = [w \in Workers |-> IdleWorker]
    /\ request = [h \in Handlers |->
                    IF h = Creator THEN [op |-> "create", pc |-> "snapshot", verdict |-> "none"]
                                   ELSE [op |-> "none", pc |-> "idle", verdict |-> "none"]]
    /\ sweeping = NoSweep
    /\ faults = [k \in FaultKinds |-> 0]
=============================================================================
