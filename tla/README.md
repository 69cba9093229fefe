# A formal model of ExportVault

ExportVault exports a snapshot of a large table to one CSV file. The API accepts
the request and queues it, a worker process writes the rows batch by batch to
object storage, keeps a checkpoint log in Postgres, and at the end assembles and
audits the file. The promise is that the export survives a killed worker without
losing or repeating a row. This directory holds TLA+ modules of that pipeline and
of what surrounds it (the host that puts the worker to sleep, the text of the file
and its audits, accounts, the browser), the instances TLC checks, and proofs that
TLAPS checks.

## 1. Inventory of the system

Paths are relative to `src/`; `S` stands for `server/src`, `C` for `client/src`.

| Component | State it keeps | Operations that change state | Interacts with | What is hard | What makes it correct |
|---|---|---|---|---|---|
| Export worker `S/services/exportRunner.service.ts`, `exportResume.service.ts` | locals of a run: cursor, batch number, row count, page; writes `export_jobs`, `export_checkpoints`, objects | `claimJob`, `loadResumeState`, `reconcileJobProgress`, batch loop, `assembleFinalCsv`, `failJob`, catch block | Postgres, S3, BullMQ (caller) | dies anywhere; any call may fail; two runs of one job after a lost lock; resumes from a log others wrote | log never refused, cursor always in the log, progress never ahead of bytes, COMPLETED only with an exact file |
| Records table and reader `S/services/recordSource.service.ts` | rows, id sequence | queries only; other clients insert and delete | worker, create request | rows come and go while an export runs; ids are handed out before commit | no row of the snapshot skipped or repeated |
| Queue `S/queues/export.queue.ts`, BullMQ worker `S/workers/export.worker.ts` | one BullMQ entry per job id: state, lock, attempts, stalls | `enqueueExportJob`, processor result, backoff, stalled checker | API, worker, Redis | three Redis calls per enqueue; lock of a live worker lost; Redis restarting empty | one run at a time while locks hold; a retry is not dropped; what nobody works on can be resumed |
| Export API `S/services/export.service.ts`, controllers and routes | none of its own; reads a row, writes later | create, resume, cancel, verify, download | everything | each handler decides on a row that may have changed by the time it writes; handlers are cut off | cancelled and completed are final; an accepted resume is served |
| Verification `S/services/exportVerification.service.ts` | `export_verifications`, the counters of its loop | `verifyExportFile`, `verifyExportJobById` | S3, csv-parse, worker, API | the file may change between audit and use; a dozen counters whose order of updates matters | COMPLETED means the file passes; the counters amount to what the whole file deserves |
| Sweeper `S/services/stalledJobs.service.ts` | timer | `sweepStalledExports` | Postgres | list, then update: the worker may revive in between | only untouched runs are interrupted, with the row count their message names; dead ones are noticed |
| Object storage `S/services/storage.service.ts` | chunk objects, final CSV | verified put, streamed upload, paged delete, `assertStorageReady` | worker | delete stops half way; upload fails unobserved | chunks exist as long as a run may need them |
| Worker wake-up `S/queues/workerWake.ts` | `inFlight` | `wakeWorker` | queue, worker host | a request that was joined fails, or was answered too early | some wake follows every enqueue |
| Worker host: `S/worker.ts`, `S/workers/health.server.ts`, `render.yaml` | process, verified dependencies, idle period | start-up, SIGTERM, health endpoint, restart | BullMQ, the three dependencies, wake-up | goes to sleep while a job arrives; dies during start-up | no job is left to a sleeping host; no job runs before the dependencies answer |
| CSV writer `S/utils/csv.ts`, audit of a download `scripts/auditLiveExport.mjs` | none | pure | worker, S3, csv-parse | quoting; two auditors without shared code | what is read is what was written; the auditors agree |
| Authentication `S/services/auth.service.ts`, `S/middleware/auth.middleware.ts` | `users`, tokens | register, login, me | every route | check of the address and insert are two calls | one account per address, with the password that was answered with 201 |
| Browser client `C/contexts/AuthContext.tsx`, `C/api/client.ts`, `C/pages`, `C/components/ProtectedRoute.tsx` | stored token, user, status, query cache | restore, login, register, logout, open, create, poll, resume, cancel | API | answers arrive after the state they were asked in; polling stops by itself | the user shown owns the token; the page catches up with the job |
| Failure records, rate limiters, middleware, serialisers, logger, data generator | small or none | - | - | - | - |

The components call each other over HTTP (client, wake-up), through Redis (queue)
and through rows of Postgres and objects in S3, which they share without locks.

The hazards of this code are listed, each at its line, in `PROJECT.json`.

## 2. Modules

There are four groups. They share no variable; each is as large as what its
properties relate.

| Group | Modules | System |
|---|---|---|
| pipeline | `JobStatus`, `ExportState`, `RecordSource`, `ExportQueue`, `ExportVerification`, `ExportWorker`, `ExportApi`, `StalledSweeper`, `ExportSystem`, `ExportProperties`; abstract: `CheckpointLog` | one export from create to verified file |
| host | `WorkerHost`, `WorkerWake` | several jobs and the process that must be up to run them |
| file | `CsvText`, `VerificationScan`, `ExportFile`; abstract: `FileAudit` | the text of one file, its writer and its auditors |
| client | `Accounts`, `BrowserSession`, `ExportPage` | one browser tab, one other client and the API between them |

A group takes from another only its outcome: a run is one step of the host
(`TakeJob` to `FinishJob`), the verdict of the file group is the operator `Passed`
of the pipeline, and `JobMoves` in `JobStatus` are the changes of status that the
pipeline shows to a client. The page follows `JobMoves`; that the pipeline keeps to
them is the property `MovesAreShown`.

The modules of the pipeline share one state (`ExportState`) because the components
share it in the program: the Postgres rows, the bucket and the Redis entry of a
job. Rows, objects and entries are keyed by the job id, so one job is modelled
there; jobs meet in the worker slots and in the process that holds them, and that
is what the host group is about.

| Module | Models | Actions and the code they stand for |
|---|---|---|
| `JobStatus` | `ExportStatus` of `prisma/schema.prisma`; the writes of `runExportJob` and the sweep to `status` | constants only, shared by the pipeline and the client |
| `ExportState` | `prisma/schema.prisma`, derived values of the log, budgets, `Init` | `HeartbeatExpires`: the stall timeout passes without an update of a RUNNING row |
| `RecordSource` | `recordSource.service.ts` and other clients | `InsertRecord`, `BeginInsert`/`CommitInsert` (id taken now, committed later), `DeleteRecord` |
| `ExportQueue` | `export.queue.ts`, `export.worker.ts`, BullMQ | `PickUp`, `ProcessorReturns`, `ProcessorThrows`, `BackoffElapses`, `ReclaimFromDead`, `ReclaimFromLive` (lost lock), `RedisRestarts`; `InspectEntry`, `RemoveEntry`, `AddEntry` are the three Redis calls of `enqueueExportJob` |
| `ExportVerification` | `exportVerification.service.ts`, download guard | operators `Passed`, `Verdict`, `DownloadAllowed` |
| `ExportWorker` | `exportRunner.service.ts`, `exportResume.service.ts`, storage calls | one action per awaited statement of `runExportJob`, in order: `ReadJob`, `CancelBeforeStart`, `ClaimJob`, `SetStartedAt`, `LoadResumeState`, `ReconcileJobProgress`, `IsCancelRequested`, `CancelMidRun`, `DeleteChunks`, `FetchRecordBatch`, `PutChunk`, `Checkpoint`, `CrossCheckLog`, `SetVerifying`, `AssembleChunk`, `UploadFinalCsv`, `AssemblyFails`, `VerifyExportFile`, `RecordVerdict`, `KeepRejectedFile`, `CompleteJob`, `FailJob`; faults `StepThrows`, `DeleteChunksThrows`, `Crash` |
| `ExportApi` | `export.service.ts`, `verifyExportJobById` | `CaptureSnapshotMaxId`, `CreateExportJob`, `MarkQueued`; `ResumeRead`, `MarkResuming`; `CancelRead`, `CancelWrite`; `VerifyRead`, `VerifyScan`, `VerifyRecord`; `RequestAborts` |
| `StalledSweeper` | `stalledJobs.service.ts` | `ListStalled`, `MarkInterrupted`, `SweepAborts` |
| `ExportSystem` | composition | `TypeOK`, `Next`, `Spec`, `Fairness`, `FairSpec` |
| `ExportProperties` | - | the properties, and the refinement mapping `Log` |
| `CheckpointLog` | - | abstract: a log of pages that grows at its end, within a boundary and a row limit; completed over a full log only |
| `WorkerHost` | `worker.ts`, `health.server.ts`, connection checks, platform, BullMQ for several jobs | `HostStarts`, `AssertDatabaseConnection`, `AssertRedisConnection`, `AssertStorageReady` and its other outcomes, `MainFails`, `HostRestarts`; `TakeJob`, `FinishJob`, `RunThrows`, `ReclaimStalled`; `IdlePeriodPasses`, `Shutdown`, `ProcessEnds`, `ProcessCrashes` |
| `WorkerWake` | `export.queue.ts`, `workerWake.ts` | the Redis calls of `enqueueExportJob`, `WakeWorker` (send or join), `WakeArrives`, `HealthAnswers`, `WakeSettles`, `WakeFails`, `ApiDies` |
| `CsvText` | `csv.ts`; csv-parse (external); the parser of `auditLiveExport.mjs` | operators: `EscapeCsvField`, `SerializeCsvRow`, `SerializeCsvChunk`, `CsvHeader`; the two parsers are steps (`ScriptChar`, `CsvParseChar`) that `Read` takes over a text |
| `VerificationScan` | the loop of `verifyExportFile` | `HeadObject`, `ReadHeader`, `SkipMalformed`, `CountRow` with its two outcomes, `StreamEnds` (problems and recorded row), `StreamFails` |
| `FileAudit` | - | abstract: the report a whole file deserves |
| `ExportFile` | a written file on its way to both auditors | `FileOf`, `ScriptAccepts`; an id as `BigInt` (server) and as `Number` (script: `TwiceNumber`) reads it |
| `Accounts` | `auth.service.ts`, `auth.middleware.ts` | `FindExisting`, `CreateUser`, `LoginUser`, `Me`; from outside `CallFails`, `OtherRegisters`, `TokenExpires` |
| `BrowserSession` | `AuthContext.tsx`, `client.ts`, login and register pages | `Restore`, `RestoreAnswered`, `Submit`, `RegisterAnswered`, `LoginAnswered`, `Logout` |
| `ExportPage` | pages of one export, `ProtectedRoute` | `OpenPage`, `CreateExport`, `Poll`, `PollAnswered`, `ClickAction`, `ActionAnswered`, `Redirect`, `Reload`; the handlers as the client sees them: `HandleCreate`, `HandleFetch`, `HandleAction`, `HandleLateAction`; `JobStep` |
| `MCExport`, `MCWake`, `MCFile`, `MCClient` | - | values and symmetry for TLC |
| `ExportProofs`, `ProgressProofs`, `FileProofs`, `ExactProofs`, `WakeProofs`, `CsvProofs`, `ScanProofs`, `SessionProofs` | - | theorems, in section 4 |

`ExportWorker` and `ExportApi` extend `RecordSource`, `ExportQueue` and
`ExportVerification`, which extend `ExportState`; `ExportSystem` joins them with
`StalledSweeper`. `WorkerWake` extends `WorkerHost`; `ExportFile` extends
`VerificationScan` and `CsvText`; `ExportPage` extends `BrowserSession`, which
extends `Accounts`, and `JobStatus`, as `ExportState` does. An operator whose comment begins with "Faulty variant" is used
by no specification: it shows that a property would notice a bug.

### Correspondence that needs a word

Pipeline

- **Position.** `worker[w].pc` is the statement a run will execute next; the
  locals of `runExportJob` are the other fields. A handler of the API is the
  record `request[h]`, the same way. Between two actions any other process may
  step: exactly the points where the program awaits.
- **Rows and files.** A line of an object is `<<batch number, record id>>`; the
  content of a record does not influence control flow.
- **Heartbeat.** `updated_at` matters in comparisons with a cutoff only: `fresh`,
  `stale` (older than the timeout now), `listed` (older than the cutoff of the
  sweep in progress). Every Prisma `update` makes it fresh.
- **Sweep.** `sweeping` is what the sweep keeps of the row it has listed: that it
  did, and the row count its message names.
- **Queue.** `queue` is the BullMQ entry. A crashed owner is an owner that is
  idle; the stalled checker then takes the entry back. A worker that lost its
  lock runs on, and its result no longer moves the entry.
- **Errors.** `StepThrows` is a call that fails without effect. A call that takes
  effect and then reports an error is the same as success followed by a failure
  at the next label, so it needs no action. `deleteChunks` may fail after any
  page. The failed assembly is a case of its own: the upload promise rejects with
  nobody awaiting it and may end the process (`AssemblyFails`).
- **Merged steps.** `getJob` and `getState`; the read and write of
  `reconcileJobProgress`; listing and deleting in `deleteChunks`; put and head in
  `putObjectVerified` (a head that disagrees is a failure at the next label);
  `failJob` and `recordExportFailure`, which never throws. The boundary and the
  count in `createExportJob` are two steps.
- **Crashes.** A crash ends one slot. A process that holds several slots crashes
  as several crashes in a row.
- **Lost Redis.** The free plan of `render.yaml` runs Redis in memory; with the
  append-only file of `docker-compose.yml` the fault does not occur, and a budget
  of 0 models that.

Host

- **One process.** The free plan runs one worker instance. A host that is
  `asleep` starts when a request reaches it; one that has `exited` is restarted by
  the platform. A wake is `sent`, `held` by the proxy while the process starts,
  then `answered`; `wakeWorker` learns of the answer in `WakeSettles`.
- **A run is one step**: it ends (`FinishJob`), throws (`RunThrows`) or dies with
  the process. What happens inside is the pipeline's subject.
- **`excused`** is a history variable and guards nothing. It holds the jobs that
  the host went down on while no request was coming, and those whose wake was
  lost while it was down. The code has no answer to either but the next enqueue,
  so these jobs wait for one.

File

- **Texts** are sequences of characters, and two of the nine columns appear: the
  id and the one `hostileName` fills. `CSV_COLUMNS` has one-character names.
- **Ids.** `BigInt`, with which the server reads an id, is 0 for the empty text and
  throws on one with another character than a digit, as in JavaScript. The script
  uses `Number`: where `BigInt` throws, it gives NaN, which is unordered ("x"), or an
  ordinary number ("1.0", "2.5"). `NumberTwice` is that number times two, since
  halves are all the fractions needed. Above 2^53, where `Number` rounds, is left
  out (`NumberAssumption`).
- **csv-parse** is external: rows of a width other than the header's make it fail
  unless all lines have that width; quotes are read as RFC 4180 says. Its option
  to skip a byte order mark is left out: the writer writes none.

Client

- **An account is known by its address**; `None` is null. A password is stored as
  given, since bcrypt and JWT are library code. Hashing awaits, which is why
  `register` has two steps.
- **Calls.** Each place of the browser that calls the API has one call
  outstanding (`calls`). A call is sent with the token stored then, handled when
  the server gets to it, and its answer taken when the browser gets to it. It may
  fail before it is handled, or take effect and lose its answer (`CallFails`).
- **`acted`** follows an accepted resume or cancel: it is `fetched` when the server
  has answered a fetch of the page that it handled after the action was answered,
  and `none` when that answer is on the page. An answer to an older fetch does not count.
- **`overtaken`** and **`registered`** are history variables: a form answered
  while the restore was outstanding; the accounts that were answered with 201.
- **React Query** is external: one fetch of a query at a time, two repetitions of
  a fetch that failed without a 4xx, and an invalidation drops the fetch under
  way. `FetchAssumption` keeps the bound on outside events within the repetitions.
- **One tab.** `localStorage` is shared by the tabs of a browser; a second tab
  could replace the token under the first. The model has one tab.

## 3. Runs

| Run | Instance | Shows |
|---|---|---|
| `MCOverlap` | 2 workers, 1 request, one lost lock and one error, 5 records | `CursorsAreLogged`, `ProgressIsLogged`, `CompletedFileIsExact` with its strengthening `ExactInv`, although two runs write the job; `ImplementsLog`: the pipeline implements `CheckpointLog`; `MovesAreShown`: the status changes by itself only as the page expects |
| `MCDurable` | 2 workers, 1 resume, one crash, one Redis restart, one late commit; the table grows from 1 to 4 records around the request | `DurableProgress` and `LogIsSound`, with the strengthenings `EnoughInv` and `DurableInv`, also when overlapping runs page over different rows and the audit rejects the file |
| `MCChurn` | 2 workers, 1 request (resume, cancel or verify), one delete, one error, one aborted handler, inserts | `CompletedMeansVerified`, `NothingSkipped`, `AbandonedIsResumable`, and the strengthenings `ProgressInv`, `FileInv`, `CoverInv`, `OutcomeInv` |
| `MCNoticed` | 2 workers, 1 request, one crash, one error; fair | `TypeOK`, `AtMostOneRun`, `InterruptedAsListed`, `FinishedStaysFinished`; liveness `DeadRunIsNoticed`, `RetryIsServed`, `ExportIsDelivered` |
| `MCWake` | 2 calls, 2 jobs, 1 slot, each fault once; fair | `WakeInv`, `OneWakeInFlight`, `NoStrandedJob`, `JobsOnlyWhenVerified`; liveness `QueuedIsServed` |
| `MCFile` | files of up to 3 rows, with rows lost, repeated, unordered, beyond the boundary, of another width, with a corrupt id or one with a decimal, under the right header, a narrower one, or none | `ScanInv`, `ReadBackAsWritten`, `AuditorsAgree`; `ImplementsAudit`: the scan implements `FileAudit` |
| `MCClient` | 1 tab, another client, 3 spellings of 2 addresses, 2 tokens, 1 outside event, 2 acts of the user; fair | `RegistrationsStand`, `ShownUserOwnsToken`, `AnonymousHoldsNoToken` and `SessionInv`, which strengthens them and holds the types (`PageTypeOK`); liveness `SessionDecides`, `PageCatchesUp`, `ActionIsShown` |

### Bounds

- **Pipeline.** `RequestedRowLimit = 3` with `BatchSize = 2` gives a full page and
  a short last page, the smallest case with a page boundary inside the file.
  `Attempts = 2` and `MaxStalledCount = 1` (3 and 3 in the code) are the smallest
  values at which a retry and a reclaim happen and the limits are reached. Two
  workers are enough for every overlap, as properties relate at most two runs.
  One or two requests beside create are enough to place a read before and a write
  after another request. `FaultBudget` bounds each kind of fault; a fault that
  would have to occur twice in one behaviour is outside the instance.
  `MaxRecordId` bounds inserts.
  `MCOverlap`, `MCDurable` and `MCChurn` have a `VIEW` that leaves out the row count in
  a sweep's message: nothing but `InterruptedAsListed` (`MCNoticed`) reads it, so
  states that differ in it alone have the same behaviours.
- **Host.** Two calls are the least that join, and with one slot the second job
  waits for the first. `Enqueues` bounds the calls, `HostBudget` the faults.
- **File.** `ExpectedRows = 3` and `SnapshotMaxId = 3` with up to three rows over
  four ids, the empty text, a corrupt one, "1.0" and "2.5": each problem of the report occurs by
  itself and together with others, and duplicates occur side by side and apart.
- **Client.** `MaxTokens`, `Disturbances` and `MaxUserActions` bound logins,
  outside events (a failing call, another client's registration, expiry) and what
  the user does. Two acts suffice for a form that overtakes the restore and for an
  action on an open page; an export may be created or opened beside them.
- Deadlock is not checked, because a finished export, a sleeping host, an audited
  file and an idle browser have nothing to do.

`CompletedFileIsExact` names the first rows of the snapshot as the table holds
them, so it is checked where rows up to the boundary do not change. `NothingSkipped`
is the form that survives deletions. `AuditorsAgree` says where the two auditors
part: an id that `Number` takes and `BigInt` refuses passes the script, not the
server. `FinishedStaysFinished` and `AbandonedIsResumable` say in which states
the code keeps its word; the runs below show what happens outside them.

`AbandonedIsResumable` excludes a job whose user both cancels and resumes it. With
two requests and no fault at all it fails there: the run sees the cancel and
deletes the chunks; a resume that read the row before writes RESUMING over
CANCELLED; the new run continues the log behind the deleted chunks, its assembly
misses one, and the rejected upload takes the process down in VERIFYING, which no
request may resume. With only one of the two kinds of request it holds, for any
number of them (section 4).

### Where the code departs from what its documents say

Each of these runs checks one property and ends in a counterexample. The sources
are quoted in `PROJECT.json`.

| Run | Property | Short story |
|---|---|---|
| `MCVerifyingHang` | `RunsSettle` | The worker dies in VERIFYING. The status is not claimable, not swept, not resumable and not cancellable: the job stays there. |
| `MCLateQueued` | `CompletedIsFinal` | Without any fault: the worker completes the job before create writes QUEUED over COMPLETED. |
| `MCUncancelled` | `CancelledIsFinal` | resume reads the row, cancel writes CANCELLED, resume writes RESUMING and queues the job. |
| `MCLostResume` | `ResumeIsServed` | resume finds the entry active and adds none; the run that holds it ends without claiming the job again. |
| `MCLateCommit` | `NothingSkipped` | A record whose id lies below the boundary is committed after the cursor has passed it. |

The same causes have further consequences, which can be seen by changing an
instance:

- **Two writers.** A lock is lost, and the row is claimable although its worker
  lives: create has written QUEUED over RUNNING, or the worker was slow for the
  stall timeout, which `claimJob` takes for its death. Both then write chunks
  (`MCOverlap` contains this, and shows that nothing is lost while the rows up to
  the boundary stay). With one lost lock, one delete, 2 workers and 4 records
  `NothingSkipped` fails: the two fetch page 1 before and after a row of it is
  deleted, one logs its page, the other replaces the object under the same key. The
  file skips a row that is in the table, and the audit cannot see it.
- **Replaced file.** In the same instance `CompletedMeansVerified` fails: a late chunk
  repeats a row of page 2, one run has verified its file and completes the job, the
  other uploads its own over it. These two show that the hypotheses of the theorems
  on the file (section 4: locks that hold, or rows that do not change) are needed.
- **Revived job.** With one worker and the two requests resume and cancel
  `DurableProgress` fails without any fault: a run sees the cancel and deletes its
  chunks, a resume that read the row before writes RESUMING, and the progress counts
  bytes that are gone.
- With one error and one worker `RunsSettle` also fails through the rejected upload
  promise. A resume that read the row before COMPLETED and writes after it starts a
  run whose assembly finds no chunks, and its process dies in VERIFYING. An error of
  `deleteChunks` after COMPLETED turns the job FAILED.

Behaviour of the client and of the host that the properties allow for, and that a
reader of the code may want to know:

- A late answer of the session restore overwrites the session of a form that was
  answered meanwhile (`overtaken`); a late 401 to an old token clears a fresh one.
- Any error at restore, a sleeping API included, logs the user out
  (`AuthContext.tsx`); after a 401 elsewhere the page stays authenticated without
  a token until it is reloaded.
- The page stops polling at FAILED and INTERRUPTED, though BullMQ may run the job
  again by itself.
- Of two concurrent registrations of one address the second fails on the unique
  constraint and is answered 500, not the 409 that a later one gets.
- A resume or cancel that takes effect and loses its answer is shown as an error;
  the page fetches nothing, and stays as it is if it was not polling.
- A wake that fails is not repeated, and a job that arrives while the host is
  going down without another request waits for the next enqueue (`excused`).

### Fairness

`FairSpec` (pipeline) asks for weak fairness of
- each worker's `RunStep`: a process that lives executes its next statement;
- each handler's `HandlerStep`: Node runs a handler that has begun to its end;
- `QueueStep`: BullMQ delivers waiting entries, wakes delayed ones and checks for
  stalled ones every 15 s (`export.worker.ts:32`);
- `SweepStep`: the sweep runs on a 5 s interval (`stalledJobs.service.ts:63`);
- `HeartbeatExpires`: time passes.

No fault, no request and no record traffic is fair. `HeartbeatExpires` is
weakly fair and may also fire under a live worker: a slow worker is treated like
a dead one, as in the code.

`WakeFairness` (host): weak fairness of each begun call and its wake, of start-up
and restart, of the end of a run and of the stalled checker; strong fairness of
`TakeJob(j)`, because one slot may be taken by other jobs again and again while
BullMQ serves waiting entries in order. Nobody has to enqueue, the host need not
go to sleep, and no fault is fair.

`Fairness` (client): weak fairness of the server's step for each call, of the
session's answers, of `Poll` (a timer of React Query), and of the answers to a
poll and to an action. The user, outside events and the job owe nothing;
`PageCatchesUp` therefore speaks of a job that has come to rest.

## 4. Proofs

Assumptions are `StateAssumption` (`ExportState`: positive batch size, limit and
attempts, disjoint names, initial ids within the bound), `HostAssumption`
(`WorkerHost`: `NoWake` is no call, at least one slot, budgets are numbers) and
`ScanAssumption` (`VerificationScan`: types of the constants and of the rows of a
file), with `NumberAssumption` (`ExportFile`). For the client group they are `AccountsAssumption`, `FetchAssumption` and
`CallersAssumption`: finitely many accounts to begin with, at least one token, no
more outside events than a fetch has repetitions, and the four places of the tab
among the callers. The theorems hold for every number of workers, requests, jobs,
calls and rows and every fault budget, unless they say otherwise; a hypothesis
`FaultBudget[kind] = 0` says which faults a theorem leaves out. TLC checks the
invariants that section 3 names, strengthenings included, on its instances.

- **Log.** `TypeCorrect`, `LogAlwaysSound` (`ExportProofs`): `TypeOK` and
  `LogIsSound` are consequences of `LogInvariant == Spec => []LogInv`. `LogIsSound`
  alone is not inductive: whether a checkpoint extends the log depends on the
  locals of the run that writes it, and these may be outdated by any number of
  steps of another run. `LogInv` adds that the cursor of a run in the loop is the
  last id of the batch before the one it works on (`CursorInLog`), and that the
  page it carries lies beyond that cursor (`PageIsAhead`). The log only grows, so
  both survive the steps of others (`CursorsKept`, `PagesKept`). When a run writes
  a checkpoint, the unique constraint says that its batch is new, `CursorInLog`
  that its predecessor is there, and `PageIsAhead` that ids go up: the log stays
  sound (`AppendKeepsLog`). `QueueCanRun` carries the limits of the queue entry.
- **Progress.** `ProgressInvariant` (`ProgressProofs`): `ProgressInv` adds to
  `LogInv` that batches are numbered 1..n and ids rise with them, that the count a
  run carries is the sum of the rows up to its batch, that a page fits into what is
  left of the limit (`PagesFit`), that a run beyond the loop has seen a full log
  (`FullBeyondLoop`), and that nothing is written before the boundary is known
  (`NothingBeforeBoundary`). A run that appends is at the end of the log
  (`AppendedIsNext`), so the sum of the longer log is the sum it carries plus its
  page (`RowsOfLongerLog`, by cardinalities of disjoint sets: no induction over
  the log is needed). `CursorsAlwaysLogged` and `ProgressAlwaysLogged` follow.
- **Refinement of the log.** `PipelineImplementsLog`: under the mapping `Log` every
  step of `ExportSystem` appends a page, captures the boundary, completes over a
  full log, takes a completion back, or stutters. The last is needed because
  create's late QUEUED and an error after COMPLETED do it.
- **Queue.** `OneRunWhileLocksHold` (`ExportProofs`): if the budgets for lost locks
  and Redis restarts are 0, at most one worker is inside `runExportJob`. The
  invariant is `RunHoldsEntry`: who runs owns the entry, and an owned entry is
  active; no request removes an active entry. `InterruptedIsAsListed`: the job a sweep
  marks has the row count that its message names. The invariant is `ListedAsRow`: a
  row whose heartbeat is still older than the cutoff has the count that was listed,
  as every step that writes the count makes the heartbeat fresh.
  `FinishedForGoodStays`: once no run and no handler is between reading the row
  and writing it, a finished job stays as it is; a delivery of a left-over entry
  reads COMPLETED or CANCELLED and returns, a resume or cancel reads it and ends.
- **Status.** `MovesAlwaysShown` (`ExportProofs`), with every fault: unless a request
  acts, the status changes only as `JobMoves` says. A run writes its outcome over
  whatever status it finds, so all that needs an invariant is the exception:
  `UnclaimedInv` says that while a job is PENDING no run is past its claim and
  nobody has asked to cancel it.
- **File.** `FileInvariant`, `CompletedIsAlwaysVerified` (`FileProofs`), while locks
  hold and Redis keeps the entry, with every other fault. `CompletedMeansVerified`
  is about the last moment only. `FileInv` follows the bytes there: the object of a
  logged batch holds exactly its page or is gone (`ChunksHoldPages`), a run about to
  log a batch has put its page (`ChunkIsPut`), an assembly has copied every page it
  is past (`AssemblyHoldsPages`), a verdict is about a whole file (`VerdictPasses`,
  `ReauditPasses`). A whole file passes the audit because the log is full and its
  ranges are disjoint and rise (`CompletedIsVerified`). The step that needs the
  locks is `PutChunk`: another run may have put other rows under the same key;
  the proof uses only that overlapping runs agree on a page (`PagesAgree`), which
  runs kept apart do, since there is one (`AloneAgrees`).
- **Nothing skipped.** `CoverInvariant`, `NothingIsEverSkipped` (`FileProofs`), if
  moreover no transaction that took an id commits it later (`openInsert` is 0; the
  run `MCLateCommit` shows that this is needed). `CoverInv`: pages, objects,
  assemblies and the file leave out no row of the table in their range, and every
  new row lies beyond the boundary. Rows may be deleted at any time.
- **Durable progress.** `ProgressAlwaysDurable` (`ExactProofs`): with lost locks,
  Redis restarts, crashes, failing calls and late commits, as long as no row is
  deleted and no request to cancel was accepted, every row that the progress counts
  has its line in the bucket or in the file. Overlapping runs may put different
  pages under one key; what is invariant is how many rows they have. `EnoughInv`
  says why: create has counted the rows of the snapshot, so the rows still asked
  for lie beyond every cursor, and a page is as long as its number and the limit
  say (`PageSize`). `DurableInv` says that the object of a logged batch keeps that
  many lines until the file has them. `ProgressAlwaysDurableAlone` allows deletions
  and asks for locks that hold instead. Both need that nobody cancels: a cancel
  deletes chunks whose rows the progress goes on counting, by design.
- **Exact file.** `CompletedFileAlwaysExact`, `OverlapNeverSkips` (`ExactProofs`): if
  no row is deleted and none commits late, a completed export is the first rows of
  its snapshot, each once and in order, for any overlap of runs, and with cancels,
  resumes and re-audits. `ExactInv` says that whatever is carried or written is a
  row of the table and that a checkpoint counts the rows of its range; with
  `EnoughInv` two runs at the same batch fetch the same page (`SamePage`,
  `ExactPagesAgree`), so `PagesAgree` holds without locks, and with it `FileInv` and
  `CoverInv`. A file without gaps, with as many rows as were asked for, is the first
  ones (`FirstOnes`).
- **Outcome.** `OutcomeInvariant`, `AbandonedAlwaysResumable` (`ExactProofs`), while
  locks hold and Redis keeps the entry. `AbandonedIsResumable` looks at a job when
  everything has stopped; `OutcomeInv` says what leads there: a job in RUNNING or
  VERIFYING without a verdict has a run that will write its outcome. The one exit
  without a write is the death after a missed chunk, so it must be shown that an
  undisturbed assembly misses none (`ChunksInPlace`). There are two reasons, and
  the invariant carries both. A job that is never resumed is run once: create
  enqueues one entry, nothing returns it to the queue, and the chunks go only when
  that run is over (`SingleRun`). A job that is never cancelled keeps its chunks
  until the file is there (`DurableInv`).
- **Host.** `WakeInvariant`, `WakesAreJoined`, `JobsAreVerified`, `NoJobIsStranded`
  (`WakeProofs`). `NoStrandedJob` is not inductive: nothing in it says what a host
  on its way down leaves behind. `WakeInv` adds that (`NothingLeftBehind`), that
  such a host has answered no request still outstanding (`NothingAnswered`), so
  that a request joined meanwhile will wake it again, and that start-up verifies in
  order (`VerifiedInOrder`).
- **Audit.** `ScanInvariant`, `ScanImplementsAudit` (`ScanProofs`), for files of any
  length: after each row the counters of `verifyExportFile` are what the rows read
  so far amount to (`RowsAreCounted`, `IdsAreOrdered`, `IdsAreBounded`); at the end
  of the stream "no problem" is equivalent to `IsExact` of the file, and the
  recorded figures are those of `ReportOf`. That ids are strictly ascending is kept
  by comparing neighbours only; the invariant says that the previous id is then the
  largest.
- **Text.** `WrittenIsRead` (`CsvProofs`), for files of any number of rows and fields
  over any set of characters that has the four special ones: either parser reads
  back the header lines and rows, and stands at the start of a line then. A parser
  carries nothing from one part of a text to the next but its state (`ReadConcat`),
  and so the proof goes from characters to fields (`ReadField`), rows (`ReadRow`),
  lines (`ReadLine`) and chunks (`ReadChunk`). Each level is an induction, stated
  for sets because the library's rules take a predicate: a set with the empty
  sequence that is closed under `Append` has every sequence (`SeqSetInduction`).
  The two parsers differ only on texts the writer never makes, so both share each
  step (`ParserQuotes`, `ParserKeeps`, `ParserEnds`).
  `FileAlwaysReadBack` (`ScanProofs`) is the property of the run; its hypothesis is
  that files are written by `CsvFile` over such characters, header lines without
  special ones. `AuditorsAlwaysAgree` asks moreover for more than one column; of
  `Number` it uses only that it reads what `BigInt` reads (`NumberAssumption`), so it
  holds for every text that `Number` takes and `BigInt` refuses. The script compares
  neighbours (`NeighboursAscend`) and the header with its fields joined, which is as
  good as field by field once the width is right (`JoinedIsEnough`).
- **Session.** `SessionInvariant` with `RegistrationsAlwaysStand`,
  `ShownUserAlwaysOwnsToken`, `AnonymousAlwaysClean`, `PageTypeCorrect`
  (`SessionProofs`), for any number of places, addresses, tokens and acts of the user.
  None of the properties is inductive alone, as an answer on its way decides about
  the tab: `SessionInv` adds that a call carries and is answered what fits its
  operation (`CallFits`), that each place of the tab sends its own operations
  (`PlacesAskTheirOwn`), and that a restore no form has overtaken asks for the user
  of the token the tab holds (`RestoreAsksForToken`). That an address has one
  account is kept by the insert; that a registration answered with 201 has its
  account rests on the answer still to be delivered.

Model-checked only: all liveness (`DeadRunIsNoticed`, `RetryIsServed`,
`ExportIsDelivered`, `QueuedIsServed`, `SessionDecides`, `PageCatchesUp`,
`ActionIsShown`), which rests on fairness and ENABLED, out of the prover's reach.
Every other property of a passing run is a theorem, within the hypotheses named
above.

## 5. Not modelled

| Part | Reason |
|---|---|
| Failure records `S/services/exportFailure.service.ts` | appends a row, swallows its own errors, reads nothing; no control flow reads the rows |
| Rate limiters, validation, request ids, error middleware | configuration of libraries; the status an error becomes is part of `Accounts` |
| Test data generator `S/scripts/generateTestData.ts` | run by hand before exports exist; to the pipeline it is `InsertRecord` |
| Serialisers, logger, layout and view components | formatting only |
| Lists, statistics, dashboard, queue metrics | reads that no other component uses; the dashboard polls as the page of one export does |
| Signed URLs, client set-up, DNS and environment | I/O and configuration |
| SHA-256 of the file | recorded and compared with nothing in the server |
| Start-up of the API | the same three checks as the worker's; the API takes part as a process that dies (`ApiDies`, `RequestAborts`) |

Processes that shut down are crashes in the pipeline; fields that only the user
reads (`error_message`, `failed_at`, `completed_at`) are left out.

## 6. Plan

1. Done: the pipeline with its log, queue, API, sweeper and verification; the host
   and its wake-up; the file and its two auditors; accounts, session and the page of
   an export; two abstract specifications and their refinements; the theorems above.
2. Done: the invariants of the file, of durable progress, of the exact file, of the
   outcome and of the session; the text of a file by induction over its characters;
   the status a client sees. Each invariant and action property of a passing run is
   a theorem.
3. Next: a second tab for `BrowserSession`, and several jobs of one account for
   `ExportPage`, where instances allow.
