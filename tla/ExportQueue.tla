----------------------------- MODULE ExportQueue -----------------------------
(***************************************************************************)
(* The BullMQ entry of the job, as export.queue.ts and export.worker.ts    *)
(* use it, and enqueueExportJob, which API requests run one Redis call at  *)
(* a time: inspect the entry, remove it, add a new one.                    *)
(***************************************************************************)
EXTENDS ExportState

QueueState == {"absent", "waiting", "active", "delayed", "completed", "failed"}

EntryIsLocked == queue.state = "active"

(* A worker that still runs the processor for the entry it locked.          *)
OwnerIsAlive == queue.owner # NoWorker /\ worker[queue.owner].pc # "idle"

-----------------------------------------------------------------------------
(* BullMQ hands the waiting entry to an idle slot, which locks it.          *)
PickUp(w) ==
    /\ queue.state = "waiting"
    /\ worker[w].pc = "idle"
    /\ queue' = [queue EXCEPT !.state = "active", !.owner = w]
    /\ worker' = [worker EXCEPT ![w].pc = "read"]
    /\ UNCHANGED <<jobVars, storageVars, recordVars, request, sweeping, faults>>

(* The processor returned: the entry completes, unless w lost its lock.     *)
ProcessorReturns(w) ==
    /\ worker[w].pc = "returned"
    /\ queue' = IF queue.owner = w
                THEN [queue EXCEPT !.state = "completed", !.owner = NoWorker]
                ELSE queue
    /\ worker' = [worker EXCEPT ![w] = IdleWorker]
    /\ UNCHANGED <<jobVars, storageVars, recordVars, request, sweeping, faults>>

AttemptsLeft == queue.attemptsMade + 1 < Attempts

(* The processor threw: back off and retry while attempts are left.         *)
ProcessorThrows(w) ==
    /\ worker[w].pc = "threw"
    /\ queue' = IF queue.owner = w
                THEN [queue EXCEPT !.state = IF AttemptsLeft THEN "delayed" ELSE "failed",
                                   !.owner = NoWorker,
                                   !.attemptsMade = @ + 1]
                ELSE queue
    /\ worker' = [worker EXCEPT ![w] = IdleWorker]
    /\ UNCHANGED <<jobVars, storageVars, recordVars, request, sweeping, faults>>

BackoffElapses ==
    /\ queue.state = "delayed"
    /\ queue' = [queue EXCEPT !.state = "waiting"]
    /\ UNCHANGED <<jobVars, storageVars, recordVars, worker, request, sweeping, faults>>

(* Faulty variant: stalled entries go back to the queue without limit.      *)
ReclaimedWithoutLimit ==
    [queue EXCEPT !.state = "waiting", !.owner = NoWorker, !.stalledCount = @ + 1]

(* The stalled checker moves an active entry without a lock back.           *)
Reclaimed ==
    IF queue.stalledCount < MaxStalledCount
    THEN [queue EXCEPT !.state = "waiting", !.owner = NoWorker, !.stalledCount = @ + 1]
    ELSE [queue EXCEPT !.state = "failed", !.owner = NoWorker]

(* The lock of a dead worker has run out.                                   *)
ReclaimFromDead ==
    /\ queue.state = "active"
    /\ ~OwnerIsAlive
    /\ queue' = Reclaimed
    /\ UNCHANGED <<jobVars, storageVars, recordVars, worker, request, sweeping, faults>>

(* A live worker failed to renew its lock; it keeps running regardless.     *)
ReclaimFromLive ==
    /\ queue.state = "active"
    /\ OwnerIsAlive
    /\ CanFail("lockLoss")
    /\ queue' = Reclaimed
    /\ Spend("lockLoss")
    /\ UNCHANGED <<jobVars, storageVars, recordVars, worker, request, sweeping>>

(* A Redis without persistence, as on the free plan of render.yaml, loses   *)
(* the entry when it restarts.                                              *)
RedisRestarts ==
    /\ CanFail("redisRestart")
    /\ queue.state # "absent"
    /\ queue' = NoEntry
    /\ Spend("redisRestart")
    /\ UNCHANGED <<jobVars, storageVars, recordVars, worker, request, sweeping>>

QueueStep ==
    \/ \E w \in Workers : PickUp(w) \/ ProcessorReturns(w) \/ ProcessorThrows(w)
    \/ BackoffElapses
    \/ ReclaimFromDead

QueueFault == ReclaimFromLive \/ RedisRestarts

-----------------------------------------------------------------------------
(* enqueueExportJob.  After it, create still has to write QUEUED.           *)
AfterEnqueue(h) == IF request[h].op = "create" THEN "markQueued" ELSE "done"

Goto(h, label) == request' = [request EXCEPT ![h].pc = label]

(* getJob and getState; an active entry is left to the run that holds it.   *)
AfterInspect(h) == CASE queue.state = "absent" -> "add"
                     [] queue.state = "active" -> AfterEnqueue(h)
                     [] OTHER                  -> "remove"

InspectEntry(h) ==
    /\ request[h].pc = "inspect"
    /\ Goto(h, AfterInspect(h))
    /\ UNCHANGED <<jobVars, storageVars, recordVars, queue, worker, sweeping, faults>>

(* Faulty variant: the entry is removed by force, locked or not.            *)
RemoveEntryByForce(h) ==
    /\ request[h].pc = "remove"
    /\ Goto(h, "add")
    /\ queue' = NoEntry
    /\ UNCHANGED <<jobVars, storageVars, recordVars, worker, sweeping, faults>>

(* remove() throws on an entry a worker has locked; the request ends then.  *)
RemoveEntry(h) ==
    /\ request[h].pc = "remove"
    /\ IF EntryIsLocked
       THEN Goto(h, "done") /\ UNCHANGED queue
       ELSE Goto(h, "add") /\ queue' = NoEntry
    /\ UNCHANGED <<jobVars, storageVars, recordVars, worker, sweeping, faults>>

(* add() of a job id that exists already changes nothing.                   *)
AddEntry(h) ==
    /\ request[h].pc = "add"
    /\ Goto(h, AfterEnqueue(h))
    /\ queue' = IF queue.state = "absent" THEN [NoEntry EXCEPT !.state = "waiting"] ELSE queue
    /\ UNCHANGED <<jobVars, storageVars, recordVars, worker, sweeping, faults>>

EnqueueStep(h) == InspectEntry(h) \/ RemoveEntry(h) \/ AddEntry(h)
=============================================================================
