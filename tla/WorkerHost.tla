----------------------------- MODULE WorkerHost -----------------------------
(***************************************************************************)
(* The worker process on a host that stops it when no request has come in  *)
(* for a while: start-up (worker.ts), the jobs it takes from BullMQ, the   *)
(* health endpoint that answers wake requests, shutdown and restart.       *)
(* A run is one step here; ExportWorker models what happens inside it.     *)
(***************************************************************************)
EXTENDS Naturals, FiniteSets

CONSTANTS
    Jobs,         \* export jobs with an entry in the queue
    Enqueues,     \* calls of enqueueExportJob, each made once
    NoWake,       \* value of inFlight while no wake request is outstanding
    Concurrency,  \* WORKER_CONCURRENCY
    HostBudget    \* bound: how often each kind of fault may occur

HostFaults == {"wake", "dependency", "crash", "error", "apiDeath"}

ASSUME HostAssumption ==
    /\ NoWake \notin Enqueues
    /\ Concurrency \in Nat \ {0}
    /\ HostBudget \in [HostFaults -> Nat]

VARIABLES
    entry,     \* the BullMQ entry of each job
    runs,      \* jobs the live process is running
    boot,      \* how far main() of the process has come
    verified,  \* dependencies this process has verified
    traffic,   \* a request has reached the host within its idle period
    enqueue,   \* position and job of each call of enqueueExportJob
    inFlight,  \* the call whose wake request is outstanding
    wake,      \* how far the wake request of each call has come
    excused,   \* history: jobs the host went to sleep on, or whose wake was lost
    hostFaults \* faults of each kind that have occurred

queueVars == <<entry, runs>>
hostVars  == <<boot, verified, traffic>>
apiVars   == <<enqueue, inFlight, wake>>
vars == <<queueVars, hostVars, apiVars, excused, hostFaults>>

HostCanFail(kind) == hostFaults[kind] < HostBudget[kind]
HostSpend(kind)   == hostFaults' = [hostFaults EXCEPT ![kind] = @ + 1]

Dependencies == {"postgres", "redis", "storage"}
Starting == {"database", "redis", "bucket", "createBucket"}
Boot == {"asleep", "exited", "running", "closing"} \cup Starting

(* A job that waits for a worker: queued, or left active by a dead one.     *)
Needs(j) == \/ entry[j] = "waiting"
            \/ entry[j] = "active" /\ j \notin runs

(* A request is under way to the host, or a call for j is about to send one. *)
Owed(j)     == \E e \in Enqueues : enqueue[e].pc = "wake" /\ j \in enqueue[e].job
OnItsWay(j) == Owed(j) \/ \E e \in Enqueues : wake[e] \in {"sent", "held"}

Unfinished == {j \in Jobs : entry[j] \in {"waiting", "active"}}

-----------------------------------------------------------------------------
(* A request that reaches a sleeping host makes it start the process.       *)
HostStarts ==
    /\ boot = "asleep"
    /\ \E e \in Enqueues : wake[e] = "held"
    /\ boot' = "database"
    /\ verified' = {}
    /\ UNCHANGED <<queueVars, traffic, apiVars, excused, hostFaults>>

(* A process that exited by itself is started again by the platform.        *)
HostRestarts ==
    /\ boot = "exited"
    /\ boot' = "database"
    /\ verified' = {}
    /\ UNCHANGED <<queueVars, traffic, apiVars, excused, hostFaults>>

Verify(dependency, next) ==
    /\ verified' = verified \cup {dependency}
    /\ boot' = next
    /\ UNCHANGED <<queueVars, traffic, apiVars, excused, hostFaults>>

AssertDatabaseConnection == boot = "database" /\ Verify("postgres", "redis")
AssertRedisConnection    == boot = "redis" /\ Verify("redis", "bucket")

(* Faulty variant: a bucket that could not be found is left to the runs.    *)
AssertStorageIgnored ==
    /\ boot = "bucket"
    /\ boot' = "running"
    /\ UNCHANGED <<queueVars, verified, traffic, apiVars, excused, hostFaults>>

(* HeadBucket finds the bucket, or answers 404 or 403 and it is created;    *)
(* with the bucket there, the BullMQ worker and the health server start.    *)
AssertStorageReady ==
    \/ boot = "bucket" /\ Verify("storage", "running")
    \/ /\ boot = "bucket"
       /\ boot' = "createBucket"
       /\ UNCHANGED <<queueVars, verified, traffic, apiVars, excused, hostFaults>>
    \/ boot = "createBucket" /\ Verify("storage", "running")

(* A dependency that does not answer ends main() with exit code 1.          *)
MainFails ==
    /\ HostCanFail("dependency")
    /\ boot \in Starting
    /\ boot' = "exited"
    /\ HostSpend("dependency")
    /\ UNCHANGED <<queueVars, verified, traffic, apiVars, excused>>

-----------------------------------------------------------------------------
(* Faulty variant: the limit on jobs at a time is not passed to BullMQ.     *)
TakeJobUnlimited(j) ==
    /\ boot = "running"
    /\ entry[j] = "waiting"
    /\ entry' = [entry EXCEPT ![j] = "active"]
    /\ runs' = runs \cup {j}
    /\ UNCHANGED <<hostVars, apiVars, excused, hostFaults>>

TakeJob(j) ==
    /\ boot = "running"
    /\ entry[j] = "waiting"
    /\ Cardinality(runs) < Concurrency
    /\ entry' = [entry EXCEPT ![j] = "active"]
    /\ runs' = runs \cup {j}
    /\ UNCHANGED <<hostVars, apiVars, excused, hostFaults>>

RunEnds(j, state) ==
    /\ j \in runs
    /\ entry' = [entry EXCEPT ![j] = state]
    /\ runs' = runs \ {j}
    /\ UNCHANGED <<hostVars, apiVars, excused>>

FinishJob(j) == RunEnds(j, "finished") /\ UNCHANGED hostFaults

(* The processor throws: BullMQ queues the entry again, after the backoff.  *)
RunThrows(j) ==
    /\ HostCanFail("error")
    /\ RunEnds(j, "waiting")
    /\ HostSpend("error")

(* The stalled checker of a live worker takes back what a dead one held.    *)
ReclaimStalled(j) ==
    /\ boot = "running"
    /\ entry[j] = "active"
    /\ j \notin runs
    /\ entry' = [entry EXCEPT ![j] = "waiting"]
    /\ UNCHANGED <<runs, hostVars, apiVars, excused, hostFaults>>

-----------------------------------------------------------------------------
(* 15 minutes without a request.  A wake request lives 30 seconds at most,  *)
(* so one that is at the host has settled long before the period is over.   *)
IdlePeriodPasses ==
    /\ boot = "running"
    /\ traffic
    /\ \A e \in Enqueues : wake[e] \notin {"held", "answered"}
    /\ traffic' = FALSE
    /\ UNCHANGED <<queueVars, boot, verified, apiVars, excused, hostFaults>>

(* SIGTERM: no new request is answered and no new job is taken.  The jobs   *)
(* of that moment wait for the next wake, those under way excepted.         *)
Shutdown ==
    /\ boot = "running"
    /\ ~traffic
    /\ boot' = "closing"
    /\ excused' = excused \cup {j \in Unfinished : ~OnItsWay(j)}
    /\ UNCHANGED <<queueVars, verified, traffic, apiVars, hostFaults>>

(* The process is gone, after its runs or, at the end of the grace period,  *)
(* with them; their entries stay active.                                    *)
ProcessEnds ==
    /\ boot = "closing"
    /\ boot' = "asleep"
    /\ runs' = {}
    /\ UNCHANGED <<entry, verified, traffic, apiVars, excused, hostFaults>>

ProcessCrashes ==
    /\ HostCanFail("crash")
    /\ boot = "running"
    /\ boot' = "exited"
    /\ runs' = {}
    /\ HostSpend("crash")
    /\ UNCHANGED <<entry, verified, traffic, apiVars, excused>>

-----------------------------------------------------------------------------
BootStep == \/ HostStarts \/ HostRestarts
            \/ AssertDatabaseConnection \/ AssertRedisConnection \/ AssertStorageReady
            \/ ProcessEnds

HostStep == \/ BootStep \/ MainFails
            \/ \E j \in Jobs : TakeJob(j) \/ FinishJob(j) \/ RunThrows(j) \/ ReclaimStalled(j)
            \/ IdlePeriodPasses \/ Shutdown \/ ProcessCrashes
=============================================================================
