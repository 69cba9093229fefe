----------------------------- MODULE WorkerWake -----------------------------
(***************************************************************************)
(* What the API does so that a queued job finds a worker: enqueueExportJob *)
(* ends with wakeWorker, which sends one GET to the worker's host unless   *)
(* one is outstanding already.  Nobody waits for the request and nobody    *)
(* repeats it when it fails.                                               *)
(***************************************************************************)
EXTENDS WorkerHost

Goto(e, label) == enqueue' = [enqueue EXCEPT ![e].pc = label]

EnqueueExportJob(e, j) ==
    /\ enqueue[e].pc = "idle"
    /\ enqueue' = [enqueue EXCEPT ![e] = [pc |-> "inspect", job |-> {j}]]
    /\ UNCHANGED <<queueVars, hostVars, inFlight, wake, excused, hostFaults>>

(* Faulty variant: an entry that is active already needs no worker.         *)
InspectEntryNoNudge(e) ==
    /\ enqueue[e].pc = "inspect"
    /\ \E j \in enqueue[e].job :
          /\ Goto(e, CASE entry[j] = "absent" -> "add"
                       [] entry[j] = "active" -> "done"
                       [] OTHER               -> "remove")
          /\ excused' = IF entry[j] = "active" THEN excused \ {j} ELSE excused
    /\ UNCHANGED <<queueVars, hostVars, inFlight, wake, hostFaults>>

(* getJob and getState.  An active entry stays and its worker is nudged.    *)
InspectEntry(e) ==
    /\ enqueue[e].pc = "inspect"
    /\ \E j \in enqueue[e].job :
          /\ Goto(e, CASE entry[j] = "absent" -> "add"
                       [] entry[j] = "active" -> "wake"
                       [] OTHER               -> "remove")
          /\ excused' = IF entry[j] = "active" THEN excused \ {j} ELSE excused
    /\ UNCHANGED <<queueVars, hostVars, inFlight, wake, hostFaults>>

(* remove() throws on an entry that has become active, and the call ends.   *)
RemoveEntry(e) ==
    /\ enqueue[e].pc = "remove"
    /\ \E j \in enqueue[e].job :
          IF entry[j] = "active"
          THEN Goto(e, "done") /\ UNCHANGED entry
          ELSE Goto(e, "add") /\ entry' = [entry EXCEPT ![j] = "absent"]
    /\ UNCHANGED <<runs, hostVars, inFlight, wake, excused, hostFaults>>

(* add() of an id that exists by now changes nothing.  From here on the     *)
(* call owes its job a worker.                                              *)
AddEntry(e) ==
    /\ enqueue[e].pc = "add"
    /\ \E j \in enqueue[e].job :
          /\ entry' = [entry EXCEPT ![j] = IF @ = "absent" THEN "waiting" ELSE @]
          /\ excused' = excused \ {j}
    /\ Goto(e, "wake")
    /\ UNCHANGED <<runs, hostVars, inFlight, wake, hostFaults>>

(* Faulty variant: an outstanding request is not looked for.                *)
WakeWorkerUnjoined(e) ==
    /\ enqueue[e].pc = "wake"
    /\ Goto(e, "done")
    /\ inFlight' = e
    /\ wake' = [wake EXCEPT ![e] = "sent"]
    /\ UNCHANGED <<queueVars, hostVars, excused, hostFaults>>

WakeWorker(e) ==
    /\ enqueue[e].pc = "wake"
    /\ Goto(e, "done")
    /\ IF inFlight # NoWake
       THEN UNCHANGED <<inFlight, wake>>
       ELSE inFlight' = e /\ wake' = [wake EXCEPT ![e] = "sent"]
    /\ UNCHANGED <<queueVars, hostVars, excused, hostFaults>>

-----------------------------------------------------------------------------
(* The proxy of the host holds the request until the process can answer.    *)
WakeArrives(e) ==
    /\ wake[e] = "sent"
    /\ wake' = [wake EXCEPT ![e] = "held"]
    /\ traffic' = TRUE
    /\ UNCHANGED <<queueVars, boot, verified, enqueue, inFlight, excused, hostFaults>>

(* The health endpoint answers, with 200 or 503; both count as an answer.   *)
HealthAnswers(e) ==
    /\ wake[e] = "held"
    /\ boot = "running"
    /\ wake' = [wake EXCEPT ![e] = "answered"]
    /\ UNCHANGED <<queueVars, hostVars, enqueue, inFlight, excused, hostFaults>>

WakeSettles(e) ==
    /\ wake[e] = "answered"
    /\ wake' = [wake EXCEPT ![e] = "none"]
    /\ inFlight' = NoWake
    /\ UNCHANGED <<queueVars, hostVars, enqueue, excused, hostFaults>>

(* What a lost wake leaves to a host that is not up.                        *)
Strand(jobs) == excused' = IF boot \in {"asleep", "closing"}
                           THEN excused \cup (Unfinished \cap jobs) ELSE excused

(* Faulty variant: inFlight is reset after an answer, but not in finally.   *)
WakeFailsUnreset(e) ==
    /\ HostCanFail("wake")
    /\ wake[e] # "none"
    /\ wake' = [wake EXCEPT ![e] = "none"]
    /\ Strand({j \in Jobs : ~Owed(j)})
    /\ HostSpend("wake")
    /\ UNCHANGED <<queueVars, hostVars, enqueue, inFlight>>

(* 30 seconds pass, the network fails, or the proxy gives up and answers    *)
(* for the host: the request is over and only the log tells of it.          *)
WakeFails(e) ==
    /\ HostCanFail("wake")
    /\ wake[e] # "none"
    /\ wake' = [wake EXCEPT ![e] = "none"]
    /\ inFlight' = NoWake
    /\ Strand({j \in Jobs : ~Owed(j)})
    /\ HostSpend("wake")
    /\ UNCHANGED <<queueVars, hostVars, enqueue>>

(* The API process dies with its calls and its request.                     *)
ApiDies ==
    /\ HostCanFail("apiDeath")
    /\ enqueue' = [e \in Enqueues |-> IF enqueue[e].pc = "idle" THEN enqueue[e]
                                      ELSE [enqueue[e] EXCEPT !.pc = "done"]]
    /\ inFlight' = NoWake
    /\ wake' = [e \in Enqueues |-> "none"]
    /\ Strand(Jobs)
    /\ HostSpend("apiDeath")
    /\ UNCHANGED <<queueVars, hostVars>>

-----------------------------------------------------------------------------
WakeInit ==
    /\ entry = [j \in Jobs |-> "absent"]
    /\ runs = {}
    /\ boot \in {"asleep", "database"}
    /\ verified = {}
    /\ traffic = FALSE
    /\ enqueue = [e \in Enqueues |-> [pc |-> "idle", job |-> {}]]
    /\ inFlight = NoWake
    /\ wake = [e \in Enqueues |-> "none"]
    /\ excused = {}
    /\ hostFaults = [k \in HostFaults |-> 0]

EnqueueStep(e) == InspectEntry(e) \/ RemoveEntry(e) \/ AddEntry(e) \/ WakeWorker(e)
WakeStep(e)    == WakeArrives(e) \/ HealthAnswers(e) \/ WakeSettles(e)

WakeNext ==
    \/ HostStep
    \/ \E e \in Enqueues :
          \/ \E j \in Jobs : EnqueueExportJob(e, j)
          \/ EnqueueStep(e) \/ WakeStep(e) \/ WakeFails(e)
    \/ ApiDies

(* Node goes on with a call it has begun, the network delivers, main() goes *)
(* on, the platform restarts what exited, BullMQ serves entries in order    *)
(* and a run comes to its end.  Nobody has to enqueue and nothing to fail.  *)
WakeFairness ==
    /\ \A e \in Enqueues : WF_vars(EnqueueStep(e)) /\ WF_vars(WakeStep(e))
    /\ WF_vars(BootStep)
    /\ \A j \in Jobs : /\ SF_vars(TakeJob(j))
                       /\ WF_vars(FinishJob(j))
                       /\ WF_vars(ReclaimStalled(j))

WakeSpec == WakeInit /\ [][WakeNext]_vars /\ WakeFairness

-----------------------------------------------------------------------------
(* Types, and a process runs at most Concurrency jobs, all of them active.  *)
WakeTypeOK ==
    /\ entry \in [Jobs -> {"absent", "waiting", "active", "finished"}]
    /\ runs \subseteq {j \in Jobs : entry[j] = "active"}
    /\ Cardinality(runs) <= Concurrency
    /\ boot \in Boot
    /\ verified \subseteq Dependencies
    /\ traffic \in BOOLEAN
    /\ enqueue \in [Enqueues -> [pc  : {"idle", "inspect", "remove", "add", "wake", "done"},
                                 job : SUBSET Jobs]]
    /\ inFlight \in Enqueues \cup {NoWake}
    /\ wake \in [Enqueues -> {"none", "sent", "held", "answered"}]
    /\ excused \subseteq Jobs
    /\ hostFaults \in [HostFaults -> Nat]

(* A burst of enqueues sends one request: inFlight names the only request   *)
(* that is outstanding, and it is reset whenever that request is over.      *)
OneWakeInFlight == \A e \in Enqueues : wake[e] # "none" <=> inFlight = e

(* No job is left to a sleeping host: a job that needs a worker has a       *)
(* process, a request under way to the host or a call about to send one,    *)
(* unless the host went to sleep on it or its wake was lost since it was    *)
(* last enqueued.  Joining the request of another job is as good as sending. *)
NoStrandedJob == \A j \in Jobs : Needs(j) /\ j \notin excused => boot # "asleep" \/ OnItsWay(j)

(* A worker that could not reach a dependency never consumes a job.         *)
JobsOnlyWhenVerified == runs # {} => verified = Dependencies

(* The strengthening that makes these inductive: main() verifies in order,  *)
(* only a live process has runs, a host that is going or gone to sleep has  *)
(* answered no request that is still outstanding, and every unfinished job  *)
(* it leaves has a request coming or is excused.                            *)
Down == boot \in {"asleep", "closing"}

VerifiedInOrder ==
    /\ boot \in {"redis", "bucket", "createBucket"} => "postgres" \in verified
    /\ boot \in {"bucket", "createBucket"} => "redis" \in verified
    /\ boot \in {"running", "closing"} => verified = Dependencies
    /\ runs # {} => boot \in {"running", "closing"}

NothingAnswered ==
    /\ ~traffic => \A e \in Enqueues : wake[e] \notin {"held", "answered"}
    /\ Down => \A e \in Enqueues : wake[e] # "answered"

NothingLeftBehind == Down => \A j \in Unfinished \ excused : OnItsWay(j)

WakeInv ==
    /\ WakeTypeOK
    /\ IsFiniteSet(runs)
    /\ OneWakeInFlight
    /\ VerifiedInOrder
    /\ NothingAnswered
    /\ NothingLeftBehind

(* A queued job, or one whose lock a dead worker left behind, is run after  *)
(* its enqueue, though its call may only have joined the request of another. *)
QueuedIsServed ==
    \A j \in Jobs : (Needs(j) /\ j \notin excused) ~> (~Needs(j) \/ j \in excused)
=============================================================================
