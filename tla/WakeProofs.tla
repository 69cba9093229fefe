----------------------------- MODULE WakeProofs -----------------------------
(***************************************************************************)
(* Proofs about the worker's host and its wake-up, for any number of jobs, *)
(* calls, slots and faults.                                                *)
(***************************************************************************)
EXTENDS WorkerWake, FiniteSetTheorems, TLAPS

HostEvent == BootStep \/ MainFails \/ IdlePeriodPasses \/ Shutdown \/ ProcessCrashes
JobEvent(j) == TakeJob(j) \/ FinishJob(j) \/ RunThrows(j) \/ ReclaimStalled(j)
ApiEvent(e) == \/ \E j \in Jobs : EnqueueExportJob(e, j)
               \/ EnqueueStep(e) \/ WakeStep(e) \/ WakeFails(e)

LEMMA EventsOfNext ==
    WakeNext => \/ HostEvent \/ ApiDies
                \/ \E j \in Jobs : JobEvent(j)
                \/ \E e \in Enqueues : ApiEvent(e)
BY DEF WakeNext, HostStep, HostEvent, JobEvent, ApiEvent

-----------------------------------------------------------------------------
LEMMA HostEventType ==
    ASSUME WakeTypeOK, HostEvent
    PROVE  WakeTypeOK'
<1>a. HostBudget \in [HostFaults -> Nat] /\ hostFaults \in [HostFaults -> Nat]
  BY HostAssumption DEF WakeTypeOK
<1>1. hostFaults' \in [HostFaults -> Nat]
  BY <1>a DEF HostEvent, BootStep, HostStarts, HostRestarts, AssertDatabaseConnection,
     AssertRedisConnection, AssertStorageReady, Verify, ProcessEnds, MainFails,
     IdlePeriodPasses, Shutdown, ProcessCrashes, HostSpend, HostFaults
<1>2. /\ UNCHANGED <<entry, apiVars>>
      /\ boot' \in Boot /\ verified' \subseteq Dependencies /\ traffic' \in BOOLEAN
      /\ excused' \subseteq Jobs
  BY DEF WakeTypeOK, HostEvent, BootStep, HostStarts, HostRestarts, AssertDatabaseConnection,
     AssertRedisConnection, AssertStorageReady, Verify, ProcessEnds, MainFails,
     IdlePeriodPasses, Shutdown, ProcessCrashes, queueVars, hostVars, apiVars, Boot, Starting,
     Dependencies, Unfinished
<1>3. runs' = runs \/ runs' = {}
  BY DEF HostEvent, BootStep, HostStarts, HostRestarts, AssertDatabaseConnection,
     AssertRedisConnection, AssertStorageReady, Verify, ProcessEnds, MainFails,
     IdlePeriodPasses, Shutdown, ProcessCrashes, queueVars
<1>4. Cardinality(runs') <= Concurrency
  <2>1. CASE runs' = runs
    BY <2>1 DEF WakeTypeOK
  <2>2. CASE runs' = {}
    <3>1. Cardinality(runs') = 0
      BY <2>2, FS_EmptySet, Zenon
    <3>. QED
      BY <3>1, HostAssumption
  <2>. QED
    BY <1>3, <2>1, <2>2
<1>. QED
  BY <1>1, <1>2, <1>3, <1>4 DEF WakeTypeOK, apiVars

LEMMA JobEventType ==
    ASSUME WakeTypeOK, IsFiniteSet(runs), NEW j \in Jobs, JobEvent(j)
    PROVE  WakeTypeOK' /\ IsFiniteSet(runs')
<1>a. Concurrency \in Nat /\ hostFaults \in [HostFaults -> Nat]
      /\ entry \in [Jobs -> {"absent", "waiting", "active", "finished"}]
      /\ Cardinality(runs) \in Nat
  BY HostAssumption, FS_CardinalityType DEF WakeTypeOK
<1>1. UNCHANGED <<hostVars, apiVars, excused>> /\ hostFaults' \in [HostFaults -> Nat]
  BY <1>a DEF JobEvent, TakeJob, FinishJob, RunThrows, RunEnds, ReclaimStalled, HostSpend,
     HostFaults
<1>2. entry' \in [Jobs -> {"absent", "waiting", "active", "finished"}]
  BY <1>a DEF JobEvent, TakeJob, FinishJob, RunThrows, RunEnds, ReclaimStalled
<1>3. runs' \subseteq {k \in Jobs : entry'[k] = "active"}
  BY <1>a DEF WakeTypeOK, JobEvent, TakeJob, FinishJob, RunThrows, RunEnds, ReclaimStalled
<1>4. IsFiniteSet(runs') /\ Cardinality(runs') <= Concurrency
  <2>1. CASE runs' = runs \cup {j} /\ Cardinality(runs) < Concurrency
    <3>1. /\ IsFiniteSet(runs')
          /\ Cardinality(runs') = Cardinality(runs) \/ Cardinality(runs') = Cardinality(runs) + 1
      BY <2>1, FS_AddElement, Zenon
    <3>. QED
      BY <1>a, <2>1, <3>1
  <2>2. CASE runs' = runs \ {j}
    <3>1. IsFiniteSet(runs') /\ Cardinality(runs') <= Cardinality(runs)
          /\ Cardinality(runs') \in Nat
      BY <2>2, FS_Subset, FS_CardinalityType
    <3>. QED
      BY <1>a, <3>1 DEF WakeTypeOK
  <2>3. CASE runs' = runs
    BY <2>3 DEF WakeTypeOK
  <2>. QED
    BY <2>1, <2>2, <2>3 DEF JobEvent, TakeJob, FinishJob, RunThrows, RunEnds, ReclaimStalled
<1>. QED
  BY <1>1, <1>2, <1>3, <1>4 DEF WakeTypeOK, hostVars, apiVars

LEMMA GotoTyped ==
    ASSUME WakeTypeOK, NEW e \in Enqueues,
           NEW label \in {"idle", "inspect", "remove", "add", "wake", "done"}, Goto(e, label)
    PROVE  enqueue' \in [Enqueues -> [pc  : {"idle", "inspect", "remove", "add", "wake", "done"},
                                      job : SUBSET Jobs]]
BY DEF WakeTypeOK, Goto

LEMMA ApiEventType ==
    ASSUME WakeTypeOK, NEW e \in Enqueues, ApiEvent(e)
    PROVE  WakeTypeOK' /\ UNCHANGED runs
<1>a. /\ entry \in [Jobs -> {"absent", "waiting", "active", "finished"}]
      /\ enqueue \in [Enqueues -> [pc  : {"idle", "inspect", "remove", "add", "wake", "done"},
                                   job : SUBSET Jobs]]
      /\ wake \in [Enqueues -> {"none", "sent", "held", "answered"}]
      /\ hostFaults \in [HostFaults -> Nat]
      /\ enqueue[e].job \subseteq Jobs
  BY DEF WakeTypeOK
<1>1. CASE \E j \in Jobs : EnqueueExportJob(e, j)
  BY <1>a, <1>1 DEF EnqueueExportJob, queueVars, hostVars, WakeTypeOK
<1>2. CASE InspectEntry(e)
  <2>1. PICK label \in {"add", "wake", "remove"} : Goto(e, label)
    BY <1>2 DEF InspectEntry
  <2>2. excused' \subseteq Jobs
    BY <1>2 DEF InspectEntry, WakeTypeOK
  <2>. QED
    BY <1>2, <2>1, <2>2, GotoTyped DEF InspectEntry, queueVars, hostVars, WakeTypeOK
<1>3. CASE RemoveEntry(e)
  <2>1. \E label \in {"add", "done"} : Goto(e, label)
    BY <1>3 DEF RemoveEntry
  <2>2. /\ entry' \in [Jobs -> {"absent", "waiting", "active", "finished"}]
        /\ \A j \in Jobs : entry[j] = "active" => entry'[j] = "active"
    BY <1>a, <1>3 DEF RemoveEntry
  <2>. QED
    BY <1>3, <2>1, <2>2, GotoTyped DEF RemoveEntry, hostVars, WakeTypeOK
<1>4. CASE AddEntry(e)
  <2>1. /\ entry' \in [Jobs -> {"absent", "waiting", "active", "finished"}]
        /\ \A j \in Jobs : entry[j] = "active" => entry'[j] = "active"
    BY <1>a, <1>4 DEF AddEntry
  <2>2. excused' \subseteq Jobs /\ Goto(e, "wake")
    BY <1>4 DEF AddEntry, WakeTypeOK
  <2>. QED
    BY <1>4, <2>1, <2>2, GotoTyped DEF AddEntry, hostVars, WakeTypeOK
<1>5. CASE WakeWorker(e)
  <2>1. Goto(e, "done")
    BY <1>5 DEF WakeWorker
  <2>2. wake' \in [Enqueues -> {"none", "sent", "held", "answered"}]
        /\ inFlight' \in Enqueues \cup {NoWake}
    BY <1>a, <1>5 DEF WakeWorker, WakeTypeOK
  <2>. QED
    BY <1>5, <2>1, <2>2, GotoTyped DEF WakeWorker, queueVars, hostVars, WakeTypeOK
<1>6. CASE WakeStep(e)
  <2>1. /\ wake' \in [Enqueues -> {"none", "sent", "held", "answered"}]
        /\ inFlight' \in Enqueues \cup {NoWake}
        /\ traffic' \in BOOLEAN
    BY <1>a, <1>6 DEF WakeStep, WakeArrives, HealthAnswers, WakeSettles, hostVars, WakeTypeOK
  <2>. QED
    BY <1>6, <2>1 DEF WakeStep, WakeArrives, HealthAnswers, WakeSettles, queueVars, hostVars,
       WakeTypeOK
<1>7. CASE WakeFails(e)
  <2>1. hostFaults' \in [HostFaults -> Nat] /\ excused' \subseteq Jobs
    BY <1>a, <1>7, HostAssumption DEF WakeFails, HostSpend, HostFaults, Strand, Unfinished,
       WakeTypeOK
  <2>2. wake' \in [Enqueues -> {"none", "sent", "held", "answered"}]
    BY <1>a, <1>7 DEF WakeFails
  <2>. QED
    BY <1>7, <2>1, <2>2 DEF WakeFails, queueVars, hostVars, WakeTypeOK
<1>. QED
  BY <1>1, <1>2, <1>3, <1>4, <1>5, <1>6, <1>7 DEF ApiEvent, EnqueueStep

LEMMA ApiDiesType ==
    ASSUME WakeTypeOK, ApiDies
    PROVE  WakeTypeOK' /\ UNCHANGED runs
<1>1. enqueue' \in [Enqueues -> [pc  : {"idle", "inspect", "remove", "add", "wake", "done"},
                                 job : SUBSET Jobs]]
  BY DEF ApiDies, WakeTypeOK
<1>2. hostFaults' \in [HostFaults -> Nat] /\ excused' \subseteq Jobs
  BY HostAssumption DEF ApiDies, HostSpend, HostFaults, Strand, Unfinished, WakeTypeOK
<1>. QED
  BY <1>1, <1>2 DEF ApiDies, queueVars, hostVars, WakeTypeOK

-----------------------------------------------------------------------------
(* Start-up: what the process has verified, and that only a live one runs.  *)
LEMMA VerifiedKept ==
    ASSUME WakeTypeOK, VerifiedInOrder, WakeNext
    PROVE  VerifiedInOrder'
<1>a. verified \subseteq Dependencies /\ runs \subseteq Jobs
  BY DEF WakeTypeOK
<1>1. CASE HostEvent
  BY <1>a, <1>1 DEF HostEvent, BootStep, HostStarts, HostRestarts, AssertDatabaseConnection,
     AssertRedisConnection, AssertStorageReady, Verify, ProcessEnds, MainFails,
     IdlePeriodPasses, Shutdown, ProcessCrashes, queueVars, VerifiedInOrder, Dependencies,
     Starting
<1>2. ASSUME NEW j \in Jobs, JobEvent(j)
      PROVE  VerifiedInOrder'
  BY <1>2 DEF JobEvent, TakeJob, FinishJob, RunThrows, RunEnds, ReclaimStalled, hostVars,
     VerifiedInOrder
<1>3. ASSUME NEW e \in Enqueues, ApiEvent(e)
      PROVE  UNCHANGED <<boot, verified, runs>>
  BY <1>3 DEF ApiEvent, EnqueueExportJob, EnqueueStep, InspectEntry, RemoveEntry, AddEntry,
     WakeWorker, WakeStep, WakeArrives, HealthAnswers, WakeSettles, WakeFails, queueVars,
     hostVars
<1>4. CASE ApiDies
  BY <1>4 DEF ApiDies, queueVars, hostVars, VerifiedInOrder
<1>. QED
  BY <1>1, <1>2, <1>3, <1>4, EventsOfNext DEF VerifiedInOrder

-----------------------------------------------------------------------------
(* The wake requests.                                                       *)
LEMMA OneWakeKept ==
    ASSUME WakeTypeOK, OneWakeInFlight, WakeNext
    PROVE  OneWakeInFlight'
<1>a. /\ NoWake \notin Enqueues
      /\ wake \in [Enqueues -> {"none", "sent", "held", "answered"}]
      /\ \A e \in Enqueues : wake[e] # "none" <=> inFlight = e
  BY HostAssumption DEF WakeTypeOK, OneWakeInFlight
<1>1. CASE UNCHANGED <<wake, inFlight>>
  BY <1>1 DEF OneWakeInFlight
<1>2. CASE HostEvent
  BY <1>1, <1>2 DEF HostEvent, BootStep, HostStarts, HostRestarts, AssertDatabaseConnection,
     AssertRedisConnection, AssertStorageReady, Verify, ProcessEnds, MainFails,
     IdlePeriodPasses, Shutdown, ProcessCrashes, apiVars
<1>3. ASSUME NEW j \in Jobs, JobEvent(j)
      PROVE  OneWakeInFlight'
  BY <1>1, <1>3 DEF JobEvent, TakeJob, FinishJob, RunThrows, RunEnds, ReclaimStalled, apiVars
<1>4. ASSUME NEW e \in Enqueues, ApiEvent(e)
      PROVE  OneWakeInFlight'
  <2>1. CASE \/ \E j \in Jobs : EnqueueExportJob(e, j)
             \/ InspectEntry(e) \/ RemoveEntry(e) \/ AddEntry(e)
    BY <1>1, <2>1 DEF EnqueueExportJob, InspectEntry, RemoveEntry, AddEntry
  <2>2. CASE WakeWorker(e)
    <3>1. CASE inFlight # NoWake
      BY <1>1, <2>2, <3>1 DEF WakeWorker
    <3>2. CASE inFlight = NoWake
      <4>1. \A d \in Enqueues : wake[d] = "none"
        BY <1>a, <3>2
      <4>. QED
        BY <1>a, <2>2, <3>2, <4>1 DEF WakeWorker, OneWakeInFlight
    <3>. QED
      BY <3>1, <3>2
  <2>3. CASE WakeArrives(e) \/ HealthAnswers(e)
    BY <1>a, <2>3 DEF WakeArrives, HealthAnswers, OneWakeInFlight
  <2>4. CASE WakeSettles(e) \/ WakeFails(e)
    BY <1>a, <2>4 DEF WakeSettles, WakeFails, OneWakeInFlight
  <2>. QED
    BY <1>4, <2>1, <2>2, <2>3, <2>4 DEF ApiEvent, EnqueueStep, WakeStep
<1>5. CASE ApiDies
  BY <1>a, <1>5 DEF ApiDies, OneWakeInFlight
<1>. QED
  BY <1>2, <1>3, <1>4, <1>5, EventsOfNext

LEMMA AnsweredKept ==
    ASSUME WakeTypeOK, NothingAnswered, WakeNext
    PROVE  NothingAnswered'
<1>a. wake \in [Enqueues -> {"none", "sent", "held", "answered"}] /\ traffic \in BOOLEAN
  BY DEF WakeTypeOK
<1>1. CASE HostEvent
  BY <1>a, <1>1 DEF HostEvent, BootStep, HostStarts, HostRestarts, AssertDatabaseConnection,
     AssertRedisConnection, AssertStorageReady, Verify, ProcessEnds, MainFails,
     IdlePeriodPasses, Shutdown, ProcessCrashes, apiVars, NothingAnswered, Down, Starting
<1>2. ASSUME NEW j \in Jobs, JobEvent(j)
      PROVE  NothingAnswered'
  BY <1>2 DEF JobEvent, TakeJob, FinishJob, RunThrows, RunEnds, ReclaimStalled, apiVars,
     hostVars, NothingAnswered, Down
<1>3. ASSUME NEW e \in Enqueues, ApiEvent(e)
      PROVE  NothingAnswered'
  <2>1. CASE \/ \E j \in Jobs : EnqueueExportJob(e, j)
             \/ InspectEntry(e) \/ RemoveEntry(e) \/ AddEntry(e)
    BY <2>1 DEF EnqueueExportJob, InspectEntry, RemoveEntry, AddEntry, hostVars,
       NothingAnswered, Down
  <2>2. CASE WakeWorker(e)
    BY <1>a, <2>2 DEF WakeWorker, hostVars, NothingAnswered, Down
  <2>3. CASE WakeStep(e) \/ WakeFails(e)
    BY <1>a, <2>3 DEF WakeStep, WakeArrives, HealthAnswers, WakeSettles, WakeFails, hostVars,
       NothingAnswered, Down
  <2>. QED
    BY <1>3, <2>1, <2>2, <2>3 DEF ApiEvent, EnqueueStep
<1>4. CASE ApiDies
  BY <1>4 DEF ApiDies, hostVars, NothingAnswered, Down
<1>. QED
  BY <1>1, <1>2, <1>3, <1>4, EventsOfNext

(* While the host is down, any outstanding request is one it has yet to     *)
(* answer, so it is on its way for every job.                               *)
LEMMA OutstandingIsComing ==
    ASSUME WakeTypeOK, OneWakeInFlight, NothingAnswered, Down, inFlight # NoWake
    PROVE  \E e \in Enqueues : wake[e] \in {"sent", "held"}
<1>1. PICK e \in Enqueues : inFlight = e
  BY DEF WakeTypeOK
<1>2. wake[e] # "none" /\ wake[e] # "answered"
  BY <1>1 DEF OneWakeInFlight, NothingAnswered
<1>. QED
  BY <1>2 DEF WakeTypeOK

-----------------------------------------------------------------------------
(* No job is left behind.  Owed jobs stay owed until their call sends or    *)
(* joins a request.                                                         *)
LEMMA OwedKept ==
    ASSUME WakeTypeOK, NEW e \in Enqueues, NEW label, Goto(e, label), enqueue[e].pc # "wake"
    PROVE  /\ \A j \in Jobs : Owed(j) => Owed(j)'
           /\ label = "wake" => \A j \in enqueue[e].job : Owed(j)'
<1>a. enqueue \in [Enqueues -> [pc  : {"idle", "inspect", "remove", "add", "wake", "done"},
                               job : SUBSET Jobs]]
  BY DEF WakeTypeOK
<1>1. /\ enqueue'[e].pc = label /\ enqueue'[e].job = enqueue[e].job
      /\ \A d \in Enqueues : d # e => enqueue'[d] = enqueue[d]
  BY <1>a DEF Goto
<1>. QED
  BY <1>1 DEF Owed

LEMMA HostLeavesNothing ==
    ASSUME WakeTypeOK, NothingLeftBehind, HostEvent
    PROVE  NothingLeftBehind'
<1>1. CASE Shutdown
  <2>1. /\ UNCHANGED <<entry, enqueue, wake>>
        /\ excused' = excused \cup {j \in Unfinished : ~OnItsWay(j)}
    BY <1>1 DEF Shutdown, queueVars, apiVars
  <2>. QED
    BY <2>1 DEF NothingLeftBehind, Unfinished, OnItsWay, Owed
<1>2. CASE ProcessEnds
  <2>1. UNCHANGED <<entry, enqueue, wake, excused>> /\ Down
    BY <1>2 DEF ProcessEnds, apiVars, Down
  <2>. QED
    BY <2>1 DEF NothingLeftBehind, Unfinished, OnItsWay, Owed
<1>3. CASE ~Shutdown /\ ~ProcessEnds
  <2>1. ~Down'
    BY <1>3 DEF HostEvent, BootStep, HostStarts, HostRestarts, AssertDatabaseConnection,
       AssertRedisConnection, AssertStorageReady, Verify, MainFails, IdlePeriodPasses,
       ProcessCrashes, Down
  <2>. QED
    BY <2>1 DEF NothingLeftBehind
<1>. QED
  BY <1>1, <1>2, <1>3

LEMMA JobsLeaveNothing ==
    ASSUME WakeTypeOK, NothingLeftBehind, NEW j \in Jobs, JobEvent(j)
    PROVE  NothingLeftBehind'
<1>1. CASE TakeJob(j) \/ ReclaimStalled(j)
  <2>1. ~Down'
    BY <1>1 DEF TakeJob, ReclaimStalled, hostVars, Down
  <2>. QED
    BY <2>1 DEF NothingLeftBehind
<1>2. CASE FinishJob(j) \/ RunThrows(j)
  <2>1. /\ UNCHANGED <<boot, enqueue, wake, excused>>
        /\ Unfinished' \subseteq Unfinished
    BY <1>2 DEF FinishJob, RunThrows, RunEnds, hostVars, apiVars, Unfinished, WakeTypeOK
  <2>. QED
    BY <2>1 DEF NothingLeftBehind, OnItsWay, Owed, Down
<1>. QED
  BY <1>1, <1>2 DEF JobEvent

LEMMA CallsLeaveNothing ==
    ASSUME WakeTypeOK, OneWakeInFlight, NothingAnswered, NothingLeftBehind,
           NEW e \in Enqueues, ApiEvent(e)
    PROVE  NothingLeftBehind'
<1>a. /\ entry \in [Jobs -> {"absent", "waiting", "active", "finished"}]
      /\ enqueue \in [Enqueues -> [pc  : {"idle", "inspect", "remove", "add", "wake", "done"},
                                   job : SUBSET Jobs]]
      /\ wake \in [Enqueues -> {"none", "sent", "held", "answered"}]
  BY DEF WakeTypeOK
<1>1. CASE \E j \in Jobs : EnqueueExportJob(e, j)
  <2>1. UNCHANGED <<entry, boot, wake, excused>> /\ \A k \in Jobs : Owed(k) => Owed(k)'
    BY <1>a, <1>1 DEF EnqueueExportJob, queueVars, hostVars, Owed
  <2>. QED
    BY <2>1 DEF NothingLeftBehind, Unfinished, OnItsWay, Down
<1>2. CASE InspectEntry(e)
  <2>1. PICK j \in enqueue[e].job :
          /\ Goto(e, CASE entry[j] = "absent" -> "add"
                       [] entry[j] = "active" -> "wake"
                       [] OTHER               -> "remove")
          /\ excused' = IF entry[j] = "active" THEN excused \ {j} ELSE excused
    BY <1>2 DEF InspectEntry
  <2>2. UNCHANGED <<entry, boot, wake>> /\ enqueue[e].pc # "wake"
    BY <1>2 DEF InspectEntry, queueVars, hostVars
  <2>3. \A k \in Jobs : Owed(k) => Owed(k)'
    BY <2>1, <2>2, OwedKept
  <2>4. CASE entry[j] = "active"
    <3>1. Goto(e, "wake")
      BY <2>1, <2>4
    <3>2. Owed(j)'
      BY <2>2, <3>1, OwedKept
    <3>. QED
      BY <2>1, <2>2, <2>3, <3>2 DEF NothingLeftBehind, Unfinished, OnItsWay, Down
  <2>5. CASE entry[j] # "active"
    BY <2>1, <2>2, <2>3, <2>5 DEF NothingLeftBehind, Unfinished, OnItsWay, Down
  <2>. QED
    BY <2>4, <2>5
<1>3. CASE RemoveEntry(e)
  <2>1. PICK label \in {"add", "done"} : Goto(e, label)
    BY <1>3 DEF RemoveEntry
  <2>2. UNCHANGED <<boot, wake, excused>> /\ enqueue[e].pc # "wake"
        /\ Unfinished' \subseteq Unfinished
    BY <1>a, <1>3 DEF RemoveEntry, hostVars, Unfinished
  <2>3. \A k \in Jobs : Owed(k) => Owed(k)'
    BY <2>1, <2>2, OwedKept
  <2>. QED
    BY <2>2, <2>3 DEF NothingLeftBehind, Unfinished, OnItsWay, Down
<1>4. CASE AddEntry(e)
  <2>1. PICK j \in enqueue[e].job :
          /\ entry' = [entry EXCEPT ![j] = IF @ = "absent" THEN "waiting" ELSE @]
          /\ excused' = excused \ {j}
    BY <1>4 DEF AddEntry
  <2>2. UNCHANGED <<boot, wake>> /\ enqueue[e].pc # "wake" /\ Goto(e, "wake")
    BY <1>4 DEF AddEntry, hostVars
  <2>3. Owed(j)' /\ \A k \in Jobs : Owed(k) => Owed(k)'
    BY <2>2, OwedKept
  <2>4. Unfinished' \subseteq Unfinished \cup {j}
    BY <1>a, <2>1 DEF Unfinished
  <2>. QED
    BY <2>1, <2>2, <2>3, <2>4 DEF NothingLeftBehind, Unfinished, OnItsWay, Down
<1>5. CASE WakeWorker(e)
  <2>1. SUFFICES ASSUME Down' PROVE \E d \in Enqueues : wake'[d] \in {"sent", "held"}
    BY DEF NothingLeftBehind, OnItsWay
  <2>2. Down
    BY <1>5, <2>1 DEF WakeWorker, hostVars, Down
  <2>3. CASE inFlight # NoWake
    BY <1>5, <2>2, <2>3, OutstandingIsComing DEF WakeWorker
  <2>4. CASE inFlight = NoWake
    BY <1>a, <1>5, <2>4 DEF WakeWorker
  <2>. QED
    BY <2>3, <2>4
<1>6. CASE WakeArrives(e)
  <2>1. wake'[e] = "held" /\ UNCHANGED <<entry, boot, excused>>
    BY <1>a, <1>6 DEF WakeArrives, queueVars
  <2>. QED
    BY <2>1 DEF NothingLeftBehind, OnItsWay
<1>7. CASE HealthAnswers(e)
  BY <1>7 DEF HealthAnswers, hostVars, NothingLeftBehind, Down
<1>8. CASE WakeSettles(e)
  BY <1>8 DEF WakeSettles, hostVars, NothingLeftBehind, NothingAnswered, Down
<1>9. CASE WakeFails(e)
  <2>1. UNCHANGED <<entry, boot, enqueue>>
    BY <1>9 DEF WakeFails, queueVars, hostVars
  <2>2. Down => excused' = excused \cup (Unfinished \cap {j \in Jobs : ~Owed(j)})
    BY <1>9 DEF WakeFails, Strand, Down
  <2>. QED
    BY <2>1, <2>2 DEF NothingLeftBehind, Unfinished, OnItsWay, Owed, Down
<1>. QED
  BY <1>1, <1>2, <1>3, <1>4, <1>5, <1>6, <1>7, <1>8, <1>9 DEF ApiEvent, EnqueueStep, WakeStep

LEMMA LeftBehindKept ==
    ASSUME WakeTypeOK, OneWakeInFlight, NothingAnswered, NothingLeftBehind, WakeNext
    PROVE  NothingLeftBehind'
<1>1. CASE ApiDies
  <2>1. UNCHANGED <<entry, boot>> /\ (Down => excused' = excused \cup (Unfinished \cap Jobs))
    BY <1>1 DEF ApiDies, Strand, queueVars, hostVars, Down
  <2>. QED
    BY <2>1 DEF NothingLeftBehind, Unfinished, Down
<1>. QED
  BY <1>1, EventsOfNext, HostLeavesNothing, JobsLeaveNothing, CallsLeaveNothing

-----------------------------------------------------------------------------
LEMMA InitWakeInv == WakeInit => WakeInv
<1>. SUFFICES ASSUME WakeInit PROVE WakeInv
  OBVIOUS
<1>1. WakeTypeOK
  <2>1. Cardinality(runs) <= Concurrency
    BY FS_EmptySet, HostAssumption DEF WakeInit
  <2>. QED
    BY <2>1 DEF WakeInit, WakeTypeOK, Boot, Starting
<1>2. OneWakeInFlight
  BY HostAssumption DEF WakeInit, OneWakeInFlight
<1>3. VerifiedInOrder /\ NothingAnswered /\ NothingLeftBehind
  BY DEF WakeInit, VerifiedInOrder, NothingAnswered, NothingLeftBehind, Unfinished
<1>. QED
  BY <1>1, <1>2, <1>3, FS_EmptySet DEF WakeInit, WakeInv

LEMMA NextWakeInv == WakeInv /\ [WakeNext]_vars => WakeInv'
<1>1. ASSUME WakeInv, UNCHANGED vars
      PROVE  WakeInv'
  BY <1>1 DEF WakeInv, vars, queueVars, hostVars, apiVars, WakeTypeOK, OneWakeInFlight,
     VerifiedInOrder, NothingAnswered, NothingLeftBehind, Unfinished, OnItsWay, Owed, Down
<1>2. ASSUME WakeInv, WakeNext
      PROVE  WakeInv'
  <2>1. WakeTypeOK' /\ IsFiniteSet(runs')
    <3>1. CASE HostEvent
      <4>1. runs' = runs \/ runs' = {}
        BY <3>1 DEF HostEvent, BootStep, HostStarts, HostRestarts, AssertDatabaseConnection,
           AssertRedisConnection, AssertStorageReady, Verify, ProcessEnds, MainFails,
           IdlePeriodPasses, Shutdown, ProcessCrashes, queueVars
      <4>. QED
        BY <1>2, <3>1, <4>1, HostEventType, FS_EmptySet DEF WakeInv
    <3>. QED
      BY <1>2, <3>1, EventsOfNext, JobEventType, ApiEventType, ApiDiesType DEF WakeInv
  <2>. QED
    BY <1>2, <2>1, VerifiedKept, OneWakeKept, AnsweredKept, LeftBehindKept DEF WakeInv
<1>. QED
  BY <1>1, <1>2

(* The strengthening is an invariant, for any number of jobs and faults.    *)
THEOREM WakeInvariant == WakeSpec => []WakeInv
BY InitWakeInv, NextWakeInv, PTL DEF WakeSpec

(* At most one wake request is outstanding, and inFlight tells which.       *)
THEOREM WakesAreJoined == WakeSpec => []OneWakeInFlight
<1>1. WakeInv => OneWakeInFlight
  BY DEF WakeInv
<1>. QED
  BY <1>1, WakeInvariant, PTL

(* Only a process that has reached Postgres, Redis and the bucket has jobs. *)
THEOREM JobsAreVerified == WakeSpec => []JobsOnlyWhenVerified
<1>1. WakeInv => JobsOnlyWhenVerified
  BY DEF WakeInv, VerifiedInOrder, JobsOnlyWhenVerified
<1>. QED
  BY <1>1, WakeInvariant, PTL

(* No call leaves its job to a sleeping host without a request on its way,  *)
(* in whatever order calls, requests, answers and the host's sleep fall.    *)
THEOREM NoJobIsStranded == WakeSpec => []NoStrandedJob
<1>1. WakeInv => NoStrandedJob
  BY DEF WakeInv, NothingLeftBehind, NoStrandedJob, Needs, Unfinished, Down
<1>. QED
  BY <1>1, WakeInvariant, PTL
=============================================================================
