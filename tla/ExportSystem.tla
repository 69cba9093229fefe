----------------------------- MODULE ExportSystem -----------------------------
(***************************************************************************)
(* The whole system: workers, API requests, the sweeper, BullMQ, the       *)
(* clock and the record traffic, interleaved at every awaited call.        *)
(***************************************************************************)
EXTENDS ExportWorker, ExportApi, StalledSweeper

QueueEntry == [state        : QueueState,
               owner        : Workers \cup {NoWorker},
               attemptsMade : 0 .. Attempts,
               stalledCount : 0 .. MaxStalledCount]

WorkerState == [pc               : WorkerPc,
                batchNumber      : Nat,
                lastExportedId   : Nat,
                exportedRowCount : Nat,
                batch            : SUBSET (1 .. MaxRecordId),
                batchCount       : Nat,
                nextChunk        : Nat,
                assembled        : SUBSET (Nat \X Nat),
                verdict          : VerdictValue]

RequestState == [op      : RequestOp,
                 pc      : RequestPc,
                 verdict : VerdictValue]

(* Every variable has its type; the attempts and stalls of a queue entry    *)
(* never pass the limits the queue is configured with.                      *)
TypeOK ==
    /\ job \in ExportJob
    /\ snapshotMaxId \in Nat
    /\ checkpoints \subseteq ExportCheckpoint
    /\ verification \in VerdictValue
    /\ chunks \subseteq Nat \X Nat
    /\ finalFile \subseteq Nat \X Nat
    /\ records \subseteq 1 .. MaxRecordId
    /\ openInserts \subseteq 1 .. MaxRecordId
    /\ nextRecordId \in 1 .. MaxRecordId + 1
    /\ queue \in QueueEntry
    /\ worker \in [Workers -> WorkerState]
    /\ request \in [Handlers -> RequestState]
    /\ sweeping \in SweptRow
    /\ faults \in [FaultKinds -> Nat]

-----------------------------------------------------------------------------
Next ==
    \/ \E w \in Workers : RunStep(w) \/ RunFault(w)
    \/ \E h \in Handlers : HandlerStep(h) \/ RequestAborts(h)
    \/ \E r \in Requests : RequestArrives(r)
    \/ QueueStep \/ QueueFault
    \/ SweepStep \/ SweepAborts
    \/ HeartbeatExpires
    \/ RecordTraffic

Spec == Init /\ [][Next]_vars

(* Live processes take their next step, BullMQ hands out and reclaims, the  *)
(* clock and the sweeper's timer go on.  Nothing has to fail and nobody     *)
(* has to send a request, insert or delete a row.                           *)
Fairness ==
    /\ \A w \in Workers : WF_vars(RunStep(w))
    /\ \A h \in Handlers : WF_vars(HandlerStep(h))
    /\ WF_vars(QueueStep)
    /\ WF_vars(SweepStep)
    /\ WF_vars(HeartbeatExpires)

FairSpec == Spec /\ Fairness
=============================================================================
