------------------------------- MODULE MCExport -------------------------------
(***************************************************************************)
(* Instances of the export system for TLC: the faults a run allows, and    *)
(* the symmetry of workers and requests.                                   *)
(***************************************************************************)
EXTENDS ExportProperties, TLC

Budget(allowed) == [k \in FaultKinds |-> IF k \in DOMAIN allowed THEN allowed[k] ELSE 0]

NoFaults          == Budget([crash |-> 0])
OneCrash          == Budget([crash |-> 1])
OneOpenInsert     == Budget([openInsert |-> 1])
CrashAndError     == Budget([crash |-> 1, error |-> 1])
LockLossAndError  == Budget([lockLoss |-> 1, error |-> 1])
RestartCrashLate  == Budget([redisRestart |-> 1, crash |-> 1, openInsert |-> 1])
DeleteErrorAbort  == Budget([delete |-> 1, error |-> 1, abort |-> 1])

(* The row count in the message of a sweep is read by InterruptedAsListed    *)
(* only.  Runs that do not check it need not tell states apart by it.       *)
WithoutMessage ==
    <<jobVars, storageVars, recordVars, queue, worker, request, sweeping.listed, faults>>

Symmetry == Permutations(Workers) \cup Permutations(Requests)
=============================================================================
