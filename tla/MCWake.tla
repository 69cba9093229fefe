------------------------------- MODULE MCWake -------------------------------
(***************************************************************************)
(* Instances of WorkerWake for TLC: every fault at most once.              *)
(***************************************************************************)
EXTENDS WorkerWake

EachFaultOnce == [k \in HostFaults |-> 1]
=============================================================================
