------------------------------- MODULE MCClient -------------------------------
(***************************************************************************)
(* Instances of ExportPage for TLC: one tab and one other client.          *)
(***************************************************************************)
EXTENDS ExportPage

AllCallers == {"restore", "form", "page", "action", "other"}

Lowercase == [a \in Addresses |-> IF a = "Ann" THEN "ann" ELSE a]
=============================================================================
