--------------------------- MODULE ScanRefinement ---------------------------
(* Scan keeps the contract of a resumable run directory: the log is what a *)
(* reader of findings.jsonl can decode, and a target is certified while a  *)
(* resume would skip it.                                                   *)
EXTENDS Scan

NeededFor ==
    [t \in Targets |-> [v \in Versions |->
        UNION {Found(u, Yields[u][v]) : u \in {w \in Supports : w[2] = t}}]]

Contract == INSTANCE ResumeContract
    WITH Evidence  <- Item,
         Needed    <- NeededFor,
         log       <- Decoded(findings),
         certified <- {t \in Targets : WouldSkip(t)}

(* Every step of a scan is a step the contract allows, or none at all:     *)
(* appends add one witness, the manifest certifies only what is in         *)
(* evidence, an edit ends the certificate of its target and of no other.   *)
KeepsContract == Contract!ContractSpec
=============================================================================
