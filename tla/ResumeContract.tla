--------------------------- MODULE ResumeContract ---------------------------
(***************************************************************************)
(* What a run directory promises to an operator who resumes: evidence is   *)
(* only ever added, and a target is certified (a resume may leave it out)  *)
(* only while everything its present content holds is in evidence.  No     *)
(* files, threads, fingerprints or kills: those are Scan's business.       *)
(***************************************************************************)
EXTENDS Naturals

CONSTANTS
    Targets, Versions, Evidence,
    Needed        \* Needed[t][v]: the evidence version v of t calls for

VARIABLES
    content,      \* the version each target is in
    log,          \* the evidence on record
    certified     \* the targets a resume leaves out

contractVars == <<content, log, certified>>

ContractInit ==
    /\ content \in [Targets -> Versions]
    /\ log = {} /\ certified = {}

(* A target changes; its certificate does not survive that. *)
Change(t, v) ==
    /\ content' = [content EXCEPT ![t] = v]
    /\ certified' = certified \ {t}
    /\ UNCHANGED log

Witness(x) ==
    /\ log' = log \cup {x}
    /\ UNCHANGED <<content, certified>>

(* A new manifest takes the place of the old one. *)
Certify(T) ==
    /\ \A t \in T : Needed[t][content[t]] \subseteq log
    /\ certified' = T
    /\ UNCHANGED <<content, log>>

ContractNext ==
    \/ \E t \in Targets, v \in Versions : Change(t, v)
    \/ \E x \in Evidence : Witness(x)
    \/ \E T \in SUBSET Targets : Certify(T)

ContractSpec == ContractInit /\ [][ContractNext]_contractVars
=============================================================================
