------------------------------- MODULE MCScan -------------------------------
(* Small estates for Scan: a source tree scanned on two surfaces, an       *)
(* endpoint, and what their contents are over time.                        *)
EXTENDS ScanInvariant

CONSTANTS tree, host, source, elf, tls, rsa, md5

MCTargets    == {tree, host}
MCCollectors == {source, elf, tls}
MCSupports   == {<<source, tree>>, <<elf, tree>>, <<tls, host>>}

OneUnitEach  == {<<source, tree>>, <<tls, host>>}

MCPresent == [t \in MCTargets |-> [v \in Versions |-> ~(t = tree /\ v = 2)]]
AlwaysPresent == [t \in MCTargets |-> [v \in Versions |-> TRUE]]

(* Every content of a target has a fingerprint of its own. *)
Distinct == [t \in MCTargets |-> [v \in Versions |-> v]]

(* content_hash() does not see the change: a file under build/ or dist/,   *)
(* which walk_files() does visit, or a server behind the same host:port.   *)
Blind == [t \in MCTargets |-> [v \in Versions |-> 1]]

MCYields == [u \in Supports |-> [v \in Versions |->
                IF v = 1 THEN {rsa} ELSE IF u[2] = tree THEN {} ELSE {md5}]]

BothNames == [u \in Supports |-> [v \in Versions |-> IF v = 1 THEN {rsa} ELSE {md5}]]

(* A server that does not answer with anything of interest: a unit that    *)
(* finds nothing.                                                          *)
TreeOnly == [u \in Supports |-> [v \in Versions |-> IF u[1] = tls THEN {} ELSE {rsa}]]

Ask(T, r) == [targets |-> T, surfaces |-> MCCollectors, resume |-> r]

MCRequests  == {Ask(MCTargets, TRUE), Ask({tree}, TRUE), Ask({tree}, FALSE)}
AllOrTree   == {Ask(MCTargets, FALSE), Ask({tree}, TRUE)}
ResumeTree  == {Ask({tree}, TRUE)}
=============================================================================
