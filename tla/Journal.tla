------------------------------ MODULE Journal ------------------------------
(***************************************************************************)
(* The files and records of a run directory (qdarpan/journal.py), as       *)
(* values: the two append-only JSONL files findings.jsonl and errors.jsonl *)
(* and the target records of manifest.json.  Nothing here is a state       *)
(* machine; the modules that own the run directory apply these operators   *)
(* to their variables.  An operator introduced as "Wrong:" is a bug the     *)
(* code could have had; no specification uses it.                          *)
(***************************************************************************)
EXTENDS Integers, Sequences, FiniteSets

CONSTANTS
    Targets,      \* target ids
    Collectors,   \* the surfaces a target can be scanned on
    Names,        \* what a collector can find: the witnesses of one target
    Scanner,      \* the name scan() signs its own errors with
    NoName,       \* the name field of an error line
    Garbled,      \* a physical line that json.loads refuses
    Digests,      \* values of content_hash()
    NoRecord      \* manifest.targets.get(t) is None

ASSUME ScannerIsNoCollector == Scanner \notin Collectors

(* One line of the journal: CryptoFinding.to_dict() or CollectorError.to_dict(). *)
Item == [kind: {"finding", "error"}, target: Targets,
         collector: Collectors \cup {Scanner}, name: Names \cup {NoName}]

(* One witness collector c found on t, and one error it met there. *)
Finding(c, t, n) == [kind |-> "finding", target |-> t, collector |-> c, name |-> n]
Failure(c, t)    == [kind |-> "error", target |-> t, collector |-> c, name |-> NoName]

ASSUME GarbledIsNoItem == Garbled \notin Item

----------------------------------------------------------------------------
(* A JSONL file: its physical lines, and whether the last one still lacks   *)
(* its newline because the process died while writing it.                   *)
JsonLines == [lines: Seq(Item \cup {Garbled}), open: BOOLEAN]

EmptyFile == [lines |-> <<>>, open |-> FALSE]

(* The last physical line of f becomes text that no longer parses. *)
Spoiled(f) == [f.lines EXCEPT ![Len(f.lines)] = Garbled]

(* Wrong: the newline is forgotten. *)
AppendLineUnterminated(f, x) ==
    [lines |-> IF f.open THEN Spoiled(f) ELSE Append(f.lines, x), open |-> TRUE]

(* _append(): the line is written behind whatever the file ends with, so   *)
(* behind an unterminated line it is glued to it: {...}{...} or {..{...}.  *)
AppendLine(f, x) ==
    [lines |-> IF f.open THEN Spoiled(f) ELSE Append(f.lines, x),
     open  |-> FALSE]

(* _append() cut short by a kill: "partial" leaves a prefix of the record, *)
(* "whole" leaves the record without its newline.                          *)
TearLine(f, x, cut) ==
    [lines |-> IF f.open THEN Spoiled(f)
               ELSE Append(f.lines, IF cut = "whole" THEN x ELSE Garbled),
     open  |-> TRUE]

(* findings() and errors(): every physical line that parses; the others    *)
(* are skipped.                                                            *)
Decoded(f) == {f.lines[i] : i \in DOMAIN f.lines} \ {Garbled}

DecodedCount(f) == Cardinality({i \in DOMAIN f.lines : f.lines[i] # Garbled})

----------------------------------------------------------------------------
(* TargetRecord, and Manifest.targets as a function that is NoRecord where *)
(* the dictionary has no key.                                              *)
TargetRecord == [hash: Digests, status: {"pending", "complete", "error"},
                 findings: Nat, errors: Nat]

ASSUME NoRecordIsNoRecord == NoRecord \notin TargetRecord

Records == [Targets -> TargetRecord \cup {NoRecord}]

NoRecords == [t \in Targets |-> NoRecord]

(* Wrong: the hash is not compared. *)
ShouldSkipAnyHash(recs, t, digest) ==
    recs[t] # NoRecord /\ recs[t].status = "complete"

(* should_skip(): completed before, with the content it has now. *)
ShouldSkip(recs, t, digest) ==
    /\ recs[t] # NoRecord
    /\ recs[t].status = "complete"
    /\ recs[t].hash = digest

(* register_target(): an unchanged target keeps its record, counters and   *)
(* status included; a new or a changed one starts afresh.                  *)
RegisterTarget(recs, t, digest) ==
    IF recs[t] # NoRecord /\ recs[t].hash = digest
    THEN recs
    ELSE [recs EXCEPT ![t] = [hash |-> digest, status |-> "pending",
                              findings |-> 0, errors |-> 0]]

(* The counter record_finding() or record_error() bumps, when the target   *)
(* has a record at all.                                                    *)
CountItem(recs, x) ==
    IF recs[x.target] = NoRecord THEN recs
    ELSE IF x.kind = "finding"
         THEN [recs EXCEPT ![x.target].findings = @ + 1]
         ELSE [recs EXCEPT ![x.target].errors = @ + 1]

(* Wrong: a target with errors is complete too. *)
CompleteTargetsAnyway(recs, T) ==
    [t \in Targets |-> IF t \in T /\ recs[t] # NoRecord
                       THEN [recs[t] EXCEPT !.status = "complete"] ELSE recs[t]]

(* Wrong: a status should_skip() does not know. *)
CompleteTargetsMisspelt(recs, T) ==
    [t \in Targets |-> IF t \in T /\ recs[t] # NoRecord
                       THEN [recs[t] EXCEPT !.status = "completed"] ELSE recs[t]]

(* Wrong: the loop at line 189 is dropped. *)
CompleteTargetsNever(recs, T) == recs

(* complete_target() over a set of targets. *)
CompleteTargets(recs, T) ==
    [t \in Targets |->
        IF t \in T /\ recs[t] # NoRecord
        THEN [recs[t] EXCEPT !.status = IF recs[t].errors = 0 THEN "complete" ELSE "error"]
        ELSE recs[t]]

(* manifest.json: missing, cut short by a kill inside save_manifest(), or  *)
(* a complete document.                                                    *)
ManifestFile == [state: {"absent", "torn", "saved"}, targets: Records]

AbsentManifest == [state |-> "absent", targets |-> NoRecords]
TornManifest   == [state |-> "torn", targets |-> NoRecords]
SavedManifest(recs) == [state |-> "saved", targets |-> recs]
============================================================================
