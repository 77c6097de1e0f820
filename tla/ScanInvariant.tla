---------------------------- MODULE ScanInvariant ----------------------------
(* The inductive strengthening of LossShows, in named parts, and the       *)
(* assumptions under which it is one.                                      *)
EXTENDS ScanRefinement

(* No append is cut short: what a kill may interrupt is everything else. *)
WholeLines == Cuts = {}

(* A fingerprint tells every content of its target from the others. *)
DistinctDigests ==
    \A t \in Targets : \A v, w \in Versions : Digest[t][v] = Digest[t][w] => v = w

(* Every call asks for every surface its targets support. *)
AllSurfaces == \A q \in Requests : \A u \in Supports : u[1] \in q.surfaces

----------------------------------------------------------------------------
FilesClosed == ~findings.open /\ ~errors.open

(* What becomes of the files when no append is cut short. *)
WholeInv == FilesClosed /\ Unspoilt(findings)

(* A line without its newline is a line. *)
TailsAreLines ==
    /\ findings.open => findings.lines # <<>>
    /\ errors.open => errors.lines # <<>>

(* What f holds as far as its readers can tell: a file with a line they     *)
(* cannot read may have held anything.                                      *)
OnRecord(f) == IF Unspoilt(f) THEN Decoded(f) ELSE Item

(* No record of R holds the fingerprint of a content its target is yet to  *)
(* have, c being the contents of now.                                      *)
HashesArePast(R, c) ==
    \A t \in Targets : R[t] # NoRecord =>
        \E v \in Versions : v <= c[t] /\ R[t].hash = Digest[t][v]

(* r is the record of t's present content. *)
IsCurrent(r, t, c) == r # NoRecord /\ r.hash = Digest[t][c[t]]

(* A complete record of the present content is backed by the log. *)
CompleteIsBacked(R, c, log) ==
    \A u \in Supports :
        (IsCurrent(R[u[2]], u[2], c) /\ R[u[2]].status = "complete")
            => Found(u, Yields[u][c[u[2]]]) \subseteq log

(* How far the call has come: which units exist, and in which stage. *)
StagesMatchPc ==
    /\ pc \in {"idle", "unknown"} => \A u \in Supports : stage[u] = "none"
    /\ pc = "plan" => \A u \in Supports : stage[u] \in {"none", "queued"}
    /\ pc = "plan" => \A u \in Supports : u[2] \in todo => stage[u] = "none"
    /\ pc \in {"unknown", "plan"} => left = {}
    /\ pc = "unknown" => skipped = {}

Planned(t) == t \in known /\ t \notin skipped /\ ~(pc = "plan" /\ t \in todo)

EveryUnitQueued ==
    pc \in {"plan", "collect"} =>
        \A u \in Supports : Planned(u[2]) => stage[u] # "none"

SkippedIsComplete ==
    pc \in {"plan", "collect"} =>
        \A t \in skipped :
            /\ recs[t] # NoRecord /\ recs[t].status = "complete"
            /\ ~(pc = "plan" /\ t \in todo)

RequestIsFull ==
    pc \in {"unknown", "plan"} => \A u \in Supports : u[1] \in request.surfaces

(* What is known of a unit while its target is as it was fingerprinted. *)
UnitInv(u) ==
    LET r == recs[u[2]]
        failed == Failure(u[1], u[2]) \in results[u]
    IN  /\ stage[u] # "none" => r # NoRecord
        /\ (stage[u] = "running" /\ IsCurrent(r, u[2], content)) => began[u] = content[u[2]]
        /\ (stage[u] = "done" /\ IsCurrent(r, u[2], content) /\ ~failed)
              => Witnesses(u) \subseteq results[u]
        /\ (stage[u] = "drained" /\ IsCurrent(r, u[2], content) /\ ~failed)
              => Witnesses(u) \subseteq left \cup OnRecord(findings)
        /\ (stage[u] = "drained" /\ failed)
              => r.errors > 0 \/ Failure(u[1], u[2]) \in left

UnitsInv == pc \in {"plan", "collect"} => \A u \in Supports : UnitInv(u)

(* The part of the invariant that speaks of the disk and of the manifest   *)
(* in memory.                                                              *)
RecordsInv ==
    /\ TailsAreLines
    /\ HashesArePast(recs, content) /\ HashesArePast(manifest.targets, content)
    /\ CompleteIsBacked(recs, content, OnRecord(findings))
    /\ CompleteIsBacked(manifest.targets, content, OnRecord(findings))

(* The part that speaks of the call under way. *)
CallInv ==
    /\ StagesMatchPc /\ EveryUnitQueued /\ SkippedIsComplete
    /\ RequestIsFull /\ UnitsInv

(* The inductive invariant: every state of a history in which fingerprints *)
(* are distinct and every call asks for every surface satisfies it, kills   *)
(* inside an append included.                                              *)
IInv == RecordsInv /\ CallInv

----------------------------------------------------------------------------
(* The books of a call: why Accounted, ResultsJournalled,                  *)
(* SummaryCountsErrors and ResumeKeepsOthers hold as long as no append is   *)
(* cut short, and CleanRunIsComplete wherever one is.                      *)
Past == {"truncate", "write", "returned"}   \* the loop over the futures is done

(* An item is in a worker's hands, still to be journalled, or journalled.  *)
ItemsInv ==
    /\ pc \in {"idle", "unknown", "plan"} => \A u \in Supports : stage[u] \in {"none", "queued"}
    /\ pc \in Past => left = {} /\ \A u \in Supports : stage[u] \in {"none", "drained"}
    /\ \A u \in Supports :
          /\ stage[u] \in {"none", "queued", "running"} => results[u] = {}
          /\ stage[u] = "drained"
                => results[u] \subseteq left \cup Decoded(findings) \cup Decoded(errors)

(* Whatever is collected or counted belongs to a target of the request.    *)
OwnItems ==
    /\ known \subseteq request.targets /\ todo \subseteq request.targets
    /\ \A u \in Supports :
          /\ stage[u] # "none" => u[2] \in request.targets
          /\ \A x \in results[u] : x.target = u[2]
    /\ \A x \in left : x.target \in request.targets

OthersKept ==
    (pc \in {"unknown", "plan", "collect", "truncate"} /\ request.resume
        /\ manifest.state = "saved")
        => \A t \in Targets \ request.targets : recs[t] = manifest.targets[t]

(* A record with errors has an error line to show for it.                  *)
ErrorsNamed(R) == \A t \in Targets : R[t] # NoRecord /\ R[t].errors # 0 => HasErrorLine(t)

ErrorsInv ==
    /\ FilesClosed
    /\ ErrorsNamed(recs) /\ ErrorsNamed(manifest.targets)
    /\ pc \in {"collect"} \cup Past => count.errors = DecodedCount(errors)

(* Every target of the request was resolved, or has an error line.         *)
TargetsInv ==
    /\ \A t \in request.targets :
          t \in known \/ (pc = "unknown" /\ t \in todo) \/ HasErrorLine(t)
    /\ pc = "returned" => manifest = SavedManifest(recs)

(* Every target that was resolved gets a record, which says in the end how  *)
(* its units fared.                                                        *)
KnownInv ==
    /\ \A t \in known :
          recs[t] # NoRecord \/ pc = "unknown" \/ (pc = "plan" /\ t \in todo)
    /\ pc \in Past => \A t \in known :
          recs[t].status = IF recs[t].errors = 0 THEN "complete" ELSE "error"

NoErrors(R) == \A t \in Targets : R[t] # NoRecord => R[t].errors = 0

(* Before errors.jsonl has its first line no record has an error and every  *)
(* target was resolved; and a count of nothing says that it has none, if    *)
(* every line can be read.                                                 *)
FirstErrorInv ==
    /\ errors.open => errors.lines # <<>>
    /\ errors.lines = <<>> =>
          /\ NoErrors(recs) /\ NoErrors(manifest.targets)
          /\ \A t \in request.targets : t \in known \/ (pc = "unknown" /\ t \in todo)
    /\ (pc \in {"collect"} \cup Past /\ count.errors = 0 /\ Unspoilt(errors))
          => errors.lines = <<>>

Books == ItemsInv /\ OwnItems /\ OthersKept /\ ErrorsInv /\ TargetsInv

----------------------------------------------------------------------------
(* Why a call ends: what ScanEnds says without fairness.                    *)

(* The guard of a step of the main thread, or of a worker, holds: whose and *)
(* which, at the end of each line.                                          *)
SomeoneCanMove ==
    \/ pc \in {"unknown", "plan", "truncate", "write"}            \* main: its loops
    \/ \E x \in left : x.kind \in {"finding", "error"}           \* main: journals
    \/ left = {} /\ \E u \in Supports : stage[u] = "done"        \* main: drains
    \/ left = {} /\ \A u \in Supports : Joined(u)                \* main: completes
    \/ \E u \in Supports : stage[u] = "running"                  \* a worker: returns
    \/ /\ \E u \in Supports : stage[u] = "queued"                 \* a worker: starts
       /\ Cardinality({w \in Supports : stage[w] = "running"}) < Workers

(* No unit waits for a worker that waits for the main thread, and the main  *)
(* thread for no unit that waits for it, whatever the order of completion.  *)
NoOneIsStuck == pc \notin Down => SomeoneCanMove

Phase == [unknown |-> 1, plan |-> 2, collect |-> 3, truncate |-> 4, write |-> 5, returned |-> 6]
Age   == [none |-> 1, queued |-> 2, running |-> 3, done |-> 4, drained |-> 5]

(* A is B without at least one element. *)
Shrinks(A, B) == A \subseteq B /\ A # B

(* The call comes closer to its end: it enters a later phase; or, within    *)
(* one, a target leaves the loop; or a future ages; or an item is written.  *)
Advances ==
    \/ pc \in DOMAIN Phase /\ pc' \in DOMAIN Phase /\ Phase[pc] < Phase[pc']
    \/ pc' = pc /\ Shrinks(todo', todo)
    \/ /\ pc' = pc /\ todo' = todo /\ stage' # stage
       /\ \A u \in Supports : Age[stage[u]] <= Age[stage'[u]]
    \/ pc' = pc /\ todo' = todo /\ stage' = stage /\ Shrinks(left', left)

(* Every step of the main thread and of a worker does, so a call takes at   *)
(* most as many as there are phases, targets, futures and items; and all    *)
(* else that happens under a call ends it or does not touch it.             *)
CallAdvances ==
    [][/\ MainStep \/ (\E u \in Supports : WorkerStep(u)) => Advances
       /\ pc \notin Down =>
             \/ Advances
             \/ pc' = "idle"
             \/ UNCHANGED <<disk, pc, plan, recs, todo, pool, left, count>>]_vars

----------------------------------------------------------------------------
(* The lines of a file that are lost, or will be with the next append.     *)
Lost(f) == {i \in DOMAIN f.lines : f.lines[i] = Garbled \/ (f.open /\ i = Len(f.lines))}

LossInv == Cardinality(Lost(findings)) + Cardinality(Lost(errors)) <= crashes
=============================================================================
