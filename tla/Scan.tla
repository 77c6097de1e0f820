-------------------------------- MODULE Scan --------------------------------
(***************************************************************************)
(* qdarpan/scan.py: successive scan() calls over one run directory.  One   *)
(* call loads or replaces the manifest, fingerprints its targets, runs     *)
(* every (collector, target) unit on a bounded pool of threads, journals   *)
(* each result from the main thread as its unit completes, and writes the  *)
(* manifest once, at the end.  The targets change under it and the process *)
(* may be killed between any two steps or inside a write.  An operator     *)
(* introduced as "Wrong:" is a bug the code could have had; no             *)
(* specification uses it.                                                  *)
(***************************************************************************)
EXTENDS Journal

CONSTANTS
    Supports,     \* {<<c, t>>: collector c supports target t}
    Requests,     \* the argument lists: [targets, surfaces, resume]
    Workers,      \* max_workers of the pool
    MaxVersion,   \* bound: contents each target goes through
    Present,      \* Present[t][v]: in version v, t exists or is host:port
    Digest,       \* Digest[t][v]: content_hash() of t in version v
    Yields,       \* Yields[u][v]: names unit u finds in version v
    Cuts,         \* ways a kill cuts an append: subset of {"partial", "whole"}
    MaxRuns,      \* bound: scan() calls
    MaxCrashes,   \* bound: kills
    MaxFaults     \* bound: exceptions and errors met by collectors and hashing

Versions == 1..MaxVersion

ASSUME ScanConstants ==
    /\ Supports \subseteq Collectors \X Targets
    /\ Requests \subseteq [targets: SUBSET Targets, surfaces: SUBSET Collectors,
                           resume: BOOLEAN]
    /\ Workers \in Nat \ {0}
    /\ MaxVersion \in Nat \ {0}
    /\ Present \in [Targets -> [Versions -> BOOLEAN]]
    /\ Digest \in [Targets -> [Versions -> Digests]]
    /\ Yields \in [Supports -> [Versions -> SUBSET Names]]
    /\ Cuts \subseteq {"partial", "whole"}
    /\ MaxRuns \in Nat /\ MaxCrashes \in Nat /\ MaxFaults \in Nat

VARIABLES
    content,      \* the version each target is in
    findings,     \* findings.jsonl
    errors,       \* errors.jsonl
    manifest,     \* manifest.json
    pc,           \* where the main thread of the process is
    request,      \* the arguments of the current call
    recs,         \* journal.manifest.targets, in memory
    known,        \* targets that classify() resolved
    todo,         \* targets the current loop has still to visit
    skipped,      \* targets should_skip() left out
    stage,        \* the future of each unit
    began,        \* the version a unit's target was in when it started
    results,      \* what safe_collect() returned
    left,         \* results of the drained unit still to be journalled
    count,        \* scan()'s locals findings and errors
    runs, crashes, faults

world   == <<content>>
disk    == <<findings, errors, manifest>>
plan    == <<request, known, skipped>>
pool    == <<stage, began, results>>
budgets == <<runs, crashes, faults>>
vars == <<content, findings, errors, manifest, pc, request, recs, known, todo,
          skipped, stage, began, results, left, count, runs, crashes, faults>>

Stages == {"none", "queued", "running", "done", "drained"}
Down   == {"idle", "returned"}    \* no scan() call is under way
Counts == [findings: Nat, errors: Nat]

Found(u, S) == {Finding(u[1], u[2], n) : n \in S}

(* The witnesses the present content of u's target holds for u. *)
Witnesses(u) == Found(u, Yields[u][content[u[2]]])

(* What a collector may find that reads while its target moves on. *)
Mixed(u) == UNION {Yields[u][v] : v \in began[u] .. content[u[2]]}

TypeOK ==
    /\ content \in [Targets -> Versions]
    /\ findings \in JsonLines /\ errors \in JsonLines
    /\ manifest \in ManifestFile
    /\ pc \in {"idle", "unknown", "plan", "collect", "truncate", "write", "returned"}
    /\ request \in [targets: SUBSET Targets, surfaces: SUBSET Collectors, resume: BOOLEAN]
    /\ recs \in Records
    /\ known \subseteq Targets /\ todo \subseteq Targets /\ skipped \subseteq Targets
    /\ stage \in [Supports -> Stages]
    /\ began \in [Supports -> Versions]
    /\ results \in [Supports -> SUBSET Item]
    /\ left \subseteq Item
    /\ count \in Counts
    /\ runs \in Nat /\ crashes \in Nat /\ faults \in Nat

NoRequest == [targets |-> {}, surfaces |-> {}, resume |-> FALSE]
NoStages  == [u \in Supports |-> "none"]
NoResults == [u \in Supports |-> {}]
NoStart   == [u \in Supports |-> 1]
ZeroCount == [findings |-> 0, errors |-> 0]

Init ==
    /\ content = [t \in Targets |-> 1]
    /\ findings = EmptyFile /\ errors = EmptyFile
    /\ manifest = AbsentManifest
    /\ pc = "idle" /\ request = NoRequest
    /\ recs = NoRecords
    /\ known = {} /\ todo = {} /\ skipped = {}
    /\ stage = NoStages /\ began = NoStart /\ results = NoResults
    /\ left = {} /\ count = ZeroCount
    /\ runs = 0 /\ crashes = 0 /\ faults = 0

----------------------------------------------------------------------------
(* The world: an edit, a build, a checkout, a server reconfigured. *)
Edit(t) ==
    /\ content[t] < MaxVersion
    /\ content' = [content EXCEPT ![t] = @ + 1]
    /\ UNCHANGED <<disk, pc, plan, recs, todo, pool, left, count, budgets>>

----------------------------------------------------------------------------
(* Everything the process held in memory is lost. *)
Gone ==
    /\ pc' = "idle"
    /\ request' = NoRequest /\ recs' = NoRecords
    /\ known' = {} /\ todo' = {} /\ skipped' = {}
    /\ stage' = NoStages /\ began' = NoStart /\ results' = NoResults
    /\ left' = {} /\ count' = ZeroCount

(* The main thread. *)


(* Wrong: a resume starts from an empty manifest as well. *)
NoLoad(q) == NoRecords
(* The records a call starts from: RunJournal.open() for a resume, a new    *)
(* Manifest otherwise.                                                     *)
LoadedRecords(q) ==
    IF q.resume /\ manifest.state = "saved" THEN manifest.targets ELSE NoRecords

(* The targets classify() finds a file, directory, image or endpoint in. *)
Resolved(q) == {t \in q.targets : Present[t][content[t]]}

(* Wrong: a target that is not there is dropped silently. *)
IgnoreUnresolved(q) == {}

(* The targets classify() could make nothing of. *)
Unresolved(q) == q.targets \ Resolved(q)

(* Up to line 139: the manifest is loaded only by a resume, and the        *)
(* arguments are classified; the unresolved ones are recorded first.       *)
Begin(q) ==
    /\ pc \in Down /\ runs < MaxRuns
    /\ q.resume => manifest.state # "torn"
    /\ request' = q
    /\ recs' = LoadedRecords(q)
    /\ known' = Resolved(q)
    /\ todo' = Unresolved(q)
    /\ skipped' = {} /\ left' = {} /\ count' = ZeroCount
    /\ stage' = NoStages /\ began' = NoStart /\ results' = NoResults
    /\ pc' = "unknown" /\ runs' = runs + 1
    /\ UNCHANGED <<world, disk, crashes, faults>>

(* RunJournal.open() on a truncated manifest: json.load raises. *)
OpenFails(q) ==
    /\ pc \in Down /\ runs < MaxRuns
    /\ q.resume /\ manifest.state = "torn"
    /\ runs' = runs + 1
    /\ Gone
    /\ UNCHANGED <<world, disk, crashes, faults>>

(* The loop at line 142: an error line signed by scan() itself. *)
RecordUnknown(t) ==
    /\ pc = "unknown" /\ t \in todo
    /\ errors' = AppendLine(errors, Failure(Scanner, t))
    /\ recs' = CountItem(recs, Failure(Scanner, t))
    /\ todo' = todo \ {t}
    /\ UNCHANGED <<world, findings, manifest, pc, plan, pool, left, count, budgets>>

(* On to the planning loop. *)
StartPlan ==
    /\ pc = "unknown" /\ todo = {}
    /\ pc' = "plan" /\ todo' = known
    /\ UNCHANGED <<world, disk, plan, recs, pool, left, count, budgets>>

(* The collectors of the requested surfaces that support t. *)
UnitsOf(t) == {u \in Supports : u[2] = t /\ u[1] \in request.surfaces}

(* One turn of the loop at line 152: fingerprint t, then skip it, or       *)
(* register it and list its units.                                         *)
PlanTarget(t) ==
    LET digest == Digest[t][content[t]]
        skip   == request.resume /\ ShouldSkip(recs, t, digest)
    IN  /\ pc = "plan" /\ t \in todo
        /\ todo' = todo \ {t}
        /\ skipped' = IF skip THEN skipped \cup {t} ELSE skipped
        /\ recs' = IF skip THEN recs ELSE RegisterTarget(recs, t, digest)
        /\ stage' = IF skip THEN stage
                    ELSE [u \in Supports |-> IF u \in UnitsOf(t) THEN "queued" ELSE stage[u]]
        /\ UNCHANGED <<world, disk, pc, request, known, began, results, left, count, budgets>>

(* Wrong: the count starts from nothing. *)
ErrorsFromZero == 0

(* len(journal.errors()) at line 165. *)
ErrorsOnRecord == DecodedCount(errors)

(* The futures are submitted once every target is planned; errors starts   *)
(* from the lines errors.jsonl already holds.                              *)
Submit ==
    /\ pc = "plan" /\ todo = {}
    /\ pc' = "collect"
    /\ count' = [findings |-> 0, errors |-> ErrorsOnRecord]
    /\ UNCHANGED <<world, disk, plan, recs, todo, pool, left, budgets>>

(* Wrong: an empty result is passed over and its future kept. *)
TakeResultIfAny(u) ==
    /\ pc = "collect" /\ left = {} /\ stage[u] = "done" /\ results[u] # {}
    /\ stage' = [stage EXCEPT ![u] = "drained"]
    /\ left' = results[u]
    /\ UNCHANGED <<world, disk, pc, plan, recs, todo, began, results, count, budgets>>

(* as_completed() hands the main thread a finished future. *)
TakeResult(u) ==
    /\ pc = "collect" /\ left = {} /\ stage[u] = "done"
    /\ stage' = [stage EXCEPT ![u] = "drained"]
    /\ left' = results[u]
    /\ UNCHANGED <<world, disk, pc, plan, recs, todo, began, results, count, budgets>>

(* record_finding() or record_error() of one item of the drained result. *)
RecordFinding(x) ==
    /\ pc = "collect" /\ x \in left /\ x.kind = "finding"
    /\ findings' = AppendLine(findings, x)
    /\ recs' = CountItem(recs, x)
    /\ count' = [count EXCEPT !.findings = @ + 1]
    /\ left' = left \ {x}
    /\ UNCHANGED <<world, errors, manifest, pc, plan, todo, pool, budgets>>

RecordError(x) ==
    /\ pc = "collect" /\ x \in left /\ x.kind = "error"
    /\ errors' = AppendLine(errors, x)
    /\ recs' = CountItem(recs, x)
    /\ count' = [count EXCEPT !.errors = @ + 1]
    /\ left' = left \ {x}
    /\ UNCHANGED <<world, findings, manifest, pc, plan, todo, pool, budgets>>

(* Wrong: a finished future counts as drained. *)
JoinedWhenDone(u) == stage[u] \in {"none", "done", "drained"}

(* The loop over as_completed() is through with u, or u was never submitted. *)
Joined(u) == stage[u] \in {"none", "drained"}

(* The pool is empty: every known target is closed, the skipped ones too. *)
Complete ==
    /\ pc = "collect" /\ left = {}
    /\ \A u \in Supports : Joined(u)
    /\ recs' = CompleteTargets(recs, known)
    /\ pc' = "truncate"
    /\ UNCHANGED <<world, disk, plan, todo, pool, left, count, budgets>>

(* save_manifest(): open(.., "w") empties the file before it is written. *)
TruncateManifest ==
    /\ pc = "truncate"
    /\ manifest' = TornManifest
    /\ pc' = "write"
    /\ UNCHANGED <<world, findings, errors, plan, recs, todo, pool, left, count, budgets>>

(* json.dump() has written the last byte. *)
WriteManifest ==
    /\ pc = "write"
    /\ manifest' = SavedManifest(recs)
    /\ pc' = "returned"
    /\ UNCHANGED <<world, findings, errors, plan, recs, todo, pool, left, count, budgets>>

----------------------------------------------------------------------------
(* The worker threads: safe_collect() on one unit. *)

(* A free thread of the pool takes a unit up. *)
StartUnit(u) ==
    /\ pc = "collect" /\ stage[u] = "queued"
    /\ Cardinality({w \in Supports : stage[w] = "running"}) < Workers
    /\ stage' = [stage EXCEPT ![u] = "running"]
    /\ began' = [began EXCEPT ![u] = content[u[2]]]
    /\ UNCHANGED <<world, disk, pc, plan, recs, todo, results, left, count, budgets>>

(* collect() ran to its end: all the target holds, or any mixture when the *)
(* target changed while it was read.                                       *)
CollectUnit(u) ==
    /\ stage[u] = "running"
    /\ \E S \in SUBSET Mixed(u) :
          /\ began[u] = content[u[2]] => S = Mixed(u)
          /\ results' = [results EXCEPT ![u] = Found(u, S)]
    /\ stage' = [stage EXCEPT ![u] = "done"]
    /\ UNCHANGED <<world, disk, pc, plan, recs, todo, began, left, count, budgets>>

(* Wrong: the exception leaves no trace. *)
Swallowed(u) == {}

(* The CollectorError safe_collect() makes of an exception. *)
Caught(u) == {Failure(u[1], u[2])}

(* collect() yielded an error or raised: safe_collect() keeps what it had. *)
CollectFails(u) ==
    /\ stage[u] = "running" /\ faults < MaxFaults
    /\ \E S \in SUBSET Mixed(u) :
          results' = [results EXCEPT ![u] = Found(u, S) \cup Caught(u)]
    /\ stage' = [stage EXCEPT ![u] = "done"]
    /\ faults' = faults + 1
    /\ UNCHANGED <<world, disk, pc, plan, recs, todo, began, left, count, runs, crashes>>

----------------------------------------------------------------------------
(* The process ends early. *)

Crash ==
    /\ pc \notin Down /\ crashes < MaxCrashes
    /\ crashes' = crashes + 1
    /\ Gone
    /\ UNCHANGED <<world, disk, runs, faults>>

(* Killed inside _append(). *)
CrashInAppend(x, cut) ==
    /\ crashes < MaxCrashes
    /\ \/ /\ pc = "collect" /\ x \in left
       \/ \E t \in todo : pc = "unknown" /\ x = Failure(Scanner, t)
    /\ IF x.kind = "finding"
       THEN findings' = TearLine(findings, x, cut) /\ UNCHANGED errors
       ELSE errors' = TearLine(errors, x, cut) /\ UNCHANGED findings
    /\ crashes' = crashes + 1
    /\ Gone
    /\ UNCHANGED <<world, manifest, runs, faults>>

(* content_hash() raises OSError on a file it may not read: nothing above  *)
(* the loop catches it, so the whole scan() ends here.                     *)
HashFails(t) ==
    /\ pc = "plan" /\ t \in todo /\ faults < MaxFaults
    /\ faults' = faults + 1
    /\ Gone
    /\ UNCHANGED <<world, disk, runs, crashes>>

----------------------------------------------------------------------------
(* Every call of the bounded history has been made. *)
Finished == pc \in Down /\ runs = MaxRuns /\ UNCHANGED vars

MainStep ==
    \/ \E t \in Targets : RecordUnknown(t) \/ PlanTarget(t)
    \/ StartPlan \/ Submit \/ Complete \/ TruncateManifest \/ WriteManifest
    \/ \E u \in Supports : TakeResult(u)
    \/ \E x \in left : RecordFinding(x) \/ RecordError(x)

WorkerStep(u) == StartUnit(u) \/ CollectUnit(u) \/ CollectFails(u)

Die ==
    \/ Crash
    \/ \E t \in Targets : HashFails(t)
    \/ \E cut \in Cuts, x \in left \cup {Failure(Scanner, t) : t \in todo} :
          CrashInAppend(x, cut)

Next ==
    \/ \E t \in Targets : Edit(t)
    \/ \E q \in Requests : Begin(q) \/ OpenFails(q)
    \/ MainStep
    \/ \E u \in Supports : WorkerStep(u)
    \/ Die
    \/ Finished

Spec == Init /\ [][Next]_vars

(* The main thread and each running worker are scheduled by the OS; the    *)
(* operator, the world and the kills owe nothing.                          *)
FairSpec == Spec /\ WF_vars(MainStep) /\ \A u \in Supports : WF_vars(WorkerStep(u))

----------------------------------------------------------------------------
(* Properties. *)

(* What `scan --resume` would do with t now. *)
WouldSkip(t) ==
    /\ manifest.state = "saved"
    /\ Present[t][content[t]]
    /\ ShouldSkip(manifest.targets, t, Digest[t][content[t]])

HasErrorLine(t) == \E x \in Decoded(errors) : x.target = t

(* A target that a resume would leave out needs no scan: every witness that *)
(* its present content holds for every collector is on a readable line of   *)
(* findings.jsonl.  About should_skip(), and about everything that happens  *)
(* between the fingerprint of a target and the manifest that certifies it.  *)
SkipIsSafe ==
    \A u \in Supports : WouldSkip(u[2]) => Witnesses(u) \subseteq Decoded(findings)

(* A call that returned accounts for each target it resolved and that has   *)
(* not changed since: a resume will skip it, or an error line names it.     *)
Accounted ==
    pc = "returned" =>
        \A t \in known :
            (Present[t][content[t]] /\ recs[t].hash = Digest[t][content[t]])
                => WouldSkip(t) \/ HasErrorLine(t)

(* Everything a worker handed back is readable in the journal before the    *)
(* manifest is touched: no completion order, and no result that arrives     *)
(* while another is being written, loses an item.                           *)
ResultsJournalled ==
    pc \in {"truncate", "write", "returned"} =>
        \A u \in Supports : results[u] \subseteq Decoded(findings) \cup Decoded(errors)

(* The number of errors a call returns is the number of error lines a       *)
(* reader of the run directory counts.                                      *)
SummaryCountsErrors == pc = "returned" => count.errors = DecodedCount(errors)

Unspoilt(f) == \A i \in DOMAIN f.lines : f.lines[i] # Garbled

(* Exit code 0: a call that reports no error has closed every target it was *)
(* given as complete, whatever earlier calls recorded and wherever they were *)
(* killed, or errors.jsonl has a line nobody can read.  About errors() at    *)
(* scan.py:165, which passes over such a line, when the manifest counts the *)
(* error it stood for: journal.py:257 and 265.                              *)
CleanRunIsComplete ==
    (pc = "returned" /\ count.errors = 0 /\ Unspoilt(errors)) =>
        \A t \in request.targets : recs[t] # NoRecord /\ recs[t].status = "complete"

(* What a kill inside an append costs shows: a resume leaves out a target   *)
(* whose evidence is not on record only if findings.jsonl has a line nobody *)
(* can read.  About _append(), which writes behind whatever an earlier call *)
(* left, and a reader who wants to know whether the manifest can be trusted.*)
LossShows == Unspoilt(findings) => SkipIsSafe

(* A kill inside an append costs one physical line: no sequence of kills,    *)
(* resumes and fresh scans spoils more lines than there were kills.          *)
LossIsBounded ==
    Cardinality({i \in DOMAIN findings.lines : findings.lines[i] = Garbled})
      + Cardinality({i \in DOMAIN errors.lines : errors.lines[i] = Garbled}) <= crashes

(* A resume that is given some of the targets leaves what the manifest says *)
(* of the others as it was.                                                 *)
ResumeKeepsOthers ==
    [][(pc = "truncate" /\ pc' = "write" /\ request.resume /\ manifest.state = "saved") =>
          \A t \in Targets \ request.targets : recs'[t] = manifest.targets[t]]_vars

(* Every call ends: no unit waits for a worker, and the main thread for no  *)
(* unit, for ever.                                                          *)
ScanEnds == pc \notin Down ~> pc \in Down
=============================================================================
