------------------------------ MODULE Commands ------------------------------
(***************************************************************************)
(* qdarpan/cli.py: a sequence of commands over one output directory.  A    *)
(* command is one step here; Scan has the steps of a scan and Service what *)
(* overlapping ones do.  A unit is a target and a surface that supports    *)
(* it, and finds one thing.  Names of runs are numbers in the order in     *)
(* which sorted() puts the directories: timestamps before the fixed name.  *)
(* An operator introduced as "Wrong:" is a bug the code could have had; no *)
(* specification uses it.                                                  *)
(***************************************************************************)
EXTENDS Naturals, FiniteSets, FiniteSetsExt

CONSTANTS
    Kinds,        \* Kinds[t]: what classify() makes of a target, "unknown" included
    Surfaces,     \* Surfaces[k]: the surfaces that support a kind
    Network,      \* surfaces that need the network
    Policies,     \* policy files that load
    Packaged,     \* the policy that comes with the package
    NotGiven,     \* an option left out
    Nothing,      \* no record, no CBOM, no pack, no directory
    Calls,        \* the command lines of "scan" to consider
    MaxClock,     \* bound: seconds
    MaxCalls,     \* bound: commands
    MaxFaults     \* bound: units that fail

Targets == DOMAIN Kinds
ALL_SURFACES == UNION {Surfaces[k] : k \in DOMAIN Surfaces}

ASSUME CommandConstants ==
    /\ IsFiniteSet(Targets) /\ IsFiniteSet(ALL_SURFACES)
    /\ \A t \in Targets : Kinds[t] \in DOMAIN Surfaces
    /\ \A call \in Calls :
          /\ call.targets \subseteq Targets
          /\ {call.offline, call.resume, call.reproducible} \subseteq BOOLEAN
    /\ Packaged \in Policies
    /\ MaxClock \in Nat \ {0} /\ MaxCalls \in Nat /\ MaxFaults \in Nat

Reproducible == MaxClock + 1
RunIds == 1..Reproducible

VARIABLES
    clock,        \* the second it is
    root,         \* the run directories of --out
    told,         \* the last "scan": its call, its directory and its exit code
    dialled,      \* endpoints it contacted
    pack,         \* the evidence pack written last
    calls, faults

vars == <<clock, root, told, dialled, pack, calls, faults>>

(* Wrong: the option as it was given, before it is resolved. *)
NewRunUnresolved == [facts |-> {}, errors |-> 0, records |-> [t \in Targets |-> Nothing],
                     cbom |-> Nothing, asked |-> [t \in Targets |-> {NotGiven}], born |-> calls]

(* A directory as RunJournal.__init__() leaves one: what is on record, the  *)
(* lines of errors.jsonl, the manifest's records, the CBOM.  "asked" has    *)
(* the surfaces each target was last collected on, "born" the command that  *)
(* made the directory.                                                      *)
NewRun == [facts |-> {}, errors |-> 0, records |-> [t \in Targets |-> Nothing],
           cbom |-> Nothing, asked |-> [t \in Targets |-> {}], born |-> calls]

Known(call)   == {t \in call.targets : Kinds[t] # "unknown"}
Unknown(call) == call.targets \ Known(call)

----------------------------------------------------------------------------
(* build_collectors() *)

Explicit(call)  == call.surfaces # NotGiven
Requested(call) == IF Explicit(call) THEN call.surfaces ELSE ALL_SURFACES

(* Unknown surfaces, or --offline with a surface asked for by name that     *)
(* needs the network.                                                       *)
Refused(call) ==
    \/ ~(Requested(call) \subseteq ALL_SURFACES)
    \/ call.offline /\ Explicit(call) /\ Requested(call) \cap Network # {}

(* Wrong: only what was asked for by name is looked at. *)
BuiltAsAsked(call) == Requested(call)

Built(call) == IF call.offline THEN Requested(call) \ Network ELSE Requested(call)

----------------------------------------------------------------------------
(* cmd_scan() *)

(* Wrong: the first of the names in ascending order. *)
FirstRun == Min(DOMAIN root)

(* The name that sorts last. *)
LastRun == Max(DOMAIN root)

RunOf(call) ==
    IF call.resume /\ DOMAIN root # {} THEN LastRun
    ELSE IF call.reproducible THEN Reproducible ELSE clock

(* RunJournal.open() with --resume, RunJournal() without: a used directory  *)
(* keeps its lines and gets a new manifest.                                 *)
Opened(call) ==
    IF RunOf(call) \notin DOMAIN root THEN NewRun
    ELSE IF call.resume THEN root[RunOf(call)]
    ELSE [root[RunOf(call)] EXCEPT !.records = [t \in Targets |-> Nothing]]

(* should_skip(), for contents that do not change. *)
Skipped(call) ==
    {t \in Known(call) : call.resume /\ Opened(call).records[t] # Nothing
                                     /\ Opened(call).records[t].complete}

Scanned(call) == Known(call) \ Skipped(call)

UnitsOf(call) ==
    {unit \in Scanned(call) \X ALL_SURFACES : unit[2] \in Built(call) \cap Surfaces[Kinds[unit[1]]]}

FailedAt(t, failing) == Cardinality({s \in ALL_SURFACES : <<t, s>> \in failing})

(* register_target() keeps a record it finds, with its errors.              *)
ErrorsBefore(call, t) ==
    IF Opened(call).records[t] = Nothing THEN 0 ELSE Opened(call).records[t].errors

ErrorsAfter(call, failing, t) == ErrorsBefore(call, t) + FailedAt(t, failing)

(* Wrong: a target is certified whatever its collectors said. *)
CertifiedAnyway(call, failing, t) == [errors |-> ErrorsAfter(call, failing, t), complete |-> TRUE]

(* complete_target() *)
Certified(call, failing, t) ==
    [errors |-> ErrorsAfter(call, failing, t), complete |-> ErrorsAfter(call, failing, t) = 0]

(* scan(), when these units fail and the others find what they find.        *)
Journalled(call, failing) ==
    LET run == Opened(call)
    IN  [run EXCEPT !.facts = @ \cup (UnitsOf(call) \ failing),
                    !.errors = @ + Cardinality(Unknown(call)) + Cardinality(failing),
                    !.records = [t \in Targets |->
                                    IF t \in Known(call) THEN Certified(call, failing, t)
                                    ELSE run.records[t]],
                    !.asked = [t \in Targets |-> IF t \in Scanned(call) THEN Built(call) ELSE run.asked[t]]]

(* analyse() and write_outputs() *)
WithOutputs(run, policy) == [run EXCEPT !.cbom = [facts |-> run.facts, policy |-> policy]]

PolicyOf(call) == IF call.policy = NotGiven THEN Packaged ELSE call.policy

(* Wrong: targets that were skipped do not count as resolved. *)
NothingScanned(call) == Scanned(call) = {}

NothingResolved(call) == Scanned(call) = {} /\ Skipped(call) = {}

Tell(call, code) == told' = [call |-> call, run |-> RunOf(call), code |-> code]

Keep(call, run) == root' = [n \in DOMAIN root \cup {RunOf(call)} |-> IF n = RunOf(call) THEN run ELSE root[n]]

Turn == calls < MaxCalls /\ calls' = calls + 1 /\ UNCHANGED <<clock, pack>>

(* scan() raises before it opens a journal. *)
RefuseScan(call) ==
    /\ Turn /\ Refused(call)
    /\ Tell(call, 1) /\ dialled' = {}
    /\ UNCHANGED <<root, faults>>

(* The units have run, in whatever order; these failed. *)
Collect(call, failing) ==
    /\ Turn /\ ~Refused(call)
    /\ failing \subseteq UnitsOf(call)
    /\ faults + Cardinality(failing) <= MaxFaults /\ faults' = faults + Cardinality(failing)
    /\ dialled' = {unit[1] : unit \in {x \in UnitsOf(call) : x[2] \in Network}}

(* No target is a path or an endpoint: the errors are on record all the same. *)
ScanNothing(call) ==
    /\ Collect(call, {}) /\ NothingResolved(call)
    /\ Keep(call, Journalled(call, {})) /\ Tell(call, 3)

(* Policy.load() raises when all the work is done. *)
ScanWithBadPolicy(call, failing) ==
    /\ Collect(call, failing) /\ ~NothingResolved(call) /\ PolicyOf(call) \notin Policies
    /\ Keep(call, Journalled(call, failing)) /\ Tell(call, 1)

Scan(call, failing) ==
    /\ Collect(call, failing) /\ ~NothingResolved(call) /\ PolicyOf(call) \in Policies
    /\ LET run == WithOutputs(Journalled(call, failing), PolicyOf(call))
       IN  Keep(call, run) /\ Tell(call, IF run.errors > 0 THEN 2 ELSE 0)

(* cmd_evidence(): the run as it is, and the policy files of the package.   *)
Evidence(n) ==
    /\ calls < MaxCalls /\ calls' = calls + 1
    /\ n \in DOMAIN root
    /\ pack' = [run |-> root[n], policy |-> Packaged]
    /\ UNCHANGED <<clock, root, told, dialled, faults>>

Tick ==
    /\ clock < MaxClock /\ clock' = clock + 1
    /\ UNCHANGED <<root, told, dialled, pack, calls, faults>>

Init ==
    /\ clock = 1 /\ root = [n \in {} |-> Nothing]
    /\ told = Nothing /\ dialled = {} /\ pack = Nothing
    /\ calls = 0 /\ faults = 0

CommandLine(call) ==
    \/ RefuseScan(call) \/ ScanNothing(call)
    \/ \E failing \in SUBSET UnitsOf(call) : ScanWithBadPolicy(call, failing) \/ Scan(call, failing)

Next ==
    \/ \E call \in Calls : CommandLine(call)
    \/ \E n \in RunIds : Evidence(n)
    \/ Tick

Spec == Init /\ [][Next]_vars

----------------------------------------------------------------------------

Run == [facts: SUBSET (Targets \X ALL_SURFACES), errors: Nat,
        records: [Targets -> {Nothing} \cup [errors: Nat, complete: BOOLEAN]],
        cbom: {Nothing} \cup [facts: SUBSET (Targets \X ALL_SURFACES), policy: Policies],
        asked: [Targets -> SUBSET ALL_SURFACES], born: Nat]

(* Every variable holds what the code keeps there. *)
TypeOK ==
    /\ clock \in 1..MaxClock /\ calls \in 0..MaxCalls /\ faults \in 0..MaxFaults
    /\ DOMAIN root \subseteq RunIds /\ root \in [DOMAIN root -> Run]
    /\ told \in {Nothing} \cup [call: Calls, run: RunIds, code: 0..3]
    /\ dialled \subseteq Targets
    /\ pack \in {Nothing} \cup [run: Run, policy: Policies]

(* A scan that was told to stay off the network contacts nobody, whether or *)
(* not its surfaces were named (scan.py:92-99).                             *)
OfflineIsSilent == told # Nothing /\ told.call.offline => dialled = {}

(* A scheduler may act on the exit code alone (cli.py:3-11): 3 says that no *)
(* target resolved; 0 and 2 that the CBOM is that of the journal under the  *)
(* policy asked for, even when every target was skipped; 0 also that each   *)
(* target is certified and no error is on record.                           *)
ExitCodeIsTrue ==
    told # Nothing /\ ~Refused(told.call) =>
        LET call == told.call
            run  == root[told.run]
        IN  /\ told.code = 3 <=> Known(call) = {}
            /\ told.code \in {0, 2} =>
                  run.cbom = [facts |-> run.facts, policy |-> PolicyOf(call)]
            /\ told.code = 2 => run.errors > 0
            /\ told.code = 0 =>
                  /\ Unknown(call) = {} /\ run.errors = 0
                  /\ \A t \in call.targets : run.records[t].complete

(* What a manifest certifies is on record for every surface of the call     *)
(* that collected the target, through fresh calls, resumes and failures;    *)
(* not for a surface that only a later call asked for (journal.py:248).     *)
CertificateCovers ==
    \A n \in DOMAIN root : \A t \in Targets :
        root[n].records[t] # Nothing /\ root[n].records[t].complete =>
            {t} \X (root[n].asked[t] \cap Surfaces[Kinds[t]]) \subseteq root[n].facts

(* --resume extends the latest run, as its help text says (cli.py:77), as   *)
(* long as no run has a fixed name: "reproducible" and "web" sort last.     *)
ResumeExtendsTheLatest ==
    /\ told # Nothing /\ told.call.resume /\ ~Refused(told.call)
    /\ Reproducible \notin DOMAIN root
    => \A n \in DOMAIN root : root[n].born <= root[told.run].born

(* The pack carries "the policy that was in force" (evidence.py:4-7).       *)
PackShowsThePolicy ==
    pack # Nothing /\ pack.run.cbom # Nothing => pack.policy = pack.run.cbom.policy
=============================================================================
