# Q-DARPAN in TLA+

Q-DARPAN (`qdarpan/`) discovers cryptography in repositories, binaries, container
images and TLS endpoints, journals what it finds, and derives from the journal a
CBOM, a quantum-risk assessment and a migration queue. This directory holds its
specification: TLA+ modules translated from the Python source, TLC configurations
that check them on small instances, and proofs that TLAPS checks for every instance.

Line numbers refer to the files under `qdarpan/` unless a path says otherwise. The
table that ties every definition to the lines it models is in `PROJECT.json`
(`map`), and so are the mutants: for each property, a plausible bug of the code that
the property catches.

## 1. The system

| Component | State | Operations | Talks to |
| --- | --- | --- | --- |
| Run journal (`journal.py`) | `findings.jsonl`, `errors.jsonl` (append-only), `manifest.json` (rewritten at the end of a scan) | open, append, replay, `should_skip`, `register_target`, `complete_target`, `save_manifest` | written by scan, read by everything below |
| Scan (`scan.py`, `collectors/base.py`) | a pool of threads, the futures, the manifest in memory | fingerprint targets, plan units, submit, drain results in order of completion, complete, save | collectors, journal |
| Source collector (`collectors/source_ast.py`) | grammars of the process, under a lock; the parsers of each thread | walk a tree, load grammars, parse, search | registry; results go back to scan |
| ELF collector (`collectors/elf.py`) | none | linkage, symbols, constants of each binary | scan, container collector |
| Container collector (`collectors/container.py`) | a temporary file per binary | layers, members, packages | ELF collector |
| TLS collector (`collectors/tls.py`) | none | a handshake, then one per version and curve | the endpoint |
| Findings (`ir.py`) | immutable values | identity of an asset, confidence of a set of witnesses | all |
| Normalisation (`normalise.py`) | none | merge the journal into one finding per asset | journal, cbom, risk |
| Registry (`canonical.py`, `policy/algorithms.json`) | read-only tables | resolve a spelling, extract a parameter, render a name, grade | collectors (write side), risk, recommend and cbom (read side) |
| Risk (`risk.py`, `policy/pqc_policy.json`) | read-only policy | Mosca's inequality, tiers, deadlines | recommend, report |
| Recommendation (`recommend.py`, `policy/migration_costs.json`) | read-only tables | choose a replacement and its cost, rank the queue | report, api |
| CBOM and diff (`cbom.py`, `diff.py`) | none | emit the assets above the floor; compare two CBOMs | pipeline, cli |
| Pipeline (`pipeline.py`) | `cbom.json`, `report.md`, `report.json` | `analyse`, `write_outputs` | cli, api |
| Service (`api.py`) | none of its own: the run directory | POST scan, GET run, cbom, report | scan, pipeline, journal, in a thread pool |
| Evidence pack (`evidence.py`) | a zip file | copy and hash every artefact of a run | run directory |
| Command line (`cli.py`) | the run directories under `--out`, exit codes | `scan` (fresh, `--resume`, `--reproducible`, `--offline`, `--surfaces`, `--policy`), `evidence`; `report`, `diff`, `policy`, `serve` | scan, pipeline, evidence |
| Reports, dashboard, hooks | none | rendering | |

What makes each of them correct, and hard to test:

* **Journal and scan.** The directory survives kills, resumes, fresh scans over old
  files, and targets that change while they are scanned. It is correct if a resume
  never leaves out a target whose present evidence is not on record, if nothing on
  record is ever lost, and if the summary, the error lines and the manifest agree.
  Hard: the order in which threads finish; a kill between any two steps or inside a
  write; a fingerprint taken before the work and certified after it; error counters
  that outlive the run that made them.
* **Collectors.** What they are given is damaged as often as not: a collector is
  correct if it tells the truth about what it saw, keeps it whatever fails later,
  says so when it missed something, and ends. Hard: threads that meet in the grammar
  cache while a grammar fails to load; archives that break at a header, in a member or
  under compression; a server that is set up anew between two probes.
* **Command line.** A scheduler acts on the exit code and on the directory alone. It
  is correct if the code says what is in the directory, if `--resume` goes on with the
  latest run, if a refusal leaves nothing behind, and if a manifest certifies no more
  than was collected. Hard: sequences of commands with different options over one
  directory.
* **Registry, normalisation, risk, recommendation, CBOM.** Correct if what they say
  is a function of the facts in the journal and not of their order or number, if no
  finding is lost, and if the grades and replacements follow from the policy. Hard:
  the combinations of spellings, tiers, ties and thresholds; names that are written
  by one component and parsed again by another.
* **Service and pack.** Correct if what is served is what is on record and a healthy
  directory serves everybody. Hard: synchronous handlers run concurrently over one
  directory without a lock, and outputs are truncated before they are written.

## 2. The modules

| Module | Models | Extends |
| --- | --- | --- |
| `Journal` | the files line by line, torn lines, the manifest and its records | |
| `Scan` | `scan()`: main thread, workers, operator, changing targets, kills, faults | `Journal` |
| `ResumeContract` | what a run directory promises, without files and threads | |
| `ScanRefinement` | the mapping under which `Scan` implements `ResumeContract` | `Scan` |
| `ScanInvariant` | the inductive invariants and their assumptions | `ScanRefinement` |
| `JournalTheorems`, `ScanProofs`, `BookProofs` | lemmas and theorems | `ScanInvariant` |
| `Collect` | threads that run units through `safe_collect()`; generators and what they yield | |
| `SourceAST` | files, grammars under a lock, parsers per thread, rules | `Collect` |
| `ELF`, `Container` | binaries; images, layers and members | `Collect`; `ELF` |
| `TLS` | handshake, suite, certificate, probes, a server that changes | `Collect` |
| `Collectors` | the four collectors in one pool, and their properties | the four |
| `UnitContract` | what a scan may rely on of a unit | |
| `CollectorProofs` | theorems about the grammar cache, parsers and probes | `Collectors` |
| `UnitInvariant`, `UnitProofs` | the inductive invariant of a walk over a target, and theorems on what a unit reports | `Collectors`; `CollectorProofs` |
| `Commands`, `CommandProofs` | sequences of command lines over one output directory; theorems | |
| `IR`, `Normalise` | identity and confidence; merging | |
| `Canonical` | the registry: spellings to families, parameters, names, grades | `IR` |
| `Mosca` | the two clocks of a tier | |
| `Risk`, `Recommend` | assessment; replacements and the queue | `Normalise`, `Canonical`, `Mosca` |
| `Cbom` | CBOM and quarterly diff | `Normalise`, `Canonical` |
| `Pipeline` | collectors journalling sightings over two quarters, and all of the outputs | `Recommend`, `Cbom` |
| `PipelineProofs` | theorems about the outputs, the clocks and confidence | `Pipeline` |
| `Service` | requests and packs over one run directory | |
| `ServiceInvariant`, `ServiceProofs` | its inductive invariants, and theorems about it | `Service` |
| `MCScan`, `MCCollectors`, `MCCommands`, `MCPipeline`, `MCService` | instances for TLC | |

`Scan` takes a unit as one answer that comes whenever it comes; `Collectors` opens the
unit up and shows that it keeps `UnitContract`, which is what `Scan` takes for granted.
`Commands` takes a scan as one step and looks at what options and repeated calls do;
`Service` takes the facts of a scan as given and looks at overlapping ones; `Pipeline`
takes the journal as given and looks at what is derived from it.

An operator introduced by a comment that begins with "Wrong:" is a bug the code could
have had. No specification uses it; `PROJECT.json` lists the property that it would
violate.

### Journal and Scan

A file is a sequence of physical lines and a flag that says whether the last one was
terminated; a line holds an item or is garbled. `AppendLine` writes behind whatever
is there (`_append`, 203-208), so an append after a torn line garbles both, as in the
code; `Decoded` is what `findings()` and `errors()` read back. A file is `Unspoilt` if
each of its lines can be read.

`Scan` has one action per step of `scan()` that another actor, a kill or an edit can
come before: `Begin` (open or start a manifest), `RecordUnknown`, `PlanTarget`
(fingerprint, skip or register, add units), `Submit`, `TakeResult`,
`RecordFinding`/`RecordError` one line at a time, `Complete`, `TruncateManifest`,
`WriteManifest`. Workers start and finish units (`StartUnit`, `CollectUnit`,
`CollectFails`), at most `Workers` at once. Targets change at any time (`Edit`); a
collector that runs across a change sees any mixture of what was there in between
(`Mixed`). `Crash` kills the process between two steps, `CrashInAppend` inside an
append, leaving a part of the line or all of it but the newline; `HashFails` is an
exception in `content_hash()`. `pc` is the statement `scan()` is at; `recs` the
manifest in memory, `manifest` the one on disk.

A fingerprint is the constant `Digest[t][v]`. Runs and theorems that need distinct
fingerprints say so, because `content_hash()` does not give them: see `BlindDigest`.

### Collectors

`collect()` is a generator, and a thread that runs a unit is at one of its suspension
points: `at[th]` holds that point (`pc`) and the locals it needs. `Yield` appends to
the answer and goes on, `Finish` ends the unit, and `Raise` is an exception that
escapes: `safe_collect()` adds one error of phase "collect" to what was yielded. A
fault is a system call that fails for no reason in the target (`MaxFaults`).

`SourceAST` has one action per step of the double-checked lock: the look without the
lock, `acquire`, the look with it, the import, the store, the release, also when the
import raises (`with`). `_LANGUAGES` and the lock are shared by all threads, parsers
are kept per thread, `None` included. A grammar that is not installed gives an error
for every file in that language, and only for those. `Matches` and the operators after
it are the rules as they match a call, read its literal and grade the evidence: when the
argument a rule reads is no literal, its own algorithm stands in, as unpinned evidence,
and if it names none the name of its library, which the registry does not know: a call of
the JCA whose algorithm is in a variable becomes a `string_literal` called "jca"
(source_ast.py:330-346, 369-390).

`ELF` asks three questions of a binary, in order, and keeps what it had when one
breaks. `Container` walks layers and members: a layer that is missing, torn, torn
under gzip (which escapes the `except` clause as an `EOFError`), or cut at a header
(which nobody can tell), blobs of an OCI layout that are JSON, binaries that are
copied out and handed to `ScanBinary`.

`TLS` is a handshake with what client and server agree on (`Agreements`, any of the
possible outcomes), the parts of the suite by the table of tokens in its order, the
certificate, and the probes of every version and curve, each a connection of its own.
`Reconfigure` sets the server up anew between any two of them. `met` is a history
variable: the handshakes that were completed.

### Commands

A command is one step over `root`, the run directories. Names of runs are seconds
(`clock`), so two scans in one second share a directory, and the fixed name of
`--reproducible` sorts behind them all. `RefuseScan`, `ScanNothing`, `ScanWithBadPolicy`
and `Scan` are the four ways a `scan` ends (exit codes 1, 3, 1 after an exception, 0
or 2), in the order of `cmd_scan()`: collectors are built before the journal is opened,
the policy is loaded after the journal is written. `asked` and `born` are history
variables.

### From the journal to the outputs

`Pipeline` journals sightings, each in its ecosystem's own spelling, through
`Observe` (the part that `source_ast._build_finding`, `elf._finding_from_*`,
`tls._*_findings` and `container._packages` share), in every order, and evaluates
the outputs on every journal. A name is the sequence of tokens `resolve_family()`
splits it into, and an explicit curve is given the registry's name (`NormaliseCurve`,
canonical.py:188-190). The identity of an asset has its target, kind, name, and of the
parameters in ir.py:191 those that a collector can give: the family's own (size, curve or
version), the mode, and the padding of a Java transformation; none gives a hash.
Confidence is kept in ten-thousandths, the precision of `round(x, 4)`.
bom-refs are an arbitrary order on canonical keys, in which no two assets are equal
(`RefsAreDistinct`). A `sorted()` is `InOrder` of a set of rows and a relation: at place i
stands the row with i - 1 rows before it. `NextQuarter` sets the journal aside, and
`QuarterlyDiff` compares the CBOMs of both quarters.

`MCPipeline` gives the constants the values of eight families of the shipped
`algorithms.json` (asymmetric, post-quantum, cipher, hash, protocol; with and without
parameters, defaults, templates), the shipped policy, and the shipped cost tables.

### Service

One run directory, `Threads` that each serve a request at a time. A POST plans,
records its facts, truncates and writes `manifest.json`, opens the journal again,
analyses, truncates and writes `cbom.json`, each a step of its own (`start_scan`,
131-160). GETs and packs open, read and copy in the order of their handlers. A file is
absent, empty (truncated), garbled, or whole; a second writer writes over the first
from offset 0, and what it overwrites with a shorter text is garbled
(`Overwritten`). `disturbed` is a history variable: two scans overlapped, or one was
killed, and no scan ran alone to its end since.

## 3. The runs

`PROJECT.json` lists what each run checks; the properties are stated in words where
they are defined.

| Run | States | Shows |
| --- | --- | --- |
| `ScanSafety` | 1.35 million | two calls, resumed or fresh, whole or partial, of a tree on two surfaces and an endpoint, two workers, an edit that removes the tree, one kill, one fault: the safety properties, and the refinement of `ResumeContract` |
| `ScanKilled` | 0.66 million | three calls, one worker, a tree and an endpoint with a unit each, one edit, two faults, two kills inside or between appends: `LossIsBounded`, what the files that kills leave still tell (`CleanRunIsComplete`, `LossShows`) and, under fairness, `ScanEnds` |
| `Collectors` | 110 thousand | two threads, sixteen targets in fourteen groups, sound and damaged, one failing system call, one server set up anew: truth, locality of damage, the refinement of `UnitContract` and, under fairness, `UnitsEnd` |
| `Commands` | 115 thousand | four commands out of eleven command lines in two seconds, one failing unit: directories, certificates, exit codes |
| `Pipeline` | 26 thousand journals | every journal of up to three findings and pairs of journals of two, out of ten sightings in four targets |
| `Service` | 0.98 million | four requests by three threads, POSTs that find one of two facts or nothing, one kill: what the service promises |
| `TornAppend` | counterexample | after a kill inside an append, a resume certifies a target whose evidence cannot be read |
| `BlindDigest` | counterexample | a resume skips a target whose change the fingerprint does not see |
| `SilentLoss` | counterexample | a torn layer blob in an OCI layout loses packages without an error |
| `PackPolicy` | counterexample | the pack of a scan with `--policy` holds another policy |
| `SignatureRole` | counterexample | an RSA key that signs and decrypts is told to become a KEM |
| `StaleCbom` | counterexample | two overlapping POSTs leave a CBOM that is not that of the journal |

The counterexamples are behaviours of the code that a document, docstring or test of
the repository rules out; `findings` in `PROJECT.json` quotes both sides.

**Bounds.** `ScanSafety`: a second call is what it takes for any state left by a call
(a kill, a fault, an edit) to be read by another, and two units on one target plus one
elsewhere are enough for results to interleave and for a partial resume to leave a
target alone. Kills, faults and calls are counted by `MaxCrashes`, `MaxFaults`,
`MaxRuns`; contents only move forward, up to `MaxVersion`. No append is cut there, since
most of its properties do not hold when one is; those that do are in `ScanKilled`.

`ScanKilled`: two kills and two faults over three calls are what it takes for an append
to be torn, a later one glued to it, and a third call to read what is left. Only the tree
has findings (`TreeOnly`), so errors, findings and torn lines still mix in both files.
What the run shows is what remains true of files that kills have been at:

* A kill inside the append of an error leaves a piece of a line in `errors.jsonl`, and the
  next error is written behind it (journal.py:203-208). Readers pass over the line
  (239-243), while the manifest counts the second error (257) and closes its target as
  "error" (265): a later resume that meets no error itself returns `errors == 0`
  (scan.py:165), with a target that is not complete. `CleanRunIsComplete` therefore says
  that a count of nothing can be relied upon where `errors.jsonl` has no unreadable line.
* The same in `findings.jsonl` is `TornAppend`. `LossShows` is its bound: a resume leaves
  out a target whose evidence is not on record only if `findings.jsonl` has an unreadable
  line. So whoever finds all lines readable may trust the manifest, kills or no kills.

Both are reached: without their conditions TLC refutes them on this instance.

`Collectors`: two threads that want the same grammar are enough for a lock; the trees
share a language that loads and one that does not, and each image and endpoint has a
unit of its own, since only the grammars are shared. The targets hold every shape of
image and every way to be torn, with something sound behind the damage. `MaxFaults` is
1: one failing call can be met at every place there is, and leaves an error in one
unit and, for a grammar, a state that the next thread finds. `MaxChanges` is 1: what is
reported is compared with single handshakes, so a change between any two of them is
what matters.

`Commands`: `MaxCalls` 4 lets a fresh call, one with other options and a resume be
followed by a pack; `MaxClock` 2 lets two of them share a second or not; `MaxFaults` 1
gives certified and uncertified targets in one run.

`Pipeline`: three findings give every pair a third witness, whether of the same asset,
of another surface, or of another target; diffs need two findings a side. `Service`: a
scan that is overlapped by one, a third one that repairs it, and a reader of any of
these are four requests; three threads let one read while two scan. Threads are
interchangeable, and so are facts; only safety is checked there, so the run uses both
symmetries. No liveness is checked with symmetry.

Deadlock is checked in the `Scan` runs, where the end of the last call is an explicit
stuttering step; in the others the end of the bounds is the end of the behaviour, and
in `Collectors` so is the end of all units, which `UnitsEnd` says is reached.

**Fairness.** `FairSpec` of `Scan` asks weak fairness of the main thread's next step
and of each worker's: they are operating-system threads that nothing blocks but the
pool's queue. `Collectors` asks it of each thread's work: sockets have a timeout, and a
thread that waits for the lock has a holder who leaves it by `with`, whatever happens.
Weak fairness suffices there because the bounded work leaves the lock free for good
once the others are past it. Nothing is asked of the operator, of edits, kills, faults
or a server's administrator. The service's handlers and the commands are straight-line
code.

## 4. The proofs

All theorems hold for every value of the constants that meets the modules' named
assumptions; the others are stated with the theorem.

**Scan.** `JournalTheorems` holds the lemmas about files: what an append and a torn
append leave readable. `ScanProofs` proves:

* `TypeCorrect`: `Spec => []TypeOK`.
* `Inductive`: `Spec => []IInv`, under the assumptions `DistinctDigests` (contents have
  fingerprints of their own) and `AllSurfaces` (each call asks for all surfaces a target
  supports). Appends may be cut short.
* `LossAlwaysShows`: under these assumptions `LossShows`: a resume never leaves out a
  target whose present evidence is not on record, or `findings.jsonl` has a line that
  cannot be read.
* `SkipIsSafeHolds`: with the assumption `WholeLines` (no append is cut short) besides,
  `SkipIsSafe`: there is no such line then (`JournalStaysWhole`).
* `ContractKept`: under the three assumptions `Spec => KeepsContract`, the refinement
  of `ResumeContract`: each action maps to a step of the contract or to a stutter.
* `NoOneIsEverStuck`: `Spec => []NoOneIsStuck`: in every state of a call the guard of a
  step of the main thread or of a worker holds. `CallsAdvance`: `Spec => CallAdvances`:
  each such step brings the call closer to its end, in the lexicographic order of
  `Advances` (phase, targets left in the loop, age of the futures, items left to
  write), and nothing else that happens takes it back without ending it. Neither needs
  an assumption. Together they are what `ScanEnds` says without fairness: a call that
  takes its open steps has finitely many to take. That an open step *is* taken, and the
  conclusion from a measure that falls, stay with TLC.

The assumptions are not only there for the proof: `BlindDigest` and `TornAppend` are
what happens without distinct fingerprints and whole appends, and `should_skip()` looks at neither surfaces nor registry version.

`SkipIsSafe` is not inductive: it speaks of the manifest on disk, which is written
from the one in memory, whose records were made complete on the strength of an error
counter, which counts lines that were appended from results that a worker collected
from contents that may have changed meanwhile. `IInv` follows that chain back.
`RecordsInv`: records hold fingerprints of present or past contents only, and a
complete record that matches the present content is backed by the journal, in memory
as on disk. What the journal backs is `OnRecord`: what can be read in it, or anything at
all once a line cannot be read. Gluing a line to a torn one spoils it, so no append, whole,
torn or glued, takes anything off that record, and a kill is one step among others. `CallInv`: which stages a unit can be in at each `pc`; every planned
target has a unit for every surface; and `UnitInv`, which says for each stage of a
unit where its witnesses are (still to be collected, in the results, in the lines
left to write, in the journal) unless it failed, in which case the error counter is
positive or about to be. The proof that a step keeps `IInv` has one lemma for each
action, and in it one step for each part the action can disturb.

`BookProofs` proves what a call leaves behind, whatever the fingerprints and surfaces:

* `LossIsBoundedAlways`, without any assumption: a history with cut appends has no
  more garbled lines than kills. The invariant counts the lines that are garbled *or
  will be with the next append* (`Lost`): a cut line is lost only when something is
  written behind it, and then with it.
* `CleanRunsComplete` (`CleanRunIsComplete`), without any assumption. The argument is
  about the first line of `errors.jsonl` (`FirstErrorInv`): before there is one, readable
  or not, no record has an error and each target of the request was resolved; and a count
  of nothing, in a file whose lines can all be read, says that there is none. The rest is
  `KnownInv`: each resolved target gets a record, and in the end the status its errors
  call for.
* Under `WholeLines`: `ResultsAreJournalled`, `SummaryIsTrue`, `AllAccounted`,
  `OthersAreKept`, from one invariant, `BooksInOrder`. Its
  parts: an item is in a worker's hands, among the lines left to write, or readable
  (`ItemsInv`); it belongs to a target of the request (`OwnItems`); a record with
  errors has an error line to show for it, in memory and on disk, and the counter is
  the number of readable error lines (`ErrorsInv`); each target of the request was
  resolved or has an error line (`TargetsInv`); a resume holds
  unchanged what it read of the targets it was not given (`OthersKept`).

**Collectors.** `CollectorProofs` proves of any number of threads, targets, grammars,
faults and changes: `GrammarsLoadOnceAlways`, `ParsersStayHomeAlways`,
`FindingsAreKept`, `ProbesStayTruthful`. `GrammarInv` says that a thread between
acquire and release is the lock's owner (so there is one at most), that the grammar it
is about to import has not been loaded, that loads are counted by `_LANGUAGES`, and
that parsers have numbers of their own, below `made`; a parser that is in use was made
by its thread. `ProbeInv` adds that TLS steps and endpoints go together and that what
was reported is attested by a completed handshake; `met` only grows, so a later change
of the server cannot make a report untrue.

`UnitProofs` proves what a unit reports, again for any threads, targets, damage, faults
and interleavings:

* `UnitInvariantHolds`: `Spec => []UnitInv`; `CollectorTypes`: `Spec => []TypeOK`.
* `DamageIsContained`: `DamageStaysLocal`: what is sound around a damaged part is
  reported, unless an exception ends the unit.
* `IntactStaysQuiet`: `IntactIsQuiet`: a target that is whole and not an OCI archive
  handed over as a tarball is reported without an error. The exception is the code's: it
  takes each JSON blob of such an archive for a layer (container.py:109-112, 132-134).
* `ProbesGoToTheEnd`: `ProbesAreComplete`, if the table of tokens reads the names of the
  suites in use but for their digests (`SuitesAreRead`, which `MCCollectors` evaluates
  for its suites, and which CCM and CAMELLIA do not meet).
* `CollectorsKeepContract`: `Spec => KeepsUnitContract`, the refinement of
  `UnitContract`: each step of each collector is `TakeUp`, `Report`, `Answer` or a
  stutter of the contract.
* `LocksAreWorked`: the lock on the grammars is free or held by a thread between acquire
  and release, where it waits for nobody. `UnitsAdvanceAlways`: `Spec => UnitsAdvance`:
  every step of a thread takes up a unit, ends it, or brings it closer to its end (a
  file less; at one file, a parser more or a later turn; a layer, a member or a probe
  less), and no other thread, nor the server's administrator, sets it back. Together
  they are what `UnitsEnd` says without fairness. The measure of the source collector
  needs that a thread fetches a grammar only for a language it has no entry for
  (`FetchesAreNew`), or the walk could turn at one file for ever.
* `QuietCanBeTrusted`: `QuietMeansComplete`, if no target has losses that a collector
  cannot tell (`NothingIsSilent`).

The properties of the run are not inductive: they speak of units that are over. `UnitInv`
(module `UnitInvariant`) says at every suspension point of every generator that a part
of the target is still ahead, in the locals the generator holds, or dealt with: all that
is to be said of it is in the answer, or a failure in its place (`Behind`, `Accounted`).
What is to be said of a part is `SaidOf`, and the converse, that nothing else is in the
answer, is `Told`. In an image, that is an invariant of the walk over layers with one of
the walk over members inside (`Layering`, `Unpacking`). The rest says where each thread
is: with the generator of its unit's collector (`AtHome`), on no unit of another thread
(`PoolInv`), and beyond the lock only with a grammar that is installed
(`GrammarsAreInstalled`). `EndpointsInv` is the same for probes, as long as the server
stays as it is. TLC checks `UnitInv` on the run's instance too, but it is no property of
the run.

The properties compare an answer with `Truth`, a table that says of each target what is
plain, damaged and silently lost in it, written down by hand and independent of the
collectors. What the proofs need of it is the assumption `TruthIsOfTheParts`: that the
table, as a whole, is what its parts have to say. TLC evaluates it for the table of
`MCCollectors`, and with it the assumptions that the four kinds of units are apart
(`SurfacesAreApart`) and that files and layers come in lists (`TargetsAreLists`).

**Commands.** `CommandProofs` proves for any targets, surfaces, command lines and
number of commands: `CommandTypes`, `OfflineStaysSilent`, `CertificatesCover`,
`ExitCodesAreTrue`, `ResumesTheLatest`. `CommandInv` adds to the
properties that a directory without an error line has no record with errors
(`ErrorsAreOnRecord`; otherwise exit code 0 could stand for an uncertified target),
and that directories named after the clock sort by age and have a last one
(`RunsInOrder`). `PacksShowThePackaged` is `PackShowsThePolicy`, if no command line names
a loadable policy of its own (`OnlyThePackaged`): every CBOM, in the directories and in the
pack, then is of the packaged one (`PolicyInv`).

**Service.** `ServiceProofs` proves, for any number of threads, facts,
requests and kills and any choice of what POSTs find:

* `TypeHolds`: `Spec => []TypeOK`.
* `ServiceInvariantHolds`: `Spec => []SInv`.
* `DirectoryIsCurrent`, `FailuresAreScans`, `RepliesAreFresh`: the properties
  `RunDirectoryIsCurrent`, `FailsOnlyIfDisturbed` and `RunRepliesAreFresh`, each a
  consequence of `SInv`.
* `PacksVerify`: `LonePackVerifies`, from `PackInv`: what `cbom.json` holds, and what a
  POST is about to write there, is on record (`CbomIsRecorded`); a pack that no scan
  came between holds, and has hashed, what the files still hold
  (`LonePacksInStep`).
* `CbomNeverOverstates`: `Spec => []CbomIsRecorded`: a CBOM that can be read may lag behind
  the journal and never goes beyond it. `BrowserShowsIt`: `BrowserShowsTheCbom`, as long as
  no scans overlap and none is killed (`~disturbed`).

The assumptions are those of the module: the bounds are numbers (`BoundsAreNat`),
POSTs find facts (`PostsFindFacts`), the states of a file differ from each other and
from sets of facts (`FileStatesDiffer`), and a free thread has no request
(`FreeIsNoJob`). `RunDirectoryIsCurrent` is not inductive: it does not say what the
files hold while a scan is at work. `SInv` (`ServiceInvariant`) adds that a scan which
nothing overlapped is the only one (`LoneScanIsOnly`), that every other is noted in
`disturbed` (`OverlapsAreNoted`), how far a lone scan has come with each file
(`LoneScanInStep`), that without one beyond its planning the directory is healthy
(`HealthyUntilScanned`), that a reader which is still alone meets no writer
(`LoneReadersUndisturbed`), and what `get_run` holds between its two reads
(`RunsReadTheRecord`). One lemma, `ServedKeeps`, says what a step of one request has to
see to; every action is then a case of it, except the arrival of a request and a kill,
which have lemmas of their own. `TypeOK` needs that a CBOM once found to be there is
never removed: it is part of it.

**From the journal to the outputs.** `PipelineProofs` proves of any registry, policy, cost
table and estate, and of journals of any length (`MaxFirst` and `MaxLater` are any
numbers):

* `JournalsHoldSightings`: `Spec => []LogInv`, the journals hold nothing but what the
  collectors make of sightings; `PipelineTypes`: `Spec => []TypeOK`.
* `RescansAddNothing` (`RescanAddsNothing`), `CompletionOrderShowsNowhere`
  (`CompletionOrderIrrelevant`), `SameFactsNoChanges` (`QuietQuarter`): outputs depend on
  the facts of a journal, not on their order or number.
* `QueueIsInOrder`: `Spec => []ListsAreRanked`: the queue and the list of assessments hold
  every asset that is no library exactly once, in the order of `RanksBefore` and of
  `MostUrgentFirst`, which leave no ties.
* `EveryFindingCounts` (`EveryFindingIsReported`): every finding is in its asset's evidence
  and locations, in the CBOM unless below the floor, and in exactly one row of the queue
  unless it is of a library.
* `ReplacementsAreFinal` (`RecommendationsAreSafe`), if what the cost table tells an operator
  to deploy is strong and resolves to itself (`ReplacementsAreStrong`): an asset replaced as
  the queue tells is graded `pq-safe` and gets no further recommendation.
* `ObservedRolesAreServed`: a recommendation serves a role in which the asset was seen,
  wherever its family has a row for one. `SigningStaysSigning`: an asset that was seen to
  sign, and to do nothing else but verify, becomes a signature scheme if its family has a
  row for that, and those rows are signatures (`SignatureRowsSign`). `SignatureRole` is what
  happens to one that also decrypts.
* `ConfigurationsAreOnce` (`OneAssetPerConfiguration`), if the names the registry prints
  resolve to what they were printed for (`NamesResolveToThemselves`): however ecosystems
  spell it, a target has one asset for a family with its parameter, mode and padding.
  There is no such theorem for algorithms, as the code does not keep it: see section 5.
* `CorroborationNeverDoubts`: a further witness never lowers `CombineConfidence`, for any
  number of witnesses, the cap and the rounding to four decimals included.
* `WitnessesOnlyAdd` (`WitnessesNeverCalm`), if of two surfaces that see assets of one
  target and kind the first in the alphabet is not the quicker to migrate
  (`FirstSurfaceIsSlowest`).
* `LongerIsNoCalmer`, `WorseEstimateDecides`: a longer migration or shelf life never makes
  an asset less urgent, and of the two estimates of the years to migrate the worse one
  decides.

The hypotheses are about shipped data: `MCPipeline` has TLC evaluate all four, as `ASSUME`s,
for its registry, policy, cost table and sightings. An operator's policy may break
`FirstSurfaceIsSlowest`, and with it the property: see the hazard at risk.py:262. The
assumptions of the modules are that sightings are typed and none but packages carry
versions (`SightingsAreTyped`), that estimates are in years (`EstimatesAreYears`,
`ScenariosAreYears`), that the default criticality is one the policy knows
(`DefaultCriticalityIsGraded`), that no family of the cost table is without rows
(`TablesHaveRows`), that sizes are in bytes (`SizesAreBytes`), and that bom-refs are
distinct (`RefsAreDistinct`).

The invariant `LogInv` is simple; the work is in the functions. All that `MergeGroup` takes
from a group is its set of facts (`MergedFromFacts`), but for the version of a package:
that is the version of the best witness, the first of the best if there are several
(`VersionOfTheBest`). A repeated finding cannot come before its twin, and two neighbours of
different units cannot both carry versions (`OneUnitVersions`): only the container
collector reports them, so the two are of different targets. CBOM and queue are built
from the set of merged findings alone. `QuietQuarter` holds for another reason: the two
quarters may well differ in versions, which the diff does not track (`TrackedOfFacts`).

For confidence, `CombineConfidence` multiplies doubts grade by grade, counting the
witnesses of each. The products are recursive functions, and what a recursive function
is for every n takes an induction; it is done on sets, through the least number for which
a claim fails (`LeastNumber`). One more witness multiplies the product of one grade by its
doubt (`ProductScales`), and what is left of the doubt, rounded, does not rise with it
(`ShareFalls`).

A sorted list is proved about through its set and its order. The orders are strict and
total on the rows, down to the bom-ref (`StrictlyOrders`), so the number of rows before a
row is its place, and `InOrder` has every row once, in order (`InOrderSorts`); nothing about
the queue needs an induction over a sort.

**The sentences the code does not keep.** For each counterexample of section 3 there is a
theorem that says how far the sentence can be trusted:

| Run | Theorem | Holds if |
| --- | --- | --- |
| `TornAppend` | `LossAlwaysShows` | all lines of `findings.jsonl` can be read, fingerprints are distinct, surfaces full |
| `BlindDigest` | `SkipIsSafeHolds` | appends are whole, fingerprints distinct, surfaces full |
| `SilentLoss` | `QuietCanBeTrusted` | no loss is silent |
| `PackPolicy` | `PacksShowThePackaged` | no scan is given a policy |
| `SignatureRole` | `SigningStaysSigning` | the asset does nothing but sign and verify |
| `StaleCbom` | `BrowserShowsIt` | no scans overlap, and none is killed |

**Only model-checked** are the liveness properties `ScanEnds` and `UnitsEnd`: fairness, and
that a thread whose guard holds takes its step, are out of the prover's reach. Every other
property of the passing runs is a theorem.

## 5. What is not modelled

* Parsing: tree-sitter and its queries, ELF sections, tar and package databases, TLS
  records and certificates. What a collector is given is an abstract tree, binary,
  archive or configuration; what it makes of a thing it saw is in `SourceAST`, `ELF`,
  `Container`, `TLS` and `Observe`.
* `_scan_rootfs()`: `classify()` makes a container of a directory only when it has an
  OCI layout, so it is never reached.
* A target given twice in one call; the registry's version in the manifest.
* CycloneDX objects, serial numbers, timestamps, JSON, Markdown, the dashboard, the
  output of `report`, `diff` and `policy`, which change no state.
* Policies other than the shipped one in the run `Pipeline` (the theorems hold for any);
  the option for the confidence floor.
* The service's checks of URLs and run ids, its read-only policy and health endpoints;
  `get_report` and `list_runs` read as `get_run` does.
* That `content_hash()`, when it raises on one unreadable target, should not end the
  call for all: `HashFails` ends it, as in the code, and the safety properties hold
  through it.

Met while modelling, and not stated as properties:

* Scan: a resume after a kill collects again what is on record, as the manifest is
  saved at the end only (journal.py:4-5: "resumes instead of restarting"); the error counter of a target never goes back to zero (journal.py:257), so a
  target that failed once is never skipped again.
* Command line: `--resume` picks the name that sorts last, which is `reproducible` or
  `web` where there is one; run ids have a resolution of a second, and two scans within
  one write into one directory; a `--policy` that does not load raises when the scan
  has been journalled; an endpoint of an `--offline` call is certified without having
  been contacted.
* TLS: the first handshake is made with the context's default versions, TLS 1.2 and up
  (tls.py:106); a curve is reported when the handshake with it succeeds, also if the
  suite agreed on uses no curve (tls.py:358); suites with CCM or CAMELLIA, and the
  digest of some with CBC, are not read off the name (tls.py:190).
* Container: in a tarball without `manifest.json` each JSON blob is an error, so an
  intact OCI archive is never certified.
* Source: evidence by the name of a file has weight 0.30, and two of different versions
  make 0.51, above the floor of the CBOM, which is 0.35.
* Identity: padding tells assets apart (ir.py:191), and only a Java transformation states
  one. `DESede/CBC/PKCS5Padding` and `EVP_des_ede3_cbc` in one repository are two assets,
  both named 3DES-CBC, and so are `RSA/ECB/PKCS1Padding` and the RSA key of a certificate;
  the merge never gets to fill in the padding of the one from the other (ir.py:170-173,
  normalise.py:111).
* Registry: `TLS1.2`, as one component writes it, does not resolve to the family TLS.
* CBOM: it carries the family's raw quantum status where the queue computes one for the
  key size (cbom.py:107); the effort of an asset is looked up for its alphabetically
  first surface; the version of a merged package is its first witness's.

## 6. Plan

Done, in this order: journal and scan with their contract; the pure pipeline, composed
over the journal; the service and the pack over the directory; the four collectors in
one pool, with the contract of a unit; the command line; the proofs of the refinement
of `ResumeContract`, of the books of a call, of packs, collectors and commands; the
invariant of a walk over a target and the refinement of `UnitContract`; the theorems on
the outputs of a journal of any length; the sorted queue and what it recommends; the
safety half of termination, for calls and for units; the conditions under which the
sentences that do not hold can be relied upon.

Left:

1. Two policies over one journal: the service, which analyses with the packaged one,
   against a command line with `--policy`. `PackPolicy` shows the case of the pack.
2. A target given twice, and a registry that changes between two calls, in `Scan`.
