------------------------------ MODULE Service ------------------------------
(***************************************************************************)
(* qdarpan/api.py and qdarpan/evidence.py over one run directory.  Every   *)
(* POST and GET is served by a thread of its own, the evidence pack is     *)
(* built by another process, and nothing locks the directory: cbom.json    *)
(* and manifest.json are truncated by open("w") and written afterwards.    *)
(* A fact stands for an asset of the journal and of the CBOM; torn journal *)
(* lines are the subject of Scan.                                          *)
(***************************************************************************)
EXTENDS Integers, Sequences

CONSTANTS
    Threads,       \* those that serve a request, or build a pack
    Facts,         \* what a scan may find
    Free,          \* a thread that has served nothing yet
    Absent, Empty, Torn, Saved,   \* a file: not there, truncated, garbled, whole
    Posts,         \* the sets of facts that POSTs find
    MaxRequests,   \* bound: requests and packs
    MaxKills       \* bound: kills of everything that runs

ASSUME BoundsAreNat == MaxRequests \in Nat /\ MaxKills \in Nat
ASSUME PostsFindFacts == Posts \subseteq SUBSET Facts
ASSUME FileStatesDiffer ==
    /\ {Absent, Saved} \cap {Empty, Torn} = {} /\ Empty # Torn
    /\ \A facts \in SUBSET Facts : facts \notin {Absent, Empty, Torn, Saved}

VARIABLES
    found,       \* findings.jsonl
    manifest,    \* manifest.json
    cbom,        \* cbom.json, the set of its facts when it is whole
    job,         \* job[t]: the request of a thread, until its next one
    disturbed,   \* two scans overlapped or one was killed, and none was healthy since
    requests, kills

vars == <<found, manifest, cbom, job, disturbed, requests, kills>>

Unreadable == {Empty, Torn}

(* A request that ended: "failed" is an exception in its handler.          *)
Ended == {"ok", "failed", "refused"}
Active(t) == job[t] # Free /\ job[t].step \notin Ended
Scans(t) == Active(t) /\ job[t].kind = "post"

(* What a file that holds facts may hold. *)
Contents == {Absent, Empty, Torn} \cup SUBSET Facts

Steps == {"plan", "scan", "manifest", "open", "analyse", "truncate", "write",
          "summary", "read", "copy", "hash"} \cup Ended

(* onRecord: what the journal held when the request came in; got: what it   *)
(* read of it; alone: neither disturbed nor overlapped by a scan.           *)
Jobs == [kind: {"post", "run", "cbom", "pack"}, step: Steps, todo: SUBSET Facts,
         got: SUBSET Facts, onRecord: SUBSET Facts, alone: BOOLEAN,
         copied: Seq(Contents), hashed: Seq(Contents)]

ASSUME FreeIsNoJob == Free \notin Jobs

(* Each variable has its type, a scan that went on to write manifest.json  *)
(* has recorded everything it found, and a CBOM that get_cbom found to be  *)
(* there stays there.                                                      *)
TypeOK ==
    /\ found \subseteq Facts
    /\ manifest \in {Absent, Empty, Torn, Saved}
    /\ cbom \in Contents
    /\ job \in [Threads -> {Free} \cup Jobs]
    /\ \A t \in Threads : job[t] # Free =>
          /\ job[t].step \notin {"plan", "scan"} => job[t].todo = {}
          /\ job[t].step = "read" => cbom # Absent
    /\ disturbed \in BOOLEAN
    /\ requests \in 0..MaxRequests /\ kills \in 0..MaxKills

----------------------------------------------------------------------------
Init ==
    /\ found = {}
    /\ manifest = Absent
    /\ cbom = Absent
    /\ job = [t \in Threads |-> Free]
    /\ disturbed = FALSE
    /\ requests = 0 /\ kills = 0

Request(kind, step, todo, alone) ==
    [kind |-> kind, step |-> step, todo |-> todo, got |-> {}, onRecord |-> found,
     alone |-> alone, copied |-> <<>>, hashed |-> <<>>]

Serve(t) ==
    /\ ~Active(t)
    /\ requests < MaxRequests /\ requests' = requests + 1
    /\ UNCHANGED <<found, manifest, cbom, kills>>

Progress(t, kind, step) ==
    /\ Active(t) /\ job[t].kind = kind /\ job[t].step = step
    /\ UNCHANGED <<requests, kills>>

To(t, step) == job' = [job EXCEPT ![t].step = step]
Having(t, step, got) == job' = [job EXCEPT ![t].step = step, ![t].got = got]

(* analyse(RunJournal.open(run_dir)): open() raises on a manifest it cannot *)
(* parse; what it parsed does not change the analysis.                      *)
OpenAnd(t, next) ==
    /\ To(t, IF manifest \in Unreadable THEN "failed" ELSE next)
    /\ UNCHANGED <<found, manifest, cbom, disturbed>>

(* What a file holds after a second writer's text went over old at offset  *)
(* 0: the rest of a longer text stays behind it.                           *)
Overwritten(old, text) ==
    CASE old \in {Absent, Empty} -> {text}
      [] old = Torn -> {text, Torn}
      [] OTHER -> IF old \subseteq text THEN {text} ELSE {Torn}

----------------------------------------------------------------------------
(* POST /api/scan: a new journal over whatever the directory holds.  The   *)
(* requests that are being served are no longer alone.                     *)
BeginPost(t, facts) ==
    /\ Serve(t)
    /\ LET others == {u \in Threads \ {t} : Active(u)}
           overlaps == \E u \in others : Scans(u)
       IN  /\ job' = [u \in Threads |->
                        CASE u = t -> Request("post", "plan", facts, ~overlaps)
                          [] u \in others -> [job[u] EXCEPT !.alone = FALSE]
                          [] OTHER -> job[u]]
           /\ disturbed' = (disturbed \/ overlaps)

PlanPost(t) ==
    /\ Progress(t, "post", "plan")
    /\ To(t, "scan")
    /\ UNCHANGED <<found, manifest, cbom, disturbed>>

(* scan() raises before it runs a unit (no such target, nothing to collect, *)
(* an unreadable file to hash): status 400.                                 *)
RefusePost(t) ==
    /\ Progress(t, "post", "plan")
    /\ job' = [job EXCEPT ![t].step = "refused", ![t].todo = {}]
    /\ UNCHANGED <<found, manifest, cbom, disturbed>>

RecordFact(t, f) ==
    /\ Progress(t, "post", "scan")
    /\ f \in job[t].todo
    /\ found' = found \cup {f}
    /\ job' = [job EXCEPT ![t].todo = @ \ {f}]
    /\ UNCHANGED <<manifest, cbom, disturbed>>

(* Wrong: the manifest is saved when the first target is done. *)
TruncateManifestEarly(t) ==
    /\ Progress(t, "post", "scan")
    /\ manifest' = Empty
    /\ To(t, "manifest")
    /\ UNCHANGED <<found, cbom, disturbed>>

TruncateManifest(t) ==
    /\ Progress(t, "post", "scan")
    /\ job[t].todo = {}
    /\ manifest' = Empty
    /\ To(t, "manifest")
    /\ UNCHANGED <<found, cbom, disturbed>>

(* Wrong: the text stays in the buffer of a file nobody closes. *)
SaveManifestUnflushed(t) ==
    /\ Progress(t, "post", "manifest")
    /\ To(t, "open")
    /\ UNCHANGED <<found, manifest, cbom, disturbed>>

(* Two scans of different targets have manifests of different lengths. *)
SaveManifest(t) ==
    /\ Progress(t, "post", "manifest")
    /\ manifest' \in IF manifest = Empty THEN {Saved} ELSE {Saved, Torn}
    /\ To(t, "open")
    /\ UNCHANGED <<found, cbom, disturbed>>

OpenPost(t) == Progress(t, "post", "open") /\ OpenAnd(t, "analyse")

(* Wrong: the CBOM of what this scan added. *)
AnalysePostOwn(t) ==
    /\ Progress(t, "post", "analyse")
    /\ Having(t, "truncate", found \ job[t].onRecord)
    /\ UNCHANGED <<found, manifest, cbom, disturbed>>

AnalysePost(t) ==
    /\ Progress(t, "post", "analyse")
    /\ Having(t, "truncate", found)
    /\ UNCHANGED <<found, manifest, cbom, disturbed>>

(* Wrong: an existing CBOM is taken for this scan's. *)
TruncateCbomOnce(t) ==
    /\ Progress(t, "post", "truncate")
    /\ cbom' = IF cbom = Absent THEN Empty ELSE cbom
    /\ To(t, IF cbom = Absent THEN "write" ELSE "ok")
    /\ UNCHANGED <<found, manifest, disturbed>>

(* write_outputs; report.md and report.json follow in the same way. *)
TruncateCbom(t) ==
    /\ Progress(t, "post", "truncate")
    /\ cbom' = Empty
    /\ To(t, "write")
    /\ UNCHANGED <<found, manifest, disturbed>>

(* A scan that nothing overlapped leaves a directory as good as new. *)
WriteCbom(t) ==
    /\ Progress(t, "post", "write")
    /\ cbom' \in Overwritten(cbom, job[t].got)
    /\ To(t, "ok")
    /\ disturbed' = (disturbed /\ ~job[t].alone)
    /\ UNCHANGED <<found, manifest>>

----------------------------------------------------------------------------
(* A GET that passed _resolve (findings.jsonl exists), or a pack. *)
BeginRead(t, kind) ==
    /\ Serve(t)
    /\ kind = "pack" \/ found # {}
    /\ job' = [job EXCEPT ![t] =
          Request(kind, "open", {}, ~disturbed /\ \A u \in Threads : ~Scans(u))]
    /\ UNCHANGED disturbed

(* get_run: analyse, then _run_summary opens the journal a second time. *)
OpenRun(t) == Progress(t, "run", "open") /\ OpenAnd(t, "analyse")

(* Wrong: the dashboard is answered from the CBOM when there is one. *)
ReadRunFromCbom(t) ==
    /\ Progress(t, "run", "analyse")
    /\ Having(t, "summary", IF cbom \in {Absent, Empty, Torn} THEN found ELSE cbom)
    /\ UNCHANGED <<found, manifest, cbom, disturbed>>

ReadRun(t) ==
    /\ Progress(t, "run", "analyse")
    /\ Having(t, "summary", found)
    /\ UNCHANGED <<found, manifest, cbom, disturbed>>

SummariseRun(t) == Progress(t, "run", "summary") /\ OpenAnd(t, "ok")

(* get_cbom: the file when there is one, else an analysis of its own. *)
FindCbom(t) ==
    /\ Progress(t, "cbom", "open")
    /\ IF cbom = Absent THEN OpenAnd(t, "analyse")
       ELSE To(t, "read") /\ UNCHANGED <<found, manifest, cbom, disturbed>>

AnalyseCbom(t) ==
    /\ Progress(t, "cbom", "analyse")
    /\ Having(t, "ok", found)
    /\ UNCHANGED <<found, manifest, cbom, disturbed>>

ReadCbom(t) ==
    /\ Progress(t, "cbom", "read")
    /\ IF cbom \in Unreadable THEN To(t, "failed") ELSE Having(t, "ok", cbom)
    /\ UNCHANGED <<found, manifest, cbom, disturbed>>

----------------------------------------------------------------------------
(* evidence.build: the artefacts in the order of _RUN_ARTEFACTS, each      *)
(* copied into the pack and read a second time for its SHA-256.            *)
Artefacts == <<"findings", "cbom">>
Content(name) ==
    IF name = "cbom" THEN cbom ELSE IF found = {} THEN Absent ELSE found

OpenPack(t) == Progress(t, "pack", "open") /\ OpenAnd(t, "copy")

CopyArtefact(t) ==
    /\ Progress(t, "pack", "copy")
    /\ LET name == Artefacts[Len(job[t].copied) + 1]
       IN  job' = [job EXCEPT ![t].step = "hash",
                              ![t].copied = Append(@, Content(name))]
    /\ UNCHANGED <<found, manifest, cbom, disturbed>>

(* A file that was not there is neither copied nor hashed. *)
HashArtefact(t) ==
    /\ Progress(t, "pack", "hash")
    /\ LET n == Len(job[t].copied)
           hash == IF job[t].copied[n] = Absent THEN Absent ELSE Content(Artefacts[n])
       IN  job' = [job EXCEPT ![t].step = IF n = Len(Artefacts) THEN "ok" ELSE "copy",
                              ![t].hashed = Append(@, hash)]
    /\ UNCHANGED <<found, manifest, cbom, disturbed>>

----------------------------------------------------------------------------
(* The machine goes down under whatever is being served. *)
Kill ==
    /\ kills < MaxKills /\ kills' = kills + 1
    /\ \E t \in Threads : Active(t)
    /\ disturbed' = (disturbed \/ \E t \in Threads : Scans(t))
    /\ job' = [t \in Threads |-> IF Active(t) THEN Free ELSE job[t]]
    /\ UNCHANGED <<found, manifest, cbom, requests>>

Post(t) ==
    \/ \E facts \in Posts : BeginPost(t, facts)
    \/ PlanPost(t) \/ RefusePost(t)
    \/ \E f \in Facts : RecordFact(t, f)
    \/ TruncateManifest(t) \/ SaveManifest(t)
    \/ OpenPost(t) \/ AnalysePost(t) \/ TruncateCbom(t) \/ WriteCbom(t)

Read(t) ==
    \/ \E kind \in {"run", "cbom", "pack"} : BeginRead(t, kind)
    \/ OpenRun(t) \/ ReadRun(t) \/ SummariseRun(t)
    \/ FindCbom(t) \/ AnalyseCbom(t) \/ ReadCbom(t)
    \/ OpenPack(t) \/ CopyArtefact(t) \/ HashArtefact(t)

Next == Kill \/ \E t \in Threads : Post(t) \/ Read(t)

Spec == Init /\ [][Next]_vars

----------------------------------------------------------------------------
(* Whatever was served or killed before: once a scan ran by itself to its  *)
(* end, and until two overlap or one is killed, the manifest can be read   *)
(* and the CBOM says what the journal says.  start_scan writes the three   *)
(* in this order from one analysis of the whole journal.                   *)
RunDirectoryIsCurrent ==
    (~disturbed /\ found # {} /\ \A t \in Threads : ~Scans(t)) =>
        manifest = Saved /\ cbom = found

(* A request raises only because of a scan: one that overlaps it, or one   *)
(* that was overlapped or killed before it.  The handlers of api.py have   *)
(* no try around open() and json.loads.                                    *)
FailsOnlyIfDisturbed ==
    \A t \in Threads :
        job[t] # Free /\ job[t].step = "failed" => ~job[t].alone

(* However many scans run meanwhile, the answer of get_run holds all that  *)
(* was on record when it was asked, and nothing that is not on record.     *)
RunRepliesAreFresh ==
    \A t \in Threads :
        job[t] # Free /\ job[t].kind = "run" /\ job[t].step = "ok" =>
            job[t].onRecord \subseteq job[t].got /\ job[t].got \subseteq found

(* A pack built of a healthy directory that no scan touches meanwhile can  *)
(* be verified: each file has the digest pack.json lists, and the CBOM in  *)
(* it can be derived from the journal in it (evidence.py 1-7).             *)
LonePackVerifies ==
    \A t \in Threads :
        job[t] # Free /\ job[t].kind = "pack" /\ job[t].step = "ok" /\ job[t].alone =>
            /\ job[t].copied = job[t].hashed
            /\ IF job[t].copied[1] = Absent THEN job[t].copied[2] \in {Absent, {}}
               ELSE job[t].copied[2] = job[t].copied[1]

(* "There is no second code path and no second source of truth, so what an *)
(* analyst sees in the browser is what the CBOM says": with nothing being  *)
(* served and nothing ever killed, cbom.json holds what get_run would      *)
(* answer.                                                                 *)
BrowserShowsTheCbom ==
    (found # {} /\ \A t \in Threads : ~Active(t)) => cbom = found
=============================================================================
