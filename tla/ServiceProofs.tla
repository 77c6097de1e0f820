---------------------------- MODULE ServiceProofs ----------------------------
(* Theorems about Service, for any number of threads, facts, requests and  *)
(* kills.                                                                  *)
EXTENDS ServiceInvariant, SequenceTheorems, TLAPS

(* An empty sequence of contents is one; a pack appends to it.             *)
LEMMA AppendContents ==
    ASSUME NEW s \in Seq(Contents), NEW c \in Contents
    PROVE  Append(s, c) \in Seq(Contents)
OBVIOUS

LEMMA RequestType ==
    ASSUME TypeOK, NEW kind \in {"post", "run", "cbom", "pack"}, NEW step \in Steps,
           NEW todo \in SUBSET Facts, NEW alone \in BOOLEAN
    PROVE  Request(kind, step, todo, alone) \in Jobs
BY DEF Request, Jobs, TypeOK

LEMMA ContentType == TypeOK => \A name : Content(name) \in Contents
BY DEF Content, Contents, TypeOK

LEMMA OverwrittenType ==
    ASSUME NEW old, NEW text \in SUBSET Facts
    PROVE  Overwritten(old, text) \subseteq Contents \ {Absent}
BY FileStatesDiffer DEF Overwritten, Contents

LEMMA ServedType ==
    ASSUME TypeOK, NEW t \in Threads, Active(t)
    PROVE  job[t] \in Jobs
BY DEF TypeOK, Active

(* Two records of one request, at two of its steps. *)
SameRequest(i, j) == j.kind = i.kind /\ j.alone = i.alone /\ j.onRecord = i.onRecord

(* Copying and hashing an artefact append to what a pack holds.            *)
LEMMA CopyIsMove ==
    ASSUME TypeOK, NEW t \in Threads, CopyArtefact(t)
    PROVE  \E j \in Jobs : /\ job' = [job EXCEPT ![t] = j]
                           /\ SameRequest(job[t], j)
                           /\ j.step = "hash" /\ j.todo = job[t].todo
<1>. DEFINE c == Content(Artefacts[Len(job[t].copied) + 1])
            j == [job[t] EXCEPT !.step = "hash", !.copied = Append(job[t].copied, c)]
<1>1. job[t] \in Jobs
  BY ServedType DEF CopyArtefact, Progress
<1>2. Append(job[t].copied, c) \in Seq(Contents)
  BY <1>1, ContentType, AppendContents DEF Jobs
<1>. HIDE DEF c
<1>3. j \in Jobs /\ SameRequest(job[t], j) /\ j.step = "hash" /\ j.todo = job[t].todo
  BY <1>1, <1>2 DEF Jobs, Steps, SameRequest
<1>4. job' = [job EXCEPT ![t] = j]
  BY DEF CopyArtefact, TypeOK, c
<1>. HIDE DEF j
<1>. QED  BY <1>3, <1>4

LEMMA HashIsMove ==
    ASSUME TypeOK, NEW t \in Threads, HashArtefact(t)
    PROVE  \E j \in Jobs : /\ job' = [job EXCEPT ![t] = j]
                           /\ SameRequest(job[t], j)
                           /\ j.step \in {"ok", "copy"} /\ j.todo = job[t].todo
<1>. DEFINE n == Len(job[t].copied)
            hash == IF job[t].copied[n] = Absent THEN Absent ELSE Content(Artefacts[n])
            step == IF n = Len(Artefacts) THEN "ok" ELSE "copy"
            j == [job[t] EXCEPT !.step = step, !.hashed = Append(job[t].hashed, hash)]
<1>1. job[t] \in Jobs
  BY ServedType DEF HashArtefact, Progress
<1>2. hash \in Contents
  BY ContentType DEF Contents
<1>3. Append(job[t].hashed, hash) \in Seq(Contents)
  BY <1>1, <1>2, AppendContents DEF Jobs
<1>4. step \in {"ok", "copy"}
  OBVIOUS
<1>5. job' = [job EXCEPT ![t] = j]
  BY DEF HashArtefact, TypeOK
<1>6. j \in Jobs /\ SameRequest(job[t], j) /\ j.step = step /\ j.todo = job[t].todo
  <2>. HIDE DEF step, hash
  <2>. QED  BY <1>1, <1>3, <1>4 DEF Jobs, Steps, Ended, SameRequest
<1>. HIDE DEF j, step
<1>. QED  BY <1>4, <1>5, <1>6

(* What TypeOK asks of job, which holds again when one request goes on.    *)
JobsTyped ==
    /\ job \in [Threads -> {Free} \cup Jobs]
    /\ \A t \in Threads : job[t] # Free =>
          /\ job[t].step \notin {"plan", "scan"} => job[t].todo = {}
          /\ job[t].step = "read" => cbom # Absent

LEMMA OneMoves ==
    ASSUME TypeOK, NEW t \in Threads, NEW j \in Jobs, job' = [job EXCEPT ![t] = j],
           j.step \notin {"plan", "scan"} => j.todo = {},
           j.step = "read" => cbom # Absent,
           cbom # Absent => cbom' # Absent
    PROVE  JobsTyped'
BY DEF JobsTyped, TypeOK

LEMMA OneSteps ==
    ASSUME TypeOK, NEW t \in Threads, Active(t), NEW step \in Steps, To(t, step),
           step = "scan" \/ job[t].step \notin {"plan", "scan"} \/ job[t].todo = {},
           step = "read" => cbom # Absent,
           cbom # Absent => cbom' # Absent
    PROVE  JobsTyped'
<1>. DEFINE j == [job[t] EXCEPT !.step = step]
<1>1. job[t] \in Jobs
  BY ServedType
<1>2. j \in Jobs /\ (j.step \notin {"plan", "scan"} => j.todo = {}) /\ j.step = step
  BY <1>1 DEF Jobs, TypeOK, Active
<1>3. job' = [job EXCEPT ![t] = j]
  BY DEF To, TypeOK
<1>. HIDE DEF j
<1>. QED  BY <1>2, <1>3, OneMoves

LEMMA OneReads ==
    ASSUME TypeOK, NEW t \in Threads, Active(t), NEW step \in Steps, NEW got \in SUBSET Facts,
           Having(t, step, got),
           job[t].step \notin {"plan", "scan"}, step # "read", UNCHANGED cbom
    PROVE  JobsTyped'
<1>. DEFINE j == [job[t] EXCEPT !.step = step, !.got = got]
<1>1. job[t] \in Jobs
  BY ServedType
<1>2. j \in Jobs /\ j.todo = {} /\ j.step = step
  BY <1>1 DEF Jobs, TypeOK, Active
<1>3. job' = [job EXCEPT ![t] = j]
  BY DEF Having, TypeOK
<1>. HIDE DEF j
<1>. QED  BY <1>2, <1>3, OneMoves

(* Every variable keeps its type. *)
LEMMA TypeStep == TypeOK /\ [Next]_vars => TypeOK'
<1>. SUFFICES ASSUME TypeOK, [Next]_vars PROVE TypeOK'
  OBVIOUS
<1>. USE BoundsAreNat
<1>1. CASE UNCHANGED vars
  BY <1>1 DEF TypeOK, vars
<1>2. CASE Kill
  BY <1>2 DEF Kill, TypeOK
<1>3. ASSUME NEW t \in Threads, NEW facts \in Posts, BeginPost(t, facts) PROVE TypeOK'
  <2>. DEFINE others == {u \in Threads \ {t} : Active(u)}
              overlaps == \E u \in others : Scans(u)
  <2>1. Request("post", "plan", facts, ~overlaps) \in Jobs
    BY PostsFindFacts, RequestType DEF Steps
  <2>2. \A u \in others : [job[u] EXCEPT !.alone = FALSE] \in Jobs
    BY DEF TypeOK, Active, Jobs
  <2>3. \A u \in Threads : job'[u] = IF u = t THEN Request("post", "plan", facts, ~overlaps)
            ELSE IF u \in others THEN [job[u] EXCEPT !.alone = FALSE] ELSE job[u]
    BY <1>3 DEF BeginPost
  <2>4. job' \in [Threads -> {Free} \cup Jobs]
    BY <1>3, <2>1, <2>2, <2>3 DEF BeginPost, TypeOK
  <2>5. \A u \in others : [job[u] EXCEPT !.alone = FALSE].step = job[u].step
                        /\ [job[u] EXCEPT !.alone = FALSE].todo = job[u].todo
    BY DEF TypeOK, Active, Jobs
  <2>6. Request("post", "plan", facts, ~overlaps).step = "plan"
    BY DEF Request
  <2>7. ASSUME NEW u \in Threads, job'[u] # Free
        PROVE  /\ job'[u].step \notin {"plan", "scan"} => job'[u].todo = {}
               /\ job'[u].step = "read" => cbom # Absent
    BY <2>3, <2>5, <2>6, <2>7 DEF TypeOK, Active
  <2>. QED
    BY <1>3, <2>4, <2>7 DEF BeginPost, Serve, TypeOK
<1>4. ASSUME NEW t \in Threads, NEW kind \in {"run", "cbom", "pack"}, BeginRead(t, kind) PROVE TypeOK'
  <2>. DEFINE alone == ~disturbed /\ \A u \in Threads : ~Scans(u)
  <2>1. Request(kind, "open", {}, alone) \in Jobs
    BY RequestType DEF Steps
  <2>2. Request(kind, "open", {}, alone).todo = {} /\ Request(kind, "open", {}, alone).step = "open"
    BY DEF Request
  <2>3. JobsTyped'
    BY <1>4, <2>1, <2>2, OneMoves DEF BeginRead, Serve
  <2>. QED
    BY <1>4, <2>3 DEF JobsTyped, BeginRead, Serve, TypeOK
<1>5. ASSUME NEW t \in Threads, CopyArtefact(t) PROVE TypeOK'
  <2>1. job[t].todo = {} /\ UNCHANGED cbom
    BY <1>5 DEF CopyArtefact, Progress, Active, TypeOK
  <2>2. JobsTyped'
    BY <1>5, <2>1, CopyIsMove, OneMoves
  <2>. QED
    BY <1>5, <2>2 DEF JobsTyped, CopyArtefact, Progress, TypeOK
<1>6. ASSUME NEW t \in Threads, HashArtefact(t) PROVE TypeOK'
  <2>1. job[t].todo = {} /\ UNCHANGED cbom
    BY <1>6 DEF HashArtefact, Progress, Active, TypeOK
  <2>2. JobsTyped'
    BY <1>6, <2>1, HashIsMove, OneMoves
  <2>. QED
    BY <1>6, <2>2 DEF JobsTyped, HashArtefact, Progress, TypeOK
<1>7. ASSUME NEW t \in Threads, NEW f \in Facts, RecordFact(t, f) PROVE TypeOK'
  <2>. DEFINE j == [job[t] EXCEPT !.todo = job[t].todo \ {f}]
  <2>1. j \in Jobs /\ j.step = "scan"
    BY <1>7, ServedType DEF Jobs, RecordFact, Progress
  <2>2. job' = [job EXCEPT ![t] = j]
    BY <1>7 DEF RecordFact, TypeOK
  <2>3. JobsTyped'
    <3>. HIDE DEF j
    <3>. QED  BY <1>7, <2>1, <2>2, OneMoves DEF RecordFact
  <2>. QED
    BY <1>7, <2>3 DEF JobsTyped, RecordFact, Progress, TypeOK
<1>8. ASSUME NEW t \in Threads, PlanPost(t) PROVE TypeOK'
  <2>1. JobsTyped'
    BY <1>8, OneSteps DEF PlanPost, Progress, Steps
  <2>. QED
    BY <1>8, <2>1 DEF JobsTyped, PlanPost, Progress, TypeOK
<1>9. ASSUME NEW t \in Threads, RefusePost(t) PROVE TypeOK'
  <2>. DEFINE j == [job[t] EXCEPT !.step = "refused", !.todo = {}]
  <2>1. j \in Jobs /\ j.todo = {} /\ j.step = "refused"
    BY <1>9, ServedType DEF Jobs, RefusePost, Progress, Steps, Ended
  <2>2. job' = [job EXCEPT ![t] = j]
    BY <1>9 DEF RefusePost, TypeOK
  <2>3. JobsTyped'
    <3>. HIDE DEF j
    <3>. QED  BY <1>9, <2>1, <2>2, OneMoves DEF RefusePost
  <2>. QED
    BY <1>9, <2>3 DEF JobsTyped, RefusePost, Progress, TypeOK
<1>10. ASSUME NEW t \in Threads, TruncateManifest(t) \/ SaveManifest(t) PROVE TypeOK'
  <2>1. JobsTyped'
    BY <1>10, OneSteps DEF TruncateManifest, SaveManifest, Progress, Steps
  <2>. QED
    BY <1>10, <2>1 DEF JobsTyped, TruncateManifest, SaveManifest, Progress, TypeOK
<1>11. ASSUME NEW t \in Threads, TruncateCbom(t) PROVE TypeOK'
  <2>1. JobsTyped'
    BY <1>11, FileStatesDiffer, OneSteps DEF TruncateCbom, Progress, Steps
  <2>. QED
    BY <1>11, <2>1 DEF JobsTyped, TruncateCbom, Progress, Contents, TypeOK
<1>12. ASSUME NEW t \in Threads, WriteCbom(t) PROVE TypeOK'
  <2>1. job[t].got \in SUBSET Facts
    BY <1>12, ServedType DEF WriteCbom, Progress, Jobs
  <2>2. cbom' \in Contents \ {Absent}
    BY <1>12, <2>1, OverwrittenType DEF WriteCbom
  <2>3. JobsTyped'
    BY <1>12, <2>2, OneSteps DEF WriteCbom, Progress, Steps, Ended
  <2>4. disturbed' \in BOOLEAN
    BY <1>12 DEF WriteCbom, TypeOK
  <2>. QED
    BY <1>12, <2>2, <2>3, <2>4 DEF JobsTyped, WriteCbom, Progress, TypeOK
<1>13. ASSUME NEW t \in Threads, AnalysePost(t) \/ ReadRun(t) \/ AnalyseCbom(t) PROVE TypeOK'
  <2>1. \E step \in Steps \ {"read"} : Having(t, step, found)
    BY <1>13 DEF AnalysePost, ReadRun, AnalyseCbom, Steps, Ended
  <2>2. JobsTyped'
    BY <1>13, <2>1, OneReads DEF AnalysePost, ReadRun, AnalyseCbom, Progress, TypeOK
  <2>. QED
    BY <1>13, <2>2 DEF JobsTyped, AnalysePost, ReadRun, AnalyseCbom, Progress, TypeOK
<1>14. ASSUME NEW t \in Threads, ReadCbom(t) PROVE TypeOK'
  <2>1. Active(t) /\ job[t].step = "read" /\ cbom # Absent
    BY <1>14 DEF ReadCbom, Progress, TypeOK, Active
  <2>2. CASE cbom \in Unreadable
    <3>1. JobsTyped'
      BY <1>14, <2>1, <2>2, OneSteps DEF ReadCbom, Steps, Ended
    <3>. QED
      BY <1>14, <3>1 DEF JobsTyped, ReadCbom, Progress, TypeOK
  <2>3. CASE cbom \notin Unreadable
    <3>1. cbom \in SUBSET Facts
      BY <2>1, <2>3 DEF TypeOK, Contents, Unreadable
    <3>2. JobsTyped'
      BY <1>14, <2>1, <2>3, <3>1, OneReads DEF ReadCbom, Steps, Ended
    <3>. QED
      BY <1>14, <3>2 DEF JobsTyped, ReadCbom, Progress, TypeOK
  <2>. QED  BY <2>2, <2>3
<1>15. ASSUME NEW t \in Threads,
              OpenPost(t) \/ OpenRun(t) \/ SummariseRun(t) \/ FindCbom(t) \/ OpenPack(t)
       PROVE  TypeOK'
  <2>1. \E step \in Steps : To(t, step) /\ (step = "read" => cbom # Absent)
    BY <1>15 DEF OpenPost, OpenRun, SummariseRun, FindCbom, OpenPack, OpenAnd, Steps, Ended
  <2>2. JobsTyped'
    BY <1>15, <2>1, OneSteps DEF OpenPost, OpenRun, SummariseRun, FindCbom, OpenPack, OpenAnd, Progress
  <2>. QED
    BY <1>15, <2>2 DEF JobsTyped, OpenPost, OpenRun, SummariseRun, FindCbom, OpenPack, OpenAnd,
       Progress, TypeOK
<1>. QED
  BY <1>1, <1>2, <1>3, <1>4, <1>5, <1>6, <1>7, <1>8, <1>9, <1>10, <1>11, <1>12, <1>13, <1>14, <1>15
  DEF Next, Post, Read

(* TypeOK holds of every thread, fact, request and kill there may be.      *)
THEOREM TypeHolds == Spec => []TypeOK
<1>1. ASSUME Init PROVE TypeOK
  <2>1. \A t \in Threads : job[t] = Free
    BY <1>1 DEF Init
  <2>2. requests \in 0..MaxRequests /\ kills \in 0..MaxKills
    BY <1>1, BoundsAreNat DEF Init
  <2>3. job \in [Threads -> {Free} \cup Jobs]
    BY <1>1 DEF Init
  <2>. QED
    BY <1>1, <2>1, <2>2, <2>3 DEF Init, TypeOK, Contents
<1>. QED
  BY <1>1, TypeStep, PTL DEF Spec

----------------------------------------------------------------------------
LEMMA StepIsMove ==
    ASSUME TypeOK, NEW t \in Threads, Active(t), NEW step \in Steps, To(t, step)
    PROVE  \E j \in Jobs : /\ job' = [job EXCEPT ![t] = j]
                           /\ SameRequest(job[t], j) /\ j.step = step /\ j.got = job[t].got
<1>. DEFINE j == [job[t] EXCEPT !.step = step]
<1>1. j \in Jobs /\ SameRequest(job[t], j) /\ j.step = step /\ j.got = job[t].got
  BY ServedType DEF Jobs, SameRequest
<1>2. job' = [job EXCEPT ![t] = j]
  BY DEF To, TypeOK
<1>. QED  BY <1>1, <1>2

LEMMA ReadIsMove ==
    ASSUME TypeOK, NEW t \in Threads, Active(t), NEW step \in Steps, NEW got \in SUBSET Facts,
           Having(t, step, got)
    PROVE  \E j \in Jobs : /\ job' = [job EXCEPT ![t] = j]
                           /\ SameRequest(job[t], j) /\ j.step = step /\ j.got = got
<1>. DEFINE j == [job[t] EXCEPT !.step = step, !.got = got]
<1>1. j \in Jobs /\ SameRequest(job[t], j) /\ j.step = step /\ j.got = got
  BY ServedType DEF Jobs, SameRequest
<1>2. job' = [job EXCEPT ![t] = j]
  BY DEF Having, TypeOK
<1>. QED  BY <1>1, <1>2

(* A reader that is alone reads a healthy directory. *)
LEMMA LoneReaderIsSafe ==
    ASSUME SInv, NEW t \in Threads, Active(t), Lone(t), ~Scans(t)
    PROVE  Healthy
BY DEF SInv, LoneReadersUndisturbed, HealthyUntilScanned

(* What a step of one request has to see to, for SInv to hold after it.    *)
LEMMA ServedKeeps ==
    ASSUME TypeOK, SInv, NEW t \in Threads, Active(t),
           NEW j \in Jobs, job' = [job EXCEPT ![t] = j], SameRequest(job[t], j),
           found \subseteq found', disturbed' => disturbed,
           disturbed /\ ~disturbed' => Scans(t) /\ Lone(t) /\ j.step \in Ended,
           ~Scans(t) => UNCHANGED <<found, manifest, cbom>>,
           Scans(t) => HealthyUntilScanned',
           Scans(t) /\ Lone(t) /\ j.step \notin Ended => InStep(j)',
           j.kind = "run" /\ j.step \in {"summary", "ok"} =>
              j.onRecord \subseteq j.got /\ j.got \subseteq found',
           j.step = "failed" => ~j.alone
    PROVE  SInv'
<1>1. job'[t] = j /\ j # Free /\ \A u \in Threads \ {t} : job'[u] = job[u]
  BY FreeIsNoJob DEF TypeOK
<1>2. \A u \in Threads : Lone(u)' <=> Lone(u)
  BY <1>1 DEF Lone, Active, SameRequest
<1>3. \A u \in Threads \ {t} : (Active(u)' <=> Active(u)) /\ (Scans(u)' <=> Scans(u))
  BY <1>1 DEF Scans, Active
<1>4. (Scans(t)' <=> Scans(t) /\ j.step \notin Ended) /\ (Active(t)' <=> j.step \notin Ended)
  BY <1>1 DEF Scans, Active, SameRequest
<1>5. LoneScanIsOnly'
  BY <1>2, <1>3, <1>4 DEF SInv, LoneScanIsOnly
<1>6. OverlapsAreNoted'
  BY <1>2, <1>3, <1>4 DEF SInv, OverlapsAreNoted, LoneScanIsOnly
<1>7. LoneScanInStep'
  <2>1. SUFFICES ASSUME NEW u \in Threads, (Scans(u) /\ Lone(u))'
                 PROVE  InStep(job[u])'
    BY DEF LoneScanInStep
  <2>2. CASE u = t
    BY <1>1, <1>2, <1>4, <2>1, <2>2 DEF InStep
  <2>3. CASE u # t
    <3>1. Scans(u) /\ Lone(u) /\ ~Scans(t)
      BY <1>2, <1>3, <2>1, <2>3 DEF SInv, LoneScanIsOnly
    <3>. QED
      BY <1>1, <2>3, <3>1 DEF SInv, LoneScanInStep, InStep
  <2>. QED  BY <2>2, <2>3
<1>8. HealthyUntilScanned'
  <2>1. CASE Scans(t)
    BY <2>1
  <2>2. CASE ~Scans(t)
    BY <1>1, <1>3, <1>4, <2>2 DEF SInv, HealthyUntilScanned, Healthy, Unreadable
  <2>. QED  BY <2>1, <2>2
<1>9. LoneReadersUndisturbed'
  <2>1. SUFFICES ASSUME NEW u \in Threads, (Active(u) /\ Lone(u) /\ ~Scans(u))'
                 PROVE  (~disturbed /\ \A v \in Threads : ~Scans(v))'
    BY DEF LoneReadersUndisturbed
  <2>2. Active(u) /\ Lone(u) /\ ~Scans(u)
    BY <1>2, <1>3, <1>4, <2>1
  <2>3. ~disturbed /\ \A v \in Threads : ~Scans(v)
    BY <2>2 DEF SInv, LoneReadersUndisturbed
  <2>. QED  BY <1>3, <1>4, <2>3
<1>10. RunsReadTheRecord'
  BY <1>1 DEF SInv, RunsReadTheRecord, ReadsRecord, SameRequest, Active
<1>11. FailsOnlyIfDisturbed'
  BY <1>1 DEF SInv, FailsOnlyIfDisturbed
<1>. QED
  BY <1>5, <1>6, <1>7, <1>8, <1>9, <1>10, <1>11 DEF SInv

(* A scan that comes in: what is served is alone no longer.                *)
LEMMA BeginPostKeeps ==
    ASSUME TypeOK, SInv, NEW t \in Threads, NEW facts \in Posts, BeginPost(t, facts)
    PROVE  SInv'
<1>. DEFINE others == {u \in Threads \ {t} : Active(u)}
            overlaps == \E u \in others : Scans(u)
            r == Request("post", "plan", facts, ~overlaps)
            Left(u) == [job[u] EXCEPT !.alone = FALSE]
<1>1. /\ r.kind = "post" /\ r.step = "plan" /\ (r.alone <=> ~overlaps)
      /\ r.onRecord = found /\ r # Free
  <2>1. r \in Jobs
    BY PostsFindFacts, RequestType DEF Steps
  <2>. QED  BY <2>1, FreeIsNoJob DEF Request
<1>2. ASSUME NEW u \in others
      PROVE  /\ Left(u) # Free /\ Left(u).kind = job[u].kind /\ Left(u).step = job[u].step
             /\ Left(u).onRecord = job[u].onRecord /\ Left(u).got = job[u].got
             /\ ~Left(u).alone
  <2>1. job[u] \in Jobs
    BY ServedType
  <2>2. Left(u) \in Jobs
    BY <2>1 DEF Jobs
  <2>. QED  BY <2>1, <2>2, FreeIsNoJob DEF Jobs
<1>3. \A u \in Threads : job'[u] = IF u = t THEN r ELSE IF u \in others THEN Left(u) ELSE job[u]
  BY DEF BeginPost
<1>4. /\ UNCHANGED <<found, manifest, cbom>> /\ ~Active(t) /\ disturbed' = (disturbed \/ overlaps)
  BY DEF BeginPost, Serve
<1>. HIDE DEF r, Left
<1>5. Scans(t)' /\ (Lone(t)' <=> ~overlaps)
  BY <1>1, <1>3 DEF Scans, Active, Lone, Ended
<1>6. \A u \in Threads \ {t} : (Active(u)' <=> Active(u)) /\ (Scans(u)' <=> Scans(u))
  BY <1>2, <1>3 DEF Scans, Active
<1>7. \A u \in Threads \ {t} : Active(u) => ~Lone(u)'
  BY <1>2, <1>3 DEF Lone
<1>8. LoneScanIsOnly'
  BY <1>5, <1>6, <1>7 DEF LoneScanIsOnly, Scans
<1>9. OverlapsAreNoted'
  BY <1>4, <1>5, <1>6 DEF OverlapsAreNoted, Scans
<1>10. LoneScanInStep'
  <2>1. \A u \in Threads : (Scans(u) /\ Lone(u))' => u = t
    BY <1>6, <1>7 DEF Scans
  <2>. QED
    BY <1>1, <1>3, <2>1 DEF LoneScanInStep, InStep
<1>11. HealthyUntilScanned'
  <2>1. ~disturbed' => ~disturbed /\ \A u \in Threads : ~Scans(u)
    BY <1>4 DEF Scans
  <2>. QED
    BY <1>4, <2>1 DEF SInv, HealthyUntilScanned, Healthy, Unreadable
<1>12. LoneReadersUndisturbed'
  BY <1>5, <1>6, <1>7 DEF LoneReadersUndisturbed
<1>13. RunsReadTheRecord'
  BY <1>1, <1>2, <1>3, <1>4 DEF SInv, RunsReadTheRecord, ReadsRecord, Active
<1>14. FailsOnlyIfDisturbed'
  BY <1>1, <1>2, <1>3 DEF SInv, FailsOnlyIfDisturbed, Active
<1>. QED
  BY <1>8, <1>9, <1>10, <1>11, <1>12, <1>13, <1>14 DEF SInv

(* A reader that comes in is alone when nobody scans a directory that is   *)
(* not disturbed.                                                          *)
LEMMA BeginReadKeeps ==
    ASSUME TypeOK, SInv, NEW t \in Threads, NEW kind \in {"run", "cbom", "pack"},
           BeginRead(t, kind)
    PROVE  SInv'
<1>. DEFINE alone == ~disturbed /\ \A u \in Threads : ~Scans(u)
            r == Request(kind, "open", {}, alone)
<1>1. /\ r.kind = kind /\ r.step = "open" /\ (r.alone <=> alone)
      /\ r.onRecord = found /\ r # Free
  <2>1. r \in Jobs
    BY RequestType DEF Steps
  <2>. QED  BY <2>1, FreeIsNoJob DEF Request
<1>2. \A u \in Threads : job'[u] = IF u = t THEN r ELSE job[u]
  BY DEF BeginRead, TypeOK
<1>3. UNCHANGED <<found, manifest, cbom, disturbed>> /\ ~Active(t)
  BY DEF BeginRead, Serve
<1>. HIDE DEF r
<1>4. ~Scans(t) /\ ~Scans(t)' /\ (Lone(t)' <=> alone)
  BY <1>1, <1>2, <1>3 DEF Scans, Active, Lone
<1>5. \A u \in Threads \ {t} :
        (Active(u)' <=> Active(u)) /\ (Scans(u)' <=> Scans(u)) /\ (Lone(u)' <=> Lone(u))
  BY <1>2 DEF Scans, Active, Lone
<1>. HIDE DEF alone
<1>6. LoneScanIsOnly' /\ OverlapsAreNoted'
  BY <1>3, <1>4, <1>5 DEF SInv, LoneScanIsOnly, OverlapsAreNoted
<1>7. LoneScanInStep'
  BY <1>2, <1>3, <1>4, <1>5 DEF SInv, LoneScanInStep, InStep
<1>8. HealthyUntilScanned'
  BY <1>2, <1>3, <1>4, <1>5 DEF SInv, HealthyUntilScanned, Healthy, Unreadable
<1>9. LoneReadersUndisturbed'
  BY <1>3, <1>4, <1>5 DEF SInv, LoneReadersUndisturbed, alone
<1>10. RunsReadTheRecord' /\ FailsOnlyIfDisturbed'
  BY <1>1, <1>2, <1>3 DEF SInv, RunsReadTheRecord, ReadsRecord, FailsOnlyIfDisturbed
<1>. QED
  BY <1>6, <1>7, <1>8, <1>9, <1>10 DEF SInv

(* A kill leaves no request being served, and is noted if it hit a scan.   *)
LEMMA KillKeeps ==
    ASSUME TypeOK, SInv, Kill PROVE SInv'
<1>1. \A u \in Threads : job'[u] = IF Active(u) THEN Free ELSE job[u]
  BY DEF Kill
<1>2. /\ UNCHANGED <<found, manifest, cbom>>
      /\ disturbed' = (disturbed \/ \E u \in Threads : Scans(u))
  BY DEF Kill
<1>3. \A u \in Threads : ~Active(u)' /\ ~Scans(u)'
  BY <1>1 DEF Active, Scans
<1>4. LoneScanIsOnly' /\ OverlapsAreNoted' /\ LoneScanInStep' /\ LoneReadersUndisturbed'
  BY <1>3 DEF LoneScanIsOnly, OverlapsAreNoted, LoneScanInStep, LoneReadersUndisturbed
<1>5. HealthyUntilScanned'
  BY <1>2 DEF SInv, HealthyUntilScanned, Healthy, Unreadable
<1>6. RunsReadTheRecord' /\ FailsOnlyIfDisturbed'
  BY <1>1, <1>2 DEF SInv, RunsReadTheRecord, ReadsRecord, FailsOnlyIfDisturbed
<1>. QED
  BY <1>4, <1>5, <1>6 DEF SInv

(* The scan's own steps: it finds the manifest and the CBOM as it left     *)
(* them when it is alone, and leaves a healthy directory.                  *)
LEMMA ScansKeep ==
    ASSUME TypeOK, SInv, NEW t \in Threads,
           \/ PlanPost(t) \/ RefusePost(t) \/ \E f \in Facts : RecordFact(t, f)
           \/ TruncateManifest(t) \/ SaveManifest(t)
           \/ OpenPost(t) \/ AnalysePost(t) \/ TruncateCbom(t) \/ WriteCbom(t)
    PROVE  SInv'
<1>0. found \in SUBSET Facts
  BY DEF TypeOK
<1>1. Active(t) /\ Scans(t) /\ job[t] \in Jobs
  BY ServedType DEF PlanPost, RefusePost, RecordFact, TruncateManifest, SaveManifest, OpenPost,
     AnalysePost, TruncateCbom, WriteCbom, Progress, Scans
<1>2. Lone(t) => InStep(job[t])
  BY <1>1 DEF SInv, LoneScanInStep
<1>3. ~disturbed => Lone(t)
  BY <1>1 DEF SInv, OverlapsAreNoted
<1>5. CASE PlanPost(t)
  <2>1. PICK j \in Jobs : /\ job' = [job EXCEPT ![t] = j]
                          /\ SameRequest(job[t], j) /\ j.step = "scan"
    BY <1>1, <1>5, StepIsMove DEF PlanPost, Steps
  <2>2. HealthyUntilScanned'
    BY <1>1, <2>1, FreeIsNoJob DEF HealthyUntilScanned, Scans, Active, SameRequest, Ended, TypeOK
  <2>. QED
    BY <1>1, <1>5, <2>1, <2>2, ServedKeeps DEF PlanPost, InStep, SameRequest, Scans
<1>6. CASE RefusePost(t)
  <2>1. PICK j \in Jobs : j = [job[t] EXCEPT !.step = "refused", !.todo = {}]
    BY <1>1 DEF Jobs, Steps, Ended
  <2>2. SameRequest(job[t], j) /\ j.step = "refused" /\ job' = [job EXCEPT ![t] = j]
    BY <1>1, <1>6, <2>1 DEF RefusePost, SameRequest, Jobs, TypeOK
  <2>3. \A u \in Threads \ {t} : job'[u] = job[u]
    BY <2>2 DEF TypeOK
  <2>4. HealthyUntilScanned'
    BY <1>6, <2>3 DEF SInv, HealthyUntilScanned, Healthy, Unreadable, RefusePost, Progress, Scans,
       Active
  <2>. QED
    BY <1>1, <1>6, <2>2, <2>4, ServedKeeps DEF RefusePost, SameRequest, Scans, Ended
<1>7. ASSUME NEW f \in Facts, RecordFact(t, f) PROVE SInv'
  <2>1. PICK j \in Jobs : j = [job[t] EXCEPT !.todo = job[t].todo \ {f}]
    BY <1>1 DEF Jobs
  <2>2. SameRequest(job[t], j) /\ j.step = "scan" /\ job' = [job EXCEPT ![t] = j]
    BY <1>1, <1>7, <2>1 DEF RecordFact, Progress, SameRequest, Jobs, TypeOK
  <2>3. HealthyUntilScanned'
    BY <1>1, <2>2, FreeIsNoJob DEF HealthyUntilScanned, Scans, Active, SameRequest, Ended, TypeOK
  <2>. QED
    BY <1>1, <1>7, <2>2, <2>3, ServedKeeps DEF RecordFact, InStep, SameRequest, Scans
<1>8. CASE TruncateManifest(t)
  <2>1. PICK j \in Jobs : /\ job' = [job EXCEPT ![t] = j]
                          /\ SameRequest(job[t], j) /\ j.step = "manifest"
    BY <1>1, <1>8, StepIsMove DEF TruncateManifest, Steps
  <2>2. HealthyUntilScanned'
    BY <1>1, <2>1, FreeIsNoJob DEF HealthyUntilScanned, Scans, Active, SameRequest, Ended, TypeOK
  <2>3. UNCHANGED <<found, cbom, disturbed>> /\ (Lone(t) => manifest' = Empty)
    BY <1>2, <1>8 DEF TruncateManifest, Progress, InStep
  <2>. QED
    BY <1>1, <2>1, <2>2, <2>3, ServedKeeps DEF InStep, SameRequest, Scans
<1>13. CASE SaveManifest(t)
  <2>1. PICK j \in Jobs : /\ job' = [job EXCEPT ![t] = j]
                          /\ SameRequest(job[t], j) /\ j.step = "open"
    BY <1>1, <1>13, StepIsMove DEF SaveManifest, Steps
  <2>2. HealthyUntilScanned'
    BY <1>1, <2>1, FreeIsNoJob DEF HealthyUntilScanned, Scans, Active, SameRequest, Ended, TypeOK
  <2>3. UNCHANGED <<found, cbom, disturbed>> /\ (Lone(t) => manifest' = Saved)
    BY <1>2, <1>13 DEF SaveManifest, Progress, InStep
  <2>. QED
    BY <1>1, <2>1, <2>2, <2>3, ServedKeeps DEF InStep, SameRequest, Scans
<1>9. CASE OpenPost(t)
  <2>1. PICK step \in {"failed", "analyse"} :
          To(t, step) /\ (Lone(t) => manifest = Saved /\ step = "analyse")
    BY <1>2, <1>9, FileStatesDiffer DEF OpenPost, OpenAnd, Progress, InStep, Unreadable
  <2>2. PICK j \in Jobs : /\ job' = [job EXCEPT ![t] = j]
                          /\ SameRequest(job[t], j) /\ j.step = step
    BY <1>1, <2>1, StepIsMove DEF Steps, Ended
  <2>3. HealthyUntilScanned'
    BY <1>1, <1>3, <1>9, <2>1, <2>2, FreeIsNoJob
    DEF HealthyUntilScanned, Scans, Active, SameRequest, Ended, OpenPost, OpenAnd, TypeOK
  <2>. QED
    BY <1>1, <1>9, <2>1, <2>2, <2>3, ServedKeeps
    DEF OpenPost, OpenAnd, InStep, SameRequest, Scans, Lone, Active
<1>10. CASE AnalysePost(t)
  <2>0. Having(t, "truncate", found) /\ "truncate" \in Steps
    BY <1>10 DEF AnalysePost, Steps
  <2>1. PICK j \in Jobs : /\ job' = [job EXCEPT ![t] = j]
                          /\ SameRequest(job[t], j) /\ j.step = "truncate" /\ j.got = found
    BY <1>0, <1>1, <2>0, ReadIsMove
  <2>2. HealthyUntilScanned'
    BY <1>1, <2>1, FreeIsNoJob DEF HealthyUntilScanned, Scans, Active, SameRequest, Ended, TypeOK
  <2>. QED
    BY <1>1, <1>2, <1>10, <2>1, <2>2, ServedKeeps
    DEF AnalysePost, Progress, InStep, SameRequest, Scans
<1>11. CASE TruncateCbom(t)
  <2>1. PICK j \in Jobs : /\ job' = [job EXCEPT ![t] = j]
                          /\ SameRequest(job[t], j) /\ j.step = "write" /\ j.got = job[t].got
    BY <1>1, <1>11, StepIsMove DEF TruncateCbom, Steps
  <2>2. HealthyUntilScanned'
    BY <1>1, <2>1, FreeIsNoJob DEF HealthyUntilScanned, Scans, Active, SameRequest, Ended, TypeOK
  <2>. QED
    BY <1>1, <1>2, <1>11, <2>1, <2>2, ServedKeeps
    DEF TruncateCbom, Progress, InStep, SameRequest, Scans
<1>12. CASE WriteCbom(t)
  <2>1. PICK j \in Jobs : /\ job' = [job EXCEPT ![t] = j]
                          /\ SameRequest(job[t], j) /\ j.step = "ok"
    BY <1>1, <1>12, StepIsMove DEF WriteCbom, Steps, Ended
  <2>2. /\ UNCHANGED <<found, manifest>>
        /\ disturbed' = (disturbed /\ ~job[t].alone)
    BY <1>12 DEF WriteCbom
  <2>3. Lone(t) => manifest = Saved /\ cbom' = found
    <3>1. job[t].got = found /\ manifest = Saved /\ cbom = Empty => cbom' = found
      BY <1>12, FileStatesDiffer DEF WriteCbom, Overwritten
    <3>. QED  BY <1>2, <1>12, <3>1 DEF WriteCbom, Progress, InStep
  <2>4. HealthyUntilScanned'
    <3>1. ~disturbed' => Lone(t)
      BY <1>1, <1>3, <2>2 DEF Lone, Active
    <3>2. found \subseteq Facts
      BY DEF TypeOK
    <3>. QED
      BY <2>2, <2>3, <3>1, <3>2, FileStatesDiffer DEF HealthyUntilScanned, Healthy, Unreadable
  <2>. QED
    BY <1>1, <2>1, <2>2, <2>4, ServedKeeps DEF SameRequest, Scans, Ended, Lone, Active
<1>. QED
  BY <1>5, <1>6, <1>7, <1>8, <1>9, <1>10, <1>11, <1>12, <1>13

(* The steps of the GETs and of a pack, which change no file. *)
LEMMA ReadersKeep ==
    ASSUME TypeOK, SInv, NEW t \in Threads,
           \/ OpenRun(t) \/ ReadRun(t) \/ SummariseRun(t)
           \/ FindCbom(t) \/ AnalyseCbom(t) \/ ReadCbom(t)
           \/ OpenPack(t) \/ CopyArtefact(t) \/ HashArtefact(t)
    PROVE  SInv'
<1>0. found \in SUBSET Facts
  BY DEF TypeOK
<1>1. Active(t) /\ ~Scans(t) /\ UNCHANGED <<found, manifest, cbom, disturbed>>
  BY DEF OpenRun, ReadRun, SummariseRun, FindCbom, AnalyseCbom, ReadCbom, OpenPack, CopyArtefact,
     HashArtefact, OpenAnd, Progress, Scans
<1>2. job[t] \in Jobs
  BY <1>1, ServedType
<1>3. Lone(t) => manifest \notin Unreadable /\ cbom \notin Unreadable
  BY <1>1, LoneReaderIsSafe DEF Healthy
<1>4. ReadsRecord(job[t])
  BY <1>1 DEF SInv, RunsReadTheRecord, Active
<1>5. ASSUME NEW j \in Jobs, job' = [job EXCEPT ![t] = j], SameRequest(job[t], j),
             j.kind = "run" /\ j.step \in {"summary", "ok"} =>
                j.onRecord \subseteq j.got /\ j.got \subseteq found,
             j.step = "failed" => ~Lone(t)
      PROVE  SInv'
  BY <1>1, <1>5, ServedKeeps DEF SameRequest, Lone, Active
<1>6. CASE OpenRun(t) \/ FindCbom(t) \/ OpenPack(t)
  <2>1. PICK step \in Steps : /\ To(t, step) /\ (step = "failed" => ~Lone(t))
                              /\ job[t].kind = "run" => step \notin {"summary", "ok"}
    BY <1>3, <1>6 DEF OpenRun, FindCbom, OpenPack, OpenAnd, Progress, Steps, Ended
  <2>2. PICK j \in Jobs : /\ job' = [job EXCEPT ![t] = j]
                          /\ SameRequest(job[t], j) /\ j.step = step
    BY <1>1, <2>1, StepIsMove
  <2>. QED  BY <1>5, <2>1, <2>2 DEF SameRequest
<1>7. CASE SummariseRun(t)
  <2>1. PICK step \in {"failed", "ok"} : To(t, step) /\ (step = "failed" => ~Lone(t))
    BY <1>3, <1>7 DEF SummariseRun, OpenAnd
  <2>2. PICK j \in Jobs : /\ job' = [job EXCEPT ![t] = j]
                          /\ SameRequest(job[t], j) /\ j.step = step /\ j.got = job[t].got
    BY <1>1, <2>1, StepIsMove DEF Steps, Ended
  <2>. QED
    BY <1>4, <1>5, <1>7, <2>1, <2>2 DEF SameRequest, ReadsRecord, SummariseRun, Progress
<1>8. CASE ReadRun(t) \/ AnalyseCbom(t)
  <2>1. PICK step \in {"summary", "ok"} : Having(t, step, found)
    BY <1>8 DEF ReadRun, AnalyseCbom
  <2>2. PICK j \in Jobs : /\ job' = [job EXCEPT ![t] = j]
                          /\ SameRequest(job[t], j) /\ j.step = step /\ j.got = found
    BY <1>0, <1>1, <2>1, ReadIsMove DEF Steps, Ended
  <2>. QED
    BY <1>4, <1>5, <2>1, <2>2 DEF SameRequest, ReadsRecord
<1>9. CASE ReadCbom(t)
  <2>1. job[t].kind = "cbom" /\ cbom # Absent
    BY <1>9 DEF ReadCbom, Progress, Active, TypeOK
  <2>2. CASE cbom \in Unreadable
    <3>1. PICK j \in Jobs : /\ job' = [job EXCEPT ![t] = j]
                            /\ SameRequest(job[t], j) /\ j.step = "failed"
      BY <1>1, <1>9, <2>2, StepIsMove DEF ReadCbom, Steps, Ended
    <3>. QED  BY <1>3, <1>5, <2>1, <2>2, <3>1 DEF SameRequest
  <2>3. CASE cbom \notin Unreadable
    <3>1. cbom \in SUBSET Facts
      BY <2>1, <2>3 DEF TypeOK, Contents, Unreadable
    <3>2. PICK j \in Jobs : /\ job' = [job EXCEPT ![t] = j]
                            /\ SameRequest(job[t], j) /\ j.step = "ok"
      BY <1>1, <1>9, <2>3, <3>1, ReadIsMove DEF ReadCbom, Steps, Ended
    <3>. QED  BY <1>5, <2>1, <3>2 DEF SameRequest
  <2>. QED  BY <2>2, <2>3
<1>10. CASE CopyArtefact(t) \/ HashArtefact(t)
  <2>1. job[t].kind = "pack"
    BY <1>10 DEF CopyArtefact, HashArtefact, Progress
  <2>2. PICK j \in Jobs : /\ job' = [job EXCEPT ![t] = j]
                         /\ SameRequest(job[t], j) /\ j.step \in {"hash", "copy", "ok"}
    BY <1>10, CopyIsMove, HashIsMove
  <2>. QED  BY <1>5, <2>1, <2>2 DEF SameRequest
<1>. QED
  BY <1>6, <1>7, <1>8, <1>9, <1>10

----------------------------------------------------------------------------
LEMMA InvariantStep == TypeOK /\ SInv /\ [Next]_vars => SInv'
<1>. SUFFICES ASSUME TypeOK, SInv, [Next]_vars PROVE SInv'
  OBVIOUS
<1>1. CASE UNCHANGED vars
  BY <1>1 DEF vars, SInv, LoneScanIsOnly, OverlapsAreNoted, LoneScanInStep, InStep,
     HealthyUntilScanned, Healthy, Unreadable, LoneReadersUndisturbed, RunsReadTheRecord,
     ReadsRecord, FailsOnlyIfDisturbed, Lone, Scans, Active, Ended
<1>2. CASE Kill
  BY <1>2, KillKeeps
<1>3. ASSUME NEW t \in Threads, Post(t) PROVE SInv'
  BY <1>3, BeginPostKeeps, ScansKeep DEF Post
<1>4. ASSUME NEW t \in Threads, Read(t) PROVE SInv'
  BY <1>4, BeginReadKeeps, ReadersKeep DEF Read
<1>. QED
  BY <1>1, <1>2, <1>3, <1>4 DEF Next

(* However requests, packs and kills interleave: at most one scan is alone, *)
(* every other is noted in "disturbed", a lone scan finds its files as it   *)
(* left them, and a lone reader finds a directory that nobody is writing.   *)
THEOREM ServiceInvariantHolds == Spec => []SInv
<1>1. Init => SInv
  <2>1. SUFFICES ASSUME Init PROVE SInv
    OBVIOUS
  <2>2. \A t \in Threads : job[t] = Free
    BY <2>1 DEF Init
  <2>3. Healthy
    BY <2>1, FileStatesDiffer DEF Init, Healthy, Unreadable
  <2>. QED
    BY <2>2, <2>3 DEF SInv, LoneScanIsOnly, OverlapsAreNoted, LoneScanInStep, HealthyUntilScanned,
       LoneReadersUndisturbed, RunsReadTheRecord, FailsOnlyIfDisturbed, Scans, Active
<1>. QED
  BY <1>1, TypeHolds, InvariantStep, PTL DEF Spec

(* Once a scan ran by itself to its end, and until two overlap or one is    *)
(* killed, the manifest can be read and the CBOM says what the journal says. *)
THEOREM DirectoryIsCurrent == Spec => []RunDirectoryIsCurrent
<1>1. SInv => RunDirectoryIsCurrent
  BY DEF SInv, HealthyUntilScanned, Healthy, RunDirectoryIsCurrent
<1>. QED
  BY <1>1, ServiceInvariantHolds, PTL

(* A request raises only because of a scan that overlaps it, or that was   *)
(* overlapped or killed before it.                                         *)
THEOREM FailuresAreScans == Spec => []FailsOnlyIfDisturbed
<1>1. SInv => FailsOnlyIfDisturbed
  BY DEF SInv
<1>. QED
  BY <1>1, ServiceInvariantHolds, PTL

(* However many scans run meanwhile, the answer of get_run holds all that  *)
(* was on record when it was asked, and nothing that is not on record.     *)
THEOREM RepliesAreFresh == Spec => []RunRepliesAreFresh
<1>1. SInv => RunRepliesAreFresh
  BY DEF SInv, RunsReadTheRecord, ReadsRecord, RunRepliesAreFresh
<1>. QED
  BY <1>1, ServiceInvariantHolds, PTL

----------------------------------------------------------------------------
(* What an evidence pack is worth that nobody scanned under.               *)

(* The steps that change a file, or what a scan holds, are those of scans. *)
LEMMA ScansWrite ==
    ASSUME Next
    PROVE  \/ UNCHANGED <<found, cbom>>
           \/ \E t \in Threads : Scans(t)
BY DEF Next, Kill, Post, Read, BeginPost, BeginRead, Serve, PlanPost, RefusePost, RecordFact,
   TruncateManifest, SaveManifest, OpenPost, AnalysePost, TruncateCbom, WriteCbom, Progress,
   OpenRun, ReadRun, SummariseRun, FindCbom, AnalyseCbom, ReadCbom, OpenPack, CopyArtefact,
   HashArtefact, OpenAnd, Scans

PackGoesOn(t) == OpenPack(t) \/ CopyArtefact(t) \/ HashArtefact(t)

(* One request goes on, and the others stay as they are. *)
LEMMA OthersStay ==
    ASSUME TypeOK, NEW t \in Threads, NEW j, job' = [job EXCEPT ![t] = j]
    PROVE  job'[t] = j /\ \A u \in Threads \ {t} : job'[u] = job[u]
BY DEF TypeOK

(* Of the request that takes a step: a scan, a GET, or a pack. *)
LEMMA OwnStep ==
    ASSUME TypeOK, NEW u \in Threads, Post(u) \/ Read(u),
           ~ \E facts \in Posts : BeginPost(u, facts)
    PROVE  /\ \A t \in Threads \ {u} : job'[t] = job[t]
           /\ \/ \E kind \in {"run", "cbom", "pack"} : BeginRead(u, kind)
              \/ PackGoesOn(u)
              \/ /\ Active(u) /\ job[u].kind # "pack" /\ job'[u].kind = job[u].kind
                 /\ job'[u].got \in {job[u].got, found} \/ job[u].kind # "post"
<1>1. CASE \E kind \in {"run", "cbom", "pack"} : BeginRead(u, kind)
  BY <1>1, OthersStay DEF BeginRead
<1>2. CASE PackGoesOn(u)
  <2>1. \E j : job' = [job EXCEPT ![u] = j]
    <3>1. CASE OpenPack(u)
      <4>1. PICK step \in Steps : To(u, step) /\ Active(u)
        BY <3>1 DEF OpenPack, OpenAnd, Progress, Steps, Ended
      <4>. QED  BY <4>1, StepIsMove
    <3>2. CASE CopyArtefact(u)
      BY <3>2, CopyIsMove
    <3>3. CASE HashArtefact(u)
      BY <3>3, HashIsMove
    <3>. QED  BY <1>2, <3>1, <3>2, <3>3 DEF PackGoesOn
  <2>. QED  BY <1>2, <2>1, OthersStay
<1>3. ASSUME NEW step \in Steps, To(u, step), Active(u), job[u].kind # "pack" PROVE
        /\ \A t \in Threads \ {u} : job'[t] = job[t]
        /\ job'[u].kind = job[u].kind /\ job'[u].got = job[u].got
  <2>1. PICK j \in Jobs : /\ job' = [job EXCEPT ![u] = j]
                          /\ SameRequest(job[u], j) /\ j.got = job[u].got
    BY <1>3, StepIsMove
  <2>. QED  BY <2>1, OthersStay DEF SameRequest
<1>4. ASSUME NEW step \in Steps, NEW got \in SUBSET Facts, Having(u, step, got), Active(u) PROVE
        /\ \A t \in Threads \ {u} : job'[t] = job[t]
        /\ job'[u].kind = job[u].kind /\ job'[u].got = got
  <2>1. PICK j \in Jobs : /\ job' = [job EXCEPT ![u] = j]
                          /\ SameRequest(job[u], j) /\ j.got = got
    BY <1>4, ReadIsMove
  <2>. QED  BY <2>1, OthersStay DEF SameRequest
<1>5. CASE \/ PlanPost(u) \/ TruncateManifest(u) \/ SaveManifest(u) \/ OpenPost(u)
           \/ TruncateCbom(u) \/ WriteCbom(u) \/ OpenRun(u) \/ SummariseRun(u) \/ FindCbom(u)
  <2>1. Active(u) /\ job[u].kind # "pack"
    BY <1>5 DEF PlanPost, TruncateManifest, SaveManifest, OpenPost, TruncateCbom, WriteCbom,
       OpenRun, SummariseRun, FindCbom, Progress
  <2>2. \E step \in Steps : To(u, step)
    BY <1>5 DEF PlanPost, TruncateManifest, SaveManifest, OpenPost, TruncateCbom, WriteCbom,
       OpenRun, SummariseRun, FindCbom, OpenAnd, Steps, Ended
  <2>. QED  BY <1>3, <2>1, <2>2
<1>6. CASE AnalysePost(u) \/ ReadRun(u) \/ AnalyseCbom(u)
  <2>1. Active(u) /\ job[u].kind # "pack"
    BY <1>6 DEF AnalysePost, ReadRun, AnalyseCbom, Progress
  <2>2. \E step \in Steps : Having(u, step, found)
    BY <1>6 DEF AnalysePost, ReadRun, AnalyseCbom, Steps, Ended
  <2>3. found \in SUBSET Facts
    BY DEF TypeOK
  <2>. QED  BY <1>4, <2>1, <2>2, <2>3
<1>7. CASE ReadCbom(u)
  <2>1. Active(u) /\ job[u].kind = "cbom" /\ cbom # Absent
    BY <1>7 DEF ReadCbom, Progress, Active, TypeOK
  <2>2. CASE cbom \in Unreadable
    BY <1>3, <1>7, <2>1, <2>2 DEF ReadCbom, Steps, Ended
  <2>3. CASE cbom \notin Unreadable
    <3>1. cbom \in SUBSET Facts
      BY <2>1, <2>3 DEF TypeOK, Contents, Unreadable
    <3>. QED  BY <1>4, <1>7, <2>1, <2>3, <3>1 DEF ReadCbom, Steps, Ended
  <2>. QED  BY <2>2, <2>3
<1>8. CASE RefusePost(u) \/ \E f \in Facts : RecordFact(u, f)
  <2>1. Active(u) /\ job[u].kind = "post" /\ job[u] \in Jobs
    BY <1>8, ServedType DEF RefusePost, RecordFact, Progress
  <2>2. PICK j : /\ job' = [job EXCEPT ![u] = j]
                 /\ j.kind = job[u].kind /\ j.got = job[u].got
    <3>1. CASE RefusePost(u)
      <4>. DEFINE j == [job[u] EXCEPT !.step = "refused", !.todo = {}]
      <4>1. job' = [job EXCEPT ![u] = j]
        BY <3>1 DEF RefusePost, TypeOK
      <4>2. j.kind = job[u].kind /\ j.got = job[u].got
        BY <2>1 DEF Jobs
      <4>. HIDE DEF j
      <4>. QED  BY <4>1, <4>2
    <3>2. ASSUME NEW f \in Facts, RecordFact(u, f)
          PROVE  \E j : /\ job' = [job EXCEPT ![u] = j]
                        /\ j.kind = job[u].kind /\ j.got = job[u].got
      <4>. DEFINE j == [job[u] EXCEPT !.todo = job[u].todo \ {f}]
      <4>1. job' = [job EXCEPT ![u] = j]
        BY <3>2 DEF RecordFact, TypeOK
      <4>2. j.kind = job[u].kind /\ j.got = job[u].got
        BY <2>1 DEF Jobs
      <4>. HIDE DEF j
      <4>. QED  BY <4>1, <4>2
    <3>. QED  BY <1>8, <3>1, <3>2
  <2>. QED  BY <2>1, <2>2, OthersStay
<1>. QED
  BY <1>1, <1>2, <1>5, <1>6, <1>7, <1>8 DEF Post, Read, PackGoesOn

(* A request that a POST or a kill comes upon. *)
LEMMA Arrivals ==
    ASSUME TypeOK, NEW u \in Threads, NEW facts \in Posts, BeginPost(u, facts)
    PROVE  /\ job'[u] # Free /\ job'[u].kind = "post" /\ job'[u].got = {}
           /\ \A t \in Threads \ {u} :
                \/ job'[t] = job[t]
                \/ /\ job[t] # Free /\ job'[t].kind = job[t].kind /\ job'[t].got = job[t].got
                   /\ ~Lone(t)'
<1>. DEFINE others == {t \in Threads \ {u} : Active(t)}
            r == Request("post", "plan", facts, ~ \E t \in others : Scans(t))
<1>1. /\ job'[u] = r
      /\ \A t \in Threads \ {u} :
            job'[t] = IF t \in others THEN [job[t] EXCEPT !.alone = FALSE] ELSE job[t]
  BY DEF BeginPost
<1>2. r \in Jobs /\ r.kind = "post" /\ r.got = {}
  BY PostsFindFacts, RequestType DEF Steps, Request
<1>3. ASSUME NEW t \in others
      PROVE  /\ job[t] # Free /\ ~[job[t] EXCEPT !.alone = FALSE].alone
             /\ [job[t] EXCEPT !.alone = FALSE].kind = job[t].kind
             /\ [job[t] EXCEPT !.alone = FALSE].got = job[t].got
  BY ServedType DEF Jobs, Active
<1>. HIDE DEF r, others
<1>. QED  BY <1>1, <1>2, <1>3, FreeIsNoJob DEF Lone

----------------------------------------------------------------------------
(* cbom.json and the analyses behind it come from the journal. *)
LEMMA CbomStaysRecorded ==
    ASSUME TypeOK, TypeOK', CbomIsRecorded, Next
    PROVE  CbomIsRecorded'
<1>0. found \subseteq found'
  BY DEF Next, Kill, Post, Read, BeginPost, BeginRead, Serve, PlanPost, RefusePost, RecordFact,
     TruncateManifest, SaveManifest, OpenPost, AnalysePost, TruncateCbom, WriteCbom, Progress,
     OpenRun, ReadRun, SummariseRun, FindCbom, AnalyseCbom, ReadCbom, OpenPack, CopyArtefact,
     HashArtefact, OpenAnd
<1>1. cbom' \notin {Absent, Empty, Torn} => cbom' \subseteq found'
  <2>1. ASSUME NEW t \in Threads, WriteCbom(t) PROVE cbom' \notin {Absent, Empty, Torn} => cbom' \subseteq found'
    <3>1. job[t].got \subseteq found
      BY <2>1 DEF CbomIsRecorded, WriteCbom, Progress, Active
    <3>2. cbom' \in {job[t].got, Torn}
      BY <2>1 DEF WriteCbom, Overwritten
    <3>. QED  BY <1>0, <3>1, <3>2, FileStatesDiffer
  <2>2. ASSUME NEW t \in Threads, TruncateCbom(t) PROVE cbom' = Empty
    BY <2>2 DEF TruncateCbom
  <2>3. CASE UNCHANGED cbom
    BY <1>0, <2>3 DEF CbomIsRecorded
  <2>. QED
    BY <2>1, <2>2, <2>3 DEF Next, Kill, Post, Read, BeginPost, BeginRead, Serve, PlanPost,
       RefusePost, RecordFact, TruncateManifest, SaveManifest, OpenPost, AnalysePost, Progress,
       OpenRun, ReadRun, SummariseRun, FindCbom, AnalyseCbom, ReadCbom, OpenPack, CopyArtefact,
       HashArtefact, OpenAnd
<1>2. ASSUME NEW t \in Threads, job'[t] # Free, job'[t].kind = "post" PROVE job'[t].got \subseteq found'
  <2>1. CASE job'[t] = job[t]
    BY <1>0, <1>2, <2>1 DEF CbomIsRecorded
  <2>2. CASE Kill
    BY <1>2, <2>1, <2>2 DEF Kill
  <2>3. ASSUME NEW u \in Threads, NEW facts \in Posts, BeginPost(u, facts)
        PROVE  job'[t].got \subseteq found'
    <3>1. CASE t = u
      BY <2>3, <3>1, Arrivals
    <3>2. CASE t # u
      BY <1>0, <1>2, <2>1, <2>3, <3>2, Arrivals DEF CbomIsRecorded
    <3>. QED  BY <3>1, <3>2
  <2>4. ASSUME NEW u \in Threads, Post(u) \/ Read(u), ~ \E facts \in Posts : BeginPost(u, facts)
        PROVE  job'[t].got \subseteq found'
    <3>1. CASE t # u
      BY <2>1, <2>4, <3>1, OwnStep
    <3>2. ASSUME t = u, NEW kind \in {"run", "cbom", "pack"}, BeginRead(u, kind) PROVE FALSE
      BY <1>2, <3>2 DEF BeginRead, Request, TypeOK
    <3>3. CASE t = u /\ PackGoesOn(u)
      <4>1. job[u].kind = "pack" /\ Active(u)
        BY <3>3 DEF PackGoesOn, OpenPack, CopyArtefact, HashArtefact, Progress
      <4>2. job'[u].kind = "pack"
        <5>1. CASE OpenPack(u)
          <6>1. PICK step \in Steps : To(u, step)
            BY <5>1 DEF OpenPack, OpenAnd, Steps, Ended
          <6>. QED  BY <4>1, <6>1, StepIsMove, OthersStay DEF SameRequest
        <5>2. CASE CopyArtefact(u)
          BY <4>1, <5>2, CopyIsMove, OthersStay DEF SameRequest
        <5>3. CASE HashArtefact(u)
          BY <4>1, <5>3, HashIsMove, OthersStay DEF SameRequest
        <5>. QED  BY <3>3, <5>1, <5>2, <5>3 DEF PackGoesOn
      <4>. QED  BY <1>2, <3>3, <4>2
    <3>4. CASE /\ t = u /\ Active(u) /\ job'[u].kind = job[u].kind
               /\ job'[u].got \in {job[u].got, found} \/ job[u].kind # "post"
      BY <1>0, <1>2, <3>4 DEF CbomIsRecorded, Active
    <3>. QED  BY <2>4, <3>1, <3>2, <3>3, <3>4, OwnStep
  <2>. QED  BY <2>2, <2>3, <2>4 DEF Next
<1>. QED  BY <1>1, <1>2 DEF CbomIsRecorded

----------------------------------------------------------------------------
(* A pack that is alone sees the files stand still under it.               *)
LEMMA LonePackUndisturbed ==
    ASSUME SInv, Next, NEW t \in Threads, Active(t), Lone(t), job[t].kind = "pack"
    PROVE  UNCHANGED <<found, cbom>>
BY ScansWrite DEF SInv, LoneReadersUndisturbed, Scans

LEMMA PackStays ==
    ASSUME SInv, Next, NEW t \in Threads, Lone(t), job[t].kind = "pack", PackInStep(job[t])
    PROVE  PackInStep(job[t])'  \/ job'[t] # job[t]
<1>. SUFFICES ASSUME job'[t] = job[t] PROVE PackInStep(job[t])'
  OBVIOUS
<1>1. CASE Active(t)
  BY <1>1, LonePackUndisturbed DEF PackInStep, Verifies, Content
<1>2. CASE ~Active(t)
  BY <1>2 DEF Active, Lone, Ended, PackInStep, Verifies
<1>. QED  BY <1>1, <1>2

LEMMA AppendToOne ==
    ASSUME NEW S, NEW r \in Seq(S), NEW b \in S, Len(r) = 1
    PROVE  /\ Append(r, b) \in Seq(S) /\ Len(Append(r, b)) = 2
           /\ Append(r, b)[1] = r[1] /\ Append(r, b)[2] = b
<1>1. Append(r, b) \in Seq(S) /\ Len(Append(r, b)) = 2
  OBVIOUS
<1>2. Append(r, b)[1] = r[1]
  BY AppendProperties
<1>3. Append(r, b)[2] = b
  BY AppendProperties
<1>. QED  BY <1>1, <1>2, <1>3

LEMMA AppendSecond == ASSUME NEW a, NEW b PROVE Append(<<a>>, b) = <<a, b>>
<1>. DEFINE S == {a, b}
            s == Append(<<a>>, b)
            t == <<a, b>>
<1>1. <<a>> \in Seq(S) /\ Len(<<a>>) = 1 /\ <<a>>[1] = a
  OBVIOUS
<1>2. t \in Seq(S) /\ Len(t) = 2 /\ t[1] = a /\ t[2] = b
  OBVIOUS
<1>3. s \in Seq(S) /\ Len(s) = 2 /\ s[1] = a /\ s[2] = b
  <2>. DEFINE r == <<a>>
  <2>. HIDE DEF r
  <2>1. r \in Seq(S) /\ Len(r) = 1 /\ r[1] = a
    BY <1>1 DEF r
  <2>2. b \in S
    OBVIOUS
  <2>. HIDE DEF S
  <2>3. /\ Append(r, b) \in Seq(S) /\ Len(Append(r, b)) = 2
        /\ Append(r, b)[1] = a /\ Append(r, b)[2] = b
    BY <2>1, <2>2, AppendToOne
  <2>. QED  BY <2>3 DEF r
<1>. HIDE DEF s, t, S
<1>4. s = t
  <2>1. \A i \in 1..Len(s) : s[i] = t[i]
    BY <1>2, <1>3
  <2>. QED  BY <1>2, <1>3, <2>1, SeqEqual
<1>. QED  BY <1>4 DEF s, t

(* The three steps of a pack. *)
LEMMA PackSteps ==
    ASSUME TypeOK, SInv, CbomIsRecorded, Next, NEW t \in Threads, PackGoesOn(t), Lone(t),
           job[t].kind = "pack", PackInStep(job[t])
    PROVE  PackInStep(job[t])'
<1>1. Active(t) /\ job[t] \in Jobs /\ ~Scans(t)
  BY ServedType DEF PackGoesOn, OpenPack, CopyArtefact, HashArtefact, Progress, Scans
<1>2. UNCHANGED <<found, cbom>>
  BY <1>1, LonePackUndisturbed
<1>. DEFINE F == Content("findings")
<1>3. Content("cbom") = cbom /\ F' = F /\ cbom' = cbom
  BY <1>2 DEF Content
<1>4. Healthy
  BY <1>1, LoneReaderIsSafe
<1>5. \/ F = Absent /\ cbom \in {Absent, {}}
      \/ F # Absent /\ cbom = F
  <2>1. CASE found = {}
    BY <1>4, <2>1 DEF CbomIsRecorded, Healthy, Unreadable, Content
  <2>2. CASE found # {}
    BY <1>4, <2>2, FileStatesDiffer DEF Healthy, Content, TypeOK
  <2>. QED  BY <2>1, <2>2
<1>. HIDE DEF F
<1>6. CASE OpenPack(t)
  <2>1. job' = [job EXCEPT ![t].step = "copy"] /\ job[t].step = "open"
    BY <1>4, <1>6 DEF OpenPack, OpenAnd, To, Healthy, Progress
  <2>2. job'[t] = [job[t] EXCEPT !.step = "copy"]
    BY <2>1 DEF TypeOK
  <2>3. job'[t].step = "copy" /\ job'[t].copied = <<>> /\ job'[t].hashed = <<>>
    BY <1>1, <2>1, <2>2 DEF Jobs, PackInStep
  <2>. QED  BY <2>3 DEF PackInStep
<1>7. /\ job'[t].step = "hash" =>
            \/ job'[t].copied = <<F>> /\ job'[t].hashed = <<>>
            \/ job'[t].copied = <<F, cbom>> /\ job'[t].hashed = <<F>>
      /\ job'[t].step = "copy" =>
            job'[t].copied \in {<<>>, <<F>>} /\ job'[t].hashed = job'[t].copied
      /\ job'[t].step = "ok" => Verifies(job'[t])
      /\ job'[t].step # "open"
      => PackInStep(job[t])'
  BY <1>3 DEF PackInStep, Verifies, F
<1>8. CASE CopyArtefact(t)
  <2>. DEFINE c == Content(Artefacts[Len(job[t].copied) + 1])
              s == Append(job[t].copied, c)
  <2>1. job'[t] = [job[t] EXCEPT !.step = "hash", !.copied = s]
    BY <1>8 DEF CopyArtefact, TypeOK
  <2>2. job[t].copied \in {<<>>, <<F>>} /\ job[t].hashed = job[t].copied
    BY <1>8 DEF CopyArtefact, Progress, PackInStep, F
  <2>3. \/ job[t].copied = <<>> /\ s = <<F>>
        \/ job[t].copied = <<F>> /\ s = <<F, cbom>>
    <3>1. CASE job[t].copied = <<>>
      BY <3>1 DEF Artefacts, F
    <3>2. CASE job[t].copied = <<F>>
      <4>1. c = cbom
        BY <1>3, <3>2 DEF Artefacts
      <4>2. s = Append(<<F>>, cbom)
        BY <3>2, <4>1
      <4>. HIDE DEF s
      <4>. QED  BY <3>2, <4>2, AppendSecond
    <3>. QED  BY <2>2, <3>1, <3>2
  <2>. HIDE DEF s
  <2>4. job'[t].step = "hash" /\ job'[t].copied = s /\ job'[t].hashed = job[t].copied
    BY <1>1, <2>1, <2>2 DEF Jobs
  <2>. QED  BY <1>7, <2>3, <2>4
<1>9. CASE HashArtefact(t)
  <2>. DEFINE n == Len(job[t].copied)
              hash == IF job[t].copied[n] = Absent THEN Absent ELSE Content(Artefacts[n])
              step == IF n = Len(Artefacts) THEN "ok" ELSE "copy"
              s == Append(job[t].hashed, hash)
  <2>1. job'[t] = [job[t] EXCEPT !.step = step, !.hashed = s]
    BY <1>9 DEF HashArtefact, TypeOK
  <2>2. \/ job[t].copied = <<F>> /\ job[t].hashed = <<>>
        \/ job[t].copied = <<F, cbom>> /\ job[t].hashed = <<F>>
    BY <1>9 DEF HashArtefact, Progress, PackInStep, F
  <2>3. \/ job[t].copied = <<F>> /\ step = "copy" /\ s = <<F>>
        \/ job[t].copied = <<F, cbom>> /\ step = "ok" /\ s = <<F, cbom>>
    <3>1. CASE job[t].copied = <<F>> /\ job[t].hashed = <<>>
      <4>1. n = 1 /\ hash = F
        BY <3>1 DEF Artefacts, F
      <4>. HIDE DEF n, hash
      <4>. QED  BY <3>1, <4>1 DEF Artefacts
    <3>2. CASE job[t].copied = <<F, cbom>> /\ job[t].hashed = <<F>>
      <4>1. n = 2 /\ hash = cbom
        BY <1>3, <3>2 DEF Artefacts
      <4>2. step = "ok" /\ s = Append(<<F>>, cbom)
        BY <3>2, <4>1 DEF Artefacts
      <4>. HIDE DEF s, step
      <4>. QED  BY <3>2, <4>2, AppendSecond
    <3>. QED  BY <2>2, <3>1, <3>2
  <2>. HIDE DEF s, step
  <2>4. job'[t].step = step /\ job'[t].copied = job[t].copied /\ job'[t].hashed = s
    BY <1>1, <2>1 DEF Jobs
  <2>5. step = "ok" => Verifies(job'[t])
    BY <1>5, <2>3, <2>4 DEF Verifies
  <2>. QED  BY <1>7, <2>3, <2>4, <2>5
<1>. QED  BY <1>6, <1>8, <1>9 DEF PackGoesOn

LEMMA LonePacksStayInStep ==
    ASSUME TypeOK, TypeOK', SInv, PackInv, Next
    PROVE  LonePacksInStep'
<1>. SUFFICES ASSUME NEW t \in Threads, Lone(t)', job'[t].kind = "pack"
              PROVE  PackInStep(job[t])'
  BY DEF LonePacksInStep
<1>1. CASE job'[t] = job[t]
  BY <1>1, PackStays DEF PackInv, LonePacksInStep, Lone
<1>2. CASE Kill
  BY <1>1, <1>2 DEF Kill, Lone
<1>3. ASSUME NEW u \in Threads, NEW facts \in Posts, BeginPost(u, facts)
      PROVE  PackInStep(job[t])'
  BY <1>1, <1>3, Arrivals
<1>4. ASSUME NEW u \in Threads, Post(u) \/ Read(u), ~ \E facts \in Posts : BeginPost(u, facts)
      PROVE  PackInStep(job[t])'
  <2>1. CASE t # u
    BY <1>1, <1>4, <2>1, OwnStep
  <2>2. ASSUME t = u, NEW kind \in {"run", "cbom", "pack"}, BeginRead(u, kind)
        PROVE  PackInStep(job[t])'
    <3>1. job'[t].step = "open" /\ job'[t].copied = <<>> /\ job'[t].hashed = <<>>
      BY <2>2 DEF BeginRead, Request, TypeOK
    <3>. QED  BY <3>1 DEF PackInStep
  <2>3. CASE t = u /\ PackGoesOn(u)
    <3>1. job[t].kind = "pack" /\ Active(t) /\ job[t] \in Jobs
      BY <2>3, ServedType DEF PackGoesOn, OpenPack, CopyArtefact, HashArtefact, Progress
    <3>2. PICK j : job' = [job EXCEPT ![t] = j] /\ SameRequest(job[t], j)
      <4>1. CASE OpenPack(t)
        <5>1. PICK step \in Steps : To(t, step)
          BY <4>1 DEF OpenPack, OpenAnd, Steps, Ended
        <5>. QED  BY <3>1, <5>1, StepIsMove
      <4>. QED  BY <2>3, <4>1, CopyIsMove, HashIsMove DEF PackGoesOn
    <3>3. Lone(t)
      BY <3>1, <3>2, OthersStay DEF Lone, SameRequest, Active
    <3>. QED  BY <2>3, <3>1, <3>3, PackSteps DEF PackInv, LonePacksInStep
  <2>4. CASE t = u /\ job[u].kind # "pack" /\ job'[u].kind = job[u].kind
    BY <2>4
  <2>. QED  BY <1>4, <2>1, <2>2, <2>3, <2>4, OwnStep
<1>. QED  BY <1>2, <1>3, <1>4 DEF Next

(* PackInv holds in every state: a CBOM says only what is on record, and a *)
(* lone pack holds what the files still hold.                              *)
THEOREM PackInvariant == Spec => []PackInv
<1>1. Init => PackInv
  BY DEF Init, PackInv, CbomIsRecorded, LonePacksInStep, Lone
<1>2. TypeOK /\ TypeOK' /\ SInv /\ PackInv /\ [Next]_vars => PackInv'
  <2>. SUFFICES ASSUME TypeOK, TypeOK', SInv, PackInv, [Next]_vars PROVE PackInv'
    OBVIOUS
  <2>1. CASE Next
    BY <2>1, CbomStaysRecorded, LonePacksStayInStep DEF PackInv
  <2>2. CASE UNCHANGED vars
    BY <2>2 DEF vars, PackInv, CbomIsRecorded, LonePacksInStep, Lone, PackInStep, Verifies, Content
  <2>. QED  BY <2>1, <2>2
<1>. QED  BY <1>1, <1>2, TypeHolds, ServiceInvariantHolds, PTL DEF Spec

(* A pack built of a healthy directory that no scan touches meanwhile can  *)
(* be verified: each file has the digest pack.json lists, and the CBOM in  *)
(* it can be derived from the journal in it.                               *)
THEOREM PacksVerify == Spec => []LonePackVerifies
<1>1. PackInv => LonePackVerifies
  BY DEF PackInv, LonePacksInStep, PackInStep, Verifies, LonePackVerifies, Lone
<1>. QED  BY <1>1, PackInvariant, PTL

(* What the comment of api.py:4-6 promises of browser and CBOM holds     *)
(* until two scans overlap or one is killed: with nothing being served,     *)
(* cbom.json holds what get_run would answer.                               *)
THEOREM BrowserShowsIt == Spec => [](~disturbed => BrowserShowsTheCbom)
<1>1. RunDirectoryIsCurrent => (~disturbed => BrowserShowsTheCbom)
  BY DEF RunDirectoryIsCurrent, BrowserShowsTheCbom, Scans, Active
<1>. QED  BY <1>1, DirectoryIsCurrent, PTL

(* However scans overlap, fail or are killed, a CBOM that can be read at    *)
(* all claims nothing that is not on record in the journal: it can lag      *)
(* behind it and never goes beyond it.                                      *)
THEOREM CbomNeverOverstates == Spec => []CbomIsRecorded
<1>1. PackInv => CbomIsRecorded
  BY DEF PackInv
<1>. QED  BY <1>1, PackInvariant, PTL
=============================================================================
