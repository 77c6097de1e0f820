----------------------------- MODULE ScanProofs -----------------------------
(* Theorems about Scan, for every estate, pool size and bound.             *)
EXTENDS ScanInvariant, JournalTheorems

(* The items a unit finds, and the errors it or scan() reports, are lines  *)
(* a journal file can hold.                                                *)
LEMMA ItemsAreItems ==
    ASSUME NEW t \in Targets
    PROVE  /\ \A c \in Collectors, n \in Names : Finding(c, t, n) \in Item
           /\ \A c \in Collectors \cup {Scanner} : Failure(c, t) \in Item
BY DEF Finding, Failure, Item

LEMMA UnitType ==
    ASSUME NEW u \in Supports
    PROVE  u[1] \in Collectors /\ u[2] \in Targets
BY ScanConstants

(* Mixed(u) holds only names, so what a unit returns is a set of items.    *)
LEMMA FoundType ==
    ASSUME TypeOK, NEW u \in Supports, NEW S \in SUBSET Mixed(u)
    PROVE  Found(u, S) \subseteq Item
<1>1. \A v \in Versions : Yields[u][v] \subseteq Names
  BY ScanConstants
<1>2. began[u] \in Versions /\ content[u[2]] \in Versions
  BY UnitType DEF TypeOK
<1>3. \A v \in began[u] .. content[u[2]] : v \in Versions
  BY <1>2, ScanConstants DEF Versions
<1>4. S \subseteq Names
  BY <1>1, <1>3 DEF Mixed
<1>. QED
  BY <1>4, UnitType, ItemsAreItems DEF Found

LEMMA RecordsType == NoRecords \in Records
BY DEF NoRecords, Records

LEMMA ManifestTypes ==
    /\ AbsentManifest \in ManifestFile
    /\ TornManifest \in ManifestFile
    /\ \A R \in Records : SavedManifest(R) \in ManifestFile
BY RecordsType DEF AbsentManifest, TornManifest, SavedManifest, ManifestFile

LEMMA GoneType == Gone =>
    /\ pc' = "idle"
    /\ request' \in [targets: SUBSET Targets, surfaces: SUBSET Collectors, resume: BOOLEAN]
    /\ recs' \in Records
    /\ known' = {} /\ todo' = {} /\ skipped' = {}
    /\ stage' \in [Supports -> Stages]
    /\ began' \in [Supports -> Versions]
    /\ results' \in [Supports -> SUBSET Item]
    /\ left' = {} /\ count' \in Counts
<1>1. 1 \in Versions
  BY ScanConstants DEF Versions
<1>. QED
  BY <1>1, RecordsType
  DEF Gone, NoRequest, NoStages, NoStart, NoResults, ZeroCount, Counts, Stages

----------------------------------------------------------------------------
(* Every variable keeps its type: the journal files are files, the         *)
(* manifest on disk and in memory are manifests, results are journal lines.*)
THEOREM TypeCorrect == Spec => []TypeOK
<1>1. Init => TypeOK
  <2>1. 1 \in Versions
    BY ScanConstants DEF Versions
  <2>. QED
    BY <2>1, EmptyFileDecodes, RecordsType, ManifestTypes
    DEF Init, TypeOK, NoRequest, NoStages, NoStart, NoResults, ZeroCount, Counts, Stages
<1>2. TypeOK /\ [Next]_vars => TypeOK'
  <2> SUFFICES ASSUME TypeOK, [Next]_vars
               PROVE  TypeOK'
    OBVIOUS
  <2>1. ASSUME NEW t \in Targets, Edit(t)
        PROVE  TypeOK'
    <3>1. content' \in [Targets -> Versions]
      BY <2>1, ScanConstants DEF Edit, TypeOK, Versions
    <3>. QED
      BY <2>1, <3>1 DEF Edit, TypeOK, disk, plan, pool, budgets
  <2>2. ASSUME NEW q \in Requests, Begin(q)
        PROVE  TypeOK'
    <3>1. q \in [targets: SUBSET Targets, surfaces: SUBSET Collectors, resume: BOOLEAN]
      BY ScanConstants
    <3>2. recs' \in Records
      BY <2>2, RecordsType DEF Begin, LoadedRecords, TypeOK, ManifestFile
    <3>3. 1 \in Versions
      BY ScanConstants DEF Versions
    <3>. QED
      BY <2>2, <3>1, <3>2, <3>3
      DEF Begin, Resolved, Unresolved, TypeOK, world, disk, NoStages, NoStart, NoResults, ZeroCount, Counts, Stages
  <2>3. ASSUME NEW q \in Requests, OpenFails(q)
        PROVE  TypeOK'
    BY <2>3, GoneType DEF OpenFails, TypeOK, world, disk
  <2>4. ASSUME NEW t \in Targets, RecordUnknown(t)
        PROVE  TypeOK'
    <3>1. Failure(Scanner, t) \in Item
      BY ItemsAreItems
    <3>. QED
      BY <2>4, <3>1, AppendLineType, CountItemType
      DEF RecordUnknown, TypeOK, world, plan, pool, budgets
  <2>5. CASE StartPlan
    BY <2>5 DEF StartPlan, TypeOK, world, disk, plan, pool, budgets
  <2>6. ASSUME NEW t \in Targets, PlanTarget(t)
        PROVE  TypeOK'
    <3>1. Digest[t][content[t]] \in Digests
      BY ScanConstants DEF TypeOK
    <3>2. recs' \in Records
      BY <2>6, <3>1, RegisterTargetType DEF PlanTarget, TypeOK
    <3>3. stage' \in [Supports -> Stages]
      BY <2>6 DEF PlanTarget, TypeOK, Stages
    <3>. QED
      BY <2>6, <3>2, <3>3 DEF PlanTarget, TypeOK, world, disk, budgets
  <2>7. CASE Submit
    BY <2>7, DecodedCountType DEF Submit, ErrorsOnRecord, TypeOK, Counts, world, disk, plan, pool, budgets
  <2>8. ASSUME NEW u \in Supports, TakeResult(u)
        PROVE  TypeOK'
    BY <2>8 DEF TakeResult, TypeOK, Stages, world, disk, plan, budgets
  <2>9. ASSUME NEW x \in left, RecordFinding(x)
        PROVE  TypeOK'
    <3>1. x \in Item
      BY DEF TypeOK
    <3>2. count' \in Counts
      BY <2>9 DEF RecordFinding, TypeOK, Counts
    <3>. QED
      BY <2>9, <3>1, <3>2, AppendLineType, CountItemType
      DEF RecordFinding, TypeOK, world, plan, pool, budgets
  <2>10. ASSUME NEW x \in left, RecordError(x)
         PROVE  TypeOK'
    <3>1. x \in Item
      BY DEF TypeOK
    <3>2. count' \in Counts
      BY <2>10 DEF RecordError, TypeOK, Counts
    <3>. QED
      BY <2>10, <3>1, <3>2, AppendLineType, CountItemType
      DEF RecordError, TypeOK, world, plan, pool, budgets
  <2>11. CASE Complete
    BY <2>11, CompleteTargetsType DEF Complete, TypeOK, world, disk, plan, pool, budgets
  <2>12. CASE TruncateManifest
    BY <2>12, ManifestTypes DEF TruncateManifest, TypeOK, world, plan, pool, budgets
  <2>13. CASE WriteManifest
    BY <2>13, ManifestTypes DEF WriteManifest, TypeOK, world, plan, pool, budgets
  <2>14. ASSUME NEW u \in Supports, StartUnit(u)
         PROVE  TypeOK'
    BY <2>14, UnitType DEF StartUnit, TypeOK, Stages, world, disk, plan, budgets
  <2>15. ASSUME NEW u \in Supports, CollectUnit(u)
         PROVE  TypeOK'
    <3>1. results' \in [Supports -> SUBSET Item]
      BY <2>15, FoundType DEF CollectUnit, TypeOK
    <3>. QED
      BY <2>15, <3>1 DEF CollectUnit, TypeOK, Stages, world, disk, plan, budgets
  <2>16. ASSUME NEW u \in Supports, CollectFails(u)
         PROVE  TypeOK'
    <3>1. Failure(u[1], u[2]) \in Item
      BY UnitType, ItemsAreItems
    <3>2. results' \in [Supports -> SUBSET Item]
      BY <2>16, <3>1, FoundType DEF CollectFails, Caught, TypeOK
    <3>. QED
      BY <2>16, <3>2 DEF CollectFails, TypeOK, Stages, world, disk, plan
  <2>17. CASE Crash
    BY <2>17, GoneType DEF Crash, TypeOK, world, disk
  <2>18. ASSUME NEW t \in Targets, HashFails(t)
         PROVE  TypeOK'
    BY <2>18, GoneType DEF HashFails, TypeOK, world, disk
  <2>19. ASSUME NEW cut \in Cuts, NEW x \in left \cup {Failure(Scanner, t) : t \in todo},
                CrashInAppend(x, cut)
         PROVE  TypeOK'
    <3>1. x \in Item
      BY ItemsAreItems DEF TypeOK
    <3>2. findings' \in JsonLines /\ errors' \in JsonLines
      BY <2>19, <3>1, TearLineType DEF CrashInAppend, TypeOK
    <3>. QED
      BY <2>19, <3>2, GoneType DEF CrashInAppend, TypeOK, world
  <2>20. CASE UNCHANGED vars
    BY <2>20 DEF vars, TypeOK
  <2>. QED
    BY <2>1, <2>2, <2>3, <2>4, <2>5, <2>6, <2>7, <2>8, <2>9, <2>10, <2>11, <2>12, <2>13,
       <2>14, <2>15, <2>16, <2>17, <2>18, <2>19, <2>20
    DEF Next, MainStep, WorkerStep, Die, Finished
<1>. QED
  BY <1>1, <1>2, PTL DEF Spec
----------------------------------------------------------------------------
(* A manifest that takes its hashes, and no more completions, from another *)
(* is as past and as backed as that one, by a log that has only grown.     *)
LEMMA RecordsKept ==
    ASSUME NEW R, NEW Q, NEW c, NEW log, NEW wider,
           log \subseteq wider,
           \A t \in Targets : Q[t] # NoRecord =>
              /\ R[t] # NoRecord /\ Q[t].hash = R[t].hash
              /\ Q[t].status = "complete" => R[t].status = "complete",
           HashesArePast(R, c), CompleteIsBacked(R, c, log)
    PROVE  HashesArePast(Q, c) /\ CompleteIsBacked(Q, c, wider)
<1>1. HashesArePast(Q, c)
  BY DEF HashesArePast
<1>2. CompleteIsBacked(Q, c, wider)
  BY UnitType DEF CompleteIsBacked, IsCurrent
<1>. QED
  BY <1>1, <1>2

(* An edit gives its target a fingerprint that no record holds; the other  *)
(* targets' records stay what they were.                                   *)
LEMMA EditOutdates ==
    ASSUME DistinctDigests, NEW R, NEW c \in [Targets -> Versions],
           NEW t \in Targets, c[t] < MaxVersion, HashesArePast(R, c)
    PROVE  LET d == [c EXCEPT ![t] = @ + 1]
           IN  /\ HashesArePast(R, d)
               /\ ~IsCurrent(R[t], t, d)
               /\ \A s \in Targets : s # t => d[s] = c[s]
<1> DEFINE d == [c EXCEPT ![t] = @ + 1]
<1>1. /\ c[t] \in Nat /\ d[t] = c[t] + 1 /\ d[t] \in Versions
      /\ \A s \in Targets : s # t => d[s] = c[s]
      /\ \A s \in Targets : c[s] \in Nat
  BY ScanConstants DEF Versions
<1>2. HashesArePast(R, d)
  <2> SUFFICES ASSUME NEW s \in Targets, R[s] # NoRecord
               PROVE  \E v \in Versions : v <= d[s] /\ R[s].hash = Digest[s][v]
    BY DEF HashesArePast
  <2>1. PICK v \in Versions : v <= c[s] /\ R[s].hash = Digest[s][v]
    BY DEF HashesArePast
  <2>2. v <= d[s]
    BY <1>1, <2>1 DEF Versions
  <2>. QED
    BY <2>1, <2>2
<1>3. ~IsCurrent(R[t], t, d)
  <2> SUFFICES ASSUME R[t] # NoRecord, R[t].hash = Digest[t][d[t]]
               PROVE  FALSE
    BY DEF IsCurrent
  <2>1. PICK v \in Versions : v <= c[t] /\ R[t].hash = Digest[t][v]
    BY DEF HashesArePast
  <2>2. v = d[t]
    BY <1>1, <2>1 DEF DistinctDigests
  <2>. QED
    BY <1>1, <2>1, <2>2 DEF Versions
<1>. QED
  BY <1>1, <1>2, <1>3

LEMMA EditKeepsBacked ==
    ASSUME DistinctDigests, NEW R, NEW c \in [Targets -> Versions], NEW log,
           NEW t \in Targets, c[t] < MaxVersion, HashesArePast(R, c),
           CompleteIsBacked(R, c, log)
    PROVE  CompleteIsBacked(R, [c EXCEPT ![t] = @ + 1], log)
<1> DEFINE d == [c EXCEPT ![t] = @ + 1]
<1>1. ~IsCurrent(R[t], t, d) /\ \A s \in Targets : s # t => d[s] = c[s]
  BY EditOutdates
<1> SUFFICES ASSUME NEW u \in Supports,
                    IsCurrent(R[u[2]], u[2], d), R[u[2]].status = "complete"
             PROVE  Found(u, Yields[u][d[u[2]]]) \subseteq log
  BY DEF CompleteIsBacked
<1>2. u[2] \in Targets /\ u[2] # t
  BY <1>1, UnitType
<1>3. d[u[2]] = c[u[2]]
  BY <1>1, <1>2
<1>. QED
  BY <1>3 DEF CompleteIsBacked, IsCurrent

(* Whatever is appended, nothing is lost that a reader cannot tell: the     *)
(* record is on record, and what was there before still is.                *)
LEMMA AppendIsOnRecord ==
    ASSUME NEW f \in JsonLines, NEW x \in Item, f.open => f.lines # <<>>
    PROVE  /\ OnRecord(f) \subseteq OnRecord(AppendLine(f, x))
           /\ x \in OnRecord(AppendLine(f, x))
           /\ ~AppendLine(f, x).open
<1> DEFINE g == AppendLine(f, x)
<1>1. OnRecord(f) \subseteq Item /\ ~g.open
  BY LinesAreItems DEF OnRecord, AppendLine
<1>2. CASE f.open
  <2>1. ~Unspoilt(g)
    BY <1>2, SpoiledLine DEF AppendLine, Unspoilt
  <2>. QED
    BY <1>1, <2>1 DEF OnRecord
<1>3. CASE ~f.open
  <2>1. Decoded(g) = Decoded(f) \cup {x}
    BY <1>3, AppendLineDecodes
  <2>2. Unspoilt(g) => Unspoilt(f)
    BY <1>3, OneMoreLine DEF AppendLine, Unspoilt
  <2>. QED
    BY <1>1, <2>1, <2>2 DEF OnRecord
<1>. QED
  BY <1>2, <1>3

(* A kill inside an append takes nothing away that a reader cannot tell.   *)
LEMMA TearIsOnRecord ==
    ASSUME NEW f \in JsonLines, NEW x \in Item, NEW cut, f.open => f.lines # <<>>
    PROVE  /\ OnRecord(f) \subseteq OnRecord(TearLine(f, x, cut))
           /\ TearLine(f, x, cut).lines # <<>>
<1> DEFINE g == TearLine(f, x, cut)
<1> DEFINE y == IF cut = "whole" THEN x ELSE Garbled
<1>1. OnRecord(f) \subseteq Item /\ y \in Item \cup {Garbled}
  BY LinesAreItems DEF OnRecord
<1>2. CASE f.open
  <2>1. ~Unspoilt(g) /\ g.lines # <<>>
    BY <1>2, SpoiledLine DEF TearLine, Unspoilt
  <2>. QED
    BY <1>1, <2>1 DEF OnRecord
<1>3. CASE ~f.open
  <2> DEFINE a == Append(f.lines, y)
  <2>1. g.lines = a
    BY <1>3 DEF TearLine
  <2> HIDE DEF y
  <2>2. /\ DOMAIN a = DOMAIN f.lines \cup {Len(f.lines) + 1}
        /\ \A i \in DOMAIN f.lines : a[i] = f.lines[i]
    BY <1>1, OneMoreLine
  <2>3. a # <<>>
    BY <2>2, EmptySeq
  <2> HIDE DEF a
  <2>4. Unspoilt(g) => Unspoilt(f)
    BY <2>1, <2>2 DEF Unspoilt
  <2>5. Decoded(f) \subseteq Decoded(g)
    BY <2>1, <2>2 DEF Decoded
  <2>. QED
    BY <1>1, <2>1, <2>3, <2>4, <2>5 DEF OnRecord
<1>. QED
  BY <1>2, <1>3

(* A step that leaves the files and the records alone leaves that part.    *)
LEMMA RecordsFrame ==
    ASSUME RecordsInv, UNCHANGED <<content, findings, errors, manifest, recs>>
    PROVE  RecordsInv'
<1>1. /\ content' = content /\ recs' = recs /\ manifest' = manifest
      /\ findings' = findings /\ errors' = errors
  OBVIOUS
<1>. QED
  BY <1>1 DEF RecordsInv, TailsAreLines

(* No records: nothing to back. *)
LEMMA NoRecordsBacked ==
    ASSUME NEW c, NEW log
    PROVE  HashesArePast(NoRecords, c) /\ CompleteIsBacked(NoRecords, c, log)
BY UnitType DEF HashesArePast, CompleteIsBacked, IsCurrent, NoRecords

(* When the process ends early the disk part survives and the call part is *)
(* that of no call.                                                        *)
LEMMA GoneInv ==
    ASSUME RecordsInv, Gone, UNCHANGED <<content, manifest>>, TailsAreLines',
           OnRecord(findings) \subseteq OnRecord(findings')
    PROVE  IInv'
<1>1. RecordsInv'
  <2>1. recs' = NoRecords
    BY DEF Gone
  <2>2. HashesArePast(recs', content') /\ CompleteIsBacked(recs', content', OnRecord(findings'))
    BY <2>1, NoRecordsBacked
  <2>3. /\ HashesArePast(manifest.targets, content)
        /\ CompleteIsBacked(manifest.targets, content, OnRecord(findings'))
    BY RecordsKept DEF RecordsInv
  <2>. QED
    BY <2>2, <2>3 DEF RecordsInv
<1>2. CallInv'
  BY DEF Gone, CallInv, StagesMatchPc, EveryUnitQueued, SkippedIsComplete, RequestIsFull,
         UnitsInv, NoStages
<1>. QED
  BY <1>1, <1>2 DEF IInv

----------------------------------------------------------------------------
(* The invariant holds of a new run directory.                             *)
LEMMA IInvInit == Init => IInv
<1> SUFFICES ASSUME Init
             PROVE  IInv
  OBVIOUS
<1>1. RecordsInv
  <2>1. recs = NoRecords /\ manifest.targets = NoRecords
    BY DEF Init, AbsentManifest
  <2>2. TailsAreLines
    BY EmptyFileDecodes DEF Init, TailsAreLines
  <2>. QED
    BY <2>1, <2>2, NoRecordsBacked DEF RecordsInv
<1>2. CallInv
  BY DEF Init, CallInv, StagesMatchPc, EveryUnitQueued, SkippedIsComplete, RequestIsFull,
         UnitsInv, NoStages
<1>. QED
  BY <1>1, <1>2 DEF IInv

(* The world moves: whatever it changed is no longer current.              *)
LEMMA EditInv ==
    ASSUME DistinctDigests, TypeOK, IInv, NEW t \in Targets, Edit(t)
    PROVE  IInv'
<1>1. /\ content \in [Targets -> Versions] /\ content[t] < MaxVersion
      /\ content' = [content EXCEPT ![t] = @ + 1]
      /\ findings' = findings /\ errors' = errors /\ manifest' = manifest
      /\ recs' = recs /\ pc' = pc /\ request' = request /\ known' = known
      /\ todo' = todo /\ skipped' = skipped /\ stage' = stage /\ began' = began
      /\ results' = results /\ left' = left
  BY DEF Edit, TypeOK, disk, plan, pool
<1>2. RecordsInv'
  <2>1. /\ HashesArePast(recs, content') /\ HashesArePast(manifest.targets, content')
    BY <1>1, EditOutdates DEF IInv, RecordsInv
  <2>2. /\ CompleteIsBacked(recs, content', OnRecord(findings))
        /\ CompleteIsBacked(manifest.targets, content', OnRecord(findings))
    BY <1>1, EditKeepsBacked DEF IInv, RecordsInv
  <2>. QED
    BY <1>1, <2>1, <2>2 DEF IInv, RecordsInv, TailsAreLines
<1>3. UnitsInv'
  <2> SUFFICES ASSUME pc \in {"plan", "collect"}, NEW u \in Supports
               PROVE  UnitInv(u)'
    BY <1>1 DEF UnitsInv
  <2>1. UnitInv(u) /\ u[2] \in Targets
    BY UnitType DEF IInv, CallInv, UnitsInv
  <2>2. ~IsCurrent(recs[t], t, content')
        /\ \A s \in Targets : s # t => content'[s] = content[s]
    BY <1>1, EditOutdates DEF IInv, RecordsInv
  <2>3. CASE u[2] = t
    BY <1>1, <2>1, <2>2, <2>3 DEF UnitInv
  <2>4. CASE u[2] # t
    <3>1. content'[u[2]] = content[u[2]]
      BY <2>1, <2>2, <2>4
    <3>. QED
      BY <1>1, <2>1, <3>1 DEF UnitInv, IsCurrent, Witnesses
  <2>. QED
    BY <2>3, <2>4
<1>4. (StagesMatchPc /\ EveryUnitQueued /\ SkippedIsComplete /\ RequestIsFull)'
  BY <1>1 DEF IInv, CallInv, StagesMatchPc, EveryUnitQueued, Planned, SkippedIsComplete,
              RequestIsFull
<1>. QED
  BY <1>2, <1>3, <1>4 DEF IInv, CallInv

(* A call starts from the manifest on disk, or from none.                  *)
LEMMA BeginInv ==
    ASSUME AllSurfaces, TypeOK, IInv, NEW q \in Requests, Begin(q)
    PROVE  IInv'
<1>1. RecordsInv'
  <2>1. recs' \in {manifest.targets, NoRecords}
    BY DEF Begin, LoadedRecords
  <2>2. /\ HashesArePast(recs', content)
        /\ CompleteIsBacked(recs', content, OnRecord(findings))
    BY <2>1, NoRecordsBacked DEF IInv, RecordsInv
  <2>3. content' = content /\ findings' = findings /\ errors' = errors /\ manifest' = manifest
    BY DEF Begin, world, disk
  <2>. QED
    BY <2>2, <2>3 DEF IInv, RecordsInv, TailsAreLines
<1>2. pc' = "unknown" /\ request' = q /\ left' = {} /\ stage' = NoStages /\ skipped' = {}
  BY DEF Begin
<1>3. CallInv'
  BY <1>2 DEF AllSurfaces, CallInv, StagesMatchPc, EveryUnitQueued, SkippedIsComplete,
              RequestIsFull, UnitsInv, NoStages
<1>. QED
  BY <1>1, <1>3 DEF IInv

(* An error line for an unresolved target: no status changes.              *)
LEMMA RecordUnknownInv ==
    ASSUME TypeOK, IInv, NEW t \in Targets, RecordUnknown(t)
    PROVE  IInv'
<1> DEFINE x == Failure(Scanner, t)
<1>1. /\ x \in Item /\ recs \in Records /\ errors \in JsonLines
      /\ content' = content /\ findings' = findings /\ manifest' = manifest
      /\ errors' = AppendLine(errors, x) /\ recs' = CountItem(recs, x)
      /\ errors.open => errors.lines # <<>>
  BY ItemsAreItems DEF RecordUnknown, TypeOK, IInv, RecordsInv, TailsAreLines, world
<1>2. RecordsInv'
  <2>1. ~errors'.open
    BY <1>1, AppendIsOnRecord
  <2>2. \A s \in Targets : recs'[s] # NoRecord =>
            /\ recs[s] # NoRecord /\ recs'[s].hash = recs[s].hash
            /\ recs'[s].status = "complete" => recs[s].status = "complete"
    BY <1>1, CountItemKeeps
  <2>3. HashesArePast(recs', content) /\ CompleteIsBacked(recs', content, OnRecord(findings))
    BY <2>2, RecordsKept DEF IInv, RecordsInv
  <2>. QED
    BY <1>1, <2>1, <2>3 DEF IInv, RecordsInv, TailsAreLines
<1>3. CallInv'
  BY DEF RecordUnknown, plan, pool, IInv, CallInv, StagesMatchPc, EveryUnitQueued,
         SkippedIsComplete, RequestIsFull, UnitsInv
<1>. QED
  BY <1>2, <1>3 DEF IInv

LEMMA StartPlanInv ==
    ASSUME TypeOK, IInv, StartPlan
    PROVE  IInv'
<1>1. /\ pc = "unknown" /\ pc' = "plan" /\ todo' = known
      /\ UNCHANGED <<content, findings, errors, manifest, recs, request, known,
                     skipped, stage, began, results, left>>
  BY DEF StartPlan, world, disk, plan, pool
<1>2. RecordsInv'
  BY <1>1, RecordsFrame DEF IInv
<1>3. \A u \in Supports : stage[u] = "none"
  BY <1>1 DEF IInv, CallInv, StagesMatchPc
<1>4. (StagesMatchPc /\ RequestIsFull /\ EveryUnitQueued)'
  BY <1>1, <1>3 DEF IInv, CallInv, StagesMatchPc, RequestIsFull, EveryUnitQueued, Planned
<1>5. UnitsInv'
  BY <1>1, <1>3 DEF UnitsInv, UnitInv
<1>6. SkippedIsComplete'
  BY <1>1 DEF IInv, CallInv, StagesMatchPc, SkippedIsComplete
<1>. QED
  BY <1>2, <1>4, <1>5, <1>6 DEF IInv, CallInv

(* A target is fingerprinted: skipped on the strength of a complete record, *)
(* or registered under its present fingerprint with all its units queued.   *)
LEMMA RegisterKeeps ==
    ASSUME NEW R \in Records, NEW c \in [Targets -> Versions], NEW log, NEW t \in Targets,
           HashesArePast(R, c), CompleteIsBacked(R, c, log)
    PROVE  LET Q == RegisterTarget(R, t, Digest[t][c[t]])
           IN  /\ HashesArePast(Q, c) /\ CompleteIsBacked(Q, c, log)
               /\ Q[t] # NoRecord
               /\ \A s \in Targets : s # t => Q[s] = R[s]
<1> DEFINE h == Digest[t][c[t]]
<1> DEFINE Q == RegisterTarget(R, t, h)
<1>1. CASE R[t] # NoRecord /\ R[t].hash = h
  <2>1. Q = R
    BY <1>1 DEF RegisterTarget
  <2>. QED
    BY <1>1, <2>1
<1>2. CASE ~(R[t] # NoRecord /\ R[t].hash = h)
  <2> DEFINE r == [hash |-> h, status |-> "pending", findings |-> 0, errors |-> 0]
  <2>1. /\ Q[t] = r /\ r.hash = h /\ r.status # "complete"
        /\ \A s \in Targets : s # t => Q[s] = R[s]
    BY <1>2 DEF RegisterTarget, Records
  <2>2. h \in Digests /\ c[t] \in Versions
    BY ScanConstants
  <2>3. r # NoRecord
    BY <2>2, NoRecordIsNoRecord DEF TargetRecord
  <2>4. c[t] <= c[t]
    BY <2>2 DEF Versions
  <2> HIDE DEF r, Q, h
  <2>5. HashesArePast(Q, c)
    BY <2>1, <2>2, <2>4 DEF HashesArePast, h
  <2>6. CompleteIsBacked(Q, c, log)
    BY <2>1, UnitType DEF CompleteIsBacked
  <2>. QED
    BY <2>1, <2>3, <2>5, <2>6 DEF Q, h
<1>. QED
  BY <1>1, <1>2

LEMMA PlanTargetInv ==
    ASSUME TypeOK, IInv, NEW t \in Targets, PlanTarget(t)
    PROVE  IInv'
<1> DEFINE h == Digest[t][content[t]]
<1> DEFINE skip == request.resume /\ ShouldSkip(recs, t, h)
<1>1. /\ pc = "plan" /\ pc' = "plan" /\ t \in todo /\ todo' = todo \ {t}
      /\ skipped' = IF skip THEN skipped \cup {t} ELSE skipped
      /\ recs' = IF skip THEN recs ELSE RegisterTarget(recs, t, h)
      /\ stage' = IF skip THEN stage
                  ELSE [u \in Supports |-> IF u \in UnitsOf(t) THEN "queued" ELSE stage[u]]
      /\ UNCHANGED <<content, findings, errors, manifest, request, known, began, results, left>>
  BY DEF PlanTarget, world, disk
<1>2. /\ recs \in Records /\ content \in [Targets -> Versions]
      /\ stage \in [Supports -> Stages]
      /\ HashesArePast(recs, content) /\ CompleteIsBacked(recs, content, OnRecord(findings))
  BY DEF TypeOK, IInv, RecordsInv
<1>3. /\ HashesArePast(recs', content)
      /\ CompleteIsBacked(recs', content, OnRecord(findings))
      /\ recs'[t] # NoRecord
      /\ \A s \in Targets : s # t => recs'[s] = recs[s]
  <2>1. CASE skip
    BY <1>1, <1>2, <2>1 DEF ShouldSkip
  <2>2. CASE ~skip
    BY <1>1, <1>2, <2>2, RegisterKeeps
  <2>. QED
    BY <2>1, <2>2
<1>4. RecordsInv'
  BY <1>1, <1>3 DEF IInv, RecordsInv, TailsAreLines
<1>5. /\ \A u \in Supports : stage[u] \in {"none", "queued"}
      /\ \A u \in Supports : u[2] \in todo => stage[u] = "none"
      /\ \A u \in Supports : u[1] \in request.surfaces
      /\ left = {}
  BY <1>1 DEF IInv, CallInv, StagesMatchPc, RequestIsFull
<1>6. \A u \in Supports :
         /\ stage'[u] \in {"none", "queued"}
         /\ u[2] # t => stage'[u] = stage[u]
         /\ (u[2] = t /\ ~skip) => stage'[u] = "queued"
         /\ (u[2] = t /\ skip) => stage'[u] = stage[u]
  BY <1>1, <1>2, <1>5 DEF UnitsOf
<1>7. StagesMatchPc'
  BY <1>1, <1>5, <1>6 DEF StagesMatchPc
<1>8. EveryUnitQueued'
  <2> SUFFICES ASSUME NEW u \in Supports, Planned(u[2])'
               PROVE  stage'[u] # "none"
    BY DEF EveryUnitQueued
  <2>1. CASE u[2] = t
    <3>1. ~skip
      BY <1>1, <2>1 DEF Planned
    <3>. QED
      BY <1>6, <2>1, <3>1
  <2>2. CASE u[2] # t
    <3>1. Planned(u[2])
      BY <1>1, <2>2 DEF Planned
    <3>. QED
      BY <1>1, <1>6, <2>2, <3>1 DEF IInv, CallInv, EveryUnitQueued
  <2>. QED
    BY <2>1, <2>2
<1>9. SkippedIsComplete'
  <2> SUFFICES ASSUME NEW s \in skipped'
               PROVE  recs'[s] # NoRecord /\ recs'[s].status = "complete" /\ s \notin todo'
    BY <1>1 DEF SkippedIsComplete
  <2>1. CASE s \in skipped
    <3>1. /\ recs[s] # NoRecord /\ recs[s].status = "complete" /\ s \notin todo
          /\ s \in Targets
      BY <1>1, <2>1 DEF IInv, CallInv, SkippedIsComplete, TypeOK
    <3>. QED
      BY <1>1, <1>3, <3>1
  <2>2. CASE s \notin skipped
    <3>1. skip /\ s = t
      BY <1>1, <2>2
    <3>. QED
      BY <1>1, <3>1 DEF ShouldSkip
  <2>. QED
    BY <2>1, <2>2
<1>10. RequestIsFull'
  BY <1>1, <1>5 DEF RequestIsFull
<1>11. UnitsInv'
  <2> SUFFICES ASSUME NEW u \in Supports
               PROVE  UnitInv(u)'
    BY DEF UnitsInv
  <2>1. stage'[u] # "none" => recs'[u[2]] # NoRecord
    <3>1. CASE u[2] = t
      BY <1>3, <3>1
    <3>2. CASE u[2] # t
      BY <1>1, <1>3, <1>6, <3>2, UnitType DEF IInv, CallInv, UnitsInv, UnitInv
    <3>. QED
      BY <3>1, <3>2
  <2>. QED
    BY <1>6, <2>1 DEF UnitInv
<1>. QED
  BY <1>4, <1>7, <1>8, <1>9, <1>10, <1>11 DEF IInv, CallInv

(* The futures are submitted: every target is planned.                     *)
LEMMA SubmitInv ==
    ASSUME TypeOK, IInv, Submit
    PROVE  IInv'
<1>1. /\ pc = "plan" /\ todo = {} /\ pc' = "collect"
      /\ UNCHANGED <<content, findings, errors, manifest, recs, request, known, todo,
                     skipped, stage, began, results, left>>
  BY DEF Submit, world, disk, plan, pool
<1>2. RecordsInv'
  BY <1>1, RecordsFrame DEF IInv
<1>3. (StagesMatchPc /\ RequestIsFull /\ EveryUnitQueued /\ SkippedIsComplete)'
  BY <1>1 DEF IInv, CallInv, StagesMatchPc, RequestIsFull, EveryUnitQueued, Planned,
              SkippedIsComplete
<1>4. UnitsInv'
  BY <1>1 DEF IInv, CallInv, UnitsInv, UnitInv, IsCurrent, Witnesses
<1>. QED
  BY <1>2, <1>3, <1>4 DEF IInv, CallInv

(* What the invariant says of a unit depends only on these.                *)
LEMMA UnitFrame ==
    ASSUME NEW u \in Supports, UnitInv(u),
           stage'[u] = stage[u], began'[u] = began[u], results'[u] = results[u],
           UNCHANGED <<content, findings, left>>, recs' = recs
    PROVE  UnitInv(u)'
BY DEF UnitInv, IsCurrent, Witnesses

(* A finished future is taken: its results become those still to journal.  *)
LEMMA TakeResultInv ==
    ASSUME TypeOK, IInv, NEW u \in Supports, TakeResult(u)
    PROVE  IInv'
<1>1. /\ pc = "collect" /\ pc' = "collect" /\ left = {} /\ left' = results[u]
      /\ stage[u] = "done" /\ stage' = [stage EXCEPT ![u] = "drained"]
      /\ UNCHANGED <<content, findings, errors, manifest, recs, request, known, todo,
                     skipped, began, results>>
  BY DEF TakeResult, world, disk, plan
<1>2. stage \in [Supports -> Stages]
  BY DEF TypeOK
<1>3. RecordsInv'
  BY <1>1, RecordsFrame DEF IInv
<1>4. (StagesMatchPc /\ RequestIsFull /\ EveryUnitQueued /\ SkippedIsComplete)'
  BY <1>1, <1>2 DEF IInv, CallInv, StagesMatchPc, RequestIsFull, EveryUnitQueued, Planned,
                    SkippedIsComplete
<1>5. UnitsInv'
  <2> SUFFICES ASSUME NEW w \in Supports
               PROVE  UnitInv(w)'
    BY DEF UnitsInv
  <2>1. UnitInv(w) /\ UnitInv(u)
    BY <1>1 DEF IInv, CallInv, UnitsInv
  <2>2. CASE w = u
    <3>1. stage'[u] = "drained"
      BY <1>1, <1>2
    <3>. QED
      BY <1>1, <2>1, <2>2, <3>1 DEF UnitInv, IsCurrent, Witnesses
  <2>3. CASE w # u
    <3>1. stage'[w] = stage[w]
      BY <1>1, <1>2, <2>3
    <3>. QED
      BY <1>1, <2>1, <3>1 DEF UnitInv, IsCurrent, Witnesses
  <2>. QED
    BY <2>2, <2>3
<1>. QED
  BY <1>3, <1>4, <1>5 DEF IInv, CallInv

(* An item is journalled and counted: it leaves the results still to       *)
(* journal for the file, and no record changes but in its counters.        *)
LEMMA RecordItemInv ==
    ASSUME TypeOK, IInv, NEW x \in left, RecordFinding(x) \/ RecordError(x)
    PROVE  IInv'
<1>1. /\ pc = "collect" /\ pc' = "collect" /\ left' = left \ {x}
      /\ recs' = CountItem(recs, x)
      /\ UNCHANGED <<content, manifest, request, known, todo, skipped, stage, began, results>>
  BY DEF RecordFinding, RecordError, world, plan, pool
<1>2. x \in Item /\ recs \in Records /\ findings \in JsonLines /\ errors \in JsonLines
  BY DEF TypeOK
<1>3. TailsAreLines
  BY DEF IInv, RecordsInv
<1>4. /\ TailsAreLines'
      /\ OnRecord(findings) \subseteq OnRecord(findings')
      /\ x.kind = "finding" => x \in OnRecord(findings')
  <2>1. CASE RecordFinding(x)
    BY <1>2, <1>3, <2>1, AppendIsOnRecord DEF RecordFinding, TailsAreLines
  <2>2. CASE RecordError(x)
    BY <1>2, <1>3, <2>2, AppendIsOnRecord DEF RecordError, TailsAreLines
  <2>. QED
    BY <2>1, <2>2
<1>5. \A s \in Targets :
        /\ recs'[s] = NoRecord <=> recs[s] = NoRecord
        /\ recs[s] # NoRecord =>
              /\ recs'[s].hash = recs[s].hash /\ recs'[s].status = recs[s].status
              /\ recs'[s].errors \in Nat /\ recs[s].errors \in Nat
              /\ recs'[s].errors >= recs[s].errors
              /\ (x.kind = "error" /\ x.target = s) => recs'[s].errors > 0
  BY <1>1, <1>2, CountItemKeeps
<1>6. RecordsInv'
  <2>1. HashesArePast(recs', content) /\ CompleteIsBacked(recs', content, OnRecord(findings'))
    BY <1>4, <1>5, RecordsKept DEF IInv, RecordsInv
  <2>2. CompleteIsBacked(manifest.targets, content, OnRecord(findings'))
    BY <1>4, RecordsKept DEF IInv, RecordsInv
  <2>. QED
    BY <1>1, <1>4, <2>1, <2>2 DEF IInv, RecordsInv, TailsAreLines
<1>7. (StagesMatchPc /\ RequestIsFull /\ EveryUnitQueued)'
  BY <1>1 DEF IInv, CallInv, StagesMatchPc, RequestIsFull, EveryUnitQueued, Planned
<1>8. SkippedIsComplete'
  <2>1. skipped \subseteq Targets
    BY DEF TypeOK
  <2>. QED
    BY <1>1, <1>5, <2>1 DEF IInv, CallInv, SkippedIsComplete
<1>9. UnitsInv'
  <2> SUFFICES ASSUME NEW u \in Supports
               PROVE  UnitInv(u)'
    BY DEF UnitsInv
  <2>1. UnitInv(u) /\ u[2] \in Targets
    BY <1>1, UnitType DEF IInv, CallInv, UnitsInv
  <2>2. stage[u] # "none" => recs[u[2]] # NoRecord /\ recs'[u[2]] # NoRecord
    BY <1>5, <2>1 DEF UnitInv
  <2>3. IsCurrent(recs'[u[2]], u[2], content) => IsCurrent(recs[u[2]], u[2], content)
    BY <1>5, <2>1 DEF IsCurrent
  <2>4. \A y \in Witnesses(u) : y.kind = "finding"
    BY DEF Witnesses, Found, Finding
  <2>5. Witnesses(u) \subseteq left \cup OnRecord(findings)
          => Witnesses(u) \subseteq left' \cup OnRecord(findings')
    BY <1>1, <1>4, <2>4
  <2>6. Failure(u[1], u[2]).kind = "error" /\ Failure(u[1], u[2]).target = u[2]
    BY DEF Failure
  <2>7. (recs[u[2]] # NoRecord /\ (recs[u[2]].errors > 0 \/ Failure(u[1], u[2]) \in left))
          => recs'[u[2]].errors > 0 \/ Failure(u[1], u[2]) \in left'
    <3> SUFFICES ASSUME recs[u[2]] # NoRecord,
                        recs[u[2]].errors > 0 \/ Failure(u[1], u[2]) \in left
                 PROVE  recs'[u[2]].errors > 0 \/ Failure(u[1], u[2]) \in left'
      OBVIOUS
    <3>1. CASE recs[u[2]].errors > 0
      BY <1>5, <2>1, <3>1
    <3>2. CASE Failure(u[1], u[2]) \in left
      BY <1>1, <1>5, <2>1, <2>6, <3>2
    <3>. QED
      BY <3>1, <3>2
  <2>8. Witnesses(u)' = Witnesses(u)
    BY <1>1 DEF Witnesses
  <2>. QED
    BY <1>1, <2>1, <2>2, <2>3, <2>5, <2>7, <2>8 DEF UnitInv
<1>. QED
  BY <1>6, <1>7, <1>8, <1>9 DEF IInv, CallInv

(* Closing the targets: a target left without an error is one whose units  *)
(* all came back whole and are all journalled, or one that was skipped.    *)
LEMMA CompleteInv ==
    ASSUME TypeOK, IInv, Complete
    PROVE  IInv'
<1>1. /\ pc = "collect" /\ pc' = "truncate" /\ left = {}
      /\ recs' = CompleteTargets(recs, known)
      /\ \A u \in Supports : stage[u] \in {"none", "drained"}
      /\ UNCHANGED <<content, findings, errors, manifest>>
  BY DEF Complete, Joined, world, disk
<1>2. \A t \in Targets :
        /\ recs'[t] = NoRecord <=> recs[t] = NoRecord
        /\ recs[t] # NoRecord =>
              /\ recs'[t].hash = recs[t].hash
              /\ (t \notin known) => recs'[t] = recs[t]
              /\ (t \in known /\ recs'[t].status = "complete") => recs[t].errors = 0
  <2> SUFFICES ASSUME NEW t \in Targets
               PROVE  /\ recs'[t] = NoRecord <=> recs[t] = NoRecord
                      /\ recs[t] # NoRecord =>
                            /\ recs'[t].hash = recs[t].hash
                            /\ (t \notin known) => recs'[t] = recs[t]
                            /\ (t \in known /\ recs'[t].status = "complete")
                                  => recs[t].errors = 0
    OBVIOUS
  <2>1. CASE ~(t \in known /\ recs[t] # NoRecord)
    <3>1. recs'[t] = recs[t]
      BY <1>1, <2>1 DEF CompleteTargets
    <3>. QED
      BY <2>1, <3>1
  <2>2. CASE t \in known /\ recs[t] # NoRecord
    <3>1. recs[t] \in TargetRecord
      BY <2>2 DEF TypeOK, Records
    <3>2. recs'[t] = [recs[t] EXCEPT !.status = IF recs[t].errors = 0 THEN "complete" ELSE "error"]
      BY <1>1, <2>2 DEF CompleteTargets
    <3>3. recs'[t] \in TargetRecord
      BY <3>1, <3>2 DEF TargetRecord
    <3>. QED
      BY <2>2, <3>1, <3>2, <3>3, NoRecordIsNoRecord DEF TargetRecord
  <2>. QED
    BY <2>1, <2>2
<1>3. HashesArePast(recs', content)
  BY <1>2 DEF HashesArePast, IInv, RecordsInv
<1>4. CompleteIsBacked(recs', content, OnRecord(findings))
  <2> SUFFICES ASSUME NEW u \in Supports,
                      IsCurrent(recs'[u[2]], u[2], content), recs'[u[2]].status = "complete"
               PROVE  Witnesses(u) \subseteq OnRecord(findings)
    BY DEF CompleteIsBacked, Witnesses
  <2>1. u[2] \in Targets /\ recs[u[2]] # NoRecord /\ IsCurrent(recs[u[2]], u[2], content)
    BY <1>2, UnitType DEF IsCurrent
  <2>2. recs[u[2]].status = "complete" => Witnesses(u) \subseteq OnRecord(findings)
    BY <2>1 DEF IInv, RecordsInv, CompleteIsBacked, Witnesses
  <2>3. CASE u[2] \notin known
    BY <1>2, <2>1, <2>2, <2>3
  <2>4. CASE u[2] \in skipped
    BY <1>1, <2>2, <2>4 DEF IInv, CallInv, SkippedIsComplete
  <2>5. CASE u[2] \in known /\ u[2] \notin skipped
    <3>1. stage[u] = "drained"
      BY <1>1, <2>5 DEF IInv, CallInv, EveryUnitQueued, Planned
    <3>2. recs[u[2]].errors = 0
      BY <1>2, <2>1, <2>5
    <3>. QED
      BY <1>1, <2>1, <3>1, <3>2 DEF IInv, CallInv, UnitsInv, UnitInv
  <2>. QED
    BY <2>3, <2>4, <2>5
<1>5. RecordsInv'
  BY <1>1, <1>3, <1>4 DEF IInv, RecordsInv, TailsAreLines
<1>6. CallInv'
  BY <1>1 DEF CallInv, StagesMatchPc, EveryUnitQueued, SkippedIsComplete, RequestIsFull, UnitsInv
<1>. QED
  BY <1>5, <1>6 DEF IInv

(* Saving the manifest puts on disk what holds in memory.                  *)
LEMMA SaveInv ==
    ASSUME IInv, TruncateManifest \/ WriteManifest
    PROVE  IInv'
<1>1. /\ pc' \in {"write", "returned"}
      /\ manifest'.targets \in {NoRecords, recs}
      /\ UNCHANGED <<content, findings, errors, recs>>
  BY DEF TruncateManifest, WriteManifest, TornManifest, SavedManifest, world
<1>2. /\ HashesArePast(manifest'.targets, content)
      /\ CompleteIsBacked(manifest'.targets, content, OnRecord(findings))
  BY <1>1, NoRecordsBacked DEF IInv, RecordsInv
<1>3. RecordsInv'
  BY <1>1, <1>2 DEF IInv, RecordsInv, TailsAreLines
<1>4. CallInv'
  BY <1>1 DEF CallInv, StagesMatchPc, EveryUnitQueued, SkippedIsComplete, RequestIsFull, UnitsInv
<1>. QED
  BY <1>3, <1>4 DEF IInv

(* A worker takes a unit: from here on an edit of its target shows.        *)
LEMMA StartUnitInv ==
    ASSUME TypeOK, IInv, NEW u \in Supports, StartUnit(u)
    PROVE  IInv'
<1>1. /\ pc = "collect" /\ pc' = "collect" /\ stage[u] = "queued"
      /\ stage' = [stage EXCEPT ![u] = "running"]
      /\ began' = [began EXCEPT ![u] = content[u[2]]]
      /\ UNCHANGED <<content, findings, errors, manifest, recs, request, known, todo,
                     skipped, results, left>>
  BY DEF StartUnit, world, disk, plan
<1>2. stage \in [Supports -> Stages] /\ began \in [Supports -> Versions]
  BY DEF TypeOK
<1>3. RecordsInv'
  BY <1>1, RecordsFrame DEF IInv
<1>4. (StagesMatchPc /\ RequestIsFull /\ EveryUnitQueued /\ SkippedIsComplete)'
  BY <1>1, <1>2 DEF IInv, CallInv, StagesMatchPc, RequestIsFull, EveryUnitQueued, Planned,
                    SkippedIsComplete
<1>5. UnitsInv'
  <2> SUFFICES ASSUME NEW w \in Supports
               PROVE  UnitInv(w)'
    BY DEF UnitsInv
  <2>1. UnitInv(w) /\ UnitInv(u)
    BY <1>1 DEF IInv, CallInv, UnitsInv
  <2>2. CASE w = u
    <3>1. stage'[u] = "running" /\ began'[u] = content[u[2]]
      BY <1>1, <1>2
    <3>. QED
      BY <1>1, <2>1, <2>2, <3>1 DEF UnitInv
  <2>3. CASE w # u
    <3>1. stage'[w] = stage[w] /\ began'[w] = began[w]
      BY <1>1, <1>2, <2>3
    <3>. QED
      BY <1>1, <2>1, <3>1, UnitFrame
  <2>. QED
    BY <2>2, <2>3
<1>. QED
  BY <1>3, <1>4, <1>5 DEF IInv, CallInv

(* A unit comes back: with everything its target holds when the target is  *)
(* still what it was at the start, or with a failure among its results.    *)
LEMMA CollectInv ==
    ASSUME TypeOK, IInv, NEW u \in Supports, CollectUnit(u) \/ CollectFails(u)
    PROVE  IInv'
<1>1. /\ pc' = pc /\ stage[u] = "running" /\ stage' = [stage EXCEPT ![u] = "done"]
      /\ UNCHANGED <<content, findings, errors, manifest, recs, request, known, todo,
                     skipped, began, left>>
  BY DEF CollectUnit, CollectFails, world, disk, plan
<1>2. stage \in [Supports -> Stages] /\ results \in [Supports -> SUBSET Item]
  BY DEF TypeOK
<1>3. PICK S \in SUBSET Mixed(u) :
         \/ /\ began[u] = content[u[2]] => S = Mixed(u)
            /\ results' = [results EXCEPT ![u] = Found(u, S)]
         \/ results' = [results EXCEPT ![u] = Found(u, S) \cup {Failure(u[1], u[2])}]
  BY DEF CollectUnit, CollectFails, Caught
<1>4. RecordsInv'
  BY <1>1, RecordsFrame DEF IInv
<1>5. (StagesMatchPc /\ RequestIsFull /\ EveryUnitQueued /\ SkippedIsComplete)'
  BY <1>1, <1>2 DEF IInv, CallInv, StagesMatchPc, RequestIsFull, EveryUnitQueued, Planned,
                    SkippedIsComplete
<1>6. (began[u] = content[u[2]] /\ Failure(u[1], u[2]) \notin results'[u])
         => Witnesses(u) \subseteq results'[u]
  <2> SUFFICES ASSUME began[u] = content[u[2]], Failure(u[1], u[2]) \notin results'[u]
               PROVE  Witnesses(u) \subseteq results'[u]
    OBVIOUS
  <2>1. results'[u] = Found(u, Mixed(u))
    BY <1>2, <1>3
  <2>2. began[u] .. content[u[2]] = {content[u[2]]}
    <3>1. content[u[2]] \in Int
      BY UnitType DEF TypeOK, Versions
    <3>. QED
      BY <3>1
  <2>3. Mixed(u) = Yields[u][content[u[2]]]
    BY <2>2 DEF Mixed
  <2>. QED
    BY <2>1, <2>3 DEF Witnesses
<1>7. UnitsInv'
  <2> SUFFICES ASSUME pc \in {"plan", "collect"}, NEW w \in Supports
               PROVE  UnitInv(w)'
    BY <1>1 DEF UnitsInv
  <2>1. UnitInv(w) /\ UnitInv(u)
    BY DEF IInv, CallInv, UnitsInv
  <2>2. CASE w = u
    <3>1. stage'[u] = "done"
      BY <1>1, <1>2
    <3>2. IsCurrent(recs[u[2]], u[2], content) => began[u] = content[u[2]]
      BY <1>1, <2>1 DEF UnitInv
    <3>3. recs[u[2]] # NoRecord
      BY <1>1, <2>1 DEF UnitInv
    <3>4. Witnesses(u)' = Witnesses(u)
      BY <1>1 DEF Witnesses
    <3>. QED
      BY <1>1, <1>6, <2>2, <3>1, <3>2, <3>3, <3>4 DEF UnitInv
  <2>3. CASE w # u
    <3>1. stage'[w] = stage[w] /\ results'[w] = results[w]
      BY <1>1, <1>2, <1>3, <2>3
    <3>. QED
      BY <1>1, <2>1, <3>1, UnitFrame
  <2>. QED
    BY <2>2, <2>3
<1>. QED
  BY <1>4, <1>5, <1>7 DEF IInv, CallInv

LEMMA GoneAsItWas ==
    ASSUME RecordsInv, Gone, UNCHANGED <<content, findings, errors, manifest>>
    PROVE  IInv'
<1>1. OnRecord(findings') = OnRecord(findings) /\ TailsAreLines'
  BY DEF RecordsInv, TailsAreLines
<1>. QED
  BY <1>1, GoneInv

(* A kill inside an append, wherever it cuts.                              *)
LEMMA CutInv ==
    ASSUME TypeOK, IInv, NEW cut \in Cuts,
           NEW x \in left \cup {Failure(Scanner, t) : t \in todo}, CrashInAppend(x, cut)
    PROVE  IInv'
<1>1. /\ x \in Item /\ findings \in JsonLines /\ errors \in JsonLines /\ TailsAreLines
  BY ItemsAreItems DEF TypeOK, IInv, RecordsInv
<1>2. /\ Gone /\ UNCHANGED <<content, manifest>>
      /\ \/ findings' = TearLine(findings, x, cut) /\ errors' = errors
         \/ errors' = TearLine(errors, x, cut) /\ findings' = findings
  BY DEF CrashInAppend, world
<1>3. TailsAreLines' /\ OnRecord(findings) \subseteq OnRecord(findings')
  BY <1>1, <1>2, TearIsOnRecord DEF TailsAreLines
<1>. QED
  BY <1>2, <1>3, GoneInv DEF IInv

(* Every step preserves the invariant.                                     *)
LEMMA IInvStep ==
    ASSUME DistinctDigests, AllSurfaces, TypeOK, IInv, [Next]_vars
    PROVE  IInv'
<1>1. ASSUME NEW t \in Targets, Edit(t)
      PROVE  IInv'
  BY <1>1, EditInv
<1>2. ASSUME NEW q \in Requests, Begin(q) \/ OpenFails(q)
      PROVE  IInv'
  <2>1. CASE Begin(q)
    BY <2>1, BeginInv
  <2>2. CASE OpenFails(q)
    BY <2>2, GoneAsItWas DEF OpenFails, world, disk, IInv
  <2>. QED
    BY <1>2, <2>1, <2>2
<1>3. CASE MainStep
  <2>1. ASSUME NEW t \in Targets, RecordUnknown(t) \/ PlanTarget(t)
        PROVE  IInv'
    BY <2>1, RecordUnknownInv, PlanTargetInv
  <2>2. ASSUME NEW u \in Supports, TakeResult(u)
        PROVE  IInv'
    BY <2>2, TakeResultInv
  <2>3. ASSUME NEW x \in left, RecordFinding(x) \/ RecordError(x)
        PROVE  IInv'
    BY <2>3, RecordItemInv
  <2>. QED
    BY <1>3, <2>1, <2>2, <2>3, StartPlanInv, SubmitInv, CompleteInv, SaveInv DEF MainStep
<1>4. ASSUME NEW u \in Supports, WorkerStep(u)
      PROVE  IInv'
  BY <1>4, StartUnitInv, CollectInv DEF WorkerStep
<1>5. CASE Die
  <2>1. CASE Crash
    BY <2>1, GoneAsItWas DEF Crash, world, disk, IInv
  <2>2. ASSUME NEW t \in Targets, HashFails(t)
        PROVE  IInv'
    BY <2>2, GoneAsItWas DEF HashFails, world, disk, IInv
  <2>3. ASSUME NEW cut \in Cuts, NEW x \in left \cup {Failure(Scanner, t) : t \in todo},
               CrashInAppend(x, cut)
        PROVE  IInv'
    BY <2>3, CutInv
  <2>. QED
    BY <1>5, <2>1, <2>2, <2>3 DEF Die
<1>6. CASE UNCHANGED vars
  <2>1. RecordsInv'
    BY <1>6, RecordsFrame DEF vars, IInv
  <2>2. CallInv'
    BY <1>6 DEF vars, IInv, CallInv, StagesMatchPc, EveryUnitQueued, Planned,
                SkippedIsComplete, RequestIsFull, UnitsInv, UnitInv, IsCurrent, Witnesses
  <2>. QED
    BY <2>1, <2>2 DEF IInv
<1>. QED
  BY <1>1, <1>2, <1>3, <1>4, <1>5, <1>6 DEF Next, Finished

(* The invariant holds in every state of every such history.               *)
THEOREM Inductive ==
    ASSUME DistinctDigests, AllSurfaces
    PROVE  Spec => []IInv
<1>1. TypeOK /\ TypeOK' /\ IInv /\ [Next]_vars => IInv'
  BY IInvStep
<1>. QED
  BY <1>1, IInvInit, TypeCorrect, PTL DEF Spec

LEMMA BackedIsSafe == ASSUME IInv, Unspoilt(findings) PROVE SkipIsSafe
<1>1. OnRecord(findings) = Decoded(findings)
  BY DEF OnRecord
<1>. QED
  BY <1>1 DEF IInv, RecordsInv, CompleteIsBacked, IsCurrent, SkipIsSafe, WouldSkip, ShouldSkip,
              Witnesses

(* What a kill inside an append costs shows: whatever was edited, killed,   *)
(* retried or interleaved, a target that a resume would leave out holds     *)
(* nothing the journal lacks, or findings.jsonl has an unreadable line;     *)
(* provided fingerprints tell contents apart and every call asked for every *)
(* surface.                                                                *)
THEOREM LossAlwaysShows ==
    ASSUME DistinctDigests, AllSurfaces
    PROVE  Spec => []LossShows
<1>1. IInv => LossShows
  BY BackedIsSafe DEF LossShows
<1>. QED
  BY <1>1, Inductive, PTL

(* No step takes a readable record out of the journal, and none leaves a    *)
(* file unterminated, as long as no append is cut.                         *)
LEMMA JournalStep ==
    ASSUME WholeLines, TypeOK, FilesClosed, [Next]_vars
    PROVE  /\ FilesClosed'
           /\ Decoded(findings) \subseteq Decoded(findings')
           /\ Decoded(errors) \subseteq Decoded(errors')
           /\ Unspoilt(findings) => Unspoilt(findings')
<1> DEFINE A == /\ ~findings'.open /\ ~errors'.open
                /\ Unspoilt(findings) => Unspoilt(findings')
                /\ Decoded(findings) \subseteq Decoded(findings')
                /\ Decoded(errors) \subseteq Decoded(errors')
<1> SUFFICES A
  BY DEF FilesClosed
<1>1. findings \in JsonLines /\ errors \in JsonLines /\ ~findings.open /\ ~errors.open
  BY DEF TypeOK, FilesClosed
<1>2. ASSUME NEW x \in Item,
             \/ findings' = AppendLine(findings, x) /\ errors' = errors
             \/ errors' = AppendLine(errors, x) /\ findings' = findings
      PROVE  A
  <2>1. Unspoilt(findings) => Unspoilt(AppendLine(findings, x))
    BY <1>1, OneMoreLine, GarbledIsNoItem DEF AppendLine, Unspoilt
  <2>. QED
    BY <1>1, <1>2, <2>1, AppendLineDecodes
<1>3. CASE UNCHANGED <<findings, errors>>
  BY <1>1, <1>3
<1>4. ASSUME NEW t \in Targets, RecordUnknown(t)
      PROVE  A
  BY <1>2, <1>4, ItemsAreItems DEF RecordUnknown
<1>5. ASSUME NEW x \in left, RecordFinding(x) \/ RecordError(x)
      PROVE  A
  <2>1. x \in Item
    BY DEF TypeOK
  <2>. QED
    BY <1>2, <1>5, <2>1 DEF RecordFinding, RecordError
<1>6. ASSUME NEW t \in Targets, PlanTarget(t)
      PROVE  A
  BY <1>3, <1>6 DEF PlanTarget, disk
<1>7. CASE StartPlan \/ Submit \/ Complete \/ TruncateManifest \/ WriteManifest
  BY <1>3, <1>7 DEF StartPlan, Submit, Complete, TruncateManifest, WriteManifest, disk
<1>8. ASSUME NEW u \in Supports, TakeResult(u) \/ WorkerStep(u)
      PROVE  A
  BY <1>3, <1>8 DEF TakeResult, WorkerStep, StartUnit, CollectUnit, CollectFails, disk
<1>9. ASSUME NEW q \in Requests, Begin(q) \/ OpenFails(q)
      PROVE  A
  BY <1>3, <1>9 DEF Begin, OpenFails, disk
<1>10. ASSUME NEW t \in Targets, Edit(t) \/ HashFails(t)
       PROVE  A
  BY <1>3, <1>10 DEF Edit, HashFails, disk
<1>11. CASE Crash \/ UNCHANGED vars
  BY <1>3, <1>11 DEF Crash, disk, vars
<1>. QED
  BY <1>3, <1>4, <1>5, <1>6, <1>7, <1>8, <1>9, <1>10, <1>11
  DEF Next, MainStep, Die, WholeLines, Finished

(* Nothing is lost, then, if no append is ever cut short.                  *)
LEMMA JournalStaysWhole == ASSUME WholeLines PROVE Spec => []WholeInv
<1>1. Init => WholeInv
  BY EmptyFileDecodes DEF Init, WholeInv, FilesClosed, Unspoilt, EmptyFile
<1>2. TypeOK /\ WholeInv /\ [Next]_vars => WholeInv'
  BY JournalStep DEF WholeInv
<1>. QED
  BY <1>1, <1>2, TypeCorrect, PTL DEF Spec

(* Without cut appends the certificates need no such reservation.          *)
THEOREM SkipIsSafeHolds ==
    ASSUME WholeLines, DistinctDigests, AllSurfaces
    PROVE  Spec => []SkipIsSafe
<1>1. IInv /\ WholeInv => SkipIsSafe
  BY BackedIsSafe DEF WholeInv
<1>. QED
  BY <1>1, Inductive, JournalStaysWhole, PTL
----------------------------------------------------------------------------
(* Scan implements ResumeContract.                                         *)

(* While the world stays as it is, a target is certified as long as the    *)
(* manifest says so.                                                       *)
LEMMA CertifiedFrame ==
    ASSUME UNCHANGED <<content, manifest>>
    PROVE  {t \in Targets : WouldSkip(t)}' = {t \in Targets : WouldSkip(t)}
BY DEF WouldSkip, ShouldSkip

(* An edit takes the certificate of its target, whose new fingerprint is   *)
(* on no record, and no other one.                                         *)
LEMMA EditIsChange ==
    ASSUME DistinctDigests, TypeOK, IInv, NEW t \in Targets, Edit(t)
    PROVE  Contract!Change(t, content[t] + 1)
<1>1. /\ content \in [Targets -> Versions] /\ content[t] < MaxVersion
      /\ content' = [content EXCEPT ![t] = content[t] + 1]
      /\ findings' = findings /\ manifest' = manifest
  BY DEF Edit, TypeOK, disk
<1>2. /\ ~IsCurrent(manifest.targets[t], t, content')
      /\ \A s \in Targets : s # t => content'[s] = content[s]
  BY <1>1, EditOutdates DEF IInv, RecordsInv
<1>3. ~WouldSkip(t)'
  BY <1>1, <1>2 DEF WouldSkip, ShouldSkip, IsCurrent
<1>4. ASSUME NEW s \in Targets, s # t
      PROVE  WouldSkip(s)' <=> WouldSkip(s)
  BY <1>1, <1>2, <1>4 DEF WouldSkip, ShouldSkip
<1>5. {s \in Targets : WouldSkip(s)}' = {s \in Targets : WouldSkip(s)} \ {t}
  BY <1>3, <1>4
<1>. QED
  BY <1>1, <1>5 DEF Contract!Change

(* A manifest that is written certifies what the journal holds.            *)
LEMMA ManifestIsCertify ==
    ASSUME TypeOK, WholeInv, IInv', UNCHANGED <<content, findings>>
    PROVE  Contract!Certify({t \in Targets : WouldSkip(t)}')
<1>1. ASSUME NEW t \in Targets, WouldSkip(t)'
      PROVE  NeededFor[t][content[t]] \subseteq Decoded(findings)
  <2>1. content[t] \in Versions
    BY DEF TypeOK
  <2>2. NeededFor[t][content[t]]
          = UNION {Found(u, Yields[u][content[t]]) : u \in {w \in Supports : w[2] = t}}
    BY <2>1 DEF NeededFor
  <2>3. ASSUME NEW u \in Supports, u[2] = t
        PROVE  Found(u, Yields[u][content[t]]) \subseteq Decoded(findings)
    BY <1>1, <2>3 DEF WholeInv, OnRecord, IInv, RecordsInv, CompleteIsBacked, IsCurrent,
                      WouldSkip, ShouldSkip
  <2>. QED
    BY <2>2, <2>3
<1>. QED
  BY <1>1 DEF Contract!Certify

(* Every step of a scan is a step of the contract, or none.                *)
LEMMA ContractStep ==
    ASSUME WholeLines, WholeInv, DistinctDigests, TypeOK, IInv, IInv', [Next]_vars
    PROVE  [Contract!ContractNext]_(Contract!contractVars)
<1> DEFINE C == [Contract!ContractNext]_(Contract!contractVars)
<1>1. CASE UNCHANGED <<content, findings, manifest>>
  BY <1>1, CertifiedFrame DEF Contract!contractVars
<1>2. ASSUME NEW t \in Targets, Edit(t)
      PROVE  C
  <2>1. content[t] + 1 \in Versions
    BY <1>2, ScanConstants DEF Edit, TypeOK, Versions
  <2>. QED
    BY <1>2, <2>1, EditIsChange DEF Contract!ContractNext
<1>3. CASE TruncateManifest \/ WriteManifest
  <2>1. Contract!Certify({t \in Targets : WouldSkip(t)}')
    BY <1>3, ManifestIsCertify DEF TruncateManifest, WriteManifest, world
  <2>. QED
    BY <2>1 DEF Contract!ContractNext
<1>4. ASSUME NEW x \in left, RecordFinding(x)
      PROVE  C
  <2>1. x \in Item /\ findings \in JsonLines /\ ~findings.open
    BY DEF TypeOK, WholeInv, FilesClosed
  <2>2. Decoded(findings') = Decoded(findings) \cup {x}
    BY <1>4, <2>1, AppendLineDecodes DEF RecordFinding
  <2>3. UNCHANGED <<content, manifest>>
    BY <1>4 DEF RecordFinding, world
  <2>4. Contract!Witness(x)
    BY <2>2, <2>3, CertifiedFrame DEF Contract!Witness
  <2>. QED
    BY <2>1, <2>4 DEF Contract!ContractNext
<1>5. ASSUME NEW x \in left, RecordError(x)
      PROVE  C
  BY <1>1, <1>5 DEF RecordError, world
<1>6. ASSUME NEW t \in Targets, RecordUnknown(t) \/ PlanTarget(t) \/ HashFails(t)
      PROVE  C
  BY <1>1, <1>6 DEF RecordUnknown, PlanTarget, HashFails, world, disk
<1>7. CASE StartPlan \/ Submit \/ Complete \/ Crash \/ UNCHANGED vars
  BY <1>1, <1>7 DEF StartPlan, Submit, Complete, Crash, vars, world, disk
<1>8. ASSUME NEW u \in Supports, TakeResult(u) \/ WorkerStep(u)
      PROVE  C
  BY <1>1, <1>8 DEF TakeResult, WorkerStep, StartUnit, CollectUnit, CollectFails, world, disk
<1>9. ASSUME NEW q \in Requests, Begin(q) \/ OpenFails(q)
      PROVE  C
  BY <1>1, <1>9 DEF Begin, OpenFails, world, disk
<1>. QED
  BY <1>2, <1>3, <1>4, <1>5, <1>6, <1>7, <1>8, <1>9
  DEF Next, MainStep, Die, WholeLines, Finished

(* A run directory keeps its contract: evidence is only ever added, and a  *)
(* target is certified only while all its present content calls for is in  *)
(* evidence, through every interleaving, edit, kill between two steps and  *)
(* retry, under the assumptions of SkipIsSafeHolds.                        *)
THEOREM ContractKept ==
    ASSUME WholeLines, DistinctDigests, AllSurfaces
    PROVE  Spec => KeepsContract
<1>1. Init => Contract!ContractInit
  <2> SUFFICES ASSUME Init
               PROVE  Contract!ContractInit
    OBVIOUS
  <2>1. content \in [Targets -> Versions]
    BY ScanConstants DEF Init, Versions
  <2>2. Decoded(findings) = {}
    BY EmptyFileDecodes DEF Init
  <2>3. \A t \in Targets : ~WouldSkip(t)
    BY DEF Init, WouldSkip, AbsentManifest
  <2>. QED
    BY <2>1, <2>2, <2>3 DEF Contract!ContractInit
<1>2. TypeOK /\ WholeInv /\ IInv /\ IInv' /\ [Next]_vars
        => [Contract!ContractNext]_(Contract!contractVars)
  BY ContractStep
<1>. QED
  BY <1>1, <1>2, TypeCorrect, Inductive, JournalStaysWhole, PTL
  DEF Spec, KeepsContract, Contract!ContractSpec
----------------------------------------------------------------------------
(* Why a call ends.                                                         *)

(* In every state of a call a step of the main thread or of a worker is     *)
(* open: as_completed() and the pool never wait for each other.             *)
THEOREM NoOneIsEverStuck == Spec => []NoOneIsStuck
<1>1. TypeOK => NoOneIsStuck
  <2> SUFFICES ASSUME TypeOK, pc \notin Down, ~SomeoneCanMove
               PROVE  FALSE
    BY DEF NoOneIsStuck
  <2>1. left = {}
    <3>1. left \subseteq Item /\ \A x \in Item : x.kind \in {"finding", "error"}
      BY DEF TypeOK, Item
    <3>2. \A x \in left : x.kind \notin {"finding", "error"}
      BY DEF SomeoneCanMove
    <3>. QED
      BY <3>1, <3>2
  <2>2. pc = "collect"
    <3>1. pc \notin {"unknown", "plan", "truncate", "write"}
      BY DEF SomeoneCanMove
    <3>. QED
      BY <3>1 DEF TypeOK, Down
  <2>3. \A u \in Supports : stage[u] \in {"none", "queued", "drained"}
    <3>1. stage \in [Supports -> Stages]
      BY DEF TypeOK
    <3>2. \A u \in Supports : stage[u] # "done" /\ stage[u] # "running"
      BY <2>1 DEF SomeoneCanMove
    <3>. QED
      BY <3>1, <3>2 DEF Stages
  <2>4. PICK u \in Supports : stage[u] = "queued"
    BY <2>1, <2>3 DEF SomeoneCanMove, Joined
  <2>5. {w \in Supports : stage[w] = "running"} = {}
    BY <2>3
  <2>6. Cardinality({w \in Supports : stage[w] = "running"}) < Workers
    <3>1. Cardinality({}) = 0 /\ 0 < Workers
      BY FS_EmptySet, ScanConstants
    <3>. QED
      BY <2>5, <3>1
  <2>. QED
    BY <2>4, <2>6 DEF SomeoneCanMove
<1>. QED
  BY <1>1, TypeCorrect, PTL

(* A future that ages, and the others left alone, is a step forward. *)
LEMMA AgingAdvances ==
    ASSUME TypeOK, NEW u \in Supports, NEW s \in Stages,
           Age[stage[u]] < Age[s], stage' = [stage EXCEPT ![u] = s],
           pc' = pc, todo' = todo
    PROVE  Advances
<1>1. stage \in [Supports -> Stages]
  BY DEF TypeOK
<1>2. \A a \in Stages : Age[a] \in Nat
  BY DEF Age, Stages
<1>3. stage'[u] = s /\ \A w \in Supports : w # u => stage'[w] = stage[w]
  BY <1>1
<1>4. stage[u] \in Stages /\ \A w \in Supports : Age[stage[w]] \in Nat
  BY <1>1, <1>2
<1>5. stage' # stage
  BY <1>2, <1>3, <1>4
<1>6. \A w \in Supports : Age[stage[w]] <= Age[stage'[w]]
  BY <1>2, <1>3, <1>4
<1>. QED
  BY <1>5, <1>6 DEF Advances

(* No step of a call undoes one: the main thread and the workers only ever  *)
(* come closer to the end, and the world moves nothing but itself.          *)
THEOREM CallsAdvance == Spec => CallAdvances
<1>1. ASSUME TypeOK, MainStep
      PROVE  Advances
  <2>1. ASSUME NEW t \in Targets, RecordUnknown(t) \/ PlanTarget(t)
        PROVE  Advances
    <3>1. pc' = pc /\ t \in todo /\ todo' = todo \ {t}
      BY <2>1 DEF RecordUnknown, PlanTarget
    <3>. QED
      BY <3>1 DEF Advances, Shrinks
  <2>2. CASE StartPlan \/ Submit \/ Complete \/ TruncateManifest \/ WriteManifest
    <3>1. \/ pc = "unknown" /\ pc' = "plan"
          \/ pc = "plan" /\ pc' = "collect"
          \/ pc = "collect" /\ pc' = "truncate"
          \/ pc = "truncate" /\ pc' = "write"
          \/ pc = "write" /\ pc' = "returned"
      BY <2>2 DEF StartPlan, Submit, Complete, TruncateManifest, WriteManifest
    <3>2. pc \in DOMAIN Phase /\ pc' \in DOMAIN Phase /\ Phase[pc] < Phase[pc']
      BY <3>1 DEF Phase
    <3>. QED
      BY <3>2 DEF Advances
  <2>3. ASSUME NEW u \in Supports, TakeResult(u)
        PROVE  Advances
    <3>1. Age["done"] < Age["drained"] /\ "drained" \in Stages
      BY DEF Age, Stages
    <3>2. /\ stage[u] = "done" /\ stage' = [stage EXCEPT ![u] = "drained"]
          /\ pc' = pc /\ todo' = todo
      BY <2>3 DEF TakeResult
    <3>. QED
      BY <1>1, <3>1, <3>2, AgingAdvances
  <2>4. ASSUME NEW x \in left, RecordFinding(x) \/ RecordError(x)
        PROVE  Advances
    <3>1. pc' = pc /\ todo' = todo /\ stage' = stage /\ left' = left \ {x}
      BY <2>4 DEF RecordFinding, RecordError, plan, pool
    <3>. QED
      BY <3>1 DEF Advances, Shrinks
  <2>. QED
    BY <1>1, <2>1, <2>2, <2>3, <2>4 DEF MainStep
<1>2. ASSUME TypeOK, NEW u \in Supports, WorkerStep(u)
      PROVE  Advances
  <2>1. PICK s \in {"running", "done"} :
           /\ stage[u] = (IF s = "running" THEN "queued" ELSE "running")
           /\ stage' = [stage EXCEPT ![u] = s]
           /\ pc' = pc /\ todo' = todo
    BY <1>2 DEF WorkerStep, StartUnit, CollectUnit, CollectFails
  <2>2. s \in Stages /\ Age[stage[u]] < Age[s]
    BY <2>1 DEF Age, Stages
  <2>. QED
    BY <1>2, <2>1, <2>2, AgingAdvances
<1>3. ASSUME TypeOK, [Next]_vars, pc \notin Down
      PROVE  \/ Advances
             \/ pc' = "idle"
             \/ UNCHANGED <<disk, pc, plan, recs, todo, pool, left, count>>
  <2>1. ASSUME NEW t \in Targets, Edit(t)
        PROVE  UNCHANGED <<disk, pc, plan, recs, todo, pool, left, count>>
    BY <2>1 DEF Edit
  <2>2. ASSUME NEW q \in Requests, Begin(q) \/ OpenFails(q)
        PROVE  FALSE
    BY <1>3, <2>2 DEF Begin, OpenFails
  <2>3. CASE Die
    BY <2>3 DEF Die, Crash, HashFails, CrashInAppend, Gone
  <2>4. CASE Finished \/ UNCHANGED vars
    BY <2>4 DEF Finished, vars, disk, plan, pool
  <2>. QED
    BY <1>1, <1>2, <1>3, <2>1, <2>2, <2>3, <2>4 DEF Next
<1>4. TypeOK /\ [Next]_vars =>
        [/\ MainStep \/ (\E u \in Supports : WorkerStep(u)) => Advances
         /\ pc \notin Down =>
               \/ Advances
               \/ pc' = "idle"
               \/ UNCHANGED <<disk, pc, plan, recs, todo, pool, left, count>>]_vars
  BY <1>1, <1>2, <1>3
<1>. QED
  BY <1>4, TypeCorrect, PTL DEF Spec, CallAdvances
=============================================================================
