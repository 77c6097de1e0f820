----------------------------- MODULE BookProofs -----------------------------
(* Theorems about the books of a scan: what it reports, keeps and loses.   *)
EXTENDS ScanProofs

----------------------------------------------------------------------------
(* An append costs nothing that was not lost already.                      *)
LEMMA AppendLoses ==
    ASSUME NEW f \in JsonLines, NEW x \in Item
    PROVE  Lost(AppendLine(f, x)) = Lost(f)
<1> DEFINE g == AppendLine(f, x)
<1>1. x # Garbled /\ Len(f.lines) \in Nat /\ DOMAIN f.lines = 1..Len(f.lines)
  BY GarbledIsNoItem, LinesOf
<1>2. CASE f.open
  <2>1. g.lines = Spoiled(f) /\ ~g.open
    BY <1>2 DEF AppendLine
  <2>. QED
    BY <1>2, <2>1, SpoiledLines DEF Lost
<1>3. CASE ~f.open
  <2>1. g.lines = Append(f.lines, x) /\ ~g.open
    BY <1>3 DEF AppendLine
  <2>. QED
    BY <1>1, <1>3, <2>1, OneMoreLine DEF Lost
<1>. QED
  BY <1>2, <1>3

(* A kill inside an append costs one line more at most.                    *)
LEMMA TearLoses ==
    ASSUME NEW f \in JsonLines, NEW x \in Item, NEW cut
    PROVE  Lost(TearLine(f, x, cut)) \subseteq Lost(f) \cup {Len(f.lines) + 1}
<1> DEFINE g == TearLine(f, x, cut)
<1> DEFINE y == IF cut = "whole" THEN x ELSE Garbled
<1>1. Len(f.lines) \in Nat /\ DOMAIN f.lines = 1..Len(f.lines) /\ y \in Item \cup {Garbled}
  BY LinesOf
<1>2. CASE f.open
  <2>1. g.lines = Spoiled(f) /\ g.open
    BY <1>2 DEF TearLine
  <2>. QED
    BY <1>2, <2>1, SpoiledLines DEF Lost
<1>3. CASE ~f.open
  <2>1. g.lines = Append(f.lines, y) /\ g.open
    BY <1>3 DEF TearLine
  <2> HIDE DEF y
  <2>. QED
    BY <1>1, <1>3, <2>1, OneMoreLine DEF Lost
<1>. QED
  BY <1>2, <1>3

LEMMA LostIsFinite ==
    ASSUME NEW f \in JsonLines
    PROVE  IsFiniteSet(Lost(f)) /\ Cardinality(Lost(f)) \in Nat
<1>1. IsFiniteSet(Lost(f))
  BY LinesOf, FS_Subset DEF Lost
<1>. QED
  BY <1>1, FS_CardinalityType

LEMMA TearCosts ==
    ASSUME NEW f \in JsonLines, NEW x \in Item, NEW cut
    PROVE  Cardinality(Lost(TearLine(f, x, cut))) <= Cardinality(Lost(f)) + 1
<1> DEFINE L == Lost(f)
<1> DEFINE M == Lost(TearLine(f, x, cut))
<1> DEFINE n == Len(f.lines) + 1
<1>1. IsFiniteSet(L) /\ Cardinality(L) \in Nat /\ M \subseteq L \cup {n}
  BY LostIsFinite, TearLoses
<1> HIDE DEF L, M, n
<1>2. /\ IsFiniteSet(L \cup {n})
      /\ Cardinality(L \cup {n}) \in {Cardinality(L), Cardinality(L) + 1}
  BY <1>1, FS_AddElement
<1>3. Cardinality(L \cup {n}) \in Nat /\ Cardinality(L \cup {n}) <= Cardinality(L) + 1
  BY <1>1, <1>2
<1>4. Cardinality(M) \in Nat /\ Cardinality(M) <= Cardinality(L \cup {n})
  BY <1>1, <1>2, FS_Subset, FS_CardinalityType
<1>5. Cardinality(M) <= Cardinality(L) + 1
  BY <1>1, <1>3, <1>4
<1>. QED
  BY <1>5 DEF L, M

(* One more record behind a terminated line is one more to read.           *)
LEMMA AppendCounts ==
    ASSUME NEW f \in JsonLines, NEW x \in Item, ~f.open
    PROVE  DecodedCount(AppendLine(f, x)) = DecodedCount(f) + 1
<1> DEFINE s == f.lines
<1> DEFINE a == Append(s, x)
<1> DEFINE D == {i \in DOMAIN s : s[i] # Garbled}
<1>1. x # Garbled /\ Len(s) \in Nat /\ DOMAIN s = 1..Len(s) /\ IsFiniteSet(DOMAIN s)
  BY GarbledIsNoItem, LinesOf
<1>2. AppendLine(f, x).lines = a
  BY DEF AppendLine
<1>3. {i \in DOMAIN a : a[i] # Garbled} = D \cup {Len(s) + 1}
  <2>1. /\ DOMAIN a = DOMAIN s \cup {Len(s) + 1}
        /\ \A i \in DOMAIN s : a[i] = s[i]
        /\ a[Len(s) + 1] = x
    BY OneMoreLine
  <2> HIDE DEF a, s
  <2>. QED
    BY <1>1, <2>1
<1>4. IsFiniteSet(D) /\ Len(s) + 1 \notin D
  BY <1>1, FS_Subset
<1>5. Cardinality(D \cup {Len(s) + 1}) = Cardinality(D) + 1
  <2> HIDE DEF D, s
  <2>. QED
    BY <1>4, FS_AddElement
<1>. QED
  BY <1>2, <1>3, <1>5 DEF DecodedCount

(* A file that was appended to has a line.                                 *)
LEMMA AppendedLine ==
    ASSUME NEW f \in JsonLines, NEW x \in Item, f.open => f.lines # <<>>
    PROVE  AppendLine(f, x).lines # <<>>
<1>1. CASE f.open
  BY <1>1, SpoiledLine DEF AppendLine
<1>2. CASE ~f.open
  <2>1. Len(f.lines) + 1 \in DOMAIN Append(f.lines, x)
    BY OneMoreLine
  <2>2. Append(f.lines, x) # <<>>
    BY <2>1, EmptySeq
  <2>. QED
    BY <1>2, <2>2 DEF AppendLine
<1>. QED
  BY <1>1, <1>2

(* A file in which every line and no record can be read has no line.       *)
LEMMA NothingDecoded ==
    ASSUME NEW f \in JsonLines, DecodedCount(f) = 0, Unspoilt(f)
    PROVE  f.lines = <<>>
<1> DEFINE D == {i \in DOMAIN f.lines : f.lines[i] # Garbled}
<1>1. D = DOMAIN f.lines /\ IsFiniteSet(D) /\ Cardinality(D) = 0
  BY LinesOf DEF Unspoilt, DecodedCount
<1>2. D = {}
  <2> HIDE DEF D
  <2>. QED
    BY <1>1, FS_EmptySet
<1>3. Len(f.lines) = 0
  BY <1>1, <1>2, LinesOf
<1>. QED
  BY <1>3, LinesOf, EmptySeq

----------------------------------------------------------------------------
(* What becomes of the two files in a step.                                *)
LEMMA FilesStep ==
    ASSUME TypeOK, [Next]_vars
    PROVE  \/ UNCHANGED <<findings, errors>>
           \/ \E x \in Item : findings' = AppendLine(findings, x) /\ errors' = errors
           \/ \E x \in Item : errors' = AppendLine(errors, x) /\ findings' = findings
           \/ \E x \in Item, cut \in Cuts :
                 /\ \/ findings' = TearLine(findings, x, cut) /\ errors' = errors
                    \/ errors' = TearLine(errors, x, cut) /\ findings' = findings
                 /\ crashes' = crashes + 1
<1>1. ASSUME NEW t \in Targets, RecordUnknown(t)
      PROVE  \E x \in Item : errors' = AppendLine(errors, x) /\ findings' = findings
  BY <1>1, ItemsAreItems DEF RecordUnknown
<1>2. left \subseteq Item
  BY DEF TypeOK
<1>3. ASSUME NEW x \in left, RecordFinding(x)
      PROVE  \E y \in Item : findings' = AppendLine(findings, y) /\ errors' = errors
  BY <1>2, <1>3 DEF RecordFinding
<1>4. ASSUME NEW x \in left, RecordError(x)
      PROVE  \E y \in Item : errors' = AppendLine(errors, y) /\ findings' = findings
  BY <1>2, <1>4 DEF RecordError
<1>5. ASSUME NEW cut \in Cuts, NEW x \in left \cup {Failure(Scanner, t) : t \in todo},
             CrashInAppend(x, cut)
      PROVE  /\ x \in Item
             /\ \/ findings' = TearLine(findings, x, cut) /\ errors' = errors
                \/ errors' = TearLine(errors, x, cut) /\ findings' = findings
             /\ crashes' = crashes + 1
  <2>1. x \in Item
    BY ItemsAreItems DEF TypeOK
  <2>. QED
    BY <1>5, <2>1 DEF CrashInAppend
<1>6. ASSUME NEW t \in Targets, Edit(t) \/ PlanTarget(t) \/ HashFails(t)
      PROVE  UNCHANGED <<findings, errors>>
  BY <1>6 DEF Edit, PlanTarget, HashFails, disk
<1>7. CASE \/ StartPlan \/ Submit \/ Complete \/ TruncateManifest \/ WriteManifest
           \/ Crash \/ UNCHANGED vars
  BY <1>7 DEF StartPlan, Submit, Complete, TruncateManifest, WriteManifest, Crash, vars, disk
<1>8. ASSUME NEW u \in Supports, TakeResult(u) \/ WorkerStep(u)
      PROVE  UNCHANGED <<findings, errors>>
  BY <1>8 DEF TakeResult, WorkerStep, StartUnit, CollectUnit, CollectFails, disk
<1>9. ASSUME NEW q \in Requests, Begin(q) \/ OpenFails(q)
      PROVE  UNCHANGED <<findings, errors>>
  BY <1>9 DEF Begin, OpenFails, disk
<1>. QED
  BY <1>1, <1>3, <1>4, <1>5, <1>6, <1>7, <1>8, <1>9 DEF Next, MainStep, Die, Finished

LEMMA CrashesGrow ==
    ASSUME TypeOK, [Next]_vars
    PROVE  crashes' \in Nat /\ crashes' >= crashes
<1>1. crashes \in Nat
  BY DEF TypeOK
<1>2. ASSUME NEW cut, NEW x, CrashInAppend(x, cut)
      PROVE  crashes' = crashes + 1
  BY <1>2 DEF CrashInAppend
<1>3. CASE Crash
  BY <1>1, <1>3 DEF Crash
<1>4. CASE UNCHANGED crashes
  BY <1>1, <1>4
<1>5. ASSUME NEW t \in Targets,
             Edit(t) \/ PlanTarget(t) \/ HashFails(t) \/ RecordUnknown(t)
      PROVE  UNCHANGED crashes
  BY <1>5 DEF Edit, PlanTarget, HashFails, RecordUnknown, budgets
<1>6. CASE \/ StartPlan \/ Submit \/ Complete \/ TruncateManifest \/ WriteManifest \/ UNCHANGED vars
  BY <1>4, <1>6 DEF StartPlan, Submit, Complete, TruncateManifest, WriteManifest, vars, budgets
<1>7. ASSUME NEW u \in Supports, TakeResult(u) \/ WorkerStep(u)
      PROVE  UNCHANGED crashes
  BY <1>7 DEF TakeResult, WorkerStep, StartUnit, CollectUnit, CollectFails, budgets
<1>8. ASSUME NEW x \in left, RecordFinding(x) \/ RecordError(x)
      PROVE  UNCHANGED crashes
  BY <1>8 DEF RecordFinding, RecordError, budgets
<1>9. ASSUME NEW q \in Requests, Begin(q) \/ OpenFails(q)
      PROVE  UNCHANGED crashes
  BY <1>9 DEF Begin, OpenFails
<1>. QED
  BY <1>1, <1>2, <1>3, <1>4, <1>5, <1>6, <1>7, <1>8, <1>9
  DEF Next, MainStep, Die, Finished

LEMMA LossStep ==
    ASSUME TypeOK, LossInv, [Next]_vars
    PROVE  LossInv'
<1> DEFINE F == Cardinality(Lost(findings))
<1> DEFINE E == Cardinality(Lost(errors))
<1>1. /\ findings \in JsonLines /\ errors \in JsonLines /\ crashes \in Nat
      /\ F \in Nat /\ E \in Nat /\ F + E <= crashes
  BY LostIsFinite DEF TypeOK, LossInv
<1>2. crashes' \in Nat /\ crashes' >= crashes
  BY CrashesGrow
<1>3. CASE UNCHANGED <<findings, errors>>
  BY <1>1, <1>2, <1>3 DEF LossInv
<1>4. ASSUME NEW x \in Item, findings' = AppendLine(findings, x), errors' = errors
      PROVE  LossInv'
  BY <1>1, <1>2, <1>4, AppendLoses DEF LossInv
<1>5. ASSUME NEW x \in Item, errors' = AppendLine(errors, x), findings' = findings
      PROVE  LossInv'
  BY <1>1, <1>2, <1>5, AppendLoses DEF LossInv
<1>6. ASSUME NEW x \in Item, NEW cut \in Cuts, crashes' = crashes + 1,
             \/ findings' = TearLine(findings, x, cut) /\ errors' = errors
             \/ errors' = TearLine(errors, x, cut) /\ findings' = findings
      PROVE  LossInv'
  <2>1. /\ TearLine(findings, x, cut) \in JsonLines /\ TearLine(errors, x, cut) \in JsonLines
    BY <1>1, TearLineType
  <2>2. /\ Cardinality(Lost(TearLine(findings, x, cut))) \in Nat
        /\ Cardinality(Lost(TearLine(errors, x, cut))) \in Nat
        /\ Cardinality(Lost(TearLine(findings, x, cut))) <= F + 1
        /\ Cardinality(Lost(TearLine(errors, x, cut))) <= E + 1
    BY <1>1, <2>1, TearCosts, LostIsFinite
  <2>. QED
    BY <1>1, <1>6, <2>2 DEF LossInv
<1>. QED
  BY <1>3, <1>4, <1>5, <1>6, FilesStep

(* A kill inside an append costs one line: no sequence of kills, resumes   *)
(* and fresh scans spoils more lines of the journal than there were kills, *)
(* wherever each of them cuts.                                             *)
THEOREM LossIsBoundedAlways == Spec => []LossIsBounded
<1>1. Init => LossInv
  <2>1. ASSUME Init PROVE Lost(findings) = {} /\ Lost(errors) = {}
    BY <2>1 DEF Init, EmptyFile, Lost
  <2>. QED
    BY <2>1, FS_EmptySet DEF Init, LossInv
<1>2. TypeOK /\ LossInv /\ [Next]_vars => LossInv'
  BY LossStep
<1>3. TypeOK /\ LossInv => LossIsBounded
  <2> SUFFICES ASSUME TypeOK, LossInv
               PROVE  LossIsBounded
    OBVIOUS
  <2> DEFINE G(f) == {i \in DOMAIN f.lines : f.lines[i] = Garbled}
  <2>1. ASSUME NEW f \in JsonLines
        PROVE  Cardinality(G(f)) \in Nat /\ Cardinality(G(f)) <= Cardinality(Lost(f))
    <3>1. G(f) \subseteq Lost(f)
      BY DEF Lost
    <3> HIDE DEF G
    <3>. QED
      BY <3>1, LostIsFinite, FS_Subset, FS_CardinalityType
  <2>2. /\ findings \in JsonLines /\ errors \in JsonLines /\ crashes \in Nat
        /\ Cardinality(Lost(findings)) \in Nat /\ Cardinality(Lost(errors)) \in Nat
    BY LostIsFinite DEF TypeOK
  <2>3. Cardinality(G(findings)) + Cardinality(G(errors)) <= crashes
    <3> HIDE DEF G
    <3>. QED
      BY <2>1, <2>2 DEF LossInv
  <2>. QED
    BY <2>3 DEF LossIsBounded
<1>. QED
  BY <1>1, <1>2, <1>3, TypeCorrect, PTL DEF Spec

----------------------------------------------------------------------------
(* The books of a call, step by step.                                      *)

(* What a reader can decode only grows, and the files stay closed.         *)
LEMMA ReadersKeep ==
    ASSUME WholeLines, TypeOK, Books, [Next]_vars
    PROVE  /\ FilesClosed'
           /\ Decoded(findings) \subseteq Decoded(findings')
           /\ Decoded(errors) \subseteq Decoded(errors')
BY JournalStep DEF Books, ErrorsInv

(* After a call died, and when one begins, there is nothing to account for. *)
LEMMA NothingYet ==
    ASSUME stage' = NoStages, results' = NoResults, left' = {}, pc' \in {"idle", "unknown"}
    PROVE  ItemsInv'
BY DEF ItemsInv, NoStages, NoResults, Past

LEMMA ItemsFrame ==
    ASSUME ItemsInv, UNCHANGED <<stage, results, left>>,
           Decoded(findings) \subseteq Decoded(findings'),
           Decoded(errors) \subseteq Decoded(errors'),
           \/ pc' = pc
           \/ pc \in {"unknown", "plan"} /\ pc' \in {"plan", "collect"}
           \/ pc \in Past /\ pc' \in Past
    PROVE  ItemsInv'
<1>1. stage' = stage /\ results' = results /\ left' = left
  OBVIOUS
<1>2. pc' \in {"idle", "unknown", "plan"} => \A u \in Supports : stage[u] \in {"none", "queued"}
  BY DEF ItemsInv, Past
<1>3. pc' \in Past => left = {} /\ \A u \in Supports : stage[u] \in {"none", "drained"}
  BY DEF ItemsInv, Past
<1>. QED
  BY <1>1, <1>2, <1>3 DEF ItemsInv

LEMMA RunningIsCollecting ==
    ASSUME TypeOK, ItemsInv, NEW u \in Supports, stage[u] = "running"
    PROVE  pc = "collect"
BY DEF ItemsInv, TypeOK, Past

LEMMA ItemsStep ==
    ASSUME WholeLines, TypeOK, Books, [Next]_vars
    PROVE  ItemsInv'
<1>1. /\ Decoded(findings) \subseteq Decoded(findings')
      /\ Decoded(errors) \subseteq Decoded(errors')
  BY ReadersKeep
<1>2. /\ ItemsInv /\ left \subseteq Item /\ FilesClosed
      /\ stage \in [Supports -> Stages] /\ results \in [Supports -> SUBSET Item]
      /\ findings \in JsonLines /\ errors \in JsonLines
  BY DEF Books, ErrorsInv, TypeOK
<1>3. CASE Gone
  BY <1>3, NothingYet DEF Gone
<1>4. ASSUME NEW q \in Requests, Begin(q) \/ OpenFails(q)
      PROVE  ItemsInv'
  BY <1>3, <1>4, NothingYet DEF Begin, OpenFails
<1>5. ASSUME NEW t \in Targets, Edit(t) \/ RecordUnknown(t)
      PROVE  ItemsInv'
  BY <1>1, <1>2, <1>5, ItemsFrame DEF Edit, RecordUnknown, pool
<1>6. CASE StartPlan \/ Submit \/ TruncateManifest \/ WriteManifest
  BY <1>1, <1>2, <1>6, ItemsFrame DEF StartPlan, Submit, TruncateManifest, WriteManifest, pool, Past
<1>7. CASE UNCHANGED vars
  BY <1>1, <1>2, <1>7, ItemsFrame DEF vars
<1>8. ASSUME NEW t \in Targets, PlanTarget(t)
      PROVE  ItemsInv'
  <2>1. /\ pc = "plan" /\ pc' = "plan" /\ results' = results /\ left' = left
        /\ \/ stage' = stage
           \/ stage' = [u \in Supports |-> IF u \in UnitsOf(t) THEN "queued" ELSE stage[u]]
    BY <1>8 DEF PlanTarget
  <2>2. \A u \in Supports : stage[u] \in {"none", "queued"} /\ results[u] = {}
    BY <1>2, <2>1 DEF ItemsInv
  <2>3. \A u \in Supports : stage'[u] \in {"none", "queued"}
    BY <2>1, <2>2
  <2>. QED
    BY <2>1, <2>2, <2>3 DEF ItemsInv, Past
<1>9. ASSUME NEW u \in Supports, TakeResult(u)
      PROVE  ItemsInv'
  <2>1. /\ pc = "collect" /\ pc' = "collect" /\ left = {} /\ left' = results[u]
        /\ stage' = [stage EXCEPT ![u] = "drained"]
        /\ UNCHANGED <<results, findings, errors>>
    BY <1>9 DEF TakeResult, disk
  <2>2. \A w \in Supports : stage'[w] = IF w = u THEN "drained" ELSE stage[w]
    BY <1>2, <2>1
  <2>. QED
    BY <1>2, <2>1, <2>2 DEF ItemsInv, Past
<1>10. ASSUME NEW x \in left, RecordFinding(x) \/ RecordError(x)
       PROVE  ItemsInv'
  <2>1. /\ pc = "collect" /\ pc' = "collect" /\ left' = left \ {x}
        /\ stage' = stage /\ results' = results
    BY <1>10 DEF RecordFinding, RecordError, pool
  <2>2. x \in Decoded(findings') \cup Decoded(errors')
    <3>1. x \in Item /\ ~findings.open /\ ~errors.open
      BY <1>2 DEF FilesClosed
    <3>. QED
      BY <1>2, <1>10, <3>1, AppendLineDecodes DEF RecordFinding, RecordError
  <2>. QED
    BY <1>1, <1>2, <2>1, <2>2 DEF ItemsInv, Past
<1>11. CASE Complete
  <2>1. /\ pc = "collect" /\ pc' = "truncate" /\ left = {}
        /\ \A u \in Supports : stage[u] \in {"none", "drained"}
        /\ UNCHANGED <<stage, results, left, findings, errors>>
    BY <1>11 DEF Complete, Joined, pool, disk
  <2>. QED
    BY <1>2, <2>1 DEF ItemsInv
<1>12. ASSUME NEW u \in Supports, StartUnit(u)
       PROVE  ItemsInv'
  <2>1. /\ pc = "collect" /\ pc' = "collect" /\ stage[u] = "queued"
        /\ stage' = [stage EXCEPT ![u] = "running"]
        /\ UNCHANGED <<results, left, findings, errors>>
    BY <1>12 DEF StartUnit, disk
  <2>2. \A w \in Supports : stage'[w] = IF w = u THEN "running" ELSE stage[w]
    BY <1>2, <2>1
  <2>. QED
    BY <1>2, <2>1, <2>2 DEF ItemsInv, Past
<1>13. ASSUME NEW u \in Supports, CollectUnit(u) \/ CollectFails(u)
       PROVE  ItemsInv'
  <2>1. /\ stage[u] = "running" /\ pc' = pc /\ left' = left
        /\ stage' = [stage EXCEPT ![u] = "done"]
        /\ findings' = findings /\ errors' = errors
        /\ \E R : results' = [results EXCEPT ![u] = R]
    BY <1>13 DEF CollectUnit, CollectFails, disk
  <2>2. pc = "collect"
    BY <1>2, <2>1, RunningIsCollecting
  <2>3. \A w \in Supports : /\ stage'[w] = IF w = u THEN "done" ELSE stage[w]
                            /\ w # u => results'[w] = results[w]
    BY <1>2, <2>1
  <2>. QED
    BY <1>2, <2>1, <2>2, <2>3 DEF ItemsInv, Past
<1>14. CASE Die
  BY <1>3, <1>14 DEF Die, Crash, HashFails, WholeLines
<1>. QED
  BY <1>4, <1>5, <1>6, <1>7, <1>8, <1>9, <1>10, <1>11, <1>12, <1>13, <1>14
  DEF Next, MainStep, WorkerStep, Finished

(* Nothing to own either.                                                  *)
LEMMA NothingOwned ==
    ASSUME stage' = NoStages, results' = NoResults, left' = {},
           known' \subseteq request'.targets, todo' \subseteq request'.targets
    PROVE  OwnItems'
BY DEF OwnItems, NoStages, NoResults

LEMMA OwnItemsStep ==
    ASSUME WholeLines, TypeOK, Books, [Next]_vars
    PROVE  OwnItems'
<1>1. /\ OwnItems /\ stage \in [Supports -> Stages] /\ results \in [Supports -> SUBSET Item]
  BY DEF Books, TypeOK
<1>2. CASE Gone
  BY <1>2, NothingOwned DEF Gone, NoRequest
<1>3. ASSUME NEW q \in Requests, Begin(q) \/ OpenFails(q)
      PROVE  OwnItems'
  <2>1. CASE Begin(q)
    <3>1. known' \subseteq q.targets /\ todo' \subseteq q.targets /\ request' = q
      BY <2>1 DEF Begin, Resolved, Unresolved
    <3>. QED
      BY <2>1, <3>1, NothingOwned DEF Begin
  <2>2. CASE OpenFails(q)
    BY <1>2, <2>2 DEF OpenFails
  <2>. QED
    BY <1>3, <2>1, <2>2
<1>4. CASE UNCHANGED <<request, known, stage, results, left>> /\ todo' \subseteq request.targets
  BY <1>1, <1>4 DEF OwnItems
<1>5. ASSUME NEW t \in Targets, Edit(t) \/ RecordUnknown(t)
      PROVE  OwnItems'
  <2>1. UNCHANGED <<request, known, stage, results, left>> /\ todo' \subseteq todo
    BY <1>5 DEF Edit, RecordUnknown, plan, pool
  <2>. QED
    BY <1>1, <1>4, <2>1 DEF OwnItems
<1>6. CASE StartPlan \/ Submit \/ Complete \/ TruncateManifest \/ WriteManifest
  <2>1. UNCHANGED <<request, known, stage, results, left>> /\ todo' \in {todo, known}
    BY <1>6 DEF StartPlan, Submit, Complete, TruncateManifest, WriteManifest, plan, pool
  <2>. QED
    BY <1>1, <1>4, <2>1 DEF OwnItems
<1>7. CASE UNCHANGED vars
  BY <1>1, <1>4, <1>7 DEF vars, OwnItems
<1>8. ASSUME NEW t \in Targets, PlanTarget(t)
      PROVE  OwnItems'
  <2>1. /\ t \in todo /\ todo' \subseteq todo
        /\ UNCHANGED <<request, known, results, left>>
        /\ \A u \in Supports : stage'[u] # stage[u] => u[2] = t
    BY <1>1, <1>8 DEF PlanTarget, UnitsOf
  <2>2. t \in request.targets
    BY <1>1, <2>1 DEF OwnItems
  <2>. QED
    BY <1>1, <2>1, <2>2 DEF OwnItems
<1>9. ASSUME NEW u \in Supports, TakeResult(u)
      PROVE  OwnItems'
  <2>1. /\ stage[u] = "done" /\ left' = results[u]
        /\ stage' = [stage EXCEPT ![u] = "drained"]
        /\ UNCHANGED <<request, known, todo, results>>
    BY <1>9 DEF TakeResult, plan
  <2>2. \A w \in Supports : stage'[w] # "none" => stage[w] # "none"
    BY <1>1, <2>1
  <2>. QED
    BY <1>1, <2>1, <2>2 DEF OwnItems
<1>10. ASSUME NEW x \in left, RecordFinding(x) \/ RecordError(x)
       PROVE  OwnItems'
  <2>1. left' \subseteq left /\ UNCHANGED <<request, known, todo, stage, results>>
    BY <1>10 DEF RecordFinding, RecordError, plan, pool
  <2>. QED
    BY <1>1, <2>1 DEF OwnItems
<1>11. ASSUME NEW u \in Supports, StartUnit(u)
       PROVE  OwnItems'
  <2>1. /\ stage[u] = "queued" /\ stage' = [stage EXCEPT ![u] = "running"]
        /\ UNCHANGED <<request, known, todo, results, left>>
    BY <1>11 DEF StartUnit, plan
  <2>2. \A w \in Supports : stage'[w] # "none" => stage[w] # "none"
    BY <1>1, <2>1
  <2>. QED
    BY <1>1, <2>1, <2>2 DEF OwnItems
<1>12. ASSUME NEW u \in Supports, CollectUnit(u) \/ CollectFails(u)
       PROVE  OwnItems'
  <2>1. /\ stage[u] = "running" /\ stage' = [stage EXCEPT ![u] = "done"]
        /\ UNCHANGED <<request, known, todo, left>>
    BY <1>12 DEF CollectUnit, CollectFails, plan
  <2>2. \E S : results' \in {[results EXCEPT ![u] = Found(u, S)],
                            [results EXCEPT ![u] = Found(u, S) \cup Caught(u)]}
    BY <1>12 DEF CollectUnit, CollectFails
  <2>3. \A S : \A x \in Found(u, S) \cup Caught(u) : x.target = u[2]
    BY DEF Found, Finding, Caught, Failure
  <2>4. \A w \in Supports : \A x \in results'[w] : x.target = w[2]
    BY <1>1, <2>2, <2>3 DEF OwnItems
  <2>5. \A w \in Supports : stage'[w] # "none" => stage[w] # "none"
    BY <1>1, <2>1
  <2>. QED
    BY <1>1, <2>1, <2>4, <2>5 DEF OwnItems
<1>13. CASE Die
  BY <1>2, <1>13 DEF Die, Crash, HashFails, WholeLines
<1>. QED
  BY <1>3, <1>5, <1>6, <1>7, <1>8, <1>9, <1>10, <1>11, <1>12, <1>13
  DEF Next, MainStep, WorkerStep, Finished

(* A resume leaves alone the records of the targets it was not given.      *)
LEMMA CountItemElsewhere ==
    ASSUME NEW R, NEW x, NEW t \in Targets, x.target # t
    PROVE  CountItem(R, x)[t] = R[t]
BY DEF CountItem

LEMMA OthersKeptStep ==
    ASSUME WholeLines, TypeOK, Books, [Next]_vars
    PROVE  OthersKept'
<1>1. OthersKept /\ OwnItems /\ recs \in Records
  BY DEF Books, TypeOK
<1>2. CASE pc' \in {"idle", "write", "returned"}
  BY <1>2 DEF OthersKept
<1>3. CASE UNCHANGED <<pc, request, manifest, recs>>
  BY <1>1, <1>3 DEF OthersKept
<1>4. ASSUME NEW q \in Requests, Begin(q) \/ OpenFails(q)
      PROVE  OthersKept'
  <2>1. CASE Begin(q)
    <3>1. manifest' = manifest /\ request' = q /\ recs' = LoadedRecords(q)
      BY <2>1 DEF Begin, disk
    <3>. QED
      BY <3>1 DEF OthersKept, LoadedRecords
  <2>. QED
    BY <1>2, <1>4, <2>1 DEF OpenFails, Gone
<1>5. ASSUME NEW t \in Targets, RecordUnknown(t)
      PROVE  OthersKept'
  <2>1. /\ t \in todo /\ Failure(Scanner, t).target = t
        /\ recs' = CountItem(recs, Failure(Scanner, t))
        /\ UNCHANGED <<pc, request, manifest>>
    BY <1>5 DEF RecordUnknown, Failure, plan
  <2>2. t \in request.targets
    BY <1>1, <2>1 DEF OwnItems
  <2>3. \A s \in Targets \ request.targets : recs'[s] = recs[s]
    BY <2>1, <2>2, CountItemElsewhere
  <2>. QED
    BY <1>1, <2>1, <2>3 DEF OthersKept
<1>6. CASE StartPlan \/ Submit
  <2>1. pc \in {"unknown", "plan"} /\ UNCHANGED <<request, manifest, recs>>
    BY <1>6 DEF StartPlan, Submit, disk, plan
  <2>. QED
    BY <1>1, <2>1 DEF OthersKept
<1>7. ASSUME NEW t \in Targets, PlanTarget(t)
      PROVE  OthersKept'
  <2>1. /\ t \in todo /\ UNCHANGED <<pc, request, manifest>>
        /\ recs' \in {recs, RegisterTarget(recs, t, Digest[t][content[t]])}
    BY <1>7 DEF PlanTarget, disk
  <2>2. t \in request.targets
    BY <1>1, <2>1 DEF OwnItems
  <2>3. \A s \in Targets \ request.targets : recs'[s] = recs[s]
    BY <1>1, <2>1, <2>2 DEF RegisterTarget, Records
  <2>. QED
    BY <1>1, <2>1, <2>3 DEF OthersKept
<1>8. ASSUME NEW x \in left, RecordFinding(x) \/ RecordError(x)
      PROVE  OthersKept'
  <2>1. x.target \in request.targets
    BY <1>1 DEF OwnItems
  <2>2. recs' = CountItem(recs, x) /\ UNCHANGED <<pc, request, manifest>>
    BY <1>8 DEF RecordFinding, RecordError, plan
  <2>3. \A s \in Targets \ request.targets : recs'[s] = recs[s]
    BY <2>1, <2>2, CountItemElsewhere
  <2>. QED
    BY <1>1, <2>2, <2>3 DEF OthersKept
<1>9. CASE Complete
  <2>1. /\ pc = "collect" /\ recs' = CompleteTargets(recs, known)
        /\ UNCHANGED <<request, manifest>>
    BY <1>9 DEF Complete, disk, plan
  <2>2. \A s \in Targets \ request.targets : recs'[s] = recs[s]
    BY <1>1, <2>1 DEF CompleteTargets, OwnItems
  <2>. QED
    BY <1>1, <2>1, <2>2 DEF OthersKept
<1>10. CASE TruncateManifest \/ WriteManifest
  BY <1>2, <1>10 DEF TruncateManifest, WriteManifest
<1>11. ASSUME NEW u \in Supports, TakeResult(u) \/ WorkerStep(u)
       PROVE  OthersKept'
  BY <1>3, <1>11 DEF TakeResult, WorkerStep, StartUnit, CollectUnit, CollectFails, disk, plan
<1>12. ASSUME NEW t \in Targets, Edit(t)
       PROVE  OthersKept'
  BY <1>3, <1>12 DEF Edit, disk, plan
<1>13. CASE Die
  BY <1>2, <1>13 DEF Die, Crash, HashFails, Gone, WholeLines
<1>14. CASE UNCHANGED vars
  BY <1>3, <1>14 DEF vars
<1>. QED
  BY <1>4, <1>5, <1>6, <1>7, <1>8, <1>9, <1>10, <1>11, <1>12, <1>13, <1>14
  DEF Next, MainStep, Finished

(* What the record operations do to the error counters.                    *)
LEMMA CountItemErrors ==
    ASSUME NEW R \in Records, NEW x \in Item, NEW t \in Targets,
           CountItem(R, x)[t] # NoRecord, CountItem(R, x)[t].errors # 0
    PROVE  (R[t] # NoRecord /\ R[t].errors # 0) \/ (x.kind = "error" /\ x.target = t)
<1>1. R[t] # NoRecord
  BY CountItemKeeps
<1>2. CASE x.target # t
  BY <1>1, <1>2, CountItemElsewhere
<1>3. CASE x.target = t /\ x.kind = "finding"
  <2>1. R[t] \in TargetRecord
    BY <1>1 DEF Records
  <2>2. CountItem(R, x)[t] = [R[t] EXCEPT !.findings = @ + 1]
    BY <1>1, <1>3 DEF CountItem, Records
  <2>. QED
    BY <1>1, <2>1, <2>2 DEF TargetRecord
<1>. QED
  BY <1>2, <1>3 DEF Item

LEMMA RegisterErrors ==
    ASSUME NEW R \in Records, NEW t \in Targets, NEW d \in Digests, NEW s \in Targets
    PROVE  /\ RegisterTarget(R, t, d)[t] # NoRecord
           /\ R[s] # NoRecord => RegisterTarget(R, t, d)[s] # NoRecord
           /\ (RegisterTarget(R, t, d)[s] # NoRecord /\ RegisterTarget(R, t, d)[s].errors # 0)
                 => R[s] # NoRecord /\ R[s].errors # 0
<1> DEFINE r == [hash |-> d, status |-> "pending", findings |-> 0, errors |-> 0]
<1>1. CASE R[t] # NoRecord /\ R[t].hash = d
  BY <1>1 DEF RegisterTarget
<1>2. CASE ~(R[t] # NoRecord /\ R[t].hash = d)
  <2>1. RegisterTarget(R, t, d)[s] = IF s = t THEN r ELSE R[s]
    BY <1>2 DEF RegisterTarget, Records
  <2>2. RegisterTarget(R, t, d)[t] = r
    BY <1>2 DEF RegisterTarget, Records
  <2>3. r # NoRecord /\ r.errors = 0
    BY NoRecordIsNoRecord DEF TargetRecord
  <2> HIDE DEF r
  <2>. QED
    BY <2>1, <2>2, <2>3
<1>. QED
  BY <1>1, <1>2

LEMMA CompleteErrors ==
    ASSUME NEW R \in Records, NEW T, NEW t \in Targets, R[t] # NoRecord
    PROVE  /\ CompleteTargets(R, T)[t] # NoRecord
           /\ CompleteTargets(R, T)[t].errors = R[t].errors
           /\ t \in T => CompleteTargets(R, T)[t].status
                            = IF R[t].errors = 0 THEN "complete" ELSE "error"
<1>1. R[t] \in TargetRecord
  BY DEF Records
<1>2. CASE t \in T
  <2>1. CompleteTargets(R, T)[t]
          = [R[t] EXCEPT !.status = IF R[t].errors = 0 THEN "complete" ELSE "error"]
    BY <1>2 DEF CompleteTargets
  <2>2. CompleteTargets(R, T)[t] \in TargetRecord
    BY <1>1, <2>1 DEF TargetRecord
  <2>. QED
    BY <1>1, <2>1, <2>2, NoRecordIsNoRecord DEF TargetRecord
<1>3. CASE t \notin T
  BY <1>3 DEF CompleteTargets
<1>. QED
  BY <1>2, <1>3

(* An error counter that is not zero comes with a line, now or by now.     *)
LEMMA NamedStep ==
    ASSUME Books, Decoded(errors) \subseteq Decoded(errors'),
           NEW Q, \A t \in Targets : (Q[t] # NoRecord /\ Q[t].errors # 0) =>
                     \/ recs[t] # NoRecord /\ recs[t].errors # 0
                     \/ manifest.targets[t] # NoRecord /\ manifest.targets[t].errors # 0
                     \/ HasErrorLine(t)'
    PROVE  \A t \in Targets : (Q[t] # NoRecord /\ Q[t].errors # 0) => HasErrorLine(t)'
BY DEF Books, ErrorsInv, ErrorsNamed, HasErrorLine

LEMMA ErrorsStep ==
    ASSUME WholeLines, TypeOK, Books, [Next]_vars
    PROVE  ErrorsInv'
<1> DEFINE Named(Q) == \A t \in Targets : (Q[t] # NoRecord /\ Q[t].errors # 0) => HasErrorLine(t)'
<1> DEFINE Counted == pc' \in {"collect"} \cup Past => count'.errors = DecodedCount(errors')
<1>1. /\ FilesClosed' /\ Decoded(errors) \subseteq Decoded(errors')
      /\ recs \in Records /\ left \subseteq Item /\ errors \in JsonLines /\ ~errors.open
      /\ count \in Counts
      /\ pc \in {"collect"} \cup Past => count.errors = DecodedCount(errors)
  BY ReadersKeep DEF Books, ErrorsInv, FilesClosed, TypeOK
<1> SUFFICES Named(recs') /\ Named(manifest'.targets) /\ Counted
  BY <1>1 DEF ErrorsInv, ErrorsNamed
<1>2. Named(recs) /\ Named(manifest.targets) /\ Named(NoRecords)
  BY <1>1, NamedStep DEF NoRecords
<1>3. CASE Gone /\ manifest' = manifest
  BY <1>2, <1>3 DEF Gone, Past
<1>4. ASSUME NEW q \in Requests, Begin(q) \/ OpenFails(q)
      PROVE  Named(recs') /\ Named(manifest'.targets) /\ Counted
  <2>1. CASE Begin(q)
    <3>1. recs' \in {manifest.targets, NoRecords} /\ manifest' = manifest /\ pc' = "unknown"
      BY <2>1 DEF Begin, LoadedRecords, disk
    <3>. QED
      BY <1>2, <3>1 DEF Past
  <2>. QED
    BY <1>3, <1>4, <2>1 DEF OpenFails, disk
<1>5. ASSUME NEW x \in Item, recs' = CountItem(recs, x), manifest' = manifest,
             x.kind = "error" => errors' = AppendLine(errors, x)
      PROVE  Named(recs') /\ Named(manifest'.targets)
  <2>1. x.kind = "error" => HasErrorLine(x.target)'
    BY <1>1, <1>5, AppendLineDecodes DEF HasErrorLine
  <2>2. Named(recs')
    BY <1>1, <1>5, <2>1, CountItemErrors, NamedStep
  <2>. QED
    BY <1>2, <1>5, <2>2
<1>6. ASSUME NEW t \in Targets, RecordUnknown(t)
      PROVE  Named(recs') /\ Named(manifest'.targets) /\ Counted
  <2>1. /\ Failure(Scanner, t) \in Item /\ pc' = "unknown"
        /\ recs' = CountItem(recs, Failure(Scanner, t)) /\ manifest' = manifest
        /\ errors' = AppendLine(errors, Failure(Scanner, t))
    BY <1>6, ItemsAreItems DEF RecordUnknown
  <2>. QED
    BY <1>5, <2>1 DEF Past
<1>7. ASSUME NEW x \in left, RecordFinding(x)
      PROVE  Named(recs') /\ Named(manifest'.targets) /\ Counted
  <2>1. /\ x \in Item /\ recs' = CountItem(recs, x) /\ x.kind # "error"
        /\ manifest' = manifest /\ errors' = errors /\ pc = "collect"
        /\ count'.errors = count.errors
    BY <1>1, <1>7 DEF RecordFinding, Counts
  <2>. QED
    BY <1>1, <1>5, <2>1
<1>8. ASSUME NEW x \in left, RecordError(x)
      PROVE  Named(recs') /\ Named(manifest'.targets) /\ Counted
  <2>1. /\ x \in Item /\ recs' = CountItem(recs, x) /\ pc = "collect"
        /\ manifest' = manifest /\ errors' = AppendLine(errors, x)
        /\ count'.errors = count.errors + 1
    BY <1>1, <1>8 DEF RecordError, Counts
  <2>2. DecodedCount(errors') = DecodedCount(errors) + 1
    BY <1>1, <2>1, AppendCounts
  <2>. QED
    BY <1>1, <1>5, <2>1, <2>2
<1>9. ASSUME NEW t \in Targets, PlanTarget(t)
      PROVE  Named(recs') /\ Named(manifest'.targets) /\ Counted
  <2>1. /\ Digest[t][content[t]] \in Digests /\ manifest' = manifest /\ pc' = "plan"
        /\ recs' \in {recs, RegisterTarget(recs, t, Digest[t][content[t]])}
    BY <1>9, ScanConstants DEF PlanTarget, disk, TypeOK
  <2>2. Named(recs')
    BY <1>1, <1>2, <2>1, RegisterErrors, NamedStep
  <2>. QED
    BY <1>2, <2>1, <2>2 DEF Past
<1>10. CASE Complete
  <2>1. /\ pc = "collect" /\ recs' = CompleteTargets(recs, known)
        /\ UNCHANGED <<errors, manifest, count>>
    BY <1>10 DEF Complete, disk
  <2>2. \A t \in Targets : recs[t] = NoRecord => recs'[t] = NoRecord
    BY <2>1 DEF CompleteTargets
  <2>3. Named(recs')
    BY <1>1, <2>1, <2>2, CompleteErrors, NamedStep
  <2>. QED
    BY <1>1, <1>2, <2>1, <2>3
<1>11. CASE StartPlan \/ Submit
  <2>1. recs' = recs /\ manifest' = manifest
    BY <1>11 DEF StartPlan, Submit, disk
  <2>2. Counted
    BY <1>11 DEF StartPlan, Submit, ErrorsOnRecord, disk, Past
  <2>. QED
    BY <1>2, <2>1, <2>2
<1>12. CASE TruncateManifest \/ WriteManifest
  <2>1. /\ recs' = recs /\ manifest'.targets \in {NoRecords, recs}
        /\ pc \in Past /\ UNCHANGED <<errors, count>>
    BY <1>12 DEF TruncateManifest, WriteManifest, TornManifest, SavedManifest, Past
  <2>. QED
    BY <1>1, <1>2, <2>1
<1>13. CASE UNCHANGED <<pc, recs, manifest, errors, count>>
  BY <1>1, <1>2, <1>13
<1>14. ASSUME NEW u \in Supports, TakeResult(u) \/ WorkerStep(u)
       PROVE  UNCHANGED <<pc, recs, manifest, errors, count>>
  BY <1>14 DEF TakeResult, WorkerStep, StartUnit, CollectUnit, CollectFails, disk
<1>15. ASSUME NEW t \in Targets, Edit(t)
       PROVE  UNCHANGED <<pc, recs, manifest, errors, count>>
  BY <1>15 DEF Edit, disk
<1>16. CASE Die
  BY <1>3, <1>16 DEF Die, Crash, HashFails, WholeLines, disk
<1>17. CASE UNCHANGED vars
  BY <1>13, <1>17 DEF vars
<1>. QED
  BY <1>4, <1>6, <1>7, <1>8, <1>9, <1>10, <1>11, <1>12, <1>13, <1>14, <1>15, <1>16, <1>17
  DEF Next, MainStep, Finished

LEMMA TargetsStep ==
    ASSUME WholeLines, TypeOK, Books, [Next]_vars
    PROVE  TargetsInv'
<1>1. /\ TargetsInv /\ recs \in Records /\ left \subseteq Item /\ known \subseteq Targets
      /\ request.targets \subseteq Targets /\ errors \in JsonLines /\ ~errors.open
      /\ \A t : HasErrorLine(t) => HasErrorLine(t)'
  BY ReadersKeep DEF Books, ErrorsInv, FilesClosed, TypeOK, HasErrorLine
<1>2. CASE Gone
  BY <1>2 DEF Gone, NoRequest, TargetsInv, Past
<1>3. ASSUME NEW q \in Requests, Begin(q) \/ OpenFails(q)
      PROVE  TargetsInv'
  <2>1. CASE Begin(q)
    <3>1. /\ pc' = "unknown" /\ request' = q
          /\ \A t \in q.targets : t \in known' \/ t \in todo'
      BY <2>1 DEF Begin, Unresolved
    <3>. QED
      BY <3>1 DEF TargetsInv, Past
  <2>. QED
    BY <1>2, <1>3, <2>1 DEF OpenFails
<1>4. CASE UNCHANGED <<pc, request, known, todo, recs, manifest>>
  BY <1>1, <1>4 DEF TargetsInv
<1>5. ASSUME NEW t \in Targets, RecordUnknown(t)
      PROVE  TargetsInv'
  <2>1. /\ pc = "unknown" /\ pc' = "unknown" /\ todo' = todo \ {t}
        /\ UNCHANGED <<request, known>>
        /\ errors' = AppendLine(errors, Failure(Scanner, t))
    BY <1>5 DEF RecordUnknown, plan
  <2>2. HasErrorLine(t)'
    BY <1>1, <2>1, ItemsAreItems, AppendLineDecodes DEF HasErrorLine, Failure
  <2>. QED
    BY <1>1, <2>1, <2>2 DEF TargetsInv, Past
<1>6. CASE StartPlan \/ Submit
  <2>1. /\ todo = {} /\ UNCHANGED <<request, known, recs, manifest>>
        /\ \/ pc = "unknown" /\ pc' = "plan" /\ todo' = known
           \/ pc = "plan" /\ pc' = "collect" /\ todo' = todo
    BY <1>6 DEF StartPlan, Submit, disk, plan
  <2>. QED
    BY <1>1, <2>1 DEF TargetsInv, Past
<1>7. ASSUME NEW t \in Targets, PlanTarget(t)
      PROVE  TargetsInv'
  BY <1>1, <1>7 DEF PlanTarget, TargetsInv
<1>8. ASSUME NEW x \in left, RecordFinding(x) \/ RecordError(x)
      PROVE  TargetsInv'
  <2>1. pc = "collect" /\ pc' = "collect" /\ UNCHANGED <<request, known>>
    BY <1>8 DEF RecordFinding, RecordError, plan
  <2>. QED
    BY <1>1, <2>1 DEF TargetsInv
<1>9. CASE Complete
  <2>1. pc = "collect" /\ pc' = "truncate" /\ UNCHANGED <<request, known>>
    BY <1>9 DEF Complete, plan
  <2>. QED
    BY <1>1, <2>1 DEF TargetsInv
<1>10. CASE TruncateManifest \/ WriteManifest
  <2>1. /\ pc \in Past /\ UNCHANGED <<request, known, recs>>
        /\ pc' \in Past /\ (pc' = "returned" => manifest' = SavedManifest(recs))
    BY <1>10 DEF TruncateManifest, WriteManifest, plan, Past
  <2>2. pc # "unknown" /\ pc # "plan"
    BY <2>1 DEF Past
  <2>. QED
    BY <1>1, <2>1, <2>2 DEF TargetsInv
<1>11. ASSUME NEW u \in Supports, TakeResult(u) \/ WorkerStep(u)
       PROVE  UNCHANGED <<pc, request, known, todo, recs, manifest>>
  BY <1>11 DEF TakeResult, WorkerStep, StartUnit, CollectUnit, CollectFails, disk, plan
<1>12. ASSUME NEW t \in Targets, Edit(t)
       PROVE  UNCHANGED <<pc, request, known, todo, recs, manifest>>
  BY <1>12 DEF Edit, disk, plan
<1>13. CASE Die
  BY <1>2, <1>13 DEF Die, Crash, HashFails, WholeLines
<1>14. CASE UNCHANGED vars
  BY <1>4, <1>14 DEF vars
<1>. QED
  BY <1>3, <1>4, <1>5, <1>6, <1>7, <1>8, <1>9, <1>10, <1>11, <1>12, <1>13, <1>14
  DEF Next, MainStep, Finished

(* A target that is fingerprinted has a record, and one that is closed says *)
(* whether its units failed: nothing a kill does to a file changes that.   *)
LEMMA KnownStep ==
    ASSUME TypeOK, KnownInv, [Next]_vars
    PROVE  KnownInv'
<1>1. /\ KnownInv /\ recs \in Records /\ left \subseteq Item /\ known \subseteq Targets
      /\ content \in [Targets -> Versions]
  BY DEF TypeOK
<1>2. CASE Gone \/ UNCHANGED <<pc, known, todo, recs>>
  BY <1>1, <1>2 DEF Gone, KnownInv, Past
<1>3. ASSUME NEW q \in Requests, Begin(q) \/ OpenFails(q)
      PROVE  KnownInv'
  BY <1>2, <1>3 DEF Begin, OpenFails, KnownInv, Past
<1>4. ASSUME NEW t \in Targets, RecordUnknown(t)
      PROVE  KnownInv'
  BY <1>4 DEF RecordUnknown, KnownInv, Past
<1>5. CASE StartPlan \/ Submit
  BY <1>1, <1>5 DEF StartPlan, Submit, KnownInv, Past, plan
<1>6. ASSUME NEW t \in Targets, PlanTarget(t)
      PROVE  KnownInv'
  <2>1. /\ pc = "plan" /\ pc' = "plan" /\ todo' = todo \ {t} /\ UNCHANGED known
        /\ Digest[t][content[t]] \in Digests
        /\ \/ recs' = RegisterTarget(recs, t, Digest[t][content[t]])
           \/ recs' = recs /\ recs[t] # NoRecord
    BY <1>1, <1>6, ScanConstants DEF PlanTarget, ShouldSkip
  <2>2. recs'[t] # NoRecord /\ \A s \in Targets : recs[s] # NoRecord => recs'[s] # NoRecord
    BY <1>1, <2>1, RegisterErrors
  <2>. QED
    BY <1>1, <2>1, <2>2 DEF KnownInv, Past
<1>7. ASSUME NEW x \in left, RecordFinding(x) \/ RecordError(x)
      PROVE  KnownInv'
  <2>1. /\ pc = "collect" /\ pc' = "collect" /\ x \in Item /\ recs' = CountItem(recs, x)
        /\ UNCHANGED known
    BY <1>1, <1>7 DEF RecordFinding, RecordError, plan
  <2>2. \A s \in Targets : recs[s] # NoRecord => recs'[s] # NoRecord
    BY <1>1, <2>1, CountItemKeeps
  <2>. QED
    BY <1>1, <2>1, <2>2 DEF KnownInv, Past
<1>8. CASE Complete
  <2>1. /\ pc = "collect" /\ pc' = "truncate" /\ recs' = CompleteTargets(recs, known)
        /\ UNCHANGED known
    BY <1>8 DEF Complete, plan
  <2>2. \A s \in known : recs[s] # NoRecord
    BY <1>1, <2>1 DEF KnownInv
  <2>3. \A s \in known :
           /\ recs'[s] # NoRecord
           /\ recs'[s].status = IF recs'[s].errors = 0 THEN "complete" ELSE "error"
    BY <1>1, <2>1, <2>2, CompleteErrors
  <2>. QED
    BY <2>1, <2>3 DEF KnownInv
<1>9. CASE TruncateManifest \/ WriteManifest
  <2>1. pc \in Past /\ pc' \in Past /\ UNCHANGED <<known, recs>>
    BY <1>9 DEF TruncateManifest, WriteManifest, plan, Past
  <2>2. pc # "unknown" /\ pc # "plan"
    BY <2>1 DEF Past
  <2>. QED
    BY <1>1, <2>1, <2>2 DEF KnownInv
<1>10. ASSUME NEW u \in Supports, TakeResult(u) \/ WorkerStep(u)
       PROVE  KnownInv'
  BY <1>2, <1>10 DEF TakeResult, WorkerStep, StartUnit, CollectUnit, CollectFails, plan
<1>11. ASSUME NEW t \in Targets, Edit(t)
       PROVE  KnownInv'
  BY <1>2, <1>11 DEF Edit, plan
<1>12. CASE Die
  BY <1>2, <1>12 DEF Die, Crash, HashFails, CrashInAppend
<1>. QED
  BY <1>2, <1>3, <1>4, <1>5, <1>6, <1>7, <1>8, <1>9, <1>10, <1>11, <1>12
  DEF Next, MainStep, Finished, vars

----------------------------------------------------------------------------
(* The first error of a run directory.                                     *)

(* errors.jsonl never becomes empty again.                                 *)
LEMMA StillEmpty ==
    ASSUME TypeOK, FirstErrorInv, [Next]_vars
    PROVE  /\ errors'.open => errors'.lines # <<>>
           /\ errors'.lines = <<>> => errors' = errors
<1>1. errors \in JsonLines /\ (errors.open => errors.lines # <<>>)
  BY DEF TypeOK, FirstErrorInv
<1>2. ASSUME NEW x \in Item, errors' = AppendLine(errors, x)
      PROVE  errors'.lines # <<>>
  BY <1>1, <1>2, AppendedLine
<1>3. ASSUME NEW x \in Item, NEW cut, errors' = TearLine(errors, x, cut)
      PROVE  errors'.lines # <<>>
  BY <1>1, <1>3, TearIsOnRecord
<1>. QED
  BY <1>1, <1>2, <1>3, FilesStep

(* Neither does a record get an error but with an error line.              *)
LEMMA FirstErrorStep ==
    ASSUME TypeOK, FirstErrorInv, [Next]_vars
    PROVE  FirstErrorInv'
<1> DEFINE Resolving == \A t \in request'.targets : t \in known' \/ (pc' = "unknown" /\ t \in todo')
<1> DEFINE Silent == NoErrors(recs') /\ NoErrors(manifest'.targets) /\ Resolving
<1> DEFINE Counting == pc' \in {"collect"} \cup Past /\ count'.errors = 0 /\ Unspoilt(errors')
<1>1. /\ FirstErrorInv /\ recs \in Records /\ left \subseteq Item /\ errors \in JsonLines
      /\ content \in [Targets -> Versions] /\ count \in Counts
      /\ errors'.open => errors'.lines # <<>>
      /\ errors'.lines = <<>> => errors' = errors
  BY StillEmpty DEF TypeOK
<1> SUFFICES /\ errors'.lines = <<>> => Silent
             /\ Counting => errors'.lines = <<>>
  BY <1>1 DEF FirstErrorInv, NoErrors
<1>2. errors'.lines = <<>> => NoErrors(recs) /\ NoErrors(manifest.targets) /\ NoErrors(NoRecords)
  BY <1>1 DEF FirstErrorInv, NoErrors, NoRecords
<1>3. CASE Gone /\ manifest' = manifest
  BY <1>2, <1>3 DEF Gone, NoRequest, Past
<1>4. CASE UNCHANGED <<pc, request, known, todo, recs, manifest, errors, count>>
  BY <1>1, <1>4 DEF FirstErrorInv
<1>5. ASSUME NEW q \in Requests, Begin(q) \/ OpenFails(q)
      PROVE  (errors'.lines = <<>> => Silent) /\ ~Counting
  <2>1. CASE Begin(q)
    <3>1. /\ pc' = "unknown" /\ request' = q /\ manifest' = manifest
          /\ recs' \in {manifest.targets, NoRecords}
          /\ \A t \in q.targets : t \in known' \/ t \in todo'
      BY <2>1 DEF Begin, Unresolved, LoadedRecords, disk
    <3>. QED
      BY <1>2, <3>1 DEF Past
  <2>. QED
    BY <1>2, <1>5, <2>1 DEF OpenFails, Gone, NoRequest, Past, disk
<1>6. ASSUME NEW t \in Targets, RecordUnknown(t)
      PROVE  errors'.lines # <<>> /\ ~Counting
  <2>1. /\ pc' = "unknown" /\ Failure(Scanner, t) \in Item
        /\ errors' = AppendLine(errors, Failure(Scanner, t))
    BY <1>6, ItemsAreItems DEF RecordUnknown
  <2>. QED
    BY <1>1, <2>1, AppendedLine DEF FirstErrorInv, Past
<1>7. ASSUME NEW x \in left, RecordError(x)
      PROVE  errors'.lines # <<>> /\ ~Counting
  <2>1. x \in Item /\ errors' = AppendLine(errors, x) /\ count'.errors = count.errors + 1
        /\ count.errors \in Nat
    BY <1>1, <1>7 DEF RecordError, Counts
  <2>. QED
    BY <1>1, <2>1, AppendedLine DEF FirstErrorInv
<1>8. ASSUME NEW x \in left, RecordFinding(x)
      PROVE  (errors'.lines = <<>> => Silent) /\ (Counting => errors'.lines = <<>>)
  <2>1. /\ x \in Item /\ x.kind # "error" /\ recs' = CountItem(recs, x)
        /\ pc = "collect" /\ pc' = "collect" /\ count'.errors = count.errors
        /\ UNCHANGED <<request, known, todo, manifest, errors>>
    BY <1>1, <1>8 DEF RecordFinding, plan, Counts
  <2>2. NoErrors(recs) => NoErrors(recs')
    BY <1>1, <2>1, CountItemErrors DEF NoErrors
  <2>. QED
    BY <1>1, <2>1, <2>2 DEF FirstErrorInv
<1>9. ASSUME NEW t \in Targets, PlanTarget(t)
      PROVE  (errors'.lines = <<>> => Silent) /\ ~Counting
  <2>1. /\ pc = "plan" /\ pc' = "plan" /\ Digest[t][content[t]] \in Digests
        /\ recs' \in {recs, RegisterTarget(recs, t, Digest[t][content[t]])}
        /\ UNCHANGED <<request, known, manifest, errors>>
    BY <1>1, <1>9, ScanConstants DEF PlanTarget, disk
  <2>2. NoErrors(recs) => NoErrors(recs')
    BY <1>1, <2>1, RegisterErrors DEF NoErrors
  <2>. QED
    BY <1>1, <2>1, <2>2 DEF FirstErrorInv, Past
<1>10. CASE StartPlan \/ Submit
  <2>1. /\ todo = {} /\ UNCHANGED <<request, known, recs, manifest, errors>>
        /\ \/ pc = "unknown" /\ pc' = "plan"
           \/ pc = "plan" /\ pc' = "collect" /\ count'.errors = DecodedCount(errors)
    BY <1>10 DEF StartPlan, Submit, ErrorsOnRecord, disk, plan
  <2>2. Counting => errors'.lines = <<>>
    BY <1>1, <2>1, NothingDecoded DEF Past
  <2>. QED
    BY <1>1, <2>1, <2>2 DEF FirstErrorInv
<1>11. CASE Complete \/ TruncateManifest \/ WriteManifest
  <2>1. /\ pc \in {"collect"} \cup Past /\ pc' \in Past
        /\ UNCHANGED <<request, known, todo, errors, count>>
        /\ recs' \in {recs, CompleteTargets(recs, known)}
        /\ manifest'.targets \in {manifest.targets, NoRecords, recs}
    BY <1>11 DEF Complete, TruncateManifest, WriteManifest, TornManifest, SavedManifest,
                 disk, plan, Past
  <2>2. \A t \in Targets : recs[t] = NoRecord => CompleteTargets(recs, known)[t] = NoRecord
    BY DEF CompleteTargets
  <2>3. NoErrors(recs) => NoErrors(recs')
    BY <1>1, <2>1, <2>2, CompleteErrors DEF NoErrors
  <2>4. pc # "unknown"
    BY <2>1 DEF Past
  <2>. QED
    BY <1>1, <1>2, <2>1, <2>3, <2>4 DEF FirstErrorInv
<1>12. ASSUME NEW u \in Supports, TakeResult(u) \/ WorkerStep(u)
       PROVE  UNCHANGED <<pc, request, known, todo, recs, manifest, errors, count>>
  BY <1>12 DEF TakeResult, WorkerStep, StartUnit, CollectUnit, CollectFails, disk, plan
<1>13. ASSUME NEW t \in Targets, Edit(t)
       PROVE  UNCHANGED <<pc, request, known, todo, recs, manifest, errors, count>>
  BY <1>13 DEF Edit, disk, plan
<1>14. CASE Die
  BY <1>3, <1>14 DEF Die, Crash, HashFails, CrashInAppend, disk
<1>15. CASE UNCHANGED vars
  BY <1>4, <1>15 DEF vars
<1>. QED
  BY <1>4, <1>5, <1>6, <1>7, <1>8, <1>9, <1>10, <1>11, <1>12, <1>13, <1>14, <1>15
  DEF Next, MainStep, Finished

----------------------------------------------------------------------------
(* The books are in order in every state, whatever is edited, killed       *)
(* between two steps, retried or interleaved, as long as no append is cut. *)
THEOREM BooksInOrder == ASSUME WholeLines PROVE Spec => []Books
<1>1. Init => Books
  <2> SUFFICES ASSUME Init
               PROVE  Books
    OBVIOUS
  <2>1. ItemsInv /\ OwnItems
    BY DEF Init, ItemsInv, OwnItems, NoStages, NoResults, NoRequest, Past
  <2>2. OthersKept /\ TargetsInv
    BY DEF Init, OthersKept, TargetsInv, NoRequest, Past
  <2>3. ErrorsInv
    BY EmptyFileDecodes
    DEF Init, ErrorsInv, FilesClosed, ErrorsNamed, NoRecords, AbsentManifest, Past
  <2>. QED
    BY <2>1, <2>2, <2>3 DEF Books
<1>2. TypeOK /\ Books /\ [Next]_vars => Books'
  BY ItemsStep, OwnItemsStep, OthersKeptStep, ErrorsStep, TargetsStep DEF Books
<1>. QED
  BY <1>1, <1>2, TypeCorrect, PTL DEF Spec

LEMMA TargetsAreClosed == Spec => []KnownInv
<1>1. Init => KnownInv
  BY DEF Init, KnownInv, Past
<1>2. TypeOK /\ KnownInv /\ [Next]_vars => KnownInv'
  BY KnownStep
<1>. QED
  BY <1>1, <1>2, TypeCorrect, PTL DEF Spec

(* Everything a worker handed back is readable in the journal before the   *)
(* manifest is touched, in whatever order the units complete.              *)
THEOREM ResultsAreJournalled == ASSUME WholeLines PROVE Spec => []ResultsJournalled
<1>1. TypeOK /\ Books => ResultsJournalled
  BY DEF Books, ItemsInv, Past, ResultsJournalled
<1>. QED
  BY <1>1, BooksInOrder, TypeCorrect, PTL

(* The errors a call returns are those the run directory holds.            *)
THEOREM SummaryIsTrue == ASSUME WholeLines PROVE Spec => []SummaryCountsErrors
<1>1. Books => SummaryCountsErrors
  BY DEF Books, ErrorsInv, Past, SummaryCountsErrors
<1>. QED
  BY <1>1, BooksInOrder, PTL

(* A call that returned accounts for each target it resolved: a resume     *)
(* will skip it while it is unchanged, or an error line names it.          *)
THEOREM AllAccounted == ASSUME WholeLines PROVE Spec => []Accounted
<1>1. TypeOK /\ Books /\ KnownInv => Accounted
  <2> SUFFICES ASSUME TypeOK, Books, KnownInv, pc = "returned", NEW t \in known,
                      Present[t][content[t]], recs[t].hash = Digest[t][content[t]],
                      ~HasErrorLine(t)
               PROVE  WouldSkip(t)
    BY DEF Accounted
  <2>1. t \in Targets /\ recs[t] # NoRecord /\ manifest = SavedManifest(recs)
    BY DEF TypeOK, Books, TargetsInv, KnownInv
  <2>2. recs[t].errors = 0
    BY <2>1 DEF Books, ErrorsInv, ErrorsNamed
  <2>3. recs[t].status = "complete"
    BY <2>2 DEF KnownInv, Past
  <2>. QED
    BY <2>1, <2>3 DEF WouldSkip, ShouldSkip, SavedManifest
<1>. QED
  BY <1>1, BooksInOrder, TargetsAreClosed, TypeCorrect, PTL

(* A call that reports no error has closed every target it was given as    *)
(* complete, or errors.jsonl has a line nobody can read: whatever earlier  *)
(* calls recorded, and wherever a kill cut an append.                      *)
THEOREM CleanRunsComplete == Spec => []CleanRunIsComplete
<1>1. TypeOK /\ KnownInv /\ FirstErrorInv => CleanRunIsComplete
  <2> SUFFICES ASSUME TypeOK, KnownInv, FirstErrorInv, pc = "returned", count.errors = 0,
                      Unspoilt(errors), NEW t \in request.targets
               PROVE  recs[t] # NoRecord /\ recs[t].status = "complete"
    BY DEF CleanRunIsComplete
  <2>1. errors.lines = <<>>
    BY DEF FirstErrorInv, Past
  <2>2. t \in known /\ NoErrors(recs)
    BY <2>1 DEF FirstErrorInv
  <2>3. t \in Targets /\ recs[t] # NoRecord
    BY <2>2 DEF KnownInv, TypeOK
  <2>4. recs[t].errors = 0
    BY <2>2, <2>3 DEF NoErrors
  <2>. QED
    BY <2>2, <2>3, <2>4 DEF KnownInv, Past
<1>2. Init => FirstErrorInv
  BY DEF Init, FirstErrorInv, NoErrors, NoRecords, AbsentManifest, NoRequest, EmptyFile, Past
<1>3. TypeOK /\ FirstErrorInv /\ [Next]_vars => FirstErrorInv'
  BY FirstErrorStep
<1>. QED
  BY <1>1, <1>2, <1>3, TargetsAreClosed, TypeCorrect, PTL DEF Spec

(* A resume that is given some of the targets rewrites the manifest and    *)
(* leaves what it says of the others as it was.                            *)
THEOREM OthersAreKept == ASSUME WholeLines PROVE Spec => ResumeKeepsOthers
<1>1. Books /\ [Next]_vars
        => [(pc = "truncate" /\ pc' = "write" /\ request.resume /\ manifest.state = "saved") =>
              \A t \in Targets \ request.targets : recs'[t] = manifest.targets[t]]_vars
  <2> SUFFICES ASSUME Books, [Next]_vars, pc = "truncate", pc' = "write",
                      request.resume, manifest.state = "saved"
               PROVE  \A t \in Targets \ request.targets : recs'[t] = manifest.targets[t]
    OBVIOUS
  <2>1. recs' = recs
    BY DEF Next, MainStep, WorkerStep, Die, Finished, Edit, Begin, OpenFails, Gone, RecordUnknown,
           PlanTarget, StartPlan, Submit, Complete, TruncateManifest, WriteManifest, TakeResult,
           RecordFinding, RecordError, StartUnit, CollectUnit, CollectFails, Crash, HashFails,
           CrashInAppend, vars
  <2>. QED
    BY <2>1 DEF Books, OthersKept
<1>. QED
  BY <1>1, BooksInOrder, PTL DEF Spec, ResumeKeepsOthers
=============================================================================
