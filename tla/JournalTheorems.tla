--------------------------- MODULE JournalTheorems ---------------------------
(* What the operators of Journal return and preserve.                      *)
EXTENDS Journal, SequenceTheorems, FiniteSetTheorems, TLAPS

(* Spoiling the last line of a file, or of an empty one, leaves a file.   *)
LEMMA SpoiledType ==
    ASSUME NEW f \in JsonLines
    PROVE  Spoiled(f) \in Seq(Item \cup {Garbled})
<1> DEFINE L == Item \cup {Garbled}
<1> DEFINE n == Len(f.lines)
<1>1. f.lines \in [1..n -> L] /\ n \in Nat
  BY LenProperties DEF JsonLines
<1>2. [f.lines EXCEPT ![n] = Garbled] \in [1..n -> L]
  <2> HIDE DEF n
  <2>. QED
    BY <1>1
<1>. QED
  BY <1>1, <1>2, SeqDef DEF Spoiled

(* Journalling a record keeps the file a file (_append). *)
LEMMA AppendLineType ==
    ASSUME NEW f \in JsonLines, NEW x \in Item
    PROVE  AppendLine(f, x) \in JsonLines
<1> DEFINE L == Item \cup {Garbled}
<1>1. f.lines \in Seq(L) /\ f.open \in BOOLEAN
  BY DEF JsonLines
<1>2. Append(f.lines, x) \in Seq(L)
  BY <1>1, AppendProperties
<1>3. Spoiled(f) \in Seq(L)
  BY SpoiledType
<1>. QED
  BY <1>2, <1>3 DEF AppendLine, JsonLines

(* So does a kill inside the append. *)
LEMMA TearLineType ==
    ASSUME NEW f \in JsonLines, NEW x \in Item, NEW cut
    PROVE  TearLine(f, x, cut) \in JsonLines
<1> DEFINE L == Item \cup {Garbled}
<1> DEFINE y == IF cut = "whole" THEN x ELSE Garbled
<1>1. f.lines \in Seq(L) /\ f.open \in BOOLEAN /\ y \in L
  BY DEF JsonLines
<1>2. Append(f.lines, y) \in Seq(L)
  BY <1>1, AppendProperties
<1>3. Spoiled(f) \in Seq(L)
  BY SpoiledType
<1>. QED
  BY <1>2, <1>3 DEF TearLine, JsonLines

(* The lines of a file, and those behind one more.                         *)
LEMMA LinesOf ==
    ASSUME NEW f \in JsonLines
    PROVE  /\ f.lines \in Seq(Item \cup {Garbled})
           /\ Len(f.lines) \in Nat /\ DOMAIN f.lines = 1..Len(f.lines)
           /\ IsFiniteSet(DOMAIN f.lines)
<1>1. f.lines \in Seq(Item \cup {Garbled})
  BY DEF JsonLines
<1>2. DOMAIN f.lines = 1..Len(f.lines) /\ Len(f.lines) \in Nat
  BY <1>1, LenProperties
<1>3. 1 \in Int /\ Len(f.lines) \in Int
  BY <1>2
<1>. QED
  BY <1>1, <1>2, <1>3, FS_Interval

LEMMA OneMoreLine ==
    ASSUME NEW f \in JsonLines, NEW y \in Item \cup {Garbled}
    PROVE  /\ Len(Append(f.lines, y)) = Len(f.lines) + 1
           /\ DOMAIN Append(f.lines, y) = DOMAIN f.lines \cup {Len(f.lines) + 1}
           /\ \A i \in DOMAIN f.lines : Append(f.lines, y)[i] = f.lines[i]
           /\ Append(f.lines, y)[Len(f.lines) + 1] = y
<1> DEFINE L == Item \cup {Garbled}
<1> DEFINE s == f.lines
<1> DEFINE a == Append(s, y)
<1>1. s \in Seq(L) /\ Len(s) \in Nat /\ DOMAIN s = 1..Len(s)
  BY LinesOf
<1>2. a \in Seq(L) /\ Len(a) = Len(s) + 1
  BY <1>1, AppendProperties
<1>3. DOMAIN a = 1..(Len(s) + 1)
  BY <1>2, LenProperties
<1>4. DOMAIN a = DOMAIN s \cup {Len(s) + 1}
  BY <1>1, <1>3
<1>5. /\ \A i \in 1..Len(s) : a[i] = s[i]
      /\ a[Len(s) + 1] = y
  BY <1>1, AppendProperties
<1>. QED
  BY <1>1, <1>2, <1>4, <1>5

LEMMA SpoiledLines ==
    ASSUME NEW f \in JsonLines
    PROVE  /\ Len(Spoiled(f)) = Len(f.lines) /\ DOMAIN Spoiled(f) = DOMAIN f.lines
           /\ \A i \in DOMAIN f.lines :
                 Spoiled(f)[i] = IF i = Len(f.lines) THEN Garbled ELSE f.lines[i]
<1> DEFINE n == Len(f.lines)
<1>1. n \in Nat /\ DOMAIN f.lines = 1..n
  BY LinesOf
<1>2. Spoiled(f) \in Seq(Item \cup {Garbled})
  BY SpoiledType
<1>3. DOMAIN Spoiled(f) = DOMAIN f.lines
  BY DEF Spoiled
<1>4. Len(Spoiled(f)) \in Nat /\ 1..Len(Spoiled(f)) = 1..n
  BY <1>1, <1>2, <1>3, LenProperties
<1>5. Len(Spoiled(f)) = n
  BY <1>1, <1>4
<1>6. \A i \in DOMAIN f.lines : Spoiled(f)[i] = IF i = n THEN Garbled ELSE f.lines[i]
  BY DEF Spoiled
<1>. QED
  BY <1>3, <1>5, <1>6

(* What is decoded are items. *)
LEMMA LinesAreItems == ASSUME NEW f \in JsonLines PROVE Decoded(f) \subseteq Item
<1>1. f.lines \in [1..Len(f.lines) -> Item \cup {Garbled}]
  BY LinesOf, LenProperties
<1>2. \A i \in DOMAIN f.lines : f.lines[i] \in Item \cup {Garbled}
  BY <1>1
<1>. QED
  BY <1>2 DEF Decoded

(* A file that has a line has one nobody can read once it is spoilt. *)
LEMMA SpoiledLine ==
    ASSUME NEW f \in JsonLines, f.lines # <<>>
    PROVE  /\ Spoiled(f) # <<>>
           /\ \E i \in DOMAIN Spoiled(f) : Spoiled(f)[i] = Garbled
<1>1. Len(f.lines) \in Nat /\ DOMAIN f.lines = 1..Len(f.lines)
  BY LinesOf
<1>2. Len(f.lines) # 0
  BY LinesOf, EmptySeq
<1>3. Len(f.lines) \in DOMAIN Spoiled(f) /\ Spoiled(f)[Len(f.lines)] = Garbled
  BY <1>1, <1>2, SpoiledLines
<1>4. Spoiled(f) # <<>>
  BY <1>3, EmptySeq
<1>. QED
  BY <1>3, <1>4

(* Behind a terminated line, an append adds its record to what a reader   *)
(* decodes and takes nothing away.                                        *)
LEMMA AppendLineDecodes ==
    ASSUME NEW f \in JsonLines, NEW x \in Item, ~f.open
    PROVE  /\ Decoded(AppendLine(f, x)) = Decoded(f) \cup {x}
           /\ ~AppendLine(f, x).open
<1> DEFINE L == Item \cup {Garbled}
<1> DEFINE s == f.lines
<1> DEFINE a == Append(s, x)
<1>1. s \in Seq(L) /\ x \in L /\ x # Garbled
  BY GarbledIsNoItem DEF JsonLines
<1>2. AppendLine(f, x).lines = a /\ ~AppendLine(f, x).open
  BY DEF AppendLine
<1>3. /\ Len(s) \in Nat /\ DOMAIN s = 1..Len(s)
      /\ DOMAIN a = 1..(Len(s) + 1)
      /\ \A i \in 1..Len(s) : a[i] = s[i]
      /\ a[Len(s) + 1] = x
  <2>1. a \in Seq(L) /\ Len(a) = Len(s) + 1
    BY <1>1, AppendProperties
  <2>. QED
    BY <1>1, <2>1, AppendProperties, LenProperties
<1>4. {a[i] : i \in DOMAIN a} = {s[i] : i \in DOMAIN s} \cup {x}
  <2> HIDE DEF a, s
  <2>. QED
    BY <1>3
<1>. QED
  BY <1>1, <1>2, <1>4 DEF Decoded

(* errors() returns a list: it has a length. *)
LEMMA DecodedCountType ==
    ASSUME NEW f \in JsonLines
    PROVE  DecodedCount(f) \in Nat
<1>1. f.lines \in Seq(Item \cup {Garbled})
  BY DEF JsonLines
<1>2. DOMAIN f.lines = 1..Len(f.lines) /\ Len(f.lines) \in Nat
  BY <1>1, LenProperties
<1>3. IsFiniteSet(DOMAIN f.lines)
  <2>1. 1 \in Int /\ Len(f.lines) \in Int
    BY <1>2
  <2>. QED
    BY <1>2, <2>1, FS_Interval
<1>4. IsFiniteSet({i \in DOMAIN f.lines : f.lines[i] # Garbled})
  BY <1>3, FS_Subset
<1>. QED
  BY <1>4, FS_CardinalityType DEF DecodedCount

(* A new run directory: a closed file that decodes to nothing. *)
LEMMA EmptyFileDecodes ==
    EmptyFile \in JsonLines /\ Decoded(EmptyFile) = {} /\ ~EmptyFile.open
<1>1. <<>> \in Seq(Item \cup {Garbled})
  BY EmptySeq
<1>. QED
  BY <1>1 DEF EmptyFile, JsonLines, Decoded

(* The record operations map manifests to manifests. *)
LEMMA RegisterTargetType ==
    ASSUME NEW R \in Records, NEW t \in Targets, NEW d \in Digests
    PROVE  RegisterTarget(R, t, d) \in Records
BY DEF RegisterTarget, Records, TargetRecord

LEMMA CountItemType ==
    ASSUME NEW R \in Records, NEW x \in Item
    PROVE  CountItem(R, x) \in Records
<1>1. x.target \in Targets /\ x.kind \in {"finding", "error"}
  BY DEF Item
<1>2. CASE R[x.target] = NoRecord
  BY <1>2 DEF CountItem
<1>3. CASE R[x.target] # NoRecord
  <2>1. R[x.target] \in TargetRecord
    BY <1>1, <1>3 DEF Records
  <2>2. /\ [R[x.target] EXCEPT !.findings = @ + 1] \in TargetRecord
        /\ [R[x.target] EXCEPT !.errors = @ + 1] \in TargetRecord
    BY <2>1 DEF TargetRecord
  <2>. QED
    BY <1>1, <1>3, <2>2 DEF CountItem, Records
<1>. QED
  BY <1>2, <1>3

LEMMA CompleteTargetsType ==
    ASSUME NEW R \in Records, NEW T
    PROVE  CompleteTargets(R, T) \in Records
<1>1. \A t \in Targets : R[t] # NoRecord =>
        [R[t] EXCEPT !.status = IF R[t].errors = 0 THEN "complete" ELSE "error"] \in TargetRecord
  BY DEF Records, TargetRecord
<1>. QED
  BY <1>1 DEF CompleteTargets, Records

(* Counting an item changes a counter and nothing else of one record. *)
LEMMA CountItemKeeps ==
    ASSUME NEW R \in Records, NEW x \in Item, NEW t \in Targets
    PROVE  /\ CountItem(R, x)[t] = NoRecord <=> R[t] = NoRecord
           /\ R[t] # NoRecord =>
                 /\ CountItem(R, x)[t].hash = R[t].hash
                 /\ CountItem(R, x)[t].status = R[t].status
                 /\ CountItem(R, x)[t].errors \in Nat /\ R[t].errors \in Nat
                 /\ CountItem(R, x)[t].errors >= R[t].errors
                 /\ (x.kind = "error" /\ x.target = t) => CountItem(R, x)[t].errors > 0
<1>1. x.target \in Targets /\ x.kind \in {"finding", "error"}
  BY DEF Item
<1>2. R[t] # NoRecord => R[t] \in TargetRecord
  BY DEF Records
<1>3. CountItem(R, x)[t] # NoRecord => CountItem(R, x)[t] \in TargetRecord
  BY CountItemType DEF Records
<1>4. CASE R[x.target] = NoRecord \/ t # x.target
  BY <1>1, <1>2, <1>4 DEF CountItem, Records, TargetRecord
<1>5. CASE R[x.target] # NoRecord /\ t = x.target
  <2>1. R[t] \in TargetRecord
    BY <1>2, <1>5
  <2>2. CountItem(R, x)[t] = IF x.kind = "finding" THEN [R[t] EXCEPT !.findings = @ + 1]
                             ELSE [R[t] EXCEPT !.errors = @ + 1]
    BY <1>1, <1>5 DEF CountItem, Records
  <2>3. CountItem(R, x)[t] \in TargetRecord
    BY <2>1, <2>2 DEF TargetRecord
  <2>. QED
    BY <1>1, <1>5, <2>1, <2>2, <2>3, NoRecordIsNoRecord DEF TargetRecord
<1>. QED
  BY <1>4, <1>5
=============================================================================
