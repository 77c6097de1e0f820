--------------------------- MODULE PipelineProofs ---------------------------
(***************************************************************************)
(* Theorems about Pipeline, for any registry, policy, cost table, estate   *)
(* and number of findings: that what is made of a journal depends on the   *)
(* facts in it and not on how they got there.                              *)
(***************************************************************************)
EXTENDS Pipeline, FiniteSetTheorems, FunctionTheorems, TLAPS

----------------------------------------------------------------------------
(* The two clocks. *)

(* Where each tier stands. *)
LEMMA Ranks ==
    /\ TierRank("critical") = 1 /\ TierRank("high") = 2 /\ TierRank("medium") = 3
    /\ TierRank("low") = 4 /\ TierRank("pq-safe") = 5
<1>1. DOMAIN Tiers = 1..5
  BY DEF Tiers
<1>2. /\ Tiers[1] = "critical" /\ Tiers[2] = "high" /\ Tiers[3] = "medium"
      /\ Tiers[4] = "low" /\ Tiers[5] = "pq-safe"
  BY DEF Tiers
<1>. QED
  BY <1>1, <1>2 DEF TierRank

(* A longer migration or a longer shelf life trips no fewer scenarios.     *)
LEMMA TrippedGrows ==
    ASSUME NEW x \in Nat, NEW y \in Nat, NEW x2 \in Nat, NEW y2 \in Nat,
           x + y <= x2 + y2
    PROVE  Tripped(x, y) \subseteq Tripped(x2, y2)
BY ScenariosAreYears DEF Tripped

(* What trips more scenarios is no less urgent. *)
LEMMA MoscaTierGrows ==
    ASSUME NEW S \in SUBSET DOMAIN Scenarios, NEW T \in SUBSET DOMAIN Scenarios,
           S \subseteq T
    PROVE  TierRank(MoscaTier(T)) <= TierRank(MoscaTier(S))
<1>1. CASE TripsAll(T)
  <2>1. MoscaTier(T) = "critical"
    BY <1>1 DEF MoscaTier
  <2>2. MoscaTier(S) \in {"critical", "high", "medium", "low"}
    BY DEF MoscaTier
  <2>. QED
    BY <2>1, <2>2, Ranks
<1>2. CASE ~TripsAll(T) /\ "median" \in T
  <2>1. MoscaTier(T) = "high"
    BY <1>2 DEF MoscaTier
  <2>2. ~TripsAll(S)
    BY <1>2 DEF TripsAll
  <2>3. MoscaTier(S) \in {"high", "medium", "low"}
    BY <2>2 DEF MoscaTier
  <2>. QED
    BY <2>1, <2>3, Ranks
<1>3. CASE ~TripsAll(T) /\ "median" \notin T
  <2>1. ~TripsAll(S) /\ "median" \notin S
    BY <1>3 DEF TripsAll
  <2>2. CASE T = {}
    <3>1. S = {} /\ MoscaTier(T) = "low" /\ MoscaTier(S) = "low"
      BY <2>1, <2>2, <1>3 DEF MoscaTier
    <3>. QED
      BY <3>1, Ranks
  <2>3. CASE T # {}
    <3>1. MoscaTier(T) = "medium"
      BY <1>3, <2>3 DEF MoscaTier
    <3>2. MoscaTier(S) \in {"medium", "low"}
      BY <2>1 DEF MoscaTier
    <3>. QED
      BY <3>1, <3>2, Ranks
  <2>. QED
    BY <2>2, <2>3
<1>. QED
  BY <1>1, <1>2, <1>3

(* No policy and no asset: to take longer, or to hold data for longer, is   *)
(* never to be graded as less urgent (risk.py 172-338).                     *)
THEOREM LongerIsNoCalmer ==
    ASSUME NEW x \in Nat, NEW y \in Nat, NEW x2 \in Nat, NEW y2 \in Nat,
           x + y <= x2 + y2, NEW quantum, NEW classical
    PROVE  TierRank(Tier(quantum, classical, Tripped(x2, y2)))
             <= TierRank(Tier(quantum, classical, Tripped(x, y)))
<1>1. TierRank(MoscaTier(Tripped(x2, y2))) <= TierRank(MoscaTier(Tripped(x, y)))
  BY TrippedGrows, MoscaTierGrows DEF Tripped
<1>2. CASE classical \in {"broken", "disallowed"}
  BY <1>2, Ranks DEF Tier
<1>3. CASE classical \notin {"broken", "disallowed"} /\ QuantumVulnerable(quantum)
  <2>1. quantum # "unknown" /\ quantum # "safe"
    BY <1>3 DEF QuantumVulnerable
  <2>2. \A T : Tier(quantum, classical, T) = MoscaTier(T)
    BY <1>3, <2>1 DEF Tier, QuantumTier
  <2>. QED
    BY <1>1, <2>2
<1>4. CASE classical \notin {"broken", "disallowed"} /\ ~QuantumVulnerable(quantum)
  <2>1. \A S, T : QuantumTier(quantum, S) = QuantumTier(quantum, T)
    BY <1>4 DEF QuantumTier
  <2>2. \A T : QuantumTier(quantum, T) \in {"medium", "pq-safe", "low"}
    BY <1>4 DEF QuantumTier
  <2>. QED
    BY <1>4, <2>1, <2>2, Ranks DEF Tier
<1>. QED
  BY <1>2, <1>3, <1>4

(* The years to migrate are no fewer than either estimate of the policy     *)
(* ("worst case", risk.py 173-177), where the policy's estimates are years. *)
LEMMA EffortIsTheWorse ==
    ASSUME NEW surface \in DOMAIN EffortBySurface, NEW kind \in DOMAIN EffortByKind,
           EffortBySurface[surface] \in Nat, EffortByKind[kind] \in Nat
    PROVE  /\ MigrationYears(surface, kind) >= EffortBySurface[surface]
           /\ MigrationYears(surface, kind) >= EffortByKind[kind]
           /\ MigrationYears(surface, kind) \in Nat
<1>. DEFINE candidates == {EffortBySurface[surface], EffortByKind[kind]}
<1>1. {EffortBySurface[s] : s \in {surface} \cap DOMAIN EffortBySurface}
        \cup {EffortByKind[k] : k \in {kind} \cap DOMAIN EffortByKind} = candidates
  OBVIOUS
<1>2. \E m \in candidates : \A y \in candidates : y <= m
  <2>1. CASE EffortBySurface[surface] <= EffortByKind[kind]
    BY <2>1
  <2>2. CASE EffortByKind[kind] <= EffortBySurface[surface]
    BY <2>2
  <2>. QED
    BY <2>1, <2>2
<1>3. MigrationYears(surface, kind) = CHOOSE m \in candidates : \A y \in candidates : y <= m
  BY <1>1 DEF MigrationYears
<1>. HIDE DEF candidates
<1>4. MigrationYears(surface, kind) \in candidates
  BY <1>2, <1>3
<1>5. \A y \in candidates : y <= MigrationYears(surface, kind)
  BY <1>2, <1>3
<1>. QED
  BY <1>4, <1>5 DEF candidates

(* Where the policy has both estimates, an asset is graded at least as     *)
(* urgent as either of them alone would have it: a slow surface is not     *)
(* offset by a quick kind of asset (risk.py 172-338).                      *)
THEOREM WorseEstimateDecides ==
    ASSUME NEW surface \in DOMAIN EffortBySurface, NEW kind \in DOMAIN EffortByKind,
           EffortBySurface[surface] \in Nat, EffortByKind[kind] \in Nat,
           NEW years \in {EffortBySurface[surface], EffortByKind[kind]},
           NEW shelf \in Nat, NEW quantum, NEW classical
    PROVE  TierRank(Tier(quantum, classical, Tripped(shelf, MigrationYears(surface, kind))))
             <= TierRank(Tier(quantum, classical, Tripped(shelf, years)))
<1>1. MigrationYears(surface, kind) \in Nat /\ years \in Nat
  BY EffortIsTheWorse
<1>2. shelf + years <= shelf + MigrationYears(surface, kind)
  BY <1>1, EffortIsTheWorse
<1>. QED
  BY <1>1, <1>2, LongerIsNoCalmer

----------------------------------------------------------------------------
(* Least numbers. *)

Below == {pair \in Nat \X Nat : pair[1] < pair[2]}

LEMMA LeastNumber ==
    ASSUME NEW S \in SUBSET Nat, S # {}
    PROVE  \E least \in S : \A n \in S : least <= n
<1>1. IsWellFoundedOn(Below, Nat)
  BY NatLessThanWellFounded DEF OpToRel, Below
<1>2. \E least \in S : \A n \in S : <<n, least>> \notin Below
  BY <1>1, WFMin
<1>3. \A m, n \in Nat : n < m => <<n, m>> \in Below
  BY DEF Below
<1>4. PICK least \in S : \A n \in S : <<n, least>> \notin Below
  BY <1>2
<1>5. \A n \in S : least \in Nat /\ n \in Nat /\ ~(n < least)
  BY <1>3, <1>4
<1>. QED  BY <1>4, <1>5

LEMMA RanksAreNumbers == \A tier \in EvidenceTiers : Rank(tier) \in Nat
<1>1. DOMAIN TierOrder = 1..7
  BY DEF TierOrder
<1>. QED  BY <1>1 DEF EvidenceTiers, Rank, RankOf, Range

----------------------------------------------------------------------------
(* What can stand in a journal. *)

(* What becomes of a sighting that is journalled. *)
Made(s, name, params, tier, functions) ==
    /\ tier \in {s.tier, UnresolvedTier} /\ functions \in {s.functions, {}}
    /\ s.kind = "algorithm" =>
          LET c == Canonicalise(s.raw, s.params)
          IN  \/ c # UnknownAlgorithm /\ name = c.name /\ params = c.params
              \/ c = UnknownAlgorithm /\ name = s.raw /\ params = s.params

LEMMA ObservedOnce ==
    ASSUME NEW s \in Sightings
    PROVE  \/ Observe(s) = <<>>
           \/ \E name, params, tier, functions :
                 /\ Made(s, name, params, tier, functions)
                 /\ Observe(s) = <<FindingOf(s, name, params, tier, functions)>>
<1>. DEFINE c == Canonicalise(s.raw, s.params)
            kept == c.params
<1>1. CASE s.kind # "algorithm"
  <2>1. Observe(s) = <<FindingOf(s, s.raw, s.params, s.tier, s.functions)>>
    BY <1>1 DEF Observe
  <2>2. Made(s, s.raw, s.params, s.tier, s.functions)
    BY <1>1 DEF Made
  <2>. QED  BY <2>1, <2>2
<1>2. CASE s.kind = "algorithm" /\ c # UnknownAlgorithm
  <2>1. Observe(s) = <<FindingOf(s, c.name, kept, s.tier, s.functions)>>
    BY <1>2 DEF Observe
  <2>2. Made(s, c.name, kept, s.tier, s.functions)
    BY <1>2 DEF Made
  <2>. QED  BY <2>1, <2>2
<1>3. CASE s.kind = "algorithm" /\ c = UnknownAlgorithm /\ s.collector = "source_ast"
  <2>1. Observe(s) = <<FindingOf(s, s.raw, s.params, UnresolvedTier, {})>>
    BY <1>3 DEF Observe
  <2>2. Made(s, s.raw, s.params, UnresolvedTier, {})
    BY <1>3 DEF Made
  <2>. QED  BY <2>1, <2>2
<1>4. CASE s.kind = "algorithm" /\ c = UnknownAlgorithm /\ s.collector # "source_ast"
  BY <1>4 DEF Observe
<1>. QED  BY <1>1, <1>2, <1>3, <1>4

LEMMA SeenIsMade ==
    ASSUME NEW f \in Seen
    PROVE  \E s \in Sightings : \E name, params, tier, functions :
              Made(s, name, params, tier, functions) /\ f = FindingOf(s, name, params, tier, functions)
<1>1. PICK s \in Sightings : f \in Range(Observe(s))
  BY DEF Seen
<1>2. Range(<<>>) = {} /\ \A x : Range(<<x>>) = {x}
  BY DEF Range
<1>3. PICK name, params, tier, functions :
          /\ Made(s, name, params, tier, functions)
          /\ Observe(s) = <<FindingOf(s, name, params, tier, functions)>>
  BY <1>1, <1>2, ObservedOnce
<1>4. f = FindingOf(s, name, params, tier, functions)
  BY <1>1, <1>2, <1>3
<1>. QED  BY <1>3, <1>4

LEMMA ObservationsAreSeen ==
    ASSUME NEW s \in Sightings PROVE Observe(s) \in Seq(Seen)
<1>1. Range(Observe(s)) \subseteq Seen
  BY DEF Seen
<1>2. CASE Observe(s) = <<>>
  BY <1>2
<1>3. CASE Observe(s) # <<>>
  <2>1. PICK f : Observe(s) = <<f>>
    BY <1>3, ObservedOnce
  <2>2. f \in Range(Observe(s))
    BY <2>1 DEF Range
  <2>. QED  BY <1>1, <2>1, <2>2
<1>. QED  BY <1>2, <1>3

LEMMA SeenIsTyped ==
    ASSUME NEW f \in Seen
    PROVE  /\ f.kind \in Kinds /\ f.surface \in Surfaces /\ f.tier \in EvidenceTiers
           /\ f.functions \subseteq DOMAIN FunctionRoles \cup {"keygen"}
           /\ f.place \in Nat /\ Rank(f.tier) \in Nat
           /\ f.version # Unset => f.collector = "container"
<1>1. UnresolvedTier \in EvidenceTiers
  <2>1. DOMAIN TierOrder = 1..7 /\ TierOrder[6] = "string_literal"
    BY DEF TierOrder
  <2>. QED  BY <2>1 DEF UnresolvedTier, EvidenceTiers, Range
<1>2. PICK s \in Sightings : \E name, params, tier, functions :
          Made(s, name, params, tier, functions) /\ f = FindingOf(s, name, params, tier, functions)
  BY SeenIsMade
<1>3. PICK name, params, tier, functions :
          Made(s, name, params, tier, functions) /\ f = FindingOf(s, name, params, tier, functions)
  BY <1>2
<1>. QED  BY <1>1, <1>3, SightingsAreTyped, RanksAreNumbers DEF FindingOf, Made

----------------------------------------------------------------------------
(* The journals hold what can be seen: the inductive invariant. *)
LogInv == log \in Seq(Seen) /\ earlier \in Seq(Seen)

(* The journals only ever hold what the collectors made of a sighting       *)
(* (pipeline.py run_pipeline).                                              *)
THEOREM JournalsHoldSightings == Spec => []LogInv
<1>1. Init => LogInv
  BY DEF Init, LogInv
<1>2. LogInv /\ [Next]_vars => LogInv'
  <2>. SUFFICES ASSUME LogInv, [Next]_vars PROVE LogInv'
    OBVIOUS
  <2>1. CASE NextQuarter
    BY <2>1 DEF NextQuarter, LogInv
  <2>2. ASSUME NEW s \in Sightings, Record(s) PROVE LogInv'
    <3>1. log' \in Seq(Seen)
      BY <2>2, ObservationsAreSeen DEF Record, LogInv
    <3>. QED  BY <2>2, <3>1 DEF Record, LogInv
  <2>3. CASE UNCHANGED vars
    BY <2>3 DEF vars, LogInv
  <2>. QED  BY <2>1, <2>2, <2>3 DEF Next
<1>. QED  BY <1>1, <1>2, PTL DEF Spec

(* The findings of the journals have the types of ir.py. *)
THEOREM PipelineTypes == Spec => []TypeOK
<1>1. LogInv => TypeOK
  <2>1. LogInv => Range(log) \subseteq Seen /\ Range(earlier) \subseteq Seen
    BY DEF LogInv, Range
  <2>. QED  BY <2>1, SeenIsTyped DEF TypeOK
<1>. QED  BY <1>1, JournalsHoldSightings, PTL

----------------------------------------------------------------------------
(* One asset's findings. *)

IsGroup(g) ==
    /\ g \in [DOMAIN g -> Seen]
    /\ DOMAIN g \in SUBSET Nat
    /\ DOMAIN g # {}
    /\ IsFiniteSet(DOMAIN g)

(* How sure a set of different witnesses makes a finding. *)
TallyOf(witnesses) == [t \in EvidenceTiers |-> Cardinality({e \in witnesses : e.tier = t})]

ConfidenceIn(witnesses) == CombineConfidence(TallyOf(witnesses), Cardinality(witnesses))

(* What is made of a set of findings of one asset, but for the coordinates  *)
(* of one of them and the version.                                         *)
MergedFrom(facts, key, place, version) ==
    [key        |-> key,
     evidence   |-> {Evidence(f) : f \in facts},
     confidence |-> ConfidenceIn({Evidence(f) : f \in facts}),
     place      |-> place,
     locations  |-> {Location(f) : f \in facts},
     surfaces   |-> {l.surface : l \in {Location(f) : f \in facts}},
     collectors |-> {f.collector : f \in facts},
     functions  |-> UNION {f.functions : f \in facts},
     version    |-> version]

(* Every group has a finding that comes before all others: normalise.py's   *)
(* min() is over a total order.                                            *)
LEMMA ForemostExists ==
    ASSUME NEW g, IsGroup(g)
    PROVE  /\ \E i \in DOMAIN g : i \in Foremost(g)
           /\ \A i \in Foremost(g) : \A j \in DOMAIN g : ~Stronger(g[j], g[i])
<1>1. \A i \in DOMAIN g : Rank(g[i].tier) \in Nat /\ g[i].place \in Nat /\ i \in Nat
  BY SeenIsTyped DEF IsGroup
<1>. DEFINE ranks == {Rank(g[i].tier) : i \in DOMAIN g}
<1>2. ranks \in SUBSET Nat /\ ranks # {}
  BY <1>1 DEF IsGroup
<1>3. PICK r \in ranks : \A n \in ranks : r <= n
  BY <1>2, LeastNumber
<1>. DEFINE places == {g[i].place : i \in {j \in DOMAIN g : Rank(g[j].tier) = r}}
<1>4. places \in SUBSET Nat /\ places # {}
  BY <1>1, <1>3
<1>5. PICK p \in places : \A n \in places : p <= n
  BY <1>4, LeastNumber
<1>. DEFINE firsts == {i \in DOMAIN g : Rank(g[i].tier) = r /\ g[i].place = p}
<1>6. firsts \in SUBSET Nat /\ firsts # {}
  BY <1>1, <1>5
<1>7. PICK k \in firsts : \A n \in firsts : k <= n
  BY <1>6, LeastNumber
<1>8. k \in DOMAIN g /\ Rank(g[k].tier) = r /\ g[k].place = p
  BY <1>7
<1>9. ASSUME NEW j \in DOMAIN g, j # k
      PROVE  Stronger(g[k], g[j]) \/ (~Stronger(g[j], g[k]) /\ k < j)
  <2>1. r <= Rank(g[j].tier)
    BY <1>3
  <2>2. CASE r < Rank(g[j].tier)
    BY <1>8, <2>2 DEF Stronger
  <2>3. CASE r = Rank(g[j].tier)
    <3>1. p <= g[j].place
      BY <1>5, <2>3
    <3>2. CASE p < g[j].place
      BY <1>8, <2>3, <3>2 DEF Stronger
    <3>3. CASE p = g[j].place
      <4>1. k <= j
        BY <1>7, <2>3, <3>3
      <4>. QED  BY <1>1, <1>8, <1>9, <2>3, <3>3, <4>1 DEF Stronger
    <3>. QED  BY <1>1, <1>8, <3>1, <3>2, <3>3
  <2>. QED  BY <1>1, <1>8, <2>1, <2>2, <2>3
<1>10. k \in Foremost(g)
  BY <1>8, <1>9 DEF Foremost
<1>11. ASSUME NEW i \in Foremost(g), NEW j \in DOMAIN g PROVE ~Stronger(g[j], g[i])
  <2>1. i \in DOMAIN g
    BY DEF Foremost
  <2>2. CASE j = i
    BY <1>1, <2>1, <2>2 DEF Stronger
  <2>3. CASE j # i
    <3>1. Stronger(g[i], g[j]) \/ ~Stronger(g[j], g[i])
      BY <2>3 DEF Foremost
    <3>. QED  BY <1>1, <2>1, <3>1 DEF Stronger
  <2>. QED  BY <2>2, <2>3
<1>. QED  BY <1>8, <1>10, <1>11

LEMMA PrimaryIsForemost ==
    ASSUME NEW g, IsGroup(g)
    PROVE  /\ Primary(g) \in Range(g)
           /\ \A f \in Range(g) : ~Stronger(f, Primary(g))
<1>1. PICK i : i = CHOOSE k \in Foremost(g) : TRUE
  OBVIOUS
<1>2. i \in Foremost(g) /\ Primary(g) = g[i]
  BY <1>1, ForemostExists DEF Primary
<1>3. i \in DOMAIN g
  BY <1>2 DEF Foremost
<1>. QED  BY <1>2, <1>3, ForemostExists DEF Range

(* Which finding is taken may depend on the order of arrival; where it was  *)
(* found does not.                                                         *)
LEMMA SamePlace ==
    ASSUME NEW g, NEW h, IsGroup(g), IsGroup(h), Range(g) = Range(h)
    PROVE  Primary(g).place = Primary(h).place
<1>1. /\ Primary(g) \in Range(g) /\ Primary(h) \in Range(h)
      /\ ~Stronger(Primary(h), Primary(g)) /\ ~Stronger(Primary(g), Primary(h))
  BY PrimaryIsForemost
<1>2. Range(g) \subseteq Seen
  BY DEF IsGroup, Range
<1>3. /\ Rank(Primary(g).tier) \in Nat /\ Primary(g).place \in Nat
      /\ Rank(Primary(h).tier) \in Nat /\ Primary(h).place \in Nat
  BY <1>1, <1>2, SeenIsTyped
<1>. QED  BY <1>1, <1>3 DEF Stronger

(* Every witness has a first finding that gives it. *)
LEMMA FirstWitness ==
    ASSUME NEW g, IsGroup(g), NEW i \in DOMAIN g
    PROVE  \E j \in DedupeEvidence(g) : Evidence(g[j]) = Evidence(g[i])
<1>. DEFINE same == {j \in DOMAIN g : Evidence(g[j]) = Evidence(g[i])}
<1>1. same \in SUBSET Nat /\ same # {}
  BY DEF IsGroup
<1>2. PICK j \in same : \A n \in same : j <= n
  BY <1>1, LeastNumber
<1>3. ASSUME NEW k \in DOMAIN g, k < j PROVE Evidence(g[k]) # Evidence(g[j])
  <2>1. SUFFICES ASSUME Evidence(g[k]) = Evidence(g[j]) PROVE FALSE
    OBVIOUS
  <2>2. k \in same
    BY <1>2, <2>1
  <2>3. j <= k /\ j \in Nat /\ k \in Nat
    BY <1>1, <1>2, <2>2
  <2>. QED  BY <1>3, <2>3
<1>4. j \in DedupeEvidence(g)
  BY <1>2, <1>3 DEF DedupeEvidence
<1>. QED  BY <1>2, <1>4

LEMMA WitnessesOfRange ==
    ASSUME NEW g, IsGroup(g)
    PROVE  {Evidence(g[i]) : i \in DedupeEvidence(g)} = {Evidence(f) : f \in Range(g)}
<1>1. DedupeEvidence(g) \subseteq DOMAIN g
  BY DEF DedupeEvidence
<1>2. ASSUME NEW f \in Range(g) PROVE Evidence(f) \in {Evidence(g[i]) : i \in DedupeEvidence(g)}
  <2>1. PICK i \in DOMAIN g : f = g[i]
    BY DEF Range
  <2>2. PICK j \in DedupeEvidence(g) : Evidence(g[j]) = Evidence(g[i])
    BY FirstWitness
  <2>. QED  BY <2>1, <2>2
<1>3. ASSUME NEW i \in DedupeEvidence(g) PROVE Evidence(g[i]) \in {Evidence(f) : f \in Range(g)}
  BY <1>1 DEF Range
<1>. QED  BY <1>2, <1>3

LEMMA WitnessesAreCountedOnce ==
    ASSUME NEW g, IsGroup(g), NEW T
    PROVE  Cardinality({i \in DedupeEvidence(g) : g[i].tier \in T})
             = Cardinality({e \in {Evidence(f) : f \in Range(g)} : e.tier \in T})
<1>. DEFINE W == {i \in DedupeEvidence(g) : g[i].tier \in T}
            E == {e \in {Evidence(f) : f \in Range(g)} : e.tier \in T}
            F == [i \in W |-> Evidence(g[i])]
<1>1. DedupeEvidence(g) \subseteq DOMAIN g /\ DOMAIN g \subseteq Nat
  BY DEF DedupeEvidence, IsGroup
<1>2. IsFiniteSet(W)
  <2>1. W \in SUBSET DOMAIN g
    BY <1>1
  <2>. QED  BY <2>1, FS_Subset DEF IsGroup
<1>3. \A f : Evidence(f).tier = f.tier
  BY DEF Evidence
<1>4. \A i \in W : F[i] \in E
  BY <1>1, <1>3 DEF Range
<1>5. ASSUME NEW a \in W, NEW b \in W, F[a] = F[b] PROVE a = b
  <2>1. Evidence(g[a]) = Evidence(g[b]) /\ a \in Nat /\ b \in Nat
    BY <1>1, <1>5
  <2>2. ~(a < b) /\ ~(b < a)
    BY <1>1, <2>1 DEF DedupeEvidence
  <2>. QED  BY <2>1, <2>2
<1>6. ASSUME NEW e \in E PROVE \E i \in W : F[i] = e
  <2>1. PICK f \in Range(g) : e = Evidence(f)
    OBVIOUS
  <2>2. PICK k \in DOMAIN g : f = g[k]
    BY DEF Range
  <2>3. PICK i \in DedupeEvidence(g) : Evidence(g[i]) = Evidence(g[k])
    BY FirstWitness
  <2>4. e.tier \in T /\ e = Evidence(g[i])
    BY <2>1, <2>2, <2>3
  <2>5. g[i].tier \in T
    BY <1>3, <2>4
  <2>. QED  BY <2>4, <2>5
<1>7. F \in Bijection(W, E)
  BY <1>4, <1>5, <1>6, Fun_IsBij
<1>8. ExistsBijection(W, E)
  BY <1>7 DEF ExistsBijection
<1>. HIDE DEF W, E
<1>9. Cardinality(E) = Cardinality(W)
  BY <1>2, <1>8, FS_Bijection
<1>. QED  BY <1>9 DEF W, E

(* All of a merged finding but its version depends on which findings there  *)
(* are and not on their order or number.                                   *)
LEMMA MergedFromFacts ==
    ASSUME NEW g, IsGroup(g), NEW key, \A f \in Range(g) : CanonicalKey(f) = key
    PROVE  MergeGroup(g) = MergedFrom(Range(g), key, Primary(g).place, MergeVersions(g))
<1>1. CanonicalKey(Primary(g)) = key
  BY PrimaryIsForemost
<1>. DEFINE witnesses == {Evidence(f) : f \in Range(g)}
<1>2. Tally(g, DedupeEvidence(g)) = TallyOf(witnesses)
  <2>1. ASSUME NEW t \in EvidenceTiers
        PROVE  Cardinality({i \in DedupeEvidence(g) : g[i].tier = t})
                 = Cardinality({e \in witnesses : e.tier = t})
    <3>1. /\ {i \in DedupeEvidence(g) : g[i].tier = t} = {i \in DedupeEvidence(g) : g[i].tier \in {t}}
          /\ {e \in witnesses : e.tier = t} = {e \in witnesses : e.tier \in {t}}
      OBVIOUS
    <3>2. Cardinality({i \in DedupeEvidence(g) : g[i].tier \in {t}})
            = Cardinality({e \in witnesses : e.tier \in {t}})
      BY WitnessesAreCountedOnce
    <3>. QED  BY <3>1, <3>2
  <2>. QED  BY <2>1 DEF Tally, TallyOf
<1>3. Cardinality(DedupeEvidence(g)) = Cardinality(witnesses)
  <2>1. \A i \in DedupeEvidence(g) : g[i].tier \in EvidenceTiers
    BY SeenIsTyped DEF IsGroup, DedupeEvidence
  <2>2. \A e \in witnesses : e.tier \in EvidenceTiers
    BY SeenIsTyped DEF IsGroup, Range, Evidence
  <2>3. /\ DedupeEvidence(g) = {i \in DedupeEvidence(g) : g[i].tier \in EvidenceTiers}
        /\ witnesses = {e \in witnesses : e.tier \in EvidenceTiers}
    BY <2>1, <2>2
  <2>. QED  BY <2>3, WitnessesAreCountedOnce
<1>4. {Evidence(g[i]) : i \in DedupeEvidence(g)} = witnesses
  BY WitnessesOfRange
<1>. QED  BY <1>1, <1>2, <1>3, <1>4 DEF MergeGroup, MergedFrom, Locations, ConfidenceIn

(* The findings of a journal under one key are a group of that key. *)
LEMMA GroupsOfJournals ==
    ASSUME NEW findings \in Seq(Seen), NEW key \in KeysOf(findings)
    PROVE  /\ IsGroup(GroupOf(findings, key))
           /\ DOMAIN GroupOf(findings, key) = {i \in DOMAIN findings : CanonicalKey(findings[i]) = key}
           /\ \A i \in DOMAIN GroupOf(findings, key) : GroupOf(findings, key)[i] = findings[i]
           /\ Range(GroupOf(findings, key)) = {f \in Range(findings) : CanonicalKey(f) = key}
<1>. DEFINE D == {i \in DOMAIN findings : CanonicalKey(findings[i]) = key}
            g == GroupOf(findings, key)
<1>1. g = [i \in D |-> findings[i]]
  BY DEF GroupOf, Restrict
<1>2. D # {}
  <2>1. PICK f \in Range(findings) : key = CanonicalKey(f)
    BY DEF KeysOf
  <2>2. PICK i \in DOMAIN findings : f = findings[i]
    BY DEF Range
  <2>. QED  BY <2>1, <2>2
<1>3. D \in SUBSET Nat /\ IsFiniteSet(D)
  <2>1. DOMAIN findings = 1..Len(findings) /\ Len(findings) \in Nat
    OBVIOUS
  <2>2. IsFiniteSet(DOMAIN findings)
    BY <2>1, FS_Interval
  <2>3. D \in SUBSET DOMAIN findings
    OBVIOUS
  <2>. QED  BY <2>1, <2>2, <2>3, FS_Subset
<1>4. \A i \in D : findings[i] \in Seen
  OBVIOUS
<1>5. DOMAIN g = D /\ \A i \in D : g[i] = findings[i]
  BY <1>1
<1>6. Range(g) = {f \in Range(findings) : CanonicalKey(f) = key}
  BY <1>5 DEF Range
<1>. HIDE DEF D
<1>7. IsGroup(g)
  BY <1>1, <1>2, <1>3, <1>4 DEF IsGroup
<1>. QED  BY <1>5, <1>6, <1>7 DEF D

LEMMA GroupIsMerged ==
    ASSUME NEW findings \in Seq(Seen), NEW key \in KeysOf(findings)
    PROVE  LET g == GroupOf(findings, key)
           IN  /\ MergeGroup(g) = MergedFrom({f \in Range(findings) : CanonicalKey(f) = key}, key,
                                             Primary(g).place, MergeVersions(g))
               /\ MergeGroup(g).key = key
<1>1. PICK g : g = GroupOf(findings, key)
  OBVIOUS
<1>2. IsGroup(g) /\ Range(g) = {f \in Range(findings) : CanonicalKey(f) = key}
  BY <1>1, GroupsOfJournals
<1>3. \A f \in Range(g) : CanonicalKey(f) = key
  BY <1>2
<1>4. MergeGroup(g) = MergedFrom(Range(g), key, Primary(g).place, MergeVersions(g))
  BY <1>2, <1>3, MergedFromFacts
<1>5. MergeGroup(g).key = key
  BY <1>4 DEF MergedFrom
<1>. QED  BY <1>1, <1>2, <1>4, <1>5

(* A merged journal has one finding to a key. *)
LEMMA MergedByKey ==
    ASSUME NEW findings \in Seq(Seen)
    PROVE  /\ {m.key : m \in Merge(findings)} = KeysOf(findings)
           /\ \A m \in Merge(findings) : m = MergeGroup(GroupOf(findings, m.key))
<1>1. \A key \in KeysOf(findings) : MergeGroup(GroupOf(findings, key)).key = key
  BY GroupIsMerged
<1>. QED  BY <1>1 DEF Merge

(* Two journals of the same findings, and versions, have the same outputs. *)
LEMMA SameFactsSameMerge ==
    ASSUME NEW a \in Seq(Seen), NEW b \in Seq(Seen), Range(a) = Range(b),
           \A key \in KeysOf(a) : MergeVersions(GroupOf(a, key)) = MergeVersions(GroupOf(b, key))
    PROVE  Merge(a) = Merge(b)
<1>1. KeysOf(a) = KeysOf(b)
  BY DEF KeysOf
<1>2. ASSUME NEW key \in KeysOf(a) PROVE MergeGroup(GroupOf(a, key)) = MergeGroup(GroupOf(b, key))
  <2>1. Primary(GroupOf(a, key)).place = Primary(GroupOf(b, key)).place
    <3>1. /\ IsGroup(GroupOf(a, key))
          /\ Range(GroupOf(a, key)) = {f \in Range(a) : CanonicalKey(f) = key}
      BY <1>2, GroupsOfJournals
    <3>2. /\ IsGroup(GroupOf(b, key))
          /\ Range(GroupOf(b, key)) = {f \in Range(b) : CanonicalKey(f) = key}
      BY <1>1, <1>2, GroupsOfJournals
    <3>. QED  BY <3>1, <3>2, SamePlace
  <2>2. MergeVersions(GroupOf(a, key)) = MergeVersions(GroupOf(b, key))
    BY <1>2
  <2>3. MergeGroup(GroupOf(a, key))
          = MergedFrom({f \in Range(a) : CanonicalKey(f) = key}, key,
                       Primary(GroupOf(a, key)).place, MergeVersions(GroupOf(a, key)))
    BY <1>2, GroupIsMerged
  <2>4. MergeGroup(GroupOf(b, key))
          = MergedFrom({f \in Range(b) : CanonicalKey(f) = key}, key,
                       Primary(GroupOf(b, key)).place, MergeVersions(GroupOf(b, key)))
    BY <1>1, <1>2, GroupIsMerged
  <2>. QED  BY <2>1, <2>2, <2>3, <2>4
<1>. QED  BY <1>1, <1>2 DEF Merge

----------------------------------------------------------------------------
(* The version of an asset, which alone depends on the order of arrival. *)

LEMMA BestVersionExists ==
    ASSUME NEW g, IsGroup(g), Versioned(g) # {}
    PROVE  BestVersioned(g) # {}
<1>1. Versioned(g) \subseteq DOMAIN g
  BY DEF Versioned
<1>2. \A i \in DOMAIN g : Rank(g[i].tier) \in Nat /\ i \in Nat
  BY SeenIsTyped DEF IsGroup
<1>. DEFINE ranks == {Rank(g[i].tier) : i \in Versioned(g)}
<1>3. ranks \in SUBSET Nat /\ ranks # {}
  BY <1>1, <1>2
<1>4. PICK r \in ranks : \A n \in ranks : r <= n
  BY <1>3, LeastNumber
<1>. DEFINE firsts == {i \in Versioned(g) : Rank(g[i].tier) = r}
<1>5. firsts \in SUBSET Nat /\ firsts # {}
  BY <1>1, <1>2, <1>4
<1>6. PICK k \in firsts : \A n \in firsts : k <= n
  BY <1>5, LeastNumber
<1>7. k \in Versioned(g) /\ Rank(g[k].tier) = r /\ k \in Nat
  BY <1>5, <1>6
<1>8. ASSUME NEW j \in Versioned(g), j # k
      PROVE  Rank(g[k].tier) < Rank(g[j].tier) \/ (Rank(g[k].tier) = Rank(g[j].tier) /\ k < j)
  <2>1. r <= Rank(g[j].tier) /\ Rank(g[j].tier) \in Nat /\ r \in Nat /\ j \in Nat
    BY <1>1, <1>2, <1>3, <1>4
  <2>2. r = Rank(g[j].tier) => k <= j
    BY <1>6
  <2>. QED  BY <1>7, <1>8, <2>1, <2>2
<1>. QED  BY <1>7, <1>8 DEF BestVersioned

LEMMA VersionOfTheBest ==
    ASSUME NEW g, IsGroup(g), NEW k \in BestVersioned(g)
    PROVE  MergeVersions(g) = g[k].version
<1>1. \A i \in DOMAIN g : Rank(g[i].tier) \in Nat /\ i \in Nat
  BY SeenIsTyped DEF IsGroup
<1>2. Versioned(g) \subseteq DOMAIN g /\ BestVersioned(g) \subseteq Versioned(g)
  BY DEF Versioned, BestVersioned
<1>3. PICK i : i = CHOOSE j \in BestVersioned(g) : TRUE
  OBVIOUS
<1>4. i \in BestVersioned(g)
  BY <1>3
<1>5. i = k
  <2>1. SUFFICES ASSUME i # k PROVE FALSE
    OBVIOUS
  <2>2. \/ Rank(g[i].tier) < Rank(g[k].tier)
        \/ Rank(g[i].tier) = Rank(g[k].tier) /\ i < k
    BY <1>2, <1>4, <2>1 DEF BestVersioned
  <2>3. \/ Rank(g[k].tier) < Rank(g[i].tier)
        \/ Rank(g[k].tier) = Rank(g[i].tier) /\ k < i
    BY <1>2, <1>4, <2>1 DEF BestVersioned
  <2>4. /\ Rank(g[k].tier) \in Nat /\ Rank(g[i].tier) \in Nat /\ i \in Nat /\ k \in Nat
    BY <1>1, <1>2, <1>4
  <2>. QED  BY <2>2, <2>3, <2>4
<1>. QED  BY <1>2, <1>3, <1>5 DEF MergeVersions

(* Equal journals of equal keys: what is left to show is that some finding  *)
(* is the best versioned of both groups.                                   *)
LEMMA SameVersion ==
    ASSUME NEW g, NEW h, IsGroup(g), IsGroup(h),
           Versioned(g) = {} => Versioned(h) = {},
           NEW moved,
           \A b \in BestVersioned(g) : moved[b] \in BestVersioned(h) /\ h[moved[b]] = g[b]
    PROVE  MergeVersions(h) = MergeVersions(g)
<1>1. CASE Versioned(g) = {}
  BY <1>1 DEF MergeVersions
<1>2. CASE Versioned(g) # {}
  <2>1. PICK b : b \in BestVersioned(g)
    BY <1>2, BestVersionExists
  <2>2. MergeVersions(g) = g[b].version
    BY <2>1, VersionOfTheBest
  <2>3. moved[b] \in BestVersioned(h) /\ h[moved[b]] = g[b]
    BY <2>1
  <2>4. MergeVersions(h) = h[moved[b]].version
    BY <2>3, VersionOfTheBest
  <2>. QED  BY <2>2, <2>3, <2>4
<1>. QED  BY <1>1, <1>2

----------------------------------------------------------------------------
(* Journals with the same findings. *)

LEMMA TwinChangesNothing ==
    ASSUME NEW findings \in Seq(Seen), NEW f \in Range(findings)
    PROVE  Merge(Append(findings, f)) = Merge(findings)
<1>. DEFINE n == Len(findings)
<1>1. PICK longer : longer = Append(findings, f)
  OBVIOUS
<1>2. n \in Nat /\ DOMAIN findings = 1..n /\ f \in Seen
  BY DEF Range
<1>3. /\ longer \in Seq(Seen) /\ DOMAIN longer = 1..(n + 1)
      /\ longer[n + 1] = f /\ \A i \in 1..n : longer[i] = findings[i]
  BY <1>1, <1>2
<1>4. Range(longer) = Range(findings)
  BY <1>2, <1>3 DEF Range
<1>5. KeysOf(longer) = KeysOf(findings)
  BY <1>4 DEF KeysOf
<1>6. ASSUME NEW key \in KeysOf(findings)
      PROVE  MergeVersions(GroupOf(longer, key)) = MergeVersions(GroupOf(findings, key))
  <2>1. PICK g : g = GroupOf(findings, key)
    OBVIOUS
  <2>2. PICK h : h = GroupOf(longer, key)
    OBVIOUS
  <2>3. /\ IsGroup(g) /\ DOMAIN g = {i \in 1..n : CanonicalKey(findings[i]) = key}
        /\ \A i \in DOMAIN g : g[i] = findings[i]
    BY <1>2, <2>1, GroupsOfJournals
  <2>4. /\ IsGroup(h) /\ DOMAIN h = {i \in 1..(n + 1) : CanonicalKey(longer[i]) = key}
        /\ \A i \in DOMAIN h : h[i] = longer[i]
    <3>1. longer \in Seq(Seen) /\ key \in KeysOf(longer)
      BY <1>3, <1>5, <1>6
    <3>. QED  BY <1>3, <2>2, <3>1, GroupsOfJournals
  <2>5. DOMAIN g \subseteq DOMAIN h /\ \A i \in DOMAIN g : h[i] = g[i]
    BY <1>2, <1>3, <2>3, <2>4
  <2>6. ASSUME NEW i \in DOMAIN h, i # n + 1 PROVE i \in DOMAIN g
    <3>1. i \in 1..n
      BY <1>2, <2>4, <2>6
    <3>. QED  BY <1>3, <2>3, <2>4, <3>1
  <2>7. n + 1 \in DOMAIN h => \E k \in DOMAIN g : k < n + 1 /\ g[k] = h[n + 1]
    <3>1. PICK k \in 1..n : findings[k] = f
      BY <1>2 DEF Range
    <3>2. n + 1 \in DOMAIN h => h[n + 1] = f /\ CanonicalKey(f) = key
      BY <1>3, <2>4
    <3>3. CanonicalKey(f) = key => k \in DOMAIN g /\ g[k] = f
      BY <2>3, <3>1
    <3>. QED  BY <1>2, <3>1, <3>2, <3>3
  <2>8. \A i \in Versioned(h) : i \in Versioned(g) \/
            (i = n + 1 /\ \E k \in Versioned(g) : k < n + 1 /\ g[k] = h[n + 1])
    BY <2>5, <2>6, <2>7 DEF Versioned
  <2>9. Versioned(g) \subseteq Versioned(h)
    BY <2>5 DEF Versioned
  <2>10. ASSUME NEW b \in BestVersioned(g) PROVE b \in BestVersioned(h) /\ h[b] = g[b]
    <3>1. b \in Versioned(g) /\ b \in DOMAIN g /\ b \in Nat
      BY <2>3 DEF BestVersioned, Versioned, IsGroup
    <3>2. ASSUME NEW j \in Versioned(h), j # b
          PROVE  Rank(h[b].tier) < Rank(h[j].tier) \/ (Rank(h[b].tier) = Rank(h[j].tier) /\ b < j)
      <4>1. CASE j \in Versioned(g)
        <5>1. h[j] = g[j] /\ h[b] = g[b]
          BY <2>5, <3>1, <4>1 DEF Versioned
        <5>. QED  BY <3>2, <4>1, <5>1 DEF BestVersioned
      <4>2. CASE j = n + 1
        <5>1. PICK k \in Versioned(g) : k < n + 1 /\ g[k] = h[j]
          <6>1. CASE j \in Versioned(g)
            BY <1>2, <2>3, <4>2, <6>1 DEF Versioned
          <6>. QED  BY <2>8, <4>2, <6>1
        <5>2. b < n + 1
          BY <1>2, <2>3, <3>1
        <5>3. CASE k = b
          BY <2>5, <3>1, <4>2, <5>1, <5>2, <5>3
        <5>4. CASE k # b
          <6>1. \/ Rank(g[b].tier) < Rank(g[k].tier)
                \/ Rank(g[b].tier) = Rank(g[k].tier)
            BY <5>1, <5>4 DEF BestVersioned
          <6>. QED  BY <2>5, <3>1, <4>2, <5>1, <5>2, <6>1
        <5>. QED  BY <5>3, <5>4
      <4>. QED  BY <2>8, <4>1, <4>2
    <3>. QED  BY <2>5, <2>9, <3>1, <3>2 DEF BestVersioned
  <2>11. Versioned(g) = {} => Versioned(h) = {}
    BY <2>8
  <2>12. \A b \in BestVersioned(g) :
            [i \in DOMAIN g |-> i][b] \in BestVersioned(h) /\ h[[i \in DOMAIN g |-> i][b]] = g[b]
    BY <2>10 DEF BestVersioned, Versioned
  <2>13. MergeVersions(h) = MergeVersions(g)
    BY <2>3, <2>4, <2>11, <2>12, SameVersion
  <2>. QED  BY <2>1, <2>2, <2>13
<1>7. Merge(longer) = Merge(findings)
  BY <1>3, <1>4, <1>5, <1>6, SameFactsSameMerge
<1>. QED  BY <1>1, <1>7

(* A target that is collected a second time adds nothing to the CBOM, the   *)
(* assessments, the queue or the counts, however long the journal and       *)
(* whatever the finding (normalise.py _merge_group).                        *)
THEOREM RescansAddNothing == Spec => []RescanAddsNothing
<1>1. LogInv => RescanAddsNothing
  BY TwinChangesNothing DEF LogInv, RescanAddsNothing, Outputs
<1>. QED  BY <1>1, JournalsHoldSightings, PTL

(* Two findings of different units never both give the version of one       *)
(* asset: versions come from the container collector, and an asset is of    *)
(* one target.                                                             *)
LEMMA OneUnitVersions ==
    ASSUME NEW f \in Seen, NEW g \in Seen, CanonicalKey(f) = CanonicalKey(g),
           f.version # Unset, g.version # Unset
    PROVE  <<f.target, f.collector>> = <<g.target, g.collector>>
<1>1. f.collector = "container" /\ g.collector = "container"
  BY SeenIsTyped
<1>2. f.target = g.target
  BY DEF CanonicalKey
<1>. QED  BY <1>1, <1>2

LEMMA SwapChangesNothing ==
    ASSUME NEW findings \in Seq(Seen), NEW i \in 1..(Len(findings) - 1),
           <<findings[i].target, findings[i].collector>>
             # <<findings[i + 1].target, findings[i + 1].collector>>
    PROVE  Merge([findings EXCEPT ![i] = findings[i + 1], ![i + 1] = findings[i]]) = Merge(findings)
<1>1. PICK n : n = Len(findings)
  OBVIOUS
<1>2. PICK swapped : swapped = [findings EXCEPT ![i] = findings[i + 1], ![i + 1] = findings[i]]
  OBVIOUS
<1>3. PICK turn : turn = [k \in 1..n |-> IF k = i THEN i + 1 ELSE IF k = i + 1 THEN i ELSE k]
  OBVIOUS
<1>4. n \in Nat /\ DOMAIN findings = 1..n /\ i \in 1..n /\ i + 1 \in 1..n
  BY <1>1
<1>5. /\ \A k \in 1..n : turn[k] \in 1..n /\ turn[turn[k]] = k
      /\ \A k, l \in 1..n : k < l => turn[k] < turn[l] \/ (k = i /\ l = i + 1)
  BY <1>3, <1>4
<1>6. DOMAIN swapped = 1..n /\ \A k \in 1..n : swapped[k] = findings[turn[k]]
  BY <1>2, <1>3, <1>4
<1>7. swapped \in Seq(Seen)
  BY <1>2, <1>4
<1>8. Range(swapped) = Range(findings)
  <2>1. \A k \in 1..n : swapped[turn[k]] = findings[k]
    BY <1>5, <1>6
  <2>. QED  BY <1>4, <1>5, <1>6, <2>1 DEF Range
<1>9. KeysOf(swapped) = KeysOf(findings)
  BY <1>8 DEF KeysOf
<1>10. ASSUME NEW key \in KeysOf(findings)
       PROVE  MergeVersions(GroupOf(swapped, key)) = MergeVersions(GroupOf(findings, key))
  <2>1. PICK g : g = GroupOf(findings, key)
    OBVIOUS
  <2>2. PICK h : h = GroupOf(swapped, key)
    OBVIOUS
  <2>3. /\ IsGroup(g) /\ DOMAIN g = {k \in 1..n : CanonicalKey(findings[k]) = key}
        /\ \A k \in DOMAIN g : g[k] = findings[k]
    BY <1>4, <2>1, GroupsOfJournals
  <2>4. /\ IsGroup(h) /\ DOMAIN h = {k \in 1..n : CanonicalKey(swapped[k]) = key}
        /\ \A k \in DOMAIN h : h[k] = swapped[k]
    <3>1. swapped \in Seq(Seen) /\ key \in KeysOf(swapped)
      BY <1>7, <1>9, <1>10
    <3>2. /\ IsGroup(GroupOf(swapped, key))
          /\ DOMAIN GroupOf(swapped, key) = {k \in DOMAIN swapped : CanonicalKey(swapped[k]) = key}
          /\ \A k \in DOMAIN GroupOf(swapped, key) : GroupOf(swapped, key)[k] = swapped[k]
      BY <3>1, GroupsOfJournals
    <3>3. DOMAIN swapped = 1..n
      BY <1>6
    <3>. QED  BY <2>2, <3>2, <3>3
  <2>5. /\ \A k \in DOMAIN g : turn[k] \in DOMAIN h /\ h[turn[k]] = g[k]
        /\ \A k \in DOMAIN h : turn[k] \in DOMAIN g /\ g[turn[k]] = h[k]
    BY <1>5, <1>6, <2>3, <2>4
  <2>6. /\ \A k \in Versioned(g) : turn[k] \in Versioned(h)
        /\ \A k \in Versioned(h) : turn[k] \in Versioned(g)
    BY <2>5 DEF Versioned
  <2>7. ASSUME NEW k \in Versioned(g), NEW l \in Versioned(g), k < l
        PROVE  turn[k] < turn[l]
    <3>1. k \in 1..n /\ l \in 1..n /\ g[k] = findings[k] /\ g[l] = findings[l]
      BY <2>3 DEF Versioned
    <3>2. /\ CanonicalKey(findings[k]) = CanonicalKey(findings[l])
          /\ findings[k].version # Unset /\ findings[l].version # Unset
      BY <2>3, <3>1 DEF Versioned
    <3>3. findings[k] \in Seen /\ findings[l] \in Seen
      BY <1>4, <3>1
    <3>4. <<findings[k].target, findings[k].collector>> = <<findings[l].target, findings[l].collector>>
      BY <3>2, <3>3, OneUnitVersions
    <3>5. ~(k = i /\ l = i + 1)
      BY <3>4
    <3>. QED  BY <1>5, <2>7, <3>1, <3>5
  <2>8. ASSUME NEW b \in BestVersioned(g)
        PROVE  turn[b] \in BestVersioned(h) /\ h[turn[b]] = g[b]
    <3>1. b \in Versioned(g) /\ b \in DOMAIN g
      BY DEF BestVersioned, Versioned
    <3>2. ASSUME NEW j \in Versioned(h), j # turn[b]
          PROVE  \/ Rank(h[turn[b]].tier) < Rank(h[j].tier)
                 \/ Rank(h[turn[b]].tier) = Rank(h[j].tier) /\ turn[b] < j
      <4>1. PICK l : l = turn[j]
        OBVIOUS
      <4>2. j \in DOMAIN h /\ j \in 1..n
        BY <2>4 DEF Versioned
      <4>3. l \in Versioned(g) /\ turn[l] = j /\ l # b /\ h[j] = g[l]
        BY <1>5, <2>5, <2>6, <3>2, <4>1, <4>2
      <4>4. \/ Rank(g[b].tier) < Rank(g[l].tier)
            \/ Rank(g[b].tier) = Rank(g[l].tier) /\ b < l
        BY <4>3 DEF BestVersioned
      <4>5. b < l => turn[b] < j
        BY <2>7, <3>1, <4>3
      <4>. QED  BY <2>5, <3>1, <4>3, <4>4, <4>5
    <3>. QED  BY <2>5, <2>6, <3>1, <3>2 DEF BestVersioned
  <2>9. Versioned(g) = {} => Versioned(h) = {}
    BY <2>6
  <2>10. MergeVersions(h) = MergeVersions(g)
    BY <2>3, <2>4, <2>8, <2>9, SameVersion
  <2>. QED  BY <2>1, <2>2, <2>10
<1>11. Merge(swapped) = Merge(findings)
  BY <1>7, <1>8, <1>9, <1>10, SameFactsSameMerge
<1>. QED  BY <1>2, <1>11

(* Which unit of a scan finished first shows in no output: normalise.merge  *)
(* keeps its promise to be independent of the order of findings, as far as  *)
(* units are concerned.                                                    *)
THEOREM CompletionOrderShowsNowhere == Spec => []CompletionOrderIrrelevant
<1>1. ASSUME LogInv PROVE CompletionOrderIrrelevant
  <2>1. ASSUME NEW i \in 1..(Len(log) - 1),
               <<log[i].target, log[i].collector>> # <<log[i + 1].target, log[i + 1].collector>>
        PROVE  Merge(Swapped(i)) = Merge(log)
    BY <1>1, <2>1, SwapChangesNothing DEF LogInv, Swapped
  <2>. QED  BY <2>1 DEF CompletionOrderIrrelevant, Outputs
<1>. QED  BY <1>1, JournalsHoldSightings, PTL

----------------------------------------------------------------------------
(* What is made of the merged findings. *)

(* A bill of materials has the assets that reach the floor, each under its  *)
(* own key.                                                                *)
LEMMA BomOfMerged ==
    ASSUME NEW findings \in Seq(Seen)
    PROVE  /\ \A key : key \in DOMAIN Cbom(findings) <=>
                  /\ key \in KeysOf(findings)
                  /\ MergeGroup(GroupOf(findings, key)).confidence >= Floor
           /\ \A key \in DOMAIN Cbom(findings) :
                  Cbom(findings)[key] = Component(MergeGroup(GroupOf(findings, key)))
<1>. DEFINE kept == Kept(Merge(findings), Floor)
            keys == {m.key : m \in kept}
<1>1. Cbom(findings) = [key \in keys |-> Component(CHOOSE m \in kept : m.key = key)]
  BY DEF Cbom, BuildBom
<1>2. DOMAIN Cbom(findings) = keys
  BY <1>1
<1>3. \A key \in KeysOf(findings) :
          MergeGroup(GroupOf(findings, key)) \in Merge(findings)
            /\ MergeGroup(GroupOf(findings, key)).key = key
  BY GroupIsMerged DEF Merge
<1>4. \A m \in Merge(findings) : m.key \in KeysOf(findings) /\ m = MergeGroup(GroupOf(findings, m.key))
  BY MergedByKey
<1>5. ASSUME NEW key
      PROVE  key \in keys <=>
                  /\ key \in KeysOf(findings)
                  /\ MergeGroup(GroupOf(findings, key)).confidence >= Floor
  <2>1. ASSUME key \in keys
        PROVE  key \in KeysOf(findings) /\ MergeGroup(GroupOf(findings, key)).confidence >= Floor
    BY <1>4, <2>1 DEF Kept
  <2>2. ASSUME key \in KeysOf(findings), MergeGroup(GroupOf(findings, key)).confidence >= Floor
        PROVE  key \in keys
    <3>1. MergeGroup(GroupOf(findings, key)) \in kept /\ MergeGroup(GroupOf(findings, key)).key = key
      BY <1>3, <2>2 DEF Kept
    <3>. QED  BY <3>1
  <2>. QED  BY <2>1, <2>2
<1>6. ASSUME NEW key \in keys
      PROVE  (CHOOSE m \in kept : m.key = key) = MergeGroup(GroupOf(findings, key))
  <2>1. PICK m \in kept : m.key = key
    OBVIOUS
  <2>2. \A k \in kept : k.key = key => k = MergeGroup(GroupOf(findings, key))
    BY <1>4 DEF Kept
  <2>. QED  BY <2>1, <2>2
<1>. HIDE DEF kept, keys
<1>. QED  BY <1>1, <1>2, <1>5, <1>6

LEMMA FindingsAreMerged ==
    ASSUME NEW findings \in Seq(Seen), NEW f \in Range(findings)
    PROVE  LET m == MergeGroup(GroupOf(findings, CanonicalKey(f)))
           IN  Location(f) \in m.locations /\ Evidence(f) \in m.evidence
<1>1. PICK key : key = CanonicalKey(f)
  OBVIOUS
<1>2. PICK m : m = MergeGroup(GroupOf(findings, key))
  OBVIOUS
<1>3. key \in KeysOf(findings)
  BY <1>1 DEF KeysOf
<1>. DEFINE facts == {g \in Range(findings) : CanonicalKey(g) = key}
<1>4. m = MergedFrom(facts, key, Primary(GroupOf(findings, key)).place,
                     MergeVersions(GroupOf(findings, key)))
  BY <1>2, <1>3, GroupIsMerged
<1>5. m.locations = {Location(g) : g \in facts} /\ m.evidence = {Evidence(g) : g \in facts}
  BY <1>4 DEF MergedFrom
<1>6. f \in facts
  BY <1>1
<1>. QED  BY <1>1, <1>2, <1>5, <1>6

(* What the diff compares of an asset depends on which findings there are,  *)
(* and neither on their order nor on the version among them.               *)
LEMMA TrackedOfFacts ==
    ASSUME NEW a \in Seq(Seen), NEW b \in Seq(Seen), Range(a) = Range(b), NEW key \in KeysOf(a)
    PROVE  LET m == MergeGroup(GroupOf(a, key))
               n == MergeGroup(GroupOf(b, key))
           IN  /\ m.confidence = n.confidence
               /\ \A p \in Tracked : Component(m)[p] = Component(n)[p]
<1>1. PICK m : m = MergeGroup(GroupOf(a, key))
  OBVIOUS
<1>2. PICK n : n = MergeGroup(GroupOf(b, key))
  OBVIOUS
<1>3. key \in KeysOf(b)
  BY DEF KeysOf
<1>. DEFINE facts == {f \in Range(a) : CanonicalKey(f) = key}
<1>4. m = MergedFrom(facts, key, Primary(GroupOf(a, key)).place, MergeVersions(GroupOf(a, key)))
  BY <1>1, GroupIsMerged
<1>5. n = MergedFrom(facts, key, Primary(GroupOf(b, key)).place, MergeVersions(GroupOf(b, key)))
  BY <1>2, <1>3, GroupIsMerged
<1>. HIDE DEF facts
<1>6. /\ m.key = n.key /\ m.confidence = n.confidence
      /\ m.surfaces = n.surfaces /\ m.collectors = n.collectors
  BY <1>4, <1>5 DEF MergedFrom
<1>7. Corroborated(m) = Corroborated(n)
  BY <1>6 DEF Corroborated
<1>8. /\ Component(m).confidence = Component(n).confidence
      /\ Component(m).surfaces = Component(n).surfaces
      /\ Component(m).collectors = Component(n).collectors
      /\ Component(m).corroborated = Component(n).corroborated
      /\ Component(m).quantum = Component(n).quantum
      /\ Component(m).classical = Component(n).classical
  BY <1>6, <1>7 DEF Component
<1>. QED  BY <1>1, <1>2, <1>6, <1>8 DEF Tracked

(* A quarter that finds the same facts reports no change, in whatever order *)
(* and however often they were journalled (diff.py compare).                *)
THEOREM SameFactsNoChanges == Spec => []QuietQuarter
<1>1. ASSUME LogInv, Range(log) = Range(earlier) PROVE ~HasChanges(QuarterlyDiff)
  <2>1. log \in Seq(Seen) /\ earlier \in Seq(Seen) /\ KeysOf(log) = KeysOf(earlier)
    BY <1>1 DEF LogInv, KeysOf
  <2>2. \A key \in KeysOf(log) :
            MergeGroup(GroupOf(log, key)).confidence = MergeGroup(GroupOf(earlier, key)).confidence
    BY <1>1, <2>1, TrackedOfFacts
  <2>3. PICK before : before = Cbom(earlier)
    OBVIOUS
  <2>4. PICK after : after = Cbom(log)
    OBVIOUS
  <2>5. DOMAIN before = DOMAIN after
    <3>1. \A key : key \in DOMAIN before <=> key \in DOMAIN after
      <4>1. \A key : key \in DOMAIN after <=>
                /\ key \in KeysOf(log) /\ MergeGroup(GroupOf(log, key)).confidence >= Floor
        BY <2>1, <2>4, BomOfMerged
      <4>2. \A key : key \in DOMAIN before <=>
                /\ key \in KeysOf(earlier) /\ MergeGroup(GroupOf(earlier, key)).confidence >= Floor
        BY <2>1, <2>3, BomOfMerged
      <4>. QED  BY <2>1, <2>2, <4>1, <4>2
    <3>. QED  BY <3>1
  <2>6. ASSUME NEW key \in DOMAIN after PROVE Deltas(before[key], after[key]) = {}
    <3>1. key \in KeysOf(log) /\ after[key] = Component(MergeGroup(GroupOf(log, key)))
      BY <2>1, <2>4, BomOfMerged
    <3>2. before[key] = Component(MergeGroup(GroupOf(earlier, key)))
      BY <2>1, <2>3, <2>5, BomOfMerged
    <3>3. \A p \in Tracked : after[key][p] = before[key][p]
      BY <1>1, <2>1, <3>1, <3>2, TrackedOfFacts
    <3>. QED  BY <3>3 DEF Deltas
  <2>7. PICK diff : diff = Compare(before, after)
    OBVIOUS
  <2>8. diff.appeared = {} /\ diff.disappeared = {} /\ DOMAIN diff.changed = {}
    BY <2>5, <2>6, <2>7 DEF Compare
  <2>. QED  BY <2>3, <2>4, <2>7, <2>8 DEF QuarterlyDiff, HasChanges
<1>2. LogInv => QuietQuarter
  BY <1>1 DEF QuietQuarter
<1>. QED  BY <1>2, JournalsHoldSightings, PTL

LEMMA KeyOfAlgorithm ==
    ASSUME NamesResolveToThemselves, NEW f \in Seen, f.kind = "algorithm",
           Canonicalise(f.name, f.params) # UnknownAlgorithm
    PROVE  LET c == Canonicalise(f.name, f.params)
           IN  f.name = c.name /\ f.params = c.params
<1>0. PICK s \in Sightings : \E name, params, tier, functions :
          Made(s, name, params, tier, functions) /\ f = FindingOf(s, name, params, tier, functions)
  BY SeenIsMade
<1>1. PICK name, params, tier, functions :
          Made(s, name, params, tier, functions) /\ f = FindingOf(s, name, params, tier, functions)
  BY <1>0
<1>2. f.kind = s.kind /\ f.name = name /\ f.params = params
  BY <1>1 DEF FindingOf
<1>3. PICK c : c = Canonicalise(s.raw, s.params)
  OBVIOUS
<1>4. CASE c # UnknownAlgorithm
  <2>1. name = c.name /\ params = c.params
    BY <1>1, <1>2, <1>3, <1>4 DEF Made
  <2>2. Canonicalise(name, params) = c
    BY <1>2, <1>3, <1>4, <2>1 DEF NamesResolveToThemselves
  <2>. QED  BY <1>2, <2>1, <2>2
<1>5. CASE c = UnknownAlgorithm
  <2>1. name = s.raw /\ params = s.params
    BY <1>1, <1>2, <1>3, <1>5 DEF Made
  <2>. QED  BY <1>2, <1>3, <1>5, <2>1
<1>. QED  BY <1>4, <1>5

(* The name of an algorithm says no more than its family, parameter and     *)
(* mode.                                                                   *)
LEMMA NameOfConfiguration ==
    ASSUME NEW tokens, NEW params, NEW c, c = Canonicalise(tokens, params), c # UnknownAlgorithm
    PROVE  c.name = RenderName(c.family, c.params.param, c.params.mode)
<1>1. PICK f : f = ResolveFamily(tokens)
  OBVIOUS
<1>2. f # Unset
  BY <1>1 DEF Canonicalise, CanonicalOf
<1>3. PICK p : p = ExtractParameter(Entry[f], tokens, params.param)
  OBVIOUS
<1>4. c = Algorithm(f, Entry[f], p, params)
  BY <1>1, <1>2, <1>3 DEF Canonicalise, CanonicalOf
<1>. QED  BY <1>4 DEF Algorithm

(* However many ecosystems spell it, a target has one asset for a family    *)
(* with its parameter, mode and padding: the collectors' names are          *)
(* canonical, if the registry resolves its own names to the algorithms they *)
(* were made for (canonical.py canonicalise, ir.py canonical_key).          *)
THEOREM ConfigurationsAreOnce ==
    ASSUME NamesResolveToThemselves
    PROVE  Spec => []OneAssetPerConfiguration
<1>1. ASSUME LogInv, NEW m \in Merge(log), NEW n \in Merge(log),
             NEW c, c = Canonicalise(m.key.name, m.key.params),
             NEW d, d = Canonicalise(n.key.name, n.key.params),
             m.key.target = n.key.target,
             m.key.kind = "algorithm", n.key.kind = "algorithm",
             c # UnknownAlgorithm, d # UnknownAlgorithm,
             c.family = d.family, c.params = d.params
      PROVE  m = n
  <2>1. /\ m.key \in KeysOf(log) /\ m = MergeGroup(GroupOf(log, m.key))
        /\ n.key \in KeysOf(log) /\ n = MergeGroup(GroupOf(log, n.key))
    BY <1>1, MergedByKey DEF LogInv
  <2>2. PICK f \in Range(log) : m.key = CanonicalKey(f)
    BY <2>1 DEF KeysOf
  <2>3. PICK g \in Range(log) : n.key = CanonicalKey(g)
    BY <2>1 DEF KeysOf
  <2>4. f \in Seen /\ g \in Seen
    BY <1>1 DEF LogInv, Range
  <2>5. /\ m.key = [target |-> f.target, kind |-> f.kind, name |-> f.name, params |-> f.params]
        /\ n.key = [target |-> g.target, kind |-> g.kind, name |-> g.name, params |-> g.params]
    BY <2>2, <2>3 DEF CanonicalKey
  <2>6. f.name = c.name /\ f.params = c.params
    BY <1>1, <2>4, <2>5, KeyOfAlgorithm
  <2>7. g.name = d.name /\ g.params = d.params
    BY <1>1, <2>4, <2>5, KeyOfAlgorithm
  <2>8. c.name = d.name
    BY <1>1, NameOfConfiguration
  <2>9. m.key = n.key
    BY <1>1, <2>5, <2>6, <2>7, <2>8
  <2>. QED  BY <2>1, <2>9
<1>2. LogInv => OneAssetPerConfiguration
  BY <1>1 DEF OneAssetPerConfiguration
<1>. QED  BY <1>2, JournalsHoldSightings, PTL

----------------------------------------------------------------------------
(* Products, and with them the confidence of witnesses. *)

(* The partial products of n factors. *)
Partial(p, factor, n) ==
    /\ DOMAIN p = 0..n
    /\ p[0] = 1
    /\ \A k \in 1..n : p[k] = p[k - 1] * factor[k]

LEMMA PartialsExist ==
    ASSUME NEW n \in Nat, NEW factor, \A k \in 1..n : factor[k] \in Int
    PROVE  \E p \in [0..n -> Int] : Partial(p, factor, n)
<1>. DEFINE Has(m) == \E p \in [0..m -> Int] : Partial(p, factor, m)
            lacking == {m \in 0..n : ~Has(m)}
<1>1. Has(0)
  <2>1. PICK p : p = [k \in 0..0 |-> 1]
    OBVIOUS
  <2>2. p \in [0..0 -> Int] /\ DOMAIN p = 0..0 /\ p[0] = 1
    BY <2>1
  <2>3. Partial(p, factor, 0)
    BY <2>2 DEF Partial
  <2>. QED  BY <2>2, <2>3
<1>2. ASSUME NEW m \in 0..n, m # 0, Has(m - 1) PROVE Has(m)
  <2>1. PICK p \in [0..(m - 1) -> Int] : Partial(p, factor, m - 1)
    BY <1>2
  <2>2. PICK q : q = [k \in 0..m |-> IF k = m THEN p[m - 1] * factor[m] ELSE p[k]]
    OBVIOUS
  <2>3. m \in Nat /\ m - 1 \in 0..(m - 1) /\ factor[m] \in Int /\ p[m - 1] \in Int
    BY <1>2
  <2>4. p[m - 1] * factor[m] \in Int
    BY <2>3
  <2>5. q \in [0..m -> Int]
    BY <2>1, <2>2, <2>3, <2>4
  <2>6. q[0] = 1
    BY <1>2, <2>1, <2>2 DEF Partial
  <2>7. ASSUME NEW k \in 1..m PROVE q[k] = q[k - 1] * factor[k]
    <3>1. CASE k = m
      BY <2>2, <2>3, <3>1
    <3>2. CASE k # m
      <4>1. k \in 1..(m - 1) /\ q[k] = p[k] /\ q[k - 1] = p[k - 1]
        BY <2>2, <2>3, <3>2
      <4>. QED  BY <2>1, <4>1 DEF Partial
    <3>. QED  BY <3>1, <3>2
  <2>. QED  BY <2>5, <2>6, <2>7 DEF Partial
<1>3. lacking = {}
  <2>1. SUFFICES ASSUME lacking # {} PROVE FALSE
    OBVIOUS
  <2>2. lacking \in SUBSET Nat
    OBVIOUS
  <2>. HIDE DEF Has
  <2>3. PICK m \in lacking : \A k \in lacking : m <= k
    BY <2>1, <2>2, LeastNumber
  <2>4. m \in 0..n /\ m # 0 /\ m - 1 \in 0..n /\ ~(m <= m - 1)
    BY <1>1, <2>3
  <2>5. Has(m - 1)
    BY <2>3, <2>4
  <2>. QED  BY <1>2, <2>3, <2>4, <2>5
<1>4. n \in 0..n
  OBVIOUS
<1>5. Has(n)
  BY <1>3, <1>4
<1>. QED  BY <1>5

(* Products of the same factors are the same. *)
SameFactors(factor, other, n) == \A k \in 1..n : factor[k] = other[k]

LEMMA PartialsAgree ==
    ASSUME NEW m \in Nat, NEW n \in Nat, m <= n, NEW factor, NEW other,
           SameFactors(factor, other, m),
           NEW p, Partial(p, factor, m), NEW q, Partial(q, other, n)
    PROVE  \A k \in 0..m : p[k] = q[k]
<1>. DEFINE differ == {k \in 0..m : p[k] # q[k]}
<1>1. SUFFICES ASSUME differ # {} PROVE FALSE
  OBVIOUS
<1>2. differ \in SUBSET Nat
  OBVIOUS
<1>3. PICK k \in differ : \A l \in differ : k <= l
  BY <1>1, <1>2, LeastNumber
<1>4. k # 0
  BY <1>3 DEF Partial
<1>5. k \in 1..m /\ k \in 1..n /\ k - 1 \in 0..m /\ ~(k <= k - 1)
  BY <1>3, <1>4
<1>6. p[k - 1] = q[k - 1]
  BY <1>3, <1>5
<1>7. p[k] = q[k]
  BY <1>5, <1>6 DEF Partial, SameFactors
<1>. QED  BY <1>3, <1>7

LEMMA ProductIsPartial ==
    ASSUME NEW n \in Nat, NEW factor, \A k \in 1..n : factor[k] \in Int
    PROVE  \E p \in [0..n -> Int] : Partial(p, factor, n) /\ Product(factor, n) = p[n]
<1>. DEFINE Step(p) == [k \in 0..n |-> IF k = 0 THEN 1 ELSE p[k - 1] * factor[k]]
<1>1. PICK q : q = CHOOSE p : p = Step(p)
  OBVIOUS
<1>2. Product(factor, n) = q[n]
  BY <1>1 DEF Product
<1>3. PICK p \in [0..n -> Int] : Partial(p, factor, n)
  BY PartialsExist
<1>4. p = Step(p)
  <2>1. \A k \in 0..n : p[k] = IF k = 0 THEN 1 ELSE p[k - 1] * factor[k]
    BY <1>3 DEF Partial
  <2>. QED  BY <1>3, <2>1
<1>5. q = Step(q)
  BY <1>1, <1>4
<1>6. Partial(q, factor, n)
  <2>1. DOMAIN q = 0..n /\ \A k \in 0..n : q[k] = IF k = 0 THEN 1 ELSE q[k - 1] * factor[k]
    BY <1>5
  <2>. QED  BY <2>1 DEF Partial
<1>7. q[n] = p[n]
  <2>1. SameFactors(factor, factor, n) /\ n <= n /\ n \in 0..n
    BY DEF SameFactors
  <2>2. \A k \in 0..n : q[k] = p[k]
    BY <1>3, <1>6, <2>1, PartialsAgree
  <2>. QED  BY <2>1, <2>2
<1>. QED  BY <1>2, <1>3, <1>7

LEMMA ProductIsInt ==
    ASSUME NEW n \in Nat, NEW factor, \A k \in 1..n : factor[k] \in Int
    PROVE  Product(factor, n) \in Int
BY ProductIsPartial

LEMMA ProductOfNone == ASSUME NEW factor PROVE Product(factor, 0) = 1
<1>1. \A k \in 1..0 : factor[k] \in Int
  OBVIOUS
<1>2. PICK p \in [0..0 -> Int] : Partial(p, factor, 0) /\ Product(factor, 0) = p[0]
  BY <1>1, ProductIsPartial
<1>. QED  BY <1>2 DEF Partial

(* One factor more; the others are the same, in whichever function. *)
LEMMA ProductOfMore ==
    ASSUME NEW n \in Nat, NEW factor, NEW other, \A k \in 1..n : factor[k] \in Int,
           \A k \in 1..n : other[k] = factor[k], other[n + 1] \in Int
    PROVE  Product(other, n + 1) = Product(factor, n) * other[n + 1]
<1>1. PICK p \in [0..n -> Int] : Partial(p, factor, n) /\ Product(factor, n) = p[n]
  BY ProductIsPartial
<1>2. ASSUME NEW k \in 1..(n + 1) PROVE other[k] \in Int
  <2>1. k \in 1..n \/ k = n + 1
    OBVIOUS
  <2>2. CASE k \in 1..n
    BY <2>2
  <2>. QED  BY <2>1, <2>2
<1>3. PICK q \in [0..(n + 1) -> Int] : Partial(q, other, n + 1) /\ Product(other, n + 1) = q[n + 1]
  <2>1. n + 1 \in Nat
    OBVIOUS
  <2>. QED  BY <1>2, <2>1, ProductIsPartial
<1>4. q[n] = p[n]
  <2>1. n + 1 \in Nat /\ n <= n + 1 /\ n \in 0..n
    OBVIOUS
  <2>2. SameFactors(factor, other, n)
    BY DEF SameFactors
  <2>3. Partial(p, factor, n) /\ Partial(q, other, n + 1)
    BY <1>1, <1>3
  <2>4. PICK m \in Nat : m = n + 1
    BY <2>1
  <2>5. \A k \in 0..n : p[k] = q[k]
    <3>1. n <= m /\ Partial(q, other, m)
      BY <2>1, <2>3, <2>4
    <3>. QED  BY <2>2, <2>3, <3>1, PartialsAgree
  <2>. QED  BY <2>1, <2>5
<1>5. q[n + 1] = q[n] * other[n + 1]
  BY <1>3 DEF Partial
<1>. QED  BY <1>1, <1>3, <1>4, <1>5

LEMMA PowerGrows ==
    ASSUME NEW base \in Int, NEW n \in Nat
    PROVE  Power(base, n) \in Int /\ Power(base, 0) = 1 /\ Power(base, n + 1) = Power(base, n) * base
<1>. DEFINE f == [k \in 1..n |-> base]
            g == [k \in 1..(n + 1) |-> base]
<1>1. (\A k \in 1..n : f[k] \in Int) /\ \A k \in 1..n : g[k] = f[k]
  OBVIOUS
<1>2. g[n + 1] = base
  OBVIOUS
<1>3. Product(f, n) = Power(base, n) /\ Product(g, n + 1) = Power(base, n + 1)
  BY DEF Power
<1>. HIDE DEF f, g
<1>4. Product(g, n + 1) = Product(f, n) * g[n + 1]
  <2>1. g[n + 1] \in Int
    BY <1>2
  <2>. QED  BY <1>1, <2>1, ProductOfMore
<1>5. Product(f, n) \in Int
  BY <1>1, ProductIsInt
<1>6. Power(base, 0) = 1
  BY ProductOfNone DEF Power
<1>. QED  BY <1>2, <1>3, <1>4, <1>5, <1>6

LEMMA ProductsOfPositive ==
    ASSUME NEW n \in Nat, NEW factor, \A k \in 1..n : factor[k] \in Nat /\ factor[k] > 0
    PROVE  Product(factor, n) \in Nat /\ Product(factor, n) > 0
<1>0. \A k \in 1..n : factor[k] \in Int
  OBVIOUS
<1>1. PICK p \in [0..n -> Int] : Partial(p, factor, n) /\ Product(factor, n) = p[n]
  BY <1>0, ProductIsPartial
<1>. DEFINE wrong == {k \in 0..n : ~(p[k] > 0)}
<1>2. wrong = {}
  <2>1. SUFFICES ASSUME wrong # {} PROVE FALSE
    OBVIOUS
  <2>2. wrong \in SUBSET Nat
    OBVIOUS
  <2>3. PICK k \in wrong : \A l \in wrong : k <= l
    BY <2>1, <2>2, LeastNumber
  <2>4. k # 0
    BY <1>1, <2>3 DEF Partial
  <2>5. k \in 1..n /\ k - 1 \in 0..n /\ ~(k <= k - 1)
    BY <2>3, <2>4
  <2>6. p[k - 1] > 0 /\ p[k - 1] \in Int /\ factor[k] > 0 /\ factor[k] \in Int
    BY <1>1, <2>3, <2>5
  <2>7. \A a, b \in Int : a > 0 /\ b > 0 => a * b > 0
    OBVIOUS
  <2>8. p[k] > 0
    BY <1>1, <2>5, <2>6, <2>7 DEF Partial
  <2>. QED  BY <2>3, <2>8
<1>3. n \in 0..n
  OBVIOUS
<1>. QED  BY <1>1, <1>2, <1>3

LEMMA PowersOfPositive ==
    ASSUME NEW base \in Nat, base > 0, NEW n \in Nat
    PROVE  Power(base, n) \in Nat /\ Power(base, n) > 0
<1>1. \A k \in 1..n : [i \in 1..n |-> base][k] \in Nat /\ [i \in 1..n |-> base][k] > 0
  OBVIOUS
<1>. QED  BY <1>1, ProductsOfPositive DEF Power

(* To multiply one factor is to multiply the product. *)
ScaledAt(v, w, d, j, n) == \A k \in 1..n : v[k] = IF k = j THEN d * w[k] ELSE w[k]

Integral(w, n) == \A k \in 1..n : w[k] \in Int

LEMMA ProductScales ==
    ASSUME NEW n \in Nat, NEW w, NEW v, NEW d \in Int, NEW j \in 1..n,
           Integral(w, n), ScaledAt(v, w, d, j, n)
    PROVE  Product(v, n) = d * Product(w, n)
<1>0. /\ \A k \in 1..n : w[k] \in Int
      /\ \A k \in 1..n : v[k] = IF k = j THEN d * w[k] ELSE w[k]
  BY DEF Integral, ScaledAt
<1>1. PICK p \in [0..n -> Int] : Partial(p, w, n) /\ Product(w, n) = p[n]
  BY <1>0, ProductIsPartial
<1>2. \A k \in 1..n : v[k] \in Int
  BY <1>0
<1>3. PICK q \in [0..n -> Int] : Partial(q, v, n) /\ Product(v, n) = q[n]
  BY <1>2, ProductIsPartial
<1>. DEFINE Scaled(k) == IF k < j THEN p[k] ELSE d * p[k]
            wrong == {k \in 0..n : q[k] # Scaled(k)}
<1>4. wrong = {}
  <2>1. SUFFICES ASSUME wrong # {} PROVE FALSE
    OBVIOUS
  <2>2. wrong \in SUBSET Nat
    OBVIOUS
  <2>3. PICK k \in wrong : \A l \in wrong : k <= l
    BY <2>1, <2>2, LeastNumber
  <2>4. k # 0
    BY <1>1, <1>3, <2>3 DEF Partial
  <2>5. k \in 1..n /\ k - 1 \in 0..n /\ ~(k <= k - 1)
    BY <2>3, <2>4
  <2>6. q[k - 1] = Scaled(k - 1)
    BY <2>3, <2>5
  <2>7. q[k] = q[k - 1] * v[k] /\ p[k] = p[k - 1] * w[k]
    BY <1>1, <1>3, <2>5 DEF Partial
  <2>8. PICK a \in Int : a = p[k - 1]
    BY <1>1, <2>5
  <2>9. PICK b \in Int : b = w[k]
    BY <1>0, <2>5
  <2>10. \A x, y, z \in Int : (x * y) * z = x * (y * z) /\ y * (x * z) = x * (y * z)
    OBVIOUS
  <2>11. CASE k < j
    BY <1>0, <2>3, <2>5, <2>6, <2>7, <2>11
  <2>12. CASE k = j
    <3>1. q[k] = a * (d * b) /\ p[k] = a * b
      BY <1>0, <2>5, <2>6, <2>7, <2>8, <2>9, <2>12
    <3>2. q[k] = d * p[k]
      BY <2>10, <3>1
    <3>. QED  BY <2>3, <2>12, <3>2
  <2>13. CASE k > j
    <3>1. q[k] = (d * a) * b /\ p[k] = a * b
      BY <1>0, <2>5, <2>6, <2>7, <2>8, <2>9, <2>13
    <3>2. q[k] = d * p[k]
      BY <2>10, <3>1
    <3>. QED  BY <2>3, <2>5, <2>13, <3>2
  <2>. QED  BY <2>5, <2>11, <2>12, <2>13
<1>5. n \in 0..n /\ ~(n < j)
  OBVIOUS
<1>6. q[n] = Scaled(n)
  BY <1>4, <1>5
<1>. QED  BY <1>1, <1>3, <1>5, <1>6

LEMMA DivOfLess ==
    ASSUME NEW a \in Nat, NEW b \in Nat, b > 0, NEW c \in Nat, a <= 100 * c
    PROVE  a \div (100 * b) <= c \div b
<1>1. \A x, y \in Int : y > 0 => /\ x \div y \in Int
                                 /\ (x \div y) * y <= x
                                 /\ x < (x \div y + 1) * y
  OBVIOUS
<1>2. PICK s \in Int : s = 100 * b
  OBVIOUS
<1>3. PICK q \in Int : q = a \div s
  BY <1>1, <1>2
<1>4. PICK r \in Int : r = c \div b
  BY <1>1
<1>5. q * s <= a
  BY <1>1, <1>2, <1>3
<1>6. c < (r + 1) * b
  BY <1>1, <1>4
<1>7. q * s = 100 * (q * b)
  BY <1>2
<1>8. q * b <= c
  <2>1. PICK z \in Int : z = q * b
    OBVIOUS
  <2>. QED  BY <1>5, <1>7, <2>1
<1>9. q * b < (r + 1) * b
  <2>1. PICK z \in Int : z = q * b
    OBVIOUS
  <2>2. PICK y \in Int : y = (r + 1) * b
    OBVIOUS
  <2>. QED  BY <1>6, <1>8, <2>1, <2>2
<1>10. q <= r
  <2>1. SUFFICES ASSUME r + 1 <= q PROVE FALSE
    OBVIOUS
  <2>2. \A x, y \in Int : x <= y => x * b <= y * b
    OBVIOUS
  <2>3. (r + 1) * b <= q * b
    BY <2>1, <2>2
  <2>4. PICK z \in Int : z = q * b
    OBVIOUS
  <2>5. PICK y \in Int : y = (r + 1) * b
    OBVIOUS
  <2>. QED  BY <1>9, <2>3, <2>4, <2>5
<1>. QED  BY <1>2, <1>3, <1>4, <1>10

(* What is left of the doubt is rounded the same way however many there are. *)
LEMMA ShareFalls ==
    ASSUME NEW doubt \in Nat, NEW d \in Nat, d <= 100, NEW n \in Nat, n > 0
    PROVE  /\ Share(doubt, n) \in Int
           /\ Share(d * doubt, n + 1) \in Int
           /\ Share(d * doubt, n + 1) <= Share(doubt, n)
<1>1. PICK more \in Nat : more = d * doubt
  OBVIOUS
<1>2. more <= 100 * doubt
  <2>1. \A x, y, z \in Nat : x <= y => x * z <= y * z
    OBVIOUS
  <2>. QED  BY <1>1, <2>1
<1>3. /\ Power(100, 0) = 1 /\ Power(100, 1) = 100
  <2>1. Power(100, 0) = 1 /\ Power(100, 0 + 1) = Power(100, 0) * 100
    BY PowerGrows
  <2>. QED  BY <2>1
<1>4. CASE n = 1
  BY <1>1, <1>2, <1>4 DEF Share
<1>5. CASE n = 2
  <2>1. Share(doubt, n) = doubt
    BY <1>5 DEF Share
  <2>2. Share(more, n + 1) = (more + 50) \div 100
    <3>1. n + 1 > 2 /\ n + 1 # 1 /\ n + 1 # 2 /\ (n + 1) - 3 = 0 /\ (n + 1) - 2 = 1
      BY <1>5
    <3>2. Share(more, n + 1) = (more + 50 * Power(100, (n + 1) - 3)) \div Power(100, (n + 1) - 2)
      BY <3>1 DEF Share
    <3>. QED  BY <1>3, <3>1, <3>2
  <2>3. (more + 50) \div 100 \in Int /\ (more + 50) \div 100 <= doubt
    BY <1>2
  <2>. QED  BY <1>1, <2>1, <2>2, <2>3
<1>6. CASE n > 2
  <2>1. PICK k \in Nat : n = k + 3
    <3>1. n - 3 \in Nat /\ n = (n - 3) + 3
      BY <1>6
    <3>. QED  BY <3>1
  <2>2. PICK h \in Nat : h = Power(100, k) /\ h > 0
    BY PowersOfPositive
  <2>3. Power(100, k + 1) = 100 * h /\ Power(100, k + 2) = 100 * (100 * h)
    <3>1. Power(100, k + 1) = h * 100
      BY <2>2, PowerGrows
    <3>2. k + 1 \in Nat /\ (k + 1) + 1 = k + 2
      OBVIOUS
    <3>3. Power(100, (k + 1) + 1) = Power(100, k + 1) * 100
      BY <3>2, PowerGrows
    <3>. QED  BY <3>1, <3>2, <3>3
  <2>4. Share(doubt, n) = (doubt + 50 * h) \div (100 * h)
    <3>1. n # 1 /\ n # 2 /\ n > 2 /\ n - 3 = k /\ n - 2 = k + 1
      BY <1>6, <2>1
    <3>2. Share(doubt, n) = (doubt + 50 * Power(100, n - 3)) \div Power(100, n - 2)
      BY <3>1 DEF Share
    <3>. QED  BY <2>2, <2>3, <3>1, <3>2
  <2>5. Share(more, n + 1) = (more + 50 * (100 * h)) \div (100 * (100 * h))
    <3>1. n + 1 # 1 /\ n + 1 # 2 /\ n + 1 > 2 /\ (n + 1) - 3 = k + 1 /\ (n + 1) - 2 = k + 2
      BY <1>6, <2>1
    <3>2. Share(more, n + 1) = (more + 50 * Power(100, (n + 1) - 3)) \div Power(100, (n + 1) - 2)
      BY <3>1 DEF Share
    <3>. QED  BY <2>3, <3>1, <3>2
  <2>6. PICK b \in Nat : b = 100 * h /\ b > 0
    BY <2>2
  <2>7. PICK a \in Nat : a = more + 50 * b
    OBVIOUS
  <2>8. PICK c \in Nat : c = doubt + 50 * h
    OBVIOUS
  <2>9. a <= 100 * c
    BY <1>2, <2>6, <2>7, <2>8
  <2>10. a \div (100 * b) <= c \div b
    BY <2>6, <2>9, DivOfLess
  <2>11. Share(doubt, n) = c \div b /\ Share(more, n + 1) = a \div (100 * b)
    BY <2>4, <2>5, <2>6, <2>7, <2>8
  <2>12. c \div b \in Int /\ a \div (100 * b) \in Int
    BY <2>6
  <2>. QED  BY <1>1, <2>10, <2>11, <2>12
<1>. QED  BY <1>4, <1>5, <1>6

LEMMA TiersInOrder ==
    /\ DOMAIN TierOrder = 1..7 /\ Len(TierOrder) = 7
    /\ \A i \in 1..7 : Doubts[i] \in Nat /\ 0 < Doubts[i] /\ Doubts[i] <= 100
    /\ \A i, j \in 1..7 : TierOrder[i] = TierOrder[j] => i = j
    /\ \A t \in EvidenceTiers : \E i \in 1..7 : t = TierOrder[i]
    /\ \A i \in 1..7 : TierOrder[i] \in EvidenceTiers
<1>1. DOMAIN TierOrder = 1..7 /\ Len(TierOrder) = 7
  BY DEF TierOrder
<1>2. \A i \in 1..7 : Doubts[i] \in Nat /\ 0 < Doubts[i] /\ Doubts[i] <= 100
  BY DEF Doubts
<1>3. \A i, j \in 1..7 : TierOrder[i] = TierOrder[j] => i = j
  BY DEF TierOrder
<1>. QED  BY <1>1, <1>2, <1>3 DEF EvidenceTiers, Range

(* One witness more of a tier multiplies the doubt by the tier's. *)
OneMore(more, tally, t) ==
    \A u \in EvidenceTiers : more[u] = IF u = t THEN tally[u] + 1 ELSE tally[u]

LEMMA DoubtMultiplies ==
    ASSUME NEW tally \in [EvidenceTiers -> Nat], NEW more \in [EvidenceTiers -> Nat],
           NEW t \in EvidenceTiers, OneMore(more, tally, t)
    PROVE  /\ Complement(tally) \in Nat
           /\ \E d \in Nat : d <= 100 /\ Complement(more) = d * Complement(tally)
<1>1. PICK j \in 1..7 : t = TierOrder[j]
  BY TiersInOrder
<1>2. PICK w : w = [i \in 1..7 |-> Power(Doubts[i], tally[TierOrder[i]])]
  OBVIOUS
<1>3. PICK v : v = [i \in 1..7 |-> Power(Doubts[i], more[TierOrder[i]])]
  OBVIOUS
<1>4. \A i \in 1..7 : w[i] \in Nat /\ w[i] > 0
  BY <1>2, TiersInOrder, PowersOfPositive
<1>5. ASSUME NEW i \in 1..7 PROVE v[i] = IF i = j THEN Doubts[j] * w[i] ELSE w[i]
  <2>1. CASE i = j
    <3>1. more[TierOrder[i]] = tally[TierOrder[i]] + 1 /\ tally[TierOrder[i]] \in Nat
      BY <1>1, <2>1, TiersInOrder DEF OneMore
    <3>2. Doubts[i] \in Int
      BY TiersInOrder
    <3>3. v[i] = w[i] * Doubts[i]
      BY <1>2, <1>3, <3>1, <3>2, PowerGrows
    <3>. QED  BY <1>4, <2>1, <3>2, <3>3
  <2>2. CASE i # j
    <3>1. more[TierOrder[i]] = tally[TierOrder[i]]
      BY <1>1, <2>2, TiersInOrder DEF OneMore
    <3>. QED  BY <1>2, <1>3, <2>2, <3>1
  <2>. QED  BY <2>1, <2>2
<1>6. Complement(tally) = Product(w, 7) /\ Complement(more) = Product(v, 7)
  BY <1>2, <1>3, TiersInOrder DEF Complement
<1>7. Product(w, 7) \in Nat
  BY <1>4, ProductsOfPositive
<1>8. PICK d \in Nat : d = Doubts[j] /\ d <= 100
  BY TiersInOrder
<1>9. Product(v, 7) = d * Product(w, 7)
  <2>1. d \in Int /\ 7 \in Nat /\ Integral(w, 7)
    BY <1>4 DEF Integral
  <2>2. ScaledAt(v, w, d, j, 7)
    BY <1>5, <1>8 DEF ScaledAt
  <2>. QED  BY <2>1, <2>2, ProductScales
<1>. QED  BY <1>6, <1>7, <1>8, <1>9

LEMMA LesserOfTwo ==
    ASSUME NEW a \in Int, NEW b \in Int
    PROVE  Min({a, b}) = IF a <= b THEN a ELSE b
<1>. DEFINE S == {a, b}
            Least(x) == x \in S /\ \A y \in S : x <= y
<1>1. PICK m : m = IF a <= b THEN a ELSE b
  OBVIOUS
<1>2. Least(m) /\ \A x : Least(x) => x = m
  BY <1>1
<1>3. Min(S) = CHOOSE x \in S : \A y \in S : x =< y
  BY DEF Min
<1>. HIDE DEF S
<1>4. Min(S) = m
  BY <1>2, <1>3
<1>. QED  BY <1>1, <1>4 DEF S

LEMMA OneMoreCounts ==
    ASSUME NEW tally \in [EvidenceTiers -> Nat], NEW more \in [EvidenceTiers -> Nat],
           NEW t \in EvidenceTiers, OneMore(more, tally, t), NEW n \in Nat, n > 0
    PROVE  /\ CombineConfidence(tally, n) \in Int
           /\ CombineConfidence(more, n + 1) \in Int
           /\ CombineConfidence(tally, n) <= CombineConfidence(more, n + 1)
<1>1. /\ Complement(tally) \in Nat
      /\ \E d \in Nat : d <= 100 /\ Complement(more) = d * Complement(tally)
  BY DoubtMultiplies
<1>2. PICK d \in Nat : d <= 100 /\ Complement(more) = d * Complement(tally)
  BY <1>1
<1>3. /\ Share(Complement(tally), n) \in Int
      /\ Share(Complement(more), n + 1) \in Int
      /\ Share(Complement(more), n + 1) <= Share(Complement(tally), n)
  BY <1>1, <1>2, ShareFalls
<1>4. PICK a \in Int : a = 10000 - Share(Complement(tally), n)
  BY <1>3
<1>5. PICK b \in Int : b = 10000 - Share(Complement(more), n + 1)
  BY <1>3
<1>6. a <= b
  BY <1>3, <1>4, <1>5
<1>7. Ceiling \in Int
  BY DEF Ceiling
<1>8. /\ Min({a, Ceiling}) = IF a <= Ceiling THEN a ELSE Ceiling
      /\ Min({b, Ceiling}) = IF b <= Ceiling THEN b ELSE Ceiling
  BY <1>7, LesserOfTwo
<1>9. CombineConfidence(tally, n) = Min({a, Ceiling}) /\ CombineConfidence(more, n + 1) = Min({b, Ceiling})
  BY <1>4, <1>5 DEF CombineConfidence
<1>. QED  BY <1>6, <1>7, <1>8, <1>9

(* A further witness makes no finding less certain, whatever its tier and   *)
(* however many there are, the rounding included.                          *)
THEOREM CorroborationNeverDoubts ==
    ASSUME NEW witnesses, IsFiniteSet(witnesses), witnesses # {},
           NEW e, e.tier \in EvidenceTiers, \A x \in witnesses : x.tier \in EvidenceTiers
    PROVE  /\ ConfidenceIn(witnesses) \in Int
           /\ ConfidenceIn(witnesses \cup {e}) >= ConfidenceIn(witnesses)
<1>1. \A u \in EvidenceTiers : IsFiniteSet({x \in witnesses : x.tier = u})
  <2>1. \A u : {x \in witnesses : x.tier = u} \in SUBSET witnesses
    OBVIOUS
  <2>. QED  BY <2>1, FS_Subset
<1>2. PICK tally : tally = TallyOf(witnesses)
  OBVIOUS
<1>3. tally \in [EvidenceTiers -> Nat]
  BY <1>1, <1>2, FS_CardinalityType DEF TallyOf
<1>4. PICK n : n = Cardinality(witnesses)
  OBVIOUS
<1>5. n \in Nat /\ n > 0
  <2>1. n \in Nat /\ n # 0
    BY <1>4, FS_CardinalityType, FS_EmptySet
  <2>. QED  BY <2>1
<1>6. ConfidenceIn(witnesses) = CombineConfidence(tally, n)
  BY <1>2, <1>4 DEF ConfidenceIn
<1>7. PICK t \in EvidenceTiers : t = e.tier
  OBVIOUS
<1>8. ConfidenceIn(witnesses) \in Int
  <2>1. PICK more : more = [u \in EvidenceTiers |-> IF u = t THEN tally[u] + 1 ELSE tally[u]]
    OBVIOUS
  <2>2. more \in [EvidenceTiers -> Nat] /\ OneMore(more, tally, t)
    BY <1>3, <2>1 DEF OneMore
  <2>. QED  BY <1>3, <1>5, <1>6, <2>2, OneMoreCounts
<1>9. CASE e \in witnesses
  <2>1. witnesses \cup {e} = witnesses
    BY <1>9
  <2>. QED  BY <1>8, <2>1
<1>10. CASE e \notin witnesses
  <2>1. PICK wider : wider = witnesses \cup {e}
    OBVIOUS
  <2>2. Cardinality(wider) = n + 1
    BY <1>4, <1>10, <2>1, FS_AddElement
  <2>3. PICK more : more = TallyOf(wider)
    OBVIOUS
  <2>4. ASSUME NEW u \in EvidenceTiers
        PROVE  more[u] = IF u = e.tier THEN tally[u] + 1 ELSE tally[u]
    <3>1. more[u] = Cardinality({x \in wider : x.tier = u})
      BY <2>3 DEF TallyOf
    <3>2. tally[u] = Cardinality({x \in witnesses : x.tier = u})
      BY <1>2 DEF TallyOf
    <3>3. CASE u = e.tier
      <4>1. {x \in wider : x.tier = u} = {x \in witnesses : x.tier = u} \cup {e}
        BY <2>1, <3>3
      <4>2. e \notin {x \in witnesses : x.tier = u}
        BY <1>10
      <4>. QED  BY <1>1, <3>1, <3>2, <3>3, <4>1, <4>2, FS_AddElement
    <3>4. CASE u # e.tier
      <4>1. {x \in wider : x.tier = u} = {x \in witnesses : x.tier = u}
        BY <2>1, <3>4
      <4>. QED  BY <3>1, <3>2, <3>4, <4>1
    <3>. QED  BY <3>3, <3>4
  <2>5. more \in [EvidenceTiers -> Nat]
    <3>1. more = [u \in EvidenceTiers |-> Cardinality({x \in wider : x.tier = u})]
      BY <2>3 DEF TallyOf
    <3>2. \A u \in EvidenceTiers : more[u] \in Nat
      BY <1>3, <2>4
    <3>. QED  BY <3>1, <3>2
  <2>6. ConfidenceIn(wider) = CombineConfidence(more, n + 1)
    BY <2>2, <2>3 DEF ConfidenceIn
  <2>7. OneMore(more, tally, t)
    BY <1>7, <2>4 DEF OneMore
  <2>8. /\ CombineConfidence(tally, n) \in Int
        /\ CombineConfidence(more, n + 1) \in Int
        /\ CombineConfidence(tally, n) <= CombineConfidence(more, n + 1)
    BY <1>3, <1>5, <2>5, <2>7, OneMoreCounts
  <2>. QED  BY <1>6, <2>1, <2>6, <2>8
<1>. QED  BY <1>8, <1>9, <1>10

----------------------------------------------------------------------------
(* Further witnesses. *)

LEMMA FirstSurfaceIsFirst ==
    ASSUME NEW S \in SUBSET Surfaces, S # {}
    PROVE  /\ FirstSurface(S) \in S
           /\ \A u \in S : FirstSurface(S) = u \/ SurfaceRank(FirstSurface(S)) < SurfaceRank(u)
<1>1. DOMAIN SurfaceOrder = 1..4
  BY DEF SurfaceOrder
<1>2. \A i, j \in 1..4 : SurfaceOrder[i] = SurfaceOrder[j] => i = j
  BY DEF SurfaceOrder
<1>3. \A u \in Surfaces : \E i \in 1..4 : SurfaceOrder[i] = u
  <2>1. /\ SurfaceOrder[1] = "container" /\ SurfaceOrder[2] = "elf"
        /\ SurfaceOrder[3] = "source" /\ SurfaceOrder[4] = "tls"
    BY DEF SurfaceOrder
  <2>. QED  BY <2>1 DEF Surfaces
<1>4. \A i \in 1..4 : SurfaceRank(SurfaceOrder[i]) = i
  BY <1>1, <1>2 DEF SurfaceRank
<1>. DEFINE at == {i \in 1..4 : SurfaceOrder[i] \in S}
<1>5. at \in SUBSET Nat /\ at # {}
  BY <1>3
<1>6. PICK k \in at : \A i \in at : k <= i
  BY <1>5, LeastNumber
<1>7. \A j \in 1..(k - 1) : SurfaceOrder[j] \notin S
  BY <1>6
<1>8. PICK first : first = CHOOSE i \in DOMAIN SurfaceOrder :
          /\ SurfaceOrder[i] \in S
          /\ \A j \in 1..(i - 1) : SurfaceOrder[j] \notin S
  OBVIOUS
<1>9. /\ first \in 1..4 /\ SurfaceOrder[first] \in S
      /\ \A j \in 1..(first - 1) : SurfaceOrder[j] \notin S
  BY <1>1, <1>6, <1>7, <1>8
<1>10. FirstSurface(S) = SurfaceOrder[first]
  BY <1>8 DEF FirstSurface
<1>11. ASSUME NEW u \in S, u # SurfaceOrder[first]
       PROVE  SurfaceRank(SurfaceOrder[first]) < SurfaceRank(u)
  <2>1. PICK i \in 1..4 : SurfaceOrder[i] = u
    BY <1>3
  <2>2. i # first /\ ~(i \in 1..(first - 1))
    BY <1>9, <1>11, <2>1
  <2>. QED  BY <1>4, <1>9, <2>1, <2>2
<1>. QED  BY <1>9, <1>10, <1>11

LEMMA MigrationTakesYears ==
    ASSUME NEW surface, NEW kind
    PROVE  MigrationYears(surface, kind) \in Nat
<1>. DEFINE S == {EffortBySurface[s] : s \in {surface} \cap DOMAIN EffortBySurface}
            K == {EffortByKind[k] : k \in {kind} \cap DOMAIN EffortByKind}
<1>1. S \cup K \in SUBSET Nat
  BY EstimatesAreYears
<1>2. (S = {} \/ \E a \in Nat : S = {a}) /\ (K = {} \/ \E a \in Nat : K = {a})
  <2>1. surface \in DOMAIN EffortBySurface => S = {EffortBySurface[surface]}
    OBVIOUS
  <2>2. kind \in DOMAIN EffortByKind => K = {EffortByKind[kind]}
    OBVIOUS
  <2>3. (surface \notin DOMAIN EffortBySurface => S = {}) /\ (kind \notin DOMAIN EffortByKind => K = {})
    OBVIOUS
  <2>. QED  BY <2>1, <2>2, <2>3, EstimatesAreYears
<1>3. MigrationYears(surface, kind) =
        IF S \cup K = {} THEN DefaultEffort
        ELSE CHOOSE x \in S \cup K : \A y \in S \cup K : y <= x
  BY DEF MigrationYears
<1>. HIDE DEF S, K
<1>4. S \cup K # {} => \E x \in S \cup K : \A y \in S \cup K : y <= x
  <2>1. CASE \E a \in Nat : S = {a}
    <3>1. PICK a \in Nat : S = {a}
      BY <2>1
    <3>2. CASE K = {}
      BY <3>1, <3>2
    <3>3. CASE \E b \in Nat : K = {b}
      <4>1. PICK b \in Nat : K = {b}
        BY <3>3
      <4>2. CASE a <= b
        BY <3>1, <4>1, <4>2
      <4>3. CASE b <= a
        BY <3>1, <4>1, <4>3
      <4>. QED  BY <4>2, <4>3
    <3>. QED  BY <1>2, <3>2, <3>3
  <2>2. CASE S = {}
    BY <1>2, <2>2
  <2>. QED  BY <1>2, <2>1, <2>2
<1>5. PICK years : years = MigrationYears(surface, kind)
  OBVIOUS
<1>6. years = DefaultEffort \/ years \in S \cup K
  BY <1>3, <1>4, <1>5
<1>. QED  BY <1>1, <1>5, <1>6, EstimatesAreYears

LEMMA ShelfLivesAreYears == \A criticality : ShelfLife(criticality) \in Nat
BY EstimatesAreYears, DefaultCriticalityIsGraded DEF ShelfLife


LEMMA SlowerIsNoCalmer ==
    ASSUME NEW m, NEW n, n.key = m.key,
           MigrationYears(FirstSurface(m.surfaces), m.key.kind)
             <= MigrationYears(FirstSurface(n.surfaces), m.key.kind)
    PROVE  TierRank(Assess(n).tier) <= TierRank(Assess(m).tier)
<1>1. PICK c : c = Canonicalise(m.key.name, m.key.params)
  OBVIOUS
<1>2. PICK x \in Nat : x = MigrationYears(FirstSurface(m.surfaces), m.key.kind)
  BY MigrationTakesYears
<1>3. PICK x2 \in Nat : x2 = MigrationYears(FirstSurface(n.surfaces), m.key.kind)
  BY MigrationTakesYears
<1>4. PICK y \in Nat : y = ShelfLife(CriticalityOf(m.key.target))
  BY ShelfLivesAreYears
<1>5. x + y <= x2 + y
  BY <1>2, <1>3
<1>6. CASE QuantumVulnerable(c.quantum)
  <2>1. Assess(m).tier = Tier(c.quantum, c.classical, Tripped(x, y))
    BY <1>1, <1>2, <1>4, <1>6 DEF Assess
  <2>2. Assess(n).tier = Tier(c.quantum, c.classical, Tripped(x2, y))
    BY <1>1, <1>3, <1>4, <1>6 DEF Assess
  <2>. QED  BY <1>5, <2>1, <2>2, LongerIsNoCalmer
<1>7. CASE ~QuantumVulnerable(c.quantum)
  <2>1. Assess(m).tier = Tier(c.quantum, c.classical, {})
    BY <1>1, <1>7 DEF Assess
  <2>2. Assess(n).tier = Tier(c.quantum, c.classical, {})
    BY <1>1, <1>7 DEF Assess
  <2>3. Tier(c.quantum, c.classical, {}) \in {"critical", "high", "medium", "low", "pq-safe"}
    BY DEF Tier, QuantumTier, MoscaTier
  <2>. QED  BY <2>1, <2>2, <2>3, Ranks
<1>. QED  BY <1>6, <1>7

(* What one more finding does to an asset that was found before. *)
LEMMA OneFindingMore ==
    ASSUME FirstSurfaceIsSlowest,
           NEW a \in Seq(Seen), NEW b \in Seq(Seen), NEW f \in Seen, Range(b) = Range(a) \cup {f},
           NEW key \in KeysOf(a)
    PROVE  LET m == MergeGroup(GroupOf(a, key))
               n == MergeGroup(GroupOf(b, key))
           IN  /\ n.confidence >= m.confidence
               /\ m.locations \subseteq n.locations
               /\ TierRank(Assess(n).tier) <= TierRank(Assess(m).tier)
<1>1. PICK m : m = MergeGroup(GroupOf(a, key))
  OBVIOUS
<1>2. PICK n : n = MergeGroup(GroupOf(b, key))
  OBVIOUS
<1>3. key \in KeysOf(b)
  BY DEF KeysOf
<1>4. PICK facts : facts = {g \in Range(a) : CanonicalKey(g) = key}
  OBVIOUS
<1>5. PICK wider : wider = {g \in Range(b) : CanonicalKey(g) = key}
  OBVIOUS
<1>6. wider = facts \/ wider = facts \cup {f}
  BY <1>4, <1>5
<1>7. wider \subseteq Seen /\ facts \subseteq Seen /\ facts \subseteq wider
  <2>1. Range(a) \subseteq Seen /\ Range(b) \subseteq Seen
    BY DEF Range
  <2>. QED  BY <1>4, <1>5, <1>6, <2>1
<1>8. facts # {}
  BY <1>4 DEF KeysOf
<1>9. IsFiniteSet(facts)
  <2>1. PICK length \in Nat : DOMAIN a = 1..length
    OBVIOUS
  <2>2. IsFiniteSet(1..length)
    BY FS_Interval
  <2>3. IsFiniteSet({a[i] : i \in 1..length})
    <3>1. [i \in 1..length |-> a[i]] \in Surjection(1..length, {a[i] : i \in 1..length})
      BY Fun_IsSurj
    <3>. QED  BY <2>2, <3>1, FS_Surjection
  <2>4. facts \in SUBSET {a[i] : i \in 1..length}
    BY <1>4, <2>1 DEF Range
  <2>. QED  BY <2>3, <2>4, FS_Subset
<1>10. m = MergedFrom(facts, key, Primary(GroupOf(a, key)).place, MergeVersions(GroupOf(a, key)))
  BY <1>1, <1>4, GroupIsMerged
<1>11. n = MergedFrom(wider, key, Primary(GroupOf(b, key)).place, MergeVersions(GroupOf(b, key)))
  BY <1>2, <1>3, <1>5, GroupIsMerged
<1>12. m.locations \subseteq n.locations
  BY <1>7, <1>10, <1>11 DEF MergedFrom
<1>13. n.confidence >= m.confidence
  <2>1. PICK witnesses : witnesses = {Evidence(g) : g \in facts}
    OBVIOUS
  <2>2. IsFiniteSet(witnesses)
    <3>1. [g \in facts |-> Evidence(g)] \in Surjection(facts, witnesses)
      BY <2>1, Fun_IsSurj
    <3>. QED  BY <1>9, <3>1, FS_Surjection
  <2>3. \A g \in Seen : Evidence(g).tier \in EvidenceTiers
    BY SeenIsTyped DEF Evidence
  <2>4. witnesses # {} /\ \A x \in witnesses : x.tier \in EvidenceTiers
    BY <1>7, <1>8, <2>1, <2>3
  <2>5. PICK e : e.tier \in EvidenceTiers /\ {Evidence(g) : g \in wider} = witnesses \cup {e}
    <3>1. CASE wider = facts
      <4>1. PICK g \in facts : TRUE
        BY <1>8
      <4>2. Evidence(g).tier \in EvidenceTiers /\ {Evidence(h) : h \in wider} = witnesses \cup {Evidence(g)}
        BY <1>7, <2>1, <2>3, <3>1, <4>1
      <4>. QED  BY <4>2
    <3>2. CASE wider = facts \cup {f}
      <4>1. Evidence(f).tier \in EvidenceTiers /\ {Evidence(h) : h \in wider} = witnesses \cup {Evidence(f)}
        BY <2>1, <2>3, <3>2
      <4>. QED  BY <4>1
    <3>. QED  BY <1>6, <3>1, <3>2
  <2>6. m.confidence = ConfidenceIn(witnesses) /\ n.confidence = ConfidenceIn(witnesses \cup {e})
    BY <1>10, <1>11, <2>1, <2>5 DEF MergedFrom
  <2>7. ConfidenceIn(witnesses \cup {e}) >= ConfidenceIn(witnesses)
    BY <2>2, <2>4, <2>5, CorroborationNeverDoubts
  <2>. QED  BY <2>6, <2>7
<1>14. TierRank(Assess(n).tier) <= TierRank(Assess(m).tier)
  <2>1. m.key = key /\ n.key = key
    BY <1>10, <1>11 DEF MergedFrom
  <2>2. m.surfaces = {g.surface : g \in facts} /\ n.surfaces = {g.surface : g \in wider}
    <3>1. m.surfaces = {l.surface : l \in {Location(g) : g \in facts}}
      BY <1>10 DEF MergedFrom
    <3>2. n.surfaces = {l.surface : l \in {Location(g) : g \in wider}}
      BY <1>11 DEF MergedFrom
    <3>3. \A g : Location(g).surface = g.surface
      BY DEF Location
    <3>. QED  BY <3>1, <3>2, <3>3
  <2>3. /\ m.surfaces \in SUBSET Surfaces /\ m.surfaces # {}
        /\ n.surfaces \in SUBSET Surfaces /\ n.surfaces # {} /\ m.surfaces \subseteq n.surfaces
    BY <1>7, <1>8, <2>2, SeenIsTyped
  <2>4. PICK u : u = FirstSurface(m.surfaces)
    OBVIOUS
  <2>5. PICK v : v = FirstSurface(n.surfaces)
    OBVIOUS
  <2>6. u \in m.surfaces /\ v \in n.surfaces /\ (v = u \/ SurfaceRank(v) < SurfaceRank(u))
    BY <2>3, <2>4, <2>5, FirstSurfaceIsFirst
  <2>7. CASE v = u
    <3>1. MigrationYears(FirstSurface(m.surfaces), m.key.kind)
            <= MigrationYears(FirstSurface(n.surfaces), m.key.kind)
      <4>1. PICK x \in Nat : x = MigrationYears(u, m.key.kind)
        BY MigrationTakesYears
      <4>2. x <= x
        OBVIOUS
      <4>. QED  BY <2>4, <2>5, <2>7, <4>1, <4>2
    <3>. QED  BY <2>1, <3>1, SlowerIsNoCalmer
  <2>8. CASE SurfaceRank(v) < SurfaceRank(u)
    <3>1. PICK g \in wider : g.surface = v
      BY <2>2, <2>6
    <3>2. PICK h \in facts : h.surface = u
      BY <2>2, <2>6
    <3>3. PICK r \in Sightings : r.target = g.target /\ r.kind = g.kind /\ r.surface = g.surface
      BY <1>7, <3>1, SeenIsMade DEF FindingOf
    <3>4. PICK s \in Sightings : s.target = h.target /\ s.kind = h.kind /\ s.surface = h.surface
      BY <1>7, <3>2, SeenIsMade DEF FindingOf
    <3>5. g.target = key.target /\ g.kind = key.kind /\ h.target = key.target /\ h.kind = key.kind
      BY <1>4, <1>5, <3>1, <3>2 DEF CanonicalKey
    <3>6. MigrationYears(u, key.kind) <= MigrationYears(v, key.kind)
      BY <2>8, <3>1, <3>2, <3>3, <3>4, <3>5 DEF FirstSurfaceIsSlowest
    <3>. QED  BY <2>1, <2>4, <2>5, <3>6, SlowerIsNoCalmer
  <2>. QED  BY <2>6, <2>7, <2>8
<1>. QED  BY <1>1, <1>2, <1>12, <1>13, <1>14

(* One more witness never takes a finding back: under a policy whose        *)
(* estimates follow the surfaces' order, no asset loses confidence or a     *)
(* location, or is graded as less urgent.                                  *)
THEOREM WitnessesOnlyAdd ==
    ASSUME FirstSurfaceIsSlowest
    PROVE  Spec => WitnessesNeverCalm
<1>1. ASSUME LogInv, LogInv', [Next]_vars PROVE NothingIsTakenBack
  <2>1. SUFFICES ASSUME IsPrefix(log, log'), NEW m \in Merge(log)
                 PROVE  LET n == MergeGroup(GroupOf(log', m.key))
                        IN  /\ n.confidence >= m.confidence
                            /\ m.locations \subseteq n.locations
                            /\ TierOf(log', m.key) <= TierOf(log, m.key)
    BY DEF NothingIsTakenBack
  <2>2. PICK a \in Seq(Seen) : a = log
    BY <1>1 DEF LogInv
  <2>3. PICK b \in Seq(Seen) : b = log'
    BY <1>1 DEF LogInv
  <2>4. m.key \in KeysOf(a) /\ m = MergeGroup(GroupOf(a, m.key))
    BY <2>1, <2>2, MergedByKey
  <2>5. \E f \in Seen : Range(b) = Range(a) \cup {f}
    <3>1. PICK g \in Range(a) : TRUE
      BY <2>4 DEF KeysOf
    <3>2. Range(a) \subseteq Seen
      BY DEF Range
    <3>3. ASSUME NEW s \in Sightings, Record(s) PROVE \E f \in Seen : Range(b) = Range(a) \cup {f}
      <4>1. b = a \o Observe(s)
        BY <2>2, <2>3, <3>3 DEF Record
      <4>2. CASE Observe(s) = <<>>
        <5>1. Range(b) = Range(a) \cup {g}
          BY <3>1, <4>1, <4>2
        <5>. QED  BY <3>1, <3>2, <5>1
      <4>3. CASE Observe(s) # <<>>
        <5>1. PICK f : Observe(s) = <<f>>
          BY <4>3, ObservedOnce
        <5>2. f \in Seen
          BY <5>1 DEF Seen, Range
        <5>3. Range(b) = Range(a) \cup {f}
          <6>1. b = Append(a, f)
            BY <4>1, <5>1
          <6>2. /\ DOMAIN b = 1..(Len(a) + 1) /\ b[Len(a) + 1] = f
                /\ DOMAIN a = 1..Len(a) /\ \A i \in 1..Len(a) : b[i] = a[i]
            BY <5>2, <6>1
          <6>. QED  BY <6>2 DEF Range
        <5>. QED  BY <5>2, <5>3
      <4>. QED  BY <4>2, <4>3
    <3>4. CASE NextQuarter
      <4>1. Len(a) # 0 /\ b = <<>>
        BY <2>2, <2>3, <3>4 DEF NextQuarter
      <4>. QED  BY <2>1, <2>2, <2>3, <4>1 DEF IsPrefix
    <3>5. CASE UNCHANGED vars
      <4>1. Range(b) = Range(a) \cup {g}
        BY <2>2, <2>3, <3>1, <3>5 DEF vars
      <4>. QED  BY <3>1, <3>2, <4>1
    <3>. QED  BY <1>1, <3>3, <3>4, <3>5 DEF Next
  <2>6. PICK f \in Seen : Range(b) = Range(a) \cup {f}
    BY <2>5
  <2>7. PICK key \in KeysOf(a) : key = m.key
    BY <2>4
  <2>8. LET n == MergeGroup(GroupOf(b, key))
        IN  /\ n.confidence >= m.confidence
            /\ m.locations \subseteq n.locations
            /\ TierRank(Assess(n).tier) <= TierRank(Assess(m).tier)
    BY <2>4, <2>6, <2>7, OneFindingMore
  <2>. QED  BY <2>2, <2>3, <2>4, <2>7, <2>8 DEF TierOf
<1>2. LogInv /\ LogInv' /\ [Next]_vars => [NothingIsTakenBack]_vars
  BY <1>1
<1>. QED  BY <1>2, JournalsHoldSightings, PTL DEF Spec, WitnessesNeverCalm

----------------------------------------------------------------------------
(* Sorted lists. *)

(* On a set, the pairs are a strict total order. *)
StrictlyOrders(before, S) ==
    /\ \A e \in S : <<e, e>> \notin before
    /\ \A e, f, g \in S : <<e, f>> \in before /\ <<f, g>> \in before => <<e, g>> \in before
    /\ \A e, f \in S : e # f => <<e, f>> \in before \/ <<f, e>> \in before

(* A list has every member of a set once, in the order. *)
Sorted(list, S, before) ==
    /\ list \in [1..Cardinality(S) -> S]
    /\ \A e \in S : \E i \in 1..Cardinality(S) : list[i] = e
    /\ \A i, j \in 1..Cardinality(S) : i < j <=> <<list[i], list[j]>> \in before

LEMMA InOrderSorts ==
    ASSUME NEW S, IsFiniteSet(S), NEW before, StrictlyOrders(before, S)
    PROVE  Sorted(InOrder(S, before), S, before)
<1>. DEFINE Ahead(e) == {f \in S : <<f, e>> \in before}
<1>1. PICK n \in Nat : n = Cardinality(S)
  BY FS_CardinalityType
<1>2. PICK place : place = [e \in S |-> Cardinality(Ahead(e))]
  OBVIOUS
<1>3. ASSUME NEW e \in S
      PROVE  /\ IsFiniteSet(Ahead(e)) /\ place[e] = Cardinality(Ahead(e))
             /\ place[e] \in Int /\ place[e] \in 0..(n - 1)
  <2>1. Ahead(e) \in SUBSET S /\ Ahead(e) # S
    BY DEF StrictlyOrders
  <2>2. IsFiniteSet(Ahead(e)) /\ Cardinality(Ahead(e)) <= n /\ Cardinality(Ahead(e)) # n
    BY <1>1, <2>1, FS_Subset
  <2>3. Cardinality(Ahead(e)) \in Nat
    BY <2>2, FS_CardinalityType
  <2>. QED  BY <1>1, <1>2, <2>2, <2>3
<1>4. ASSUME NEW e \in S, NEW f \in S, <<e, f>> \in before PROVE place[e] < place[f]
  <2>1. Ahead(e) \in SUBSET Ahead(f) /\ Ahead(e) # Ahead(f)
    BY <1>4 DEF StrictlyOrders
  <2>2. Cardinality(Ahead(e)) <= Cardinality(Ahead(f)) /\ Cardinality(Ahead(e)) # Cardinality(Ahead(f))
    BY <1>3, <2>1, FS_Subset
  <2>. HIDE DEF Ahead
  <2>3. /\ place[e] = Cardinality(Ahead(e)) /\ place[f] = Cardinality(Ahead(f))
        /\ place[e] \in Int /\ place[f] \in Int
    BY <1>3
  <2>. QED  BY <2>2, <2>3
<1>5. \A e, f \in S : place[e] = place[f] => e = f
  <2>1. ASSUME NEW e \in S, NEW f \in S, place[e] = place[f], e # f PROVE FALSE
    <3>1. <<e, f>> \in before \/ <<f, e>> \in before
      BY <2>1 DEF StrictlyOrders
    <3>2. place[e] < place[f] \/ place[f] < place[e]
      BY <1>4, <3>1
    <3>3. place[e] \in Int /\ place[f] \in Int
      BY <1>3
    <3>. QED  BY <2>1, <3>2, <3>3
  <2>. QED  BY <2>1
<1>6. ASSUME NEW i \in 1..n PROVE \E e \in S : place[e] = i - 1
  <2>1. place \in Injection(S, 0..(n - 1))
    BY <1>2, <1>3, <1>5, Fun_IsInj
  <2>2. IsFiniteSet(0..(n - 1)) /\ Cardinality(0..(n - 1)) = n
    <3>1. PICK last \in Int : last = n - 1
      BY <1>1
    <3>2. IsFiniteSet(0..last) /\ Cardinality(0..last) = IF 0 > last THEN 0 ELSE last - 0 + 1
      BY FS_Interval
    <3>. QED  BY <1>1, <3>1, <3>2
  <2>3. place \in Surjection(S, 0..(n - 1))
    BY <1>1, <2>1, <2>2, FS_Injection
  <2>4. i - 1 \in 0..(n - 1)
    BY <1>1
  <2>. QED  BY <2>3, <2>4 DEF Surjection
<1>7. PICK list : list = InOrder(S, before)
  OBVIOUS
<1>8. list = [i \in 1..n |-> CHOOSE e \in S : Cardinality(Ahead(e)) = i - 1]
  BY <1>1, <1>7 DEF InOrder
<1>. HIDE DEF Ahead
<1>9. ASSUME NEW i \in 1..n PROVE list[i] \in S /\ place[list[i]] = i - 1
  <2>1. \E e \in S : Cardinality(Ahead(e)) = i - 1
    BY <1>2, <1>6
  <2>2. list[i] \in S /\ Cardinality(Ahead(list[i])) = i - 1
    BY <1>8, <2>1
  <2>. QED  BY <1>2, <2>2
<1>10. list \in [1..n -> S]
  BY <1>8, <1>9
<1>11. ASSUME NEW e \in S PROVE \E i \in 1..n : list[i] = e
  <2>1. PICK i \in 1..n : i = place[e] + 1
    BY <1>1, <1>3
  <2>2. place[list[i]] = place[e] /\ list[i] \in S
    BY <1>1, <1>3, <1>9, <2>1
  <2>. QED  BY <1>5, <2>2
<1>12. ASSUME NEW i \in 1..n, NEW j \in 1..n
       PROVE  i < j <=> <<list[i], list[j]>> \in before
  <2>1. /\ list[i] \in S /\ place[list[i]] = i - 1
        /\ list[j] \in S /\ place[list[j]] = j - 1
    BY <1>9
  <2>2. <<list[i], list[j]>> \in before => i < j
    <3>1. <<list[i], list[j]>> \in before => place[list[i]] < place[list[j]]
      BY <1>4, <2>1
    <3>. QED  BY <2>1, <3>1
  <2>3. i < j => <<list[i], list[j]>> \in before
    <3>1. SUFFICES ASSUME i < j PROVE <<list[i], list[j]>> \in before
      OBVIOUS
    <3>2. list[i] # list[j]
      BY <2>1, <3>1
    <3>3. <<list[j], list[i]>> \in before => place[list[j]] < place[list[i]]
      BY <1>4, <2>1
    <3>4. <<list[j], list[i]>> \notin before
      BY <2>1, <3>1, <3>3
    <3>. QED  BY <2>1, <3>2, <3>4 DEF StrictlyOrders
  <2>. QED  BY <2>2, <2>3
<1>. QED  BY <1>1, <1>7, <1>10, <1>11, <1>12 DEF Sorted


----------------------------------------------------------------------------
(* The queue. *)

LEMMA JournalsAreFinite ==
    ASSUME NEW findings \in Seq(Seen)
    PROVE  /\ Range(findings) \subseteq Seen /\ IsFiniteSet(Range(findings))
           /\ IsFiniteSet(Merge(findings))
<1>1. PICK length \in Nat : DOMAIN findings = 1..length
  OBVIOUS
<1>2. IsFiniteSet(1..length)
  BY FS_Interval
<1>3. Range(findings) = {findings[i] : i \in 1..length}
  BY <1>1 DEF Range
<1>4. [i \in 1..length |-> findings[i]] \in Surjection(1..length, Range(findings))
  BY <1>3, Fun_IsSurj
<1>5. IsFiniteSet(Range(findings))
  BY <1>2, <1>4, FS_Surjection
<1>6. [f \in Range(findings) |-> CanonicalKey(f)] \in Surjection(Range(findings), KeysOf(findings))
  BY Fun_IsSurj DEF KeysOf
<1>7. IsFiniteSet(KeysOf(findings))
  BY <1>5, <1>6, FS_Surjection
<1>8. [key \in KeysOf(findings) |-> MergeGroup(GroupOf(findings, key))]
          \in Surjection(KeysOf(findings), Merge(findings))
  BY Fun_IsSurj DEF Merge
<1>9. IsFiniteSet(Merge(findings))
  BY <1>7, <1>8, FS_Surjection
<1>. QED  BY <1>1, <1>3, <1>5, <1>9

LEMMA ConfidencesAreNumbers ==
    ASSUME NEW findings \in Seq(Seen), NEW m \in Merge(findings)
    PROVE  m.confidence \in Int
<1>1. PICK key \in KeysOf(findings) : m = MergeGroup(GroupOf(findings, key))
  BY DEF Merge
<1>2. PICK facts : facts = {f \in Range(findings) : CanonicalKey(f) = key}
  OBVIOUS
<1>3. facts # {} /\ facts \subseteq Seen
  BY <1>2, JournalsAreFinite DEF KeysOf
<1>4. facts \in SUBSET Range(findings)
  BY <1>2
<1>5. IsFiniteSet(facts)
  BY <1>4, JournalsAreFinite, FS_Subset
<1>6. PICK witnesses : witnesses = {Evidence(f) : f \in facts}
  OBVIOUS
<1>7. IsFiniteSet(witnesses)
  <2>1. [f \in facts |-> Evidence(f)] \in Surjection(facts, witnesses)
    BY <1>6, Fun_IsSurj
  <2>. QED  BY <1>5, <2>1, FS_Surjection
<1>8. witnesses # {} /\ \A x \in witnesses : x.tier \in EvidenceTiers
  <2>1. \A f \in Seen : Evidence(f).tier \in EvidenceTiers
    BY SeenIsTyped DEF Evidence
  <2>. QED  BY <1>3, <1>6, <2>1
<1>9. PICK e \in witnesses : TRUE
  BY <1>8
<1>10. ConfidenceIn(witnesses) \in Int
  BY <1>7, <1>8, <1>9, CorroborationNeverDoubts
<1>11. m.confidence = ConfidenceIn(witnesses)
  <2>1. m = MergedFrom(facts, key, Primary(GroupOf(findings, key)).place,
                       MergeVersions(GroupOf(findings, key)))
    BY <1>1, <1>2, GroupIsMerged
  <2>. QED  BY <1>6, <2>1 DEF MergedFrom
<1>. QED  BY <1>10, <1>11

LEMMA TiersAreRanked ==
    ASSUME NEW m PROVE TierRank(Assess(m).tier) \in Int
<1>1. PICK c : c = Canonicalise(m.key.name, m.key.params)
  OBVIOUS
<1>2. \E T : Assess(m).tier = Tier(c.quantum, c.classical, T)
  BY <1>1 DEF Assess
<1>3. \A T : Tier(c.quantum, c.classical, T) \in {"critical", "high", "medium", "low", "pq-safe"}
  BY DEF Tier, QuantumTier, MoscaTier
<1>. QED  BY <1>2, <1>3, Ranks

(* What the bom-refs of a merged journal are. *)
LEMMA RefsOfMerged ==
    ASSUME NEW findings \in Seq(Seen), NEW m \in Merge(findings), NEW n \in Merge(findings)
    PROVE  /\ RefRank(m.key) \in Int
           /\ RefRank(m.key) = RefRank(n.key) => m = n
<1>1. m.key \in KeysOf(findings) /\ n.key \in KeysOf(findings)
  BY MergedByKey
<1>2. PICK f \in Range(findings) : m.key = CanonicalKey(f)
  BY <1>1 DEF KeysOf
<1>3. PICK g \in Range(findings) : n.key = CanonicalKey(g)
  BY <1>1 DEF KeysOf
<1>4. f \in Seen /\ g \in Seen
  BY JournalsAreFinite
<1>5. RefRank(m.key) \in Nat /\ (RefRank(m.key) = RefRank(n.key) => m.key = n.key)
  BY <1>2, <1>3, <1>4, RefsAreDistinct
<1>6. m.key = n.key => m = n
  BY MergedByKey
<1>. QED  BY <1>5, <1>6

(* The assessments, and the rows of the queue, are one to each merged       *)
(* finding that is no library.                                             *)
RowOf(merged, m) ==
    [assessment     |-> Assess(m),
     recommendation |-> RecommendFor(m),
     radius         |-> BlastRadius(merged, m.key.name)]

Rated(merged) == {m \in merged : m.key.kind # "library"}

RowsOf(merged) == Rows(Assessed(merged), merged)

LEMMA ListsOfMerged ==
    ASSUME NEW merged
    PROVE  /\ \A m : Assess(m).item = m
           /\ Assessed(merged) = {Assess(m) : m \in Rated(merged)}
           /\ RowsOf(merged) = {RowOf(merged, m) : m \in Rated(merged)}
<1>1. \A m : Assess(m).item = m
  BY DEF Assess
<1>2. Assessed(merged) = {Assess(m) : m \in Rated(merged)}
  BY DEF Assessed, Rated
<1>. DEFINE Row(a) == [assessment     |-> a,
                       recommendation |-> RecommendFor(a.item),
                       radius         |-> BlastRadius(merged, a.item.key.name)]
<1>3. RowsOf(merged) = {Row(a) : a \in Assessed(merged)}
  BY DEF RowsOf, Rows
<1>4. \A m : Row(Assess(m)) = RowOf(merged, m)
  BY <1>1 DEF RowOf
<1>. HIDE DEF Row
<1>5. RowsOf(merged) = {RowOf(merged, m) : m \in Rated(merged)}
  BY <1>2, <1>3, <1>4
<1>. QED  BY <1>1, <1>2, <1>5

LEMMA ListsAreFinite ==
    ASSUME NEW findings \in Seq(Seen)
    PROVE  IsFiniteSet(Assessed(Merge(findings))) /\ IsFiniteSet(RowsOf(Merge(findings)))
<1>1. PICK merged : merged = Merge(findings)
  OBVIOUS
<1>2. Rated(merged) \in SUBSET merged
  BY DEF Rated
<1>3. IsFiniteSet(Rated(merged))
  BY <1>1, <1>2, JournalsAreFinite, FS_Subset
<1>4. [m \in Rated(merged) |-> Assess(m)] \in Surjection(Rated(merged), Assessed(merged))
  BY ListsOfMerged, Fun_IsSurj
<1>5. [m \in Rated(merged) |-> RowOf(merged, m)] \in Surjection(Rated(merged), RowsOf(merged))
  BY ListsOfMerged, Fun_IsSurj
<1>. QED  BY <1>1, <1>3, <1>4, <1>5, FS_Surjection


(* A row is ranked by numbers, the last of which no other row has. *)
LEMMA BytesAreAdded ==
    ASSUME NEW current, NEW target
    PROVE  CostBytes(current, target) \in Nat
<1>1. ASSUME NEW name PROVE \A field \in DOMAIN SizesOf(name) : SizesOf(name)[field] \in Nat
  <2>1. CASE Joined(name) \in DOMAIN Sizes
    BY <2>1, SizesAreBytes DEF SizesOf, SizesAt
  <2>2. CASE Joined(name) \notin DOMAIN Sizes
    BY <2>2 DEF SizesOf, SizesAt
  <2>. QED  BY <2>1, <2>2
<1>2. PICK before : before = SizesOf(current)
  OBVIOUS
<1>3. PICK after : after = SizesOf(target)
  OBVIOUS
<1>4. ASSUME NEW field PROVE Added(field, before, after) \in Nat
  <2>1. CASE field \in DOMAIN before /\ field \in DOMAIN after /\ after[field] > before[field]
    <3>1. before[field] \in Nat /\ after[field] \in Nat
      BY <1>1, <1>2, <1>3, <2>1
    <3>. QED  BY <2>1, <3>1 DEF Added
  <2>2. CASE ~(field \in DOMAIN before /\ field \in DOMAIN after /\ after[field] > before[field])
    BY <2>2 DEF Added
  <2>. QED  BY <2>1, <2>2
<1>5. CostBytes(current, target) =
          Added("public_key", before, after) + Added("private_key", before, after)
            + Added("signature", before, after) + Added("ciphertext", before, after)
  BY <1>2, <1>3 DEF CostBytes, AddedInAll
<1>. QED  BY <1>4, <1>5

LEMMA RowsHaveRanks ==
    ASSUME NEW findings \in Seq(Seen), NEW m
    PROVE  LET row == RowOf(Merge(findings), m)
           IN  /\ TierRank(row.assessment.tier) \in Int /\ row.radius \in Int
               /\ row.recommendation.cost \in Int /\ row.assessment.item = m
<1>1. PICK merged : merged = Merge(findings)
  OBVIOUS
<1>2. PICK row : row = RowOf(merged, m)
  OBVIOUS
<1>3. /\ row.assessment = Assess(m) /\ row.recommendation = RecommendFor(m)
      /\ row.radius = BlastRadius(merged, m.key.name)
  BY <1>2 DEF RowOf
<1>4. BlastRadius(merged, m.key.name) \in Int
  <2>. DEFINE named == {n \in merged : n.key.name = m.key.name}
              targets == {n.key.target : n \in named}
  <2>1. IsFiniteSet(named)
    <3>1. named \in SUBSET merged
      OBVIOUS
    <3>. QED  BY <1>1, <3>1, JournalsAreFinite, FS_Subset
  <2>2. [n \in named |-> n.key.target] \in Surjection(named, targets)
    BY Fun_IsSurj
  <2>3. IsFiniteSet(targets)
    BY <2>1, <2>2, FS_Surjection
  <2>4. Cardinality(targets) \in Nat
    BY <2>3, FS_CardinalityType
  <2>. QED  BY <2>4 DEF BlastRadius
<1>5. RecommendFor(m).cost \in Int
  <2>1. NoRecommendation.cost \in Int
    BY DEF NoRecommendation
  <2>2. ASSUME NEW family, NEW current, NEW roles PROVE Recommend(family, current, roles).cost \in Int
    <3>1. PICK target : target = RowFor(Recommendations[family], roles).target
      OBVIOUS
    <3>2. \/ Recommend(family, current, roles) = NoRecommendation
          \/ Recommend(family, current, roles) = [target |-> target, cost |-> CostBytes(current, target)]
      BY <3>1 DEF Recommend
    <3>. QED  BY <2>1, <3>2, BytesAreAdded
  <2>. QED  BY <2>1, <2>2 DEF RecommendFor
<1>. QED  BY <1>1, <1>2, <1>3, <1>4, <1>5, TiersAreRanked, ListsOfMerged

LEMMA RanksAreStrict ==
    ASSUME NEW findings \in Seq(Seen)
    PROVE  LET rows == RowsOf(Merge(findings))
           IN  StrictlyOrders({p \in rows \X rows : RanksBefore(p[1], p[2])}, rows)
<1>1. PICK merged : merged = Merge(findings)
  OBVIOUS
<1>2. PICK rows : rows = RowsOf(merged)
  OBVIOUS
<1>3. PICK before : before = {p \in rows \X rows : RanksBefore(p[1], p[2])}
  OBVIOUS
<1>4. PICK tier : tier = [e \in rows |-> TierRank(e.assessment.tier)]
  OBVIOUS
<1>5. PICK cost : cost = [e \in rows |-> e.recommendation.cost]
  OBVIOUS
<1>6. PICK radius : radius = [e \in rows |-> e.radius]
  OBVIOUS
<1>7. PICK ref : ref = [e \in rows |-> RefRank(e.assessment.item.key)]
  OBVIOUS
<1>8. ASSUME NEW e \in rows
      PROVE  \E m \in merged : e = RowOf(merged, m) /\ e.assessment.item = m
  <2>1. PICK m \in Rated(merged) : e = RowOf(merged, m)
    BY <1>2, ListsOfMerged
  <2>2. m \in merged
    BY DEF Rated
  <2>. QED  BY <1>1, <2>1, <2>2, RowsHaveRanks
<1>9. ASSUME NEW e \in rows
      PROVE  tier[e] \in Int /\ cost[e] \in Int /\ radius[e] \in Int /\ ref[e] \in Int
  <2>1. PICK m \in merged : e = RowOf(merged, m) /\ e.assessment.item = m
    BY <1>8
  <2>2. TierRank(e.assessment.tier) \in Int /\ e.radius \in Int /\ e.recommendation.cost \in Int
    BY <1>1, <2>1, RowsHaveRanks
  <2>3. RefRank(e.assessment.item.key) \in Int
    BY <1>1, <2>1, RefsOfMerged
  <2>. QED  BY <1>4, <1>5, <1>6, <1>7, <2>2, <2>3
<1>10. ASSUME NEW e \in rows, NEW f \in rows, ref[e] = ref[f] PROVE e = f
  <2>1. PICK m \in merged : e = RowOf(merged, m) /\ e.assessment.item = m
    BY <1>8
  <2>2. PICK n \in merged : f = RowOf(merged, n) /\ f.assessment.item = n
    BY <1>8
  <2>3. RefRank(m.key) = RefRank(n.key)
    BY <1>7, <1>10, <2>1, <2>2
  <2>4. m = n
    BY <1>1, <2>3, RefsOfMerged
  <2>. QED  BY <2>1, <2>2, <2>4
<1>11. ASSUME NEW e \in rows, NEW f \in rows
       PROVE  <<e, f>> \in before <=>
                  \/ tier[e] < tier[f]
                  \/ /\ tier[e] = tier[f]
                     /\ \/ radius[f] < radius[e]
                        \/ /\ radius[e] = radius[f]
                           /\ \/ cost[e] < cost[f]
                              \/ cost[e] = cost[f] /\ ref[e] < ref[f]
  <2>1. <<e, f>> \in before <=> RanksBefore(e, f)
    BY <1>3
  <2>. QED  BY <1>4, <1>5, <1>6, <1>7, <2>1 DEF RanksBefore
<1>12. \A e \in rows : <<e, e>> \notin before
  BY <1>9, <1>11
<1>13. ASSUME NEW e \in rows, NEW f \in rows, NEW g \in rows,
              <<e, f>> \in before, <<f, g>> \in before
       PROVE  <<e, g>> \in before
  <2>1. /\ tier[e] \in Int /\ cost[e] \in Int /\ radius[e] \in Int /\ ref[e] \in Int
        /\ tier[f] \in Int /\ cost[f] \in Int /\ radius[f] \in Int /\ ref[f] \in Int
        /\ tier[g] \in Int /\ cost[g] \in Int /\ radius[g] \in Int /\ ref[g] \in Int
    BY <1>9
  <2>2. CASE tier[e] < tier[g]
    BY <1>11, <2>2
  <2>3. CASE tier[e] = tier[g] /\ tier[f] = tier[e]
    <3>0. tier[f] = tier[g] /\ ~(tier[e] < tier[f]) /\ ~(tier[f] < tier[g])
      BY <2>1, <2>3
    <3>1. /\ \/ radius[f] < radius[e]
             \/ radius[e] = radius[f] /\ (cost[e] < cost[f] \/ (cost[e] = cost[f] /\ ref[e] < ref[f]))
          /\ \/ radius[g] < radius[f]
             \/ radius[f] = radius[g] /\ (cost[f] < cost[g] \/ (cost[f] = cost[g] /\ ref[f] < ref[g]))
      BY <1>11, <1>13, <3>0
    <3>2. \/ radius[g] < radius[e]
          \/ radius[e] = radius[g] /\ (cost[e] < cost[g] \/ (cost[e] = cost[g] /\ ref[e] < ref[g]))
      BY <2>1, <3>1
    <3>. QED  BY <1>11, <2>3, <3>2
  <2>4. tier[e] < tier[g] \/ (tier[e] = tier[g] /\ tier[f] = tier[e])
    <3>1. (tier[e] < tier[f] \/ tier[e] = tier[f]) /\ (tier[f] < tier[g] \/ tier[f] = tier[g])
      BY <1>11, <1>13
    <3>. QED  BY <2>1, <3>1
  <2>. QED  BY <2>2, <2>3, <2>4
<1>14. ASSUME NEW e \in rows, NEW f \in rows, e # f
       PROVE  <<e, f>> \in before \/ <<f, e>> \in before
  <2>1. ref[e] # ref[f]
    BY <1>10, <1>14
  <2>. QED  BY <1>9, <1>11, <2>1
<1>. QED  BY <1>1, <1>2, <1>3, <1>12, <1>13, <1>14 DEF StrictlyOrders

LEMMA UrgencyIsStrict ==
    ASSUME NEW findings \in Seq(Seen)
    PROVE  LET list == Assessed(Merge(findings))
           IN  StrictlyOrders({p \in list \X list : MostUrgentFirst(p[1], p[2])}, list)
<1>1. PICK merged : merged = Merge(findings)
  OBVIOUS
<1>2. PICK list : list = Assessed(merged)
  OBVIOUS
<1>3. PICK before : before = {p \in list \X list : MostUrgentFirst(p[1], p[2])}
  OBVIOUS
<1>4. PICK tier : tier = [a \in list |-> TierRank(a.tier)]
  OBVIOUS
<1>5. PICK confidence : confidence = [a \in list |-> a.item.confidence]
  OBVIOUS
<1>6. PICK ref : ref = [a \in list |-> RefRank(a.item.key)]
  OBVIOUS
<1>7. ASSUME NEW a \in list PROVE \E m \in merged : a = Assess(m) /\ a.item = m
  <2>1. PICK m \in Rated(merged) : a = Assess(m)
    BY <1>2, ListsOfMerged
  <2>. QED  BY <2>1, ListsOfMerged DEF Rated
<1>8. ASSUME NEW a \in list PROVE tier[a] \in Int /\ confidence[a] \in Int /\ ref[a] \in Int
  <2>1. PICK m \in merged : a = Assess(m) /\ a.item = m
    BY <1>7
  <2>2. TierRank(a.tier) \in Int
    BY <2>1, TiersAreRanked
  <2>3. m.confidence \in Int /\ RefRank(m.key) \in Int
    BY <1>1, ConfidencesAreNumbers, RefsOfMerged
  <2>. QED  BY <1>4, <1>5, <1>6, <2>1, <2>2, <2>3
<1>9. ASSUME NEW a \in list, NEW b \in list, ref[a] = ref[b] PROVE a = b
  <2>1. PICK m \in merged : a = Assess(m) /\ a.item = m
    BY <1>7
  <2>2. PICK n \in merged : b = Assess(n) /\ b.item = n
    BY <1>7
  <2>3. RefRank(m.key) = RefRank(n.key)
    BY <1>6, <1>9, <2>1, <2>2
  <2>4. m = n
    BY <1>1, <2>3, RefsOfMerged
  <2>. QED  BY <2>1, <2>2, <2>4
<1>10. ASSUME NEW a \in list, NEW b \in list
       PROVE  <<a, b>> \in before <=>
                  \/ tier[a] < tier[b]
                  \/ /\ tier[a] = tier[b]
                     /\ \/ confidence[a] > confidence[b]
                        \/ confidence[a] = confidence[b] /\ ref[a] < ref[b]
  <2>1. <<a, b>> \in before <=> MostUrgentFirst(a, b)
    BY <1>3
  <2>. QED  BY <1>4, <1>5, <1>6, <2>1 DEF MostUrgentFirst, MostConfidentFirst
<1>11. \A a \in list : <<a, a>> \notin before
  BY <1>8, <1>10
<1>12. ASSUME NEW a \in list, NEW b \in list, NEW c \in list,
              <<a, b>> \in before, <<b, c>> \in before
       PROVE  <<a, c>> \in before
  <2>1. /\ tier[a] \in Int /\ confidence[a] \in Int /\ ref[a] \in Int
        /\ tier[b] \in Int /\ confidence[b] \in Int /\ ref[b] \in Int
        /\ tier[c] \in Int /\ confidence[c] \in Int /\ ref[c] \in Int
    BY <1>8
  <2>2. /\ \/ tier[a] < tier[b]
           \/ /\ tier[a] = tier[b]
              /\ \/ confidence[a] > confidence[b]
                 \/ confidence[a] = confidence[b] /\ ref[a] < ref[b]
        /\ \/ tier[b] < tier[c]
           \/ /\ tier[b] = tier[c]
              /\ \/ confidence[b] > confidence[c]
                 \/ confidence[b] = confidence[c] /\ ref[b] < ref[c]
    BY <1>10, <1>12
  <2>3. \/ tier[a] < tier[c]
        \/ /\ tier[a] = tier[c]
           /\ \/ confidence[a] > confidence[c]
              \/ confidence[a] = confidence[c] /\ ref[a] < ref[c]
    BY <2>1, <2>2
  <2>. QED  BY <1>10, <2>3
<1>13. ASSUME NEW a \in list, NEW b \in list, a # b
       PROVE  <<a, b>> \in before \/ <<b, a>> \in before
  <2>1. ref[a] # ref[b]
    BY <1>9, <1>13
  <2>. QED  BY <1>8, <1>10, <2>1
<1>. QED  BY <1>1, <1>2, <1>3, <1>11, <1>12, <1>13 DEF StrictlyOrders


(* The two lists of write_outputs(), as an operator reads them: every asset *)
(* but the libraries once, and what comes first is the most urgent.        *)
ListsAreRanked ==
    LET queue       == Queue(log)
        assessments == ByUrgency(Assessed(Merge(log)))
    IN  /\ DOMAIN queue = 1..Cardinality(RowsOf(Merge(log))) /\ Range(queue) = RowsOf(Merge(log))
        /\ \A i, j \in DOMAIN queue : i < j <=> RanksBefore(queue[i], queue[j])
        /\ DOMAIN assessments = 1..Cardinality(Assessed(Merge(log)))
        /\ Range(assessments) = Assessed(Merge(log))
        /\ \A i, j \in DOMAIN assessments : i < j <=> MostUrgentFirst(assessments[i], assessments[j])

LEMMA QueueIsSorted ==
    ASSUME NEW findings \in Seq(Seen)
    PROVE  LET rows == RowsOf(Merge(findings))
           IN  Sorted(Queue(findings), rows, {p \in rows \X rows : RanksBefore(p[1], p[2])})
<1>1. PICK rows : rows = RowsOf(Merge(findings))
  OBVIOUS
<1>2. PICK before : before = {p \in rows \X rows : RanksBefore(p[1], p[2])}
  OBVIOUS
<1>3. IsFiniteSet(rows) /\ StrictlyOrders(before, rows)
  BY <1>1, <1>2, ListsAreFinite, RanksAreStrict
<1>4. Queue(findings) = InOrder(rows, before)
  BY <1>1, <1>2 DEF Queue, QueueOf, BuildQueue, ByRank, RowsOf
<1>. QED  BY <1>1, <1>2, <1>3, <1>4, InOrderSorts

LEMMA AssessmentsAreSorted ==
    ASSUME NEW findings \in Seq(Seen)
    PROVE  LET list == Assessed(Merge(findings))
           IN  Sorted(ByUrgency(Assessed(Merge(findings))), list,
                      {p \in list \X list : MostUrgentFirst(p[1], p[2])})
<1>1. PICK list : list = Assessed(Merge(findings))
  OBVIOUS
<1>2. PICK before : before = {p \in list \X list : MostUrgentFirst(p[1], p[2])}
  OBVIOUS
<1>3. IsFiniteSet(list) /\ StrictlyOrders(before, list)
  BY <1>1, <1>2, ListsAreFinite, UrgencyIsStrict
<1>4. ByUrgency(Assessed(Merge(findings))) = InOrder(list, before)
  BY <1>1, <1>2 DEF ByUrgency
<1>. QED  BY <1>1, <1>2, <1>3, <1>4, InOrderSorts

LEMMA SortedHasAll ==
    ASSUME NEW list, NEW S, NEW before, Sorted(list, S, before)
    PROVE  DOMAIN list = 1..Cardinality(S) /\ Range(list) = S
BY DEF Sorted, Range

(* The queue and the list of assessments hold every asset that is no        *)
(* library exactly once, and in the order recommend.py and risk.py promise: *)
(* which row comes first never depends on the journal, since the bom-ref    *)
(* leaves no ties (risk.py assess_all, recommend.py build_queue).          *)
THEOREM QueueIsInOrder == Spec => []ListsAreRanked
<1>1. ASSUME LogInv PROVE ListsAreRanked
  <2>1. PICK findings \in Seq(Seen) : findings = log
    BY <1>1 DEF LogInv
  <2>2. PICK rows : rows = RowsOf(Merge(findings))
    OBVIOUS
  <2>3. PICK list : list = Assessed(Merge(findings))
    OBVIOUS
  <2>4. PICK queue : queue = Queue(findings)
    OBVIOUS
  <2>5. PICK assessments : assessments = ByUrgency(Assessed(Merge(findings)))
    OBVIOUS
  <2>6. Sorted(queue, rows, {p \in rows \X rows : RanksBefore(p[1], p[2])})
    BY <2>2, <2>4, QueueIsSorted
  <2>7. Sorted(assessments, list, {p \in list \X list : MostUrgentFirst(p[1], p[2])})
    BY <2>3, <2>5, AssessmentsAreSorted
  <2>8. /\ DOMAIN queue = 1..Cardinality(rows) /\ Range(queue) = rows
        /\ DOMAIN assessments = 1..Cardinality(list) /\ Range(assessments) = list
    BY <2>6, <2>7, SortedHasAll
  <2>9. \A i, j \in DOMAIN queue : i < j <=> RanksBefore(queue[i], queue[j])
    BY <2>6, <2>8 DEF Sorted
  <2>10. \A i, j \in DOMAIN assessments : i < j <=> MostUrgentFirst(assessments[i], assessments[j])
    BY <2>7, <2>8 DEF Sorted
  <2>. QED  BY <2>1, <2>2, <2>3, <2>4, <2>5, <2>8, <2>9, <2>10 DEF ListsAreRanked
<1>2. LogInv => ListsAreRanked
  BY <1>1
<1>. QED  BY <1>2, JournalsHoldSightings, PTL

(* How many rows of the queue an asset has. *)
LEMMA RowsOfKey ==
    ASSUME NEW findings \in Seq(Seen), NEW key \in KeysOf(findings)
    PROVE  LET queue == Queue(findings)
           IN  Cardinality({i \in DOMAIN queue : queue[i].assessment.item.key = key})
                 = IF key.kind = "library" THEN 0 ELSE 1
<1>1. PICK merged : merged = Merge(findings)
  OBVIOUS
<1>2. PICK rows : rows = RowsOf(merged)
  OBVIOUS
<1>3. PICK before : before = {p \in rows \X rows : RanksBefore(p[1], p[2])}
  OBVIOUS
<1>4. PICK queue : queue = Queue(findings)
  OBVIOUS
<1>5. Sorted(queue, rows, before) /\ StrictlyOrders(before, rows)
  BY <1>1, <1>2, <1>3, <1>4, QueueIsSorted, RanksAreStrict
<1>6. DOMAIN queue = 1..Cardinality(rows) /\ Range(queue) = rows
  BY <1>5, SortedHasAll
<1>7. ASSUME NEW i \in DOMAIN queue
      PROVE  \E m \in Rated(merged) : queue[i] = RowOf(merged, m) /\ queue[i].assessment.item = m
  <2>1. queue[i] \in rows
    BY <1>6 DEF Range
  <2>2. PICK m \in Rated(merged) : queue[i] = RowOf(merged, m)
    BY <1>2, <2>1, ListsOfMerged
  <2>. QED  BY <1>1, <2>2, RowsHaveRanks
<1>8. \A m, n \in Rated(merged) : m.key = n.key => m = n
  BY <1>1, MergedByKey DEF Rated
<1>9. PICK served : served = {i \in DOMAIN queue : queue[i].assessment.item.key = key}
  OBVIOUS
<1>10. CASE key.kind = "library"
  <2>1. served = {}
    <3>1. SUFFICES ASSUME NEW i \in served PROVE FALSE
      OBVIOUS
    <3>2. PICK m \in Rated(merged) : queue[i].assessment.item = m
      BY <1>7, <1>9
    <3>3. m.key = key /\ m.key.kind # "library"
      BY <1>9, <3>2 DEF Rated
    <3>. QED  BY <1>10, <3>3
  <2>. QED  BY <1>4, <1>9, <1>10, <2>1, FS_EmptySet
<1>11. CASE key.kind # "library"
  <2>1. PICK m \in Rated(merged) : m.key = key
    BY <1>1, <1>11, MergedByKey DEF Rated
  <2>2. RowOf(merged, m) \in Range(queue)
    BY <1>2, <1>6, <2>1, ListsOfMerged
  <2>3. PICK i \in DOMAIN queue : queue[i] = RowOf(merged, m)
    BY <2>2 DEF Range
  <2>4. queue[i].assessment.item = m
    BY <1>1, <2>3, RowsHaveRanks
  <2>5. ASSUME NEW j \in served PROVE j = i
    <3>1. PICK n \in Rated(merged) : queue[j] = RowOf(merged, n) /\ queue[j].assessment.item = n
      BY <1>7, <1>9
    <3>2. n = m
      BY <1>8, <1>9, <2>1, <3>1
    <3>3. queue[j] = queue[i] /\ i \in Nat /\ j \in Nat
      BY <1>6, <1>9, <2>3, <3>1, <3>2
    <3>4. queue[i] \in rows /\ <<queue[i], queue[i]>> \notin before
      BY <1>5, <1>6 DEF Range, StrictlyOrders
    <3>5. ~(i < j) /\ ~(j < i)
      BY <1>5, <1>6, <1>9, <3>3, <3>4 DEF Sorted
    <3>. QED  BY <3>3, <3>5
  <2>6. served = {i}
    BY <1>9, <2>1, <2>4, <2>5
  <2>. QED  BY <1>4, <1>9, <1>11, <2>6, FS_Singleton
<1>. QED  BY <1>10, <1>11


(* Nothing that was journalled is lost before the outputs: every finding    *)
(* ships with its location and its witness, or its asset is below the       *)
(* floor, and the queue has one row for it unless it is a library.          *)
THEOREM EveryFindingCounts == Spec => []EveryFindingIsReported
<1>1. ASSUME LogInv, NEW f \in Range(log)
      PROVE  LET key  == CanonicalKey(f)
                 rows == {i \in DOMAIN Queue(log) : Queue(log)[i].assessment.item.key = key}
             IN  /\ IF key \in DOMAIN Cbom(log)
                    THEN /\ Location(f) \in Cbom(log)[key].locations
                         /\ Evidence(f) \in Cbom(log)[key].evidence
                    ELSE ~(MergeGroup(GroupOf(log, key)).confidence >= Floor)
                 /\ Cardinality(rows) = IF f.kind = "library" THEN 0 ELSE 1
  <2>1. PICK key : key = CanonicalKey(f)
    OBVIOUS
  <2>2. log \in Seq(Seen) /\ key \in KeysOf(log) /\ key.kind = f.kind
    BY <1>1, <2>1 DEF LogInv, KeysOf, CanonicalKey
  <2>3. Cardinality({i \in DOMAIN Queue(log) : Queue(log)[i].assessment.item.key = key})
          = IF f.kind = "library" THEN 0 ELSE 1
    BY <2>2, RowsOfKey
  <2>4. ASSUME key \in DOMAIN Cbom(log)
        PROVE  Location(f) \in Cbom(log)[key].locations /\ Evidence(f) \in Cbom(log)[key].evidence
    <3>1. Cbom(log)[key] = Component(MergeGroup(GroupOf(log, key)))
      BY <2>2, <2>4, BomOfMerged
    <3>2. /\ Location(f) \in MergeGroup(GroupOf(log, key)).locations
          /\ Evidence(f) \in MergeGroup(GroupOf(log, key)).evidence
      BY <2>1, <2>2, FindingsAreMerged
    <3>. QED  BY <3>1, <3>2 DEF Component
  <2>5. ASSUME key \notin DOMAIN Cbom(log)
        PROVE  ~(MergeGroup(GroupOf(log, key)).confidence >= Floor)
    BY <2>2, <2>5, BomOfMerged
  <2>. QED  BY <2>1, <2>3, <2>4, <2>5
<1>2. LogInv => EveryFindingIsReported
  BY <1>1 DEF EveryFindingIsReported
<1>. QED  BY <1>2, JournalsHoldSightings, PTL

----------------------------------------------------------------------------
(* What the queue recommends. *)

Roles == {"signature", "kem", "key-agree", "kdf", "pke", "block-cipher", "stream-cipher", "ae",
          "hash", "mac"}

LEMMA RolesAreAList ==
    ASSUME NEW functions PROVE RolesFor(functions) \in Seq(Roles)
<1>. DEFINE Of(f) == IF f \in functions THEN FunctionRoles[f] ELSE <<>>
<1>1. /\ FunctionRoles["sign"] \in Seq(Roles) /\ FunctionRoles["verify"] \in Seq(Roles)
      /\ FunctionRoles["encapsulate"] \in Seq(Roles) /\ FunctionRoles["decapsulate"] \in Seq(Roles)
      /\ FunctionRoles["keyderive"] \in Seq(Roles)
      /\ FunctionRoles["encrypt"] \in Seq(Roles) /\ FunctionRoles["decrypt"] \in Seq(Roles)
      /\ FunctionRoles["digest"] \in Seq(Roles) /\ FunctionRoles["tag"] \in Seq(Roles)
  <2>1. \A a, b, c, d \in Roles :
            <<a>> \in Seq(Roles) /\ <<a, b>> \in Seq(Roles) /\ <<a, b, c, d>> \in Seq(Roles)
    OBVIOUS
  <2>2. /\ "signature" \in Roles /\ "kem" \in Roles /\ "key-agree" \in Roles /\ "kdf" \in Roles
        /\ "pke" \in Roles /\ "block-cipher" \in Roles /\ "stream-cipher" \in Roles
        /\ "ae" \in Roles /\ "hash" \in Roles /\ "mac" \in Roles
    BY DEF Roles
  <2>. QED  BY <2>1, <2>2 DEF FunctionRoles
<1>2. /\ Of("decapsulate") \in Seq(Roles) /\ Of("decrypt") \in Seq(Roles)
      /\ Of("digest") \in Seq(Roles) /\ Of("encapsulate") \in Seq(Roles)
      /\ Of("encrypt") \in Seq(Roles) /\ Of("keyderive") \in Seq(Roles)
      /\ Of("sign") \in Seq(Roles) /\ Of("tag") \in Seq(Roles) /\ Of("verify") \in Seq(Roles)
  <2>1. <<>> \in Seq(Roles)
    OBVIOUS
  <2>. QED  BY <1>1, <2>1
<1>3. RolesFor(functions) =
          Of("decapsulate") \o Of("decrypt") \o Of("digest") \o Of("encapsulate") \o Of("encrypt")
            \o Of("keyderive") \o Of("sign") \o Of("tag") \o Of("verify")
  BY DEF RolesFor
<1>. HIDE DEF Of
<1>. QED  BY <1>2, <1>3

LEMMA LeastIsMember ==
    ASSUME NEW S \in SUBSET Nat, S # {} PROVE Min(S) \in S
BY LeastNumber DEF Min

(* Whatever was observed, the row that is taken is one of the table's.      *)
LEMMA RowIsOfTheTable ==
    ASSUME NEW rows, rows \in Seq(Range(rows)), rows # <<>>, NEW roles \in Seq(Roles)
    PROVE  RowFor(rows, roles) \in Range(rows)
<1>. DEFINE Fits(role) == {i \in DOMAIN rows : rows[i].role = role}
            served == {i \in DOMAIN roles : Fits(roles[i]) # {}}
<1>1. RowFor(rows, roles) = rows[IF served = {} THEN 1 ELSE Min(Fits(roles[Min(served)]))]
  BY DEF RowFor
<1>2. DOMAIN rows = 1..Len(rows) /\ Len(rows) \in Nat /\ Len(rows) # 0
  OBVIOUS
<1>3. CASE served = {}
  <2>1. 1 \in DOMAIN rows
    BY <1>2
  <2>. QED  BY <1>1, <1>3, <2>1 DEF Range
<1>4. CASE served # {}
  <2>1. served \in SUBSET Nat
    OBVIOUS
  <2>2. PICK first : first = Min(served)
    OBVIOUS
  <2>3. first \in served
    BY <1>4, <2>1, <2>2, LeastIsMember
  <2>4. PICK fitting : fitting = Fits(roles[first])
    OBVIOUS
  <2>5. fitting \in SUBSET Nat /\ fitting # {} /\ fitting \subseteq DOMAIN rows
    BY <1>2, <2>3, <2>4
  <2>6. Min(fitting) \in DOMAIN rows
    BY <2>5, LeastIsMember
  <2>. QED  BY <1>1, <1>4, <2>2, <2>4, <2>6 DEF Range
<1>. QED  BY <1>3, <1>4

(* How a name is graded that the registry resolves. *)
LEMMA ResolvedIsGraded ==
    ASSUME NEW tokens, NEW params, NEW f, ResolveFamily(tokens) = f, f # Unset,
           NEW p, ExtractParameter(Entry[f], tokens, params.param) = p
    PROVE  LET c == Canonicalise(tokens, params)
           IN  /\ c.name = RenderName(f, p, params.mode)
               /\ c.params = [param |-> p, mode |-> params.mode, padding |-> params.padding]
               /\ c.quantum = QuantumStatus(Entry[f], p) /\ c.classical = Entry[f].classical
BY DEF Canonicalise, CanonicalOf, Algorithm

LEMMA ReplacedIsDone ==
    ASSUME ReplacementsAreStrong, NEW family \in DOMAIN Recommendations,
           NEW row \in Range(Recommendations[family]),
           NEW findings \in Seq(Seen), NEW item \in Merge(findings)
    PROVE  LET m == Migrated(item, row.target)
           IN  Assess(m).tier = "pq-safe" /\ RecommendFor(m) = NoRecommendation
<1>1. PICK f : f = ResolveFamily(row.target)
  OBVIOUS
<1>2. PICK p : p = ExtractParameter(Entry[f], row.target, Unset)
  OBVIOUS
<1>3. PICK name : name = RenderName(f, p, Unset)
  OBVIOUS
<1>4. /\ f # Unset
      /\ \/ Entry[f].quantum = "safe"
         \/ Entry[f].quantum = "weakened" /\ QuantumBits(Entry[f], p) >= 128
      /\ Entry[f].classical \notin {"broken", "disallowed", "deprecated"}
      /\ ResolveFamily(name) = f
      /\ ExtractParameter(Entry[f], name, p) = p
  BY <1>1, <1>2, <1>3 DEF ReplacementsAreStrong
<1>6. NoParams.param = Unset /\ NoParams.mode = Unset
  BY DEF NoParams
<1>7. PICK c : c = Canonicalise(row.target, NoParams)
  OBVIOUS
<1>8. c.name = name /\ c.params = [param |-> p, mode |-> Unset, padding |-> NoParams.padding]
  BY <1>1, <1>2, <1>3, <1>4, <1>6, <1>7, ResolvedIsGraded
<1>9. PICK params : params = c.params
  OBVIOUS
<1>10. params.param = p /\ params.mode = Unset
  BY <1>8, <1>9
<1>11. PICK m : m = Migrated(item, row.target)
  OBVIOUS
<1>12. m.key.name = name /\ m.key.params = params
  <2>1. PICK key \in KeysOf(findings) : item = MergeGroup(GroupOf(findings, key))
    BY DEF Merge
  <2>2. item.key = key /\ item = [x \in DOMAIN item |-> item[x]] /\ "key" \in DOMAIN item
    BY <2>1, GroupIsMerged DEF MergeGroup
  <2>3. key = [target |-> key.target, kind |-> key.kind, name |-> key.name, params |-> key.params]
    BY DEF KeysOf, CanonicalKey
  <2>. QED  BY <1>7, <1>8, <1>9, <1>11, <2>2, <2>3 DEF Migrated
<1>13. PICK d : d = Canonicalise(m.key.name, m.key.params)
  OBVIOUS
<1>14. d.quantum = QuantumStatus(Entry[f], p) /\ d.classical = Entry[f].classical
  <2>1. d = Canonicalise(name, params) /\ ExtractParameter(Entry[f], name, params.param) = p
    BY <1>4, <1>10, <1>12, <1>13
  <2>. QED  BY <1>4, <2>1 DEF Canonicalise, CanonicalOf, Algorithm
<1>15. d.quantum = "safe"
  BY <1>4, <1>14 DEF QuantumStatus
<1>16. ~IsClassicallyUnsound(d)
  BY <1>4, <1>14 DEF IsClassicallyUnsound
<1>17. RecommendFor(m) = NoRecommendation
  BY <1>13, <1>15, <1>16 DEF RecommendFor
<1>18. Assess(m).tier = "pq-safe"
  <2>1. ~QuantumVulnerable(d.quantum)
    BY <1>15 DEF QuantumVulnerable
  <2>2. Assess(m).tier = Tier(d.quantum, d.classical, {})
    BY <1>13, <2>1 DEF Assess
  <2>3. QuantumTier(d.quantum, {}) = "pq-safe"
    BY <1>15, <2>1 DEF QuantumTier
  <2>4. d.classical \notin {"broken", "disallowed"}
    BY <1>4, <1>14
  <2>. QED  BY <2>2, <2>3, <2>4 DEF Tier
<1>. QED  BY <1>11, <1>17, <1>18

(* The recommendation of a row of the queue is that of a row of the table.  *)
LEMMA QueueRecommends ==
    ASSUME LogInv, NEW e \in Range(Queue(log)), e.recommendation # NoRecommendation
    PROVE  LET item   == e.assessment.item
               family == Canonicalise(item.key.name, item.key.params).family
           IN  /\ item \in Merge(log) /\ family \in DOMAIN Recommendations
               /\ e.recommendation.target
                      = RowFor(Recommendations[family], RolesFor(item.functions)).target
<1>1. PICK findings \in Seq(Seen) : findings = log
  BY DEF LogInv
<1>2. PICK merged : merged = Merge(findings)
  OBVIOUS
<1>3. Range(Queue(findings)) = RowsOf(merged)
  BY <1>2, QueueIsSorted, SortedHasAll
<1>4. PICK m \in Rated(merged) : e = RowOf(merged, m)
  BY <1>1, <1>3, ListsOfMerged
<1>5. e.assessment.item = m /\ e.recommendation = RecommendFor(m)
  BY <1>2, <1>4, RowsHaveRanks DEF RowOf
<1>6. PICK c : c = Canonicalise(m.key.name, m.key.params)
  OBVIOUS
<1>7. PICK roles : roles = RolesFor(m.functions)
  OBVIOUS
<1>8. PICK row : row = RowFor(Recommendations[c.family], roles)
  OBVIOUS
<1>9. RecommendFor(m) = Recommend(c.family, c.name, roles)
  BY <1>5, <1>6, <1>7 DEF RecommendFor
<1>10. /\ c.family \in DOMAIN Recommendations
       /\ RecommendFor(m) = [target |-> row.target, cost |-> CostBytes(c.name, row.target)]
  BY <1>5, <1>8, <1>9 DEF Recommend
<1>11. e.recommendation.target = row.target
  BY <1>5, <1>10
<1>12. m \in Merge(log)
  BY <1>1, <1>2 DEF Rated
<1>. QED  BY <1>5, <1>6, <1>7, <1>8, <1>10, <1>11, <1>12

(* No asset is migrated twice: one that was replaced as the queue told is    *)
(* graded as pq-safe and gets no further recommendation, for every registry *)
(* and cost table whose targets are strong and keep their names             *)
(* (recommend.py recommend_for, canonical.py canonicalise).                 *)
THEOREM ReplacementsAreFinal ==
    ASSUME ReplacementsAreStrong
    PROVE  Spec => []RecommendationsAreSafe
<1>1. ASSUME LogInv, NEW e \in Range(Queue(log)), e.recommendation # NoRecommendation
      PROVE  LET m == Migrated(e.assessment.item, e.recommendation.target)
             IN  Assess(m).tier = "pq-safe" /\ RecommendFor(m) = NoRecommendation
  <2>1. PICK m : m = e.assessment.item
    OBVIOUS
  <2>2. PICK family : family = Canonicalise(m.key.name, m.key.params).family
    OBVIOUS
  <2>3. PICK roles \in Seq(Roles) : roles = RolesFor(m.functions)
    BY RolesAreAList
  <2>4. PICK row : row = RowFor(Recommendations[family], roles)
    OBVIOUS
  <2>5. /\ m \in Merge(log) /\ family \in DOMAIN Recommendations
        /\ e.recommendation.target = row.target
    BY <1>1, <2>1, <2>2, <2>3, <2>4, QueueRecommends
  <2>6. row \in Range(Recommendations[family])
    BY <2>4, <2>5, TablesHaveRows, RowIsOfTheTable
  <2>7. log \in Seq(Seen)
    BY <1>1 DEF LogInv
  <2>. QED  BY <2>1, <2>5, <2>6, <2>7, ReplacedIsDone
<1>2. LogInv => RecommendationsAreSafe
  BY <1>1 DEF RecommendationsAreSafe
<1>. QED  BY <1>2, JournalsHoldSightings, PTL

----------------------------------------------------------------------------
(* Which role a recommendation serves.                                     *)

(* The row is of an observed role wherever the family has such rows.       *)
LEMMA RowServesARole ==
    ASSUME NEW rows, rows \in Seq(Range(rows)), NEW roles \in Seq(Roles),
           \E row \in Range(rows) : row.role \in Range(roles)
    PROVE  RowFor(rows, roles).role \in Range(roles)
<1>. DEFINE Fits(role) == {i \in DOMAIN rows : rows[i].role = role}
            served == {i \in DOMAIN roles : Fits(roles[i]) # {}}
<1>1. DOMAIN rows = 1..Len(rows) /\ DOMAIN roles \subseteq Nat
  OBVIOUS
<1>2. served # {}
  BY DEF Range
<1>3. PICK first : first = Min(served)
  OBVIOUS
<1>4. first \in served
  BY <1>1, <1>2, <1>3, LeastIsMember
<1>5. PICK fitting : fitting = Fits(roles[first])
  OBVIOUS
<1>6. fitting \in SUBSET Nat /\ fitting # {}
  BY <1>1, <1>4, <1>5
<1>7. rows[Min(fitting)].role = roles[first]
  BY <1>5, <1>6, LeastIsMember
<1>8. RowFor(rows, roles) = rows[Min(fitting)]
  BY <1>2, <1>3, <1>5 DEF RowFor
<1>. QED  BY <1>4, <1>7, <1>8 DEF Range

(* The rows of the asset's family for the roles its functions imply.       *)
Serving(item) ==
    LET family == Canonicalise(item.key.name, item.key.params).family
    IN  {row \in Range(Recommendations[family]) : row.role \in Range(RolesFor(item.functions))}

(* What is recommended serves a role in which the asset was seen, wherever  *)
(* its family has a row for one: recommend.py recommend_for.                *)
RolesAreServed ==
    \A e \in Range(Queue(log)) :
        LET serving == Serving(e.assessment.item)
        IN  e.recommendation # NoRecommendation /\ serving # {} =>
                \E row \in serving : e.recommendation.target = row.target

(* RolesAreServed holds for every registry and cost table, and journals of  *)
(* any length: only a family without any such row falls back on its first.  *)
THEOREM ObservedRolesAreServed == Spec => []RolesAreServed
<1>1. ASSUME LogInv, NEW e \in Range(Queue(log)), e.recommendation # NoRecommendation,
             Serving(e.assessment.item) # {}
      PROVE  \E row \in Serving(e.assessment.item) : e.recommendation.target = row.target
  <2>1. PICK item : item = e.assessment.item
    OBVIOUS
  <2>2. PICK family : family = Canonicalise(item.key.name, item.key.params).family
    OBVIOUS
  <2>3. PICK roles \in Seq(Roles) : roles = RolesFor(item.functions)
    BY RolesAreAList
  <2>4. PICK rows : rows = Recommendations[family]
    OBVIOUS
  <2>5. PICK row : row = RowFor(rows, roles)
    OBVIOUS
  <2>6. family \in DOMAIN Recommendations /\ e.recommendation.target = row.target
    BY <1>1, <2>1, <2>2, <2>3, <2>4, <2>5, QueueRecommends
  <2>7. rows \in Seq(Range(rows)) /\ rows # <<>>
    BY <2>4, <2>6, TablesHaveRows
  <2>8. Serving(item) = {r \in Range(rows) : r.role \in Range(roles)}
    BY <2>2, <2>3, <2>4 DEF Serving
  <2>9. row \in Range(rows) /\ row.role \in Range(roles)
    BY <1>1, <2>1, <2>5, <2>7, <2>8, RowIsOfTheTable, RowServesARole
  <2>. QED  BY <2>1, <2>6, <2>8, <2>9
<1>2. LogInv => RolesAreServed
  BY <1>1 DEF RolesAreServed
<1>. QED  BY <1>2, JournalsHoldSightings, PTL

LEMMA JoinedLists ==
    ASSUME NEW S, NEW a \in Seq(S), NEW b \in Seq(S)
    PROVE  a \o b \in Seq(S) /\ Len(a \o b) = Len(a) + Len(b) /\ Len(b) \in Nat
OBVIOUS

LEMMA SigningIsASignature ==
    ASSUME NEW functions, functions \subseteq {"sign", "verify"}, "sign" \in functions
    PROVE  Range(RolesFor(functions)) = {"signature"}
<1>. DEFINE S == {"signature"}
            a == <<"signature">>
            b == IF "verify" \in functions THEN <<"signature">> ELSE <<>>
<1>1. RolesFor(functions) = a \o b
  <2>1. /\ "decapsulate" \notin functions /\ "decrypt" \notin functions /\ "digest" \notin functions
        /\ "encapsulate" \notin functions /\ "encrypt" \notin functions
        /\ "keyderive" \notin functions /\ "tag" \notin functions
    OBVIOUS
  <2>. QED  BY <2>1 DEF RolesFor, FunctionRoles
<1>2. a \in Seq(S) /\ Len(a) = 1 /\ b \in Seq(S)
  <2>1. <<"signature">> \in Seq(S) /\ Len(<<"signature">>) = 1 /\ <<>> \in Seq(S)
    OBVIOUS
  <2>. QED  BY <2>1
<1>3. PICK roles : roles = a \o b
  OBVIOUS
<1>. HIDE DEF S, a, b
<1>4. roles \in Seq(S) /\ Len(roles) = Len(a) + Len(b) /\ Len(b) \in Nat
  BY <1>2, <1>3, JoinedLists
<1>5. DOMAIN roles = 1..Len(roles) /\ 1 \in DOMAIN roles /\ \A i \in DOMAIN roles : roles[i] \in S
  BY <1>2, <1>4
<1>6. Range(roles) = {"signature"}
  BY <1>5 DEF Range, S
<1>. QED  BY <1>1, <1>3, <1>6

(* An asset with which nothing but signing was observed, and verification,  *)
(* is told to become a signature scheme if its family has a row for that.   *)
SignersStaySigners ==
    \A e \in Range(Queue(log)) :
        LET item   == e.assessment.item
            family == Canonicalise(item.key.name, item.key.params).family
        IN  /\ e.recommendation # NoRecommendation
            /\ item.functions \subseteq {"sign", "verify"} /\ "sign" \in item.functions
            /\ \E row \in Range(Recommendations[family]) : row.role = "signature"
            => Canonicalise(e.recommendation.target, NoParams).primitive
                   = "signature"

(* SignaturesMigrateToSignatures does not hold of assets that do more than  *)
(* sign; of those that do not, it does, for every registry and cost table   *)
(* whose signature rows are signatures (recommend.py recommend_for).        *)
THEOREM SigningStaysSigning ==
    ASSUME SignatureRowsSign
    PROVE  Spec => []SignersStaySigners
<1>1. ASSUME LogInv, RolesAreServed, NEW e \in Range(Queue(log)),
             NEW item, item = e.assessment.item,
             NEW family, family = Canonicalise(item.key.name, item.key.params).family,
             e.recommendation # NoRecommendation,
             item.functions \subseteq {"sign", "verify"}, "sign" \in item.functions,
             \E row \in Range(Recommendations[family]) : row.role = "signature"
      PROVE  Canonicalise(e.recommendation.target, NoParams).primitive
                 = "signature"
  <2>1. Serving(item) = {row \in Range(Recommendations[family]) : row.role = "signature"}
    BY <1>1, SigningIsASignature DEF Serving
  <2>2. PICK row \in Serving(item) : e.recommendation.target = row.target
    BY <1>1, <2>1 DEF RolesAreServed
  <2>3. family \in DOMAIN Recommendations
    BY <1>1, QueueRecommends
  <2>. QED  BY <2>1, <2>2, <2>3 DEF SignatureRowsSign
<1>2. LogInv /\ RolesAreServed => SignersStaySigners
  <2>. SUFFICES ASSUME LogInv, RolesAreServed, NEW e \in Range(Queue(log)),
                       e.recommendation # NoRecommendation,
                       e.assessment.item.functions \subseteq {"sign", "verify"},
                       "sign" \in e.assessment.item.functions,
                       \E row \in Range(Recommendations[Canonicalise(e.assessment.item.key.name,
                                                            e.assessment.item.key.params).family]) :
                          row.role = "signature"
                PROVE  Canonicalise(e.recommendation.target,
                                    NoParams).primitive = "signature"
    BY Zenon DEF SignersStaySigners
  <2>. QED  BY <1>1
<1>. QED  BY <1>2, JournalsHoldSightings, ObservedRolesAreServed, PTL
=============================================================================
