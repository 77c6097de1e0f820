------------------------------ MODULE Pipeline ------------------------------
(***************************************************************************)
(* qdarpan/pipeline.py over two quarters: collectors journal what they see *)
(* under canonical names, and analyse() makes a CBOM and a migration queue *)
(* of the journal, whatever stands in it so far.  What reaches the journal *)
(* and in which order it is read back is the subject of Scan and Journal.  *)
(***************************************************************************)
EXTENDS Recommend, Cbom

CONSTANTS
    Sightings,   \* what collectors may come across, in their own spelling
    Floor,       \* the confidence below which nothing is shipped
    MaxFirst,    \* bound: findings journalled in the first quarter
    MaxLater     \* bound: findings journalled in a quarter that is compared

ASSUME BoundsAreNat == MaxFirst \in Nat /\ MaxLater \in Nat

(* Collectors use the types of ir.py; a version is read from the database   *)
(* of a package manager and nowhere else (container.py:267-297).            *)
ASSUME SightingsAreTyped ==
    \A s \in Sightings :
        /\ s.kind \in Kinds /\ s.surface \in Surfaces /\ s.tier \in EvidenceTiers
        /\ s.functions \subseteq DOMAIN FunctionRoles \cup {"keygen"}
        /\ s.place \in Nat
        /\ s.version # Unset => s.collector = "container"

VARIABLES
    log,         \* this quarter's findings.jsonl
    earlier      \* last quarter's

vars == <<log, earlier>>

FindingOf(s, name, params, tier, functions) ==
    [target |-> s.target, kind |-> s.kind, name |-> name, params |-> params,
     surface |-> s.surface, place |-> s.place, collector |-> s.collector,
     tier |-> tier, matcher |-> s.matcher, snippet |-> s.snippet,
     functions |-> functions, version |-> s.version]

(* Wrong: each ecosystem's own spelling is journalled. *)
ObserveAsSpelt(s) == <<FindingOf(s, s.raw, s.params, s.tier, s.functions)>>

(* Wrong: an unresolved literal is a tier of its own. *)
UnresolvedTierOwn == "unresolved"

UnresolvedTier == "string_literal"

(* What a collector makes of a sighting.  An algorithm gets its canonical   *)
(* name; one the registry does not know is journalled as a weak literal by  *)
(* the source collector and dropped by the others.                          *)
Observe(s) ==
    LET c == Canonicalise(s.raw, s.params)
    IN  CASE s.kind # "algorithm" ->
               <<FindingOf(s, s.raw, s.params, s.tier, s.functions)>>
          [] s.kind = "algorithm" /\ c # UnknownAlgorithm ->
               <<FindingOf(s, c.name, c.params, s.tier, s.functions)>>
          [] s.kind = "algorithm" /\ c = UnknownAlgorithm /\ s.collector = "source_ast" ->
               <<FindingOf(s, s.raw, s.params, UnresolvedTier, {})>>
          [] OTHER -> <<>>

(* What can stand in a journal. *)
Seen == UNION {Range(Observe(s)) : s \in Sightings}

(* bom_ref() tells assets apart: sixteen digits of a SHA-256, taken to be    *)
(* free of collisions (ir.py:210-219).                                     *)
ASSUME RefsAreDistinct ==
    \A f, g \in Seen :
        /\ RefRank(CanonicalKey(f)) \in Nat
        /\ RefRank(CanonicalKey(f)) = RefRank(CanonicalKey(g)) => CanonicalKey(f) = CanonicalKey(g)

(* analyse(): assessments and queue of a merged journal. *)
Cbom(findings) == BuildBom(Merge(findings), Floor)

QueueOf(merged) == BuildQueue(Assessed(merged), merged)

Queue(findings) == QueueOf(Merge(findings))

(* write_outputs(): the CBOM, the assessments, the queue, and the counts at *)
(* the head of a report and of an answer of the service.                    *)
Documents(cbom, assessments, queue) ==
    [cbom |-> cbom, assessments |-> assessments, queue |-> queue,
     tiers |-> Summarise(assessments), costs |-> SummariseCosts(queue)]

OutputsOf(merged) ==
    LET assessed == Assessed(merged)
    IN  Documents(BuildBom(merged, Floor), ByUrgency(assessed), BuildQueue(assessed, merged))

Outputs(findings) == OutputsOf(Merge(findings))

(* cmd_diff() on the two quarters' CBOMs. *)
QuarterlyDiff == Compare(Cbom(earlier), Cbom(log))

----------------------------------------------------------------------------
Init ==
    /\ log = <<>>
    /\ earlier = <<>>

Record(s) ==
    /\ Len(log) < IF earlier = <<>> THEN MaxFirst ELSE MaxLater
    /\ log' = log \o Observe(s)
    /\ UNCHANGED earlier

NextQuarter ==
    /\ log # <<>> /\ Len(log) <= MaxLater
    /\ earlier' = log
    /\ log' = <<>>

Next == NextQuarter \/ \E s \in Sightings : Record(s)

Spec == Init /\ [][Next]_vars

----------------------------------------------------------------------------
(* What the registry and the policy owe the properties below; what is       *)
(* checked of the shipped ones does, an operator's own may not.            *)

(* To take the name that canonical.py prints for a spelling changes nothing. *)
NamesResolveToThemselves ==
    \A s \in Sightings :
        LET c == Canonicalise(s.raw, s.params)
        IN  s.kind = "algorithm" /\ c # UnknownAlgorithm
                => Canonicalise(c.name, c.params) = c

(* risk.py rates an asset by the first of its surfaces in the alphabet:     *)
(* where two collectors see assets of one target, the first must not be the *)
(* quicker to migrate.                                                     *)
SurfaceRank(surface) == CHOOSE i \in DOMAIN SurfaceOrder : SurfaceOrder[i] = surface

FirstSurfaceIsSlowest ==
    \A r, s \in Sightings :
        r.target = s.target /\ r.kind = s.kind /\ SurfaceRank(r.surface) < SurfaceRank(s.surface)
            => MigrationYears(s.surface, s.kind) <= MigrationYears(r.surface, r.kind)

(* What migration_costs.json tells an operator to deploy is an algorithm of  *)
(* the registry which no quantum computer or deprecation threatens, under   *)
(* a name that a collector takes for the same algorithm again.              *)
ReplacementsAreStrong ==
    \A family \in DOMAIN Recommendations : \A row \in Range(Recommendations[family]) :
        LET f     == ResolveFamily(row.target)
            param == ExtractParameter(Entry[f], row.target, Unset)
        IN  /\ f # Unset
            /\ \/ Entry[f].quantum = "safe"
               \/ Entry[f].quantum = "weakened" /\ QuantumBits(Entry[f], param) >= 128
            /\ Entry[f].classical \notin {"broken", "disallowed", "deprecated"}
            /\ LET name == RenderName(f, param, Unset)
               IN  /\ ResolveFamily(name) = f
                   /\ ExtractParameter(Entry[f], name, param) = param

(* What migration_costs.json has for signatures are signature schemes.     *)
SignatureRowsSign ==
    \A family \in DOMAIN Recommendations : \A row \in Range(Recommendations[family]) :
        row.role = "signature" =>
            Canonicalise(row.target, NoParams).primitive = "signature"

----------------------------------------------------------------------------
(* The journals hold findings of the types ir.py declares. *)
TypeOK ==
    \A f \in Range(log) \cup Range(earlier) :
        /\ f.kind \in Kinds
        /\ f.surface \in Surfaces
        /\ f.tier \in EvidenceTiers
        /\ f.functions \subseteq DOMAIN FunctionRoles \cup {"keygen"}

(* A target that is collected again, because a resume could not tell that   *)
(* it was done, adds duplicate lines to the journal and nothing to the CBOM *)
(* or the queue: the same matcher on the same snippet is one witness.       *)
RescanAddsNothing ==
    LET once == Outputs(log)
    IN  \A f \in Range(log) : Outputs(Append(log, f)) = once

(* Which unit of a scan finished first shows nowhere: two findings of       *)
(* different units may be journalled in either order (normalise.merge       *)
(* promises as much).  Within a unit the order is the collector's own.      *)
Swapped(i) == [log EXCEPT ![i] = log[i + 1], ![i + 1] = log[i]]

CompletionOrderIrrelevant ==
    LET ordered == Outputs(log)
    IN  \A i \in 1..(Len(log) - 1) :
            <<log[i].target, log[i].collector>> # <<log[i + 1].target, log[i + 1].collector>>
                => Outputs(Swapped(i)) = ordered

(* Nothing that was journalled is lost on the way: its asset ships with     *)
(* this very location and witness or is below the floor, and the queue has  *)
(* one row for it, and none when it is a library.                           *)
EveryFindingIsReported ==
    LET cbom  == Cbom(log)
        queue == Queue(log)
    IN  \A f \in Range(log) :
            LET key  == CanonicalKey(f)
                rows == {i \in DOMAIN queue : queue[i].assessment.item.key = key}
            IN  /\ IF key \in DOMAIN cbom
                   THEN /\ Location(f) \in cbom[key].locations
                        /\ Evidence(f) \in cbom[key].evidence
                   ELSE ~(MergeGroup(GroupOf(log, key)).confidence >= Floor)
                /\ Cardinality(rows) = IF f.kind = "library" THEN 0 ELSE 1

(* However many ecosystems spell it, a target has one asset for a family    *)
(* with its parameter, mode and padding.  (Not one for an algorithm: Java   *)
(* says how it pads, so "RSA/ECB/PKCS1Padding" and the RSA of a certificate *)
(* are two assets of one name; see README.)                                *)
OneAssetPerConfiguration ==
    \A m, n \in Merge(log) :
        LET c == Canonicalise(m.key.name, m.key.params)
            d == Canonicalise(n.key.name, n.key.params)
        IN  /\ m.key.target = n.key.target
            /\ m.key.kind = "algorithm" /\ n.key.kind = "algorithm"
            /\ c # UnknownAlgorithm /\ d # UnknownAlgorithm
            /\ c.family = d.family /\ c.params = d.params
            => m = n

(* One more witness never takes a finding back: no asset leaves the CBOM,   *)
(* loses confidence or a location, or is graded as less urgent.             *)
TierOf(findings, key) ==
    TierRank(Assess(MergeGroup(GroupOf(findings, key))).tier)

NothingIsTakenBack ==
    IsPrefix(log, log') =>
        \A m \in Merge(log) :
            LET n == MergeGroup(GroupOf(log', m.key))
            IN  /\ n.confidence >= m.confidence
                /\ m.locations \subseteq n.locations
                /\ TierOf(log', m.key) <= TierOf(log, m.key)

WitnessesNeverCalm == [][NothingIsTakenBack]_vars

(* A migration is done once: an asset that was replaced as the queue said   *)
(* is found under the canonical name of its replacement, graded as pq-safe  *)
(* and has nothing further to migrate to.                                   *)
Migrated(m, target) ==
    LET c == Canonicalise(target, NoParams)
    IN  [m EXCEPT !.key.name = c.name, !.key.params = c.params]

RecommendationsAreSafe ==
    \A e \in Range(Queue(log)) :
        e.recommendation # NoRecommendation =>
            LET m == Migrated(e.assessment.item, e.recommendation.target)
            IN  /\ Assess(m).tier = "pq-safe"
                /\ RecommendFor(m) = NoRecommendation

(* A quarter that finds the same facts, in whatever order and how often     *)
(* ever, is a quarter without changes.                                      *)
QuietQuarter ==
    Range(log) = Range(earlier) => ~HasChanges(QuarterlyDiff)

----------------------------------------------------------------------------
(* What recommend.py says of itself: where signing was observed, a          *)
(* signature scheme is recommended.                                         *)
SignaturesMigrateToSignatures ==
    \A e \in Range(Actionable(Queue(log))) :
        "sign" \in e.assessment.item.functions =>
            Canonicalise(e.recommendation.target, NoParams).primitive
                = "signature"
=============================================================================
