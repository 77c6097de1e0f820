----------------------------- MODULE Normalise -----------------------------
(***************************************************************************)
(* qdarpan/normalise.py: the findings of a journal, collapsed into one     *)
(* merged finding per asset.  Left out are the merged library, which no     *)
(* output reads, and the oid: the registry gives it by family and           *)
(* parameter, so all findings of an asset have the same.  A group is a part *)
(* of the journal: the findings of one asset, at the positions they have.   *)
(***************************************************************************)
EXTENDS IR

(* Wrong: every firing of a matcher is a witness of its own. *)
DedupeEvidenceNot(group) == DOMAIN group

(* The findings whose witness is the first of its kind. *)
DedupeEvidence(group) ==
    {i \in DOMAIN group :
        \A j \in DOMAIN group : j < i => Evidence(group[j]) # Evidence(group[i])}

(* How many witnesses there are of each tier. *)
Tally(group, witnesses) ==
    [t \in EvidenceTiers |-> Cardinality({i \in witnesses : group[i].tier = t})]

Stronger(f, g) ==
    \/ Rank(f.tier) < Rank(g.tier)
    \/ Rank(f.tier) = Rank(g.tier) /\ f.place < g.place

(* Wrong: the first to arrive. *)
PrimaryByArrival(group) == group[Min(DOMAIN group)]

(* min() by tier, then place, then arrival. *)
Foremost(group) ==
    {i \in DOMAIN group :
        \A j \in DOMAIN group \ {i} :
            Stronger(group[i], group[j]) \/ (~Stronger(group[j], group[i]) /\ i < j)}

Primary(group) == group[CHOOSE i \in Foremost(group) : TRUE]

(* The strongest witness that gives the version, the first among equals.   *)
Versioned(group) == {i \in DOMAIN group : group[i].version # Unset}

BestVersioned(group) ==
    {i \in Versioned(group) :
        \A j \in Versioned(group) \ {i} :
            \/ Rank(group[i].tier) < Rank(group[j].tier)
            \/ Rank(group[i].tier) = Rank(group[j].tier) /\ i < j}

MergeVersions(group) ==
    IF Versioned(group) = {} THEN Unset
    ELSE group[CHOOSE i \in BestVersioned(group) : TRUE].version

(* Wrong: the strongest witness's location stands for all of them. *)
LocationsOfPrimary(group) == {Location(Primary(group))}

Locations(group) == {Location(f) : f \in Range(group)}

MergeGroup(group) ==
    LET witnesses == DedupeEvidence(group)
        primary   == Primary(group)
        places    == Locations(group)
    IN  [key        |-> CanonicalKey(primary),
         evidence   |-> {Evidence(group[i]) : i \in witnesses},
         confidence |-> CombineConfidence(Tally(group, witnesses), Cardinality(witnesses)),
         place      |-> primary.place,
         locations  |-> places,
         surfaces   |-> {l.surface : l \in places},
         collectors |-> {f.collector : f \in Range(group)},
         functions  |-> UNION {f.functions : f \in Range(group)},
         version    |-> MergeVersions(group)]

MostConfidentFirst(m, n) ==
    \/ m.confidence > n.confidence
    \/ m.confidence = n.confidence /\ RefRank(m.key) < RefRank(n.key)

KeysOf(findings) == {CanonicalKey(f) : f \in Range(findings)}

GroupOf(findings, key) ==
    Restrict(findings, {i \in DOMAIN findings : CanonicalKey(findings[i]) = key})

(* A list in the code; whatever is made of it sorts it anew. *)
Merge(findings) == {MergeGroup(GroupOf(findings, key)) : key \in KeysOf(findings)}

Corroborated(m) == Cardinality(m.surfaces) > 1

(* In how many targets an algorithm of this name was found. *)
BlastRadius(merged, name) ==
    Cardinality({m.key.target : m \in {n \in merged : n.key.name = name}})
============================================================================
