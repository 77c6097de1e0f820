-------------------------------- MODULE Risk --------------------------------
(***************************************************************************)
(* assess() and assess_all() of qdarpan/risk.py: a merged finding against  *)
(* the registry and the policy.                                            *)
(***************************************************************************)
EXTENDS Normalise, Canonical, Mosca

CONSTANT Criticality   \* Criticality[target]: what the operator says of a target

(* Alphabetical, as the surfaces of a merged finding are sorted. *)
SurfaceOrder == <<"container", "elf", "source", "tls">>

FirstSurface(surfaces) ==
    SurfaceOrder[CHOOSE i \in DOMAIN SurfaceOrder :
        /\ SurfaceOrder[i] \in surfaces
        /\ \A j \in 1..(i - 1) : SurfaceOrder[j] \notin surfaces]

CriticalityOf(target) ==
    IF target \in DOMAIN Criticality THEN Criticality[target] ELSE DefaultCriticality

Assess(m) ==
    LET c == Canonicalise(m.key.name, m.key.params)
        x == MigrationYears(FirstSurface(m.surfaces), m.key.kind)
        y == ShelfLife(CriticalityOf(m.key.target))
        tripped == IF QuantumVulnerable(c.quantum) THEN Tripped(x, y) ELSE {}
    IN  [item      |-> m,
         tier      |-> Tier(c.quantum, c.classical, tripped),
         quantum   |-> c.quantum,
         classical |-> c.classical,
         migration |-> x,
         tripped   |-> tripped,
         deadlines |-> Deadlines(QuantumVulnerable(c.quantum), c.bits)]

MostUrgentFirst(r, s) ==
    \/ TierRank(r.tier) < TierRank(s.tier)
    \/ /\ TierRank(r.tier) = TierRank(s.tier)
       /\ MostConfidentFirst(r.item, s.item)

(* assess_all(): everything but the libraries, and in which order.         *)
Assessed(merged) == {Assess(m) : m \in {n \in merged : n.key.kind # "library"}}

ByUrgency(assessed) ==
    InOrder(assessed, {p \in assessed \X assessed : MostUrgentFirst(p[1], p[2])})

Summarise(assessments) ==
    [t \in Range(Tiers) |-> Cardinality({i \in DOMAIN assessments : assessments[i].tier = t})]
=============================================================================
