------------------------------- MODULE Mosca -------------------------------
(***************************************************************************)
(* The two clocks of qdarpan/risk.py: Mosca's inequality and the           *)
(* milestones, and the tier they amount to, for any policy.                *)
(***************************************************************************)
EXTENDS Integers, FiniteSets

CONSTANTS
    Scenarios,            \* Scenarios[name]: years to a quantum computer
    ShelfLifeYears,       \* ShelfLifeYears[criticality]
    DefaultCriticality,
    EffortBySurface,      \* EffortBySurface[surface], in years
    EffortByKind,         \* EffortByKind[kind], in years
    DefaultEffort,
    Milestones            \* records [id, year, appliesTo]

ASSUME ScenariosAreYears == \A s \in DOMAIN Scenarios : Scenarios[s] \in Nat
ASSUME EstimatesAreYears ==
    /\ \A c \in DOMAIN ShelfLifeYears : ShelfLifeYears[c] \in Nat
    /\ \A s \in DOMAIN EffortBySurface : EffortBySurface[s] \in Nat
    /\ \A k \in DOMAIN EffortByKind : EffortByKind[k] \in Nat
    /\ DefaultEffort \in Nat
ASSUME DefaultCriticalityIsGraded == DefaultCriticality \in DOMAIN ShelfLifeYears

Tiers == <<"critical", "high", "medium", "low", "pq-safe">>
TierRank(tier) == CHOOSE i \in DOMAIN Tiers : Tiers[i] = tier

ShelfLife(criticality) ==
    IF criticality \in DOMAIN ShelfLifeYears THEN ShelfLifeYears[criticality]
    ELSE ShelfLifeYears[DefaultCriticality]

(* The worse of the two estimates, where the policy has them. *)
MigrationYears(surface, kind) ==
    LET candidates == {EffortBySurface[s] : s \in {surface} \cap DOMAIN EffortBySurface}
                        \cup {EffortByKind[k] : k \in {kind} \cap DOMAIN EffortByKind}
    IN  IF candidates = {} THEN DefaultEffort
        ELSE CHOOSE x \in candidates : \A y \in candidates : y <= x

(* X + Y > Z, scenario by scenario: the names of those that trip. *)
Tripped(x, y) == {s \in DOMAIN Scenarios : x + y > Scenarios[s]}

TripsAll(tripped) == tripped = DOMAIN Scenarios /\ tripped # {}

(* Who needs the inequality at all. *)
QuantumVulnerable(quantum) == quantum \in {"broken", "weakened"}

(* How many scenarios trip. *)
MoscaTier(tripped) ==
    CASE TripsAll(tripped) -> "critical"
      [] "median" \in tripped /\ ~TripsAll(tripped) -> "high"
      [] "median" \notin tripped /\ tripped # {} /\ ~TripsAll(tripped) -> "medium"
      [] OTHER -> "low"

QuantumTier(quantum, tripped) ==
    CASE quantum = "unknown" -> "medium"
      [] quantum = "safe" -> "pq-safe"
      [] QuantumVulnerable(quantum) -> MoscaTier(tripped)
      [] OTHER -> "low"

(* Classical unsoundness outranks the quantum clock. *)
Tier(quantum, classical, tripped) ==
    IF classical \in {"broken", "disallowed"} THEN "critical" ELSE QuantumTier(quantum, tripped)

(* The milestones that bind an asset. *)
Deadlines(vulnerable, bits) ==
    {m \in Milestones :
        \/ m.appliesTo \notin {"quantum_vulnerable", "quantum_vulnerable_112"}
        \/ m.appliesTo = "quantum_vulnerable" /\ vulnerable
        \/ m.appliesTo = "quantum_vulnerable_112" /\ vulnerable /\ 0 < bits /\ bits <= 112}
============================================================================
