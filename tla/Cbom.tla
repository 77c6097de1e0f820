-------------------------------- MODULE Cbom --------------------------------
(***************************************************************************)
(* qdarpan/cbom.py and qdarpan/diff.py: the bill of materials of a merged  *)
(* journal, and the difference of two of them.  A component's bom-ref is   *)
(* the digest of its canonical key, so a document is a function of keys.   *)
(***************************************************************************)
EXTENDS Normalise, Canonical

(* What the registry says of the family by its name, whatever the size.    *)
FamilyProperties(name) ==
    LET family == ResolveFamily(name)
    IN  IF family = Unset THEN [family |-> Unset, quantum |-> Unset, classical |-> Unset]
        ELSE [family    |-> family,
              quantum   |-> Entry[family].quantum,
              classical |-> Entry[family].classical]

(* The crypto properties that depend on the kind of asset. *)
CryptoProperties(m) ==
    LET c == Canonicalise(m.key.name, m.key.params)
    IN  IF m.key.kind = "algorithm"
        THEN [functions |-> m.functions, bits |-> c.bits, level |-> c.level]
        ELSE [functions |-> {}, bits |-> 0, level |-> 0]

Component(m) ==
    LET of == FamilyProperties(m.key.name)
    IN  [isLibrary    |-> m.key.kind = "library",
         version      |-> m.version,
         description  |-> m.place,
         confidence   |-> m.confidence,
         collectors   |-> m.collectors,
         surfaces     |-> m.surfaces,
         corroborated |-> Corroborated(m),
         evidence     |-> m.evidence,
         locations    |-> m.locations,
         family       |-> of.family,
         quantum      |-> of.quantum,
         classical    |-> of.classical,
         crypto       |-> CryptoProperties(m)]

Kept(merged, floor) == {m \in merged : m.confidence >= floor}

(* include_low_confidence is a floor of 0. *)
BuildBom(merged, floor) ==
    LET kept == Kept(merged, floor)
    IN  [key \in {m.key : m \in kept} |-> Component(CHOOSE m \in kept : m.key = key)]

----------------------------------------------------------------------------
(* Wrong: the version is compared too. *)
TrackedWithVersion ==
    {"confidence", "surfaces", "collectors", "quantum", "classical", "corroborated", "version"}

(* Coordinates churn, so they are not compared. *)
Tracked == {"confidence", "surfaces", "collectors", "quantum", "classical", "corroborated"}

Deltas(old, new) == {p \in Tracked : old[p] # new[p]}

Compare(before, after) ==
    LET both == DOMAIN before \cap DOMAIN after
        changed == {key \in both : Deltas(before[key], after[key]) # {}}
    IN  [appeared    |-> DOMAIN after \ DOMAIN before,
         disappeared |-> DOMAIN before \ DOMAIN after,
         changed     |-> [key \in changed |-> Deltas(before[key], after[key])],
         unchanged   |-> Cardinality(both \ changed)]

HasChanges(diff) ==
    diff.appeared # {} \/ diff.disappeared # {} \/ DOMAIN diff.changed # {}
=============================================================================
