--------------------------------- MODULE IR ---------------------------------
(***************************************************************************)
(* qdarpan/ir.py: findings, what identifies their asset, and how sure a    *)
(* set of witnesses makes one.                                             *)
(*                                                                         *)
(* A finding carries one witness (its tier, matcher and snippet), as every *)
(* collector's do.  place stands for location.describe(), by its rank in   *)
(* the order of strings.                                                   *)
(***************************************************************************)
EXTENDS Integers, Sequences, FiniteSets, SequencesExt

CONSTANTS
    RefRank(_),   \* the rank of an asset's bom-ref in the order of strings
    Unset         \* None

Surfaces == {"container", "elf", "source", "tls"}
Kinds == {"algorithm", "certificate", "protocol", "related", "library"}

(* Strongest first. *)
TierOrder == <<"negotiated", "direct_api_call", "linked_library_pinned", "crypto_constant",
               "linked_library_unpinned", "string_literal", "filename_metadata">>

EvidenceTiers == Range(TierOrder)

RankOf == [t \in EvidenceTiers |-> CHOOSE i \in DOMAIN TierOrder : TierOrder[i] = t]

Rank(tier) == RankOf[tier]

(* 1 - TIER_CONFIDENCE of the tiers in this order, in hundredths.          *)
Doubts == <<1, 5, 20, 30, 45, 60, 70>>

(* CONFIDENCE_CEILING, in the four decimals a confidence is rounded to.    *)
Ceiling == 9900

----------------------------------------------------------------------------
(* What identifies an asset, and with it a component of the CBOM: the name  *)
(* and every parameter of SIGNIFICANT_PARAMETERS that a collector sets, the *)
(* padding of a Java transformation too.                                   *)
CanonicalKey(f) ==
    [target |-> f.target, kind |-> f.kind, name |-> f.name, params |-> f.params]

Evidence(f) == [tier |-> f.tier, matcher |-> f.matcher, snippet |-> f.snippet]

Location(f) == [surface |-> f.surface, place |-> f.place]

(* sorted(): a list by its order, a set of pairs.  Every list that an output *)
(* shows is sorted down to the bom-ref, so that there are no ties.          *)
InOrder(S, before) ==
    [i \in 1..Cardinality(S) |->
        CHOOSE e \in S : Cardinality({f \in S : <<f, e>> \in before}) = i - 1]

(* factor[1] * ... * factor[n] *)
Product(factor, n) ==
    LET p[k \in 0..n] == IF k = 0 THEN 1 ELSE p[k - 1] * factor[k]
    IN  p[n]

Power(base, n) == Product([k \in 1..n |-> base], n)

(* Wrong: the witnesses' mean. *)
CombineConfidenceMean(tally, n) ==
    10000 - (100 * MapThenSumSet(LAMBDA i : tally[TierOrder[i]] * Doubts[i], DOMAIN TierOrder)) \div n

Complement(tally) ==
    Product([i \in DOMAIN TierOrder |-> Power(Doubts[i], tally[TierOrder[i]])], Len(TierOrder))

(* Noisy-OR over n witnesses, tally[t] of them of tier t: their doubts      *)
(* multiply, and the rest is rounded to four decimals.  (TLC's integers     *)
(* hold four witnesses.)                                                   *)
Share(doubt, n) ==
    CASE n = 1 -> 100 * doubt
      [] n = 2 -> doubt
      [] n > 2 -> (doubt + 50 * Power(100, n - 3)) \div Power(100, n - 2)

CombineConfidence(tally, n) == Min({10000 - Share(Complement(tally), n), Ceiling})
=============================================================================
