----------------------------- MODULE Recommend -----------------------------
(***************************************************************************)
(* qdarpan/recommend.py: what to replace an asset with, at what cost, and  *)
(* the queue that ranks the replacements.                                  *)
(***************************************************************************)
EXTENDS Risk

CONSTANTS
    Recommendations,   \* Recommendations[family]: a sequence of [role, target]
    Sizes              \* Sizes[text]: the byte size of each field, by squashed name

(* A family without rows is none of the table's (recommend.py:208-210).     *)
ASSUME TablesHaveRows ==
    \A f \in DOMAIN Recommendations :
        /\ Recommendations[f] \in Seq(Range(Recommendations[f]))
        /\ Recommendations[f] # <<>>

ASSUME SizesAreBytes ==
    \A name \in DOMAIN Sizes : \A field \in DOMAIN Sizes[name] : Sizes[name][field] \in Nat

(* The roles an observed function implies; other functions imply none. *)
FunctionRoles ==
    [sign        |-> <<"signature">>,
     verify      |-> <<"signature">>,
     encapsulate |-> <<"kem", "key-agree">>,
     decapsulate |-> <<"kem", "key-agree">>,
     keyderive   |-> <<"key-agree", "kdf">>,
     encrypt     |-> <<"pke", "block-cipher", "stream-cipher", "ae">>,
     decrypt     |-> <<"pke", "block-cipher", "stream-cipher", "ae">>,
     digest      |-> <<"hash">>,
     tag         |-> <<"mac">>]

(* In the alphabetical order of the functions. *)
RolesFor(functions) ==
    LET Of(f) == IF f \in functions THEN FunctionRoles[f] ELSE <<>>
    IN  Of("decapsulate") \o Of("decrypt") \o Of("digest") \o Of("encapsulate") \o Of("encrypt")
            \o Of("keyderive") \o Of("sign") \o Of("tag") \o Of("verify")

NoRecommendation == [target |-> <<>>, cost |-> 0]

SizesAt(text) == IF text \in DOMAIN Sizes THEN Sizes[text] ELSE [f \in {} |-> 0]

SizesOf(name) == SizesAt(Joined(name))

(* The bytes added in a field, where both define it. *)
Added(field, before, after) ==
    IF field \in DOMAIN before /\ field \in DOMAIN after /\ after[field] > before[field]
    THEN after[field] - before[field] ELSE 0

AddedInAll(before, after) ==
    Added("public_key", before, after) + Added("private_key", before, after)
        + Added("signature", before, after) + Added("ciphertext", before, after)

CostBytes(current, target) == AddedInAll(SizesOf(current), SizesOf(target))

(* The row of the first observed role the family has, else its first row.  *)
RowFor(rows, roles) ==
    LET Fits(role) == {i \in DOMAIN rows : rows[i].role = role}
        served == {i \in DOMAIN roles : Fits(roles[i]) # {}}
    IN  rows[IF served = {} THEN 1 ELSE Min(Fits(roles[Min(served)]))]

Recommend(family, current, roles) ==
    IF family \notin DOMAIN Recommendations THEN NoRecommendation
    ELSE LET target == RowFor(Recommendations[family], roles).target
         IN  IF Joined(target) = Joined(current) THEN NoRecommendation
             ELSE [target |-> target, cost |-> CostBytes(current, target)]

RecommendFor(m) ==
    LET c == Canonicalise(m.key.name, m.key.params)
    IN  IF \/ c.family = Unset
           \/ c.quantum = "safe" /\ ~IsClassicallyUnsound(c)
        THEN NoRecommendation
        ELSE Recommend(c.family, c.name, RolesFor(m.functions))

(* Tier, then the targets affected, then the cheapest, then the bom-ref.   *)
RanksBefore(e, f) ==
    LET Before(a, b, rest) == a < b \/ (a = b /\ rest)
    IN  Before(TierRank(e.assessment.tier), TierRank(f.assessment.tier),
          Before(f.radius, e.radius,
            Before(e.recommendation.cost, f.recommendation.cost,
              RefRank(e.assessment.item.key) < RefRank(f.assessment.item.key))))

(* A row for each of the assessments; the radius counts the whole journal.  *)
Rows(assessed, merged) ==
    {[assessment     |-> a,
      recommendation |-> RecommendFor(a.item),
      radius         |-> BlastRadius(merged, a.item.key.name)] : a \in assessed}

ByRank(rows) == InOrder(rows, {p \in rows \X rows : RanksBefore(p[1], p[2])})

BuildQueue(assessed, merged) == ByRank(Rows(assessed, merged))

Actionable(queue) == SelectSeq(queue, LAMBDA e : e.recommendation # NoRecommendation)

(* The totals of the report's header. *)
SummariseCosts(queue) ==
    LET rows == Actionable(queue)
        targets == {rows[i].recommendation.target : i \in DOMAIN rows}
    IN  [needing |-> Len(rows),
         targets |-> [t \in targets |->
                        Cardinality({i \in DOMAIN rows : rows[i].recommendation.target = t})],
         bytes   |-> MapThenSumSet(LAMBDA i : rows[i].recommendation.cost, DOMAIN rows)]
============================================================================
