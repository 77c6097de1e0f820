----------------------------- MODULE Canonical -----------------------------
(***************************************************************************)
(* qdarpan/canonical.py: a raw spelling of an algorithm, resolved against  *)
(* the registry of policy/algorithms.json.  A spelling is the sequence of  *)
(* tokens that resolve_family() splits it into, in lower case.             *)
(***************************************************************************)
EXTENDS IR

CONSTANTS
    Entry,        \* Entry[family]: what algorithms.json says of a family
    Aliases,      \* Aliases[text]: the family of a punctuation-free spelling
    Curves,       \* Curves[text]: the curve of a spelling, in lower case
    Runs,         \* Runs[token]: the numbers of two to five digits in it
    Shown,        \* Shown[value]: the tokens a parameter value is printed as
    Templates     \* Templates[family]: how it is printed, when not as "F-p": a style
                  \* ("bare", "append" or "glued") and the tokens before the parameter

Families == DOMAIN Entry

(* What the registry holds of a family.  bits, quantumBits and level are    *)
(* keyed by the parameter, or by "*".                                      *)
EntryFields == {"primitive", "quantum", "attack", "classical", "field",
                "bits", "quantumBits", "level", "default", "tokens"}

ASSUME RegistryIsComplete == \A f \in Families : DOMAIN Entry[f] = EntryFields
ASSUME AliasesAreFamilies == \A a \in DOMAIN Aliases : Aliases[a] \in Families

----------------------------------------------------------------------------
Joined(tokens) ==
    LET text[i \in 0..Len(tokens)] == IF i = 0 THEN "" ELSE text[i - 1] \o tokens[i]
    IN  text[Len(tokens)]

(* One lookup, punctuation aside: the family of a key or an alias. *)
FamilyOf(text) == IF text \in DOMAIN Aliases THEN Aliases[text] ELSE Unset
Direct(tokens) == FamilyOf(Joined(tokens))

Windows(tokens) ==
    {w \in (1..Len(tokens)) \X (1..Len(tokens)) :
        w[1] <= w[2] /\ Direct(SubSeq(tokens, w[1], w[2])) # Unset}

(* Longest first, and of those the leftmost. *)
Precedes(v, w) ==
    \/ v[2] - v[1] > w[2] - w[1]
    \/ v[2] - v[1] = w[2] - w[1] /\ v[1] <= w[1]

FirstFamily(tokens, windows) ==
    IF windows = {} THEN Unset
    ELSE LET best == CHOOSE v \in windows : \A w \in windows : Precedes(v, w)
         IN  Direct(SubSeq(tokens, best[1], best[2]))

ResolveFamily(tokens) == FirstFamily(tokens, Windows(tokens))

----------------------------------------------------------------------------
NumbersIn(tokens) == FlattenSeq([i \in DOMAIN tokens |-> Runs[tokens[i]]])

FirstNumber(defined) == IF defined = <<>> THEN Unset ELSE Head(defined)
NamedCurve(e, text) ==
    IF text \in DOMAIN Curves /\ Curves[text] \in DOMAIN e.bits THEN Curves[text] ELSE Unset

(* The parameter a spelling carries itself: the first of its numbers the   *)
(* family defines, or the curve it names.  (A version in a name is left     *)
(* out: the only collector of protocols gives it as a parameter.)          *)
Embedded(e, tokens) ==
    CASE e.field = "key_size" ->
            FirstNumber(SelectSeq(NumbersIn(tokens), LAMBDA n : n \in DOMAIN e.bits))
      [] e.field = "curve" -> NamedCurve(e, Joined(tokens))
      [] OTHER -> Unset

OrElse(value, other) == IF value # Unset THEN value ELSE other

(* A curve takes its standard name ("secp256r1" is "P-256"), one that the   *)
(* registry does not know keeps its own.                                   *)
NormaliseCurve(value) == IF value \in DOMAIN Curves THEN Curves[value] ELSE value

Explicit(e, given) ==
    IF e.field = "curve" /\ given # Unset THEN NormaliseCurve(given) ELSE given

(* An explicit parameter, else one in the name, else the standard's own     *)
(* default; most families have none.                                       *)
ExtractParameter(e, tokens, given) ==
    IF e.field = Unset THEN Unset
    ELSE OrElse(Explicit(e, given), OrElse(Embedded(e, tokens), e.default))

(* A parameter-keyed table with its wildcard; 0 stands for no entry.       *)
Lookup(table, param) ==
    CASE param \in DOMAIN table -> table[param]
      [] param \notin DOMAIN table /\ "*" \in DOMAIN table -> table["*"]
      [] OTHER -> 0

HasEntry(table, param) == param \in DOMAIN table \/ "*" \in DOMAIN table

(* The stated level, or what Shor and Grover leave of the classical one.   *)
QuantumBits(e, param) ==
    LET bits == Lookup(e.bits, param)
    IN  CASE HasEntry(e.quantumBits, param) -> Lookup(e.quantumBits, param)
          [] ~HasEntry(e.quantumBits, param) /\ e.quantum # "safe" /\ e.attack = "shor" -> 0
          [] ~HasEntry(e.quantumBits, param) /\ e.quantum # "safe" /\ e.attack = "grover"
                -> bits \div 2
          [] OTHER -> bits

(* Wrong: the margin that is left is not looked at. *)
QuantumStatusOfFamily(e, param) == e.quantum

QuantumStatus(e, param) ==
    IF e.quantum = "weakened" /\ QuantumBits(e, param) >= 128 THEN "safe" ELSE e.quantum

ModeBearing == {"block-cipher", "stream-cipher", "ae"}

(* The display name, as the tokens it would be split into again.  A glued   *)
(* template ("TLS{p}") runs the parameter into the token before it.        *)
Glued(tokens, more) ==
    Front(tokens) \o <<Last(tokens) \o Head(more)>> \o Tail(more)

BaseName(f, param) ==
    LET family == Entry[f].tokens
    IN  CASE f \notin DOMAIN Templates /\ param = Unset -> family
          [] f \notin DOMAIN Templates /\ param # Unset -> family \o Shown[param]
          [] f \in DOMAIN Templates ->
                LET template == Templates[f]
                IN  CASE template.style = "bare" -> template.tokens
                      [] template.style # "bare" /\ param = Unset -> family
                      [] template.style = "glued" /\ param # Unset ->
                            Glued(template.tokens, Shown[param])
                      [] OTHER -> template.tokens \o Shown[param]

RenderName(f, param, mode) ==
    IF mode # Unset /\ Entry[f].primitive \in ModeBearing
    THEN Append(BaseName(f, param), mode)
    ELSE BaseName(f, param)

NoParams == [param |-> Unset, mode |-> Unset, padding |-> Unset]

UnknownAlgorithm ==
    [name |-> Unset, family |-> Unset, primitive |-> "unknown", params |-> NoParams,
     bits |-> 0, quantumBits |-> 0, quantum |-> "unknown", classical |-> "unknown", level |-> 0]

(* What the registry says of a family at a parameter.  Mode and padding are *)
(* passed on as they were given; the padding is in no name.                *)
Algorithm(f, e, p, params) ==
    [name |-> RenderName(f, p, params.mode), family |-> f, primitive |-> e.primitive,
     params |-> [param |-> p, mode |-> params.mode, padding |-> params.padding],
     bits |-> Lookup(e.bits, p),
     quantumBits |-> QuantumBits(e, p), quantum |-> QuantumStatus(e, p),
     classical |-> e.classical, level |-> Lookup(e.level, p)]

(* canonicalise(): params is the parameter of the family's own field, the   *)
(* mode and the padding (no collector gives a hash).  UnknownAlgorithm      *)
(* stands for the exception, with what risk.py makes of it.                *)
CanonicalOf(f, tokens, params) ==
    IF f = Unset THEN UnknownAlgorithm
    ELSE Algorithm(f, Entry[f], ExtractParameter(Entry[f], tokens, params.param), params)

Canonicalise(tokens, params) == CanonicalOf(ResolveFamily(tokens), tokens, params)

IsClassicallyUnsound(c) == c.classical \in {"broken", "disallowed", "deprecated"}
============================================================================
