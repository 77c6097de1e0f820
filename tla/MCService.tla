----------------------------- MODULE MCService -----------------------------
(* Three threads over one run directory, two facts to find. *)
EXTENDS ServiceInvariant, TLC

CONSTANTS t1, t2, t3, f1, f2

MCThreads == {t1, t2, t3}
MCFacts == {f1, f2}
SomePosts == {{}, {f1}, {f2}}
Same == Permutations(MCThreads) \cup Permutations(MCFacts)
=============================================================================
