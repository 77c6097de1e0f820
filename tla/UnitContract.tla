---------------------------- MODULE UnitContract ----------------------------
(***************************************************************************)
(* What a scan may rely on when it hands a target to a collector, whatever *)
(* the target is: the unit answers once, with what is in the target and    *)
(* nothing else, takes nothing back, and if it reports no error then it    *)
(* has reported all that it is expected to see.                            *)
(***************************************************************************)
CONSTANTS
    Units,
    Present,      \* Present[u]: the findings that are true of u's target
    Expected      \* Expected[u]: those that may be left out only with an error

VARIABLES waiting, over, out

contract == <<waiting, over, out>>

Found(items)  == {x \in items : x.kind = "finding"}
Quiet(items)  == \A x \in items : x.kind # "error"

Init ==
    /\ waiting \subseteq Units
    /\ over = {} /\ out = [u \in Units |-> {}]

TakeUp(u) ==
    /\ u \in waiting /\ waiting' = waiting \ {u}
    /\ UNCHANGED <<over, out>>

(* Nothing is invented and nothing taken back. *)
Adds(u) ==
    /\ out[u] \subseteq out'[u] /\ Found(out'[u]) \subseteq Present[u]
    /\ \A v \in Units \ {u} : out'[v] = out[v]

Report(u) ==
    /\ u \notin waiting \cup over
    /\ Adds(u) /\ UNCHANGED <<waiting, over>>

(* The answer is complete, or says that it is not. *)
Answer(u) ==
    /\ u \notin waiting \cup over
    /\ Adds(u)
    /\ (Quiet(out'[u]) => Expected[u] \subseteq out'[u])
    /\ over' = over \cup {u} /\ UNCHANGED waiting

Next == \E u \in Units : TakeUp(u) \/ Report(u) \/ Answer(u)

Spec == Init /\ [][Next]_contract
=============================================================================
