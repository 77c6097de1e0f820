------------------------------ MODULE Collect ------------------------------
(***************************************************************************)
(* qdarpan/collectors/base.py: threads of one or several pools run units,  *)
(* a collector on a target each, through safe_collect().  collect() is a   *)
(* generator: what it has yielded stays yielded, whatever happens to it.   *)
(* SourceAST, ELF, Container and TLS give the steps between two yields.    *)
(* An operator introduced as "Wrong:" is a bug the code could have had; no *)
(* specification uses it.                                                  *)
(***************************************************************************)
EXTENDS Naturals, Sequences, FiniteSets

CONSTANTS
    Threads,      \* the threads of all pools
    Units,        \* (collector, target) pairs that some scan submits
    NoUnit,       \* job of a thread that has none
    Estates,      \* the sets of units that are submitted together
    MaxFaults     \* bound: calls of the system that fail without a cause in the target

ASSUME CollectConstants ==
    /\ NoUnit \notin Units
    /\ Estates \subseteq SUBSET Units
    /\ MaxFaults \in Nat

VARIABLES
    waiting,      \* units submitted and not yet taken up
    job,          \* the unit each thread is at
    at,           \* the suspended generator of each thread: pc and its locals
    out,          \* results of each unit so far
    over,         \* units safe_collect() has returned from
    faults

pool == <<waiting, job, over>>

(* What a generator yields: a finding, or an error with its phase and the   *)
(* file, layer or endpoint it is about.                                     *)
Fact(where, what)     == [kind |-> "finding", where |-> where, what |-> what]
Trouble(phase, where) == [kind |-> "error", where |-> where, what |-> <<phase>>]

Errors(u)   == {x \in out[u] : x.kind = "error"}
Findings(u) == {x \in out[u] : x.kind = "finding"}

Idle == [pc |-> "idle"]

CollectTypeOK ==
    /\ waiting \subseteq Units /\ over \subseteq Units
    /\ job \in [Threads -> Units \cup {NoUnit}]
    /\ DOMAIN at = Threads
    /\ \A u \in Units : \A x \in out[u] :
          DOMAIN x = {"kind", "where", "what"} /\ x.kind \in {"finding", "error"}
    /\ DOMAIN out = Units
    /\ faults \in Nat

CollectInit ==
    /\ waiting \in Estates
    /\ job = [th \in Threads |-> NoUnit]
    /\ at = [th \in Threads |-> Idle]
    /\ out = [u \in Units |-> {}]
    /\ over = {} /\ faults = 0

(* A thread of the pool takes u up; collect(target) is about to run its     *)
(* first statement, with these locals.                                      *)
Start(th, u, locals) ==
    /\ job[th] = NoUnit /\ u \in waiting
    /\ waiting' = waiting \ {u}
    /\ job' = [job EXCEPT ![th] = u]
    /\ at' = [at EXCEPT ![th] = locals]
    /\ UNCHANGED <<out, over>>

(* The generator yields these items and runs on, to its next suspension.    *)
Yield(th, items, locals) ==
    /\ out' = [out EXCEPT ![job[th]] = @ \cup items]
    /\ at' = [at EXCEPT ![th] = locals]
    /\ UNCHANGED pool

Resume(th, locals) == Yield(th, {}, locals)

(* safe_collect() hands back its list, and the thread is free again.        *)
Leave(th, items) ==
    /\ out' = [out EXCEPT ![job[th]] = items]
    /\ over' = over \cup {job[th]}
    /\ job' = [job EXCEPT ![th] = NoUnit]
    /\ at' = [at EXCEPT ![th] = Idle]
    /\ UNCHANGED waiting

(* The generator yields a last time and returns. *)
Finish(th, items) == Leave(th, out[job[th]] \cup items)

(* Wrong: the list is given up with the exception. *)
CaughtAlone(u, items) == {Trouble("collect", u)}

(* What safe_collect() makes of an exception: all that was yielded before,  *)
(* and an error of its own.                                                 *)
Caught(u, items) == out[u] \cup items \cup {Trouble("collect", u)}

(* An exception leaves collect(). *)
Raise(th, items) == Leave(th, Caught(job[th], items))

NoFault == UNCHANGED faults

(* A call of the operating system fails that might have succeeded. *)
Fault == faults < MaxFaults /\ faults' = faults + 1
=============================================================================
