---------------------------- MODULE UnitInvariant ----------------------------
(***************************************************************************)
(* How far each collector has come with its unit, and what it has to show  *)
(* for it.                                                                  *)
(***************************************************************************)
EXTENDS Collectors

(* What the results of a unit are made of. *)
IsItem(x) == DOMAIN x = {"kind", "where", "what"} /\ x.kind \in {"finding", "error"}

ItemsOnly == \A u \in Units : \A x \in out[u] : IsItem(x)

(* A unit is waiting, with one thread, or over. *)
PoolInv ==
    /\ over \subseteq Units /\ faults \in Nat /\ changes \in 0..MaxChanges
    /\ waiting \cap over = {}
    /\ \A th \in Threads : job[th] \notin waiting \cup over
    /\ \A t1, t2 \in Threads : t1 # t2 /\ job[t1] = job[t2] => job[t1] = NoUnit

(* Each unit is with the generator of its collector. *)
AtHome ==
    \A th \in Threads :
        /\ job[th] \in DOMAIN Files => at[th].pc \in SourceSteps
        /\ job[th] \in DOMAIN Binaries => at[th].pc = "binary"
        /\ job[th] \in DOMAIN Images => at[th].pc \in {"open", "layer", "member"}
        /\ job[th] \in Endpoints => at[th].pc \in {"handshake", "probe"}
        /\ job[th] = NoUnit => at[th] = Idle

(* What is kept of the grammars is right: a grammar that is loaded can be,  *)
(* and an entry of a cache is a parser just where there is a grammar.       *)
GrammarsAreInstalled ==
    /\ languages \subseteq Installed
    /\ lock \in Threads \cup {NoThread} /\ cached \in [Threads -> SUBSET Languages]
    /\ \A th \in Threads : \A l \in cached[th] : parser[th][l] # 0 <=> l \in Installed

----------------------------------------------------------------------------
(* What has been said of a target is of one of its parts, or of a system    *)
(* that fails; a part is dealt with when all of it is said, or a failure.   *)
IsSaid(u, x) ==
    \/ \E part \in PartsOf(u) : x \in SaidOf(u, part)
    \/ faults # 0 /\ x.kind = "error"

Told(u) == \A x \in out[u] : IsSaid(u, x)

Accounted(u, part) == SaidOf(u, part) \subseteq out[u] \/ (faults # 0 /\ Errors(u) # {})

Behind(u, ahead) == \A part \in PartsOf(u) : part \in ahead \/ Accounted(u, part)

Settled(u) == Trouble("collect", u) \in out[u] \/ Behind(u, {})

(* A walk over files. *)
Walking(th) ==
    /\ at[th].todo \in Seq(PartsOf(job[th]))
    /\ Behind(job[th], ToSet(at[th].todo))

SourceAt(th) ==
    /\ Walking(th)
    /\ at[th].pc # "file" => at[th].todo # <<>> /\ Acceptable(File(th))
    /\ at[th].pc \in {"read", "parse"} => Lang(th) \in Installed
    /\ at[th].pc = "loaded" => Lang(th) \in languages
    /\ at[th].pc = "failed" => Lang(th) \notin Installed

(* An image, layer by layer, and the archive that is open, member by member. *)
Layering(th) ==
    /\ Layered(Image(th))
    /\ at[th].layers \in Seq(PartsOf(job[th]))
    /\ Behind(job[th], ToSet(at[th].layers))

InLayer(th) ==
    /\ Layering(th)
    /\ at[th].layers # <<>> /\ at[th].open = Head(at[th].layers)
    /\ at[th].open \in DOMAIN Image(th).blobs /\ Image(th).blobs[at[th].open].type = "tar"

Unpacking(th) ==
    LET members == ToSet(Readable(Archive(th)))
    IN  /\ at[th].members \in Seq(members)
        /\ \A m \in members :
              m \in ToSet(at[th].members) \/ MemberFacts(at[th].open, m) \subseteq out[job[th]]

ContainerAt(th) ==
    /\ DOMAIN at[th] = {"pc", "layers", "open", "members"}
    /\ at[th].pc = "open" => at[th].open = NoLayer
    /\ at[th].pc = "layer" => Layering(th)
    /\ at[th].pc = "member" =>
          /\ Image(th).state = "listed"
          /\ IF at[th].open = NoLayer THEN ~Layered(Image(th)) ELSE InLayer(th)
          /\ Unpacking(th)

AtTarget(th) ==
    /\ job[th] \in DOMAIN Files => SourceAt(th)
    /\ job[th] \in DOMAIN Binaries => Walking(th)
    /\ job[th] \in DOMAIN Images => ContainerAt(th)

TargetsInv ==
    /\ \A u \in Targets : Told(u)
    /\ \A u \in Targets \cap over : Settled(u)
    /\ \A th \in Threads : AtTarget(th)

----------------------------------------------------------------------------
(* An endpoint that stays as it is: what was learnt from its handshake, and *)
(* what has come of the probes, but for those ahead.                        *)
Undisturbed == faults = 0 /\ changes = 0

Greeted(u) == \E agreed \in Agreements(server[u], AnyOffer) : HandshakeFacts(u, agreed) \subseteq out[u]

ProbedBut(u, ahead) ==
    \A probe \in ToSet(Probes) \ (Unsettable \cup ahead) :
        Agreements(server[u], Offer(probe)) # {} => Fact(u, probe) \in out[u]

EndpointAt(th) ==
    at[th].pc = "probe" =>
        /\ DOMAIN at[th] = {"pc", "todo"} /\ at[th].todo \in Seq(ToSet(Probes))
        /\ Undisturbed => Greeted(job[th]) /\ ProbedBut(job[th], ToSet(at[th].todo))

Explored(u) == Undisturbed /\ Errors(u) = {} => Greeted(u) /\ ProbedBut(u, {})

EndpointsInv ==
    /\ \A u \in Endpoints \cap over : Explored(u)
    /\ \A th \in Threads : job[th] \in Endpoints => EndpointAt(th)

(* The fragments find in the name of every suite what is in it, but for the *)
(* digest, which a longer fragment before it may have consumed.             *)
SuitesAreRead ==
    \A suite \in UNION {s.suites : s \in Configurations} : suite.parts \ Digests \subseteq SuiteParts[suite]

UnitInv ==
    ItemsOnly /\ PoolInv /\ AtHome /\ GrammarsAreInstalled /\ TargetsInv /\ EndpointsInv
----------------------------------------------------------------------------
(* Why a unit ends: what UnitsEnd says without fairness.                    *)

(* Whoever waits for the lock waits for a thread between Acquire() and a    *)
(* release, where it waits for nobody: no circle, and no lock forgotten.    *)
LockIsWorked ==
    lock # NoThread => lock \in Threads /\ job[lock] # NoUnit /\ at[lock].pc \in Holding

(* A thread asks for a grammar only if it has no entry for the language.    *)
Fetching == {"grammar", "acquire"} \cup Holding

FetchesAreNew == \A th \in Threads : at[th].pc \in Fetching => Lang(th) \notin cached[th]

Shorter(s, t) == Len(s) < Len(t)

(* The turns of the loop over the files, from file to file.                 *)
Turn == [file |-> 1, grammar |-> 2, acquire |-> 3, locked |-> 4, loading |-> 5,
         loaded |-> 6, failed |-> 6, read |-> 7, parse |-> 8]

(* A file is left behind; or, at one file, an entry is made; or, with the   *)
(* entries as they are, the turn goes on.                                   *)
SourceAdvances(th) ==
    \/ Shorter(at'[th].todo, at[th].todo)
    \/ /\ at'[th].todo = at[th].todo
       /\ \/ cached[th] \subseteq cached'[th] /\ cached'[th] # cached[th]
          \/ cached'[th] = cached[th] /\ Turn[at[th].pc] < Turn[at'[th].pc]

WalkAdvances(th) == Shorter(at'[th].todo, at[th].todo)

(* The image is opened; or a layer left behind; or, at one layer, it is     *)
(* opened; or a member of it left behind.                                   *)
ContainerAdvances(th) ==
    \/ at[th].pc = "open" /\ at'[th].pc # "open"
    \/ /\ at[th].pc # "open" /\ at'[th].pc # "open"
       /\ \/ Shorter(at'[th].layers, at[th].layers)
          \/ /\ at'[th].layers = at[th].layers
             /\ \/ at[th].pc = "layer" /\ at'[th].pc = "member"
                \/ at'[th].pc = at[th].pc /\ Shorter(at'[th].members, at[th].members)

ProbesAdvance(th) ==
    \/ at[th].pc = "handshake" /\ at'[th].pc = "probe"
    \/ at[th].pc = "probe" /\ at'[th].pc = "probe" /\ Shorter(at'[th].todo, at[th].todo)

(* A unit is taken up, for good; or over, for good; or closer to it.        *)
UnitAdvances(th) ==
    \/ /\ job[th] = NoUnit
       /\ job'[th] \in waiting /\ waiting' = waiting \ {job'[th]}
    \/ /\ job[th] # NoUnit /\ job'[th] = NoUnit
       /\ job[th] \notin over /\ over' = over \cup {job[th]}
    \/ /\ job[th] # NoUnit /\ job'[th] = job[th]
       /\ job[th] \in DOMAIN Files => SourceAdvances(th)
       /\ job[th] \in DOMAIN Binaries => WalkAdvances(th)
       /\ job[th] \in DOMAIN Images => ContainerAdvances(th)
       /\ job[th] \in Endpoints => ProbesAdvance(th)

(* Every step of a thread does, so a pool takes at most as many as there    *)
(* are units, files, languages, layers, members and probes; and whatever    *)
(* else happens, to another thread or to a server, sets no thread back.     *)
UnitsAdvance ==
    [][\A th \in Threads :
          /\ Work(th) => UnitAdvances(th)
          /\ UnitAdvances(th) \/ UNCHANGED <<job[th], at[th], cached[th]>>]_vars
=============================================================================
