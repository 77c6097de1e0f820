------------------------------ MODULE UnitProofs ------------------------------
(***************************************************************************)
(* Theorems about the units of Collectors, for any targets, threads and    *)
(* failures of the system: that a unit says of its target what there is to *)
(* say, that what is damaged costs nothing but itself, and that the four   *)
(* collectors keep the contract a scan relies on.                          *)
(***************************************************************************)
EXTENDS CollectorProofs, UnitInvariant, SequenceTheorems

----------------------------------------------------------------------------
(* Lists. *)

LEMMA HeadAndTail ==
    ASSUME NEW S, NEW list \in Seq(S), list # <<>>
    PROVE  /\ Head(list) \in S /\ Tail(list) \in Seq(S) /\ Head(list) \in ToSet(list)
           /\ ToSet(list) \subseteq S
           /\ \A x \in ToSet(list) : x = Head(list) \/ x \in ToSet(Tail(list))
<1>1. Len(list) \in Nat /\ DOMAIN list = 1..Len(list) /\ Len(list) # 0
  BY EmptySeq
<1>2. Head(list) = list[1] /\ Tail(list) \in Seq(S) /\ Len(Tail(list)) = Len(list) - 1
      /\ \A i \in 1..Len(list) - 1 : Tail(list)[i] = list[i + 1]
  BY <1>1
<1>3. DOMAIN Tail(list) = 1..Len(list) - 1
  BY <1>2
<1>4. ASSUME NEW i \in 1..Len(list) PROVE list[i] = Head(list) \/ list[i] \in ToSet(Tail(list))
  <2>1. CASE i = 1
    BY <1>2, <2>1
  <2>2. CASE i # 1
    <3>1. i - 1 \in 1..Len(list) - 1 /\ Tail(list)[i - 1] = list[i]
      BY <1>1, <1>2, <2>2
    <3>. QED  BY <1>3, <3>1 DEF ToSet
  <2>. QED  BY <2>1, <2>2
<1>. QED  BY <1>1, <1>2, <1>4 DEF ToSet

LEMMA OwnList ==
    ASSUME NEW S, NEW list \in Seq(S) PROVE ToSet(list) \subseteq S
BY DEF ToSet

LEMMA NothingAhead == ToSet(<<>>) = {}
BY DEF ToSet

----------------------------------------------------------------------------
(* What results are made of. *)

LEMMA FactsAreItems ==
    \A where, what : IsItem(Fact(where, what)) /\ Fact(where, what).kind = "finding"
BY DEF IsItem, Fact

LEMMA TroublesAreItems ==
    \A phase, where : IsItem(Trouble(phase, where)) /\ Trouble(phase, where).kind = "error"
BY DEF IsItem, Trouble

LEMMA BinaryItems ==
    ASSUME NEW where, NEW b, NEW item \in ScanBinary(where, b) PROVE IsItem(item)
<1>. DEFINE facts == UNION {PartFacts(where, b, i) : i \in ReadParts(b)}
            broken == {Trouble("elf", where) : x \in {b} \cap DOMAIN Malformed}
<1>1. ScanBinary(where, b) = IF ~Elftools THEN {Trouble("import", where)} ELSE facts \cup broken
  BY DEF ScanBinary
<1>2. ASSUME item \in facts PROVE IsItem(item)
  BY <1>2, FactsAreItems DEF PartFacts
<1>3. ASSUME item \in broken PROVE IsItem(item)
  BY <1>3, TroublesAreItems
<1>. HIDE DEF facts, broken
<1>. QED  BY <1>1, <1>2, <1>3, TroublesAreItems

LEMMA TreeItems ==
    ASSUME NEW f, NEW x \in ScanTree(f) PROVE IsItem(x)
BY FactsAreItems DEF ScanTree, CallFindings

LEMMA MemberItems ==
    ASSUME NEW layer, NEW m, NEW x \in MemberFacts(layer, m) PROVE IsItem(x)
<1>1. CASE m.type = "db"
  BY <1>1, FactsAreItems DEF MemberFacts
<1>2. CASE m.type = "elf"
  BY <1>2, BinaryItems DEF MemberFacts
<1>3. CASE m.type \notin {"db", "elf"}
  BY <1>3 DEF MemberFacts
<1>. QED  BY <1>1, <1>2, <1>3

LEMMA HandshakeItems ==
    ASSUME NEW u, NEW agreed, NEW x \in HandshakeFacts(u, agreed) PROVE IsItem(x)
BY FactsAreItems DEF HandshakeFacts

LEMMA CertificateItems ==
    ASSUME NEW u, NEW cert, NEW x \in CertificateFacts(u, cert) PROVE IsItem(x)
BY FactsAreItems DEF CertificateFacts

LEMMA LostItems ==
    ASSUME NEW img, NEW layer, NEW x \in LayerLost(img, layer) PROVE IsItem(x)
BY TroublesAreItems DEF LayerLost

----------------------------------------------------------------------------
(* Every step of a thread, seen from the pool: it starts a unit, yields, or *)
(* leaves with all it has yielded.                                          *)
Adding(th, items) ==
    /\ job[th] # NoUnit /\ \A x \in items : IsItem(x)
    /\ Finish(th, items) \/ \E locals : Yield(th, items, locals)

CollectStep(th) ==
    /\ faults' \in {faults, faults + 1} /\ UNCHANGED <<server, changes>>
    /\ (\E u \in waiting : \E locals : Start(th, u, locals)) \/ \E items : Adding(th, items)

LEMMA AddingIsCollect ==
    ASSUME NEW th, NEW items, Adding(th, items), NoFault \/ Fault, UNCHANGED <<server, changes>>
    PROVE  CollectStep(th)
BY DEF CollectStep, NoFault, Fault

LEMMA YieldAdds ==
    ASSUME NEW th, NEW items, NEW locals, Yield(th, items, locals), job[th] # NoUnit,
           \A x \in items : IsItem(x)
    PROVE  \E some : Adding(th, some)
BY DEF Adding

LEMMA ResumeAdds ==
    ASSUME NEW th, NEW locals, Resume(th, locals), job[th] # NoUnit
    PROVE  \E some : Adding(th, some)
BY YieldAdds DEF Resume

LEMMA TroubleAdds ==
    ASSUME NEW th, NEW phase, NEW where, job[th] # NoUnit,
           Finish(th, {Trouble(phase, where)}) \/ \E locals : Yield(th, {Trouble(phase, where)}, locals)
    PROVE  \E some : Adding(th, some)
<1>. DEFINE items == {Trouble(phase, where)}
<1>1. \A x \in items : IsItem(x)
  BY TroublesAreItems
<1>2. Finish(th, items) \/ \E locals : Yield(th, items, locals)
  OBVIOUS
<1>. HIDE DEF items
<1>. QED  BY <1>1, <1>2 DEF Adding

LEMMA LastAdds ==
    ASSUME NEW th, Finish(th, {}), job[th] # NoUnit
    PROVE  \E some : Adding(th, some)
<1>1. Adding(th, {})
  BY DEF Adding
<1>. QED  BY <1>1

LEMMA RaisingAdds ==
    ASSUME NEW th, NEW items, Raise(th, items), \A x \in items : IsItem(x), job[th] # NoUnit
    PROVE  \E some : Adding(th, some)
<1>. DEFINE all == items \cup {Trouble("collect", job[th])}
<1>1. Caught(job[th], items) = out[job[th]] \cup all
  BY DEF Caught
<1>2. \A x \in all : IsItem(x)
  BY TroublesAreItems
<1>3. Finish(th, all)
  BY <1>1 DEF Raise, Finish
<1>. HIDE DEF all
<1>. QED  BY <1>2, <1>3 DEF Adding

LEMMA SourceCollects ==
    ASSUME NEW th \in Threads, SourceWork(th) PROVE CollectStep(th)
<1>1. UNCHANGED <<server, changes>>
  BY DEF SourceWork, tlsVars
<1>2. ASSUME NEW u \in waiting, StartSource(th, u) PROVE CollectStep(th)
  BY <1>1, <1>2 DEF StartSource, NoFault, CollectStep
<1>3. ASSUME SourceStep(th)
      PROVE  (\E items : Adding(th, items)) /\ (NoFault \/ Fault)
  <2>1. job[th] # NoUnit
    BY <1>3 DEF SourceStep, WalkEnds, PassOver, UseParser, NeedParser, AtFile, GrammarThere,
                GrammarMissing, Acquire, LoadedMeanwhile, LookAgain, LoadGrammar, LoadFails,
                ReleaseAndKeep, ReleaseAndGiveUp, ReadFile, ReadFails, ParseFile, ParseFails, Here
  <2>2. CASE WalkEnds(th)
    BY <2>1, <2>2, LastAdds DEF WalkEnds
  <2>3. CASE PassOver(th) \/ NeedParser(th) \/ GrammarMissing(th) \/ Acquire(th)
             \/ LoadedMeanwhile(th) \/ LookAgain(th) \/ LoadGrammar(th) \/ LoadFails(th)
             \/ ReadFile(th)
    BY <2>1, <2>3, ResumeAdds
       DEF PassOver, NeedParser, GrammarMissing, Acquire, LoadedMeanwhile, LookAgain, LoadGrammar,
           LoadFails, ReadFile
  <2>4. CASE GrammarThere(th) \/ ReleaseAndKeep(th) \/ ReleaseAndGiveUp(th)
    BY <2>1, <2>4, ResumeAdds
       DEF GrammarThere, ReleaseAndKeep, ReleaseAndGiveUp, KeepNewParser, KeepNone, Keep
  <2>5. CASE UseParser(th)
    BY <2>1, <2>5, ResumeAdds, TroubleAdds DEF UseParser
  <2>6. CASE ReadFails(th) \/ ParseFails(th)
    BY <2>1, <2>6, TroubleAdds DEF ReadFails, ParseFails
  <2>7. CASE ParseFile(th)
    BY <2>1, <2>7, TreeItems, YieldAdds DEF ParseFile
  <2>. QED  BY <1>3, <2>2, <2>3, <2>4, <2>5, <2>6, <2>7 DEF SourceStep
<1>. QED  BY <1>1, <1>2, <1>3, AddingIsCollect DEF SourceWork

LEMMA ElfCollects ==
    ASSUME AtHome, NEW th \in Threads, ElfWork(th) PROVE CollectStep(th)
<1>1. UNCHANGED <<server, changes>>
  BY DEF ElfWork, tlsVars
<1>2. ASSUME NEW u \in waiting, StartELF(th, u) PROVE CollectStep(th)
  BY <1>1, <1>2 DEF StartELF, NoFault, CollectStep
<1>3. ASSUME ELFStep(th) PROVE (\E items : Adding(th, items)) /\ (NoFault \/ Fault)
  <2>1. job[th] # NoUnit
    BY <1>3 DEF AtHome, Idle, ELFStep, ScanFile, OpenFileFails, BinariesEnd
  <2>2. CASE ScanFile(th)
    <3>. DEFINE f == Head(at[th].todo)
                items == IF IsElf(f) THEN ScanBinary(f.path, f.binary) ELSE {}
    <3>1. Yield(th, items, NextBinary(th)) /\ NoFault
      BY <2>2 DEF ScanFile
    <3>2. \A x \in items : IsItem(x)
      BY BinaryItems
    <3>. QED  BY <2>1, <3>1, <3>2, YieldAdds
  <2>3. CASE OpenFileFails(th)
    BY <2>1, <2>3, TroubleAdds DEF OpenFileFails
  <2>4. CASE BinariesEnd(th)
    BY <2>1, <2>4, LastAdds DEF BinariesEnd
  <2>. QED  BY <1>3, <2>2, <2>3, <2>4 DEF ELFStep
<1>. QED  BY <1>1, <1>2, <1>3, AddingIsCollect DEF ElfWork

LEMMA ContainerCollects ==
    ASSUME AtHome, NEW th \in Threads, ContainerWork(th) PROVE CollectStep(th)
<1>1. UNCHANGED <<server, changes>>
  BY DEF ContainerWork, tlsVars
<1>2. ASSUME NEW u \in waiting, StartContainer(th, u) PROVE CollectStep(th)
  BY <1>1, <1>2 DEF StartContainer, NoFault, CollectStep
<1>3. ASSUME ContainerStep(th) PROVE (\E items : Adding(th, items)) /\ (NoFault \/ Fault)
  <2>1. job[th] # NoUnit
    <3>1. at[th].pc \in {"open", "layer", "member"}
      BY <1>3 DEF ContainerStep, OpenImage, OpenImageFails, ListingRaises, LayersEnd, LayerMissing,
                  BlobIsNoFile, BlobIsNoArchive, OpenLayer, BlobIs, AtLayer, ReadMember,
                  TempFileFails, AtMember, ArchiveEnds, LayerTorn, ImageRaises, AtEnd
    <3>. QED  BY <3>1 DEF AtHome, Idle
  <2>2. CASE OpenImage(th) \/ BlobIsNoFile(th) \/ OpenLayer(th)
    BY <2>1, <2>2, ResumeAdds DEF OpenImage, BlobIsNoFile, OpenLayer
  <2>3. CASE OpenImageFails(th) \/ LayersEnd(th) \/ LayerMissing(th)
    BY <2>1, <2>3, TroubleAdds, LastAdds DEF OpenImageFails, LayersEnd, LayerMissing
  <2>4. CASE BlobIsNoArchive(th) \/ LayerTorn(th)
    BY <2>1, <2>4, LostItems, YieldAdds DEF BlobIsNoArchive, LayerTorn, TarError
  <2>5. CASE ListingRaises(th) \/ TempFileFails(th) \/ ImageRaises(th)
    <3>1. Raise(th, {}) /\ (NoFault \/ Fault)
      BY <2>5 DEF ListingRaises, TempFileFails, ImageRaises
    <3>2. \A x \in {} : IsItem(x)
      OBVIOUS
    <3>. QED  BY <2>1, <3>1, <3>2, RaisingAdds
  <2>6. CASE ReadMember(th)
    BY <2>1, <2>6, MemberItems, YieldAdds DEF ReadMember
  <2>7. CASE ArchiveEnds(th)
    BY <2>1, <2>7, ResumeAdds, LastAdds DEF ArchiveEnds
  <2>. QED  BY <1>3, <2>2, <2>3, <2>4, <2>5, <2>6, <2>7 DEF ContainerStep
<1>. QED  BY <1>1, <1>2, <1>3, AddingIsCollect DEF ContainerWork

LEMMA TlsCollects ==
    ASSUME AtHome, NEW th \in Threads, TlsWork(th) PROVE CollectStep(th)
<1>1. ASSUME NEW u \in waiting, StartTLS(th, u) PROVE CollectStep(th)
  BY <1>1 DEF StartTLS, NoFault, tlsVars, CollectStep
<1>2. ASSUME TLSStep(th)
      PROVE  UNCHANGED <<server, changes>> /\ (NoFault \/ Fault) /\ \E items : Adding(th, items)
  <2>1. job[th] # NoUnit
    <3>1. at[th].pc \in {"handshake", "probe"}
      BY <1>2 DEF TLSStep, Handshake, KeyUnsupported, HandshakeRefused, HandshakeTimesOut,
                  ProbeAccepted, ProbeRefused, ProbeTimesOut, ProbesEnd, Probing
    <3>. QED  BY <3>1 DEF AtHome, Idle
  <2>2. CASE Handshake(th)
    <3>. DEFINE items(agreed) == HandshakeFacts(job[th], agreed)
                                   \cup CertificateFacts(job[th], Server(th).cert)
    <3>1. PICK agreed : Yield(th, items(agreed), [pc |-> "probe", todo |-> Probes])
      BY <2>2 DEF Handshake
    <3>2. \A x \in items(agreed) : IsItem(x)
      BY HandshakeItems, CertificateItems
    <3>3. \E some : Adding(th, some)
      <4>. HIDE DEF items
      <4>. QED  BY <2>1, <3>1, <3>2, YieldAdds
    <3>. QED  BY <2>2, <3>3 DEF Handshake
  <2>3. CASE KeyUnsupported(th)
    BY <2>1, <2>3, RaisingAdds, HandshakeItems DEF KeyUnsupported
  <2>4. CASE HandshakeRefused(th) \/ HandshakeTimesOut(th)
    BY <2>1, <2>4, TroubleAdds DEF HandshakeRefused, HandshakeTimesOut, tlsVars
  <2>5. CASE ProbeAccepted(th)
    <3>. DEFINE items == {Fact(job[th], ThisProbe(th))}
    <3>1. Yield(th, items, NextProbe(th)) /\ \A x \in items : IsItem(x)
      BY <2>5, FactsAreItems DEF ProbeAccepted
    <3>2. \E some : Adding(th, some)
      <4>. HIDE DEF items
      <4>. QED  BY <2>1, <3>1, YieldAdds
    <3>. QED  BY <2>5, <3>2 DEF ProbeAccepted
  <2>6. CASE ProbeRefused(th) \/ ProbeTimesOut(th) \/ ProbesEnd(th)
    BY <2>1, <2>6, ResumeAdds, LastAdds DEF ProbeRefused, ProbeTimesOut, ProbesEnd, tlsVars
  <2>. QED  BY <1>2, <2>2, <2>3, <2>4, <2>5, <2>6 DEF TLSStep
<1>. QED  BY <1>1, <1>2, AddingIsCollect DEF TlsWork
----------------------------------------------------------------------------
(* What every such step does to the pool. *)

LEMMA CollectMoves ==
    ASSUME Shapes, NEW th \in Threads, CollectStep(th)
    PROVE  /\ over' \subseteq over \cup {job[th]}
           /\ \/ job[th] = NoUnit /\ job'[th] \in waiting /\ out' = out /\ over' = over
                 /\ waiting' = waiting \ {job'[th]}
              \/ job[th] # NoUnit /\ job'[th] = job[th] /\ waiting' = waiting /\ over' = over
              \/ job[th] # NoUnit /\ job'[th] = NoUnit /\ at'[th] = Idle
                 /\ waiting' = waiting /\ over' = over \cup {job[th]}
<1>1. ASSUME NEW u \in waiting, NEW locals, Start(th, u, locals)
      PROVE  job[th] = NoUnit /\ job'[th] \in waiting /\ out' = out /\ over' = over
             /\ waiting' = waiting \ {job'[th]}
  BY <1>1 DEF Start, Shapes
<1>2. ASSUME NEW items, Adding(th, items), Finish(th, items)
      PROVE  job[th] # NoUnit /\ job'[th] = NoUnit /\ at'[th] = Idle
             /\ waiting' = waiting /\ over' = over \cup {job[th]}
  BY <1>2 DEF Adding, Finish, Leave, Shapes
<1>3. ASSUME NEW items, NEW locals, Adding(th, items), Yield(th, items, locals)
      PROVE  job[th] # NoUnit /\ job'[th] = job[th] /\ waiting' = waiting /\ over' = over
  BY <1>3 DEF Adding, Yield, pool
<1>. QED  BY <1>1, <1>2, <1>3 DEF CollectStep, Adding

LEMMA PoolKeeps ==
    ASSUME Shapes, PoolInv, ItemsOnly, NEW th \in Threads, CollectStep(th), OwnMove(th)
    PROVE  PoolInv' /\ ItemsOnly'
<1>1. faults' \in Nat /\ changes' \in 0..MaxChanges
  BY DEF PoolInv, CollectStep
<1>2. PoolInv'
  BY <1>1, CollectMoves, CollectConstants DEF PoolInv, OwnMove, Shapes
<1>3. ASSUME NEW items, Adding(th, items) PROVE ItemsOnly'
  <2>1. job[th] \in Units /\ \A u \in Units : out'[u] = out[u] \cup IF u = job[th] THEN items ELSE {}
    BY <1>3 DEF Adding, Finish, Leave, Yield, Shapes
  <2>. QED  BY <1>3, <2>1 DEF ItemsOnly, Adding
<1>4. ASSUME NEW u, NEW locals, Start(th, u, locals) PROVE ItemsOnly'
  BY <1>4 DEF ItemsOnly, Start
<1>. QED  BY <1>2, <1>3, <1>4 DEF CollectStep

LEMMA HomeKeeps ==
    ASSUME Shapes, AtHome, NEW th \in Threads, CollectStep(th), NEW steps, NEW units,
           Stays(th, steps, units),
           \/ steps = SourceSteps /\ units = DOMAIN Files
           \/ steps = {"binary"} /\ units = DOMAIN Binaries
           \/ steps = ContainerSteps /\ units = DOMAIN Images
           \/ steps = TlsSteps /\ units = Endpoints
    PROVE  AtHome'
<1>. USE DEF ContainerSteps, TlsSteps, SourceSteps
<1>1. /\ job'[th] \in DOMAIN Files => at'[th].pc \in SourceSteps
      /\ job'[th] \in DOMAIN Binaries => at'[th].pc = "binary"
      /\ job'[th] \in DOMAIN Images => at'[th].pc \in {"open", "layer", "member"}
      /\ job'[th] \in Endpoints => at'[th].pc \in {"handshake", "probe"}
      /\ job'[th] = NoUnit => at'[th] = Idle
  <2>1. CASE job'[th] = NoUnit
    BY <2>1, CollectMoves, CollectConstants, SurfacesAreApart DEF Shapes
  <2>2. CASE job'[th] = job[th] /\ job[th] # NoUnit
    BY <2>2 DEF Stays, AtHome
  <2>3. CASE job'[th] \in units /\ job'[th] # NoUnit
    BY <2>3, SurfacesAreApart DEF Stays
  <2>. QED  BY <2>1, <2>2, <2>3 DEF Stays
<1>. QED  BY <1>1 DEF AtHome, Stays, OwnMove
----------------------------------------------------------------------------
(* Nothing that has been said is unsaid, so what a unit has dealt with      *)
(* stays dealt with, whoever takes the next step.                           *)
Grows(th) == OwnMove(th) /\ faults \in Nat /\ faults' \in {faults, faults + 1}

LEMMA SaidGrows ==
    ASSUME Shapes, NEW th \in Threads, Grows(th), NEW u \in Units
    PROVE  /\ \A x : IsSaid(u, x) => IsSaid(u, x)'
           /\ \A part : Accounted(u, part) => Accounted(u, part)'
           /\ \A ahead : Behind(u, ahead) => Behind(u, ahead)'
           /\ Settled(u) => Settled(u)'
<1>1. (faults # 0 => faults' # 0) /\ out[u] \subseteq out'[u]
  BY DEF Grows, OwnMove
<1>2. \A part : Accounted(u, part) => Accounted(u, part)'
  BY <1>1 DEF Accounted, Errors
<1>3. \A ahead : Behind(u, ahead) => Behind(u, ahead)'
  BY <1>2 DEF Behind
<1>. QED  BY <1>1, <1>2, <1>3 DEF IsSaid, Settled

LEMMA OthersStayAt ==
    ASSUME Shapes, NEW th \in Threads, Grows(th), languages \subseteq languages',
           NEW t \in Threads, t # th, AtTarget(t)
    PROVE  AtTarget(t)'
<1>. DEFINE u == job[t]
<1>1. job'[t] = u /\ at'[t] = at[t] /\ (u # NoUnit => u \in Units)
  BY DEF Grows, OwnMove, Shapes
<1>2. u \in Units => /\ \A ahead : Behind(u, ahead) => Behind(u, ahead)'
                     /\ out[u] \subseteq out'[u]
  BY SaidGrows DEF Grows, OwnMove
<1>3. CASE u \in DOMAIN Files
  <2>1. u \in Units /\ u \notin DOMAIN Binaries \cup DOMAIN Images /\ SourceAt(t)
    BY <1>3, SurfacesAreApart DEF AtTarget
  <2>2. SourceAt(t)'
    <3>1. Behind(job[t], ToSet(at[t].todo))'
      BY <1>1, <1>2, <2>1 DEF SourceAt, Walking
    <3>. QED  BY <1>1, <2>1, <3>1 DEF SourceAt, Walking, Lang, File
  <2>. QED  BY <1>1, <2>1, <2>2 DEF AtTarget
<1>4. CASE u \in DOMAIN Binaries
  <2>1. u \in Units /\ u \notin DOMAIN Files \cup DOMAIN Images /\ Walking(t)
    BY <1>4, SurfacesAreApart DEF AtTarget
  <2>2. Behind(job[t], ToSet(at[t].todo))'
    BY <1>1, <1>2, <2>1 DEF Walking
  <2>. QED  BY <1>1, <2>1, <2>2 DEF AtTarget, Walking
<1>5. CASE u \in DOMAIN Images
  <2>1. u \in Units /\ u \notin DOMAIN Files \cup DOMAIN Binaries /\ ContainerAt(t)
    BY <1>5, SurfacesAreApart DEF AtTarget
  <2>2. Image(t)' = Image(t) /\ Archive(t)' = Archive(t)
    BY <1>1 DEF Image, Archive
  <2>3. Layering(t) => Layering(t)'
    <3>1. ASSUME Layering(t) PROVE Behind(job[t], ToSet(at[t].layers))'
      BY <1>1, <1>2, <2>1, <3>1 DEF Layering
    <3>. QED  BY <1>1, <2>2, <3>1 DEF Layering
  <2>4. InLayer(t) => InLayer(t)'
    BY <1>1, <2>2, <2>3 DEF InLayer
  <2>5. Unpacking(t) => Unpacking(t)'
    BY <1>1, <1>2, <2>1, <2>2 DEF Unpacking
  <2>6. ContainerAt(t)'
    BY <1>1, <2>1, <2>2, <2>3, <2>4, <2>5 DEF ContainerAt
  <2>. QED  BY <1>1, <2>1, <2>6 DEF AtTarget
<1>6. CASE u \notin DOMAIN Files \cup DOMAIN Binaries \cup DOMAIN Images
  BY <1>1, <1>6 DEF AtTarget
<1>. QED  BY <1>3, <1>4, <1>5, <1>6

(* So a thread has only its own unit to look to.                            *)
LEMMA TargetsKeep ==
    ASSUME Shapes, TargetsInv, NEW th \in Threads, Grows(th), languages \subseteq languages',
           NEW mine, mine = job[th], over' \subseteq over \cup {mine},
           mine \in Targets => \A x \in out'[mine] : x \in out[mine] \/ IsSaid(mine, x)',
           mine \in Targets \cap over' => Settled(mine)',
           AtTarget(th)'
    PROVE  TargetsInv'
<1>1. \A u \in Targets : u \in Units
  BY DEF Targets
<1>2. ASSUME NEW u \in Targets, NEW x \in out'[u] PROVE IsSaid(u, x)'
  <2>1. CASE x \in out[u]
    BY <1>1, <2>1, SaidGrows DEF TargetsInv, Told
  <2>2. CASE x \notin out[u]
    BY <1>1, <1>2, <2>2 DEF Grows, OwnMove
  <2>. QED  BY <2>1, <2>2
<1>3. ASSUME NEW u \in Targets, u \in over' PROVE Settled(u)'
  BY <1>1, <1>3, SaidGrows DEF TargetsInv
<1>4. \A t \in Threads : AtTarget(t)'
  BY OthersStayAt DEF TargetsInv
<1>. QED  BY <1>2, <1>3, <1>4 DEF TargetsInv, Told
----------------------------------------------------------------------------
(* What the acting thread has said, and where it goes.                      *)

LEMMA YieldSays ==
    ASSUME Shapes, NEW th \in Threads, NEW items, NEW locals, Yield(th, items, locals),
           NEW mine \in Units, mine = job[th]
    PROVE  /\ out'[mine] = out[mine] \cup items /\ job'[th] = mine /\ at'[th] = locals
           /\ over' = over
BY DEF Yield, pool, Shapes

LEMMA ResumeSays ==
    ASSUME Shapes, NEW th \in Threads, NEW locals, Resume(th, locals),
           NEW mine \in Units, mine = job[th]
    PROVE  /\ out'[mine] = out[mine] /\ job'[th] = mine /\ at'[th] = locals /\ over' = over
BY DEF Resume, Yield, pool, Shapes

LEMMA FinishSays ==
    ASSUME Shapes, NEW th \in Threads, NEW items, Finish(th, items),
           NEW mine \in Units, mine = job[th]
    PROVE  out'[mine] = out[mine] \cup items /\ job'[th] = NoUnit
BY DEF Finish, Leave, Shapes

LEMMA LastSays ==
    ASSUME Shapes, NEW th \in Threads, Finish(th, {}), NEW mine \in Units, mine = job[th]
    PROVE  out'[mine] = out[mine] /\ job'[th] = NoUnit
BY DEF Finish, Leave, Shapes

LEMMA RaiseSays ==
    ASSUME Shapes, NEW th \in Threads, NEW items, Raise(th, items),
           NEW mine \in Units, mine = job[th]
    PROVE  out'[mine] = out[mine] \cup items \cup {Trouble("collect", mine)} /\ job'[th] = NoUnit
BY DEF Raise, Caught, Leave, Shapes

(* Nothing to show for a thread without a unit. *)
LEMMA FreeAtTarget ==
    ASSUME NEW th \in Threads, job'[th] = NoUnit PROVE AtTarget(th)'
BY CollectConstants, SurfacesAreApart DEF AtTarget

(* A failure of the system may be told of, and accounts for what is lost.   *)
LEMMA FailureTells ==
    ASSUME faults \in Nat, Fault, NEW u, NEW phase, NEW where, Trouble(phase, where) \in out'[u]
    PROVE  IsSaid(u, Trouble(phase, where))' /\ \A part : Accounted(u, part)'
<1>1. faults' # 0
  BY DEF Fault
<1>. QED  BY <1>1, TroublesAreItems DEF IsSaid, Accounted, Errors

(* A walk goes on when the file in hand is dealt with, and ends when there  *)
(* is none left.                                                            *)
LEMMA WalkOn ==
    ASSUME Shapes, NEW th \in Threads, Grows(th), NEW mine \in Units, mine = job[th],
           Walking(th), at[th].todo # <<>>, job'[th] = mine, at'[th].todo = Tail(at[th].todo),
           NEW f, f = Head(at[th].todo), Accounted(mine, f)'
    PROVE  Walking(th)'
<1>1. PICK todo : todo = at[th].todo
  OBVIOUS
<1>2. todo \in Seq(PartsOf(mine)) /\ Behind(mine, ToSet(todo))
  BY <1>1 DEF Walking
<1>3. Behind(mine, ToSet(todo))'
  BY <1>2, SaidGrows DEF Behind
<1>4. Tail(todo) \in Seq(PartsOf(mine)) /\ \A x \in ToSet(todo) : x = f \/ x \in ToSet(Tail(todo))
  <2>1. todo # <<>> /\ f = Head(todo)
    BY <1>1
  <2>. QED  BY <1>2, <2>1, HeadAndTail
<1>5. Behind(mine, ToSet(Tail(todo)))'
  BY <1>3, <1>4 DEF Behind
<1>. QED  BY <1>1, <1>4, <1>5 DEF Walking

LEMMA WalkOver ==
    ASSUME Shapes, NEW th \in Threads, Grows(th), NEW mine \in Units, mine = job[th],
           Walking(th), at[th].todo = <<>>
    PROVE  Settled(mine)'
BY SaidGrows, NothingAhead DEF Walking, Settled

----------------------------------------------------------------------------
(* The collector of binaries. *)

LEMMA BinaryParts ==
    ASSUME NEW u \in DOMAIN Binaries
    PROVE  /\ u \in Units /\ u \in Targets /\ u \notin DOMAIN Files \cup DOMAIN Images
           /\ PartsOf(u) = ToSet(Binaries[u]) /\ \A part : SaidOf(u, part) = OfBinary(part)
BY SurfacesAreApart DEF Targets, PartsOf, SaidOf

LEMMA ElfSays ==
    ASSUME Shapes, PoolInv, AtHome, TargetsInv, NEW th \in Threads, Grows(th), ElfWork(th),
           over' \subseteq over \cup {job[th]}
    PROVE  TargetsInv'
<1>0. UNCHANGED languages
  BY DEF ElfWork, sourceVars
<1>1. ASSUME NEW u \in waiting, StartELF(th, u) PROVE TargetsInv'
  <2>1. u \in DOMAIN Binaries /\ job[th] = NoUnit /\ NoUnit \notin Targets
        /\ job'[th] = u /\ at'[th] = [pc |-> "binary", todo |-> Binaries[u]]
    BY <1>1, CollectConstants, StartMoves DEF StartELF, Targets
  <2>2. Behind(u, ToSet(Binaries[u]))'
    BY <2>1, BinaryParts DEF Behind
  <2>3. AtTarget(th)'
    BY <2>1, <2>2, BinaryParts, TargetsAreLists DEF AtTarget, Walking
  <2>. QED  BY <1>0, <2>1, <2>3, TargetsKeep
<1>2. ASSUME ELFStep(th) PROVE TargetsInv'
  <2>. PICK mine, f : mine = job[th] /\ f = Head(at[th].todo)
    OBVIOUS
  <2>1. at[th].pc = "binary" /\ faults \in Nat
    BY <1>2 DEF ELFStep, ScanFile, OpenFileFails, BinariesEnd, Grows
  <2>2. mine \in DOMAIN Binaries
    BY <2>1, SurfacesAreApart DEF Shapes, AtHome, SourceSteps, Idle
  <2>3. /\ mine \in Units /\ mine \in Targets /\ mine \notin DOMAIN Files \cup DOMAIN Images
        /\ \A part : SaidOf(mine, part) = OfBinary(part)
        /\ Walking(th)
    BY <2>2, BinaryParts DEF TargetsInv, AtTarget
  <2>4. at[th].todo # <<>> => f \in PartsOf(mine)
    BY <2>3, HeadAndTail DEF Walking
  <2>5. ASSUME NEW items, Yield(th, items, NextBinary(th)), at[th].todo # <<>>,
               \A x \in items : IsSaid(mine, x)', Accounted(mine, f)'
        PROVE  TargetsInv'
    <3>1. /\ out'[mine] = out[mine] \cup items /\ job'[th] = mine /\ over' = over
          /\ at'[th].todo = Tail(at[th].todo)
      <4>1. NextBinary(th).todo = Tail(at[th].todo)
        BY DEF NextBinary
      <4>. QED  BY <2>3, <2>5, <4>1, YieldSays
    <3>2. Walking(th)'
      BY <2>3, <2>5, <3>1, WalkOn
    <3>3. AtTarget(th)'
      BY <2>3, <3>1, <3>2 DEF AtTarget
    <3>4. mine \in over' => Settled(mine)'
      BY <2>3, <3>1, CollectConstants DEF PoolInv
    <3>. QED  BY <1>0, <2>3, <2>5, <3>1, <3>3, <3>4, TargetsKeep
  <2>6. CASE ScanFile(th)
    <3>1. Yield(th, OfBinary(f), NextBinary(th)) /\ at[th].todo # <<>>
      BY <2>6 DEF ScanFile, OfBinary
    <3>2. Accounted(mine, f)' /\ \A x \in OfBinary(f) : IsSaid(mine, x)'
      BY <2>3, <2>4, <3>1, YieldSays DEF Accounted, IsSaid
    <3>. QED  BY <2>5, <3>1, <3>2
  <2>7. CASE OpenFileFails(th)
    <3>. DEFINE items == {Trouble("elf", f.path)}
    <3>1. Yield(th, items, NextBinary(th)) /\ at[th].todo # <<>> /\ Fault
      BY <2>7 DEF OpenFileFails
    <3>2. Trouble("elf", f.path) \in out'[mine]
      BY <2>3, <3>1, YieldSays
    <3>3. Accounted(mine, f)' /\ \A x \in items : IsSaid(mine, x)'
      BY <2>1, <3>1, <3>2, FailureTells
    <3>. HIDE DEF items
    <3>. QED  BY <2>5, <3>1, <3>3
  <2>8. CASE BinariesEnd(th)
    <3>1. out'[mine] = out[mine] \cup {} /\ job'[th] = NoUnit /\ at[th].todo = <<>>
      BY <2>3, <2>8, FinishSays DEF BinariesEnd
    <3>2. Settled(mine)' /\ AtTarget(th)'
      BY <2>3, <3>1, WalkOver, FreeAtTarget
    <3>. QED  BY <1>0, <3>1, <3>2, TargetsKeep
  <2>. QED  BY <1>2, <2>6, <2>7, <2>8 DEF ELFStep
<1>. QED  BY <1>1, <1>2 DEF ElfWork
----------------------------------------------------------------------------
(* The collector of sources. *)

LEMMA FileParts ==
    ASSUME NEW u \in DOMAIN Files
    PROVE  /\ u \in Units /\ u \in Targets /\ u \notin DOMAIN Binaries \cup DOMAIN Images
           /\ PartsOf(u) = ToSet(Files[u]) /\ \A part : SaidOf(u, part) = OfFile(part)
BY SurfacesAreApart DEF Targets, PartsOf, SaidOf

(* An entry of a cache is a parser just where the grammar can be loaded.   *)
LEMMA KeepInstalls ==
    ASSUME GrammarInv, GrammarsAreInstalled, NEW th \in Threads, NEW l \in Languages, l = Lang(th),
           NEW handle, Keep(th, handle), handle # 0 <=> l \in Installed,
           languages' = languages, lock' \in {lock, NoThread}
    PROVE  GrammarsAreInstalled'
<1>1. /\ cached' = [cached EXCEPT ![th] = @ \cup {l}]
      /\ parser' = [parser EXCEPT ![th][l] = handle]
  BY DEF Keep, Owner
<1>2. cached' \in [Threads -> SUBSET Languages]
  BY <1>1 DEF GrammarsAreInstalled
<1>3. ASSUME NEW t \in Threads, NEW k \in cached'[t] PROVE parser'[t][k] # 0 <=> k \in Installed
  <2>0. k \in Languages
    BY <1>2, <1>3
  <2>1. CASE t = th /\ k = l
    BY <1>1, <2>1 DEF GrammarInv, SharedShapes
  <2>2. CASE ~(t = th /\ k = l)
    <3>1. k \in cached[t] /\ parser'[t][k] = parser[t][k]
      BY <1>1, <1>3, <2>0, <2>2 DEF GrammarInv, SharedShapes, GrammarsAreInstalled
    <3>. QED  BY <3>1 DEF GrammarsAreInstalled
  <2>. QED  BY <2>1, <2>2
<1>. QED  BY <1>2, <1>3 DEF GrammarsAreInstalled

LEMMA SourceInstalls ==
    ASSUME GrammarInv, GrammarsAreInstalled, NEW th \in Threads, SourceWork(th),
           Here(th, "loaded") => Lang(th) \in languages,
           Here(th, "failed") => Lang(th) \notin Installed
    PROVE  GrammarsAreInstalled' /\ languages \subseteq languages'
<1>1. ASSUME UNCHANGED sourceVars PROVE GrammarsAreInstalled' /\ languages \subseteq languages'
  BY <1>1 DEF sourceVars, GrammarsAreInstalled
<1>2. CASE \E u \in waiting : StartSource(th, u)
  BY <1>1, <1>2 DEF StartSource, grammars, parsers, sourceVars
<1>3. CASE WalkEnds(th) \/ PassOver(th) \/ UseParser(th) \/ NeedParser(th) \/ GrammarMissing(th)
           \/ LoadedMeanwhile(th) \/ LookAgain(th) \/ LoadFails(th) \/ ReadFile(th)
           \/ ReadFails(th) \/ ParseFile(th) \/ ParseFails(th)
  BY <1>1, <1>3 DEF WalkEnds, PassOver, UseParser, NeedParser, GrammarMissing, LoadedMeanwhile,
                    LookAgain, LoadFails, ReadFile, ReadFails, ParseFile, ParseFails,
                    grammars, parsers, sourceVars
<1>4. CASE Acquire(th)
  BY <1>4 DEF Acquire, parsers, GrammarsAreInstalled
<1>5. CASE LoadGrammar(th)
  BY <1>5 DEF LoadGrammar, parsers, GrammarsAreInstalled
<1>6. PICK l : l = Lang(th)
  OBVIOUS
<1>7. ASSUME NEW pc \in {"grammar", "loaded", "failed"}, Here(th, pc) PROVE l \in Languages
  BY <1>6, <1>7 DEF GrammarInv, ThreadInOrder, AtSource, Here, SourceSteps
<1>8. CASE GrammarThere(th) \/ ReleaseAndKeep(th)
  <2>1. /\ KeepNewParser(th) /\ l \in Languages /\ l \in languages
        /\ languages' = languages /\ lock' \in {lock, NoThread}
    BY <1>6, <1>7, <1>8 DEF GrammarThere, ReleaseAndKeep, grammars
  <2>2. Keep(th, made + 1) /\ made + 1 # 0
    BY <2>1 DEF KeepNewParser, GrammarInv, SharedShapes
  <2>3. l \in Installed
    BY <2>1 DEF GrammarsAreInstalled
  <2>. QED  BY <1>6, <2>1, <2>2, <2>3, KeepInstalls
<1>9. CASE ReleaseAndGiveUp(th)
  <2>1. /\ Keep(th, 0) /\ l \in Languages /\ l \notin Installed
        /\ languages' = languages /\ lock' \in {lock, NoThread}
    BY <1>6, <1>7, <1>9 DEF ReleaseAndGiveUp, FreedByWith, KeepNone
  <2>. QED  BY <1>6, <2>1, KeepInstalls
<1>. QED  BY <1>2, <1>3, <1>4, <1>5, <1>8, <1>9 DEF SourceWork, SourceStep

LEMMA SourceSays ==
    ASSUME GrammarInv, PoolInv, AtHome, GrammarsAreInstalled, TargetsInv, NEW th \in Threads,
           Grows(th), SourceWork(th), over' \subseteq over \cup {job[th]},
           languages \subseteq languages'
    PROVE  TargetsInv'
<1>0. Shapes
  BY DEF GrammarInv
<1>1. ASSUME NEW u \in waiting, StartSource(th, u) PROVE TargetsInv'
  <2>1. u \in DOMAIN Files /\ job[th] = NoUnit /\ NoUnit \notin Targets
        /\ job'[th] = u /\ at'[th] = [pc |-> "file", todo |-> Files[u]]
    BY <1>0, <1>1, CollectConstants, StartMoves DEF StartSource, Targets
  <2>2. Behind(u, ToSet(Files[u]))'
    BY <2>1, FileParts DEF Behind
  <2>3. AtTarget(th)'
    BY <2>1, <2>2, FileParts, TargetsAreLists DEF AtTarget, SourceAt, Walking
  <2>. QED  BY <1>0, <2>1, <2>3, TargetsKeep
<1>2. ASSUME SourceStep(th) PROVE TargetsInv'
  <2>. PICK mine, f, l : mine = job[th] /\ f = Head(at[th].todo) /\ l = Lang(th)
    OBVIOUS
  <2>1. at[th].pc \in SourceSteps /\ mine # NoUnit /\ faults \in Nat
    BY <1>2 DEF SourceStep, WalkEnds, PassOver, UseParser, NeedParser, AtFile, GrammarThere,
                GrammarMissing, Acquire, LoadedMeanwhile, LookAgain, LoadGrammar, LoadFails,
                ReleaseAndKeep, ReleaseAndGiveUp, ReadFile, ReadFails, ParseFile, ParseFails, Here,
                SourceSteps, Grows
  <2>2. mine \in DOMAIN Files
    BY <1>0, <2>1, SurfacesAreApart DEF Shapes, AtHome, SourceSteps
  <2>3. /\ mine \in Units /\ mine \in Targets /\ mine \notin DOMAIN Binaries \cup DOMAIN Images
        /\ \A part : SaidOf(mine, part) = OfFile(part)
        /\ SourceAt(th) /\ Walking(th)
    BY <2>2, FileParts DEF TargetsInv, AtTarget, SourceAt
  <2>4. at[th].todo # <<>> => f \in PartsOf(mine)
    BY <2>3, HeadAndTail DEF Walking
  <2>5. ASSUME NEW items, Yield(th, items, NextFile(th)), at[th].todo # <<>>,
               \A x \in items : IsSaid(mine, x)', Accounted(mine, f)'
        PROVE  TargetsInv'
    <3>1. /\ out'[mine] = out[mine] \cup items /\ job'[th] = mine /\ over' = over
          /\ at'[th].todo = Tail(at[th].todo) /\ at'[th].pc = "file"
      <4>1. NextFile(th).todo = Tail(at[th].todo) /\ NextFile(th).pc = "file"
        BY DEF NextFile
      <4>. QED  BY <1>0, <2>3, <2>5, <4>1, YieldSays
    <3>2. Walking(th)'
      BY <1>0, <2>3, <2>5, <3>1, WalkOn
    <3>3. AtTarget(th)'
      BY <2>3, <3>1, <3>2 DEF AtTarget, SourceAt
    <3>4. mine \in over' => Settled(mine)'
      BY <2>3, <3>1, CollectConstants DEF PoolInv
    <3>. QED  BY <1>0, <2>3, <2>5, <3>1, <3>3, <3>4, TargetsKeep
  <2>6. ASSUME NEW pc, Resume(th, Goto(th, pc)), at[th].todo # <<>>, Acceptable(f),
               pc \in {"read", "parse"} => l \in Installed,
               pc = "loaded" => l \in languages', pc = "failed" => l \notin Installed
        PROVE  TargetsInv'
    <3>1. /\ out'[mine] = out[mine] /\ job'[th] = mine /\ over' = over
          /\ at'[th].todo = at[th].todo /\ at'[th].pc = pc
      <4>1. Goto(th, pc).todo = at[th].todo /\ Goto(th, pc).pc = pc
        BY DEF Goto
      <4>. QED  BY <1>0, <2>3, <2>6, <4>1, ResumeSays
    <3>2. PICK todo : todo = at[th].todo
      OBVIOUS
    <3>3. todo \in Seq(PartsOf(mine)) /\ Behind(mine, ToSet(todo))'
      BY <1>0, <2>3, <3>2, SaidGrows DEF Walking, Behind
    <3>4. Walking(th)'
      BY <3>1, <3>2, <3>3 DEF Walking
    <3>5. File(th)' = f /\ Lang(th)' = l
      BY <3>1 DEF File, Lang
    <3>6. SourceAt(th)'
      BY <2>6, <3>1, <3>4, <3>5 DEF SourceAt
    <3>7. AtTarget(th)'
      BY <2>3, <3>1, <3>6 DEF AtTarget
    <3>8. mine \in over' => Settled(mine)'
      BY <2>3, <3>1, CollectConstants DEF PoolInv
    <3>. QED  BY <1>0, <2>3, <3>1, <3>7, <3>8, TargetsKeep
  <2>7. ASSUME NEW phase, NEW where, Yield(th, {Trouble(phase, where)}, NextFile(th)), Fault,
               at[th].todo # <<>>
        PROVE  TargetsInv'
    <3>. DEFINE items == {Trouble(phase, where)}
    <3>1. Trouble(phase, where) \in out'[mine]
      BY <1>0, <2>3, <2>7, YieldSays
    <3>2. Accounted(mine, f)' /\ \A x \in items : IsSaid(mine, x)'
      BY <2>1, <2>7, <3>1, FailureTells
    <3>. HIDE DEF items
    <3>. QED  BY <2>5, <2>7, <3>2 DEF items
  <2>8. ASSUME Yield(th, OfFile(f), NextFile(th)), at[th].todo # <<>> PROVE TargetsInv'
    <3>1. Accounted(mine, f)' /\ \A x \in OfFile(f) : IsSaid(mine, x)'
      BY <1>0, <2>3, <2>4, <2>8, YieldSays DEF Accounted, IsSaid
    <3>. QED  BY <2>5, <2>8, <3>1
  <2>9. ASSUME at[th].pc # "file"
        PROVE  /\ at[th].todo # <<>> /\ Acceptable(f)
               /\ Here(th, "read") \/ Here(th, "parse") => l \in Installed
               /\ Here(th, "loaded") => l \in languages
               /\ Here(th, "failed") => l \notin Installed
    BY <2>3, <2>9 DEF SourceAt, File, Here
  <2>10. CASE WalkEnds(th)
    <3>1. out'[mine] = out[mine] \cup {} /\ job'[th] = NoUnit /\ at[th].todo = <<>>
      BY <1>0, <2>3, <2>10, FinishSays DEF WalkEnds
    <3>2. Settled(mine)' /\ AtTarget(th)'
      BY <1>0, <2>3, <3>1, WalkOver, FreeAtTarget
    <3>. QED  BY <1>0, <3>1, <3>2, TargetsKeep
  <2>11. CASE PassOver(th)
    <3>1. OfFile(f) = {} /\ Yield(th, {}, NextFile(th)) /\ at[th].todo # <<>>
      BY <2>11 DEF PassOver, File, OfFile, Resume
    <3>. QED  BY <2>8, <3>1
  <2>12. CASE UseParser(th)
    <3>1. at[th].todo # <<>> /\ Acceptable(f) /\ (parser[th][l] # 0 <=> l \in Installed)
      BY <2>12 DEF UseParser, AtFile, File, Owner, GrammarsAreInstalled
    <3>2. CASE parser[th][l] # 0
      BY <2>6, <2>12, <3>1, <3>2 DEF UseParser, Owner
    <3>3. CASE parser[th][l] = 0
      <4>1. OfFile(f) = {Trouble("parser", f.path)}
        BY <3>1, <3>3 DEF OfFile, Lang, File
      <4>. QED  BY <2>8, <2>12, <3>1, <3>3, <4>1 DEF UseParser, Owner, File
    <3>. QED  BY <3>2, <3>3
  <2>13. CASE NeedParser(th)
    BY <2>6, <2>13 DEF NeedParser, AtFile, File
  <2>14. CASE GrammarThere(th) \/ ReleaseAndKeep(th) \/ ReleaseAndGiveUp(th)
    <3>1. Resume(th, Goto(th, "file")) /\ at[th].pc # "file"
      BY <2>14 DEF GrammarThere, ReleaseAndKeep, ReleaseAndGiveUp, KeepNewParser, KeepNone, Keep, Here
    <3>. QED  BY <2>6, <2>9, <3>1
  <2>15. CASE GrammarMissing(th) \/ Acquire(th) \/ LookAgain(th)
    <3>1. /\ at[th].pc # "file"
          /\ \E pc \in {"acquire", "locked", "loading"} : Resume(th, Goto(th, pc))
      BY <2>15 DEF GrammarMissing, Acquire, LookAgain, Here
    <3>. QED  BY <2>6, <2>9, <3>1
  <2>16. CASE LoadedMeanwhile(th) \/ LoadGrammar(th)
    <3>1. Resume(th, Goto(th, "loaded")) /\ at[th].pc # "file" /\ l \in languages'
      BY <2>16 DEF LoadedMeanwhile, StillMissing, LoadGrammar, Here
    <3>. QED  BY <2>6, <2>9, <3>1
  <2>17. CASE LoadFails(th)
    <3>1. Resume(th, Goto(th, "failed")) /\ at[th].pc # "file" /\ l \notin Installed
      BY <2>17 DEF LoadFails, Here
    <3>. QED  BY <2>6, <2>9, <3>1
  <2>18. CASE ReadFile(th)
    <3>1. Resume(th, Goto(th, "parse")) /\ at[th].pc # "file" /\ l \in Installed
      BY <2>9, <2>18 DEF ReadFile, Here
    <3>. QED  BY <2>6, <2>9, <3>1
  <2>19. CASE ReadFails(th) \/ ParseFails(th)
    BY <2>7, <2>9, <2>19 DEF ReadFails, ParseFails, Here
  <2>20. CASE ParseFile(th)
    <3>1. at[th].todo # <<>> /\ Acceptable(f) /\ l \in Installed
      BY <2>9, <2>20 DEF ParseFile, Here
    <3>2. OfFile(f) = ScanTree(f)
      BY <3>1 DEF OfFile, Lang, File
    <3>. QED  BY <2>8, <2>20, <3>1, <3>2 DEF ParseFile, File
  <2>. QED  BY <1>2, <2>10, <2>11, <2>12, <2>13, <2>14, <2>15, <2>16, <2>17, <2>18, <2>19, <2>20
            DEF SourceStep
<1>. QED  BY <1>1, <1>2 DEF SourceWork
----------------------------------------------------------------------------
(* The collector of images. *)

LEMMA ImageParts ==
    ASSUME NEW u \in DOMAIN Images
    PROVE  /\ u \in Units /\ u \in Targets /\ u \notin DOMAIN Files \cup DOMAIN Binaries
           /\ \A part : SaidOf(u, part) = OfLayer(u, part)
           /\ Layered(Images[u]) => /\ PartsOf(u) = ToSet(LayersOf(Images[u]))
                                   /\ LayersOf(Images[u]) \in Seq(PartsOf(u))
                                   /\ NoLayer \notin PartsOf(u)
           /\ ~Layered(Images[u]) => PartsOf(u) = {NoLayer}
<1>1. /\ u \in Units /\ u \in Targets /\ u \notin DOMAIN Files \cup DOMAIN Binaries
      /\ \A part : SaidOf(u, part) = OfLayer(u, part)
      /\ PartsOf(u) = IF Layered(Images[u]) THEN ToSet(LayersOf(Images[u])) ELSE {NoLayer}
  BY SurfacesAreApart DEF Targets, PartsOf, SaidOf
<1>2. LayersOf(Images[u]) \in Seq(ToSet(LayersOf(Images[u])) \ {NoLayer})
  BY TargetsAreLists
<1>3. ToSet(LayersOf(Images[u])) \subseteq ToSet(LayersOf(Images[u])) \ {NoLayer}
  BY <1>2, OwnList
<1>4. LayersOf(Images[u]) \in Seq(ToSet(LayersOf(Images[u])))
  BY <1>2, <1>3, SeqMonotonic
<1>. QED  BY <1>1, <1>3, <1>4

(* What an archive gives is a list. *)
LEMMA ReadableIsList ==
    ASSUME NEW archive, IsArchive(archive)
    PROVE  Readable(archive) \in Seq(ToSet(Readable(archive)))
<1>1. archive.members \in Seq(ToSet(archive.members)) /\ archive.present \in 0..Len(archive.members)
  BY DEF IsArchive
<1>2. Len(archive.members) \in Nat
  BY <1>1
<1>3. \A i \in 1..archive.present : archive.members[i] \in ToSet(archive.members)
  BY <1>1, <1>2, ElementOfSeq
<1>4. Readable(archive) \in Seq(ToSet(archive.members))
  BY <1>1, <1>2, <1>3, SubSeqProperties DEF Readable
<1>5. PICK list \in Seq(ToSet(archive.members)) : list = Readable(archive)
  BY <1>4
<1>6. list \in [1..Len(list) -> ToSet(list)] /\ Len(list) \in Nat
  BY <1>5, LenProperties DEF ToSet
<1>. QED  BY <1>5, <1>6, SeqDef

(* The archive a thread is in, and what is to be said of it. *)
LEMMA InArchive ==
    ASSUME NEW th \in Threads, NEW u \in DOMAIN Images, u = job[th], ContainerAt(th),
           at[th].pc = "member"
    PROVE  /\ at[th].open \in PartsOf(u)
           /\ SaidOf(u, at[th].open) = OfArchive(u, at[th].open, Archive(th))
           /\ Unpacking(th)
<1>1. Image(th) = Images[u] /\ Images[u].state = "listed" /\ Unpacking(th)
  BY DEF ContainerAt, Image
<1>2. CASE at[th].open = NoLayer
  <2>1. ~Layered(Images[u]) /\ Archive(th) = Images[u].files
    BY <1>1, <1>2 DEF ContainerAt, Archive
  <2>. QED  BY <1>1, <1>2, <2>1, ImageParts DEF OfLayer, OfWholeImage
<1>3. CASE at[th].open # NoLayer
  <2>1. InLayer(th) /\ Archive(th) = Images[u].blobs[at[th].open]
    BY <1>1, <1>3 DEF ContainerAt, Archive
  <2>2. /\ at[th].open \in DOMAIN Images[u].blobs /\ Images[u].blobs[at[th].open].type = "tar"
        /\ at[th].open \in PartsOf(u)
    BY <1>1, <2>1, HeadAndTail DEF InLayer, Layering
  <2>. QED  BY <1>1, <1>3, <2>1, <2>2, ImageParts DEF OfLayer, OfBlob
<1>. QED  BY <1>2, <1>3
LEMMA LayerOn ==
    ASSUME Shapes, NEW th \in Threads, Grows(th), NEW mine \in Units, mine = job[th],
           DOMAIN at[th] = {"pc", "layers", "open", "members"}, Layering(th),
           at[th].layers # <<>>, job'[th] = mine, at'[th] = NextLayer(th),
           NEW layer, layer = Head(at[th].layers), Accounted(mine, layer)'
    PROVE  ContainerAt(th)'
<1>1. PICK layers : layers = at[th].layers
  OBVIOUS
<1>2. layers \in Seq(PartsOf(mine)) /\ Behind(mine, ToSet(layers))
  BY <1>1 DEF Layering
<1>3. Behind(mine, ToSet(layers))'
  BY <1>2, SaidGrows DEF Behind
<1>4. /\ Tail(layers) \in Seq(PartsOf(mine))
      /\ \A x \in ToSet(layers) : x = layer \/ x \in ToSet(Tail(layers))
  <2>1. layers # <<>> /\ layer = Head(layers)
    BY <1>1
  <2>. QED  BY <1>2, <2>1, HeadAndTail
<1>5. Behind(mine, ToSet(Tail(layers)))'
  BY <1>3, <1>4 DEF Behind
<1>6. /\ DOMAIN at'[th] = {"pc", "layers", "open", "members"} /\ at'[th].pc = "layer"
      /\ at'[th].layers = Tail(layers)
  BY <1>1 DEF NextLayer
<1>7. Layering(th)'
  BY <1>4, <1>5, <1>6 DEF Layering, Image
<1>. QED  BY <1>6, <1>7 DEF ContainerAt

LEMMA ContainerSays ==
    ASSUME Shapes, PoolInv, AtHome, TargetsInv, NEW th \in Threads, Grows(th), ContainerWork(th),
           over' \subseteq over \cup {job[th]}
    PROVE  TargetsInv'
<1>0. UNCHANGED languages
  BY DEF ContainerWork, sourceVars
<1>1. ASSUME NEW u \in waiting, StartContainer(th, u) PROVE TargetsInv'
  <2>1. /\ u \in DOMAIN Images /\ job[th] = NoUnit /\ NoUnit \notin Targets /\ job'[th] = u
        /\ at'[th] = [pc |-> "open", layers |-> <<>>, open |-> NoLayer, members |-> <<>>]
    BY <1>1, CollectConstants, StartMoves DEF StartContainer, Targets
  <2>2. AtTarget(th)'
    BY <2>1, ImageParts DEF AtTarget, ContainerAt
  <2>. QED  BY <1>0, <2>1, <2>2, TargetsKeep
<1>2. ASSUME ContainerStep(th) PROVE TargetsInv'
  <2>. PICK mine, layer : mine = job[th] /\ layer = Head(at[th].layers)
    OBVIOUS
  <2>1. at[th].pc \in {"open", "layer", "member"} /\ faults \in Nat
    BY <1>2 DEF ContainerStep, OpenImage, OpenImageFails, ListingRaises, LayersEnd, LayerMissing,
                BlobIsNoFile, BlobIsNoArchive, OpenLayer, BlobIs, AtLayer, ReadMember,
                TempFileFails, AtMember, ArchiveEnds, LayerTorn, ImageRaises, AtEnd, Grows
  <2>2. mine \in DOMAIN Images
    BY <2>1, SurfacesAreApart DEF Shapes, AtHome, SourceSteps, Idle
  <2>3. /\ mine \in Units /\ mine \in Targets /\ mine \notin DOMAIN Files \cup DOMAIN Binaries
        /\ \A part : SaidOf(mine, part) = OfLayer(mine, part)
        /\ ContainerAt(th) /\ Image(th) = Images[mine]
        /\ DOMAIN at[th] = {"pc", "layers", "open", "members"}
    BY <2>2, ImageParts DEF TargetsInv, AtTarget, Image, ContainerAt
  <2>4. mine \notin over
    BY CollectConstants DEF PoolInv
  <2>5. ASSUME \A x \in out'[mine] : x \in out[mine] \/ IsSaid(mine, x)',
               job'[th] = mine, over' = over, ContainerAt(th)'
        PROVE  TargetsInv'
    <3>1. AtTarget(th)'
      BY <2>3, <2>5 DEF AtTarget
    <3>. QED  BY <1>0, <2>3, <2>4, <2>5, <3>1, TargetsKeep
  <2>6. ASSUME \A x \in out'[mine] : x \in out[mine] \/ IsSaid(mine, x)',
               job'[th] = NoUnit, Settled(mine)'
        PROVE  TargetsInv'
    <3>1. AtTarget(th)'
      BY <2>6, FreeAtTarget
    <3>. QED  BY <1>0, <2>6, <3>1, TargetsKeep
  <2>7. ASSUME at[th].pc = "layer" \/ (at[th].pc = "member" /\ at[th].open # NoLayer)
        PROVE  Layering(th) /\ (at[th].layers # <<>> => layer \in PartsOf(mine) /\ layer # NoLayer)
    <3>1. Layering(th)
      BY <2>3, <2>7 DEF ContainerAt, InLayer
    <3>. QED  BY <2>2, <2>3, <3>1, HeadAndTail, ImageParts DEF Layering
  <2>8. ASSUME NEW items, Yield(th, items, NextLayer(th)), Layering(th), at[th].layers # <<>>,
               \A x \in items : IsSaid(mine, x)', Accounted(mine, layer)'
        PROVE  TargetsInv'
    <3>1. out'[mine] = out[mine] \cup items /\ job'[th] = mine /\ at'[th] = NextLayer(th)
          /\ over' = over
      BY <2>3, <2>8, YieldSays
    <3>2. ContainerAt(th)'
      BY <2>3, <2>8, <3>1, LayerOn
    <3>. QED  BY <2>5, <2>8, <3>1, <3>2
  <2>9. ASSUME Yield(th, OfLayer(mine, layer), NextLayer(th)), at[th].pc = "layer",
               at[th].layers # <<>>
        PROVE  TargetsInv'
    <3>1. Layering(th) /\ layer \in PartsOf(mine)
      BY <2>7, <2>9
    <3>2. Accounted(mine, layer)' /\ \A x \in OfLayer(mine, layer) : IsSaid(mine, x)'
      BY <2>3, <2>9, <3>1, YieldSays DEF Accounted, IsSaid
    <3>. QED  BY <2>8, <2>9, <3>1, <3>2
  <2>10. ASSUME ~Layered(Images[mine]), SaidOf(mine, NoLayer) \subseteq out'[mine]
         PROVE  Settled(mine)'
    BY <2>2, <2>10, ImageParts DEF Settled, Behind, Accounted
  <2>11. CASE OpenImage(th)
    <3>. DEFINE layers == LayersOf(Images[mine])
                plain == ~Layout(th) /\ layers = <<>>
                locals == [at[th] EXCEPT !.pc = IF plain THEN "member" ELSE "layer",
                                         !.layers = layers,
                                         !.members = IF plain THEN Readable(Images[mine].files)
                                                     ELSE <<>>]
    <3>1. /\ at[th].pc = "open" /\ Images[mine].state = "listed" /\ Resume(th, locals)
          /\ IF Layered(Images[mine]) THEN ~plain ELSE plain
      BY <2>3, <2>11 DEF OpenImage, Layout, Layered
    <3>2. /\ DOMAIN locals = {"pc", "layers", "open", "members"} /\ locals.open = NoLayer
          /\ locals.pc = IF Layered(Images[mine]) THEN "layer" ELSE "member"
          /\ locals.layers = layers
          /\ ~Layered(Images[mine]) => locals.members = Readable(Images[mine].files)
      BY <2>3, <3>1 DEF ContainerAt
    <3>. HIDE DEF locals
    <3>3. out'[mine] = out[mine] /\ job'[th] = mine /\ at'[th] = locals /\ over' = over
      BY <2>3, <3>1, ResumeSays
    <3>4. ASSUME ~Layered(Images[mine]) PROVE ContainerAt(th)'
      <4>1. Archive(th)' = Images[mine].files
        BY <3>2, <3>3 DEF Archive, Image
      <4>2. Readable(Images[mine].files) \in Seq(ToSet(Readable(Images[mine].files)))
        BY <2>2, TargetsAreLists, ReadableIsList
      <4>3. Unpacking(th)'
        BY <3>2, <3>3, <3>4, <4>1, <4>2 DEF Unpacking
      <4>. QED  BY <3>1, <3>2, <3>3, <3>4, <4>3 DEF ContainerAt, Image
    <3>5. ASSUME Layered(Images[mine]) PROVE ContainerAt(th)'
      <4>1. layers \in Seq(PartsOf(mine)) /\ PartsOf(mine) = ToSet(layers)
        BY <2>2, <3>1, <3>5, ImageParts
      <4>2. Behind(mine, ToSet(layers))'
        BY <4>1 DEF Behind
      <4>3. Layering(th)'
        BY <3>1, <3>2, <3>3, <3>5, <4>1, <4>2 DEF Layering, Image
      <4>. QED  BY <3>2, <3>3, <3>5, <4>3 DEF ContainerAt
    <3>6. ContainerAt(th)'
      BY <3>4, <3>5
    <3>. QED  BY <2>5, <3>3, <3>6
  <2>12. CASE OpenImageFails(th)
    <3>. DEFINE items == {Trouble(IF Images[mine].shape = "layout" THEN "layout" ELSE "open", mine)}
    <3>1. Finish(th, items) /\ Images[mine].state = "unopenable"
      BY <2>3, <2>12 DEF OpenImageFails, Layout
    <3>2. ~Layered(Images[mine]) /\ SaidOf(mine, NoLayer) = items
      BY <2>3, <3>1 DEF Layered, OfLayer, OfWholeImage
    <3>. HIDE DEF items
    <3>3. out'[mine] = out[mine] \cup items /\ job'[th] = NoUnit
      BY <2>3, <3>1, FinishSays
    <3>4. Settled(mine)' /\ \A x \in items : IsSaid(mine, x)'
      BY <2>2, <2>10, <3>2, <3>3, ImageParts DEF IsSaid
    <3>. QED  BY <2>6, <3>3, <3>4
  <2>13. CASE ListingRaises(th)
    <3>. DEFINE items == {Trouble("collect", mine)}
    <3>1. Raise(th, {}) /\ Images[mine].state = "cut"
      BY <2>3, <2>13 DEF ListingRaises
    <3>2. ~Layered(Images[mine]) /\ SaidOf(mine, NoLayer) = items
      BY <2>3, <3>1 DEF Layered, OfLayer, OfWholeImage
    <3>3. out'[mine] = out[mine] \cup items /\ job'[th] = NoUnit
      BY <2>3, <3>1, RaiseSays
    <3>. HIDE DEF items
    <3>4. Settled(mine)' /\ \A x \in items : IsSaid(mine, x)'
      BY <2>2, <2>10, <3>2, <3>3, ImageParts DEF IsSaid
    <3>. QED  BY <2>6, <3>3, <3>4
  <2>14. CASE LayersEnd(th)
    <3>1. at[th].pc = "layer" /\ at[th].layers = <<>> /\ Finish(th, {})
      BY <2>14 DEF LayersEnd
    <3>2. Behind(mine, {})
      BY <2>7, <3>1, NothingAhead DEF Layering
    <3>3. Settled(mine)'
      BY <2>3, <3>2, SaidGrows DEF Settled
    <3>4. out'[mine] = out[mine] /\ job'[th] = NoUnit
      BY <2>3, <3>1, LastSays
    <3>. QED  BY <2>6, <3>3, <3>4
  <2>15. CASE LayerMissing(th)
    <3>1. /\ at[th].pc = "layer" /\ at[th].layers # <<>> /\ layer \notin DOMAIN Images[mine].blobs
          /\ Yield(th, {Trouble("layer", <<layer>>)}, NextLayer(th))
      BY <2>3, <2>15 DEF LayerMissing, AtLayer
    <3>2. OfLayer(mine, layer) = {Trouble("layer", <<layer>>)}
      BY <2>7, <3>1 DEF OfLayer
    <3>. QED  BY <2>9, <3>1, <3>2
  <2>16. CASE BlobIsNoFile(th) \/ BlobIsNoArchive(th)
    <3>1. /\ at[th].pc = "layer" /\ at[th].layers # <<>> /\ layer \in DOMAIN Images[mine].blobs
      BY <2>3, <2>16 DEF BlobIsNoFile, BlobIsNoArchive, BlobIs, AtLayer
    <3>2. Yield(th, OfBlob(mine, layer, Images[mine].blobs[layer]), NextLayer(th))
      BY <2>3, <2>16 DEF BlobIsNoFile, BlobIsNoArchive, BlobIs, Resume, TarError, OfBlob
    <3>3. OfLayer(mine, layer) = OfBlob(mine, layer, Images[mine].blobs[layer])
      BY <2>7, <3>1 DEF OfLayer
    <3>. QED  BY <2>9, <3>1, <3>2, <3>3
  <2>17. CASE OpenLayer(th)
    <3>. DEFINE locals == [at[th] EXCEPT !.pc = "member", !.open = layer,
                                         !.members = Readable(Images[mine].blobs[layer])]
    <3>1. /\ at[th].pc = "layer" /\ at[th].layers # <<>> /\ layer \in DOMAIN Images[mine].blobs
          /\ Images[mine].blobs[layer].type = "tar" /\ Resume(th, locals)
      BY <2>3, <2>17 DEF OpenLayer, BlobIs, AtLayer
    <3>2. /\ DOMAIN locals = {"pc", "layers", "open", "members"} /\ locals.open = layer
          /\ locals.pc = "member" /\ locals.layers = at[th].layers
          /\ locals.members = Readable(Images[mine].blobs[layer])
      BY <2>3
    <3>. HIDE DEF locals
    <3>3. out'[mine] = out[mine] /\ job'[th] = mine /\ at'[th] = locals /\ over' = over
      BY <2>3, <3>1, ResumeSays
    <3>4. Layering(th) /\ layer # NoLayer
      BY <2>7, <3>1
    <3>5. PICK layers : layers = at[th].layers
      OBVIOUS
    <3>6. layers \in Seq(PartsOf(mine)) /\ Layered(Images[mine]) /\ Behind(mine, ToSet(layers))'
      BY <2>3, <3>4, <3>5, SaidGrows DEF Layering, Behind
    <3>7. InLayer(th)'
      BY <3>1, <3>2, <3>3, <3>5, <3>6 DEF InLayer, Layering, Image
    <3>8. Archive(th)' = Images[mine].blobs[layer]
      BY <3>2, <3>3, <3>4 DEF Archive, Image
    <3>9. Readable(Images[mine].blobs[layer]) \in Seq(ToSet(Readable(Images[mine].blobs[layer])))
      BY <2>2, <3>1, TargetsAreLists, ReadableIsList
    <3>10. Unpacking(th)'
      BY <3>2, <3>3, <3>8, <3>9 DEF Unpacking
    <3>11. Images[mine].state = "listed"
      BY <3>6 DEF Layered
    <3>12. ContainerAt(th)'
      BY <3>2, <3>3, <3>4, <3>7, <3>10, <3>11 DEF ContainerAt, Image
    <3>. QED  BY <2>5, <3>3, <3>12
  <2>18. PICK open, archive : open = at[th].open /\ archive = Archive(th)
    OBVIOUS
  <2>19. ASSUME at[th].pc = "member"
         PROVE  /\ open \in PartsOf(mine) /\ Unpacking(th)
                /\ SaidOf(mine, open) = OfArchive(mine, open, archive)
    BY <2>2, <2>3, <2>18, <2>19, InArchive
  <2>20. CASE ReadMember(th)
    <3>. DEFINE locals == [at[th] EXCEPT !.members = Tail(@)]
    <3>0. PICK m, members : m = Head(at[th].members) /\ members = at[th].members
      OBVIOUS
    <3>1. at[th].pc = "member" /\ members # <<>> /\ Yield(th, MemberFacts(open, m), locals)
      BY <2>18, <2>20, <3>0 DEF ReadMember, AtMember
    <3>2. /\ DOMAIN locals = {"pc", "layers", "open", "members"} /\ locals.open = open
          /\ locals.pc = "member" /\ locals.layers = at[th].layers
          /\ locals.members = Tail(members)
      BY <2>3, <2>18, <3>0, <3>1
    <3>. HIDE DEF locals
    <3>3. /\ out'[mine] = out[mine] \cup MemberFacts(open, m) /\ job'[th] = mine
          /\ at'[th] = locals /\ over' = over
      BY <2>3, <3>1, YieldSays
    <3>4. Archive(th)' = archive /\ Image(th)' = Image(th)
      BY <2>3, <2>18, <3>2, <3>3 DEF Archive, Image
    <3>5. PICK given : given = ToSet(Readable(archive))
      OBVIOUS
    <3>6. /\ members \in Seq(given)
          /\ \A x \in given : x \in ToSet(members) \/ MemberFacts(open, x) \subseteq out[mine]
      BY <2>18, <2>19, <3>0, <3>1, <3>5 DEF Unpacking
    <3>7. /\ m \in given /\ Tail(members) \in Seq(given)
          /\ \A x \in ToSet(members) : x = m \/ x \in ToSet(Tail(members))
      <4>1. m = Head(members)
        BY <3>0
      <4>. QED  BY <3>1, <3>6, <4>1, HeadAndTail
    <3>8. Unpacking(th)'
      <4>1. \A x \in given : x \in ToSet(Tail(members)) \/ MemberFacts(open, x) \subseteq out'[mine]
        BY <3>3, <3>6, <3>7
      <4>. QED  BY <3>2, <3>3, <3>4, <3>5, <3>7, <4>1 DEF Unpacking
    <3>9. \A x \in MemberFacts(open, m) : IsSaid(mine, x)'
      BY <2>19, <3>1, <3>5, <3>7 DEF OfArchive, IsSaid
    <3>10. open # NoLayer => InLayer(th)'
      <4>1. SUFFICES ASSUME open # NoLayer PROVE InLayer(th)'
        OBVIOUS
      <4>2. InLayer(th)
        BY <2>3, <2>18, <3>1, <4>1 DEF ContainerAt
      <4>3. PICK layers : layers = at[th].layers
        OBVIOUS
      <4>4. layers \in Seq(PartsOf(mine)) /\ Layered(Images[mine]) /\ Behind(mine, ToSet(layers))'
        BY <2>3, <4>2, <4>3, SaidGrows DEF InLayer, Layering, Behind
      <4>. QED  BY <2>3, <2>18, <3>2, <3>3, <3>4, <4>2, <4>3, <4>4 DEF InLayer, Layering
    <3>11. ContainerAt(th)'
      BY <2>3, <2>18, <3>1, <3>2, <3>3, <3>4, <3>8, <3>10 DEF ContainerAt
    <3>. QED  BY <2>5, <3>3, <3>9, <3>11
  <2>21. CASE TempFileFails(th)
    <3>. DEFINE items == {Trouble("collect", mine)}
    <3>1. Raise(th, {}) /\ Fault
      BY <2>21 DEF TempFileFails
    <3>2. out'[mine] = out[mine] \cup items /\ job'[th] = NoUnit
      BY <2>3, <3>1, RaiseSays
    <3>3. Settled(mine)' /\ \A x \in items : IsSaid(mine, x)'
      BY <2>1, <3>1, <3>2, FailureTells DEF Settled
    <3>. HIDE DEF items
    <3>. QED  BY <2>6, <3>2, <3>3
  <2>22. ASSUME AtEnd(th)
         PROVE  /\ at[th].pc = "member" /\ open \in PartsOf(mine)
                /\ \A items : OfEnd(mine, open, archive) \subseteq items /\ out[mine] \subseteq items
                              => SaidOf(mine, open) \subseteq items
                /\ OfEnd(mine, open, archive) \subseteq SaidOf(mine, open)
    <3>1. at[th].pc = "member" /\ at[th].members = <<>>
      BY <2>22 DEF AtEnd
    <3>2. \A m \in ToSet(Readable(archive)) : MemberFacts(open, m) \subseteq out[mine]
      BY <2>18, <2>19, <3>1, NothingAhead DEF Unpacking
    <3>. QED  BY <2>19, <3>1, <3>2 DEF OfArchive
  <2>23. ASSUME at[th].pc = "member", open # NoLayer
         PROVE  Layering(th) /\ at[th].layers # <<>> /\ layer = open
    BY <2>3, <2>18, <2>23 DEF ContainerAt, InLayer
  <2>24. CASE ArchiveEnds(th)
    <3>1. AtEnd(th) /\ OfEnd(mine, open, archive) = {}
      BY <2>18, <2>24 DEF ArchiveEnds, OfEnd
    <3>2. SaidOf(mine, open) \subseteq out[mine]
      BY <2>22, <3>1
    <3>3. CASE open = NoLayer
      <4>1. ~Layered(Images[mine])
        BY <2>3, <2>18, <2>22, <3>1, <3>3 DEF ContainerAt
      <4>2. out'[mine] = out[mine] /\ job'[th] = NoUnit
        BY <2>3, <2>18, <2>24, <3>3, LastSays DEF ArchiveEnds
      <4>3. Settled(mine)'
        BY <2>10, <3>2, <3>3, <4>1, <4>2
      <4>. QED  BY <2>6, <4>2, <4>3
    <3>4. CASE open # NoLayer
      <4>1. Yield(th, {}, NextLayer(th)) /\ \A x \in {} : IsSaid(mine, x)'
        BY <2>18, <2>24, <3>4 DEF ArchiveEnds, Resume
      <4>2. Accounted(mine, layer)'
        BY <2>3, <2>22, <2>23, <3>1, <3>2, <3>4, <4>1, YieldSays DEF Accounted
      <4>. QED  BY <2>8, <2>22, <2>23, <3>1, <3>4, <4>1, <4>2
    <3>. QED  BY <3>3, <3>4
  <2>25. CASE LayerTorn(th)
    <3>1. /\ AtEnd(th) /\ open # NoLayer /\ OfEnd(mine, open, archive) = LayerLost(Images[mine], open)
          /\ Yield(th, LayerLost(Images[mine], open), NextLayer(th))
      BY <2>3, <2>18, <2>25 DEF LayerTorn, Contained, Layout, OfEnd, TarError
    <3>2. out'[mine] = out[mine] \cup LayerLost(Images[mine], open)
      BY <2>3, <3>1, YieldSays
    <3>3. SaidOf(mine, open) \subseteq out'[mine]
      BY <2>22, <3>1, <3>2
    <3>4. Accounted(mine, layer)' /\ \A x \in LayerLost(Images[mine], open) : IsSaid(mine, x)'
      BY <2>22, <2>23, <3>1, <3>3 DEF Accounted, IsSaid
    <3>. QED  BY <2>8, <2>22, <2>23, <3>1, <3>4
  <2>26. CASE ImageRaises(th)
    <3>. DEFINE items == {Trouble("collect", mine)}
    <3>1. AtEnd(th) /\ OfEnd(mine, open, archive) = items /\ Raise(th, {})
      BY <2>3, <2>18, <2>26 DEF ImageRaises, Contained, Layout, OfEnd
    <3>2. out'[mine] = out[mine] \cup items /\ job'[th] = NoUnit
      BY <2>3, <3>1, RaiseSays
    <3>3. Settled(mine)' /\ \A x \in items : IsSaid(mine, x)'
      BY <2>22, <3>1, <3>2 DEF Settled, IsSaid
    <3>. HIDE DEF items
    <3>. QED  BY <2>6, <3>2, <3>3
  <2>. QED  BY <1>2, <2>11, <2>12, <2>13, <2>14, <2>15, <2>16, <2>17, <2>20, <2>21, <2>24, <2>25,
               <2>26 DEF ContainerStep
<1>. QED  BY <1>1, <1>2 DEF ContainerWork
----------------------------------------------------------------------------
(* The collector of endpoints, while their servers stay as they are.        *)

LEMMA ExploredGrows ==
    ASSUME Shapes, NEW th \in Threads, Grows(th), UNCHANGED <<server, changes>>, NEW u \in Units
    PROVE  /\ Undisturbed' => Undisturbed
           /\ Greeted(u) => Greeted(u)'
           /\ \A ahead : ProbedBut(u, ahead) => ProbedBut(u, ahead)'
           /\ Explored(u) => Explored(u)'
<1>1. (faults # 0 => faults' # 0) /\ out[u] \subseteq out'[u]
  BY DEF Grows, OwnMove
<1>2. Undisturbed' => Undisturbed
  BY <1>1 DEF Undisturbed
<1>3. Greeted(u) => Greeted(u)'
  BY <1>1 DEF Greeted
<1>4. \A ahead : ProbedBut(u, ahead) => ProbedBut(u, ahead)'
  BY <1>1 DEF ProbedBut
<1>5. Errors(u)' = {} => Errors(u) = {}
  BY <1>1 DEF Errors
<1>6. ProbedBut(u, {}) => ProbedBut(u, {})'
  BY <1>1 DEF ProbedBut
<1>. QED  BY <1>2, <1>3, <1>4, <1>5, <1>6 DEF Explored

LEMMA EndpointsKeep ==
    ASSUME Shapes, EndpointsInv, NEW th \in Threads, Grows(th), UNCHANGED <<server, changes>>,
           NEW mine, mine = job[th], over' \subseteq over \cup {mine},
           mine \in Endpoints \cap over' => Explored(mine)',
           job'[th] \in Endpoints => EndpointAt(th)'
    PROVE  EndpointsInv'
<1>1. \A u \in Endpoints : u \in Units
  BY SurfacesAreApart
<1>2. ASSUME NEW u \in Endpoints, u \in over' PROVE Explored(u)'
  BY <1>1, <1>2, ExploredGrows DEF EndpointsInv
<1>3. ASSUME NEW t \in Threads, t # th, job'[t] \in Endpoints PROVE EndpointAt(t)'
  <2>1. PICK u, todo : u = job[t] /\ todo = at[t].todo
    OBVIOUS
  <2>2. job'[t] = u /\ at'[t] = at[t] /\ u \in Endpoints /\ EndpointAt(t)
    BY <1>3, <2>1 DEF Grows, OwnMove, EndpointsInv
  <2>3. CASE at[t].pc # "probe"
    BY <2>2, <2>3 DEF EndpointAt
  <2>4. CASE at[t].pc = "probe"
    <3>1. /\ DOMAIN at[t] = {"pc", "todo"} /\ todo \in Seq(ToSet(Probes))
          /\ Undisturbed => Greeted(u) /\ ProbedBut(u, ToSet(todo))
      BY <2>1, <2>2, <2>4 DEF EndpointAt
    <3>2. Undisturbed' => Greeted(u)' /\ ProbedBut(u, ToSet(todo))'
      BY <1>1, <2>2, <3>1, ExploredGrows DEF ProbedBut
    <3>. QED  BY <2>1, <2>2, <3>1, <3>2 DEF EndpointAt
  <2>. QED  BY <2>3, <2>4
<1>. QED  BY <1>2, <1>3 DEF EndpointsInv

LEMMA RangeOfList ==
    ASSUME NEW S, NEW list \in Seq(S)
    PROVE  list \in Seq(ToSet(list))
<1>1. list \in [1..Len(list) -> ToSet(list)] /\ Len(list) \in Nat
  BY LenProperties DEF ToSet
<1>. QED  BY <1>1, SeqDef

LEMMA ProbesAreList == Probes \in Seq(ToSet(Probes))
<1>. DEFINE first  == << <<"version", 10>>, <<"version", 11>>, <<"version", 12>>, <<"version", 13>> >>
            second == << <<"group", "P-256">>, <<"group", "P-384">>, <<"group", "P-521">>,
                         <<"group", "X25519">> >>
            S      == {<<"version", 10>>, <<"version", 11>>, <<"version", 12>>, <<"version", 13>>,
                       <<"group", "P-256">>, <<"group", "P-384">>, <<"group", "P-521">>,
                       <<"group", "X25519">>}
<1>1. first \in Seq(S) /\ second \in Seq(S) /\ <<>> \in Seq(S)
  OBVIOUS
<1>2. Probes = (IF "version" \in Probed THEN first ELSE <<>>)
                 \o (IF "group" \in Probed THEN second ELSE <<>>)
  BY DEF Probes
<1>. HIDE DEF first, second, S
<1>3. Probes \in Seq(S)
  BY <1>1, <1>2, ConcatProperties
<1>. QED  BY <1>3, RangeOfList

LEMMA TlsExplores ==
    ASSUME ProbeInv, PoolInv, AtHome, EndpointsInv, NEW th \in Threads, Grows(th), TlsWork(th),
           UNCHANGED <<server, changes>>, over' \subseteq over \cup {job[th]}
    PROVE  EndpointsInv'
<1>0. Shapes
  BY DEF ProbeInv, GrammarInv
<1>1. ASSUME NEW u \in waiting, StartTLS(th, u) PROVE EndpointsInv'
  <2>1. job[th] = NoUnit /\ NoUnit \notin Endpoints /\ at'[th].pc = "handshake"
    BY <1>0, <1>1, CollectConstants, SurfacesAreApart, StartMoves DEF StartTLS
  <2>2. EndpointAt(th)'
    BY <2>1 DEF EndpointAt
  <2>. QED  BY <1>0, <2>1, <2>2, EndpointsKeep
<1>2. ASSUME TLSStep(th) PROVE EndpointsInv'
  <2>. PICK mine, probe, todo : mine = job[th] /\ probe = ThisProbe(th) /\ todo = at[th].todo
    OBVIOUS
  <2>1. at[th].pc \in {"handshake", "probe"} /\ faults \in Nat
    BY <1>2 DEF TLSStep, Handshake, KeyUnsupported, HandshakeRefused, HandshakeTimesOut,
                ProbeAccepted, ProbeRefused, ProbeTimesOut, ProbesEnd, Probing, Grows
  <2>2. mine \in Endpoints /\ mine \in Units
    BY <2>1, SurfacesAreApart DEF ProbeInv, ProbersAtEndpoints, TlsSteps
  <2>3. mine \notin over /\ NoUnit \notin Endpoints
    BY CollectConstants, SurfacesAreApart DEF PoolInv
  <2>4. ASSUME at[th].pc = "probe"
        PROVE  /\ DOMAIN at[th] = {"pc", "todo"} /\ todo \in Seq(ToSet(Probes))
               /\ Undisturbed => Greeted(mine) /\ ProbedBut(mine, ToSet(todo))
    BY <2>2, <2>4 DEF EndpointsInv, EndpointAt
  <2>5. ASSUME NEW phase, NEW where, Trouble(phase, where) \in out'[mine], job'[th] = NoUnit
        PROVE  EndpointsInv'
    <3>1. Explored(mine)'
      BY <2>5, TroublesAreItems DEF Explored, Errors
    <3>. QED  BY <1>0, <2>3, <2>5, <3>1, EndpointsKeep
  <2>6. ASSUME NEW items, Yield(th, items, NextProbe(th)), at[th].pc = "probe", todo # <<>>,
               Undisturbed' => \/ probe \in Unsettable \/ Fact(mine, probe) \in items
                               \/ Agreements(server[mine], Offer(probe)) = {}
        PROVE  EndpointsInv'
    <3>1. /\ out'[mine] = out[mine] \cup items /\ job'[th] = mine /\ over' = over
          /\ at'[th] = NextProbe(th)
      BY <1>0, <2>2, <2>6, YieldSays
    <3>2. /\ DOMAIN NextProbe(th) = {"pc", "todo"} /\ NextProbe(th).pc = "probe"
          /\ NextProbe(th).todo = Tail(todo)
      BY <2>4, <2>6 DEF NextProbe
    <3>3. /\ Tail(todo) \in Seq(ToSet(Probes))
          /\ \A x \in ToSet(todo) : x = probe \/ x \in ToSet(Tail(todo))
      <4>1. probe = Head(todo)
        BY DEF ThisProbe
      <4>. QED  BY <2>4, <2>6, <4>1, HeadAndTail
    <3>4. Undisturbed' => Greeted(mine)' /\ ProbedBut(mine, ToSet(Tail(todo)))'
      <4>1. SUFFICES ASSUME Undisturbed' PROVE Greeted(mine)' /\ ProbedBut(mine, ToSet(Tail(todo)))'
        OBVIOUS
      <4>2. Undisturbed /\ Greeted(mine)'
        BY <1>0, <2>2, <2>4, <2>6, <4>1, ExploredGrows
      <4>3. ProbedBut(mine, ToSet(todo))
        BY <2>4, <2>6, <4>2
      <4>. QED  BY <2>6, <3>1, <3>3, <4>1, <4>2, <4>3 DEF ProbedBut
    <3>5. EndpointAt(th)'
      BY <3>1, <3>2, <3>3, <3>4 DEF EndpointAt
    <3>6. mine \notin over'
      BY <2>3, <3>1
    <3>. QED  BY <1>0, <3>5, <3>6, EndpointsKeep
  <2>7. CASE Handshake(th)
    <3>. DEFINE items(agreed) == HandshakeFacts(mine, agreed)
                                   \cup CertificateFacts(mine, Server(th).cert)
    <3>1. PICK agreed \in Agreements(server[mine], AnyOffer) :
             Yield(th, items(agreed), [pc |-> "probe", todo |-> Probes])
      BY <2>7 DEF Handshake, Server
    <3>2. HandshakeFacts(mine, agreed) \subseteq items(agreed)
      OBVIOUS
    <3>. HIDE DEF items
    <3>3. /\ out'[mine] = out[mine] \cup items(agreed) /\ job'[th] = mine /\ over' = over
          /\ at'[th] = [pc |-> "probe", todo |-> Probes]
      BY <1>0, <2>2, <3>1, YieldSays
    <3>4. Greeted(mine)' /\ ProbedBut(mine, ToSet(Probes))'
      BY <3>1, <3>2, <3>3 DEF Greeted, ProbedBut
    <3>5. EndpointAt(th)'
      BY <3>3, <3>4, ProbesAreList DEF EndpointAt
    <3>6. mine \notin over'
      BY <2>3, <3>3
    <3>. QED  BY <1>0, <3>5, <3>6, EndpointsKeep
  <2>8. CASE KeyUnsupported(th)
    <3>1. PICK agreed : Raise(th, HandshakeFacts(mine, agreed))
      BY <2>8 DEF KeyUnsupported
    <3>2. Trouble("collect", mine) \in out'[mine] /\ job'[th] = NoUnit
      BY <1>0, <2>2, <3>1, RaiseSays
    <3>. QED  BY <2>5, <3>2
  <2>9. CASE HandshakeRefused(th) \/ HandshakeTimesOut(th)
    <3>1. Finish(th, {Trouble("handshake", mine)})
      BY <2>9 DEF HandshakeRefused, HandshakeTimesOut
    <3>2. Trouble("handshake", mine) \in out'[mine] /\ job'[th] = NoUnit
      BY <1>0, <2>2, <3>1, FinishSays
    <3>. QED  BY <2>5, <3>2
  <2>10. CASE ProbeAccepted(th)
    <3>. DEFINE items == {Fact(mine, probe)}
    <3>1. Yield(th, items, NextProbe(th)) /\ at[th].pc = "probe" /\ todo # <<>>
          /\ Fact(mine, probe) \in items
      BY <2>10 DEF ProbeAccepted, Probing
    <3>. HIDE DEF items
    <3>. QED  BY <2>6, <3>1
  <2>11. CASE ProbeRefused(th)
    <3>1. /\ Yield(th, {}, NextProbe(th)) /\ at[th].pc = "probe" /\ todo # <<>>
          /\ probe \in Unsettable \/ Agreements(server[mine], Offer(probe)) = {}
      BY <2>11 DEF ProbeRefused, Probing, Resume, AfterRefusal, Server
    <3>. QED  BY <2>6, <3>1
  <2>12. CASE ProbeTimesOut(th)
    <3>1. Yield(th, {}, NextProbe(th)) /\ at[th].pc = "probe" /\ todo # <<>> /\ Fault
      BY <2>12 DEF ProbeTimesOut, Probing, Resume, AfterRefusal
    <3>2. ~Undisturbed'
      BY <2>1, <3>1 DEF Fault, Undisturbed
    <3>. QED  BY <2>6, <3>1, <3>2
  <2>13. CASE ProbesEnd(th)
    <3>1. Finish(th, {}) /\ at[th].pc = "probe" /\ todo = <<>>
      BY <2>13 DEF ProbesEnd
    <3>2. job'[th] = NoUnit
      BY <1>0, <2>2, <3>1, LastSays
    <3>3. Explored(mine)
      BY <2>4, <3>1, NothingAhead DEF Explored
    <3>4. Explored(mine)'
      BY <1>0, <2>2, <3>3, ExploredGrows
    <3>. QED  BY <1>0, <2>3, <3>2, <3>4, EndpointsKeep
  <2>. QED  BY <1>2, <2>7, <2>8, <2>9, <2>10, <2>11, <2>12, <2>13 DEF TLSStep
<1>. QED  BY <1>1, <1>2 DEF TlsWork

----------------------------------------------------------------------------
(* A step, whoever takes it. *)

(* An endpoint is no target, and a target no endpoint.                     *)
LEMMA SurfacesDiffer ==
    /\ DOMAIN Files \cup DOMAIN Binaries \cup DOMAIN Images = Targets
    /\ Targets \cap Endpoints = {} /\ Units = Targets \cup Endpoints
    /\ NoUnit \notin Units
BY SurfacesAreApart, CollectConstants DEF Targets

(* The TLS collector leaves the targets alone. *)
LEMMA TlsSpares ==
    ASSUME ProbeInv, TargetsInv, NEW th \in Threads, Grows(th), TlsWork(th),
           over' \subseteq over \cup {job[th]}
    PROVE  TargetsInv'
<1>. PICK mine : mine = job[th]
  OBVIOUS
<1>1. Shapes /\ Stays(th, TlsSteps, Endpoints)
  BY TlsStays DEF ProbeInv, GrammarInv, TlsWork
<1>2. mine \in Endpoints \cup {NoUnit}
  BY <1>1 DEF Stays, ProbeInv, ProbersAtEndpoints
<1>3. job'[th] \in Endpoints \cup {NoUnit}
  BY <1>1, <1>2 DEF Stays
<1>4. AtTarget(th)'
  BY <1>3, SurfacesDiffer DEF AtTarget
<1>5. languages \subseteq languages'
  BY DEF TlsWork, sourceVars
<1>. QED  BY <1>1, <1>2, <1>4, <1>5, SurfacesDiffer, TargetsKeep

(* The other collectors leave the endpoints alone. *)
LEMMA OthersSpare ==
    ASSUME ProbeInv, EndpointsInv, NEW th \in Threads, Grows(th), NEW steps, NEW units,
           Stays(th, steps, units), steps \cap TlsSteps = {}, units \cap Endpoints = {},
           UNCHANGED <<server, changes>>, over' \subseteq over \cup {job[th]}
    PROVE  EndpointsInv'
<1>. PICK mine : mine = job[th]
  OBVIOUS
<1>1. Shapes
  BY DEF ProbeInv, GrammarInv
<1>2. mine \notin Endpoints /\ job'[th] \notin Endpoints
  BY SurfacesDiffer DEF Stays, ProbeInv, ProbersAtEndpoints
<1>. QED  BY <1>1, <1>2, EndpointsKeep

(* Nobody but the source collector has to do with grammars. *)
LEMMA GrammarsSpared ==
    ASSUME GrammarsAreInstalled, UNCHANGED sourceVars
    PROVE  GrammarsAreInstalled' /\ languages \subseteq languages'
BY DEF GrammarsAreInstalled, sourceVars

(* What every step of a thread comes to. *)
LEMMA StepGrows ==
    ASSUME ProbeInv, UnitInv, NEW th \in Threads, CollectStep(th), OwnMove(th)
    PROVE  /\ Grows(th) /\ PoolInv' /\ ItemsOnly' /\ UNCHANGED <<server, changes>>
           /\ over' \subseteq over \cup {job[th]}
<1>1. Shapes /\ PoolInv /\ ItemsOnly
  BY DEF ProbeInv, GrammarInv, UnitInv
<1>2. Grows(th) /\ UNCHANGED <<server, changes>>
  BY <1>1 DEF Grows, PoolInv, CollectStep, NoFault, Fault
<1>. QED  BY <1>1, <1>2, PoolKeeps, CollectMoves

LEMMA WorkKeeps ==
    ASSUME ProbeInv, UnitInv, NEW th \in Threads, Work(th)
    PROVE  UnitInv'
<1>1. /\ Shapes /\ GrammarInv /\ OwnMove(th)
      /\ ItemsOnly /\ PoolInv /\ AtHome /\ GrammarsAreInstalled /\ TargetsInv /\ EndpointsInv
  BY WorkMoves DEF ProbeInv, GrammarInv, UnitInv
<1>2. CollectStep(th)
  BY <1>1, SourceCollects, ElfCollects, ContainerCollects, TlsCollects DEF Work
<1>3. /\ Grows(th) /\ PoolInv' /\ ItemsOnly' /\ UNCHANGED <<server, changes>>
      /\ over' \subseteq over \cup {job[th]}
  BY <1>1, <1>2, StepGrows
<1>4. ASSUME SourceWork(th) PROVE AtHome' /\ GrammarsAreInstalled' /\ TargetsInv' /\ EndpointsInv'
  <2>1. Stays(th, SourceSteps, DOMAIN Files)
    BY <1>1, <1>4, SourceStays DEF SourceWork
  <2>2. AtHome'
    BY <1>1, <1>2, <2>1, HomeKeeps
  <2>3. /\ Here(th, "loaded") => Lang(th) \in languages
        /\ Here(th, "failed") => Lang(th) \notin Installed
    <3>1. job[th] \in Units \cup {NoUnit}
      BY <1>1 DEF Shapes
    <3>2. at[th].pc \in {"loaded", "failed"} /\ job[th] # NoUnit => job[th] \in DOMAIN Files
      BY <1>1, <3>1, SurfacesAreApart DEF AtHome
    <3>. QED  BY <1>1, <3>2 DEF Here, TargetsInv, AtTarget, SourceAt
  <2>4. GrammarsAreInstalled' /\ languages \subseteq languages'
    BY <1>1, <1>4, <2>3, SourceInstalls
  <2>5. TargetsInv'
    BY <1>1, <1>3, <1>4, <2>4, SourceSays
  <2>6. SourceSteps \cap TlsSteps = {} /\ DOMAIN Files \cap Endpoints = {}
    BY SurfacesAreApart DEF SourceSteps, TlsSteps
  <2>. QED  BY <1>1, <1>3, <2>1, <2>2, <2>4, <2>5, <2>6, OthersSpare
<1>5. ASSUME ElfWork(th) PROVE AtHome' /\ GrammarsAreInstalled' /\ TargetsInv' /\ EndpointsInv'
  <2>1. Stays(th, {"binary"}, DOMAIN Binaries) /\ UNCHANGED sourceVars
    BY <1>1, <1>5, ElfStays DEF ElfWork
  <2>2. {"binary"} \cap TlsSteps = {} /\ DOMAIN Binaries \cap Endpoints = {}
    BY SurfacesAreApart DEF TlsSteps
  <2>3. AtHome'
    BY <1>1, <1>2, <2>1, HomeKeeps
  <2>. QED  BY <1>1, <1>3, <1>5, <2>1, <2>2, <2>3, ElfSays, OthersSpare, GrammarsSpared
<1>6. ASSUME ContainerWork(th) PROVE AtHome' /\ GrammarsAreInstalled' /\ TargetsInv' /\ EndpointsInv'
  <2>1. Stays(th, ContainerSteps, DOMAIN Images) /\ UNCHANGED sourceVars
    BY <1>1, <1>6, ContainerStays DEF ContainerWork
  <2>2. ContainerSteps \cap TlsSteps = {} /\ DOMAIN Images \cap Endpoints = {}
    BY SurfacesAreApart DEF ContainerSteps, TlsSteps
  <2>3. AtHome'
    BY <1>1, <1>2, <2>1, HomeKeeps
  <2>. QED  BY <1>1, <1>3, <1>6, <2>1, <2>2, <2>3, ContainerSays, OthersSpare, GrammarsSpared
<1>7. ASSUME TlsWork(th) PROVE AtHome' /\ GrammarsAreInstalled' /\ TargetsInv' /\ EndpointsInv'
  <2>1. Stays(th, TlsSteps, Endpoints) /\ UNCHANGED sourceVars
    BY <1>1, <1>7, TlsStays DEF TlsWork
  <2>2. AtHome'
    BY <1>1, <1>2, <2>1, HomeKeeps
  <2>. QED  BY <1>1, <1>3, <1>7, <2>1, <2>2, TlsSpares, TlsExplores, GrammarsSpared
<1>. QED  BY <1>3, <1>4, <1>5, <1>6, <1>7 DEF Work, UnitInv

(* What is kept of the targets is read off these variables alone.          *)
LEMMA TargetsFrame ==
    ASSUME TargetsInv, UNCHANGED <<job, at, out, over, faults, languages>>
    PROVE  TargetsInv'
<1>1. \A u, x : IsSaid(u, x)' <=> IsSaid(u, x)
  BY DEF IsSaid
<1>2. \A u, ahead : Behind(u, ahead)' <=> Behind(u, ahead)
  BY DEF Behind, Accounted, Errors
<1>3. \A u \in Targets : Told(u)' /\ (u \in over' => Settled(u)')
  BY <1>1, <1>2 DEF TargetsInv, Told, Settled
<1>4. ASSUME NEW th \in Threads PROVE AtTarget(th)'
  <2>. PICK mine, here : mine = job[th] /\ here = at[th]
    OBVIOUS
  <2>1. mine = job'[th] /\ here = at'[th]
    OBVIOUS
  <2>2. AtTarget(th)
    BY DEF TargetsInv
  <2>3. Walking(th)' <=> Walking(th)
    BY <1>2, <2>1 DEF Walking
  <2>4. Layering(th)' <=> Layering(th)
    BY <1>2, <2>1 DEF Layering, Image
  <2>5. InLayer(th)' <=> InLayer(th)
    BY <2>4, <2>1 DEF InLayer, Image
  <2>6. Unpacking(th)' <=> Unpacking(th)
    BY <2>1 DEF Unpacking, Archive, Image
  <2>7. mine \in DOMAIN Files => SourceAt(th)'
    BY <2>1, <2>2, <2>3 DEF AtTarget, SourceAt, Lang, File
  <2>8. mine \in DOMAIN Images => ContainerAt(th)'
    BY <2>1, <2>2, <2>4, <2>5, <2>6 DEF AtTarget, ContainerAt, Image
  <2>. QED  BY <2>1, <2>2, <2>3, <2>7, <2>8 DEF AtTarget
<1>. QED  BY <1>3, <1>4 DEF TargetsInv

(* A server that is set up anew says nothing of what has been reported: it  *)
(* is only that no endpoint is undisturbed any more.                        *)
LEMMA AdminSpares ==
    ASSUME UnitInv, Admin
    PROVE  UnitInv'
<1>1. /\ UNCHANGED <<waiting, job, at, out, over, faults, languages, lock, cached, parser>>
      /\ changes < MaxChanges /\ changes' = changes + 1
  BY DEF Admin, Reconfigure, pool, sourceVars
<1>2. PoolInv' /\ ~Undisturbed'
  BY <1>1, SurfacesAreApart DEF UnitInv, PoolInv, Undisturbed
<1>3. EndpointsInv'
  BY <1>1, <1>2 DEF UnitInv, EndpointsInv, EndpointAt, Explored
<1>4. TargetsInv'
  BY <1>1, TargetsFrame DEF UnitInv
<1>. QED  BY <1>1, <1>2, <1>3, <1>4 DEF UnitInv, ItemsOnly, AtHome, GrammarsAreInstalled

LEMMA StutterSpares ==
    ASSUME UnitInv, UNCHANGED vars
    PROVE  UnitInv'
<1>1. UNCHANGED <<waiting, job, at, out, over, faults, languages, lock, cached, parser, server, changes>>
  BY DEF vars
<1>2. EndpointsInv'
  BY <1>1 DEF UnitInv, EndpointsInv, EndpointAt, Explored, Undisturbed, Errors, Greeted, ProbedBut
<1>3. TargetsInv'
  BY <1>1, TargetsFrame DEF UnitInv
<1>. QED  BY <1>1, <1>2, <1>3 DEF UnitInv, PoolInv, ItemsOnly, AtHome, GrammarsAreInstalled

LEMMA UnitsBegin ==
    ASSUME Init PROVE UnitInv
<1>1. /\ waiting \subseteq Units /\ job = [th \in Threads |-> NoUnit]
      /\ at = [th \in Threads |-> Idle] /\ out = [u \in Units |-> {}] /\ over = {} /\ faults = 0
      /\ changes = 0 /\ NoUnit \notin Units
  BY CollectConstants DEF Init, CollectInit, TLSInit
<1>2. PoolInv /\ ItemsOnly
  BY <1>1, SurfacesAreApart DEF PoolInv, ItemsOnly
<1>3. AtHome /\ \A th \in Threads : AtTarget(th)
  BY <1>1, SurfacesAreApart DEF AtHome, AtTarget
<1>4. GrammarsAreInstalled
  BY DEF Init, SourceInit, GrammarsAreInstalled
<1>5. TargetsInv
  BY <1>1, <1>3 DEF TargetsInv, Told, Targets
<1>6. EndpointsInv
  BY <1>1, SurfacesAreApart DEF EndpointsInv
<1>. QED  BY <1>2, <1>3, <1>4, <1>5, <1>6 DEF UnitInv

(* UnitInv holds in every state: whatever the threads do between two yields *)
(* of a collector, what it has still to read is ahead of it, and what is    *)
(* behind it has been reported, or a failure in its place.                  *)
THEOREM UnitInvariantHolds == Spec => []UnitInv
<1>1. Init => UnitInv
  BY UnitsBegin
<1>2. ProbeInv /\ UnitInv /\ [Next]_vars => UnitInv'
  BY WorkKeeps, AdminSpares, StutterSpares DEF Next
<1>. QED  BY <1>1, <1>2, ProbeInvariant, PTL DEF Spec

(* Every variable of the collectors holds what the code keeps there.        *)
THEOREM CollectorTypes == Spec => []TypeOK
<1>1. ProbeInv /\ UnitInv => TypeOK
  <2>. SUFFICES ASSUME ProbeInv, UnitInv PROVE TypeOK
    OBVIOUS
  <2>1. CollectTypeOK
    BY DEF CollectTypeOK, ProbeInv, GrammarInv, Shapes, UnitInv, PoolInv, ItemsOnly, IsItem
  <2>2. SourceTypeOK
    BY DEF SourceTypeOK, ProbeInv, GrammarInv, SharedShapes, UnitInv, GrammarsAreInstalled
  <2>. QED  BY <2>1, <2>2 DEF TypeOK, ProbeInv, UnitInv, PoolInv
<1>. QED  BY <1>1, ProbeInvariant, UnitInvariantHolds, PTL

----------------------------------------------------------------------------
(* What the answers are worth: from the parts of a target to the target.    *)

LEMMA AnswersAreTrue ==
    ASSUME NEW u \in Targets, NEW items,
           \A x \in items : (\E part \in PartsOf(u) : x \in SaidOf(u, part)) \/ x.kind = "error"
    PROVE  \A x \in items : x.kind = "finding" => x \in InTarget(u)
<1>. DEFINE said == UNION {SaidOf(u, part) : part \in PartsOf(u)}
<1>1. {x \in said : x.kind = "finding"} \subseteq InTarget(u)
  BY TruthIsOfTheParts
<1>2. \A x \in items : x \in said \/ x.kind = "error"
  OBVIOUS
<1>. HIDE DEF said
<1>. QED  BY <1>1, <1>2

LEMMA PlainIsSaid ==
    ASSUME NEW u \in Targets, NEW items, \A part \in PartsOf(u) : SaidOf(u, part) \subseteq items
    PROVE  Truth[u].plain \subseteq items
<1>. DEFINE said == UNION {SaidOf(u, part) : part \in PartsOf(u)}
<1>1. Truth[u].plain \subseteq {x \in said : x.kind = "finding"}
  BY TruthIsOfTheParts
<1>2. said \subseteq items
  OBVIOUS
<1>. HIDE DEF said
<1>. QED  BY <1>1, <1>2

LEMMA WholeIsInSight ==
    ASSUME NEW u \in Targets, NEW items, \A part \in PartsOf(u) : SaidOf(u, part) \subseteq items,
           \A x \in items : x.kind = "finding"
    PROVE  InSight(u) \subseteq items
<1>. DEFINE said == UNION {SaidOf(u, part) : part \in PartsOf(u)}
<1>1. {x \in said : x.kind = "finding"} = said => Truth[u].damaged \subseteq said
  BY TruthIsOfTheParts
<1>2. said \subseteq items
  OBVIOUS
<1>. HIDE DEF said
<1>. QED  BY <1>1, <1>2, PlainIsSaid DEF InSight

LEMMA SoundSaysFacts ==
    ASSUME NEW u \in Targets, Sound(u), NEW part \in PartsOf(u), NEW x \in SaidOf(u, part)
    PROVE  x.kind = "finding"
<1>. DEFINE said == UNION {SaidOf(u, p) : p \in PartsOf(u)}
<1>1. {y \in said : y.kind = "finding"} = said
  BY TruthIsOfTheParts
<1>2. x \in said
  OBVIOUS
<1>. HIDE DEF said
<1>. QED  BY <1>1, <1>2

(* A part that is damaged costs the parts around it nothing: whatever is    *)
(* sound elsewhere in the target is reported, however the threads run,      *)
(* unless an exception ends the unit or the system fails.                   *)
THEOREM DamageIsContained == Spec => []DamageStaysLocal
<1>1. UnitInv => DamageStaysLocal
  BY PlainIsSaid DEF UnitInv, TargetsInv, PoolInv, Settled, Behind, Accounted, DamageStaysLocal
<1>. QED  BY <1>1, UnitInvariantHolds, PTL

(* A target that is whole, and not an OCI archive handed over as a tarball, *)
(* is reported without an error, whatever the other threads and their       *)
(* targets come to.  (Such an archive is: each JSON blob in it is taken for *)
(* a layer that cannot be read, container.py:109-112, 132-134.)             *)
THEOREM IntactStaysQuiet == Spec => []IntactIsQuiet
<1>1. UnitInv => IntactIsQuiet
  <2>. SUFFICES ASSUME UnitInv, NEW u \in Targets, faults = 0, Sound(u) PROVE Errors(u) = {}
    BY DEF IntactIsQuiet
  <2>1. \A x \in out[u] : x.kind = "finding"
    BY SoundSaysFacts DEF UnitInv, TargetsInv, Told, IsSaid
  <2>. QED  BY <2>1 DEF Errors
<1>. QED  BY <1>1, UnitInvariantHolds, PTL

(* If the fragments read the suites, then an endpoint that stays as it is   *)
(* and answers is explored to the end: every version it accepts is found,   *)
(* and the key agreement and the cipher of one of its suites.               *)
THEOREM ProbesGoToTheEnd ==
    ASSUME SuitesAreRead
    PROVE  Spec => []ProbesAreComplete
<1>1. ProbeInv /\ UnitInv => ProbesAreComplete
  <2>. SUFFICES ASSUME ProbeInv, UnitInv, NEW u \in Endpoints, SettledUnit(u)
                PROVE  /\ \A probe \in ToSet(Probes) \ Unsettable :
                             probe[1] = "version" /\ Agreements(server[u], Offer(probe)) # {}
                                => Fact(u, probe) \in out[u]
                       /\ \E agreed \in Agreements(server[u], AnyOffer) :
                             \A part \in agreed.suite.parts \ Digests :
                                Fact(u, <<"suite", part>>) \in out[u]
    BY DEF ProbesAreComplete
  <2>1. Greeted(u) /\ ProbedBut(u, {})
    BY DEF UnitInv, EndpointsInv, Explored, Undisturbed, SettledUnit
  <2>2. \A probe \in ToSet(Probes) \ Unsettable :
           Agreements(server[u], Offer(probe)) # {} => Fact(u, probe) \in out[u]
    BY <2>1 DEF ProbedBut
  <2>3. PICK agreed \in Agreements(server[u], AnyOffer) : HandshakeFacts(u, agreed) \subseteq out[u]
    BY <2>1 DEF Greeted
  <2>4. agreed.suite \in server[u].suites /\ server[u] \in Configurations
    BY <2>3 DEF Agreements, ProbeInv
  <2>5. agreed.suite.parts \ Digests \subseteq SuiteParts[agreed.suite]
    BY <2>4 DEF SuitesAreRead
  <2>6. \A part \in SuiteParts[agreed.suite] : Fact(u, <<"suite", part>>) \in out[u]
    BY <2>3 DEF HandshakeFacts
  <2>. QED  BY <2>2, <2>3, <2>5, <2>6
<1>. QED  BY <1>1, ProbeInvariant, UnitInvariantHolds, PTL

----------------------------------------------------------------------------
(* Collectors implements UnitContract. *)

(* What a unit has said is what the contract lets it say.                   *)
AnswersAsPromised ==
    \A u \in Targets :
        /\ \A x \in out[u] : x.kind = "finding" => x \in InTarget(u)
        /\ u \in over /\ (\A x \in out[u] : x.kind # "error") => InSight(u) \subseteq out[u]

LEMMA UnitsAnswerAsPromised ==
    ASSUME UnitInv PROVE AnswersAsPromised
<1>. SUFFICES ASSUME NEW u \in Targets
              PROVE  /\ \A x \in out[u] : x.kind = "finding" => x \in InTarget(u)
                     /\ u \in over /\ (\A x \in out[u] : x.kind # "error")
                          => InSight(u) \subseteq out[u]
  BY DEF AnswersAsPromised
<1>1. \A x \in out[u] : x.kind = "finding" => x \in InTarget(u)
  BY AnswersAreTrue DEF UnitInv, TargetsInv, Told, IsSaid
<1>2. ASSUME u \in over, \A x \in out[u] : x.kind # "error" PROVE InSight(u) \subseteq out[u]
  <2>1. Errors(u) = {} /\ Trouble("collect", u) \notin out[u]
    BY <1>2, TroublesAreItems DEF Errors
  <2>2. Behind(u, {})
    BY <1>2, <2>1 DEF UnitInv, TargetsInv, Settled
  <2>3. \A part \in PartsOf(u) : SaidOf(u, part) \subseteq out[u]
    BY <2>1, <2>2 DEF Behind, Accounted
  <2>4. \A x \in out[u] : x.kind = "finding"
    BY <1>2 DEF UnitInv, ItemsOnly, IsItem, Targets
  <2>. QED  BY <2>3, <2>4, WholeIsInSight
<1>. QED  BY <1>1, <1>2

(* Every step of a thread is one of the contract, or is about an endpoint.  *)
LEMMA WorkKeepsContract ==
    ASSUME ProbeInv, UnitInv, AnswersAsPromised', NEW th \in Threads, Work(th)
    PROVE  [Contract!Next]_(Contract!contract)
<1>1. /\ Shapes /\ OwnMove(th) /\ AtHome /\ PoolInv
  BY WorkMoves DEF ProbeInv, GrammarInv, UnitInv
<1>2. CollectStep(th)
  BY <1>1, SourceCollects, ElfCollects, ContainerCollects, TlsCollects DEF Work
<1>. PICK mine, next : mine = job[th] /\ next = job'[th]
  OBVIOUS
<1>3. mine \notin waiting \cup over /\ Targets \subseteq Units /\ NoUnit \notin Units
  BY <1>1, CollectConstants DEF PoolInv, Targets
<1>4. \A u \in Targets : out[u] \subseteq out'[u] /\ (u # mine => out'[u] = out[u])
  BY <1>1, <1>3 DEF OwnMove
<1>5. \A u \in Targets : Contract!Found(out'[u]) \subseteq InTarget(u)
  BY DEF AnswersAsPromised, Contract!Found
<1>6. CASE mine = NoUnit /\ next \in waiting /\ out' = out /\ over' = over /\ waiting' = waiting \ {next}
  <2>1. CASE next \in Targets
    <3>1. Contract!TakeUp(next)
      BY <1>6, <2>1 DEF Contract!TakeUp
    <3>. QED  BY <2>1, <3>1 DEF Contract!Next
  <2>2. CASE next \notin Targets
    <3>1. waiting' \cap Targets = waiting \cap Targets
      BY <1>6, <2>2
    <3>. QED  BY <1>6, <3>1 DEF Contract!contract
  <2>. QED  BY <2>1, <2>2
<1>7. CASE mine # NoUnit /\ waiting' = waiting /\ over' = over
  <2>1. CASE mine \in Targets
    <3>1. Contract!Report(mine)
      BY <1>3, <1>4, <1>5, <1>7, <2>1 DEF Contract!Report, Contract!Adds
    <3>. QED  BY <2>1, <3>1 DEF Contract!Next
  <2>2. CASE mine \notin Targets
    <3>1. [u \in Targets |-> out[u]]' = [u \in Targets |-> out[u]]
      BY <1>4, <2>2
    <3>. QED  BY <1>7, <3>1 DEF Contract!contract
  <2>. QED  BY <2>1, <2>2
<1>8. CASE mine # NoUnit /\ waiting' = waiting /\ over' = over \cup {mine}
  <2>1. CASE mine \in Targets
    <3>1. Contract!Quiet(out'[mine]) => InSight(mine) \subseteq out'[mine]
      BY <1>8, <2>1 DEF Contract!Quiet, AnswersAsPromised
    <3>2. Contract!Answer(mine)
      BY <1>3, <1>4, <1>5, <1>8, <2>1, <3>1 DEF Contract!Answer, Contract!Adds
    <3>. QED  BY <2>1, <3>2 DEF Contract!Next
  <2>2. CASE mine \notin Targets
    <3>1. [u \in Targets |-> out[u]]' = [u \in Targets |-> out[u]]
      BY <1>4, <2>2
    <3>2. over' \cap Targets = over \cap Targets
      BY <1>8, <2>2
    <3>. QED  BY <1>8, <3>1, <3>2 DEF Contract!contract
  <2>. QED  BY <2>1, <2>2
<1>. QED  BY <1>1, <1>2, <1>6, <1>7, <1>8, CollectMoves

(* The collectors keep the contract of a unit that a scan goes by: a target *)
(* is answered once, nothing in the answer is invented or taken back, and   *)
(* an answer without an error has all that is in sight.                     *)
THEOREM CollectorsKeepContract == Spec => KeepsUnitContract
<1>1. Init => Contract!Init
  BY CollectConstants DEF Init, CollectInit, Contract!Init, Targets
<1>2. UnitInv => AnswersAsPromised
  BY UnitsAnswerAsPromised
<1>3. ProbeInv /\ UnitInv /\ AnswersAsPromised' /\ [Next]_vars => [Contract!Next]_(Contract!contract)
  <2>1. ASSUME Admin PROVE UNCHANGED Contract!contract
    BY <2>1 DEF Admin, Reconfigure, pool, Contract!contract
  <2>2. ASSUME UNCHANGED vars PROVE UNCHANGED Contract!contract
    BY <2>2 DEF vars, Contract!contract
  <2>. QED  BY <2>1, <2>2, WorkKeepsContract DEF Next
<1>. QED  BY <1>1, <1>2, <1>3, ProbeInvariant, UnitInvariantHolds, PTL
          DEF Spec, KeepsUnitContract, Contract!Spec
----------------------------------------------------------------------------
(* Why a unit ends: every step of a thread brings it closer.                *)

LEMMA ListShrinks ==
    ASSUME NEW S, NEW list \in Seq(S), list # <<>>
    PROVE  Shorter(Tail(list), list)
<1>1. Len(list) \in Nat /\ Len(list) # 0
  BY EmptySeq
<1>2. Len(Tail(list)) = Len(list) - 1
  BY <1>1
<1>. QED  BY <1>1, <1>2 DEF Shorter

LEMMA StartAdvances ==
    ASSUME Shapes, NEW th \in Threads, NEW u \in waiting, NEW locals, Start(th, u, locals)
    PROVE  UnitAdvances(th)
BY DEF Start, Shapes, UnitAdvances

LEMMA LeaveAdvances ==
    ASSUME Shapes, PoolInv, NEW th \in Threads, NEW items,
           Finish(th, items) \/ Raise(th, items), job[th] # NoUnit
    PROVE  UnitAdvances(th)
BY DEF Finish, Raise, Leave, Shapes, PoolInv, UnitAdvances

LEMMA ElfAdvances ==
    ASSUME Shapes, PoolInv, AtHome, TargetsInv, NEW th \in Threads, ElfWork(th)
    PROVE  UnitAdvances(th)
<1>1. ASSUME NEW u \in waiting, StartELF(th, u) PROVE UnitAdvances(th)
  BY <1>1, StartAdvances DEF StartELF
<1>2. ASSUME ELFStep(th) PROVE UnitAdvances(th)
  <2>1. at[th].pc = "binary"
    BY <1>2 DEF ELFStep, ScanFile, OpenFileFails, BinariesEnd
  <2>2. job[th] \in DOMAIN Binaries /\ job[th] # NoUnit
    BY <2>1, SurfacesAreApart, CollectConstants DEF Shapes, AtHome, SourceSteps, Idle
  <2>3. at[th].todo \in Seq(PartsOf(job[th]))
    BY <2>2 DEF TargetsInv, AtTarget, Walking
  <2>4. CASE ScanFile(th) \/ OpenFileFails(th)
    <3>1. at[th].todo # <<>> /\ \E items : Yield(th, items, NextBinary(th))
      BY <2>4 DEF ScanFile, OpenFileFails
    <3>2. at'[th] = NextBinary(th) /\ job'[th] = job[th]
      BY <3>1, YieldMoves DEF NextBinary
    <3>3. Shorter(at'[th].todo, at[th].todo)
      BY <2>3, <3>1, <3>2, ListShrinks DEF NextBinary
    <3>. QED  BY <2>2, <3>2, <3>3, SurfacesAreApart DEF UnitAdvances, WalkAdvances
  <2>5. CASE BinariesEnd(th)
    BY <2>2, <2>5, LeaveAdvances DEF BinariesEnd
  <2>. QED  BY <1>2, <2>4, <2>5 DEF ELFStep
<1>. QED  BY <1>1, <1>2 DEF ElfWork

LEMMA ContainersAdvance ==
    ASSUME Shapes, PoolInv, AtHome, TargetsInv, NEW th \in Threads, ContainerWork(th)
    PROVE  UnitAdvances(th)
<1>1. ASSUME NEW u \in waiting, StartContainer(th, u) PROVE UnitAdvances(th)
  BY <1>1, StartAdvances DEF StartContainer
<1>2. ASSUME ContainerStep(th) PROVE UnitAdvances(th)
  <2>1. at[th].pc \in {"open", "layer", "member"}
    BY <1>2 DEF ContainerStep, OpenImage, OpenImageFails, ListingRaises, LayersEnd, LayerMissing,
                BlobIsNoFile, BlobIsNoArchive, OpenLayer, BlobIs, AtLayer, ReadMember,
                TempFileFails, AtMember, ArchiveEnds, LayerTorn, ImageRaises, AtEnd
  <2>2. job[th] \in DOMAIN Images /\ job[th] # NoUnit
    BY <2>1, SurfacesAreApart, CollectConstants DEF Shapes, AtHome, SourceSteps, Idle
  <2>3. ContainerAt(th) /\ DOMAIN at[th] = {"pc", "layers", "open", "members"}
    BY <2>2 DEF TargetsInv, AtTarget, ContainerAt
  <2>4. ASSUME job'[th] = job[th], ContainerAdvances(th)
        PROVE  UnitAdvances(th)
    BY <2>2, <2>4, SurfacesAreApart DEF UnitAdvances
  <2>5. ASSUME NEW items, Yield(th, items, NextLayer(th)), Layering(th), at[th].layers # <<>>,
               at[th].pc # "open"
        PROVE  UnitAdvances(th)
    <3>1. NextLayer(th).pc = "layer" /\ NextLayer(th).layers = Tail(at[th].layers)
      BY <2>3 DEF NextLayer
    <3>2. "pc" \in DOMAIN NextLayer(th)
      BY <2>3 DEF NextLayer
    <3>3. at'[th] = NextLayer(th) /\ job'[th] = job[th]
      BY <2>5, <3>2, YieldMoves
    <3>4. Shorter(at'[th].layers, at[th].layers)
      BY <2>5, <3>1, <3>3, ListShrinks DEF Layering
    <3>. QED  BY <2>4, <2>5, <3>1, <3>3, <3>4 DEF ContainerAdvances
  <2>6. CASE OpenImage(th)
    <3>. DEFINE layers == LayersOf(Image(th))
                plain == ~Layout(th) /\ layers = <<>>
                locals == [at[th] EXCEPT !.pc = IF plain THEN "member" ELSE "layer",
                                         !.layers = layers,
                                         !.members = IF plain THEN Readable(Image(th).files)
                                                     ELSE <<>>]
    <3>1. Resume(th, locals) /\ at[th].pc = "open"
      BY <2>6 DEF OpenImage
    <3>2. "pc" \in DOMAIN locals /\ locals.pc # "open"
      BY <2>3
    <3>. HIDE DEF locals
    <3>3. at'[th] = locals /\ job'[th] = job[th]
      BY <3>1, <3>2, YieldMoves DEF Resume
    <3>. QED  BY <2>4, <3>1, <3>2, <3>3 DEF ContainerAdvances
  <2>7. CASE OpenImageFails(th) \/ LayersEnd(th) \/ ListingRaises(th) \/ TempFileFails(th)
             \/ ImageRaises(th)
    BY <2>2, <2>7, LeaveAdvances
       DEF OpenImageFails, LayersEnd, ListingRaises, TempFileFails, ImageRaises
  <2>8. CASE LayerMissing(th) \/ BlobIsNoFile(th) \/ BlobIsNoArchive(th)
    <3>1. at[th].pc = "layer" /\ at[th].layers # <<>> /\ \E items : Yield(th, items, NextLayer(th))
      BY <2>8 DEF LayerMissing, BlobIsNoFile, BlobIsNoArchive, BlobIs, AtLayer, Resume
    <3>2. Layering(th)
      BY <2>3, <3>1 DEF ContainerAt
    <3>. QED  BY <2>5, <3>1, <3>2
  <2>9. CASE OpenLayer(th)
    <3>. DEFINE layer == Head(at[th].layers)
                locals == [at[th] EXCEPT !.pc = "member", !.open = layer,
                                         !.members = Readable(Image(th).blobs[layer])]
    <3>1. Resume(th, locals) /\ at[th].pc = "layer"
      BY <2>9 DEF OpenLayer, BlobIs, AtLayer
    <3>2. "pc" \in DOMAIN locals /\ locals.pc = "member" /\ locals.layers = at[th].layers
      BY <2>3
    <3>. HIDE DEF locals
    <3>3. at'[th] = locals /\ job'[th] = job[th]
      BY <3>1, <3>2, YieldMoves DEF Resume
    <3>. QED  BY <2>4, <3>1, <3>2, <3>3 DEF ContainerAdvances
  <2>10. CASE ReadMember(th)
    <3>. DEFINE locals == [at[th] EXCEPT !.members = Tail(@)]
    <3>1. (\E items : Yield(th, items, locals)) /\ at[th].pc = "member" /\ at[th].members # <<>>
      BY <2>10 DEF ReadMember, AtMember
    <3>2. /\ "pc" \in DOMAIN locals /\ locals.pc = "member" /\ locals.layers = at[th].layers
          /\ locals.members = Tail(at[th].members)
      BY <2>3, <3>1
    <3>. HIDE DEF locals
    <3>3. at'[th] = locals /\ job'[th] = job[th]
      BY <3>1, <3>2, YieldMoves
    <3>4. Shorter(at'[th].members, at[th].members)
      BY <2>3, <3>1, <3>2, <3>3, ListShrinks DEF ContainerAt, Unpacking
    <3>. QED  BY <2>4, <3>1, <3>2, <3>3, <3>4 DEF ContainerAdvances
  <2>11. ASSUME at[th].pc = "member", at[th].open # NoLayer
         PROVE  Layering(th) /\ at[th].layers # <<>>
    BY <2>3, <2>11 DEF ContainerAt, InLayer
  <2>12. CASE ArchiveEnds(th)
    <3>1. at[th].pc = "member"
      BY <2>12 DEF ArchiveEnds, AtEnd
    <3>2. CASE at[th].open = NoLayer
      BY <2>2, <2>12, <3>2, LeaveAdvances DEF ArchiveEnds
    <3>3. CASE at[th].open # NoLayer
      BY <2>5, <2>11, <2>12, <3>1, <3>3 DEF ArchiveEnds, Resume
    <3>. QED  BY <3>2, <3>3
  <2>13. CASE LayerTorn(th)
    BY <2>5, <2>11, <2>13 DEF LayerTorn, AtEnd, Contained
  <2>. QED  BY <1>2, <2>6, <2>7, <2>8, <2>9, <2>10, <2>12, <2>13 DEF ContainerStep
<1>. QED  BY <1>1, <1>2 DEF ContainerWork

LEMMA TlsAdvances ==
    ASSUME Shapes, PoolInv, AtHome, EndpointsInv, NEW th \in Threads, TlsWork(th)
    PROVE  UnitAdvances(th)
<1>1. ASSUME NEW u \in waiting, StartTLS(th, u) PROVE UnitAdvances(th)
  BY <1>1, StartAdvances DEF StartTLS
<1>2. ASSUME TLSStep(th) PROVE UnitAdvances(th)
  <2>1. at[th].pc \in {"handshake", "probe"}
    BY <1>2 DEF TLSStep, Handshake, KeyUnsupported, HandshakeRefused, HandshakeTimesOut,
                ProbeAccepted, ProbeRefused, ProbeTimesOut, ProbesEnd, Probing
  <2>2. job[th] \in Endpoints /\ job[th] # NoUnit
    BY <2>1, SurfacesAreApart, CollectConstants DEF Shapes, AtHome, SourceSteps, Idle
  <2>3. ASSUME job'[th] = job[th], ProbesAdvance(th)
        PROVE  UnitAdvances(th)
    BY <2>2, <2>3, SurfacesAreApart DEF UnitAdvances
  <2>4. CASE Handshake(th)
    <3>. DEFINE locals == [pc |-> "probe", todo |-> Probes]
    <3>1. (\E items : Yield(th, items, locals)) /\ at[th].pc = "handshake"
      BY <2>4 DEF Handshake
    <3>2. "pc" \in DOMAIN locals /\ locals.pc = "probe"
      OBVIOUS
    <3>. HIDE DEF locals
    <3>3. at'[th] = locals /\ job'[th] = job[th]
      BY <3>1, <3>2, YieldMoves
    <3>. QED  BY <2>3, <3>1, <3>2, <3>3 DEF ProbesAdvance
  <2>5. CASE KeyUnsupported(th) \/ HandshakeRefused(th) \/ HandshakeTimesOut(th) \/ ProbesEnd(th)
    BY <2>2, <2>5, LeaveAdvances
       DEF KeyUnsupported, HandshakeRefused, HandshakeTimesOut, ProbesEnd
  <2>6. CASE ProbeAccepted(th) \/ ProbeRefused(th) \/ ProbeTimesOut(th)
    <3>1. Probing(th) /\ \E items : Yield(th, items, NextProbe(th))
      BY <2>6 DEF ProbeAccepted, ProbeRefused, ProbeTimesOut, AfterRefusal, Resume
    <3>2. /\ at[th].pc = "probe" /\ at[th].todo # <<>>
          /\ DOMAIN at[th] = {"pc", "todo"} /\ at[th].todo \in Seq(ToSet(Probes))
      BY <2>2, <3>1 DEF Probing, EndpointsInv, EndpointAt
    <3>3. /\ "pc" \in DOMAIN NextProbe(th) /\ NextProbe(th).pc = "probe"
          /\ NextProbe(th).todo = Tail(at[th].todo)
      BY <3>2 DEF NextProbe
    <3>4. at'[th] = NextProbe(th) /\ job'[th] = job[th]
      BY <3>1, <3>3, YieldMoves
    <3>5. Shorter(at'[th].todo, at[th].todo)
      BY <3>2, <3>3, <3>4, ListShrinks
    <3>. QED  BY <2>3, <3>2, <3>3, <3>4, <3>5 DEF ProbesAdvance
  <2>. QED  BY <1>2, <2>4, <2>5, <2>6 DEF TLSStep
<1>. QED  BY <1>1, <1>2 DEF TlsWork

(* What the collectors but one leave of the lock and of the caches.         *)
LEMMA OthersKeepLock ==
    ASSUME LockIsWorked, FetchesAreNew, AtHome, NEW th \in Threads, NEW steps, NEW units,
           Stays(th, steps, units), steps \cap SourceSteps = {}, UNCHANGED sourceVars
    PROVE  LockIsWorked' /\ FetchesAreNew'
<1>1. UNCHANGED <<lock, cached>>
  BY DEF sourceVars
<1>2. \A t \in Threads \ {th} : job'[t] = job[t] /\ at'[t] = at[t]
  BY DEF Stays, OwnMove
<1>3. job[th] # NoUnit => at[th].pc \notin Holding
  BY DEF Stays, SourceSteps, Holding
<1>4. at'[th].pc \notin Fetching
  BY DEF Stays, SourceSteps, Fetching, Holding, Idle
<1>5. LockIsWorked'
  BY <1>1, <1>2, <1>3 DEF LockIsWorked
<1>. QED  BY <1>1, <1>2, <1>4, <1>5 DEF FetchesAreNew, Lang, File

(* A step of the source collector that leaves the other threads and their   *)
(* caches alone and does with the lock what its place in the turn says.     *)
LEMMA OwnTurn ==
    ASSUME LockIsWorked, FetchesAreNew, NEW th \in Threads, OwnMove(th),
           \A t \in Threads \ {th} : cached'[t] = cached[t],
           \/ lock' = lock /\ (Here(th, at[th].pc) /\ at[th].pc \in Holding
                                => job'[th] # NoUnit /\ at'[th].pc \in Holding)
           \/ lock' = NoThread
           \/ lock' = th /\ job'[th] # NoUnit /\ at'[th].pc \in Holding,
           at'[th].pc \in Fetching => Head(at'[th].todo).language \notin cached'[th]
    PROVE  LockIsWorked' /\ FetchesAreNew'
<1>1. \A t \in Threads \ {th} : job'[t] = job[t] /\ at'[t] = at[t]
  BY DEF OwnMove
<1>2. LockIsWorked'
  BY <1>1 DEF LockIsWorked, Here
<1>3. ASSUME NEW t \in Threads, at'[t].pc \in Fetching PROVE Lang(t)' \notin cached'[t]
  BY <1>1, <1>3 DEF FetchesAreNew, Lang, File
<1>. QED  BY <1>2, <1>3 DEF FetchesAreNew

LEMMA SourceAdvancesAll ==
    ASSUME ProbeInv, UnitInv, LockIsWorked, FetchesAreNew, NEW th \in Threads, SourceWork(th)
    PROVE  UnitAdvances(th) /\ LockIsWorked' /\ FetchesAreNew'
<1>1. /\ Shapes /\ GrammarInv /\ PoolInv /\ AtHome /\ OwnMove(th)
      /\ cached \in [Threads -> SUBSET Languages]
  BY WorkMoves DEF ProbeInv, GrammarInv, UnitInv, GrammarsAreInstalled, Work
<1>2. ASSUME NEW u \in waiting, StartSource(th, u)
      PROVE  UnitAdvances(th) /\ LockIsWorked' /\ FetchesAreNew'
  <2>1. job[th] = NoUnit /\ at'[th].pc = "file" /\ UNCHANGED <<lock, cached>>
    BY <1>1, <1>2, StartMoves DEF StartSource, grammars, parsers
  <2>2. LockIsWorked' /\ FetchesAreNew'
    BY <1>1, <2>1, OwnTurn DEF Fetching, Holding, Here
  <2>. QED  BY <1>1, <1>2, <2>2, StartAdvances DEF StartSource
<1>3. ASSUME SourceStep(th)
      PROVE  UnitAdvances(th) /\ LockIsWorked' /\ FetchesAreNew'
  <2>. PICK here, todo : here = at[th].pc /\ todo = at[th].todo
    OBVIOUS
  <2>1. here \in SourceSteps /\ job[th] # NoUnit
    BY <1>3 DEF SourceStep, WalkEnds, PassOver, UseParser, NeedParser, AtFile, GrammarThere,
                GrammarMissing, Acquire, LoadedMeanwhile, LookAgain, LoadGrammar, LoadFails,
                ReleaseAndKeep, ReleaseAndGiveUp, ReadFile, ReadFails, ParseFile, ParseFails, Here,
                SourceSteps
  <2>2. job[th] \in DOMAIN Files /\ job[th] \notin DOMAIN Binaries \cup DOMAIN Images \cup Endpoints
    BY <1>1, <2>1, SurfacesAreApart, CollectConstants DEF Shapes, AtHome, SourceSteps
  <2>3. SourceAt(th) /\ todo \in Seq(PartsOf(job[th]))
    BY <2>2 DEF UnitInv, TargetsInv, AtTarget, SourceAt, Walking
  <2>4. ASSUME job'[th] = job[th], SourceAdvances(th) PROVE UnitAdvances(th)
    BY <2>1, <2>2, <2>4 DEF UnitAdvances
  <2>5. ASSUME NEW items, Yield(th, items, NextFile(th)), here \notin Holding,
               todo # <<>>, UNCHANGED <<lock, cached>>
        PROVE  UnitAdvances(th) /\ LockIsWorked' /\ FetchesAreNew'
    <3>1. at'[th] = NextFile(th) /\ job'[th] = job[th]
      BY <1>1, <2>5, YieldMoves DEF NextFile
    <3>2. at'[th].pc = "file" /\ at'[th].todo = Tail(todo)
      BY <3>1 DEF NextFile
    <3>3. UnitAdvances(th)
      BY <2>3, <2>4, <2>5, <3>1, <3>2, ListShrinks DEF SourceAdvances
    <3>. QED  BY <1>1, <2>5, <3>2, <3>3, OwnTurn DEF Fetching, Holding
  <2>6. ASSUME NEW pc \in SourceSteps, Resume(th, Goto(th, pc)), Turn[here] < Turn[pc],
               UNCHANGED cached,
               \/ lock' = lock /\ (here \in Holding => pc \in Holding)
               \/ lock' = th /\ pc \in Holding,
               pc \in Fetching => Lang(th) \notin cached[th]
        PROVE  UnitAdvances(th) /\ LockIsWorked' /\ FetchesAreNew'
    <3>1. at'[th] = Goto(th, pc) /\ job'[th] = job[th]
      BY <1>1, <2>6, YieldMoves DEF Resume, Goto
    <3>2. at'[th].pc = pc /\ at'[th].todo = todo
      BY <3>1 DEF Goto
    <3>3. UnitAdvances(th)
      BY <2>4, <2>6, <3>1, <3>2 DEF SourceAdvances
    <3>4. pc \in Fetching => Head(at'[th].todo).language \notin cached'[th]
      BY <2>6, <3>2 DEF Lang, File
    <3>. QED  BY <1>1, <2>1, <2>6, <3>1, <3>2, <3>3, <3>4, OwnTurn
  <2>7. ASSUME NEW handle, Keep(th, handle), here \in Fetching,
               lock' = NoThread \/ (lock' = lock /\ here \notin Holding)
        PROVE  UnitAdvances(th) /\ LockIsWorked' /\ FetchesAreNew'
    <3>1. at'[th] = Goto(th, "file") /\ job'[th] = job[th]
      BY <1>1, <2>7, YieldMoves DEF Keep, Resume, Goto
    <3>2. at'[th].pc = "file" /\ at'[th].todo = todo
      BY <3>1 DEF Goto
    <3>3. cached' = [cached EXCEPT ![th] = @ \cup {Lang(th)}] /\ Lang(th) \notin cached[th]
      BY <2>7 DEF Keep, Owner, FetchesAreNew
    <3>4. /\ cached[th] \subseteq cached'[th] /\ cached'[th] # cached[th]
          /\ \A t \in Threads \ {th} : cached'[t] = cached[t]
      BY <1>1, <3>3
    <3>5. UnitAdvances(th)
      BY <2>4, <3>1, <3>2, <3>4 DEF SourceAdvances
    <3>. QED  BY <1>1, <2>7, <3>2, <3>4, <3>5, OwnTurn DEF Fetching, Holding
  <2>8. \A pc : Here(th, pc) => pc = here
    BY DEF Here
  <2>9. here \in Fetching => Lang(th) \notin cached[th]
    BY DEF FetchesAreNew
  <2>10. here # "file" => todo # <<>>
    BY <2>3 DEF SourceAt
  <2>11. CASE WalkEnds(th)
    <3>1. job'[th] = NoUnit /\ at'[th] = Idle /\ UNCHANGED <<lock, cached>> /\ here = "file"
      BY <1>1, <2>8, <2>11, FinishMoves DEF WalkEnds, grammars, parsers
    <3>2. LockIsWorked' /\ FetchesAreNew'
      <4>1. at'[th].pc \notin Fetching /\ at[th].pc \notin Holding
        BY <3>1 DEF Fetching, Holding, Idle
      <4>. QED  BY <1>1, <3>1, <4>1, OwnTurn
    <3>3. Finish(th, {})
      BY <2>11 DEF WalkEnds
    <3>4. UnitAdvances(th)
      BY <1>1, <2>1, <3>3, LeaveAdvances
    <3>. QED  BY <3>2, <3>4
  <2>12. CASE PassOver(th) \/ ReadFails(th) \/ ParseFile(th) \/ ParseFails(th)
    <3>1. /\ here \in {"file", "read", "parse"} /\ todo # <<>>
          /\ UNCHANGED <<lock, cached>> /\ \E items : Yield(th, items, NextFile(th))
      BY <2>8, <2>10, <2>12 DEF PassOver, ReadFails, ParseFile, ParseFails, Resume, grammars, parsers
    <3>. QED  BY <2>5, <3>1 DEF Holding
  <2>13. CASE UseParser(th)
    <3>1. here = "file" /\ todo # <<>> /\ UNCHANGED <<lock, cached>>
      BY <2>8, <2>13 DEF UseParser, AtFile, grammars, parsers
    <3>2. Resume(th, Goto(th, "read")) \/ \E items : Yield(th, items, NextFile(th))
      BY <2>13 DEF UseParser
    <3>3. "read" \in SourceSteps \ Fetching /\ Turn[here] < Turn["read"] /\ here \notin Holding
      BY <3>1 DEF SourceSteps, Turn, Fetching, Holding
    <3>4. CASE Resume(th, Goto(th, "read"))
      BY <2>6, <3>1, <3>3, <3>4
    <3>5. CASE \E items : Yield(th, items, NextFile(th))
      BY <2>5, <3>1, <3>3, <3>5
    <3>. QED  BY <3>2, <3>4, <3>5
  <2>14. CASE NeedParser(th) \/ GrammarMissing(th)
    <3>1. PICK pc \in {"grammar", "acquire"} :
             /\ here = (IF pc = "grammar" THEN "file" ELSE "grammar")
             /\ Resume(th, Goto(th, pc)) /\ UNCHANGED <<lock, cached>>
             /\ Lang(th) \notin cached[th]
      BY <2>8, <2>9, <2>14 DEF NeedParser, AtFile, GrammarMissing, Owner, Fetching, grammars, parsers
    <3>2. pc \in SourceSteps /\ Turn[here] < Turn[pc] /\ here \notin Holding
      BY <3>1 DEF SourceSteps, Turn, Holding
    <3>. QED  BY <2>6, <3>1, <3>2
  <2>15. CASE Acquire(th)
    <3>1. here = "acquire" /\ Resume(th, Goto(th, "locked")) /\ lock' = th /\ UNCHANGED cached
      BY <2>8, <2>15 DEF Acquire, parsers
    <3>2. /\ "locked" \in SourceSteps /\ "locked" \in Holding /\ Turn["acquire"] < Turn["locked"]
          /\ here \in Fetching
      BY <3>1 DEF SourceSteps, Turn, Holding, Fetching
    <3>. QED  BY <2>6, <2>9, <3>1, <3>2
  <2>16. CASE LoadedMeanwhile(th) \/ LookAgain(th) \/ LoadGrammar(th) \/ LoadFails(th)
    <3>1. PICK pc \in {"loaded", "loading", "failed"} :
             /\ here \in {"locked", "loading"} /\ (here = "loading" => pc # "loading")
             /\ Resume(th, Goto(th, pc)) /\ UNCHANGED <<lock, cached>>
      BY <2>8, <2>16 DEF LoadedMeanwhile, LookAgain, LoadGrammar, LoadFails, grammars, parsers
    <3>2. /\ pc \in SourceSteps /\ pc \in Holding /\ Turn[here] < Turn[pc]
          /\ here \in Fetching
      BY <3>1 DEF SourceSteps, Turn, Holding, Fetching
    <3>. QED  BY <2>6, <2>9, <3>1, <3>2
  <2>17. CASE GrammarThere(th)
    BY <2>7, <2>8, <2>17 DEF GrammarThere, KeepNewParser, grammars, Fetching, Holding
  <2>18. CASE ReleaseAndKeep(th) \/ ReleaseAndGiveUp(th)
    BY <2>7, <2>8, <2>18
       DEF ReleaseAndKeep, ReleaseAndGiveUp, KeepNewParser, KeepNone, FreedByWith, Fetching, Holding
  <2>19. CASE ReadFile(th)
    <3>1. here = "read" /\ Resume(th, Goto(th, "parse")) /\ UNCHANGED <<lock, cached>>
      BY <2>8, <2>19 DEF ReadFile, grammars, parsers
    <3>2. "parse" \in SourceSteps \ Fetching /\ Turn["read"] < Turn["parse"]
      BY DEF SourceSteps, Turn, Fetching, Holding
    <3>. QED  BY <2>6, <3>1, <3>2 DEF Holding
  <2>. QED  BY <1>3, <2>11, <2>12, <2>13, <2>14, <2>15, <2>16, <2>17, <2>18, <2>19 DEF SourceStep
<1>. QED  BY <1>2, <1>3 DEF SourceWork

LEMMA WorkAdvances ==
    ASSUME ProbeInv, UnitInv, LockIsWorked, FetchesAreNew, NEW th \in Threads, Work(th)
    PROVE  UnitAdvances(th) /\ LockIsWorked' /\ FetchesAreNew'
<1>1. Shapes /\ PoolInv /\ AtHome /\ TargetsInv /\ EndpointsInv
  BY DEF ProbeInv, GrammarInv, UnitInv
<1>2. CASE SourceWork(th)
  BY <1>2, SourceAdvancesAll
<1>3. CASE ElfWork(th)
  <2>1. Stays(th, {"binary"}, DOMAIN Binaries) /\ UNCHANGED sourceVars
    BY <1>1, <1>3, ElfStays DEF ElfWork
  <2>2. {"binary"} \cap SourceSteps = {}
    BY DEF SourceSteps
  <2>. QED  BY <1>1, <1>3, <2>1, <2>2, ElfAdvances, OthersKeepLock
<1>4. CASE ContainerWork(th)
  <2>1. Stays(th, ContainerSteps, DOMAIN Images) /\ UNCHANGED sourceVars
    BY <1>1, <1>4, ContainerStays DEF ContainerWork
  <2>2. ContainerSteps \cap SourceSteps = {}
    BY DEF ContainerSteps, SourceSteps
  <2>. QED  BY <1>1, <1>4, <2>1, <2>2, ContainersAdvance, OthersKeepLock
<1>5. CASE TlsWork(th)
  <2>1. Stays(th, TlsSteps, Endpoints) /\ UNCHANGED sourceVars
    BY <1>1, <1>5, TlsStays DEF TlsWork
  <2>2. TlsSteps \cap SourceSteps = {}
    BY DEF TlsSteps, SourceSteps
  <2>. QED  BY <1>1, <1>5, <2>1, <2>2, TlsAdvances, OthersKeepLock
<1>. QED  BY <1>2, <1>3, <1>4, <1>5 DEF Work

(* Another thread's step is none of this one's, nor is a server's.          *)
LEMMA OthersStand ==
    ASSUME ProbeInv, UnitInv, LockIsWorked, FetchesAreNew, NEW th \in Threads, NEW t \in Threads,
           t # th, Work(th)
    PROVE  UNCHANGED <<job[t], at[t], cached[t]>>
<1>1. OwnMove(th) /\ cached \in [Threads -> SUBSET Languages]
  BY WorkMoves DEF ProbeInv, UnitInv, GrammarsAreInstalled
<1>2. cached'[t] = cached[t]
  <2>1. CASE SourceWork(th)
    <3>1. \/ UNCHANGED cached
          \/ \E handle : Keep(th, handle)
      BY <2>1 DEF SourceWork, StartSource, SourceStep, WalkEnds, PassOver, UseParser, NeedParser,
                  GrammarThere, GrammarMissing, Acquire, LoadedMeanwhile, LookAgain, LoadGrammar,
                  LoadFails, ReleaseAndKeep, ReleaseAndGiveUp, ReadFile, ReadFails, ParseFile,
                  ParseFails, KeepNewParser, KeepNone, parsers
    <3>. QED  BY <1>1, <3>1 DEF Keep, Owner
  <2>2. CASE ElfWork(th) \/ ContainerWork(th) \/ TlsWork(th)
    BY <2>2 DEF ElfWork, ContainerWork, TlsWork, sourceVars
  <2>. QED  BY <2>1, <2>2 DEF Work
<1>. QED  BY <1>1, <1>2 DEF OwnMove

(* The lock around the grammars is always in the hands of a thread that is  *)
(* at work under it, whatever grammars are missing: nobody waits in a       *)
(* circle, and no exception leaves the lock behind.                         *)
THEOREM LocksAreWorked == Spec => []LockIsWorked
<1>1. Init => LockIsWorked /\ FetchesAreNew
  BY DEF Init, CollectInit, SourceInit, LockIsWorked, FetchesAreNew, Fetching, Holding, Idle
<1>2. ProbeInv /\ UnitInv /\ LockIsWorked /\ FetchesAreNew /\ [Next]_vars
        => LockIsWorked' /\ FetchesAreNew'
  <2>1. ASSUME LockIsWorked, FetchesAreNew, Admin \/ UNCHANGED vars
        PROVE  LockIsWorked' /\ FetchesAreNew'
    <3>1. UNCHANGED <<job, at, lock, cached>>
      BY <2>1 DEF Admin, Reconfigure, pool, sourceVars, vars
    <3>. QED  BY <2>1, <3>1 DEF LockIsWorked, FetchesAreNew, Lang, File
  <2>. QED  BY <2>1, WorkAdvances DEF Next
<1>. QED  BY <1>1, <1>2, ProbeInvariant, UnitInvariantHolds, PTL DEF Spec

(* Every step of a thread brings its unit closer to its end, and nothing    *)
(* that happens elsewhere takes that back.                                  *)
THEOREM UnitsAdvanceAlways == Spec => UnitsAdvance
<1>1. Init => LockIsWorked /\ FetchesAreNew
  BY DEF Init, CollectInit, SourceInit, LockIsWorked, FetchesAreNew, Fetching, Holding, Idle
<1>2. ProbeInv /\ UnitInv /\ LockIsWorked /\ FetchesAreNew /\ [Next]_vars
        => /\ LockIsWorked' /\ FetchesAreNew'
           /\ [\A th \in Threads :
                 /\ Work(th) => UnitAdvances(th)
                 /\ UnitAdvances(th) \/ UNCHANGED <<job[th], at[th], cached[th]>>]_vars
  <2>. SUFFICES ASSUME ProbeInv, UnitInv, LockIsWorked, FetchesAreNew, [Next]_vars
                PROVE  /\ LockIsWorked' /\ FetchesAreNew'
                       /\ \A th \in Threads :
                            /\ ~UNCHANGED vars /\ Work(th) => UnitAdvances(th)
                            /\ UnitAdvances(th) \/ UNCHANGED <<job[th], at[th], cached[th]>>
    OBVIOUS
  <2>1. ASSUME Admin \/ UNCHANGED vars
        PROVE  /\ LockIsWorked' /\ FetchesAreNew'
               /\ \A th \in Threads : UNCHANGED <<job[th], at[th], cached[th]>>
    <3>1. UNCHANGED <<job, at, lock, cached>>
      BY <2>1 DEF Admin, Reconfigure, pool, sourceVars, vars
    <3>. QED  BY <3>1 DEF LockIsWorked, FetchesAreNew, Lang, File
  <2>. QED  BY <2>1, WorkAdvances, OthersStand DEF Next
<1>. QED  BY <1>1, <1>2, ProbeInvariant, UnitInvariantHolds, PTL DEF Spec, UnitsAdvance

----------------------------------------------------------------------------
(* Where the silence of an answer can be trusted.                          *)

(* Nothing is lost without the collector being able to tell.               *)
NothingIsSilent == \A u \in Targets : Truth[u].silent = {}

(* QuietMeansComplete does not hold of every target; what it takes is that  *)
(* no loss is of the kind that collectors cannot see: then an answer        *)
(* without an error is all that is in the target, whatever the threads and  *)
(* the failures of the system come to (base.py:1-8).                        *)
THEOREM QuietCanBeTrusted ==
    ASSUME NothingIsSilent
    PROVE  Spec => []QuietMeansComplete
<1>1. UnitInv => QuietMeansComplete
  <2>. SUFFICES ASSUME UnitInv, NEW u \in Targets, QuietAnswer(u) PROVE InTarget(u) \subseteq out[u]
    BY DEF QuietMeansComplete
  <2>1. \A x \in out[u] : x.kind # "error"
    BY DEF QuietAnswer, Errors
  <2>2. InSight(u) \subseteq out[u]
    BY <2>1, UnitsAnswerAsPromised DEF AnswersAsPromised, QuietAnswer
  <2>. QED  BY <2>2 DEF NothingIsSilent, InTarget, InSight
<1>. QED  BY <1>1, UnitInvariantHolds, PTL
=============================================================================
