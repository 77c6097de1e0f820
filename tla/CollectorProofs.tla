--------------------------- MODULE CollectorProofs ---------------------------
(***************************************************************************)
(* Theorems about Collectors, for any number of threads, languages and     *)
(* targets: what the lock around the grammars gives, what a thread needs   *)
(* to keep to itself, and that what is reported of an endpoint was agreed  *)
(* on in a handshake.                                                      *)
(***************************************************************************)
EXTENDS Collectors, TLAPS

AtSource(th) == job[th] # NoUnit /\ at[th].pc \in SourceSteps
Holds(th)    == AtSource(th) /\ at[th].pc \in Holding

(* The shape of what the proofs look into.                                 *)
Shapes ==
    /\ waiting \subseteq Units /\ job \in [Threads -> Units \cup {NoUnit}]
    /\ DOMAIN at = Threads /\ at = [th \in Threads |-> at[th]]
    /\ \A th \in Threads : "pc" \in DOMAIN at[th]
    /\ DOMAIN out = Units /\ out = [u \in Units |-> out[u]]

SharedShapes ==
    /\ languages \subseteq Languages /\ loads \in [Languages -> Nat]
    /\ parser \in [Threads -> [Languages -> Nat]] /\ made \in Nat

(* The count of imports is right. *)
LoadsCounted == \A l \in Languages : loads[l] = IF l \in languages THEN 1 ELSE 0

(* A parser is handed out once, to one thread. *)
ParsersNumbered ==
    /\ \A th \in Threads, l \in Languages : parser[th][l] <= made
    /\ \A t1, t2 \in Threads, l \in Languages :
          t1 # t2 /\ parser[t1][l] = parser[t2][l] => parser[t1][l] = 0

(* Whoever is between Acquire() and a release is the owner of the lock, so  *)
(* nobody else is there; who is about to load has looked under the lock;    *)
(* who parses has a parser.                                                 *)
ThreadInOrder(th) ==
    /\ AtSource(th) /\ at[th].pc # "file" => Lang(th) \in Languages
    /\ Holds(th) => lock = th
    /\ Here(th, "loading") => Lang(th) \notin languages
    /\ Here(th, "read") \/ Here(th, "parse") => parser[th][Lang(th)] # 0

GrammarInv ==
    /\ Shapes /\ SharedShapes /\ LoadsCounted /\ ParsersNumbered
    /\ \A th \in Threads : ThreadInOrder(th)

(* What a step of thread th may do to the pool and the results: it moves    *)
(* its own generator, adds to its own answer and takes nothing back.        *)
OwnMove(th) ==
    /\ Shapes'
    /\ \A t \in Threads \ {th} : job'[t] = job[t] /\ at'[t] = at[t]
    /\ \A u \in Units : out[u] \subseteq out'[u] /\ (u # job[th] => out'[u] = out[u])

(* A step of the collector that has these steps and these units.            *)
Stays(th, steps, units) ==
    /\ OwnMove(th)
    /\ job[th] = NoUnit \/ at[th].pc \in steps
    /\ \/ job'[th] = NoUnit /\ at'[th] = Idle
       \/ job'[th] \in {job[th]} \cup units /\ at'[th].pc \in steps

ContainerSteps == {"open", "layer", "member"}
TlsSteps == {"handshake", "probe"}

----------------------------------------------------------------------------
(* The steps of Collect. *)

LEMMA StartMoves ==
    ASSUME Shapes, NEW th \in Threads, NEW u, NEW locals, Start(th, u, locals),
           "pc" \in DOMAIN locals
    PROVE  OwnMove(th) /\ job[th] = NoUnit /\ job'[th] = u /\ at'[th] = locals
BY DEF Start, Shapes, OwnMove

LEMMA YieldMoves ==
    ASSUME Shapes, NEW th \in Threads, NEW items, NEW locals, Yield(th, items, locals),
           "pc" \in DOMAIN locals
    PROVE  OwnMove(th) /\ at'[th] = locals /\ job'[th] = job[th]
BY DEF Yield, pool, Shapes, OwnMove

LEMMA LeaveMoves ==
    ASSUME Shapes, NEW th \in Threads, NEW items, Leave(th, items), out[job[th]] \subseteq items
    PROVE  OwnMove(th) /\ job'[th] = NoUnit /\ at'[th] = Idle
BY DEF Leave, Idle, Shapes, OwnMove

LEMMA FinishMoves ==
    ASSUME Shapes, NEW th \in Threads, NEW items, Finish(th, items) \/ Raise(th, items)
    PROVE  OwnMove(th) /\ job'[th] = NoUnit /\ at'[th] = Idle
BY LeaveMoves DEF Finish, Raise, Caught

----------------------------------------------------------------------------
(* The steps of the other collectors. *)

LEMMA ElfStays ==
    ASSUME Shapes, NEW th \in Threads,
           (\E u \in waiting : StartELF(th, u)) \/ ELFStep(th)
    PROVE  Stays(th, {"binary"}, DOMAIN Binaries)
<1>1. ASSUME NEW u \in waiting, StartELF(th, u) PROVE Stays(th, {"binary"}, DOMAIN Binaries)
  BY <1>1, StartMoves DEF StartELF, Stays
<1>2. ASSUME ScanFile(th) PROVE Stays(th, {"binary"}, DOMAIN Binaries)
  BY <1>2, YieldMoves DEF ScanFile, NextBinary, Stays
<1>3. ASSUME OpenFileFails(th) PROVE Stays(th, {"binary"}, DOMAIN Binaries)
  BY <1>3, YieldMoves DEF OpenFileFails, NextBinary, Stays
<1>4. ASSUME BinariesEnd(th) PROVE Stays(th, {"binary"}, DOMAIN Binaries)
  BY <1>4, FinishMoves DEF BinariesEnd, Stays
<1>. QED  BY <1>1, <1>2, <1>3, <1>4 DEF ELFStep

(* Going on with another layer keeps the generator one of containers.      *)
LEMMA NextLayerMoves ==
    ASSUME Shapes, NEW th \in Threads, NEW items, Yield(th, items, NextLayer(th))
    PROVE  OwnMove(th) /\ at'[th].pc = "layer" /\ job'[th] = job[th]
<1>1. "pc" \in DOMAIN NextLayer(th) /\ NextLayer(th).pc = "layer"
  BY DEF NextLayer, Shapes
<1>. QED  BY <1>1, YieldMoves

LEMMA ContainerStays ==
    ASSUME Shapes, NEW th \in Threads,
           (\E u \in waiting : StartContainer(th, u)) \/ ContainerStep(th)
    PROVE  Stays(th, ContainerSteps, DOMAIN Images)
<1>1. ASSUME NEW u \in waiting, StartContainer(th, u) PROVE Stays(th, ContainerSteps, DOMAIN Images)
  BY <1>1, StartMoves DEF StartContainer, Stays, ContainerSteps
<1>2. ASSUME OpenImage(th) PROVE Stays(th, ContainerSteps, DOMAIN Images)
  <2>. DEFINE layers == LayersOf(Image(th))
              plain == ~Layout(th) /\ layers = <<>>
              locals == [at[th] EXCEPT !.pc = IF plain THEN "member" ELSE "layer",
                                       !.layers = layers,
                                       !.members = IF plain THEN Readable(Image(th).files)
                                                   ELSE <<>>]
  <2>1. "pc" \in DOMAIN locals /\ locals.pc \in {"member", "layer"}
    BY DEF Shapes
  <2>2. Yield(th, {}, locals) /\ at[th].pc = "open"
    BY <1>2 DEF OpenImage, Resume
  <2>. HIDE DEF locals
  <2>. QED  BY <2>1, <2>2, YieldMoves DEF Stays, ContainerSteps
<1>3. ASSUME OpenImageFails(th) \/ ListingRaises(th) \/ LayersEnd(th) \/ TempFileFails(th)
             \/ ImageRaises(th)
      PROVE Stays(th, ContainerSteps, DOMAIN Images)
  BY <1>3, FinishMoves
     DEF OpenImageFails, ListingRaises, LayersEnd, TempFileFails, ImageRaises, AtMember, AtEnd,
         Stays, ContainerSteps
<1>4. ASSUME LayerMissing(th) \/ BlobIsNoFile(th) \/ BlobIsNoArchive(th) \/ LayerTorn(th)
      PROVE Stays(th, ContainerSteps, DOMAIN Images)
  BY <1>4, NextLayerMoves
     DEF LayerMissing, BlobIsNoFile, BlobIsNoArchive, LayerTorn, BlobIs, AtLayer, AtEnd, Resume,
         Stays, ContainerSteps
<1>5. ASSUME OpenLayer(th) PROVE Stays(th, ContainerSteps, DOMAIN Images)
  <2>. DEFINE layer == Head(at[th].layers)
              locals == [at[th] EXCEPT !.pc = "member", !.open = layer,
                                       !.members = Readable(Image(th).blobs[layer])]
  <2>1. "pc" \in DOMAIN locals /\ locals.pc = "member"
    BY DEF Shapes
  <2>2. Yield(th, {}, locals) /\ at[th].pc = "layer"
    BY <1>5 DEF OpenLayer, BlobIs, AtLayer, Resume
  <2>. HIDE DEF locals
  <2>. QED  BY <2>1, <2>2, YieldMoves DEF Stays, ContainerSteps
<1>6. ASSUME ReadMember(th) PROVE Stays(th, ContainerSteps, DOMAIN Images)
  <2>. DEFINE locals == [at[th] EXCEPT !.members = Tail(@)]
              items == MemberFacts(at[th].open, Head(at[th].members))
  <2>1. "pc" \in DOMAIN locals /\ locals.pc = at[th].pc
    BY DEF Shapes
  <2>2. Yield(th, items, locals) /\ at[th].pc = "member"
    BY <1>6 DEF ReadMember, AtMember
  <2>. HIDE DEF locals, items
  <2>. QED  BY <2>1, <2>2, YieldMoves DEF Stays, ContainerSteps
<1>7. ASSUME ArchiveEnds(th) PROVE Stays(th, ContainerSteps, DOMAIN Images)
  <2>1. CASE at[th].open = NoLayer
    BY <1>7, <2>1, FinishMoves DEF ArchiveEnds, AtEnd, Stays, ContainerSteps
  <2>2. CASE at[th].open # NoLayer
    BY <1>7, <2>2, NextLayerMoves DEF ArchiveEnds, AtEnd, Resume, Stays, ContainerSteps
  <2>. QED  BY <2>1, <2>2
<1>. QED  BY <1>1, <1>2, <1>3, <1>4, <1>5, <1>6, <1>7 DEF ContainerStep

LEMMA TlsStays ==
    ASSUME Shapes, NEW th \in Threads,
           (\E u \in waiting : StartTLS(th, u)) \/ TLSStep(th)
    PROVE  Stays(th, TlsSteps, Endpoints)
<1>. DEFINE onward == [at[th] EXCEPT !.todo = Tail(@)]
<1>1. "pc" \in DOMAIN onward /\ onward.pc = at[th].pc
  BY DEF Shapes
<1>2. ASSUME NEW items, Yield(th, items, onward), at[th].pc = "probe" PROVE Stays(th, TlsSteps, Endpoints)
  <2>. HIDE DEF onward
  <2>. QED  BY <1>1, <1>2, YieldMoves DEF Stays, TlsSteps
<1>3. ASSUME NEW u \in waiting, StartTLS(th, u) PROVE Stays(th, TlsSteps, Endpoints)
  BY <1>3, StartMoves DEF StartTLS, Stays, TlsSteps
<1>4. ASSUME Handshake(th) PROVE Stays(th, TlsSteps, Endpoints)
  BY <1>4, YieldMoves DEF Handshake, Stays, TlsSteps
<1>5. ASSUME KeyUnsupported(th) \/ HandshakeRefused(th) \/ HandshakeTimesOut(th) \/ ProbesEnd(th)
      PROVE Stays(th, TlsSteps, Endpoints)
  BY <1>5, FinishMoves
     DEF KeyUnsupported, HandshakeRefused, HandshakeTimesOut, ProbesEnd,
         Stays, TlsSteps
<1>6. ASSUME ProbeAccepted(th) \/ ProbeRefused(th) \/ ProbeTimesOut(th) PROVE Stays(th, TlsSteps, Endpoints)
  <2>1. at[th].pc = "probe" /\ \E items : Yield(th, items, onward)
    BY <1>6 DEF ProbeAccepted, ProbeRefused, ProbeTimesOut, Probing, Resume, NextProbe, AfterRefusal
  <2>. HIDE DEF onward
  <2>. QED  BY <1>2, <2>1
<1>. QED  BY <1>3, <1>4, <1>5, <1>6 DEF TLSStep

----------------------------------------------------------------------------
(* The steps of the source collector. *)

LEMMA SourceStays ==
    ASSUME Shapes, NEW th \in Threads,
           (\E u \in waiting : StartSource(th, u)) \/ SourceStep(th)
    PROVE  Stays(th, SourceSteps, DOMAIN Files)
<1>1. ASSUME NEW u \in waiting, StartSource(th, u) PROVE Stays(th, SourceSteps, DOMAIN Files)
  BY <1>1, StartMoves DEF StartSource, Stays, SourceSteps
<1>2. ASSUME WalkEnds(th) PROVE Stays(th, SourceSteps, DOMAIN Files)
  BY <1>2, FinishMoves DEF WalkEnds, Here, Stays, SourceSteps
<1>3. ASSUME SourceStep(th), ~WalkEnds(th)
      PROVE  /\ \E items, locals : Yield(th, items, locals) /\ "pc" \in DOMAIN locals
                                  /\ locals.pc \in SourceSteps
             /\ at[th].pc \in SourceSteps
  <2>1. \A pc : "pc" \in DOMAIN Goto(th, pc) /\ Goto(th, pc).pc = pc
    BY DEF Goto
  <2>2. "pc" \in DOMAIN NextFile(th) /\ NextFile(th).pc = "file"
    BY DEF NextFile
  <2>3. CASE PassOver(th) \/ UseParser(th) \/ ReadFails(th) \/ ParseFile(th) \/ ParseFails(th)
    BY <2>1, <2>2, <2>3 DEF PassOver, UseParser, AtFile, ReadFails, ParseFile, ParseFails, Resume,
                            Here, SourceSteps
  <2>4. CASE NeedParser(th) \/ GrammarMissing(th) \/ Acquire(th) \/ LoadedMeanwhile(th)
             \/ LookAgain(th) \/ LoadGrammar(th) \/ LoadFails(th) \/ ReadFile(th)
    BY <2>1, <2>4 DEF NeedParser, AtFile, GrammarMissing, Acquire, LoadedMeanwhile, LookAgain,
                      LoadGrammar, LoadFails, ReadFile, Resume, Here, SourceSteps
  <2>5. CASE GrammarThere(th) \/ ReleaseAndKeep(th) \/ ReleaseAndGiveUp(th)
    BY <2>1, <2>5 DEF GrammarThere, ReleaseAndKeep, ReleaseAndGiveUp, KeepNewParser, KeepNone,
                      Keep, Resume, Here, SourceSteps
  <2>. QED  BY <1>3, <2>3, <2>4, <2>5 DEF SourceStep
<1>. QED  BY <1>1, <1>2, <1>3, YieldMoves DEF Stays

(* A thread that leaves the shared state alone has only itself to look to. *)
LEMMA QuietMove ==
    ASSUME GrammarInv, NEW th \in Threads, OwnMove(th), UNCHANGED sourceVars, ThreadInOrder(th)'
    PROVE  GrammarInv'
<1>1. ASSUME NEW t \in Threads, t # th PROVE ThreadInOrder(t)'
  BY <1>1 DEF GrammarInv, OwnMove, ThreadInOrder, AtSource, Holds, Here, Lang, File, sourceVars
<1>. QED  BY <1>1 DEF GrammarInv, OwnMove, SharedShapes, LoadsCounted, ParsersNumbered, sourceVars

LEMMA OthersKeep ==
    ASSUME GrammarInv, NEW th \in Threads, NEW steps, NEW units, Stays(th, steps, units),
           steps \cap SourceSteps = {}, UNCHANGED sourceVars
    PROVE  GrammarInv'
<1>1. ThreadInOrder(th)'
  BY DEF Stays, ThreadInOrder, AtSource, Holds, Here, SourceSteps
<1>. QED  BY <1>1, QuietMove DEF Stays

(* An entry of the cache, in steps that leave the grammars alone but may    *)
(* release the lock.                                                        *)
LEMMA KeepKeeps ==
    ASSUME GrammarInv, NEW th \in Threads, AtSource(th), at[th].pc # "file", OwnMove(th),
           KeepNewParser(th) \/ KeepNone(th), UNCHANGED <<languages, loads>>,
           lock' = lock \/ Holds(th)
    PROVE  GrammarInv'
<1>. DEFINE l == Lang(th)
<1>1. l \in Languages
  BY DEF GrammarInv, ThreadInOrder
<1>2. PICK handle \in Nat :
          /\ parser' = [parser EXCEPT ![th][l] = handle]
          /\ handle = 0 => made' = made
          /\ handle # 0 => handle = made + 1 /\ made' = made + 1
  <2>1. made \in Nat
    BY DEF GrammarInv, SharedShapes
  <2>2. CASE KeepNewParser(th)
    <3>1. parser' = [parser EXCEPT ![th][l] = made + 1] /\ made' = made + 1
      BY <2>2 DEF KeepNewParser, Keep, Owner
    <3>2. made + 1 \in Nat /\ made + 1 # 0
      BY <2>1
    <3>. QED  BY <3>1, <3>2
  <2>3. CASE KeepNone(th)
    <3>1. parser' = [parser EXCEPT ![th][l] = 0] /\ made' = made
      BY <2>3 DEF KeepNone, Keep, Owner
    <3>. QED  BY <3>1
  <2>. QED  BY <2>2, <2>3
<1>3. at'[th] = [pc |-> "file", todo |-> at[th].todo]
  BY DEF KeepNewParser, KeepNone, Keep, Resume, Yield, Goto, GrammarInv, Shapes
<1>. HIDE DEF l
<1>4. parser' \in [Threads -> [Languages -> Nat]] /\ made' \in Nat
  BY <1>1, <1>2 DEF GrammarInv, SharedShapes
<1>5. /\ parser'[th][l] = handle
      /\ \A k \in Languages \ {l} : parser'[th][k] = parser[th][k]
      /\ \A t \in Threads \ {th} : parser'[t] = parser[t]
  BY <1>1, <1>2 DEF GrammarInv, SharedShapes
<1>6. ParsersNumbered'
  BY <1>1, <1>2, <1>4, <1>5 DEF GrammarInv, SharedShapes, ParsersNumbered
<1>7. ThreadInOrder(th)'
  BY <1>3 DEF ThreadInOrder, AtSource, Holds, Holding, Here
<1>8. ASSUME NEW t \in Threads, t # th PROVE ThreadInOrder(t)'
  <2>1. Holds(t) => lock' = lock
    BY <1>8 DEF GrammarInv, ThreadInOrder
  <2>. QED  BY <1>5, <1>8, <2>1
            DEF GrammarInv, OwnMove, ThreadInOrder, AtSource, Holds, Here, Lang, File
<1>. QED  BY <1>4, <1>6, <1>7, <1>8 DEF GrammarInv, OwnMove, SharedShapes, LoadsCounted

LEMMA AcquireKeeps ==
    ASSUME GrammarInv, NEW th \in Threads, OwnMove(th), Acquire(th)
    PROVE  GrammarInv'
<1>1. at'[th] = [pc |-> "locked", todo |-> at[th].todo] /\ job'[th] = job[th]
  BY DEF Acquire, Resume, Yield, pool, Goto, GrammarInv, Shapes
<1>2. lock = NoThread /\ lock' = th /\ UNCHANGED <<languages, loads, cached, parser, made>>
      /\ AtSource(th) /\ at[th].pc = "acquire"
  BY DEF Acquire, parsers, Here, AtSource, SourceSteps
<1>3. ThreadInOrder(th)'
  BY <1>1, <1>2 DEF GrammarInv, ThreadInOrder, AtSource, Holds, Here, Lang, File
<1>4. ASSUME NEW t \in Threads, t # th PROVE ThreadInOrder(t)'
  <2>1. ~Holds(t)
    BY <1>2, LockConstants DEF GrammarInv, ThreadInOrder
  <2>. QED  BY <1>2, <1>4, <2>1 DEF GrammarInv, OwnMove, ThreadInOrder, AtSource, Holds, Here, Lang, File
<1>. QED  BY <1>2, <1>3, <1>4 DEF GrammarInv, OwnMove, SharedShapes, LoadsCounted, ParsersNumbered

(* The owner of the lock loads what it saw to be missing: nobody else can   *)
(* be about to load, and this grammar was never loaded.                     *)
LEMMA LoadKeeps ==
    ASSUME GrammarInv, NEW th \in Threads, OwnMove(th), LoadGrammar(th)
    PROVE  GrammarInv'
<1>. DEFINE l == Lang(th)
<1>1. at'[th] = [pc |-> "loaded", todo |-> at[th].todo] /\ job'[th] = job[th]
  BY DEF LoadGrammar, Resume, Yield, pool, Goto, GrammarInv, Shapes
<1>2. /\ UNCHANGED <<lock, cached, parser, made>>
      /\ languages' = languages \cup {l} /\ loads' = [loads EXCEPT ![l] = @ + 1]
      /\ AtSource(th) /\ Holds(th) /\ Here(th, "loading")
  BY DEF LoadGrammar, parsers, Here, AtSource, Holds, Holding, SourceSteps
<1>3. l \in Languages /\ l \notin languages /\ lock = th
  BY <1>2 DEF GrammarInv, ThreadInOrder, Here
<1>. HIDE DEF l
<1>4. LoadsCounted' /\ SharedShapes'
  BY <1>2, <1>3 DEF GrammarInv, SharedShapes, LoadsCounted
<1>5. ThreadInOrder(th)'
  BY <1>1, <1>2, <1>3 DEF GrammarInv, ThreadInOrder, AtSource, Holds, Here, Lang, File, l
<1>6. ASSUME NEW t \in Threads, t # th PROVE ThreadInOrder(t)'
  <2>1. ~Holds(t) /\ ~Here(t, "loading")
    BY <1>3, <1>6 DEF GrammarInv, ThreadInOrder, Holds, AtSource, Here, SourceSteps, Holding
  <2>. QED  BY <1>2, <1>6, <2>1 DEF GrammarInv, OwnMove, ThreadInOrder, AtSource, Holds, Here, Lang, File
<1>. QED  BY <1>2, <1>4, <1>5, <1>6 DEF GrammarInv, OwnMove, ParsersNumbered

LEMMA SourceKeeps ==
    ASSUME GrammarInv, NEW th \in Threads,
           (\E u \in waiting : StartSource(th, u)) \/ SourceStep(th)
    PROVE  GrammarInv'
<1>1. OwnMove(th)
  BY SourceStays DEF GrammarInv, Stays
<1>2. Shapes /\ th \in DOMAIN at
  BY DEF GrammarInv, Shapes
<1>3. ASSUME NEW u \in waiting, StartSource(th, u) PROVE GrammarInv'
  <2>1. UNCHANGED sourceVars /\ at'[th].pc = "file"
    BY <1>2, <1>3, StartMoves DEF StartSource, grammars, parsers, sourceVars
  <2>2. ThreadInOrder(th)'
    BY <2>1 DEF ThreadInOrder, AtSource, Holds, Holding, Here
  <2>. QED  BY <1>1, <2>1, <2>2, QuietMove
<1>4. CASE WalkEnds(th)
  <2>1. UNCHANGED sourceVars /\ job'[th] = NoUnit
    BY <1>2, <1>4, FinishMoves DEF WalkEnds, grammars, parsers, sourceVars
  <2>2. ThreadInOrder(th)'
    BY <2>1 DEF ThreadInOrder, AtSource, Holds, Here
  <2>. QED  BY <1>1, <2>1, <2>2, QuietMove
<1>5. ASSUME NEW items, Yield(th, items, NextFile(th)), UNCHANGED sourceVars PROVE GrammarInv'
  <2>1. at'[th].pc = "file"
    BY <1>2, <1>5 DEF Yield, NextFile
  <2>2. ThreadInOrder(th)'
    BY <2>1 DEF ThreadInOrder, AtSource, Holds, Holding, Here
  <2>. QED  BY <1>1, <1>5, <2>2, QuietMove
<1>6. ASSUME NEW pc, Resume(th, Goto(th, pc)), UNCHANGED sourceVars, Lang(th) \in Languages,
             pc \in {"grammar", "acquire", "loading", "loaded", "failed", "read", "parse"},
             pc \in Holding => lock = th,
             pc = "loading" => Lang(th) \notin languages,
             pc \in {"read", "parse"} => parser[th][Lang(th)] # 0
      PROVE  GrammarInv'
  <2>1. at'[th] = [pc |-> pc, todo |-> at[th].todo]
    BY <1>2, <1>6 DEF Resume, Yield, Goto
  <2>2. ThreadInOrder(th)'
    BY <1>6, <2>1 DEF ThreadInOrder, AtSource, Holds, Here, Lang, File, sourceVars
  <2>. QED  BY <1>1, <1>6, <2>2, QuietMove
<1>7. CASE PassOver(th) \/ ReadFails(th) \/ ParseFile(th) \/ ParseFails(th)
  BY <1>5, <1>7 DEF PassOver, ReadFails, ParseFile, ParseFails, Resume, grammars, parsers, sourceVars
<1>8. CASE UseParser(th)
  <2>1. Lang(th) \in Languages /\ UNCHANGED sourceVars
    BY <1>8 DEF UseParser, AtFile, Acceptable, Lang, grammars, parsers, sourceVars
  <2>2. CASE parser[th][Lang(th)] # 0
    BY <1>6, <1>8, <2>1, <2>2 DEF UseParser, Owner, Holding
  <2>3. CASE parser[th][Lang(th)] = 0
    BY <1>5, <1>8, <2>1, <2>3 DEF UseParser, Owner
  <2>. QED  BY <2>2, <2>3
<1>9. CASE NeedParser(th)
  BY <1>6, <1>9 DEF NeedParser, AtFile, Acceptable, Lang, Holding, grammars, parsers, sourceVars
<1>10. ASSUME NEW pc \in SourceSteps \ {"file"}, Here(th, pc)
       PROVE  /\ AtSource(th) /\ at[th].pc # "file" /\ Lang(th) \in Languages
              /\ pc \in Holding => lock = th /\ Holds(th)
              /\ pc = "loading" => Lang(th) \notin languages
              /\ pc = "read" => parser[th][Lang(th)] # 0
  BY <1>10 DEF GrammarInv, ThreadInOrder, AtSource, Holds, Here
<1>11. CASE GrammarMissing(th)
  BY <1>6, <1>10, <1>11 DEF GrammarMissing, SourceSteps, Holding, grammars, parsers, sourceVars
<1>12. CASE LoadedMeanwhile(th)
  BY <1>6, <1>10, <1>12 DEF LoadedMeanwhile, SourceSteps, Holding, grammars, parsers, sourceVars
<1>13. CASE LookAgain(th)
  BY <1>6, <1>10, <1>13
     DEF LookAgain, StillMissing, SourceSteps, Holding, grammars, parsers, sourceVars
<1>14. CASE LoadFails(th)
  BY <1>6, <1>10, <1>14 DEF LoadFails, SourceSteps, Holding, grammars, parsers, sourceVars
<1>15. CASE ReadFile(th)
  BY <1>6, <1>10, <1>15 DEF ReadFile, SourceSteps, Holding, grammars, parsers, sourceVars
<1>16. CASE Acquire(th)
  BY <1>1, <1>16, AcquireKeeps
<1>17. CASE LoadGrammar(th)
  BY <1>1, <1>17, LoadKeeps
<1>18. CASE GrammarThere(th)
  BY <1>1, <1>10, <1>18, KeepKeeps DEF GrammarThere, SourceSteps, grammars
<1>19. CASE ReleaseAndKeep(th) \/ ReleaseAndGiveUp(th)
  BY <1>1, <1>10, <1>19, KeepKeeps DEF ReleaseAndKeep, ReleaseAndGiveUp, SourceSteps, Holding
<1>. QED  BY <1>3, <1>4, <1>7, <1>8, <1>9, <1>11, <1>12, <1>13, <1>14, <1>15, <1>16, <1>17,
             <1>18, <1>19 DEF SourceStep

----------------------------------------------------------------------------
(* What every step does. *)

LEMMA WorkMoves ==
    ASSUME GrammarInv, NEW th \in Threads, Work(th)
    PROVE  OwnMove(th) /\ GrammarInv'
<1>1. CASE SourceWork(th)
  BY <1>1, SourceStays, SourceKeeps DEF SourceWork, GrammarInv, Stays
<1>2. CASE ElfWork(th) \/ ContainerWork(th) \/ TlsWork(th)
  <2>1. PICK steps \in {{"binary"}, ContainerSteps, TlsSteps} : \E units : Stays(th, steps, units)
    BY <1>2, ElfStays, ContainerStays, TlsStays DEF ElfWork, ContainerWork, TlsWork, GrammarInv
  <2>2. steps \cap SourceSteps = {}
    BY <2>1 DEF ContainerSteps, TlsSteps, SourceSteps
  <2>3. UNCHANGED sourceVars
    BY <1>2 DEF ElfWork, ContainerWork, TlsWork
  <2>. QED  BY <2>1, <2>2, <2>3, OthersKeep DEF Stays
<1>. QED  BY <1>1, <1>2 DEF Work

LEMMA AdminMoves ==
    ASSUME GrammarInv, Admin
    PROVE  GrammarInv' /\ out' = out
BY DEF Admin, Reconfigure, pool, sourceVars, GrammarInv, Shapes, SharedShapes, LoadsCounted,
       ParsersNumbered, ThreadInOrder, AtSource, Holds, Here, Lang, File

(* GrammarInv holds in every state the threads can reach.                  *)
THEOREM GrammarInvariant == Spec => []GrammarInv
<1>1. Init => GrammarInv
  <2>. SUFFICES ASSUME Init PROVE GrammarInv
    OBVIOUS
  <2>1. Shapes
    BY CollectConstants DEF Init, CollectInit, Idle, Shapes
  <2>2. SharedShapes /\ LoadsCounted /\ ParsersNumbered
    BY DEF Init, SourceInit, SharedShapes, LoadsCounted, ParsersNumbered
  <2>3. ASSUME NEW th \in Threads PROVE ThreadInOrder(th)
    BY DEF Init, CollectInit, ThreadInOrder, AtSource, Holds, Here
  <2>. QED  BY <2>1, <2>2, <2>3 DEF GrammarInv
<1>2. GrammarInv /\ [Next]_vars => GrammarInv'
  <2>1. CASE UNCHANGED vars
    BY <2>1 DEF vars, GrammarInv, Shapes, SharedShapes, LoadsCounted, ParsersNumbered,
                ThreadInOrder, AtSource, Holds, Here, Lang, File
  <2>. QED  BY <2>1, WorkMoves, AdminMoves DEF Next
<1>. QED  BY <1>1, <1>2, PTL DEF Spec

(* Every grammar is imported at most once, however many threads find it     *)
(* missing at the same time (the second look under _LANGUAGE_LOCK).         *)
THEOREM GrammarsLoadOnceAlways == Spec => []GrammarsLoadOnce
<1>1. GrammarInv => GrammarsLoadOnce
  BY DEF GrammarInv, LoadsCounted, GrammarsLoadOnce
<1>. QED  BY <1>1, GrammarInvariant, PTL

(* No two threads ever parse with one parser, though every thread looks     *)
(* for it in what seems to be the same cache (threading.local).             *)
THEOREM ParsersStayHomeAlways == Spec => []ParsersStayHome
<1>1. GrammarInv => ParsersStayHome
  <2>1. ASSUME GrammarInv, NEW t1 \in Threads, NEW t2 \in Threads, t1 # t2,
               Here(t1, "parse"), Here(t2, "parse"), Lang(t1) = Lang(t2)
        PROVE  parser[t1][Lang(t1)] # parser[t2][Lang(t2)]
    <3>1. Lang(t1) \in Languages /\ parser[t1][Lang(t1)] # 0
      BY <2>1 DEF GrammarInv, ThreadInOrder, AtSource, Here, SourceSteps
    <3>. QED  BY <2>1, <3>1 DEF GrammarInv, ParsersNumbered
  <2>. QED  BY <2>1 DEF ParsersStayHome, Owner
<1>. QED  BY <1>1, GrammarInvariant, PTL

(* No collector takes a finding back, whatever fails in it or around it:    *)
(* safe_collect() adds its error to what the generator has yielded.         *)
THEOREM FindingsAreKept == Spec => KeepsWhatItHas
<1>1. GrammarInv /\ [Next]_vars =>
        [\A u \in Units : Findings(u) \subseteq {x \in out'[u] : x.kind = "finding"}]_out
  BY WorkMoves, AdminMoves DEF Next, vars, OwnMove, Findings
<1>. QED  BY <1>1, GrammarInvariant, PTL DEF Spec, KeepsWhatItHas

----------------------------------------------------------------------------
(* Endpoints.                                                              *)

(* Endpoints are where the TLS collector is at work, and nowhere else.     *)
ProbersAtEndpoints == \A th \in Threads : at[th].pc \in TlsSteps <=> job[th] \in Endpoints

ProbeInv ==
    /\ GrammarInv /\ ProbersAtEndpoints /\ ProbesAreTruthful
    /\ server \in [Endpoints -> Configurations] /\ met = [u \in Endpoints |-> met[u]]

(* What is true of the handshakes with u. *)
Attested(u, x, handshakes) ==
    /\ x.what[1] = "version" => \E m \in handshakes : m.version = x.what[2]
    /\ x.what[1] = "group" => \E m \in handshakes : m.curves = {x.what[2]}

(* A thread that leaves the endpoints and their servers alone.             *)
LEMMA AsideKeeps ==
    ASSUME ProbeInv, GrammarInv', NEW th \in Threads, NEW steps, NEW units, Stays(th, steps, units),
           steps \cap TlsSteps = {}, units \cap Endpoints = {}, UNCHANGED tlsVars
    PROVE  ProbeInv'
<1>1. job[th] \notin Endpoints
  BY CollectConstants, SurfacesAreApart DEF ProbeInv, ProbersAtEndpoints, Stays
<1>2. at'[th].pc \notin TlsSteps /\ job'[th] \notin Endpoints
  BY <1>1, CollectConstants, SurfacesAreApart DEF Stays, Idle, TlsSteps
<1>3. ProbersAtEndpoints'
  BY <1>2 DEF ProbeInv, ProbersAtEndpoints, Stays, OwnMove
<1>4. \A u \in Endpoints : out'[u] = out[u]
  BY <1>1, SurfacesAreApart DEF Stays, OwnMove
<1>. QED  BY <1>3, <1>4 DEF ProbeInv, ProbesAreTruthful, Findings, tlsVars

(* The items of a step at an endpoint, against the handshakes it has had.  *)
LEMMA MeetKeeps ==
    ASSUME ProbeInv, GrammarInv', NEW th \in Threads, Stays(th, TlsSteps, Endpoints),
           at[th].pc \in TlsSteps, UNCHANGED <<server, changes>>,
           NEW items, out'[job[th]] = out[job[th]] \cup items,
           met' = met \/ \E agreed : Meet(th, agreed),
           \A x \in items : x.kind = "finding" => Attested(job[th], x, met'[job[th]])
    PROVE  ProbeInv'
<1>. DEFINE u == job[th]
<1>1. u \in Endpoints
  BY DEF ProbeInv, ProbersAtEndpoints
<1>2. /\ met' = [v \in Endpoints |-> met'[v]]
      /\ \A v \in Endpoints : met[v] \subseteq met'[v]
  BY DEF ProbeInv, Meet
<1>3. ProbersAtEndpoints'
  <2>1. at'[th].pc \in TlsSteps <=> job'[th] \in Endpoints
    BY <1>1, CollectConstants, SurfacesAreApart DEF Stays, Idle, TlsSteps
  <2>. QED  BY <2>1 DEF ProbeInv, ProbersAtEndpoints, Stays, OwnMove
<1>4. ASSUME NEW v \in Endpoints, NEW x \in Findings(v)' PROVE Attested(v, x, met'[v])
  <2>1. CASE x \in Findings(v)
    <3>1. Attested(v, x, met[v])
      BY <2>1 DEF ProbeInv, ProbesAreTruthful, Attested
    <3>. QED  BY <1>2, <3>1 DEF Attested
  <2>2. CASE x \notin Findings(v)
    <3>1. v = u /\ x \in items /\ x.kind = "finding"
      BY <1>4, <2>2, SurfacesAreApart DEF Findings, Stays, OwnMove
    <3>. QED  BY <3>1
  <2>. QED  BY <2>1, <2>2
<1>5. ProbesAreTruthful'
  BY <1>4 DEF ProbesAreTruthful, Attested
<1>. QED  BY <1>2, <1>3, <1>5 DEF ProbeInv

----------------------------------------------------------------------------
(* What the two kinds of step report. *)

LEMMA FactsAttested ==
    ASSUME NEW u, NEW agreed, NEW handshakes, agreed \in handshakes,
           NEW x \in HandshakeFacts(u, agreed)
    PROVE  Attested(u, x, handshakes)
<1>1. CASE x = Fact(u, <<"version", agreed.version>>)
  BY <1>1 DEF Fact, Attested
<1>2. ASSUME NEW part, x = Fact(u, <<"suite", part>>) PROVE Attested(u, x, handshakes)
  BY <1>2 DEF Fact, Attested
<1>. QED  BY <1>1, <1>2 DEF HandshakeFacts

LEMMA CertificateAttested ==
    ASSUME NEW u, NEW cert, NEW handshakes, NEW x \in CertificateFacts(u, cert)
    PROVE  Attested(u, x, handshakes)
<1>1. (\E s : x = Fact(u, <<"certificate", s>>)) \/ \E k : x = Fact(u, <<"key", k>>)
  BY DEF CertificateFacts
<1>. QED  BY <1>1 DEF Fact, Attested

(* A probe that is accepted was for one version, or one curve.             *)
LEMMA ProbeAttested ==
    ASSUME NEW u, NEW s \in Configurations, NEW probe, NEW handshakes,
           NEW agreed \in Agreements(s, Offer(probe)), agreed \in handshakes
    PROVE  Attested(u, Fact(u, probe), handshakes)
<1>1. /\ agreed.version = Max(Offer(probe).versions \cap s.versions)
      /\ agreed.curves = Offer(probe).groups
      /\ Offer(probe).versions \cap s.versions # {}
  BY DEF Agreements
<1>2. ASSUME probe[1] = "version" PROVE agreed.version = probe[2]
  <2>1. Offer(probe).versions = {probe[2]}
    BY <1>2 DEF Offer, AnyOffer
  <2>2. Offer(probe).versions \cap s.versions = {probe[2]} /\ probe[2] \in Nat
    BY <1>1, <2>1, SurfacesAreApart
  <2>3. Max({probe[2]}) = probe[2]
    BY <2>2 DEF Max
  <2>. QED  BY <1>1, <2>2, <2>3
<1>3. ASSUME probe[1] = "group" PROVE agreed.curves = {probe[2]}
  BY <1>1, <1>3 DEF Offer, AnyOffer
<1>. QED  BY <1>2, <1>3 DEF Attested, Fact

LEMMA TlsKeeps ==
    ASSUME ProbeInv, GrammarInv', NEW th \in Threads,
           (\E u \in waiting : StartTLS(th, u)) \/ TLSStep(th)
    PROVE  ProbeInv'
<1>. DEFINE u == job[th]
<1>1. Stays(th, TlsSteps, Endpoints) /\ Shapes
  BY TlsStays DEF ProbeInv, GrammarInv
<1>2. at[th].pc \in TlsSteps => u \in Endpoints /\ server[u] \in Configurations /\ u \in DOMAIN out
  BY SurfacesAreApart DEF ProbeInv, ProbersAtEndpoints, GrammarInv, Shapes
<1>3. ASSUME NEW v \in waiting, StartTLS(th, v) PROVE ProbeInv'
  <2>1. job'[th] \in Endpoints /\ at'[th].pc \in TlsSteps
    BY <1>1, <1>3, StartMoves DEF StartTLS, TlsSteps
  <2>2. ProbersAtEndpoints'
    BY <1>1, <2>1 DEF ProbeInv, ProbersAtEndpoints, Stays, OwnMove
  <2>3. UNCHANGED <<out, server, met>>
    BY <1>3 DEF StartTLS, Start, tlsVars
  <2>. QED  BY <2>2, <2>3 DEF ProbeInv, ProbesAreTruthful, Findings
<1>4. ASSUME NEW agreed, Meet(th, agreed), u \in Endpoints PROVE agreed \in met'[u]
  BY <1>4 DEF ProbeInv, Meet
<1>5. CASE Handshake(th)
  <2>1. at[th].pc \in TlsSteps /\ UNCHANGED <<server, changes>>
    BY <1>5 DEF Handshake, TlsSteps
  <2>2. PICK agreed : /\ Meet(th, agreed)
                      /\ out'[u] = out[u] \cup (HandshakeFacts(u, agreed)
                                                 \cup CertificateFacts(u, Server(th).cert))
    BY <1>2, <1>5, <2>1 DEF Handshake, Yield
  <2>3. agreed \in met'[u]
    BY <1>2, <1>4, <2>1, <2>2
  <2>4. \A x \in HandshakeFacts(u, agreed) \cup CertificateFacts(u, Server(th).cert) :
           Attested(u, x, met'[u])
    BY <2>3, FactsAttested, CertificateAttested
  <2>. QED  BY <1>1, <2>1, <2>2, <2>4, MeetKeeps
<1>6. CASE KeyUnsupported(th)
  <2>1. at[th].pc \in TlsSteps /\ UNCHANGED <<server, changes>>
    BY <1>6 DEF KeyUnsupported, TlsSteps
  <2>2. PICK agreed : /\ Meet(th, agreed)
                      /\ out'[u] = out[u] \cup (HandshakeFacts(u, agreed) \cup {Trouble("collect", u)})
    BY <1>2, <1>6, <2>1 DEF KeyUnsupported, Raise, Leave, Caught
  <2>3. agreed \in met'[u]
    BY <1>2, <1>4, <2>1, <2>2
  <2>4. \A x \in HandshakeFacts(u, agreed) \cup {Trouble("collect", u)} :
           x.kind = "finding" => Attested(u, x, met'[u])
    BY <2>3, FactsAttested DEF Trouble
  <2>. QED  BY <1>1, <2>1, <2>2, <2>4, MeetKeeps
<1>7. CASE HandshakeRefused(th) \/ HandshakeTimesOut(th)
  <2>1. at[th].pc \in TlsSteps /\ UNCHANGED tlsVars
    BY <1>7 DEF HandshakeRefused, HandshakeTimesOut, TlsSteps
  <2>. DEFINE items == {Trouble("handshake", u)}
  <2>2. out'[u] = out[u] \cup items
    BY <1>2, <1>7, <2>1 DEF HandshakeRefused, HandshakeTimesOut, Finish, Leave
  <2>3. \A x \in items : x.kind # "finding"
    BY DEF Trouble
  <2>. HIDE DEF items
  <2>. QED  BY <1>1, <2>1, <2>2, <2>3, MeetKeeps DEF tlsVars
<1>8. CASE ProbeAccepted(th)
  <2>1. at[th].pc \in TlsSteps /\ UNCHANGED <<server, changes>>
    BY <1>8 DEF ProbeAccepted, Probing, TlsSteps
  <2>2. PICK agreed \in Agreements(server[u], Offer(ThisProbe(th))) : Meet(th, agreed)
    BY <1>8 DEF ProbeAccepted, Server
  <2>. DEFINE items == {Fact(u, ThisProbe(th))}
  <2>3. out'[u] = out[u] \cup items
    BY <1>2, <1>8, <2>1 DEF ProbeAccepted, Yield
  <2>4. \A x \in items : Attested(u, x, met'[u])
    BY <1>2, <1>4, <2>1, <2>2, ProbeAttested
  <2>. HIDE DEF items
  <2>. QED  BY <1>1, <2>1, <2>2, <2>3, <2>4, MeetKeeps
<1>9. CASE ProbeRefused(th) \/ ProbeTimesOut(th) \/ ProbesEnd(th)
  <2>1. at[th].pc \in TlsSteps /\ UNCHANGED tlsVars
    BY <1>9 DEF ProbeRefused, ProbeTimesOut, ProbesEnd, Probing, TlsSteps
  <2>. DEFINE items == {}
  <2>2. out'[u] = out[u] \cup items
    BY <1>2, <1>9, <2>1 DEF ProbeRefused, ProbeTimesOut, ProbesEnd, Resume, Yield, Finish, Leave
  <2>3. \A x \in items : x.kind # "finding"
    OBVIOUS
  <2>. HIDE DEF items
  <2>. QED  BY <1>1, <2>1, <2>2, <2>3, MeetKeeps DEF tlsVars
<1>. QED  BY <1>3, <1>5, <1>6, <1>7, <1>8, <1>9 DEF TLSStep

(* ProbeInv holds in every state: what the TLS collector has reported is   *)
(* attested by a handshake, and no other collector touches an endpoint.    *)
THEOREM ProbeInvariant == Spec => []ProbeInv
<1>1. Init => ProbersAtEndpoints /\ ProbesAreTruthful /\ server \in [Endpoints -> Configurations]
              /\ met = [u \in Endpoints |-> met[u]]
  BY CollectConstants, SurfacesAreApart
     DEF Init, CollectInit, TLSInit, Idle, ProbersAtEndpoints, TlsSteps, ProbesAreTruthful, Findings
<1>2. ASSUME ProbeInv, GrammarInv', NEW th \in Threads, Work(th) PROVE ProbeInv'
  <2>1. CASE TlsWork(th)
    BY <1>2, <2>1, TlsKeeps DEF TlsWork
  <2>2. CASE ~TlsWork(th)
    <3>1. UNCHANGED tlsVars
      BY <1>2, <2>2 DEF Work, SourceWork, ElfWork, ContainerWork
    <3>2. PICK steps \in {SourceSteps, {"binary"}, ContainerSteps},
               units \in {DOMAIN Files, DOMAIN Binaries, DOMAIN Images} : Stays(th, steps, units)
      BY <1>2, <2>2, SourceStays, ElfStays, ContainerStays
         DEF Work, SourceWork, ElfWork, ContainerWork, ProbeInv, GrammarInv
    <3>3. steps \cap TlsSteps = {} /\ units \cap Endpoints = {}
      BY <3>2, SurfacesAreApart DEF SourceSteps, ContainerSteps, TlsSteps
    <3>. QED  BY <1>2, <3>1, <3>2, <3>3, AsideKeeps
  <2>. QED  BY <2>1, <2>2
<1>3. ProbeInv /\ GrammarInv' /\ Admin => ProbeInv'
  <2>. SUFFICES ASSUME ProbeInv, GrammarInv', NEW u \in Endpoints, NEW s \in Configurations,
                       Reconfigure(u, s)
                PROVE  ProbeInv'
    BY DEF Admin
  <2>1. server' \in [Endpoints -> Configurations]
    BY DEF Reconfigure, ProbeInv
  <2>2. UNCHANGED <<job, at, out, met>>
    BY DEF Reconfigure, pool
  <2>. QED  BY <2>1, <2>2 DEF ProbeInv, ProbersAtEndpoints, ProbesAreTruthful, Findings
<1>4. ProbeInv /\ GrammarInv' /\ UNCHANGED vars => ProbeInv'
  BY DEF vars, ProbeInv, ProbersAtEndpoints, ProbesAreTruthful, Findings
<1>5. GrammarInv /\ Init => ProbeInv
  BY <1>1 DEF ProbeInv
<1>6. ProbeInv /\ GrammarInv' /\ [Next]_vars => ProbeInv'
  BY <1>2, <1>3, <1>4 DEF Next
<1>. QED  BY <1>5, <1>6, GrammarInvariant, PTL DEF Spec

(* A version or a curve that is reported of an endpoint was agreed on with  *)
(* it, even when its operator sets it up anew between two probes.           *)
THEOREM ProbesStayTruthful == Spec => []ProbesAreTruthful
<1>1. ProbeInv => ProbesAreTruthful
  BY DEF ProbeInv
<1>. QED  BY <1>1, ProbeInvariant, PTL
=============================================================================
