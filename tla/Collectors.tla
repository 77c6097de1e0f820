----------------------------- MODULE Collectors -----------------------------
(***************************************************************************)
(* The four collectors at work in the threads of a pool, and what makes    *)
(* their answers worth having.                                             *)
(***************************************************************************)
EXTENDS SourceAST, Container, TLS

CONSTANT Truth    \* what there is to find in each target that is no endpoint

(* A unit is one of one collector: supports() goes by the kind of target. *)
ASSUME SurfacesAreApart ==
    /\ Units = DOMAIN Files \cup DOMAIN Binaries \cup DOMAIN Images \cup Endpoints
    /\ (DOMAIN Files \cup DOMAIN Binaries \cup DOMAIN Images) \cap Endpoints = {}
    /\ DOMAIN Files \cap DOMAIN Binaries = {} /\ DOMAIN Files \cap DOMAIN Images = {}
    /\ DOMAIN Binaries \cap DOMAIN Images = {}
    /\ FirstSetup \in [Endpoints -> Configurations] /\ MaxChanges \in Nat
    /\ \A s \in Configurations : s.versions \subseteq Nat

(* Files and layers come as lists; an archive gives the first of its members. *)
IsArchive(a) == a.members \in Seq(ToSet(a.members)) /\ a.present \in 0..Len(a.members)

ASSUME TargetsAreLists ==
    /\ \A u \in DOMAIN Files : Files[u] \in Seq(ToSet(Files[u]))
    /\ \A u \in DOMAIN Binaries : Binaries[u] \in Seq(ToSet(Binaries[u]))
    /\ \A u \in DOMAIN Images :
          /\ LayersOf(Images[u]) \in Seq(ToSet(LayersOf(Images[u])) \ {NoLayer})
          /\ IsArchive(Images[u].files)
          /\ \A layer \in DOMAIN Images[u].blobs :
                Images[u].blobs[layer].type = "tar" => IsArchive(Images[u].blobs[layer])

vars == <<waiting, job, at, out, over, faults, languages, loads, lock, cached, parser, made,
          server, met, changes>>

Init == CollectInit /\ SourceInit /\ TLSInit

SourceWork(th) ==
    /\ (\E u \in waiting : StartSource(th, u)) \/ SourceStep(th)
    /\ UNCHANGED tlsVars

ElfWork(th) ==
    /\ (\E u \in waiting : StartELF(th, u)) \/ ELFStep(th)
    /\ UNCHANGED <<sourceVars, tlsVars>>

ContainerWork(th) ==
    /\ (\E u \in waiting : StartContainer(th, u)) \/ ContainerStep(th)
    /\ UNCHANGED <<sourceVars, tlsVars>>

TlsWork(th) ==
    /\ (\E u \in waiting : StartTLS(th, u)) \/ TLSStep(th)
    /\ UNCHANGED sourceVars

Work(th) == SourceWork(th) \/ ElfWork(th) \/ ContainerWork(th) \/ TlsWork(th)

Admin ==
    /\ \E u \in Endpoints, s \in Configurations : Reconfigure(u, s)
    /\ UNCHANGED sourceVars

Next == (\E th \in Threads : Work(th)) \/ Admin

(* The operating system runs every thread; sockets have a timeout.          *)
Spec == Init /\ [][Next]_vars /\ \A th \in Threads : WF_vars(Work(th))

----------------------------------------------------------------------------
(* Truth[u] says of u's target, the files, layers and members as they are,  *)
(* which findings are in it: "plain" where nothing is wrong, "damaged"      *)
(* where something is that the collector can tell, "silent" where it cannot *)
(* or does not: sections without data, archives that end at a header, blobs *)
(* of a layout directory that are torn, files too large or unreadable.      *)

Targets == Units \ Endpoints

InTarget(u) == Truth[u].plain \cup Truth[u].damaged \cup Truth[u].silent
InSight(u)  == Truth[u].plain \cup Truth[u].damaged

(* Nothing is wrong with the target.  An OCI archive as a tarball is not    *)
(* sound: each of its JSON blobs is an error (container.py:111).            *)
Sound(u) ==
    /\ Truth[u].damaged = {}
    /\ u \in DOMAIN Images =>
          Images[u].state = "listed" /\ (Images[u].shape = "tarball" => Images[u].manifest # <<>>)

(* A target is read part by part: the files of a tree, the layers of an     *)
(* image, or the image as a whole, if it has none or cannot be opened.      *)
Layered(img) == img.state = "listed" /\ (img.shape = "layout" \/ LayersOf(img) # <<>>)

PartsOf(u) ==
    CASE u \in DOMAIN Files    -> ToSet(Files[u])
      [] u \in DOMAIN Binaries -> ToSet(Binaries[u])
      [] u \in DOMAIN Images   -> IF Layered(Images[u]) THEN ToSet(LayersOf(Images[u])) ELSE {NoLayer}

(* What there is to say of a part that is read on its own, by a system that *)
(* does not fail.                                                           *)
OfFile(f) ==
    IF ~Acceptable(f) THEN {}
    ELSE IF f.language \in Installed THEN ScanTree(f) ELSE {Trouble("parser", f.path)}

OfBinary(f) == IF IsElf(f) THEN ScanBinary(f.path, f.binary) ELSE {}

OfEnd(u, layer, archive) ==
    CASE archive.ends \in {"whole", "short"} -> {}
      [] layer # NoLayer /\ (archive.ends = "torn" \/ (archive.ends = "gztorn" /\ Images[u].shape # "layout"))
            -> LayerLost(Images[u], layer)
      [] OTHER -> {Trouble("collect", u)}

OfArchive(u, layer, archive) ==
    (UNION {MemberFacts(layer, m) : m \in ToSet(Readable(archive))}) \cup OfEnd(u, layer, archive)

OfBlob(u, layer, blob) ==
    CASE blob.type = "directory" -> {}
      [] blob.type = "json"      -> LayerLost(Images[u], layer)
      [] blob.type = "tar"       -> OfArchive(u, layer, blob)

OfWholeImage(u, img) ==
    CASE img.state = "listed"     -> OfArchive(u, NoLayer, img.files)
      [] img.state = "cut"        -> {Trouble("collect", u)}
      [] img.state = "unopenable" -> {Trouble(IF img.shape = "layout" THEN "layout" ELSE "open", u)}

OfLayer(u, layer) ==
    LET img == Images[u]
    IN  IF layer = NoLayer THEN OfWholeImage(u, img)
        ELSE IF layer \in DOMAIN img.blobs THEN OfBlob(u, layer, img.blobs[layer])
        ELSE {Trouble("layer", <<layer>>)}

SaidOf(u, part) ==
    CASE u \in DOMAIN Files    -> OfFile(part)
      [] u \in DOMAIN Binaries -> OfBinary(part)
      [] u \in DOMAIN Images   -> OfLayer(u, part)

(* The table is right: what is plain to see is what the parts have to say,  *)
(* what they say is in the target, and what is damaged is behind an error;  *)
(* where nothing is wrong, there is no error.                               *)
ASSUME TruthIsOfTheParts ==
    \A u \in Targets :
        LET said  == UNION {SaidOf(u, part) : part \in PartsOf(u)}
            facts == {x \in said : x.kind = "finding"}
        IN  /\ Truth[u].plain \subseteq facts /\ facts \subseteq InTarget(u)
            /\ facts = said => Truth[u].damaged \subseteq facts
            /\ Sound(u) => facts = said

QuietAnswer(u) == u \in over /\ Errors(u) = {}

(* Every variable holds what the code keeps there. *)
TypeOK ==
    /\ CollectTypeOK /\ SourceTypeOK
    /\ server \in [Endpoints -> Configurations]
    /\ DOMAIN met = Endpoints /\ changes \in 0..MaxChanges

(* Whatever the interleaving of the threads, the import behind a grammar is *)
(* done at most once in the process: source_ast.py:62-77.                   *)
GrammarsLoadOnce == \A l \in Languages : loads[l] <= 1

(* A parser is not thread-safe, and no two threads ever parse with the same *)
(* one: source_ast.py:180-193.                                              *)
ParsersStayHome ==
    \A t1, t2 \in Threads :
        /\ t1 # t2
        /\ Here(t1, "parse") /\ Here(t2, "parse") /\ Lang(t1) = Lang(t2)
        => parser[Owner(t1)][Lang(t1)] # parser[Owner(t2)][Lang(t2)]

(* A file that is not parsed, a part of a binary that cannot be read or a   *)
(* layer that is missing costs nothing but itself: what is sound elsewhere  *)
(* in the target is reported, unless the system fails or an exception ends  *)
(* the unit: base.py:1-8.                                                   *)
DamageStaysLocal ==
    \A u \in Targets \cap over :
        faults = 0 /\ Trouble("collect", u) \notin out[u] => Truth[u].plain \subseteq out[u]

(* A target that is whole, and not an OCI archive handed over as a tarball  *)
(* without manifest.json, is reported without an error, or --resume would   *)
(* never skip it.  (Of such an archive every JSON blob is an error, in the  *)
(* code as here: container.py:109-112, 132-134.)                           *)
IntactIsQuiet == \A u \in Targets \cap over : faults = 0 /\ Sound(u) => Errors(u) = {}

(* No target that was damaged looks as if it had been read to the end: the  *)
(* design says that "truncated tarballs ... are expected conditions with    *)
(* recorded outcomes".                                                      *)
QuietMeansComplete == \A u \in Targets : QuietAnswer(u) => InTarget(u) \subseteq out[u]

(* A protocol version that is reported was agreed on with the server in     *)
(* some handshake, even when the server is set up anew between two probes;  *)
(* a curve was the only one offered in one that succeeded: tls.py:309-378.  *)
ProbesAreTruthful ==
    \A u \in Endpoints : \A x \in Findings(u) :
        /\ x.what[1] = "version" => \E m \in met[u] : m.version = x.what[2]
        /\ x.what[1] = "group" => \E m \in met[u] : m.curves = {x.what[2]}

(* If the server stays as it is and answers, every version it accepts is    *)
(* found, however many of the probes before it are refused, and with it the *)
(* key agreement and the cipher of the handshake (a digest may be lost).    *)
Digests == {"SHA-1", "SHA-256", "SHA-384"}

SettledUnit(u) == u \in over /\ faults = 0 /\ changes = 0 /\ Errors(u) = {}

ProbesAreComplete ==
    \A u \in Endpoints : SettledUnit(u) =>
        /\ \A probe \in ToSet(Probes) \ Unsettable :
              probe[1] = "version" /\ Agreements(server[u], Offer(probe)) # {}
                 => Fact(u, probe) \in out[u]
        /\ \E agreed \in Agreements(server[u], AnyOffer) :
              \A part \in agreed.suite.parts \ Digests : Fact(u, <<"suite", part>>) \in out[u]

(* What was learnt from a handshake is kept, whatever fails after it: a     *)
(* unit never takes a finding back (base.py:176-180).                       *)
KeepsWhatItHas == [][\A u \in Units : Findings(u) \subseteq {x \in out'[u] : x.kind = "finding"}]_out

(* Every unit that is submitted comes to an end, though threads wait for    *)
(* one another's grammars and those may fail to load (source_ast.py:66).    *)
UnitsEnd == <>(waiting = {} /\ \A th \in Threads : job[th] = NoUnit)

(* The collectors keep the contract of a unit. *)
Contract == INSTANCE UnitContract
                WITH Units <- Targets,
                     Present <- [u \in Targets |-> InTarget(u)],
                     Expected <- [u \in Targets |-> InSight(u)],
                     waiting <- waiting \cap Targets, over <- over \cap Targets,
                     out <- [u \in Targets |-> out[u]]

KeepsUnitContract == Contract!Spec
=============================================================================
