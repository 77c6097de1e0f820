----------------------------- MODULE Container -----------------------------
(***************************************************************************)
(* qdarpan/collectors/container.py: an image as a directory with an OCI    *)
(* layout or as a tarball, layer by layer and member by member.  An image  *)
(* says of each blob what it holds, how much of it is there, and how an    *)
(* archive that ends early shows it: a read that fails ("torn"), the same  *)
(* under gzip ("gztorn"), or nothing at all, the cut being at a header     *)
(* ("short").                                                              *)
(***************************************************************************)
EXTENDS ELF

CONSTANTS
    Images,       \* Images[u]: the image u's target is
    NoLayer       \* the layer of what is in no layer

Ends == {"whole", "torn", "gztorn", "short"}

(* _layer_names(): the manifest's layers, or every blob when it lists none; *)
(* a layout directory is read blob by blob.                                 *)
LayersOf(img) ==
    IF img.shape = "tarball" /\ img.manifest # <<>> THEN img.manifest ELSE img.names

(* A package is reported for its database, a binary for its path. *)
MemberFacts(layer, m) ==
    CASE m.type = "db"  -> {Fact(<<layer, m.path>>, p) : p \in m.packages}
      [] m.type = "elf" -> ScanBinary(<<layer, m.path>>, m.binary)
      [] OTHER          -> {}

(* The members an archive gives before it ends. *)
Readable(archive) == SubSeq(archive.members, 1, archive.present)

----------------------------------------------------------------------------
(* collect(): at[th] has the layers still to come, the one that is open     *)
(* (the tarball itself when it has none) and its members still to come.     *)

Image(th) == Images[job[th]]
Layout(th) == Image(th).shape = "layout"

NextLayer(th) == [at[th] EXCEPT !.pc = "layer", !.layers = Tail(@), !.open = NoLayer]

StartContainer(th, u) ==
    /\ u \in DOMAIN Images
    /\ Start(th, u, [pc |-> "open", layers |-> <<>>, open |-> NoLayer, members |-> <<>>])
    /\ NoFault

(* The archive or the layout is there and its layers can be listed. *)
OpenImage(th) ==
    /\ at[th].pc = "open" /\ Image(th).state = "listed"
    /\ LET layers == LayersOf(Image(th))
           plain  == ~Layout(th) /\ layers = <<>>
       IN  Resume(th, [at[th] EXCEPT !.pc = IF plain THEN "member" ELSE "layer",
                                     !.layers = layers,
                                     !.members = IF plain THEN Readable(Image(th).files)
                                                 ELSE <<>>])
    /\ NoFault

(* Not an archive, or a layout without blobs/sha256. *)
OpenImageFails(th) ==
    /\ at[th].pc = "open" /\ Image(th).state = "unopenable"
    /\ Finish(th, {Trouble(IF Layout(th) THEN "layout" ELSE "open", job[th])})
    /\ NoFault

(* An archive cut short cannot even be listed: getnames() raises. *)
ListingRaises(th) ==
    /\ at[th].pc = "open" /\ Image(th).state = "cut"
    /\ Raise(th, {}) /\ NoFault

LayersEnd(th) ==
    /\ at[th].pc = "layer" /\ at[th].layers = <<>>
    /\ Finish(th, {}) /\ NoFault

AtLayer(th) == at[th].pc = "layer" /\ at[th].layers # <<>>

(* A layer the manifest names and the archive does not have. *)
LayerMissing(th) ==
    /\ AtLayer(th) /\ Head(at[th].layers) \notin DOMAIN Image(th).blobs
    /\ Yield(th, {Trouble("layer", <<Head(at[th].layers)>>)}, NextLayer(th))
    /\ NoFault

(* Wrong: what is not a tar archive is an error in a layout, too. *)
TarErrorAlways(th, layer) == {Trouble("layer", <<layer>>)}

(* A TarError costs the layer: an error in a tarball, where a manifest may  *)
(* name it; nothing in a layout, where blobs need not be archives.          *)
LayerLost(img, layer) == IF img.shape = "layout" THEN {} ELSE {Trouble("layer", <<layer>>)}

TarError(th, layer) == LayerLost(Image(th), layer)

BlobIs(th, type) ==
    /\ AtLayer(th)
    /\ Head(at[th].layers) \in DOMAIN Image(th).blobs
    /\ Image(th).blobs[Head(at[th].layers)].type = type

(* A directory has no stream and is no file. *)
BlobIsNoFile(th) ==
    /\ BlobIs(th, "directory")
    /\ Resume(th, NextLayer(th))
    /\ NoFault

(* tarfile.open() on a configuration or manifest blob. *)
BlobIsNoArchive(th) ==
    /\ BlobIs(th, "json")
    /\ Yield(th, TarError(th, Head(at[th].layers)), NextLayer(th))
    /\ NoFault

OpenLayer(th) ==
    /\ BlobIs(th, "tar")
    /\ LET layer == Head(at[th].layers)
       IN  Resume(th, [at[th] EXCEPT !.pc = "member", !.open = layer,
                                     !.members = Readable(Image(th).blobs[layer])])
    /\ NoFault

AtMember(th) == at[th].pc = "member" /\ at[th].members # <<>>

ReadMember(th) ==
    /\ AtMember(th)
    /\ Yield(th, MemberFacts(at[th].open, Head(at[th].members)),
             [at[th] EXCEPT !.members = Tail(@)])
    /\ NoFault

(* The temporary file a binary is copied to cannot be written. *)
TempFileFails(th) ==
    /\ AtMember(th) /\ Head(at[th].members).type = "elf" /\ Fault
    /\ Raise(th, {})

Archive(th) ==
    IF at[th].open = NoLayer THEN Image(th).files ELSE Image(th).blobs[at[th].open]

AtEnd(th) == at[th].pc = "member" /\ at[th].members = <<>>

(* The archive is over, or cut so that it seems to be. *)
ArchiveEnds(th) ==
    /\ AtEnd(th) /\ Archive(th).ends \in {"whole", "short"}
    /\ IF at[th].open = NoLayer THEN Finish(th, {}) ELSE Resume(th, NextLayer(th))
    /\ NoFault

(* A blob is read as a stream in a tarball, where tarfile turns whatever    *)
(* goes wrong into a ReadError, and as a file in a layout, where gzip's     *)
(* EOFError comes through.                                                  *)
Contained(th) ==
    /\ at[th].open # NoLayer
    /\ Archive(th).ends = "torn" \/ (Archive(th).ends = "gztorn" /\ ~Layout(th))

(* Wrong: one torn layer is taken for the end of the image. *)
ImageTorn(th) ==
    /\ AtEnd(th) /\ Archive(th).ends \in {"torn", "gztorn"} /\ Contained(th)
    /\ Finish(th, TarError(th, at[th].open)) /\ NoFault

LayerTorn(th) ==
    /\ AtEnd(th) /\ Archive(th).ends \in {"torn", "gztorn"} /\ Contained(th)
    /\ Yield(th, TarError(th, at[th].open), NextLayer(th))
    /\ NoFault

(* Nothing on the way catches it: the layers to come are not read. *)
ImageRaises(th) ==
    /\ AtEnd(th) /\ Archive(th).ends \in {"torn", "gztorn"} /\ ~Contained(th)
    /\ Raise(th, {}) /\ NoFault

ContainerStep(th) ==
    \/ OpenImage(th) \/ OpenImageFails(th) \/ ListingRaises(th)
    \/ LayersEnd(th) \/ LayerMissing(th)
    \/ BlobIsNoFile(th) \/ BlobIsNoArchive(th) \/ OpenLayer(th)
    \/ ReadMember(th) \/ TempFileFails(th)
    \/ ArchiveEnds(th) \/ LayerTorn(th) \/ ImageRaises(th)
=============================================================================
