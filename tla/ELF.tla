-------------------------------- MODULE ELF --------------------------------
(***************************************************************************)
(* qdarpan/collectors/elf.py: linkage, symbols and embedded constants of   *)
(* one binary, and the walk over the binaries of a tree.                   *)
(***************************************************************************)
EXTENDS Collect

CONSTANTS
    Binaries,     \* Binaries[u]: the files under u's root, in the order of walk_files()
    Elftools,     \* pyelftools is installed
    Malformed     \* binaries pyelftools gives up in the midst of

(* The three questions, in the order they are asked. *)
Parts == <<"needed", "symbols", "constants">>

(* The parts of b that are read: all, or those before the one it breaks at. *)
ReadParts(b) ==
    {i \in DOMAIN Parts : b \in DOMAIN Malformed => i < Malformed[b]}

(* Where a library, symbol or constant is reported: in the file, and in the *)
(* layer of the image it came from.  A section whose data cannot be read is *)
(* passed over.                                                             *)
PartFacts(where, b, i) == {Fact(where, x) : x \in b.holds[Parts[i]] \ b.hidden}

(* scan_binary() *)
ScanBinary(where, b) ==
    IF ~Elftools THEN {Trouble("import", where)}
    ELSE (UNION {PartFacts(where, b, i) : i \in ReadParts(b)})
         \cup {Trouble("elf", where) : x \in {b} \cap DOMAIN Malformed}

(* is_elf(): four bytes of magic; a file that cannot be opened has none.    *)
IsElf(f) == f.magic = "elf" /\ f.readable

----------------------------------------------------------------------------
(* collect(): at[th].todo are the files still to come. *)

StartELF(th, u) ==
    /\ u \in DOMAIN Binaries
    /\ Start(th, u, [pc |-> "binary", todo |-> Binaries[u]])
    /\ NoFault

NextBinary(th) == [pc |-> "binary", todo |-> Tail(at[th].todo)]

(* Wrong: one try around the whole walk. *)
ScanFileOrStop(th) ==
    /\ at[th].pc = "binary" /\ at[th].todo # <<>>
    /\ LET f == Head(at[th].todo)
       IN  IF IsElf(f) /\ f.binary \in DOMAIN Malformed
           THEN Finish(th, ScanBinary(f.path, f.binary))
           ELSE Yield(th, IF IsElf(f) THEN ScanBinary(f.path, f.binary) ELSE {}, NextBinary(th))
    /\ NoFault

ScanFile(th) ==
    /\ at[th].pc = "binary" /\ at[th].todo # <<>>
    /\ LET f == Head(at[th].todo)
       IN  Yield(th, IF IsElf(f) THEN ScanBinary(f.path, f.binary) ELSE {}, NextBinary(th))
    /\ NoFault

(* The file is gone when scan_binary() opens it. *)
OpenFileFails(th) ==
    /\ at[th].pc = "binary" /\ at[th].todo # <<>> /\ IsElf(Head(at[th].todo)) /\ Fault
    /\ Yield(th, {Trouble("elf", Head(at[th].todo).path)}, NextBinary(th))

BinariesEnd(th) ==
    /\ at[th].pc = "binary" /\ at[th].todo = <<>>
    /\ Finish(th, {}) /\ NoFault

ELFStep(th) == ScanFile(th) \/ OpenFileFails(th) \/ BinariesEnd(th)
=============================================================================
