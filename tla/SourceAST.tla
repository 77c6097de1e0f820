----------------------------- MODULE SourceAST -----------------------------
(***************************************************************************)
(* qdarpan/collectors/source_ast.py: the walk over the files of a source   *)
(* tree, the grammars all threads of the process share under a lock, the   *)
(* parsers each thread keeps to itself, and the search of one syntax tree. *)
(***************************************************************************)
EXTENDS Collect

CONSTANTS
    Languages,    \* c, cpp, java, go
    Installed,    \* languages whose grammar wheel is installed
    NoThread,     \* the lock is free
    Files,        \* Files[u]: the files under u's root, in the order of walk_files()
    Rules,        \* Rules[l]: the rule pack of a language
    NoReceiver    \* a call without receiver, a rule for any receiver

ASSUME LockConstants == NoThread \notin Threads

VARIABLES
    languages,    \* _LANGUAGES: grammars loaded so far
    loads,        \* how often each grammar was loaded
    lock,         \* _LANGUAGE_LOCK: the thread that holds it
    cached,       \* languages in each thread's _local.parsers
    parser,       \* the parser kept there, 0 for None
    made          \* parsers made so far

grammars == <<languages, loads, lock>>
parsers  == <<cached, parser, made>>
sourceVars == <<languages, loads, lock, cached, parser, made>>

SourceSteps == {"file", "grammar", "acquire", "locked", "loading", "loaded", "failed", "read", "parse"}
Holding     == {"locked", "loading", "loaded", "failed"}

SourceTypeOK ==
    /\ languages \subseteq Languages
    /\ loads \in [Languages -> Nat]
    /\ lock \in Threads \cup {NoThread}
    /\ cached \in [Threads -> SUBSET Languages]
    /\ parser \in [Threads -> [Languages -> Nat]]
    /\ made \in Nat

SourceInit ==
    /\ languages = {} /\ loads = [l \in Languages |-> 0]
    /\ lock = NoThread
    /\ cached = [th \in Threads |-> {}]
    /\ parser = [th \in Threads |-> [l \in Languages |-> 0]]
    /\ made = 0

----------------------------------------------------------------------------
(* One syntax tree. *)

(* C++ reuses the rules for C. *)
PackOf(language) == IF language = "cpp" THEN "c" ELSE language

(* Wrong: a rule fires on the name of the call alone. *)
MatchesName(rule, call) == rule.call = call.call

(* A rule fires on a call of its name, on its receiver if it names one.     *)
Matches(rule, call) ==
    rule.call = call.call /\ rule.receiver \in {NoReceiver, call.receiver}

(* _build_finding(): the literal in the argument a rule reads, the          *)
(* algorithm of a rule and its library are each a text the registry knows   *)
(* ("known"), one it does not ("odd") or nothing ("none"); an argument that *)
(* is no literal is "absent".                                              *)
Unread(rule, call) == rule.reads = "algorithm" /\ call.literal = "absent"

(* What stands for the algorithm.  An argument that cannot be read leaves   *)
(* the rule's own, or else the name of its library: "jca" is no algorithm.  *)
Algorithm(rule, call) ==
    CASE rule.reads = "algorithm" /\ call.literal # "absent" -> call.literal
      [] Unread(rule, call) /\ rule.algorithm = "none" -> rule.library
      [] OTHER -> rule.algorithm

(* What the registry does not know is a weak literal.  Of an algorithm that *)
(* it knows, the rule may have read the name, the size or curve, or not.    *)
TierOf(rule, call) ==
    CASE Algorithm(rule, call) = "odd" -> "string_literal"
      [] Algorithm(rule, call) # "odd" /\ Unread(rule, call) -> "linked_library_unpinned"
      [] Algorithm(rule, call) # "odd" /\ rule.reads = "size" /\ call.literal # "known"
            -> "linked_library_pinned"
      [] OTHER -> "direct_api_call"

GivesUp(rule, call) ==
    \/ rule.skips /\ Unread(rule, call)
    \/ Algorithm(rule, call) = "none"

CallFindings(f) ==
    {Fact(f.path, <<p[1].id, TierOf(p[1], p[2])>>) :
        p \in {q \in Rules[PackOf(f.language)] \X f.calls :
                  Matches(q[1], q[2]) /\ ~GivesUp(q[1], q[2])}}

(* A library is reported once per file, however often it is included.       *)
ScanTree(f) == CallFindings(f) \cup {Fact(f.path, <<lib, "include">>) : lib \in f.includes}

----------------------------------------------------------------------------
(* The generator: at[th].todo are the files still to come. *)

File(th) == Head(at[th].todo)
Lang(th) == File(th).language

Here(th, pc) == job[th] # NoUnit /\ at[th].pc = pc
Goto(th, pc) == [pc |-> pc, todo |-> at[th].todo]

(* The next turn of the loop at line 210. *)
NextFile(th) == [pc |-> "file", todo |-> Tail(at[th].todo)]

StartSource(th, u) ==
    /\ u \in DOMAIN Files
    /\ Start(th, u, [pc |-> "file", todo |-> Files[u]])
    /\ NoFault /\ UNCHANGED <<grammars, parsers>>

WalkEnds(th) ==
    /\ Here(th, "file") /\ at[th].todo = <<>>
    /\ Finish(th, {})
    /\ NoFault /\ UNCHANGED <<grammars, parsers>>

(* What walk_files() passes over: no source, too large, gone. *)
Acceptable(f) == f.language \in Languages /\ f.acceptable

PassOver(th) ==
    /\ Here(th, "file") /\ at[th].todo # <<>> /\ ~Acceptable(File(th))
    /\ Resume(th, NextFile(th))
    /\ NoFault /\ UNCHANGED <<grammars, parsers>>

AtFile(th) == Here(th, "file") /\ at[th].todo # <<>> /\ Acceptable(File(th))

(* Wrong: one cache for all the threads that share a collector. *)
SharedOwner(th) == CHOOSE t \in Threads : TRUE

(* Whose cache a thread looks in: _local is a threading.local(). *)
Owner(th) == th

(* _parser() finds an entry in the cache of this thread: a parser, or the   *)
(* None of a grammar that would not load.                                   *)
UseParser(th) ==
    /\ AtFile(th)
    /\ Lang(th) \in cached[Owner(th)]
    /\ IF parser[Owner(th)][Lang(th)] # 0
       THEN Resume(th, Goto(th, "read"))
       ELSE Yield(th, {Trouble("parser", File(th).path)}, NextFile(th))
    /\ NoFault /\ UNCHANGED <<grammars, parsers>>

NeedParser(th) ==
    /\ AtFile(th)
    /\ Lang(th) \notin cached[Owner(th)]
    /\ Resume(th, Goto(th, "grammar"))
    /\ NoFault /\ UNCHANGED <<grammars, parsers>>

(* The entry made for the current language; the loop body begins again and  *)
(* now finds it.                                                            *)
Keep(th, handle) ==
    /\ cached' = [cached EXCEPT ![Owner(th)] = @ \cup {Lang(th)}]
    /\ parser' = [parser EXCEPT ![Owner(th)][Lang(th)] = handle]
    /\ Resume(th, Goto(th, "file"))
    /\ NoFault

KeepNewParser(th) == Keep(th, made + 1) /\ made' = made + 1
KeepNone(th)      == Keep(th, 0) /\ UNCHANGED made

(* _grammar(), line 62: the first look, without the lock. *)
GrammarThere(th) ==
    /\ Here(th, "grammar") /\ Lang(th) \in languages
    /\ KeepNewParser(th)
    /\ UNCHANGED grammars

GrammarMissing(th) ==
    /\ Here(th, "grammar") /\ Lang(th) \notin languages
    /\ Resume(th, Goto(th, "acquire"))
    /\ NoFault /\ UNCHANGED <<grammars, parsers>>

Acquire(th) ==
    /\ Here(th, "acquire") /\ lock = NoThread
    /\ lock' = th
    /\ Resume(th, Goto(th, "locked"))
    /\ NoFault /\ UNCHANGED <<languages, loads, parsers>>

(* Wrong: the second look is left out. *)
SecondLookSkipped(th) == TRUE

(* Line 67: the grammar is still missing, now that the lock is held. *)
StillMissing(th) == Lang(th) \notin languages

(* Somebody else loaded it while this thread waited. *)
LoadedMeanwhile(th) ==
    /\ Here(th, "locked") /\ ~StillMissing(th)
    /\ Resume(th, Goto(th, "loaded"))
    /\ NoFault /\ UNCHANGED <<grammars, parsers>>

(* It is to be imported, which takes as long as it takes. *)
LookAgain(th) ==
    /\ Here(th, "locked") /\ StillMissing(th)
    /\ Resume(th, Goto(th, "loading"))
    /\ NoFault /\ UNCHANGED <<grammars, parsers>>

(* The Language object, kept for the whole process.                         *)
LoadGrammar(th) ==
    /\ Here(th, "loading") /\ Lang(th) \in Installed
    /\ languages' = languages \cup {Lang(th)}
    /\ loads' = [loads EXCEPT ![Lang(th)] = @ + 1]
    /\ Resume(th, Goto(th, "loaded"))
    /\ NoFault /\ UNCHANGED <<lock, parsers>>

(* ImportError: the exception passes through the with statement. *)
LoadFails(th) ==
    /\ Here(th, "loading") /\ Lang(th) \notin Installed
    /\ Resume(th, Goto(th, "failed"))
    /\ NoFault /\ UNCHANGED <<grammars, parsers>>

ReleaseAndKeep(th) ==
    /\ Here(th, "loaded")
    /\ lock' = NoThread
    /\ KeepNewParser(th)
    /\ UNCHANGED <<languages, loads>>

(* Wrong: acquire() and release() without a with statement. *)
FreedOnSuccess == lock

(* Wrong: something else is cleared. *)
FreedOfWork == NoUnit

(* with _LANGUAGE_LOCK: left by an exception as well. *)
FreedByWith == NoThread

(* The exception, out of _grammar(), becomes a None in the cache. *)
ReleaseAndGiveUp(th) ==
    /\ Here(th, "failed")
    /\ lock' = FreedByWith
    /\ KeepNone(th)
    /\ UNCHANGED <<languages, loads>>

ReadFile(th) ==
    /\ Here(th, "read")
    /\ Resume(th, Goto(th, "parse"))
    /\ NoFault /\ UNCHANGED <<grammars, parsers>>

(* OSError: the file is gone or may not be read. *)
ReadFails(th) ==
    /\ Here(th, "read") /\ Fault
    /\ Yield(th, {Trouble("read", File(th).path)}, NextFile(th))
    /\ UNCHANGED <<grammars, parsers>>

(* The parser is at work from ReadFile() on; the tree is searched at once.  *)
ParseFile(th) ==
    /\ Here(th, "parse")
    /\ Yield(th, ScanTree(File(th)), NextFile(th))
    /\ NoFault /\ UNCHANGED <<grammars, parsers>>

ParseFails(th) ==
    /\ Here(th, "parse") /\ Fault
    /\ Yield(th, {Trouble("parse", File(th).path)}, NextFile(th))
    /\ UNCHANGED <<grammars, parsers>>

SourceStep(th) ==
    \/ WalkEnds(th) \/ PassOver(th) \/ UseParser(th) \/ NeedParser(th)
    \/ GrammarThere(th) \/ GrammarMissing(th) \/ Acquire(th)
    \/ LoadedMeanwhile(th) \/ LookAgain(th) \/ LoadGrammar(th) \/ LoadFails(th)
    \/ ReleaseAndKeep(th) \/ ReleaseAndGiveUp(th)
    \/ ReadFile(th) \/ ReadFails(th) \/ ParseFile(th) \/ ParseFails(th)
=============================================================================
