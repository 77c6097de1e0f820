---------------------------- MODULE CommandProofs ----------------------------
(***************************************************************************)
(* Theorems about Commands, for any targets, surfaces, command lines and   *)
(* bounds: what an exit code, a certificate and a resumed run can be       *)
(* relied upon for.                                                        *)
(***************************************************************************)
EXTENDS Commands, FiniteSetTheorems, TLAPS

(* No error on record, none of any target. *)
ErrorsAreOnRecord ==
    \A n \in DOMAIN root : root[n].errors = 0 =>
        \A t \in Targets : root[n].records[t] # Nothing => root[n].records[t].errors = 0

(* Runs named after the clock sort in the order in which they were made,   *)
(* and one of the names is the last.                                       *)
Timed(n) == n \in DOMAIN root /\ n # Reproducible

RunsInOrder ==
    /\ \A n \in DOMAIN root : root[n].born <= calls
    /\ \A n \in RunIds : Timed(n) => n <= clock
    /\ \A n, m \in RunIds : Timed(n) /\ Timed(m) /\ n <= m => root[n].born <= root[m].born
    /\ DOMAIN root # {} => \E m \in DOMAIN root : \A n \in DOMAIN root : n <= m

CommandInv ==
    /\ TypeOK /\ ErrorsAreOnRecord /\ RunsInOrder
    /\ OfflineIsSilent /\ CertificateCovers /\ ExitCodeIsTrue /\ ResumeExtendsTheLatest

----------------------------------------------------------------------------
(* What one command line does. *)

LEMMA NewRunType == TypeOK => NewRun \in Run
BY DEF TypeOK, NewRun, Run

LEMMA RunOfType ==
    ASSUME TypeOK, RunsInOrder, NEW call \in Calls
    PROVE  /\ RunOf(call) \in RunIds
           /\ call.resume /\ DOMAIN root # {} =>
                 RunOf(call) \in DOMAIN root /\ \A n \in DOMAIN root : n <= RunOf(call)
           /\ ~(call.resume /\ DOMAIN root # {}) => RunOf(call) \in {clock, Reproducible}
<1>1. clock \in RunIds /\ Reproducible \in RunIds
  BY CommandConstants DEF TypeOK, RunIds, Reproducible
<1>2. CASE call.resume /\ DOMAIN root # {}
  <2>1. DOMAIN root \subseteq Nat
    BY CommandConstants DEF TypeOK, RunIds, Reproducible
  <2>2. \E m \in DOMAIN root : \A n \in DOMAIN root : m >= n
    BY <1>2, <2>1 DEF RunsInOrder
  <2>3. LastRun \in DOMAIN root /\ \A n \in DOMAIN root : LastRun >= n
    BY <2>2 DEF LastRun, Max
  <2>4. LastRun \in Nat
    BY <2>1, <2>3
  <2>. QED  BY <1>2, <2>1, <2>3, <2>4 DEF RunOf, TypeOK
<1>3. CASE ~(call.resume /\ DOMAIN root # {})
  BY <1>1, <1>3 DEF RunOf
<1>. QED  BY <1>2, <1>3

(* A run that is opened: as it was, or with its records set aside.         *)
LEMMA OpenedIs ==
    ASSUME TypeOK, RunsInOrder, NEW call \in Calls
    PROVE  /\ Opened(call) \in Run
           /\ RunOf(call) \notin DOMAIN root => Opened(call) = NewRun
           /\ RunOf(call) \in DOMAIN root =>
                 LET run == root[RunOf(call)]
                 IN  /\ Opened(call).facts = run.facts /\ Opened(call).errors = run.errors
                     /\ Opened(call).asked = run.asked /\ Opened(call).born = run.born
                     /\ \/ Opened(call).records = run.records
                        \/ Opened(call).records = [t \in Targets |-> Nothing]
<1>1. CASE RunOf(call) \notin DOMAIN root
  BY <1>1, NewRunType DEF Opened
<1>2. CASE RunOf(call) \in DOMAIN root
  <2>. DEFINE run == root[RunOf(call)]
  <2>1. run \in Run
    BY <1>2 DEF TypeOK
  <2>2. Opened(call) \in {run, [run EXCEPT !.records = [t \in Targets |-> Nothing]]}
    BY <1>2 DEF Opened
  <2>. HIDE DEF run
  <2>3. [run EXCEPT !.records = [t \in Targets |-> Nothing]] \in Run
    BY <2>1 DEF Run
  <2>4. LET new == [run EXCEPT !.records = [t \in Targets |-> Nothing]]
        IN  /\ new.facts = run.facts /\ new.errors = run.errors /\ new.asked = run.asked
            /\ new.born = run.born /\ new.records = [t \in Targets |-> Nothing]
    BY <2>1 DEF Run
  <2>5. /\ Opened(call) \in Run
        /\ Opened(call).facts = run.facts /\ Opened(call).errors = run.errors
        /\ Opened(call).asked = run.asked /\ Opened(call).born = run.born
        /\ \/ Opened(call).records = run.records
           \/ Opened(call).records = [t \in Targets |-> Nothing]
    BY <2>1, <2>2, <2>3, <2>4
  <2>. QED  BY <1>2, <2>5 DEF run
<1>. QED  BY <1>1, <1>2

(* Counting errors. *)
LEMMA Counts ==
    ASSUME TypeOK, NEW call \in Calls, NEW failing \in SUBSET UnitsOf(call)
    PROVE  /\ Cardinality(failing) \in Nat /\ Cardinality(Unknown(call)) \in Nat
           /\ Cardinality(failing) = 0 => failing = {}
           /\ Cardinality(Unknown(call)) = 0 => Unknown(call) = {}
           /\ \A t \in Targets :
                 /\ FailedAt(t, failing) \in Nat
                 /\ FailedAt(t, failing) = 0 <=> \A s \in ALL_SURFACES : <<t, s>> \notin failing
<1>1. IsFiniteSet(Targets \X ALL_SURFACES)
  BY FS_Product, CommandConstants
<1>2. failing \subseteq Targets \X ALL_SURFACES
  BY CommandConstants DEF UnitsOf, Scanned, Known
<1>3. IsFiniteSet(failing)
  BY <1>1, <1>2, FS_Subset
<1>4. IsFiniteSet(Unknown(call))
  BY FS_Subset, CommandConstants DEF Unknown, Known
<1>5. ASSUME NEW t \in Targets
      PROVE  /\ FailedAt(t, failing) \in Nat
             /\ FailedAt(t, failing) = 0 <=> \A s \in ALL_SURFACES : <<t, s>> \notin failing
  <2>. DEFINE S == {s \in ALL_SURFACES : <<t, s>> \in failing}
  <2>1. IsFiniteSet(S)
    BY FS_Subset, CommandConstants
  <2>2. Cardinality(S) \in Nat /\ (Cardinality(S) = 0 <=> S = {})
    BY <2>1, FS_CardinalityType, FS_EmptySet
  <2>. QED  BY <2>2 DEF FailedAt
<1>. QED  BY <1>3, <1>4, <1>5, FS_CardinalityType, FS_EmptySet

LEMMA ErrorsAfterType ==
    ASSUME TypeOK, RunsInOrder, NEW call \in Calls, NEW failing \in SUBSET UnitsOf(call),
           NEW t \in Targets
    PROVE  /\ ErrorsBefore(call, t) \in Nat /\ ErrorsAfter(call, failing, t) \in Nat
           /\ Certified(call, failing, t) \in [errors: Nat, complete: BOOLEAN]
           /\ ErrorsAfter(call, failing, t) = 0 =>
                 /\ ErrorsBefore(call, t) = 0
                 /\ \A s \in ALL_SURFACES : <<t, s>> \notin failing
<1>1. Opened(call).records[t] \in {Nothing} \cup [errors: Nat, complete: BOOLEAN]
  BY OpenedIs DEF Run
<1>2. ErrorsBefore(call, t) \in Nat
  BY <1>1 DEF ErrorsBefore
<1>3. FailedAt(t, failing) \in Nat
      /\ (FailedAt(t, failing) = 0 <=> \A s \in ALL_SURFACES : <<t, s>> \notin failing)
  BY Counts
<1>4. ErrorsAfter(call, failing, t) \in Nat
      /\ (ErrorsAfter(call, failing, t) = 0 => ErrorsBefore(call, t) = 0 /\ FailedAt(t, failing) = 0)
  BY <1>2, <1>3 DEF ErrorsAfter
<1>5. (ErrorsAfter(call, failing, t) = 0) \in BOOLEAN
  OBVIOUS
<1>. QED  BY <1>2, <1>3, <1>4, <1>5 DEF Certified

LEMMA CertifiedIs ==
    ASSUME NEW call, NEW failing, NEW t
    PROVE  /\ Certified(call, failing, t).errors = ErrorsAfter(call, failing, t)
           /\ Certified(call, failing, t).complete <=> ErrorsAfter(call, failing, t) = 0
BY Zenon DEF Certified

(* The run a call leaves, field by field, whatever its CBOM. *)
Extends(call, failing, new) ==
    /\ new \in Run
    /\ new.facts = Opened(call).facts \cup (UnitsOf(call) \ failing)
    /\ new.errors = Opened(call).errors + Cardinality(Unknown(call)) + Cardinality(failing)
    /\ new.records = [t \in Targets |-> IF t \in Known(call) THEN Certified(call, failing, t)
                                        ELSE Opened(call).records[t]]
    /\ new.asked = [t \in Targets |-> IF t \in Scanned(call) THEN Built(call)
                                      ELSE Opened(call).asked[t]]
    /\ new.born = Opened(call).born

LEMMA JournalledIs ==
    ASSUME TypeOK, RunsInOrder, NEW call \in Calls, ~Refused(call),
           NEW failing \in SUBSET UnitsOf(call)
    PROVE  Extends(call, failing, Journalled(call, failing))
<1>. DEFINE run == Opened(call)
            new == Journalled(call, failing)
            facts == run.facts \cup (UnitsOf(call) \ failing)
            errors == run.errors + Cardinality(Unknown(call)) + Cardinality(failing)
            records == [t \in Targets |-> IF t \in Known(call) THEN Certified(call, failing, t)
                                          ELSE run.records[t]]
            asked == [t \in Targets |-> IF t \in Scanned(call) THEN Built(call) ELSE run.asked[t]]
<1>1. run \in Run
  BY OpenedIs
<1>2. new = [run EXCEPT !.facts = facts, !.errors = errors, !.records = records, !.asked = asked]
  BY DEF Journalled
<1>3. facts \in SUBSET (Targets \X ALL_SURFACES)
  <2>1. UnitsOf(call) \subseteq Targets \X ALL_SURFACES
    BY CommandConstants DEF UnitsOf, Scanned, Known
  <2>. QED  BY <1>1, <2>1 DEF Run
<1>4. errors \in Nat
  <2>1. run.errors \in Nat
    BY <1>1 DEF Run
  <2>. QED  BY <2>1, Counts
<1>5. records \in [Targets -> {Nothing} \cup [errors: Nat, complete: BOOLEAN]]
  BY <1>1, ErrorsAfterType DEF Run
<1>6. asked \in [Targets -> SUBSET ALL_SURFACES]
  <2>1. Built(call) \subseteq ALL_SURFACES
    BY DEF Built, Refused
  <2>. QED  BY <1>1, <2>1 DEF Run
<1>. HIDE DEF run, facts, errors, records, asked
<1>7. new \in Run
  BY <1>1, <1>2, <1>3, <1>4, <1>5, <1>6 DEF Run
<1>8. /\ new.facts = facts /\ new.errors = errors /\ new.records = records
      /\ new.asked = asked /\ new.born = run.born
  BY <1>1, <1>2 DEF Run
<1>. HIDE DEF new
<1>. QED  BY <1>7, <1>8 DEF Extends, run, new, facts, errors, records, asked

(* The CBOM goes over it and leaves the rest.                              *)
LEMMA WithOutputsIs ==
    ASSUME NEW run \in Run, NEW policy \in Policies
    PROVE  LET new == WithOutputs(run, policy)
           IN  /\ new \in Run /\ new.cbom = [facts |-> run.facts, policy |-> policy]
               /\ new.facts = run.facts /\ new.errors = run.errors
               /\ new.records = run.records /\ new.asked = run.asked /\ new.born = run.born
BY DEF WithOutputs, Run

LEMMA KeptRun ==
    ASSUME TypeOK, RunsInOrder, NEW call \in Calls, NEW run \in Run, Keep(call, run)
    PROVE  /\ DOMAIN root' = DOMAIN root \cup {RunOf(call)}
           /\ root'[RunOf(call)] = run
           /\ \A n \in DOMAIN root : n # RunOf(call) => root'[n] = root[n]
           /\ DOMAIN root' \subseteq RunIds /\ root' \in [DOMAIN root' -> Run]
BY RunOfType DEF Keep, TypeOK

(* The certificates of an opened run are those it had, or none.            *)
LEMMA OpenedCovers ==
    ASSUME TypeOK, RunsInOrder, CertificateCovers, NEW call \in Calls, NEW t \in Targets,
           Opened(call).records[t] # Nothing, Opened(call).records[t].complete
    PROVE  {t} \X (Opened(call).asked[t] \cap Surfaces[Kinds[t]]) \subseteq Opened(call).facts
<1>1. RunOf(call) \in DOMAIN root
  BY OpenedIs DEF NewRun
<1>. QED  BY <1>1, OpenedIs DEF CertificateCovers

LEMMA ExtendedCovers ==
    ASSUME TypeOK, RunsInOrder, CertificateCovers, NEW call \in Calls, ~Refused(call),
           NEW failing \in SUBSET UnitsOf(call), NEW run, Extends(call, failing, run),
           NEW t \in Targets, run.records[t] # Nothing, run.records[t].complete
    PROVE  {t} \X (run.asked[t] \cap Surfaces[Kinds[t]]) \subseteq run.facts
<1>1. CASE t \in Known(call)
  <2>1. ErrorsAfter(call, failing, t) = 0
    <3>1. run.records[t] = Certified(call, failing, t)
      BY <1>1 DEF Extends
    <3>. QED  BY <3>1, CertifiedIs
  <2>2. \A s \in ALL_SURFACES : <<t, s>> \notin failing
    BY <2>1, ErrorsAfterType
  <2>3. CASE t \in Scanned(call)
    <3>1. run.asked[t] = Built(call)
      BY <2>3 DEF Extends
    <3>2. ASSUME NEW s \in Built(call) \cap Surfaces[Kinds[t]] PROVE <<t, s>> \in run.facts
      <4>1. s \in ALL_SURFACES
        BY <3>2, CommandConstants DEF ALL_SURFACES
      <4>2. <<t, s>> \in UnitsOf(call) \ failing
        BY <2>2, <2>3, <3>2, <4>1 DEF UnitsOf
      <4>. QED  BY <4>2 DEF Extends
    <3>. QED  BY <3>1, <3>2
  <2>4. CASE t \notin Scanned(call)
    <3>1. Opened(call).records[t] # Nothing /\ Opened(call).records[t].complete
      BY <1>1, <2>4 DEF Scanned, Skipped
    <3>2. run.asked[t] = Opened(call).asked[t] /\ Opened(call).facts \subseteq run.facts
      BY <2>4 DEF Extends
    <3>. QED  BY <3>1, <3>2, OpenedCovers
  <2>. QED  BY <2>3, <2>4
<1>2. CASE t \notin Known(call)
  <2>1. run.records[t] = Opened(call).records[t] /\ run.asked[t] = Opened(call).asked[t]
        /\ Opened(call).facts \subseteq run.facts
    BY <1>2 DEF Extends, Scanned
  <2>. QED  BY <2>1, OpenedCovers
<1>. QED  BY <1>1, <1>2

(* A run without an error line has none in its records.                    *)
LEMMA ExtendedErrors ==
    ASSUME TypeOK, RunsInOrder, ErrorsAreOnRecord, NEW call \in Calls, ~Refused(call),
           NEW failing \in SUBSET UnitsOf(call), NEW run, Extends(call, failing, run),
           run.errors = 0
    PROVE  /\ Unknown(call) = {}
           /\ \A t \in Targets : run.records[t] # Nothing => run.records[t].errors = 0
           /\ \A t \in Known(call) : run.records[t].complete
<1>1. Opened(call).errors = 0 /\ failing = {} /\ Unknown(call) = {}
  <2>1. run.errors = Opened(call).errors + Cardinality(Unknown(call)) + Cardinality(failing)
    BY DEF Extends
  <2>2. Opened(call).errors \in Nat
    BY OpenedIs DEF Run
  <2>. QED  BY <2>1, <2>2, Counts
<1>2. ASSUME NEW t \in Targets, Opened(call).records[t] # Nothing
      PROVE  Opened(call).records[t].errors = 0
  <2>1. RunOf(call) \in DOMAIN root
    BY <1>2, OpenedIs DEF NewRun
  <2>. QED  BY <1>1, <1>2, <2>1, OpenedIs DEF ErrorsAreOnRecord
<1>3. ASSUME NEW t \in Known(call) PROVE ErrorsAfter(call, failing, t) = 0 /\ t \in Targets
  <2>1. t \in Targets
    BY CommandConstants DEF Known
  <2>2. FailedAt(t, failing) = 0
    BY <1>1, <2>1, Counts
  <2>3. ErrorsBefore(call, t) = 0
    BY <1>2, <2>1 DEF ErrorsBefore
  <2>. QED  BY <2>1, <2>2, <2>3 DEF ErrorsAfter
<1>4. \A t \in Targets : run.records[t] = IF t \in Known(call) THEN Certified(call, failing, t)
                                          ELSE Opened(call).records[t]
  BY DEF Extends
<1>. QED  BY <1>1, <1>2, <1>3, <1>4, CertifiedIs

(* The order of the names stays that of the commands.                      *)
LEMMA KeptOrder ==
    ASSUME TypeOK, RunsInOrder, NEW call \in Calls, ~Refused(call), NEW failing \in SUBSET UnitsOf(call),
           NEW run, Extends(call, failing, run), Keep(call, run), calls' = calls + 1, clock' = clock
    PROVE  /\ RunsInOrder'
           /\ call.resume /\ Reproducible \notin DOMAIN root' =>
                 \A n \in DOMAIN root' : root'[n].born <= root'[RunOf(call)].born
<1>. DEFINE r == RunOf(call)
<1>1. /\ DOMAIN root' = DOMAIN root \cup {r} /\ root'[r] = run
      /\ \A n \in DOMAIN root : n # r => root'[n] = root[n]
  BY KeptRun DEF Extends
<1>2. run.born = IF r \in DOMAIN root THEN root[r].born ELSE calls
  BY OpenedIs DEF Extends, NewRun
<1>3. /\ r \in RunIds /\ RunIds \subseteq Nat /\ DOMAIN root \subseteq RunIds
      /\ calls \in Nat /\ clock \in Nat /\ \A n \in DOMAIN root : root[n].born \in Nat
  BY RunOfType, CommandConstants DEF TypeOK, RunIds, Reproducible, Run
<1>4. r \notin DOMAIN root => r \in {clock, Reproducible}
  BY RunOfType
<1>5. call.resume /\ DOMAIN root # {} => r \in DOMAIN root /\ \A n \in DOMAIN root : n <= r
  BY RunOfType
<1>. HIDE DEF r
<1>6. \A n \in DOMAIN root' : root'[n].born <= calls'
  BY <1>1, <1>2, <1>3 DEF RunsInOrder
<1>7. \A n \in RunIds : Timed(n)' => n <= clock'
  <2>1. \A n \in RunIds : Timed(n)' => Timed(n) \/ n = clock
    BY <1>1, <1>4 DEF Timed, Reproducible
  <2>. QED  BY <1>3, <2>1 DEF RunsInOrder
<1>8. ASSUME NEW n \in RunIds, NEW m \in RunIds, Timed(n)', Timed(m)', n <= m
      PROVE  root'[n].born <= root'[m].born
  <2>1. CASE r \in DOMAIN root
    <3>1. root'[n].born = root[n].born /\ root'[m].born = root[m].born
      BY <1>1, <1>2, <1>8, <2>1 DEF Timed
    <3>2. Timed(n) /\ Timed(m)
      BY <1>1, <1>8, <2>1 DEF Timed, Reproducible
    <3>. QED  BY <1>8, <3>1, <3>2 DEF RunsInOrder
  <2>2. CASE r \notin DOMAIN root
    <3>1. CASE n # r /\ m # r
      BY <1>1, <1>8, <3>1 DEF RunsInOrder, Timed, Reproducible
    <3>2. CASE m = r
      BY <1>1, <1>2, <1>3, <1>8, <2>2, <3>2 DEF RunsInOrder, Timed, Reproducible
    <3>3. CASE n = r /\ m # r
      <4>1. r = clock /\ m <= clock
        BY <1>1, <1>4, <1>8, <2>2, <3>3 DEF RunsInOrder, Timed, Reproducible
      <4>. QED  BY <1>3, <1>8, <3>3, <4>1
    <3>. QED  BY <3>1, <3>2, <3>3
  <2>. QED  BY <2>1, <2>2
<1>9. \E m \in DOMAIN root' : \A n \in DOMAIN root' : n <= m
  <2>1. CASE DOMAIN root = {}
    BY <1>1, <1>3, <2>1
  <2>2. CASE DOMAIN root # {}
    <3>1. PICK m \in DOMAIN root : \A n \in DOMAIN root : n <= m
      BY <2>2 DEF RunsInOrder
    <3>2. m \in Nat /\ r \in Nat
      BY <1>3
    <3>3. CASE r <= m
      BY <1>1, <3>1, <3>3
    <3>4. CASE m <= r
      <4>1. \A n \in DOMAIN root : n \in Nat
        BY <1>3
      <4>2. \A n \in DOMAIN root : n <= r
        BY <3>1, <3>2, <3>4, <4>1
      <4>. QED  BY <1>1, <3>2, <4>2
    <3>. QED  BY <3>2, <3>3, <3>4
  <2>. QED  BY <2>1, <2>2
<1>10. RunsInOrder'
  BY <1>6, <1>7, <1>8, <1>9 DEF RunsInOrder
<1>11. ASSUME call.resume, Reproducible \notin DOMAIN root', NEW n \in DOMAIN root'
       PROVE  root'[n].born <= root'[r].born
  <2>1. n <= r
    BY <1>1, <1>3, <1>5, <1>11
  <2>. QED  BY <1>1, <1>3, <1>8, <1>11, <2>1 DEF Timed, Reproducible
<1>. QED  BY <1>10, <1>11 DEF r

----------------------------------------------------------------------------
(* The commands. *)

(* A surface that needs the network is in no unit of an offline call.      *)
LEMMA NobodyDialled ==
    ASSUME NEW call \in Calls, NEW failing, Collect(call, failing)
    PROVE  dialled' \subseteq Targets /\ (call.offline => dialled' = {})
<1>1. UnitsOf(call) \subseteq Targets \X ALL_SURFACES
  BY CommandConstants DEF UnitsOf, Scanned, Known
<1>2. call.offline => \A unit \in UnitsOf(call) : unit[2] \notin Network
  BY DEF UnitsOf, Built
<1>. QED  BY <1>1, <1>2 DEF Collect

LEMMA CollectTypes ==
    ASSUME TypeOK, NEW call \in Calls, NEW failing, Collect(call, failing)
    PROVE  /\ failing \in SUBSET UnitsOf(call) /\ ~Refused(call)
           /\ calls' = calls + 1 /\ clock' = clock /\ pack' = pack
           /\ calls' \in 0..MaxCalls /\ faults' \in 0..MaxFaults
<1>1. failing \in SUBSET UnitsOf(call)
  BY DEF Collect
<1>2. Cardinality(failing) \in Nat
  BY <1>1, Counts
<1>. QED  BY <1>1, <1>2, CommandConstants DEF Collect, Turn, TypeOK

(* A scan that was not refused, however it ends.                           *)
LEMMA ScanEnds ==
    ASSUME CommandInv, NEW call \in Calls, NEW failing, Collect(call, failing),
           NEW run, Extends(call, failing, run), Keep(call, run),
           NEW code \in 0..3, Tell(call, code),
           code = 3 <=> Known(call) = {},
           code \in {0, 2} => run.cbom = [facts |-> run.facts, policy |-> PolicyOf(call)],
           code = 2 => run.errors > 0,
           code = 0 => run.errors = 0
    PROVE  CommandInv'
<1>. USE DEF CommandInv
<1>1. /\ failing \in SUBSET UnitsOf(call) /\ ~Refused(call)
      /\ calls' = calls + 1 /\ clock' = clock /\ pack' = pack
      /\ calls' \in 0..MaxCalls /\ faults' \in 0..MaxFaults
  BY CollectTypes
<1>2. /\ DOMAIN root' = DOMAIN root \cup {RunOf(call)} /\ root'[RunOf(call)] = run
      /\ \A n \in DOMAIN root : n # RunOf(call) => root'[n] = root[n]
      /\ DOMAIN root' \subseteq RunIds /\ root' \in [DOMAIN root' -> Run]
  BY KeptRun DEF Extends
<1>3. told' = [call |-> call, run |-> RunOf(call), code |-> code] /\ RunOf(call) \in RunIds
  BY RunOfType DEF Tell
<1>4. TypeOK'
  <2>1. clock' \in 1..MaxClock /\ pack' \in {Nothing} \cup [run: Run, policy: Policies]
    BY <1>1 DEF TypeOK
  <2>2. told' \in [call: Calls, run: RunIds, code: 0..3]
    BY <1>3
  <2>3. dialled' \subseteq Targets
    BY NobodyDialled
  <2>4. told' \in {Nothing} \cup [call: Calls, run: RunIds, code: 0..3]
    BY <2>2
  <2>. QED  BY <1>1, <1>2, <2>1, <2>3, <2>4, Zenon DEF TypeOK
<1>5. ErrorsAreOnRecord'
  <2>1. run.errors = 0 => \A t \in Targets : run.records[t] # Nothing => run.records[t].errors = 0
    BY <1>1, ExtendedErrors
  <2>. QED  BY <1>2, <2>1 DEF ErrorsAreOnRecord
<1>6. RunsInOrder' /\ ResumeExtendsTheLatest'
  BY <1>1, <1>3, KeptOrder DEF ResumeExtendsTheLatest
<1>7. OfflineIsSilent'
  BY <1>3, NobodyDialled DEF OfflineIsSilent
<1>8. CertificateCovers'
  BY <1>1, <1>2, ExtendedCovers DEF CertificateCovers
<1>9. ExitCodeIsTrue'
  <2>1. told'.call = call /\ root'[told'.run] = run /\ told'.code = code
    BY <1>2, <1>3
  <2>2. code = 0 => Unknown(call) = {} /\ \A t \in call.targets : run.records[t].complete
    BY <1>1, ExtendedErrors DEF Unknown
  <2>. QED  BY <2>1, <2>2 DEF ExitCodeIsTrue
<1>. QED  BY <1>4, <1>5, <1>6, <1>7, <1>8, <1>9

LEMMA RefusalKeeps ==
    ASSUME CommandInv, NEW call \in Calls, RefuseScan(call)
    PROVE  CommandInv'
<1>. USE DEF CommandInv
<1>1. /\ told' = [call |-> call, run |-> RunOf(call), code |-> 1] /\ RunOf(call) \in RunIds
      /\ UNCHANGED <<clock, root, pack, faults>> /\ calls' = calls + 1 /\ dialled' = {}
      /\ calls' \in 0..MaxCalls /\ Refused(call)
  BY RunOfType, CommandConstants DEF RefuseScan, Turn, Tell, TypeOK
<1>2. TypeOK'
  BY <1>1 DEF TypeOK
<1>3. RunsInOrder'
  <2>1. calls \in Nat /\ \A n \in DOMAIN root : root[n].born \in Nat
    BY DEF TypeOK, Run
  <2>. QED  BY <1>1, <2>1 DEF RunsInOrder, Timed
<1>4. ErrorsAreOnRecord' /\ CertificateCovers'
  BY <1>1 DEF ErrorsAreOnRecord, CertificateCovers
<1>5. OfflineIsSilent' /\ ExitCodeIsTrue' /\ ResumeExtendsTheLatest'
  BY <1>1 DEF OfflineIsSilent, ExitCodeIsTrue, ResumeExtendsTheLatest
<1>. QED  BY <1>2, <1>3, <1>4, <1>5

LEMMA CommandKeeps ==
    ASSUME CommandInv, NEW call \in Calls, CommandLine(call)
    PROVE  CommandInv'
<1>1. CASE RefuseScan(call)
  BY <1>1, RefusalKeeps
<1>2. TypeOK /\ RunsInOrder
  BY DEF CommandInv
<1>3. ASSUME NEW failing, Collect(call, failing)
      PROVE  Extends(call, failing, Journalled(call, failing)) /\ ~Refused(call)
  BY <1>2, <1>3, CollectTypes, JournalledIs
<1>4. NothingResolved(call) <=> Known(call) = {}
  BY DEF NothingResolved, Scanned, Skipped
<1>5. CASE ScanNothing(call)
  <2>1. /\ Collect(call, {}) /\ Known(call) = {} /\ Tell(call, 3)
        /\ Keep(call, Journalled(call, {}))
    BY <1>4, <1>5 DEF ScanNothing
  <2>. DEFINE run == Journalled(call, {})
              code == 3
  <2>2. Extends(call, {}, run) /\ Keep(call, run) /\ Tell(call, code)
    BY <1>3, <2>1
  <2>3. code \in 0..3 /\ code = 3 /\ code # 2 /\ code # 0 /\ code \notin {0, 2}
    OBVIOUS
  <2>. HIDE DEF run, code
  <2>. QED  BY <2>1, <2>2, <2>3, ScanEnds
<1>6. ASSUME NEW failing, ScanWithBadPolicy(call, failing) PROVE CommandInv'
  <2>1. /\ Collect(call, failing) /\ Known(call) # {} /\ Tell(call, 1)
        /\ Keep(call, Journalled(call, failing))
    BY <1>4, <1>6 DEF ScanWithBadPolicy
  <2>. DEFINE run == Journalled(call, failing)
              code == 1
  <2>2. Extends(call, failing, run) /\ Keep(call, run) /\ Tell(call, code)
    BY <1>3, <2>1
  <2>3. code \in 0..3 /\ code # 3 /\ code # 2 /\ code # 0 /\ code \notin {0, 2}
    OBVIOUS
  <2>. HIDE DEF run, code
  <2>. QED  BY <2>1, <2>2, <2>3, ScanEnds
<1>7. ASSUME NEW failing, Scan(call, failing) PROVE CommandInv'
  <2>. DEFINE run == WithOutputs(Journalled(call, failing), PolicyOf(call))
              code == IF run.errors > 0 THEN 2 ELSE 0
  <2>1. Collect(call, failing) /\ Keep(call, run) /\ Tell(call, code) /\ Known(call) # {}
        /\ PolicyOf(call) \in Policies
    BY <1>4, <1>7 DEF Scan
  <2>2. /\ run \in Run /\ Extends(call, failing, run)
        /\ run.cbom = [facts |-> run.facts, policy |-> PolicyOf(call)]
    <3>. DEFINE base == Journalled(call, failing)
    <3>1. Extends(call, failing, base) /\ base \in Run
      BY <1>3, <2>1 DEF Extends
    <3>. HIDE DEF base
    <3>2. LET new == WithOutputs(base, PolicyOf(call))
          IN  /\ new \in Run /\ new.cbom = [facts |-> base.facts, policy |-> PolicyOf(call)]
              /\ new.facts = base.facts /\ new.errors = base.errors
              /\ new.records = base.records /\ new.asked = base.asked /\ new.born = base.born
      BY <2>1, <3>1, WithOutputsIs
    <3>3. run = WithOutputs(base, PolicyOf(call))
      BY DEF base
    <3>. HIDE DEF run
    <3>. QED  BY <3>1, <3>2, <3>3 DEF Extends
  <2>. HIDE DEF run
  <2>3. run.errors \in Nat
    BY <2>2 DEF Run
  <2>4. code \in {0, 2} /\ (code = 2 => run.errors > 0) /\ (code = 0 => run.errors = 0)
    BY <2>3
  <2>. HIDE DEF code
  <2>. QED  BY <2>1, <2>2, <2>4, ScanEnds
<1>. QED  BY <1>1, <1>5, <1>6, <1>7 DEF CommandLine

(* CommandInv holds after every sequence of commands, ticks and packs.     *)
THEOREM CommandInvariant == Spec => []CommandInv
<1>1. Init => CommandInv
  <2>. SUFFICES ASSUME Init PROVE CommandInv
    OBVIOUS
  <2>1. TypeOK
    BY CommandConstants DEF Init, TypeOK
  <2>2. ErrorsAreOnRecord /\ RunsInOrder /\ CertificateCovers
    BY DEF Init, ErrorsAreOnRecord, RunsInOrder, Timed, CertificateCovers
  <2>3. OfflineIsSilent /\ ExitCodeIsTrue /\ ResumeExtendsTheLatest
    BY DEF Init, OfflineIsSilent, ExitCodeIsTrue, ResumeExtendsTheLatest
  <2>. QED  BY <2>1, <2>2, <2>3 DEF CommandInv
<1>2. CommandInv /\ [Next]_vars => CommandInv'
  <2>. SUFFICES ASSUME CommandInv, [Next]_vars PROVE CommandInv'
    OBVIOUS
  <2>1. ASSUME NEW call \in Calls, CommandLine(call) PROVE CommandInv'
    BY <2>1, CommandKeeps
  <2>2. ASSUME UNCHANGED <<root, told, dialled>>, TypeOK', clock' \in Nat, clock <= clock',
               calls' \in Nat, calls <= calls'
        PROVE  CommandInv'
    <3>1. RunsInOrder'
      <4>1. /\ calls \in Nat /\ clock \in Nat /\ RunIds \subseteq Nat
            /\ \A n \in DOMAIN root : root[n].born \in Nat
        BY DEF CommandInv, TypeOK, Run, RunIds
      <4>. QED  BY <2>2, <4>1 DEF CommandInv, RunsInOrder, Timed
    <3>. QED  BY <2>2, <3>1 DEF CommandInv, ErrorsAreOnRecord, OfflineIsSilent, CertificateCovers,
                                ExitCodeIsTrue, ResumeExtendsTheLatest
  <2>3. ASSUME NEW n \in RunIds, Evidence(n) PROVE CommandInv'
    <3>1. TypeOK' /\ clock' = clock /\ clock \in Nat /\ calls \in Nat /\ calls' = calls + 1
      BY <2>3, CommandConstants DEF Evidence, CommandInv, TypeOK
    <3>. QED  BY <2>2, <2>3, <3>1 DEF Evidence
  <2>4. CASE Tick
    <3>1. TypeOK' /\ clock' = clock + 1 /\ clock \in Nat /\ calls \in Nat /\ calls' = calls
      BY <2>4, CommandConstants DEF Tick, CommandInv, TypeOK
    <3>. QED  BY <2>2, <2>4, <3>1 DEF Tick
  <2>5. CASE UNCHANGED vars
    <3>1. TypeOK' /\ clock' = clock /\ clock \in Nat /\ calls \in Nat /\ calls' = calls
      BY <2>5 DEF vars, CommandInv, TypeOK
    <3>. QED  BY <2>2, <2>5, <3>1 DEF vars
  <2>. QED  BY <2>1, <2>3, <2>4, <2>5 DEF Next
<1>. QED  BY <1>1, <1>2, PTL DEF Spec

(* Every variable of the command line has its type. *)
THEOREM CommandTypes == Spec => []TypeOK
<1>1. CommandInv => TypeOK
  BY DEF CommandInv
<1>. QED  BY <1>1, CommandInvariant, PTL

(* --offline contacts nobody, whatever surfaces there are and whichever     *)
(* were asked for.                                                          *)
THEOREM OfflineStaysSilent == Spec => []OfflineIsSilent
<1>1. CommandInv => OfflineIsSilent
  BY DEF CommandInv
<1>. QED  BY <1>1, CommandInvariant, PTL

(* What a manifest certifies is on record, through any number of resumed,   *)
(* repeated and failing commands.                                           *)
THEOREM CertificatesCover == Spec => []CertificateCovers
<1>1. CommandInv => CertificateCovers
  BY DEF CommandInv
<1>. QED  BY <1>1, CommandInvariant, PTL

(* The exit code says what is in the directory; the proof needs that a      *)
(* record has errors only if errors.jsonl has a line.                       *)
THEOREM ExitCodesAreTrue == Spec => []ExitCodeIsTrue
<1>1. CommandInv => ExitCodeIsTrue
  BY DEF CommandInv
<1>. QED  BY <1>1, CommandInvariant, PTL

(* --resume picks the run that was made last while every name is a time;    *)
(* two runs within a second are one.                                        *)
THEOREM ResumesTheLatest == Spec => []ResumeExtendsTheLatest
<1>1. CommandInv => ResumeExtendsTheLatest
  BY DEF CommandInv
<1>. QED  BY <1>1, CommandInvariant, PTL

----------------------------------------------------------------------------
(* Where the policy of a pack can be trusted.                              *)

(* No command line names a policy of its own, or none that can be loaded.  *)
OnlyThePackaged == \A call \in Calls : PolicyOf(call) \in Policies => PolicyOf(call) = Packaged

Default(run) == run.cbom # Nothing => run.cbom.policy = Packaged

PolicyInv ==
    /\ \A n \in DOMAIN root : Default(root[n])
    /\ pack # Nothing => pack.policy = Packaged /\ Default(pack.run)

(* Journalling leaves the CBOM of the directory that is opened.            *)
LEMMA JournalledCbom ==
    ASSUME TypeOK, RunsInOrder, PolicyInv, NEW call \in Calls, NEW failing
    PROVE  Default(Journalled(call, failing))
<1>1. CASE RunOf(call) \notin DOMAIN root
  <2>1. Opened(call) = NewRun
    BY <1>1, OpenedIs
  <2>2. NewRun.cbom = Nothing
    BY DEF NewRun
  <2>3. Journalled(call, failing).cbom = Nothing
    BY <2>1, <2>2, OpenedIs DEF Journalled, Run
  <2>. QED  BY <2>3 DEF Default
<1>2. CASE RunOf(call) \in DOMAIN root
  <2>1. PICK run : run = root[RunOf(call)]
    OBVIOUS
  <2>2. run \in Run /\ Default(run)
    BY <1>2, <2>1 DEF TypeOK, PolicyInv
  <2>3. Opened(call).cbom = run.cbom /\ Opened(call) \in Run
    <3>1. Opened(call) \in {run, [run EXCEPT !.records = [t \in Targets |-> Nothing]]}
      BY <1>2, <2>1 DEF Opened
    <3>. QED  BY <2>2, <3>1, OpenedIs DEF Run
  <2>4. Journalled(call, failing).cbom = run.cbom
    BY <2>3 DEF Journalled, Run
  <2>. QED  BY <2>2, <2>4 DEF Default
<1>. QED  BY <1>1, <1>2

LEMMA KeptPolicies ==
    ASSUME PolicyInv, NEW call, NEW run, Keep(call, run), Default(run), pack' = pack
    PROVE  PolicyInv'
BY DEF PolicyInv, Keep, Default

(* PackShowsThePolicy does not hold of every series of commands; what it    *)
(* takes is that no scan is given a policy: a pack always shows the one of  *)
(* the package (cli.py cmd_evidence, evidence.py:4-7).                      *)
THEOREM PacksShowThePackaged ==
    ASSUME OnlyThePackaged
    PROVE  Spec => []PackShowsThePolicy
<1>1. Init => PolicyInv
  BY DEF Init, PolicyInv
<1>2. CommandInv /\ PolicyInv /\ [Next]_vars => PolicyInv'
  <2>. SUFFICES ASSUME CommandInv, PolicyInv, [Next]_vars PROVE PolicyInv'
    OBVIOUS
  <2>1. TypeOK /\ RunsInOrder
    BY DEF CommandInv
  <2>2. ASSUME NEW call \in Calls, CommandLine(call) PROVE PolicyInv'
    <3>1. CASE RefuseScan(call)
      BY <3>1 DEF RefuseScan, Turn, PolicyInv
    <3>2. CASE ScanNothing(call)
      BY <2>1, <3>2, JournalledCbom, KeptPolicies DEF ScanNothing, Collect, Turn
    <3>3. ASSUME NEW failing, ScanWithBadPolicy(call, failing) PROVE PolicyInv'
      BY <2>1, <3>3, JournalledCbom, KeptPolicies DEF ScanWithBadPolicy, Collect, Turn
    <3>4. ASSUME NEW failing, Scan(call, failing) PROVE PolicyInv'
      <4>1. PICK base : base = Journalled(call, failing)
        OBVIOUS
      <4>2. base \in Run /\ PolicyOf(call) = Packaged /\ pack' = pack
        BY <2>1, <3>4, <4>1, CollectTypes, JournalledIs DEF Scan, Extends, OnlyThePackaged
      <4>3. Keep(call, WithOutputs(base, PolicyOf(call)))
        BY <3>4, <4>1 DEF Scan
      <4>4. WithOutputs(base, PolicyOf(call)).cbom.policy = Packaged
        BY <4>2 DEF WithOutputs, Run
      <4>. QED  BY <4>2, <4>3, <4>4, KeptPolicies DEF Default
    <3>. QED  BY <2>2, <3>1, <3>2, <3>3, <3>4 DEF CommandLine
  <2>3. ASSUME NEW n \in RunIds, Evidence(n) PROVE PolicyInv'
    BY <2>3 DEF Evidence, PolicyInv
  <2>4. CASE Tick
    BY <2>4 DEF Tick, PolicyInv
  <2>5. CASE UNCHANGED vars
    BY <2>5 DEF vars, PolicyInv
  <2>. QED  BY <2>2, <2>3, <2>4, <2>5 DEF Next
<1>3. PolicyInv => PackShowsThePolicy
  BY DEF PolicyInv, Default, PackShowsThePolicy
<1>. QED  BY <1>1, <1>2, <1>3, CommandInvariant, PTL DEF Spec
=============================================================================
