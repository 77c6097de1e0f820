-------------------------- MODULE ServiceInvariant --------------------------
(* The inductive strengthening of what Service promises, in named parts.   *)
EXTENDS Service

Lone(t) == job[t] # Free /\ job[t].alone

(* What a reader may rely on. *)
Healthy ==
    /\ manifest \notin Unreadable /\ cbom \notin Unreadable
    /\ found # {} => manifest = Saved /\ cbom = found

(* A scan that is alone is the only one, and one that is not is noted.     *)
LoneScanIsOnly ==
    \A t, u \in Threads : Scans(t) /\ Lone(t) /\ Scans(u) => u = t

OverlapsAreNoted == ~disturbed => \A t \in Threads : Scans(t) => Lone(t)

(* How far a lone scan has come with the files, which nobody else writes.  *)
InStep(j) ==
    /\ j.step = "manifest" => manifest = Empty
    /\ j.step \in {"open", "analyse", "truncate", "write"} => manifest = Saved
    /\ j.step \in {"truncate", "write"} => j.got = found
    /\ j.step = "write" => cbom = Empty

LoneScanInStep == \A t \in Threads : Scans(t) /\ Lone(t) => InStep(job[t])

HealthyUntilScanned ==
    (~disturbed /\ \A t \in Threads : Scans(t) => job[t].step = "plan") => Healthy

(* A reader that is still alone reads a healthy directory. *)
LoneReadersUndisturbed ==
    \A t \in Threads :
        Active(t) /\ Lone(t) /\ ~Scans(t) =>
            ~disturbed /\ \A u \in Threads : ~Scans(u)

(* What get_run read, from its first analysis to its answer. *)
ReadsRecord(j) ==
    /\ j.onRecord \subseteq found
    /\ j.kind = "run" /\ j.step \in {"summary", "ok"} =>
          j.onRecord \subseteq j.got /\ j.got \subseteq found

RunsReadTheRecord == \A t \in Threads : job[t] # Free => ReadsRecord(job[t])

SInv ==
    /\ LoneScanIsOnly /\ OverlapsAreNoted /\ LoneScanInStep
    /\ HealthyUntilScanned /\ LoneReadersUndisturbed
    /\ RunsReadTheRecord /\ FailsOnlyIfDisturbed

(* Whatever is in cbom.json, and whatever a scan is about to put there, is *)
(* on record.                                                              *)
CbomIsRecorded ==
    /\ cbom \notin {Absent, Empty, Torn} => cbom \subseteq found
    /\ \A t \in Threads :
          job[t] # Free /\ job[t].kind = "post" => job[t].got \subseteq found

(* What a pack promises when it is complete. *)
Verifies(j) ==
    /\ j.copied = j.hashed
    /\ IF j.copied[1] = Absent THEN j.copied[2] \in {Absent, {}}
       ELSE j.copied[2] = j.copied[1]

(* How far a lone pack has come: it holds, and has hashed, what the files  *)
(* still hold.                                                             *)
PackInStep(j) ==
    LET findings == Content("findings")
    IN  /\ j.step = "open" => j.copied = <<>> /\ j.hashed = <<>>
        /\ j.step = "copy" => j.copied \in {<<>>, <<findings>>} /\ j.hashed = j.copied
        /\ j.step = "hash" =>
              \/ j.copied = <<findings>> /\ j.hashed = <<>>
              \/ j.copied = <<findings, cbom>> /\ j.hashed = <<findings>>
        /\ j.step = "ok" => Verifies(j)

LonePacksInStep ==
    \A t \in Threads : Lone(t) /\ job[t].kind = "pack" => PackInStep(job[t])

PackInv == CbomIsRecorded /\ LonePacksInStep
=============================================================================
