---------------------------- MODULE MCCommands ----------------------------
(* Command lines over a tree, an endpoint and a target that is neither. *)
EXTENDS Commands, TLC

CONSTANTS tree, host, nowhere, own, packaged, unreadable

MCKinds    == tree :> "directory" @@ host :> "endpoint" @@ nowhere :> "unknown"
MCSurfaces == "directory" :> {"source", "elf"} @@ "endpoint" :> {"tls"} @@ "unknown" :> {}

Plain(T) == [targets |-> T, surfaces |-> NotGiven, offline |-> FALSE, resume |-> FALSE,
             reproducible |-> FALSE, policy |-> NotGiven]
Resume(T) == [Plain(T) EXCEPT !.resume = TRUE]

MCCalls == {
    Plain({tree, host}), Resume({tree, host}), Resume({tree, nowhere}), Plain({nowhere}),
    [Plain({tree}) EXCEPT !.surfaces = {"source"}],
    [Plain({tree, host}) EXCEPT !.offline = TRUE],
    [Plain({host}) EXCEPT !.offline = TRUE, !.surfaces = {"tls"}],
    [Resume({tree}) EXCEPT !.surfaces = {"source", "firmware"}],
    [Resume({tree, host}) EXCEPT !.offline = TRUE, !.policy = own],
    [Plain({tree}) EXCEPT !.reproducible = TRUE],
    [Plain({tree}) EXCEPT !.policy = unreadable]}
=============================================================================
