-------------------------------- MODULE TLS --------------------------------
(***************************************************************************)
(* qdarpan/collectors/tls.py: one handshake with an endpoint, what it says *)
(* of protocol, suite and certificate, and a handshake more for every      *)
(* version and every curve that is probed.  What two peers agree on is     *)
(* OpenSSL's business; a server may be reconfigured at any time.  Suites   *)
(* are sequences of fragments, so that <<"DH", "E">> is part of            *)
(* <<"EC", "DH", "E">>.                                                    *)
(***************************************************************************)
EXTENDS Collect, FiniteSetsExt, SequencesExt

CONSTANTS
    Endpoints,        \* units on an endpoint
    Configurations,   \* what a server may be set up to: versions, suites, groups, certificate
    FirstSetup,       \* FirstSetup[u]: the configuration the server starts with
    ClientVersions,   \* versions the context offers by default, 10 to 13
    Probed,           \* {"version", "group"}: the probes that were asked for
    Unsettable,       \* probes that OpenSSL was built without
    MaxChanges        \* bound: reconfigurations

VARIABLES
    server,           \* the configuration behind each endpoint
    met,              \* the handshakes that were completed with it
    changes

tlsVars == <<server, met, changes>>

TLSInit ==
    server = FirstSetup /\ met = [u \in Endpoints |-> {}] /\ changes = 0

----------------------------------------------------------------------------
(* Suites. *)

(* The fragments to look for, in this order, and what they say. *)
SUITE_TOKENS == <<
    [token |-> <<"EC", "DH", "E">>,                  says |-> "ECDH"],
    [token |-> <<"EC", "DH">>,                       says |-> "ECDH"],
    [token |-> <<"DH", "E">>,                        says |-> "DH"],
    [token |-> <<"AES", "_", "256", "_", "GCM">>,    says |-> "AES-256-GCM"],
    [token |-> <<"AES", "_", "128", "_", "GCM">>,    says |-> "AES-128-GCM"],
    [token |-> <<"AES", "256", "-", "GCM">>,         says |-> "AES-256-GCM"],
    [token |-> <<"AES", "128", "-", "GCM">>,         says |-> "AES-128-GCM"],
    [token |-> <<"AES", "_", "256", "_", "CBC">>,    says |-> "AES-256-CBC"],
    [token |-> <<"AES", "_", "128", "_", "CBC">>,    says |-> "AES-128-CBC"],
    [token |-> <<"AES", "256", "-", "SHA">>,         says |-> "AES-256-CBC"],
    [token |-> <<"AES", "128", "-", "SHA">>,         says |-> "AES-128-CBC"],
    [token |-> <<"CHACHA20">>,                       says |-> "ChaCha20"],
    [token |-> <<"3", "DES">>,                       says |-> "3DES"],
    [token |-> <<"DES", "-", "CBC", "3">>,           says |-> "3DES"],
    [token |-> <<"RC4">>,                            says |-> "RC4"],
    [token |-> <<"SHA", "384">>,                     says |-> "SHA-384"],
    [token |-> <<"SHA", "256">>,                     says |-> "SHA-256"],
    [token |-> <<"_", "SHA">>,                       says |-> "SHA-1"] >>

(* The first occurrence of a token is consumed. *)
Consumed(row, left) == ReplaceFirstSubSeq(<<>>, row.token, left)

TryToken(sofar, row) ==
    IF row.token \in SubSeqs(sofar.left)
    THEN [left |-> Consumed(row, sofar.left), found |-> sofar.found \cup {row.says}]
    ELSE sofar

(* _suite_findings() *)
SuiteParts ==
    [suite \in UNION {s.suites : s \in Configurations} |->
        FoldLeft(TryToken, [left |-> suite.name, found |-> {}], SUITE_TOKENS).found]

----------------------------------------------------------------------------
(* Handshakes. *)

Groups == {"P-256", "P-384", "P-521", "X25519"}

(* What a client that offers these versions and groups and every suite can  *)
(* come to agree on with this server: the latest common version, and a      *)
(* suite of that version; a suite with elliptic curves needs a common one.  *)
Agreements(s, offer) ==
    LET common == offer.versions \cap s.versions
    IN  {[version |-> Max(common), suite |-> suite, curves |-> offer.groups] :
            suite \in {x \in s.suites : /\ common # {}
                                        /\ x.modern = (Max(common) = 13)
                                        /\ x.agree = "ec" => offer.groups \cap s.groups # {}}}

AnyOffer == [versions |-> ClientVersions, groups |-> Groups]

(* Wrong: only minimum_version is set. *)
OfferFrom(probe) ==
    IF probe[1] = "version" THEN [AnyOffer EXCEPT !.versions = probe[2]..13]
    ELSE [AnyOffer EXCEPT !.groups = {probe[2]}]

(* The context of a probe: this version and no other, or this curve. *)
Offer(probe) ==
    IF probe[1] = "version" THEN [AnyOffer EXCEPT !.versions = {probe[2]}]
    ELSE [AnyOffer EXCEPT !.groups = {probe[2]}]

(* _PROTOCOL_VERSIONS, then PROBE_CURVES, if they are asked for. *)
Probes ==
    (IF "version" \in Probed
     THEN << <<"version", 10>>, <<"version", 11>>, <<"version", 12>>, <<"version", 13>> >>
     ELSE <<>>)
    \o (IF "group" \in Probed
        THEN << <<"group", "P-256">>, <<"group", "P-384">>, <<"group", "P-521">>,
                <<"group", "X25519">> >>
        ELSE <<>>)

(* The protocol, and the parts of the suite. *)
HandshakeFacts(u, agreed) ==
    {Fact(u, <<"version", agreed.version>>)}
    \cup {Fact(u, <<"suite", part>>) : part \in SuiteParts[agreed.suite]}

(* _certificate_findings(): nothing of one that is not there or does not    *)
(* parse, the certificate alone if its key is of no known kind.             *)
CertificateFacts(u, cert) ==
    IF cert.kind \in {"none", "malformed"} THEN {}
    ELSE {Fact(u, <<"certificate", cert.subject>>)}
         \cup {Fact(u, <<"key", k>>) : k \in {cert.kind} \cap {"RSA", "ECDSA", "EdDSA"}}

----------------------------------------------------------------------------
(* collect(): at[th].todo are the probes still to come. *)

Server(th) == server[job[th]]

Meet(th, agreed) == met' = [met EXCEPT ![job[th]] = @ \cup {agreed}]

StartTLS(th, u) ==
    /\ u \in Endpoints
    /\ Start(th, u, [pc |-> "handshake"])
    /\ NoFault /\ UNCHANGED tlsVars

Handshake(th) ==
    /\ at[th].pc = "handshake" /\ Server(th).cert.kind # "unsupported"
    /\ \E agreed \in Agreements(Server(th), AnyOffer) :
          /\ Meet(th, agreed)
          /\ Yield(th, HandshakeFacts(job[th], agreed)
                         \cup CertificateFacts(job[th], Server(th).cert),
                   [pc |-> "probe", todo |-> Probes])
    /\ NoFault /\ UNCHANGED <<server, changes>>

(* public_key() raises for a key the library does not know, and the probes  *)
(* are not run.                                                             *)
KeyUnsupported(th) ==
    /\ at[th].pc = "handshake" /\ Server(th).cert.kind = "unsupported"
    /\ \E agreed \in Agreements(Server(th), AnyOffer) :
          Meet(th, agreed) /\ Raise(th, HandshakeFacts(job[th], agreed))
    /\ NoFault /\ UNCHANGED <<server, changes>>

HandshakeRefused(th) ==
    /\ at[th].pc = "handshake" /\ Agreements(Server(th), AnyOffer) = {}
    /\ Finish(th, {Trouble("handshake", job[th])})
    /\ NoFault /\ UNCHANGED tlsVars

(* Nobody there, or nobody in time. *)
HandshakeTimesOut(th) ==
    /\ at[th].pc = "handshake" /\ Fault
    /\ Finish(th, {Trouble("handshake", job[th])})
    /\ UNCHANGED tlsVars

Probing(th) == at[th].pc = "probe" /\ at[th].todo # <<>>
ThisProbe(th) == Head(at[th].todo)
NextProbe(th) == [at[th] EXCEPT !.todo = Tail(@)]

(* Wrong: a probe that is refused ends the rest of them. *)
NoMoreProbes(th) == [at[th] EXCEPT !.todo = <<>>]

AfterRefusal(th) == NextProbe(th)

ProbeAccepted(th) ==
    /\ Probing(th) /\ ThisProbe(th) \notin Unsettable
    /\ \E agreed \in Agreements(Server(th), Offer(ThisProbe(th))) : Meet(th, agreed)
    /\ Yield(th, {Fact(job[th], ThisProbe(th))}, NextProbe(th))
    /\ NoFault /\ UNCHANGED <<server, changes>>

(* Refused by the server, or by the context before anything is sent. *)
ProbeRefused(th) ==
    /\ Probing(th)
    /\ \/ ThisProbe(th) \in Unsettable
       \/ Agreements(Server(th), Offer(ThisProbe(th))) = {}
    /\ Resume(th, AfterRefusal(th))
    /\ NoFault /\ UNCHANGED tlsVars

ProbeTimesOut(th) ==
    /\ Probing(th) /\ ThisProbe(th) \notin Unsettable /\ Fault
    /\ Resume(th, AfterRefusal(th))
    /\ UNCHANGED tlsVars

ProbesEnd(th) ==
    /\ at[th].pc = "probe" /\ at[th].todo = <<>>
    /\ Finish(th, {})
    /\ NoFault /\ UNCHANGED tlsVars

TLSStep(th) ==
    \/ Handshake(th) \/ KeyUnsupported(th) \/ HandshakeRefused(th) \/ HandshakeTimesOut(th)
    \/ ProbeAccepted(th) \/ ProbeRefused(th) \/ ProbeTimesOut(th) \/ ProbesEnd(th)

(* The operator of a server sets it up anew. *)
Reconfigure(u, s) ==
    /\ changes < MaxChanges /\ changes' = changes + 1
    /\ server[u] # s /\ server' = [server EXCEPT ![u] = s]
    /\ UNCHANGED <<pool, at, out, faults, met>>
=============================================================================
