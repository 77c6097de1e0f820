----------------------------- MODULE MCPipeline -----------------------------
(***************************************************************************)
(* A part of the shipped registry, policy and cost tables, and an estate   *)
(* of a repository, a service, an image and an endpoint.                   *)
(***************************************************************************)
EXTENDS Pipeline

None == "-"

Nothing == [x \in {} |-> 0]

Asymmetric(primitive, field, bits, tokens) ==
    [primitive |-> primitive, quantum |-> "broken", attack |-> "shor", classical |-> "ok",
     field |-> field, bits |-> bits, quantumBits |-> Nothing, level |-> Nothing,
     default |-> None, tokens |-> tokens]

PostQuantum(primitive, bits, level, default, tokens) ==
    [primitive |-> primitive, quantum |-> "safe", attack |-> None, classical |-> "ok",
     field |-> "key_size", bits |-> bits, quantumBits |-> Nothing, level |-> level,
     default |-> default, tokens |-> tokens]

(* policy/algorithms.json *)
MCEntry ==
    ("RSA" :> Asymmetric("pke", "key_size", ("2048" :> 112 @@ "4096" :> 152), <<"rsa">>)) @@
    ("ECDSA" :> Asymmetric("signature", "curve", ("P-256" :> 128), <<"ecdsa">>)) @@
    ("ML-DSA" :> PostQuantum("signature", ("44" :> 128 @@ "65" :> 192), ("44" :> 2 @@ "65" :> 3),
                             "65", <<"ml", "dsa">>)) @@
    ("ML-KEM" :> PostQuantum("kem", ("512" :> 128 @@ "768" :> 192), ("512" :> 1 @@ "768" :> 3),
                             "768", <<"ml", "kem">>)) @@
    ("AES" :> [primitive |-> "block-cipher", quantum |-> "weakened", attack |-> "grover",
               classical |-> "ok", field |-> "key_size", bits |-> ("128" :> 128 @@ "256" :> 256),
               quantumBits |-> ("128" :> 64 @@ "256" :> 128), level |-> Nothing,
               default |-> None, tokens |-> <<"aes">>]) @@
    ("MD5" :> [primitive |-> "hash", quantum |-> "broken", attack |-> "grover",
               classical |-> "broken", field |-> None, bits |-> ("*" :> 0),
               quantumBits |-> Nothing, level |-> Nothing, default |-> None,
               tokens |-> <<"md5">>]) @@
    ("SHA-2" :> [primitive |-> "hash", quantum |-> "safe", attack |-> None, classical |-> "ok",
                 field |-> "key_size", bits |-> ("256" :> 128), quantumBits |-> ("256" :> 128),
                 level |-> Nothing, default |-> None, tokens |-> <<"sha", "2">>]) @@
    ("TLS" :> [primitive |-> "other", quantum |-> "depends", attack |-> None, classical |-> "ok",
               field |-> "version", bits |-> ("*" :> 0), quantumBits |-> Nothing,
               level |-> Nothing, default |-> None, tokens |-> <<"tls">>])

MCAliases ==
    [rsa |-> "RSA", sha256withrsa |-> "RSA", ecdsa |-> "ECDSA", prime256v1 |-> "ECDSA",
     mldsa |-> "ML-DSA", mlkem |-> "ML-KEM", aes |-> "AES", aes128 |-> "AES", aes256 |-> "AES",
     md5 |-> "MD5", sha2 |-> "SHA-2", sha256 |-> "SHA-2", tls |-> "TLS"]

MCCurves == [prime256v1 |-> "P-256", secp256r1 |-> "P-256", p256 |-> "P-256"]

MCTemplates ==
    ("SHA-2" :> [style |-> "append", tokens |-> <<"sha">>]) @@
    ("TLS" :> [style |-> "glued", tokens |-> <<"tls">>]) @@
    ("MD5" :> [style |-> "bare", tokens |-> <<"md5">>])

MCShown ==
    [p \in {"128", "256", "2048", "4096", "44", "65", "512", "768"} |-> <<p>>] @@
    ("P-256" :> <<"p", "256">>) @@ ("1.2" :> <<"1", "2">>)

(* The numbers in the tokens the estate and the tables use. *)
Numbered ==
    [t \in {"128", "256", "2048", "4096", "44", "65", "512", "768"} |-> <<t>>] @@
    ("sha256withrsa" :> <<"256">>) @@ ("sha256" :> <<"256">>) @@ ("prime256v1" :> <<"256">>) @@
    ("aes128" :> <<"128">>) @@ ("p256" :> <<"256">>)

Words == <<"md5", "sha256withrsa", "rsa", "tls", "ecdsa", "aes128", "ml", "dsa", "kem", "aes", "sha",
           "2", "tls1", "p", "evp", "gcm", "libssl3", "foocipher">>

MCRuns == Numbered @@ [t \in Range(Words) |-> <<>>]

----------------------------------------------------------------------------
(* policy/pqc_policy.json *)
MCScenarios == [optimistic |-> 20, median |-> 14, pessimistic |-> 9]
MCShelfLifeYears == [critical |-> 25, high |-> 15, medium |-> 7, low |-> 2]
MCEffortBySurface == [tls |-> 2, source |-> 3, elf |-> 4, container |-> 3]
MCEffortByKind == [certificate |-> 2, protocol |-> 2, algorithm |-> 3, related |-> 4, library |-> 3]
MCMilestones ==
    {[id |-> "dst", year |-> 2027, appliesTo |-> "all"],
     [id |-> "deprecated", year |-> 2030, appliesTo |-> "quantum_vulnerable_112"],
     [id |-> "disallowed", year |-> 2035, appliesTo |-> "quantum_vulnerable"]}

(* The operator grades one target; the others are "high". *)
MCCriticality == [service |-> "medium"]

(* policy/migration_costs.json *)
MCRecommendations ==
    [RSA   |-> <<[role |-> "signature", target |-> <<"ml", "dsa", "65">>],
                 [role |-> "key-agree", target |-> <<"ml", "kem", "768">>],
                 [role |-> "pke", target |-> <<"ml", "kem", "768">>]>>,
     ECDSA |-> <<[role |-> "signature", target |-> <<"ml", "dsa", "65">>]>>,
     AES   |-> <<[role |-> "block-cipher", target |-> <<"aes", "256">>]>>,
     MD5   |-> <<[role |-> "hash", target |-> <<"sha", "256">>]>>]

MCSizes ==
    [rsa2048   |-> [public_key |-> 256, private_key |-> 1190, signature |-> 256],
     ecdsap256 |-> [public_key |-> 64, private_key |-> 32, signature |-> 64],
     mldsa65   |-> [public_key |-> 1952, private_key |-> 4032, signature |-> 3309],
     mlkem768  |-> [public_key |-> 1184, private_key |-> 2400, ciphertext |-> 1088]]

----------------------------------------------------------------------------
Plain == NoParams
Given(param, mode) == [param |-> param, mode |-> mode, padding |-> None]

Sighting(target, collector, surface, raw, params, tier, matcher, snippet, place, functions) ==
    [target |-> target, kind |-> "algorithm", collector |-> collector, surface |-> surface,
     raw |-> raw, params |-> params, tier |-> tier, matcher |-> matcher, snippet |-> snippet,
     place |-> place, functions |-> functions, version |-> None]

Source(raw, params, matcher, snippet, place, functions) ==
    Sighting("repo", "source_ast", "source", raw, params, "direct_api_call", matcher, snippet,
             place, functions)

Package(version, layer) ==
    [Sighting("image", "container", "container", <<"libssl3">>, Plain, "filename_metadata",
              "package.dpkg", version, layer, {})
        EXCEPT !.kind = "library", !.version = version]

(* One key pair of a Java keystore, used to decrypt and to sign; the cipher *)
(* says how it pads, or leaves it to the provider.                         *)
Padded == [param |-> None, mode |-> "ecb", padding |-> "pkcs1v15"]

JavaRsa(cipher) ==
    {Source(<<"rsa">>, cipher, "jca.cipher", "Cipher", 1, {"encrypt", "decrypt"}),
     Source(<<"sha256withrsa">>, Plain, "jca.signature", "Signature", 2, {"sign", "verify"})}

(* One cipher, called twice, linked in and found as a constant. *)
Aes128 ==
    {Source(<<"evp", "aes", "128", "gcm">>, Given(None, "gcm"), "openssl.evp", "call",
            place, {"encrypt"}) : place \in {3, 4}} \cup
    {Sighting("repo", "elf", "elf", <<"aes128">>, Given("128", "gcm"),
              "linked_library_pinned", "elf.symbol", "EVP_aes_128_gcm", 0, {"decrypt"})}

(* A broken digest, in two targets. *)
Md5 ==
    {Source(<<"md5">>, Plain, "jca.digest", "MD5", 5, {"digest"}),
     Sighting("service", "elf", "elf", <<"md5">>, Plain, "crypto_constant", "const.md5", "table", 0,
              {"digest"})}

(* A handshake. *)
Endpoint ==
    {[Sighting("host", "tls", "tls", <<"tls1", "2">>, Given("1.2", None), "negotiated",
               "tls.handshake", "TLSv1.2", 0, {}) EXCEPT !.kind = "protocol"],
     Sighting("host", "tls", "tls", <<"ecdsa">>, Given("secp256r1", None), "negotiated",
              "tls.certificate", "leaf", 0, {"sign", "verify"})}

(* A package that a later layer of the image upgraded. *)
Image == {Package("3.0.1", 0), Package("3.0.2", 1)}

(* A string no one knows. *)
Unresolved == {Source(<<"foocipher">>, Plain, "jca.cipher", "FooCipher", 6, {"encrypt"})}

MCSightings == JavaRsa(Padded) \cup Aes128 \cup Md5 \cup Endpoint \cup Image \cup Unresolved
OnlyRsa == JavaRsa(Plain)

(* Any order of the bom-refs will do, as long as it is one: here that of   *)
(* the targets, then of the first token of the name; one that is padded     *)
(* comes last.                                                             *)
Targets == [image |-> 100, repo |-> 200, host |-> 300, service |-> 400]
WordRank == [w \in Range(Words) |-> CHOOSE i \in DOMAIN Words : Words[i] = w]
MCRefRank(key) ==
    Targets[key.target] + WordRank[Head(key.name)] + IF key.params.padding = None THEN 0 ELSE 50

(* The shipped registry and policy keep what the theorems ask of them.     *)
ASSUME NamesResolve == NamesResolveToThemselves
ASSUME SurfacesInOrder == FirstSurfaceIsSlowest
ASSUME TargetsAreStrong == ReplacementsAreStrong
ASSUME SignaturesSign == SignatureRowsSign
=============================================================================
