---------------------------- MODULE MCCollectors ----------------------------
(* Small targets for the four collectors, sound and damaged ones, and what *)
(* there is to find in each.                                               *)
EXTENDS UnitInvariant

CONSTANTS
    a, b, c,                     \* source trees that share grammars
    bins,                        \* a tree of binaries
    layout, gzlayout, noblobs,   \* OCI layout directories
    saved, intact, oci, flat,    \* tarballs: docker save, OCI, plain files
    cut, garbage,                \* a tarball that ends early, one that is none
    web, vpn, odd                \* endpoints

MCLanguages == {"c", "cpp", "java", "go"}
MCInstalled == {"c", "cpp", "java"}

(* The libraries, "openssl" and "jca", are names of no algorithm. *)
Rule(id, call, receiver, reads, algorithm, skips) ==
    [id |-> id, call |-> call, receiver |-> receiver, reads |-> reads,
     algorithm |-> algorithm, library |-> "odd", skips |-> skips]

MCRules == [l \in {"c", "java", "go"} |->
    CASE l = "c" -> {Rule("md5", "MD5", NoReceiver, "nothing", "known", FALSE),
                     Rule("hmac", "HMAC", NoReceiver, "algorithm", "known", FALSE),
                     Rule("rsa", "RSA_generate_key", NoReceiver, "size", "known", FALSE)}
      [] l = "java" -> {Rule("jca.digest", "getInstance", "MessageDigest", "algorithm", "none", FALSE),
                        Rule("jca.cipher", "getInstance", "Cipher", "algorithm", "none", FALSE),
                        Rule("jca.keystore", "getInstance", "KeyStore", "algorithm", "none", TRUE)}
      [] OTHER -> {}]

Call(name, receiver, literal) == [call |-> name, receiver |-> receiver, literal |-> literal]
Source(path, language, calls) ==
    [path |-> path, language |-> language, acceptable |-> TRUE, calls |-> calls, includes |-> {}]

InC    == [Source("a.c", "c", {Call("MD5", NoReceiver, "absent"),
                               Call("HMAC", NoReceiver, "absent")})
              EXCEPT !.includes = {"OpenSSL"}]
InGo   == Source("a.go", "go", {})
Large  == [Source("large.c", "c", {Call("MD5", NoReceiver, "absent")}) EXCEPT !.acceptable = FALSE]
Notes  == Source("notes.txt", "text", {})
InCpp  == Source("b.cpp", "cpp", {Call("RSA_generate_key", NoReceiver, "known"),
                                  Call("HMAC", NoReceiver, "known")})
MoreC  == Source("b.c", "c", {Call("RSA_generate_key", NoReceiver, "absent")})
InJava == Source("c.java", "java", {Call("getInstance", "Cipher", "odd"),
                                    Call("getInstance", "Cipher", "none"),
                                    Call("getInstance", "Signature", "known"),
                                    Call("getInstance", "KeyStore", "absent"),
                                    Call("getInstance", "MessageDigest", "absent")})

MCFiles == (a :> <<InC, InGo>>) @@ (b :> <<MoreC, Large, InCpp, Notes>>) @@ (c :> <<InGo, InJava>>)

Good    == [holds |-> "needed" :> {<<"libssl">>} @@ "symbols" :> {<<"RSA_sign">>}
                      @@ "constants" :> {<<"aes sbox">>, <<"md5 table">>},
            hidden |-> {<<"md5 table">>}]
Broken  == [holds |-> "needed" :> {<<"libcrypto">>} @@ "symbols" :> {<<"DES_key">>}
                      @@ "constants" :> {}, hidden |-> {}]
MCMalformed == Broken :> 2

Bin(path, magic, readable, binary) ==
    [path |-> path, magic |-> magic, readable |-> readable, binary |-> binary]
MCBinaries == bins :> <<Bin("broken", "elf", TRUE, Broken), Bin("good", "elf", TRUE, Good),
                        Bin("locked", "elf", FALSE, Good), Bin("run.sh", "text", TRUE, Good)>>

Db   == [path |-> "db", type |-> "db", packages |-> {<<"openssl">>}]
Lib  == [path |-> "lib", type |-> "elf", binary |-> Good]
Bad  == [path |-> "bad", type |-> "elf", binary |-> Broken]
Text == [path |-> "txt", type |-> "other"]

Tar(members, present, ends) ==
    [type |-> "tar", members |-> members, present |-> present, ends |-> ends]
Whole(members) == Tar(members, Len(members), "whole")
Json == [type |-> "json"]
Dir  == [type |-> "directory"]

Picture(shape, manifest, blobs) ==
    [shape |-> shape, state |-> "listed", manifest |-> manifest,
     names |-> SetToSortSeq(DOMAIN blobs, LAMBDA x, y : x[2] < y[2]),
     blobs |-> blobs, files |-> Whole(<<>>)]

L1 == <<"blob", 1>>
L2 == <<"blob", 2>>
L3 == <<"blob", 3>>
L4 == <<"blob", 4>>

MCImages ==
    layout   :> Picture("layout", <<>>, (L1 :> Whole(<<Db, Text>>)) @@ (L2 :> Tar(<<Text, Db>>, 1, "torn"))
                                        @@ (L3 :> Json) @@ (L4 :> Whole(<<Db>>)))
 @@ gzlayout :> Picture("layout", <<>>, (L1 :> Tar(<<Db, Lib>>, 1, "gztorn")) @@ (L2 :> Whole(<<Db>>)))
 @@ noblobs  :> [Picture("layout", <<>>, (L1 :> Whole(<<Db>>))) EXCEPT !.state = "unopenable"]
 @@ saved    :> Picture("tarball", <<L1, L4, L2, L3>>,
                        (L1 :> Tar(<<Db, Lib>>, 1, "torn")) @@ (L2 :> Tar(<<Db, Lib>>, 1, "gztorn"))
                        @@ (L3 :> Whole(<<Bad, Lib>>)))
 @@ intact   :> Picture("tarball", <<L2, L1>>, (L1 :> Whole(<<Db, Text>>)) @@ (L2 :> Whole(<<Lib>>))
                                               @@ (L3 :> Json))
 @@ oci      :> Picture("tarball", <<>>, (L1 :> Whole(<<Lib>>)) @@ (L2 :> Json) @@ (L3 :> Dir))
 @@ flat     :> [Picture("tarball", <<>>, <<>>) EXCEPT !.files = Tar(<<Db, Lib>>, 1, "short")]
 @@ cut      :> [Picture("tarball", <<>>, <<>>) EXCEPT !.state = "cut",
                                                       !.files = Tar(<<Db, Lib>>, 1, "torn")]
 @@ garbage  :> [Picture("tarball", <<>>, <<>>) EXCEPT !.state = "unopenable"]

(* What each target holds, written down one by one. *)
LibSeen(where) == {Fact(where, <<"libssl">>), Fact(where, <<"RSA_sign">>), Fact(where, <<"aes sbox">>)}
LibHidden(where) == {Fact(where, <<"md5 table">>)}
LibAll(where)  == LibSeen(where) \cup LibHidden(where)
DbAll(where)   == {Fact(where, <<"openssl">>)}

Holds(plain, damaged, silent) == [plain |-> plain, damaged |-> damaged, silent |-> silent]

MCTruth ==
    a :> Holds({Fact("a.c", <<"md5", "direct_api_call">>), Fact("a.c", <<"OpenSSL", "include">>),
                Fact("a.c", <<"hmac", "linked_library_unpinned">>)},
               {Fact("a.go", <<"anything">>)}, {})
 @@ b :> Holds({Fact("b.c", <<"rsa", "linked_library_pinned">>),
                Fact("b.cpp", <<"rsa", "direct_api_call">>),
                Fact("b.cpp", <<"hmac", "direct_api_call">>)},
               {}, {Fact("large.c", <<"md5", "direct_api_call">>)})
 @@ c :> Holds({Fact("c.java", <<"jca.cipher", "string_literal">>),
                Fact("c.java", <<"jca.digest", "string_literal">>)},
               {Fact("a.go", <<"anything">>)}, {})
 @@ bins :> Holds(LibSeen("good") \cup {Fact("broken", <<"libcrypto">>)},
                  {Fact("broken", <<"DES_key">>)}, LibHidden("good") \cup LibAll("locked"))
 @@ layout :> Holds(DbAll(<<L1, "db">>) \cup DbAll(<<L4, "db">>), {}, DbAll(<<L2, "db">>))
 @@ gzlayout :> Holds(DbAll(<<L1, "db">>), LibAll(<<L1, "lib">>) \cup DbAll(<<L2, "db">>), {})
 @@ noblobs :> Holds({}, DbAll(<<L1, "db">>), {})
 @@ saved :> Holds(DbAll(<<L1, "db">>) \cup DbAll(<<L2, "db">>) \cup LibSeen(<<L3, "lib">>)
                     \cup {Fact(<<L3, "bad">>, <<"libcrypto">>)},
                   LibAll(<<L1, "lib">>) \cup LibAll(<<L2, "lib">>) \cup DbAll(<<L4, "db">>)
                     \cup {Fact(<<L3, "bad">>, <<"DES_key">>)},
                   LibHidden(<<L3, "lib">>))
 @@ intact :> Holds(DbAll(<<L1, "db">>) \cup LibSeen(<<L2, "lib">>), {}, LibHidden(<<L2, "lib">>))
 @@ oci :> Holds(LibSeen(<<L1, "lib">>), {}, LibHidden(<<L1, "lib">>))
 @@ flat :> Holds(DbAll(<<NoLayer, "db">>), {}, LibAll(<<NoLayer, "lib">>))
 @@ cut :> Holds({}, DbAll(<<NoLayer, "db">>) \cup LibAll(<<NoLayer, "lib">>), {})
 @@ garbage :> Holds({}, {Fact("garbage", <<"anything">>)}, {})

MCUnsettable == {<<"version", 11>>}

MCEndpoints == {web, vpn, odd}

Suite(name, modern, agree, parts) ==
    [name |-> name, modern |-> modern, agree |-> agree, parts |-> parts]

Modern == [versions |-> {12, 13}, groups |-> {"P-256", "X25519"},
           suites |-> {Suite(<<"TLS", "_", "AES", "_", "256", "_", "GCM", "_", "SHA", "384">>,
                             TRUE, "ec", {"AES-256-GCM", "SHA-384"}),
                       Suite(<<"EC", "DH", "E", "-", "RSA", "-", "AES", "128", "-", "GCM", "-",
                               "SHA", "256">>, FALSE, "ec", {"ECDH", "AES-128-GCM", "SHA-256"})},
           cert |-> [kind |-> "RSA", subject |-> "CN=web"]]
Legacy == [versions |-> {10, 12}, groups |-> {"P-256"},
           suites |-> {Suite(<<"DH", "E", "-", "RSA", "-", "AES", "256", "-", "SHA">>,
                             FALSE, "dh", {"DH", "AES-256-CBC", "SHA-1"}),
                       Suite(<<"EC", "DH", "E", "-", "RSA", "-", "DES", "-", "CBC", "3", "-", "SHA">>,
                             FALSE, "ec", {"ECDH", "3DES", "SHA-1"})},
           cert |-> [kind |-> "DSA", subject |-> "CN=vpn"]]
Ancient == [Legacy EXCEPT !.versions = {10, 11}]
NewKey  == [Modern EXCEPT !.cert = [kind |-> "unsupported", subject |-> "CN=pqc"]]

MCConfigurations == {Modern, Legacy, Ancient, NewKey}
MCFirstSetup == (web :> Modern) @@ (vpn :> Legacy) @@ (odd :> NewKey)

AnyPath == DOMAIN MCImages \cup {bins}
MCUnits == AnyPath \cup MCEndpoints \cup {a, b, c}
MCEstates == {{a, b}, {a, c}, {web, bins}, {vpn}, {odd}} \cup {{u} : u \in DOMAIN MCImages}

TornLayout == {{layout}}

(* The suites of these configurations meet what ProbesGoToTheEnd asks. *)
ASSUME SuitesRead == SuitesAreRead
=============================================================================
