------------------------------ MODULE MCHost ------------------------------
(***************************************************************************)
(* Small instances of what a host keeps and decides for its plugins:       *)
(* buckets, the authority and the documents of a manifest, packages,       *)
(* attestations and the migration of v1 manifests.  They share no state:   *)
(* each is a scene, in which the variables of the others keep one of their *)
(* initial values, and those of a migration are zero.                      *)
(***************************************************************************)
EXTENDS Integers, Sequences, TLC, KeyValue, Attestation, ManifestDocument, ManifestAuthority,
        Package

VARIABLES scene, docs, input

OneKey == <<"k1">>

----------------------------------------------------------------------------
(* Manifests, directories and documents the scenes start from.             *)
Seqs(A, n) == UNION {[1 .. k -> A] : k \in 1 .. n}

----------------------------------------------------------------------------
(* Authority: one manifest that asks for nothing, and others that each ask *)
(* for one or two things, near the borders of what may be asked.           *)
Grants(id) ==
    [id |-> id, publish |-> <<>>, subscribe |-> <<>>, request |-> <<>>, serves |-> <<>>,
     streams |-> <<>>, kv |-> <<>>, objects |-> <<>>, needs |-> <<>>, capabilities |-> <<>>]
PluginA == Grants(<<"a">>)
Asked ==
    {<<"cmd", ">">>, <<"*", "host", "auth", "*">>, <<"cmd", "host", ">">>, <<"cmd", "gateway", "x">>,
     <<"cmd", "*", "x">>, <<"svc", "*", "ai", ">">>, <<"svc", "a", ">">>, <<"svc", "b", ">">>,
     <<"svc", "b", "ai", "decision", "x">>, <<"event", ">">>, <<"event", "b", "*">>, <<"event", "b">>,
     <<"event", "*", "x">>, <<"bd", ">">>, <<"$SYS", ">">>, <<"*", "a", ">">>, <<"cmd", "b", "x">>, <<"*">>,
     <<"event", ">", "x">>}
Endpoint(n, s) == [name |-> n, subject |-> s, point |-> ""]
Service(eps) == <<[name |-> "s", version |-> "1", group |-> "", endpoints |-> eps]>>
StreamOf(b, a) ==
    <<[name |-> "l", maxBytes |-> b, maxAge |-> a, maxMsgs |-> 0,
       subjects |-> <<<<"event", "a", ">">>>>]>>
AuthorityManifests ==
    {Grants(id) : id \in {<<"a">>, <<"gateway">>, <<"host">>, <<"host", "auth">>, <<"terminal">>,
                            <<"gateway", "v1">>}}
    \cup {[PluginA EXCEPT !.publish = <<p>>, !.subscribe = <<q>>] : p, q \in Asked}
    \cup {[PluginA EXCEPT !.request = <<p>>] : p \in Asked}
    \cup {[PluginA EXCEPT !.publish = <<<<"event", "b", x>>, <<"event", "b", y>>>>] : x, y \in {"x", "y"}}
    \cup {[PluginA EXCEPT !.serves =
             Service(<<Endpoint("e", <<"svc", "a", "b", "x">>), Endpoint("f", s)>>)] :
             s \in {<<"cmd", "a", "x">>, <<"cmd", "b", "x">>, <<"svc", "a">>}}
    \cup {[PluginA EXCEPT !.serves =
             Service(<<Endpoint("f", <<"cmd", "a", "x">>), Endpoint("e", <<"svc", "a", "b", "x">>)>>)]}
    \cup {[PluginA EXCEPT !.streams = StreamOf(b, g)] : b, g \in 0 .. 1}
    \cup {[PluginA EXCEPT !.kv = <<[name |-> "k", maxBytes |-> 1, ttl |-> 0, history |-> h]>>] : h \in 0 .. 1}
    \cup {[PluginA EXCEPT !.objects = <<[name |-> n, maxBytes |-> 1, ttl |-> 0]>>] : n \in {"", "o"}}
    \cup {[PluginA EXCEPT !.capabilities = c] :
             c \in {<<"c1">>, <<"c2", "c1">>, <<"c1", "c2">>, <<"c1", "c1">>, <<"c3">>}}
    \cup {[PluginA EXCEPT !.needs = c] : c \in {<<"n1">>, <<"n2">>}}
    \cup {[Grants(i) EXCEPT !.serves = Service(<<Endpoint("e", s)>>)] :
             i \in {<<"b">>, <<"a", "b">>},
             s \in {<<"svc", "a", "b", "x">>, <<"cmd", "a", "x">>, <<"cmd", "b", "x">>}}
AuthorityTokens ==
    {"cmd", "svc", "event", "tick", "a", "b", "x", "y", "host", "auth", "gateway", "ai", "decision",
     "terminal", "v1", "write", "bd"}
AuthoritySubjects ==
    {<<r, i, x>> : r \in {"event", "cmd", "svc"}, i \in {"a", "b", "gateway"}, x \in {"x", "y"}}
    \cup {<<"svc", i, "ai", "decision", "x">> : i \in {"a", "b"}}
    \cup {<<"cmd", "host", "auth", "x">>, <<"cmd", "terminal", "v1", "write">>, <<"cmd", "host", "x">>,
          <<"cmd", "a", "b", "x">>, <<"svc", "a", "b", "x">>, <<"svc", "a", "b">>, <<"event", "b">>,
          <<"event", "b", "x", "y">>, <<"$SYS", "x">>, <<"$SYS">>, <<"bd", "x">>, <<"tick", "a", "x">>,
          <<"cmd", "gateway", "v1", "x">>}
    \cup {Common(p, q, "y") : p \in {r \in Asked : PatternAllowed(PluginA, "publish", r)},
                              q \in {r \in Asked : PatternAllowed(PluginA, "subscribe", r)}}

Denied == {<<"$SYS", ">">>, <<"cmd", "host", "auth", ">">>, <<"cmd", "terminal", "v1", "write">>}
OneProvider == {<<"ai", "decision">>}
TwoCapabilities == <<"c1", "c2">>

----------------------------------------------------------------------------
(* Documents: pairs of panels with every pair of path patterns, and one    *)
(* variation of every other field.                                         *)
Param(v) == [kind |-> ":", value |-> v]
Splat(v) == [kind |-> "*", value |-> v]
DocumentPaths ==
    {<<Lit("a")>>, <<Lit("a"), Param("x")>>, <<Lit("a"), Lit("b")>>, <<Lit("a"), Splat("r")>>,
     <<Param("x"), Lit("b")>>, <<Splat("r")>>, <<Lit("b"), Param("x"), Splat("r")>>,
     <<Lit("a"), Param("x"), Lit("b")>>, <<Splat("r"), Lit("b")>>, <<Param("x"), Param("x")>>,
     <<Lit("..")>>}
Panel(i, ps) == [id |-> i, url |-> "u", paths |-> ps]
Plain ==
    [id |-> "a", version |-> "1", kind |-> "builtin", pricing |-> {}, role |-> "", targets |-> {},
     requires |-> {}, identity |-> {[name |-> "n", description |-> "d"]}, publisher |-> {},
     static |-> <<>>, aliases |-> <<>>, routes |-> {}, publicRoutes |-> <<>>,
     protocol |-> [major |-> 2, required |-> <<"ui.document-paths.v1">>, hooks |-> <<"ready">>],
     config |-> <<>>, ui |-> <<>>, views |-> <<>>, actions |-> <<>>, nav |-> <<>>,
     panels |-> <<Panel("q", <<>>)>>]
Route(s, b) == [at |-> s, slash |-> b]
Setting(k, d, n, lo, hi, ch) ==
    [id |-> "f", kind |-> k, default |-> [text |-> d, int |-> n], lo |-> lo, hi |-> hi,
     choices |-> ch, point |-> "", requires |-> <<>>]
Fields ==
    {Setting("int", "3", {3}, {1}, {3}, {}), Setting("int", "3", {3}, {1}, {2}, {}),
     Setting("bool", "true", {}, {}, {}, {}), Setting("enum", "x", {}, {}, {}, {"x"}),
     Setting("secret", "x", {}, {}, {}, {}), Setting("string", "x", {}, {1}, {}, {}),
     Setting("other", "", {}, {}, {}, {})}
Contribution(s, p, c) ==
    <<[id |-> "c", slot |-> s, panel |-> p, command |-> c,
       bindings |-> <<[kind |-> "count", event |-> "e"]>>]>>
NavEntry(k, h, p, pl) == <<[id |-> "n", kind |-> k, href |-> h, parent |-> p, placement |-> pl]>>
DocumentManifests ==
    {[Plain EXCEPT !.panels = <<Panel("q", <<p>>), Panel("r", <<q>>)>>] : p, q \in DocumentPaths}
    \cup {[Plain EXCEPT !.panels = <<Panel("q", <<<<Lit("a")>>, p>>)>>] : p \in DocumentPaths}
    \cup {Plain, [Plain EXCEPT !.panels = <<Panel("q", <<<<Lit("a")>>>>), Panel("q", <<>>)>>],
          [Plain EXCEPT !.panels = <<Panel("q", <<<<Lit("a")>>>>)>>, !.protocol.required = <<>>],
          [Plain EXCEPT !.id = ""], [Plain EXCEPT !.version = ""], [Plain EXCEPT !.identity = {}],
          [Plain EXCEPT !.kind = "process"], [Plain EXCEPT !.requires = {"a"}],
          [Plain EXCEPT !.kind = "process", !.publisher = {[idOK |-> TRUE, kidOK |-> TRUE]}],
          [Plain EXCEPT !.targets = {"vault"}]}
    \cup {[Plain EXCEPT !.pricing = {[model |-> mo, sku |-> s, days |-> d]}] :
             mo \in {"free", "trial", "paid"}, s \in {"", "k"}, d \in {-1, 0}}
    \cup {[Plain EXCEPT !.static = s] :
             s \in {<<[dir |-> "d", mount |-> "m"]>>, <<[dir |-> "..", mount |-> "m"]>>,
                    <<[dir |-> "d", mount |-> "m"], [dir |-> "e", mount |-> "m"]>>}}
    \cup {[Plain EXCEPT !.aliases = a] : a \in {<<<<"x">>>>, <<<<"p", "x">>>>, <<<<"x">>, <<"x">>>>, <<<<>>>>}}
    \cup {[Plain EXCEPT !.routes = {r}, !.publicRoutes = <<q>>] :
             r, q \in {Route(<<"x">>, TRUE), Route(<<"x">>, FALSE), Route(<<"x", "y">>, FALSE)}}
    \cup {[Plain EXCEPT !.config = <<[id |-> "s", fields |-> <<f>>]>>] : f \in Fields}
    \cup {[Plain EXCEPT !.ui = u] :
             u \in {Contribution("command", "", "c"), Contribution("launcher", "q", ""),
                    Contribution("launcher", "z", ""), Contribution("other", "q", "")}}
    \cup {[Plain EXCEPT !.views = <<[id |-> "v", label |-> "l", icon |-> "i", panel |-> p]>>] : p \in {"q", "z"}}
    \cup {[Plain EXCEPT !.nav = n] :
             n \in {NavEntry("", "h", {}, ""), NavEntry("section", "", {}, "main"),
                    NavEntry("section", "", {[owner |-> "o", id |-> "i"]}, ""),
                    NavEntry("group", "h", {}, "")}}

DocumentPathnames == Seqs({"a", "b", "c"}, 3) \cup {<<"a", "..">>}
DocumentRequests == {Route(s, b) : s \in Seqs({"x", "y"}, 2), b \in BOOLEAN}

----------------------------------------------------------------------------
(* Packages: every kind, and trees that differ from the smallest one in    *)
(* the file a rule of the layout is about.                                 *)
Packed(k, s, f, b) ==
    [kind |-> k, spawn |-> s, family |-> f, binary |-> b, targets |-> {}, minCore |-> 1,
     version |-> 1, aliases |-> {<<"a">>}]
PackageManifests ==
    {Packed("", FALSE, FALSE, ""), Packed("", TRUE, FALSE, "run"), Packed("", TRUE, TRUE, "run"),
     Packed("process", FALSE, FALSE, "run"), Packed("process", TRUE, FALSE, "run"),
     Packed("process", FALSE, FALSE, ""), Packed("ui", FALSE, FALSE, ""),
     Packed("ui", TRUE, FALSE, "run"), Packed("family", FALSE, TRUE, ""),
     Packed("family", FALSE, FALSE, ""), Packed("other", FALSE, FALSE, ""),
     Packed("builtin", FALSE, FALSE, "run"),
     [Packed("builtin", FALSE, FALSE, "") EXCEPT !.targets = {"vault"}],
     [Packed("builtin", FALSE, FALSE, "") EXCEPT !.minCore = 2],
     [Packed("builtin", FALSE, FALSE, "") EXCEPT !.aliases = {<<"q", "x">>}],
     [Packed("builtin", FALSE, FALSE, "") EXCEPT !.version = 0]}
File(exec, size) == [link |-> FALSE, inside |-> TRUE, exec |-> exec, size |-> size, time |-> 1]
Link(inside) == [link |-> TRUE, inside |-> inside, exec |-> TRUE, size |-> 0, time |-> 1]
Small == File(FALSE, 1)
PackageTrees ==
    {<<"plugin.json">> :> Small, <<"docs", "a">> :> Small}
    \cup {(<<"plugin.json">> :> Small) @@ x : x \in
       {<<"ui", "index.html">> :> Small, <<"run">> :> File(TRUE, 1), <<"run">> :> Small,
        <<"run">> :> Link(TRUE), <<"run">> :> Link(FALSE), <<"run", "x">> :> File(TRUE, 1),
        <<"run", "l">> :> Link(TRUE),
        <<"docs", "a", "b">> :> Small, <<"docs", "node_modules", "b">> :> Small,
        <<"docs", "x.log">> :> Small, <<"images", "i.svg">> :> File(FALSE, 2),
        <<"images", "i.svg">> :> File(FALSE, 3), <<"images", "x">> :> Small,
        <<"SHA256SUMS">> :> Small, <<"docs", "SHA256SUMS">> :> Small,
        (<<"run">> :> File(TRUE, 1)) @@ (<<"bin", "h">> :> File(TRUE, 1)) @@ (<<"ui", "index.html">> :> Small),
        [p \in {<<"docs", c>> : c \in {"a", "b", "c", "d"}} |-> Small],
        <<"docs", "a">> :> File(FALSE, 9)}}
PlainClasses ==
    "docs" :> {<<"docs", "**">>} @@ "images" :> {<<"images", "**">>} @@ "manifest" :> {<<"plugin.json">>}
PackageClasses ==
    "builtin" :> PlainClasses @@ "family" :> PlainClasses @@ "other" :> <<>>
    @@ "ui" :> (PlainClasses @@ "ui" :> {<<"ui", "**">>})
    @@ "process" :> (PlainClasses @@ "ui" :> {<<"ui", "**">>} @@ "binary" :> {<<"${binary}">>, <<"bin", "**">>})
ForbiddenGlobs == {<<"node_modules", "**">>, <<"**", "x.log">>}
IgnoredGlobs == {<<"SHA256SUMS">>, <<".unsigned">>}
Gates ==
    {[host |-> "", core |-> 0, floor |-> 0, reserved |-> {<<>>}],
     [host |-> "gateway", core |-> 1, floor |-> 1, reserved |-> {<<"q">>}]}
PackageRequired ==
    [k \in {"builtin", "family", "other", "process", "ui"} |->
        IF k = "ui" THEN {<<"ui", "index.html">>} ELSE {}]

----------------------------------------------------------------------------
(* Migration: v1 documents with their keys in several orders.              *)
V1Values ==
    "id" :> "a" @@ "version" :> 1 @@ "spawn" :> TRUE @@ "binary" :> "run" @@ "family" :> "f"
    @@ "publisher" :> [form |-> "string", id |-> "acme"] @@ "homepage" :> "h" @@ "nav" :> "label"
    @@ "protocol" :> 1 @@ "kind" :> "ui" @@ "contract" :> 1
    @@ "identity" :> [name |-> "n", description |-> "", homepage |-> "x", readme |-> "", icon |-> ""]
    @@ "implements" :> <<<<"host", "s3">>, <<"host", "sec">>, <<"host", "no">>>>
V1Document(ks) == [keys |-> ks, vals |-> [k \in {ks[i] : i \in DOMAIN ks} |-> V1Values[k]]]
V1Asking(p, s, r) ==
    [keys |-> <<"permissions", "id">>,
     vals |-> "id" :> "a" @@ "permissions" :> ("publish" :> p @@ "subscribe" :> s @@ "request" :> r)]
V1Documents ==
    {V1Document(<<"id">> \o ks) : ks \in
       {<<>>, <<"version", "nav">>, <<"homepage", "version">>, <<"spawn", "version", "binary">>,
        <<"binary", "family">>, <<"family", "publisher">>,
        <<"identity", "homepage", "protocol", "version">>, <<"kind", "version", "contract">>,
        <<"implements", "publisher", "version">>}}
    \cup {V1Asking(p, s, r) :
            p \in {<<>>, <<<<"event", "a", "x">>>>, <<<<"event", "a", "x">>, <<"event", "b", "x">>>>},
            s \in {<<<<"event", "a", ">">>>>, <<<<"event", "b", "x">>>>, <<<<"event", "?">>>>},
            r \in {<<>>, <<<<"cmd", "a", "x">>>>}}
Decided(k, fs, p, fp) ==
    [kind |-> k, files |-> fs, publisher |-> p, firstParty |-> fp, name |-> "", description |-> "",
     readme |-> <<"heading", "badge", "blank", "text", "badge", "blank", "text">>]
MigrationInputs ==
    {Decided("", {}, "", FALSE), Decided("ui", {}, "acme", FALSE),
     Decided("", {"plugin.go", "README.md"}, "", TRUE),
     Decided("", {"ui/index.html", "images/icon.svg"}, "", TRUE),
     [Decided("builtin", {}, "", TRUE) EXCEPT !.name = "N", !.description = "D"]}

----------------------------------------------------------------------------
kVars == vars
uVars == authorityVars
dVars == documentVars
pVars == packageVars
eVars == attestVars
vVars == <<docs, input>>

V == INSTANCE Migration WITH
    Tokens <- {"event", "cmd", "svc", "a", "b", "x"}, Reserved <- {"_INBOX"}, MaxTokens <- 4,
    Documents <- V1Documents, Inputs <- MigrationInputs, Points <- {<<"s3">>, <<"host", "sec">>},
    Id <- <<"a">>,
    Known <- {<<r, i, "x">> : r \in {"event", "cmd", "svc", "tick"}, i \in {"a", "b"}}

----------------------------------------------------------------------------
NoMigration == docs = 0 /\ input = 0

Scenes == {"buckets", "authority", "document", "package", "attestation", "migration"}

HostInit ==
    /\ scene \in Scenes
    /\ Init
    /\ AuthorityInit
    /\ DocumentInit /\ (scene # "document" => manifest = Plain)
    /\ PackInit /\ (scene # "package" => pkg = Packed("", FALSE, FALSE, "") /\ tree = <<"docs", "a">> :> Small)
    /\ AttestInit
    /\ IF scene = "migration" THEN V!Init ELSE NoMigration

HostNext ==
    /\ \/ /\ scene = "buckets" /\ Next
          /\ UNCHANGED <<uVars, dVars, pVars, eVars, vVars>>
       \/ /\ scene = "authority" /\ AuthorityBounded
          /\ UNCHANGED <<kVars, dVars, pVars, eVars, vVars>>
       \/ /\ scene = "document" /\ DocumentNext
          /\ UNCHANGED <<kVars, uVars, pVars, eVars, vVars>>
       \/ /\ scene = "package" /\ PackNext
          /\ UNCHANGED <<kVars, uVars, dVars, eVars, vVars>>
       \/ /\ scene = "attestation" /\ AttestBounded
          /\ UNCHANGED <<kVars, uVars, dVars, pVars, vVars>>
       \/ /\ scene = "migration" /\ V!Next
          /\ UNCHANGED <<kVars, uVars, dVars, pVars, eVars>>
    /\ UNCHANGED scene

HostSpec == HostInit /\ [][HostNext]_<<scene, kVars, uVars, dVars, pVars, eVars, vVars>>

----------------------------------------------------------------------------
(* Neither a replacement nor a migration lets a manifest ask for more than *)
(* was read: what is in force has the authority the operator approved; a   *)
(* migrated manifest may do no more than the v1 one, keeps the order of    *)
(* its keys, and migrates to itself (GrantsDigest, CapabilityEnabled,      *)
(* MigrateV1).                                                             *)
ConsentIsKept ==
    /\ AuthorityWasRead
    /\ scene = "migration" => V!MigrationSettles /\ V!OrderKept /\ V!NothingWidened
=============================================================================
