-------------------------- MODULE ManifestDocument --------------------------
(***************************************************************************)
(* The rules of a v2 manifest that are not about bus authority             *)
(* (v2/plugin: validate.go, manifest.go, navigation.go), and what the      *)
(* shell and the host's session gate do with an admitted one: which panel  *)
(* a pathname opens (MatchDocumentPath) and which path is served without a *)
(* session (PublicRoute).                                                  *)
(*                                                                         *)
(* A text is a name; Bad holds the ones that are no single path segment.   *)
(* A document pattern is a sequence of segments [kind, value]; a pathname  *)
(* is the sequence of its decoded segments; a route is its segments and    *)
(* whether it ends in a slash.                                             *)
(***************************************************************************)
EXTENDS Integers, Sequences, SequencesExt

CONSTANTS
    Manifests,      \* manifests to read
    Bad,            \* texts that idSegment refuses, "" among them
    Inexact,        \* texts that exactNames refuses, "" among them
    Pathnames,      \* what the shell is opened with
    Requests        \* paths asked for without a session

VARIABLES
    manifest,
    loaded,         \* Validate found no error
    opened,         \* [path, panels]: what the last pathname opened
    anonymous       \* the last path that was served without a session

documentVars == <<manifest, loaded, opened, anonymous>>

----------------------------------------------------------------------------
IdSegment(s) == s \notin Bad
ExactNames(list) == IsInjective(list) /\ Range(list) \cap Inexact = {}
Field(list, f) == [i \in DOMAIN list |-> list[i][f]]
Unique(list) == IsInjective(Field(list, "id"))

(* The rules Diagnostics has itself: id, version, price, role, targets,    *)
(* dependencies.                                                           *)
PriceValid(p) ==
    /\ p.model \in {"free", "trial", "paid"}
    /\ p.model # "free" => p.sku # ""
    /\ p.model = "trial" => p.days >= 0
HeadValid(m, requireVersion) ==
    /\ IdSegment(m.id)
    /\ requireVersion => m.version # ""
    /\ \A p \in m.pricing : PriceValid(p)
    /\ m.role \in {"", "system", "extension"}
    /\ m.targets \subseteq {"gateway", "vault"}
    /\ \A r \in m.requires : IdSegment(r) /\ r # m.id

(* validateIdentity and validatePublisher (a builtin needs no publisher).  *)
IdentityValid(m) == \E i \in m.identity : i.name # "" /\ i.description # ""
PublisherValid(m) ==
    /\ m.publisher = {} => m.kind = "builtin"
    /\ \A p \in m.publisher : p.idOK /\ p.kidOK

(* validateStatic and validateAliases.                                     *)
SafeSegment(s) == s \notin Bad
StaticValid(m) ==
    /\ \A s \in Range(m.static) : SafeSegment(s.dir) /\ SafeSegment(s.mount)
    /\ IsInjective(Field(m.static, "dir")) /\ IsInjective(Field(m.static, "mount"))
ReservedAliasPrefixes == {<<"p">>, <<".well-known">>}
AbsolutePath(a) == a # <<>> /\ \A i \in DOMAIN a : a[i] \notin Bad
AliasesValid(m) ==
    /\ \A a \in Range(m.aliases) :
          AbsolutePath(a) /\ ~\E r \in ReservedAliasPrefixes : IsPrefix(r, a)
    /\ IsInjective(m.aliases)

(* validatePublicRoutes.                                                   *)
PublicRoutesValid(m) == IsInjective(m.publicRoutes) /\ Range(m.publicRoutes) \subseteq m.routes

(* validateProtocol.                                                       *)
ProtocolMajor == 2
Hooks == {"activation.check", "ready", "health"}
ProtocolValid(p) ==
    /\ p.major \in {0, ProtocolMajor}
    /\ p.major = 0 => p.required = <<>> /\ p.hooks = <<>>
    /\ ExactNames(p.required) /\ ExactNames(p.hooks)
    /\ Range(p.hooks) \subseteq Hooks

(* validateConfig and validateConfigField.  A default is a text with the   *)
(* integer it reads as; bounds are [lo, hi], with "none" for a missing one.*)
ConfigKinds == {"bool", "int", "string", "stringList", "enum", "secret", "provider"}
DefaultValid(f) ==
    CASE f.kind = "bool" -> f.default.text \in {"true", "false"}
      [] f.kind = "int" -> \E n \in f.default.int : (\A l \in f.lo : n >= l) /\ (\A h \in f.hi : n <= h)
      [] f.kind = "enum" -> f.default.text \in f.choices
      [] f.kind \in {"stringList", "secret"} -> FALSE
      [] f.kind = "provider" -> f.default.text \notin Inexact
      [] OTHER -> TRUE
ConfigFieldValid(f) ==
    /\ f.id # ""
    /\ f.kind \in ConfigKinds
    /\ IF f.kind = "provider" THEN f.point = "ok" /\ ExactNames(f.requires)
                              ELSE f.point = "" /\ f.requires = <<>>
    /\ f.lo \cup f.hi # {} => f.kind = "int"
    /\ \A l \in f.lo, h \in f.hi : l <= h
    /\ (f.choices # {}) = (f.kind = "enum") /\ "" \notin f.choices
    /\ f.default.text # "" => DefaultValid(f)
ConfigValid(m) ==
    /\ Unique(m.config) /\ "" \notin Range(Field(m.config, "id"))
    /\ \A s \in Range(m.config) :
          Unique(s.fields) /\ \A f \in Range(s.fields) : ConfigFieldValid(f)

(* validateUI with validateBindings, validateProjectContributions and      *)
(* ValidateNavigation.                                                     *)
Slots == {"default-view", "main-navigation", "sub-navigation", "primary-action",
          "secondary-actions", "status-indicator", "object-actions", "launcher", "settings", "command"}
Owned(m, p) == p # "" /\ p \in Range(Field(m.panels, "id"))
BindingsValid(list) ==
    /\ IsInjective(Field(list, "kind"))
    /\ \A b \in Range(list) :
          b.kind \in {"count", "badge", "liveness", "toggle"} /\ b.event \notin Inexact
UIValid(m) ==
    /\ Unique(m.ui)
    /\ \A c \in Range(m.ui) :
          /\ IdSegment(c.id) /\ c.slot \in Slots
          /\ IF c.slot = "command" THEN c.command \notin Inexact /\ c.panel = ""
                                   ELSE Owned(m, c.panel) /\ c.command = ""
          /\ BindingsValid(c.bindings)
ContributionsValid(m) ==
    /\ Unique(m.views) /\ Unique(m.actions)
    /\ \A v \in Range(m.views) \cup Range(m.actions) :
          IdSegment(v.id) /\ v.label # "" /\ v.icon # "" /\ Owned(m, v.panel)
NavigationValid(m) ==
    \A n \in Range(m.nav) :
        /\ n.id # "" /\ n.kind \in {"", "link", "group", "section"}
        /\ (n.href # "") = (n.kind \in {"", "link"})
        /\ n.placement \in {"", "main", "pinned", "footer"}
        /\ n.kind = "section" => n.parent = {} /\ n.placement \in {"", "main"}
        /\ \A p \in n.parent : p.owner # "" /\ p.id # ""

----------------------------------------------------------------------------
(* parseDocumentPath, MatchDocumentPath and DocumentPathsOverlap.          *)
Lit(v) == [kind |-> "", value |-> v]
Params(p) == {i \in DOMAIN p : p[i].kind # ""}
ParseDocumentPath(p) ==
    /\ p # <<>>
    /\ \A i \in DOMAIN p : p[i].value \notin Bad
    /\ \A i, j \in Params(p) : p[i].value = p[j].value => i = j
    /\ \A i \in DOMAIN p : p[i].kind = "*" => i = Len(p)
CatchAll(p) == p[Len(p)].kind = "*"

MatchDocumentPath(p, path) ==
    /\ ParseDocumentPath(p)
    /\ Len(path) >= Len(p)
    /\ ~CatchAll(p) => Len(path) = Len(p)
    /\ \A i \in DOMAIN path : path[i] \notin Bad
    /\ \A i \in DOMAIN p : p[i].kind = "" => p[i].value = path[i]

DocumentPathsOverlap_Lengths(a, b) ==
    Len(a) = Len(b) /\ \A i \in DOMAIN a : (a[i].kind = "" /\ b[i].kind = "") => a[i] = b[i]
DocumentPathsOverlap(a, b) ==
    /\ ~(~CatchAll(a) /\ Len(a) < Len(b))
    /\ ~(~CatchAll(b) /\ Len(b) < Len(a))
    /\ \A i \in DOMAIN a \cap DOMAIN b :
          \/ \E j \in 1 .. i : a[j].kind = "*" \/ b[j].kind = "*"
          \/ a[i].kind # "" \/ b[i].kind # "" \/ a[i].value = b[i].value

(* validateDocumentPaths: claims need the negotiated feature, a panel that *)
(* is one of its id, and no overlap with an earlier claim.                 *)
Claims(m, i) == {[panel |-> i, at |-> j] : j \in DOMAIN m.panels[i].paths}
Claimed(m) == UNION {Claims(m, i) : i \in DOMAIN m.panels}
Pattern(m, c) == m.panels[c.panel].paths[c.at]

(* Pathnames are lists of texts, and the patterns claimed lists of         *)
(* segments.  The pathnames tried tell patterns apart: for the claims of a *)
(* manifest they hold every path of a claim's length that is made of their *)
(* literals and one more text.                                             *)
Literals(p) == {p[i].value : i \in {j \in DOMAIN p : p[j].kind = ""}} \ Bad
ASSUME PathnamesAssumption ==
    /\ \A p \in Pathnames : p \in Seq(STRING)
    /\ \A m \in Manifests : \A c \in Claimed(m) :
          Pattern(m, c) \in Seq([kind : {"", ":", "*"}, value : STRING])
    /\ \E y \in Pathnames : Len(y) = 1 /\ y[1] \notin Bad /\
          \A m \in Manifests : \A c, d \in Claimed(m) :
              [1 .. Len(Pattern(m, c)) ->
                   Literals(Pattern(m, c)) \cup Literals(Pattern(m, d)) \cup {y[1]}]
                  \subseteq Pathnames

DocumentPathsValid(m) ==
    Claimed(m) # {} =>
        /\ m.protocol.major # 0 /\ "ui.document-paths.v1" \in Range(m.protocol.required)
        /\ \A c \in Claimed(m) :
              /\ IdSegment(m.panels[c.panel].id) /\ m.panels[c.panel].url # ""
              /\ \A i \in DOMAIN m.panels : m.panels[i].id = m.panels[c.panel].id => i = c.panel
              /\ ParseDocumentPath(Pattern(m, c))
        /\ \A c, d \in Claimed(m) : c # d => ~DocumentPathsOverlap(Pattern(m, c), Pattern(m, d))

(* Validate and ValidateDiscover: no error among the diagnostics.          *)
ManifestValid(m, requireVersion) ==
    /\ HeadValid(m, requireVersion) /\ IdentityValid(m) /\ PublisherValid(m)
    /\ StaticValid(m) /\ AliasesValid(m) /\ DocumentPathsValid(m) /\ PublicRoutesValid(m)
    /\ ConfigValid(m) /\ ProtocolValid(m.protocol)
    /\ UIValid(m) /\ ContributionsValid(m) /\ NavigationValid(m)

(* PublicRoute: a route that ends in a slash is a prefix.                  *)
Under(route, path) ==
    \/ route.slash /\ IsPrefix(route.at, path.at) /\ (route.at = path.at => path.slash)
    \/ ~route.slash /\ route = path
PublicRoute(m, path) == \E r \in Range(m.publicRoutes) : Under(r, path)

----------------------------------------------------------------------------
Nothing == [path |-> <<>>, panels |-> {}]
DocumentInit ==
    /\ manifest \in Manifests
    /\ loaded = FALSE
    /\ opened = Nothing
    /\ anonymous = {}

Load ==
    /\ ~loaded
    /\ \E requireVersion \in BOOLEAN : ManifestValid(manifest, requireVersion)
    /\ loaded' = TRUE
    /\ UNCHANGED <<manifest, opened, anonymous>>

OpenPath(path) ==
    /\ loaded
    /\ opened' = [path |-> path,
                  panels |-> {c.panel : c \in {x \in Claimed(manifest) :
                                 MatchDocumentPath(Pattern(manifest, x), path)}}]
    /\ UNCHANGED <<manifest, loaded, anonymous>>

Fetch(path) ==
    /\ loaded
    /\ PublicRoute(manifest, path)
    /\ anonymous' = {path}
    /\ UNCHANGED <<manifest, loaded, opened>>

DocumentNext == Load \/ (\E p \in Pathnames : OpenPath(p)) \/ (\E p \in Requests : Fetch(p))
DocumentSpec == DocumentInit /\ [][DocumentNext]_documentVars

----------------------------------------------------------------------------
(* A pathname opens at most one panel of an admitted manifest, and two     *)
(* claims are refused for overlap only when some pathname matches both.    *)
OnePanelOpens == Cardinality(opened.panels) <= 1
RefusedForCause ==
    \A c, d \in Claimed(manifest) :
        /\ c # d
        /\ ParseDocumentPath(Pattern(manifest, c)) /\ ParseDocumentPath(Pattern(manifest, d))
        /\ DocumentPathsOverlap(Pattern(manifest, c), Pattern(manifest, d))
        => \E p \in Pathnames : /\ MatchDocumentPath(Pattern(manifest, c), p)
                                /\ MatchDocumentPath(Pattern(manifest, d), p)

(* A session is waived only on a route the plugin declared, as the host    *)
(* mounts it: exactly, or as a tree when it ends in a slash.               *)
WaivedIsDeclared == \A p \in anonymous : \E r \in manifest.routes : Under(r, p)

(* A pathname opens at most one panel, a manifest is refused for panels    *)
(* that do share a pathname, and only a declared route is open to everyone *)
(* (DocumentPathsOverlap, MatchDocumentPath, PublicRoute).                 *)
RoutesAreDeclared == OnePanelOpens /\ RefusedForCause /\ WaivedIsDeclared
=============================================================================
