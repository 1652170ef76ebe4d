------------------------------ MODULE Package ------------------------------
(***************************************************************************)
(* A plugin directory on its way to a host: the contract's gates over the  *)
(* tree (v2/plugin/contract: contract.go, layout.go), the loader's         *)
(* (v2/plugin/loaddir.go), and the two packers (v2/pack: WriteBDX of       *)
(* bdx.go, Dir of pack.go).                                                *)
(*                                                                         *)
(* A tree maps the path of a file or of a symbolic link to what a stat of  *)
(* it tells: whether it is a link, whether the link's target is inside the *)
(* root, the executable bit, the size, and the time, which must not        *)
(* matter.  The tool may crash between any two of its steps, and the       *)
(* author may touch a file at any time; nobody edits the tree while the    *)
(* tool runs.                                                              *)
(***************************************************************************)
EXTENDS Naturals, Sequences, SequencesExt, FiniteSets

CONSTANTS
    PackManifests,      \* kind, spawn, family, binary, targets, minCore, version, aliases
    Trees,              \* the directories to pack
    Classes,            \* layout.json: kind -> class -> its globs
    Required,           \* kind -> paths that must exist
    Forbidden, Ignored, \* globs
    MaxFiles, MaxBytes, MaxImageBytes,
    Images,             \* names with the extension of an image
    Options             \* the host's gate: host, core, floor, reserved

VARIABLES
    pkg, tree,          \* the directory
    phase,              \* where WriteBDX is
    payload,            \* package.tar.gz in the staging directory
    partial, final,     \* the members written to <name>.partial and to <name>
    shipped             \* every payload a reader found under the final name

packageVars == <<pkg, tree, phase, payload, partial, final, shipped>>

PluginJSON == <<"plugin.json">>
Members == <<"plugin.json", "attestation.json", "package.tar.gz">>

----------------------------------------------------------------------------
(* matchSegments: "**" is zero or more segments, "*" is one.  The segments *)
(* of g are taken from its end: from[n] has the places of s from which the *)
(* last n match all the rest.                                              *)
From(rest, x, s) ==
    IF x = "**" THEN {i \in 1 .. (Len(s) + 1) : \E j \in rest : i <= j}
    ELSE {i \in 1 .. Len(s) : x \in {"*", s[i]} /\ i + 1 \in rest}
MatchSegments(g, s) ==
    LET from[n \in 0 .. Len(g)] ==
          IF n = 0 THEN {Len(s) + 1} ELSE From(from[n - 1], g[Len(g) - n + 1], s)
    IN  1 \in from[Len(g)]

(* matchAny, at any depth for a forbidden name.                            *)
Tails(s) == {SubSeq(s, i, Len(s)) : i \in 1 .. Len(s)}
MatchAny(globs, s, anyDepth) ==
    \E g \in globs : \E t \in IF anyDepth THEN Tails(s) ELSE {s} : MatchSegments(g, t)

(* validateKind, the rule about the binary of a spawned plugin, and the    *)
(* kind a manifest is taken for: KindOrInferred without a tree, inferKind  *)
(* with one.                                                               *)
Kinds == {"builtin", "process", "ui", "family"}
KindValid(x) ==
    /\ x.kind \in Kinds \cup {""}
    /\ x.spawn => x.binary # ""
    /\ x.kind # "" =>
          /\ x.spawn => x.kind = "process"
          /\ (x.kind = "family") = x.family
          /\ x.kind # "process" /\ ~x.spawn => x.binary = ""
KindOrInferred(x) ==
    IF x.kind # "" THEN x.kind ELSE IF x.family THEN "family" ELSE IF x.spawn THEN "process" ELSE "builtin"
HasFile(t, p) == p \in DOMAIN t /\ ~t[p].link
InferKind(x, t) ==
    IF KindOrInferred(x) = "builtin" /\ x.kind = "" /\ HasFile(t, <<"ui", "index.html">>)
    THEN "ui" ELSE KindOrInferred(x)

(* os.Stat follows a link, and finds a directory too.                      *)
PathExists(t, p) == \E q \in DOMAIN t : IsPrefix(p, q)
Executable(t, p) == p \in DOMAIN t => t[p].exec

(* Supports, and hostGate: target, versions, and aliases the host keeps.   *)
Supports(x, host) == host \in (IF x.targets = {} THEN {"gateway"} ELSE x.targets)
HostGate(x, o) ==
    /\ o.host # "" => Supports(x, o.host)
    /\ o.core > 0 => x.minCore <= o.core
    /\ x.version >= o.floor
    /\ ~\E a \in x.aliases, r \in o.reserved : r # <<>> /\ IsPrefix(r, a)

(* classify, and the verdict on one regular file of the tree.              *)
Glob(g, x) == IF g = <<"${binary}">> THEN <<x.binary>> ELSE g
Class(kind, x, p) ==
    {c \in DOMAIN Classes[kind] :
        \E g \in Classes[kind][c] :
            /\ g = <<"${binary}">> => kind = "process" /\ x.binary # ""
            /\ MatchSegments(Glob(g, x), p)}
FileAllowed(kind, x, t, p) ==
    \/ p = PluginJSON
    \/ /\ ~MatchAny(Forbidden, p, TRUE)
       /\ \/ MatchAny(Ignored, p, FALSE)
          \/ /\ Class(kind, x, p) # {}
             /\ "images" \in Class(kind, x, p) => p[Len(p)] \in Images /\ t[p].size <= MaxImageBytes

(* verifyTree in package mode, verifyRefs with it.                         *)
Regular(t) == {p \in DOMAIN t : ~t[p].link}
Bytes(t) == Cardinality(UNION {{p} \X (1 .. t[p].size) : p \in Regular(t)})
BinaryPresent(kind, x, t) ==
    kind = "process" /\ x.binary # "" =>
        PathExists(t, <<x.binary>>) /\ Executable(t, <<x.binary>>)
TreeValid(x, t) ==
    LET kind == InferKind(x, t) IN
    /\ \A p \in DOMAIN t : t[p].link => t[p].inside
    /\ \A p \in Regular(t) : FileAllowed(kind, x, t, p)
    /\ \A p \in Required[kind] : HasFile(t, p)
    /\ Cardinality(Regular(t)) <= MaxFiles
    /\ Bytes(t) <= MaxBytes
    /\ BinaryPresent(kind, x, t)

(* VerifyDir: the report is OK.                                            *)
VerifyDir(x, t, o) ==
    /\ HasFile(t, PluginJSON)
    /\ KindValid(x)
    /\ HostGate(x, o)
    /\ TreeValid(x, t)

(* LoadDirForHost, which looks for the binary only where spawn is set.     *)
LoadDirForHost(x, t, host) ==
    /\ HasFile(t, PluginJSON)
    /\ KindValid(x)
    /\ x.spawn => PathExists(t, <<x.binary>>)
    /\ host # "" /\ Supports(x, host)

----------------------------------------------------------------------------
(* writePayload: regular files only, three names left out at any depth,    *)
(* the mode reduced to its executable bit and the time dropped.            *)
Skipped(p) == \E i \in DOMAIN p : p[i] \in {".git", "SHA256SUMS", ".unsigned"}
TarHeader(f) == [f EXCEPT !.time = 0]
Payload(t) == [p \in {q \in Regular(t) : ~Skipped(q)} |-> TarHeader(t[p])]

(* pack.Dir: every file copied with its links followed and made            *)
(* executable, and two files added.                                        *)
Added == {<<"SHA256SUMS">>, <<".unsigned">>}
LegacyArchive(t) ==
    [p \in {q \in DOMAIN t : ~Skipped(q)} \cup Added |->
        [link |-> FALSE, inside |-> TRUE, exec |-> p \notin Added,
         size |-> IF p \in Added THEN 0 ELSE t[p].size, time |-> 0]]
(* writeSHA256SUMS: the paths it has a line for.                           *)
Sums(archive) == DOMAIN archive \ Added

----------------------------------------------------------------------------
(* A directory is finite.  The layout requires nothing the packer leaves   *)
(* out, forbids neither the manifest nor what the legacy packer adds, and  *)
(* ignores the latter.                                                     *)
ASSUME TreesAssumption ==
    \A t \in Trees :
        /\ IsFiniteSet(DOMAIN t)
        /\ t \in [DOMAIN t -> [link : BOOLEAN, inside : BOOLEAN, exec : BOOLEAN, size : Nat, time : Nat]]
        /\ \A p \in DOMAIN t : p \in Seq(STRING) \ {<<>>}
ASSUME LayoutAssumption ==
    /\ MaxFiles \in Nat /\ MaxBytes \in Nat
    /\ \A g \in Forbidden : g \in Seq(STRING)
    /\ \A k \in Kinds : \A p \in Required[k] : ~Skipped(p)
    /\ \A p \in Added \cup {PluginJSON} : ~MatchAny(Forbidden, p, TRUE)
    /\ \A p \in Added : MatchAny(Ignored, p, FALSE)

PackInit ==
    /\ pkg \in PackManifests
    /\ tree \in Trees
    /\ phase = "idle"
    /\ payload = <<>>
    /\ partial = <<>>
    /\ final = [members |-> <<>>, payload |-> <<>>]
    /\ shipped = {}

(* WriteBDX: verify, stage the payload, write the container member by      *)
(* member under a name of its own, rename.                                 *)
VerifyPackage ==
    /\ phase = "idle"
    /\ \E o \in Options : VerifyDir(pkg, tree, o)
    /\ phase' = "verified"
    /\ UNCHANGED <<pkg, tree, payload, partial, final, shipped>>
Stage ==
    /\ phase = "verified"
    /\ payload' = Payload(tree)
    /\ partial' = <<>>
    /\ phase' = "staged"
    /\ UNCHANGED <<pkg, tree, final, shipped>>
WriteContainer_InPlace ==
    /\ phase = "staged"
    /\ Len(partial) < Len(Members)
    /\ partial' = Append(partial, Members[Len(partial) + 1])
    /\ final' = [members |-> partial', payload |-> payload]
    /\ UNCHANGED <<pkg, tree, phase, payload, shipped>>
WriteContainer ==
    /\ phase = "staged"
    /\ Len(partial) < Len(Members)
    /\ partial' = Append(partial, Members[Len(partial) + 1])
    /\ UNCHANGED <<pkg, tree, phase, payload, final, shipped>>
Rename ==
    /\ phase = "staged"
    /\ Len(partial) = Len(Members)
    /\ final' = [members |-> partial, payload |-> payload]
    /\ phase' = "idle"
    /\ UNCHANGED <<pkg, tree, payload, partial, shipped>>
(* A failed write removes the partial file; a crash leaves it behind.      *)
Fail ==
    /\ phase # "idle"
    /\ phase' = "idle"
    /\ partial' \in {<<>>, partial}
    /\ UNCHANGED <<pkg, tree, payload, final, shipped>>

(* Inspect stops at the first missing member; OpenPayload hands the bytes  *)
(* to the host's extractor.                                                *)
MissingMembers == Range(Members) \ Range(final.members)
Inspect ==
    /\ final.members # <<>>
    /\ shipped' = shipped \cup {[missing |-> MissingMembers, tree |-> final.payload]}
    /\ UNCHANGED <<pkg, tree, phase, payload, partial, final>>

Touch(p) ==
    /\ tree[p].time = 1
    /\ tree' = [tree EXCEPT ![p].time = 2]
    /\ UNCHANGED <<pkg, phase, payload, partial, final, shipped>>

PackNext ==
    \/ VerifyPackage \/ Stage \/ WriteContainer \/ Rename \/ Fail \/ Inspect
    \/ \E p \in DOMAIN tree : Touch(p)

PackSpec == PackInit /\ [][PackNext]_packageVars

----------------------------------------------------------------------------
(* A reader never finds a half-written package under the final name,       *)
(* wherever the packer failed, and two packs of one tree ship the same     *)
(* bytes, whatever was touched between them: a signature of one is a       *)
(* signature of the other.                                                 *)
ShippedIsWhole ==
    /\ \A s \in shipped : s.missing = {}
    /\ Cardinality(shipped) <= 1

(* No shipped path has, at any depth, a forbidden name: some suffix of it  *)
(* along which the segments of a forbidden glob can be laid out.           *)
Describes(g, s) ==
    \E at \in [1 .. (Len(g) + 1) -> 1 .. (Len(s) + 1)] :
        /\ at[1] = 1 /\ at[Len(g) + 1] = Len(s) + 1
        /\ \A i \in DOMAIN g :
              IF g[i] = "**" THEN at[i] <= at[i + 1]
              ELSE at[i + 1] = at[i] + 1 /\ g[i] \in {"*", s[at[i]]}
NothingForbiddenShips ==
    \A s \in shipped : \A p \in DOMAIN s.tree :
        ~\E g \in Forbidden, t \in Tails(p) : Describes(g, t)

(* What was packed passes the gate again where it is extracted, unless     *)
(* nothing of the binary is packed: the gate follows a symbolic link, and  *)
(* takes a directory of links or of left-out files, the packer drops them. *)
(* The legacy archive of the same tree passes it too, if two more files    *)
(* fit and its links are no more than names for files.                     *)
NoLinks == \A p \in DOMAIN tree : ~tree[p].link
BinaryPacked == pkg.binary = "" \/ PathExists(Payload(tree), <<pkg.binary>>)
PackedVerifies ==
    /\ \A s \in shipped : \A o \in Options :
          VerifyDir(pkg, tree, o) /\ BinaryPacked => VerifyDir(pkg, s.tree, o)
    /\ \A o \in Options :
          VerifyDir(pkg, tree, o) /\ BinaryPacked /\ NoLinks /\ Cardinality(DOMAIN tree) + 2 <= MaxFiles
              => /\ VerifyDir(pkg, LegacyArchive(tree), o)
                 /\ DOMAIN tree \ {p \in DOMAIN tree : Skipped(p)} = Sums(LegacyArchive(tree))

(* A directory the contract's gate accepts for a host is loaded by that    *)
(* host, whichever of the two ways the kind is spelled (a manifest with    *)
(* spawn, a family and no kind is the one the two read differently).       *)
VerifiedLoads ==
    \A o \in Options :
        VerifyDir(pkg, tree, o) /\ o.host # "" /\ ~(pkg.spawn /\ pkg.family)
            => LoadDirForHost(pkg, tree, o.host)

(* Whatever crashes, a reader finds whole archives only, of nothing that   *)
(* is forbidden; what was packed verifies, and what was verified for a     *)
(* host loads there (WriteBDX, VerifyDir, LoadDirForHost).                 *)
OnlyWholeShips == ShippedIsWhole /\ NothingForbiddenShips /\ PackedVerifies /\ VerifiedLoads
=============================================================================
