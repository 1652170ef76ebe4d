----------------------------- MODULE Migration -----------------------------
(***************************************************************************)
(* MigrateV1 (v2/plugin/contract: migrate.go, ordered.go): a v1 manifest   *)
(* rewritten for contract 2.  A document is its keys in order and their    *)
(* values; a value is reduced to what the rules look at: a version to the  *)
(* number of its parts, a text to a name with "" for an absent one, a line *)
(* of a README to its kind.                                                *)
(***************************************************************************)
EXTENDS Subjects, SequencesExt

CONSTANTS
    Documents,      \* v1 manifests: [keys, vals]
    Inputs,         \* the decisions of MigrateInput, the files of Dir with them
    Points,         \* names that IsKnownPoint knows
    Id,             \* the id of the plugin, as a sequence of segments
    Known           \* subjects, to judge authority by

VARIABLES
    docs,           \* the document and what each migration made of it
    input

migrateVars == <<docs, input>>

(* The members of an ordered document: set, insertAfter, prepend, delete.  *)
Has(d, k) == k \in DOMAIN d.vals
Put(d, k, v) == [x \in DOMAIN d.vals \cup {k} |-> IF x = k THEN v ELSE d.vals[x]]
Set(d, k, v) == [keys |-> IF Has(d, k) THEN d.keys ELSE Append(d.keys, k), vals |-> Put(d, k, v)]
InsertAfter(d, anchor, k, v) ==
    IF Has(d, k) \/ ~Has(d, anchor)
    THEN Set(d, k, v)
    ELSE [keys |-> FlattenSeq([i \in DOMAIN d.keys |->
                       IF d.keys[i] = anchor THEN <<anchor, k>> ELSE <<d.keys[i]>>]),
          vals |-> Put(d, k, v)]
Prepend(d, k, v) ==
    [keys |-> IF Has(d, k) THEN d.keys ELSE <<k>> \o d.keys, vals |-> Put(d, k, v)]
Delete(d, k) ==
    [keys |-> SelectSeq(d.keys, LAMBDA x : x # k),
     vals |-> [x \in DOMAIN d.vals \ {k} |-> d.vals[x]]]

(* migrateKind: "" where the package's kind cannot be told.                *)
MigrateKind(d, in) ==
    CASE in.kind # "" -> in.kind
      [] in.kind = "" /\ Has(d, "kind") -> d.vals["kind"]
      [] OTHER ->
            IF (Has(d, "spawn") /\ d.vals["spawn"]) \/ Has(d, "binary") THEN "process"
            ELSE IF Has(d, "family") THEN "family"
            ELSE IF "ui/index.html" \in in.files THEN "ui"
            ELSE IF "plugin.go" \in in.files THEN "builtin"
            ELSE ""

(* migrateVersion: a version of one or two parts is padded to three.       *)
Unpadded(d) == Has(d, "version") /\ d.vals["version"] < 3
MigrateVersion(d) == IF Unpadded(d) THEN Set(d, "version", 3) ELSE d

(* migratePublisher: a string becomes an object; an absent one needs a     *)
(* decision, and without it there is no migration.                         *)
Decided(d, in) == Has(d, "publisher") \/ in.publisher # "" \/ in.firstParty
MigratePublisher(d, in) ==
    LET object(id) == [form |-> "object", id |-> id] IN
    CASE Has(d, "publisher") -> Set(d, "publisher", object(d.vals["publisher"].id))
      [] ~Has(d, "publisher") /\ in.publisher # "" -> Set(d, "publisher", object(in.publisher))
      [] OTHER -> Set(d, "publisher", object("bytedesk"))

(* firstParagraph: the text lines up to the next blank or heading, badges  *)
(* and headings before them skipped.                                       *)
FirstParagraph(lines) ==
    LET from == {i \in DOMAIN lines : lines[i] = "text"
                    /\ \A j \in 1 .. (i - 1) : lines[j] \in {"blank", "heading", "badge"}}
        first == CHOOSE i \in from : TRUE
    IN  IF from = {} THEN 0
        ELSE Cardinality({i \in DOMAIN lines :
                 i >= first /\ \A j \in first .. i : lines[j] \in {"text", "badge"}})

(* migrateIdentity: what is there stays, what is not falls back to the     *)
(* input, the first label, the README, the files; the homepage moves.      *)
Or(a, b) == IF a # "" THEN a ELSE b
NoIdentity == [name |-> "", description |-> "", homepage |-> "", readme |-> "", icon |-> ""]
Described(in) ==
    CASE in.description # "" -> in.description
      [] in.description = "" /\ "README.md" \in in.files /\ FirstParagraph(in.readme) > 0 -> "paragraph"
      [] OTHER -> ""
MigrateIdentity(d, in) ==
    LET old == IF Has(d, "identity") THEN d.vals["identity"] ELSE NoIdentity
        label == IF Has(d, "nav") THEN d.vals["nav"] ELSE ""
        identity ==
            [name |-> Or(old.name, Or(in.name, Or(label, "id"))),
             description |-> Or(old.description, Described(in)),
             homepage |-> Or(old.homepage, IF Has(d, "homepage") THEN d.vals["homepage"] ELSE ""),
             readme |-> Or(old.readme, IF "README.md" \in in.files THEN "README.md" ELSE ""),
             icon |-> Or(old.icon, IF "images/icon.svg" \in in.files THEN "images/icon.svg" ELSE "")]
    IN  InsertAfter(Delete(d, "homepage"), "version", "identity", identity)

MigrateProtocol(d) ==
    IF Has(d, "protocol") /\ d.vals["protocol"] = 1 THEN Set(d, "protocol", 2) ELSE d

(* migrateImplements: a "host." that the point does not have is dropped.   *)
Bare(p) == IF p \notin Points /\ p[1] = "host" /\ Tail(p) \in Points THEN Tail(p) ELSE p
MigrateImplements(d) ==
    IF Has(d, "implements")
    THEN Set(d, "implements", [i \in DOMAIN d.vals["implements"] |-> Bare(d.vals["implements"][i])])
    ELSE d

(* migratePermissions: what the own namespace covers is dropped, whatever  *)
(* the verb; an emptied list goes, and an emptied block with it.           *)
CoveredByOwnNamespace_Root(p) == p[1] \in {"event", "tick", "cmd", "svc"}
CoveredByOwnNamespace(p) == ParsePattern(p) /\ \E g \in OwnNamespacePatterns(Id) : Covers(g, p)
KeptPatterns(list) == SelectSeq(list, LAMBDA p : ~CoveredByOwnNamespace(p))
MigratePermissions(d) ==
    IF ~Has(d, "permissions") THEN d
    ELSE LET old == d.vals["permissions"]
             verbs == {v \in DOMAIN old : KeptPatterns(old[v]) # <<>> \/ old[v] = <<>>}
             kept == [v \in verbs |-> KeptPatterns(old[v])]
         IN  IF verbs = {} THEN Delete(d, "permissions") ELSE Set(d, "permissions", kept)

(* MigrateV1, in the order of the rules.                                   *)
MigrateV1(d, in) ==
    LET d1 == Prepend(d, "contract", 2)
        d2 == Delete(InsertAfter(d1, "contract", "kind", MigrateKind(d1, in)), "spawn")
        d3 == MigratePublisher(MigrateVersion(d2), in)
        d4 == MigrateIdentity(d3, in)
    IN  MigratePermissions(MigrateImplements(MigrateProtocol(d4)))

Init ==
    /\ input \in Inputs
    /\ docs \in {<<d>> : d \in Documents}

Last_ == docs[Len(docs)]
Migrate ==
    /\ Len(docs) < 3
    /\ MigrateKind(Last_, input) # ""
    /\ Decided(Last_, input)
    /\ docs' = Append(docs, MigrateV1(Last_, input))
    /\ UNCHANGED input

Next == Migrate
Spec == Init /\ [][Next]_migrateVars

----------------------------------------------------------------------------
(* A migrated manifest migrates to itself, key order included: the tool    *)
(* may be run again, or on a tree half of whose manifests were migrated.   *)
MigrationSettles == Len(docs) = 3 => docs[3] = docs[2]

(* The keys the rules do not touch keep their order, and no key is added   *)
(* but the four the rules name.                                            *)
OrderKept ==
    Len(docs) > 1 =>
        LET old == docs[1].keys
            new == docs[2].keys
        IN  /\ Range(new) \ Range(old) \subseteq {"contract", "kind", "publisher", "identity"}
            /\ SelectSeq(new, LAMBDA k : k \in Range(old)) = SelectSeq(old, LAMBDA k : k \in Range(new))

(* What a manifest may do for a verb, with its own namespace.              *)
Patterns(d, verb) ==
    (IF Has(d, "permissions") /\ verb \in DOMAIN d.vals["permissions"]
     THEN Range(d.vals["permissions"][verb]) ELSE {})
        \cup (CASE verb = "publish" -> OwnNamespace(Id).publish
                [] verb = "subscribe" -> OwnNamespace(Id).subscribe
                [] OTHER -> {})

(* No rule widens what the manifest asks for, and an event the plugin      *)
(* published or a tick it followed is still within its reach.              *)
NothingWidened ==
    Len(docs) > 1 =>
        \A verb \in {"publish", "subscribe", "request"}, s \in Known :
            /\ MatchedByAny(Patterns(docs[2], verb), s) => MatchedByAny(Patterns(docs[1], verb), s)
            /\ verb = "publish" /\ MatchedByAny(Patterns(docs[1], verb), s) /\ s[1] \in {"event", "tick"}
                  => MatchedByAny(Patterns(docs[2], verb), s)
=============================================================================
