------------------------ MODULE ManifestAuthority ------------------------
(***************************************************************************)
(* The authority a v2 manifest asks for, and how it is admitted, approved  *)
(* and used (v2/plugin: validate.go, manifest.go, ineligible.go, digest.go,*)
(* capabilities.go, the Registrar of typed.go).  An operator reads the     *)
(* consent sheet of an admitted manifest and approves its grants digest; a *)
(* later manifest of the same plugin runs without a new question when it   *)
(* has the digest that was approved.  The host that stores the approval is *)
(* external.                                                               *)
(*                                                                         *)
(* Names are compared after they are trimmed; they are modelled trimmed.   *)
(***************************************************************************)
EXTENDS Subjects, SequencesExt

CONSTANTS
    Mesh,           \* the first token of the inter-gateway prefix, "bd"
    Ineligible,     \* PermanentlyIneligible()
    Providers,      \* the tails of svc.* only the host may call
    Catalog,        \* CapabilityIDs()
    Vocabulary,     \* bus.CapabilityNames()
    Candidates,     \* the manifests that may be offered
    BusSubjects     \* subjects of the bus, to judge authority by

VARIABLES
    admitted,      \* manifests in force, one for an id
    approved,       \* id -> [digest, read]: the approval and the manifest read for it
    mounted         \* endpoints a Registrar took: [id, subject]

authorityVars == <<admitted, approved, mounted>>

(* Ids, patterns and subjects are lists of tokens.                         *)
ASSUME CandidatesAssumption ==
    /\ \A s \in Ineligible \cup Providers \cup BusSubjects : s \in Seq(STRING)
    /\ <<>> \notin BusSubjects
    /\ \A m \in Candidates :
          /\ m.id \in Seq(STRING) \ {<<>>}
          /\ \A verb \in {"publish", "subscribe", "request"} : m[verb] \in Seq(Seq(STRING))
          /\ \A i \in DOMAIN m.serves : \A j \in DOMAIN m.serves[i].endpoints :
                m.serves[i].endpoints[j].subject \in Seq(STRING)

(* A family of the substrate is ineligible, "$SYS.>".                      *)
ASSUME SubstrateAssumption ==
    \E d \in Ineligible : Len(d) = 2 /\ d[1] \notin {"*", ">"} /\ d[2] = ">"

AuthorityInit ==
    /\ admitted = {}
    /\ approved = <<>>
    /\ mounted = {}

----------------------------------------------------------------------------
(* patternsOverlap: the first token at which one of the two ends, has a    *)
(* ">", or differs from the other decides.                                 *)
Stops(a, b, i) ==
    \/ i \notin DOMAIN a \/ i \notin DOMAIN b
    \/ a[i] = ">" \/ b[i] = ">"
    \/ a[i] # "*" /\ b[i] # "*" /\ a[i] # b[i]
StopAt(a, b) ==
    CHOOSE i \in 1 .. (Len(a) + 1) : Stops(a, b, i) /\ \A j \in 1 .. (i - 1) : ~Stops(a, b, j)
PatternsOverlap_Lengths(a, b) ==
    Len(a) = Len(b) /\ \A i \in DOMAIN a : Agrees(a[i], b[i]) \/ Agrees(b[i], a[i])
PatternsOverlap(a, b) ==
    LET i == StopAt(a, b) IN
    IF i \in DOMAIN a /\ i \in DOMAIN b THEN a[i] = ">" \/ b[i] = ">" ELSE Len(a) = Len(b)

(* refuseReservedTokens.                                                   *)
RefusesReserved(p) == p[1] = Mesh \/ \E i \in DOMAIN p : p[i] \in Reserved

Gateway == <<"cmd", "gateway", ">">>
Provider(t) == <<"svc", "*">> \o t \o <<">">>

(* validateSubjectPatterns.  The id is refused for what its own namespace  *)
(* reaches; a pattern of a list is refused for any of the rules.           *)
IdAllowed(id) ==
    /\ id # <<"gateway">>
    /\ ~\E g \in OwnNamespacePatterns(id), d \in Ineligible : PatternsOverlap(d, g)
PatternAllowed(m, verb, p) ==
    /\ ParsePattern(p)
    /\ ~RefusesReserved(p)
    /\ verb # "request" => ~PatternsOverlap(Gateway, p)
    /\ \A t \in Providers :
          PatternsOverlap(Provider(t), p) => verb = "subscribe" /\ Covers(Tree("svc", m.id), p)
    /\ ~\E g \in OwnNamespacePatterns(m.id) : Covers(g, p)
    /\ ~\E d \in Ineligible : PatternsOverlap(d, p)
SubjectPatternsValid(m) ==
    /\ IdAllowed(m.id)
    /\ \A verb \in {"publish", "subscribe", "request"} :
          /\ IsInjective(m[verb])
          /\ \A p \in Range(m[verb]) : PatternAllowed(m, verb, p)

(* validateServes: named services and endpoints, every endpoint in one of  *)
(* the two trees of the plugin.                                            *)
Endpoints(m) == UNION {Range(s.endpoints) : s \in Range(m.serves)}
Names(list) == [i \in DOMAIN list |-> list[i].name]
NamesValid(list) == "" \notin Range(Names(list)) /\ IsInjective(Names(list))
InOwn(id, s) == \E root \in {"svc", "cmd"} : IsStrictPrefix(<<root>> \o id, s)
ServesValid(m) ==
    /\ NamesValid(m.serves)
    /\ \A s \in Range(m.serves) : NamesValid(s.endpoints)
    /\ \A e \in Endpoints(m) :
          ParseSubject(e.subject) /\ ~RefusesReserved(e.subject) /\ InOwn(m.id, e.subject)

(* validateAssets: a stream has both limits.                               *)
AssetsValid(m) ==
    /\ NamesValid(m.streams) /\ NamesValid(m.kv) /\ NamesValid(m.objects)
    /\ \A s \in Range(m.streams) :
          /\ s.maxBytes > 0 /\ s.maxAge > 0 /\ s.maxMsgs >= 0
          /\ \A p \in Range(s.subjects) : ParsePattern(p) /\ ~RefusesReserved(p)
    /\ \A b \in Range(m.kv) : b.maxBytes >= 0 /\ b.history >= 0
    /\ \A b \in Range(m.objects) : b.maxBytes >= 0

(* validateNeeds and validateCapabilities: each from its closed list.      *)
WordsValid(list, words) == IsInjective(list) /\ Range(list) \subseteq words

AuthorityValid(m) ==
    /\ SubjectPatternsValid(m)
    /\ ServesValid(m)
    /\ AssetsValid(m)
    /\ WordsValid(m.needs, Vocabulary)
    /\ WordsValid(m.capabilities, Range(Catalog))

(* The subjects tell patterns apart: for a publish and a subscribe pattern *)
(* of a valid manifest they hold the one with the names of both, and some  *)
(* other name where neither has one.                                       *)
IsName(p, i) == i \in DOMAIN p /\ p[i] \notin {"*", ">"}
Common(p, q, x) ==
    [i \in 1 .. (IF Len(p) >= Len(q) THEN Len(p) ELSE Len(q)) |->
        IF IsName(p, i) THEN p[i] ELSE IF IsName(q, i) THEN q[i] ELSE x]
ASSUME BusSubjectsAssumption ==
    \E x \in Tokens : \A m \in {c \in Candidates : AuthorityValid(c)} :
      \A i \in DOMAIN m.publish, j \in DOMAIN m.subscribe :
        Common(m.publish[i], m.subscribe[j], x) \in BusSubjects

----------------------------------------------------------------------------
(* GrantsDigest: what is hashed, the hash being one-to-one.  A record is   *)
(* its fields between separators, a list is sorted (a bag is what sorting  *)
(* leaves of it), and a section carries its label and its count.           *)
Text(x) == <<x>>
Join(fields, sep) ==
    FoldLeft(LAMBDA acc, f : IF acc = <<"start">> THEN f ELSE acc \o <<sep>> \o f, <<"start">>, fields)
Sorted(list) == [v \in Range(list) |-> Cardinality({i \in DOMAIN list : list[i] = v})]
InOrder(list) == SetToSeq(Range(list))
Section(label, list) == <<label, Len(list), Sorted(list)>>

EndpointText(e) == Join(<<Text(e.name), e.subject, Text(e.point)>>, "US")
ServiceText(s) ==
    Join(<<Text(s.name), Text(s.version), Text(s.group),
           Join(InOrder([i \in DOMAIN s.endpoints |-> EndpointText(s.endpoints[i])]), "RS")>>, "US")
StreamText(s) ==
    Join(<<Text(s.name), Text(s.maxBytes), Text(s.maxAge), Text(s.maxMsgs),
           Join(InOrder(s.subjects), "RS")>>, "US")
BucketText_NoHistory(b) == Join(<<Text(b.name), Text(b.maxBytes), Text(b.ttl)>>, "US")
BucketText(b) == Join(<<Text(b.name), Text(b.maxBytes), Text(b.ttl), Text(b.history)>>, "US")
ObjectText(b) == Join(<<Text(b.name), Text(b.maxBytes), Text(b.ttl)>>, "US")
GrantsDigest(m) ==
    << Section("publish", m.publish), Section("request", m.request),
       Section("subscribe", m.subscribe),
       Section("serves", [i \in DOMAIN m.serves |-> ServiceText(m.serves[i])]),
       Section("streams", [i \in DOMAIN m.streams |-> StreamText(m.streams[i])]),
       Section("kv", [i \in DOMAIN m.kv |-> BucketText(m.kv[i])]),
       Section("objects", [i \in DOMAIN m.objects |-> ObjectText(m.objects[i])]),
       Section("needs", m.needs), Section("capabilities", m.capabilities) >>

(* ConsentCapabilities: the lines of the sheet, in the order of the        *)
(* catalog; CapabilityEnabled: what a grant turns on.                      *)
ConsentCapabilities(m) == SelectSeq(Catalog, LAMBDA c : c \in Range(m.capabilities))
CapabilityEnabled(granted, c) == c \in Range(Catalog) /\ c \in Range(granted)

----------------------------------------------------------------------------
(* The operator reads and approves an admitted manifest, which then is in  *)
(* force; one the approval already covers replaces it without a question.  *)
InForce(id) == {m \in admitted : m.id = id}
Approve(m) ==
    /\ AuthorityValid(m)
    /\ InForce(m.id) = {}
    /\ admitted' = admitted \cup {m}
    /\ approved' = approved @@ (m.id :> [digest |-> GrantsDigest(m), read |-> m])
    /\ UNCHANGED mounted

Replace(m) ==
    /\ AuthorityValid(m)
    /\ InForce(m.id) # {}
    /\ approved[m.id].digest = GrantsDigest(m)
    /\ admitted' = (admitted \ InForce(m.id)) \cup {m}
    /\ UNCHANGED <<approved, mounted>>

(* Registrar.Mount, over the subjects the manifest in force serves.        *)
Mount(m, s) ==
    /\ CoveredByAny({e.subject : e \in Endpoints(m)}, s)
    /\ [id |-> m.id, subject |-> s] \notin mounted
MountEndpoint(m, s) ==
    /\ Mount(m, s)
    /\ mounted' = mounted \cup {[id |-> m.id, subject |-> s]}
    /\ UNCHANGED <<admitted, approved>>

AuthorityNext ==
    \/ \E m \in Candidates : Approve(m) \/ Replace(m)
    \/ \E m \in admitted : \E s \in BusSubjects : MountEndpoint(m, s)

AuthoritySpec == AuthorityInit /\ [][AuthorityNext]_authorityVars

(* Bound: two manifests in force, replaced before anything is mounted.     *)
AuthorityBounded ==
    \/ \E m \in (IF mounted = {} THEN Candidates ELSE {}) :
          \/ Cardinality(admitted) < 2 /\ Approve(m)
          \/ Replace(m)
    \/ \E m \in admitted : \E s \in BusSubjects : MountEndpoint(m, s)

----------------------------------------------------------------------------
MayPublish(m, s) == MatchedByAny(Range(m.publish) \cup OwnNamespace(m.id).publish, s)
MaySubscribe(m, s) == MatchedByAny(Range(m.subscribe) \cup OwnNamespace(m.id).subscribe, s)
MayRequest(m, s) == MatchedByAny(Range(m.request), s)
MayServe(m, s) == MatchedByAny(OwnNamespace(m.id).serves, s)

(* No subject of a permanently ineligible family is within reach of a      *)
(* plugin in force, by its own namespace or by a pattern it declared; the  *)
(* gateway's facades may be called and nothing else, unless the id itself  *)
(* is below gateway's (of those the rule refuses "gateway" alone) or has a *)
(* wildcard; no declared pattern reaches the families of the substrate.    *)
NothingIneligible ==
    \A m \in admitted : \A s \in BusSubjects :
        /\ MayPublish(m, s) \/ MaySubscribe(m, s) \/ MayRequest(m, s) \/ MayServe(m, s)
              => ~MatchedByAny(Ineligible, s)
        /\ m.id[1] \notin {"gateway", "*", ">"}
              => (MayPublish(m, s) \/ MaySubscribe(m, s) \/ MayServe(m, s) => ~Matches(Gateway, s))
        /\ MatchedByAny(Range(m.publish) \cup Range(m.subscribe) \cup Range(m.request), s)
              => Len(s) = 1 \/ s[1] \notin Reserved

(* The calls the host makes to the provider a plugin implements are seen   *)
(* by no other plugin (for ids of one segment: a dotted id's tree has one  *)
(* token more than the rule's "svc.*" stands for).                         *)
ProviderCallsPrivate ==
    \A m \in admitted : \A s \in BusSubjects :
        (\E t \in Providers : Matches(Provider(t), s)) => ~MaySubscribe(m, s) /\ ~MayRequest(m, s)

(* The refusal's test is exact: two patterns overlap when some subject     *)
(* matches both.                                                           *)
OverlapIsCommonSubject ==
    \A m \in admitted : \A p \in Range(m.publish), q \in Range(m.subscribe) :
        PatternsOverlap(p, q) <=> \E s \in BusSubjects : Matches(p, s) /\ Matches(q, s)

(* A subject two plugins serve belongs to both their trees, which needs    *)
(* an id that is a dotted prefix of the other: one plugin never answers a  *)
(* call that is addressed to another.                                      *)
EndpointsDisjoint ==
    \A x, y \in mounted :
        x.id # y.id /\ x.subject = y.subject
            => IsPrefix(x.id, y.id) \/ IsPrefix(y.id, x.id)

(* What a plugin in force may do on the bus is eligible, and is mounted on *)
(* no subject of another plugin; patterns are refused for overlap exactly  *)
(* when they share a subject (validateSubjectPatterns, patternsOverlap,    *)
(* validateServes, Mount).                                                 *)
AuthorityIsEligible ==
    /\ NothingIneligible
    /\ ProviderCallsPrivate
    /\ OverlapIsCommonSubject
    /\ EndpointsDisjoint

(* What is in force asks for exactly what the operator read: the same      *)
(* patterns for each verb, endpoints, assets, needs and lines of consent,  *)
(* however the manifest was reordered since, and no capability is turned   *)
(* on that had no line.                                                    *)
AuthorityWasRead ==
    \A m \in admitted :
        LET read == approved[m.id].read IN
        /\ \A f \in {"publish", "subscribe", "request", "needs", "streams", "kv", "objects"} :
              Range(m[f]) = Range(read[f])
        /\ {[s EXCEPT !.endpoints = Range(@)] : s \in Range(m.serves)}
              = {[s EXCEPT !.endpoints = Range(@)] : s \in Range(read.serves)}
        /\ \A c \in Range(Catalog) :
              CapabilityEnabled(m.capabilities, c) => c \in Range(ConsentCapabilities(read))
=============================================================================
