--------------------------- MODULE Authorization ---------------------------
(***************************************************************************)
(* What a principal may publish and receive, and whose name a message      *)
(* carries (v2/bus/identity.go, msg.go; v2/bus/memory/conn.go, store.go).  *)
(* Publish and Subscribe pass the gate of the substrate: grammar,          *)
(* permanent deny, grant.  The substrate strips the identity headers a     *)
(* caller wrote and stamps its own.                                        *)
(*                                                                         *)
(* A header is its lower-case key, whether the caller spelled it so, and   *)
(* its value: the plugin or the lease it names.                            *)
(***************************************************************************)
EXTENDS Subjects, FiniteSets

CONSTANTS
    Plugins,        \* each with a connection of its own
    Leases,         \* [Plugins -> the subject lease, or ""]
    Denies,         \* deny lists to try
    PublishGrants, SubscribeGrants,     \* grant lists to try
    RawSubjects, RawPatterns,           \* what Publish and Subscribe are called with
    Forged,         \* header maps a caller may send
    Known           \* the subjects containment is judged by

(* Subjects, patterns and grants are token lists, well-formed or not; a    *)
(* header has a key, a spelling and a value.                               *)
ASSUME GrammarAssumption ==
    /\ \A s \in RawSubjects \cup RawPatterns \cup Known \cup UNION SubscribeGrants :
          s \in Seq(STRING)
    /\ \A h \in Forged : \A x \in h : x \in [key : STRING, lower : BOOLEAN, value : STRING]

(* Names the known subjects may put in the place of a pattern's wildcards: *)
(* beside its own, two names that differ, and room for one more token.     *)
Wild == {"*", ">"}
Fillings(q, x, y) ==
    LET names == ({q[i] : i \in DOMAIN q} \ Wild) \cup {x, y} IN
    [1 .. Len(q) -> names] \cup [1 .. (Len(q) + 1) -> names]

ASSUME KnownAssumption ==
    \E x, y \in Tokens :
        /\ x # y
        /\ {x, y} \cap Wild = {}
        /\ \A q \in RawPatterns : ParsePattern(q) => Fillings(q, x, y) \subseteq Known

VARIABLES
    deny,           \* config.deny
    grants,         \* the publish and subscribe grants of each plugin
    subs,           \* subscriptions: plugin and pattern
    refused,        \* patterns Subscribe refused for want of a grant
    inbox           \* messages received: receiver, subject, sender and headers

authVars == <<deny, grants, subs, refused, inbox>>

Header(k, v) == [key |-> k, lower |-> TRUE, value |-> v]
Identity_ == {"bd-caller", "bd-generation", "bd-subject"}

AuthInit ==
    /\ deny \in Denies
    /\ grants \in [publish : PublishGrants, subscribe : SubscribeGrants]
    /\ subs = {}
    /\ refused = {}
    /\ inbox = {}

(* Grants.Can and CanPattern, and the deny list: a deny that overlaps a    *)
(* pattern refuses it when one covers the other.                           *)
Can(s) == MatchedByAny(grants.publish, s)
CanPattern(p) == CoveredByAny(grants.subscribe, p)
DenySubject_Exact(s) == s \in deny
DenySubject(s) == MatchedByAny(deny, s)
DenyPattern(p) == \E d \in deny : Covers(d, p) \/ Covers(p, d)

CheckPublish(s) == ParseSubject(s) /\ ~DenySubject(s) /\ Can(s)

(* StripReserved removes the identity headers, whatever their spelling,    *)
(* and stampWith writes the true ones: the lease only if there is one.     *)
StripReserved(h) == {[x EXCEPT !.lower = TRUE] : x \in {y \in h : y.key \notin Identity_}}
StampWith(p, h) ==
    StripReserved(h) \cup {Header("bd-caller", p)}
        \cup (IF Leases[p] = "" THEN {} ELSE {Header("bd-subject", Leases[p])})

(* NewMsg clones the headers with lower-case keys, so two spellings of one *)
(* key leave either value; CallerOf reads the result.                      *)
Reads(h, k) == {x.value : x \in {y \in h : y.key = k}}

ConnSubscribe(p, q) ==
    /\ ParsePattern(q)
    /\ ~DenyPattern(q)
    /\ IF CanPattern(q)
       THEN subs' = subs \cup {[to |-> p, pattern |-> q]} /\ UNCHANGED refused
       ELSE refused' = refused \cup {q} /\ UNCHANGED subs
    /\ UNCHANGED <<deny, grants, inbox>>

ConnPublish(p, s, h) ==
    /\ CheckPublish(s)
    /\ inbox' = inbox \cup
          {[to |-> x.to, subject |-> s, sender |-> p, headers |-> StampWith(p, h)] :
              x \in {y \in subs : Matches(y.pattern, s)}}
    /\ UNCHANGED <<deny, grants, subs, refused>>

AuthNext ==
    \E p \in Plugins :
        \/ \E q \in RawPatterns : ConnSubscribe(p, q)
        \/ \E s \in RawSubjects, h \in Forged : ConnPublish(p, s, h)

AuthSpec == AuthInit /\ [][AuthNext]_authVars

(* Bound: one Subscribe, and one message.                                  *)
AuthBounded ==
    \E p \in Plugins :
        \/ \E q \in RawPatterns : subs = {} /\ refused = {} /\ ConnSubscribe(p, q)
        \/ \E s \in RawSubjects, h \in Forged : inbox = {} /\ ConnPublish(p, s, h)

----------------------------------------------------------------------------
(* A pattern is granted exactly when some one grant admits every subject   *)
(* it could receive: Covers is containment, neither wider nor narrower.    *)
Contained(q) == \E g \in grants.subscribe : \A s \in Known : Matches(q, s) => Matches(g, s)
GrantIsContainment ==
    /\ \A x \in subs : Contained(x.pattern)
    /\ \A q \in refused : ~Contained(q)

(* What is received was granted to its receiver and its sender, and is on  *)
(* no deny list, however wide the receiver's pattern is (a deny that only  *)
(* overlaps a pattern, like "$sys.>" and "*.x", does not refuse it).       *)
OnlyGrantedFlows ==
    \A m \in inbox : /\ MatchedByAny(grants.subscribe, m.subject)
                     /\ MatchedByAny(grants.publish, m.subject)
                     /\ ~\E d \in deny : Matches(d, m.subject)

(* CallerOf names the sender and its lease, and no lease when it has none, *)
(* whatever headers the sender wrote, in whatever spelling.                *)
CallerIsTrue ==
    \A m \in inbox :
        /\ Reads(m.headers, "bd-caller") = {m.sender}
        /\ Reads(m.headers, "bd-subject") = {Leases[m.sender]} \ {""}

(* A pattern is granted when a grant contains it; what flows was granted   *)
(* at both ends and is not denied; and the caller a handler reads is the   *)
(* one that sent (Covers, CanPattern, denySubject, StripReserved).         *)
GrantedAndTrue == GrantIsContainment /\ OnlyGrantedFlows /\ CallerIsTrue
=============================================================================
