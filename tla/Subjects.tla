------------------------------ MODULE Subjects ------------------------------
(***************************************************************************)
(* The addressing grammar of the bus (v2/bus/subject.go).  A subject or a  *)
(* pattern is its sequence of tokens; a token is a name, "*", ">", the     *)
(* empty token, a token of characters the grammar refuses, or a reserved   *)
(* one, which only the first may be.  The limit of 255 bytes is left out:  *)
(* only the number of tokens is modelled.                                  *)
(***************************************************************************)
EXTENDS Naturals, Sequences

CONSTANTS
    Tokens,         \* well-formed tokens
    Reserved,       \* tokens that open the substrate's own namespace
    MaxTokens

(* parse: any token but an empty one may follow a reserved first token.    *)
TokenOK(s, i, wildcards) ==
    CASE s[i] = "" -> FALSE
      [] s[i] = ">" -> wildcards /\ i = Len(s)
      [] s[i] = "*" -> wildcards
      [] OTHER -> s[1] \in Reserved \/ s[i] \in Tokens

Parse(s, wildcards) ==
    /\ s # <<>>
    /\ Len(s) <= MaxTokens
    /\ \A i \in DOMAIN s : TokenOK(s, i, wildcards)

ParseSubject(s) == Parse(s, FALSE)
ParsePattern(s) == Parse(s, TRUE)

(* The loops of Matches and Covers: the first ">" of p decides, and every  *)
(* token before it has to agree.                                           *)
Agrees(t, u) == t = "*" \/ t = u
HasTail(p) == \E i \in DOMAIN p : p[i] = ">"
TailAt(p) == CHOOSE i \in DOMAIN p : p[i] = ">" /\ \A j \in 1 .. (i - 1) : p[j] # ">"

Matches(p, s) ==
    IF HasTail(p)
    THEN /\ TailAt(p) <= Len(s)
         /\ \A i \in 1 .. (TailAt(p) - 1) : Agrees(p[i], s[i])
    ELSE /\ Len(p) = Len(s)
         /\ \A i \in DOMAIN p : Agrees(p[i], s[i])

Covers(p, q) ==
    IF HasTail(p)
    THEN /\ TailAt(p) <= Len(q)
         /\ \A i \in 1 .. (TailAt(p) - 1) : q[i] # ">" /\ Agrees(p[i], q[i])
    ELSE /\ Len(p) = Len(q)
         /\ \A i \in DOMAIN p : q[i] # ">" /\ Agrees(p[i], q[i])

CoveredByAny(grants, q) == \E g \in grants : Covers(g, q)
MatchedByAny(grants, s) == \E g \in grants : Matches(g, s)

(* OwnNamespace: what a plugin owns by its id (a sequence of segments)     *)
(* alone, its implicit grant (v2/plugin/manifest.go).                      *)
Tree(root, id) == <<root>> \o id \o <<">">>
OwnNamespace(id) ==
    [publish   |-> {Tree("event", id), Tree("tick", id)},
     subscribe |-> {Tree("tick", id), Tree("_INBOX", id)},
     serves    |-> {Tree("cmd", id), Tree("svc", id)}]
OwnNamespacePatterns(id) ==
    LET g == OwnNamespace(id) IN g.publish \cup g.subscribe \cup g.serves
=============================================================================
