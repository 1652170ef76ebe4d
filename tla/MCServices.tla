---------------------------- MODULE MCServices ----------------------------
(***************************************************************************)
(* Small instances of the parts a plugin meets on the bus: a subscription, *)
(* requests and replies, authorization, typed calls, the plugin's binding  *)
(* and the v1 adapter.  They share no state: each is a scene, in which the *)
(* other parts stay where they began.                                      *)
(***************************************************************************)
EXTENDS Subscription, RequestReply, Authorization, PluginBase, TypedBus, HostAdapter, TLC

CONSTANTS a1, a2

VARIABLE scene

(* Two callers on one connection, and two endpoints that share a queue     *)
(* group or not, one of which answers with a fault.                        *)
OneConn == [a \in {a1, a2} |-> "c1"]
OnePlugin == [c \in {"c1"} |-> "p1"]
TwoEndpoints == <<"e1", "e2">>
OneGroup == "e1" :> "g" @@ "e2" :> "g"
GroupOrNone == {OneGroup, "e1" :> "none" @@ "e2" :> "g"}

(* Patterns and subjects of up to two tokens, judged by subjects of three; *)
(* one of the headers has a name in mixed case.                            *)
Seqs(A, n) == UNION {[1 .. k -> A] : k \in 1 .. n}
Sent(key, lower, value) == [key |-> key, lower |-> lower, value |-> value]
LeaseOfOne == "p1" :> "lease" @@ "p2" :> ""
DenyLists == {{}, {<<"$S", ">">>}, {<<"a", "b">>}, {<<"*", "b">>}}
MayPublish == {{<<">">>}, {<<"a", ">">>}}
MaySubscribe == {{<<">">>}, {<<"a", "*">>, <<"b", ">">>}, {<<"*", "b">>}}
SubjectsTried == Seqs({"a", "b", "$S"}, 2) \cup {<<"">>, <<"a", "*">>, <<"X">>}
PatternsTried == Seqs({"a", "b", "*", ">"}, 2)
                   \cup {<<"a", "", "b">>, <<"$S", ">">>, <<"$S", "b">>, <<"*", "$S">>}
HeadersTried ==
    {{}, {Sent("bd-caller", TRUE, "p1")},
     {Sent("bd-caller", FALSE, "p1"), Sent("bd-schema", TRUE, "x")},
     {Sent("bd-subject", FALSE, "lease")}}
SubjectsOfThree == Seqs({"a", "b", "$S"}, 3)

Hdr(key, reserved, identity) == [key |-> key, reserved |-> reserved, identity |-> identity]
OnlyFirstSubscribes == [w \in {"s1", "e1", "e2"} |-> w # "s1"]
BareAndFull ==
    {[id |-> "", ts |-> "", corr |-> "", source |-> "q", headers |-> {}],
     [id |-> "i", ts |-> "t", corr |-> "c", source |-> "q",
      headers |-> {Hdr("x", FALSE, FALSE), Hdr("bd-caller", TRUE, TRUE),
                   Hdr("bd-fault", TRUE, FALSE)}]}

----------------------------------------------------------------------------
AllGranted == deny = {} /\ grants = [publish |-> {<<">">>}, subscribe |-> {<<">">>}]

Scenes == {"subscription", "requests", "grants", "typed", "binding", "adapter"}

ServicesInit ==
    /\ scene \in Scenes
    /\ Init
    /\ CallsInit /\ (scene # "requests" => group = OneGroup)
    /\ AuthInit /\ (scene # "grants" => AllGranted)
    /\ TypedInit
    /\ scene # "typed" => server = [hash |-> "", validated |-> FALSE] /\ caller = NoCaller
    /\ BaseInit
    /\ scene # "binding" => offered = [g \in Generations |-> [caps |-> {}, grants |-> {"a"}]]
    /\ AdapterInit /\ (scene # "adapter" => ~adapter.can)

ServicesNext ==
    /\ \/ /\ scene = "subscription" /\ Next
          /\ UNCHANGED <<callVars, authVars, typedVars, baseVars, adapterVars>>
       \/ /\ scene = "requests" /\ CallsNext
          /\ UNCHANGED <<vars, authVars, typedVars, baseVars, adapterVars>>
       \/ /\ scene = "grants" /\ AuthBounded
          /\ UNCHANGED <<vars, callVars, typedVars, baseVars, adapterVars>>
       \/ /\ scene = "typed" /\ TypedNext
          /\ UNCHANGED <<vars, callVars, authVars, baseVars, adapterVars>>
       \/ /\ scene = "binding" /\ BaseNext
          /\ UNCHANGED <<vars, callVars, authVars, typedVars, adapterVars>>
       \/ /\ scene = "adapter" /\ AdapterNext
          /\ UNCHANGED <<vars, callVars, authVars, typedVars, baseVars>>
    /\ UNCHANGED scene

(* The callers of one connection are interchangeable.                      *)
Symmetry == Permutations({a1, a2})

ServicesSpec == ServicesInit /\ [][ServicesNext]_<<scene, vars, callVars, authVars, typedVars, baseVars, adapterVars>>

=============================================================================
