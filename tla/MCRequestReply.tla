-------------------------- MODULE MCRequestReply --------------------------
(* Two connections of one plugin, each with one caller.                    *)
EXTENDS RequestReply, TLC

CONSTANTS a1, a2, c1, c2, p1, e1

OneCallerEach == a1 :> c1 @@ a2 :> c2
OnePlugin == [c \in Conns |-> p1]
OneEndpoint == <<e1>>
NoGroups == {e1 :> NoGroup}
=============================================================================
