--------------------------- MODULE MCConnections ---------------------------
(* Small instances of Connections: a service with two endpoints races one  *)
(* other call, Restart, Revoke and Close.                                  *)
EXTENDS Connections, TLC

CONSTANTS p1, m1, m2

OnePlugin == [c \in Conns |-> p1]
ServiceAndConsumer == m1 :> "service" @@ m2 :> "consumer"
ServiceAndSub == m1 :> "service" @@ m2 :> "sub"
OneSub == m1 :> "sub"
Symmetry == Permutations(Enders) \cup Permutations(Conns)
=============================================================================
