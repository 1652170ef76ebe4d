---------------------------- MODULE PluginBase ----------------------------
(***************************************************************************)
(* The binding of a plugin to its generations (v2/plugin/base.go, bind.go).*)
(* The host binds a generation, tears it down and binds the next into the  *)
(* same Base, while goroutines of the plugin read the accessors, one lock  *)
(* at a time, and call through what they read.  A handle is the generation *)
(* whose bus it is, or Unbound for the refusing double.                    *)
(***************************************************************************)
CONSTANTS
    Generations,
    Workers,        \* goroutines of the plugin
    Substrate,      \* capabilities of the substrate
    Patterns        \* what a grant may name

Unbound == "unbound"

(* The double is no generation's bus.                                      *)
ASSUME UnboundAssumption == Unbound \notin Generations

VARIABLES
    base,           \* bound, bus, caps, identity; shared: its grants are the host's own
    offered,        \* per generation, the Binding the host keeps
    installed,      \* the Binding that made the current generation current
    served,         \* the generations whose bus is alive
    worker          \* per worker: the bus it read and the result of its call

baseVars == <<base, offered, installed, served, worker>>

Zero == [bound |-> FALSE, bus |-> Unbound, caps |-> {}, generation |-> Unbound,
         grants |-> {}, shared |-> FALSE]

BaseInit ==
    /\ base = Zero
    /\ offered \in [Generations -> [caps : SUBSET Substrate, grants : {{p} : p \in Patterns}]]
    /\ installed = [caps |-> {}, grants |-> {}]
    /\ served = {}
    /\ worker = [w \in Workers |-> [bus |-> "none", result |-> "none"]]

(* The host opens a connection for the generation before it binds it, may  *)
(* change the grants it keeps, and withdraws the generation in the end.    *)
Connect(g) ==
    /\ g \notin served
    /\ served' = served \cup {g}
    /\ UNCHANGED <<base, offered, installed, worker>>
Widen(g) ==
    /\ offered' = [offered EXCEPT ![g].grants = Patterns]
    /\ base' = IF base.shared /\ base.generation = g THEN [base EXCEPT !.grants = Patterns] ELSE base
    /\ UNCHANGED <<installed, served, worker>>
Teardown(g) ==
    /\ g \in served
    /\ served' = served \ {g}
    /\ UNCHANGED <<base, offered, installed, worker>>

(* Bind refuses the generation that is bound and leaves it as it was, and  *)
(* replaces any other.  The identity is a copy with grants of its own, the *)
(* capabilities are the negotiated ones and not the substrate's.           *)
Clone_Shallow(g) == [grants |-> offered[g].grants, shared |-> TRUE]
Clone(g) == [grants |-> offered[g].grants, shared |-> FALSE]
Conflicts(g) == base.bound /\ base.generation = g
Bind(g) ==
    /\ g \in served
    /\ ~Conflicts(g)
    /\ base' = [bound |-> TRUE, bus |-> g, caps |-> offered[g].caps, generation |-> g,
                grants |-> Clone(g).grants, shared |-> Clone(g).shared]
    /\ installed' = IF base.generation = g THEN installed ELSE offered[g]
    /\ UNCHANGED <<offered, served, worker>>

(* Bus() takes the lock; what it returned stays with the caller.  The      *)
(* double refuses with FaultWithdrawn, and so does a withdrawn bus.        *)
Bus(w) ==
    /\ worker' = [worker EXCEPT ![w] = [bus |-> base.bus, result |-> "none"]]
    /\ UNCHANGED <<base, offered, installed, served>>
Refuses(handle) == handle = Unbound \/ handle \notin served
CallThrough(w) ==
    /\ worker[w].bus # "none"
    /\ worker' = [worker EXCEPT ![w].result = IF Refuses(worker[w].bus) THEN "withdrawn" ELSE "ok"]
    /\ UNCHANGED <<base, offered, installed, served>>

BaseNext ==
    \/ \E g \in Generations : Connect(g) \/ Bind(g) \/ Widen(g) \/ Teardown(g)
    \/ \E w \in Workers : Bus(w) \/ CallThrough(w)

BaseSpec == BaseInit /\ [][BaseNext]_baseVars

----------------------------------------------------------------------------
(* Every field of a bound Base is of one Binding, as that was when its     *)
(* generation became the current one: neither a second Bind of the         *)
(* generation nor the host's later changes to its own grants reach what    *)
(* the plugin reads.                                                       *)
BindingIsWhole ==
    base.bound => /\ base.bus = base.generation
                  /\ base.grants = installed.grants
                  /\ base.caps = installed.caps
=============================================================================
