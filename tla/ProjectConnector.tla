------------------------- MODULE ProjectConnector -------------------------
(***************************************************************************)
(* A host that sends the writes of its plugins to a project provider: it   *)
(* admits an operation, sends it or keeps it for later, recovers outcomes  *)
(* that were lost, and replays what the provider's policy allows           *)
(* (v2/projectmanagement).  The host and the provider are outside the      *)
(* repository: the host is any that asks the contract before each step,    *)
(* the provider any that keeps to the policy it advertises.  An invocation *)
(* expires with the tick in which it is minted.                            *)
(***************************************************************************)
EXTENDS ProjectContract, FiniteSets

CONSTANTS
    OperationIds,   \* identifiers of operations
    Operation,      \* id -> the name of its operation
    Offered,        \* the list of operations the provider advertises
    Policies,       \* recovery policies a provider may have
    Authorized,     \* capability revision -> the operations it authorizes
    MaxChanges,     \* bound of the changes of binding and of capabilities
    MaxAnswers,     \* bound of the results under way
    MaxClock, MaxAttempts

(* The windows of a policy are durations, 0 for none.                      *)
ASSUME PoliciesAssumption == \A p \in Policies : p.dedup \in Int /\ p.retention \in Int

VARIABLES
    clock,
    policy,         \* the provider's RecoveryPolicy
    scope,          \* the Scope of the binding in force
    caps,           \* the Capabilities the host read last
    op,             \* id -> [phase, name, mutation, scope, attempts] of the host
    wire,           \* provider requests under way
    answers,        \* results under way: [call, receipt]
    applied,        \* what the provider did: [id, n, scope, source, at]
    taken           \* id -> the state of the receipt the host took

connectorVars == <<clock, policy, scope, caps, op, wire, answers, applied, taken>>

Idle == [phase |-> "none"]
Actor(mode) == [id |-> "actor", mode |-> mode]
Receipt(id, state, remote) ==
    [id |-> id, state |-> state, remoteAccepted |-> remote, token |-> "token",
     conflict |-> state = "conflicted", problem |-> FALSE, items |-> <<>>]
Capabilities(revision) ==
    [revision |-> revision, recovery |-> policy, transport |-> [kind |-> "api", discovery |-> "static"],
     operations |-> [i \in DOMAIN Offered |->
        [operation |-> Offered[i], supported |-> TRUE, offline |-> "queue",
         authorized |-> Offered[i] \in Authorized[revision]]]]

ConnectorInit ==
    /\ clock = 0
    /\ policy \in {p \in Policies : RecoveryValid(p)}
    /\ scope = Scope(1, 1, 1)
    /\ caps = Capabilities(1)
    /\ op = [id \in OperationIds |-> Idle]
    /\ wire = {} /\ answers = {} /\ applied = {}
    /\ taken = [id \in OperationIds |-> "none"]

----------------------------------------------------------------------------
(* The host admits an operation: at once to the provider, or to its queue. *)
Admitted(id, name, phase) ==
    [phase |-> phase, name |-> name, scope |-> scope, attempts |-> IF phase = "sent" THEN 1 ELSE 0,
     mutation |-> [id |-> id, source |-> scope.binding, dependsOn |-> {}, created |-> clock]]
Envelope(o, under, mode) ==
    [invocation |-> [scope |-> scope, actor |-> Actor(mode)],
     request |-> [scope |-> under, mutation |-> o.mutation, operation |-> o.name], attempt |-> o.attempts]

Submit(id, name) ==
    LET o == Admitted(id, name, "sent")
        e == Envelope(o, scope, "interactive")
    IN  /\ op[id] = Idle
        /\ RequireOperation(scope, caps, name, FALSE)
        /\ ProviderRequestValid(e.invocation, e.request)
        /\ op' = [op EXCEPT ![id] = o]
        /\ wire' = wire \cup {e}
        /\ UNCHANGED <<clock, policy, scope, caps, answers, applied, taken>>

Queue(id, name) ==
    LET o == Admitted(id, name, "queued") IN
    /\ op[id] = Idle
    /\ RequireOperation(scope, caps, name, TRUE)
    /\ OfflineValid([scope |-> scope, actor |-> Actor("background"), operation |-> name,
                     mutation |-> o.mutation, receipt |-> Receipt(id, "saved-local", FALSE)])
    /\ op' = [op EXCEPT ![id] = o]
    /\ UNCHANGED <<clock, policy, scope, caps, wire, answers, applied, taken>>

(* What the provider still knows of an operation: to recognize it again,   *)
(* and to answer a lookup.                                                 *)
Held(id, window) == {a \in applied : a.id = id /\ (window = 0 \/ clock - a.at < window)}
Recognized(id) ==
    CASE policy.idempotency = "durable" -> Held(id, 0) # {}
      [] policy.idempotency = "windowed" -> policy.dedup > 0 /\ Held(id, policy.dedup) # {}
      [] OTHER -> FALSE

(* The host lost an answer and looks the operation up; an operation the    *)
(* provider does not know may be replayed.                                 *)
Recover(id) ==
    LET receipt == Receipt(id, "accepted", TRUE) IN
    /\ op[id].phase = "sent"
    /\ policy.lookup
    /\ IF Held(id, policy.retention) # {} /\ RecoverResultFor(receipt, op[id].mutation)
       THEN /\ op' = [op EXCEPT ![id].phase = "settled"]
            /\ taken' = [taken EXCEPT ![id] = receipt.state]
       ELSE /\ op' = [op EXCEPT ![id].phase = "reconciled"]
            /\ UNCHANGED taken
    /\ UNCHANGED <<clock, policy, scope, caps, wire, answers, applied>>

(* A replay of what is queued or reconciled, under its own scope or under  *)
(* the one in force; the actor is authorized again.                        *)
Replay(id, under) ==
    LET o == [op[id] EXCEPT !.phase = "sent", !.attempts = @ + 1]
        e == Envelope(o, under, "replay")
    IN  /\ op[id].phase \in {"queued", "reconciled"}
        /\ o.attempts <= MaxAttempts
        /\ SupportsReplay(policy, clock - o.mutation.created)
        /\ RequireOperation(under, caps, o.name, FALSE)
        /\ ProviderRequestValid(e.invocation, e.request)
        /\ op' = [op EXCEPT ![id] = o]
        /\ wire' = wire \cup {e}
        /\ UNCHANGED <<clock, policy, scope, caps, answers, applied, taken>>

(* The provider does what it is asked, unless it recognizes the operation, *)
(* or refuses it.  What a receipt says was accepted is true of the         *)
(* operation it names; the rest of an answer may be wrong.                 *)
Handle(e) ==
    LET id == e.request.mutation.id
        a == [id |-> id, n |-> e.attempt, scope |-> e.invocation.scope, at |-> clock,
              source |-> e.request.mutation.source, name |-> e.request.operation]
    IN  /\ Cardinality(answers) < MaxAnswers
        /\ wire' = wire \ {e}
        /\ \/ applied' = IF Recognized(id) THEN applied ELSE applied \cup {a}
           \/ UNCHANGED applied
        /\ \E about \in OperationIds, state \in {"accepted", "unknown"} :
              answers' = answers \cup
                {[call |-> id, receipt |-> Receipt(about, state, \E b \in applied' : b.id = about)]}
        /\ UNCHANGED <<clock, policy, scope, caps, op, taken>>

(* The host takes a result that is the answer to its operation.            *)
Take(r) ==
    /\ answers' = answers \ {r}
    /\ IF op[r.call].phase = "sent" /\ ReceiptFor(r.receipt, op[r.call].mutation)
       THEN /\ taken' = [taken EXCEPT ![r.call] = r.receipt.state]
            /\ op' = [op EXCEPT ![r.call].phase =
                        IF r.receipt.state \in {"accepted", "rejected"} THEN "settled" ELSE @]
       ELSE UNCHANGED <<taken, op>>
    /\ UNCHANGED <<clock, policy, scope, caps, wire, applied>>

Lose ==
    /\ answers # {}
    /\ answers' = {}
    /\ UNCHANGED <<clock, policy, scope, caps, op, wire, applied, taken>>

(* Time passes; the binding is replaced; the provider advertises anew, and *)
(* the host reads it (DescribeResult) sooner or later.                     *)
Tick ==
    /\ clock < MaxClock
    /\ clock' = clock + 1
    /\ wire' = {}
    /\ UNCHANGED <<policy, scope, caps, op, answers, applied, taken>>
Changes == (scope.binding - 1) + (scope.capability - 1)
Rebind ==
    /\ Changes < MaxChanges
    /\ scope' = [scope EXCEPT !.binding = @ + 1, !.generation = @ + 1]
    /\ UNCHANGED <<clock, policy, caps, op, wire, answers, applied, taken>>
Advertise ==
    /\ Changes < MaxChanges
    /\ scope' = [scope EXCEPT !.capability = @ + 1]
    /\ UNCHANGED <<clock, policy, caps, op, wire, answers, applied, taken>>
Describe ==
    /\ caps # Capabilities(scope.capability)
    /\ CapabilitiesValid(Capabilities(scope.capability))
    /\ caps' = Capabilities(scope.capability)
    /\ UNCHANGED <<clock, policy, scope, op, wire, answers, applied, taken>>

ConnectorNext ==
    \/ \E id \in OperationIds :
          \/ Submit(id, Operation[id]) \/ Queue(id, Operation[id])
          \/ Recover(id)
          \/ op[id] # Idle /\ \E under \in {op[id].scope, scope} : Replay(id, under)
    \/ \E e \in wire : Handle(e)
    \/ \E r \in answers : Take(r)
    \/ Lose \/ Tick \/ Rebind \/ Advertise \/ Describe

ConnectorSpec == ConnectorInit /\ [][ConnectorNext]_connectorVars

----------------------------------------------------------------------------
(* However often an operation is sent, recovered and replayed, it is done  *)
(* once: SupportsReplay admits a replay only while the provider would      *)
(* recognize what it has done.                                             *)
AppliedOnce == \A a, b \in applied : a.id = b.id => a = b

(* A write is done under the binding it was made for: one that waited      *)
(* through a change of provider does not reach the new one, whatever scope *)
(* it is given (Mutation.Matches, Invocation.Matches).                     *)
AppliedWhereMade == \A a \in applied : a.source = a.scope.binding

(* What the host took for accepted was done, though results come late, or  *)
(* name another operation, or contradict themselves (Receipt.ValidateFor). *)
AcceptedWasApplied == \A id \in OperationIds : taken[id] = "accepted" => \E a \in applied : a.id = id

(* Nothing is done that the capabilities of its scope do not authorize,    *)
(* though the host may hold an older list (RequireOperation).              *)
AppliedWasAuthorized == \A a \in applied : a.name \in Authorized[a.scope.capability]

(* However often it is sent, queued, recovered and replayed, a write is    *)
(* done once, under the binding it was made for, with an authority that    *)
(* is in force, and is taken for done only if it was (SupportsReplay,      *)
(* Matches, RequireOperation, Receipt.ValidateFor).                        *)
WritesDoneOnce ==
    /\ AppliedOnce
    /\ AppliedWhereMade
    /\ AcceptedWasApplied
    /\ AppliedWasAuthorized
=============================================================================
