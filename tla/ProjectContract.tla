-------------------------- MODULE ProjectContract --------------------------
(***************************************************************************)
(* The records of the project connector that its facades share, and the    *)
(* validators that decide which of them cross the wire                     *)
(* (v2/projectmanagement, v2/internal/contractcheck).  Revisions and       *)
(* generations are numbers, 0 an absent one; identifiers and enumerations  *)
(* are "" where the text is absent or malformed.  Sizes are taken to be    *)
(* within the limits.                                                      *)
(***************************************************************************)
EXTENDS Integers, Sequences

(* Enum, ID and Text of contractcheck, on the values the model tells apart.*)
Enum(value, allowed) == value \in allowed
Required(value) == value # ""

(* Scope: the authority a request names.                                   *)
Scope(binding, generation, capability) ==
    [project |-> "project", binding |-> binding, generation |-> generation, capability |-> capability]
ScopeValid(s) == Required(s.project) /\ s.binding > 0 /\ s.generation > 0 /\ s.capability > 0

ResourceValid(r) == Required(r.provider) /\ Required(r.id)
SameResource(a, b) == a.provider = b.provider /\ a.id = b.id

(* ActingContext and Invocation: what the host mints for a call.           *)
ActorValid(a) ==
    Required(a.id) /\ Enum(a.mode, {"interactive", "delegated", "background", "replay"})
InvocationValid(i) == ScopeValid(i.scope) /\ ActorValid(i.actor)
InvocationMatches(i, scope) == i.scope = scope /\ InvocationValid(i)

(* Binding: the authority in force for a slot.                             *)
BindingValid(b) ==
    /\ b.provider = b.resource.provider
    /\ ScopeValid(b.scope) /\ ResourceValid(b.resource)
    /\ Enum(b.slot, {"project.tasks", "project.knowledge"})
    /\ Enum(b.state, {"active", "paused", "migrating", "blocked"})

(* Mutation: the identity of an operation, and the binding it was made for.*)
MutationValid(m) ==
    /\ Required(m.id) /\ m.source > 0
    /\ m.id \notin m.dependsOn
MutationMatches(m, scope) == m.source = scope.binding /\ MutationValid(m)

----------------------------------------------------------------------------
(* Capability, Transport, RecoveryPolicy, Capabilities: what a provider    *)
(* advertises.                                                             *)
CapabilityValid(c) ==
    /\ c.authorized => c.supported
    /\ Required(c.operation)
    /\ Enum(c.offline, {"queue", "read-cache", "online-only"})
TransportValid(t) == Enum(t.kind, {"mcp", "api", "cli", "local"}) /\ Enum(t.discovery, {"static", "dynamic"})
RecoveryValid(p) ==
    /\ p.dedup >= 0 /\ p.retention >= 0
    /\ Enum(p.idempotency, {"durable", "windowed", "none"})
CapabilitiesValid(c) ==
    /\ c.revision > 0
    /\ \A i, j \in DOMAIN c.operations :
          c.operations[i].operation = c.operations[j].operation => i = j
    /\ \A i \in DOMAIN c.operations : CapabilityValid(c.operations[i])
    /\ TransportValid(c.transport) /\ RecoveryValid(c.recovery)

(* SupportsReplay: neither of the provider's windows may have passed.      *)
SupportsReplay_AnyPolicy(p, age) == RecoveryValid(p) /\ age >= 0 /\ p.lookup /\ p.reconcile
SupportsReplay(p, age) ==
    /\ RecoveryValid(p)
    /\ age >= 0 /\ p.lookup /\ p.reconcile /\ p.idempotency # "none"
    /\ p.idempotency = "windowed" => age < p.dedup
    /\ IF p.retention > 0 THEN age < p.retention ELSE p.idempotency = "durable"

(* OnlineOnly: operations that change authority are never queued.          *)
OnlineOnly(op) ==
    op \in {"claim.acquire", "claim.renew", "agent.complete", "permissions.set",
            "admin.permissions", "public-link.enable", "public-link.disable"}

(* RequireOperation: the first capability of that name decides, if it is   *)
(* of the revision the scope names.                                        *)
Advertised(caps, op, i) ==
    /\ caps.operations[i].operation = op
    /\ \A j \in 1 .. (i - 1) : caps.operations[j].operation # op
Usable(c, offline) ==
    /\ c.supported /\ c.authorized
    /\ offline => c.offline = "queue"
    /\ CapabilityValid(c)
RequireOperation(scope, caps, op, offline) ==
    /\ ScopeValid(scope)
    /\ scope.capability = caps.revision
    /\ offline => ~OnlineOnly(op)
    /\ \E i \in DOMAIN caps.operations : Advertised(caps, op, i) /\ Usable(caps.operations[i], offline)

----------------------------------------------------------------------------
(* Problem, ItemReceipt, Conflict, Receipt: the answer to a mutation.      *)
ReceiptStates == {"saved-local", "pending", "accepted", "rejected", "conflicted", "partial", "unknown"}
ItemReceiptValid(i) == Enum(i.state, ReceiptStates) /\ (i.state = "accepted" => ~i.problem)
ReceiptValid(r) ==
    /\ r.remoteAccepted <=> r.state = "accepted"
    /\ r.state = "unknown" => Required(r.token)
    /\ r.state = "conflicted" <=> r.conflict
    /\ r.state = "accepted" => ~r.problem
    /\ r.state = "partial" => r.items # <<>>
    /\ \A i \in DOMAIN r.items : ItemReceiptValid(r.items[i])
    /\ Required(r.id) /\ Enum(r.state, ReceiptStates)
ReceiptFor(r, m) == r.id = m.id /\ ReceiptValid(r)

(* OfflineOperation: a request the host keeps until the provider can be    *)
(* reached.                                                                *)
OfflineValid(o) ==
    /\ o.mutation.id = o.receipt.id
    /\ ~OnlineOnly(o.operation)
    /\ ScopeValid(o.scope) /\ ActorValid(o.actor)
    /\ ReceiptFor(o.receipt, o.mutation)
    /\ MutationMatches(o.mutation, o.scope)

(* RecoverResult: what a lookup of an operation may answer.                *)
RecoverResultFor(receipt, m) == receipt.id = m.id /\ ReceiptValid(receipt)

(* The provider envelopes: the call of a host for a request it admitted.   *)
ProviderRequestValid(invocation, request) ==
    /\ InvocationMatches(invocation, request.scope)
    /\ MutationMatches(request.mutation, request.scope)
=============================================================================
