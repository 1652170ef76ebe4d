-------------------------- MODULE Contracts_proofs --------------------------
(***************************************************************************)
(* Proofs about the contracts between hosts and providers: a move of a     *)
(* project leaves no record behind (ProviderMigration), for any records,   *)
(* versions and number of migrations; a project write is done once         *)
(* (ProjectConnector), for any operations, policies, capabilities and      *)
(* number of attempts, and made by right (ProjectWrites), for any agents,  *)
(* resources and requests; sessions follow what their provider offers      *)
(* (CodingSessions), for any catalogs and pages; a message is sent,        *)
(* dispatched and listed once (Messaging), for any bodies, adapters and    *)
(* pages; and a decision is exact (Decimals, DecisionJobs), for any        *)
(* numbers, batches and answers.                                           *)
(***************************************************************************)
EXTENDS ProviderMigration, ProjectConnector, ProjectWrites, CodingSessions, Messaging,
        DecisionJobs, FiniteSetTheorems, NaturalsInduction, SequenceTheorems,
        WellFoundedInduction, TLAPS

----------------------------------------------------------------------------
(* The move.                                                               *)

Typed ==
    /\ source \in [Records -> Nat] /\ copy \in [Records -> Nat]
    /\ job \in Nat

(* A manifest that would be accepted now: of the migration in progress,    *)
(* verified, and past the contract's validator.                            *)
Acceptable(m) == paused /\ m.id = job /\ m.state = "verified" /\ MigrationValid(m)

(* Manifests of earlier migrations stay under way for any time, and are    *)
(* told apart by their number; while writers are paused a copy that was    *)
(* complete stays complete.                                                *)
Inv ==
    /\ Typed
    /\ \A m \in results : m.id \in Nat /\ m.id <= job
    /\ \A m \in results : Acceptable(m) => copy = source
    /\ active = "destination" => ~paused /\ copy = source

----------------------------------------------------------------------------
(* A verified manifest that the validator accepts was made of a complete   *)
(* copy: each entity's record is of its own source and has its checksum    *)
(* (Report, EntityValid).                                                  *)
LEMMA VerifiedIsComplete ==
    ASSUME Typed, NEW state, NEW about \in [Records -> Records],
           Report(state, about),
           NEW m \in results', m \notin results, MigrationValid(m)
    PROVE  copy = source
<1> DEFINE Entity(r) ==
        [id |-> r, source |-> Ref(r), checksum |-> source[r], mapped |-> copy[r] # 0,
         problems |-> FALSE, record |-> {Transferred(about[r])}]
<1>1. m.entities = {Entity(r) : r \in Records}
  BY DEF Report
<1>2. ASSUME NEW r \in Records PROVE copy[r] = source[r]
  <2>1. EntityValid(Entity(r))
    BY <1>1 DEF MigrationValid
  <2>2. /\ SameResource(Transferred(about[r]).resource, Ref(r))
        /\ Transferred(about[r]).checksum = source[r]
    BY <2>1 DEF EntityValid
  <2>3. about[r] = r
    BY <2>2 DEF SameResource, Transferred, Ref
  <2> QED
    BY <2>2, <2>3 DEF Transferred
<1> QED
  BY <1>2 DEF Typed

LEMMA InitInv == Init => Inv
BY DEF Init, Inv, Typed

LEMMA NextInv == Inv /\ [Next]_migrationVars => Inv'
<1> SUFFICES ASSUME Inv, [Next]_migrationVars PROVE Inv'
  OBVIOUS
<1> USE DEF Inv
<1>1. ASSUME NEW r \in Records, Write(r) PROVE Inv'
  BY <1>1 DEF Write, Typed, Acceptable
<1>2. ASSUME NEW r \in Records, Import(r) PROVE Inv'
  <2>1. Typed' /\ (copy = source => copy' = source')
    BY <1>2 DEF Import, Typed
  <2> QED
    BY <1>2, <2>1 DEF Import, Acceptable
<1>3. CASE Begin
  BY <1>3 DEF Begin, Typed, Acceptable
<1>4. CASE Abort
  BY <1>4 DEF Abort, Typed, Acceptable
<1>5. ASSUME NEW state \in {"verifying", "verified"}, NEW about \in [Records -> Records],
             Report(state, about)
      PROVE  Inv'
  <2>1. Typed' /\ (active' = "destination" => ~paused' /\ copy' = source')
    BY <1>5 DEF Report, Typed
  <2>2. ASSUME NEW m \in results' PROVE m.id \in Nat /\ m.id <= job'
    BY <1>5 DEF Report, Typed
  <2>3. ASSUME NEW m \in results', Acceptable(m)' PROVE copy' = source'
    <3>1. Acceptable(m)
      BY <1>5, <2>3 DEF Report, Acceptable
    <3>2. CASE m \in results
      BY <3>1, <3>2, <1>5 DEF Report
    <3>3. CASE m \notin results
      BY <3>1, <3>3, <1>5, VerifiedIsComplete DEF Report, Acceptable
    <3> QED
      BY <3>2, <3>3
  <2> QED
    BY <2>1, <2>2, <2>3
<1>6. ASSUME NEW m \in results, Accept(m) PROVE Inv'
  <2>1. CASE MigrationResultFor(m, Plan(job)) /\ m.state = "verified"
    <3>1. Acceptable(m)
      BY <1>6, <2>1 DEF Accept, MigrationResultFor, Plan, Acceptable
    <3>2. copy = source
      BY <3>1
    <3> QED
      BY <1>6, <2>1, <3>2 DEF Accept, Typed, Acceptable
  <2>2. CASE ~(MigrationResultFor(m, Plan(job)) /\ m.state = "verified")
    BY <1>6, <2>2 DEF Accept, Typed, Acceptable
  <2> QED
    BY <2>1, <2>2
<1>7. CASE UNCHANGED migrationVars
  BY <1>7 DEF migrationVars, Typed, Acceptable
<1> QED
  BY <1>1, <1>2, <1>3, <1>4, <1>5, <1>6, <1>7 DEF Next

(* The destination is the authority only with every record as the source   *)
(* has it, whichever reports are late, of another migration, or about      *)
(* bytes of another record (Migration, MigrationResult.ValidateFor).       *)
THEOREM MigrationKeepsEverything == Spec => []NothingLeftBehind
<1>1. Inv => NothingLeftBehind
  BY DEF Inv, NothingLeftBehind
<1> QED
  BY InitInv, NextInv, <1>1, PTL DEF Spec

----------------------------------------------------------------------------
(* Writes through the connector.                                           *)

Scopes == [project : {"project"}, binding : Nat, generation : Nat, capability : Nat]
Mutations == [id : OperationIds, source : Nat, dependsOn : {{}}, created : Nat]
Admissions ==
    [phase : {"sent", "queued", "reconciled", "settled"}, name : {Operation[i] : i \in OperationIds},
     scope : Scopes, attempts : Nat, mutation : Mutations]

ConnectorTyped ==
    /\ clock \in Nat
    /\ policy \in Policies /\ RecoveryValid(policy)
    /\ scope \in Scopes
    /\ op \in [OperationIds -> Admissions \cup {Idle}]
    /\ taken \in [OperationIds -> {"none", "saved-local", "pending", "accepted", "rejected",
                          "conflicted", "partial", "unknown"}]

(* The host's record of an operation names it, and is no younger than      *)
(* anything done for it.                                                   *)
OutboxInv ==
    \A id \in OperationIds : op[id] # Idle => op[id].mutation.id = id /\ op[id].mutation.created <= clock
AppliedInv ==
    \A a \in applied :
        /\ a.id \in OperationIds /\ op[a.id] # Idle
        /\ a.at \in Nat /\ op[a.id].mutation.created <= a.at

(* A request under way is either one whose effect the provider would       *)
(* recognize, because its operation is as young as the policy's window, or *)
(* the only one of an operation of which nothing has been done.            *)
Safe(m) ==
    \/ policy.idempotency = "durable"
    \/ policy.idempotency = "windowed" /\ clock - m.created < policy.dedup
Fresh(e) ==
    /\ \A a \in applied : a.id # e.request.mutation.id
    /\ \A f \in wire : f.request.mutation.id = e.request.mutation.id => f = e
Sendable(e) ==
    /\ e.request.mutation.id \in OperationIds
    /\ op[e.request.mutation.id] # Idle
    /\ e.request.mutation = op[e.request.mutation.id].mutation
    /\ ProviderRequestValid(e.invocation, e.request)
    /\ e.request.operation \in Authorized[e.invocation.scope.capability]
WireInv == \A e \in wire : Sendable(e) /\ (Safe(e.request.mutation) \/ Fresh(e))

(* What a capability list authorizes is what its revision does; what a     *)
(* receipt says was accepted was done.                                     *)
CapsInv ==
    \A i \in DOMAIN caps.operations :
        caps.operations[i].authorized => caps.operations[i].operation \in Authorized[caps.revision]
AnswersInv ==
    \A r \in answers :
        /\ r.call \in OperationIds /\ r.receipt.state \in {"accepted", "unknown"}
        /\ r.receipt.remoteAccepted => \E a \in applied : a.id = r.receipt.id

ConnectorInv ==
    /\ ConnectorTyped /\ OutboxInv /\ AppliedInv /\ WireInv /\ CapsInv /\ AnswersInv
    /\ WritesDoneOnce

LEMMA CapabilitiesAreTrue ==
    ASSUME NEW n, NEW i \in DOMAIN Capabilities(n).operations,
           Capabilities(n).operations[i].authorized
    PROVE  Capabilities(n).operations[i].operation \in Authorized[Capabilities(n).revision]
<1>1. PICK b \in BOOLEAN : b <=> Offered[i] \in Authorized[n]
  OBVIOUS
<1>2. /\ Capabilities(n).revision = n /\ i \in DOMAIN Offered
      /\ Capabilities(n).operations[i] =
            [operation |-> Offered[i], supported |-> TRUE, offline |-> "queue", authorized |-> b]
  BY <1>1 DEF Capabilities
<1>3. b = TRUE
  BY <1>2
<1> QED
  BY <1>1, <1>2, <1>3

(* RequireOperation, on a true list: the operation is authorized by the    *)
(* revision the scope names.                                               *)
LEMMA RequiredIsAuthorized ==
    ASSUME NEW s, NEW name, NEW off, CapsInv, RequireOperation(s, caps, name, off)
    PROVE  name \in Authorized[s.capability]
<1>1. PICK i \in DOMAIN caps.operations :
          Advertised(caps, name, i) /\ Usable(caps.operations[i], off)
  BY DEF RequireOperation
<1>2. caps.operations[i].operation = name
  BY <1>1 DEF Advertised
<1>3. caps.operations[i].authorized
  BY <1>1, Zenon DEF Usable
<1>4. s.capability = caps.revision
  BY DEF RequireOperation
<1> QED
  BY <1>2, <1>3, <1>4, Zenon DEF CapsInv

LEMMA ConnectorInvInit == ConnectorInit => ConnectorInv
<1> SUFFICES ASSUME ConnectorInit PROVE ConnectorInv
  OBVIOUS
<1>1. ConnectorTyped
  BY DEF ConnectorInit, ConnectorTyped, Scope, Scopes
<1>2. OutboxInv /\ AppliedInv /\ WireInv /\ AnswersInv
  BY DEF ConnectorInit, OutboxInv, AppliedInv, WireInv, AnswersInv
<1>3. CapsInv
  BY CapabilitiesAreTrue, Zenon DEF ConnectorInit, CapsInv
<1>4. WritesDoneOnce
  BY DEF ConnectorInit, WritesDoneOnce, AppliedOnce, AppliedWhereMade, AcceptedWasApplied,
         AppliedWasAuthorized
<1> QED
  BY <1>1, <1>2, <1>3, <1>4 DEF ConnectorInv

(* What a step keeps when it leaves alone what a part is about.            *)
LEMMA DoneFrame ==
    ASSUME WritesDoneOnce, UNCHANGED <<applied, taken>>
    PROVE  WritesDoneOnce'
BY DEF WritesDoneOnce, AppliedOnce, AppliedWhereMade, AcceptedWasApplied, AppliedWasAuthorized

(* The record of an operation may change, but not the identity it was      *)
(* given when it was admitted.                                             *)
SameIdentity ==
    \A id \in OperationIds : op[id] # Idle => op'[id] # Idle /\ op'[id].mutation = op[id].mutation

LEMMA AppliedFrame ==
    ASSUME AppliedInv, UNCHANGED applied, SameIdentity
    PROVE  AppliedInv'
BY DEF AppliedInv, SameIdentity

LEMMA WireFrame ==
    ASSUME WireInv, UNCHANGED <<wire, applied, clock, policy>>, SameIdentity
    PROVE  WireInv'
<1> SUFFICES ASSUME NEW e \in wire
             PROVE  Sendable(e)' /\ (Safe(e.request.mutation)' \/ Fresh(e)')
  BY DEF WireInv
<1>1. Sendable(e) /\ (Safe(e.request.mutation) \/ Fresh(e))
  BY DEF WireInv
<1>2. Sendable(e)'
  BY <1>1 DEF Sendable, SameIdentity
<1>3. Safe(e.request.mutation) => Safe(e.request.mutation)'
  BY DEF Safe
<1>4. Fresh(e) => Fresh(e)'
  BY DEF Fresh
<1> QED
  BY <1>1, <1>2, <1>3, <1>4

LEMMA AnswersFrame ==
    ASSUME AnswersInv, answers' \subseteq answers, applied \subseteq applied'
    PROVE  AnswersInv'
BY DEF AnswersInv

LEMMA CapsFrame == CapsInv /\ UNCHANGED caps => CapsInv'
BY DEF CapsInv

LEMMA SameOutbox == UNCHANGED op => SameIdentity
BY DEF SameIdentity

(* Submit: the first request of an operation is fresh.                     *)
LEMMA SubmitKeeps ==
    ASSUME NEW id \in OperationIds, ConnectorInv, Submit(id, Operation[id])
    PROVE  ConnectorInv'
<1>1. PICK o, e :
      /\ o = Admitted(id, Operation[id], "sent") /\ e = Envelope(o, scope, "interactive")
      /\ op[id] = Idle /\ RequireOperation(scope, caps, Operation[id], FALSE)
      /\ ProviderRequestValid(e.invocation, e.request)
      /\ op' = [op EXCEPT ![id] = o] /\ wire' = wire \cup {e}
      /\ UNCHANGED <<clock, policy, scope, caps, answers, applied, taken>>
  BY DEF Submit
<1>2. /\ o \in Admissions /\ o.mutation.id = id /\ o.mutation.created = clock
  BY <1>1 DEF Admitted, Admissions, Mutations, ConnectorInv, ConnectorTyped, Scopes
<1>3. /\ e.request.mutation = o.mutation /\ e.request.operation = o.name /\ o.name = Operation[id]
      /\ e.invocation.scope = scope
  BY <1>1 DEF Envelope, Admitted
<1>4. o # Idle
  BY <1>2 DEF Admissions, Idle
<1>5. op'[id] = o /\ \A i \in OperationIds : i # id => op'[i] = op[i]
  BY <1>1 DEF ConnectorInv, ConnectorTyped
<1>6. SameIdentity
  BY <1>1, <1>5 DEF SameIdentity
<1>7. ConnectorTyped'
  BY <1>1, <1>2 DEF ConnectorInv, ConnectorTyped
<1>8. OutboxInv'
  BY <1>1, <1>2, <1>5 DEF ConnectorInv, OutboxInv, ConnectorTyped
<1>9. \A f \in wire : f.request.mutation.id # id
  BY <1>1 DEF ConnectorInv, WireInv, Sendable
<1>10. \A a \in applied : a.id # id
  BY <1>1 DEF ConnectorInv, AppliedInv
<1>11. WireInv'
  <2>1. Sendable(e)'
    <3>1. Operation[id] \in Authorized[scope.capability]
      BY <1>1, RequiredIsAuthorized DEF ConnectorInv
    <3> QED
      BY <1>1, <1>2, <1>3, <1>4, <1>5, <3>1 DEF Sendable
  <2>2. Fresh(e)'
    BY <1>1, <1>2, <1>3, <1>9, <1>10 DEF Fresh
  <2>3. ASSUME NEW f \in wire
        PROVE  Sendable(f)' /\ (Safe(f.request.mutation)' \/ Fresh(f)')
    <3>1. Sendable(f) /\ (Safe(f.request.mutation) \/ Fresh(f)) /\ f.request.mutation.id # id
      BY <1>9 DEF ConnectorInv, WireInv
    <3>2. Sendable(f)'
      BY <3>1, <1>6 DEF Sendable, SameIdentity
    <3>3. Safe(f.request.mutation) => Safe(f.request.mutation)'
      BY <1>1 DEF Safe
    <3>4. Fresh(f) => Fresh(f)'
      BY <1>1, <1>2, <1>3, <3>1 DEF Fresh
    <3> QED
      BY <3>1, <3>2, <3>3, <3>4
  <2> QED
    BY <1>1, <2>1, <2>2, <2>3 DEF WireInv
<1> QED
  BY <1>1, <1>6, <1>7, <1>8, <1>11, AppliedFrame, AnswersFrame, CapsFrame, DoneFrame
  DEF ConnectorInv

LEMMA QueueKeeps ==
    ASSUME NEW id \in OperationIds, ConnectorInv, Queue(id, Operation[id])
    PROVE  ConnectorInv'
<1> DEFINE o == Admitted(id, Operation[id], "queued")
<1>1. /\ op[id] = Idle /\ op' = [op EXCEPT ![id] = o]
      /\ UNCHANGED <<clock, policy, scope, caps, wire, answers, applied, taken>>
  BY DEF Queue
<1>2. o \in Admissions /\ o.mutation.id = id /\ o.mutation.created = clock
  BY DEF Admitted, Admissions, Mutations, ConnectorInv, ConnectorTyped, Scopes
<1> HIDE DEF o
<1>3. op'[id] = o /\ \A i \in OperationIds : i # id => op'[i] = op[i]
  BY <1>1 DEF ConnectorInv, ConnectorTyped
<1>4. SameIdentity
  BY <1>1, <1>3 DEF SameIdentity
<1>5. ConnectorTyped'
  BY <1>1, <1>2 DEF ConnectorInv, ConnectorTyped
<1>6. OutboxInv'
  BY <1>1, <1>2, <1>3 DEF ConnectorInv, OutboxInv, ConnectorTyped
<1> QED
  BY <1>1, <1>4, <1>5, <1>6, AppliedFrame, WireFrame, AnswersFrame, CapsFrame, DoneFrame
  DEF ConnectorInv

(* A change of phase or of attempts leaves an operation's identity alone.  *)
LEMMA PhaseFrame ==
    ASSUME NEW id \in OperationIds, NEW o \in Admissions, ConnectorInv, op[id] # Idle,
           o.mutation = op[id].mutation, op' = [op EXCEPT ![id] = o],
           UNCHANGED <<clock, policy, scope>>
    PROVE  SameIdentity /\ OutboxInv' /\ (op \in [OperationIds -> Admissions \cup {Idle}])'
<1>1. op'[id] = o /\ \A i \in OperationIds : i # id => op'[i] = op[i]
  BY DEF ConnectorInv, ConnectorTyped
<1>2. o # Idle
  BY DEF Admissions, Idle
<1>3. SameIdentity
  BY <1>1, <1>2 DEF SameIdentity
<1>4. OutboxInv'
  BY <1>1 DEF ConnectorInv, OutboxInv
<1>5. (op \in [OperationIds -> Admissions \cup {Idle}])'
  BY DEF ConnectorInv, ConnectorTyped
<1> QED
  BY <1>3, <1>4, <1>5

LEMMA Phased ==
    ASSUME NEW o \in Admissions, NEW phase \in {"sent", "queued", "reconciled", "settled"}
    PROVE  /\ [o EXCEPT !.phase = phase] \in Admissions
           /\ [o EXCEPT !.phase = phase].mutation = o.mutation
BY DEF Admissions

(* Recover: a lookup that finds the operation is of something done.        *)
LEMMA RecoverKeeps ==
    ASSUME NEW id \in OperationIds, ConnectorInv, Recover(id)
    PROVE  ConnectorInv'
<1>1. op[id].phase = "sent" /\ UNCHANGED <<clock, policy, scope, caps, wire, answers, applied>>
  BY DEF Recover
<1>2. op[id] # Idle /\ op[id] \in Admissions
  BY <1>1 DEF ConnectorInv, ConnectorTyped, Idle
<1>3. PICK phase \in {"settled", "reconciled"} :
          /\ op' = [op EXCEPT ![id] = [@ EXCEPT !.phase = phase]]
          /\ \/ taken' = taken
             \/ /\ taken' = [taken EXCEPT ![id] = "accepted"]
                /\ Held(id, policy.retention) # {}
  BY DEF Recover, Receipt
<1> DEFINE o == [op[id] EXCEPT !.phase = phase]
<1>4. o \in Admissions /\ o.mutation = op[id].mutation
  BY <1>2, Phased
<1>5. op' = [op EXCEPT ![id] = o]
  BY <1>3
<1> HIDE DEF o
<1>6. SameIdentity /\ OutboxInv' /\ (op \in [OperationIds -> Admissions \cup {Idle}])'
  BY <1>1, <1>2, <1>4, <1>5, PhaseFrame
<1>7. ConnectorTyped'
  BY <1>1, <1>3, <1>6 DEF ConnectorInv, ConnectorTyped
<1>8. AcceptedWasApplied'
  BY <1>1, <1>3 DEF ConnectorInv, ConnectorTyped, WritesDoneOnce, AcceptedWasApplied, Held
<1>9. WritesDoneOnce'
  BY <1>1, <1>8 DEF ConnectorInv, WritesDoneOnce, AppliedOnce, AppliedWhereMade, AppliedWasAuthorized
<1> QED
  BY <1>1, <1>6, <1>7, <1>9, AppliedFrame, WireFrame, AnswersFrame, CapsFrame DEF ConnectorInv

(* Replay: the contract admits it only within the policy's window, so the  *)
(* requests of this operation still under way are within it too.           *)
LEMMA ReplayKeeps ==
    ASSUME NEW id \in OperationIds, NEW under, ConnectorInv, op[id] # Idle, Replay(id, under)
    PROVE  ConnectorInv'
<1>1. PICK o, e :
      /\ o = [op[id] EXCEPT !.phase = "sent", !.attempts = @ + 1]
      /\ e = Envelope(o, under, "replay")
      /\ SupportsReplay(policy, clock - o.mutation.created)
      /\ RequireOperation(under, caps, o.name, FALSE)
      /\ ProviderRequestValid(e.invocation, e.request)
      /\ op' = [op EXCEPT ![id] = o] /\ wire' = wire \cup {e}
      /\ UNCHANGED <<clock, policy, scope, caps, answers, applied, taken>>
  BY DEF Replay
<1>2. op[id] \in Admissions
  BY DEF ConnectorInv, ConnectorTyped
<1>3. o \in Admissions /\ o.mutation = op[id].mutation
  <2>1. PICK n \in Nat : n = op[id].attempts + 1
    BY <1>2 DEF Admissions
  <2>2. PICK p \in Admissions : p = [op[id] EXCEPT !.phase = "sent"] /\ p.mutation = op[id].mutation
    BY <1>2, Phased
  <2>3. o = [p EXCEPT !.attempts = n]
    BY <1>1, <2>1, <2>2
  <2> QED
    BY <2>2, <2>3 DEF Admissions
<1>4. /\ e.request.mutation = o.mutation /\ e.request.operation = o.name
      /\ e.request.scope = under /\ e.invocation.scope = scope
  BY <1>1 DEF Envelope
<1>5. e.invocation.scope = under
  BY <1>1, <1>4 DEF ProviderRequestValid, InvocationMatches
<1>6. SameIdentity /\ OutboxInv' /\ (op \in [OperationIds -> Admissions \cup {Idle}])'
  BY <1>1, <1>3, PhaseFrame
<1>7. ConnectorTyped'
  BY <1>1, <1>6 DEF ConnectorInv, ConnectorTyped
<1>8. Safe(o.mutation) /\ Safe(o.mutation)'
  BY <1>1 DEF Safe, SupportsReplay, RecoveryValid, Enum
<1>9. o.mutation.id = id
  BY <1>3 DEF ConnectorInv, OutboxInv
<1>10. op'[id] = o /\ o # Idle
  BY <1>1, <1>3 DEF ConnectorInv, ConnectorTyped, Admissions, Idle
<1>11. WireInv'
  <2>1. Sendable(e)'
    BY <1>1, <1>3, <1>4, <1>5, <1>9, <1>10, RequiredIsAuthorized DEF Sendable, ConnectorInv
  <2>2. ASSUME NEW f \in wire
        PROVE  Sendable(f)' /\ (Safe(f.request.mutation)' \/ Fresh(f)')
    <3>1. Sendable(f) /\ (Safe(f.request.mutation) \/ Fresh(f))
      BY DEF ConnectorInv, WireInv
    <3>2. Sendable(f)'
      BY <3>1, <1>6 DEF Sendable, SameIdentity
    <3>3. CASE f.request.mutation.id = id
      <4>1. f.request.mutation = o.mutation
        BY <3>1, <3>3, <1>3 DEF Sendable
      <4> QED
        BY <3>2, <4>1, <1>8
    <3>4. CASE f.request.mutation.id # id
      <4>1. Safe(f.request.mutation) => Safe(f.request.mutation)'
        BY <1>1 DEF Safe
      <4>2. Fresh(f) => Fresh(f)'
        BY <1>1, <1>4, <1>9, <3>4 DEF Fresh
      <4> QED
        BY <3>1, <3>2, <4>1, <4>2
    <3> QED
      BY <3>3, <3>4
  <2> QED
    BY <1>1, <1>4, <1>8, <2>1, <2>2 DEF WireInv
<1> QED
  BY <1>1, <1>6, <1>7, <1>11, AppliedFrame, AnswersFrame, CapsFrame, DoneFrame DEF ConnectorInv

(* A safe request of an operation that was done is recognized.             *)
LEMMA SafeIsRecognized ==
    ASSUME ConnectorInv, NEW e \in wire, Safe(e.request.mutation),
           NEW a \in applied, a.id = e.request.mutation.id
    PROVE  Recognized(a.id)
<1>1. /\ a.at \in Nat /\ clock \in Nat /\ policy.dedup \in Int
      /\ a.id \in OperationIds /\ op[a.id].mutation.created <= a.at
      /\ e.request.mutation.created = op[a.id].mutation.created
  BY PoliciesAssumption DEF ConnectorInv, ConnectorTyped, AppliedInv, WireInv, Sendable
<1>2. /\ op[a.id].mutation.created \in Nat /\ op[a.id].mutation.created <= clock
  BY DEF ConnectorInv, ConnectorTyped, AppliedInv, OutboxInv, Admissions, Mutations
<1>3. CASE policy.idempotency = "durable"
  BY <1>3 DEF Recognized, Held
<1>4. CASE policy.idempotency = "windowed" /\ clock - op[a.id].mutation.created < policy.dedup
  <2>1. policy.dedup > 0 /\ clock - a.at < policy.dedup
    BY <1>1, <1>2, <1>4
  <2>2. a \in Held(a.id, policy.dedup)
    BY <2>1 DEF Held
  <2> QED
    BY <1>4, <2>1, <2>2 DEF Recognized
<1> QED
  BY <1>1, <1>3, <1>4 DEF Safe

(* Handle: what the provider does is new.                                  *)
LEMMA HandleKeeps ==
    ASSUME NEW e \in wire, ConnectorInv, Handle(e)
    PROVE  ConnectorInv'
<1> DEFINE id == e.request.mutation.id
           b == [id |-> id, n |-> e.attempt, scope |-> e.invocation.scope, at |-> clock,
                 source |-> e.request.mutation.source, name |-> e.request.operation]
<1>1. wire' = wire \ {e} /\ UNCHANGED <<clock, policy, scope, caps, op, taken>>
  BY DEF Handle
<1>2. \/ applied' = applied
      \/ applied' = applied \cup {b} /\ ~Recognized(id)
  BY DEF Handle
<1>3. PICK about \in OperationIds, state \in {"accepted", "unknown"} :
          answers' = answers \cup
             {[call |-> id, receipt |-> Receipt(about, state, \E c \in applied' : c.id = about)]}
  BY DEF Handle
<1>4. /\ b.id = id /\ b.at = clock /\ b.scope = e.invocation.scope
      /\ b.source = e.request.mutation.source /\ b.name = e.request.operation
  OBVIOUS
<1>5. Sendable(e) /\ (Safe(e.request.mutation) \/ Fresh(e))
  BY DEF ConnectorInv, WireInv
<1>6. id \in OperationIds /\ op[id] # Idle /\ op[id].mutation.created <= clock /\ clock \in Nat
  BY <1>5 DEF Sendable, ConnectorInv, OutboxInv, ConnectorTyped
<1> HIDE DEF b
<1>7. ~Recognized(id) => \A a \in applied : a.id # id
  BY <1>5, SafeIsRecognized DEF Fresh
<1> HIDE DEF id
<1>8. SameIdentity
  BY <1>1, SameOutbox
<1>9. ConnectorTyped' /\ OutboxInv'
  BY <1>1 DEF ConnectorInv, ConnectorTyped, OutboxInv
<1>10. AppliedInv'
  BY <1>1, <1>2, <1>4, <1>6 DEF ConnectorInv, AppliedInv
<1>11. WireInv'
  <2> SUFFICES ASSUME NEW f \in wire, f # e
               PROVE  Sendable(f)' /\ (Safe(f.request.mutation)' \/ Fresh(f)')
    BY <1>1 DEF WireInv
  <2>1. Sendable(f) /\ (Safe(f.request.mutation) \/ Fresh(f))
    BY DEF ConnectorInv, WireInv
  <2>2. Sendable(f)'
    BY <2>1, <1>8 DEF Sendable, SameIdentity
  <2>3. Safe(f.request.mutation) => Safe(f.request.mutation)'
    BY <1>1 DEF Safe
  <2>4. Fresh(f) => Fresh(f)'
    BY <1>1, <1>2, <1>4 DEF Fresh, id
  <2> QED
    BY <2>1, <2>2, <2>3, <2>4
<1>12. applied \subseteq applied'
  BY <1>2
<1>13. AnswersInv'
  <2> DEFINE yes == \E c \in applied' : c.id = about
             r == [call |-> id, receipt |-> Receipt(about, state, yes)]
  <2>1. /\ r.call = id /\ r.receipt.id = about /\ r.receipt.state = state
        /\ r.receipt.remoteAccepted = yes
    BY DEF Receipt
  <2>2. answers' = answers \cup {r}
    BY <1>3
  <2>3. r.receipt.remoteAccepted => \E c \in applied' : c.id = r.receipt.id
    BY <2>1, Zenon
  <2> HIDE DEF r
  <2>4. r.call \in OperationIds /\ r.receipt.state \in {"accepted", "unknown"}
    BY <2>1, <1>6
  <2> QED
    BY <2>2, <2>3, <2>4, <1>12 DEF ConnectorInv, AnswersInv
<1>14. AppliedOnce'
  BY <1>2, <1>4, <1>7 DEF ConnectorInv, WritesDoneOnce, AppliedOnce
<1>15. b.source = b.scope.binding /\ b.name \in Authorized[b.scope.capability]
  BY <1>4, <1>5 DEF Sendable, ProviderRequestValid, InvocationMatches, MutationMatches
<1>16. WritesDoneOnce'
  BY <1>1, <1>2, <1>12, <1>14, <1>15
  DEF ConnectorInv, WritesDoneOnce, AppliedWhereMade, AcceptedWasApplied, AppliedWasAuthorized
<1> QED
  BY <1>1, <1>9, <1>10, <1>11, <1>13, <1>16, CapsFrame DEF ConnectorInv

(* Take: a result taken for accepted is of its own operation and true.     *)
LEMMA TakeKeeps ==
    ASSUME NEW r \in answers, ConnectorInv, Take(r)
    PROVE  ConnectorInv'
<1>1. answers' \subseteq answers /\ UNCHANGED <<clock, policy, scope, caps, wire, applied>>
  BY DEF Take
<1>2. CASE UNCHANGED <<taken, op>>
  <2>1. ConnectorTyped' /\ OutboxInv'
    BY <1>1, <1>2 DEF ConnectorInv, ConnectorTyped, OutboxInv
  <2> QED
    BY <1>1, <1>2, <2>1, SameOutbox, AppliedFrame, WireFrame, AnswersFrame, CapsFrame, DoneFrame
    DEF ConnectorInv
<1>3. CASE /\ op[r.call].phase = "sent" /\ ReceiptFor(r.receipt, op[r.call].mutation)
           /\ taken' = [taken EXCEPT ![r.call] = r.receipt.state]
           /\ op' = [op EXCEPT ![r.call].phase =
                        IF r.receipt.state \in {"accepted", "rejected"} THEN "settled" ELSE @]
  <2> DEFINE id == r.call
  <2>1. id \in OperationIds /\ r.receipt.state \in {"accepted", "unknown"}
    BY DEF ConnectorInv, AnswersInv
  <2>2. op[id] # Idle /\ op[id] \in Admissions
    BY <1>3, <2>1 DEF ConnectorInv, ConnectorTyped, Idle
  <2>3. PICK phase \in {"settled", "sent"} : op' = [op EXCEPT ![id] = [@ EXCEPT !.phase = phase]]
    BY <1>3
  <2> DEFINE o == [op[id] EXCEPT !.phase = phase]
  <2>4. o \in Admissions /\ o.mutation = op[id].mutation
    BY <2>2, Phased
  <2>5. op' = [op EXCEPT ![id] = o]
    BY <2>3
  <2> HIDE DEF o
  <2>6. SameIdentity /\ OutboxInv' /\ (op \in [OperationIds -> Admissions \cup {Idle}])'
    BY <1>1, <2>1, <2>2, <2>4, <2>5, PhaseFrame
  <2>7. ConnectorTyped'
    BY <1>1, <1>3, <2>1, <2>6 DEF ConnectorInv, ConnectorTyped
  <2>8. r.receipt.state = "accepted" => \E a \in applied : a.id = id
    <3>1. r.receipt.id = id
      BY <1>3, <2>1, <2>2 DEF ReceiptFor, ConnectorInv, OutboxInv
    <3>2. r.receipt.state = "accepted" => r.receipt.remoteAccepted
      BY <1>3, Zenon DEF ReceiptFor, ReceiptValid
    <3> QED
      BY <3>1, <3>2 DEF ConnectorInv, AnswersInv
  <2>9. AcceptedWasApplied'
    <3> SUFFICES ASSUME NEW i \in OperationIds, taken'[i] = "accepted"
                 PROVE  \E a \in applied : a.id = i
      BY <1>1 DEF AcceptedWasApplied
    <3>1. CASE i = id
      BY <1>3, <2>1, <2>8, <3>1 DEF ConnectorInv, ConnectorTyped
    <3>2. CASE i # id
      BY <1>3, <2>1, <3>2 DEF ConnectorInv, ConnectorTyped, WritesDoneOnce, AcceptedWasApplied
    <3> QED
      BY <3>1, <3>2
  <2>10. WritesDoneOnce'
    BY <1>1, <2>9
    DEF ConnectorInv, WritesDoneOnce, AppliedOnce, AppliedWhereMade, AppliedWasAuthorized
  <2> QED
    BY <1>1, <2>6, <2>7, <2>10, AppliedFrame, WireFrame, AnswersFrame, CapsFrame DEF ConnectorInv
<1> QED
  BY <1>2, <1>3, Zenon DEF Take

(* An invocation expires with its tick, so that nothing is under way when  *)
(* the policy's window moves.                                              *)
LEMMA TickKeeps == ConnectorInv /\ Tick => ConnectorInv'
<1> SUFFICES ASSUME ConnectorInv, Tick PROVE ConnectorInv'
  OBVIOUS
<1>1. /\ clock' = clock + 1 /\ wire' = {}
      /\ UNCHANGED <<policy, scope, caps, op, answers, applied, taken>>
  BY DEF Tick
<1>2. ConnectorTyped'
  BY <1>1 DEF ConnectorInv, ConnectorTyped
<1>3. OutboxInv'
  BY <1>1 DEF ConnectorInv, OutboxInv, ConnectorTyped, Admissions, Mutations
<1>4. WireInv'
  BY <1>1 DEF WireInv
<1> QED
  BY <1>1, <1>2, <1>3, <1>4, SameOutbox, AppliedFrame, AnswersFrame, CapsFrame, DoneFrame
  DEF ConnectorInv

(* A new binding or new capabilities change what is asked from now on.     *)
LEMMA ScopeKeeps ==
    ASSUME ConnectorInv, Rebind \/ Advertise \/ Describe \/ Lose
    PROVE  ConnectorInv'
<1>1. /\ UNCHANGED <<clock, policy, op, wire, applied, taken>> /\ answers' \subseteq answers
  BY DEF Rebind, Advertise, Describe, Lose
<1>2. scope' \in Scopes
  <2>1. scope \in Scopes
    BY DEF ConnectorInv, ConnectorTyped
  <2>2. CASE Rebind
    <3>1. PICK i \in Nat, j \in Nat : i = scope.binding + 1 /\ j = scope.generation + 1
      BY <2>1 DEF Scopes
    <3>2. scope' = [scope EXCEPT !.binding = i, !.generation = j]
      BY <2>2, <3>1 DEF Rebind
    <3> QED
      BY <2>1, <3>2 DEF Scopes
  <2>3. CASE Advertise
    BY <2>1, <2>3 DEF Advertise, Scopes
  <2>4. CASE Describe \/ Lose
    BY <2>1, <2>4 DEF Describe, Lose
  <2> QED
    BY <2>2, <2>3, <2>4
<1>3. CapsInv'
  <2>1. CASE UNCHANGED caps
    BY <2>1, CapsFrame DEF ConnectorInv
  <2>2. CASE caps' = Capabilities(scope.capability)
    BY <2>2, CapabilitiesAreTrue, Zenon DEF CapsInv
  <2> QED
    BY <2>1, <2>2 DEF Rebind, Advertise, Describe, Lose
<1>4. ConnectorTyped' /\ OutboxInv'
  BY <1>1, <1>2 DEF ConnectorInv, ConnectorTyped, OutboxInv
<1> QED
  BY <1>1, <1>3, <1>4, SameOutbox, AppliedFrame, WireFrame, AnswersFrame, DoneFrame
  DEF ConnectorInv

LEMMA ConnectorStep == ConnectorInv /\ [ConnectorNext]_connectorVars => ConnectorInv'
<1> SUFFICES ASSUME ConnectorInv, [ConnectorNext]_connectorVars PROVE ConnectorInv'
  OBVIOUS
<1>1. ASSUME NEW id \in OperationIds, Submit(id, Operation[id]) \/ Queue(id, Operation[id]) \/ Recover(id)
      PROVE  ConnectorInv'
  BY <1>1, SubmitKeeps, QueueKeeps, RecoverKeeps
<1>2. ASSUME NEW id \in OperationIds, op[id] # Idle, \E under \in {op[id].scope, scope} : Replay(id, under)
      PROVE  ConnectorInv'
  BY <1>2, ReplayKeeps
<1>3. CASE \E e \in wire : Handle(e)
  BY <1>3, HandleKeeps
<1>4. CASE \E r \in answers : Take(r)
  BY <1>4, TakeKeeps
<1>5. CASE Lose \/ Rebind \/ Advertise \/ Describe
  BY <1>5, ScopeKeeps
<1>6. CASE Tick
  BY <1>6, TickKeeps
<1>7. CASE UNCHANGED connectorVars
  <2>1. ConnectorTyped' /\ OutboxInv'
    BY <1>7 DEF connectorVars, ConnectorInv, ConnectorTyped, OutboxInv
  <2> QED
    BY <1>7, <2>1, SameOutbox, AppliedFrame, WireFrame, AnswersFrame, CapsFrame, DoneFrame
    DEF connectorVars, ConnectorInv
<1> QED
  BY <1>1, <1>2, <1>3, <1>4, <1>5, <1>6, <1>7 DEF ConnectorNext

(* However often it is sent, queued, recovered and replayed, through any   *)
(* changes of binding and capabilities and with late, lost and false       *)
(* answers, a write is done once, where it was made for, with an authority *)
(* in force, and is taken for accepted only if it was done                 *)
(* (SupportsReplay, Matches, RequireOperation, Receipt.ValidateFor).       *)
THEOREM WritesAreDoneOnce == ConnectorSpec => []WritesDoneOnce
<1>1. ConnectorInv => WritesDoneOnce
  BY DEF ConnectorInv
<1> QED
  BY <1>1, ConnectorInvInit, ConnectorStep, PTL DEF ConnectorSpec

----------------------------------------------------------------------------
(* The writes of agents.                                                   *)

Lease == [holder : Agents \cup {""}, fence : Nat, of : Resources \cup {""}]

WritesTyped ==
    /\ resource \in [Resources -> [revision : Nat, lease : Lease]]
    /\ fences \in Seq(Lease)
    /\ agent \in [Agents -> [read : [Resources -> Nat], lease : Lease]]
    /\ queue \in SUBSET [by : Agents, request : WriteRequest]
    /\ reply \in [for : Resources \cup {""}, lease : Lease]

(* A lease is the one its fence was issued with, so that a fence names one *)
(* holder and one resource for ever.                                       *)
Issued(s, l) == l.fence \in 1 .. Len(s) /\ s[l.fence] = l
FencesInv ==
    \A i \in 1 .. Len(fences) :
        fences[i].fence = i /\ fences[i].holder \in Agents /\ fences[i].of \in Resources
LeasesInv ==
    /\ \A r \in Resources : resource[r].lease # NoLease =>
          Issued(fences, resource[r].lease) /\ resource[r].lease.of = r
    /\ \A a \in Agents : agent[a].lease # NoLease =>
          Issued(fences, agent[a].lease) /\ agent[a].lease.holder = a
    /\ reply.lease # NoLease => Issued(fences, reply.lease)

(* Revisions only grow, so an agent has never read one that is to come.    *)
ReadInv == \A a \in Agents, r \in Resources : agent[a].read[r] <= resource[r].revision

(* What is kept for later is valid, may be queued, and names a revision    *)
(* its author had read.                                                    *)
Kept(k) ==
    /\ WriteValid(k.request, Current)
    /\ ~OnlineOnly(k.request.action)
    /\ k.request.expected <= agent[k.by].read[k.request.resource]
KeptInv == \A k \in queue : Kept(k)

WritesInv == WritesTyped /\ FencesInv /\ LeasesInv /\ ReadInv /\ KeptInv /\ WritesByRight

----------------------------------------------------------------------------
(* Permissions are carried by the two actions that change them only, and   *)
(* these, like a completion, are never queued (validateActionFields,       *)
(* OnlineOnly).                                                            *)
LEMMA GrantsByAdmin ==
    ASSUME NEW a PROVE "grants" \in TaskFields(a) => a = "admin.permissions"
BY DEF TaskFields

LEMMA GrantsByPermissions ==
    ASSUME NEW a PROVE "grants" \in KnowledgeFields(a) => a = "permissions.set"
BY DEF KnowledgeFields

LEMMA AuthorityIsOnlineOnly ==
    ASSUME NEW q \in WriteRequest, WriteValid(q, Current),
           "grants" \in q.carries \/ q.action = "agent.complete"
    PROVE  OnlineOnly(q.action)
<1>1. CASE q.facade = "tasks"
  BY <1>1, GrantsByAdmin DEF WriteValid, TaskWriteValid, ActionFields, OnlineOnly
<1>2. CASE q.facade # "tasks"
  BY <1>2, GrantsByPermissions DEF WriteValid, KnowledgeWriteValid, ActionFields, OnlineOnly
<1> QED
  BY <1>1, <1>2

(* A completion names a lease, a publication the revision it is of.        *)
LEMMA CompletionNeedsFence ==
    ASSUME NEW q \in WriteRequest, WriteValid(q, Current), q.action = "agent.complete"
    PROVE  "leaseFence" \in q.carries
<1>1. q.facade = "tasks"
  BY DEF WriteValid, KnowledgeWriteValid, KnowledgeActions, Enum
<1> QED
  BY <1>1 DEF WriteValid, TaskWriteValid, Needs

LEMMA PublicationNeedsRevision ==
    ASSUME NEW q \in WriteRequest, WriteValid(q, Current),
           q.action \in {"draft.publish", "version.restore"}
    PROVE  q.expected > 0
<1>1. q.facade # "tasks"
  BY DEF WriteValid, TaskWriteValid, TaskActions, Enum
<1>2. KnowledgeFields(q.action) = {"versionId"} /\ "expected" \in KnowledgeNeeds(q.action)
  BY DEF KnowledgeFields, KnowledgeNeeds
<1>3. "expected" \notin q.carries /\ "expected" \in Given(q)
  BY <1>1, <1>2 DEF WriteValid, KnowledgeWriteValid, ActionFields
<1> QED
  BY <1>3 DEF Given

LEMMA NoStatusPatched ==
    ASSUME NEW q \in WriteRequest, WriteValid(q, Current)
    PROVE  "status" \in Effects(q) => q.action \in {"workflow.transition", "agent.complete"}
BY DEF WriteValid, TaskWriteValid, PatchesStatus, Effects

(* An agent's write is a request with the fence and the revision it has.   *)
LEMMA FilledType ==
    ASSUME WritesTyped, NEW a \in Agents, NEW q \in WriteRequest
    PROVE  /\ Filled(a, q) \in WriteRequest
           /\ Filled(a, q).resource = q.resource
           /\ Filled(a, q).action = q.action
           /\ "leaseFence" \in Filled(a, q).carries =>
                 agent[a].lease.of = q.resource /\ Filled(a, q).fence = agent[a].lease.fence
           /\ Filled(a, q).expected \in {0, agent[a].read[q.resource]}
<1>1. PICK n \in Nat, c \in SUBSET STRING, e \in Nat :
        /\ n = (IF agent[a].lease.of = q.resource THEN agent[a].lease.fence ELSE 0)
        /\ c = (IF agent[a].lease.of = q.resource THEN q.carries ELSE q.carries \ {"leaseFence"})
        /\ e = (IF q.expected > 0 THEN agent[a].read[q.resource] ELSE 0)
  <2>1. agent[a].lease.fence \in Nat /\ q.carries \in SUBSET STRING /\ q.carries \ {"leaseFence"} \in SUBSET STRING
    BY DEF WritesTyped, WriteRequest, Lease
  <2>2. agent[a].read \in [Resources -> Nat] /\ q.resource \in Resources
    BY DEF WritesTyped, WriteRequest
  <2>3. agent[a].read[q.resource] \in Nat
    BY <2>2
  <2> QED
    BY <2>1, <2>3
<1>2. Filled(a, q) = [q EXCEPT !.fence = n, !.carries = c, !.expected = e]
  BY <1>1 DEF Filled
<1>3. [q EXCEPT !.fence = n, !.carries = c, !.expected = e] \in WriteRequest
  BY DEF WriteRequest
<1>4. /\ Filled(a, q).fence = n /\ Filled(a, q).carries = c /\ Filled(a, q).expected = e
      /\ Filled(a, q).resource = q.resource /\ Filled(a, q).action = q.action
  BY <1>2 DEF WriteRequest
<1> QED
  BY <1>1, <1>2, <1>3, <1>4 DEF WriteRequest

----------------------------------------------------------------------------
(* Both sides of a fence: a write that names the fence of the lease in     *)
(* force comes from its holder.                                            *)
LEMMA FenceNamesHolder ==
    ASSUME WritesInv, NEW a \in Agents, NEW r \in Resources,
           agent[a].lease.of = r, agent[a].lease.fence = resource[r].lease.fence
    PROVE  resource[r].lease.holder = a
<1>0. NoLease.of = "" /\ NoLease.fence = 0
  BY DEF NoLease
<1>1. agent[a].lease # NoLease
  BY <1>0, NamesAssumption
<1>2. Issued(fences, agent[a].lease) /\ agent[a].lease.holder = a
  BY <1>1 DEF WritesInv, LeasesInv
<1>3. resource[r].lease.fence # 0
  BY <1>2 DEF Issued
<1>4. resource[r].lease # NoLease
  BY <1>3, <1>0
<1>5. Issued(fences, resource[r].lease)
  BY <1>4 DEF WritesInv, LeasesInv
<1> QED
  BY <1>2, <1>5 DEF Issued

(* Everything Do records is right: for a request that is valid and either  *)
(* made now by the agent or kept since.                                    *)
LEMMA ChangesByRight ==
    ASSUME WritesInv, NEW a \in Agents, NEW q \in WriteRequest, NEW offline \in BOOLEAN,
           WriteValid(q, Current), Do(a, q, offline),
           offline => ~OnlineOnly(q.action),
           q.expected <= agent[a].read[q.resource],
           ~offline /\ "leaseFence" \in q.carries =>
               agent[a].lease.of = q.resource /\ q.fence = agent[a].lease.fence
    PROVE  CompletedByHolder' /\ AuthorityOnline' /\ PublishedWasRead' /\ StatusByWorkflow'
<1>1. q.resource \in Resources /\ q.expected \in Nat
  BY DEF WriteRequest
<1>2. PICK held \in BOOLEAN, read \in BOOLEAN :
        /\ held <=> resource[q.resource].lease.holder = a
        /\ read <=> agent[a].read[q.resource] = resource[q.resource].revision
  OBVIOUS
<1>3. changes' = {[what |-> e, action |-> q.action, offline |-> offline, held |-> held, seen |-> read]
                    : e \in Effects(q)}
  <2>1. held = (resource[q.resource].lease.holder = a)
    BY <1>2, Zenon
  <2>2. read = (agent[a].read[q.resource] = resource[q.resource].revision)
    BY <1>2, Zenon
  <2> QED
    BY <2>1, <2>2, Zenon DEF Do
<1>4. q.action = "agent.complete" => ~offline /\ held
  <2> SUFFICES ASSUME q.action = "agent.complete" PROVE ~offline /\ held
    OBVIOUS
  <2>1. ~offline
    BY AuthorityIsOnlineOnly
  <2>2. "leaseFence" \in q.carries
    BY CompletionNeedsFence
  <2>3. agent[a].lease.of = q.resource /\ q.fence = agent[a].lease.fence
    BY <2>1, <2>2
  <2>4. q.fence = resource[q.resource].lease.fence
    BY <2>2 DEF Do, Conditions
  <2>5. resource[q.resource].lease.holder = a
    BY <2>3, <2>4, <1>1, FenceNamesHolder
  <2> QED
    BY <2>1, <2>5, <1>2
<1>5. "grants" \in q.carries => ~offline
  BY AuthorityIsOnlineOnly
<1>6. q.action \in {"draft.publish", "version.restore"} => read
  <2> SUFFICES ASSUME q.action \in {"draft.publish", "version.restore"} PROVE read
    OBVIOUS
  <2>1. q.expected > 0
    BY PublicationNeedsRevision
  <2>2. q.expected = resource[q.resource].revision
    BY <2>1 DEF Do, Conditions
  <2>3. agent[a].read[q.resource] <= resource[q.resource].revision
    BY <1>1 DEF WritesInv, ReadInv
  <2>4. agent[a].read \in [Resources -> Nat] /\ resource[q.resource].revision \in Nat
    BY <1>1 DEF WritesInv, WritesTyped
  <2>5. agent[a].read[q.resource] \in Nat
    BY <1>1, <2>4
  <2>6. agent[a].read[q.resource] = resource[q.resource].revision
    BY <2>2, <2>3, <2>4, <2>5
  <2> QED
    BY <2>6, <1>2
<1>7. ASSUME NEW e \in Effects(q)
      PROVE  /\ e = "completion" => q.action = "agent.complete"
             /\ e = "grants" => "grants" \in q.carries
             /\ e = "publication" => q.action \in {"draft.publish", "version.restore"}
             /\ e = "status" => q.action \in {"workflow.transition", "agent.complete"}
  BY <1>7, NoStatusPatched DEF Effects
<1>8. ASSUME NEW c \in changes'
      PROVE  /\ c.what = "completion" => c.held
             /\ c.offline => c.what \notin {"grants", "completion"}
             /\ c.what = "publication" => c.seen
             /\ c.what = "status" => c.action \in {"workflow.transition", "agent.complete"}
  <2>1. PICK e \in Effects(q) : c = [what |-> e, action |-> q.action, offline |-> offline, held |-> held, seen |-> read]
    BY <1>3
  <2>2. c.what = e /\ c.action = q.action /\ c.offline = offline /\ c.held = held /\ c.seen = read
    BY <2>1
  <2> QED
    BY <2>2, <1>7, <1>4, <1>5, <1>6, Zenon
<1> QED
  BY <1>8 DEF CompletedByHolder, AuthorityOnline, PublishedWasRead, StatusByWorkflow

(* A step in which the provider did nothing shows no change.               *)
LEMMA NoChanges ==
    ASSUME changes' = {}
    PROVE  CompletedByHolder' /\ AuthorityOnline' /\ PublishedWasRead' /\ StatusByWorkflow'
BY DEF CompletedByHolder, AuthorityOnline, PublishedWasRead, StatusByWorkflow

LEMMA FencesType ==
    ASSUME WritesTyped PROVE fences \in Seq(Lease) /\ Len(fences) \in Nat
<1>1. fences \in Seq(Lease)
  BY DEF WritesTyped
<1> QED
  BY <1>1

LEMMA LeaseOfResource == LeasesInv => LeaseIsOfResource
BY DEF LeasesInv, Issued, LeaseIsOfResource

(* The frames of the parts.                                                *)
LEMMA FencesFrame ==
    ASSUME FencesInv, UNCHANGED fences PROVE FencesInv'
BY DEF FencesInv

LEMMA KeptFrame ==
    ASSUME WritesTyped, KeptInv, queue' \subseteq queue,
           \A a \in Agents, r \in Resources : agent[a].read[r] <= agent'[a].read[r],
           agent' \in [Agents -> [read : [Resources -> Nat], lease : Lease]]
    PROVE  KeptInv'
<1> SUFFICES ASSUME NEW k \in queue' PROVE Kept(k)'
  BY DEF KeptInv
<1>1. k \in queue /\ Kept(k) /\ k.by \in Agents /\ k.request \in WriteRequest
  BY DEF KeptInv, WritesTyped
<1>2. k.request.resource \in Resources /\ k.request.expected \in Nat
  BY <1>1 DEF WriteRequest
<1>3. /\ agent[k.by].read \in [Resources -> Nat] /\ agent'[k.by].read \in [Resources -> Nat]
      /\ agent[k.by].read[k.request.resource] <= agent'[k.by].read[k.request.resource]
  BY <1>1, <1>2 DEF WritesTyped
<1>4. k.request.expected <= agent'[k.by].read[k.request.resource]
  BY <1>1, <1>2, <1>3 DEF Kept
<1> QED
  BY <1>1, <1>4 DEF Kept, Current, Scope

----------------------------------------------------------------------------

LEMMA LeaseOfResourceNext == LeasesInv' => LeaseIsOfResource'
BY DEF LeasesInv, Issued, LeaseIsOfResource

----------------------------------------------------------------------------
LEMMA WritesInvInit == WritesInit => WritesInv
<1> SUFFICES ASSUME WritesInit PROVE WritesInv
  OBVIOUS
<1>1. NoLease \in Lease /\ NoReply.lease = NoLease /\ NoReply \in [for : Resources \cup {""}, lease : Lease]
  BY DEF Lease, NoLease, NoReply
<1>2. fences = <<>> /\ Len(fences) = 0 /\ fences \in Seq(Lease)
  BY DEF WritesInit
<1>3. WritesTyped
  BY <1>1, <1>2 DEF WritesInit, WritesTyped
<1>4. \A a \in Agents : agent[a].lease = NoLease /\ \A r \in Resources : agent[a].read[r] = 0
  BY DEF WritesInit
<1>5. \A r \in Resources : resource[r].lease = NoLease /\ resource[r].revision = 1
  BY DEF WritesInit
<1>6. LeasesInv
  BY <1>1, <1>4, <1>5 DEF WritesInit, LeasesInv
<1>7. FencesInv /\ ReadInv /\ KeptInv
  BY <1>2, <1>4, <1>5 DEF WritesInit, FencesInv, ReadInv, KeptInv
<1> QED
  BY <1>3, <1>6, <1>7, LeaseOfResource DEF WritesInv, WritesByRight, WritesInit,
     CompletedByHolder, AuthorityOnline, PublishedWasRead, StatusByWorkflow

LEMMA ReadKeeps ==
    ASSUME WritesInv, NEW a \in Agents, NEW r \in Resources, Read(a, r)
    PROVE  WritesInv'
<1> USE DEF WritesInv
<1>1. PICK n \in Nat : n = resource[r].revision
  BY DEF WritesTyped
<1>2. PICK p \in [read : [Resources -> Nat], lease : Lease] :
        p = [agent[a] EXCEPT !.read[r] = n]
  <2>1. agent[a] \in [read : [Resources -> Nat], lease : Lease]
    BY DEF WritesTyped
  <2>2. [agent[a].read EXCEPT ![r] = n] \in [Resources -> Nat]
    BY <2>1
  <2> QED
    BY <2>1, <2>2
<1>3. p.lease = agent[a].lease /\ p.read = [agent[a].read EXCEPT ![r] = n]
  BY <1>2 DEF WritesTyped
<1>4. agent' = [agent EXCEPT ![a] = p]
  BY <1>1, <1>2 DEF Read, WritesTyped
<1>5. WritesTyped'
  BY <1>4 DEF Read, WritesTyped
<1>6. LeasesInv' /\ FencesInv'
  <2>1. \A b \in Agents : agent'[b].lease = agent[b].lease
    BY <1>3, <1>4 DEF WritesTyped
  <2> QED
    BY <2>1, FencesFrame DEF Read, LeasesInv
<1>7. ASSUME NEW b \in Agents, NEW t \in Resources
      PROVE  agent[b].read[t] <= agent'[b].read[t] /\ agent'[b].read[t] <= resource[t].revision
  <2>1. agent[b].read \in [Resources -> Nat] /\ agent[a].read \in [Resources -> Nat]
    BY DEF WritesTyped
  <2>2. agent[b].read[t] \in Nat /\ resource[t].revision \in Nat
    BY <2>1 DEF WritesTyped
  <2>3. agent[b].read[t] <= resource[t].revision
    BY DEF ReadInv
  <2>4. CASE b = a /\ t = r
    <3>1. agent'[b].read[t] = n
      BY <1>3, <1>4, <2>1, <2>4 DEF WritesTyped
    <3> QED
      BY <3>1, <1>1, <2>2, <2>3, <2>4
  <2>5. CASE ~(b = a /\ t = r)
    <3>1. agent'[b].read[t] = agent[b].read[t]
      BY <1>3, <1>4, <2>1, <2>5 DEF WritesTyped
    <3> QED
      BY <3>1, <2>2, <2>3
  <2> QED
    BY <2>4, <2>5
<1>8. ReadInv'
  BY <1>7 DEF ReadInv, Read
<1>9. KeptInv'
  BY <1>5, <1>7, KeptFrame DEF Read, WritesTyped
<1> QED
  BY <1>5, <1>6, <1>8, <1>9, NoChanges, LeaseOfResourceNext DEF Read, WritesByRight

(* The parts that reads and kept writes rest on, in a step of claims.      *)
LEMMA ClaimFrame ==
    ASSUME WritesInv, WritesTyped', LeasesInv', FencesInv',
           \A a \in Agents : agent'[a].read = agent[a].read,
           \A r \in Resources : resource'[r].revision = resource[r].revision,
           UNCHANGED queue, changes' = {}
    PROVE  WritesInv'
<1> USE DEF WritesInv
<1>1. ReadInv'
  BY DEF ReadInv
<1>2. ASSUME NEW a \in Agents, NEW r \in Resources PROVE agent[a].read[r] <= agent'[a].read[r]
  <2>1. agent[a].read \in [Resources -> Nat]
    BY DEF WritesTyped
  <2>2. agent[a].read[r] \in Nat
    BY <2>1
  <2> QED
    BY <2>2
<1>3. KeptInv'
  BY <1>2, KeptFrame DEF WritesTyped
<1>4. LeaseIsOfResource'
  BY LeaseOfResourceNext
<1> QED
  BY <1>1, <1>3, <1>4, NoChanges DEF WritesByRight

(* What was issued stays issued.                                           *)
LEMMA IssuedStays ==
    ASSUME NEW S, NEW s \in Seq(S), NEW x \in S, NEW l, Issued(s, l)
    PROVE  Issued(Append(s, x), l)
BY DEF Issued

LEMMA AcquireKeeps ==
    ASSUME WritesInv, NEW a \in Agents, NEW r \in Resources, Acquire(a, r)
    PROVE  WritesInv'
<1> USE DEF WritesInv
<1>1. PICK x : x = [holder |-> a, fence |-> Len(fences) + 1, of |-> r]
  OBVIOUS
<1>2. x \in Lease /\ x # NoLease /\ x.fence = Len(fences) + 1 /\ x.of = r /\ x.holder = a
  <2>1. Len(fences) \in Nat
    BY FencesType
  <2>2. x \in Lease /\ x.fence = Len(fences) + 1 /\ x.of = r /\ x.holder = a
    <3>1. PICK n \in Nat : n = Len(fences) + 1
      BY <2>1
    <3> QED
      BY <1>1, <3>1 DEF Lease
  <2>3. NoLease.fence = 0
    BY DEF NoLease
  <2> QED
    BY <2>1, <2>2, <2>3
<1>3. /\ fences' = Append(fences, x)
      /\ resource' = [resource EXCEPT ![r].lease = x]
      /\ UNCHANGED <<agent, queue>> /\ changes' = {}
  BY <1>1 DEF Acquire
<1>4. /\ reply' \in [for : Resources \cup {""}, lease : Lease]
      /\ reply'.lease = x \/ \E q \in Resources : reply'.lease = resource[q].lease
  <2>1. PICK y \in {x} \cup {resource[q].lease : q \in Resources} : reply' = [for |-> r, lease |-> y]
    BY <1>1 DEF Acquire
  <2>2. ASSUME NEW q \in Resources PROVE resource[q].lease \in Lease
    BY DEF WritesTyped
  <2>3. y \in Lease
    BY <2>1, <2>2, <1>2
  <2> QED
    BY <2>1, <2>3
<1>5. /\ fences' \in Seq(Lease) /\ Len(fences') = Len(fences) + 1
      /\ fences'[Len(fences) + 1] = x
      /\ \A i \in 1 .. Len(fences) : fences'[i] = fences[i]
  <2>1. fences \in Seq(Lease) /\ fences' = Append(fences, x) /\ x \in Lease
    BY <1>2, <1>3, FencesType
  <2> QED
    BY <2>1
<1>6. /\ resource' \in [Resources -> [revision : Nat, lease : Lease]]
      /\ resource'[r].lease = x
      /\ \A q \in Resources : q # r => resource'[q].lease = resource[q].lease
      /\ \A t \in Resources : resource'[t].revision = resource[t].revision
  <2>1. PICK p \in [revision : Nat, lease : Lease] : p = [resource[r] EXCEPT !.lease = x]
    BY <1>2 DEF WritesTyped
  <2>2. p.lease = x /\ p.revision = resource[r].revision
    BY <2>1 DEF WritesTyped
  <2>3. resource' = [resource EXCEPT ![r] = p]
    BY <2>1, <1>3 DEF WritesTyped
  <2> QED
    BY <2>2, <2>3 DEF WritesTyped
<1>7. WritesTyped'
  BY <1>3, <1>4, <1>5, <1>6 DEF WritesTyped
<1>8. FencesInv'
  <2> SUFFICES ASSUME NEW i \in 1 .. Len(fences')
               PROVE  fences'[i].fence = i /\ fences'[i].holder \in Agents /\ fences'[i].of \in Resources
    BY DEF FencesInv
  <2>1. Len(fences) \in Nat
    BY FencesType
  <2>2. CASE i = Len(fences) + 1
    BY <2>2, <1>2, <1>5
  <2>3. CASE i # Len(fences) + 1
    BY <2>1, <2>3, <1>5 DEF FencesInv
  <2> QED
    BY <2>2, <2>3
<1>9. Issued(fences', x)
  <2>1. Len(fences) \in Nat
    BY FencesType
  <2> QED
    BY <2>1, <1>2, <1>5 DEF Issued
<1>10. \A l : Issued(fences, l) => Issued(fences', l)
  BY <1>2, <1>3, FencesType, IssuedStays
<1>11. LeasesInv'
  <2>1. ASSUME NEW q \in Resources, resource'[q].lease # NoLease
        PROVE  Issued(fences', resource'[q].lease) /\ resource'[q].lease.of = q
    <3>1. CASE q = r
      BY <3>1, <1>2, <1>6, <1>9
    <3>2. CASE q # r
      BY <3>2, <2>1, <1>6, <1>10 DEF LeasesInv
    <3> QED
      BY <3>1, <3>2
  <2>2. ASSUME NEW b \in Agents, agent'[b].lease # NoLease
        PROVE  Issued(fences', agent'[b].lease) /\ agent'[b].lease.holder = b
    BY <2>2, <1>3, <1>10 DEF LeasesInv
  <2>3. reply'.lease # NoLease => Issued(fences', reply'.lease)
    BY <1>4, <1>9, <1>10 DEF LeasesInv
  <2> QED
    BY <2>1, <2>2, <2>3 DEF LeasesInv
<1> QED
  BY <1>3, <1>6, <1>7, <1>8, <1>11, ClaimFrame

(* A lease taken from a resource or from an agent, the others as they are. *)
LEMMA ResourceLease ==
    ASSUME WritesTyped, NEW r \in Resources, resource' = [resource EXCEPT ![r].lease = NoLease]
    PROVE  /\ resource' \in [Resources -> [revision : Nat, lease : Lease]]
           /\ \A q \in Resources : resource'[q].lease \in {resource[q].lease, NoLease}
           /\ \A q \in Resources : resource'[q].revision = resource[q].revision
<1>1. NoLease \in Lease
  BY DEF Lease, NoLease
<1>2. PICK p \in [revision : Nat, lease : Lease] : p = [resource[r] EXCEPT !.lease = NoLease]
  BY <1>1 DEF WritesTyped
<1>3. p.lease = NoLease /\ p.revision = resource[r].revision
  BY <1>2 DEF WritesTyped
<1>4. resource' = [resource EXCEPT ![r] = p]
  BY <1>2 DEF WritesTyped
<1>5. resource' \in [Resources -> [revision : Nat, lease : Lease]]
  BY <1>4 DEF WritesTyped
<1>6. \A q \in Resources : resource'[q] = IF q = r THEN p ELSE resource[q]
  BY <1>4 DEF WritesTyped
<1> QED
  BY <1>3, <1>5, <1>6

LEMMA AgentLease ==
    ASSUME WritesTyped, NEW a \in Agents, NEW l \in Lease, agent' = [agent EXCEPT ![a].lease = l]
    PROVE  /\ agent' \in [Agents -> [read : [Resources -> Nat], lease : Lease]]
           /\ agent'[a].lease = l
           /\ \A b \in Agents : b # a => agent'[b].lease = agent[b].lease
           /\ \A b \in Agents : agent'[b].read = agent[b].read
<1>1. PICK p \in [read : [Resources -> Nat], lease : Lease] : p = [agent[a] EXCEPT !.lease = l]
  BY DEF WritesTyped
<1>2. p.lease = l /\ p.read = agent[a].read
  BY <1>1 DEF WritesTyped
<1>3. agent' = [agent EXCEPT ![a] = p]
  BY <1>1 DEF WritesTyped
<1> QED
  BY <1>2, <1>3 DEF WritesTyped

LEMMA TakeClaimKeeps ==
    ASSUME WritesInv, NEW a \in Agents, TakeClaim(a)
    PROVE  WritesInv'
<1> USE DEF WritesInv
<1>0. NoLease \in Lease /\ NoReply.lease = NoLease /\ NoReply \in [for : Resources \cup {""}, lease : Lease]
  BY DEF Lease, NoLease, NoReply
<1>1. /\ reply' = NoReply /\ reply.lease.holder = a
      /\ UNCHANGED <<resource, fences, queue>> /\ changes' = {}
  BY DEF TakeClaim
<1>2. FencesInv'
  BY <1>1, FencesFrame
<1>3. CASE ClaimResultFor(TRUE, reply.lease, "acquire", reply.for)
  <2>1. reply.lease # NoLease /\ reply.lease.of = reply.for /\ reply.lease \in Lease
    BY <1>3 DEF ClaimResultFor, WritesTyped
  <2>2. PICK l \in Lease : l = reply.lease
    BY <2>1
  <2>3. [l EXCEPT !.of = reply.for] = l
    BY <2>1, <2>2 DEF Lease
  <2>4. agent' = [agent EXCEPT ![a].lease = l]
    BY <1>3, <2>2, <2>3 DEF TakeClaim
  <2>5. Issued(fences, l) /\ l.holder = a
    BY <1>1, <2>1, <2>2 DEF LeasesInv
  <2>6. /\ agent' \in [Agents -> [read : [Resources -> Nat], lease : Lease]]
        /\ agent'[a].lease = l
        /\ \A b \in Agents : b # a => agent'[b].lease = agent[b].lease
        /\ \A b \in Agents : agent'[b].read = agent[b].read
    BY <2>4, AgentLease
  <2>7. WritesTyped'
    BY <1>0, <1>1, <2>6 DEF WritesTyped
  <2>8. ASSUME NEW b \in Agents, agent'[b].lease # NoLease
        PROVE  Issued(fences, agent'[b].lease) /\ agent'[b].lease.holder = b
    BY <2>5, <2>6, <2>8 DEF LeasesInv
  <2>9. LeasesInv'
    BY <1>0, <1>1, <2>8 DEF LeasesInv
  <2> QED
    BY <1>1, <1>2, <2>6, <2>7, <2>9, ClaimFrame
<1>4. CASE ~ClaimResultFor(TRUE, reply.lease, "acquire", reply.for)
  <2>1. UNCHANGED agent
    BY <1>4 DEF TakeClaim
  <2>2. WritesTyped'
    BY <1>0, <1>1, <2>1 DEF WritesTyped
  <2>3. LeasesInv'
    BY <1>0, <1>1, <2>1 DEF LeasesInv
  <2> QED
    BY <1>1, <1>2, <2>1, <2>2, <2>3, ClaimFrame
<1> QED
  BY <1>3, <1>4

LEMMA ReleaseKeeps ==
    ASSUME WritesInv, NEW a \in Agents, NEW r \in Resources, Release(a, r)
    PROVE  WritesInv'
<1> USE DEF WritesInv
<1>0. NoLease \in Lease
  BY DEF Lease, NoLease
<1>1. /\ agent' = [agent EXCEPT ![a].lease = NoLease]
      /\ UNCHANGED <<fences, queue, reply>> /\ changes' = {}
  BY DEF Release
<1>2. FencesInv'
  BY <1>1, FencesFrame
<1>3. /\ agent' \in [Agents -> [read : [Resources -> Nat], lease : Lease]]
      /\ agent'[a].lease = NoLease
      /\ \A b \in Agents : b # a => agent'[b].lease = agent[b].lease
      /\ \A b \in Agents : agent'[b].read = agent[b].read
  BY <1>0, <1>1, AgentLease
<1>4. /\ resource' \in [Resources -> [revision : Nat, lease : Lease]]
      /\ \A q \in Resources : resource'[q].lease \in {resource[q].lease, NoLease}
      /\ \A q \in Resources : resource'[q].revision = resource[q].revision
  <2>1. CASE resource' = resource
    BY <2>1 DEF WritesTyped
  <2>2. CASE resource' = [resource EXCEPT ![r].lease = NoLease]
    BY <2>2, ResourceLease
  <2> QED
    BY <2>1, <2>2 DEF Release
<1>5. WritesTyped'
  BY <1>1, <1>3, <1>4 DEF WritesTyped
<1>6. LeasesInv'
  BY <1>1, <1>3, <1>4 DEF LeasesInv
<1> QED
  BY <1>1, <1>2, <1>3, <1>4, <1>5, <1>6, ClaimFrame

LEMMA ExpireKeeps ==
    ASSUME WritesInv, NEW r \in Resources, Expire(r)
    PROVE  WritesInv'
<1> USE DEF WritesInv
<1>1. /\ resource' = [resource EXCEPT ![r].lease = NoLease]
      /\ UNCHANGED <<fences, agent, queue, reply>> /\ changes' = {}
  BY DEF Expire
<1>2. /\ resource' \in [Resources -> [revision : Nat, lease : Lease]]
      /\ \A q \in Resources : resource'[q].lease \in {resource[q].lease, NoLease}
      /\ \A q \in Resources : resource'[q].revision = resource[q].revision
  BY <1>1, ResourceLease
<1>3. WritesTyped'
  BY <1>1, <1>2 DEF WritesTyped
<1>4. LeasesInv'
  BY <1>1, <1>2 DEF LeasesInv
<1> QED
  BY <1>1, <1>2, <1>3, <1>4, ClaimFrame, FencesFrame

----------------------------------------------------------------------------
(* A write the provider does: the revision of its resource grows.          *)
LEMMA DoKeeps ==
    ASSUME WritesInv, NEW a \in Agents, NEW q \in WriteRequest, NEW offline, Do(a, q, offline),
           UNCHANGED <<fences, agent, reply>>, queue' \subseteq queue,
           CompletedByHolder' /\ AuthorityOnline' /\ PublishedWasRead' /\ StatusByWorkflow'
    PROVE  WritesInv'
<1> USE DEF WritesInv
<1>1. PICK r \in Resources : r = q.resource
  BY DEF WriteRequest
<1>2. PICK n \in Nat : n = resource[r].revision
  BY DEF WritesTyped
<1>3. PICK p \in [revision : Nat, lease : Lease] : p = [resource[r] EXCEPT !.revision = n + 1]
  <2>1. n + 1 \in Nat
    BY <1>2
  <2> QED
    BY <2>1 DEF WritesTyped
<1>4. p.lease = resource[r].lease /\ p.revision = n + 1
  BY <1>3 DEF WritesTyped
<1>5. resource' = [resource EXCEPT ![r] = p]
  BY <1>1, <1>2, <1>3 DEF Do, WritesTyped
<1>6. /\ resource' \in [Resources -> [revision : Nat, lease : Lease]]
      /\ \A t \in Resources : resource'[t].lease = resource[t].lease
      /\ \A t \in Resources : resource'[t].revision = (IF t = r THEN n + 1 ELSE resource[t].revision)
  BY <1>4, <1>5 DEF WritesTyped
<1>7. WritesTyped'
  BY <1>6 DEF WritesTyped
<1>8. LeasesInv' /\ FencesInv'
  BY <1>6, FencesFrame DEF LeasesInv
<1>9. ASSUME NEW b \in Agents, NEW t \in Resources
      PROVE  agent[b].read[t] <= agent'[b].read[t] /\ agent'[b].read[t] <= resource'[t].revision
  <2>1. agent[b].read \in [Resources -> Nat] /\ resource[t].revision \in Nat
    BY DEF WritesTyped
  <2>2. agent[b].read[t] \in Nat
    BY <2>1
  <2>3. agent[b].read[t] <= resource[t].revision /\ agent' = agent
    BY DEF ReadInv
  <2>4. CASE t = r
    BY <2>1, <2>2, <2>3, <2>4, <1>2, <1>6
  <2>5. CASE t # r
    BY <2>1, <2>2, <2>3, <2>5, <1>6
  <2> QED
    BY <2>4, <2>5
<1>10. ReadInv'
  BY <1>9 DEF ReadInv
<1>11. KeptInv'
  BY <1>9, KeptFrame DEF WritesTyped
<1> QED
  BY <1>7, <1>8, <1>10, <1>11, LeaseOfResourceNext DEF WritesByRight

LEMMA ReadIsNat ==
    ASSUME WritesTyped, NEW a \in Agents, NEW q \in WriteRequest
    PROVE  agent[a].read[q.resource] \in Nat
<1>1. agent[a].read \in [Resources -> Nat] /\ q.resource \in Resources
  BY DEF WritesTyped, WriteRequest
<1> QED
  BY <1>1

LEMMA WriteNowKeeps ==
    ASSUME WritesInv, NEW a \in Agents, NEW w \in WriteRequest, WriteNow(a, Filled(a, w))
    PROVE  WritesInv'
<1>0. WritesTyped
  BY DEF WritesInv
<1>1. PICK q \in WriteRequest : q = Filled(a, w)
  BY <1>0, FilledType
<1>2. /\ q.expected <= agent[a].read[q.resource]
      /\ "leaseFence" \in q.carries => agent[a].lease.of = q.resource /\ q.fence = agent[a].lease.fence
  <2>1. q.resource = w.resource /\ q.expected \in {0, agent[a].read[w.resource]}
    BY <1>0, <1>1, FilledType
  <2>2. agent[a].read[w.resource] \in Nat
    BY <1>0, ReadIsNat
  <2>3. q.expected <= agent[a].read[q.resource]
    BY <2>1, <2>2
  <2> QED
    BY <1>0, <1>1, <2>1, <2>3, FilledType
<1>3. WriteValid(q, Current) /\ Do(a, q, FALSE) /\ UNCHANGED <<fences, agent, queue, reply>>
  BY <1>1 DEF WriteNow
<1>4. CompletedByHolder' /\ AuthorityOnline' /\ PublishedWasRead' /\ StatusByWorkflow'
  BY <1>2, <1>3, ChangesByRight
<1> QED
  BY <1>3, <1>4, DoKeeps

LEMMA KeepKeeps ==
    ASSUME WritesInv, NEW a \in Agents, NEW w \in WriteRequest, Keep(a, Filled(a, w))
    PROVE  WritesInv'
<1> USE DEF WritesInv
<1>1. PICK q \in WriteRequest : q = Filled(a, w)
  BY FilledType
<1>2. /\ WriteValid(q, Current) /\ ~OnlineOnly(q.action)
      /\ queue' = queue \cup {[by |-> a, request |-> q]}
      /\ UNCHANGED <<resource, fences, agent, reply>> /\ changes' = {}
  BY <1>1 DEF Keep, RequireOperation
<1>3. q.expected <= agent[a].read[q.resource]
  <2>1. q.resource = w.resource /\ q.expected \in {0, agent[a].read[w.resource]}
    BY <1>1, FilledType
  <2>2. agent[a].read[w.resource] \in Nat
    BY ReadIsNat
  <2> QED
    BY <2>1, <2>2
<1>4. WritesTyped'
  <2>1. [by |-> a, request |-> q] \in [by : Agents, request : WriteRequest]
    OBVIOUS
  <2>2. queue' \in SUBSET [by : Agents, request : WriteRequest]
    BY <2>1, <1>2 DEF WritesTyped
  <2> QED
    BY <2>2, <1>2 DEF WritesTyped
<1>5. LeasesInv' /\ FencesInv' /\ ReadInv'
  BY <1>2, FencesFrame DEF LeasesInv, ReadInv
<1>6. KeptInv'
  <2> SUFFICES ASSUME NEW k \in queue' PROVE Kept(k)'
    BY DEF KeptInv
  <2>1. CASE k \in queue
    <3>1. Kept(k)
      BY <2>1 DEF KeptInv
    <3> QED
      BY <3>1, <1>2 DEF Kept, Current, Scope
  <2>2. CASE k = [by |-> a, request |-> q]
    <3>1. k.by = a /\ k.request = q
      BY <2>2
    <3> QED
      BY <3>1, <1>2, <1>3 DEF Kept, Current, Scope
  <2> QED
    BY <2>1, <2>2, <1>2
<1> QED
  BY <1>2, <1>4, <1>5, <1>6, NoChanges, LeaseOfResourceNext DEF WritesByRight

LEMMA SendKeptKeeps ==
    ASSUME WritesInv, NEW k \in queue, SendKept(k)
    PROVE  WritesInv'
<1>1. k.by \in Agents /\ k.request \in WriteRequest
  BY DEF WritesInv, WritesTyped
<1>2. Kept(k)
  BY DEF WritesInv, KeptInv
<1>3. Do(k.by, k.request, TRUE) /\ queue' \subseteq queue /\ UNCHANGED <<fences, agent, reply>>
  BY DEF SendKept
<1>4. CompletedByHolder' /\ AuthorityOnline' /\ PublishedWasRead' /\ StatusByWorkflow'
  BY <1>1, <1>2, <1>3, ChangesByRight DEF Kept
<1> QED
  BY <1>1, <1>3, <1>4, DoKeeps

LEMMA WritesStep == WritesInv /\ [WritesNext]_writeVars => WritesInv'
<1> SUFFICES ASSUME WritesInv, [WritesNext]_writeVars PROVE WritesInv'
  OBVIOUS
<1>1. ASSUME NEW a \in Agents, NEW r \in Resources, Read(a, r) \/ Acquire(a, r) \/ Release(a, r)
      PROVE  WritesInv'
  BY <1>1, ReadKeeps, AcquireKeeps, ReleaseKeeps
<1>2. ASSUME NEW a \in Agents, TakeClaim(a) PROVE WritesInv'
  BY <1>2, TakeClaimKeeps
<1>3. ASSUME NEW r \in Resources, Expire(r) PROVE WritesInv'
  BY <1>3, ExpireKeeps
<1>4. ASSUME NEW a \in Agents, NEW i \in 1 .. Len(Requests),
             WriteNow(a, Filled(a, Requests[i])) \/ Keep(a, Filled(a, Requests[i]))
      PROVE  WritesInv'
  <2>1. Requests[i] \in WriteRequest
    BY RequestsAssumption
  <2> QED
    BY <1>4, <2>1, WriteNowKeeps, KeepKeeps
<1>5. ASSUME NEW k \in queue, SendKept(k) PROVE WritesInv'
  BY <1>5, SendKeptKeeps
<1>6. CASE UNCHANGED writeVars
  BY <1>6 DEF writeVars, WritesInv, WritesTyped, FencesInv, LeasesInv, ReadInv, KeptInv, Kept,
     Current, Scope, WritesByRight, CompletedByHolder, AuthorityOnline, PublishedWasRead,
     StatusByWorkflow, LeaseIsOfResource
<1> QED
  BY <1>1, <1>2, <1>3, <1>4, <1>5, <1>6 DEF WritesNext

(* For any agents, resources and requests, any number of claims and        *)
(* revisions: a completion is by the holder of the lease in force, a       *)
(* publication by one who had read what it publishes, permissions and      *)
(* completions never come out of the queue, and a status moves by its      *)
(* workflow (projecttasks and projectknowledge WriteRequest,               *)
(* ClaimResult.ValidateFor, OnlineOnly).                                   *)
THEOREM WritesAreByRight == WritesSpec => []WritesByRight
<1>1. WritesInv => WritesByRight
  BY DEF WritesInv
<1> QED
  BY <1>1, WritesInvInit, WritesStep, PTL DEF WritesSpec

----------------------------------------------------------------------------
(* Coding sessions.                                                        *)

(* Induction over the natural numbers, as a fact about sets of them.       *)
LEMMA LeastNatural ==
    ASSUME NEW T \in SUBSET Nat, T # {}
    PROVE  \E x \in T : \A y \in T : x <= y
<1>1. PICK x \in T : \A y \in T : ~ (<<y, x>> \in OpToRel(<, Nat))
  BY NatLessThanWellFounded, WFMin
<1>2. \A y \in T : ~ (y < x)
  BY <1>1 DEF OpToRel
<1> QED
  BY <1>2

LEMMA Induction ==
    ASSUME NEW G \in SUBSET Nat, 0 \in G, \A n \in Nat : n \in G => n + 1 \in G
    PROVE  G = Nat
<1> SUFFICES ASSUME Nat \ G # {} PROVE FALSE
  OBVIOUS
<1>1. PICK x \in Nat \ G : \A y \in Nat \ G : x <= y
  BY LeastNatural
<1>2. x # 0 /\ x \in Nat
  OBVIOUS
<1>3. x - 1 \in Nat /\ ~ (x <= x - 1) /\ (x - 1) + 1 = x
  BY <1>2
<1>4. x - 1 \in G
  BY <1>1, <1>3
<1> QED
  BY <1>3, <1>4

Event == [session : SessionIds, sequence : Nat, kind : {"message"}, payloads : Payloads]

(* A session has the fields of a session, whatever is in them.             *)
SessionShape ==
    \E t, s, p, r, n : session = [task |-> t, state |-> s, preferences |-> p, route |-> r, prompt |-> n]

(* The host's logs hold events of their own sessions.                      *)
LogsInv ==
    /\ events \in [SessionIds -> Seq(Event)]
    /\ \A s \in SessionIds : \A i \in 1 .. Len(events[s]) : events[s][i].session = s

SessionsInv == SessionShape /\ LogsInv /\ seen \in Seq(Event) /\ SessionsFollowed

----------------------------------------------------------------------------
(* What work is started on, from the checks a prompt passes: the route is  *)
(* whole (RouteValid), and the catalog offers all of it (ValidateFor).     *)
LEMMA OfferedIsAdvertised ==
    ASSUME NEW p, NEW route, NEW mode, OverridesFor(route, p, mode), RouteValid(route)
    PROVE  /\ p.availability = "available" /\ route.provider = p.id
           /\ mode \in Range(p.modes)
           /\ \/ route.model \in Range(p.models)
              \/ \E o \in Range(p.options) : o.category = "model" /\ route.model \in Range(o.choices)
           /\ \A v \in Range(route.values) :
                 \E o \in Range(p.options) : o.id = v.id /\ v.value \in Range(o.choices)
<1>1. /\ p.availability = "available" /\ route.provider \in {"", p.id} /\ mode \in Range(p.modes)
      /\ route.model # "" => ModelOffered(p, route.model)
      /\ \A i \in DOMAIN route.values : ValueOffered(p, route.values[i])
  BY DEF OverridesFor
<1>2. route.provider # "" /\ route.model # ""
  BY DEF RouteValid, Present
<1>3. \/ route.model \in Range(p.models)
      \/ \E o \in Range(p.options) : o.category = "model" /\ route.model \in Range(o.choices)
  BY <1>1, <1>2 DEF ModelOffered, ChoicesOf
<1>4. ASSUME NEW v \in Range(route.values)
      PROVE  \E o \in Range(p.options) : o.id = v.id /\ v.value \in Range(o.choices)
  <2>1. PICK i \in DOMAIN route.values : v = route.values[i]
    BY DEF Range
  <2>2. ValueOffered(p, v)
    BY <2>1, <1>1
  <2> QED
    BY <2>2 DEF ValueOffered, ChoicesOf
<1> QED
  BY <1>1, <1>2, <1>3, <1>4

LEMMA NothingStarted ==
    ASSUME started' = Nothing PROVE StartedAsAdvertised'
BY DEF StartedAsAdvertised

LEMMA PromptStarts ==
    ASSUME SessionsInv, Prompt
    PROVE  SessionShape' /\ StartedAsAdvertised'
<1>1. PICK route, mode, n :
        /\ route = Routed(provider, session.preferences.overrides)
        /\ mode = session.preferences.mode /\ n = prompts + 1
  OBVIOUS
<1>2. /\ OverridesFor(route, provider, mode)
      /\ started' = [mode |-> mode, route |-> route]
      /\ Advance([session EXCEPT !.state = "active", !.route = route, !.prompt = n])
  BY <1>1 DEF Prompt
<1>3. PICK t, s, p, r, m : session = [task |-> t, state |-> s, preferences |-> p, route |-> r, prompt |-> m]
  BY DEF SessionsInv, SessionShape
<1>4. PICK x : x = [task |-> t, state |-> "active", preferences |-> p, route |-> route, prompt |-> n]
  OBVIOUS
<1>5. [session EXCEPT !.state = "active", !.route = route, !.prompt = n] = x
  <2>1. [session EXCEPT !.state = "active"]
          = [task |-> t, state |-> "active", preferences |-> p, route |-> r, prompt |-> m]
    BY <1>3
  <2>2. [[task |-> t, state |-> "active", preferences |-> p, route |-> r, prompt |-> m] EXCEPT !.route = route]
          = [task |-> t, state |-> "active", preferences |-> p, route |-> route, prompt |-> m]
    OBVIOUS
  <2>3. [[task |-> t, state |-> "active", preferences |-> p, route |-> route, prompt |-> m] EXCEPT !.prompt = n] = x
    BY <1>4
  <2> QED
    BY <2>1, <2>2, <2>3
<1>6. SessionValid(x) /\ session' = x /\ UNCHANGED <<provider, events, seen>>
  BY <1>2, <1>5 DEF Advance
<1>7. x.state = "active" /\ x.route = route
  BY <1>4
<1>8. RouteValid(route)
  BY <1>6, <1>7 DEF SessionValid
<1>9. SessionShape'
  BY <1>4, <1>6 DEF SessionShape
<1>10. started'.mode = mode /\ started'.route = route /\ provider' = provider
  BY <1>2, <1>6
<1>11. StartedAsAdvertised'
  BY <1>2, <1>8, <1>10, OfferedIsAdvertised DEF StartedAsAdvertised
<1> QED
  BY <1>9, <1>11

(* A step of the session that is no prompt leaves the logs alone.          *)
LEMMA SessionFrame ==
    ASSUME SessionsInv, SessionShape', started' = Nothing, UNCHANGED <<events, seen>>
    PROVE  SessionsInv'
BY NothingStarted DEF SessionsInv, LogsInv, SessionsFollowed, HistoryInOrder

LEMMA ShapeKept ==
    ASSUME SessionShape, NEW x, NEW n, NEW f \in {"state", "preferences", "prompt"},
           session' = [session EXCEPT ![f] = x]
    PROVE  SessionShape'
<1>1. PICK t, s, p, r, m : session = [task |-> t, state |-> s, preferences |-> p, route |-> r, prompt |-> m]
  BY DEF SessionShape
<1>2. CASE f = "state"
  <2>1. session' = [task |-> t, state |-> x, preferences |-> p, route |-> r, prompt |-> m]
    BY <1>1, <1>2
  <2> QED
    BY <2>1 DEF SessionShape
<1>3. CASE f = "preferences"
  <2>1. session' = [task |-> t, state |-> s, preferences |-> x, route |-> r, prompt |-> m]
    BY <1>1, <1>3
  <2> QED
    BY <2>1 DEF SessionShape
<1>4. CASE f = "prompt"
  <2>1. session' = [task |-> t, state |-> s, preferences |-> p, route |-> r, prompt |-> x]
    BY <1>1, <1>4
  <2> QED
    BY <2>1 DEF SessionShape
<1> QED
  BY <1>2, <1>3, <1>4

LEMMA ShapeKeptTwice ==
    ASSUME SessionShape, NEW x, NEW y, session' = [session EXCEPT !.state = x, !.prompt = y]
    PROVE  SessionShape'
<1>1. PICK t, s, p, r, m : session = [task |-> t, state |-> s, preferences |-> p, route |-> r, prompt |-> m]
  BY DEF SessionShape
<1>2. [session EXCEPT !.state = x] = [task |-> t, state |-> x, preferences |-> p, route |-> r, prompt |-> m]
  BY <1>1
<1>3. [[task |-> t, state |-> x, preferences |-> p, route |-> r, prompt |-> m] EXCEPT !.prompt = y]
        = [task |-> t, state |-> x, preferences |-> p, route |-> r, prompt |-> y]
  OBVIOUS
<1>4. session' = [task |-> t, state |-> x, preferences |-> p, route |-> r, prompt |-> y]
  BY <1>2, <1>3
<1> QED
  BY <1>4 DEF SessionShape

LEMMA SessionsInvInit == SessionsInit => SessionsInv
<1> SUFFICES ASSUME SessionsInit PROVE SessionsInv
  OBVIOUS
<1>1. SessionShape
  BY DEF SessionsInit, SessionShape
<1>2. <<>> \in Seq(Event) /\ Len(<<>>) = 0
  OBVIOUS
<1>3. \A s \in SessionIds : events[s] = <<>>
  BY DEF SessionsInit
<1>4. LogsInv
  BY <1>2, <1>3 DEF SessionsInit, LogsInv
<1>5. seen \in Seq(Event) /\ HistoryInOrder
  BY <1>2 DEF SessionsInit, HistoryInOrder
<1>6. StartedAsAdvertised
  BY DEF SessionsInit, StartedAsAdvertised
<1> QED
  BY <1>1, <1>4, <1>5, <1>6 DEF SessionsInv, SessionsFollowed

----------------------------------------------------------------------------
(* The steps of the session.                                               *)
LEMMA TurnKeeps ==
    ASSUME SessionsInv, Prompt \/ Lost \/ Resume \/ Finish
    PROVE  SessionsInv'
<1>0. SessionShape
  BY DEF SessionsInv
<1>1. CASE Prompt
  <2>1. UNCHANGED <<events, seen>>
    BY <1>1 DEF Prompt, Advance
  <2> QED
    BY <1>1, <2>1, PromptStarts DEF SessionsInv, LogsInv, SessionsFollowed, HistoryInOrder
<1>2. CASE Lost
  <2>1. PICK s : Advance([session EXCEPT !.state = s, !.prompt = 0])
    BY <1>2 DEF Lost
  <2>2. SessionShape'
    BY <1>0, <2>1, ShapeKeptTwice DEF Advance
  <2> QED
    BY <1>2, <2>1, <2>2, SessionFrame DEF Lost, Advance
<1>3. CASE Resume
  <2>1. PICK s : Advance([session EXCEPT !.state = s])
    BY <1>3 DEF Resume
  <2>2. SessionShape'
    BY <1>0, <2>1, ShapeKept DEF Advance
  <2> QED
    BY <1>3, <2>1, <2>2, SessionFrame DEF Resume, Advance
<1>4. CASE Finish
  <2>1. PICK s : Advance([session EXCEPT !.state = s, !.prompt = 0])
    BY <1>4 DEF Finish
  <2>2. SessionShape'
    BY <1>0, <2>1, ShapeKeptTwice DEF Advance
  <2> QED
    BY <1>4, <2>1, <2>2, SessionFrame DEF Finish, Advance
<1> QED
  BY <1>1, <1>2, <1>3, <1>4

LEMMA SettingKeeps ==
    ASSUME SessionsInv, NEW x, Stop(x) \/ NewTask(x) \/ SetPreferences(x) \/ Readvertise(x)
    PROVE  SessionsInv'
<1>0. SessionShape
  BY DEF SessionsInv
<1>1. CASE Stop(x)
  <2>1. SessionShape'
    BY <1>0, <1>1, ShapeKept DEF Stop, Advance
  <2> QED
    BY <1>1, <2>1, SessionFrame DEF Stop, Advance
<1>2. CASE NewTask(x)
  <2>1. SessionShape'
    BY <1>2 DEF NewTask, Advance, SessionShape
  <2> QED
    BY <1>2, <2>1, SessionFrame DEF NewTask, Advance
<1>3. CASE SetPreferences(x)
  <2>1. SessionShape'
    BY <1>0, <1>3, ShapeKept DEF SetPreferences, Advance
  <2> QED
    BY <1>3, <2>1, SessionFrame DEF SetPreferences, Advance
<1>4. CASE Readvertise(x)
  <2>1. SessionShape'
    BY <1>0, <1>4 DEF Readvertise, SessionShape
  <2> QED
    BY <1>4, <2>1, SessionFrame DEF Readvertise
<1> QED
  BY <1>1, <1>2, <1>3, <1>4

(* An event is appended to its session's log; what was there stays.        *)
LEMMA RecordKeeps ==
    ASSUME SessionsInv, NEW s \in SessionIds, NEW x \in Payloads, Record(s, "message", x)
    PROVE  SessionsInv'
<1>1. events \in [SessionIds -> Seq(Event)] /\ seen \in Seq(Event) /\ SessionShape
  BY DEF SessionsInv, LogsInv
<1>2. PICK old \in Seq(Event) : old = events[s]
  BY <1>1
<1>3. PICK e \in Event : e = [session |-> s, sequence |-> Len(old) + 1, kind |-> "message", payloads |-> x]
  <2>1. PICK n \in Nat : n = Len(old) + 1
    BY <1>2
  <2> QED
    BY <2>1 DEF Event
<1>4. PICK new \in Seq(Event) : new = Append(old, e)
  <2>1. Append(old, e) \in Seq(Event)
    OBVIOUS
  <2> QED
    BY <2>1
<1>5. events' = [events EXCEPT ![s] = new] /\ started' = Nothing /\ UNCHANGED <<provider, session, prompts, seen>>
  BY <1>2, <1>3, <1>4 DEF Record
<1>6. /\ Len(new) = Len(old) + 1 /\ new[Len(old) + 1] = e
      /\ \A i \in 1 .. Len(old) : new[i] = old[i]
  BY <1>2, <1>3, <1>4
<1>7. events' \in [SessionIds -> Seq(Event)] /\ \A t \in SessionIds : events'[t] = IF t = s THEN new ELSE events[t]
  BY <1>1, <1>4, <1>5
<1>8. e.session = s
  BY <1>3
<1>9. ASSUME NEW t \in SessionIds, NEW i \in 1 .. Len(events'[t]) PROVE events'[t][i].session = t
  <2>1. CASE t # s
    BY <2>1, <1>7 DEF SessionsInv, LogsInv
  <2>2. CASE t = s
    <3>0. Len(old) \in Nat /\ i \in 1 .. Len(old) + 1
      BY <1>2, <1>6, <1>7, <2>2
    <3>1. CASE i = Len(old) + 1
      BY <3>1, <2>2, <1>6, <1>7, <1>8
    <3>2. CASE i \in 1 .. Len(old)
      BY <3>2, <2>2, <1>2, <1>6, <1>7 DEF SessionsInv, LogsInv
    <3> QED
      BY <3>0, <3>1, <3>2
  <2> QED
    BY <2>1, <2>2
<1>10. LogsInv'
  BY <1>7, <1>9 DEF LogsInv
<1>11. \A z \in Range(events[Mine]) : z \in Range(events'[Mine])
  <2>1. CASE Mine # s
    BY <2>1, <1>7, MineAssumption
  <2>2. CASE Mine = s
    <3>1. DOMAIN old = 1 .. Len(old) /\ DOMAIN new = 1 .. Len(new) /\ Len(old) \in Nat
      BY <1>2, <1>4
    <3>2. \A i \in DOMAIN old : i \in DOMAIN new /\ new[i] = old[i]
      BY <3>1, <1>6
    <3>3. events'[Mine] = new /\ events[Mine] = old
      BY <2>2, <1>2, <1>7
    <3> QED
      BY <3>2, <3>3 DEF Range
  <2> QED
    BY <2>1, <2>2
<1>12. HistoryInOrder'
  BY <1>5, <1>11 DEF SessionsInv, SessionsFollowed, HistoryInOrder
<1>13. SessionShape'
  BY <1>1, <1>5 DEF SessionShape
<1> QED
  BY <1>1, <1>5, <1>10, <1>12, <1>13, NothingStarted DEF SessionsInv, SessionsFollowed

(* What EventsResult compares pair by pair holds of the page: it is of one *)
(* session, and any two of its events are in order.                        *)
LEMMA PageInOrder ==
    ASSUME NEW list \in Seq(Event), list # <<>>, EventsOrdered(list)
    PROVE  /\ \A i \in 1 .. Len(list) : list[i].session = list[1].session
           /\ \A i, j \in 1 .. Len(list) : i < j => list[i].sequence < list[j].sequence
<1> DEFINE G == {n \in Nat : n + 1 <= Len(list) =>
                    /\ list[n + 1].session = list[1].session
                    /\ \A i \in 1 .. n : list[i].sequence < list[n + 1].sequence}
<1>0. Len(list) \in Nat /\ DOMAIN list = 1 .. Len(list) /\ \A i \in 1 .. Len(list) : list[i].sequence \in Nat
  <2>1. Len(list) \in Nat /\ DOMAIN list = 1 .. Len(list)
    OBVIOUS
  <2>2. \A i \in 1 .. Len(list) : list[i] \in Event
    OBVIOUS
  <2>3. \A z \in Event : z.sequence \in Nat
    BY DEF Event
  <2> QED
    BY <2>1, <2>2, <2>3
<1>1. 0 \in G
  OBVIOUS
<1>2. ASSUME NEW n \in Nat, n \in G PROVE n + 1 \in G
  <2> SUFFICES ASSUME (n + 1) + 1 <= Len(list)
               PROVE  /\ list[(n + 1) + 1].session = list[1].session
                      /\ \A i \in 1 .. (n + 1) : list[i].sequence < list[(n + 1) + 1].sequence
    OBVIOUS
  <2>1. /\ n + 1 <= Len(list) /\ n + 1 \in 1 .. Len(list) /\ (n + 1) + 1 \in 1 .. Len(list)
        /\ ((n + 1) + 1) - 1 = n + 1 /\ (n + 1) + 1 > 1
    BY <1>0
  <2>2. /\ list[n + 1].session = list[1].session
        /\ \A i \in 1 .. n : list[i].sequence < list[n + 1].sequence
    BY <1>2, <2>1
  <2>3. /\ list[(n + 1) + 1].sequence > list[n + 1].sequence
        /\ list[(n + 1) + 1].session = list[n + 1].session
    BY <1>0, <2>1 DEF EventsOrdered
  <2>4. ASSUME NEW i \in 1 .. (n + 1) PROVE list[i].sequence < list[(n + 1) + 1].sequence
    <3>1. i \in 1 .. Len(list)
      BY <1>0, <2>1
    <3>2. CASE i = n + 1
      BY <3>2, <2>3, <1>0, <2>1
    <3>3. CASE i \in 1 .. n
      BY <3>3, <3>1, <2>2, <2>3, <1>0, <2>1
    <3> QED
      BY <3>2, <3>3
  <2> QED
    BY <2>2, <2>3, <2>4
<1>3. G = Nat
  <2>1. G \in SUBSET Nat
    OBVIOUS
  <2> HIDE DEF G
  <2> QED
    BY <1>1, <1>2, <2>1, Induction
<1>4. ASSUME NEW j \in 1 .. Len(list)
      PROVE  /\ list[j].session = list[1].session
             /\ \A i \in 1 .. Len(list) : i < j => list[i].sequence < list[j].sequence
  <2>1. j - 1 \in Nat /\ (j - 1) + 1 = j
    BY <1>0
  <2>2. j - 1 \in G
    BY <2>1, <1>3
  <2>3. /\ list[(j - 1) + 1].session = list[1].session
        /\ \A i \in 1 .. (j - 1) : list[i].sequence < list[(j - 1) + 1].sequence
    BY <2>1, <2>2
  <2>4. \A i \in 1 .. Len(list) : i < j => i \in 1 .. (j - 1)
    BY <1>0
  <2> QED
    BY <2>1, <2>3, <2>4
<1> QED
  BY <1>4

(* Two lists that are each in order, the second after the first.           *)
LEMMA JoinedInOrder ==
    ASSUME NEW a \in Seq(Event), NEW b \in Seq(Event), NEW c \in Nat,
           \A i, j \in 1 .. Len(a) : i < j => a[i].sequence < a[j].sequence,
           \A i, j \in 1 .. Len(b) : i < j => b[i].sequence < b[j].sequence,
           \A i \in 1 .. Len(a) : a[i].sequence <= c,
           \A i \in 1 .. Len(b) : b[i].sequence > c
    PROVE  \A i, j \in 1 .. Len(a \o b) : i < j => (a \o b)[i].sequence < (a \o b)[j].sequence
<1>1. /\ Len(a) \in Nat /\ Len(b) \in Nat /\ Len(a \o b) = Len(a) + Len(b)
      /\ \A i \in 1 .. Len(a) : (a \o b)[i] = a[i]
      /\ \A i \in (Len(a) + 1) .. (Len(a) + Len(b)) : (a \o b)[i] = b[i - Len(a)]
  OBVIOUS
<1>2. \A z \in Event : z.sequence \in Nat
  BY DEF Event
<1>3. /\ \A i \in 1 .. Len(a) : a[i].sequence \in Nat
      /\ \A i \in 1 .. Len(b) : b[i].sequence \in Nat
  <2>1. (\A i \in 1 .. Len(a) : a[i] \in Event) /\ (\A i \in 1 .. Len(b) : b[i] \in Event)
    OBVIOUS
  <2> QED
    BY <2>1, <1>2
<1> SUFFICES ASSUME NEW i \in 1 .. (Len(a) + Len(b)), NEW j \in 1 .. (Len(a) + Len(b)), i < j
             PROVE  (a \o b)[i].sequence < (a \o b)[j].sequence
  BY <1>1
<1>4. CASE j <= Len(a)
  <2>1. i \in 1 .. Len(a) /\ j \in 1 .. Len(a)
    BY <1>1, <1>4
  <2> QED
    BY <2>1, <1>1
<1>5. CASE i <= Len(a) /\ j > Len(a)
  <2>1. i \in 1 .. Len(a) /\ j \in (Len(a) + 1) .. (Len(a) + Len(b)) /\ j - Len(a) \in 1 .. Len(b)
    BY <1>1, <1>5
  <2>2. a[i].sequence <= c /\ b[j - Len(a)].sequence > c
    BY <2>1
  <2>3. a[i].sequence < b[j - Len(a)].sequence
    BY <2>1, <2>2, <1>3
  <2> QED
    BY <2>1, <2>3, <1>1
<1>6. CASE i > Len(a)
  <2>1. /\ i \in (Len(a) + 1) .. (Len(a) + Len(b)) /\ j \in (Len(a) + 1) .. (Len(a) + Len(b))
        /\ i - Len(a) \in 1 .. Len(b) /\ j - Len(a) \in 1 .. Len(b) /\ i - Len(a) < j - Len(a)
    BY <1>1, <1>6
  <2> QED
    BY <2>1, <1>1
<1> QED
  BY <1>1, <1>4, <1>5, <1>6

(* The events of a page the client takes: of its session, and recorded.    *)
LEMMA PageIsRecorded ==
    ASSUME LogsInv, NEW e \in Recorded, e.session = Mine
    PROVE  e \in Range(events[Mine])
<1>1. PICK s \in SessionIds : e \in Range(events[s])
  BY DEF Recorded
<1>2. events[s] \in Seq(Event)
  BY DEF LogsInv
<1>3. DOMAIN events[s] = 1 .. Len(events[s])
  BY <1>2
<1>4. PICK i \in 1 .. Len(events[s]) : e = events[s][i]
  BY <1>1, <1>3 DEF Range
<1>5. e.session = s
  BY <1>4 DEF LogsInv
<1> QED
  BY <1>1, <1>5

LEMMA RecordedAreEvents == LogsInv => Recorded \in SUBSET Event
<1> SUFFICES ASSUME LogsInv, NEW e \in Recorded PROVE e \in Event
  OBVIOUS
<1>1. PICK s \in SessionIds : e \in Range(events[s])
  BY DEF Recorded
<1>2. events[s] \in Seq(Event)
  BY DEF LogsInv
<1>3. PICK i \in DOMAIN events[s] : e = events[s][i]
  BY <1>1 DEF Range
<1> QED
  BY <1>2, <1>3

LEMMA FollowKeeps ==
    ASSUME SessionsInv, NEW n \in 1 .. MaxPage, NEW list \in [1 .. n -> Recorded], Follow(list)
    PROVE  SessionsInv'
<1>0. n \in Nat
  BY PageAssumption
<1>1. LogsInv /\ seen \in Seq(Event) /\ HistoryInOrder /\ SessionShape
  BY DEF SessionsInv, SessionsFollowed
<1>2. list \in Seq(Event) /\ Len(list) = n /\ DOMAIN list = 1 .. n /\ \A i \in 1 .. n : list[i] \in Recorded
  <2>1. list \in [1 .. n -> Event]
    BY <1>1, RecordedAreEvents
  <2> QED
    BY <2>1, <1>0
<1>3. /\ list # <<>> /\ list[1].session = Mine /\ EventsOrdered(list)
      /\ started' = Nothing /\ UNCHANGED <<provider, session, prompts, events>>
  BY DEF Follow, EventsResultValid
<1>4. PICK old \in 0 .. n :
        /\ \A i \in DOMAIN list : list[i].sequence > Cursor <=> i > old
        /\ seen' = seen \o SubSeq(list, old + 1, n)
  BY <1>2 DEF Follow
<1>5. PICK new \in Seq(Event) : new = SubSeq(list, old + 1, n)
  <2>1. SubSeq(list, old + 1, n) \in Seq(Event)
    BY <1>0, <1>2
  <2> QED
    BY <2>1
<1>6. Len(new) = n - old /\ \A i \in 1 .. (n - old) : i + old \in 1 .. n /\ new[i] = list[i + old]
  BY <1>0, <1>2, <1>5
<1>7. /\ \A i \in 1 .. n : list[i].session = Mine
      /\ \A i, j \in 1 .. n : i < j => list[i].sequence < list[j].sequence
  BY <1>2, <1>3, PageInOrder
<1>8. \A i, j \in 1 .. Len(new) : i < j => new[i].sequence < new[j].sequence
  <2> SUFFICES ASSUME NEW i \in 1 .. (n - old), NEW j \in 1 .. (n - old), i < j
               PROVE  new[i].sequence < new[j].sequence
    BY <1>6
  <2>1. i + old \in 1 .. n /\ j + old \in 1 .. n /\ i + old < j + old
    BY <1>0
  <2>2. list[i + old].sequence < list[j + old].sequence
    BY <2>1, <1>7
  <2> QED
    BY <2>2, <1>6
<1>9. \A i \in 1 .. Len(new) : new[i].sequence > Cursor /\ new[i] \in Range(events[Mine])
  <2> SUFFICES ASSUME NEW i \in 1 .. (n - old)
               PROVE  new[i].sequence > Cursor /\ new[i] \in Range(events[Mine])
    BY <1>6
  <2>1. i + old \in 1 .. n /\ i + old > old /\ new[i] = list[i + old]
    BY <1>0, <1>6
  <2>2. list[i + old].sequence > Cursor
    BY <2>1, <1>2, <1>4
  <2>3. list[i + old] \in Range(events[Mine])
    BY <2>1, <1>1, <1>2, <1>7, PageIsRecorded
  <2> QED
    BY <2>1, <2>2, <2>3
<1>10. PICK c \in Nat : c = Cursor /\ \A i \in 1 .. Len(seen) : seen[i].sequence <= c
  <2>1. CASE seen = <<>>
    BY <2>1 DEF Cursor
  <2>2. CASE seen # <<>>
    <3>1. Len(seen) \in Nat /\ Len(seen) > 0 /\ Len(seen) \in 1 .. Len(seen) /\ DOMAIN seen = 1 .. Len(seen)
      BY <1>1, <2>2
    <3>2. \A i \in 1 .. Len(seen) : seen[i] \in Event
      BY <1>1
    <3>3. \A z \in Event : z.sequence \in Nat
      BY DEF Event
    <3>4. Cursor = seen[Len(seen)].sequence /\ Cursor \in Nat
      BY <2>2, <3>1, <3>2, <3>3 DEF Cursor, Last
    <3>5. ASSUME NEW i \in 1 .. Len(seen) PROVE seen[i].sequence <= Cursor
      <4>1. CASE i = Len(seen)
        BY <4>1, <3>4
      <4>2. CASE i < Len(seen)
        <5>1. seen[i].sequence < seen[Len(seen)].sequence
          BY <4>2, <3>1, <1>1 DEF HistoryInOrder
        <5> QED
          BY <5>1, <3>2, <3>3, <3>4
      <4>3. i = Len(seen) \/ i < Len(seen)
        <5>1. \A k \in Nat : i \in 1 .. k => i = k \/ i < k
          OBVIOUS
        <5> QED
          BY <3>1, <5>1
      <4> QED
        BY <4>1, <4>2, <4>3
    <3> QED
      BY <3>4, <3>5
  <2> QED
    BY <2>1, <2>2
<1>11. DOMAIN seen = 1 .. Len(seen) /\ Len(seen) \in Nat /\ Len(new) \in Nat
  BY <1>1, <1>5
<1>12. seen' = seen \o new /\ seen' \in Seq(Event) /\ DOMAIN seen' = 1 .. Len(seen')
  <2>1. seen' = seen \o new
    BY <1>4, <1>5
  <2>2. seen \o new \in Seq(Event)
    BY <1>1, <1>5
  <2> QED
    BY <2>1, <2>2
<1>13. \A i, j \in 1 .. Len(seen') : i < j => seen'[i].sequence < seen'[j].sequence
  <2>1. \A i, j \in 1 .. Len(seen) : i < j => seen[i].sequence < seen[j].sequence
    BY <1>1, <1>11 DEF HistoryInOrder
  <2>2. \A i \in 1 .. Len(new) : new[i].sequence > c
    BY <1>9, <1>10
  <2> QED
    BY <1>1, <1>5, <1>8, <1>10, <1>12, <2>1, <2>2, JoinedInOrder
<1>14. ASSUME NEW i \in 1 .. Len(seen') PROVE seen'[i] \in Range(events[Mine])
  <2>1. /\ Len(seen') = Len(seen) + Len(new)
        /\ \A k \in 1 .. Len(seen) : seen'[k] = seen[k]
        /\ \A k \in (Len(seen) + 1) .. (Len(seen) + Len(new)) : seen'[k] = new[k - Len(seen)]
    BY <1>1, <1>5, <1>12
  <2>2. CASE i <= Len(seen)
    BY <2>1, <2>2, <1>1, <1>11 DEF HistoryInOrder
  <2>3. CASE i > Len(seen)
    <3>1. i - Len(seen) \in 1 .. Len(new) /\ i \in (Len(seen) + 1) .. (Len(seen) + Len(new))
      BY <2>1, <2>3, <1>11
    <3> QED
      BY <3>1, <2>1, <1>9
  <2> QED
    BY <2>2, <2>3, <1>11, <2>1
<1>15. HistoryInOrder'
  BY <1>3, <1>12, <1>13, <1>14 DEF HistoryInOrder
<1>16. LogsInv' /\ SessionShape'
  BY <1>1, <1>3 DEF LogsInv, SessionShape
<1> QED
  BY <1>3, <1>12, <1>15, <1>16, NothingStarted DEF SessionsInv, SessionsFollowed

LEMMA SessionsStep == SessionsInv /\ [SessionsNext]_sessionVars => SessionsInv'
<1> SUFFICES ASSUME SessionsInv, [SessionsNext]_sessionVars PROVE SessionsInv'
  OBVIOUS
<1>1. CASE Prompt \/ Lost \/ Resume \/ Finish
  BY <1>1, TurnKeeps
<1>2. ASSUME NEW x, Stop(x) \/ NewTask(x) \/ SetPreferences(x) \/ Readvertise(x) PROVE SessionsInv'
  BY <1>2, SettingKeeps
<1>3. ASSUME NEW s \in SessionIds, NEW x \in Payloads, Record(s, "message", x) PROVE SessionsInv'
  BY <1>3, RecordKeeps
<1>4. ASSUME NEW n \in 1 .. MaxPage, NEW list \in [1 .. n -> Recorded], Follow(list) PROVE SessionsInv'
  BY <1>4, FollowKeeps
<1>5. CASE UNCHANGED sessionVars
  BY <1>5 DEF sessionVars, SessionsInv, SessionShape, LogsInv, SessionsFollowed, HistoryInOrder,
     StartedAsAdvertised
<1> QED
  BY <1>1, <1>2, <1>3, <1>4, <1>5 DEF SessionsNext

(* For any catalogs, preferences, sessions and events: whatever changed    *)
(* since a route was bound, work begins only on what the provider then     *)
(* offers and enforces; and however pages overlap, come late or mix logs,  *)
(* a client applies its session's events once, in order                    *)
(* (Overrides.ValidateFor, EventsResult.Validate).                         *)
THEOREM SessionsAreFollowed == SessionsSpec => []SessionsFollowed
<1>1. SessionsInv => SessionsFollowed
  BY DEF SessionsInv
<1> QED
  BY <1>1, SessionsInvInit, SessionsStep, PTL DEF SessionsSpec

----------------------------------------------------------------------------
(* Messaging.                                                              *)

Keys == {"k1", "k2"}
DeliveryStates == {"pending", "dispatching", "delivered", "failed", "unknown"}
Faults == {"none", "unavailable"}
Delivery == [state : DeliveryStates, adapter : Adapters \cup {""}, attempt : Nat, fault : Faults]
Message ==
    [sender : {"a"}, key : Keys, body : DOMAIN Bodies, metadata : MetadataKeys, day : Nat,
     sequence : Nat, size : {Bodies[b] : b \in DOMAIN Bodies}, delivery : Delivery]
UpdateRequest ==
    [message : Nat, adapter : Adapters, from : DeliveryStates, to : DeliveryStates, attempt : Nat, fault : Faults]

MessagingTyped ==
    /\ day \in Nat /\ log \in Seq(Message)
    /\ records \in SUBSET [owner : {"a"}, key : Keys, created : Nat, expires : Int]
    /\ updates \in SUBSET UpdateRequest
    /\ reader \in [cursor : Nat, got : Seq(Nat), pages : Nat]

(* An update under way is valid, and of a message that is stored.          *)
UpdatesInv == \A u \in updates : DeliveryUpdateValid(u) /\ u.message \in 1 .. Len(log)

(* Every message was recorded under its key for the whole retention.       *)
RecordedFor(rs, m) == \E r \in rs : r.key = m.key /\ r.expires = m.day + RetentionDays
RecordsInv == \A i \in 1 .. Len(log) : log[i].day <= day /\ RecordedFor(records, log[i])

ReaderInv == ListedOnce /\ reader.cursor = Len(reader.got)

MessagingInv ==
    /\ MessagingTyped /\ UpdatesInv /\ RecordsInv /\ ReaderInv
    /\ StoredIsValid /\ SentOnce /\ TotalIsTrue

----------------------------------------------------------------------------
(* The two sums.  Each is a recursive function, which exists; induction    *)
(* over the counts then relates them.                                      *)
Running(g, c, n) == g = [q \in 0 .. n |-> IF q = 0 THEN [ok |-> TRUE, total |-> 0] ELSE Add(g[q - 1], c[q])]
Summing(g, c, n) == g = [q \in 0 .. n |-> IF q = 0 THEN 0 ELSE g[q - 1] + c[q]]

LEMMA RunningExists ==
    ASSUME NEW c, NEW m \in Nat
    PROVE  \E g : Running(g, c, m)
<1> DEFINE G == {n \in Nat : \E g : Running(g, c, n)}
<1>1. 0 \in G
  <2>1. Running([q \in 0 .. 0 |-> [ok |-> TRUE, total |-> 0]], c, 0)
    BY DEF Running
  <2> QED
    BY <2>1
<1>2. ASSUME NEW n \in Nat, n \in G PROVE n + 1 \in G
  <2>1. PICK g : Running(g, c, n)
    BY <1>2
  <2> DEFINE h == [q \in 0 .. n + 1 |-> IF q = n + 1 THEN Add(g[n], c[n + 1]) ELSE g[q]]
  <2>2. \A q \in 0 .. n : h[q] = g[q]
    OBVIOUS
  <2>3. ASSUME NEW q \in 0 .. n + 1
        PROVE  h[q] = IF q = 0 THEN [ok |-> TRUE, total |-> 0] ELSE Add(h[q - 1], c[q])
    <3>1. CASE q = n + 1
      <4>1. h[q] = Add(g[n], c[n + 1]) /\ q - 1 = n /\ q # 0 /\ h[n] = g[n]
        BY <3>1, <2>2
      <4> QED
        BY <4>1, <3>1
    <3>2. CASE q \in 0 .. n
      <4>1. q = 0 \/ q - 1 \in 0 .. n
        BY <3>2
      <4>2. g[q] = IF q = 0 THEN [ok |-> TRUE, total |-> 0] ELSE Add(g[q - 1], c[q])
        BY <2>1, <3>2 DEF Running
      <4> QED
        BY <2>2, <3>2, <4>1, <4>2
    <3> QED
      BY <3>1, <3>2
  <2>4. Running(h, c, n + 1)
    BY <2>3 DEF Running
  <2> HIDE DEF h
  <2>5. \E f : Running(f, c, n + 1)
    BY <2>4
  <2> QED
    BY <2>5
<1>3. G \in SUBSET Nat
  OBVIOUS
<1> HIDE DEF G
<1>4. m \in G
  BY <1>1, <1>2, <1>3, Induction
<1> QED
  BY <1>4 DEF G

LEMMA SummingExists ==
    ASSUME NEW c, NEW m \in Nat
    PROVE  \E g : Summing(g, c, m)
<1> DEFINE G == {n \in Nat : \E g : Summing(g, c, n)}
<1>1. 0 \in G
  <2>1. Summing([q \in 0 .. 0 |-> 0], c, 0)
    BY DEF Summing
  <2> QED
    BY <2>1
<1>2. ASSUME NEW n \in Nat, n \in G PROVE n + 1 \in G
  <2>1. PICK g : Summing(g, c, n)
    BY <1>2
  <2> DEFINE h == [q \in 0 .. n + 1 |-> IF q = n + 1 THEN g[n] + c[n + 1] ELSE g[q]]
  <2>2. \A q \in 0 .. n : h[q] = g[q]
    OBVIOUS
  <2>3. ASSUME NEW q \in 0 .. n + 1
        PROVE  h[q] = IF q = 0 THEN 0 ELSE h[q - 1] + c[q]
    <3>1. CASE q = n + 1
      BY <2>2, <3>1
    <3>2. CASE q \in 0 .. n
      <4>1. q = 0 \/ q - 1 \in 0 .. n
        BY <3>2
      <4>2. g[q] = IF q = 0 THEN 0 ELSE g[q - 1] + c[q]
        BY <2>1, <3>2 DEF Summing
      <4> QED
        BY <2>2, <3>2, <4>1, <4>2
    <3> QED
      BY <3>1, <3>2
  <2>4. Summing(h, c, n + 1)
    BY <2>3 DEF Summing
  <2> HIDE DEF h
  <2>5. \E f : Summing(f, c, n + 1)
    BY <2>4
  <2> QED
    BY <2>5
<1>3. G \in SUBSET Nat
  OBVIOUS
<1> HIDE DEF G
<1>4. m \in G
  BY <1>1, <1>2, <1>3, Induction
<1> QED
  BY <1>4 DEF G

LEMMA TotalRuns ==
    ASSUME NEW c, Len(c) \in Nat
    PROVE  \E g : Running(g, c, Len(c)) /\ Total(c) = g[Len(c)]
<1> DEFINE h == CHOOSE h : h = [n \in 0 .. Len(c) |->
                                  IF n = 0 THEN [ok |-> TRUE, total |-> 0] ELSE Add(h[n - 1], c[n])]
<1>1. Running(h, c, Len(c))
  BY RunningExists DEF Running
<1>2. Total(c) = h[Len(c)]
  BY DEF Total
<1> HIDE DEF h
<1> QED
  BY <1>1, <1>2

LEMMA SumSums ==
    ASSUME NEW c, Len(c) \in Nat
    PROVE  \E g : Summing(g, c, Len(c)) /\ SumOf(c) = g[Len(c)]
<1> DEFINE h == CHOOSE h : h = [n \in 0 .. Len(c) |-> IF n = 0 THEN 0 ELSE h[n - 1] + c[n]]
<1>1. Summing(h, c, Len(c))
  BY SummingExists DEF Summing
<1>2. SumOf(c) = h[Len(c)]
  BY DEF SumOf
<1> HIDE DEF h
<1> QED
  BY <1>1, <1>2

(* A sum that was never refused is the sum: nothing wrapped.               *)
LEMMA TotalIsSumOf ==
    ASSUME NEW c, Len(c) \in Nat, NEW x, Total(c) = [ok |-> TRUE, total |-> x]
    PROVE  x = SumOf(c)
<1>1. PICK g : Running(g, c, Len(c)) /\ Total(c) = g[Len(c)]
  BY TotalRuns
<1>2. PICK s : Summing(s, c, Len(c)) /\ SumOf(c) = s[Len(c)]
  BY SumSums
<1> DEFINE G == {n \in Nat : n <= Len(c) =>
                    g[n] = [ok |-> TRUE, total |-> s[n]] \/ g[n] = [ok |-> FALSE, total |-> 0]}
<1>3. 0 \in G
  <2>1. g[0] = [ok |-> TRUE, total |-> 0] /\ s[0] = 0
    BY <1>1, <1>2 DEF Running, Summing
  <2> QED
    BY <2>1
<1>4. ASSUME NEW n \in Nat, n \in G PROVE n + 1 \in G
  <2> SUFFICES ASSUME n + 1 <= Len(c)
               PROVE  \/ g[n + 1] = [ok |-> TRUE, total |-> s[n + 1]]
                      \/ g[n + 1] = [ok |-> FALSE, total |-> 0]
    OBVIOUS
  <2>1. n <= Len(c) /\ n + 1 \in 0 .. Len(c) /\ n + 1 # 0 /\ (n + 1) - 1 = n
    OBVIOUS
  <2>2. g[n + 1] = Add(g[n], c[n + 1]) /\ s[n + 1] = s[n] + c[n + 1]
    BY <1>1, <1>2, <2>1 DEF Running, Summing
  <2>3. g[n] = [ok |-> TRUE, total |-> s[n]] \/ g[n] = [ok |-> FALSE, total |-> 0]
    BY <1>4, <2>1
  <2>4. \/ Add(g[n], c[n + 1]) = [ok |-> TRUE, total |-> g[n].total + c[n + 1]] /\ g[n].ok
        \/ Add(g[n], c[n + 1]) = [ok |-> FALSE, total |-> 0]
    BY Zenon DEF Add
  <2>5. CASE Add(g[n], c[n + 1]) = [ok |-> TRUE, total |-> g[n].total + c[n + 1]] /\ g[n].ok
    <3>1. ASSUME g[n] = [ok |-> FALSE, total |-> 0] PROVE FALSE
      <4>1. g[n].ok = FALSE
        BY <3>1
      <4> QED
        BY <4>1, <2>5, Zenon
    <3>2. g[n].total = s[n]
      BY <2>3, <3>1
    <3> QED
      BY <2>2, <2>5, <3>2
  <2> QED
    BY <2>2, <2>4, <2>5
<1>5. G \in SUBSET Nat
  OBVIOUS
<1> HIDE DEF G
<1>6. Len(c) \in G
  BY <1>3, <1>4, <1>5, Induction
<1>7. g[Len(c)] = [ok |-> TRUE, total |-> s[Len(c)]] \/ g[Len(c)] = [ok |-> FALSE, total |-> 0]
  BY <1>6 DEF G
<1>8. CASE g[Len(c)] = [ok |-> FALSE, total |-> 0]
  <2>1. [ok |-> TRUE, total |-> x].ok = [ok |-> FALSE, total |-> 0].ok
    BY <1>1, <1>8
  <2> QED
    BY <2>1
<1>9. CASE g[Len(c)] = [ok |-> TRUE, total |-> s[Len(c)]]
  <2>1. [ok |-> TRUE, total |-> x].total = [ok |-> TRUE, total |-> s[Len(c)]].total
    BY <1>1, <1>9
  <2> QED
    BY <2>1, <1>2
<1> QED
  BY <1>7, <1>8, <1>9

----------------------------------------------------------------------------
LEMMA NoInboxIsTrue == NoInbox.unread = SumOf(NoInbox.counts)
<1>1. NoInbox.unread = 0 /\ NoInbox.counts = <<>> /\ Len(<<>>) = 0
  BY DEF NoInbox
<1>2. PICK g : Summing(g, <<>>, 0) /\ SumOf(<<>>) = g[0]
  BY <1>1, SumSums
<1>3. g[0] = 0
  BY <1>2 DEF Summing
<1> QED
  BY <1>1, <1>2, <1>3

LEMMA MessagingInvInit == MessagingInit => MessagingInv
<1> SUFFICES ASSUME MessagingInit PROVE MessagingInv
  OBVIOUS
<1>1. /\ day = 0 /\ log = <<>> /\ records = {} /\ updates = {} /\ reader = NewListing /\ inbox = NoInbox
      /\ Len(log) = 0 /\ log \in Seq(Message) /\ DOMAIN log = {}
  BY DEF MessagingInit
<1>2. /\ reader.cursor = 0 /\ reader.got = <<>> /\ Len(reader.got) = 0
      /\ reader \in [cursor : Nat, got : Seq(Nat), pages : Nat]
  <2>1. <<>> \in Seq(Nat) /\ Len(<<>>) = 0
    OBVIOUS
  <2> QED
    BY <1>1, <2>1 DEF NewListing
<1>3. MessagingTyped
  BY <1>1, <1>2 DEF MessagingTyped
<1>4. ReaderInv
  BY <1>2 DEF ReaderInv, ListedOnce
<1>5. UpdatesInv /\ RecordsInv /\ StoredIsValid /\ SentOnce
  BY <1>1 DEF UpdatesInv, RecordsInv, StoredIsValid, SentOnce
<1> QED
  BY <1>1, <1>3, <1>4, <1>5, NoInboxIsTrue DEF MessagingInv, TotalIsTrue

(* The frame of the parts, by the variables they look at.                  *)
LEMMA MessagingFrame ==
    ASSUME MessagingInv, inbox' = NoInbox, MessagingTyped', UNCHANGED log, records \subseteq records',
           day <= day'
    PROVE  /\ RecordsInv' /\ StoredIsValid' /\ SentOnce' /\ TotalIsTrue'
           /\ updates' \subseteq updates => UpdatesInv'
           /\ reader' = reader => ReaderInv'
<1> USE DEF MessagingInv
<1>1. RecordsInv'
  <2> SUFFICES ASSUME NEW i \in 1 .. Len(log) PROVE log[i].day <= day' /\ RecordedFor(records', log[i])
    BY DEF RecordsInv, RecordedFor
  <2>1. log[i].day <= day /\ RecordedFor(records, log[i])
    BY DEF RecordsInv
  <2>2. log[i] \in Message /\ day \in Nat /\ day' \in Nat
    BY DEF MessagingTyped
  <2>3. log[i].day \in Nat
    BY <2>2 DEF Message
  <2>4. log[i].day <= day'
    BY <2>1, <2>2, <2>3
  <2> QED
    BY <2>1, <2>4 DEF RecordedFor
<1>2. StoredIsValid' /\ SentOnce'
  BY DEF StoredIsValid, SentOnce
<1>3. TotalIsTrue'
  BY NoInboxIsTrue DEF TotalIsTrue
<1>4. updates' \subseteq updates => UpdatesInv'
  BY DEF UpdatesInv
<1>5. reader' = reader => ReaderInv'
  BY DEF ReaderInv, ListedOnce
<1> QED
  BY <1>1, <1>2, <1>3, <1>4, <1>5

LEMMA OpenKeeps ==
    ASSUME MessagingInv, NEW list, Open(list) PROVE MessagingInv'
<1>1. /\ UNCHANGED <<day, log, records, updates, sent, reader>> /\ inbox' = NoInbox
  BY DEF Open
<1>2. MessagingTyped' /\ day <= day'
  BY <1>1 DEF MessagingInv, MessagingTyped
<1> QED
  BY <1>1, <1>2, MessagingFrame DEF MessagingInv

LEMMA NewDayKeeps ==
    ASSUME MessagingInv, NewDay PROVE MessagingInv'
<1>1. /\ day' = day + 1 /\ UNCHANGED <<participants, log, records, updates, sent, reader>> /\ inbox' = NoInbox
  BY DEF NewDay
<1>2. MessagingTyped' /\ day <= day'
  BY <1>1 DEF MessagingInv, MessagingTyped
<1> QED
  BY <1>1, <1>2, MessagingFrame DEF MessagingInv

LEMMA UpdateKeeps ==
    ASSUME MessagingInv, NEW adapter \in Adapters, NEW i \in DOMAIN log,
           NEW to \in DeliveryStates, NEW fault \in Faults, Update(adapter, i, to, fault)
    PROVE  MessagingInv'
<1>0. DOMAIN log = 1 .. Len(log) /\ Len(log) \in Nat /\ log[i] \in Message
  BY DEF MessagingInv, MessagingTyped
<1>1. PICK d \in Delivery : d = log[i].delivery
  BY <1>0 DEF Message
<1>2. PICK st \in DeliveryStates : st = d.state
  BY DEF Delivery
<1>3. PICK u \in UpdateRequest :
        u = [message |-> i, adapter |-> adapter, from |-> st, to |-> to, attempt |-> 1, fault |-> fault]
  <2>1. i \in Nat
    BY <1>0
  <2> QED
    BY <2>1 DEF UpdateRequest
<1>4. /\ DeliveryUpdateValid(u) /\ updates' = updates \cup {u}
      /\ UNCHANGED <<day, participants, log, records, reader>> /\ inbox' = NoInbox
  BY <1>1, <1>2, <1>3 DEF Update
<1>5. u.message = i
  BY <1>3
<1>6. MessagingTyped' /\ day <= day'
  BY <1>4 DEF MessagingInv, MessagingTyped
<1>7. UpdatesInv'
  BY <1>0, <1>4, <1>5 DEF MessagingInv, UpdatesInv
<1> QED
  BY <1>4, <1>6, <1>7, MessagingFrame DEF MessagingInv

(* The transitions of an update: a result has a valid delivery.            *)
LEMMA UpdateIsDelivery ==
    ASSUME NEW u \in UpdateRequest, DeliveryUpdateValid(u)
    PROVE  DeliveryValid([state |-> u.to, adapter |-> u.adapter, attempt |-> u.attempt, fault |-> u.fault])
<1> DEFINE d == [state |-> u.to, adapter |-> u.adapter, attempt |-> u.attempt, fault |-> u.fault]
<1>1. d.state = u.to /\ d.adapter = u.adapter /\ d.attempt = u.attempt /\ d.fault = u.fault
  OBVIOUS
<1>2. u.to \in {"dispatching", "delivered", "failed", "unknown"}
  BY DEF DeliveryUpdateValid, Transition
<1>3. /\ RequiredText(u.adapter) /\ u.attempt > 0
      /\ IF u.to = "failed" THEN FaultValid(u.fault) ELSE u.fault = "none"
  BY DEF DeliveryUpdateValid
<1> HIDE DEF d
<1>4. DeliveryValid(d)
  BY <1>1, <1>2, <1>3 DEF DeliveryValid
<1> QED
  BY <1>4 DEF d

LEMMA ApplyKeeps ==
    ASSUME MessagingInv, NEW u \in updates, Apply(u)
    PROVE  MessagingInv' /\ DeliveryStep
<1>0. /\ u \in UpdateRequest /\ DeliveryUpdateValid(u) /\ u.message \in 1 .. Len(log)
      /\ DOMAIN log = 1 .. Len(log) /\ Len(log) \in Nat /\ log \in Seq(Message)
  BY DEF MessagingInv, MessagingTyped, UpdatesInv
<1>1. PICK n \in 1 .. Len(log) : n = u.message
  BY <1>0
<1>2. PICK d \in Delivery : d = [state |-> u.to, adapter |-> u.adapter, attempt |-> u.attempt, fault |-> u.fault]
  BY <1>0 DEF UpdateRequest, Delivery
<1>3. PICK m \in Message : m = [log[n] EXCEPT !.delivery = d]
  <2>1. PICK x \in Message : x = log[n]
    BY <1>0
  <2>2. [x EXCEPT !.delivery = d] \in Message
    BY DEF Message
  <2> QED
    BY <2>1, <2>2
<1>4. /\ m.sender = log[n].sender /\ m.key = log[n].key /\ m.body = log[n].body /\ m.day = log[n].day
      /\ m.sequence = log[n].sequence /\ m.metadata = log[n].metadata /\ m.size = log[n].size
      /\ m.delivery = d
  <2>1. log[n] \in Message
    BY <1>0
  <2> QED
    BY <1>3, <2>1 DEF Message
<1>5. log' = [log EXCEPT ![n] = m]
  BY <1>0, <1>1, <1>2, <1>3 DEF Apply
<1>6. /\ log[n].delivery.state = u.from /\ updates' \subseteq updates
      /\ UNCHANGED <<day, participants, records, sent, reader>> /\ inbox' = NoInbox
  BY <1>1 DEF Apply
<1>7. /\ log' \in Seq(Message) /\ Len(log') = Len(log) /\ DOMAIN log' = DOMAIN log
      /\ \A i \in 1 .. Len(log) : log'[i] = IF i = n THEN m ELSE log[i]
  <2>1. log' \in [1 .. Len(log) -> Message]
    BY <1>0, <1>5
  <2> QED
    BY <1>0, <1>5, <2>1
<1>8. \A i \in 1 .. Len(log) : log'[i].key = log[i].key /\ log'[i].day = log[i].day
  BY <1>4, <1>7
<1>9. MessagingTyped'
  BY <1>6, <1>7 DEF MessagingInv, MessagingTyped
<1>10. UpdatesInv'
  BY <1>6, <1>7 DEF MessagingInv, UpdatesInv
<1>11. RecordsInv'
  BY <1>6, <1>7, <1>8 DEF MessagingInv, RecordsInv, RecordedFor
<1>12. SentOnce'
  BY <1>0, <1>7, <1>8 DEF MessagingInv, SentOnce
<1>13. MessageValid(m)
  <2>1. DeliveryValid(d)
    BY <1>0, <1>2, UpdateIsDelivery
  <2>2. MessageValid(log[n])
    BY <1>0 DEF MessagingInv, StoredIsValid
  <2> QED
    BY <2>1, <2>2, <1>4 DEF MessageValid
<1>14. StoredIsValid'
  BY <1>0, <1>7, <1>13 DEF MessagingInv, StoredIsValid
<1>15. ReaderInv' /\ TotalIsTrue'
  BY <1>6, NoInboxIsTrue DEF MessagingInv, ReaderInv, ListedOnce, TotalIsTrue
<1>16. DeliveryStep
  <2> SUFFICES ASSUME NEW i \in DOMAIN log, log'[i].delivery # log[i].delivery
               PROVE  \/ log[i].delivery.state = "pending"
                      \/ log[i].delivery.state = "dispatching" /\ log'[i].delivery.state # "dispatching"
    BY DEF DeliveryStep
  <2>1. i = n /\ log'[i].delivery = d
    BY <1>0, <1>4, <1>7
  <2>2. d.state = u.to
    BY <1>2
  <2>3. Transition(u.from, u.to)
    BY <1>0 DEF DeliveryUpdateValid
  <2> QED
    BY <2>1, <2>2, <2>3, <1>6 DEF Transition
<1> QED
  BY <1>9, <1>10, <1>11, <1>12, <1>14, <1>15, <1>16 DEF MessagingInv

LEMMA SendKeeps ==
    ASSUME MessagingInv, NEW key \in Keys, NEW body \in DOMAIN Bodies, NEW metadata \in MetadataKeys,
           Send(key, body, metadata)
    PROVE  MessagingInv' /\ DeliveryStep
<1>0. /\ DOMAIN log = 1 .. Len(log) /\ Len(log) \in Nat /\ log \in Seq(Message) /\ day \in Nat
      /\ records \in SUBSET [owner : {"a"}, key : Keys, created : Nat, expires : Int]
  BY DEF MessagingInv, MessagingTyped
<1>1. PICK d \in Delivery : d = [state |-> "pending", adapter |-> "", attempt |-> 0, fault |-> "none"]
  BY DEF Delivery, DeliveryStates, Faults
<1>2. PICK size \in {Bodies[b] : b \in DOMAIN Bodies}, n \in Nat : size = Bodies[body] /\ n = Len(log) + 1
  BY <1>0
<1>3. PICK m \in Message :
        m = [sender |-> "a", key |-> key, body |-> body, metadata |-> metadata, day |-> day,
             sequence |-> n, size |-> size, delivery |-> d]
  BY <1>0 DEF Message
<1>4. PICK q : q = [sender |-> "a", key |-> key, body |-> body, metadata |-> metadata, size |-> size]
  OBVIOUS
<1>5. /\ SendRequestValid(q) /\ Remembered(key) = {} /\ log' = Append(log, m)
      /\ UNCHANGED <<day, participants, updates, sent, reader>> /\ inbox' = NoInbox
  BY <1>1, <1>2, <1>3, <1>4 DEF Send
<1>6. PICK r : \E life \in Lives :
        /\ r = [owner |-> "a", key |-> key, created |-> day, expires |-> day + life]
        /\ IdempotencyValid(r) /\ records' = records \cup {r}
  BY DEF Send
<1>7. /\ r \in [owner : {"a"}, key : Keys, created : Nat, expires : Int]
      /\ r.key = key /\ r.expires = day + RetentionDays
  <2>1. PICK e \in Int : r = [owner |-> "a", key |-> key, created |-> day, expires |-> e]
    <3>1. PICK life \in Lives : r = [owner |-> "a", key |-> key, created |-> day, expires |-> day + life]
      BY <1>6
    <3>2. day + life \in Int
      BY <1>0, DaysAssumption
    <3> QED
      BY <3>1, <3>2
  <2>2. r.key = key /\ r.expires = e /\ r.created = day
        /\ r \in [owner : {"a"}, key : Keys, created : Nat, expires : Int]
    BY <1>0, <2>1
  <2>3. r.expires - r.created = RetentionDays
    BY <1>6 DEF IdempotencyValid
  <2> QED
    BY <1>0, <2>1, <2>2, <2>3, DaysAssumption
<1>8. /\ log' \in Seq(Message) /\ Len(log') = Len(log) + 1 /\ DOMAIN log' = 1 .. Len(log) + 1
      /\ log'[Len(log) + 1] = m /\ \A i \in 1 .. Len(log) : log'[i] = log[i]
  <2>1. Append(log, m) \in Seq(Message)
    BY <1>0
  <2> QED
    BY <1>0, <1>5, <2>1
<1>9. /\ m.key = key /\ m.day = day /\ m.sender = "a" /\ m.body = body /\ m.metadata = metadata
      /\ m.size = size /\ m.sequence = n /\ m.delivery = d
  BY <1>3
<1>10. MessageValid(m)
  <2>1. q.sender = "a" /\ q.body = body /\ q.metadata = metadata /\ q.size = size
    BY <1>4
  <2>2. RequiredText(body) /\ Distinct(metadata) /\ size <= MaxEnvelope /\ RequiredText("a")
    BY <1>5, <2>1 DEF SendRequestValid, RequiredText
  <2>3. d.state = "pending" /\ d.adapter = "" /\ d.attempt = 0 /\ d.fault = "none"
    BY <1>1
  <2>4. DeliveryValid(d)
    BY <2>3 DEF DeliveryValid
  <2>5. n > 0
    BY <1>0, <1>2
  <2> QED
    BY <2>2, <2>4, <2>5, <1>9 DEF MessageValid
<1>11. MessagingTyped'
  BY <1>5, <1>6, <1>7, <1>8 DEF MessagingInv, MessagingTyped
<1>12. UpdatesInv'
  <2> SUFFICES ASSUME NEW u \in updates PROVE DeliveryUpdateValid(u) /\ u.message \in 1 .. (Len(log) + 1)
    BY <1>5, <1>8 DEF UpdatesInv
  <2>1. DeliveryUpdateValid(u) /\ u.message \in 1 .. Len(log)
    BY DEF MessagingInv, UpdatesInv
  <2> QED
    BY <2>1, <1>0
<1>13. RecordsInv'
  <2> SUFFICES ASSUME NEW i \in 1 .. (Len(log) + 1) PROVE log'[i].day <= day /\ RecordedFor(records', log'[i])
    BY <1>5, <1>8 DEF RecordsInv, RecordedFor
  <2>1. CASE i = Len(log) + 1
    BY <2>1, <1>0, <1>6, <1>7, <1>8, <1>9 DEF RecordedFor
  <2>2. CASE i \in 1 .. Len(log)
    <3>1. log[i].day <= day /\ RecordedFor(records, log[i])
      BY <2>2 DEF MessagingInv, RecordsInv
    <3> QED
      BY <3>1, <2>2, <1>6, <1>8 DEF RecordedFor
  <2> QED
    BY <2>1, <2>2, <1>0
<1>14. \A i \in 1 .. Len(log) : log[i].key = key => day - log[i].day >= RetentionDays
  <2> SUFFICES ASSUME NEW i \in 1 .. Len(log), log[i].key = key PROVE day - log[i].day >= RetentionDays
    OBVIOUS
  <2>1. PICK x \in records : x.key = key /\ x.expires = log[i].day + RetentionDays
    BY DEF MessagingInv, RecordsInv, RecordedFor
  <2>2. ~(day < x.expires)
    BY <2>1, <1>5 DEF Remembered
  <2>3. log[i] \in Message
    BY <1>0
  <2>4. log[i].day \in Nat
    BY <2>3 DEF Message
  <2> QED
    BY <2>1, <2>2, <2>4, <1>0, DaysAssumption
<1>15. SentOnce'
  <2> SUFFICES ASSUME NEW i \in 1 .. (Len(log) + 1), NEW j \in 1 .. (Len(log) + 1),
                      i < j, log'[i].key = log'[j].key
               PROVE  log'[j].day - log'[i].day >= RetentionDays
    BY <1>8 DEF SentOnce
  <2>1. i \in 1 .. Len(log)
    BY <1>0
  <2>2. CASE j = Len(log) + 1
    BY <2>1, <2>2, <1>8, <1>9, <1>14
  <2>3. CASE j \in 1 .. Len(log)
    BY <2>1, <2>3, <1>0, <1>8 DEF MessagingInv, SentOnce
  <2> QED
    BY <2>2, <2>3, <1>0
<1>16. StoredIsValid'
  <2> SUFFICES ASSUME NEW i \in 1 .. (Len(log) + 1) PROVE MessageValid(log'[i])
    BY <1>8 DEF StoredIsValid
  <2>1. CASE i = Len(log) + 1
    BY <2>1, <1>8, <1>10
  <2>2. CASE i \in 1 .. Len(log)
    BY <2>2, <1>0, <1>8 DEF MessagingInv, StoredIsValid
  <2> QED
    BY <2>1, <2>2, <1>0
<1>17. ReaderInv' /\ TotalIsTrue'
  BY <1>5, NoInboxIsTrue DEF MessagingInv, ReaderInv, ListedOnce, TotalIsTrue
<1>18. DeliveryStep
  BY <1>0, <1>8 DEF DeliveryStep
<1> QED
  BY <1>11, <1>12, <1>13, <1>15, <1>16, <1>17, <1>18 DEF MessagingInv

LEMMA SeqIsFunction ==
    ASSUME NEW S, NEW s \in Seq(S) PROVE s = [i \in DOMAIN s |-> s[i]]
<1>1. s \in [1 .. Len(s) -> S]
  OBVIOUS
<1> QED
  BY <1>1, Zenon

LEMMA Joined ==
    ASSUME NEW S, NEW a \in Seq(S), NEW b \in Seq(S)
    PROVE  /\ a \o b \in Seq(S) /\ Len(a \o b) = Len(a) + Len(b) /\ DOMAIN (a \o b) = 1 .. Len(a \o b)
           /\ \A i \in 1 .. Len(a) : (a \o b)[i] = a[i]
           /\ \A i \in (Len(a) + 1) .. (Len(a) + Len(b)) : (a \o b)[i] = b[i - Len(a)]
OBVIOUS

(* A page goes on where the last one ended: a cursor that is missing is    *)
(* refused while there is more (MessageListResult).                        *)
LEMMA CountedOn ==
    ASSUME NEW g \in Seq(Nat), NEW k \in Nat, \A i \in 1 .. Len(g) : g[i] = i,
           NEW t \in Seq(Nat), Len(t) = k, \A i \in 1 .. k : t[i] = Len(g) + i,
           NEW h, h = g \o t
    PROVE  h \in Seq(Nat) /\ Len(h) = Len(g) + k /\ h = [i \in 1 .. Len(h) |-> i]
<1>1. Len(g) \in Nat
  OBVIOUS
<1>2. /\ h \in Seq(Nat) /\ Len(h) = Len(g) + Len(t) /\ DOMAIN h = 1 .. Len(h)
      /\ \A i \in 1 .. Len(g) : h[i] = g[i]
      /\ \A i \in (Len(g) + 1) .. (Len(g) + Len(t)) : h[i] = t[i - Len(g)]
  BY Joined
<1>3. ASSUME NEW i \in 1 .. Len(h) PROVE h[i] = i
  <2>1. CASE i \in 1 .. Len(g)
    <3>1. g[i] = i
      BY <2>1
    <3> QED
      BY <2>1, <3>1, <1>2
  <2>2. CASE i \in (Len(g) + 1) .. (Len(g) + k)
    <3>1. i - Len(g) \in 1 .. k /\ Len(g) + (i - Len(g)) = i
      BY <1>1, <2>2
    <3> QED
      BY <2>2, <3>1, <1>1, <1>2
  <2> QED
    BY <2>1, <2>2, <1>1, <1>2
<1>4. h = [i \in DOMAIN h |-> h[i]]
  BY <1>2, SeqIsFunction
<1>5. h = [i \in 1 .. Len(h) |-> i]
  BY <1>2, <1>3, <1>4, Zenon
<1> QED
  BY <1>1, <1>2, <1>5

LEMMA ListKeeps ==
    ASSUME MessagingInv, List PROVE MessagingInv'
<1> DEFINE Result(k, cursor) ==
        [messages |-> Page(k), nextCursor |-> cursor, hasMore |-> reader.cursor + k < Len(log)]
<1>0. PICK k \in 0 .. MaxListItems : \E cursor \in {0, reader.cursor + k} :
        /\ ListResultValid(Result(k, cursor))
        /\ reader' = [got |-> reader.got \o [i \in 1 .. k |-> reader.cursor + i],
                      cursor |-> IF Result(k, cursor).hasMore THEN Result(k, cursor).nextCursor
                                 ELSE reader.cursor + k,
                      pages |-> reader.pages + 1]
        /\ UNCHANGED <<day, participants, log, records, updates, sent>> /\ inbox' = NoInbox
  BY DEF List
<1>1. PICK cursor \in {0, reader.cursor + k} :
        /\ ListResultValid(Result(k, cursor))
        /\ reader' = [got |-> reader.got \o [i \in 1 .. k |-> reader.cursor + i],
                      cursor |-> IF Result(k, cursor).hasMore THEN Result(k, cursor).nextCursor
                                 ELSE reader.cursor + k,
                      pages |-> reader.pages + 1]
        /\ UNCHANGED <<day, participants, log, records, updates, sent>> /\ inbox' = NoInbox
  BY <1>0
<1>2. PICK more \in BOOLEAN : more <=> reader.cursor + k < Len(log)
  OBVIOUS
<1>16. PICK res : res = [messages |-> Page(k), nextCursor |-> cursor, hasMore |-> more]
  OBVIOUS
<1> HIDE DEF Result
<1>3. more = (reader.cursor + k < Len(log))
  BY <1>2
<1>4. res = Result(k, cursor)
  BY <1>16, <1>3, Zenon DEF Result
<1>5. res.hasMore = more /\ res.nextCursor = cursor
  BY <1>16
<1>6. ListResultValid(res)
  BY <1>1, <1>4, Zenon
<1>7. more => cursor # 0
  BY <1>5, <1>6, Zenon DEF ListResultValid
<1>8. reader \in [cursor : Nat, got : Seq(Nat), pages : Nat] /\ k \in Nat
  BY ListAssumption DEF MessagingInv, MessagingTyped
<1>9. reader'.cursor = reader.cursor + k
      /\ reader'.got = reader.got \o [i \in 1 .. k |-> reader.cursor + i]
      /\ reader'.pages = reader.pages + 1
      /\ reader' = [got |-> reader'.got, cursor |-> reader'.cursor, pages |-> reader'.pages]
  <2>1. PICK c : c = IF more THEN cursor ELSE reader.cursor + k
    OBVIOUS
  <2>2. reader' = [got |-> reader.got \o [i \in 1 .. k |-> reader.cursor + i], cursor |-> c,
                   pages |-> reader.pages + 1]
    BY <1>1, <1>4, <1>5, <2>1, Zenon
  <2>3. c = reader.cursor + k
    BY <1>1, <1>7, <2>1
  <2> QED
    BY <2>2, <2>3
<1>10. reader.cursor = Len(reader.got) /\ ListedOnce
  BY DEF MessagingInv, ReaderInv
<1>11. PICK t \in Seq(Nat) : t = [i \in 1 .. k |-> Len(reader.got) + i]
  <2>1. Len(reader.got) \in Nat
    BY <1>8
  <2>2. [i \in 1 .. k |-> Len(reader.got) + i] \in [1 .. k -> Nat]
    BY <1>8, <2>1
  <2>3. [i \in 1 .. k |-> Len(reader.got) + i] \in Seq(Nat)
    BY <1>8, <2>2
  <2> QED
    BY <2>3
<1>18. PICK h : h = reader.got \o t
  OBVIOUS
<1>12. h \in Seq(Nat) /\ Len(h) = Len(reader.got) + k /\ h = [i \in 1 .. Len(h) |-> i]
  <2>1. \A i \in 1 .. Len(reader.got) : reader.got[i] = i
    BY <1>10 DEF ListedOnce
  <2>2. Len(t) = k /\ \A i \in 1 .. k : t[i] = Len(reader.got) + i
    BY <1>8, <1>11
  <2> QED
    BY <1>8, <1>18, <2>1, <2>2, CountedOn
<1>13. reader'.got = h /\ reader'.cursor = Len(h)
  BY <1>9, <1>10, <1>11, <1>12, <1>18
<1>14. ReaderInv'
  BY <1>12, <1>13 DEF ReaderInv, ListedOnce
<1>15. reader' \in [cursor : Nat, got : Seq(Nat), pages : Nat]
  BY <1>8, <1>9, <1>12, <1>13
<1>17. MessagingTyped' /\ day <= day' /\ UNCHANGED <<log, records, updates>> /\ inbox' = NoInbox
  BY <1>1, <1>15 DEF MessagingInv, MessagingTyped
<1> QED
  BY <1>14, <1>17, MessagingFrame DEF MessagingInv

LEMMA SummarizeKeeps ==
    ASSUME MessagingInv, NEW n \in Nat, NEW counts \in [1 .. n -> 0 .. Top], NEW unread \in 0 .. Top,
           Summarize(counts, unread)
    PROVE  MessagingInv'
<1>1. /\ InboxSummaryValid([counts |-> counts, unread |-> unread]) /\ inbox' = [counts |-> counts, unread |-> unread]
      /\ UNCHANGED <<day, participants, log, records, updates, sent, reader>>
  BY DEF Summarize
<1>2. inbox'.counts = counts /\ inbox'.unread = unread
  BY <1>1
<1>3. Total(counts) = [ok |-> TRUE, total |-> unread]
  BY <1>1 DEF InboxSummaryValid
<1>4. Len(counts) = n
  OBVIOUS
<1>5. TotalIsTrue'
  BY <1>2, <1>3, <1>4, TotalIsSumOf DEF TotalIsTrue
<1> QED
  BY <1>1, <1>5 DEF MessagingInv, MessagingTyped, UpdatesInv, RecordsInv, RecordedFor, ReaderInv,
     ListedOnce, StoredIsValid, SentOnce

LEMMA MessagingStep == MessagingInv /\ [MessagingNext]_messagingVars => MessagingInv' /\ [DeliveryStep]_log
<1> SUFFICES ASSUME MessagingInv, [MessagingNext]_messagingVars PROVE MessagingInv' /\ [DeliveryStep]_log
  OBVIOUS
<1>1. ASSUME NEW list, Open(list) PROVE MessagingInv' /\ UNCHANGED log
  BY <1>1, OpenKeeps DEF Open
<1>2. ASSUME NEW key \in Keys, NEW body \in DOMAIN Bodies, NEW x \in MetadataKeys, Send(key, body, x)
      PROVE  MessagingInv' /\ DeliveryStep
  BY <1>2, SendKeeps
<1>3. CASE NewDay
  BY <1>3, NewDayKeeps DEF NewDay
<1>4. ASSUME NEW adapter \in Adapters, NEW i \in DOMAIN log,
             NEW to \in {"dispatching", "delivered", "failed", "unknown"}, NEW fault \in Faults,
             Update(adapter, i, to, fault)
      PROVE  MessagingInv' /\ UNCHANGED log
  <2>1. to \in DeliveryStates
    BY DEF DeliveryStates
  <2> QED
    BY <1>4, <2>1, UpdateKeeps DEF Update
<1>5. ASSUME NEW u \in updates, Apply(u) PROVE MessagingInv' /\ DeliveryStep
  BY <1>5, ApplyKeeps
<1>6. CASE List
  <2>1. UNCHANGED log
    BY <1>6 DEF List
  <2> QED
    BY <1>6, <2>1, ListKeeps
<1>7. ASSUME NEW counts \in [1 .. Cardinality(Conversations) -> 0 .. Top], NEW unread \in 0 .. Top,
             Summarize(counts, unread)
      PROVE  MessagingInv' /\ UNCHANGED log
  <2>1. Cardinality(Conversations) \in Nat
    BY CountsAssumption, FS_CardinalityType
  <2> QED
    BY <1>7, <2>1, SummarizeKeeps DEF Summarize
<1>8. CASE UNCHANGED messagingVars
  BY <1>8 DEF messagingVars, MessagingInv, MessagingTyped, UpdatesInv, RecordsInv, RecordedFor, ReaderInv,
     ListedOnce, StoredIsValid, SentOnce, TotalIsTrue
<1> QED
  BY <1>1, <1>2, <1>3, <1>4, <1>5, <1>6, <1>7, <1>8 DEF MessagingNext, Keys, Faults

(* For any bodies, participants, lives, envelopes and counts: a message    *)
(* sent again within the retention is stored once, is dispatched once and  *)
(* never goes back, is listed once and in order, what is stored passes the *)
(* validators of the results that carry it, and a total is the sum         *)
(* (v2/messaging IdempotencyRecord, DeliveryUpdateRequest,                 *)
(* MessageListResult, InboxSummaryResult).                                 *)
THEOREM MessagesAreOnce == MessagingSpec => MessagesOnce
<1>1. MessagingInv => StoredIsValid /\ SentOnce /\ ListedOnce /\ TotalIsTrue
  BY DEF MessagingInv, ReaderInv
<1> QED
  BY <1>1, MessagingInvInit, MessagingStep, PTL DEF MessagingSpec, MessagesOnce, DispatchedOnce

----------------------------------------------------------------------------
(* Decisions of an AI provider.                                            *)

(* What digits are worth, from left to right.                              *)
Evaluating(g, s, n) == g = [i \in 0 .. n |-> IF i = 0 THEN 0 ELSE 10 * g[i - 1] + s[i]]

LEMMA EvaluatingExists ==
    ASSUME NEW s, NEW m \in Nat
    PROVE  \E g : Evaluating(g, s, m)
<1> DEFINE G == {n \in Nat : \E g : Evaluating(g, s, n)}
<1>1. 0 \in G
  <2>1. Evaluating([i \in 0 .. 0 |-> 0], s, 0)
    BY DEF Evaluating
  <2> QED
    BY <2>1
<1>2. ASSUME NEW n \in Nat, n \in G PROVE n + 1 \in G
  <2>1. PICK g : Evaluating(g, s, n)
    BY <1>2
  <2> DEFINE h == [i \in 0 .. n + 1 |-> IF i = n + 1 THEN 10 * g[n] + s[n + 1] ELSE g[i]]
  <2>2. \A i \in 0 .. n : h[i] = g[i]
    OBVIOUS
  <2>3. ASSUME NEW i \in 0 .. n + 1
        PROVE  h[i] = IF i = 0 THEN 0 ELSE 10 * h[i - 1] + s[i]
    <3>1. CASE i = n + 1
      BY <2>2, <3>1
    <3>2. CASE i \in 0 .. n
      <4>1. i = 0 \/ i - 1 \in 0 .. n
        BY <3>2
      <4>2. g[i] = IF i = 0 THEN 0 ELSE 10 * g[i - 1] + s[i]
        BY <2>1, <3>2 DEF Evaluating
      <4> QED
        BY <2>2, <3>2, <4>1, <4>2
    <3> QED
      BY <3>1, <3>2
  <2>4. Evaluating(h, s, n + 1)
    BY <2>3 DEF Evaluating
  <2> HIDE DEF h
  <2>5. \E f : Evaluating(f, s, n + 1)
    BY <2>4
  <2> QED
    BY <2>5
<1>3. G \in SUBSET Nat
  OBVIOUS
<1> HIDE DEF G
<1>4. m \in G
  BY <1>1, <1>2, <1>3, Induction
<1> QED
  BY <1>4 DEF G

LEMMA ValueEvaluates ==
    ASSUME NEW s, Len(s) \in Nat
    PROVE  \E g : Evaluating(g, s, Len(s)) /\ Value(s) = g[Len(s)]
<1> DEFINE h == CHOOSE h : h = [i \in 0 .. Len(s) |-> IF i = 0 THEN 0 ELSE 10 * h[i - 1] + s[i]]
<1>1. Evaluating(h, s, Len(s))
  BY EvaluatingExists DEF Evaluating
<1>2. Value(s) = h[Len(s)]
  BY DEF Value
<1> HIDE DEF h
<1> QED
  BY <1>1, <1>2

(* The values of two lists agree as far as the lists do, and are numbers.  *)
LEMMA EvaluationsAgree ==
    ASSUME NEW s \in Seq(Nat), NEW t \in Seq(Nat), Len(s) <= Len(t), \A i \in 1 .. Len(s) : t[i] = s[i],
           NEW g, Evaluating(g, s, Len(s)), NEW h, Evaluating(h, t, Len(t))
    PROVE  g[Len(s)] = h[Len(s)] /\ g[Len(s)] \in Nat
<1> DEFINE G == {n \in Nat : n <= Len(s) => g[n] = h[n] /\ g[n] \in Nat}
<1>0. Len(s) \in Nat /\ Len(t) \in Nat
  OBVIOUS
<1>1. 0 \in G
  <2>1. 0 \in 0 .. Len(s) /\ 0 \in 0 .. Len(t)
    BY <1>0
  <2>2. g[0] = 0 /\ h[0] = 0
    BY <2>1 DEF Evaluating
  <2> QED
    BY <2>2
<1>2. ASSUME NEW n \in Nat, n \in G PROVE n + 1 \in G
  <2> SUFFICES ASSUME n + 1 <= Len(s) PROVE g[n + 1] = h[n + 1] /\ g[n + 1] \in Nat
    OBVIOUS
  <2>1. /\ n <= Len(s) /\ n + 1 \in 0 .. Len(s) /\ n + 1 \in 0 .. Len(t) /\ n + 1 # 0 /\ (n + 1) - 1 = n
        /\ n + 1 \in 1 .. Len(s)
    BY <1>0
  <2>2. g[n + 1] = 10 * g[n] + s[n + 1] /\ h[n + 1] = 10 * h[n] + t[n + 1]
    BY <2>1 DEF Evaluating
  <2>3. s[n + 1] = t[n + 1] /\ s[n + 1] \in Nat
    BY <2>1
  <2>4. g[n] = h[n] /\ g[n] \in Nat
    BY <1>2, <2>1
  <2> QED
    BY <2>2, <2>3, <2>4
<1>3. G \in SUBSET Nat
  OBVIOUS
<1> HIDE DEF G
<1>4. Len(s) \in G
  BY <1>0, <1>1, <1>2, <1>3, Induction
<1> QED
  BY <1>0, <1>4 DEF G

LEMMA ValueType ==
    ASSUME NEW s \in Seq(Nat) PROVE Value(s) \in Nat
<1>1. Len(s) \in Nat
  OBVIOUS
<1>2. PICK g : Evaluating(g, s, Len(s)) /\ Value(s) = g[Len(s)]
  BY <1>1, ValueEvaluates
<1>3. Len(s) <= Len(s) /\ \A i \in 1 .. Len(s) : s[i] = s[i]
  BY <1>1
<1> QED
  BY <1>2, <1>3, EvaluationsAgree

LEMMA ValueAppend ==
    ASSUME NEW s \in Seq(Nat), NEW d \in Nat
    PROVE  Append(s, d) \in Seq(Nat) /\ Value(Append(s, d)) = 10 * Value(s) + d
<1> DEFINE t == Append(s, d)
<1>1. /\ t \in Seq(Nat) /\ Len(s) \in Nat /\ Len(t) = Len(s) + 1 /\ \A i \in 1 .. Len(s) : t[i] = s[i]
      /\ t[Len(s) + 1] = d
  OBVIOUS
<1> HIDE DEF t
<1>2. Len(t) \in Nat /\ Len(s) <= Len(t)
  BY <1>1
<1>3. PICK g : Evaluating(g, s, Len(s)) /\ Value(s) = g[Len(s)]
  BY <1>1, ValueEvaluates
<1>4. PICK h : Evaluating(h, t, Len(t)) /\ Value(t) = h[Len(t)]
  BY <1>2, ValueEvaluates
<1>5. g[Len(s)] = h[Len(s)] /\ g[Len(s)] \in Nat
  BY <1>1, <1>2, <1>3, <1>4, EvaluationsAgree
<1>6. Len(t) \in 0 .. Len(t) /\ Len(t) # 0 /\ Len(t) - 1 = Len(s)
  BY <1>1, <1>2
<1>7. h[Len(t)] = 10 * h[Len(t) - 1] + t[Len(t)]
  BY <1>4, <1>6 DEF Evaluating
<1> QED
  BY <1>1, <1>3, <1>4, <1>5, <1>6, <1>7 DEF t

LEMMA ValueEmpty == Value(<<>>) = 0
<1>1. Len(<<>>) = 0 /\ Len(<<>>) \in Nat
  OBVIOUS
<1>2. PICK g : Evaluating(g, <<>>, Len(<<>>)) /\ Value(<<>>) = g[Len(<<>>)]
  BY <1>1, ValueEvaluates
<1>3. 0 \in 0 .. Len(<<>>)
  BY <1>1
<1> QED
  BY <1>1, <1>2, <1>3 DEF Evaluating

(* Induction over lists of numbers.                                        *)
LEMMA ListSplit ==
    ASSUME NEW s \in Seq(Nat), NEW n \in Nat, Len(s) = n + 1
    PROVE  \E t \in Seq(Nat), d \in Nat : Len(t) = n /\ s = Append(t, d)
<1> DEFINE t == SubSeq(s, 1, n)
<1>1. n + 1 \in 1 .. Len(s)
  OBVIOUS
<1>2. s[n + 1] \in Nat
  BY <1>1
<1>3. \A i \in 1 .. n : i \in 1 .. Len(s)
  OBVIOUS
<1>4. \A i \in 1 .. n : s[i] \in Nat
  BY <1>3
<1>5. /\ t \in Seq(Nat) /\ Len(t) = IF 1 <= n THEN n - 1 + 1 ELSE 0
      /\ \A i \in 1 .. n - 1 + 1 : t[i] = s[1 + i - 1]
  BY <1>4, SubSeqProperties
<1> HIDE DEF t
<1>6. Len(t) = n /\ \A i \in 1 .. n : t[i] = s[i]
  BY <1>5
<1> DEFINE u == Append(t, s[n + 1])
<1>7. u \in Seq(Nat) /\ Len(u) = n + 1 /\ (\A i \in 1 .. n : u[i] = t[i]) /\ u[n + 1] = s[n + 1]
  BY <1>2, <1>5, <1>6
<1> HIDE DEF u
<1>8. \A i \in 1 .. n + 1 : s[i] = u[i]
  <2>1. \A i \in 1 .. n + 1 : i \in 1 .. n \/ i = n + 1
    OBVIOUS
  <2> QED
    BY <1>6, <1>7, <2>1
<1>9. s = u
  BY <1>7, <1>8, SeqEqual
<1> QED
  BY <1>2, <1>5, <1>6, <1>9 DEF u

LEMMA ListInduction ==
    ASSUME NEW G \in SUBSET Seq(Nat), <<>> \in G, \A s \in G : \A d \in Nat : Append(s, d) \in G
    PROVE  G = Seq(Nat)
<1> DEFINE H == {n \in Nat : \A s \in Seq(Nat) : Len(s) = n => s \in G}
<1>1. 0 \in H
  <2>1. \A s \in Seq(Nat) : Len(s) = 0 => s = <<>>
    OBVIOUS
  <2> QED
    BY <2>1
<1>2. ASSUME NEW n \in Nat, n \in H PROVE n + 1 \in H
  <2> SUFFICES ASSUME NEW s \in Seq(Nat), Len(s) = n + 1 PROVE s \in G
    OBVIOUS
  <2>1. PICK t \in Seq(Nat), d \in Nat : Len(t) = n /\ s = Append(t, d)
    BY ListSplit
  <2>2. t \in G
    BY <1>2, <2>1
  <2> QED
    BY <2>1, <2>2
<1>3. H \in SUBSET Nat
  OBVIOUS
<1> HIDE DEF H
<1>4. H = Nat
  BY <1>1, <1>2, <1>3, Induction
<1>5. \A s \in Seq(Nat) : Len(s) \in H
  BY <1>4
<1> QED
  BY <1>5 DEF H

LEMMA ZerosType ==
    ASSUME NEW n \in Nat
    PROVE  Zeros(n) \in Seq(Nat) /\ Len(Zeros(n)) = n /\ \A i \in 1 .. n : Zeros(n)[i] = 0
BY DEF Zeros

LEMMA ZerosNone ==
    ASSUME NEW n \in Int, n <= 0 PROVE Zeros(n) = <<>>
<1>1. 1 .. n = {}
  OBVIOUS
<1>2. Zeros(n) = [i \in {} |-> 0]
  BY <1>1 DEF Zeros
<1>3. <<>> = [i \in {} |-> 0]
  OBVIOUS
<1> QED
  BY <1>2, <1>3

LEMMA ZerosJoin ==
    ASSUME NEW a \in Nat, NEW b \in Nat PROVE Zeros(a) \o Zeros(b) = Zeros(a + b)
<1>1. /\ Zeros(a) \in Seq(Nat) /\ Len(Zeros(a)) = a /\ \A i \in 1 .. a : Zeros(a)[i] = 0
      /\ Zeros(b) \in Seq(Nat) /\ Len(Zeros(b)) = b /\ \A i \in 1 .. b : Zeros(b)[i] = 0
  BY ZerosType
<1>2. a + b \in Nat
  OBVIOUS
<1>3. Zeros(a + b) \in Seq(Nat) /\ Len(Zeros(a + b)) = a + b /\ \A i \in 1 .. a + b : Zeros(a + b)[i] = 0
  BY <1>2, ZerosType
<1> DEFINE x == Zeros(a)
           y == Zeros(b)
           z == Zeros(a + b)
<1> HIDE DEF x, y, z
<1>4. /\ x \in Seq(Nat) /\ Len(x) = a /\ (\A i \in 1 .. a : x[i] = 0)
      /\ y \in Seq(Nat) /\ Len(y) = b /\ (\A i \in 1 .. b : y[i] = 0)
      /\ z \in Seq(Nat) /\ Len(z) = a + b /\ (\A i \in 1 .. a + b : z[i] = 0)
  BY <1>1, <1>3 DEF x, y, z
<1>5. /\ x \o y \in Seq(Nat) /\ Len(x \o y) = a + b
      /\ (\A i \in 1 .. a : (x \o y)[i] = x[i]) /\ \A i \in (a + 1) .. (a + b) : (x \o y)[i] = y[i - a]
  BY <1>4, Joined
<1>6. \A i \in 1 .. a + b : i \in 1 .. a \/ (i \in (a + 1) .. (a + b) /\ i - a \in 1 .. b)
  OBVIOUS
<1>7. \A i \in 1 .. a + b : (x \o y)[i] = z[i]
  BY <1>4, <1>5, <1>6
<1>8. x \o y = z
  BY <1>4, <1>5, <1>7, SeqEqual
<1> QED
  BY <1>8 DEF x, y, z

LEMMA ZerosAppend ==
    ASSUME NEW s \in Seq(Nat), NEW n \in Nat
    PROVE  s \o Zeros(n) \in Seq(Nat) /\ s \o Zeros(n + 1) = Append(s \o Zeros(n), 0)
<1>1. Zeros(n) \in Seq(Nat) /\ Zeros(1) \in Seq(Nat) /\ Zeros(1) = <<0>>
  <2>1. Zeros(n) \in Seq(Nat) /\ Zeros(1) \in Seq(Nat) /\ Len(Zeros(1)) = 1 /\ \A i \in 1 .. 1 : Zeros(1)[i] = 0
    BY ZerosType
  <2>2. <<0>> \in Seq(Nat) /\ Len(<<0>>) = 1 /\ \A i \in 1 .. 1 : <<0>>[i] = 0
    OBVIOUS
  <2>3. \A i \in 1 .. Len(Zeros(1)) : Zeros(1)[i] = <<0>>[i]
    BY <2>1, <2>2
  <2>4. Zeros(1) = <<0>>
    BY <2>1, <2>2, <2>3, SeqEqual
  <2> QED
    BY <2>1, <2>4
<1>2. Zeros(n + 1) = Zeros(n) \o Zeros(1)
  BY ZerosJoin
<1>3. s \o (Zeros(n) \o Zeros(1)) = (s \o Zeros(n)) \o Zeros(1)
  BY <1>1, ConcatAssociative
<1>4. s \o Zeros(n) \in Seq(Nat)
  BY <1>1, ConcatProperties
<1>5. Append(s \o Zeros(n), 0) = (s \o Zeros(n)) \o <<0>>
  BY <1>4, AppendIsConcat
<1>6. s \o Zeros(n + 1) = Append(s \o Zeros(n), 0)
  BY <1>1, <1>2, <1>3, <1>5, Zenon
<1> QED
  BY <1>4, <1>6

(* A list with n zeros after it is worth ten to the n times as much.       *)
LEMMA ShiftIsValue ==
    ASSUME NEW n \in Nat PROVE Shift(n) = Value(<<1>> \o Zeros(n))
<1>1. <<1>> \o <<>> = <<1>> /\ <<1>> = Append(<<>>, 1) /\ <<>> \in Seq(Nat)
  OBVIOUS
<1>2. Value(<<1>>) = 1
  <2>1. Value(<<1>>) = 10 * 0 + 1
    BY <1>1, ValueEmpty, ValueAppend
  <2> QED
    BY <2>1
<1>3. CASE n > 0
  BY <1>3 DEF Shift
<1>4. CASE n = 0
  <2>1. Zeros(0) = <<>>
    BY ZerosNone
  <2>2. Value(<<1>> \o Zeros(0)) = 1
    BY <1>1, <1>2, <2>1, Zenon
  <2>3. Shift(0) = 1
    BY DEF Shift
  <2> QED
    BY <1>4, <2>2, <2>3
<1> QED
  BY <1>3, <1>4
LEMMA ShiftType ==
    ASSUME NEW n \in Nat
    PROVE  Shift(n) \in Nat /\ Shift(0) = 1 /\ Shift(n + 1) = 10 * Shift(n)
<1>1. n + 1 \in Nat /\ <<1>> \in Seq(Nat)
  OBVIOUS
<1>2. Shift(n) = Value(<<1>> \o Zeros(n)) /\ Shift(n + 1) = Value(<<1>> \o Zeros(n + 1))
  BY <1>1, ShiftIsValue
<1>3. <<1>> \o Zeros(n) \in Seq(Nat) /\ <<1>> \o Zeros(n + 1) = Append(<<1>> \o Zeros(n), 0)
  BY <1>1, ZerosAppend
<1>4. Shift(n) \in Nat
  BY <1>2, <1>3, ValueType
<1>5. Value(<<1>> \o Zeros(n + 1)) = 10 * Value(<<1>> \o Zeros(n)) + 0
  BY <1>3, ValueAppend
<1>6. Shift(n + 1) = 10 * Shift(n) + 0
  BY <1>2, <1>5
<1>7. Shift(0) = 1
  BY DEF Shift
<1> QED
  BY <1>4, <1>6, <1>7

LEMMA ShiftNone ==
    ASSUME NEW n \in Int, n <= 0 PROVE Shift(n) = 1
  BY DEF Shift

LEMMA ValueShifts ==
    ASSUME NEW s \in Seq(Nat), NEW m \in Nat
    PROVE  Value(s \o Zeros(m)) = Value(s) * Shift(m)
<1> DEFINE G == {n \in Nat : Value(s \o Zeros(n)) = Value(s) * Shift(n)}
<1>0. Value(s) \in Nat
  BY ValueType
<1>1. 0 \in G
  <2>1. Zeros(0) = <<>> /\ Shift(0) = 1
    BY ZerosNone, ShiftType
  <2>2. s \o <<>> = s
    BY ConcatEmptySeq
  <2>3. Value(s) = Value(s) * 1
    BY <1>0
  <2>4. Value(s \o Zeros(0)) = Value(s) * Shift(0)
    BY <2>1, <2>2, <2>3, Zenon
  <2> QED
    BY <2>4
<1>2. ASSUME NEW n \in Nat, n \in G PROVE n + 1 \in G
  <2>1. s \o Zeros(n) \in Seq(Nat) /\ s \o Zeros(n + 1) = Append(s \o Zeros(n), 0)
    BY ZerosAppend
  <2>2. Value(s \o Zeros(n + 1)) = 10 * Value(s \o Zeros(n)) + 0
    BY <2>1, ValueAppend
  <2>3. Shift(n) \in Nat /\ Shift(n + 1) = 10 * Shift(n)
    BY ShiftType
  <2>4. \A v, p \in Nat : 10 * (v * p) + 0 = v * (10 * p)
    OBVIOUS
  <2>5. Value(s \o Zeros(n)) = Value(s) * Shift(n)
    BY <1>2
  <2>6. 10 * (Value(s) * Shift(n)) + 0 = Value(s) * (10 * Shift(n))
    BY <1>0, <2>3, <2>4
  <2> QED
    BY <2>2, <2>3, <2>5, <2>6
<1>3. G \in SUBSET Nat
  OBVIOUS
<1> HIDE DEF G
<1>4. m \in G
  BY <1>1, <1>2, <1>3, Induction
<1> QED
  BY <1>4 DEF G

(* Zeros before a list add nothing to it.                                  *)
LEMMA ValueLeading ==
    ASSUME NEW k \in Nat, NEW s \in Seq(Nat)
    PROVE  Zeros(k) \o s \in Seq(Nat) /\ Value(Zeros(k) \o s) = Value(s)
<1> DEFINE G == {t \in Seq(Nat) : Value(Zeros(k) \o t) = Value(t)}
<1>0. Zeros(k) \in Seq(Nat)
  BY ZerosType
<1>1. <<>> \in G
  <2>1. <<>> \in Seq(Nat)
    OBVIOUS
  <2>2. <<>> \o Zeros(k) = Zeros(k) /\ Zeros(k) \o <<>> = Zeros(k)
    BY <1>0, ConcatEmptySeq
  <2>3. Value(<<>> \o Zeros(k)) = Value(<<>>) * Shift(k)
    BY <2>1, ValueShifts
  <2>4. 0 * Shift(k) = 0
    BY ShiftType
  <2> QED
    BY <2>1, <2>2, <2>3, <2>4, ValueEmpty
<1>2. ASSUME NEW t \in G, NEW d \in Nat PROVE Append(t, d) \in G
  <2>1. t \in Seq(Nat) /\ Value(Zeros(k) \o t) = Value(t)
    OBVIOUS
  <2>2. Zeros(k) \o t \in Seq(Nat)
    BY <1>0, <2>1, ConcatProperties
  <2>3. Zeros(k) \o Append(t, d) = Append(Zeros(k) \o t, d)
    BY <1>0, <2>1, AppendIsConcat, ConcatAssociative, <2>2
  <2>4. /\ Append(t, d) \in Seq(Nat) /\ Value(Append(t, d)) = 10 * Value(t) + d
        /\ Value(Append(Zeros(k) \o t, d)) = 10 * Value(Zeros(k) \o t) + d
    BY <2>1, <2>2, ValueAppend
  <2> QED
    BY <2>1, <2>3, <2>4
<1>3. G \in SUBSET Seq(Nat)
  OBVIOUS
<1> HIDE DEF G
<1>4. s \in G
  BY <1>1, <1>2, <1>3, ListInduction
<1> QED
  BY <1>0, <1>4, ConcatProperties DEF G

(* What the zeros are that a number loses at either end.                   *)
LEMMA MinIs ==
    ASSUME NEW T \in SUBSET Nat, T # {} PROVE Min(T) \in T /\ \A y \in T : Min(T) <= y
<1>1. \E x \in T : \A y \in T : x <= y
  BY LeastNatural
<1> QED
  BY <1>1 DEF Min

LEMMA MaxIs ==
    ASSUME NEW n \in Nat, NEW T \in SUBSET (1 .. n), T # {} PROVE Max(T) \in T /\ \A y \in T : y <= Max(T)
<1> DEFINE B == {m \in Nat : \A y \in T : y <= m}
<1>1. B \in SUBSET Nat /\ n \in B
  OBVIOUS
<1>2. PICK x \in B : \A y \in B : x <= y
  BY <1>1, LeastNatural
<1>3. x \in T
  <2> SUFFICES ASSUME x \notin T PROVE FALSE
    OBVIOUS
  <2>1. x \in Nat /\ \A y \in T : y \in Nat /\ y <= x /\ y # x /\ y >= 1
    BY <1>2
  <2>2. x - 1 \in Nat /\ \A y \in T : y <= x - 1
    <3>1. PICK y \in T : TRUE
      OBVIOUS
    <3>2. y \in Nat /\ y <= x /\ y >= 1
      BY <2>1
    <3>3. x - 1 \in Nat
      BY <2>1, <3>2
    <3>4. \A q \in Nat : q <= x /\ q # x => q <= x - 1
      BY <2>1
    <3> QED
      BY <2>1, <3>3, <3>4
  <2>3. x - 1 \in B /\ ~ (x <= x - 1)
    BY <2>1, <2>2
  <2> QED
    BY <1>2, <2>3
<1>4. \E m \in T : \A y \in T : m >= y
  <2>1. \A y \in T : y \in Nat /\ x \in Nat /\ y <= x
    BY <1>2
  <2> QED
    BY <1>3, <2>1
<1>5. Max(T) \in T /\ \A y \in T : Max(T) >= y
  BY <1>4 DEF Max
<1>6. \A y \in T : y \in Nat
  OBVIOUS
<1> QED
  BY <1>5, <1>6

LEMMA TrimLeftIs ==
    ASSUME NEW s \in Seq(Nat)
    PROVE  TrimLeft(s) \in Seq(Nat) /\ \E k \in Nat : s = Zeros(k) \o TrimLeft(s)
<1>0. Len(s) \in Nat /\ DOMAIN s = 1 .. Len(s)
  OBVIOUS
<1>1. CASE NonZero(s) = {}
  <2>1. \A i \in 1 .. Len(s) : s[i] = 0
    BY <1>0, <1>1 DEF NonZero
  <2>2. Zeros(Len(s)) \in Seq(Nat) /\ Len(Zeros(Len(s))) = Len(s) /\ \A i \in 1 .. Len(s) : Zeros(Len(s))[i] = 0
    BY <1>0, ZerosType
  <2>3. s = Zeros(Len(s))
    BY <2>1, <2>2, SeqEqual
  <2>4. Zeros(Len(s)) \o <<>> = Zeros(Len(s))
    BY <2>2, ConcatEmptySeq
  <2>5. TrimLeft(s) = <<>> /\ <<>> \in Seq(Nat)
    BY <1>1 DEF TrimLeft
  <2>6. s = Zeros(Len(s)) \o TrimLeft(s)
    BY <2>3, <2>4, <2>5, Zenon
  <2> QED
    BY <1>0, <2>5, <2>6
<1>2. CASE NonZero(s) # {}
  <2> DEFINE m == Min(NonZero(s))
  <2>1. NonZero(s) \in SUBSET Nat /\ NonZero(s) \in SUBSET (1 .. Len(s))
    BY <1>0 DEF NonZero
  <2>2. m \in NonZero(s) /\ \A y \in NonZero(s) : m <= y
    BY <1>2, <2>1, MinIs
  <2> HIDE DEF m
  <2>3. m \in 1 .. Len(s) /\ m \in Nat /\ m - 1 \in Nat
    BY <2>1, <2>2, <1>0
  <2> DEFINE t == SubSeq(s, m, Len(s))
             z == Zeros(m - 1)
  <2>4. TrimLeft(s) = t
    BY <1>2 DEF TrimLeft, m
  <2>5. \A i \in m .. Len(s) : i \in 1 .. Len(s)
    BY <2>3, <1>0
  <2>6. \A i \in m .. Len(s) : s[i] \in Nat
    BY <2>5
  <2>7. /\ t \in Seq(Nat) /\ Len(t) = (IF m <= Len(s) THEN Len(s) - m + 1 ELSE 0)
        /\ \A i \in 1 .. Len(s) - m + 1 : t[i] = s[m + i - 1]
    BY <1>0, <2>3, <2>6, SubSeqProperties
  <2>8. z \in Seq(Nat) /\ Len(z) = m - 1 /\ \A i \in 1 .. m - 1 : z[i] = 0
    BY <2>3, ZerosType
  <2> HIDE DEF t, z
  <2>9. Len(t) = Len(s) - m + 1
    BY <1>0, <2>3, <2>7
  <2>10. /\ z \o t \in Seq(Nat) /\ Len(z \o t) = Len(z) + Len(t)
         /\ (\A i \in 1 .. Len(z) : (z \o t)[i] = z[i])
         /\ \A i \in (Len(z) + 1) .. (Len(z) + Len(t)) : (z \o t)[i] = t[i - Len(z)]
    BY <2>7, <2>8, Joined
  <2>11. Len(z \o t) = Len(s)
    BY <1>0, <2>3, <2>8, <2>9, <2>10
  <2>12. ASSUME NEW i \in 1 .. Len(s) PROVE s[i] = (z \o t)[i]
    <3>1. i \in Nat
      BY <1>0
    <3>2. CASE i < m
      <4>1. i \in 1 .. m - 1 /\ ~ (m <= i)
        BY <3>1, <3>2, <2>3
      <4>2. s[i] = 0
        BY <2>2, <4>1, <1>0 DEF NonZero
      <4> QED
        BY <4>1, <4>2, <2>8, <2>10
    <3>3. CASE ~ (i < m)
      <4>1. /\ i \in (Len(z) + 1) .. (Len(z) + Len(t)) /\ i - Len(z) \in 1 .. Len(s) - m + 1
            /\ m + (i - Len(z)) - 1 = i
        BY <3>1, <3>3, <2>3, <2>8, <2>9, <1>0
      <4>2. (z \o t)[i] = t[i - Len(z)]
        BY <4>1, <2>10
      <4>3. t[i - Len(z)] = s[m + (i - Len(z)) - 1]
        BY <4>1, <2>7
      <4> QED
        BY <4>1, <4>2, <4>3
    <3> QED
      BY <3>2, <3>3
  <2>13. s = z \o t
    BY <2>10, <2>11, <2>12, SeqEqual
  <2> QED
    BY <2>3, <2>4, <2>7, <2>13 DEF z
<1> QED
  BY <1>1, <1>2

LEMMA TrimRightIs ==
    ASSUME NEW s \in Seq(Nat)
    PROVE  /\ TrimRight(s) \in Seq(Nat)
           /\ \E k \in Nat : s = TrimRight(s) \o Zeros(k) /\ Len(s) = Len(TrimRight(s)) + k
           /\ TrimRight(s) = <<>> \/ TrimRight(s)[Len(TrimRight(s))] # 0
<1>0. Len(s) \in Nat /\ DOMAIN s = 1 .. Len(s)
  OBVIOUS
<1>1. CASE NonZero(s) = {}
  <2>1. \A i \in 1 .. Len(s) : s[i] = 0
    BY <1>0, <1>1 DEF NonZero
  <2>2. Zeros(Len(s)) \in Seq(Nat) /\ Len(Zeros(Len(s))) = Len(s) /\ \A i \in 1 .. Len(s) : Zeros(Len(s))[i] = 0
    BY <1>0, ZerosType
  <2>3. s = Zeros(Len(s))
    BY <2>1, <2>2, SeqEqual
  <2>4. <<>> \o Zeros(Len(s)) = Zeros(Len(s))
    BY <2>2, ConcatEmptySeq
  <2>5. TrimRight(s) = <<>> /\ <<>> \in Seq(Nat) /\ Len(<<>>) = 0
    BY <1>1 DEF TrimRight
  <2>6. s = TrimRight(s) \o Zeros(Len(s))
    BY <2>3, <2>4, <2>5, Zenon
  <2>7. Len(s) = Len(TrimRight(s)) + Len(s)
    BY <2>5, <1>0
  <2> QED
    BY <1>0, <2>5, <2>6, <2>7
<1>2. CASE NonZero(s) # {}
  <2> DEFINE m == Max(NonZero(s))
  <2>1. NonZero(s) \in SUBSET (1 .. Len(s))
    BY <1>0 DEF NonZero
  <2>2. m \in NonZero(s) /\ \A y \in NonZero(s) : y <= m
    BY <1>0, <1>2, <2>1, MaxIs
  <2> HIDE DEF m
  <2>3. m \in 1 .. Len(s) /\ m \in Nat /\ Len(s) - m \in Nat /\ 1 <= m
    BY <2>1, <2>2, <1>0
  <2> DEFINE t == SubSeq(s, 1, m)
             z == Zeros(Len(s) - m)
  <2>4. TrimRight(s) = t
    BY <1>2 DEF TrimRight, m
  <2>5. \A i \in 1 .. m : i \in 1 .. Len(s)
    BY <2>3, <1>0
  <2>6. \A i \in 1 .. m : s[i] \in Nat
    BY <2>5
  <2>7. /\ t \in Seq(Nat) /\ Len(t) = (IF 1 <= m THEN m - 1 + 1 ELSE 0)
        /\ \A i \in 1 .. m - 1 + 1 : t[i] = s[1 + i - 1]
    BY <2>3, <2>6, SubSeqProperties
  <2>8. z \in Seq(Nat) /\ Len(z) = Len(s) - m /\ \A i \in 1 .. Len(s) - m : z[i] = 0
    BY <2>3, ZerosType
  <2> HIDE DEF t, z
  <2>9. Len(t) = m /\ \A i \in 1 .. m : t[i] = s[i]
    BY <2>3, <2>7
  <2>10. /\ t \o z \in Seq(Nat) /\ Len(t \o z) = Len(t) + Len(z)
         /\ (\A i \in 1 .. Len(t) : (t \o z)[i] = t[i])
         /\ \A i \in (Len(t) + 1) .. (Len(t) + Len(z)) : (t \o z)[i] = z[i - Len(t)]
    BY <2>7, <2>8, Joined
  <2>11. Len(t \o z) = Len(s)
    BY <1>0, <2>3, <2>8, <2>9, <2>10
  <2>12. ASSUME NEW i \in 1 .. Len(s) PROVE s[i] = (t \o z)[i]
    <3>1. i \in Nat
      BY <1>0
    <3>2. CASE i <= m
      <4>1. i \in 1 .. m
        BY <3>1, <3>2, <2>3
      <4> QED
        BY <4>1, <2>9, <2>10
    <3>3. CASE ~ (i <= m)
      <4>1. i \in (Len(t) + 1) .. (Len(t) + Len(z)) /\ i - Len(t) \in 1 .. Len(s) - m
        BY <3>1, <3>3, <2>3, <2>8, <2>9, <1>0
      <4>2. s[i] = 0
        BY <3>3, <2>2, <1>0 DEF NonZero
      <4> QED
        BY <4>1, <4>2, <2>8, <2>10
    <3> QED
      BY <3>2, <3>3
  <2>13. s = t \o z
    BY <2>10, <2>11, <2>12, SeqEqual
  <2>14. Len(s) = Len(t) + (Len(s) - m)
    BY <1>0, <2>3, <2>9
  <2>15. t[Len(t)] # 0
    <3>1. s[m] # 0
      BY <2>2 DEF NonZero
    <3>2. m \in 1 .. m
      BY <2>3
    <3> QED
      BY <2>9, <3>1, <3>2
  <2> QED
    BY <2>3, <2>4, <2>7, <2>13, <2>14, <2>15 DEF z
<1> QED
  BY <1>1, <1>2

LEMMA ShiftSum ==
    ASSUME NEW a \in Nat, NEW b \in Nat PROVE Shift(a + b) = Shift(a) * Shift(b)
<1>1. <<1>> \in Seq(Nat)
  OBVIOUS
<1>2. Zeros(a) \in Seq(Nat) /\ Zeros(b) \in Seq(Nat) /\ Zeros(a) \o Zeros(b) = Zeros(a + b)
  BY ZerosType, ZerosJoin
<1>3. (<<1>> \o Zeros(a)) \o Zeros(b) = <<1>> \o (Zeros(a) \o Zeros(b))
  BY <1>1, <1>2, ConcatAssociative
<1>4. <<1>> \o Zeros(a) \in Seq(Nat)
  BY <1>1, <1>2, ConcatProperties
<1>5. Value((<<1>> \o Zeros(a)) \o Zeros(b)) = Value(<<1>> \o Zeros(a)) * Shift(b)
  BY <1>4, ValueShifts
<1>6. a + b \in Nat
  OBVIOUS
<1>7. Shift(a) = Value(<<1>> \o Zeros(a)) /\ Shift(a + b) = Value(<<1>> \o Zeros(a + b))
  BY <1>6, ShiftIsValue
<1> QED
  BY <1>2, <1>3, <1>5, <1>7, Zenon

(* The point is moved through the digits: zeros are put before and after   *)
(* them, and what the point has not passed is behind it.                   *)
Up(e) == IF e > 0 THEN e ELSE 0

LEMMA ShiftUp ==
    ASSUME NEW e \in Int PROVE Up(e) \in Nat /\ Shift(e) = Shift(Up(e))
<1>1. CASE e > 0
  BY <1>1 DEF Up
<1>2. CASE ~ (e > 0)
  <2>1. e <= 0 /\ Up(e) = 0
    BY <1>2 DEF Up
  <2> QED
    BY <2>1, ShiftNone
<1> QED
  BY <1>1, <1>2

PointOf(moved) == IF moved <= 0 THEN 1 ELSE moved
DigitsOf(s, moved) == PadLeft(s, moved) \o Zeros(PointOf(moved) - Len(PadLeft(s, moved)))
WholeOf(digits, point) ==
    LET trimmed == TrimLeft(SubSeq(digits, 1, point)) IN IF trimmed = <<>> THEN <<0>> ELSE trimmed
FractionOf(digits, point) == TrimRight(SubSeq(digits, point + 1, Len(digits)))

LEMMA ZerosBeside ==
    ASSUME NEW s \in Seq(Nat), NEW n \in Nat
    PROVE  /\ Zeros(n) \o s \in Seq(Nat) /\ Len(Zeros(n) \o s) = n + Len(s)
           /\ s \o Zeros(n) \in Seq(Nat) /\ Len(s \o Zeros(n)) = Len(s) + n
<1> DEFINE z == Zeros(n)
<1>1. z \in Seq(Nat) /\ Len(z) = n
  BY ZerosType
<1> HIDE DEF z
<1>2. z \o s \in Seq(Nat) /\ Len(z \o s) = n + Len(s) /\ s \o z \in Seq(Nat) /\ Len(s \o z) = Len(s) + n
  BY <1>1, Joined
<1> QED
  BY <1>2 DEF z

Moves(s, e, lf, digits, point) ==
    \E p, q, r \in Nat : /\ digits = Zeros(p) \o (s \o Zeros(q)) /\ Up(e) = q + r
                         /\ Len(digits) - point + r = Up(-e) + lf

LEMMA PointMoves ==
    ASSUME NEW s \in Seq(Nat), NEW lw \in Nat, NEW lf \in Nat, Len(s) = lw + lf, NEW e \in Int
    PROVE  /\ DigitsOf(s, lw + e) \in Seq(Nat) /\ PointOf(lw + e) \in 1 .. Len(DigitsOf(s, lw + e))
           /\ Moves(s, e, lf, DigitsOf(s, lw + e), PointOf(lw + e))
<1> DEFINE moved == lw + e
           point == PointOf(moved)
           padded == PadLeft(s, moved)
           digits == DigitsOf(s, moved)
<1>0. moved = lw + e /\ point = (IF moved <= 0 THEN 1 ELSE moved) /\ digits = padded \o Zeros(point - Len(padded))
  BY Zenon DEF PointOf, DigitsOf
<1> SUFFICES /\ digits \in Seq(Nat) /\ point \in 1 .. Len(digits)
             /\ \E p, q, r \in Nat : /\ digits = Zeros(p) \o (s \o Zeros(q)) /\ Up(e) = q + r
                                     /\ Len(digits) - point + r = Up(-e) + lf
  BY Zenon DEF Moves
<1> HIDE DEF point, digits, moved
<1> DEFINE u == Up(e - lf)
<1>1. CASE moved <= 0
  <2>1. /\ 1 - moved \in Nat /\ 1 - moved >= 1 /\ 1 - (1 - moved + (lw + lf)) <= 0
        /\ Up(e) = 0 + 0 /\ (1 - moved + (lw + lf)) - 1 + 0 = Up(-e) + lf
    BY <1>0, <1>1 DEF Up
  <2>2. point = 1 /\ padded = Zeros(1 - moved) \o s
    BY <1>0, <1>1 DEF PadLeft
  <2>3. padded \in Seq(Nat) /\ Len(padded) = (1 - moved) + (lw + lf)
    BY <2>1, <2>2, ZerosBeside
  <2>4. point - Len(padded) <= 0 /\ point - Len(padded) \in Int /\ point \in 1 .. Len(padded)
    <3>1. point - Len(padded) = 1 - (1 - moved + (lw + lf))
      BY <2>2, <2>3
    <3>2. Len(padded) \in Nat /\ 1 - Len(padded) <= 0
      BY <2>1, <2>2, <2>3, <3>1
    <3> QED
      BY <2>2, <3>2
  <2>5. Zeros(point - Len(padded)) = <<>> /\ Zeros(0) = <<>>
    BY <2>4, ZerosNone
  <2>6. padded \o <<>> = padded /\ s \o <<>> = s
    BY <2>3, ConcatEmptySeq
  <2>7. digits = padded
    BY <1>0, <2>5, <2>6, Zenon
  <2>8. digits = Zeros(1 - moved) \o (s \o Zeros(0))
    BY <2>2, <2>5, <2>6, <2>7, Zenon
  <2>9. Len(digits) - point + 0 = Up(-e) + lf
    BY <2>1, <2>2, <2>3, <2>7
  <2>10. digits \in Seq(Nat) /\ point \in 1 .. Len(digits)
    BY <2>3, <2>4, <2>7
  <2>11. 0 \in Nat
    OBVIOUS
  <2> QED
    BY <2>1, <2>8, <2>9, <2>10, <2>11
<1>2. CASE ~ (moved <= 0)
  <2>1. /\ moved - (lw + lf) = e - lf /\ moved \in 1 .. (lw + lf) + u /\ u \in Nat
        /\ Up(e) - u \in Nat /\ Up(e) = u + (Up(e) - u)
        /\ ((lw + lf) + u) - moved + (Up(e) - u) = Up(-e) + lf
    BY <1>0, <1>2 DEF Up
  <2>2. u \in Nat
    BY <2>1
  <2>3. point = moved /\ padded = s
    BY <1>0, <1>2 DEF PadLeft
  <2>4. s \o Zeros(u) \in Seq(Nat) /\ Len(s \o Zeros(u)) = (lw + lf) + u
    BY <2>2, ZerosBeside
  <2>5. Zeros(0) \o (s \o Zeros(u)) = s \o Zeros(u)
    <3>1. Zeros(0) = <<>>
      BY ZerosNone
    <3>2. <<>> \o (s \o Zeros(u)) = s \o Zeros(u)
      BY <2>4, ConcatEmptySeq
    <3> QED
      BY <3>1, <3>2, Zenon
  <2>6. point - Len(padded) = e - lf
    BY <2>1, <2>3
  <2>7. Zeros(e - lf) = Zeros(u)
    <3>1. CASE e - lf > 0
      BY <3>1 DEF Up
    <3>2. CASE ~ (e - lf > 0)
      <4>1. e - lf <= 0 /\ e - lf \in Int /\ u = 0
        BY <3>2 DEF Up
      <4> QED
        BY <4>1, ZerosNone
    <3> QED
      BY <3>1, <3>2
  <2>8. digits = s \o Zeros(u)
    BY <1>0, <2>3, <2>6, <2>7, Zenon
  <2>9. digits = Zeros(0) \o (s \o Zeros(u))
    BY <2>5, <2>8, Zenon
  <2> DEFINE r == Up(e) - u
  <2>10. digits \in Seq(Nat) /\ Len(digits) = (lw + lf) + u
    BY <2>4, <2>8, Zenon
  <2>11. r \in Nat /\ Up(e) = u + r
    BY <2>1
  <2>12. Len(digits) - point + r = Up(-e) + lf
    BY <2>1, <2>3, <2>10
  <2>13. point \in 1 .. Len(digits)
    BY <2>1, <2>3, <2>10
  <2> HIDE DEF r, u
  <2>14. 0 \in Nat
    OBVIOUS
  <2> QED
    BY <2>2, <2>9, <2>10, <2>11, <2>12, <2>13, <2>14
<1> QED
  BY <1>1, <1>2

(* The whole part is worth what the digits before the point are.           *)
LEMMA WholeWorth ==
    ASSUME NEW head \in Seq(Nat), NEW tail \in Seq(Nat), NEW whole
    PROVE  whole = (IF TrimLeft(head) = <<>> THEN <<0>> ELSE TrimLeft(head))
              => whole \in Seq(Nat) /\ Value(whole \o tail) = Value(head \o tail)
<1> DEFINE w == IF TrimLeft(head) = <<>> THEN <<0>> ELSE TrimLeft(head)
<1>0. SUFFICES ASSUME whole = w
               PROVE  whole \in Seq(Nat) /\ Value(whole \o tail) = Value(head \o tail)
  OBVIOUS
<1>1. TrimLeft(head) \in Seq(Nat)
  BY TrimLeftIs
<1>2. PICK k \in Nat : head = Zeros(k) \o TrimLeft(head)
  BY TrimLeftIs
<1> DEFINE t == TrimLeft(head)
<1> HIDE DEF t
<1>3. t \in Seq(Nat) /\ head = Zeros(k) \o t
  BY <1>1, <1>2 DEF t
<1>4. Zeros(k) \in Seq(Nat) /\ t \o tail \in Seq(Nat)
  BY <1>3, ZerosType, ConcatProperties
<1>5. (Zeros(k) \o t) \o tail = Zeros(k) \o (t \o tail)
  <2>1. PICK z : z = Zeros(k)
    OBVIOUS
  <2>2. z \in Seq(Nat) /\ t \in Seq(Nat) /\ tail \in Seq(Nat)
    BY <1>3, <1>4, <2>1
  <2>3. (z \o t) \o tail = z \o (t \o tail)
    BY <2>2, ConcatAssociative
  <2> QED
    BY <2>1, <2>3
<1>6. Value(head \o tail) = Value(t \o tail)
  BY <1>3, <1>4, <1>5, ValueLeading
<1>7. CASE t # <<>>
  BY <1>0, <1>3, <1>6, <1>7 DEF t
<1>8. CASE t = <<>>
  <2>1. whole = <<0>> /\ <<0>> \in Seq(Nat) /\ <<>> \in Seq(Nat)
    BY <1>0, <1>8 DEF t
  <2>2. <<0>> = Zeros(1)
    <3>1. Zeros(1) \in Seq(Nat) /\ Len(Zeros(1)) = 1 /\ \A i \in 1 .. 1 : Zeros(1)[i] = 0
      BY ZerosType
    <3>2. Len(<<0>>) = 1 /\ \A i \in 1 .. 1 : <<0>>[i] = 0
      OBVIOUS
    <3>3. \A i \in 1 .. Len(<<0>>) : <<0>>[i] = Zeros(1)[i]
      BY <3>1, <3>2
    <3> QED
      BY <2>1, <3>1, <3>2, <3>3, SeqEqual
  <2>3. Value(Zeros(1) \o tail) = Value(tail)
    BY ValueLeading
  <2>4. <<>> \o tail = tail
    BY ConcatEmptySeq
  <2> QED
    BY <1>6, <1>8, <2>1, <2>2, <2>3, <2>4, Zenon
<1> QED
  BY <1>7, <1>8

(* A number that is taken keeps its value.                                 *)
ExponentOf(n) == IF n.exponent = {} THEN 0 ELSE CHOOSE x \in n.exponent : TRUE
Exact(n, d) ==
    /\ Value(n.whole \o n.fraction) * Shift(ExponentOf(n)) * Shift(Len(d.fraction)) =
          Value(d.whole \o d.fraction) * Shift(-ExponentOf(n)) * Shift(Len(n.fraction))
    /\ Last(<<1>> \o d.fraction) # 0
    /\ d.whole = <<0>> \/ d.whole[1] # 0

LEMMA LastIsKept ==
    ASSUME NEW t \in Seq(Nat), t = <<>> \/ t[Len(t)] # 0 PROVE Last(<<1>> \o t) # 0
<1> DEFINE o == <<1>>
<1>1. o \in Seq(Nat) /\ Len(o) = 1 /\ o[1] = 1
  OBVIOUS
<1> HIDE DEF o
<1>2. /\ Len(o \o t) = Len(o) + Len(t) /\ (\A i \in 1 .. Len(o) : (o \o t)[i] = o[i])
      /\ \A i \in (Len(o) + 1) .. (Len(o) + Len(t)) : (o \o t)[i] = t[i - Len(o)]
  BY <1>1, Joined
<1>3. CASE t = <<>>
  <2>1. Len(o \o t) = 1 /\ (o \o t)[1] = 1
    BY <1>1, <1>2, <1>3
  <2> QED
    BY <2>1 DEF Last, o
<1>4. CASE t # <<>>
  <2>1. Len(t) \in Nat /\ Len(t) >= 1
    BY <1>4
  <2>2. 1 + Len(t) \in (1 + 1) .. (1 + Len(t)) /\ (1 + Len(t)) - 1 = Len(t)
    BY <2>1
  <2>3. (o \o t)[1 + Len(t)] = t[Len(t)]
    BY <1>1, <1>2, <2>2
  <2>4. (o \o t)[Len(o \o t)] # 0
    BY <1>1, <1>2, <1>4, <2>3
  <2> QED
    BY <2>4 DEF Last, o
<1> QED
  BY <1>3, <1>4

LEMMA JoinedTwice ==
    ASSUME NEW a \in Seq(Nat), NEW b \in Seq(Nat), NEW c \in Seq(Nat) PROVE (a \o b) \o c = a \o (b \o c)
BY ConcatAssociative

(* The digits on both sides of the point, trimmed, are worth the same.     *)
Keeps(s, e, lf, whole, fraction) ==
    /\ Value(s) * Shift(e) * Shift(Len(fraction)) = Value(whole \o fraction) * Shift(-e) * Shift(lf)
    /\ fraction \in Seq(Nat) /\ (fraction = <<>> \/ fraction[Len(fraction)] # 0)

LEMMA WorthKept ==
    ASSUME NEW s \in Seq(Nat), NEW lf \in Nat, NEW e \in Int, NEW digits \in Seq(Nat), NEW point \in 1 .. Len(digits),
           Moves(s, e, lf, digits, point)
    PROVE  Keeps(s, e, lf, WholeOf(digits, point), FractionOf(digits, point))
<1>0. PICK p, q, r \in Nat : /\ digits = Zeros(p) \o (s \o Zeros(q)) /\ Up(e) = q + r
                             /\ Len(digits) - point + r = Up(-e) + lf
  BY DEF Moves
<1> DEFINE whole == WholeOf(digits, point)
           fraction == FractionOf(digits, point)
<1> DEFINE head == SubSeq(digits, 1, point)
           tail == SubSeq(digits, point + 1, Len(digits))
<1>1. Len(digits) \in Nat /\ point \in Nat /\ 1 <= point /\ point <= Len(digits)
  OBVIOUS
<1>2. head \in Seq(Nat) /\ tail \in Seq(Nat) /\ Len(tail) = Len(digits) - point /\ head \o tail = digits
  <2>1. \A i \in 1 .. Len(digits) : digits[i] \in Nat
    BY ElementOfSeq
  <2>2. (\A i \in 1 .. point : digits[i] \in Nat) /\ \A i \in point + 1 .. Len(digits) : digits[i] \in Nat
    <3>1. (\A i \in 1 .. point : i \in 1 .. Len(digits)) /\ \A i \in point + 1 .. Len(digits) : i \in 1 .. Len(digits)
      BY <1>1
    <3> QED
      BY <2>1, <3>1, Zenon
  <2>3. head \in Seq(Nat)
    BY <1>1, <2>2, SubSeqProperties
  <2>4. point + 1 \in Int /\ Len(digits) \in Int
    BY <1>1
  <2>5. tail \in Seq(Nat) /\ Len(tail) = IF point + 1 <= Len(digits) THEN Len(digits) - (point + 1) + 1 ELSE 0
    BY <2>4, <2>2, SubSeqProperties
  <2>6. Len(tail) = Len(digits) - point
    BY <1>1, <2>5
  <2>7. 1 \in 1 .. Len(digits) + 1 /\ point \in 1 - 1 .. Len(digits) /\ Len(digits) \in point .. Len(digits)
    BY <1>1
  <2>8. head \o tail = SubSeq(digits, 1, Len(digits))
    BY <2>7, ConcatAdjacentSubSeq
  <2>9. SubSeq(digits, 1, Len(digits)) = digits
    BY SubSeqFull
  <2> QED
    BY <2>3, <2>5, <2>6, <2>8, <2>9
<1>3. whole = (IF TrimLeft(head) = <<>> THEN <<0>> ELSE TrimLeft(head)) /\ fraction = TrimRight(tail)
  BY Zenon DEF WholeOf, FractionOf
<1> HIDE DEF head, tail, whole, fraction
<1>4. whole \in Seq(Nat) /\ Value(whole \o tail) = Value(head \o tail)
  BY <1>2, <1>3, WholeWorth
<1>5. /\ fraction \in Seq(Nat) /\ (fraction = <<>> \/ fraction[Len(fraction)] # 0)
      /\ \E k \in Nat : tail = fraction \o Zeros(k) /\ Len(tail) = Len(fraction) + k
  BY <1>2, <1>3, TrimRightIs
<1>6. PICK t \in Nat : tail = fraction \o Zeros(t) /\ Len(tail) = Len(fraction) + t
  BY <1>5
<1>7. Zeros(t) \in Seq(Nat) /\ Zeros(q) \in Seq(Nat) /\ s \o Zeros(q) \in Seq(Nat)
  BY ZerosType, ZerosBeside
<1>8. whole \o fraction \in Seq(Nat) /\ (whole \o fraction) \o Zeros(t) = whole \o (fraction \o Zeros(t))
  <2>1. whole \o fraction \in Seq(Nat)
    BY <1>4, <1>5, ConcatProperties
  <2>2. whole \in Seq(Nat) /\ fraction \in Seq(Nat) /\ Zeros(t) \in Seq(Nat)
    BY <1>4, <1>5, <1>7
  <2>3. (whole \o fraction) \o Zeros(t) = whole \o (fraction \o Zeros(t))
    BY <2>2, JoinedTwice
  <2> QED
    BY <2>1, <2>3
<1>9. Value((whole \o fraction) \o Zeros(t)) = Value(whole \o fraction) * Shift(t)
  BY <1>8, ValueShifts
<1>10. Value(digits) = Value(s) * Shift(q)
  <2>1. Value(Zeros(p) \o (s \o Zeros(q))) = Value(s \o Zeros(q))
    BY <1>7, ValueLeading
  <2>2. Value(s \o Zeros(q)) = Value(s) * Shift(q)
    BY ValueShifts
  <2> QED
    BY <1>0, <2>1, <2>2, Zenon
<1>11. Value(whole \o fraction) * Shift(t) = Value(s) * Shift(q)
  BY <1>2, <1>4, <1>6, <1>8, <1>9, <1>10, Zenon
<1> DEFINE l == Len(fraction)
<1>12. l \in Nat
  BY <1>5
<1> HIDE DEF l
<1>13. Shift(e) = Shift(q) * Shift(r)
  BY <1>0, ShiftUp, ShiftSum
<1>14. Up(-e) + lf = t + (l + r) /\ -e \in Int /\ l + r \in Nat
  <2>1. Len(tail) = Len(digits) - point /\ Len(tail) = l + t /\ Len(digits) - point + r = Up(-e) + lf
    BY <1>0, <1>2, <1>6 DEF l
  <2>2. (l + t) + r = Up(-e) + lf
    BY <2>1, Zenon
  <2>3. (l + t) + r = t + (l + r) /\ l + r \in Nat /\ -e \in Int
    BY <1>12
  <2> QED
    BY <2>2, <2>3, Zenon
<1>15. Up(-e) \in Nat /\ Shift(-e) = Shift(Up(-e))
  BY <1>14, ShiftUp
<1>16. Shift(-e) * Shift(lf) = Shift(t) * Shift(l + r)
  <2>1. Shift(Up(-e) + lf) = Shift(Up(-e)) * Shift(lf)
    BY <1>15, ShiftSum
  <2>2. Shift(t + (l + r)) = Shift(t) * Shift(l + r)
    BY <1>14, ShiftSum
  <2> QED
    BY <1>14, <1>15, <2>1, <2>2, Zenon
<1>17. Shift(l + r) = Shift(l) * Shift(r)
  BY <1>12, ShiftSum
<1>18. /\ Value(s) \in Nat /\ Value(whole \o fraction) \in Nat /\ Shift(q) \in Nat /\ Shift(r) \in Nat
       /\ Shift(t) \in Nat /\ Shift(l) \in Nat /\ Shift(-e) \in Nat /\ Shift(lf) \in Nat
  BY <1>8, <1>12, <1>15, ValueType, ShiftType
<1>19. Value(s) * (Shift(q) * Shift(r)) * Shift(l) = Value(whole \o fraction) * Shift(-e) * Shift(lf)
  <2>1. Shift(-e) * Shift(lf) = Shift(t) * (Shift(l) * Shift(r))
    BY <1>16, <1>17, Zenon
  <2> DEFINE v == Value(s)
             w == Value(whole \o fraction)
             sq == Shift(q)
             sr == Shift(r)
             st == Shift(t)
             sl == Shift(l)
             se == Shift(-e)
             sf == Shift(lf)
  <2> HIDE DEF v, w, sq, sr, st, sl, se, sf
  <2>2. /\ v \in Nat /\ w \in Nat /\ sq \in Nat /\ sr \in Nat /\ st \in Nat /\ sl \in Nat /\ se \in Nat /\ sf \in Nat
        /\ w * st = v * sq /\ se * sf = st * (sl * sr)
    BY <1>11, <1>18, <2>1 DEF v, w, sq, sr, st, sl, se, sf
  <2>3. w * se * sf = w * (se * sf)
    BY <2>2
  <2>4. w * (st * (sl * sr)) = (w * st) * (sl * sr)
    BY <2>2
  <2>5. (v * sq) * (sl * sr) = v * (sq * sr) * sl
    BY <2>2
  <2>6. v * (sq * sr) * sl = w * se * sf
    BY <2>2, <2>3, <2>4, <2>5, Zenon
  <2> QED
    BY <2>6 DEF v, w, sq, sr, st, sl, se, sf
<1>20. Value(s) * Shift(e) * Shift(l) = Value(whole \o fraction) * Shift(-e) * Shift(lf)
  BY <1>13, <1>19, Zenon
<1> QED
  BY <1>5, <1>20 DEF l, Keeps, whole, fraction

LEMMA ConversionExact ==
    ASSUME NEW n \in Numbers, DecimalFromJSONNumber(n).ok
    PROVE  Exact(n, DecimalFromJSONNumber(n))
<1> DEFINE e == ExponentOf(n)
           lw == Len(n.whole)
           lf == Len(n.fraction)
           s == n.whole \o n.fraction
           point == PointOf(lw + e)
           digits == DigitsOf(s, lw + e)
           whole == WholeOf(digits, point)
           fraction == FractionOf(digits, point)
<1>1. n.whole \in Seq(Nat) /\ n.fraction \in Seq(Nat) /\ e \in Int
  <2>1. n.whole \in Seq(0 .. 9) /\ n.fraction \in Seq(0 .. 9) /\ n.exponent \in SUBSET Int
    BY NumbersAssumption
  <2>2. 0 .. 9 \subseteq Nat
    OBVIOUS
  <2>3. n.whole \in Seq(Nat) /\ n.fraction \in Seq(Nat)
    BY <2>1, <2>2, SeqMonotonic
  <2>4. e \in Int
    BY <2>1 DEF ExponentOf
  <2> QED
    BY <2>3, <2>4
<1>2. s \in Seq(Nat) /\ Len(s) = lw + lf /\ lw \in Nat /\ lf \in Nat
  BY <1>1, Joined
<1>3. /\ DecimalFromJSONNumber(n) = [ok |-> TRUE, whole |-> whole, fraction |-> fraction]
      /\ ParseDecimal(whole, fraction)
  <2>1. DecimalFromJSONNumber(n) =
          IF /\ TextLen(n.whole, n.fraction) + ExponentLen(n.exponent) <= MaxText
             /\ e \in -MaxExponent .. MaxExponent
             /\ ParseDecimal(whole, fraction)
          THEN [ok |-> TRUE, whole |-> whole, fraction |-> fraction]
          ELSE Refused
    BY Zenon DEF DecimalFromJSONNumber, ExponentOf, PointOf, DigitsOf, WholeOf, FractionOf
  <2> HIDE DEF whole, fraction, e
  <2>2. Refused.ok = FALSE
    BY DEF Refused
  <2> QED
    BY <2>1, <2>2
<1>4. DecimalFromJSONNumber(n).whole = whole /\ DecimalFromJSONNumber(n).fraction = fraction
  <2> HIDE DEF whole, fraction
  <2> QED
    BY <1>3
<1>5. whole = <<0>> \/ whole[1] # 0
  <2> HIDE DEF whole, fraction
  <2> QED
    BY <1>3 DEF ParseDecimal
<1> HIDE DEF e, lw, lf, s
<1>6. digits \in Seq(Nat) /\ point \in 1 .. Len(digits) /\ Moves(s, e, lf, digits, point)
  BY <1>1, <1>2, PointMoves, Zenon
<1> HIDE DEF point, digits
<1>7. Keeps(s, e, lf, whole, fraction)
  BY <1>1, <1>2, <1>6, WorthKept, Zenon
<1> HIDE DEF whole, fraction
<1>8. Last(<<1>> \o fraction) # 0
  BY <1>7, LastIsKept DEF Keeps
<1> QED
  BY <1>4, <1>5, <1>7, <1>8, Zenon DEF Exact, Keeps, e, s, lf

DecimalsInv == number \in Numbers /\ (decimal.ok => Exact(number, decimal))

LEMMA DecimalsExact == DecimalsSpec => []DecimalExact
<1>1. DecimalsInit => DecimalsInv
  BY DEF DecimalsInit, DecimalsInv, Refused
<1>2. DecimalsInv /\ [DecimalsNext]_decimalVars => DecimalsInv'
  <2> SUFFICES ASSUME DecimalsInv, [DecimalsNext]_decimalVars PROVE DecimalsInv'
    OBVIOUS
  <2>1. CASE Convert
    <3>1. number' = number /\ number \in Numbers /\ decimal' = DecimalFromJSONNumber(number)
      BY <2>1 DEF Convert, DecimalsInv
    <3>2. DecimalFromJSONNumber(number).ok => Exact(number, DecimalFromJSONNumber(number))
      BY <3>1, ConversionExact
    <3> QED
      BY <3>1, <3>2, Zenon DEF DecimalsInv
  <2>2. CASE UNCHANGED decimalVars
    <3>1. number' = number /\ decimal' = decimal
      BY <2>2 DEF decimalVars
    <3> QED
      BY <3>1, Zenon DEF DecimalsInv
  <2> QED
    BY <2>1, <2>2 DEF DecimalsNext
<1>3. DecimalsInv => DecimalExact
  BY Zenon DEF DecimalsInv, DecimalExact, Exact, ExponentOf
<1> QED
  BY <1>1, <1>2, <1>3, PTL DEF DecimalsSpec

----------------------------------------------------------------------------
(* A list that names, without repetition, what another of its length       *)
(* names, names all of it (BatchResult.ValidateFor only looks one way).    *)
LEMMA OntoRange ==
    ASSUME NEW n \in Nat, NEW f, NEW S, f \in [1 .. n -> S]
    PROVE  /\ IsFiniteSet(Range(f)) /\ Cardinality(Range(f)) \in Nat /\ Cardinality(Range(f)) <= n
           /\ IsInjective(f) => Cardinality(Range(f)) = n
<1>1. f \in Surjection(1 .. n, Range(f))
  BY DEF Surjection, Range
<1>2. IsFiniteSet(1 .. n) /\ Cardinality(1 .. n) = IF 1 > n THEN 0 ELSE n - 1 + 1
  BY FS_Interval
<1>3. Cardinality(1 .. n) = n
  BY <1>2
<1>4. /\ IsFiniteSet(Range(f)) /\ Cardinality(Range(f)) <= Cardinality(1 .. n)
      /\ Cardinality(Range(f)) = Cardinality(1 .. n) <=> f \in Injection(1 .. n, Range(f))
  BY <1>1, <1>2, FS_Surjection
<1>5. IsInjective(f) => f \in Injection(1 .. n, Range(f))
  BY <1>1 DEF Injection, Surjection
<1>6. Cardinality(Range(f)) \in Nat
  BY <1>4, FS_CardinalityType
<1> QED
  BY <1>3, <1>4, <1>5, <1>6

LEMMA SameRange ==
    ASSUME NEW x \in Seq(STRING), NEW y \in Seq(STRING), Len(x) = Len(y), IsInjective(x), Range(x) \subseteq Range(y)
    PROVE  Range(y) = Range(x)
<1>1. Len(x) \in Nat /\ x \in [1 .. Len(x) -> STRING] /\ y \in [1 .. Len(x) -> STRING]
  BY LenProperties
<1>2. Cardinality(Range(x)) = Len(x) /\ IsFiniteSet(Range(y)) /\ Cardinality(Range(y)) <= Len(x) /\ Cardinality(Range(y)) \in Nat
  BY <1>1, OntoRange
<1>3. Range(x) \in SUBSET Range(y)
  OBVIOUS
<1>4. /\ Cardinality(Range(x)) <= Cardinality(Range(y))
      /\ Cardinality(Range(y)) = Cardinality(Range(x)) => Range(y) = Range(x)
  BY <1>2, <1>3, FS_Subset
<1> QED
  BY <1>1, <1>2, <1>4

(* The results a host and a consumer hold.                                 *)
Providers == {Batch[k].provider : k \in BatchKeys} \cup {""}
Models == {Batch[k].model : k \in BatchKeys} \cup {""}
Results ==
    [provider : Providers, requested : Models, model : {"", "m"}, usage : {{}, {"input", "output"}},
     answers : Seq(Answers)]
JobStates == {"none", "queued", "running", "completed", "failed", "cancelled", "expired"}
JobsTyped ==
    /\ jobs \in [BatchKeys -> [state : JobStates, result : Results]]
    /\ replies \in [BatchKeys -> SUBSET Results]
    /\ decision \in [BatchKeys -> Results]

(* A completed job, and what a consumer took, has a result for its batch.  *)
CompletedFits == \A k \in BatchKeys : jobs[k].state = "completed" => ResultFor(jobs[k].result, Batch[k])
TakenFits == \A k \in BatchKeys : decision[k] # NoResult => ResultFor(decision[k], Batch[k])
JobsInv == JobsTyped /\ CompletedFits /\ TakenFits

LEMMA NamesType ==
    ASSUME NEW list \in Seq([id : STRING, value : Int])
    PROVE  NamesIn(list) \in Seq(STRING) /\ Len(NamesIn(list)) = Len(list) /\ DOMAIN NamesIn(list) = DOMAIN list
<1>1. Len(list) \in Nat /\ DOMAIN list = 1 .. Len(list) /\ \A i \in 1 .. Len(list) : list[i].id \in STRING
  <2>1. \A i \in 1 .. Len(list) : list[i] \in [id : STRING, value : Int]
    BY ElementOfSeq
  <2>2. \A i \in 1 .. Len(list) : list[i].id \in STRING
    BY <2>1
  <2> QED
    BY <2>2, LenProperties
<1>2. NamesIn(list) = [i \in 1 .. Len(list) |-> list[i].id]
  BY <1>1, Zenon DEF NamesIn
<1>3. NamesIn(list) \in [1 .. Len(list) -> STRING]
  BY <1>1, <1>2
<1> QED
  BY <1>1, <1>3

LEMMA ResultOffers ==
    ASSUME NEW k \in BatchKeys, NEW r \in Results, ResultFor(r, Batch[k]), NEW i \in DOMAIN Batch[k].questions
    PROVE  LET q == Batch[k].questions[i]
               a == r.answers[i]
           IN  /\ q.kind = "choice" => a.choice \in Range(q.options)
               /\ q.kind = "score" => a.score <= (q.levels - 1) * One
               /\ q.kind # "noul" => Range(NamesIn(a.probabilities)) = Range(Expected(q))
<1> DEFINE qs == Batch[k].questions
           q == qs[i]
           a == r.answers[i]
<1>1. /\ qs \in Seq([id : STRING, kind : STRING, payloads : SUBSET STRING, options : Seq(STRING), levels : Nat])
      /\ One \in Nat /\ MaxScoreLevels \in Nat
      /\ LevelId \in Seq(STRING) /\ IsInjective(LevelId) /\ MaxScoreLevels <= Len(LevelId)
  BY DecisionsAssumption DEF BatchKeys
<1>2. /\ BatchValid(Batch[k]) /\ ResultValid(r) /\ Len(r.answers) = Len(qs) /\ Answered(q, a)
  BY DEF ResultFor
<1>3. QuestionValid(q)
  BY <1>2 DEF BatchValid
<1>4. r.answers \in Seq(Answers)
  BY DEF Results
<1> HIDE DEF qs
<1>5. i \in 1 .. Len(qs) /\ q \in [id : STRING, kind : STRING, payloads : SUBSET STRING, options : Seq(STRING), levels : Nat]
  <2>1. i \in DOMAIN qs
    BY DEF qs
  <2> QED
    BY <1>1, <2>1, LenProperties, ElementOfSeq
<1>6. i \in DOMAIN r.answers /\ a \in Answers
  BY <1>2, <1>4, <1>5, LenProperties, ElementOfSeq
<1> HIDE DEF q, a
<1>7. /\ a.probabilities \in Seq([id : STRING, value : Int]) /\ a.score \in Int
      /\ q.options \in Seq(STRING) /\ q.levels \in Nat
  BY <1>5, <1>6, DecisionsAssumption
<1>8. AnswerValid(a)
  BY <1>2, <1>6 DEF ResultValid, a
<1>9. q.kind = "choice" \/ q.kind = "score" \/ q.kind = "noul"
  BY <1>3 DEF QuestionValid, ExactlyOne
<1>10. NamesIn(a.probabilities) \in Seq(STRING) /\ Len(NamesIn(a.probabilities)) = Len(a.probabilities)
  BY <1>7, NamesType
<1>11. ASSUME q.kind # "noul" PROVE Range(NamesIn(a.probabilities)) = Range(Expected(q))
  <2>1. /\ Len(Expected(q)) = Len(a.probabilities)
        /\ Range(Expected(q)) \subseteq Range(NamesIn(a.probabilities))
    BY <1>2, <1>11 DEF Answered, Covers
  <2>2. Expected(q) \in Seq(STRING) /\ IsInjective(Expected(q))
    <3>1. CASE q.kind = "choice"
      <4>1. Expected(q) = q.options
        BY <3>1 DEF Expected
      <4>2. IsInjective(q.options)
        BY <1>3, <3>1 DEF QuestionValid, Unique
      <4> QED
        BY <1>7, <4>1, <4>2
    <3>2. CASE q.kind = "score"
      <4>1. Expected(q) = SubSeq(LevelId, 1, q.levels)
        BY <3>2 DEF Expected
      <4>2. q.levels \in 2 .. MaxScoreLevels
        BY <1>3, <3>2 DEF QuestionValid
      <4>3. Len(LevelId) \in Nat /\ DOMAIN LevelId = 1 .. Len(LevelId)
        BY <1>1, LenProperties
      <4>4. \A j \in 1 .. q.levels : j \in 1 .. Len(LevelId) /\ j \in Int
        BY <1>1, <1>7, <4>2, <4>3
      <4>5. \A j \in 1 .. q.levels : LevelId[j] \in STRING
        BY <1>1, <4>4, ElementOfSeq
      <4> DEFINE x == SubSeq(LevelId, 1, q.levels)
      <4>6. /\ x \in Seq(STRING) /\ Len(x) = (IF 1 <= q.levels THEN q.levels - 1 + 1 ELSE 0)
            /\ \A j \in 1 .. q.levels - 1 + 1 : x[j] = LevelId[1 + j - 1]
        BY <1>7, <4>5, SubSeqProperties
      <4> HIDE DEF x
      <4>7. Len(x) = q.levels
        BY <1>7, <4>6
      <4>8. \A j \in 1 .. q.levels : x[j] = LevelId[j]
        BY <1>7, <4>6
      <4>9. DOMAIN x = 1 .. q.levels
        BY <4>6, <4>7, LenProperties
      <4>10. IsInjective(x)
        BY <1>1, <4>3, <4>4, <4>8, <4>9 DEF IsInjective
      <4> QED
        BY <4>1, <4>6, <4>10 DEF x
    <3> QED
      BY <1>9, <1>11, <3>1, <3>2
  <2>3. Len(Expected(q)) = Len(NamesIn(a.probabilities))
    BY <1>10, <2>1
  <2> QED
    BY <1>10, <2>1, <2>2, <2>3, SameRange
<1>12. ASSUME q.kind = "choice" PROVE a.choice \in Range(q.options)
  <2>1. a.kind = "choice"
    BY <1>2, <1>12 DEF Answered
  <2>2. \E j \in DOMAIN a.probabilities : a.probabilities[j].id = a.choice
    BY <1>8, <2>1 DEF AnswerValid, ChoiceValid
  <2>3. a.choice \in Range(NamesIn(a.probabilities))
    BY <2>2 DEF Range, NamesIn
  <2>4. Expected(q) = q.options
    BY <1>12 DEF Expected
  <2> QED
    BY <1>11, <1>12, <2>3, <2>4
<1>13. ASSUME q.kind = "score" PROVE a.score <= (q.levels - 1) * One
  <2>1. a.score \in 0 .. (q.levels - 1) * One
    BY <1>2, <1>13 DEF Answered, Number
  <2>2. (q.levels - 1) * One \in Int
    BY <1>1, <1>7
  <2> QED
    BY <1>7, <2>1, <2>2
<1> QED
  BY <1>11, <1>12, <1>13 DEF q, a, qs

----------------------------------------------------------------------------
LEMMA JobsInvInit == JobsInit => JobsInv
<1> SUFFICES ASSUME JobsInit PROVE JobsInv
  OBVIOUS
<1>1. NoResult \in Results
  <2>1. <<>> \in Seq(Answers)
    OBVIOUS
  <2> QED
    BY <2>1 DEF NoResult, Results, Providers, Models
<1>2. NoJob \in [state : JobStates, result : Results] /\ NoJob.state # "completed"
  BY <1>1 DEF NoJob, JobStates
<1> QED
  BY <1>1, <1>2 DEF JobsInit, JobsInv, JobsTyped, CompletedFits, TakenFits

(* A job moves to a state that is not completed.                           *)
LEMMA JobMoves ==
    ASSUME JobsInv, NEW k \in BatchKeys, NEW st \in JobStates, st # "completed",
           jobs' = [jobs EXCEPT ![k].state = st], UNCHANGED decision, replies' \in [BatchKeys -> SUBSET Results]
    PROVE  JobsInv'
<1>1. jobs[k] \in [state : JobStates, result : Results]
  BY DEF JobsInv, JobsTyped
<1> DEFINE j == [jobs[k] EXCEPT !.state = st]
<1>2. j \in [state : JobStates, result : Results] /\ j.state = st
  BY <1>1
<1>3. jobs' = [jobs EXCEPT ![k] = j]
  OBVIOUS
<1> HIDE DEF j
<1> QED
  BY <1>2, <1>3 DEF JobsInv, JobsTyped, CompletedFits, TakenFits

LEMMA JobsStep == JobsInv /\ [JobsNext]_jobVars => JobsInv'
<1> SUFFICES ASSUME JobsInv, [JobsNext]_jobVars PROVE JobsInv'
  OBVIOUS
<1>0. /\ jobs \in [BatchKeys -> [state : JobStates, result : Results]]
      /\ replies \in [BatchKeys -> SUBSET Results] /\ decision \in [BatchKeys -> Results]
  BY DEF JobsInv, JobsTyped
<1>1. ASSUME NEW k \in BatchKeys, Start(k) PROVE JobsInv'
  <2>1. jobs' = [jobs EXCEPT ![k].state = "queued"] /\ UNCHANGED decision /\ replies' \in [BatchKeys -> SUBSET Results]
    BY <1>0, <1>1 DEF Start
  <2> QED
    BY <2>1, JobMoves DEF JobStates
<1>2. ASSUME NEW k \in BatchKeys, Dispatch(k) PROVE JobsInv'
  <2>1. jobs' = [jobs EXCEPT ![k].state = "running"] /\ UNCHANGED decision /\ replies' \in [BatchKeys -> SUBSET Results]
    BY <1>0, <1>2 DEF Dispatch
  <2> QED
    BY <2>1, JobMoves DEF JobStates
<1>3. ASSUME NEW k \in BatchKeys, Cancel(k) PROVE JobsInv'
  <2>1. PICK end \in {"cancelled", "expired"} : jobs' = [jobs EXCEPT ![k].state = end]
    BY <1>3 DEF Cancel
  <2>2. UNCHANGED decision /\ replies' \in [BatchKeys -> SUBSET Results]
    BY <1>0, <1>3 DEF Cancel
  <2>3. end \in JobStates /\ end # "completed"
    BY DEF JobStates
  <2> QED
    BY <2>1, <2>2, <2>3, JobMoves
<1>4. ASSUME NEW k \in BatchKeys, NEW p \in {Batch[q].provider : q \in BatchKeys}, NEW n \in 1 .. MaxQuestions,
             NEW list \in [1 .. n -> Answers], Reply(k, p, list)
      PROVE  JobsInv'
  <2>1. n \in Nat
    OBVIOUS
  <2>2. list \in Seq(Answers)
    BY <2>1
  <2>3. PICK x \in Results : x = [provider |-> p, requested |-> Batch[k].model, model |-> "m",
                                   usage |-> {"input", "output"}, answers |-> list]
    BY <2>2 DEF Results, Providers, Models
  <2>4. replies' = [replies EXCEPT ![k] = @ \cup {x}] /\ UNCHANGED <<jobs, decision>>
    BY <1>4, <2>3 DEF Reply
  <2>5. replies' \in [BatchKeys -> SUBSET Results]
    BY <1>0, <2>4
  <2> QED
    BY <2>4, <2>5 DEF JobsInv, JobsTyped, CompletedFits, TakenFits
<1>5. ASSUME NEW k \in BatchKeys, NEW r \in replies[k], Settle(k, r) PROVE JobsInv'
  <2>1. r \in Results /\ UNCHANGED decision
    BY <1>0, <1>5 DEF Settle
  <2>2. replies' \in [BatchKeys -> SUBSET Results]
    BY <1>0, <1>5 DEF Settle
  <2>3. CASE jobs' = jobs
    BY <2>1, <2>2, <2>3 DEF JobsInv, JobsTyped, CompletedFits, TakenFits
  <2>4. CASE jobs' = [jobs EXCEPT ![k] = [state |-> "completed", result |-> r]] /\ ResultFor(r, Batch[k])
    <3>1. PICK j \in [state : JobStates, result : Results] : j = [state |-> "completed", result |-> r]
      BY <2>1 DEF JobStates
    <3>2. jobs' = [jobs EXCEPT ![k] = j] /\ j.result = r
      BY <2>4, <3>1
    <3>3. jobs' \in [BatchKeys -> [state : JobStates, result : Results]]
      BY <1>0, <3>2
    <3>4. CompletedFits'
      <4> SUFFICES ASSUME NEW c \in BatchKeys, jobs'[c].state = "completed" PROVE ResultFor(jobs'[c].result, Batch[c])
        BY DEF CompletedFits
      <4>1. CASE c = k
        BY <1>0, <2>4, <3>2, <4>1
      <4>2. CASE c # k
        BY <1>0, <3>2, <4>2 DEF JobsInv, CompletedFits
      <4> QED
        BY <4>1, <4>2
    <3> QED
      BY <2>1, <2>2, <3>3, <3>4 DEF JobsInv, JobsTyped, TakenFits
  <2>5. CASE jobs' = [jobs EXCEPT ![k].state = "failed"]
    BY <2>1, <2>2, <2>5, JobMoves DEF JobStates
  <2> QED
    BY <1>5, <2>3, <2>4, <2>5 DEF Settle
<1>6. ASSUME NEW k \in BatchKeys, NEW from, Poll(k, from) PROVE JobsInv'
  <2>1. jobs[k].state = "completed" /\ decision' = [decision EXCEPT ![k] = jobs[k].result] /\ UNCHANGED <<jobs, replies>>
    BY <1>6 DEF Poll
  <2>2. jobs[k].result \in Results
    BY <1>0
  <2>3. ResultFor(jobs[k].result, Batch[k])
    BY <2>1 DEF JobsInv, CompletedFits
  <2>4. decision' \in [BatchKeys -> Results]
    BY <1>0, <2>1, <2>2
  <2>5. TakenFits'
    <3> SUFFICES ASSUME NEW c \in BatchKeys, decision'[c] # NoResult PROVE ResultFor(decision'[c], Batch[c])
      BY DEF TakenFits
    <3>1. CASE c = k
      BY <1>0, <2>1, <2>3, <3>1
    <3>2. CASE c # k
      BY <1>0, <2>1, <3>2 DEF JobsInv, TakenFits
    <3> QED
      BY <3>1, <3>2
  <2> QED
    BY <2>1, <2>4, <2>5 DEF JobsInv, JobsTyped, CompletedFits
<1>7. CASE UNCHANGED jobVars
  BY <1>7 DEF jobVars, JobsInv, JobsTyped, CompletedFits, TakenFits
<1> QED
  BY <1>1, <1>2, <1>3, <1>4, <1>5, <1>6, <1>7 DEF JobsNext

(* Numbers keep their values, and decisions answer what was asked: for     *)
(* every number of JSON and bound of its text, every batch of questions,   *)
(* every answer of a provider and any number of them (Exact for every      *)
(* number that is taken; ResultFor for every result that is completed).    *)
THEOREM DecisionsAreExact == DecimalsSpec /\ JobsSpec => []DecisionsExact
<1>1. JobsInv => ChosenWasOffered
  <2> SUFFICES ASSUME JobsInv, NEW k \in BatchKeys, decision[k] # NoResult, NEW i \in DOMAIN Batch[k].questions
               PROVE  LET q == Batch[k].questions[i]
                          a == decision[k].answers[i]
                      IN  /\ q.kind = "choice" => a.choice \in Range(q.options)
                          /\ q.kind = "score" => a.score <= (q.levels - 1) * One
                          /\ q.kind # "noul" => Range(NamesIn(a.probabilities)) = Range(Expected(q))
    BY Zenon DEF ChosenWasOffered
  <2>1. decision[k] \in Results /\ ResultFor(decision[k], Batch[k])
    BY DEF JobsInv, JobsTyped, TakenFits
  <2> QED
    BY <2>1, ResultOffers, Zenon
<1>2. JobsSpec => []ChosenWasOffered
  BY <1>1, JobsInvInit, JobsStep, PTL DEF JobsSpec
<1> QED
  BY <1>2, DecimalsExact, PTL DEF DecisionsExact
=============================================================================
