----------------------------- MODULE TypedBus -----------------------------
(***************************************************************************)
(* Typed commands, events and streams over the untyped bus                 *)
(* (v2/plugin/typed.go, typed_validation.go, discovered_command.go): a     *)
(* caller whose descriptor was generated or discovered, a service that may *)
(* be replaced by another revision at any time, untyped peers that send    *)
(* and answer what they like, and a stream on which both revisions and     *)
(* untyped publishers wrote.                                               *)
(*                                                                         *)
(* A body is how it decodes ("exact"; "loose": with a field more, which    *)
(* only the strict decoder refuses; "not") and whether its own Validate    *)
(* accepts it.                                                             *)
(***************************************************************************)
EXTENDS Sequences

CONSTANTS
    Hashes,         \* schema hashes a descriptor carries; "" is a hand-built one
    Codes           \* fault codes a handler returns

(* "ok" marks a success; it is no fault code.                              *)
ASSUME CodesAssumption == "ok" \notin Codes

Bodies == [decodes : {"exact", "loose", "not"}, valid : BOOLEAN]
Descriptors == [hash : Hashes, validated : BOOLEAN]
NoMsg == [schema |-> "", fault |-> "", body |-> [decodes |-> "not", valid |-> FALSE]]

VARIABLES
    server,         \* the descriptor of the service mounted now
    caller,         \* the descriptor the caller holds, or NoCaller
    step,           \* of the call: idle, sent, replied, returned
    wire,           \* the request or the reply on its way
    handled,        \* what the handler was called with, and under which descriptor
    reason,         \* the fault the handler answered, or ""
    outcome,        \* of Call: a fault code, or "ok" with the reply
    log             \* messages of a stream, each with what became of it

typedVars == <<server, caller, step, wire, handled, reason, outcome, log>>

NoCaller == [hash |-> "none", validated |-> FALSE]

TypedInit ==
    /\ server \in Descriptors
    /\ caller \in Descriptors \cup {NoCaller}
    /\ step = "idle"
    /\ wire = NoMsg
    /\ handled = {}
    /\ reason = ""
    /\ outcome = [code |-> "", reply |-> NoMsg]
    /\ log = <<>>

(* checkSchema: an unstamped message is refused as well as a foreign one,  *)
(* so a descriptor without a hash accepts nothing.                         *)
CheckSchema_WhenPresent(d, m) == m.schema \in {"", d.hash}
CheckSchema(d, m) == m.schema # "" /\ m.schema = d.hash
(* decodeCommand: strict where the contract has validators.                *)
Decodes(d, b) == b.decodes = "exact" \/ (b.decodes = "loose" /\ ~d.validated)
Accepts(d, b) == Decodes(d, b) /\ (d.validated => b.valid)

(* BindDiscoveredCommand: the digest the live service advertises, always   *)
(* with validators; a service without a digest is refused.                 *)
Discover ==
    /\ caller = NoCaller
    /\ step = "idle"
    /\ server.hash # ""
    /\ caller' = [hash |-> server.hash, validated |-> TRUE]
    /\ UNCHANGED <<server, step, wire, handled, reason, outcome, log>>

(* Serve mounts another revision in place of the one that runs.            *)
Upgrade(d) ==
    /\ d # server
    /\ step \in {"idle", "sent"}
    /\ handled = {}
    /\ server' = d
    /\ UNCHANGED <<caller, step, wire, handled, reason, outcome, log>>

(* Call: the request is validated before it is sent.                       *)
CallTyped(b) ==
    /\ step = "idle"
    /\ caller # NoCaller
    /\ b.decodes = "exact"
    /\ IF caller.validated /\ ~b.valid
       THEN /\ step' = "returned"
            /\ outcome' = [code |-> "schema", reply |-> NoMsg]
            /\ UNCHANGED wire
       ELSE /\ step' = "sent"
            /\ wire' = [schema |-> caller.hash, fault |-> "", body |-> b]
            /\ UNCHANGED outcome
    /\ UNCHANGED <<server, caller, handled, reason, log>>

(* servePoint's handler: check, decode, validate, the handler, and its     *)
(* response validated in turn.  Every refusal is a reply with a fault and  *)
(* without a schema; an error that is no Fault becomes FaultUnhandled.     *)
RespondFault(f) == [schema |-> "", fault |-> f, body |-> NoMsg.body]
RefuseRequest ==
    /\ step = "sent"
    /\ ~(CheckSchema(server, wire) /\ Accepts(server, wire.body))
    /\ step' = "replied"
    /\ wire' = RespondFault("schema")
    /\ UNCHANGED <<server, caller, handled, reason, outcome, log>>
Handle(f, b) ==
    /\ step = "sent"
    /\ CheckSchema(server, wire)
    /\ Accepts(server, wire.body)
    /\ step' = "replied"
    /\ handled' = {[msg |-> wire, by |-> server, from |-> caller]}
    /\ reason' = f
    /\ wire' = IF f # "" THEN RespondFault(f)
               ELSE IF server.validated /\ ~b.valid THEN RespondFault("schema")
               ELSE [schema |-> server.hash, fault |-> "", body |-> b]
    /\ UNCHANGED <<server, caller, outcome, log>>

(* An untyped peer sends a request or answers one, with any headers.       *)
RawSend(m) ==
    /\ step = "idle"
    /\ caller = NoCaller
    /\ step' = "sent"
    /\ wire' = m
    /\ UNCHANGED <<server, caller, handled, reason, outcome, log>>
RawReply(m) ==
    /\ step = "sent"
    /\ caller # NoCaller
    /\ step' = "replied"
    /\ wire' = m
    /\ UNCHANGED <<server, caller, handled, reason, outcome, log>>

(* The rest of Call: the fault of the reply comes before its schema.       *)
OutcomeOf(m) ==
    IF m.fault # "" THEN m.fault
    ELSE IF CheckSchema(caller, m) /\ Accepts(caller, m.body) THEN "ok"
    ELSE "schema"
ReturnReply ==
    /\ step = "replied"
    /\ caller # NoCaller
    /\ step' = "returned"
    /\ outcome' = [code |-> OutcomeOf(wire), reply |-> wire]
    /\ UNCHANGED <<server, caller, wire, handled, reason, log>>

(* Emit and Append stamp the descriptor's hash; On drops and Consume terms *)
(* what it cannot read, and leaves the rest to the handler.                *)
StreamAppend(m) ==
    /\ step = "idle"
    /\ log = <<>>
    /\ log' = Append(log, [msg |-> m, fate |-> "stored"])
    /\ UNCHANGED <<server, caller, step, wire, handled, reason, outcome>>
Fate(m) ==
    IF CheckSchema(server, m) /\ m.body.decodes # "not" THEN "handed" ELSE "termed"
Consume(i) ==
    /\ step = "idle"
    /\ log[i].fate = "stored"
    /\ log' = [log EXCEPT ![i].fate = Fate(log[i].msg)]
    /\ UNCHANGED <<server, caller, step, wire, handled, reason, outcome>>

Raw == [schema : Hashes, fault : {""} \cup Codes, body : Bodies]
TypedNext ==
    \/ Discover \/ RefuseRequest \/ ReturnReply
    \/ \E d \in Descriptors : log = <<>> /\ Upgrade(d)
    \/ \E b \in Bodies : CallTyped(b)
    \/ \E f \in Codes \cup {"", "unhandled"}, b \in Bodies : b.decodes = "exact" /\ Handle(f, b)
    \/ \E m \in Raw : RawSend(m) \/ RawReply(m)
    \/ \E m \in Raw : m.fault = "" /\ caller = NoCaller /\ server.validated /\ StreamAppend(m)
    \/ \E i \in DOMAIN log : Consume(i)

TypedSpec == TypedInit /\ [][TypedNext]_typedVars

----------------------------------------------------------------------------
(* A handler runs only on a message stamped with its own revision that     *)
(* decodes and is valid for it, although the service may be replaced while *)
(* the request is on its way: revisions never mix, and a descriptor        *)
(* without a hash takes part in nothing.                                   *)
RevisionsNeverMix ==
    \A h \in handled :
        /\ h.by.hash # "" /\ h.msg.schema = h.by.hash
        /\ h.from # NoCaller => h.from.hash = h.by.hash
        /\ h.by.validated => h.msg.body.decodes = "exact" /\ h.msg.body.valid

(* Whatever answered, a call that succeeds returns a reply of the caller's *)
(* own revision, and the validated kind only a valid one.                  *)
SuccessIsTyped ==
    outcome.code = "ok" =>
        /\ caller.hash # "" /\ outcome.reply.schema = caller.hash
        /\ caller.validated => outcome.reply.body.decodes = "exact" /\ outcome.reply.body.valid

(* The fault a handler answers is the one its caller gets.                 *)
ReasonSurvives == reason # "" /\ step = "returned" => outcome.code = reason

(* The stream layer settles only what is not of its contract.              *)
TermsOnlyForeign ==
    \A i \in DOMAIN log :
        LET m == log[i].msg
            own == m.schema = server.hash /\ server.hash # "" /\ m.body.decodes # "not"
        IN /\ log[i].fate = "termed" => ~own
           /\ log[i].fate = "handed" => own

(* Between revisions, validated and hand-built descriptors and untyped     *)
(* peers, nothing is handled or returned as another type, a fault arrives  *)
(* as itself, and a stream terminates only what is foreign (checkSchema,   *)
(* Call, servePoint, Consume).                                             *)
TypesNeverMix ==
    /\ RevisionsNeverMix
    /\ SuccessIsTyped
    /\ ReasonSurvives
    /\ TermsOnlyForeign
=============================================================================
