---------------------------- MODULE MCContracts ----------------------------
(***************************************************************************)
(* Small instances of the domain contracts, each between the parties that  *)
(* use it: a host and a project provider, a migration between two          *)
(* providers, agents that write to tasks and knowledge, the messaging      *)
(* service, decisions of an AI provider and their numbers, and coding      *)
(* sessions.  They share no state; each is a scene of its own, in which    *)
(* the others stay where they began.                                       *)
(***************************************************************************)
EXTENDS ProviderMigration, ProjectConnector, ProjectWrites, CodingSessions, Messaging,
    DecisionJobs, TLC

VARIABLE scene

(* A provider that recognizes operations for ever, for one tick or never;  *)
(* the second revision of its capabilities takes one operation back.       *)
Pol(kind, dedupFor, keptFor) ==
    [idempotency |-> kind, dedup |-> dedupFor, retention |-> keptFor, lookup |-> TRUE, reconcile |-> TRUE]
ConnectorPolicies == {Pol("durable", 0, 0), Pol("windowed", 1, 1), Pol("none", 0, 1)}
ConnectorOperation == [o1 |-> "item.patch", o2 |-> "claim.acquire"]
ConnectorOffered == <<"item.patch", "claim.acquire">>
ConnectorAuthorized == <<{"item.patch", "claim.acquire"}, {"claim.acquire"}>>

(* Each request meets one rule of its action: a status cleared as a field, *)
(* grants under another action, a transition, a completion, a publication  *)
(* without and with an expected revision, a change of permissions.         *)
Plain(facade, action) ==
    [facade |-> facade, action |-> action, resource |-> "r1", carries |-> {}, names |-> {}, review |-> "",
     fence |-> 0, expected |-> 0, bulk |-> "", places |-> {},
     native |-> [resource |-> "r1", binding |-> 1, generation |-> 1, last |-> "o1"],
     mutation |-> [id |-> "o1", source |-> 1, dependsOn |-> {}]]
WriteRequests ==
    <<  [Plain("tasks", "item.patch") EXCEPT !.carries = {"clear"}, !.names = {"status"}],
        [Plain("tasks", "item.patch") EXCEPT !.carries = {"title", "grants"}],
        [Plain("tasks", "workflow.transition") EXCEPT !.carries = {"actionId"}],
        [Plain("tasks", "agent.complete") EXCEPT !.carries = {"agent", "leaseFence"}, !.review = "approved"],
        [Plain("knowledge", "draft.publish") EXCEPT !.carries = {"versionId"}],
        [Plain("knowledge", "draft.publish") EXCEPT !.expected = 1],
        [Plain("knowledge", "permissions.set") EXCEPT !.carries = {"grants"}]>>

(* Bodies that fit both envelopes, the larger one and neither; counts of   *)
(* two bits.                                                               *)
MessageBodies == "" :> 1 @@ "s" :> 1 @@ "l" :> 3 @@ "xl" :> 4
MessageParticipants == {<<"a", "b">>, <<"b">>, <<"a", "a">>}
MessageKeys == {<<>>, <<"m", "m">>}

(* Up to three digits before and two after the point, exponents on both    *)
(* sides of their limit.                                                   *)
Digits(n) == UNION {[1 .. k -> {0, 1}] : k \in 0 .. n}
JsonNumbers ==
    {[whole |-> w, fraction |-> f, exponent |-> e] :
        w \in {w \in Digits(3) : w # <<>> /\ (w[1] = 0 => w = <<0>>)},
        f \in Digits(2), e \in {{}} \cup {{x} : x \in -4 .. 4}}

(* A choice and a score asked of one provider, a plain number of another;  *)
(* answers that fit, that are of the other batch, and that name a          *)
(* criterion or a level too many.                                          *)
Question(id, kind, options, levels) ==
    [id |-> id, kind |-> kind, payloads |-> {kind}, options |-> options, levels |-> levels]
Answer(id, kind) ==
    [id |-> id, kind |-> kind, payloads |-> {kind}, choice |-> "", score |-> 0, legend |-> <<>>,
     probabilities |-> <<>>, confidence |-> 1, noul |-> 1]
Prob(id, v) == [id |-> id, value |-> v]
Itoa == <<"0", "1", "2">>
QuestionBatch ==
    [k1 |-> [purpose |-> "evaluation", provider |-> "x", model |-> "m",
             questions |-> <<Question("q1", "choice", <<"a", "b">>, 0), Question("q2", "score", <<>>, 2)>>],
     k2 |-> [purpose |-> "routing", provider |-> "y", model |-> "m",
             questions |-> <<Question("q1", "noul", <<>>, 0)>>]]
ProviderAnswers ==
    {   [Answer("q1", "choice") EXCEPT !.choice = "a", !.probabilities = <<Prob("b", 4), Prob("a", 5)>>],
        [Answer("q1", "choice") EXCEPT
            !.choice = "c", !.probabilities = <<Prob("a", 4), Prob("b", 5), Prob("c", 1)>>],
        [Answer("q1", "choice") EXCEPT !.choice = "c", !.probabilities = <<Prob("a", 4), Prob("c", 6)>>],
        [Answer("q2", "score") EXCEPT
            !.score = 10, !.legend = <<"0", "1">>, !.probabilities = <<Prob("0", 0), Prob("1", 10)>>],
        [Answer("q2", "score") EXCEPT
            !.score = 20, !.legend = <<"0", "1", "2">>,
            !.probabilities = <<Prob("0", 0), Prob("1", 5), Prob("2", 5)>>],
        Answer("q1", "noul")}

(* A catalog that loses a mode, a model and a choice, and one that is not  *)
(* available; preferences that need what is lost, or an unknown mode.      *)
Entry(availability, modes, models, options) ==
    [id |-> "p", availability |-> availability, modes |-> modes, models |-> models, options |-> options]
Opt(id, category, choices) == [id |-> id, category |-> category, choices |-> choices]
Chosen(mode, model, values) ==
    [policy |-> "balanced", mode |-> mode, overrides |-> [provider |-> "", model |-> model, values |-> values]]
SessionCatalogs ==
    {   Entry("available", <<"ask", "auto-edit">>, <<"m1", "m2">>, <<Opt("effort", "", <<"low", "high">>)>>),
        Entry("available", <<"ask">>, <<"m1">>, <<Opt("effort", "", <<"low">>), Opt("model", "model", <<"m3">>)>>),
        Entry("unavailable", <<"ask">>, <<"m1">>, <<>>)}
SessionPreferences ==
    {   Chosen("ask", "", <<>>), Chosen("auto-edit", "m2", <<[id |-> "effort", value |-> "high"]>>),
        Chosen("ask", "m3", <<[id |-> "effort", value |-> "low"]>>), Chosen("root", "", <<>>)}
SessionPayloads == {{"message"}, {"message", "tool"}}

hVars == connectorVars
wVars == writeVars
mVars == messagingVars
dVars == decimalVars
jVars == jobVars
gVars == sessionVars
vars == <<scene, hVars, migrationVars, wVars, mVars, dVars, jVars, gVars>>

FirstNumber == number = [whole |-> <<0>>, fraction |-> <<>>, exponent |-> {}]
FirstSession ==
    provider = Entry("unavailable", <<"ask">>, <<"m1">>, <<>>) /\ session.preferences = Chosen("ask", "", <<>>)

ContractsInit ==
    /\ Init /\ scene \in {"connector", "migration", "writes", "messaging", "decimals", "decisions", "sessions"}
    /\ ConnectorInit /\ (scene # "connector" => policy = Pol("durable", 0, 0))
    /\ WritesInit
    /\ MessagingInit
    /\ DecimalsInit /\ (scene # "decimals" => FirstNumber)
    /\ JobsInit
    /\ SessionsInit /\ (scene # "sessions" => FirstSession)

ContractsNext ==
    /\ \/ scene = "connector" /\ ConnectorNext /\ UNCHANGED <<migrationVars, wVars, mVars, dVars, jVars, gVars>>
       \/ scene = "migration" /\ Next /\ UNCHANGED <<hVars, wVars, mVars, dVars, jVars, gVars>>
       \/ scene = "writes" /\ WritesNext /\ UNCHANGED <<hVars, migrationVars, mVars, dVars, jVars, gVars>>
       \/ scene = "messaging" /\ MessagingNext /\ UNCHANGED <<hVars, migrationVars, wVars, dVars, jVars, gVars>>
       \/ scene = "decimals" /\ DecimalsNext /\ UNCHANGED <<hVars, migrationVars, wVars, mVars, jVars, gVars>>
       \/ scene = "decisions" /\ JobsNext /\ UNCHANGED <<hVars, migrationVars, wVars, mVars, dVars, gVars>>
       \/ scene = "sessions" /\ SessionsNext /\ UNCHANGED <<hVars, migrationVars, wVars, mVars, dVars, jVars>>
    /\ UNCHANGED scene

ContractsSpec == ContractsInit /\ [][ContractsNext]_vars
=============================================================================
