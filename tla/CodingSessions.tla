--------------------------- MODULE CodingSessions ---------------------------
(***************************************************************************)
(* Coding sessions (v2/codingsessions): a task is routed to a provider at  *)
(* its first prompt, later prompts keep its route, and a client follows    *)
(* the session's durable events page by page.  The host is outside the     *)
(* repository: it is any host that asks ValidateFor before it starts work  *)
(* and whose sessions, events and pages pass the contract.  Meanwhile the  *)
(* provider's catalog and the user's preferences change.                   *)
(*                                                                         *)
(* A provider is [id, availability, modes, models, options], an option     *)
(* [id, category, choices]; a session's preferences are [policy, mode,     *)
(* overrides] and overrides, like a route, [provider, model, values].      *)
(* Texts are "" where they are absent or malformed.                        *)
(***************************************************************************)
EXTENDS Integers, SequencesExt

CONSTANTS
    Catalogs,       \* catalog entries the provider may advertise
    PreferenceSets, \* preferences a user may choose
    SessionIds,     \* sessions whose events the host keeps; the client's is Mine
    Mine,
    Payloads,       \* sets of payloads an event may be made with
    MaxEvents, MaxPage, MaxPrompts, MaxTasks

ASSUME MineAssumption == Mine \in SessionIds
ASSUME PageAssumption == MaxPage \in Nat

VARIABLES
    provider,       \* the catalog entry in force
    session,        \* [task, state, preferences, route, prompt]
    prompts,        \* prompts so far
    started,        \* the route and mode of work that began in this step
    events,         \* session -> its durable events
    seen            \* the events the client has applied

sessionVars == <<provider, session, prompts, started, events, seen>>

NoRoute == [provider |-> "", model |-> "", values |-> <<>>]
Nothing == [mode |-> "", route |-> NoRoute]
States == {"pending", "routing", "queued", "active", "recovering", "recovery-required",
           "completed", "ended", "failed"}
Terminal == {"completed", "ended", "failed"}

----------------------------------------------------------------------------
(* Options, values, providers, preferences, routes, sessions.              *)
Present(x) == x # ""
IdsOf(list) == [i \in DOMAIN list |-> list[i].id]
NamesValid(list) == IsInjective(list) /\ \A i \in DOMAIN list : Present(list[i])
ConfigsValid(options) ==
    /\ IsInjective(IdsOf(options))
    /\ \A i \in DOMAIN options : Present(options[i].id) /\ NamesValid(options[i].choices)
ValuesValid(values) ==
    IsInjective(IdsOf(values)) /\ \A i \in DOMAIN values : Present(values[i].id) /\ Present(values[i].value)
Permission(mode) == mode \in {"ask", "auto-edit", "full-access"}
Policy(p) == p \in {"balanced", "economy", "fastest", "maximum-quality"}
ProviderValid(p) ==
    /\ Present(p.id) /\ p.availability \in {"unknown", "probing", "available", "unavailable"}
    /\ ConfigsValid(p.options) /\ NamesValid(p.models) /\ IsInjective(p.modes)
    /\ \A i \in DOMAIN p.modes : Permission(p.modes[i])
PreferencesValid(p) == Policy(p.policy) /\ Permission(p.mode) /\ ValuesValid(p.overrides.values)
RouteValid(r) == Present(r.provider) /\ Present(r.model) /\ ValuesValid(r.values)
SessionValid(s) ==
    /\ s.state \in States /\ PreferencesValid(s.preferences)
    /\ s.route # NoRoute => RouteValid(s.route)
    /\ s.state = "active" => s.route # NoRoute
    /\ s.prompt # 0 => s.state \notin {"ended", "completed"}

(* Overrides.ValidateFor: only what the provider advertises, in a mode it  *)
(* can enforce.                                                            *)
ChoicesOf(options) == UNION {Range(o.choices) : o \in options}
ModelOffered(p, model) ==
    model \in Range(p.models) \cup ChoicesOf({o \in Range(p.options) : o.category = "model"})
ValueOffered(p, v) == v.value \in ChoicesOf({o \in Range(p.options) : o.id = v.id})
OverridesFor_AnyMode(o, p, mode) ==
    /\ p.availability = "available" /\ o.provider \in {"", p.id}
    /\ o.model # "" => ModelOffered(p, o.model)
    /\ \A i \in DOMAIN o.values : ValueOffered(p, o.values[i])
OverridesFor(o, p, mode) ==
    /\ ValuesValid(o.values) /\ ProviderValid(p) /\ Permission(mode)
    /\ p.availability = "available" /\ o.provider \in {"", p.id}
    /\ mode \in Range(p.modes)
    /\ o.model # "" => ModelOffered(p, o.model)
    /\ \A i \in DOMAIN o.values : ValueOffered(p, o.values[i])

(* Events and pages of them.                                               *)
EventValid(e) ==
    /\ e.sequence > 0 /\ Present(e.session)
    /\ e.kind \in {"message", "tool", "approval", "route", "state", "config", "failure"}
    /\ e.payloads = {e.kind}
EventsRequestValid(limit) == limit \in 1 .. MaxPage
EventsOrdered(list) ==
    \A i \in DOMAIN list : i > 1 =>
        list[i].sequence > list[i - 1].sequence /\ list[i].session = list[i - 1].session
EventsResultValid(r) ==
    /\ Len(r.events) <= MaxPage
    /\ \A i \in DOMAIN r.events : EventValid(r.events[i]) /\ r.events[i].sequence <= r.last
    /\ EventsOrdered(r.events)

----------------------------------------------------------------------------
SessionsInit ==
    /\ provider \in Catalogs
    /\ session \in {[task |-> 1, state |-> "pending", preferences |-> p, route |-> NoRoute, prompt |-> 0] :
                        p \in {p \in PreferenceSets : PreferencesValid(p)}}
    /\ prompts = 0 /\ started = Nothing
    /\ events = [s \in SessionIds |-> <<>>] /\ seen = <<>>

Advance(s) ==
    /\ SessionValid(s)
    /\ session' = s
    /\ UNCHANGED <<provider, events, seen>>

(* A prompt: the first one binds the route, the others keep it; the host   *)
(* asks the catalog of this moment before it starts.                       *)
Routed(p, o) ==
    IF session.route # NoRoute THEN session.route
    ELSE [provider |-> p.id, values |-> o.values,
          model |-> IF o.model # "" THEN o.model
                    ELSE IF p.models = <<>> THEN "" ELSE p.models[1]]
Prompt ==
    LET route == Routed(provider, session.preferences.overrides)
        mode == session.preferences.mode
    IN  /\ session.state \in {"pending", "active"} /\ session.prompt = 0
        /\ prompts < MaxPrompts
        /\ OverridesFor(route, provider, mode)
        /\ prompts' = prompts + 1
        /\ started' = [mode |-> mode, route |-> route]
        /\ Advance([session EXCEPT !.state = "active", !.route = route, !.prompt = prompts + 1])

(* Stop ends the prompt it names and no other; the turn ends by itself.    *)
Stop(id) ==
    /\ session.prompt = id
    /\ started' = Nothing /\ UNCHANGED prompts
    /\ Advance([session EXCEPT !.prompt = 0])
Lost ==
    /\ session.state = "active"
    /\ started' = Nothing /\ UNCHANGED prompts
    /\ \E s \in {"recovering", "recovery-required"} : Advance([session EXCEPT !.state = s, !.prompt = 0])
Resume ==
    /\ session.state \in {"recovering", "recovery-required"}
    /\ started' = Nothing /\ UNCHANGED prompts
    /\ \E s \in {"active", "failed"} : Advance([session EXCEPT !.state = s])
Finish ==
    /\ session.state \notin Terminal
    /\ started' = Nothing /\ UNCHANGED prompts
    /\ \E s \in {"completed", "ended"} : Advance([session EXCEPT !.state = s, !.prompt = 0])
NewTask(p) ==
    /\ session.task < MaxTasks
    /\ PreferencesValid(p)
    /\ started' = Nothing /\ UNCHANGED prompts
    /\ Advance([task |-> session.task + 1, state |-> "pending", preferences |-> p, route |-> NoRoute, prompt |-> 0])
SetPreferences(p) ==
    /\ p # session.preferences /\ PreferencesValid(p)
    /\ started' = Nothing /\ UNCHANGED prompts
    /\ Advance([session EXCEPT !.preferences = p])
Readvertise(p) ==
    /\ p # provider
    /\ provider' = p
    /\ started' = Nothing
    /\ UNCHANGED <<session, prompts, events, seen>>

(* The host records an event, and answers with any events it has: a page   *)
(* may be late, come again, or be put together of two logs.  The client    *)
(* takes a page of its session and drops what it has already applied: its  *)
(* beginning, since a page is in order.                                    *)
Record(s, kind, payloads) ==
    LET e == [session |-> s, sequence |-> Len(events[s]) + 1, kind |-> kind, payloads |-> payloads] IN
    /\ Len(events[s]) < MaxEvents
    /\ EventValid(e)
    /\ events' = [events EXCEPT ![s] = Append(@, e)]
    /\ started' = Nothing
    /\ UNCHANGED <<provider, session, prompts, seen>>
Cursor == IF seen = <<>> THEN 0 ELSE Last(seen).sequence
Follow(list) ==
    /\ EventsRequestValid(MaxPage)
    /\ EventsResultValid([events |-> list, last |-> Len(events[Mine])])
    /\ list # <<>> /\ list[1].session = Mine
    /\ \E old \in 0 .. Len(list) :
          /\ \A i \in DOMAIN list : list[i].sequence > Cursor <=> i > old
          /\ seen' = seen \o SubSeq(list, old + 1, Len(list))
    /\ started' = Nothing
    /\ UNCHANGED <<provider, session, prompts, events>>

Recorded == UNION {Range(events[s]) : s \in SessionIds}
SessionsNext ==
    \/ Prompt \/ Lost \/ Resume \/ Finish
    \/ \E id \in 1 .. MaxPrompts : Stop(id)
    \/ \E p \in PreferenceSets : NewTask(p) \/ SetPreferences(p)
    \/ \E p \in Catalogs : Readvertise(p)
    \/ \E s \in SessionIds, payloads \in Payloads : Record(s, "message", payloads)
    \/ \E n \in 1 .. MaxPage : \E list \in [1 .. n -> Recorded] : Follow(list)

SessionsSpec == SessionsInit /\ [][SessionsNext]_sessionVars

----------------------------------------------------------------------------
(* Work begins only on a route its provider offers at that moment and in a *)
(* permission mode it enforces, though route, preferences and catalog were *)
(* settled at different times (Overrides.ValidateFor).                     *)
StartedAsAdvertised ==
    started # Nothing =>
        /\ provider.availability = "available" /\ started.route.provider = provider.id
        /\ started.mode \in Range(provider.modes)
        /\ \/ started.route.model \in Range(provider.models)
           \/ \E o \in Range(provider.options) :
                 o.category = "model" /\ started.route.model \in Range(o.choices)
        /\ \A v \in Range(started.route.values) :
              \E o \in Range(provider.options) : o.id = v.id /\ v.value \in Range(o.choices)

(* What the client has applied is its session's events, each once and in   *)
(* order, however the pages overlap (EventsResult).                        *)
HistoryInOrder ==
    /\ \A i, j \in DOMAIN seen : i < j => seen[i].sequence < seen[j].sequence
    /\ \A i \in DOMAIN seen : seen[i] \in Range(events[Mine])

(* Work begins on what the provider offers and enforces at that moment,    *)
(* and a client applies its session's events once, in order                *)
(* (Overrides.ValidateFor, EventsResult).                                  *)
SessionsFollowed == StartedAsAdvertised /\ HistoryInOrder
=============================================================================
