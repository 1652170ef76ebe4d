---------------------------- MODULE Connections ----------------------------
(***************************************************************************)
(* The life of connections and of what is mounted on them: conn and Store  *)
(* in v2/bus/memory/conn.go and store.go, Serve and Stop of services.go,   *)
(* and the end of Consume and Watch.  A call that mounts something checks  *)
(* that its connection is alive, and registers what it made in several     *)
(* steps; Restart, Revoke, Close of the store and Close of a connection    *)
(* take things off the store under its lock and end them after it.         *)
(*                                                                         *)
(* A step is one hold of the store's lock or of a connection's.  What is   *)
(* mounted runs in a goroutine, a task: the delivery loop of a             *)
(* subscription (module Subscription), of a stream consumer or of a        *)
(* watcher.  A service has one subscription for each of its endpoints.     *)
(*                                                                         *)
(* A definition whose name has an underscore is a wrong version of the one *)
(* after it, kept to show that a property notices the difference.          *)
(***************************************************************************)
EXTENDS Naturals, FiniteSets

CONSTANTS
    Conns,          \* connections
    Plugins,        \* principals
    Owner,          \* the principal of each connection
    Calls,          \* calls that mount something
    Kind,           \* what each mounts: "sub", "service" or "consumer"
    Enders,         \* calls of Restart, Revoke and Close
    NoConn,         \* not a connection
    MaxEndpoints,   \* endpoints of a service
    MaxGen          \* bound: restarts

ASSUME ConnAssumption == Owner \in [Conns -> Plugins] /\ NoConn \notin Conns
ASSUME KindAssumption == Kind \in [Calls -> {"sub", "service", "consumer"}]
ASSUME BoundsAssumption == MaxGen \in Nat /\ MaxEndpoints \in Nat \ {0}

VARIABLES
    \* Store
    gen, closed, listed, subs, services,
    \* conn: its generation, closed, and its own lists
    connGen, connClosed, ownSubs, ownServices, ownConsumers,
    \* the calls in progress
    call, dropStore, dropOwn, work,
    \* what runs
    running,        \* tasks whose goroutine has not been told to end
    serving,        \* services that are not finished
    \* history
    doomed,         \* mounted when their connection was first ended
    revoked         \* connections that Revoke ended

store == <<gen, closed, listed, subs, services>>
conn == <<connGen, connClosed, ownSubs, ownServices, ownConsumers>>
vars == <<store, conn, call, dropStore, dropOwn, work, running, serving, doomed, revoked>>

(* A service has a task per endpoint, any other call one.                  *)
Size(m) == IF Kind[m] = "service" THEN MaxEndpoints ELSE 1
Tasks == {t \in Calls \X (1 .. MaxEndpoints) : t[2] <= Size(t[1])}
TasksOf(M) == {t \in Tasks : t[1] \in M}
ConnOf(m) == call[m].conn
OfConn(C) == {m \in Calls : ConnOf(m) \in C}

NoWork == [subs |-> {}, services |-> {}, conns |-> {}, consumers |-> {}]
Idle(e) == work[e] = NoWork

Stages == {"idle", "alive", "create", "created", "stored", "serve", "listed",
           "again", "unwind", "unwound", "mounted", "stopOwn", "stopFinish", "stopped", "refused"}

Init ==
    /\ gen = 0 /\ closed = FALSE
    /\ listed = {} /\ subs = {} /\ services = {}
    /\ connGen = [c \in Conns |-> 0]
    /\ connClosed = [c \in Conns |-> TRUE]
    /\ ownSubs = [c \in Conns |-> {}]
    /\ ownServices = [c \in Conns |-> {}]
    /\ ownConsumers = [c \in Conns |-> {}]
    /\ call = [m \in Calls |-> [at |-> "idle", conn |-> NoConn, n |-> 0]]
    /\ dropStore = {} /\ dropOwn = {}
    /\ work = [e \in Enders |-> NoWork]
    /\ running = {} /\ serving = {}
    /\ doomed = {} /\ revoked = {}

Goto(m, l) == call' = [call EXCEPT ![m].at = l]

----------------------------------------------------------------------------
(* Connect gives a new connection: c has not been used.  One of a closed   *)
(* store is closed from the start and refuses every call.                  *)
Fresh(c) == c \notin listed /\ connClosed[c] /\ OfConn({c}) = {}

Connect(c) ==
    /\ Fresh(c) /\ ~closed
    /\ \A e \in Enders : c \notin work[e].conns
    /\ connGen' = [connGen EXCEPT ![c] = gen]
    /\ connClosed' = [connClosed EXCEPT ![c] = FALSE]
    /\ listed' = listed \cup {c}
    /\ UNCHANGED <<gen, closed, subs, services, ownSubs, ownServices, ownConsumers,
                   call, dropStore, dropOwn, work, running, serving, doomed, revoked>>

----------------------------------------------------------------------------
(* alive reads the connection, then the store.                             *)
AliveConn(m, c) ==
    /\ call[m].at = "idle"
    /\ ~Fresh(c)
    /\ call' = [call EXCEPT ![m] = [at |-> IF connClosed[c] THEN "refused" ELSE "alive",
                                    conn |-> c, n |-> 0]]
    /\ UNCHANGED <<store, conn, dropStore, dropOwn, work, running, serving, doomed,
                   revoked>>

Outdated(c) == closed \/ connGen[c] # gen

Refused(m) == IF Kind[m] = "service" THEN "unwind" ELSE "refused"

AliveStore(m) ==
    /\ call[m].at = "alive"
    /\ Goto(m, IF Outdated(ConnOf(m)) THEN Refused(m) ELSE "create")
    /\ UNCHANGED <<store, conn, dropStore, dropOwn, work, running, serving, doomed,
                   revoked>>

(* subscribe: newSubscription, store.subs, then conn.subs.  A service      *)
(* subscribes for each endpoint in turn.                                   *)
Current(m) == <<m, call[m].n + 1>>

NewSubscription(m) ==
    /\ call[m].at = "create" /\ Kind[m] # "consumer"
    /\ running' = running \cup {Current(m)}
    /\ serving' = IF Kind[m] = "service" THEN serving \cup {m} ELSE serving
    /\ Goto(m, "created")
    /\ UNCHANGED <<store, conn, dropStore, dropOwn, work, doomed, revoked>>

Ended(T) == T \cap running

Register_NoRecheck(m) ==
    /\ call[m].at = "created"
    /\ subs' = subs \cup {Current(m)}
    /\ Goto(m, "stored")
    /\ UNCHANGED <<running, dropStore>>
    /\ UNCHANGED <<gen, closed, listed, services, conn, dropOwn, work, serving, doomed,
                   revoked>>

Register(m) ==
    /\ call[m].at = "created"
    /\ IF Outdated(ConnOf(m))
       THEN /\ running' = running \ {Current(m)}
            /\ dropStore' = dropStore \cup Ended({Current(m)})
            /\ Goto(m, Refused(m))
            /\ UNCHANGED subs
       ELSE /\ subs' = subs \cup {Current(m)}
            /\ Goto(m, "stored")
            /\ UNCHANGED <<running, dropStore>>
    /\ UNCHANGED <<gen, closed, listed, services, conn, dropOwn, work, serving, doomed,
                   revoked>>


AppendSub(m) ==
    /\ call[m].at = "stored"
    /\ ownSubs' = [ownSubs EXCEPT ![ConnOf(m)] = @ \cup {Current(m)}]
    /\ call' = [call EXCEPT ![m] =
                  [at   |-> IF call[m].n + 1 < Size(m) THEN "again"
                            ELSE IF Kind[m] = "service" THEN "serve" ELSE "mounted",
                   conn |-> ConnOf(m),
                   n    |-> call[m].n + 1]]
    /\ UNCHANGED <<store, connGen, connClosed, ownServices, ownConsumers, dropStore,
                   dropOwn, work, running, serving, doomed, revoked>>

(* The next endpoint checks that the connection is alive again.            *)
AliveAgain(m) ==
    /\ call[m].at = "again"
    /\ Goto(m, IF connClosed[ConnOf(m)] THEN "unwind" ELSE "alive")
    /\ UNCHANGED <<store, conn, dropStore, dropOwn, work, running, serving, doomed,
                   revoked>>

(* Serve lists the service without another look at its connection.         *)
ListService(m) ==
    /\ call[m].at = "serve"
    /\ services' = services \cup {m}
    /\ Goto(m, "listed")
    /\ UNCHANGED <<gen, closed, listed, subs, conn, dropStore, dropOwn, work, running,
                   serving, doomed, revoked>>

AppendService(m) ==
    /\ call[m].at = "listed"
    /\ ownServices' = [ownServices EXCEPT ![ConnOf(m)] = @ \cup {m}]
    /\ Goto(m, "mounted")
    /\ UNCHANGED <<store, connGen, connClosed, ownSubs, ownConsumers, dropStore,
                   dropOwn, work, running, serving, doomed, revoked>>

(* An endpoint was refused: Serve ends those before it, then takes them    *)
(* off the store.                                                          *)
Unwind_ForgetsEndpoints(m) ==
    /\ call[m].at = "unwind"
    /\ serving' = serving \ {m}
    /\ Goto(m, "unwound")
    /\ UNCHANGED <<store, conn, dropStore, dropOwn, work, running, doomed, revoked>>

Unwind(m) ==
    /\ call[m].at = "unwind"
    /\ running' = running \ TasksOf({m})
    /\ dropStore' = dropStore \cup Ended(TasksOf({m}))
    /\ serving' = serving \ {m}
    /\ Goto(m, "unwound")
    /\ UNCHANGED <<store, conn, dropOwn, work, doomed, revoked>>

UnwindDrop(m) ==
    /\ call[m].at = "unwound"
    /\ subs' = subs \ TasksOf({m})
    /\ Goto(m, "refused")
    /\ UNCHANGED <<gen, closed, listed, services, conn, dropStore, dropOwn, work, running,
                   serving, doomed, revoked>>

(* Consume and Watch: the consumer starts and its connection notes it.     *)
AppendConsumer(m) ==
    /\ call[m].at = "create" /\ Kind[m] = "consumer"
    /\ ownConsumers' = [ownConsumers EXCEPT ![ConnOf(m)] = @ \cup {Current(m)}]
    /\ running' = running \cup {Current(m)}
    /\ Goto(m, "mounted")
    /\ UNCHANGED <<store, connGen, connClosed, ownSubs, ownServices, dropStore, dropOwn,
                   work, serving, doomed, revoked>>

Mount(m) ==
    \/ AliveStore(m) \/ NewSubscription(m) \/ Register(m) \/ AppendSub(m)
    \/ AliveAgain(m) \/ ListService(m) \/ AppendService(m) \/ Unwind(m)
    \/ UnwindDrop(m)
    \/ AppendConsumer(m)

----------------------------------------------------------------------------
(* Stop of a service: the store's lists, the connection's, then finish.    *)
StopService(m) ==
    /\ call[m].at = "mounted" /\ Kind[m] = "service"
    /\ services' = services \ {m}
    /\ subs' = subs \ TasksOf({m})
    /\ Goto(m, "stopOwn")
    /\ UNCHANGED <<gen, closed, listed, conn, dropStore, dropOwn, work, running, serving,
                   doomed, revoked>>

StopOwn(m) ==
    /\ call[m].at = "stopOwn"
    /\ ownServices' = [ownServices EXCEPT ![ConnOf(m)] = @ \ {m}]
    /\ Goto(m, "stopFinish")
    /\ UNCHANGED <<store, connGen, connClosed, ownSubs, ownConsumers, dropStore, dropOwn,
                   work, running, serving, doomed, revoked>>

StopFinish(m) ==
    /\ call[m].at = "stopFinish"
    /\ running' = running \ TasksOf({m})
    /\ dropStore' = dropStore \cup Ended(TasksOf({m}))
    /\ serving' = serving \ {m}
    /\ Goto(m, "stopped")
    /\ UNCHANGED <<store, conn, dropOwn, work, doomed, revoked>>

(* A task ends by itself: Cancel, Drain, overflow, a panic, its context.   *)
TaskEnds(t) ==
    /\ t \in running
    /\ running' = running \ {t}
    /\ dropStore' = IF Kind[t[1]] = "consumer" THEN dropStore ELSE dropStore \cup {t}
    /\ UNCHANGED <<store, conn, call, dropOwn, work, serving, doomed, revoked>>

(* The goroutine that finish starts, dropSub; a delivery drops as well.    *)
DropFromStore(t) ==
    /\ t \in dropStore
    /\ subs' = subs \ {t}
    /\ dropStore' = dropStore \ {t}
    /\ dropOwn' = dropOwn \cup {t}
    /\ UNCHANGED <<gen, closed, listed, services, conn, call, work, running, serving,
                   doomed, revoked>>

DropFromOwn(t) ==
    /\ t \in dropOwn
    /\ ownSubs' = [ownSubs EXCEPT ![ConnOf(t[1])] = @ \ {t}]
    /\ dropOwn' = dropOwn \ {t}
    /\ UNCHANGED <<store, connGen, connClosed, ownServices, ownConsumers, call, dropStore,
                   work, running, serving, doomed, revoked>>

MatchDrops ==
    /\ ~(subs \subseteq running)
    /\ subs' = subs \cap running
    /\ UNCHANGED <<gen, closed, listed, services, conn, call, dropStore, dropOwn, work,
                   running, serving, doomed, revoked>>

----------------------------------------------------------------------------
(* Ending connections.  Under the store's lock an ender takes the          *)
(* connections C, the tasks T and the services M off the store.            *)
Take(e, C, T, M) ==
    /\ Idle(e)
    /\ work' = [work EXCEPT ![e] =
                  [subs |-> T, services |-> M, conns |-> C, consumers |-> {}]]
    /\ listed' = listed \ C
    /\ subs' = subs \ T
    /\ services' = services \ M
    /\ doomed' = doomed \cup {m \in OfConn(C \cap listed) : call[m].at = "mounted"}

Restart(e) ==
    /\ ~closed /\ gen < MaxGen
    /\ gen' = gen + 1
    /\ Take(e, listed, subs, services)
    /\ UNCHANGED <<closed, conn, call, dropStore, dropOwn, running, serving, revoked>>

CloseStore(e) ==
    /\ ~closed
    /\ closed' = TRUE
    /\ Take(e, listed, subs, services)
    /\ UNCHANGED <<gen, conn, call, dropStore, dropOwn, running, serving, revoked>>

OwnedBy(p, m) == ConnOf(m) # NoConn /\ Owner[ConnOf(m)] = p

Revoke(e, p) ==
    /\ Take(e, {c \in listed : Owner[c] = p}, {t \in subs : OwnedBy(p, t[1])},
            {m \in services : OwnedBy(p, m)})
    /\ revoked' = revoked \cup {c \in listed : Owner[c] = p}
    /\ UNCHANGED <<gen, closed, conn, call, dropStore, dropOwn, running, serving>>

(* Close of a connection takes what the connection lists.                  *)
CloseConn_ByOwner(e, c) ==
    /\ ~Fresh(c) /\ Idle(e)
    /\ work' = [work EXCEPT ![e] = [subs |-> ownSubs[c], services |-> ownServices[c],
                                    conns |-> {c}, consumers |-> {}]]
    /\ listed' = listed \ {c}
    /\ subs' = subs \ TasksOf(OfConn({c}))
    /\ services' = services \ OfConn({c})
    /\ connClosed' = [connClosed EXCEPT ![c] = TRUE]
    /\ ownSubs' = [ownSubs EXCEPT ![c] = {}]
    /\ ownServices' = [ownServices EXCEPT ![c] = {}]
    /\ UNCHANGED <<gen, closed, connGen, ownConsumers, call, dropStore, dropOwn, running,
                   serving, doomed, revoked>>

CloseConn(e, c) ==
    /\ ~Fresh(c)
    /\ Take(e, {c}, ownSubs[c], ownServices[c])
    /\ connClosed' = [connClosed EXCEPT ![c] = TRUE]
    /\ ownSubs' = [ownSubs EXCEPT ![c] = {}]
    /\ ownServices' = [ownServices EXCEPT ![c] = {}]
    /\ UNCHANGED <<gen, closed, connGen, ownConsumers, call, dropStore, dropOwn, running,
                   serving, revoked>>

(* finishAll, then markDead, which ends the consumers of its connection.   *)
FinishSub(e, t) ==
    /\ t \in work[e].subs
    /\ work' = [work EXCEPT ![e].subs = @ \ {t}]
    /\ running' = running \ {t}
    /\ dropStore' = dropStore \cup Ended({t})
    /\ UNCHANGED <<store, conn, call, dropOwn, serving, doomed, revoked>>

FinishService(e, m) ==
    /\ work[e].subs = {} /\ m \in work[e].services
    /\ work' = [work EXCEPT ![e].services = @ \ {m}]
    /\ running' = running \ TasksOf({m})
    /\ dropStore' = dropStore \cup Ended(TasksOf({m}))
    /\ serving' = serving \ {m}
    /\ UNCHANGED <<store, conn, call, dropOwn, doomed, revoked>>

MarkDead_ForgetsConsumers(e, c) ==
    /\ work[e].subs = {} /\ work[e].services = {} /\ work[e].consumers = {}
    /\ c \in work[e].conns
    /\ work' = [work EXCEPT ![e].conns = @ \ {c}]
    /\ connClosed' = [connClosed EXCEPT ![c] = TRUE]
    /\ ownSubs' = [ownSubs EXCEPT ![c] = {}]
    /\ ownServices' = [ownServices EXCEPT ![c] = {}]
    /\ ownConsumers' = [ownConsumers EXCEPT ![c] = {}]
    /\ UNCHANGED <<store, connGen, call, dropStore, dropOwn, running, serving, doomed,
                   revoked>>

MarkDead(e, c) ==
    /\ work[e].subs = {} /\ work[e].services = {} /\ work[e].consumers = {}
    /\ c \in work[e].conns
    /\ work' = [work EXCEPT ![e].conns = @ \ {c}, ![e].consumers = ownConsumers[c]]
    /\ connClosed' = [connClosed EXCEPT ![c] = TRUE]
    /\ ownSubs' = [ownSubs EXCEPT ![c] = {}]
    /\ ownServices' = [ownServices EXCEPT ![c] = {}]
    /\ ownConsumers' = [ownConsumers EXCEPT ![c] = {}]
    /\ UNCHANGED <<store, connGen, call, dropStore, dropOwn, running, serving, doomed,
                   revoked>>

FinishConsumer(e, t) ==
    /\ t \in work[e].consumers
    /\ work' = [work EXCEPT ![e].consumers = @ \ {t}]
    /\ running' = running \ {t}
    /\ UNCHANGED <<store, conn, call, dropStore, dropOwn, serving, doomed, revoked>>

EndWork(e) ==
    \/ \E t \in Tasks : FinishSub(e, t) \/ FinishConsumer(e, t)
    \/ \E m \in Calls : FinishService(e, m)
    \/ \E c \in Conns : MarkDead(e, c)

Next ==
    \/ \E c \in Conns : Connect(c)
    \/ \E m \in Calls : Mount(m) \/ \E c \in Conns : AliveConn(m, c)
    \/ \E m \in Calls : StopService(m) \/ StopOwn(m) \/ StopFinish(m)
    \/ \E t \in Tasks : TaskEnds(t) \/ DropFromStore(t) \/ DropFromOwn(t)
    \/ MatchDrops
    \/ \E e \in Enders :
          \/ Restart(e) \/ CloseStore(e) \/ EndWork(e)
          \/ \E p \in Plugins : Revoke(e, p)
          \/ \E c \in Conns : CloseConn(e, c)

Spec == Init /\ [][Next]_vars

----------------------------------------------------------------------------
(* The types; only what was made is listed or runs.                        *)
TypeOK ==
    /\ gen \in Nat /\ closed \in BOOLEAN
    /\ listed \subseteq Conns /\ subs \subseteq Tasks /\ services \subseteq Calls
    /\ connGen \in [Conns -> Nat] /\ connClosed \in [Conns -> BOOLEAN]
    /\ ownSubs \in [Conns -> SUBSET Tasks]
    /\ ownServices \in [Conns -> SUBSET Calls]
    /\ ownConsumers \in [Conns -> SUBSET Tasks]
    /\ call \in [Calls -> [at : Stages, conn : Conns \cup {NoConn}, n : Nat]]
    /\ dropStore \subseteq Tasks /\ dropOwn \subseteq Tasks
    /\ work \in [Enders -> [subs : SUBSET Tasks, services : SUBSET Calls,
                            conns : SUBSET Conns, consumers : SUBSET Tasks]]
    /\ running \subseteq Tasks /\ serving \subseteq Calls
    /\ doomed \subseteq Calls /\ revoked \subseteq Conns

(* A restart leaves nothing of an earlier generation where messages are    *)
(* delivered, although subscriptions that began before it may register     *)
(* after it.                                                               *)
RestartIsClean == \A t \in subs : ~Outdated(ConnOf(t[1]))

(* A delivery loop that runs can still be withdrawn: the store lists it,   *)
(* or the call that made it or that is ending it still holds it.           *)
StillHeld(t) ==
    \/ t \in subs
    \/ call[t[1]].at = "created" /\ t = Current(t[1])
    \/ call[t[1]].at \in {"stopOwn", "stopFinish"}
    \/ \E e \in Enders : t \in work[e].subs \/ t[1] \in work[e].services

NoOrphans == \A t \in running : Kind[t[1]] # "consumer" => StillHeld(t)

(* What a connection had mounted when it was ended has ended, once nobody  *)
(* is still ending connections: subscriptions, services with all their     *)
(* endpoints, and consumers, also when two calls end it at once.           *)
EndIsComplete ==
    (\A e \in Enders : Idle(e))
    => \A m \in doomed : m \notin serving /\ TasksOf({m}) \cap running = {}

(* A call that fails leaves nothing behind, also a Serve whose second      *)
(* endpoint is refused.                                                    *)
RefusedLeavesNothing ==
    \A m \in Calls : call[m].at = "refused"
        => m \notin serving /\ TasksOf({m}) \cap (running \cup subs) = {}

----------------------------------------------------------------------------
(* store.go:181: Revoke "ends every connection for pluginID.  Their        *)
(* subscriptions' Err becomes a bus.Fault with Code bus.FaultWithdrawn and *)
(* Done closes".                                                           *)
Quiet ==
    /\ \A e \in Enders : Idle(e)
    /\ \A m \in Calls : call[m].at \in {"idle", "mounted", "stopped", "refused"}
RevokeWithdraws == Quiet => \A m \in OfConn(revoked) : TasksOf({m}) \cap running = {}
=============================================================================
