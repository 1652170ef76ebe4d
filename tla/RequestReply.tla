---------------------------- MODULE RequestReply ----------------------------
(***************************************************************************)
(* Request, respond and Services.Call of the in-memory substrate           *)
(* (v2/bus/memory/conn.go, services.go).  A caller registers a reply inbox *)
(* in the store, delivers its message to the endpoints that match, waits   *)
(* for the first of a reply, its context and its timer, and removes the    *)
(* inbox.  A handler may answer a message several times and long after it  *)
(* was delivered, from any goroutine.                                      *)
(*                                                                         *)
(* A step is what one goroutine does under one hold of a lock, or one      *)
(* operation on a channel.  A call is named by its caller and its number,  *)
(* and its reply channel has the call's name.                              *)
(***************************************************************************)
EXTENDS Naturals, Sequences, FiniteSets, SequencesExt

CONSTANTS
    Callers,        \* goroutines that call Request or Services.Call
    Conns,          \* the connections they use
    ConnOf,         \* [Callers -> Conns]
    PluginOf,       \* [Conns -> plugin ids]
    Endpoints,      \* a sequence: the subscriptions that match, in the store's order
    Groups,         \* the queue groups to try: a set of [endpoints -> group or NoGroup]
    NoGroup,        \* SubOptions.QueueGroup is empty
    Faulty,         \* the endpoints whose handler answers with RespondFault
    PendingLimit,   \* SubOptions.PendingLimit
    MaxCalls,       \* bound: calls per caller
    MaxAnswers,     \* bound: answers to one delivered message
    MaxGen          \* bound: restarts of the store

Ends == Range(Endpoints)

ASSUME CallersAssumption == IsFiniteSet(Callers) /\ ConnOf \in [Callers -> Conns]
ASSUME EndpointsAssumption ==
    /\ Endpoints \in Seq(Ends)
    /\ \A i, j \in DOMAIN Endpoints : Endpoints[i] = Endpoints[j] => i = j
    /\ \A f \in Groups : f \in [Ends -> Range(f)]
ASSUME BoundsAssumption ==
    PendingLimit \in Nat /\ MaxCalls \in Nat /\ MaxAnswers \in Nat /\ MaxGen \in Nat

Calls == Callers \X (1 .. MaxCalls)

VARIABLES
    gen, connGen,   \* the store's generation and each connection's
    inboxN,         \* conn.inboxN
    inboxes,        \* Store.inboxes: reply subject -> channel
    chan,           \* what is in each call's one-place reply channel
    callerPc, round, \* each caller's next step and the number of its call
    reply,          \* the reply subject of the caller's current call
    targets,        \* endpoints deliver has still to enqueue to
    returned,       \* what each call returned
    group,          \* the queue group of each endpoint
    rr,             \* Store.rr, the round robin of a group
    ep,             \* live, unlisted (no longer in store.subs), finished
    copies,         \* the endpoint's queue of delivered messages
    held,           \* messages a handler has, and may answer
    answers,        \* answers given so far to a delivered message
    sending,        \* answers between the look-up of the inbox and the send
    errors,         \* service.errors
    delivered,      \* history: the endpoints each call was delivered to
    first           \* history: the first answer each channel accepted

callerVars == <<callerPc, round, reply, targets, returned>>
handlerVars == <<held, answers, sending, errors>>
callVars == <<gen, connGen, inboxN, inboxes, chan, callerVars, group, rr, ep, copies,
             handlerVars, delivered, first>>

Names == {PluginOf[c] : c \in Conns} \X (0 .. MaxGen) \X Nat
Copies == [call : Calls, to : Names, ep : Ends]
Answer == [call : Calls, ep : Ends, fault : BOOLEAN]
Outcomes == {"none", "reply", "fault", "timeout", "no_responders", "withdrawn"}

(* Who answered, and which call it answered, when an answer is returned.   *)
Outcome(kind) == [kind |-> kind, from |-> {}]
Call(a) == <<a, round[a]>>
Alive(c) == connGen[c] = gen
Return(a, r) == returned' = [returned EXCEPT ![Call(a)] = r]

CallsInit ==
    /\ gen = 0
    /\ connGen = [c \in Conns |-> 0]
    /\ inboxN = [c \in Conns |-> 0]
    /\ inboxes = <<>>
    /\ chan = [x \in Calls |-> <<>>]
    /\ callerPc = [a \in Callers |-> "idle"]
    /\ round = [a \in Callers |-> 0]
    /\ reply = [a \in Callers |-> <<>>]
    /\ targets = [a \in Callers |-> {}]
    /\ returned = [x \in Calls |-> Outcome("none")]
    /\ group \in Groups
    /\ rr = [g \in Range(group) |-> 0]
    /\ ep = [e \in Ends |-> "live"]
    /\ copies = [e \in Ends |-> <<>>]
    /\ held = {}
    /\ answers = [x \in Calls \X Ends |-> 0]
    /\ sending = {}
    /\ errors = [e \in Ends |-> 0]
    /\ delivered = [x \in Calls |-> {}]
    /\ first = [x \in Calls |-> <<>>]

----------------------------------------------------------------------------
(* The caller.                                                             *)

(* The reply subject: "_INBOX.", the plugin id, the connection's           *)
(* generation and the connection's own count of requests.                  *)
ReplySubject_NoGeneration(c, n) == <<PluginOf[c], 0, n>>
ReplySubject(c, n) == <<PluginOf[c], connGen[c], n>>

(* alive, then the next number of the connection.                          *)
NextInbox(c) == inboxN[c] + 1

Begin(a) ==
    LET c == ConnOf[a] IN
    /\ callerPc[a] = "idle"
    /\ round[a] < MaxCalls
    /\ Alive(c)
    /\ round' = [round EXCEPT ![a] = @ + 1]
    /\ inboxN' = [inboxN EXCEPT ![c] = NextInbox(c)]
    /\ reply' = [reply EXCEPT ![a] = ReplySubject(c, NextInbox(c))]
    /\ callerPc' = [callerPc EXCEPT ![a] = "register"]
    /\ UNCHANGED <<gen, connGen, inboxes, chan, targets, returned, group, rr, ep,
                   copies, handlerVars, delivered, first>>

Refuse(a) ==
    /\ callerPc[a] = "idle"
    /\ round[a] < MaxCalls
    /\ ~Alive(ConnOf[a])
    /\ round' = [round EXCEPT ![a] = @ + 1]
    /\ returned' = [returned EXCEPT ![<<a, round[a] + 1>>] = Outcome("withdrawn")]
    /\ UNCHANGED <<gen, connGen, inboxN, inboxes, chan, callerPc, reply, targets, group, rr,
                   ep, copies, handlerVars, delivered, first>>

Register(a) ==
    /\ callerPc[a] = "register"
    /\ inboxes' = [n \in DOMAIN inboxes \cup {reply[a]} |->
                      IF n = reply[a] THEN Call(a) ELSE inboxes[n]]
    /\ callerPc' = [callerPc EXCEPT ![a] = "match"]
    /\ UNCHANGED <<gen, connGen, inboxN, chan, round, reply, targets, returned, group,
                   rr, ep, copies, handlerVars, delivered, first>>

(* matchLocked: every live endpoint outside a group, and the one member of *)
(* each group whose turn it is.                                            *)
Listed(S) ==
    LET upTo[i \in 0 .. Len(Endpoints)] ==
          IF i = 0 THEN <<>>
          ELSE IF Endpoints[i] \in S THEN Append(upTo[i - 1], Endpoints[i]) ELSE upTo[i - 1]
    IN  upTo[Len(Endpoints)]
Members(g) == Listed({e \in Ends : ep[e] = "live" /\ group[e] = g})
LiveGroups == {g \in Range(group) \ {NoGroup} : Members(g) # <<>>}
Turn(g) == Members(g)[(rr[g] % Len(Members(g))) + 1]
Matched == Range(Members(NoGroup)) \cup {Turn(g) : g \in LiveGroups}
NextTurn == [g \in DOMAIN rr |-> IF g \in LiveGroups THEN rr[g] + 1 ELSE rr[g]]

MatchCall(a) ==
    /\ callerPc[a] = "match"
    /\ rr' = NextTurn
    /\ targets' = [targets EXCEPT ![a] = Matched]
    /\ \/ /\ Matched = {}
          /\ Return(a, Outcome("no_responders"))
          /\ callerPc' = [callerPc EXCEPT ![a] = "cleanup"]
       \/ /\ Matched # {}
          /\ callerPc' = [callerPc EXCEPT ![a] = "enqueue"]
          /\ UNCHANGED returned
    /\ UNCHANGED <<gen, connGen, inboxN, inboxes, chan, round, reply, group, ep, copies,
                   handlerVars, delivered, first>>

(* enqueue and copyFor: a finished endpoint takes nothing, a full one ends *)
(* as a slow consumer, and both were counted as a match.                   *)
QueueFull(e) == Len(copies[e]) >= PendingLimit

Enqueue(a, e) ==
    /\ callerPc[a] = "enqueue"
    /\ e \in targets[a]
    /\ \/ /\ ep[e] = "finished"
          /\ UNCHANGED <<ep, copies, delivered>>
       \/ /\ ep[e] # "finished"
          /\ QueueFull(e)
          /\ ep' = [ep EXCEPT ![e] = "finished"]
          /\ copies' = [copies EXCEPT ![e] = <<>>]
          /\ UNCHANGED delivered
       \/ /\ ep[e] # "finished"
          /\ ~QueueFull(e)
          /\ copies' = [copies EXCEPT ![e] =
                          Append(@, [call |-> Call(a), to |-> reply[a], ep |-> e])]
          /\ delivered' = [delivered EXCEPT ![Call(a)] = @ \cup {e}]
          /\ UNCHANGED ep
    /\ targets' = [targets EXCEPT ![a] = @ \ {e}]
    /\ callerPc' = [callerPc EXCEPT ![a] = IF targets[a] = {e} THEN "wait" ELSE "enqueue"]
    /\ UNCHANGED <<gen, connGen, inboxN, inboxes, chan, round, reply, returned, group, rr,
                   handlerVars, first>>

(* The three cases of the select: a reply, which Call turns into a Fault   *)
(* when it carries bd-fault; the context or the timer.                     *)
TakeReply(a) ==
    LET r == Head(chan[Call(a)]) IN
    /\ callerPc[a] = "wait"
    /\ chan[Call(a)] # <<>>
    /\ chan' = [chan EXCEPT ![Call(a)] = Tail(@)]
    /\ Return(a, [kind |-> IF r.fault THEN "fault" ELSE "reply", from |-> {r}])
    /\ callerPc' = [callerPc EXCEPT ![a] = "cleanup"]
    /\ UNCHANGED <<gen, connGen, inboxN, inboxes, round, reply, targets, group, rr, ep,
                   copies, handlerVars, delivered, first>>

TimeOut(a) ==
    /\ callerPc[a] = "wait"
    /\ Return(a, Outcome("timeout"))
    /\ callerPc' = [callerPc EXCEPT ![a] = "cleanup"]
    /\ UNCHANGED <<gen, connGen, inboxN, inboxes, chan, round, reply, targets, group, rr,
                   ep, copies, handlerVars, delivered, first>>

(* The deferred delete, by name.                                           *)
Cleanup(a) ==
    /\ callerPc[a] = "cleanup"
    /\ inboxes' = [n \in DOMAIN inboxes \ {reply[a]} |-> inboxes[n]]
    /\ callerPc' = [callerPc EXCEPT ![a] = "idle"]
    /\ UNCHANGED <<gen, connGen, inboxN, chan, round, reply, targets, returned, group, rr,
                   ep, copies, handlerVars, delivered, first>>

----------------------------------------------------------------------------
(* The endpoints and their handlers.                                       *)

(* run takes the oldest message and calls the handler, which may keep it.  *)
Take(e) ==
    /\ ep[e] # "finished"
    /\ copies[e] # <<>>
    /\ held' = held \cup {Head(copies[e])}
    /\ copies' = [copies EXCEPT ![e] = Tail(@)]
    /\ UNCHANGED <<gen, connGen, inboxN, inboxes, chan, callerVars, group, rr, ep,
                   answers, sending, errors, delivered, first>>

(* Respond and RespondFault as far as the look-up of the inbox.  onReply   *)
(* counts a fault whether or not anybody still waits for it.               *)
CountFault(e) == [errors EXCEPT ![e] = IF e \in Faulty THEN @ + 1 ELSE @]

Respond(m) ==
    /\ m \in held
    /\ answers[<<m.call, m.ep>>] < MaxAnswers
    /\ answers' = [answers EXCEPT ![<<m.call, m.ep>>] = @ + 1]
    /\ errors' = CountFault(m.ep)
    /\ sending' =
          IF m.to \in DOMAIN inboxes
          THEN sending \cup {[to |-> inboxes[m.to], n |-> answers[<<m.call, m.ep>>],
                              msg |-> [call |-> m.call, ep |-> m.ep, fault |-> m.ep \in Faulty]]}
          ELSE sending
    /\ UNCHANGED <<gen, connGen, inboxN, inboxes, chan, callerVars, group, rr, ep, copies,
                   held, delivered, first>>

(* The send that does not wait: into an empty channel, or refused with     *)
(* "request already answered".                                             *)
Send(x) ==
    /\ x \in sending
    /\ \/ /\ chan[x.to] = <<>>
          /\ chan' = [chan EXCEPT ![x.to] = <<x.msg>>]
          /\ first' = [first EXCEPT ![x.to] = IF @ = <<>> THEN <<x.msg>> ELSE @]
       \/ /\ chan[x.to] # <<>>
          /\ UNCHANGED <<chan, first>>
    /\ sending' = sending \ {x}
    /\ UNCHANGED <<gen, connGen, inboxN, inboxes, callerVars, group, rr, ep, copies, held,
                   answers, errors, delivered>>

(* An endpoint ends: Stop, Revoke and the rest take it out of the store    *)
(* and finish it later; its context or a panic finishes it at once.        *)
EndEndpoint(e) ==
    /\ ep[e] # "finished"
    /\ ep' = [ep EXCEPT ![e] = "finished"]
    /\ copies' = [copies EXCEPT ![e] = <<>>]
    /\ UNCHANGED <<gen, connGen, inboxN, inboxes, chan, callerVars, group, rr,
                   handlerVars, delivered, first>>

(* Restart takes every subscription and inbox out of the store; a plugin   *)
(* connects again, and serves again.                                       *)
Restart ==
    /\ gen < MaxGen
    /\ gen' = gen + 1
    /\ inboxes' = <<>>
    /\ ep' = [e \in Ends |-> IF ep[e] = "live" THEN "unlisted" ELSE ep[e]]
    /\ UNCHANGED <<connGen, inboxN, chan, callerVars, group, rr, copies, handlerVars,
                   delivered, first>>

Reconnect(c) ==
    /\ connGen[c] < gen
    /\ connGen' = [connGen EXCEPT ![c] = gen]
    /\ inboxN' = [inboxN EXCEPT ![c] = 0]
    /\ UNCHANGED <<gen, inboxes, chan, callerVars, group, rr, ep, copies, handlerVars,
                   delivered, first>>

ServeAgain(e) ==
    /\ gen > 0
    /\ ep[e] = "finished"
    /\ ep' = [ep EXCEPT ![e] = "live"]
    /\ UNCHANGED <<gen, connGen, inboxN, inboxes, chan, callerVars, group, rr, copies,
                   handlerVars, delivered, first>>

----------------------------------------------------------------------------
Caller(a) ==
    \/ Register(a) \/ MatchCall(a) \/ TakeReply(a) \/ TimeOut(a) \/ Cleanup(a)
    \/ \E e \in Ends : Enqueue(a, e)

CallsNext ==
    \/ \E a \in Callers : Begin(a) \/ Refuse(a) \/ Caller(a)
    \/ \E e \in Ends : Take(e) \/ EndEndpoint(e) \/ ServeAgain(e)
    \/ \E m \in held : Respond(m)
    \/ \E x \in sending : Send(x)
    \/ \E c \in Conns : Reconnect(c)
    \/ Restart

CallsSpec == CallsInit /\ [][CallsNext]_callVars

----------------------------------------------------------------------------
(* Types of the variables.                                                 *)
CallsTypeOK ==
    /\ gen \in 0 .. MaxGen
    /\ connGen \in [Conns -> 0 .. MaxGen]
    /\ inboxN \in [Conns -> Nat]
    /\ DOMAIN inboxes \subseteq Names
    /\ \A n \in DOMAIN inboxes : inboxes[n] \in Calls
    /\ \A x \in Calls : /\ chan[x] \in Seq(Answer) /\ Len(chan[x]) <= 1
                        /\ returned[x].kind \in Outcomes /\ returned[x].from \subseteq Answer
    /\ callerPc \in [Callers -> {"idle", "register", "match", "enqueue", "wait", "cleanup"}]
    /\ round \in [Callers -> 0 .. MaxCalls]
    /\ targets \in [Callers -> SUBSET Ends]
    /\ ep \in [Ends -> {"live", "unlisted", "finished"}]
    /\ \A e \in Ends : copies[e] \in Seq(Copies) /\ Len(copies[e]) <= PendingLimit
    /\ held \subseteq Copies

Answered(x) == returned[x].kind \in {"reply", "fault"}

(* A call returns an answer to its own message: never one meant for        *)
(* another caller, for an earlier call that timed out, or for a call of    *)
(* the generation before a restart (conn.go, Request and respondTo).       *)
AnswerIsOwn == \A x \in Calls : \A r \in returned[x].from : r.call = x

(* Of several handlers, or several answers of one, the first that the      *)
(* channel took is the one returned, and a later one never replaces it     *)
(* (respondTo's send that does not wait).                                  *)
FirstAnswerWins == \A x \in Calls : Answered(x) => returned[x].from = {first[x][1]}

(* An inbox in the store belongs to a call in progress: a call that timed  *)
(* out, found nobody or outlived a restart leaves none behind.             *)
NoInboxLeaks ==
    \A n \in DOMAIN inboxes : \E a \in Callers :
        /\ callerPc[a] \notin {"idle", "register"}
        /\ reply[a] = n
        /\ inboxes[n] = Call(a)

(* A call is delivered to one member of a queue group at most, also when   *)
(* members end while it is being delivered (matchLocked, deliver).         *)
OneMemberPerGroup ==
    \A x \in Calls : \A e, f \in delivered[x] : e # f => group[e] = NoGroup \/ group[e] # group[f]

(* While no member of a group has ended, its members' shares of the calls  *)
(* differ by one at most (matchLocked's round robin), counting the calls   *)
(* that are still being delivered.                                         *)
Undisturbed == gen = 0 /\ \A e \in Ends : ep[e] = "live"
Share(e) == Cardinality({x \in Calls : e \in delivered[x]})
            + Cardinality({a \in Callers : e \in targets[a]})
EvenShares ==
    Undisturbed => \A e, f \in Ends : group[e] # NoGroup /\ group[e] = group[f]
                                         => Share(e) <= Share(f) + 1

(* Every fault a caller sees is in the statistics of the service that sent *)
(* it (services.go, onReply), which may count more: answers nobody took.   *)
FaultsAreCounted ==
    \A e \in Ends :
        Cardinality({x \in Calls : \E r \in returned[x].from : r.ep = e /\ r.fault}) <= errors[e]

(* A call gets the first answer to itself or none, and leaves no inbox; a  *)
(* message reaches one member of a queue group, each in its turn; and the  *)
(* service counts the faults its callers see (Request, deliver, respondTo, *)
(* matchLocked).                                                           *)
CallsAnswered ==
    /\ CallsTypeOK
    /\ AnswerIsOwn
    /\ FirstAnswerWins
    /\ NoInboxLeaks
    /\ OneMemberPerGroup
    /\ EvenShares
    /\ FaultsAreCounted
=============================================================================
