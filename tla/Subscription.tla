---------------------------- MODULE Subscription ----------------------------
(***************************************************************************)
(* One subscription of the in-memory substrate (v2/bus/memory/sub.go): the *)
(* bounded queue between the goroutines that publish and the one goroutine *)
(* that calls the handler, and the three ways it ends: Cancel or a host    *)
(* revocation, Drain, and overflow.                                        *)
(*                                                                         *)
(* A step is what one goroutine does under one hold of s.mu, or one        *)
(* operation on a channel; between two steps every other goroutine may     *)
(* run.  The code keeps two booleans, finished and stop, that are only     *)
(* ever set together in finish: they are one variable here.  A message is  *)
(* named by its publisher and its number in that publisher's order.        *)
(***************************************************************************)
EXTENDS Naturals, Sequences, FiniteSets

CONSTANTS
    Publishers,     \* goroutines that publish to the pattern
    Drainers,       \* goroutines that call Drain
    Runner,         \* the goroutine started by newSubscription
    Host,           \* whoever calls Cancel, or finish through the store
    Limit,          \* SubOptions.PendingLimit
    MaxSent         \* bound: messages per publisher

ASSUME LimitAssumption == Limit \in Nat \ {0}
ASSUME MaxSentAssumption == MaxSent \in Nat
ASSUME ActorsAssumption ==
    /\ Publishers \cap Drainers = {}
    /\ Runner \notin Publishers \cup Drainers
    /\ Host \notin Publishers \cup Drainers \cup {Runner}

VARIABLES
    \* the fields of the subscription
    queue, draining, finished, err, drops,
    wake,           \* the token in the one-place channel wake
    doneCh,         \* doneCh is closed
    drained,        \* drained is closed
    registered,     \* the store still lists the subscription
    ctxDone,        \* the context given to Subscribe is cancelled
    \* the goroutines
    pc,             \* what each one does next
    sent,           \* messages each publisher has published
    result,         \* what each Drain returned
    \* history
    accepted,       \* messages enqueue stored, in order
    handed          \* messages run gave to the handler, in order

fields == <<queue, draining, finished, err, drops, wake, doneCh, drained,
            registered, ctxDone>>
history == <<accepted, handed>>
vars == <<fields, pc, sent, result, history>>

Actors == Publishers \cup Drainers \cup {Runner, Host}
Msg == Publishers \X Nat
Faults == {"none", "slow_consumer", "unhandled", "withdrawn"}
Results == {"pending", "none", "already_finished", "timeout", "fault"}

Labels == {"idle", "enqueue", "wake", "overflow", "close", "top", "call",
           "signal", "select", "closeCtx", "closePanic", "returned", "wait",
           "finish", "done"}

Goto(a, l) == pc' = [pc EXCEPT ![a] = l]

----------------------------------------------------------------------------
(* newSubscription, then the append to store.subs in conn.subscribe.       *)
Init ==
    /\ queue = <<>>
    /\ draining = FALSE
    /\ finished = FALSE
    /\ err = "none"
    /\ drops = 0
    /\ wake = FALSE
    /\ doneCh = FALSE
    /\ drained = FALSE
    /\ registered = TRUE
    /\ ctxDone = FALSE
    /\ pc = [a \in Actors |-> IF a = Runner THEN "top" ELSE "idle"]
    /\ sent = [p \in Publishers |-> 0]
    /\ result = [d \in Drainers |-> "pending"]
    /\ accepted = <<>>
    /\ handed = <<>>

----------------------------------------------------------------------------
(* finish(e) is two steps: the fields change under s.mu, then the channels *)
(* are closed and the goroutine that runs dropSub is started.  A caller    *)
(* that finds finished set returns at once, before the channels need be    *)
(* closed.                                                                 *)
Finish(a, e, closing, after) ==
    IF finished
    THEN /\ Goto(a, after)
         /\ UNCHANGED <<finished, err, queue>>
    ELSE /\ finished' = TRUE
         /\ err' = e
         /\ queue' = <<>>
         /\ Goto(a, closing)

CloseChannels(a, after) ==
    /\ doneCh' = TRUE
    /\ drained' = TRUE
    /\ Goto(a, after)
    /\ UNCHANGED <<queue, draining, finished, err, drops, wake, registered,
                   ctxDone, sent, history>>

----------------------------------------------------------------------------
(* Publishers: deliver matches under the store's lock, then enqueue takes  *)
(* the subscription's.  A definition whose name has an underscore is a     *)
(* wrong version of the one after it: the error a property must notice.    *)
GateShut_IgnoresDraining == finished
GateShut_IgnoresFinished == draining
GateShut == finished \/ draining

Full == Len(queue) >= Limit

(* matchLocked drops a subscription that is done from the store, and       *)
(* passes over one that is finished or draining.                           *)
Match(p) ==
    /\ pc[p] = "idle"
    /\ sent[p] < MaxSent
    /\ sent' = [sent EXCEPT ![p] = @ + 1]
    /\ registered' = (registered /\ ~doneCh)
    /\ IF registered /\ ~finished /\ ~draining THEN Goto(p, "enqueue") ELSE UNCHANGED pc
    /\ UNCHANGED <<queue, draining, finished, err, drops, wake, doneCh, drained,
                   ctxDone, result, history>>

EnqueueRefused(p) ==
    /\ pc[p] = "enqueue"
    /\ GateShut
    /\ Goto(p, "idle")
    /\ UNCHANGED <<fields, sent, result, history>>

EnqueueOverflow(p) ==
    /\ pc[p] = "enqueue"
    /\ ~GateShut
    /\ Full
    /\ drops' = drops + 1
    /\ Goto(p, "overflow")
    /\ UNCHANGED <<queue, draining, finished, err, wake, doneCh, drained,
                   registered, ctxDone, sent, result, accepted, handed>>

EnqueueStored(p) ==
    /\ pc[p] = "enqueue"
    /\ ~GateShut
    /\ ~Full
    /\ queue' = Append(queue, <<p, sent[p]>>)
    /\ accepted' = Append(accepted, <<p, sent[p]>>)
    /\ Goto(p, "wake")
    /\ UNCHANGED <<draining, finished, err, drops, wake, doneCh, drained,
                   registered, ctxDone, sent, result, handed>>

EnqueueWake_NoToken(p) ==
    /\ pc[p] = "wake"
    /\ Goto(p, "idle")
    /\ UNCHANGED <<fields, sent, result, history>>


EnqueueWake(p) ==
    /\ pc[p] = "wake"
    /\ wake' = TRUE
    /\ Goto(p, "idle")
    /\ UNCHANGED <<queue, draining, finished, err, drops, doneCh, drained,
                   registered, ctxDone, sent, result, history>>


OverflowFinish(p) ==
    /\ pc[p] = "overflow"
    /\ Finish(p, "slow_consumer", "close", "idle")
    /\ UNCHANGED <<draining, drops, wake, doneCh, drained, registered, ctxDone,
                   sent, result, accepted, handed>>

OverflowClose(p) ==
    /\ pc[p] = "close"
    /\ CloseChannels(p, "idle")
    /\ UNCHANGED result

Publisher(p) ==
    \/ Match(p) \/ EnqueueRefused(p) \/ EnqueueOverflow(p) \/ EnqueueStored(p)
    \/ EnqueueWake(p) \/ OverflowFinish(p) \/ OverflowClose(p)

----------------------------------------------------------------------------
(* run: the delivery goroutine.                                            *)
Rest_WrongEnd == SubSeq(queue, 1, Len(queue) - 1)
Rest == Tail(queue)

RunPop ==
    /\ pc[Runner] = "top"
    /\ queue # <<>> /\ ~finished
    /\ queue' = Rest
    /\ handed' = Append(handed, Head(queue))
    /\ Goto(Runner, "call")
    /\ UNCHANGED <<draining, finished, err, drops, wake, doneCh, drained,
                   registered, ctxDone, sent, result, accepted>>


RunIdle ==
    /\ pc[Runner] = "top"
    /\ queue = <<>> \/ finished
    /\ Goto(Runner, IF queue = <<>> /\ draining THEN "signal" ELSE "select")
    /\ UNCHANGED <<fields, sent, result, history>>

RunSignal ==
    /\ pc[Runner] = "signal"
    /\ drained' = TRUE
    /\ Goto(Runner, "select")
    /\ UNCHANGED <<queue, draining, finished, err, drops, wake, doneCh,
                   registered, ctxDone, sent, result, history>>

RunWake ==
    /\ pc[Runner] = "select"
    /\ wake
    /\ wake' = FALSE
    /\ Goto(Runner, "top")
    /\ UNCHANGED <<queue, draining, finished, err, drops, doneCh, drained,
                   registered, ctxDone, sent, result, history>>


RunDone ==
    /\ pc[Runner] = "select"
    /\ doneCh
    /\ Goto(Runner, "returned")
    /\ UNCHANGED <<fields, sent, result, history>>

RunCtxDone ==
    /\ pc[Runner] = "select"
    /\ ctxDone
    /\ Finish(Runner, "none", "closeCtx", "returned")
    /\ UNCHANGED <<draining, drops, wake, doneCh, drained, registered, ctxDone,
                   sent, result, accepted, handed>>

(* The handler is the plugin's: it returns, panics, or blocks for ever.    *)
HandlerReturns ==
    /\ pc[Runner] = "call"
    /\ Goto(Runner, "top")
    /\ UNCHANGED <<fields, sent, result, history>>

HandlerPanics ==
    /\ pc[Runner] = "call"
    /\ Finish(Runner, "unhandled", "closePanic", "top")
    /\ UNCHANGED <<draining, drops, wake, doneCh, drained, registered, ctxDone,
                   sent, result, accepted, handed>>

RunClose ==
    /\ \/ pc[Runner] = "closeCtx" /\ CloseChannels(Runner, "returned")
       \/ pc[Runner] = "closePanic" /\ CloseChannels(Runner, "top")
    /\ UNCHANGED result

RunLoop ==
    \/ RunPop \/ RunIdle \/ RunSignal \/ RunWake \/ RunDone \/ RunCtxDone
    \/ RunClose

----------------------------------------------------------------------------
(* Drain(ctx).                                                             *)
DrainFinished(d) ==
    /\ pc[d] = "idle"
    /\ finished
    /\ result' = [result EXCEPT ![d] = "already_finished"]
    /\ Goto(d, "done")
    /\ UNCHANGED <<fields, sent, history>>

DrainBegin(d) ==
    /\ pc[d] = "idle"
    /\ ~finished
    /\ draining' = TRUE
    /\ Goto(d, IF queue = <<>> THEN "signal" ELSE "wake")
    /\ UNCHANGED <<queue, finished, err, drops, wake, doneCh, drained,
                   registered, ctxDone, sent, result, history>>

DrainSignal(d) ==
    /\ pc[d] = "signal"
    /\ drained' = TRUE
    /\ Goto(d, "wake")
    /\ UNCHANGED <<queue, draining, finished, err, drops, wake, doneCh,
                   registered, ctxDone, sent, result, history>>

DrainWake(d) ==
    /\ pc[d] = "wake"
    /\ wake' = TRUE
    /\ Goto(d, "wait")
    /\ UNCHANGED <<queue, draining, finished, err, drops, doneCh, drained,
                   registered, ctxDone, sent, result, history>>

DrainDrained(d) ==
    /\ pc[d] = "wait"
    /\ drained
    /\ result' = [result EXCEPT ![d] = "none"]
    /\ Finish(d, "none", "close", "done")
    /\ UNCHANGED <<draining, drops, wake, doneCh, drained, registered, ctxDone,
                   sent, accepted, handed>>

DrainDone(d) ==
    /\ pc[d] = "wait"
    /\ doneCh
    /\ result' = [result EXCEPT ![d] = IF err = "none" THEN "none" ELSE "fault"]
    /\ Goto(d, "done")
    /\ UNCHANGED <<fields, sent, history>>

DrainTimeout(d) ==
    /\ pc[d] = "wait"
    /\ result' = [result EXCEPT ![d] = "timeout"]
    /\ Finish(d, "none", "close", "done")
    /\ UNCHANGED <<draining, drops, wake, doneCh, drained, registered, ctxDone,
                   sent, accepted, handed>>

DrainClose(d) ==
    /\ pc[d] = "close"
    /\ CloseChannels(d, "done")
    /\ UNCHANGED result

DrainLoop(d) ==
    \/ DrainSignal(d) \/ DrainWake(d) \/ DrainDrained(d) \/ DrainDone(d)
    \/ DrainClose(d)

Drainer(d) == DrainFinished(d) \/ DrainBegin(d) \/ DrainTimeout(d) \/ DrainLoop(d)

----------------------------------------------------------------------------
(* Cancel; the host ending the subscription (Restart, Revoke, Close take   *)
(* it off the store under the store's lock and finish it afterwards); the  *)
(* caller's context; and the dropSub goroutine that finish started.        *)
Cancel ==
    /\ pc[Host] = "idle"
    /\ Finish(Host, "none", "close", "idle")
    /\ UNCHANGED <<draining, drops, wake, doneCh, drained, registered, ctxDone,
                   sent, result, accepted, handed>>

HostTake ==
    /\ pc[Host] = "idle"
    /\ registered
    /\ registered' = FALSE
    /\ Goto(Host, "finish")
    /\ UNCHANGED <<queue, draining, finished, err, drops, wake, doneCh, drained,
                   ctxDone, sent, result, history>>

HostFinish ==
    /\ pc[Host] = "finish"
    /\ Finish(Host, "withdrawn", "close", "idle")
    /\ UNCHANGED <<draining, drops, wake, doneCh, drained, registered, ctxDone,
                   sent, result, accepted, handed>>

HostClose ==
    /\ pc[Host] = "close"
    /\ CloseChannels(Host, "idle")
    /\ UNCHANGED result

CtxCancel ==
    /\ ~ctxDone
    /\ ctxDone' = TRUE
    /\ UNCHANGED <<queue, draining, finished, err, drops, wake, doneCh, drained,
                   registered, pc, sent, result, history>>

DropSub ==
    /\ doneCh
    /\ registered
    /\ registered' = FALSE
    /\ UNCHANGED <<queue, draining, finished, err, drops, wake, doneCh, drained,
                   ctxDone, pc, sent, result, history>>

Next ==
    \/ \E p \in Publishers : Publisher(p)
    \/ \E d \in Drainers : Drainer(d)
    \/ RunLoop \/ HandlerReturns \/ HandlerPanics
    \/ Cancel \/ HostTake \/ HostFinish \/ HostClose \/ CtxCancel \/ DropSub

(* Go runs every goroutine that can run.  Nothing makes a handler return,  *)
(* a context expire or a caller call: those steps carry no fairness.       *)
Fairness ==
    /\ \A p \in Publishers : WF_vars(Publisher(p) /\ pc[p] # "idle")
    /\ \A d \in Drainers : WF_vars(DrainLoop(d))
    /\ WF_vars(RunLoop)
    /\ WF_vars(HostFinish \/ HostClose)
    /\ WF_vars(DropSub)

Spec == Init /\ [][Next]_vars
FairSpec == Spec /\ Fairness

----------------------------------------------------------------------------
(* Every field has its type, and the queue stays within PendingLimit.      *)
TypeOK ==
    /\ queue \in Seq(Msg)
    /\ draining \in BOOLEAN /\ finished \in BOOLEAN /\ wake \in BOOLEAN
    /\ doneCh \in BOOLEAN /\ drained \in BOOLEAN
    /\ registered \in BOOLEAN /\ ctxDone \in BOOLEAN
    /\ err \in Faults
    /\ drops \in Nat
    /\ pc \in [Actors -> Labels]
    /\ sent \in [Publishers -> Nat]
    /\ result \in [Drainers -> Results]
    /\ accepted \in Seq(Msg)
    /\ handed \in Seq(Msg)
    /\ Len(queue) <= Limit

(* While the subscription lives, what enqueue stored is exactly what the    *)
(* handler was given followed by what still waits, in the same order:      *)
(* nothing is lost, duplicated or reordered between enqueue and run.       *)
NoSilentLoss == ~finished => accepted = handed \o queue

(* Whatever ended it, the handler saw an initial part of what was stored.  *)
HandedInOrder ==
    /\ Len(handed) <= Len(accepted)
    /\ \A i \in 1..Len(handed) : handed[i] = accepted[i]

(* A Drain whose own finish ended the subscription handed everything over: *)
(* drained is closed before finish only when nothing waits and nothing     *)
(* more can be stored.                                                     *)
DrainedMeansEmpty == drained /\ ~finished => draining /\ queue = <<>>

(* The control facts the others rest on: a goroutine that is about to      *)
(* close the channels has set finished, one that is about to signal        *)
(* drained has seen the gate shut and the queue empty, and doneCh is       *)
(* closed only after finished is set.                                      *)
ControlInv ==
    /\ \A a \in Actors :
         pc[a] \in {"close", "closeCtx", "closePanic"} => finished
    /\ \A a \in Actors : pc[a] = "signal" => draining /\ queue = <<>>
    /\ doneCh => finished
    /\ DrainedMeansEmpty

(* Done closes, and Err is settled, for good: once doneCh is closed no     *)
(* message is stored or handed over and Err does not change, although      *)
(* publishers that matched the subscription earlier may still reach it.    *)
DoneIsFinal ==
    [][doneCh => accepted' = accepted /\ handed' = handed /\ err' = err]_vars

(* Overflow ends the subscription: Done closes even when other goroutines  *)
(* race to end it for another reason.                                      *)
OverflowEnds == drops > 0 ~> doneCh

(* The handler always returns in the end.                                  *)
HandlerFair == []<>(pc[Runner] # "call")

(* No wake-up is lost: a queued message is handed over or discarded by     *)
(* finish, so the queue always empties, whatever order the token in wake,  *)
(* the pop and the select happen in.                                       *)
QueueEmpties == HandlerFair => [](queue # <<>> => <>(queue = <<>>))

(* Drain returns although its context never expires, if handlers return.   *)
DrainReturns ==
    HandlerFair => \A d \in Drainers : [](pc[d] = "wait" => <>(pc[d] = "done"))

(* A finished subscription leaves nothing behind: it is taken off the      *)
(* store and its goroutine exits once the handler returns.                 *)
NothingLeaks ==
    HandlerFair => [](finished => <>(~registered /\ pc[Runner] = "returned"))

(* A publisher is never blocked, even by a handler that never returns.     *)
PublisherNeverBlocks ==
    \A p \in Publishers : [](pc[p] # "idle" => <>(pc[p] = "idle"))

----------------------------------------------------------------------------
(* bus.go: overflow "raises FaultSlowConsumer rather than dropping         *)
(* silently".                                                              *)
OverflowIsLoud == doneCh /\ drops > 0 => err = "slow_consumer"
=============================================================================
