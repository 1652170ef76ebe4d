---------------------------- MODULE MCLiveness ----------------------------
(***************************************************************************)
(* Small instances of the parts of the bus whose question is whether       *)
(* something eventually happens: a subscription, the scheduler, the object *)
(* store's watcher and the search for a cron expression's next time.  They *)
(* share no state; one run checks them, each in a scene of its own, while  *)
(* the others stay where they began.                                       *)
(***************************************************************************)
EXTENDS Naturals, TLC

VARIABLES scene,
    now, entries, shots, firing, storeClosed, returned, regs, start, ended, published, tail,
    declared, objs, body, outcome, deletes, objWatcher,
    fields, expr, from, t, phase,
    queue, draining, finished, err, drops, wake, doneCh, drained, registered, ctxDone,
    pc, sent, result, accepted, handed

(* Two publishers and a Drain race Cancel and the context over a queue of  *)
(* one place.                                                              *)
U == INSTANCE Subscription WITH
    Publishers <- {"p1", "p2"}, Drainers <- {"d1"}, Runner <- "runner", Host <- "host",
    Limit <- 1, MaxSent <- 1

(* Two names, every interval up to two, a time and a half of the longest.  *)
S == INSTANCE Scheduler WITH
    Names <- {"n1", "n2"}, Intervals <- {0, 1, 2}, CronTimes <- {2, 4},
    MaxRegs <- 2, MaxTime <- 4

O == INSTANCE Objects WITH
    Putters <- {"p1", "p2"}, ObjectNames <- <<"n1", "n2">>,
    Bodies <- "b0" :> 0 @@ "b1" :> 1 @@ "b2" :> 2, MaxBytes <- 1, MaxDeletes <- 1

(* Fourteen days of two hours of two minutes, in months of five and two    *)
(* days.                                                                   *)
MonthOf == [d \in 0 .. 13 |-> IF d \in 5 .. 6 \/ d > 11 THEN 2 ELSE 1]
DayOfMonth ==
    [d \in 0 .. 13 |-> CASE d <= 4 -> d + 1 [] d \in 5 .. 6 -> d - 4
                         [] d \in 7 .. 11 -> d - 6 [] OTHER -> d - 11]
Star(step) == [kind |-> "star", lo |-> 0, hi |-> 0, step |-> step]
Span(lo, hi, step) == [kind |-> "range", lo |-> lo, hi |-> hi, step |-> step]
Num(n, step) == [kind |-> "num", lo |-> n, hi |-> n, step |-> step]
C == INSTANCE Cron WITH
    Hours <- 2, Minutes <- 2, Month <- MonthOf, Day <- DayOfMonth,
    Horizon <- 36, Froms <- {0, 9, 14},
    MinuteFields <- {{Star(1)}, {Num(1, 1)}},
    HourFields <- {{Star(1)}, {Num(0, 1)}, {Num(1, 1)}},
    DomFields <- {{Star(1)}, {Num(1, 1)}, {Num(3, 1), Num(5, 1)}, {Num(31, 1)}, {Num(32, 1)}},
    MonthFields <- {{Star(1)}, {Num(2, 1)}},
    DowFields <- {{Star(1)}, {Star(2)}, {Star(0)}, {Num(7, 1)}, {Num(8, 1)}, {Num(3, 2)},
                  {Span(1, 5, 2)}, {Span(5, 7, 1)}, {Span(0, 7, 1)}, {Num(2, 1), Span(4, 6, 1)}}

sVars == <<now, entries, shots, firing, storeClosed, returned, regs, start, ended, published, tail>>
oVars == <<declared, objs, body, outcome, deletes, objWatcher>>
cVars == <<fields, expr, from, t, phase>>
uVars == <<queue, draining, finished, err, drops, wake, doneCh, drained, registered, ctxDone,
           pc, sent, result, accepted, handed>>

NoSearch == fields = <<>> /\ expr = <<>> /\ from = 0 /\ t = 0 /\ phase = "idle"

(* A subscription that has ended and been dropped: nothing of it can move. *)
NoSubscription ==
    /\ queue = <<>> /\ accepted = <<>> /\ handed = <<>> /\ drops = 0 /\ err = "none"
    /\ draining = TRUE /\ finished = TRUE /\ doneCh = TRUE /\ drained = TRUE
    /\ wake = FALSE /\ registered = FALSE /\ ctxDone = TRUE
    /\ pc = "p1" :> "idle" @@ "p2" :> "idle" @@ "d1" :> "done" @@ "runner" :> "returned" @@ "host" :> "done"
    /\ sent = "p1" :> 1 @@ "p2" :> 1 /\ result = "d1" :> "none"

Init ==
    /\ scene \in {"subscription", "scheduler", "objects", "cron"}
    /\ S!Init /\ O!Init
    /\ IF scene = "cron" THEN C!Init ELSE NoSearch
    /\ IF scene = "subscription" THEN U!Init ELSE NoSubscription

Next ==
    /\ \/ scene = "subscription" /\ U!Next /\ UNCHANGED <<sVars, oVars, cVars>>
       \/ scene = "scheduler" /\ S!Next /\ UNCHANGED <<oVars, cVars, uVars>>
       \/ scene = "objects" /\ O!Next /\ UNCHANGED <<sVars, cVars, uVars>>
       \/ scene = "cron" /\ C!Next /\ UNCHANGED <<sVars, oVars, uVars>>
    /\ UNCHANGED scene

vars == <<scene, sVars, oVars, cVars, uVars>>

(* The goroutines of the subscription, of the store and of the watcher,    *)
(* and the caller of next.                                                 *)
Fairness == U!Fairness /\ S!Fairness /\ O!Fairness /\ WF_cVars(scene = "cron" /\ C!Next)
Spec == Init /\ [][Next]_vars /\ Fairness

----------------------------------------------------------------------------
(* A subscription never gets stuck: what it dropped ends it, no wake-up is *)
(* lost, Drain returns although its context never expires, what is         *)
(* finished leaves the store, and no publisher waits, even for a handler   *)
(* that hangs (enqueue, run, Drain, finish).                               *)
SubscriptionProgresses ==
    /\ U!OverflowEnds
    /\ U!QueueEmpties
    /\ U!DrainReturns
    /\ U!NothingLeaks
    /\ U!PublisherNeverBlocks

(* Schedules fire when they are due, without bursts, an At once, at most   *)
(* one shot after a Cancel, and none once the store's Close has returned   *)
(* (register, Cancel, fireDue).                                            *)
SchedulesKept ==
    /\ [](S!TypeOK /\ S!NoBurst /\ S!CancelStops /\ S!AtFiresOnce /\ S!ClosedIsQuiet)
    /\ S!DueFires

(* A watcher's stream mirrors the object bucket, everything queued reaches *)
(* a reader, and a watcher that is stopped closes its channel (Put,        *)
(* Delete, Watch, offer, run).                                             *)
ObjectsMirrored ==
    /\ []O!ObjectsMirrored
    /\ O!QueueDrains
    /\ O!StopCloses

(* An expression selects the days it names, and the search ends with the   *)
(* first time it names or with none in five years (fillField, next).       *)
NextIsFound ==
    /\ [](C!WeekdaysMeant /\ C!NothingSkipped)
    /\ C!SearchEnds
=============================================================================
