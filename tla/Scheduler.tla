----------------------------- MODULE Scheduler -----------------------------
(***************************************************************************)
(* Durable schedules (v2/bus/memory/scheduler.go): one goroutine of the    *)
(* store collects what is due under the store's lock and publishes it      *)
(* after it, while plugins register, replace and cancel schedules, are     *)
(* revoked, and the store restarts or closes.                              *)
(*                                                                         *)
(* Time zero is Go's zero time.  A registration is numbered, so that the   *)
(* shots of a schedule and of the one that replaced it can be told apart.  *)
(***************************************************************************)
EXTENDS Naturals, FiniteSets, FiniteSetsExt

CONSTANTS
    Names,          \* schedule names of the one plugin modelled
    Intervals,      \* what Every is called with, zero included
    CronTimes,      \* the times the cron expression fires at
    MaxRegs,        \* bound: registrations
    MaxTime         \* bound: the clock

VARIABLES
    now,
    entries,        \* Store.schedules: a set of scheduleEntry, one per name
    shots,          \* collected by fireDue and not yet published
    firing,         \* fireDue is between its collection and its last publish
    storeClosed, returned,  \* Close has begun; Close has returned
    regs,           \* registrations so far
    start,          \* history: when each registration was made
    ended,          \* history: registrations cancelled or replaced
    published,      \* history: publications of each registration
    tail            \* history: those after it had ended

schedVars == <<now, entries, shots, firing, storeClosed, returned, regs, start, ended,
               published, tail>>

Regs == 1 .. MaxRegs
Times == 0 .. MaxTime
Far == MaxTime + 1 + Max(Intervals)
Entries == [name : Names, reg : Regs, kind : {"at", "every", "cron"},
            every : Intervals, next : 0 .. Far]

Init ==
    /\ now = 1
    /\ entries = {}
    /\ shots = {}
    /\ firing = FALSE
    /\ storeClosed = FALSE
    /\ returned = FALSE
    /\ regs = 0
    /\ start = [r \in Regs |-> 0]
    /\ ended = {}
    /\ published = [r \in Regs |-> 0]
    /\ tail = [r \in Regs |-> 0]

----------------------------------------------------------------------------
(* register: a name that is declared again replaces its schedule.          *)
Named(n) == {e \in entries : e.name = n}

Register(n, kind, every, next) ==
    /\ ~storeClosed
    /\ regs < MaxRegs
    /\ regs' = regs + 1
    /\ start' = [start EXCEPT ![regs + 1] = now]
    /\ entries' = (entries \ Named(n)) \cup
          {[name |-> n, reg |-> regs + 1, kind |-> kind, every |-> every, next |-> next]}
    /\ ended' = ended \cup {e.reg : e \in Named(n)}
    /\ UNCHANGED <<now, shots, firing, storeClosed, returned, published, tail>>

At(n, t) == Register(n, "at", 0, t)

Every(n, d) == d > 0 /\ Register(n, "every", d, now + d)

(* cronExpr.next: the first time strictly after from, if there is one.     *)
CronNext(from) == {t \in CronTimes : t > from}

Cron(n) == CronNext(now) # {} /\ Register(n, "cron", 0, Min(CronNext(now)))

Cancel(n) ==
    /\ ~storeClosed
    /\ Named(n) # {}
    /\ entries' = entries \ Named(n)
    /\ ended' = ended \cup {e.reg : e \in Named(n)}
    /\ UNCHANGED <<now, shots, firing, storeClosed, returned, regs, start, published, tail>>

----------------------------------------------------------------------------
(* fireDue.  A schedule that missed several intervals fires once, and goes *)
(* on from now; a zero time is never due.                                  *)
Due(e) == e.next # 0 /\ now >= e.next

Later(e) == IF e.next + e.every > now THEN e.next + e.every ELSE now + e.every

Advanced(e) ==
    CASE e.kind = "at" -> {}
      [] e.kind = "every" -> {[e EXCEPT !.next = Later(e)]}
      [] e.kind = "cron" /\ CronNext(now) # {} -> {[e EXCEPT !.next = Min(CronNext(now))]}
      [] OTHER -> {}

Collect ==
    /\ ~firing
    /\ ~returned
    /\ \E e \in entries : Due(e)
    /\ shots' = {e.reg : e \in {d \in entries : Due(d)}}
    /\ entries' = UNION {IF Due(e) THEN Advanced(e) ELSE {e} : e \in entries}
    /\ firing' = TRUE
    /\ UNCHANGED <<now, storeClosed, returned, regs, start, ended, published, tail>>

(* deliver, one shot at a time, in the order of a map: any.  The deny list *)
(* and the snapshot of the grants it is checked against do not change.     *)
Shoot(r) ==
    /\ r \in shots
    /\ shots' = shots \ {r}
    /\ published' = [published EXCEPT ![r] = @ + 1]
    /\ tail' = [tail EXCEPT ![r] = IF r \in ended THEN @ + 1 ELSE @]
    /\ UNCHANGED <<now, entries, firing, storeClosed, returned, regs, start, ended>>

FireReturns ==
    /\ firing
    /\ shots = {}
    /\ firing' = FALSE
    /\ UNCHANGED <<now, entries, shots, storeClosed, returned, regs, start, ended,
                   published, tail>>

(* Close stops the goroutine and waits until fireDue has returned.  A      *)
(* Restart or a Revoke leaves the schedules and the goroutine alone.       *)
CloseStore ==
    /\ ~storeClosed
    /\ storeClosed' = TRUE
    /\ UNCHANGED <<now, entries, shots, firing, returned, regs, start, ended, published, tail>>

CloseReturns_NoWait ==
    /\ storeClosed
    /\ ~returned
    /\ returned' = TRUE
    /\ UNCHANGED <<now, entries, shots, firing, storeClosed, regs, start, ended, published, tail>>
CloseReturns ==
    /\ storeClosed
    /\ ~returned
    /\ ~firing
    /\ returned' = TRUE
    /\ UNCHANGED <<now, entries, shots, firing, storeClosed, regs, start, ended, published, tail>>

Tick ==
    /\ now < MaxTime
    /\ now' = now + 1
    /\ UNCHANGED <<entries, shots, firing, storeClosed, returned, regs, start, ended,
                   published, tail>>

Fire == Collect \/ FireReturns \/ \E r \in Regs : Shoot(r)

Next ==
    \/ \E n \in Names :
        \/ \E t \in Times : At(n, t)
        \/ \E d \in Intervals : Every(n, d)
        \/ Cron(n)
        \/ Cancel(n)
    \/ Fire \/ CloseStore \/ CloseReturns \/ Tick

(* The store's ticker keeps ticking until Close.                           *)
Fairness == WF_schedVars(Fire)
Spec == Init /\ [][Next]_schedVars /\ Fairness

----------------------------------------------------------------------------
(* Types, and one schedule per name.                                       *)
TypeOK ==
    /\ now \in Times
    /\ entries \subseteq Entries
    /\ \A d, e \in entries : d.name = e.name => d = e
    /\ shots \subseteq Regs
    /\ regs \in 0 .. MaxRegs
    /\ ended \subseteq Regs

(* Schedules do not burst: in any time since it was registered, a schedule *)
(* publishes no oftener than its interval allows, also after the store was *)
(* late (fireDue).                                                         *)
NoBurst ==
    \A e \in entries :
        e.kind = "every" => (published[e.reg] + Cardinality(shots \cap {e.reg})) * e.every
                               <= now - start[e.reg]

(* What was cancelled or replaced publishes once more at the most: the     *)
(* shot that was already collected (fireDue publishes after the unlock).   *)
CancelStops == \A r \in Regs : tail[r] <= 1

(* An At publishes once: while it is registered it has neither published   *)
(* nor been collected (fireDue deletes it under the same hold of the lock).*)
AtFiresOnce ==
    \A e \in entries : e.kind = "at" => published[e.reg] = 0 /\ e.reg \notin shots

(* Once Close has returned nothing is published.                           *)
ClosedIsQuiet == returned => shots = {}

(* What is due is published, unless it was cancelled or replaced or the    *)
(* store is closed.                                                        *)
IsDue(r) == \E e \in entries : e.reg = r /\ Due(e)
DueFires ==
    \A r \in Regs : IsDue(r) ~> r \in ended \/ storeClosed \/ published[r] > 0
=============================================================================
