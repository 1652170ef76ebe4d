---------------------------- MODULE HostAdapter ----------------------------
(***************************************************************************)
(* A v1 plugin on the v2 bus (v2/plugin/v1compat/v1compat.go).  The        *)
(* adapter opens subscriptions, schedules and tickers for the plugin, keeps*)
(* a release of each in cleanups, and Close runs the releases that are     *)
(* left.  Each call of Subscribe or Every runs on a goroutine of the       *)
(* plugin; its cancel, Close and a withdrawal of the bus may come at any   *)
(* step of it.  The envelope of v1 travels as headers of a v2 message.     *)
(***************************************************************************)
EXTENDS Integers, Sequences

CONSTANTS
    Works,          \* calls of Subscribe and Every
    IsEvery,        \* [Works -> BOOLEAN]
    Envelopes,      \* envelopes a v1 plugin publishes
    Sender          \* the plugin the substrate stamps

(* Every identity header has the reserved prefix.                          *)
ASSUME HeadersAssumption ==
    \A e \in Envelopes : \A h \in e.headers : h.identity => h.reserved

VARIABLES
    adapter,        \* closed, context, ticks, Capabilities().Schedule, cleanups
                    \* in the order of their ids, and Close with what it has left
    works,          \* per call: step, tick, live resources, and the Once of its release
    alive,          \* the bus of this generation
    schedules,      \* names of durable schedules in the store
    logged,         \* names whose cancellation was refused and logged
    received        \* pairs of an envelope sent and the one rebuilt from it

adapterVars == <<adapter, works, alive, schedules, logged, received>>

NoId == -1

AdapterInit ==
    /\ \E c \in BOOLEAN : adapter =
          [closed |-> FALSE, ctx |-> TRUE, ticks |-> 0, can |-> c,
           cleanups |-> <<>>, closer |-> "open", pending |-> <<>>]
    /\ works = [w \in Works |-> [step |-> "idle", tick |-> NoId, sub |-> FALSE,
                                 schedule |-> FALSE, ticker |-> FALSE, once |-> "new"]]
    /\ alive = TRUE
    /\ schedules = {}
    /\ logged = {}
    /\ received = {}

(* Every asks for the capability and takes the next tick under the lock;   *)
(* without a scheduler it falls back to a ticker at once.                  *)
NextTick == adapter.ticks
BeginWork(w) ==
    /\ works[w].step = "idle"
    /\ IF IsEvery[w] /\ adapter.can
       THEN /\ works' = [works EXCEPT ![w].step = "subscribe", ![w].tick = NextTick]
            /\ adapter' = [adapter EXCEPT !.ticks = @ + 1]
       ELSE /\ works' = [works EXCEPT ![w].step = IF IsEvery[w] THEN "ticker" ELSE "subscribe"]
            /\ UNCHANGED adapter
    /\ UNCHANGED <<alive, schedules, logged, received>>

(* A subscription made with the ended context of the adapter ends by it.   *)
Subscribe(w) ==
    /\ works[w].step = "subscribe"
    /\ works' = [works EXCEPT
          ![w].sub = alive /\ adapter.ctx,
          ![w].step = IF IsEvery[w] THEN (IF alive THEN "schedule" ELSE "ticker")
                                    ELSE (IF alive THEN "track" ELSE "done")]
    /\ UNCHANGED <<adapter, alive, schedules, logged, received>>

Schedule(w) ==
    /\ works[w].step = "schedule"
    /\ IF alive
       THEN /\ schedules' = schedules \cup {works[w].tick}
            /\ works' = [works EXCEPT ![w].step = "track", ![w].schedule = TRUE]
       ELSE /\ works' = [works EXCEPT ![w].step = "ticker", ![w].sub = FALSE]
            /\ UNCHANGED schedules
    /\ UNCHANGED <<adapter, alive, logged, received>>

Ticker(w) ==
    /\ works[w].step = "ticker"
    /\ works' = [works EXCEPT ![w].step = "track", ![w].ticker = adapter.ctx]
    /\ UNCHANGED <<adapter, alive, schedules, logged, received>>

(* track: a release that comes after Close runs at once.                   *)
Track_Remembers(w) ==
    /\ works[w].step = "track"
    /\ works' = [works EXCEPT ![w].step = "returned"]
    /\ adapter' = [adapter EXCEPT !.cleanups = Append(@, w)]
    /\ UNCHANGED <<alive, schedules, logged, received>>
Track(w) ==
    /\ works[w].step = "track"
    /\ IF adapter.closed
       THEN /\ works' = [works EXCEPT ![w].step = "releasing"]
            /\ UNCHANGED adapter
       ELSE /\ works' = [works EXCEPT ![w].step = "returned"]
            /\ adapter' = [adapter EXCEPT !.cleanups = Append(@, w)]
    /\ UNCHANGED <<alive, schedules, logged, received>>

(* The cancel that Subscribe or Every returned: it forgets the release and *)
(* runs it.                                                                *)
Has(s, w) == \E i \in DOMAIN s : s[i] = w
Without(s, w) ==
    LET k == CHOOSE i \in DOMAIN s : s[i] = w
    IN IF Has(s, w) THEN [i \in 1 .. (Len(s) - 1) |-> IF i < k THEN s[i] ELSE s[i + 1]] ELSE s
CancelWork(w) ==
    /\ works[w].step = "returned"
    /\ works' = [works EXCEPT ![w].step = "releasing"]
    /\ adapter' = [adapter EXCEPT !.cleanups = Without(@, w)]
    /\ UNCHANGED <<alive, schedules, logged, received>>

(* release under its Once: the subscription or the ticker ends first, the  *)
(* schedule is cancelled next, and a second caller waits for the first.    *)
NextLeft(w) == adapter.pending # <<>> /\ Head(adapter.pending) = w
Wanted(w) == works[w].step = "releasing" \/ NextLeft(w)
Release(w) ==
    /\ Wanted(w)
    /\ works[w].once = "new"
    /\ works' = [works EXCEPT ![w].once = "running", ![w].sub = FALSE, ![w].ticker = FALSE]
    /\ UNCHANGED <<adapter, alive, schedules, logged, received>>
ReleaseSchedule(w) ==
    /\ works[w].once = "running"
    /\ works' = [works EXCEPT ![w].once = "done"]
    /\ IF works[w].schedule /\ alive
       THEN schedules' = schedules \ {works[w].tick} /\ UNCHANGED logged
       ELSE /\ logged' = IF works[w].schedule THEN logged \cup {works[w].tick} ELSE logged
            /\ UNCHANGED schedules
    /\ UNCHANGED <<adapter, alive, received>>
Released(w) ==
    /\ works[w].step = "releasing"
    /\ works[w].once = "done"
    /\ works' = [works EXCEPT ![w].step = "done"]
    /\ UNCHANGED <<adapter, alive, schedules, logged, received>>

(* Close takes the cleanups in the reverse of their order, runs them       *)
(* outside the lock and then ends the context of the adapter.              *)
Reversed(s) == [i \in 1 .. Len(s) |-> s[Len(s) - i + 1]]
CloseBegin ==
    /\ ~adapter.closed
    /\ adapter' = [adapter EXCEPT !.closed = TRUE, !.closer = "releasing",
                                  !.pending = Reversed(adapter.cleanups), !.cleanups = <<>>]
    /\ UNCHANGED <<works, alive, schedules, logged, received>>
CloseNext(w) ==
    /\ NextLeft(w)
    /\ works[w].once = "done"
    /\ adapter' = [adapter EXCEPT !.pending = Tail(@)]
    /\ UNCHANGED <<works, alive, schedules, logged, received>>
CloseEnd ==
    /\ adapter.closer = "releasing"
    /\ adapter.pending = <<>>
    /\ adapter' = [adapter EXCEPT !.closer = "done", !.ctx = FALSE]
    /\ works' = [w \in Works |-> [works[w] EXCEPT !.sub = FALSE, !.ticker = FALSE]]
    /\ UNCHANGED <<alive, schedules, logged, received>>

(* The substrate withdraws the generation: its subscriptions end, the      *)
(* schedules of the plugin stay.                                           *)
Withdraw ==
    /\ alive
    /\ alive' = FALSE
    /\ works' = [w \in Works |-> [works[w] EXCEPT !.sub = FALSE]]
    /\ UNCHANGED <<adapter, schedules, logged, received>>

(* Publish and the handler of a v1 subscriber: egressHeaders, the headers  *)
(* and the correlation the substrate stamps, and envelopeOf with           *)
(* inboundHeaders.  "fresh" is an id or a time made on arrival.            *)
Egress(e) ==
    LET sent == {h \in e.headers : ~h.identity} IN
    [id |-> e.id, ts |-> e.ts, corr |-> IF e.corr = "" THEN "fresh" ELSE e.corr,
     caller |-> Sender, headers |-> sent]
InboundHeaders(hs) == {h \in hs : ~h.reserved}
EnvelopeOf(m) ==
    [id |-> IF m.id = "" THEN "fresh" ELSE m.id, corr |-> m.corr,
     source |-> m.caller, headers |-> InboundHeaders(m.headers),
     ts |-> IF m.ts = "" THEN "fresh" ELSE m.ts]
Publish(e) ==
    /\ alive /\ adapter.ctx
    /\ received' = received \cup {<<e, EnvelopeOf(Egress(e))>>}
    /\ UNCHANGED <<adapter, works, alive, schedules, logged>>

AdapterNext ==
    \/ \E w \in Works :
          \/ BeginWork(w) \/ Subscribe(w) \/ Schedule(w) \/ Ticker(w) \/ Track(w)
          \/ CancelWork(w) \/ Release(w) \/ ReleaseSchedule(w) \/ Released(w)
          \/ CloseNext(w)
    \/ CloseBegin \/ CloseEnd \/ Withdraw
    \/ (\A w \in Works : works[w].step = "idle") /\ \E e \in Envelopes : received = {} /\ Publish(e)

AdapterSpec == AdapterInit /\ [][AdapterNext]_adapterVars

----------------------------------------------------------------------------
(* Once Close has returned and no call is on its way, nothing the adapter  *)
(* opened is left, except a schedule that a withdrawn bus refused to       *)
(* cancel, and that refusal was logged.                                    *)
NothingOutlivesClose ==
    (/\ adapter.closer = "done"
     /\ \A w \in Works : works[w].step \in {"idle", "returned", "done"})
    => /\ \A w \in Works : ~works[w].sub /\ ~works[w].ticker
       /\ schedules \subseteq logged

(* A resource whose call has returned is either in cleanups or has been    *)
(* handed to Close: none is live and forgotten.                            *)
NoneForgotten ==
    \A w \in Works :
        works[w].step = "returned" /\ works[w].once = "new"
            => Has(adapter.cleanups, w) \/ Has(adapter.pending, w)

(* A cancel that returned has released both halves of its own call, and    *)
(* took no other call's schedule with it.                                  *)
CancelIsExact ==
    \A w \in Works :
        /\ works[w].step = "done" => /\ ~works[w].sub /\ ~works[w].ticker
                                     /\ works[w].tick \in schedules => works[w].tick \in logged
        /\ works[w].schedule /\ works[w].once = "new" => works[w].tick \in schedules

(* A v1 subscriber sees the id, the time, the correlation and the plain    *)
(* headers of the v1 publisher, never empty and never a reserved header,   *)
(* and as source the plugin itself, whatever the publisher wrote.          *)
EnvelopeSurvives ==
    \A p \in received :
        LET sent == p[1]  got == p[2]
            Kept(a, b) == b = IF a = "" THEN "fresh" ELSE a
        IN /\ Kept(sent.id, got.id) /\ Kept(sent.ts, got.ts) /\ Kept(sent.corr, got.corr)
           /\ got.source = Sender
           /\ got.headers = {h \in sent.headers : ~h.reserved}

(* Nothing the adapter opened outlives its Close or is forgotten, a cancel *)
(* releases its own call and no other, and an envelope keeps its fields    *)
(* (track, Close, scheduled, egressHeaders).                               *)
AdapterReleases ==
    /\ NothingOutlivesClose
    /\ NoneForgotten
    /\ CancelIsExact
    /\ EnvelopeSurvives
=============================================================================
