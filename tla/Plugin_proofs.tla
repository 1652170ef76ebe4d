--------------------------- MODULE Plugin_proofs ---------------------------
(***************************************************************************)
(* Proofs about what a plugin holds, says and is vouched for by: its       *)
(* binding (PluginBase), for any generations, workers, capabilities and    *)
(* patterns; the v1 adapter (HostAdapter), for any calls and envelopes;    *)
(* its typed calls and streams (TypedBus), for any schema hashes and fault *)
(* codes; its attestations (Attestation), for any keys, publishers,        *)
(* digests, Stores and roots; its grants (Authorization), for any grants,  *)
(* deny lists, subjects, patterns and headers; the paths and routes of its *)
(* manifest (ManifestDocument), for any manifests and pathnames; what the  *)
(* manifest may hold (ManifestAuthority), for any manifests, families,     *)
(* providers and subjects; and its package (Package), for any directories, *)
(* layouts and gates.                                                      *)
(***************************************************************************)
EXTENDS PluginBase, HostAdapter, TypedBus, Attestation, Authorization, ManifestDocument,
        ManifestAuthority, Package, FiniteSetTheorems, NaturalsInduction, WellFoundedInduction, TLAPS

----------------------------------------------------------------------------
(* The binding.                                                            *)

(* The zero Base names no generation, so a Bind always records what it     *)
(* installs; and a bound one shares no grants with the host.               *)
BaseInv ==
    /\ base.shared = FALSE
    /\ base.bound \in BOOLEAN
    /\ ~base.bound => base.generation = Unbound
    /\ BindingIsWhole

LEMMA BaseInvInit == BaseInit => BaseInv
BY DEF BaseInit, BaseInv, Zero, BindingIsWhole

(* Bind, for a generation that is not the bound one: the zero Base and an  *)
(* earlier generation both differ from it, so installed is the Binding.    *)
LEMMA BindKeeps ==
    ASSUME NEW g \in Generations, BaseInv, Bind(g)
    PROVE  BaseInv'
<1>1. base.generation # g
  BY UnboundAssumption DEF Bind, Conflicts, BaseInv
<1>2. installed' = offered[g]
  BY <1>1 DEF Bind
<1> QED
  BY <1>2 DEF Bind, Clone, BaseInv, BindingIsWhole

LEMMA BaseStep == BaseInv /\ [BaseNext]_baseVars => BaseInv'
<1> SUFFICES ASSUME BaseInv, [BaseNext]_baseVars PROVE BaseInv'
  OBVIOUS
<1>1. ASSUME NEW g \in Generations, Bind(g) PROVE BaseInv'
  BY <1>1, BindKeeps
<1>2. ASSUME NEW g \in Generations, Widen(g) PROVE BaseInv'
  BY <1>2 DEF Widen, BaseInv, BindingIsWhole
<1>3. ASSUME NEW g \in Generations, Connect(g) \/ Teardown(g) PROVE BaseInv'
  BY <1>3 DEF Connect, Teardown, BaseInv, BindingIsWhole
<1>4. ASSUME NEW w \in Workers, Bus(w) \/ CallThrough(w) PROVE BaseInv'
  BY <1>4 DEF Bus, CallThrough, BaseInv, BindingIsWhole
<1>5. CASE UNCHANGED baseVars
  BY <1>5 DEF baseVars, BaseInv, BindingIsWhole
<1> QED
  BY <1>1, <1>2, <1>3, <1>4, <1>5 DEF BaseNext

(* However generations are connected, bound, rebound and torn down, and    *)
(* whatever the host does to the grants it keeps, the fields a plugin      *)
(* reads are those of the one Binding that made its generation current     *)
(* (Bind, Identity.Clone).                                                 *)
THEOREM BindingsAreWhole == BaseSpec => []BindingIsWhole
<1>1. BaseInv => BindingIsWhole
  BY DEF BaseInv
<1> QED
  BY BaseInvInit, BaseStep, <1>1, PTL DEF BaseSpec

----------------------------------------------------------------------------
(* The adapter.                                                            *)

Steps == {"idle", "subscribe", "schedule", "ticker", "track", "returned", "releasing", "done"}
Adapters ==
    [closed : BOOLEAN, ctx : BOOLEAN, ticks : Nat, can : BOOLEAN,
     cleanups : Seq(Works), closer : {"open", "releasing", "done"}, pending : Seq(Works)]
WorkStates ==
    [step : Steps, tick : Nat \cup {NoId}, sub : BOOLEAN, schedule : BOOLEAN,
     ticker : BOOLEAN, once : {"new", "running", "done"}]
AdapterTypes ==
    /\ adapter \in Adapters
    /\ works \in [Works -> WorkStates]
    /\ alive \in BOOLEAN

(* How far Close has come says what it has left and whether the context    *)
(* still runs.                                                             *)
CloseOrder ==
    /\ adapter.closer = "open" <=> ~adapter.closed
    /\ adapter.closed => adapter.cleanups = <<>>
    /\ adapter.closer # "releasing" => adapter.pending = <<>>
    /\ adapter.ctx <=> adapter.closer # "done"

(* Once the context has ended, no subscription or ticker of the adapter    *)
(* runs.                                                                   *)
EndedByContext == \A w \in Works : ~adapter.ctx => ~works[w].sub /\ ~works[w].ticker

(* Tracked: track has been through.  A release that is kept or pending is  *)
(* of a tracked call, and one that runs is wanted by its cancel or Close.  *)
Tracked(w) == works[w].step \in {"returned", "releasing", "done"}
ReleasesAreTracked ==
    \A w \in Works :
        /\ Has(adapter.cleanups, w) \/ Has(adapter.pending, w) => Tracked(w)
        /\ works[w].once # "new" => Tracked(w) /\ ~works[w].sub /\ ~works[w].ticker
RunningIsWanted ==
    \A w \in Works :
        works[w].once = "running" => works[w].step = "releasing" \/ Has(adapter.pending, w)

(* Before track a call has neither schedule nor ticker, or is about to     *)
(* register it.                                                            *)
OpenedLast ==
    \A w \in Works :
        works[w].step \in {"idle", "subscribe", "schedule", "ticker"}
            => ~works[w].schedule /\ ~works[w].ticker

(* A call that is done released what it opened, or had opened nothing.     *)
DoneIsReleased ==
    \A w \in Works :
        works[w].step = "done" =>
            \/ works[w].once = "done"
            \/ ~works[w].sub /\ ~works[w].ticker /\ ~works[w].schedule

(* Each call of Every that asked the scheduler has a tick of its own.      *)
TicksAreOwn ==
    /\ \A w \in Works :
          /\ works[w].tick # NoId => works[w].tick < adapter.ticks
          /\ works[w].step = "idle" => works[w].tick = NoId
          /\ works[w].step = "schedule" => works[w].tick # NoId
          /\ works[w].step = "subscribe" /\ IsEvery[w] => works[w].tick # NoId
          /\ works[w].schedule => works[w].tick # NoId
    /\ \A v, w \in Works :
          works[v].tick # NoId /\ works[v].tick = works[w].tick => v = w

(* Every schedule in the store is of a call that has still to cancel it,   *)
(* or its cancellation was refused and logged; and until its release runs  *)
(* a call has its schedule.                                                *)
SchedulesAreOwned ==
    /\ \A t \in schedules :
          \E w \in Works :
              works[w].schedule /\ works[w].tick = t /\ (works[w].once = "done" => t \in logged)
    /\ \A w \in Works :
          works[w].schedule /\ works[w].once = "new" => works[w].tick \in schedules

AdapterInv ==
    /\ AdapterTypes
    /\ CloseOrder
    /\ EndedByContext
    /\ ReleasesAreTracked
    /\ RunningIsWanted
    /\ NoneForgotten
    /\ OpenedLast
    /\ DoneIsReleased
    /\ TicksAreOwn
    /\ SchedulesAreOwned
    /\ EnvelopeSurvives

LEMMA HasNone == ASSUME NEW v PROVE ~Has(<<>>, v)
BY DEF Has

LEMMA HasAppend ==
    ASSUME NEW s \in Seq(Works), NEW w \in Works
    PROVE  /\ Append(s, w) \in Seq(Works)
           /\ \A v \in Works : Has(Append(s, w), v) <=> Has(s, v) \/ v = w
<1>1. /\ Append(s, w) \in Seq(Works)
      /\ DOMAIN Append(s, w) = 1 .. (Len(s) + 1)
      /\ Append(s, w)[Len(s) + 1] = w
      /\ \A i \in 1 .. Len(s) : Append(s, w)[i] = s[i]
      /\ DOMAIN s = 1 .. Len(s) /\ Len(s) \in Nat
  OBVIOUS
<1> QED
  BY <1>1 DEF Has

(* The release of w is forgotten and every other one is kept.              *)
LEMMA HasWithout ==
    ASSUME NEW s \in Seq(Works), NEW w \in Works
    PROVE  /\ Without(s, w) \in Seq(Works)
           /\ \A v \in Works : v # w /\ Has(s, v) => Has(Without(s, w), v)
           /\ \A v \in Works : Has(Without(s, w), v) => Has(s, v)
<1>0. DOMAIN s = 1 .. Len(s) /\ Len(s) \in Nat /\ \A i \in 1 .. Len(s) : s[i] \in Works
  OBVIOUS
<1>1. CASE ~Has(s, w)
  BY <1>1 DEF Without
<1>2. CASE Has(s, w)
  <2>1. PICK k : k = CHOOSE i \in DOMAIN s : s[i] = w
    OBVIOUS
  <2>2. k \in 1 .. Len(s) /\ s[k] = w
    BY <1>0, <1>2, <2>1 DEF Has
  <2>3. Without(s, w) = [i \in 1 .. (Len(s) - 1) |-> IF i < k THEN s[i] ELSE s[i + 1]]
    BY <1>2, <2>1 DEF Without
  <2>4. Without(s, w) \in Seq(Works)
    <3>1. Len(s) - 1 \in Nat
      BY <1>0, <2>2
    <3>2. \A i \in 1 .. (Len(s) - 1) : (IF i < k THEN s[i] ELSE s[i + 1]) \in Works
      BY <1>0, <2>2
    <3>3. Without(s, w) \in [1 .. (Len(s) - 1) -> Works]
      BY <2>3, <3>2
    <3> QED
      BY <3>1, <3>3
  <2>5. ASSUME NEW v \in Works, v # w, Has(s, v) PROVE Has(Without(s, w), v)
    <3>1. PICK j \in 1 .. Len(s) : s[j] = v
      BY <1>0, <2>5 DEF Has
    <3>2. CASE j < k
      <4>1. j \in 1 .. (Len(s) - 1)
        BY <1>0, <2>2, <3>1, <3>2
      <4>2. Without(s, w)[j] = v
        BY <2>3, <3>1, <3>2, <4>1
      <4> QED
        BY <2>3, <4>1, <4>2 DEF Has
    <3>3. CASE j > k
      <4>1. j - 1 \in 1 .. (Len(s) - 1) /\ ~(j - 1 < k) /\ (j - 1) + 1 = j
        BY <1>0, <2>2, <3>1, <3>3
      <4>2. Without(s, w)[j - 1] = v
        BY <2>3, <3>1, <4>1
      <4> QED
        BY <2>3, <4>1, <4>2 DEF Has
    <3> QED
      BY <2>2, <2>5, <3>1, <3>2, <3>3
  <2>6. ASSUME NEW v \in Works, Has(Without(s, w), v) PROVE Has(s, v)
    <3>1. PICK i \in 1 .. (Len(s) - 1) : (IF i < k THEN s[i] ELSE s[i + 1]) = v
      BY <2>3, <2>6 DEF Has
    <3>2. i \in 1 .. Len(s) /\ i + 1 \in 1 .. Len(s)
      BY <1>0, <3>1
    <3> QED
      BY <1>0, <3>1, <3>2 DEF Has
  <2> QED
    BY <2>4, <2>5, <2>6
<1> QED
  BY <1>1, <1>2

LEMMA HasReversed ==
    ASSUME NEW s \in Seq(Works)
    PROVE  /\ Reversed(s) \in Seq(Works)
           /\ \A v \in Works : Has(Reversed(s), v) <=> Has(s, v)
<1>0. DOMAIN s = 1 .. Len(s) /\ Len(s) \in Nat /\ \A i \in 1 .. Len(s) : s[i] \in Works
  OBVIOUS
<1>1. \A i \in 1 .. Len(s) : Len(s) - i + 1 \in 1 .. Len(s)
  BY <1>0
<1>2. Reversed(s) \in [1 .. Len(s) -> Works]
  BY <1>0, <1>1 DEF Reversed
<1>3. Reversed(s) \in Seq(Works)
  BY <1>0, <1>2
<1>4. ASSUME NEW v \in Works, Has(s, v) PROVE Has(Reversed(s), v)
  <2>1. PICK j \in 1 .. Len(s) : s[j] = v
    BY <1>0, <1>4 DEF Has
  <2>2. Len(s) - (Len(s) - j + 1) + 1 = j /\ Len(s) - j + 1 \in 1 .. Len(s)
    BY <1>0, <1>1, <2>1
  <2>3. Reversed(s)[Len(s) - j + 1] = v
    BY <2>1, <2>2 DEF Reversed
  <2> QED
    BY <1>2, <2>2, <2>3 DEF Has
<1>5. ASSUME NEW v \in Works, Has(Reversed(s), v) PROVE Has(s, v)
  BY <1>0, <1>1, <1>2, <1>5 DEF Has, Reversed
<1> QED
  BY <1>3, <1>4, <1>5

LEMMA HasBehindHead ==
    ASSUME NEW s \in Seq(Works), s # <<>>
    PROVE  /\ Head(s) \in Works /\ Has(s, Head(s))
           /\ Tail(s) \in Seq(Works)
           /\ \A v \in Works : v # Head(s) /\ Has(s, v) => Has(Tail(s), v)
           /\ \A v \in Works : Has(Tail(s), v) => Has(s, v)
<1>0. DOMAIN s = 1 .. Len(s) /\ Len(s) \in Nat /\ Len(s) >= 1 /\ \A i \in 1 .. Len(s) : s[i] \in Works
  OBVIOUS
<1>1. Head(s) = s[1] /\ Tail(s) \in Seq(Works) /\ Len(Tail(s)) = Len(s) - 1
  OBVIOUS
<1>2. DOMAIN Tail(s) = 1 .. (Len(s) - 1) /\ \A i \in 1 .. (Len(s) - 1) : Tail(s)[i] = s[i + 1]
  BY <1>1
<1>3. ASSUME NEW v \in Works, v # Head(s), Has(s, v) PROVE Has(Tail(s), v)
  <2>1. PICK j \in 1 .. Len(s) : s[j] = v
    BY <1>0, <1>3 DEF Has
  <2>2. j - 1 \in 1 .. (Len(s) - 1) /\ (j - 1) + 1 = j
    BY <1>0, <1>1, <1>3, <2>1
  <2>3. Tail(s)[j - 1] = v
    BY <1>2, <2>1, <2>2
  <2> QED
    BY <1>2, <2>2, <2>3 DEF Has
<1>4. ASSUME NEW v \in Works, Has(Tail(s), v) PROVE Has(s, v)
  <2>1. PICK i \in 1 .. (Len(s) - 1) : Tail(s)[i] = v
    BY <1>2, <1>4 DEF Has
  <2>2. i + 1 \in 1 .. Len(s) /\ s[i + 1] = v
    BY <1>0, <1>2, <2>1
  <2> QED
    BY <1>0, <2>2 DEF Has
<1>5. Head(s) \in Works /\ Has(s, Head(s))
  BY <1>0, <1>1 DEF Has
<1> QED
  BY <1>1, <1>3, <1>4, <1>5

LEMMA AdapterInvInit == AdapterInit => AdapterInv
<1> SUFFICES ASSUME AdapterInit PROVE AdapterInv
  OBVIOUS
<1>1. PICK c \in BOOLEAN : adapter =
          [closed |-> FALSE, ctx |-> TRUE, ticks |-> 0, can |-> c,
           cleanups |-> <<>>, closer |-> "open", pending |-> <<>>]
  BY DEF AdapterInit
<1>2. \A w \in Works : works[w] = [step |-> "idle", tick |-> NoId, sub |-> FALSE,
                                   schedule |-> FALSE, ticker |-> FALSE, once |-> "new"]
  BY DEF AdapterInit
<1>3. AdapterTypes
  BY <1>1 DEF AdapterInit, AdapterTypes, Adapters, WorkStates, Steps
<1>4. \A w \in Works : ~Has(adapter.cleanups, w) /\ ~Has(adapter.pending, w)
  BY <1>1, HasNone
<1>5. CloseOrder /\ EndedByContext /\ RunningIsWanted /\ NoneForgotten /\ OpenedLast /\ DoneIsReleased
  BY <1>1, <1>2 DEF CloseOrder, EndedByContext, RunningIsWanted, NoneForgotten, OpenedLast,
     DoneIsReleased
<1>6. ReleasesAreTracked
  BY <1>2, <1>4 DEF ReleasesAreTracked
<1>7. TicksAreOwn /\ SchedulesAreOwned /\ EnvelopeSurvives
  BY <1>2 DEF AdapterInit, TicksAreOwn, SchedulesAreOwned, EnvelopeSurvives
<1> QED
  BY <1>3, <1>5, <1>6, <1>7 DEF AdapterInv

(* What a step that touches no tick and no schedule keeps.                 *)
LEMMA TicksFrame ==
    ASSUME TicksAreOwn, adapter'.ticks = adapter.ticks,
           \A v \in Works :
               /\ works'[v].tick = works[v].tick /\ works'[v].schedule = works[v].schedule
               /\ \/ works'[v].step = works[v].step
                  \/ works'[v].step \notin {"idle", "subscribe", "schedule"}
    PROVE  TicksAreOwn'
BY DEF TicksAreOwn

LEMMA SchedulesFrame ==
    ASSUME SchedulesAreOwned, schedules' = schedules, logged' = logged,
           \A v \in Works :
               /\ works'[v].tick = works[v].tick /\ works'[v].schedule = works[v].schedule
               /\ works'[v].once = "done" => works[v].once = "done"
               /\ works'[v].once = "new" => works[v].once = "new"
    PROVE  SchedulesAreOwned'
<1>1. ASSUME NEW t \in schedules' PROVE \E v \in Works :
          (works[v].schedule /\ works[v].tick = t /\ (works[v].once = "done" => t \in logged))'
  BY <1>1 DEF SchedulesAreOwned
<1>2. ASSUME NEW v \in Works, (works[v].schedule)', (works[v].once)' = "new"
      PROVE (works[v].tick)' \in schedules'
  BY <1>2 DEF SchedulesAreOwned
<1> QED
  BY <1>1, <1>2 DEF SchedulesAreOwned

LEMMA SubscribeKeeps ==
    ASSUME AdapterInv, NEW w \in Works, Subscribe(w)
    PROVE  AdapterInv'
<1> USE DEF AdapterInv
<1>1. /\ works[w] \in WorkStates /\ works[w].step = "subscribe"
      /\ adapter \in Adapters /\ alive \in BOOLEAN /\ works \in [Works -> WorkStates]
  BY DEF Subscribe, AdapterTypes
<1>2. PICK b \in BOOLEAN, l \in {"schedule", "ticker", "track", "done"} :
        /\ b = (alive /\ adapter.ctx)
        /\ l = IF IsEvery[w] THEN (IF alive THEN "schedule" ELSE "ticker")
                             ELSE (IF alive THEN "track" ELSE "done")
        /\ works' = [works EXCEPT ![w].sub = b, ![w].step = l]
  BY DEF Subscribe
<1>3. /\ works' \in [Works -> WorkStates]
      /\ works'[w] = [works[w] EXCEPT !.sub = b, !.step = l]
      /\ \A v \in Works : v # w => works'[v] = works[v]
  BY <1>1, <1>2 DEF WorkStates, Steps
<1>4. /\ works'[w].step = l /\ works'[w].tick = works[w].tick /\ works'[w].sub = b
      /\ works'[w].schedule = works[w].schedule /\ works'[w].ticker = works[w].ticker
      /\ works'[w].once = works[w].once
  BY <1>1, <1>3 DEF WorkStates
<1>5. UNCHANGED <<adapter, alive, schedules, logged, received>>
  BY DEF Subscribe
<1>6. AdapterTypes'
  BY <1>3, <1>5 DEF AdapterTypes
<1>7. CloseOrder'
  BY <1>3, <1>5 DEF CloseOrder
<1>8. EnvelopeSurvives'
  BY <1>3, <1>5 DEF EnvelopeSurvives
<1>9. EndedByContext'
  BY <1>1, <1>2, <1>3, <1>4, <1>5 DEF EndedByContext
<1>10. ReleasesAreTracked'
  BY <1>1, <1>2, <1>3, <1>4, <1>5 DEF ReleasesAreTracked, Tracked
<1>11. RunningIsWanted'
  BY <1>1, <1>2, <1>3, <1>4, <1>5 DEF RunningIsWanted
<1>12. NoneForgotten'
  BY <1>1, <1>2, <1>3, <1>4, <1>5 DEF NoneForgotten
<1>13. OpenedLast'
  BY <1>1, <1>2, <1>3, <1>4, <1>5 DEF OpenedLast
<1>14. DoneIsReleased'
  BY <1>1, <1>2, <1>3, <1>4, <1>5 DEF DoneIsReleased, OpenedLast
<1>15. TicksAreOwn'
  BY <1>1, <1>2, <1>3, <1>4, <1>5 DEF TicksAreOwn
<1>16. SchedulesAreOwned'
  BY <1>1, <1>2, <1>3, <1>4, <1>5 DEF SchedulesAreOwned
<1> QED
  BY <1>6, <1>7, <1>8, <1>9, <1>10, <1>11, <1>12, <1>13, <1>14, <1>15, <1>16

LEMMA TickerKeeps ==
    ASSUME AdapterInv, NEW w \in Works, Ticker(w)
    PROVE  AdapterInv'
<1> USE DEF AdapterInv
<1>1. /\ works[w] \in WorkStates /\ works[w].step = "ticker"
      /\ adapter \in Adapters /\ alive \in BOOLEAN /\ works \in [Works -> WorkStates]
  BY DEF Ticker, AdapterTypes
<1>2. PICK b \in BOOLEAN : b = adapter.ctx /\ works' = [works EXCEPT ![w].step = "track", ![w].ticker = b]
  BY <1>1 DEF Ticker, Adapters
<1>3. /\ works' \in [Works -> WorkStates]
      /\ works'[w] = [works[w] EXCEPT !.step = "track", !.ticker = b]
      /\ \A v \in Works : v # w => works'[v] = works[v]
  BY <1>1, <1>2 DEF WorkStates, Steps
<1>4. /\ works'[w].step = "track" /\ works'[w].tick = works[w].tick
      /\ works'[w].sub = works[w].sub /\ works'[w].schedule = works[w].schedule
      /\ works'[w].ticker = b /\ works'[w].once = works[w].once
  BY <1>1, <1>3 DEF WorkStates
<1>5. UNCHANGED <<adapter, alive, schedules, logged, received>>
  BY DEF Ticker
<1>6. AdapterTypes'
  BY <1>3, <1>5 DEF AdapterTypes
<1>7. CloseOrder'
  BY <1>3, <1>5 DEF CloseOrder
<1>8. EnvelopeSurvives'
  BY <1>3, <1>5 DEF EnvelopeSurvives
<1>9. EndedByContext'
  BY <1>1, <1>2, <1>3, <1>4, <1>5 DEF EndedByContext
<1>10. ReleasesAreTracked'
  BY <1>1, <1>2, <1>3, <1>4, <1>5 DEF ReleasesAreTracked, Tracked
<1>11. RunningIsWanted'
  BY <1>1, <1>2, <1>3, <1>4, <1>5 DEF RunningIsWanted
<1>12. NoneForgotten'
  BY <1>1, <1>2, <1>3, <1>4, <1>5 DEF NoneForgotten
<1>13. OpenedLast'
  BY <1>1, <1>2, <1>3, <1>4, <1>5 DEF OpenedLast
<1>14. DoneIsReleased'
  BY <1>1, <1>2, <1>3, <1>4, <1>5 DEF DoneIsReleased
<1>15. TicksAreOwn'
  BY <1>1, <1>2, <1>3, <1>4, <1>5, TicksFrame
<1>16. SchedulesAreOwned'
  BY <1>1, <1>2, <1>3, <1>4, <1>5, SchedulesFrame
<1> QED
  BY <1>6, <1>7, <1>8, <1>9, <1>10, <1>11, <1>12, <1>13, <1>14, <1>15, <1>16

LEMMA ReleaseKeeps ==
    ASSUME AdapterInv, NEW w \in Works, Release(w)
    PROVE  AdapterInv'
<1> USE DEF AdapterInv
<1>1. /\ works[w] \in WorkStates /\ works[w].once = "new"
      /\ adapter \in Adapters /\ alive \in BOOLEAN /\ works \in [Works -> WorkStates]
  BY DEF Release, AdapterTypes
<1>2. works[w].step = "releasing" \/ Has(adapter.pending, w)
  BY <1>1, HasBehindHead DEF Release, Wanted, NextLeft, Adapters
<1>3. /\ works' \in [Works -> WorkStates]
      /\ works'[w] = [works[w] EXCEPT !.once = "running", !.sub = FALSE, !.ticker = FALSE]
      /\ \A v \in Works : v # w => works'[v] = works[v]
  BY <1>1 DEF Release, WorkStates, Steps
<1>4. /\ works'[w].step = works[w].step /\ works'[w].tick = works[w].tick
      /\ works'[w].sub = FALSE /\ works'[w].schedule = works[w].schedule
      /\ works'[w].ticker = FALSE /\ works'[w].once = "running"
  BY <1>1, <1>3 DEF WorkStates
<1>5. UNCHANGED <<adapter, alive, schedules, logged, received>>
  BY DEF Release
<1>6. AdapterTypes'
  BY <1>3, <1>5 DEF AdapterTypes
<1>7. CloseOrder'
  BY <1>3, <1>5 DEF CloseOrder
<1>8. EnvelopeSurvives'
  BY <1>3, <1>5 DEF EnvelopeSurvives
<1>9. EndedByContext'
  BY <1>1, <1>2, <1>3, <1>4, <1>5 DEF EndedByContext
<1>10. ReleasesAreTracked'
  BY <1>1, <1>2, <1>3, <1>4, <1>5 DEF ReleasesAreTracked, Tracked
<1>11. RunningIsWanted'
  BY <1>1, <1>2, <1>3, <1>4, <1>5 DEF RunningIsWanted
<1>12. NoneForgotten'
  BY <1>1, <1>2, <1>3, <1>4, <1>5 DEF NoneForgotten
<1>13. OpenedLast'
  BY <1>1, <1>2, <1>3, <1>4, <1>5 DEF OpenedLast
<1>14. DoneIsReleased'
  BY <1>1, <1>2, <1>3, <1>4, <1>5 DEF DoneIsReleased
<1>15. TicksAreOwn'
  BY <1>1, <1>2, <1>3, <1>4, <1>5, TicksFrame
<1>16. SchedulesAreOwned'
  BY <1>1, <1>2, <1>3, <1>4, <1>5, SchedulesFrame
<1> QED
  BY <1>6, <1>7, <1>8, <1>9, <1>10, <1>11, <1>12, <1>13, <1>14, <1>15, <1>16

LEMMA ReleasedKeeps ==
    ASSUME AdapterInv, NEW w \in Works, Released(w)
    PROVE  AdapterInv'
<1> USE DEF AdapterInv
<1>1. /\ works[w] \in WorkStates /\ works[w].step = "releasing" /\ works[w].once = "done"
      /\ adapter \in Adapters /\ alive \in BOOLEAN /\ works \in [Works -> WorkStates]
  BY DEF Released, AdapterTypes
<1>3. /\ works' \in [Works -> WorkStates]
      /\ works'[w] = [works[w] EXCEPT !.step = "done"]
      /\ \A v \in Works : v # w => works'[v] = works[v]
  BY <1>1 DEF Released, WorkStates, Steps
<1>4. /\ works'[w].step = "done" /\ works'[w].tick = works[w].tick
      /\ works'[w].sub = works[w].sub /\ works'[w].schedule = works[w].schedule
      /\ works'[w].ticker = works[w].ticker /\ works'[w].once = works[w].once
  BY <1>1, <1>3 DEF WorkStates
<1>5. UNCHANGED <<adapter, alive, schedules, logged, received>>
  BY DEF Released
<1>6. AdapterTypes'
  BY <1>3, <1>5 DEF AdapterTypes
<1>7. CloseOrder'
  BY <1>3, <1>5 DEF CloseOrder
<1>8. EnvelopeSurvives'
  BY <1>3, <1>5 DEF EnvelopeSurvives
<1>9. EndedByContext'
  BY <1>1, <1>3, <1>4, <1>5 DEF EndedByContext
<1>10. ReleasesAreTracked'
  BY <1>1, <1>3, <1>4, <1>5 DEF ReleasesAreTracked, Tracked
<1>11. RunningIsWanted'
  BY <1>1, <1>3, <1>4, <1>5 DEF RunningIsWanted
<1>12. NoneForgotten'
  BY <1>1, <1>3, <1>4, <1>5 DEF NoneForgotten
<1>13. OpenedLast'
  BY <1>1, <1>3, <1>4, <1>5 DEF OpenedLast
<1>14. DoneIsReleased'
  BY <1>1, <1>3, <1>4, <1>5 DEF DoneIsReleased
<1>15. TicksAreOwn'
  BY <1>1, <1>3, <1>4, <1>5, TicksFrame
<1>16. SchedulesAreOwned'
  BY <1>1, <1>3, <1>4, <1>5, SchedulesFrame
<1> QED
  BY <1>6, <1>7, <1>8, <1>9, <1>10, <1>11, <1>12, <1>13, <1>14, <1>15, <1>16

LEMMA BeginKeeps ==
    ASSUME AdapterInv, NEW w \in Works, BeginWork(w)
    PROVE  AdapterInv'
<1> USE DEF AdapterInv
<1>1. /\ works[w] \in WorkStates /\ works[w].step = "idle"
      /\ adapter \in Adapters /\ alive \in BOOLEAN /\ works \in [Works -> WorkStates]
  BY DEF BeginWork, AdapterTypes
<1>2. PICK l \in {"subscribe", "ticker"}, n \in Nat \cup {NoId} :
        /\ works' = [works EXCEPT ![w].step = l, ![w].tick = n]
        /\ \/ n = adapter.ticks /\ adapter' = [adapter EXCEPT !.ticks = adapter.ticks + 1]
           \/ n = works[w].tick /\ adapter' = adapter /\ (IsEvery[w] => l = "ticker")
  <2>1. CASE IsEvery[w] /\ adapter.can
    BY <1>1, <2>1 DEF BeginWork, NextTick, Adapters
  <2>2. CASE ~(IsEvery[w] /\ adapter.can)
    <3>1. works' = [works EXCEPT ![w].step = IF IsEvery[w] THEN "ticker" ELSE "subscribe"]
          /\ adapter' = adapter
      BY <2>2 DEF BeginWork
    <3>2. works[w] = [works[w] EXCEPT !.tick = works[w].tick] /\ works[w].tick \in Nat \cup {NoId}
      BY <1>1 DEF WorkStates
    <3>3. works' = [works EXCEPT ![w].step = IF IsEvery[w] THEN "ticker" ELSE "subscribe",
                                 ![w].tick = works[w].tick]
      <4>1. PICK l \in {"ticker", "subscribe"} : l = IF IsEvery[w] THEN "ticker" ELSE "subscribe"
        OBVIOUS
      <4>2. [works[w] EXCEPT !.step = l] = [works[w] EXCEPT !.step = l, !.tick = works[w].tick]
        BY <1>1 DEF WorkStates
      <4> QED
        BY <3>1, <4>1, <4>2
    <3> QED
      BY <3>1, <3>2, <3>3
  <2> QED
    BY <2>1, <2>2
<1>3. /\ works' \in [Works -> WorkStates]
      /\ works'[w] = [works[w] EXCEPT !.step = l, !.tick = n]
      /\ \A v \in Works : v # w => works'[v] = works[v]
  BY <1>1, <1>2 DEF WorkStates, Steps
<1>4. /\ works'[w].step = l /\ works'[w].tick = n /\ works'[w].sub = works[w].sub
      /\ works'[w].schedule = works[w].schedule /\ works'[w].ticker = works[w].ticker
      /\ works'[w].once = works[w].once
  BY <1>1, <1>3 DEF WorkStates
<1>5. UNCHANGED <<alive, schedules, logged, received>>
  BY DEF BeginWork
<1>a. /\ adapter' \in Adapters /\ adapter'.ticks \in Nat /\ adapter'.ticks >= adapter.ticks
      /\ adapter'.closed = adapter.closed /\ adapter'.ctx = adapter.ctx
      /\ adapter'.closer = adapter.closer /\ adapter'.cleanups = adapter.cleanups
      /\ adapter'.pending = adapter.pending
  BY <1>1, <1>2 DEF Adapters
<1>6. AdapterTypes'
  BY <1>1, <1>2, <1>3, <1>4, <1>5, <1>a DEF AdapterTypes
<1>7. CloseOrder'
  BY <1>1, <1>2, <1>3, <1>4, <1>5, <1>a DEF CloseOrder
<1>8. EnvelopeSurvives'
  BY <1>1, <1>2, <1>3, <1>4, <1>5, <1>a DEF EnvelopeSurvives
<1>9. EndedByContext'
  BY <1>1, <1>2, <1>3, <1>4, <1>5, <1>a DEF EndedByContext
<1>10. ReleasesAreTracked'
  BY <1>1, <1>2, <1>3, <1>4, <1>5, <1>a DEF ReleasesAreTracked, Tracked
<1>11. RunningIsWanted'
  BY <1>1, <1>2, <1>3, <1>4, <1>5, <1>a DEF RunningIsWanted
<1>12. NoneForgotten'
  BY <1>1, <1>2, <1>3, <1>4, <1>5, <1>a DEF NoneForgotten
<1>13. OpenedLast'
  BY <1>1, <1>2, <1>3, <1>4, <1>5, <1>a DEF OpenedLast
<1>14. DoneIsReleased'
  BY <1>1, <1>2, <1>3, <1>4, <1>5, <1>a DEF DoneIsReleased
<1>15. TicksAreOwn'
  <2>1. works[w].tick = NoId /\ ~works[w].schedule
    BY <1>1 DEF TicksAreOwn, OpenedLast
  <2>2. adapter.ticks \in Nat /\ \A v \in Works : works[v].tick \in Nat \cup {NoId}
    BY <1>1 DEF Adapters, WorkStates
  <2>3. n = NoId \/ (n = adapter.ticks /\ n < adapter'.ticks /\ n # NoId)
    BY <1>1, <1>2, <2>1, <2>2 DEF Adapters, NoId
  <2>4. \A v \in Works : works[v].tick # NoId => works[v].tick < adapter.ticks
    BY DEF TicksAreOwn
  <2>5. ASSUME NEW v \in Works PROVE
          /\ (works[v].tick)' # NoId => (works[v].tick)' < adapter'.ticks
          /\ (works[v].step)' = "idle" => (works[v].tick)' = NoId
          /\ (works[v].step)' = "schedule" => (works[v].tick)' # NoId
          /\ (works[v].step)' = "subscribe" /\ IsEvery[v] => (works[v].tick)' # NoId
          /\ (works[v].schedule)' => (works[v].tick)' # NoId
    <3>1. CASE v = w
      <4>1. n = NoId /\ IsEvery[w] => l = "ticker"
        BY <1>2, <2>2, <2>3 DEF NoId
      <4> QED
        BY <1>2, <1>4, <2>1, <2>3, <3>1, <4>1
    <3>2. CASE v # w
      <4>1. works'[v] = works[v]
        BY <1>3, <3>2
      <4>2. works[v].tick # NoId => works[v].tick < adapter'.ticks
        <5>1. PICK m \in Nat, n1 \in Nat : m = adapter.ticks /\ n1 = adapter'.ticks /\ n1 >= m
          BY <1>a, <2>2
        <5> QED
          BY <2>2, <2>4, <5>1 DEF NoId
      <4> QED
        BY <4>1, <4>2 DEF TicksAreOwn
    <3> QED
      BY <3>1, <3>2
  <2>6. ASSUME NEW u \in Works, NEW v \in Works,
               (works[u].tick)' # NoId, (works[u].tick)' = (works[v].tick)'
        PROVE u = v
    <3>1. \A x \in Works : works[x].tick # adapter.ticks
      BY <2>2, <2>4 DEF NoId
    <3>2. CASE u # w /\ v # w
      BY <1>3, <2>6, <3>2 DEF TicksAreOwn
    <3>3. ASSUME NEW x \in Works, x # w PROVE (works[x].tick)' # n \/ n = NoId
      BY <1>3, <2>3, <3>1, <3>3
    <3>4. (works[w].tick)' = n
      BY <1>4
    <3> QED
      BY <2>6, <3>2, <3>3, <3>4
  <2> QED
    BY <2>5, <2>6 DEF TicksAreOwn
<1>16. SchedulesAreOwned'
  <2>1. ~works[w].schedule /\ ~(works[w].schedule)'
    BY <1>1, <1>4 DEF OpenedLast
  <2>2. ASSUME NEW t \in schedules' PROVE \E v \in Works :
            (works[v].schedule /\ works[v].tick = t /\ (works[v].once = "done" => t \in logged))'
    <3>1. PICK v \in Works :
              works[v].schedule /\ works[v].tick = t /\ (works[v].once = "done" => t \in logged)
      BY <1>5, <2>2 DEF SchedulesAreOwned
    <3> QED
      BY <1>3, <1>5, <2>1, <3>1
  <2>3. ASSUME NEW v \in Works, (works[v].schedule)', (works[v].once)' = "new"
        PROVE (works[v].tick)' \in schedules'
    BY <1>3, <1>5, <2>1, <2>3 DEF SchedulesAreOwned
  <2> QED
    BY <2>2, <2>3 DEF SchedulesAreOwned
<1> QED
  BY <1>6, <1>7, <1>8, <1>9, <1>10, <1>11, <1>12, <1>13, <1>14, <1>15, <1>16

LEMMA ScheduleKeeps ==
    ASSUME AdapterInv, NEW w \in Works, Schedule(w)
    PROVE  AdapterInv'
<1> USE DEF AdapterInv
<1>1. /\ works[w] \in WorkStates /\ works[w].step = "schedule"
      /\ adapter \in Adapters /\ alive \in BOOLEAN /\ works \in [Works -> WorkStates]
  BY DEF Schedule, AdapterTypes
<1>2. PICK b \in BOOLEAN, l \in {"track", "ticker"}, c \in BOOLEAN :
        /\ works' = [works EXCEPT ![w].step = l, ![w].schedule = c, ![w].sub = b]
        /\ \/ l = "track" /\ c = TRUE /\ b = works[w].sub /\ schedules' = schedules \cup {works[w].tick}
           \/ l = "ticker" /\ c = works[w].schedule /\ b = FALSE /\ schedules' = schedules
  <2>1. works[w].sub \in BOOLEAN /\ works[w].schedule \in BOOLEAN
    BY <1>1 DEF WorkStates
  <2>2. CASE alive
    <3>1. works' = [works EXCEPT ![w].step = "track", ![w].schedule = TRUE, ![w].sub = works[w].sub]
      BY <1>1, <2>2 DEF Schedule, WorkStates
    <3> QED
      BY <2>1, <2>2, <3>1 DEF Schedule
  <2>3. CASE ~alive
    <3>1. works' = [works EXCEPT ![w].step = "ticker", ![w].schedule = works[w].schedule, ![w].sub = FALSE]
      BY <1>1, <2>3 DEF Schedule, WorkStates
    <3> QED
      BY <2>1, <2>3, <3>1 DEF Schedule
  <2> QED
    BY <2>2, <2>3
<1>3. /\ works' \in [Works -> WorkStates]
      /\ works'[w] = [works[w] EXCEPT !.step = l, !.schedule = c, !.sub = b]
      /\ \A v \in Works : v # w => works'[v] = works[v]
  BY <1>1, <1>2 DEF WorkStates, Steps
<1>4. /\ works'[w].step = l /\ works'[w].tick = works[w].tick /\ works'[w].sub = b
      /\ works'[w].schedule = c /\ works'[w].ticker = works[w].ticker
      /\ works'[w].once = works[w].once
  BY <1>1, <1>3 DEF WorkStates
<1>5. UNCHANGED <<adapter, alive, logged, received>>
  BY DEF Schedule
<1>6. AdapterTypes'
  BY <1>3, <1>5 DEF AdapterTypes
<1>7. CloseOrder'
  BY <1>3, <1>5 DEF CloseOrder
<1>8. EnvelopeSurvives'
  BY <1>3, <1>5 DEF EnvelopeSurvives
<1>9. EndedByContext'
  BY <1>1, <1>2, <1>3, <1>4, <1>5 DEF EndedByContext
<1>10. ReleasesAreTracked'
  BY <1>1, <1>2, <1>3, <1>4, <1>5 DEF ReleasesAreTracked, Tracked
<1>11. RunningIsWanted'
  BY <1>1, <1>2, <1>3, <1>4, <1>5 DEF RunningIsWanted
<1>12. NoneForgotten'
  BY <1>1, <1>2, <1>3, <1>4, <1>5 DEF NoneForgotten
<1>13. OpenedLast'
  BY <1>1, <1>2, <1>3, <1>4, <1>5 DEF OpenedLast
<1>14. DoneIsReleased'
  BY <1>1, <1>2, <1>3, <1>4, <1>5 DEF DoneIsReleased
<1>15. TicksAreOwn'
  BY <1>1, <1>2, <1>3, <1>4, <1>5 DEF TicksAreOwn
<1>16. SchedulesAreOwned'
  <2>1. ~works[w].schedule /\ works[w].once # "done"
    BY <1>1 DEF OpenedLast, ReleasesAreTracked, Tracked
  <2>2. ASSUME NEW t \in schedules' PROVE \E v \in Works :
            (works[v].schedule /\ works[v].tick = t /\ (works[v].once = "done" => t \in logged))'
    <3>1. CASE t \in schedules
      <4>1. PICK v \in Works :
                works[v].schedule /\ works[v].tick = t /\ (works[v].once = "done" => t \in logged)
        BY <3>1 DEF SchedulesAreOwned
      <4> QED
        BY <1>3, <1>5, <2>1, <4>1
    <3>2. CASE t \notin schedules
      BY <1>2, <1>4, <2>1, <2>2, <3>2
    <3> QED
      BY <3>1, <3>2
  <2>3. ASSUME NEW v \in Works, (works[v].schedule)', (works[v].once)' = "new"
        PROVE (works[v].tick)' \in schedules'
    BY <1>2, <1>3, <1>4, <2>1, <2>3 DEF SchedulesAreOwned
  <2> QED
    BY <2>2, <2>3 DEF SchedulesAreOwned
<1> QED
  BY <1>6, <1>7, <1>8, <1>9, <1>10, <1>11, <1>12, <1>13, <1>14, <1>15, <1>16

LEMMA TrackKeeps ==
    ASSUME AdapterInv, NEW w \in Works, Track(w)
    PROVE  AdapterInv'
<1> USE DEF AdapterInv
<1>1. /\ works[w] \in WorkStates /\ works[w].step = "track"
      /\ adapter \in Adapters /\ alive \in BOOLEAN /\ works \in [Works -> WorkStates]
  BY DEF Track, AdapterTypes
<1>2. PICK l \in {"returned", "releasing"} :
        /\ works' = [works EXCEPT ![w].step = l]
        /\ \/ l = "releasing" /\ adapter' = adapter
           \/ /\ l = "returned" /\ ~adapter.closed
              /\ adapter' = [adapter EXCEPT !.cleanups = Append(adapter.cleanups, w)]
  BY DEF Track
<1>3. /\ works' \in [Works -> WorkStates]
      /\ works'[w] = [works[w] EXCEPT !.step = l]
      /\ \A v \in Works : v # w => works'[v] = works[v]
  BY <1>1, <1>2 DEF WorkStates, Steps
<1>4. /\ works'[w].step = l /\ works'[w].tick = works[w].tick
      /\ works'[w].sub = works[w].sub /\ works'[w].schedule = works[w].schedule
      /\ works'[w].ticker = works[w].ticker /\ works'[w].once = works[w].once
  BY <1>1, <1>3 DEF WorkStates
<1>5. UNCHANGED <<alive, schedules, logged, received>>
  BY DEF Track
<1>a. /\ adapter' \in Adapters /\ adapter'.ticks = adapter.ticks
      /\ adapter'.closed = adapter.closed /\ adapter'.ctx = adapter.ctx
      /\ adapter'.closer = adapter.closer /\ adapter'.pending = adapter.pending
      /\ adapter.closed => adapter'.cleanups = adapter.cleanups
      /\ \A v \in Works : v # w => (Has(adapter.cleanups, v)' <=> Has(adapter.cleanups, v))
      /\ \A v \in Works : Has(adapter.pending, v)' <=> Has(adapter.pending, v)
      /\ l = "returned" => Has(adapter.cleanups, w)'
  <2>1. adapter.cleanups \in Seq(Works)
    BY <1>1 DEF Adapters
  <2>2. CASE l = "releasing"
    BY <1>1, <1>2, <2>2
  <2>3. CASE l = "returned"
    <3>1. adapter' = [adapter EXCEPT !.cleanups = Append(adapter.cleanups, w)] /\ ~adapter.closed
      BY <1>2, <2>3
    <3>2. adapter' \in Adapters /\ adapter'.cleanups = Append(adapter.cleanups, w)
      BY <1>1, <2>1, <3>1, HasAppend DEF Adapters
    <3> QED
      BY <1>1, <2>1, <3>1, <3>2, HasAppend DEF Adapters
  <2> QED
    BY <2>2, <2>3
<1>6. AdapterTypes'
  BY <1>1, <1>2, <1>3, <1>4, <1>5, <1>a DEF AdapterTypes
<1>7. CloseOrder'
  BY <1>1, <1>2, <1>3, <1>4, <1>5, <1>a DEF CloseOrder
<1>8. EnvelopeSurvives'
  BY <1>1, <1>2, <1>3, <1>4, <1>5, <1>a DEF EnvelopeSurvives
<1>9. EndedByContext'
  BY <1>1, <1>2, <1>3, <1>4, <1>5, <1>a DEF EndedByContext
<1>10. ReleasesAreTracked'
  BY <1>1, <1>2, <1>3, <1>4, <1>5, <1>a DEF ReleasesAreTracked, Tracked
<1>11. RunningIsWanted'
  BY <1>1, <1>2, <1>3, <1>4, <1>5, <1>a DEF RunningIsWanted
<1>12. NoneForgotten'
  BY <1>1, <1>2, <1>3, <1>4, <1>5, <1>a DEF NoneForgotten
<1>13. OpenedLast'
  BY <1>1, <1>2, <1>3, <1>4, <1>5, <1>a DEF OpenedLast
<1>14. DoneIsReleased'
  BY <1>1, <1>2, <1>3, <1>4, <1>5, <1>a DEF DoneIsReleased
<1>15. TicksAreOwn'
  BY <1>1, <1>2, <1>3, <1>4, <1>5, <1>a, TicksFrame
<1>16. SchedulesAreOwned'
  BY <1>1, <1>2, <1>3, <1>4, <1>5, <1>a, SchedulesFrame
<1> QED
  BY <1>6, <1>7, <1>8, <1>9, <1>10, <1>11, <1>12, <1>13, <1>14, <1>15, <1>16

LEMMA CancelKeeps ==
    ASSUME AdapterInv, NEW w \in Works, CancelWork(w)
    PROVE  AdapterInv'
<1> USE DEF AdapterInv
<1>1. /\ works[w] \in WorkStates /\ works[w].step = "returned"
      /\ adapter \in Adapters /\ alive \in BOOLEAN /\ works \in [Works -> WorkStates]
  BY DEF CancelWork, AdapterTypes
<1>3. /\ works' \in [Works -> WorkStates]
      /\ works'[w] = [works[w] EXCEPT !.step = "releasing"]
      /\ \A v \in Works : v # w => works'[v] = works[v]
  BY <1>1 DEF CancelWork, WorkStates, Steps
<1>4. /\ works'[w].step = "releasing" /\ works'[w].tick = works[w].tick
      /\ works'[w].sub = works[w].sub /\ works'[w].schedule = works[w].schedule
      /\ works'[w].ticker = works[w].ticker /\ works'[w].once = works[w].once
  BY <1>1, <1>3 DEF WorkStates
<1>5. UNCHANGED <<alive, schedules, logged, received>>
  BY DEF CancelWork
<1>a. /\ adapter' \in Adapters /\ adapter'.ticks = adapter.ticks
      /\ adapter'.closed = adapter.closed /\ adapter'.ctx = adapter.ctx
      /\ adapter'.closer = adapter.closer /\ adapter'.pending = adapter.pending
      /\ adapter.closed => adapter'.cleanups = <<>>
      /\ \A v \in Works : v # w => (Has(adapter.cleanups, v)' <=> Has(adapter.cleanups, v))
      /\ \A v \in Works : Has(adapter.pending, v)' <=> Has(adapter.pending, v)
  <2>1. adapter.cleanups \in Seq(Works)
    BY <1>1 DEF Adapters
  <2>2. adapter' = [adapter EXCEPT !.cleanups = Without(adapter.cleanups, w)]
    BY DEF CancelWork
  <2>3. adapter' \in Adapters /\ adapter'.cleanups = Without(adapter.cleanups, w)
    BY <1>1, <2>1, <2>2, HasWithout DEF Adapters
  <2>4. adapter.closed => Without(adapter.cleanups, w) = <<>>
    BY HasNone DEF CloseOrder, Without
  <2> QED
    BY <1>1, <2>1, <2>2, <2>3, <2>4, HasWithout DEF Adapters
<1>6. AdapterTypes'
  BY <1>1, <1>3, <1>4, <1>5, <1>a DEF AdapterTypes
<1>7. CloseOrder'
  BY <1>1, <1>3, <1>4, <1>5, <1>a DEF CloseOrder
<1>8. EnvelopeSurvives'
  BY <1>1, <1>3, <1>4, <1>5, <1>a DEF EnvelopeSurvives
<1>9. EndedByContext'
  BY <1>1, <1>3, <1>4, <1>5, <1>a DEF EndedByContext
<1>10. ReleasesAreTracked'
  <2>1. Tracked(w)' /\ \A v \in Works : v # w => (Tracked(v)' <=> Tracked(v))
    BY <1>3, <1>4 DEF Tracked
  <2> QED
    BY <1>3, <1>4, <1>a, <2>1 DEF ReleasesAreTracked
<1>11. RunningIsWanted'
  <2>1. \A v \in Works :
          (works[v].step = "releasing")' <=> works[v].step = "releasing" \/ v = w
    BY <1>3, <1>4
  <2>2. \A v \in Works : (works[v].once)' = works[v].once
    BY <1>3, <1>4
  <2> QED
    BY <1>a, <2>1, <2>2 DEF RunningIsWanted
<1>12. NoneForgotten'
  BY <1>1, <1>3, <1>4, <1>5, <1>a DEF NoneForgotten
<1>13. OpenedLast'
  BY <1>1, <1>3, <1>4, <1>5, <1>a DEF OpenedLast
<1>14. DoneIsReleased'
  BY <1>1, <1>3, <1>4, <1>5, <1>a DEF DoneIsReleased
<1>15. TicksAreOwn'
  BY <1>1, <1>3, <1>4, <1>5, <1>a, TicksFrame
<1>16. SchedulesAreOwned'
  BY <1>1, <1>3, <1>4, <1>5, <1>a, SchedulesFrame
<1> QED
  BY <1>6, <1>7, <1>8, <1>9, <1>10, <1>11, <1>12, <1>13, <1>14, <1>15, <1>16

LEMMA ReleaseScheduleKeeps ==
    ASSUME AdapterInv, NEW w \in Works, ReleaseSchedule(w)
    PROVE  AdapterInv'
<1> USE DEF AdapterInv
<1>1. /\ works[w] \in WorkStates /\ works[w].once = "running"
      /\ adapter \in Adapters /\ alive \in BOOLEAN /\ works \in [Works -> WorkStates]
  BY DEF ReleaseSchedule, AdapterTypes
<1>3. /\ works' \in [Works -> WorkStates]
      /\ works'[w] = [works[w] EXCEPT !.once = "done"]
      /\ \A v \in Works : v # w => works'[v] = works[v]
  BY <1>1 DEF ReleaseSchedule, WorkStates, Steps
<1>4. /\ works'[w].step = works[w].step /\ works'[w].tick = works[w].tick
      /\ works'[w].sub = works[w].sub /\ works'[w].schedule = works[w].schedule
      /\ works'[w].ticker = works[w].ticker /\ works'[w].once = "done"
  BY <1>1, <1>3 DEF WorkStates
<1>5. UNCHANGED <<adapter, alive, received>>
  BY DEF ReleaseSchedule
<1>6. AdapterTypes'
  BY <1>3, <1>5 DEF AdapterTypes
<1>7. CloseOrder'
  BY <1>3, <1>5 DEF CloseOrder
<1>8. EnvelopeSurvives'
  BY <1>3, <1>5 DEF EnvelopeSurvives
<1>9. EndedByContext'
  BY <1>1, <1>3, <1>4, <1>5 DEF EndedByContext
<1>10. ReleasesAreTracked'
  BY <1>1, <1>3, <1>4, <1>5 DEF ReleasesAreTracked, Tracked
<1>11. RunningIsWanted'
  BY <1>1, <1>3, <1>4, <1>5 DEF RunningIsWanted
<1>12. NoneForgotten'
  BY <1>1, <1>3, <1>4, <1>5 DEF NoneForgotten
<1>13. OpenedLast'
  BY <1>1, <1>3, <1>4, <1>5 DEF OpenedLast
<1>14. DoneIsReleased'
  BY <1>1, <1>3, <1>4, <1>5 DEF DoneIsReleased
<1>15. TicksAreOwn'
  BY <1>1, <1>3, <1>4, <1>5, TicksFrame
<1>16. SchedulesAreOwned'
  <2>1. \A v \in Works : works'[v].tick = works[v].tick /\ works'[v].schedule = works[v].schedule
    BY <1>3, <1>4
  <2>2. ASSUME NEW t \in schedules' PROVE \E v \in Works :
            (works[v].schedule /\ works[v].tick = t /\ (works[v].once = "done" => t \in logged))'
    <3>1. t \in schedules /\ logged \subseteq logged'
      BY <2>2 DEF ReleaseSchedule
    <3>2. PICK v \in Works :
              works[v].schedule /\ works[v].tick = t /\ (works[v].once = "done" => t \in logged)
      BY <3>1 DEF SchedulesAreOwned
    <3>3. CASE v = w
      <4>1. ~alive /\ t \in logged'
        BY <2>2, <3>2, <3>3 DEF ReleaseSchedule
      <4> QED
        BY <2>1, <3>2, <4>1
    <3>4. CASE v # w
      BY <1>3, <3>1, <3>2, <3>4
    <3> QED
      BY <3>3, <3>4
  <2>3. ASSUME NEW v \in Works, (works[v].schedule)', (works[v].once)' = "new"
        PROVE (works[v].tick)' \in schedules'
    <3>1. v # w /\ works'[v] = works[v]
      BY <1>3, <1>4, <2>3
    <3>2. works[v].tick \in schedules
      BY <2>3, <3>1 DEF SchedulesAreOwned
    <3>3. works[v].tick # works[w].tick
      BY <2>3, <3>1 DEF TicksAreOwn
    <3> QED
      BY <3>1, <3>2, <3>3 DEF ReleaseSchedule
  <2> QED
    BY <2>2, <2>3 DEF SchedulesAreOwned
<1> QED
  BY <1>6, <1>7, <1>8, <1>9, <1>10, <1>11, <1>12, <1>13, <1>14, <1>15, <1>16

LEMMA CloseNextKeeps ==
    ASSUME AdapterInv, NEW w \in Works, CloseNext(w)
    PROVE  AdapterInv'
<1> USE DEF AdapterInv
<1>1. /\ adapter \in Adapters /\ works' = works /\ works[w].once = "done"
      /\ UNCHANGED <<alive, schedules, logged, received>>
  BY DEF CloseNext, AdapterTypes
<1>2. PICK s \in Seq(Works) : s = adapter.pending /\ s # <<>> /\ Head(s) = w
  BY <1>1 DEF CloseNext, NextLeft, Adapters
<1>3. adapter' = [adapter EXCEPT !.pending = Tail(s)]
  BY <1>2 DEF CloseNext
<1>4. /\ adapter' \in Adapters /\ adapter'.ticks = adapter.ticks
      /\ adapter'.closed = adapter.closed /\ adapter'.ctx = adapter.ctx
      /\ adapter'.closer = adapter.closer /\ adapter'.cleanups = adapter.cleanups
      /\ adapter'.pending = Tail(s)
  BY <1>1, <1>2, <1>3, HasBehindHead DEF Adapters
<1>5. adapter.closer = "releasing"
  BY <1>2 DEF CloseOrder
<1>6. \A v \in Works : v # w => (Has(adapter.pending, v)' <=> Has(adapter.pending, v))
  BY <1>2, <1>4, HasBehindHead
<1>7. Has(adapter.pending, w)' => Has(adapter.pending, w)
  BY <1>2, <1>4, HasBehindHead
<1>8. \A v \in Works : Has(adapter.cleanups, v)' <=> Has(adapter.cleanups, v)
  BY <1>4
<1>9. AdapterTypes' /\ EnvelopeSurvives'
  BY <1>1, <1>4 DEF AdapterTypes, EnvelopeSurvives
<1>10. CloseOrder' /\ EndedByContext' /\ OpenedLast' /\ DoneIsReleased'
  BY <1>1, <1>4, <1>5 DEF CloseOrder, EndedByContext, OpenedLast, DoneIsReleased
<1>11. ReleasesAreTracked' /\ RunningIsWanted' /\ NoneForgotten'
  BY <1>1, <1>6, <1>7, <1>8 DEF ReleasesAreTracked, RunningIsWanted, NoneForgotten, Tracked
<1>12. TicksAreOwn' /\ SchedulesAreOwned'
  BY <1>1, <1>4, TicksFrame, SchedulesFrame
<1> QED
  BY <1>9, <1>10, <1>11, <1>12

(* Every release in cleanups becomes pending: none is dropped between the  *)
(* two under the lock.                                                     *)
LEMMA CloseBeginKeeps ==
    ASSUME AdapterInv, CloseBegin
    PROVE  AdapterInv'
<1> USE DEF AdapterInv
<1>1. /\ adapter \in Adapters /\ works' = works /\ ~adapter.closed
      /\ UNCHANGED <<alive, schedules, logged, received>>
  BY DEF CloseBegin, AdapterTypes
<1>2. PICK s \in Seq(Works) : s = adapter.cleanups
  BY <1>1 DEF Adapters
<1>3. adapter' = [adapter EXCEPT !.closed = TRUE, !.closer = "releasing",
                                 !.pending = Reversed(s), !.cleanups = <<>>]
  BY <1>2 DEF CloseBegin
<1>4. /\ adapter' \in Adapters /\ adapter'.ticks = adapter.ticks
      /\ adapter'.closed /\ adapter'.ctx = adapter.ctx
      /\ adapter'.closer = "releasing" /\ adapter'.cleanups = <<>>
      /\ adapter'.pending = Reversed(s)
  <2>1. <<>> \in Seq(Works) /\ Reversed(s) \in Seq(Works)
    BY HasReversed
  <2> QED
    BY <1>1, <1>3, <2>1 DEF Adapters
<1>5. adapter.closer = "open" /\ adapter.pending = <<>> /\ adapter.ctx
  BY <1>1 DEF CloseOrder
<1>6. \A v \in Works : Has(adapter.pending, v)' <=> Has(adapter.cleanups, v)
  BY <1>2, <1>4, HasReversed
<1>7. \A v \in Works : ~Has(adapter.cleanups, v)' /\ ~Has(adapter.pending, v)
  BY <1>4, <1>5, HasNone
<1>8. AdapterTypes' /\ EnvelopeSurvives'
  BY <1>1, <1>4 DEF AdapterTypes, EnvelopeSurvives
<1>9. CloseOrder' /\ EndedByContext' /\ OpenedLast' /\ DoneIsReleased'
  BY <1>1, <1>4, <1>5 DEF CloseOrder, EndedByContext, OpenedLast, DoneIsReleased
<1>10. ReleasesAreTracked' /\ RunningIsWanted' /\ NoneForgotten'
  BY <1>1, <1>6, <1>7 DEF ReleasesAreTracked, RunningIsWanted, NoneForgotten, Tracked
<1>11. TicksAreOwn' /\ SchedulesAreOwned'
  BY <1>1, <1>4, TicksFrame, SchedulesFrame
<1> QED
  BY <1>8, <1>9, <1>10, <1>11

(* The end of the context and a withdrawal end subscriptions and tickers   *)
(* and leave the rest of every call as it was.                             *)
LEMMA EndsKeep ==
    ASSUME AdapterInv, adapter' \in Adapters,
           adapter'.ticks = adapter.ticks, adapter'.cleanups = adapter.cleanups,
           adapter'.pending = adapter.pending, alive' \in BOOLEAN,
           UNCHANGED <<schedules, logged, received>>, CloseOrder',
           NEW b \in [Works -> BOOLEAN], NEW c \in [Works -> BOOLEAN],
           \A w \in Works : (b[w] => works[w].sub) /\ (c[w] => works[w].ticker),
           \A w \in Works : ~adapter'.ctx => ~b[w] /\ ~c[w],
           works' = [w \in Works |-> [works[w] EXCEPT !.sub = b[w], !.ticker = c[w]]]
    PROVE  AdapterInv'
<1> USE DEF AdapterInv
<1>1. \A w \in Works : works[w] \in WorkStates
  BY DEF AdapterTypes
<1>2. works' \in [Works -> WorkStates]
  <2>1. \A w \in Works : [works[w] EXCEPT !.sub = b[w], !.ticker = c[w]] \in WorkStates
    BY <1>1 DEF WorkStates
  <2> QED
    BY <2>1
<1>3. \A w \in Works :
        /\ works'[w].sub = b[w] /\ works'[w].ticker = c[w] /\ works'[w].step = works[w].step
        /\ works'[w].tick = works[w].tick /\ works'[w].schedule = works[w].schedule
        /\ works'[w].once = works[w].once
  BY <1>1 DEF WorkStates
<1>3a. \A w \in Works :
        /\ (works[w].sub)' => works[w].sub
        /\ (works[w].ticker)' => works[w].ticker
  BY <1>3
<1>4. AdapterTypes' /\ EnvelopeSurvives'
  BY <1>2 DEF AdapterTypes, EnvelopeSurvives
<1>5. EndedByContext' /\ OpenedLast' /\ DoneIsReleased'
  <2>1. EndedByContext'
    BY <1>3 DEF EndedByContext
  <2>2. OpenedLast'
    BY <1>3, <1>3a DEF OpenedLast
  <2>3. DoneIsReleased'
    <3>1. ASSUME NEW w \in Works, (works[w].step)' = "done", (works[w].once)' # "done"
          PROVE (~works[w].sub /\ ~works[w].ticker /\ ~works[w].schedule)'
      <4>1. works[w].step = "done" /\ works[w].once # "done"
        BY <1>3, <3>1
      <4>2. ~works[w].sub /\ ~works[w].ticker /\ ~works[w].schedule
        BY <4>1 DEF DoneIsReleased
      <4> QED
        BY <1>3, <1>3a, <4>2
    <3> QED
      BY <3>1 DEF DoneIsReleased
  <2> QED
    BY <2>1, <2>2, <2>3
<1>6. ReleasesAreTracked' /\ RunningIsWanted' /\ NoneForgotten'
  <2>1. \A v \in Works :
          /\ Has(adapter.cleanups, v)' <=> Has(adapter.cleanups, v)
          /\ Has(adapter.pending, v)' <=> Has(adapter.pending, v)
    OBVIOUS
  <2>2. ReleasesAreTracked'
    <3>1. ASSUME NEW v \in Works PROVE Tracked(v)' <=> Tracked(v)
      BY <1>3 DEF Tracked
    <3>2. ASSUME NEW v \in Works, (works[v].once)' # "new"
          PROVE (Tracked(v) /\ ~works[v].sub /\ ~works[v].ticker)'
      <4>1. works[v].once # "new"
        BY <1>3, <3>2
      <4>2. Tracked(v) /\ ~works[v].sub /\ ~works[v].ticker
        BY <4>1 DEF ReleasesAreTracked
      <4> QED
        BY <1>3a, <3>1, <4>2
    <3>3. ASSUME NEW v \in Works, Has(adapter.cleanups, v)' \/ Has(adapter.pending, v)'
          PROVE Tracked(v)'
      BY <2>1, <3>1, <3>3 DEF ReleasesAreTracked
    <3> QED
      BY <3>2, <3>3 DEF ReleasesAreTracked
  <2>3. \A v \in Works : (works[v].step)' = works[v].step /\ (works[v].once)' = works[v].once
    BY <1>3
  <2>4. RunningIsWanted' /\ NoneForgotten'
    BY <2>1, <2>3 DEF RunningIsWanted, NoneForgotten
  <2> QED
    BY <2>2, <2>4
<1>7. TicksAreOwn' /\ SchedulesAreOwned'
  BY <1>3, TicksFrame, SchedulesFrame
<1> QED
  BY <1>4, <1>5, <1>6, <1>7

LEMMA CloseEndKeeps ==
    ASSUME AdapterInv, CloseEnd
    PROVE  AdapterInv'
<1>1. /\ adapter \in Adapters /\ alive \in BOOLEAN /\ adapter.closer = "releasing"
      /\ adapter.pending = <<>>
  BY DEF CloseEnd, AdapterInv, AdapterTypes
<1>2. adapter' = [adapter EXCEPT !.closer = "done", !.ctx = FALSE]
  BY DEF CloseEnd
<1>3. /\ adapter' \in Adapters /\ adapter'.ticks = adapter.ticks
      /\ adapter'.closed = adapter.closed /\ adapter'.ctx = FALSE
      /\ adapter'.closer = "done" /\ adapter'.cleanups = adapter.cleanups
      /\ adapter'.pending = adapter.pending
  BY <1>1, <1>2 DEF Adapters
<1>4. CloseOrder'
  BY <1>1, <1>3 DEF AdapterInv, CloseOrder
<1>5. PICK b \in [Works -> BOOLEAN] : b = [w \in Works |-> FALSE]
  OBVIOUS
<1>6. works' = [w \in Works |-> [works[w] EXCEPT !.sub = b[w], !.ticker = b[w]]]
  BY <1>5 DEF CloseEnd
<1>7. \A w \in Works : ~b[w]
  BY <1>5
<1>8. alive' = alive /\ UNCHANGED <<schedules, logged, received>>
  BY DEF CloseEnd
<1> QED
  BY <1>1, <1>3, <1>4, <1>6, <1>7, <1>8, EndsKeep

LEMMA WithdrawKeeps ==
    ASSUME AdapterInv, Withdraw
    PROVE  AdapterInv'
<1>1. adapter' = adapter /\ adapter \in Adapters /\ alive' \in BOOLEAN
  BY DEF Withdraw, AdapterInv, AdapterTypes
<1>2. \A w \in Works : works[w] \in WorkStates
  BY DEF AdapterInv, AdapterTypes
<1>3. PICK b \in [Works -> BOOLEAN], c \in [Works -> BOOLEAN] :
        b = [w \in Works |-> FALSE] /\ c = [w \in Works |-> works[w].ticker]
  BY <1>2 DEF WorkStates
<1>4. \A w \in Works :
        [works[w] EXCEPT !.sub = FALSE] = [works[w] EXCEPT !.sub = FALSE, !.ticker = works[w].ticker]
  BY <1>2 DEF WorkStates
<1>5. works' = [w \in Works |-> [works[w] EXCEPT !.sub = b[w], !.ticker = c[w]]]
  BY <1>3, <1>4 DEF Withdraw
<1>6. \A w \in Works : ~b[w] /\ (c[w] => works[w].ticker)
  BY <1>3
<1>7. \A w \in Works : ~adapter'.ctx => ~c[w]
  BY <1>1, <1>3 DEF AdapterInv, EndedByContext
<1>8. CloseOrder' /\ UNCHANGED <<schedules, logged, received>>
  BY <1>1 DEF Withdraw, AdapterInv, CloseOrder
<1> QED
  BY <1>1, <1>5, <1>6, <1>7, <1>8, EndsKeep

(* The round trip of an envelope: the identity headers that the publisher  *)
(* is not allowed to send are among the reserved ones that the receiver    *)
(* is not shown.                                                           *)
LEMMA PublishKeeps ==
    ASSUME AdapterInv, NEW e \in Envelopes, Publish(e)
    PROVE  AdapterInv'
<1> USE DEF AdapterInv
<1>1. received' = received \cup {<<e, EnvelopeOf(Egress(e))>>}
      /\ UNCHANGED <<adapter, works, alive, schedules, logged>>
  BY DEF Publish
<1>2. EnvelopeOf(Egress(e)).headers = {h \in e.headers : ~h.reserved}
  BY HeadersAssumption DEF EnvelopeOf, Egress, InboundHeaders
<1>3. EnvelopeSurvives'
  <2>1. PICK g : g = EnvelopeOf(Egress(e))
    OBVIOUS
  <2>2. /\ g.id = IF e.id = "" THEN "fresh" ELSE e.id
        /\ g.ts = IF e.ts = "" THEN "fresh" ELSE e.ts
        /\ g.corr = IF e.corr = "" THEN "fresh" ELSE e.corr
        /\ g.source = Sender
    BY <2>1 DEF EnvelopeOf, Egress
  <2>3. g.headers = {h \in e.headers : ~h.reserved}
    BY <1>2, <2>1
  <2>4. received' = received \cup {<<e, g>>} /\ <<e, g>>[1] = e /\ <<e, g>>[2] = g
    BY <1>1, <2>1
  <2> QED
    BY <2>2, <2>3, <2>4 DEF EnvelopeSurvives
<1>4. AdapterTypes' /\ CloseOrder' /\ EndedByContext' /\ OpenedLast' /\ DoneIsReleased'
  BY <1>1 DEF AdapterTypes, CloseOrder, EndedByContext, OpenedLast, DoneIsReleased
<1>5. ReleasesAreTracked' /\ RunningIsWanted' /\ NoneForgotten'
  BY <1>1 DEF ReleasesAreTracked, RunningIsWanted, NoneForgotten, Tracked
<1>6. TicksAreOwn' /\ SchedulesAreOwned'
  BY <1>1, TicksFrame, SchedulesFrame
<1> QED
  BY <1>3, <1>4, <1>5, <1>6

LEMMA AdapterStep == AdapterInv /\ [AdapterNext]_adapterVars => AdapterInv'
<1> SUFFICES ASSUME AdapterInv, [AdapterNext]_adapterVars PROVE AdapterInv'
  OBVIOUS
<1>1. ASSUME NEW w \in Works, BeginWork(w) \/ Subscribe(w) \/ Schedule(w) \/ Ticker(w) \/ Track(w)
      PROVE AdapterInv'
  BY <1>1, BeginKeeps, SubscribeKeeps, ScheduleKeeps, TickerKeeps, TrackKeeps
<1>2. ASSUME NEW w \in Works,
             CancelWork(w) \/ Release(w) \/ ReleaseSchedule(w) \/ Released(w) \/ CloseNext(w)
      PROVE AdapterInv'
  BY <1>2, CancelKeeps, ReleaseKeeps, ReleaseScheduleKeeps, ReleasedKeeps, CloseNextKeeps
<1>3. CASE CloseBegin \/ CloseEnd \/ Withdraw
  BY <1>3, CloseBeginKeeps, CloseEndKeeps, WithdrawKeeps
<1>4. ASSUME NEW e \in Envelopes, Publish(e) PROVE AdapterInv'
  BY <1>4, PublishKeeps
<1>5. CASE UNCHANGED adapterVars
  <2>1. AdapterTypes' /\ CloseOrder' /\ EndedByContext' /\ OpenedLast' /\ DoneIsReleased'
    BY <1>5 DEF adapterVars, AdapterInv, AdapterTypes, CloseOrder, EndedByContext, OpenedLast,
       DoneIsReleased
  <2>2. ReleasesAreTracked' /\ RunningIsWanted' /\ NoneForgotten' /\ EnvelopeSurvives'
    BY <1>5 DEF adapterVars, AdapterInv, ReleasesAreTracked, RunningIsWanted, NoneForgotten,
       Tracked, EnvelopeSurvives
  <2>3. TicksAreOwn' /\ SchedulesAreOwned'
    BY <1>5, TicksFrame, SchedulesFrame DEF adapterVars, AdapterInv
  <2> QED
    BY <2>1, <2>2, <2>3 DEF AdapterInv
<1> QED
  BY <1>1, <1>2, <1>3, <1>4, <1>5 DEF AdapterNext

(* Once Close is done and no call is on its way, a call still "returned"   *)
(* had its release run by Close, so a schedule that is left belongs to a   *)
(* call whose cancellation was refused.                                    *)
LEMMA AdapterInvSuffices == AdapterInv => AdapterReleases
<1> SUFFICES ASSUME AdapterInv PROVE AdapterReleases
  OBVIOUS
<1> USE DEF AdapterInv
<1>1. \A w \in Works : works[w] \in WorkStates
  BY DEF AdapterTypes
<1>2. ASSUME adapter.closer = "done",
             \A w \in Works : works[w].step \in {"idle", "returned", "done"}
      PROVE  /\ \A w \in Works : ~works[w].sub /\ ~works[w].ticker
             /\ schedules \subseteq logged
  <2>1. ~adapter.ctx /\ adapter.closed /\ adapter.cleanups = <<>> /\ adapter.pending = <<>>
    BY <1>2 DEF CloseOrder, AdapterTypes, Adapters
  <2>2. \A w \in Works : ~Has(adapter.cleanups, w) /\ ~Has(adapter.pending, w)
    BY <2>1, HasNone
  <2>3. ASSUME NEW t \in schedules PROVE t \in logged
    <3>1. PICK w \in Works :
              works[w].schedule /\ works[w].tick = t /\ (works[w].once = "done" => t \in logged)
      BY DEF SchedulesAreOwned
    <3>2. works[w].step \in {"returned", "done"}
      BY <1>2, <3>1 DEF OpenedLast
    <3>3. works[w].once = "done"
      BY <1>1, <2>2, <3>1, <3>2 DEF DoneIsReleased, NoneForgotten, RunningIsWanted, WorkStates
    <3> QED
      BY <3>1, <3>3
  <2> QED
    BY <2>1, <2>3 DEF EndedByContext
<1>3. CancelIsExact
  <2>1. ASSUME NEW w \in Works, works[w].step = "done"
        PROVE /\ ~works[w].sub /\ ~works[w].ticker
              /\ works[w].tick \in schedules => works[w].tick \in logged
    <3>1. ~works[w].sub /\ ~works[w].ticker
      BY <2>1 DEF DoneIsReleased, ReleasesAreTracked
    <3>2. ASSUME works[w].tick \in schedules PROVE works[w].tick \in logged
      <4>1. PICK v \in Works :
                /\ works[v].schedule /\ works[v].tick = works[w].tick
                /\ works[v].once = "done" => works[w].tick \in logged
        BY <3>2 DEF SchedulesAreOwned
      <4>2. v = w
        BY <4>1 DEF TicksAreOwn
      <4> QED
        BY <2>1, <4>1, <4>2 DEF DoneIsReleased
    <3> QED
      BY <3>1, <3>2
  <2> QED
    BY <2>1 DEF CancelIsExact, SchedulesAreOwned
<1> QED
  BY <1>2, <1>3 DEF AdapterReleases, NothingOutlivesClose

(* For any calls of Subscribe and Every, at whatever step Close, a cancel  *)
(* or a withdrawal of the bus meets them: nothing the adapter opened       *)
(* outlives Close or is forgotten, save a schedule whose cancellation was  *)
(* refused and logged; a cancel releases its own call and no other; and a  *)
(* v1 envelope keeps its fields (track, Close, scheduled, egressHeaders,   *)
(* envelopeOf).                                                            *)
THEOREM AdapterKeepsNothing == AdapterSpec => []AdapterReleases
BY AdapterInvInit, AdapterStep, AdapterInvSuffices, PTL DEF AdapterSpec

----------------------------------------------------------------------------
(* Typed calls and streams.                                                *)

(* What the wire carries follows the step of the call: a request is of its *)
(* caller's revision, a reply to a handler's fault carries that fault, and *)
(* no fault reads as a success.  The handler answered only once a request  *)
(* was on its way, and a result exists only when the call has returned.    *)
CallInv ==
    /\ wire.fault # "ok"
    /\ step \in {"idle", "sent"} => reason = ""
    /\ step = "sent" /\ caller # NoCaller => wire.schema = caller.hash
    /\ step = "replied" /\ reason # "" => wire.fault = reason
    /\ step # "returned" => outcome.code = ""
Entries == [msg : Raw, fate : {"stored", "handed", "termed"}]
TypedInv ==
    /\ CallInv
    /\ log \in Seq(Entries)
    /\ TypesNeverMix

LEMMA EmptySeq == <<>> \in Seq(Entries) /\ Len(<<>>) = 0
OBVIOUS

LEMMA TypedInvInit == TypedInit => TypedInv
<1> SUFFICES ASSUME TypedInit PROVE TypedInv
  OBVIOUS
<1>1. CallInv
  BY DEF TypedInit, CallInv, NoMsg
<1>2. log = <<>> /\ handled = {} /\ reason = "" /\ outcome.code = ""
  BY DEF TypedInit
<1>3. RevisionsNeverMix /\ SuccessIsTyped /\ ReasonSurvives
  BY <1>2 DEF RevisionsNeverMix, SuccessIsTyped, ReasonSurvives
<1>4. log \in Seq(Entries) /\ Len(log) = 0
  BY <1>2, EmptySeq, Zenon
<1>5. DOMAIN log = {}
  BY <1>4
<1>6. TermsOnlyForeign
  BY <1>5 DEF TermsOnlyForeign
<1> QED
  BY <1>1, <1>3, <1>4, <1>6 DEF TypedInv, TypesNeverMix

(* What a step keeps of each part when it leaves alone what that part is   *)
(* about.                                                                  *)
LEMMA HandledFrame == RevisionsNeverMix /\ UNCHANGED handled => RevisionsNeverMix'
BY DEF RevisionsNeverMix

LEMMA StreamFrame ==
    ASSUME log \in Seq(Entries), TermsOnlyForeign, UNCHANGED <<server, log>>
    PROVE  (log \in Seq(Entries))' /\ TermsOnlyForeign'
BY DEF TermsOnlyForeign

LEMMA NotReturned ==
    ASSUME outcome'.code # "ok", step' = "returned" => reason' = ""
    PROVE  SuccessIsTyped' /\ ReasonSurvives'
BY DEF SuccessIsTyped, ReasonSurvives

(* What a descriptor with validators accepts is exact and valid, whichever *)
(* way the body came.                                                      *)
LEMMA AcceptedIsExact ==
    ASSUME NEW d, NEW b, Accepts(d, b), d.validated
    PROVE  b.decodes = "exact" /\ b.valid
BY DEF Accepts, Decodes

(* Call returns "ok" only past the fault, the schema and the validators.   *)
LEMMA OkIsChecked ==
    ASSUME NEW m, m.fault # "ok", OutcomeOf(m) = "ok"
    PROVE  CheckSchema(caller, m) /\ Accepts(caller, m.body)
<1>1. m.fault = ""
  BY DEF OutcomeOf
<1>2. CheckSchema(caller, m)
  BY <1>1 DEF OutcomeOf
<1>3. Accepts(caller, m.body)
  BY <1>1, <1>2 DEF OutcomeOf
<1> QED
  BY <1>2, <1>3

LEMMA FaultComesFirst ==
    ASSUME NEW m, m.fault # ""
    PROVE  OutcomeOf(m) = m.fault
BY DEF OutcomeOf

LEMMA DiscoverKeeps == TypedInv /\ Discover => TypedInv'
<1> SUFFICES ASSUME TypedInv, Discover PROVE TypedInv'
  OBVIOUS
<1>1. CallInv' /\ outcome'.code # "ok" /\ step' # "returned"
  BY DEF TypedInv, CallInv, Discover
<1>2. UNCHANGED <<server, handled, log>>
  BY DEF Discover
<1> QED
  BY <1>1, <1>2, HandledFrame, StreamFrame, NotReturned DEF TypedInv, TypesNeverMix

(* A stream that holds a message is of the revision mounted when it was    *)
(* written, so a replacement judges no message again.                      *)
LEMMA UpgradeKeeps ==
    ASSUME NEW d \in Descriptors, TypedInv, log = <<>>, Upgrade(d)
    PROVE  TypedInv'
<1>1. CallInv' /\ outcome'.code # "ok" /\ step' # "returned"
  BY DEF TypedInv, CallInv, Upgrade
<1>2. UNCHANGED handled /\ log' = log
  BY DEF Upgrade
<1>3. (log \in Seq(Entries))' /\ DOMAIN log' = {}
  BY <1>2 DEF TypedInv
<1>4. TermsOnlyForeign'
  BY <1>3 DEF TermsOnlyForeign
<1> QED
  BY <1>1, <1>2, <1>3, <1>4, HandledFrame, NotReturned DEF TypedInv, TypesNeverMix

LEMMA CallTypedKeeps ==
    ASSUME NEW b \in Bodies, TypedInv, CallTyped(b)
    PROVE  TypedInv'
<1>1. UNCHANGED <<server, handled, log>>
  BY DEF CallTyped
<1>2. reason' = "" /\ outcome.code = "" /\ caller' = caller
  BY DEF TypedInv, CallInv, CallTyped
<1>3. CallInv' /\ outcome'.code # "ok"
  <2>1. CASE /\ step' = "returned" /\ UNCHANGED wire
             /\ outcome' = [code |-> "schema", reply |-> NoMsg]
    BY <1>2, <2>1 DEF TypedInv, CallInv
  <2>2. CASE /\ step' = "sent" /\ UNCHANGED outcome
             /\ wire' = [schema |-> caller.hash, fault |-> "", body |-> b]
    BY <1>2, <2>2 DEF TypedInv, CallInv
  <2> QED
    BY <2>1, <2>2, Zenon DEF CallTyped
<1> QED
  BY <1>1, <1>2, <1>3, HandledFrame, StreamFrame, NotReturned DEF TypedInv, TypesNeverMix

LEMMA RefuseRequestKeeps == TypedInv /\ RefuseRequest => TypedInv'
<1> SUFFICES ASSUME TypedInv, RefuseRequest PROVE TypedInv'
  OBVIOUS
<1>1. UNCHANGED <<server, handled, log>>
  BY DEF RefuseRequest
<1>2. CallInv' /\ outcome'.code # "ok" /\ step' # "returned"
  BY DEF TypedInv, CallInv, RefuseRequest, RespondFault
<1> QED
  BY <1>1, <1>2, HandledFrame, StreamFrame, NotReturned DEF TypedInv, TypesNeverMix

(* The handler: what it is given was checked against the revision that     *)
(* runs now, and a typed caller's request is of its own revision, so the   *)
(* two are one.                                                            *)
LEMMA HandleKeeps ==
    ASSUME NEW f \in Codes \cup {"", "unhandled"}, NEW b \in Bodies, TypedInv, Handle(f, b)
    PROVE  TypedInv'
<1> DEFINE h == [msg |-> wire, by |-> server, from |-> caller]
<1>1. h.by.hash # "" /\ h.msg.schema = h.by.hash
  BY DEF Handle, CheckSchema
<1>2. h.from # NoCaller => h.from.hash = h.by.hash
  BY <1>1 DEF Handle, TypedInv, CallInv
<1>3. h.by.validated => h.msg.body.decodes = "exact" /\ h.msg.body.valid
  BY AcceptedIsExact DEF Handle
<1>4. handled' = {h}
  BY DEF Handle
<1> HIDE DEF h
<1>5. RevisionsNeverMix'
  BY <1>1, <1>2, <1>3, <1>4 DEF RevisionsNeverMix
<1>6. f # "ok"
  BY CodesAssumption
<1>7. wire'.fault # "ok" /\ (f # "" => wire'.fault = f)
  BY <1>6 DEF Handle, RespondFault
<1>8. step' = "replied" /\ reason' = f /\ outcome' = outcome /\ log' = log /\ server' = server
  BY DEF Handle
<1>9. outcome.code = ""
  BY DEF Handle, TypedInv, CallInv
<1>10. CallInv'
  BY <1>7, <1>8, <1>9 DEF CallInv
<1> QED
  BY <1>5, <1>8, <1>9, <1>10, StreamFrame, NotReturned DEF TypedInv, TypesNeverMix

LEMMA RawSendKeeps ==
    ASSUME NEW m \in Raw, TypedInv, RawSend(m) \/ RawReply(m)
    PROVE  TypedInv'
<1>1. m.fault # "ok"
  BY CodesAssumption DEF Raw
<1>2. UNCHANGED <<server, handled, log>>
  BY DEF RawSend, RawReply
<1>3. CallInv' /\ outcome'.code # "ok" /\ step' # "returned"
  BY <1>1 DEF TypedInv, CallInv, RawSend, RawReply
<1> QED
  BY <1>2, <1>3, HandledFrame, StreamFrame, NotReturned DEF TypedInv, TypesNeverMix

LEMMA ReturnReplyKeeps == TypedInv /\ ReturnReply => TypedInv'
<1> SUFFICES ASSUME TypedInv, ReturnReply PROVE TypedInv'
  OBVIOUS
<1>1. /\ step' = "returned" /\ wire' = wire /\ reason' = reason /\ log' = log
      /\ server' = server /\ caller' = caller /\ handled' = handled
      /\ outcome'.code = OutcomeOf(wire) /\ outcome'.reply = wire
  BY DEF ReturnReply
<1>2. SuccessIsTyped'
  <2> SUFFICES ASSUME OutcomeOf(wire) = "ok"
               PROVE  /\ caller.hash # "" /\ wire.schema = caller.hash
                      /\ caller.validated => wire.body.decodes = "exact" /\ wire.body.valid
    BY <1>1 DEF SuccessIsTyped
  <2>1. CheckSchema(caller, wire) /\ Accepts(caller, wire.body)
    BY OkIsChecked DEF TypedInv, CallInv
  <2> QED
    BY <2>1, AcceptedIsExact DEF CheckSchema
<1>3. ReasonSurvives'
  <2> SUFFICES ASSUME reason # "" PROVE OutcomeOf(wire) = reason
    BY <1>1 DEF ReasonSurvives
  <2> QED
    BY FaultComesFirst DEF TypedInv, CallInv, ReturnReply
<1>4. CallInv'
  BY <1>1 DEF TypedInv, CallInv
<1> QED
  BY <1>1, <1>2, <1>3, <1>4, HandledFrame, StreamFrame DEF TypedInv, TypesNeverMix

(* The parts a step of the stream leaves alone.                            *)
LEMMA CallFrame ==
    ASSUME TypedInv, UNCHANGED <<server, caller, step, wire, handled, reason, outcome>>,
           (log \in Seq(Entries))',
           TermsOnlyForeign'
    PROVE  TypedInv'
BY HandledFrame DEF TypedInv, CallInv, TypesNeverMix, SuccessIsTyped, ReasonSurvives

LEMMA StreamAppendKeeps ==
    ASSUME NEW m \in Raw, TypedInv, StreamAppend(m)
    PROVE  TypedInv'
<1> DEFINE e == [msg |-> m, fate |-> "stored"]
<1>1. e \in Entries /\ e.fate = "stored"
  BY DEF Entries
<1>2. log = <<>> /\ log' = Append(log, e)
  BY DEF StreamAppend
<1> HIDE DEF e
<1>3. log' \in Seq(Entries)
  BY <1>1, <1>2 DEF TypedInv
<1>4. \A i \in DOMAIN log' : log'[i] = e
  BY <1>1, <1>2
<1>5. TermsOnlyForeign'
  BY <1>1, <1>4 DEF TermsOnlyForeign
<1> QED
  BY <1>3, <1>5, CallFrame DEF StreamAppend

LEMMA ConsumeKeeps ==
    ASSUME NEW i \in DOMAIN log, TypedInv, Consume(i)
    PROVE  TypedInv'
<1>1. log \in Seq(Entries) /\ log[i] \in Entries
  BY DEF TypedInv
<1>2. Fate(log[i].msg) \in {"handed", "termed"}
  BY DEF Fate
<1>3. log' = [log EXCEPT ![i] = [@ EXCEPT !.fate = Fate(log[i].msg)]]
  BY DEF Consume
<1>4. log' \in Seq(Entries) /\ DOMAIN log' = DOMAIN log
  <2>1. [log[i] EXCEPT !.fate = Fate(log[i].msg)] \in Entries
    BY <1>1, <1>2 DEF Entries
  <2> QED
    BY <1>1, <1>3, <2>1
<1>5. /\ log'[i].msg = log[i].msg /\ log'[i].fate = Fate(log[i].msg)
      /\ \A j \in DOMAIN log : j # i => log'[j] = log[j]
  BY <1>1, <1>3 DEF Entries
<1>6. server' = server
  BY DEF Consume
<1>7. ASSUME NEW j \in DOMAIN log
      PROVE  LET m == log'[j].msg
                 mine == m.schema = server.hash /\ server.hash # "" /\ m.body.decodes # "not"
             IN /\ log'[j].fate = "termed" => ~mine
                /\ log'[j].fate = "handed" => mine
  <2>1. CASE j = i
    BY <2>1, <1>5 DEF Fate, CheckSchema
  <2>2. CASE j # i
    BY <2>2, <1>5 DEF TypedInv, TypesNeverMix, TermsOnlyForeign
  <2> QED
    BY <2>1, <2>2
<1>8. TermsOnlyForeign'
  BY <1>4, <1>6, <1>7 DEF TermsOnlyForeign
<1> QED
  BY <1>4, <1>8, CallFrame DEF Consume

LEMMA TypedStep == TypedInv /\ [TypedNext]_typedVars => TypedInv'
<1> SUFFICES ASSUME TypedInv, [TypedNext]_typedVars PROVE TypedInv'
  OBVIOUS
<1>1. CASE Discover \/ RefuseRequest \/ ReturnReply
  BY <1>1, DiscoverKeeps, RefuseRequestKeeps, ReturnReplyKeeps
<1>2. CASE \E d \in Descriptors : log = <<>> /\ Upgrade(d)
  BY <1>2, UpgradeKeeps
<1>3. CASE \E b \in Bodies : CallTyped(b)
  BY <1>3, CallTypedKeeps
<1>4. CASE \E f \in Codes \cup {"", "unhandled"}, b \in Bodies :
               b.decodes = "exact" /\ Handle(f, b)
  BY <1>4, HandleKeeps
<1>5. CASE \E m \in Raw : RawSend(m) \/ RawReply(m)
  BY <1>5, RawSendKeeps
<1>6. CASE \E m \in Raw : m.fault = "" /\ caller = NoCaller /\ server.validated /\ StreamAppend(m)
  BY <1>6, StreamAppendKeeps
<1>7. CASE \E i \in DOMAIN log : Consume(i)
  BY <1>7, ConsumeKeeps
<1>8. CASE UNCHANGED typedVars
  BY <1>8, CallFrame, StreamFrame DEF typedVars, TypedInv, TypesNeverMix
<1> QED
  BY <1>1, <1>2, <1>3, <1>4, <1>5, <1>6, <1>7, <1>8 DEF TypedNext

(* However revisions, validated and hand-built descriptors and untyped     *)
(* peers meet, a handler runs only on its own revision's valid requests, a *)
(* call that succeeds returns its caller's type, a handler's fault reaches *)
(* the caller as itself, and a typed stream terminates only foreign        *)
(* messages.                                                               *)
THEOREM TypesAreKeptApart == TypedSpec => []TypesNeverMix
<1>1. TypedInv => TypesNeverMix
  BY DEF TypedInv
<1> QED
  BY <1>1, TypedInvInit, TypedStep, PTL DEF TypedSpec

----------------------------------------------------------------------------
(* Attestations.                                                           *)

(* Every Store slot in circulation was filled by Countersign for a half    *)
(* that Store had verified: parts may be paired with other parts, but none *)
(* is made elsewhere.  Envelopes keep their shape, and the registry holds  *)
(* what Stores signed.                                                     *)
Shaped(e) ==
    e = [sha |-> e.sha, store |-> e.store,
         publisher |-> [id |-> e.publisher.id, kid |-> e.publisher.kid,
                        key |-> e.publisher.key, sig |-> e.publisher.sig]]
Countersigned(slot) ==
    slot # NoStore =>
        \E c \in checked :
            /\ c.env.store = NoStore /\ Shaped(c.env) /\ VerifyPublisher(c.env)
            /\ slot.kid = c.by /\ slot.sig = Sig(c.by, StoreStatement(c.env))
SignedManifests ==
    {SignPublisherManifest(s, id, Objects(st)) :
        s \in StoreKeys, id \in Ids, st \in UNION {[ks -> Statuses] : ks \in SUBSET PublisherKeys}}
EnvelopesInv == \A e \in envelopes : Shaped(e) /\ Countersigned(e.store)
RegistryInv ==
    /\ registry \in Seq(SignedManifests)
    /\ \A h \in honoured : h.manifest \in DOMAIN registry
AttestInv == EnvelopesInv /\ RegistryInv /\ NothingForged

LEMMA AttestInvInit == AttestInit => AttestInv
<1> SUFFICES ASSUME AttestInit PROVE AttestInv
  OBVIOUS
<1>1. EnvelopesInv
  <2> SUFFICES ASSUME NEW e \in envelopes PROVE Shaped(e) /\ e.store = NoStore
    BY DEF EnvelopesInv, Countersigned
  <2>1. PICK d \in Digests : e = [sha |-> d, publisher |-> Unsigned, store |-> NoStore]
    BY DEF AttestInit
  <2>2. e.sha = d /\ e.store = NoStore /\ e.publisher = Unsigned
    BY <2>1
  <2>3. Unsigned = [id |-> Unsigned.id, kid |-> Unsigned.kid, key |-> Unsigned.key,
                    sig |-> Unsigned.sig]
    BY DEF Unsigned
  <2> QED
    BY <2>1, <2>2, <2>3 DEF Shaped
<1>2. registry \in Seq(SignedManifests)
  BY DEF AttestInit
<1>3. proved = {} /\ honoured = {}
  BY DEF AttestInit
<1> QED
  BY <1>1, <1>2, <1>3 DEF AttestInv, RegistryInv, NothingForged, ProvenanceIsProved, HonouredIsActive

(* What a step keeps of each part when it leaves alone what that part is   *)
(* about; what Stores countersigned only grows.                            *)
LEMMA RegistryFrame ==
    ASSUME RegistryInv, HonouredIsActive, UNCHANGED <<registry, honoured>>
    PROVE  RegistryInv' /\ HonouredIsActive'
BY DEF RegistryInv, HonouredIsActive

LEMMA ProvedFrame ==
    ASSUME ProvenanceIsProved, UNCHANGED proved, checked \subseteq checked'
    PROVE  ProvenanceIsProved'
BY DEF ProvenanceIsProved

LEMMA SlotFrame ==
    ASSUME NEW slot, Countersigned(slot), checked \subseteq checked'
    PROVE  Countersigned(slot)'
BY DEF Countersigned

LEMMA EnvelopesFrame ==
    ASSUME EnvelopesInv, UNCHANGED <<envelopes, checked>>
    PROVE  EnvelopesInv'
BY DEF EnvelopesInv, Countersigned

LEMMA SignPublisherKeeps ==
    ASSUME NEW k \in PublisherKeys, NEW id \in Ids, NEW d \in Digests,
           AttestInv, SignPublisher(k, id, d)
    PROVE  AttestInv'
<1> DEFINE e == [sha |-> d, store |-> NoStore,
                 publisher |-> [id |-> id, kid |-> k, key |-> k,
                                sig |-> Sig(k, PublisherStatement(id, d))]]
<1>1. Shaped(e) /\ e.store = NoStore
  BY DEF Shaped
<1>2. envelopes' = envelopes \cup {e} /\ UNCHANGED <<checked, proved, registry, honoured>>
  BY DEF SignPublisher
<1> HIDE DEF e
<1>3. EnvelopesInv'
  BY <1>1, <1>2 DEF AttestInv, EnvelopesInv, Countersigned
<1> QED
  BY <1>2, <1>3, RegistryFrame, ProvedFrame DEF AttestInv, NothingForged

LEMMA CountersignKeeps ==
    ASSUME NEW s \in StoreKeys, NEW e \in envelopes, AttestInv, Countersign(s, e)
    PROVE  AttestInv'
<1> DEFINE half == [e EXCEPT !.store = NoStore]
           whole == [e EXCEPT !.store = [kid |-> s, sig |-> Sig(s, StoreStatement(e))]]
           c == [by |-> s, env |-> half]
<1>1. Shaped(e)
  BY DEF AttestInv, EnvelopesInv
<1>2. /\ half.store = NoStore /\ half.sha = e.sha /\ half.publisher = e.publisher
      /\ whole.store = [kid |-> s, sig |-> Sig(s, StoreStatement(e))]
      /\ whole.sha = e.sha /\ whole.publisher = e.publisher
  BY <1>1 DEF Shaped
<1>3. Shaped(half) /\ Shaped(whole)
  BY <1>1 DEF Shaped
<1>4. VerifyPublisher(half) /\ StoreStatement(half) = StoreStatement(e)
  BY <1>2 DEF Countersign, VerifyPublisher, StoreStatement
<1>5. /\ checked' = checked \cup {c} /\ envelopes' = envelopes \cup {whole}
      /\ UNCHANGED <<proved, registry, honoured>>
  BY DEF Countersign
<1>6. c.by = s /\ c.env = half
  OBVIOUS
<1> HIDE DEF half, whole, c
<1>7. Countersigned(whole.store)'
  BY <1>2, <1>3, <1>4, <1>5, <1>6 DEF Countersigned
<1>8. EnvelopesInv'
  BY <1>3, <1>5, <1>7, SlotFrame DEF AttestInv, EnvelopesInv
<1> QED
  BY <1>5, <1>8, RegistryFrame, ProvedFrame DEF AttestInv, NothingForged

LEMMA PairKeeps ==
    ASSUME NEW a \in envelopes, NEW b \in envelopes, NEW id \in Ids, AttestInv, Pair(a, b, id)
    PROVE  AttestInv'
<1> DEFINE x == [sha |-> b.sha, publisher |-> a.publisher, store |-> a.store]
           y == [sha |-> a.sha, publisher |-> a.publisher, store |-> b.store]
           z == [a EXCEPT !.publisher.id = id]
<1>1. /\ Shaped(a) /\ Countersigned(a.store)
      /\ Shaped(b) /\ Countersigned(b.store)
  BY DEF AttestInv, EnvelopesInv
<1>2. Shaped(x) /\ x.store = a.store /\ Shaped(y) /\ y.store = b.store
  BY <1>1 DEF Shaped
<1>3. Shaped(z) /\ z.store = a.store
  BY <1>1 DEF Shaped
<1>4. /\ envelopes' \subseteq envelopes \cup {x, y, z}
      /\ UNCHANGED <<checked, proved, registry, honoured>>
  BY DEF Pair, Paired
<1> HIDE DEF x, y, z
<1>5. EnvelopesInv'
  BY <1>1, <1>2, <1>3, <1>4 DEF AttestInv, EnvelopesInv, Countersigned
<1> QED
  BY <1>4, <1>5, RegistryFrame, ProvedFrame DEF AttestInv, NothingForged

(* A statement says which half it is about: two halves with a verified     *)
(* publisher and the same statement are the same but for the Store's slot. *)
LEMMA StatementNamesHalf ==
    ASSUME NEW e, NEW f, Shaped(e), Shaped(f), VerifyPublisher(e), VerifyPublisher(f),
           f.store = NoStore, StoreStatement(e) = StoreStatement(f)
    PROVE  f = [e EXCEPT !.store = NoStore]
<1>1. /\ e.sha = f.sha /\ e.publisher.id = f.publisher.id
      /\ e.publisher.kid = f.publisher.kid /\ e.publisher.sig = f.publisher.sig
  BY DEF StoreStatement
<1>2. e.publisher.key = f.publisher.key
  BY <1>1 DEF VerifyPublisher
<1> DEFINE p == [id |-> e.publisher.id, kid |-> e.publisher.kid,
                 key |-> e.publisher.key, sig |-> e.publisher.sig]
<1>3. f = [sha |-> e.sha, store |-> NoStore, publisher |-> p]
  BY <1>1, <1>2 DEF Shaped
<1>4. e = [sha |-> e.sha, store |-> e.store, publisher |-> p]
  BY DEF Shaped
<1> HIDE DEF p
<1> QED
  BY <1>3, <1>4

LEMMA SignatureNames ==
    ASSUME NEW k, NEW l, NEW v, NEW w, Sig(k, v) = Sig(l, w)
    PROVE  k = l /\ v = w
BY DEF Sig

LEMMA VerifyEnvelopeKeeps ==
    ASSUME NEW e \in envelopes, NEW d \in Digests \cup {""}, NEW r \in Roots,
           AttestInv, VerifyEnvelope(e, d, r)
    PROVE  AttestInv'
<1> DEFINE v == Verify(e, d, r)
           p == [env |-> e, sha |-> d, roots |-> r, answer |-> v]
<1>1. proved' = {p} /\ UNCHANGED <<envelopes, checked, registry, honoured>>
  BY DEF VerifyEnvelope
<1>2. Shaped(e) /\ Countersigned(e.store)
  BY DEF AttestInv, EnvelopesInv
<1>3. ASSUME v.provenance = "store"
      PROVE  \E c \in checked : c.by \in r /\ c.env = [e EXCEPT !.store = NoStore]
  <2>1. /\ VerifyPublisher(e) /\ e.store # NoStore /\ e.store.kid \in r
        /\ Valid(e.store.kid, StoreStatement(e), e.store.sig)
    BY <1>3 DEF Verify
  <2>2. PICK c \in checked :
            /\ c.env.store = NoStore /\ Shaped(c.env) /\ VerifyPublisher(c.env)
            /\ e.store.kid = c.by /\ e.store.sig = Sig(c.by, StoreStatement(c.env))
    BY <1>2, <2>1 DEF Countersigned
  <2>3. StoreStatement(e) = StoreStatement(c.env)
    BY <2>1, <2>2, SignatureNames DEF Valid
  <2> QED
    BY <1>2, <2>1, <2>2, <2>3, StatementNamesHalf
<1>4. ASSUME v.error = ""
      PROVE  /\ d \in {"", e.sha}
             /\ v.provenance = Declares(e)
             /\ e.publisher.sig = Sig(e.publisher.kid,
                                      <<"publisher-release", e.publisher.id, e.sha>>)
  <2>1. (d = "" \/ d = e.sha) /\ e.publisher # Unsigned /\ VerifyPublisher(e)
    BY <1>4 DEF Verify
  <2>2. v.provenance = Declares(e)
    BY <1>4, <2>1 DEF Verify, Declares
  <2> QED
    BY <2>1, <2>2 DEF VerifyPublisher, Valid, PublisherStatement
<1>5. p.env = e /\ p.sha = d /\ p.roots = r /\ p.answer = v
  OBVIOUS
<1> HIDE DEF v, p
<1>6. ProvenanceIsProved'
  BY <1>1, <1>3, <1>4, <1>5 DEF ProvenanceIsProved
<1> QED
  BY <1>1, <1>6, EnvelopesFrame, RegistryFrame DEF AttestInv, NothingForged

LEMMA WriteManifestKeeps ==
    ASSUME NEW s \in StoreKeys, NEW id \in Ids, NEW ks \in SUBSET PublisherKeys,
           NEW st \in [ks -> Statuses], AttestInv, WriteManifest(s, id, st)
    PROVE  AttestInv'
<1> DEFINE man == SignPublisherManifest(s, id, Objects(st))
<1>1. man \in SignedManifests
  BY DEF SignedManifests
<1>2. registry' = Append(registry, man) /\ UNCHANGED <<envelopes, checked, proved, honoured>>
  BY DEF WriteManifest
<1> HIDE DEF man
<1>3. registry \in Seq(SignedManifests)
  BY DEF AttestInv, RegistryInv
<1>4. /\ registry' \in Seq(SignedManifests) /\ DOMAIN registry \subseteq DOMAIN registry'
      /\ \A i \in DOMAIN registry : registry'[i] = registry[i]
  BY <1>1, <1>2, <1>3
<1>5. RegistryInv' /\ HonouredIsActive'
  BY <1>2, <1>4 DEF AttestInv, RegistryInv, NothingForged, HonouredIsActive
<1> QED
  BY <1>2, <1>5, EnvelopesFrame, ProvedFrame DEF AttestInv, NothingForged

LEMMA ResolveKeeps ==
    ASSUME NEW i \in DOMAIN registry, NEW id \in Ids, NEW k \in PublisherKeys, NEW o \in Served,
           NEW r \in Roots, AttestInv, Resolve(i, id, k, o, r)
    PROVE  AttestInv'
<1> DEFINE h == [manifest |-> i, id |-> id, key |-> o.key, roots |-> r]
<1>1. honoured' = {h} /\ UNCHANGED <<envelopes, checked, proved, registry>>
  BY DEF Resolve
<1>2. /\ registry[i].id = id /\ registry[i].kid \in r
      /\ o.key \in DOMAIN registry[i].objects /\ registry[i].objects[o.key] = o
      /\ o.status = "active"
  BY DEF Resolve, ResolvePublisherKey, VerifyPublisherManifest, VerifyObject
<1>3. h.manifest = i /\ h.id = id /\ h.key = o.key /\ h.roots = r
  OBVIOUS
<1> HIDE DEF h
<1>4. RegistryInv' /\ HonouredIsActive'
  BY <1>1, <1>2, <1>3 DEF AttestInv, RegistryInv, HonouredIsActive
<1> QED
  BY <1>1, <1>4, EnvelopesFrame, ProvedFrame DEF AttestInv, NothingForged

LEMMA AttestStep == AttestInv /\ [AttestNext]_attestVars => AttestInv'
<1> SUFFICES ASSUME AttestInv, [AttestNext]_attestVars PROVE AttestInv'
  OBVIOUS
<1>1. CASE \E k \in PublisherKeys, id \in Ids, d \in Digests : SignPublisher(k, id, d)
  BY <1>1, SignPublisherKeeps
<1>2. CASE \E s \in StoreKeys, e \in envelopes : Countersign(s, e)
  BY <1>2, CountersignKeeps
<1>3. CASE \E a, b \in envelopes, id \in Ids : Pair(a, b, id)
  BY <1>3, PairKeeps
<1>4. CASE \E e \in envelopes, d \in Digests \cup {""}, r \in Roots : VerifyEnvelope(e, d, r)
  BY <1>4, VerifyEnvelopeKeeps
<1>5. CASE \E s \in StoreKeys, id \in Ids, ks \in SUBSET PublisherKeys :
               \E st \in [ks -> Statuses] : WriteManifest(s, id, st)
  BY <1>5, WriteManifestKeeps
<1>6. CASE \E i \in DOMAIN registry, id \in Ids, k \in PublisherKeys, o \in Served, r \in Roots :
               Resolve(i, id, k, o, r)
  BY <1>6, ResolveKeeps
<1>7. CASE UNCHANGED attestVars
  BY <1>7, EnvelopesFrame, RegistryFrame, ProvedFrame DEF attestVars, AttestInv, NothingForged
<1> QED
  BY <1>1, <1>2, <1>3, <1>4, <1>5, <1>6, <1>7 DEF AttestNext

(* However the parts of envelopes are paired and old objects served,       *)
(* "store" means that a trusted Store countersigned this publisher half    *)
(* for this payload, an answer without an error means that the named key   *)
(* signed it, and a key is honoured only where a trusted manifest has it   *)
(* active (Verify, ResolvePublisherKey).                                   *)
THEOREM NothingIsForged == AttestSpec => []NothingForged
<1>1. AttestInv => NothingForged
  BY DEF AttestInv
<1> QED
  BY <1>1, AttestInvInit, AttestStep, PTL DEF AttestSpec

----------------------------------------------------------------------------
(* Grants, denies and the name of the sender.                              *)

(* The first ">" of a pattern that has one.                                *)
LEMMA FirstTail ==
    ASSUME NEW S, NEW p \in Seq(S), HasTail(p)
    PROVE  /\ TailAt(p) \in 1 .. Len(p)
           /\ p[TailAt(p)] = ">"
           /\ \A j \in 1 .. (TailAt(p) - 1) : p[j] # ">"
<1> DEFINE T == {i \in DOMAIN p : p[i] = ">"}
<1>1. T \in SUBSET Nat /\ T # {}
  BY DEF HasTail
<1>2. PICK x \in T : \A y \in T : ~ (<<y, x>> \in OpToRel(<, Nat))
  BY <1>1, NatLessThanWellFounded, WFMin
<1>3. \A y \in T : ~ (y < x)
  BY <1>1, <1>2 DEF OpToRel
<1>4. \A j \in 1 .. (x - 1) : p[j] # ">"
  BY <1>3
<1>5. x \in DOMAIN p /\ p[x] = ">" /\ \A j \in 1 .. (x - 1) : p[j] # ">"
  BY <1>4
<1> QED
  BY <1>5 DEF TailAt

(* A pattern the grammar accepts has ">" nowhere but at its end.           *)
LEMMA TailIsLast ==
    ASSUME NEW S, NEW q \in Seq(S), ParsePattern(q)
    PROVE  /\ Len(q) > 0
           /\ \A i \in DOMAIN q : q[i] = ">" => i = Len(q)
           /\ HasTail(q) => TailAt(q) = Len(q)
<1>1. q # <<>> /\ \A i \in DOMAIN q : TokenOK(q, i, TRUE)
  BY DEF ParsePattern, Parse
<1>2. \A i \in DOMAIN q : q[i] = ">" => i = Len(q)
  BY <1>1 DEF TokenOK
<1> QED
  BY <1>1, <1>2, FirstTail

(* Covers is sound: what q receives, a grant that covers q admits.         *)
LEMMA CoversIsSound ==
    ASSUME NEW g \in Seq(STRING), NEW q \in Seq(STRING), NEW s \in Seq(STRING),
           ParsePattern(q), Covers(g, q), Matches(q, s)
    PROVE  Matches(g, s)
<1>1. CASE HasTail(g)
  <2> DEFINE k == TailAt(g)
  <2>1. k \in 1 .. Len(g) /\ k <= Len(q) /\ \A i \in 1 .. (k - 1) : q[i] # ">" /\ Agrees(g[i], q[i])
    BY <1>1, FirstTail DEF Covers
  <2> HIDE DEF k
  <2>2. Len(q) <= Len(s) /\ \A i \in 1 .. (Len(q) - 1) : Agrees(q[i], s[i])
    BY TailIsLast DEF Matches
  <2>3. ASSUME NEW i \in 1 .. (k - 1) PROVE Agrees(q[i], s[i])
    BY <2>1, <2>2
  <2>4. \A i \in 1 .. (k - 1) : Agrees(g[i], s[i])
    BY <2>1, <2>3 DEF Agrees
  <2> QED
    BY <1>1, <2>1, <2>2, <2>4 DEF Matches, k
<1>2. CASE ~ HasTail(g)
  <2>1. Len(g) = Len(q) /\ \A i \in DOMAIN g : q[i] # ">" /\ Agrees(g[i], q[i])
    BY <1>2 DEF Covers
  <2>2. DOMAIN g = DOMAIN q
    BY <2>1
  <2>3. ~ HasTail(q)
    BY <2>1, <2>2 DEF HasTail
  <2>4. Len(q) = Len(s) /\ \A i \in DOMAIN q : Agrees(q[i], s[i])
    BY <2>3 DEF Matches
  <2>5. \A i \in DOMAIN g : Agrees(g[i], s[i])
    BY <2>1, <2>2, <2>4 DEF Agrees
  <2> QED
    BY <1>2, <2>1, <2>4, <2>5 DEF Matches
<1> QED
  BY <1>1, <1>2

(* A subject of n tokens that q receives, with names where q has wildcards *)
(* that the grant g does not have there.                                   *)
Filler(g, i, x, y) == IF i \in DOMAIN g /\ g[i] = x THEN y ELSE x
Filled(g, q, x, y, n) ==
    [i \in 1 .. n |-> IF i \in DOMAIN q /\ q[i] \notin Wild THEN q[i] ELSE Filler(g, i, x, y)]

LEMMA FilledIsReceived ==
    ASSUME NEW g \in Seq(STRING), NEW q \in Seq(STRING), ParsePattern(q), NEW x, NEW y,
           NEW n \in {Len(q), Len(q) + 1}, n = Len(q) \/ HasTail(q)
    PROVE  /\ Filled(g, q, x, y, n) \in Fillings(q, x, y)
           /\ Len(Filled(g, q, x, y, n)) = n
           /\ Matches(q, Filled(g, q, x, y, n))
<1> DEFINE s == Filled(g, q, x, y, n)
           names == ({q[i] : i \in DOMAIN q} \ Wild) \cup {x, y}
<1>1. \A i \in 1 .. n : s[i] \in names
  BY DEF Filled, Filler
<1>2. s \in [1 .. n -> names]
  BY <1>1 DEF Filled
<1>3. s \in Fillings(q, x, y)
  BY <1>2 DEF Fillings
<1>4. Len(q) \in Nat /\ n \in Nat /\ Len(q) <= n /\ Len(q) > 0 /\ DOMAIN q = 1 .. Len(q)
  BY TailIsLast
<1>5. s \in Seq(names) /\ Len(s) = n /\ DOMAIN s = 1 .. n
  <2> HIDE DEF s, names
  <2>1. n \in Nat /\ s \in [1 .. n -> names]
    BY <1>2, <1>4
  <2> QED
    BY <2>1
<1>0. /\ \A i \in 1 .. Len(q) : i \in 1 .. n /\ i \in DOMAIN q
      /\ \A i \in 1 .. (Len(q) - 1) : i \in DOMAIN q /\ i # Len(q)
  <2> DEFINE L == Len(q)
  <2>1. L \in Nat /\ n \in Nat /\ L <= n /\ DOMAIN q = 1 .. L
    BY <1>4
  <2> HIDE DEF L
  <2>2. /\ \A i \in 1 .. L : i \in 1 .. n /\ i \in DOMAIN q
        /\ \A i \in 1 .. (L - 1) : i \in DOMAIN q /\ i # L
    BY <2>1
  <2> QED
    BY <2>2 DEF L
<1>6. \A i \in 1 .. Len(q) : q[i] = ">" \/ Agrees(q[i], s[i])
  <2> SUFFICES ASSUME NEW i \in 1 .. Len(q) PROVE q[i] = ">" \/ Agrees(q[i], s[i])
    OBVIOUS
  <2>1. i \in 1 .. n /\ i \in DOMAIN q
    BY <1>0
  <2>2. s[i] = IF q[i] \notin Wild THEN q[i] ELSE Filler(g, i, x, y)
    BY <2>1 DEF Filled
  <2> QED
    BY <2>2 DEF Agrees, Wild
<1>7. \A i \in 1 .. (Len(q) - 1) : q[i] # ">" /\ i \in 1 .. Len(q)
  BY <1>4, <1>0, TailIsLast
<1>8. Matches(q, s)
  <2>1. CASE HasTail(q)
    <3>1. TailAt(q) = Len(q)
      BY <2>1, TailIsLast
    <3>2. \A i \in 1 .. (Len(q) - 1) : Agrees(q[i], s[i])
      BY <1>6, <1>7
    <3> HIDE DEF s
    <3> QED
      BY <1>4, <1>5, <2>1, <3>1, <3>2 DEF Matches
  <2>2. CASE ~ HasTail(q)
    <3>1. n = Len(q) /\ \A i \in DOMAIN q : q[i] # ">"
      BY <2>2 DEF HasTail
    <3> HIDE DEF s
    <3> QED
      BY <1>4, <1>5, <1>6, <2>2, <3>1 DEF Matches
  <2> QED
    BY <2>1, <2>2
<1> QED
  BY <1>3, <1>5, <1>8

(* Covers is complete: a pattern no subject of which escapes the grant is  *)
(* covered by it.                                                          *)
LEMMA CoversIsComplete ==
    ASSUME NEW g \in Seq(STRING), NEW q \in Seq(STRING), ParsePattern(q), NEW x, NEW y,
           x # y, ~ Covers(g, q)
    PROVE  \E s \in Fillings(q, x, y) : Matches(q, s) /\ ~ Matches(g, s)
<1> DEFINE n == Len(q)
           s == Filled(g, q, x, y, n)
           u == Filled(g, q, x, y, n + 1)
<1>1. /\ n \in Nat /\ DOMAIN q = 1 .. n
      /\ \A i \in DOMAIN q : q[i] = ">" => i = n
  BY TailIsLast
<1>2. s \in Fillings(q, x, y) /\ Len(s) = n /\ Matches(q, s)
  BY FilledIsReceived
<1>3. ASSUME HasTail(q) PROVE u \in Fillings(q, x, y) /\ Len(u) = n + 1 /\ Matches(q, u)
  BY <1>3, FilledIsReceived
<1>4. ASSUME NEW i \in DOMAIN q, i \in DOMAIN g, q[i] # ">", ~ Agrees(g[i], q[i])
      PROVE  ~ Agrees(g[i], s[i])
  <2>1. s[i] = IF q[i] \notin Wild THEN q[i] ELSE Filler(g, i, x, y)
    BY <1>1, <1>4 DEF Filled
  <2>2. Filler(g, i, x, y) # g[i]
    BY <1>4 DEF Filler
  <2> QED
    BY <1>4, <2>1, <2>2 DEF Agrees
<1> HIDE DEF s, u, n
<1>5. CASE HasTail(g)
  <2> DEFINE k == TailAt(g)
  <2>1. k \in 1 .. Len(g) /\ DOMAIN g = 1 .. Len(g) /\ Len(g) \in Nat
    BY <1>5, FirstTail
  <2>2. ~ (k <= Len(q)) \/ \E i \in 1 .. (k - 1) : ~ (q[i] # ">" /\ Agrees(g[i], q[i]))
    BY <1>5 DEF Covers
  <2> HIDE DEF k
  <2>3. CASE ~ (k <= n)
    BY <1>2, <1>5, <2>3 DEF Matches, k
  <2>4. CASE k <= n
    <3>1. PICK i \in 1 .. (k - 1) : ~ (q[i] # ">" /\ Agrees(g[i], q[i]))
      BY <2>2, <2>4 DEF n
    <3>2. i \in DOMAIN q /\ i \in DOMAIN g /\ i # n
      BY <1>1, <2>1, <2>4
    <3>3. q[i] # ">"
      BY <1>1, <3>2
    <3>4. ~ Agrees(g[i], s[i])
      BY <1>4, <3>1, <3>2, <3>3
    <3>5. ~ Matches(g, s)
      BY <1>5, <3>4 DEF Matches, k
    <3> QED
      BY <1>2, <3>5
  <2> QED
    BY <2>3, <2>4
<1>6. CASE ~ HasTail(g)
  <2>1. CASE Len(g) # n
    BY <1>2, <1>6, <2>1 DEF Matches
  <2>2. CASE Len(g) = n
    <3>1. PICK i \in DOMAIN g : ~ (q[i] # ">" /\ Agrees(g[i], q[i]))
      BY <1>6, <2>2 DEF Covers, n
    <3>2. i \in DOMAIN q
      BY <1>1, <2>2
    <3>3. CASE q[i] = ">"
      <4>1. HasTail(q)
        BY <3>2, <3>3 DEF HasTail
      <4>2. Len(g) # n + 1
        BY <1>1, <2>2
      <4>3. ~ Matches(g, u)
        BY <1>3, <1>6, <4>1, <4>2 DEF Matches
      <4> QED
        BY <1>3, <4>1, <4>3
    <3>4. CASE q[i] # ">"
      <4>1. ~ Agrees(g[i], s[i])
        BY <1>4, <3>1, <3>2, <3>4
      <4>2. ~ Matches(g, s)
        BY <1>6, <4>1 DEF Matches
      <4> QED
        BY <1>2, <4>2
    <3> QED
      BY <3>3, <3>4
  <2> QED
    BY <2>1, <2>2
<1> QED
  BY <1>5, <1>6

(* What the gate let through and refused, and what it delivered.           *)
AuthInv ==
    /\ deny \in Denies
    /\ grants \in [publish : PublishGrants, subscribe : SubscribeGrants]
    /\ \A x \in subs : x.pattern \in RawPatterns /\ ParsePattern(x.pattern) /\ CanPattern(x.pattern)
    /\ \A q \in refused : q \in RawPatterns /\ ParsePattern(q) /\ ~ CanPattern(q)
    /\ OnlyGrantedFlows
    /\ CallerIsTrue

(* The substrate's gate is the containment of sets of subjects.            *)
LEMMA GrantsContain == AuthInv => GrantIsContainment
<1> SUFFICES ASSUME AuthInv PROVE GrantIsContainment
  OBVIOUS
<1>1. \A g \in grants.subscribe : g \in Seq(STRING)
  BY GrammarAssumption DEF AuthInv
<1>2. ASSUME NEW x \in subs PROVE Contained(x.pattern)
  <2>1. x.pattern \in Seq(STRING) /\ ParsePattern(x.pattern)
    BY GrammarAssumption DEF AuthInv
  <2>2. PICK g \in grants.subscribe : Covers(g, x.pattern)
    BY DEF AuthInv, CanPattern, CoveredByAny
  <2>3. \A s \in Known : Matches(x.pattern, s) => Matches(g, s)
    BY <1>1, <2>1, <2>2, CoversIsSound, GrammarAssumption
  <2> QED
    BY <2>3 DEF Contained
<1>3. ASSUME NEW q \in refused PROVE ~ Contained(q)
  <2>1. q \in Seq(STRING) /\ q \in RawPatterns /\ ParsePattern(q)
    BY GrammarAssumption DEF AuthInv
  <2>2. PICK x \in Tokens, y \in Tokens : x # y /\ Fillings(q, x, y) \subseteq Known
    BY <2>1, KnownAssumption
  <2>3. ASSUME NEW g \in grants.subscribe
        PROVE  ~ \A s \in Known : Matches(q, s) => Matches(g, s)
    <3>1. ~ Covers(g, q)
      BY DEF AuthInv, CanPattern, CoveredByAny
    <3> QED
      BY <1>1, <2>1, <2>2, <3>1, CoversIsComplete
  <2> QED
    BY <2>3 DEF Contained
<1> QED
  BY <1>2, <1>3 DEF GrantIsContainment

(* The headers of a message read back as its sender and its lease.         *)
LEMMA StampIsTrue ==
    ASSUME NEW p, NEW h \in Forged
    PROVE  /\ Reads(StampWith(p, h), "bd-caller") = {p}
           /\ Reads(StampWith(p, h), "bd-subject") = {Leases[p]} \ {""}
<1>1. ASSUME NEW x \in StripReserved(h) PROVE x.key \notin Identity_
  <2>1. PICK y \in h : y.key \notin Identity_ /\ x = [y EXCEPT !.lower = TRUE]
    BY DEF StripReserved
  <2>2. y \in [key : STRING, lower : BOOLEAN, value : STRING]
    BY GrammarAssumption
  <2> QED
    BY <2>1, <2>2
<1>2. \A x \in StripReserved(h) : x.key # "bd-caller" /\ x.key # "bd-subject"
  BY <1>1 DEF Identity_
<1> DEFINE R == StripReserved(h)
<1> HIDE DEF R
<1>3. \A v : Header("bd-caller", v).key = "bd-caller" /\ Header("bd-caller", v).value = v
  BY DEF Header
<1>4. \A v : Header("bd-subject", v).key = "bd-subject" /\ Header("bd-subject", v).value = v
  BY DEF Header
<1>5. StampWith(p, h) = R \cup {Header("bd-caller", p)}
        \cup (IF Leases[p] = "" THEN {} ELSE {Header("bd-subject", Leases[p])})
  BY DEF StampWith, R
<1> DEFINE one == Header("bd-caller", p)
           two == Header("bd-subject", Leases[p])
           all == StampWith(p, h)
<1>0. /\ \A x \in R : x.key # "bd-caller" /\ x.key # "bd-subject"
      /\ one.key = "bd-caller" /\ two.key = "bd-subject"
      /\ all = R \cup {one} \cup (IF Leases[p] = "" THEN {} ELSE {two})
      /\ "bd-caller" # "bd-subject"
  BY <1>2, <1>3, <1>4, <1>5 DEF R
<1> HIDE DEF one, two, all
<1>6. {y \in all : y.key = "bd-caller"} = {one}
  BY <1>0
<1>7. {y \in all : y.key = "bd-subject"} = IF Leases[p] = "" THEN {} ELSE {two}
  <2>1. CASE Leases[p] = ""
    BY <1>0, <2>1
  <2>2. CASE Leases[p] # ""
    BY <1>0, <2>2
  <2> QED
    BY <2>1, <2>2
<1>8. Reads(StampWith(p, h), "bd-caller") = {p}
  BY <1>3, <1>6 DEF Reads, one, all
<1>9. Reads(StampWith(p, h), "bd-subject") = {Leases[p]} \ {""}
  BY <1>4, <1>7 DEF Reads, two, all
<1> QED
  BY <1>8, <1>9

LEMMA AuthInvInit == AuthInit => AuthInv
BY DEF AuthInit, AuthInv, OnlyGrantedFlows, CallerIsTrue

LEMMA ConnSubscribeKeeps ==
    ASSUME NEW p \in Plugins, NEW q \in RawPatterns, AuthInv, ConnSubscribe(p, q)
    PROVE  AuthInv'
<1>1. deny' = deny /\ grants' = grants /\ inbox' = inbox /\ ParsePattern(q)
  BY DEF ConnSubscribe
<1>2. CASE CanPattern(q)
  <2>1. refused' = refused /\ subs' = subs \cup {[to |-> p, pattern |-> q]}
    BY <1>2 DEF ConnSubscribe
  <2>2. \A x \in subs' : x.pattern \in RawPatterns /\ ParsePattern(x.pattern) /\ CanPattern(x.pattern)
    BY <1>1, <1>2, <2>1 DEF AuthInv
  <2> QED
    BY <1>1, <2>1, <2>2 DEF AuthInv, OnlyGrantedFlows, CallerIsTrue, CanPattern
<1>3. CASE ~ CanPattern(q)
  <2>1. subs' = subs /\ refused' = refused \cup {q}
    BY <1>3 DEF ConnSubscribe
  <2> QED
    BY <1>1, <1>3, <2>1 DEF AuthInv, OnlyGrantedFlows, CallerIsTrue, CanPattern
<1> QED
  BY <1>2, <1>3

(* A message is delivered to a subscription that matches it, so the grant  *)
(* that covers the subscription matches it too.                            *)
LEMMA ConnPublishKeeps ==
    ASSUME NEW p \in Plugins, NEW s \in RawSubjects, NEW h \in Forged, AuthInv, ConnPublish(p, s, h)
    PROVE  AuthInv'
<1>1. deny' = deny /\ grants' = grants /\ subs' = subs /\ refused' = refused
  BY DEF ConnPublish
<1>2. /\ MatchedByAny(grants.publish, s)
      /\ ~ \E d \in deny : Matches(d, s)
  BY DEF ConnPublish, CheckPublish, Can, DenySubject, MatchedByAny
<1>3. ASSUME NEW m \in inbox', m \notin inbox
      PROVE  /\ m.subject = s /\ m.sender = p /\ m.headers = StampWith(p, h)
             /\ \E x \in subs : Matches(x.pattern, s)
  BY <1>3 DEF ConnPublish
<1>4. ASSUME NEW x \in subs, Matches(x.pattern, s) PROVE MatchedByAny(grants.subscribe, s)
  <2>1. x.pattern \in Seq(STRING) /\ ParsePattern(x.pattern) /\ s \in Seq(STRING)
    BY GrammarAssumption DEF AuthInv
  <2>2. PICK g \in grants.subscribe : Covers(g, x.pattern)
    BY DEF AuthInv, CanPattern, CoveredByAny
  <2>3. g \in Seq(STRING)
    BY GrammarAssumption DEF AuthInv
  <2>4. Matches(g, s)
    BY <1>4, <2>1, <2>2, <2>3, CoversIsSound
  <2> QED
    BY <2>4 DEF MatchedByAny
<1>5. OnlyGrantedFlows'
  <2>1. ASSUME NEW m \in inbox'
        PROVE  /\ MatchedByAny(grants.subscribe, m.subject)
               /\ MatchedByAny(grants.publish, m.subject)
               /\ ~ \E d \in deny : Matches(d, m.subject)
    BY <1>2, <1>3, <1>4 DEF AuthInv, OnlyGrantedFlows
  <2> QED
    BY <1>1, <2>1 DEF OnlyGrantedFlows
<1>6. CallerIsTrue'
  <2>1. ASSUME NEW m \in inbox'
        PROVE  /\ Reads(m.headers, "bd-caller") = {m.sender}
               /\ Reads(m.headers, "bd-subject") = {Leases[m.sender]} \ {""}
    <3>1. CASE m \in inbox
      BY <3>1 DEF AuthInv, CallerIsTrue
    <3>2. CASE m \notin inbox
      <4>1. m.sender = p /\ m.headers = StampWith(p, h)
        BY <1>3, <3>2
      <4> QED
        BY <4>1, StampIsTrue
    <3> QED
      BY <3>1, <3>2
  <2> QED
    BY <2>1 DEF CallerIsTrue
<1> QED
  BY <1>1, <1>5, <1>6 DEF AuthInv, CanPattern

LEMMA AuthStep == AuthInv /\ [AuthNext]_authVars => AuthInv'
<1> SUFFICES ASSUME AuthInv, [AuthNext]_authVars PROVE AuthInv'
  OBVIOUS
<1>1. ASSUME NEW p \in Plugins, NEW q \in RawPatterns, ConnSubscribe(p, q) PROVE AuthInv'
  BY <1>1, ConnSubscribeKeeps
<1>2. ASSUME NEW p \in Plugins, NEW s \in RawSubjects, NEW h \in Forged, ConnPublish(p, s, h)
      PROVE  AuthInv'
  BY <1>2, ConnPublishKeeps
<1>3. CASE UNCHANGED authVars
  BY <1>3 DEF authVars, AuthInv, OnlyGrantedFlows, CallerIsTrue, CanPattern
<1> QED
  BY <1>1, <1>2, <1>3 DEF AuthNext

(* Whatever plugins subscribe to and publish, with whatever headers, a     *)
(* subscription is granted exactly when one grant contains it, a message   *)
(* reaches only those granted it and never crosses a deny, and its headers *)
(* name the plugin that sent it (Covers, CanPattern, checkPublish,         *)
(* StripReserved, stampWith).                                              *)
THEOREM GrantsAreTrue == AuthSpec => []GrantedAndTrue
<1>1. AuthInv => GrantedAndTrue
  BY GrantsContain DEF AuthInv, GrantedAndTrue
<1> QED
  BY <1>1, AuthInvInit, AuthStep, PTL DEF AuthSpec

----------------------------------------------------------------------------
(* The paths of panels and the public routes.                              *)

Segments == [kind : {"", ":", "*"}, value : STRING]

(* Two patterns that match one pathname overlap.                           *)
LEMMA CommonPathOverlaps ==
    ASSUME NEW a \in Seq(Segments), NEW b \in Seq(Segments), NEW p \in Seq(STRING),
           MatchDocumentPath(a, p), MatchDocumentPath(b, p)
    PROVE  DocumentPathsOverlap(a, b)
<1> DEFINE la == Len(a)
           lb == Len(b)
           lp == Len(p)
<1>0. la \in Nat /\ lb \in Nat /\ lp \in Nat
  OBVIOUS
<1>1. lp >= la /\ lp >= lb /\ (~ CatchAll(a) => lp = la) /\ (~ CatchAll(b) => lp = lb)
  BY DEF MatchDocumentPath
<1>2. ASSUME NEW i \in DOMAIN a \cap DOMAIN b
      PROVE  a[i].kind # "" \/ b[i].kind # "" \/ a[i].value = b[i].value
  BY DEF MatchDocumentPath
<1> HIDE DEF la, lb, lp
<1>3. ~ (~ CatchAll(a) /\ la < lb) /\ ~ (~ CatchAll(b) /\ lb < la)
  BY <1>0, <1>1
<1> QED
  BY <1>2, <1>3 DEF DocumentPathsOverlap, la, lb

(* A pathname as long as a, of the literals of a and b where they have one.*)
Meeting(a, b, x) ==
    [i \in 1 .. Len(a) |-> IF a[i].kind = "" THEN a[i].value
                           ELSE IF i \in DOMAIN b /\ b[i].kind = "" THEN b[i].value ELSE x]

(* Patterns that overlap meet: the longer one's length, filled from both,  *)
(* is a pathname of each.                                                  *)
LEMMA OverlapMeets ==
    ASSUME NEW a \in Seq(Segments), NEW b \in Seq(Segments), NEW x \in STRING, x \notin Bad,
           ParseDocumentPath(a), ParseDocumentPath(b), DocumentPathsOverlap(a, b),
           Len(b) <= Len(a)
    PROVE  /\ Meeting(a, b, x) \in [1 .. Len(a) -> Literals(a) \cup Literals(b) \cup {x}]
           /\ MatchDocumentPath(a, Meeting(a, b, x))
           /\ MatchDocumentPath(b, Meeting(a, b, x))
<1> DEFINE p == Meeting(a, b, x)
           names == Literals(a) \cup Literals(b) \cup {x}
<1>1. /\ Len(a) \in Nat /\ DOMAIN a = 1 .. Len(a)
      /\ Len(b) \in Nat /\ DOMAIN b = 1 .. Len(b)
      /\ \A i \in DOMAIN a : a[i] \in Segments
      /\ \A i \in DOMAIN b : b[i] \in Segments
  OBVIOUS
<1>2. /\ \A i \in DOMAIN a : a[i].value \notin Bad /\ (a[i].kind = "*" => i = Len(a))
      /\ \A i \in DOMAIN b : b[i].value \notin Bad /\ (b[i].kind = "*" => i = Len(b))
  BY DEF ParseDocumentPath
<1>3. /\ \A i \in DOMAIN a : a[i].kind = "" => a[i].value \in Literals(a)
      /\ \A i \in DOMAIN b : b[i].kind = "" => b[i].value \in Literals(b)
  BY <1>2 DEF Literals
<1>4. \A i \in 1 .. Len(a) : p[i] \in names
  BY <1>1, <1>3 DEF Meeting
<1>5. p \in [1 .. Len(a) -> names]
  BY <1>4 DEF Meeting
<1>6. \A n \in names : n \notin Bad
  BY DEF Literals
<1>7. Len(p) = Len(a) /\ DOMAIN p = 1 .. Len(a)
  <2> HIDE DEF p, names
  <2>1. Len(a) \in Nat /\ p \in [1 .. Len(a) -> names]
    BY <1>1, <1>5
  <2>2. p \in Seq(names)
    BY <2>1
  <2> QED
    BY <2>1, <2>2
<1>8. \A i \in DOMAIN p : p[i] \notin Bad
  BY <1>4, <1>6, <1>7
<1>9. \A i \in DOMAIN a : a[i].kind = "" => a[i].value = p[i]
  BY <1>1 DEF Meeting
<1>10. DOMAIN b \subseteq DOMAIN a
  BY <1>1
<1>11. ASSUME NEW i \in DOMAIN b, b[i].kind = "" PROVE b[i].value = p[i]
  <2>1. CASE a[i].kind # ""
    BY <1>1, <1>10, <1>11, <2>1 DEF Meeting
  <2>2. CASE a[i].kind = ""
    <3>1. i \in DOMAIN a \cap DOMAIN b /\ p[i] = a[i].value
      BY <1>9, <1>10, <2>2
    <3>2. ASSUME NEW j \in 1 .. i, a[j].kind = "*" \/ b[j].kind = "*" PROVE FALSE
      <4>1. j \in DOMAIN a /\ j \in DOMAIN b /\ i \in 1 .. Len(b) /\ i \in 1 .. Len(a) /\ j <= i
        BY <1>1, <3>1
      <4>2. j = Len(a) \/ j = Len(b)
        BY <1>2, <3>2, <4>1
      <4>3. j = i
        <5> DEFINE la == Len(a)
                   lb == Len(b)
        <5>1. la \in Nat /\ lb \in Nat /\ i \in 1 .. la /\ i \in 1 .. lb /\ j \in 1 .. i /\ (j = la \/ j = lb)
          BY <1>1, <4>1, <4>2
        <5> HIDE DEF la, lb
        <5> QED
          BY <5>1
      <4> QED
        BY <1>11, <2>2, <3>2, <4>3
    <3> QED
      BY <1>11, <2>2, <3>1, <3>2 DEF DocumentPathsOverlap
  <2> QED
    BY <2>1, <2>2
<1> HIDE DEF p
<1> DEFINE la == Len(a)
           lb == Len(b)
           lp == Len(p)
<1>12. /\ la \in Nat /\ lb \in Nat /\ lb <= la /\ lp = la
       /\ ~ (~ CatchAll(b) /\ lb < la)
  BY <1>1, <1>7 DEF DocumentPathsOverlap
<1> HIDE DEF la, lb, lp
<1>13. lp >= la /\ lp >= lb /\ (~ CatchAll(b) => lp = lb)
  BY <1>12
<1>14. MatchDocumentPath(a, p)
  BY <1>8, <1>9, <1>12, <1>13 DEF MatchDocumentPath, la, lp
<1>15. MatchDocumentPath(b, p)
  BY <1>8, <1>11, <1>13 DEF MatchDocumentPath, lb, lp
<1> QED
  BY <1>5, <1>14, <1>15 DEF p

LEMMA OverlapIsSymmetric ==
    ASSUME NEW a, NEW b, DocumentPathsOverlap(a, b)
    PROVE  DocumentPathsOverlap(b, a)
BY DEF DocumentPathsOverlap

(* What was loaded is valid; what it opened and waived came from it.       *)
DocumentInv ==
    /\ manifest \in Manifests
    /\ loaded => \E v \in BOOLEAN : ManifestValid(manifest, v)
    /\ OnePanelOpens
    /\ WaivedIsDeclared

LEMMA RefusalsHaveCause == manifest \in Manifests => RefusedForCause
<1> SUFFICES ASSUME manifest \in Manifests,
                    NEW c \in Claimed(manifest), NEW d \in Claimed(manifest),
                    ParseDocumentPath(Pattern(manifest, c)), ParseDocumentPath(Pattern(manifest, d)),
                    DocumentPathsOverlap(Pattern(manifest, c), Pattern(manifest, d))
             PROVE  \E p \in Pathnames : /\ MatchDocumentPath(Pattern(manifest, c), p)
                                         /\ MatchDocumentPath(Pattern(manifest, d), p)
  BY DEF RefusedForCause
<1>1. PICK a : a = Pattern(manifest, c)
  OBVIOUS
<1>2. PICK b : b = Pattern(manifest, d)
  OBVIOUS
<1>3. a \in Seq(Segments) /\ b \in Seq(Segments)
  BY <1>1, <1>2, PathnamesAssumption DEF Segments
<1>4. PICK y \in Pathnames :
        /\ Len(y) = 1 /\ y[1] \notin Bad
        /\ [1 .. Len(a) -> Literals(a) \cup Literals(b) \cup {y[1]}] \subseteq Pathnames
        /\ [1 .. Len(b) -> Literals(b) \cup Literals(a) \cup {y[1]}] \subseteq Pathnames
  BY <1>1, <1>2, PathnamesAssumption
<1>5. y[1] \in STRING
  <2>1. y \in Seq(STRING) /\ Len(y) = 1
    BY <1>4, PathnamesAssumption
  <2> QED
    BY <2>1
<1>6. CASE Len(b) <= Len(a)
  <2>1. /\ Meeting(a, b, y[1]) \in Pathnames
        /\ MatchDocumentPath(a, Meeting(a, b, y[1]))
        /\ MatchDocumentPath(b, Meeting(a, b, y[1]))
    BY <1>1, <1>2, <1>3, <1>4, <1>5, <1>6, OverlapMeets
  <2> QED
    BY <1>1, <1>2, <2>1
<1>7. CASE Len(a) <= Len(b)
  <2>1. DocumentPathsOverlap(b, a)
    BY <1>1, <1>2, OverlapIsSymmetric
  <2>2. /\ Meeting(b, a, y[1]) \in Pathnames
        /\ MatchDocumentPath(b, Meeting(b, a, y[1]))
        /\ MatchDocumentPath(a, Meeting(b, a, y[1]))
    BY <1>1, <1>2, <1>3, <1>4, <1>5, <1>7, <2>1, OverlapMeets
  <2> QED
    BY <1>1, <1>2, <2>2
<1>8. Len(b) <= Len(a) \/ Len(a) <= Len(b)
  BY <1>3
<1> QED
  BY <1>6, <1>7, <1>8

(* Claims of an admitted manifest that match one pathname are one claim.   *)
LEMMA OpensOnePanel ==
    ASSUME NEW path \in Pathnames, DocumentInv, OpenPath(path)
    PROVE  DocumentInv'
<1>1. loaded /\ manifest' = manifest /\ loaded' = loaded /\ anonymous' = anonymous
  BY DEF OpenPath
<1>2. DocumentPathsValid(manifest)
  BY <1>1 DEF DocumentInv, ManifestValid
<1> DEFINE C == {x \in Claimed(manifest) : MatchDocumentPath(Pattern(manifest, x), path)}
<1>3. ASSUME NEW c \in C, NEW d \in C PROVE c = d
  <2>1. PICK a : a = Pattern(manifest, c)
    OBVIOUS
  <2>2. PICK b : b = Pattern(manifest, d)
    OBVIOUS
  <2>3. a \in Seq(Segments) /\ b \in Seq(Segments) /\ path \in Seq(STRING)
    BY <2>1, <2>2, PathnamesAssumption DEF DocumentInv, Segments
  <2>4. DocumentPathsOverlap(a, b)
    BY <2>1, <2>2, <2>3, CommonPathOverlaps
  <2> QED
    BY <1>2, <2>1, <2>2, <2>4 DEF DocumentPathsValid
<1>4. opened'.panels = {c.panel : c \in C}
  BY DEF OpenPath
<1> HIDE DEF C
<1>5. CASE C = {}
  <2>1. opened'.panels = {}
    BY <1>4, <1>5
  <2>2. Cardinality(opened'.panels) = 0
    BY <2>1, FS_EmptySet
  <2> QED
    BY <1>1, <2>2 DEF DocumentInv, OnePanelOpens, WaivedIsDeclared
<1>6. CASE C # {}
  <2>1. PICK c \in C : TRUE
    BY <1>6
  <2>2. opened'.panels = {c.panel}
    BY <1>3, <1>4, <2>1
  <2>3. Cardinality(opened'.panels) = 1
    BY <2>2, FS_Singleton
  <2> QED
    BY <1>1, <2>3 DEF DocumentInv, OnePanelOpens, WaivedIsDeclared
<1> QED
  BY <1>5, <1>6

LEMMA DocumentInvInit == DocumentInit => DocumentInv
<1> SUFFICES ASSUME DocumentInit PROVE DocumentInv
  OBVIOUS
<1>1. Cardinality(opened.panels) = 0
  BY FS_EmptySet DEF DocumentInit, Nothing
<1> QED
  BY <1>1 DEF DocumentInit, DocumentInv, OnePanelOpens, WaivedIsDeclared

LEMMA DocumentStep == DocumentInv /\ [DocumentNext]_documentVars => DocumentInv'
<1> SUFFICES ASSUME DocumentInv, [DocumentNext]_documentVars PROVE DocumentInv'
  OBVIOUS
<1>1. CASE Load
  BY <1>1 DEF Load, DocumentInv, OnePanelOpens, WaivedIsDeclared
<1>2. ASSUME NEW p \in Pathnames, OpenPath(p) PROVE DocumentInv'
  BY <1>2, OpensOnePanel
<1>3. ASSUME NEW p \in Requests, Fetch(p) PROVE DocumentInv'
  <2>1. Range(manifest.publicRoutes) \subseteq manifest.routes
    BY <1>3 DEF Fetch, DocumentInv, ManifestValid, PublicRoutesValid
  <2>2. \E r \in manifest.routes : Under(r, p)
    BY <1>3, <2>1 DEF Fetch, PublicRoute
  <2> QED
    BY <1>3, <2>2 DEF Fetch, DocumentInv, OnePanelOpens, WaivedIsDeclared
<1>4. CASE UNCHANGED documentVars
  BY <1>4 DEF documentVars, DocumentInv, OnePanelOpens, WaivedIsDeclared
<1> QED
  BY <1>1, <1>2, <1>3, <1>4 DEF DocumentNext

(* Whatever manifests are read and pathnames opened, a pathname opens at   *)
(* most one panel, panels are refused only when they share a pathname, and *)
(* a session is waived only on a declared route (validateDocumentPaths,    *)
(* DocumentPathsOverlap, MatchDocumentPath, validatePublicRoutes).         *)
THEOREM RoutesAreKept == DocumentSpec => []RoutesAreDeclared
<1>1. DocumentInv => RoutesAreDeclared
  BY RefusalsHaveCause DEF DocumentInv, RoutesAreDeclared
<1> QED
  BY <1>1, DocumentInvInit, DocumentStep, PTL DEF DocumentSpec

----------------------------------------------------------------------------
(* The tokens of patterns and of subjects, as texts.                       *)
Texts == STRING \cup {"*", ">", "event", "tick", "_INBOX", "cmd", "svc", "gateway"}

(* The first token at which a comparison of two patterns stops.            *)
LEMMA FirstStop ==
    ASSUME NEW a \in Seq(Texts), NEW b \in Seq(Texts)
    PROVE  /\ StopAt(a, b) \in 1 .. (Len(a) + 1)
           /\ Stops(a, b, StopAt(a, b))
           /\ \A j \in 1 .. (StopAt(a, b) - 1) : ~ Stops(a, b, j)
<1> DEFINE T == {i \in 1 .. (Len(a) + 1) : Stops(a, b, i)}
<1>1. T \in SUBSET Nat /\ Len(a) + 1 \in T
  BY DEF Stops
<1>2. PICK x \in T : \A y \in T : ~ (<<y, x>> \in OpToRel(<, Nat))
  BY <1>1, NatLessThanWellFounded, WFMin
<1>3. \A y \in T : ~ (y < x)
  BY <1>1, <1>2 DEF OpToRel
<1>4. \A j \in 1 .. (x - 1) : ~ Stops(a, b, j)
  BY <1>3
<1>5. x \in 1 .. (Len(a) + 1) /\ Stops(a, b, x) /\ \A j \in 1 .. (x - 1) : ~ Stops(a, b, j)
  BY <1>4
<1> QED
  BY <1>5 DEF StopAt

(* The tokens before the tail of a pattern agree with a subject it         *)
(* matches, and without a tail they are as many.                           *)
LEMMA MatchedTokens ==
    ASSUME NEW p \in Seq(Texts), NEW s \in Seq(Texts), Matches(p, s),
           NEW i \in Nat, \A j \in 1 .. i : j \in DOMAIN p => p[j] # ">"
    PROVE  /\ i \in 1 .. Len(p) => i <= Len(s) /\ Agrees(p[i], s[i])
           /\ i >= Len(p) => Len(s) = Len(p)
           /\ i < Len(p) => i < Len(s)
<1> DEFINE lp == Len(p)
           ls == Len(s)
<1>1. lp \in Nat /\ ls \in Nat /\ DOMAIN p = 1 .. lp
  OBVIOUS
<1>2. CASE HasTail(p)
  <2> DEFINE k == TailAt(p)
  <2>1. k \in 1 .. lp /\ p[k] = ">" /\ k <= ls /\ \A j \in 1 .. (k - 1) : Agrees(p[j], s[j])
    BY <1>2, FirstTail DEF Matches
  <2> HIDE DEF lp, ls, k
  <2>2. ~ (k <= i)
    BY <1>1, <2>1
  <2> QED
    BY <1>1, <2>1, <2>2 DEF lp, ls
<1>3. CASE ~ HasTail(p)
  <2>1. lp = ls /\ \A j \in DOMAIN p : Agrees(p[j], s[j])
    BY <1>3 DEF Matches
  <2> HIDE DEF lp, ls
  <2> QED
    BY <1>1, <2>1 DEF lp, ls
<1> QED
  BY <1>2, <1>3

(* Patterns that match one subject overlap.                                *)
LEMMA CommonSubjectOverlaps ==
    ASSUME NEW a \in Seq(Texts), NEW b \in Seq(Texts), NEW s \in Seq(Texts),
           Matches(a, s), Matches(b, s)
    PROVE  PatternsOverlap(a, b)
<1> DEFINE i == StopAt(a, b)
           la == Len(a)
           lb == Len(b)
           ls == Len(s)
<1>1. la \in Nat /\ lb \in Nat /\ ls \in Nat /\ DOMAIN a = 1 .. la /\ DOMAIN b = 1 .. lb
  OBVIOUS
<1>2. i \in 1 .. (la + 1) /\ Stops(a, b, i) /\ \A j \in 1 .. (i - 1) : ~ Stops(a, b, j)
  BY FirstStop
<1> HIDE DEF i, la, lb, ls
<1>3. i - 1 \in Nat /\ \A j \in 1 .. (i - 1) : /\ j \in DOMAIN a /\ a[j] # ">"
                                               /\ j \in DOMAIN b /\ b[j] # ">"
  BY <1>1, <1>2 DEF Stops
<1>4. i - 1 <= la /\ i - 1 <= lb
  BY <1>1, <1>2, <1>3
<1>5. CASE ~ (i \in DOMAIN a /\ i \in DOMAIN b)
  <2>1. /\ i - 1 >= la => ls = la
        /\ i - 1 < la => i - 1 < ls
    BY <1>3, MatchedTokens DEF la, ls
  <2>2. /\ i - 1 >= lb => ls = lb
        /\ i - 1 < lb => i - 1 < ls
    BY <1>3, MatchedTokens DEF lb, ls
  <2>3. la = lb
    BY <1>1, <1>2, <1>4, <1>5, <2>1, <2>2
  <2> QED
    BY <1>5, <2>3 DEF PatternsOverlap, i, la, lb
<1>6. CASE i \in DOMAIN a /\ i \in DOMAIN b
  <2> SUFFICES ASSUME a[i] # ">", b[i] # ">" PROVE FALSE
    BY <1>6 DEF PatternsOverlap, i
  <2>1. \A j \in 1 .. i : (j \in DOMAIN a => a[j] # ">") /\ (j \in DOMAIN b => b[j] # ">")
    BY <1>1, <1>2, <1>3
  <2>2. i \in Nat /\ i \in 1 .. la /\ i \in 1 .. lb
    BY <1>1, <1>2, <1>6
  <2>3. Agrees(a[i], s[i])
    BY <2>1, <2>2, MatchedTokens DEF la
  <2>4. Agrees(b[i], s[i])
    BY <2>1, <2>2, MatchedTokens DEF lb
  <2> QED
    BY <1>1, <1>2, <1>6, <2>3, <2>4 DEF Stops, Agrees
<1> QED
  BY <1>5, <1>6

(* Patterns that overlap match the subject of their common names.          *)
LEMMA OverlapHasCommon ==
    ASSUME NEW a \in Seq(Texts), NEW b \in Seq(Texts), ParsePattern(a), ParsePattern(b),
           PatternsOverlap(a, b), NEW x
    PROVE  Matches(a, Common(a, b, x)) /\ Matches(b, Common(a, b, x))
<1> DEFINE i == StopAt(a, b)
           la == Len(a)
           lb == Len(b)
           n == IF la >= lb THEN la ELSE lb
           s == Common(a, b, x)
<1>1. /\ la \in Nat /\ lb \in Nat /\ DOMAIN a = 1 .. la /\ DOMAIN b = 1 .. lb /\ la > 0 /\ lb > 0
      /\ i \in 1 .. (la + 1) /\ \A j \in 1 .. (i - 1) : ~ Stops(a, b, j)
  BY FirstStop, TailIsLast
<1>2. /\ \A j \in DOMAIN a : a[j] = ">" => j = la
      /\ \A j \in DOMAIN b : b[j] = ">" => j = lb
      /\ HasTail(a) => TailAt(a) = la
      /\ HasTail(b) => TailAt(b) = lb
  BY TailIsLast
<1>3. s = [k \in 1 .. n |-> IF IsName(a, k) THEN a[k] ELSE IF IsName(b, k) THEN b[k] ELSE x]
  BY DEF Common
<1>4. \/ i \in DOMAIN a /\ i \in DOMAIN b /\ (a[i] = ">" \/ b[i] = ">")
      \/ ~ (i \in DOMAIN a /\ i \in DOMAIN b) /\ la = lb
  BY DEF PatternsOverlap
<1> HIDE DEF i, la, lb, s
<1>5. n \in Nat /\ la <= n /\ lb <= n
  BY <1>1
<1>6. /\ ~ HasTail(a) => n = la
      /\ ~ HasTail(b) => n = lb
  <2>1. CASE la = lb
    BY <2>1
  <2>2. CASE i \in DOMAIN a /\ i \in DOMAIN b /\ a[i] = ">"
    <3>1. i = la /\ HasTail(a) /\ i <= lb
      BY <1>1, <1>2, <2>2 DEF HasTail
    <3> QED
      BY <1>1, <3>1
  <2>3. CASE i \in DOMAIN a /\ i \in DOMAIN b /\ b[i] = ">"
    <3>1. i = lb /\ HasTail(b) /\ i <= la
      BY <1>1, <1>2, <2>3 DEF HasTail
    <3> QED
      BY <1>1, <3>1
  <2> QED
    BY <1>4, <2>1, <2>2, <2>3
<1>7. \A k \in 1 .. n : s[k] = IF IsName(a, k) THEN a[k] ELSE IF IsName(b, k) THEN b[k] ELSE x
  BY <1>3
<1>8. s \in [1 .. n -> Range(s)] /\ Len(s) = n
  <2> HIDE DEF n
  <2>1. DOMAIN s = 1 .. n /\ s = [k \in 1 .. n |-> s[k]]
    BY <1>3
  <2>2. s \in [1 .. n -> Range(s)]
    BY <2>1 DEF Range
  <2> QED
    BY <1>5, <2>2
<1> HIDE DEF n
<1>9. ASSUME NEW k \in DOMAIN a PROVE a[k] = ">" \/ Agrees(a[k], s[k])
  <2>1. k \in 1 .. n
    BY <1>1, <1>5
  <2> QED
    BY <1>7, <2>1 DEF IsName, Agrees
<1>10. ASSUME NEW k \in DOMAIN b PROVE b[k] = ">" \/ Agrees(b[k], s[k])
  <2>1. k \in 1 .. n
    BY <1>1, <1>5
  <2>2. CASE ~ IsName(a, k)
    BY <1>7, <2>1, <2>2 DEF IsName, Agrees
  <2>3. CASE IsName(a, k) /\ k \in 1 .. (i - 1)
    <3>1. a[k] = b[k] \/ b[k] = "*"
      BY <1>1, <2>3 DEF Stops, IsName
    <3> QED
      BY <1>7, <2>1, <2>3, <3>1 DEF Agrees
  <2>4. CASE IsName(a, k) /\ k \notin 1 .. (i - 1)
    <3>1. k \in 1 .. la /\ k \in 1 .. lb /\ k >= i /\ i \in DOMAIN a /\ i \in DOMAIN b
      BY <1>1, <2>4 DEF IsName
    <3>2. a[i] = ">" \/ b[i] = ">"
      BY <1>4, <3>1
    <3>3. i = la \/ i = lb
      BY <1>2, <3>1, <3>2
    <3>4. k = i
      BY <1>1, <3>1, <3>3
    <3> QED
      BY <2>4, <3>2, <3>4 DEF IsName
  <2> QED
    BY <2>2, <2>3, <2>4
<1>11. Matches(a, s)
  <2>1. CASE HasTail(a)
    <3>1. \A k \in 1 .. (la - 1) : k \in DOMAIN a /\ k # la
      BY <1>1
    <3>2. \A k \in 1 .. (la - 1) : Agrees(a[k], s[k])
      BY <1>2, <1>9, <3>1
    <3> QED
      BY <1>2, <1>5, <1>8, <2>1, <3>2 DEF Matches
  <2>2. CASE ~ HasTail(a)
    <3>1. \A k \in DOMAIN a : Agrees(a[k], s[k])
      BY <1>9, <2>2 DEF HasTail
    <3> QED
      BY <1>6, <1>8, <2>2, <3>1 DEF Matches, la
  <2> QED
    BY <2>1, <2>2
<1>12. Matches(b, s)
  <2>1. CASE HasTail(b)
    <3>1. \A k \in 1 .. (lb - 1) : k \in DOMAIN b /\ k # lb
      BY <1>1
    <3>2. \A k \in 1 .. (lb - 1) : Agrees(b[k], s[k])
      BY <1>2, <1>10, <3>1
    <3> QED
      BY <1>2, <1>5, <1>8, <2>1, <3>2 DEF Matches
  <2>2. CASE ~ HasTail(b)
    <3>1. \A k \in DOMAIN b : Agrees(b[k], s[k])
      BY <1>10, <2>2 DEF HasTail
    <3> QED
      BY <1>6, <1>8, <2>2, <3>1 DEF Matches, lb
  <2> QED
    BY <2>1, <2>2
<1> QED
  BY <1>11, <1>12 DEF s

LEMMA AreTexts ==
    ASSUME NEW s \in Seq(STRING)
    PROVE  s \in Seq(Texts)
<1>1. \A i \in 1 .. Len(s) : s[i] \in Texts
  BY DEF Texts
<1> QED
  BY <1>1

(* The tree of a plugin.                                                   *)
LEMMA TreeTokens ==
    ASSUME NEW id \in Seq(Texts), NEW r \in Texts
    PROVE  /\ Tree(r, id) \in Seq(Texts)
           /\ Len(Tree(r, id)) = Len(id) + 2
           /\ Tree(r, id)[1] = r
           /\ \A j \in 1 .. Len(id) : Tree(r, id)[j + 1] = id[j]
<1>1. <<r>> \in Seq(Texts) /\ <<">">> \in Seq(Texts)
  BY DEF Texts
<1>2. /\ <<r>> \o id \in Seq(Texts)
      /\ Len(<<r>> \o id) = Len(id) + 1
      /\ (<<r>> \o id)[1] = r
      /\ \A j \in 1 .. Len(id) : (<<r>> \o id)[j + 1] = id[j]
  BY <1>1
<1> QED
  BY <1>1, <1>2 DEF Tree

(* A literal first token of a pattern is the first of what it matches.     *)
LEMMA FirstToken ==
    ASSUME NEW p \in Seq(Texts), NEW s \in Seq(Texts), Matches(p, s), Len(p) > 0,
           p[1] \notin {"*", ">"}
    PROVE  Len(s) > 0 /\ s[1] = p[1]
<1>1. \A j \in 1 .. 1 : j \in DOMAIN p => p[j] # ">"
  OBVIOUS
<1>2. 1 \in 1 .. Len(p) => 1 <= Len(s) /\ Agrees(p[1], s[1])
  BY <1>1, MatchedTokens
<1> QED
  BY <1>2 DEF Agrees
LEMMA SecondToken ==
    ASSUME NEW p \in Seq(Texts), NEW s \in Seq(Texts), Matches(p, s), Len(p) > 1,
           p[1] # ">", p[2] \notin {"*", ">"}
    PROVE  s[2] = p[2]
<1>1. \A j \in 1 .. 2 : j \in DOMAIN p => p[j] # ">"
  OBVIOUS
<1>2. 2 \in 1 .. Len(p) => 2 <= Len(s) /\ Agrees(p[2], s[2])
  BY <1>1, MatchedTokens
<1> QED
  BY <1>2 DEF Agrees

----------------------------------------------------------------------------
(* What is in force is a valid candidate, and what is mounted lies in a    *)
(* tree of its plugin.                                                     *)
AuthorityInv ==
    /\ \A m \in admitted : m \in Candidates /\ AuthorityValid(m)
    /\ \A x \in mounted : x.id \in Seq(Texts) /\ x.subject \in Seq(Texts) /\ InOwn(x.id, x.subject)

(* The patterns of a candidate, as sequences of texts.                     *)
Declared(m) == Range(m.publish) \cup Range(m.subscribe) \cup Range(m.request)
LEMMA DeclaredAreTexts ==
    ASSUME NEW m \in Candidates
    PROVE  /\ m.id \in Seq(Texts) /\ Len(m.id) > 0
           /\ \A p \in Declared(m) : p \in Seq(Texts)
<1>1. /\ m.id \in Seq(STRING) \ {<<>>}
      /\ m["publish"] \in Seq(Seq(STRING))
      /\ m["subscribe"] \in Seq(Seq(STRING))
      /\ m["request"] \in Seq(Seq(STRING))
  BY CandidatesAssumption
<1>2. \A p \in Range(m.publish) \cup Range(m.subscribe) \cup Range(m.request) : p \in Seq(STRING)
  BY <1>1 DEF Range
<1>3. m.id \in Seq(Texts) /\ Len(m.id) > 0
  BY <1>1, AreTexts
<1> QED
  BY <1>2, <1>3, AreTexts DEF Declared

LEMMA OwnTrees ==
    ASSUME NEW id \in Seq(Texts), Len(id) > 0, NEW g \in OwnNamespacePatterns(id)
    PROVE  /\ g \in Seq(Texts) /\ Len(g) > 1
           /\ g[1] \in {"event", "tick", "_INBOX", "cmd", "svc"}
           /\ g[2] = id[1]
<1>1. PICK r \in {"event", "tick", "_INBOX", "cmd", "svc"} : g = Tree(r, id)
  BY DEF OwnNamespacePatterns, OwnNamespace
<1>2. r \in Texts
  BY DEF Texts
<1>3. g \in Seq(Texts) /\ Len(g) = Len(id) + 2 /\ g[1] = r /\ \A j \in 1 .. Len(id) : g[j + 1] = id[j]
  BY <1>1, <1>2, TreeTokens
<1>4. g[1 + 1] = id[1]
  BY <1>3
<1> QED
  BY <1>3, <1>4

LEMMA SubjectsAreTexts ==
    /\ \A s \in BusSubjects : s \in Seq(Texts) /\ Len(s) > 0
    /\ \A d \in Ineligible \cup Providers : d \in Seq(Texts)
<1>1. \A s \in Ineligible \cup Providers \cup BusSubjects : s \in Seq(Texts)
  BY CandidatesAssumption, AreTexts
<1>2. \A s \in BusSubjects : s # <<>>
  BY CandidatesAssumption
<1> QED
  BY <1>1, <1>2

----------------------------------------------------------------------------
(* An ineligible family shares no subject with what a valid manifest holds.*)
LEMMA NoneIneligible ==
    ASSUME NEW m \in Candidates, AuthorityValid(m), NEW s \in BusSubjects,
           NEW p \in Declared(m) \cup OwnNamespacePatterns(m.id), Matches(p, s)
    PROVE  ~ MatchedByAny(Ineligible, s)
<1> SUFFICES ASSUME NEW d \in Ineligible, Matches(d, s) PROVE FALSE
  BY DEF MatchedByAny
<1>1. d \in Seq(Texts) /\ s \in Seq(Texts)
  BY SubjectsAreTexts
<1>2. p \in Seq(Texts)
  BY DeclaredAreTexts, OwnTrees
<1>3. PatternsOverlap(d, p)
  BY <1>1, <1>2, CommonSubjectOverlaps
<1>4. CASE p \in OwnNamespacePatterns(m.id)
  BY <1>3, <1>4 DEF AuthorityValid, SubjectPatternsValid, IdAllowed
<1>5. CASE p \in Declared(m)
  <2>1. PICK verb \in {"publish", "subscribe", "request"} : p \in Range(m[verb])
    BY <1>5 DEF Declared
  <2>2. PatternAllowed(m, verb, p)
    BY <2>1 DEF AuthorityValid, SubjectPatternsValid
  <2> QED
    BY <1>3, <2>2 DEF PatternAllowed
<1> QED
  BY <1>4, <1>5

(* The gateway's commands.                                                 *)
LEMMA GatewayTokens ==
    ASSUME NEW s \in Seq(Texts), Matches(Gateway, s)
    PROVE  s[1] = "cmd" /\ s[2] = "gateway"
<1>1. Gateway \in Seq(Texts) /\ Len(Gateway) = 3 /\ Gateway[1] = "cmd" /\ Gateway[2] = "gateway"
  BY DEF Gateway, Texts
<1> QED
  BY <1>1, FirstToken, SecondToken

LEMMA NoneOfGateway ==
    ASSUME NEW m \in Candidates, AuthorityValid(m), NEW s \in BusSubjects,
           m.id[1] \notin {"gateway", "*", ">"},
           NEW p \in Range(m.publish) \cup Range(m.subscribe) \cup OwnNamespacePatterns(m.id),
           Matches(p, s)
    PROVE  ~ Matches(Gateway, s)
<1> SUFFICES ASSUME Matches(Gateway, s) PROVE FALSE
  OBVIOUS
<1>1. s \in Seq(Texts) /\ s[1] = "cmd" /\ s[2] = "gateway"
  BY SubjectsAreTexts, GatewayTokens
<1>2. CASE p \in OwnNamespacePatterns(m.id)
  <2>1. p \in Seq(Texts) /\ Len(p) > 1 /\ p[1] # ">" /\ p[2] = m.id[1]
    BY <1>2, DeclaredAreTexts, OwnTrees
  <2>2. s[2] = p[2]
    BY <1>1, <2>1, SecondToken
  <2> QED
    BY <1>1, <2>1, <2>2
<1>3. CASE p \in Range(m.publish) \cup Range(m.subscribe)
  <2>1. p \in Seq(Texts) /\ Gateway \in Seq(Texts)
    BY <1>3, DeclaredAreTexts DEF Declared, Gateway, Texts
  <2>2. PatternsOverlap(Gateway, p)
    BY <1>1, <2>1, CommonSubjectOverlaps
  <2>3. PICK verb \in {"publish", "subscribe"} : p \in Range(m[verb])
    BY <1>3
  <2>4. PatternAllowed(m, verb, p)
    BY <2>3 DEF AuthorityValid, SubjectPatternsValid
  <2> QED
    BY <2>2, <2>3, <2>4 DEF PatternAllowed
<1> QED
  BY <1>2, <1>3

(* A wildcard first token overlaps a family of one name and a tail.        *)
LEMMA WildOverlapsFamily ==
    ASSUME NEW d \in Seq(Texts), Len(d) = 2, d[1] \notin {"*", ">"}, d[2] = ">",
           NEW p \in Seq(Texts), Len(p) > 0, p[1] = ">" \/ (p[1] = "*" /\ Len(p) > 1)
    PROVE  PatternsOverlap(d, p)
<1> DEFINE i == StopAt(d, p)
           lp == Len(p)
<1>1. DOMAIN d = {1, 2} /\ lp \in Nat /\ DOMAIN p = 1 .. lp
  OBVIOUS
<1>2. i \in 1 .. (Len(d) + 1) /\ Stops(d, p, i) /\ \A j \in 1 .. (i - 1) : ~ Stops(d, p, j)
  BY FirstStop
<1>3. i \in {1, 2, 3}
  BY <1>2
<1> HIDE DEF i, lp
<1>4. CASE p[1] = ">"
  <2>1. Stops(d, p, 1)
    BY <1>4 DEF Stops
  <2>2. i = 1
    BY <1>2, <1>3, <2>1
  <2> QED
    BY <1>1, <1>4, <2>2 DEF PatternsOverlap, i, lp
<1>5. CASE p[1] # ">"
  <2>1. ~ Stops(d, p, 1) /\ Stops(d, p, 2) /\ 2 \in DOMAIN p
    BY <1>1, <1>5 DEF Stops, lp
  <2>2. i = 2
    BY <1>2, <1>3, <2>1
  <2> QED
    BY <1>1, <2>1, <2>2 DEF PatternsOverlap, i
<1> QED
  BY <1>4, <1>5

LEMMA NoneOfSubstrate ==
    ASSUME NEW m \in Candidates, AuthorityValid(m), NEW s \in BusSubjects,
           NEW p \in Declared(m), Matches(p, s), Len(s) # 1
    PROVE  s[1] \notin Reserved
<1>1. PICK verb \in {"publish", "subscribe", "request"} : p \in Range(m[verb])
  BY DEF Declared
<1>2. PatternAllowed(m, verb, p)
  BY <1>1 DEF AuthorityValid, SubjectPatternsValid
<1>3. p \in Seq(Texts) /\ s \in Seq(Texts)
  BY DeclaredAreTexts, SubjectsAreTexts
<1>4. Len(p) > 0 /\ 1 \in DOMAIN p
  BY <1>2, <1>3 DEF PatternAllowed, ParsePattern, Parse
<1>5. CASE p[1] \notin {"*", ">"}
  <2>1. s[1] = p[1]
    BY <1>3, <1>4, <1>5, FirstToken
  <2> QED
    BY <1>2, <1>4, <2>1 DEF PatternAllowed, RefusesReserved
<1>6. CASE p[1] \in {"*", ">"}
  <2>1. PICK d \in Ineligible : Len(d) = 2 /\ d[1] \notin {"*", ">"} /\ d[2] = ">"
    BY SubstrateAssumption
  <2>2. d \in Seq(Texts)
    BY SubjectsAreTexts
  <2>3. ~ PatternsOverlap(d, p)
    BY <1>2 DEF PatternAllowed
  <2> DEFINE n == Len(p)
  <2>4. ~ (p[1] = ">" \/ (p[1] = "*" /\ n > 1))
    BY <1>3, <1>4, <2>1, <2>2, <2>3, WildOverlapsFamily
  <2>5. n \in Nat /\ n > 0
    BY <1>3, <1>4
  <2> HIDE DEF n
  <2>6. p[1] = "*" /\ ~ (n > 1)
    BY <1>6, <2>4
  <2>7. n = 1
    BY <2>5, <2>6
  <2>8. p[1] = "*" /\ Len(p) = 1
    BY <2>6, <2>7 DEF n
  <2>9. \A j \in 1 .. 1 : j \in DOMAIN p => p[j] # ">"
    BY <2>8
  <2>10. Len(s) = Len(p)
    BY <1>3, <2>8, <2>9, MatchedTokens
  <2> QED
    BY <2>8, <2>10
<1> QED
  BY <1>5, <1>6

LEMMA EligibleByValidity == AuthorityInv => NothingIneligible
<1> SUFFICES ASSUME AuthorityInv, NEW m \in admitted, NEW s \in BusSubjects
             PROVE  /\ MayPublish(m, s) \/ MaySubscribe(m, s) \/ MayRequest(m, s) \/ MayServe(m, s)
                          => ~MatchedByAny(Ineligible, s)
                    /\ m.id[1] \notin {"gateway", "*", ">"}
                          => (MayPublish(m, s) \/ MaySubscribe(m, s) \/ MayServe(m, s) => ~Matches(Gateway, s))
                    /\ MatchedByAny(Range(m.publish) \cup Range(m.subscribe) \cup Range(m.request), s)
                          => Len(s) = 1 \/ s[1] \notin Reserved
  BY DEF NothingIneligible
<1>1. m \in Candidates /\ AuthorityValid(m)
  BY DEF AuthorityInv
<1>2. /\ OwnNamespace(m.id).publish \subseteq OwnNamespacePatterns(m.id)
      /\ OwnNamespace(m.id).subscribe \subseteq OwnNamespacePatterns(m.id)
      /\ OwnNamespace(m.id).serves \subseteq OwnNamespacePatterns(m.id)
  BY DEF OwnNamespacePatterns
<1>3. ASSUME MayPublish(m, s) \/ MaySubscribe(m, s) \/ MayRequest(m, s) \/ MayServe(m, s)
      PROVE  ~ MatchedByAny(Ineligible, s)
  <2>1. PICK p \in Declared(m) \cup OwnNamespacePatterns(m.id) : Matches(p, s)
    BY <1>2, <1>3 DEF MayPublish, MaySubscribe, MayRequest, MayServe, MatchedByAny, Declared
  <2> QED
    BY <1>1, <2>1, NoneIneligible
<1>4. ASSUME m.id[1] \notin {"gateway", "*", ">"},
             MayPublish(m, s) \/ MaySubscribe(m, s) \/ MayServe(m, s)
      PROVE  ~ Matches(Gateway, s)
  <2>1. PICK p \in Range(m.publish) \cup Range(m.subscribe) \cup OwnNamespacePatterns(m.id) : Matches(p, s)
    BY <1>2, <1>4 DEF MayPublish, MaySubscribe, MayServe, MatchedByAny
  <2> QED
    BY <1>1, <1>4, <2>1, NoneOfGateway
<1>5. ASSUME MatchedByAny(Range(m.publish) \cup Range(m.subscribe) \cup Range(m.request), s), Len(s) # 1
      PROVE  s[1] \notin Reserved
  <2>1. PICK p \in Declared(m) : Matches(p, s)
    BY <1>5 DEF MatchedByAny, Declared
  <2> QED
    BY <1>1, <1>5, <2>1, NoneOfSubstrate
<1> QED
  BY <1>3, <1>4, <1>5

(* A provider's calls reach no subscription or request of a plugin.        *)
LEMMA ProviderTokens ==
    ASSUME NEW t \in Seq(Texts)
    PROVE  Provider(t) \in Seq(Texts) /\ Len(Provider(t)) > 0 /\ Provider(t)[1] = "svc"
<1> DEFINE head == <<"svc", "*">>
<1>1. head \in Seq(Texts) /\ <<">">> \in Seq(Texts) /\ Len(head) = 2 /\ head[1] = "svc"
  BY DEF Texts
<1> HIDE DEF head
<1>2. head \o t \in Seq(Texts) /\ Len(head \o t) > 0 /\ (head \o t)[1] = "svc"
  BY <1>1
<1>3. /\ (head \o t) \o <<">">> \in Seq(Texts)
      /\ Len((head \o t) \o <<">">>) > 0
      /\ ((head \o t) \o <<">">>)[1] = "svc"
  BY <1>1, <1>2
<1> QED
  BY <1>3 DEF Provider, head

LEMMA PrivateByValidity == AuthorityInv => ProviderCallsPrivate
<1> SUFFICES ASSUME AuthorityInv, NEW m \in admitted, NEW s \in BusSubjects,
                    NEW t \in Providers, Matches(Provider(t), s),
                    MaySubscribe(m, s) \/ MayRequest(m, s)
             PROVE  FALSE
  BY DEF ProviderCallsPrivate
<1>1. m \in Candidates /\ AuthorityValid(m)
  BY DEF AuthorityInv
<1>2. s \in Seq(Texts) /\ t \in Seq(Texts)
  BY SubjectsAreTexts
<1>3. Provider(t) \in Seq(Texts) /\ Len(Provider(t)) > 0 /\ Provider(t)[1] = "svc"
  BY <1>2, ProviderTokens
<1>4. s[1] = "svc"
  BY <1>2, <1>3, FirstToken
<1>5. ASSUME NEW verb \in {"subscribe", "request"}, NEW p \in Range(m[verb]), Matches(p, s)
      PROVE  FALSE
  <2>1. p \in Seq(Texts)
    BY <1>1, DeclaredAreTexts DEF Declared
  <2>2. PatternsOverlap(Provider(t), p)
    BY <1>2, <1>3, <1>5, <2>1, CommonSubjectOverlaps
  <2>3. PatternAllowed(m, verb, p)
    BY <1>1 DEF AuthorityValid, SubjectPatternsValid
  <2>4. Covers(Tree("svc", m.id), p)
    BY <2>2, <2>3 DEF PatternAllowed
  <2>5. Tree("svc", m.id) \in OwnNamespacePatterns(m.id)
    BY DEF OwnNamespacePatterns, OwnNamespace
  <2> QED
    BY <2>3, <2>4, <2>5 DEF PatternAllowed
<1>6. ASSUME NEW r \in {"tick", "_INBOX"}, Matches(Tree(r, m.id), s)
      PROVE  FALSE
  <2>1. m.id \in Seq(Texts) /\ r \in Texts
    BY <1>1, DeclaredAreTexts DEF Texts
  <2>2. Tree(r, m.id) \in Seq(Texts) /\ Len(Tree(r, m.id)) = Len(m.id) + 2 /\ Tree(r, m.id)[1] = r
    BY <2>1, TreeTokens
  <2>3. Len(Tree(r, m.id)) > 0
    BY <2>1, <2>2
  <2>4. s[1] = r
    BY <1>2, <1>6, <2>2, <2>3, FirstToken
  <2> QED
    BY <1>4, <2>4
<1>7. \/ \E p \in Range(m["subscribe"]) : Matches(p, s)
      \/ \E p \in Range(m["request"]) : Matches(p, s)
      \/ \E r \in {"tick", "_INBOX"} : Matches(Tree(r, m.id), s)
  BY DEF MaySubscribe, MayRequest, MatchedByAny, OwnNamespace
<1> QED
  BY <1>5, <1>6, <1>7

(* Overlap is a common subject of the bus.                                 *)
LEMMA OverlapByValidity == AuthorityInv => OverlapIsCommonSubject
<1> SUFFICES ASSUME AuthorityInv, NEW m \in admitted,
                    NEW p \in Range(m.publish), NEW q \in Range(m.subscribe)
             PROVE  PatternsOverlap(p, q) <=> \E s \in BusSubjects : Matches(p, s) /\ Matches(q, s)
  BY DEF OverlapIsCommonSubject
<1>1. m \in Candidates /\ AuthorityValid(m)
  BY DEF AuthorityInv
<1>2. p \in Seq(Texts) /\ q \in Seq(Texts)
  BY <1>1, DeclaredAreTexts DEF Declared
<1>3. ASSUME NEW s \in BusSubjects, Matches(p, s), Matches(q, s)
      PROVE  PatternsOverlap(p, q)
  <2>1. s \in Seq(Texts)
    BY SubjectsAreTexts
  <2> QED
    BY <1>2, <1>3, <2>1, CommonSubjectOverlaps
<1>4. ASSUME PatternsOverlap(p, q)
      PROVE  \E s \in BusSubjects : Matches(p, s) /\ Matches(q, s)
  <2>1. PICK x \in Tokens : \A c \in {c \in Candidates : AuthorityValid(c)} :
           \A i \in DOMAIN c.publish, j \in DOMAIN c.subscribe :
             Common(c.publish[i], c.subscribe[j], x) \in BusSubjects
    BY BusSubjectsAssumption
  <2>2. PICK i \in DOMAIN m.publish, j \in DOMAIN m.subscribe :
           p = m.publish[i] /\ q = m.subscribe[j]
    BY DEF Range
  <2>3. Common(p, q, x) \in BusSubjects
    BY <1>1, <2>1, <2>2
  <2>4. ParsePattern(p)
    <3>1. PatternAllowed(m, "publish", p)
      BY <1>1 DEF AuthorityValid, SubjectPatternsValid
    <3> QED
      BY <3>1 DEF PatternAllowed
  <2>5. ParsePattern(q)
    <3>1. PatternAllowed(m, "subscribe", q)
      BY <1>1 DEF AuthorityValid, SubjectPatternsValid
    <3> QED
      BY <3>1 DEF PatternAllowed
  <2>6. Matches(p, Common(p, q, x)) /\ Matches(q, Common(p, q, x))
    BY <1>2, <1>4, <2>4, <2>5, OverlapHasCommon
  <2> QED
    BY <2>3, <2>6
<1> QED
  BY <1>3, <1>4

(* Two trees with a common subject have ids of which one starts the other. *)
LEMMA PrefixTokens ==
    ASSUME NEW id \in Seq(Texts), NEW s \in Seq(Texts), InOwn(id, s)
    PROVE  Len(id) < Len(s) /\ \A j \in 1 .. Len(id) : s[j + 1] = id[j]
<1>1. PICK r \in {"svc", "cmd"} : IsStrictPrefix(<<r>> \o id, s)
  BY DEF InOwn
<1> DEFINE h == <<r>> \o id
<1>2. <<r>> \in Seq(Texts)
  BY DEF Texts
<1>3. h \in Seq(Texts) /\ Len(h) = Len(id) + 1 /\ \A j \in 1 .. Len(id) : h[j + 1] = id[j]
  BY <1>2
<1>4. Len(h) <= Len(s) /\ SubSeq(h, 1, Len(h)) = SubSeq(s, 1, Len(h))
  BY <1>1 DEF IsStrictPrefix, IsPrefix
<1> HIDE DEF h
<1>5. \A j \in 1 .. Len(h) : SubSeq(h, 1, Len(h))[j] = h[j] /\ SubSeq(s, 1, Len(h))[j] = s[j]
  BY <1>3, <1>4
<1>6. \A j \in 1 .. Len(h) : h[j] = s[j]
  BY <1>4, <1>5
<1>7. \A j \in 1 .. Len(id) : j + 1 \in 1 .. Len(h)
  BY <1>3
<1>8. Len(id) \in Nat /\ Len(s) \in Nat
  OBVIOUS
<1> QED
  BY <1>3, <1>4, <1>6, <1>7, <1>8

LEMMA StartsOther ==
    ASSUME NEW a \in Seq(Texts), NEW b \in Seq(Texts), Len(a) <= Len(b),
           \A j \in 1 .. Len(a) : a[j] = b[j]
    PROVE  IsPrefix(a, b)
<1>1. /\ SubSeq(a, 1, Len(a)) = [j \in 1 .. Len(a) |-> a[j]]
      /\ SubSeq(b, 1, Len(a)) = [j \in 1 .. Len(a) |-> b[j]]
  OBVIOUS
<1>2. [j \in 1 .. Len(a) |-> a[j]] = [j \in 1 .. Len(a) |-> b[j]]
  OBVIOUS
<1> QED
  BY <1>1, <1>2 DEF IsPrefix

LEMMA DisjointByTrees == AuthorityInv => EndpointsDisjoint
<1> SUFFICES ASSUME AuthorityInv, NEW x \in mounted, NEW y \in mounted, x.subject = y.subject
             PROVE  IsPrefix(x.id, y.id) \/ IsPrefix(y.id, x.id)
  BY DEF EndpointsDisjoint
<1> DEFINE a == x.id
           b == y.id
           s == x.subject
<1>1. a \in Seq(Texts) /\ b \in Seq(Texts) /\ s \in Seq(Texts) /\ InOwn(a, s) /\ InOwn(b, s)
  BY DEF AuthorityInv
<1> HIDE DEF a, b, s
<1>2. \A j \in 1 .. Len(a) : s[j + 1] = a[j]
  BY <1>1, PrefixTokens
<1>3. \A j \in 1 .. Len(b) : s[j + 1] = b[j]
  BY <1>1, PrefixTokens
<1>4. CASE Len(a) <= Len(b)
  <2>1. \A j \in 1 .. Len(a) : a[j] = b[j]
    BY <1>1, <1>2, <1>3, <1>4
  <2> QED
    BY <1>1, <1>4, <2>1, StartsOther DEF a, b
<1>5. CASE Len(b) <= Len(a)
  <2>1. \A j \in 1 .. Len(b) : b[j] = a[j]
    BY <1>1, <1>2, <1>3, <1>5
  <2> QED
    BY <1>1, <1>5, <2>1, StartsOther DEF a, b
<1> QED
  BY <1>1, <1>4, <1>5

----------------------------------------------------------------------------
LEMMA AuthorityInvInit == AuthorityInit => AuthorityInv
  BY DEF AuthorityInit, AuthorityInv

(* An endpoint is a name without wildcards: it covers itself alone.        *)
LEMMA MountedIsServed ==
    ASSUME NEW m \in Candidates, AuthorityValid(m), NEW s \in BusSubjects, Mount(m, s)
    PROVE  InOwn(m.id, s)
<1>1. PICK e \in Endpoints(m) : Covers(e.subject, s)
  BY DEF Mount, CoveredByAny
<1>2. ParseSubject(e.subject) /\ InOwn(m.id, e.subject)
  BY <1>1 DEF AuthorityValid, ServesValid
<1>3. e.subject \in Seq(STRING)
  <2>1. PICK i \in DOMAIN m.serves : e \in Range(m.serves[i].endpoints)
    BY DEF Endpoints, Range
  <2>2. PICK j \in DOMAIN m.serves[i].endpoints : e = m.serves[i].endpoints[j]
    BY <2>1 DEF Range
  <2> QED
    BY <2>2, CandidatesAssumption
<1>4. e.subject \in Seq(Texts) /\ s \in Seq(Texts)
  BY <1>3, AreTexts, SubjectsAreTexts
<1> DEFINE p == e.subject
<1>5. p \in Seq(Texts) /\ Covers(p, s) /\ ParseSubject(p)
  BY <1>1, <1>2, <1>4
<1> HIDE DEF p
<1>6. \A i \in DOMAIN p : p[i] \notin {"*", ">"}
  BY <1>5 DEF ParseSubject, Parse, TokenOK
<1>7. ~ HasTail(p)
  BY <1>6 DEF HasTail
<1>8. Len(p) = Len(s) /\ \A i \in 1 .. Len(p) : p[i] = s[i]
  BY <1>5, <1>6, <1>7 DEF Covers, Agrees
<1>9. p = s
  BY <1>4, <1>5, <1>8
<1> QED
  BY <1>2, <1>9 DEF p

LEMMA AuthorityStep == AuthorityInv /\ [AuthorityNext]_authorityVars => AuthorityInv'
<1> SUFFICES ASSUME AuthorityInv, [AuthorityNext]_authorityVars PROVE AuthorityInv'
  OBVIOUS
<1>1. CASE UNCHANGED authorityVars
  BY <1>1 DEF AuthorityInv, authorityVars
<1>2. ASSUME NEW m \in Candidates, Approve(m) PROVE AuthorityInv'
  BY <1>2 DEF Approve, AuthorityInv
<1>3. ASSUME NEW m \in Candidates, Replace(m) PROVE AuthorityInv'
  BY <1>3 DEF Replace, AuthorityInv
<1>4. ASSUME NEW m \in admitted, NEW s \in BusSubjects, MountEndpoint(m, s) PROVE AuthorityInv'
  <2>1. m \in Candidates /\ AuthorityValid(m)
    BY DEF AuthorityInv
  <2>2. m.id \in Seq(Texts) /\ s \in Seq(Texts)
    BY <2>1, DeclaredAreTexts, SubjectsAreTexts
  <2>3. InOwn(m.id, s)
    BY <1>4, <2>1, MountedIsServed DEF MountEndpoint
  <2> QED
    BY <1>4, <2>2, <2>3 DEF MountEndpoint, AuthorityInv
<1> QED
  BY <1>1, <1>2, <1>3, <1>4 DEF AuthorityNext

(* A manifest the validator admits holds nothing ineligible, sees no call  *)
(* of the host to a provider, is refused for an overlap exactly when there *)
(* is a common subject, and mounts nothing in the tree of a stranger, for  *)
(* every set of manifests, families and subjects (validateSubjectPatterns, *)
(* patternsOverlap, validateServes, Mount).                                *)
THEOREM AuthorityIsKept == AuthoritySpec => []AuthorityIsEligible
<1>1. AuthorityInv => AuthorityIsEligible
  BY EligibleByValidity, PrivateByValidity, OverlapByValidity, DisjointByTrees DEF AuthorityIsEligible
<1> QED
  BY <1>1, AuthorityInvInit, AuthorityStep, PTL DEF AuthoritySpec

----------------------------------------------------------------------------
(* The package.                                                            *)

(* A set of naturals with 0 and the successor of each is all of them.      *)
LEMMA SetInduction ==
    ASSUME NEW G \in SUBSET Nat, 0 \in G, \A n \in Nat : n \in G => n + 1 \in G
    PROVE  G = Nat
<1> SUFFICES ASSUME Nat \ G # {} PROVE FALSE
  OBVIOUS
<1> DEFINE T == Nat \ G
<1>1. T \in SUBSET Nat /\ T # {}
  OBVIOUS
<1>2. PICK x \in T : \A y \in T : ~ (<<y, x>> \in OpToRel(<, Nat))
  BY <1>1, NatLessThanWellFounded, WFMin
<1>3. \A y \in T : ~ (y < x)
  BY <1>1, <1>2 DEF OpToRel
<1>4. x \in Nat /\ x # 0
  OBVIOUS
<1>5. x - 1 \in Nat /\ x - 1 < x /\ (x - 1) + 1 = x
  BY <1>4
<1>6. x - 1 \in G
  BY <1>3, <1>5
<1> QED
  BY <1>5, <1>6

(* The places a glob's last segments match from, up to m segments.         *)
Places(f, g, s, m) ==
    f = [n \in 0 .. m |-> IF n = 0 THEN {Len(s) + 1} ELSE From(f[n - 1], g[Len(g) - n + 1], s)]

LEMMA PlacesExist ==
    ASSUME NEW g, NEW s, NEW m \in Nat
    PROVE  \E f : Places(f, g, s, m)
<1> DEFINE G == {n \in Nat : \E f : Places(f, g, s, n)}
<1>1. 0 \in G
  <2> DEFINE f == [n \in 0 .. 0 |-> {Len(s) + 1}]
  <2>1. f = [n \in 0 .. 0 |-> IF n = 0 THEN {Len(s) + 1} ELSE From(f[n - 1], g[Len(g) - n + 1], s)]
    OBVIOUS
  <2> HIDE DEF f
  <2>2. Places(f, g, s, 0)
    BY <2>1 DEF Places
  <2> QED
    BY <2>2
<1>2. ASSUME NEW n \in Nat, n \in G PROVE n + 1 \in G
  <2>1. PICK f : Places(f, g, s, n)
    BY <1>2
  <2>2. f = [q \in 0 .. n |-> IF q = 0 THEN {Len(s) + 1} ELSE From(f[q - 1], g[Len(g) - q + 1], s)]
    BY <2>1 DEF Places
  <2> DEFINE new == From(f[n], g[Len(g) - (n + 1) + 1], s)
             h == [q \in 0 .. n + 1 |-> IF q = n + 1 THEN new ELSE f[q]]
  <2>3. \A q \in 0 .. n : h[q] = f[q]
    OBVIOUS
  <2>4. h[n + 1] = From(f[n], g[Len(g) - (n + 1) + 1], s)
    OBVIOUS
  <2>5. h = [q \in 0 .. n + 1 |-> h[q]]
    OBVIOUS
  <2> HIDE DEF h, new
  <2>6. ASSUME NEW q \in 0 .. n + 1
        PROVE  h[q] = IF q = 0 THEN {Len(s) + 1} ELSE From(h[q - 1], g[Len(g) - q + 1], s)
    <3>1. CASE q = n + 1
      <4>1. q # 0 /\ q - 1 = n /\ n \in 0 .. n
        BY <3>1
      <4> QED
        BY <2>3, <2>4, <3>1, <4>1
    <3>2. CASE q \in 0 .. n
      <4>1. q = 0 \/ q - 1 \in 0 .. n
        BY <3>2
      <4>2. f[q] = IF q = 0 THEN {Len(s) + 1} ELSE From(f[q - 1], g[Len(g) - q + 1], s)
        BY <2>2, <3>2
      <4> QED
        BY <2>3, <3>2, <4>1, <4>2
    <3> QED
      BY <3>1, <3>2
  <2>7. h = [q \in 0 .. n + 1 |-> IF q = 0 THEN {Len(s) + 1} ELSE From(h[q - 1], g[Len(g) - q + 1], s)]
    BY <2>5, <2>6
  <2>8. Places(h, g, s, n + 1)
    BY <2>7 DEF Places
  <2> QED
    BY <2>8
<1>3. G \in SUBSET Nat
  OBVIOUS
<1> HIDE DEF G
<1>4. m \in G
  BY <1>1, <1>2, <1>3, SetInduction
<1> QED
  BY <1>4 DEF G

LEMMA MatchPlaces ==
    ASSUME NEW g, NEW s, Len(g) \in Nat
    PROVE  \E f : Places(f, g, s, Len(g)) /\ (MatchSegments(g, s) <=> 1 \in f[Len(g)])
<1> DEFINE h == CHOOSE h : h = [n \in 0 .. Len(g) |->
                   IF n = 0 THEN {Len(s) + 1} ELSE From(h[n - 1], g[Len(g) - n + 1], s)]
<1>1. Places(h, g, s, Len(g))
  <2>1. \E f : Places(f, g, s, Len(g))
    BY PlacesExist
  <2> QED
    BY <2>1, Zenon DEF Places
<1>2. MatchSegments(g, s) <=> 1 \in h[Len(g)]
  BY DEF MatchSegments
<1> HIDE DEF h
<1> QED
  BY <1>1, <1>2

(* A glob that can be laid out along a path matches it.                    *)
LEMMA DescribedMatches ==
    ASSUME NEW g \in Seq(STRING), NEW s \in Seq(STRING), Describes(g, s)
    PROVE  MatchSegments(g, s)
<1> DEFINE lg == Len(g)
           ls == Len(s)
<1>1. lg \in Nat /\ ls \in Nat /\ DOMAIN g = 1 .. lg
  OBVIOUS
<1>2. PICK at \in [1 .. (lg + 1) -> 1 .. (ls + 1)] :
         /\ at[1] = 1 /\ at[lg + 1] = ls + 1
         /\ \A i \in DOMAIN g :
               IF g[i] = "**" THEN at[i] <= at[i + 1]
               ELSE at[i + 1] = at[i] + 1 /\ g[i] \in {"*", s[at[i]]}
  BY DEF Describes
<1>3. PICK f : Places(f, g, s, lg) /\ (MatchSegments(g, s) <=> 1 \in f[lg])
  BY <1>1, MatchPlaces
<1>4. f = [n \in 0 .. lg |-> IF n = 0 THEN {ls + 1} ELSE From(f[n - 1], g[lg - n + 1], s)]
  BY <1>3 DEF Places
<1>5. \A b, x : From(b, x, s) = IF x = "**" THEN {i \in 1 .. (ls + 1) : \E j \in b : i <= j}
                                ELSE {i \in 1 .. ls : x \in {"*", s[i]} /\ i + 1 \in b}
  BY DEF From
<1> HIDE DEF lg, ls
<1> DEFINE G == {n \in Nat : n <= lg => at[lg - n + 1] \in f[n]}
<1>6. 0 \in G
  <2>1. f[0] = {ls + 1} /\ lg - 0 + 1 = lg + 1
    BY <1>1, <1>4
  <2> QED
    BY <1>2, <2>1
<1>7. ASSUME NEW n \in Nat, n \in G PROVE n + 1 \in G
  <2> SUFFICES ASSUME n + 1 <= lg PROVE at[lg - (n + 1) + 1] \in f[n + 1]
    OBVIOUS
  <2> DEFINE i == lg - n
  <2>1. /\ n <= lg /\ n + 1 \in 0 .. lg /\ n + 1 # 0 /\ (n + 1) - 1 = n
        /\ i \in 1 .. lg /\ lg - (n + 1) + 1 = i /\ lg - n + 1 = i + 1 /\ i + 1 \in 1 .. (lg + 1)
        /\ i \in 1 .. (lg + 1)
    BY <1>1
  <2>2. f[n + 1] = From(f[n], g[lg - (n + 1) + 1], s)
    BY <1>4, <2>1
  <2>3. at[lg - n + 1] \in f[n]
    BY <1>7, <2>1
  <2> HIDE DEF i
  <2>4. at[i + 1] \in f[n] /\ f[n + 1] = From(f[n], g[i], s)
    BY <2>1, <2>2, <2>3
  <2>5. at[i] \in 1 .. (ls + 1) /\ at[i + 1] \in 1 .. (ls + 1) /\ i \in DOMAIN g
    BY <1>1, <1>2, <2>1
  <2>6. CASE g[i] = "**"
    <3>1. at[i] <= at[i + 1]
      BY <1>2, <2>5, <2>6
    <3>2. f[n + 1] = {k \in 1 .. (ls + 1) : \E j \in f[n] : k <= j}
      BY <1>5, <2>4, <2>6
    <3>3. at[i] \in f[n + 1]
      BY <2>4, <2>5, <3>1, <3>2
    <3> QED
      BY <2>1, <3>3
  <2>7. CASE g[i] # "**"
    <3>1. at[i + 1] = at[i] + 1 /\ g[i] \in {"*", s[at[i]]}
      BY <1>2, <2>5, <2>7
    <3>2. f[n + 1] = {k \in 1 .. ls : g[i] \in {"*", s[k]} /\ k + 1 \in f[n]}
      BY <1>5, <2>4, <2>7
    <3>3. at[i] \in 1 .. ls
      BY <1>1, <2>5, <3>1
    <3>4. at[i] + 1 \in f[n]
      BY <2>4, <3>1
    <3>5. at[i] \in f[n + 1]
      BY <3>1, <3>2, <3>3, <3>4
    <3> QED
      BY <2>1, <3>5
  <2> QED
    BY <2>6, <2>7
<1>8. G \in SUBSET Nat
  OBVIOUS
<1> HIDE DEF G
<1>9. lg \in G
  BY <1>1, <1>6, <1>7, <1>8, SetInduction
<1>10. at[lg - lg + 1] \in f[lg]
  BY <1>1, <1>9 DEF G
<1>11. lg - lg + 1 = 1
  BY <1>1
<1> QED
  BY <1>2, <1>3, <1>10, <1>11

----------------------------------------------------------------------------
Stat == [link : BOOLEAN, inside : BOOLEAN, exec : BOOLEAN, size : Nat, time : Nat]
TreeTyped(t) ==
    /\ IsFiniteSet(DOMAIN t)
    /\ t \in [DOMAIN t -> Stat]
    /\ \A p \in DOMAIN t : p \in Seq(STRING) \ {<<>>}

LEMMA PlainPaths ==
    /\ ~Skipped(PluginJSON) /\ ~Skipped(<<"ui", "index.html">>)
    /\ PluginJSON \notin Added /\ <<"ui", "index.html">> \notin Added
    /\ \A p \in Added : Skipped(p)
<1>1. /\ DOMAIN <<"plugin.json">> = {1} /\ DOMAIN <<"ui", "index.html">> = {1, 2}
      /\ <<"plugin.json">>[1] = "plugin.json" /\ <<"ui", "index.html">>[1] = "ui"
      /\ <<"ui", "index.html">>[2] = "index.html"
      /\ DOMAIN <<"SHA256SUMS">> = {1} /\ DOMAIN <<".unsigned">> = {1}
      /\ <<"SHA256SUMS">>[1] = "SHA256SUMS" /\ <<".unsigned">>[1] = ".unsigned"
  OBVIOUS
<1>2. ~Skipped(PluginJSON) /\ ~Skipped(<<"ui", "index.html">>)
  BY <1>1 DEF Skipped, PluginJSON
<1>3. \A p \in Added : Skipped(p)
  BY <1>1 DEF Skipped, Added
<1> QED
  BY <1>2, <1>3

(* The bytes of a directory are finitely many.                             *)
LEMMA BytesFinite ==
    ASSUME NEW t, TreeTyped(t)
    PROVE  IsFiniteSet(UNION {{p} \X (1 .. t[p].size) : p \in Regular(t)})
<1> DEFINE R == Regular(t)
           B == {{p} \X (1 .. t[p].size) : p \in R}
           f == [p \in R |-> {p} \X (1 .. t[p].size)]
<1>1. IsFiniteSet(R)
  BY FS_Subset DEF TreeTyped, Regular
<1>2. f \in Surjection(R, B)
  BY DEF Surjection
<1>3. IsFiniteSet(B)
  BY <1>1, <1>2, FS_Surjection
<1>4. ASSUME NEW b \in B PROVE IsFiniteSet(b)
  <2>1. PICK p \in R : b = {p} \X (1 .. t[p].size)
    OBVIOUS
  <2>2. t[p].size \in Nat
    BY DEF TreeTyped, Stat, Regular
  <2>3. IsFiniteSet({p})
    BY FS_Singleton
  <2>4. 1 \in Int /\ t[p].size \in Int
    BY <2>2
  <2>5. IsFiniteSet(1 .. t[p].size)
    BY <2>4, FS_Interval
  <2> QED
    BY <2>1, <2>3, <2>5, FS_Product
<1> HIDE DEF B
<1>5. IsFiniteSet(UNION B)
  BY <1>3, <1>4, FS_UNION
<1> QED
  BY <1>5 DEF B

(* What a directory may become on its way and still pass the gate: links   *)
(* may go, files the packer leaves out may go, and what it adds is empty.  *)
Carries(x, t, u) ==
    /\ \A p \in DOMAIN u : u[p].link => p \in DOMAIN t /\ t[p].link /\ (t[p].inside => u[p].inside)
    /\ \A p \in Regular(u) :
          \/ p \in Added /\ u[p].size = 0
          \/ p \in Regular(t) /\ u[p].size = t[p].size
    /\ \A p \in Regular(t) : ~Skipped(p) => p \in Regular(u)
    /\ Cardinality(Regular(u)) <= MaxFiles
    /\ InferKind(x, t) = "process" /\ x.binary # "" => PathExists(u, <<x.binary>>)
    /\ <<x.binary>> \in DOMAIN u => u[<<x.binary>>].exec \/
                                    (<<x.binary>> \in DOMAIN t /\ (t[<<x.binary>>].exec => u[<<x.binary>>].exec))

LEMMA CarriesKind ==
    ASSUME NEW x, NEW t, NEW u, Carries(x, t, u)
    PROVE  InferKind(x, u) = InferKind(x, t)
<1>1. HasFile(u, <<"ui", "index.html">>) <=> HasFile(t, <<"ui", "index.html">>)
  BY PlainPaths DEF Carries, HasFile, Regular
<1> QED
  BY <1>1 DEF InferKind

LEMMA CarriesBytes ==
    ASSUME NEW x, NEW t, NEW u, TreeTyped(t), Carries(x, t, u), Bytes(t) <= MaxBytes
    PROVE  Bytes(u) <= MaxBytes
<1> DEFINE A == UNION {{p} \X (1 .. t[p].size) : p \in Regular(t)}
           B == UNION {{p} \X (1 .. u[p].size) : p \in Regular(u)}
<1>1. IsFiniteSet(A)
  BY BytesFinite
<1>2. ASSUME NEW b \in B PROVE b \in A
  <2>1. PICK p \in Regular(u) : b \in {p} \X (1 .. u[p].size)
    OBVIOUS
  <2>2. u[p].size # 0
    BY <2>1
  <2>3. p \in Regular(t) /\ u[p].size = t[p].size
    BY <2>2 DEF Carries
  <2> QED
    BY <2>1, <2>3
<1>3. B \in SUBSET A
  BY <1>2
<1> HIDE DEF A, B
<1>4. Cardinality(B) <= Cardinality(A) /\ IsFiniteSet(B)
  BY <1>1, <1>3, FS_Subset
<1>5. Cardinality(A) \in Nat /\ Cardinality(B) \in Nat
  BY <1>1, <1>4, FS_CardinalityType
<1>6. Cardinality(A) <= MaxBytes
  BY DEF Bytes, A
<1>7. Cardinality(B) <= MaxBytes
  BY <1>4, <1>5, <1>6, LayoutAssumption
<1> QED
  BY <1>7 DEF Bytes, B

LEMMA KindsKnown ==
    ASSUME NEW x, NEW t, KindValid(x)
    PROVE  InferKind(x, t) \in Kinds
BY DEF KindValid, InferKind, KindOrInferred, Kinds

LEMMA VerdictCarries ==
    ASSUME NEW x, NEW t, NEW u, NEW o, TreeTyped(t), Carries(x, t, u), VerifyDir(x, t, o)
    PROVE  VerifyDir(x, u, o)
<1> DEFINE kind == InferKind(x, t)
<1>1. HasFile(t, PluginJSON) /\ KindValid(x) /\ HostGate(x, o) /\ TreeValid(x, t)
  BY DEF VerifyDir
<1>2. InferKind(x, u) = kind /\ kind \in Kinds
  BY <1>1, CarriesKind, KindsKnown
<1>3. /\ \A p \in DOMAIN t : t[p].link => t[p].inside
      /\ \A p \in Regular(t) : FileAllowed(kind, x, t, p)
      /\ \A p \in Required[kind] : HasFile(t, p)
      /\ Bytes(t) <= MaxBytes
      /\ BinaryPresent(kind, x, t)
  BY <1>1 DEF TreeValid
<1> HIDE DEF kind
<1>4. HasFile(u, PluginJSON)
  BY <1>1, PlainPaths DEF Carries, HasFile, Regular
<1>5. \A p \in DOMAIN u : u[p].link => u[p].inside
  BY <1>3 DEF Carries
<1>6. ASSUME NEW p \in Regular(u) PROVE FileAllowed(kind, x, u, p)
  <2>1. CASE p \in Added
    BY <2>1, LayoutAssumption DEF FileAllowed
  <2>2. CASE p \in Regular(t) /\ u[p].size = t[p].size
    BY <1>3, <2>2 DEF FileAllowed
  <2> QED
    BY <2>1, <2>2 DEF Carries
<1>7. \A p \in Required[kind] : HasFile(u, p)
  BY <1>2, <1>3, LayoutAssumption DEF Carries, HasFile, Regular
<1>8. Cardinality(Regular(u)) <= MaxFiles
  BY DEF Carries
<1>9. Bytes(u) <= MaxBytes
  BY <1>3, CarriesBytes
<1>10. BinaryPresent(kind, x, u)
  BY <1>3 DEF BinaryPresent, Carries, Executable, kind
<1>11. TreeValid(x, u)
  BY <1>2, <1>5, <1>6, <1>7, <1>8, <1>9, <1>10 DEF TreeValid
<1> QED
  BY <1>1, <1>4, <1>11 DEF VerifyDir

----------------------------------------------------------------------------
(* The payload of a directory that passed, and the legacy archive of it.   *)
LEMMA AtMost ==
    \A i, j, n \in Nat : i <= n /\ j <= i => j <= n
OBVIOUS

LEMMA AtMostTwoMore ==
    \A i, j, k, l, n \in Nat : i + 2 <= n /\ j <= i /\ k <= j + 1 /\ l <= k + 1 => l <= n
OBVIOUS

LEMMA FirstSegment ==
    ASSUME NEW b, NEW q \in Seq(STRING), q # <<>>, IsPrefix(<<b>>, q)
    PROVE  1 \in DOMAIN q /\ q[1] = b
<1>1. Len(<<b>>) = 1 /\ <<b>> \in Seq({b}) /\ SubSeq(<<b>>, 1, 1)[1] = b
  OBVIOUS
<1>2. Len(q) \in Nat /\ Len(q) > 0 /\ DOMAIN q = 1 .. Len(q)
  OBVIOUS
<1>3. 1 \in DOMAIN q
  BY <1>2
<1>4. SubSeq(q, 1, 1)[1] = q[1]
  BY <1>2
<1>5. SubSeq(<<b>>, 1, 1) = SubSeq(q, 1, 1)
  BY <1>1 DEF IsPrefix
<1> QED
  BY <1>1, <1>3, <1>4, <1>5

LEMMA ArchivedFile ==
    ASSUME NEW t, NEW p \in DOMAIN LegacyArchive(t)
    PROVE  /\ ~LegacyArchive(t)[p].link
           /\ p \in Added => LegacyArchive(t)[p].size = 0
           /\ p \notin Added => LegacyArchive(t)[p].size = t[p].size /\ LegacyArchive(t)[p].exec
<1> DEFINE f == LegacyArchive(t)[p]
<1>1. p \in {q \in DOMAIN t : ~Skipped(q)} \cup Added
  BY DEF LegacyArchive
<1>2. f = [link |-> FALSE, inside |-> TRUE, exec |-> p \notin Added,
           size |-> IF p \in Added THEN 0 ELSE t[p].size, time |-> 0]
  BY <1>1 DEF LegacyArchive
<1> HIDE DEF f
<1>3. CASE p \in Added
  <2>1. f = [link |-> FALSE, inside |-> TRUE, exec |-> FALSE, size |-> 0, time |-> 0]
    BY <1>2, <1>3
  <2>2. f.link = FALSE /\ f.size = 0
    BY <2>1
  <2> QED
    BY <1>3, <2>2 DEF f
<1>4. CASE p \notin Added
  <2>1. f = [link |-> FALSE, inside |-> TRUE, exec |-> TRUE, size |-> t[p].size, time |-> 0]
    BY <1>2, <1>4
  <2>2. f.link = FALSE /\ f.exec = TRUE /\ f.size = t[p].size
    BY <2>1
  <2> QED
    BY <1>4, <2>2 DEF f
<1> QED
  BY <1>3, <1>4

LEMMA PayloadCarries ==
    ASSUME NEW x, NEW t, TreeTyped(t), Cardinality(Regular(t)) <= MaxFiles,
           x.binary = "" \/ PathExists(Payload(t), <<x.binary>>)
    PROVE  Carries(x, t, Payload(t))
<1> DEFINE u == Payload(t)
<1>1. DOMAIN u = {q \in Regular(t) : ~Skipped(q)}
  BY DEF Payload
<1>2. ASSUME NEW p \in DOMAIN u
      PROVE  /\ p \in Regular(t) /\ ~u[p].link /\ u[p].size = t[p].size
             /\ u[p].exec = t[p].exec /\ p \in DOMAIN t
  <2>1. p \in Regular(t) /\ u[p] = TarHeader(t[p]) /\ p \in DOMAIN t /\ ~t[p].link
    BY <1>1 DEF Payload, Regular
  <2>2. t[p] \in Stat
    BY <2>1 DEF TreeTyped
  <2>3. u[p].link = t[p].link /\ u[p].size = t[p].size /\ u[p].exec = t[p].exec
    BY <2>1, <2>2 DEF TarHeader, Stat
  <2> QED
    BY <2>1, <2>3
<1> HIDE DEF u
<1>3. Regular(u) = {q \in Regular(t) : ~Skipped(q)}
  BY <1>1, <1>2 DEF Regular
<1>4. Cardinality(Regular(u)) <= MaxFiles
  <2>1. IsFiniteSet(Regular(t))
    BY FS_Subset DEF TreeTyped, Regular
  <2>2. Regular(u) \in SUBSET Regular(t)
    BY <1>3
  <2>3. Cardinality(Regular(u)) <= Cardinality(Regular(t)) /\ IsFiniteSet(Regular(u))
    BY <2>1, <2>2, FS_Subset
  <2>4. Cardinality(Regular(t)) \in Nat /\ Cardinality(Regular(u)) \in Nat
    BY <2>1, <2>3, FS_CardinalityType
  <2> DEFINE c1 == Cardinality(Regular(t))
             c2 == Cardinality(Regular(u))
  <2>5. MaxFiles \in Nat /\ c1 \in Nat /\ c2 \in Nat /\ c1 <= MaxFiles /\ c2 <= c1
    BY <2>3, <2>4, LayoutAssumption
  <2> HIDE DEF c1, c2
  <2>6. c2 <= MaxFiles
    BY <2>5, AtMost
  <2> QED
    BY <2>6 DEF c2
<1>5. x.binary = "" \/ PathExists(u, <<x.binary>>)
  BY DEF u
<1>6. Carries(x, t, u)
  BY <1>1, <1>2, <1>3, <1>4, <1>5 DEF Carries
<1> QED
  BY <1>6 DEF u

LEMMA AddedElement ==
    ASSUME NEW S, NEW e, IsFiniteSet(S)
    PROVE  IsFiniteSet(S \cup {e}) /\ Cardinality(S \cup {e}) <= Cardinality(S) + 1
<1>1. IsFiniteSet(S \cup {e}) /\ Cardinality(S \cup {e}) = IF e \in S THEN Cardinality(S) ELSE Cardinality(S) + 1
  BY FS_AddElement
<1>2. Cardinality(S) \in Nat
  BY FS_CardinalityType
<1> QED
  BY <1>1, <1>2

LEMMA LegacyCarries ==
    ASSUME NEW x, NEW t, TreeTyped(t), \A p \in DOMAIN t : ~t[p].link,
           Cardinality(DOMAIN t) + 2 <= MaxFiles,
           x.binary = "" \/ PathExists(Payload(t), <<x.binary>>)
    PROVE  Carries(x, t, LegacyArchive(t))
<1> DEFINE u == LegacyArchive(t)
           K == {q \in DOMAIN t : ~Skipped(q)}
<1>1. DOMAIN u = K \cup Added
  BY DEF LegacyArchive
<1>2. ASSUME NEW p \in DOMAIN u
      PROVE  /\ ~u[p].link
             /\ p \in Added => u[p].size = 0
             /\ p \notin Added => u[p].size = t[p].size /\ u[p].exec
  BY ArchivedFile
<1>3. Regular(t) = DOMAIN t
  BY DEF Regular
<1> HIDE DEF u
<1>4. Regular(u) = K \cup Added
  BY <1>1, <1>2 DEF Regular
<1>5. Cardinality(Regular(u)) <= MaxFiles
  <2>1. IsFiniteSet(DOMAIN t) /\ Cardinality(DOMAIN t) \in Nat
    BY FS_CardinalityType DEF TreeTyped
  <2>2. K \in SUBSET DOMAIN t
    OBVIOUS
  <2> HIDE DEF K
  <2>3. IsFiniteSet(K) /\ Cardinality(K) <= Cardinality(DOMAIN t) /\ Cardinality(K) \in Nat
    BY <2>1, <2>2, FS_Subset, FS_CardinalityType
  <2> DEFINE a == <<"SHA256SUMS">>
             b == <<".unsigned">>
  <2> HIDE DEF a, b
  <2>4. IsFiniteSet(K \cup {a}) /\ Cardinality(K \cup {a}) <= Cardinality(K) + 1
    BY <2>3, AddedElement
  <2>5. IsFiniteSet((K \cup {a}) \cup {b}) /\ Cardinality((K \cup {a}) \cup {b}) <= Cardinality(K \cup {a}) + 1
    BY <2>4, AddedElement
  <2>6. (K \cup {a}) \cup {b} = Regular(u)
    BY <1>4 DEF Added, a, b
  <2>7. Cardinality(K \cup {a}) \in Nat /\ Cardinality(Regular(u)) \in Nat /\ MaxFiles \in Nat
    BY <2>4, <2>5, <2>6, FS_CardinalityType, LayoutAssumption
  <2> DEFINE c1 == Cardinality(DOMAIN t)
             c2 == Cardinality(K)
             c3 == Cardinality(K \cup {a})
             c4 == Cardinality(Regular(u))
  <2>8. c1 + 2 <= MaxFiles /\ c2 <= c1 /\ c3 <= c2 + 1 /\ c4 <= c3 + 1
    BY <2>3, <2>4, <2>5, <2>6
  <2>9. c1 \in Nat /\ c2 \in Nat /\ c3 \in Nat /\ c4 \in Nat /\ MaxFiles \in Nat
    BY <2>1, <2>3, <2>7
  <2> HIDE DEF c1, c2, c3, c4
  <2>11. c4 <= MaxFiles
    BY <2>8, <2>9, AtMostTwoMore
  <2> QED
    BY <2>11 DEF c4
<1>6. x.binary # "" => PathExists(u, <<x.binary>>)
  <2> SUFFICES ASSUME x.binary # "" PROVE PathExists(u, <<x.binary>>)
    OBVIOUS
  <2>1. PICK q \in DOMAIN Payload(t) : IsPrefix(<<x.binary>>, q)
    BY DEF PathExists
  <2>2. q \in K
    BY <1>3 DEF Payload
  <2> QED
    BY <1>1, <2>1, <2>2 DEF PathExists
<1>7. \A p \in Regular(u) :
         \/ p \in Added /\ u[p].size = 0
         \/ p \in Regular(t) /\ u[p].size = t[p].size
  BY <1>1, <1>2, <1>3, <1>4
<1>8. \A p \in Regular(t) : ~Skipped(p) => p \in Regular(u)
  BY <1>3, <1>4
<1>9. <<x.binary>> \in DOMAIN u => u[<<x.binary>>].exec \/
         (<<x.binary>> \in DOMAIN t /\ (t[<<x.binary>>].exec => u[<<x.binary>>].exec))
  <2>1. <<x.binary>> \notin Added
    <3> SUFFICES ASSUME <<x.binary>> \in Added PROVE FALSE
      OBVIOUS
    <3>1. x.binary \in {"SHA256SUMS", ".unsigned"}
      BY DEF Added
    <3>2. PICK q \in DOMAIN Payload(t) : IsPrefix(<<x.binary>>, q)
      BY <3>1 DEF PathExists
    <3>3. q \in DOMAIN t /\ ~Skipped(q)
      BY <1>3, <3>2 DEF Payload
    <3>4. q \in Seq(STRING) /\ q # <<>>
      BY <3>3 DEF TreeTyped
    <3>5. 1 \in DOMAIN q /\ q[1] = x.binary
      BY <3>2, <3>4, FirstSegment
    <3> QED
      BY <3>1, <3>3, <3>5 DEF Skipped
  <2> QED
    BY <1>2, <2>1
<1>10. Carries(x, t, u)
  BY <1>2, <1>5, <1>6, <1>7, <1>8, <1>9 DEF Carries
<1> QED
  BY <1>10 DEF u

----------------------------------------------------------------------------
(* Whatever time a file was touched at, the directory is the same.         *)
Touched(t, p) == [t EXCEPT ![p].time = 2]
SameFiles(u, t) ==
    /\ DOMAIN u = DOMAIN t /\ Regular(u) = Regular(t)
    /\ \A q \in DOMAIN t : /\ u[q].link = t[q].link /\ u[q].inside = t[q].inside
                           /\ u[q].exec = t[q].exec /\ u[q].size = t[q].size
LEMMA TouchedTree ==
    ASSUME NEW t, TreeTyped(t), NEW p \in DOMAIN t
    PROVE  /\ TreeTyped(Touched(t, p)) /\ SameFiles(Touched(t, p), t)
           /\ Payload(Touched(t, p)) = Payload(t)
<1> DEFINE u == Touched(t, p)
<1>0. u = [t EXCEPT ![p].time = 2]
  BY DEF Touched
<1> HIDE DEF u
<1>1. DOMAIN u = DOMAIN t
  BY <1>0
<1>2. ASSUME NEW q \in DOMAIN t
      PROVE  /\ u[q] \in Stat /\ TarHeader(u[q]) = TarHeader(t[q])
             /\ u[q].link = t[q].link /\ u[q].inside = t[q].inside
             /\ u[q].exec = t[q].exec /\ u[q].size = t[q].size
  <2>1. t[q] \in Stat
    BY DEF TreeTyped
  <2>2. CASE q = p
    <3>1. u[q] = [t[q] EXCEPT !.time = 2]
      BY <1>0, <2>2
    <3>2. /\ u[q].link = t[q].link /\ u[q].inside = t[q].inside
          /\ u[q].exec = t[q].exec /\ u[q].size = t[q].size
      BY <2>1, <3>1 DEF Stat
    <3>3. u[q] \in Stat
      BY <2>1, <3>1 DEF Stat
    <3>4. TarHeader(u[q]) = TarHeader(t[q])
      BY <2>1, <3>1 DEF Stat, TarHeader
    <3> QED
      BY <3>2, <3>3, <3>4
  <2>3. CASE q # p
    <3>1. u[q] = t[q]
      BY <1>0, <2>3
    <3> QED
      BY <2>1, <3>1
  <2> QED
    BY <2>2, <2>3
<1>3. u = [q \in DOMAIN t |-> u[q]]
  BY <1>0
<1>4. TreeTyped(u)
  <2>1. u \in [DOMAIN t -> Stat]
    BY <1>2, <1>3
  <2> QED
    BY <1>1, <2>1 DEF TreeTyped
<1>5. Regular(u) = Regular(t)
  BY <1>1, <1>2 DEF Regular
<1>6. Payload(u) = Payload(t)
  <2>1. \A q \in Regular(t) : TarHeader(u[q]) = TarHeader(t[q])
    BY <1>2 DEF Regular
  <2> QED
    BY <1>5, <2>1 DEF Payload
<1>7. SameFiles(u, t)
  BY <1>1, <1>2, <1>5 DEF SameFiles
<1> QED
  BY <1>4, <1>6, <1>7 DEF u

LEMMA TouchedVerdict ==
    ASSUME NEW t, TreeTyped(t), NEW u, SameFiles(u, t),
           NEW x, NEW o, VerifyDir(x, t, o)
    PROVE  VerifyDir(x, u, o)
<1>1. /\ DOMAIN u = DOMAIN t /\ Regular(u) = Regular(t)
      /\ \A q \in DOMAIN t : /\ u[q].link = t[q].link /\ u[q].inside = t[q].inside
                             /\ u[q].exec = t[q].exec /\ u[q].size = t[q].size
  BY DEF SameFiles
<1>2. Cardinality(Regular(t)) <= MaxFiles /\ BinaryPresent(InferKind(x, t), x, t)
  BY DEF VerifyDir, TreeValid
<1>3. InferKind(x, t) = "process" /\ x.binary # "" => PathExists(u, <<x.binary>>)
  BY <1>1, <1>2 DEF BinaryPresent, PathExists
<1>4. \A q \in Regular(u) : q \in Regular(t) /\ u[q].size = t[q].size
  BY <1>1 DEF Regular
<1>5. Carries(x, t, u)
  BY <1>1, <1>2, <1>3, <1>4 DEF Carries
<1> QED
  BY <1>5, VerdictCarries

----------------------------------------------------------------------------
(* The packer works on a directory that passed, writes the members of its  *)
(* container in order, and only a whole container ever gets the final      *)
(* name; every one of them is the payload of this directory.               *)
Passed == \E o \in Options : VerifyDir(pkg, tree, o)
Whole == [missing |-> {}, tree |-> Payload(tree)]
PackInv ==
    /\ TreeTyped(tree)
    /\ phase \in {"verified", "staged"} => Passed
    /\ phase = "staged" =>
          /\ payload = Payload(tree)
          /\ partial \in Seq(Range(Members)) /\ \A i \in DOMAIN partial : partial[i] = Members[i]
    /\ final.members # <<>> =>
          Passed /\ final.payload = Payload(tree) /\ MissingMembers = {}
    /\ shipped \subseteq {Whole} /\ (shipped # {} => Passed)

LEMMA PackInvInit == PackInit => PackInv
<1> SUFFICES ASSUME PackInit PROVE PackInv
  OBVIOUS
<1>1. TreeTyped(tree)
  BY TreesAssumption DEF PackInit, TreeTyped, Stat
<1> QED
  BY <1>1 DEF PackInit, PackInv

LEMMA PackStep == PackInv /\ [PackNext]_packageVars => PackInv'
<1> SUFFICES ASSUME PackInv, [PackNext]_packageVars PROVE PackInv'
  OBVIOUS
<1> USE DEF PackInv
<1>1. CASE UNCHANGED packageVars
  BY <1>1 DEF packageVars, Passed, Whole, MissingMembers
<1>2. CASE VerifyPackage
  BY <1>2 DEF VerifyPackage, Passed, Whole, MissingMembers
<1>3. CASE Stage
  BY <1>3 DEF Stage, Passed, Whole, MissingMembers
<1>4. CASE WriteContainer
  <2>1. /\ phase = "staged" /\ phase' = phase /\ Len(partial) < Len(Members)
        /\ partial' = Append(partial, Members[Len(partial) + 1])
        /\ UNCHANGED <<pkg, tree, payload, final, shipped>>
    BY <1>4 DEF WriteContainer
  <2>2. Members \in Seq(Range(Members)) /\ Len(Members) = 3
    BY DEF Members, Range
  <2>3. partial \in Seq(Range(Members)) /\ \A i \in DOMAIN partial : partial[i] = Members[i]
    BY <2>1
  <2>4. Members[Len(partial) + 1] \in Range(Members)
    BY <2>1, <2>2, <2>3
  <2>5. /\ partial' \in Seq(Range(Members)) /\ Len(partial') = Len(partial) + 1
        /\ \A i \in 1 .. Len(partial) : partial'[i] = partial[i]
        /\ partial'[Len(partial) + 1] = Members[Len(partial) + 1]
    BY <2>1, <2>3, <2>4
  <2>6. \A i \in DOMAIN partial' : partial'[i] = Members[i]
    BY <2>3, <2>5
  <2> QED
    BY <2>1, <2>5, <2>6 DEF Passed, Whole, MissingMembers
<1>5. CASE Rename
  <2>1. /\ phase = "staged" /\ Len(partial) = Len(Members) /\ phase' = "idle"
        /\ final' = [members |-> partial, payload |-> payload]
        /\ UNCHANGED <<pkg, tree, payload, partial, shipped>>
    BY <1>5 DEF Rename
  <2>2. partial \in Seq(Range(Members)) /\ \A i \in DOMAIN partial : partial[i] = Members[i]
    BY <2>1
  <2>3. DOMAIN Members = 1 .. Len(Members)
    BY DEF Members
  <2>4. \A i \in DOMAIN Members : i \in DOMAIN partial /\ partial[i] = Members[i]
    BY <2>1, <2>2, <2>3
  <2>5. Range(Members) \subseteq Range(partial)
    BY <2>4 DEF Range
  <2>6. final'.members = partial /\ final'.payload = payload
    BY <2>1
  <2>7. MissingMembers' = {}
    BY <2>5, <2>6 DEF MissingMembers
  <2> QED
    BY <2>1, <2>6, <2>7 DEF Passed, Whole
<1>6. CASE Fail
  BY <1>6 DEF Fail, Passed, Whole, MissingMembers
<1>7. CASE Inspect
  BY <1>7 DEF Inspect, Passed, Whole, MissingMembers
<1>8. ASSUME NEW p \in DOMAIN tree, Touch(p) PROVE PackInv'
  <2>1. tree' = [tree EXCEPT ![p].time = 2] /\ UNCHANGED <<pkg, phase, payload, partial, final, shipped>>
    BY <1>8 DEF Touch
  <2> DEFINE u == Touched(tree, p)
  <2>2. tree' = u
    BY <2>1 DEF Touched
  <2>3. TreeTyped(u) /\ SameFiles(u, tree) /\ Payload(u) = Payload(tree)
    BY TouchedTree
  <2> HIDE DEF u
  <2>4. ASSUME Passed PROVE Passed'
    <3>1. PICK o \in Options : VerifyDir(pkg, tree, o)
      BY <2>4 DEF Passed
    <3>2. VerifyDir(pkg, u, o)
      BY <2>3, <3>1, TouchedVerdict
    <3>3. \E w \in Options : VerifyDir(pkg, u, w)
      BY <3>2
    <3>4. pkg' = pkg
      BY <2>1
    <3> QED
      BY <2>2, <3>3, <3>4 DEF Passed
  <2>5. TreeTyped(tree') /\ Payload(tree') = Payload(tree)
    BY <2>2, <2>3
  <2>6. Whole' = Whole /\ MissingMembers' = MissingMembers
    BY <2>1, <2>5 DEF Whole, MissingMembers
  <2> QED
    BY <2>1, <2>4, <2>5, <2>6
<1> QED
  BY <1>1, <1>2, <1>3, <1>4, <1>5, <1>6, <1>7, <1>8 DEF PackNext

----------------------------------------------------------------------------
LEMMA WholeByInv == PackInv => ShippedIsWhole
<1> SUFFICES ASSUME PackInv PROVE ShippedIsWhole
  OBVIOUS
<1>1. shipped \subseteq {Whole}
  BY DEF PackInv
<1>2. \A s \in shipped : s.missing = {}
  BY <1>1 DEF Whole
<1>3. IsFiniteSet({Whole}) /\ Cardinality({Whole}) = 1
  BY FS_Singleton
<1>4. shipped \in SUBSET {Whole}
  BY <1>1
<1>5. IsFiniteSet(shipped) /\ Cardinality(shipped) <= Cardinality({Whole})
  BY <1>3, <1>4, FS_Subset
<1> QED
  BY <1>2, <1>3, <1>5 DEF ShippedIsWhole

LEMMA NothingForbiddenByInv == PackInv => NothingForbiddenShips
<1> SUFFICES ASSUME PackInv, NEW s \in shipped, NEW p \in DOMAIN s.tree,
                    NEW g \in Forbidden, NEW r \in Tails(p), Describes(g, r)
             PROVE  FALSE
  BY DEF NothingForbiddenShips
<1>1. s.tree = Payload(tree) /\ Passed /\ TreeTyped(tree)
  BY DEF PackInv, Whole
<1>2. p \in Regular(tree) /\ p \in DOMAIN tree
  BY <1>1 DEF Payload, Regular
<1>3. PICK o \in Options : VerifyDir(pkg, tree, o)
  BY <1>1 DEF Passed
<1>4. FileAllowed(InferKind(pkg, tree), pkg, tree, p)
  BY <1>2, <1>3 DEF VerifyDir, TreeValid
<1>5. ~MatchAny(Forbidden, p, TRUE)
  BY <1>4, LayoutAssumption DEF FileAllowed
<1>6. p \in Seq(STRING) /\ g \in Seq(STRING)
  BY <1>1, <1>2, LayoutAssumption DEF TreeTyped
<1>7. r \in Seq(STRING)
  <2>1. PICK i \in 1 .. Len(p) : r = SubSeq(p, i, Len(p))
    BY DEF Tails
  <2> QED
    BY <1>6, <2>1
<1>8. MatchSegments(g, r)
  BY <1>6, <1>7, DescribedMatches
<1> QED
  BY <1>5, <1>8 DEF MatchAny

LEMMA PackedByInv == PackInv => PackedVerifies
<1> SUFFICES ASSUME PackInv, NEW o \in Options, VerifyDir(pkg, tree, o), BinaryPacked
             PROVE  /\ \A s \in shipped : VerifyDir(pkg, s.tree, o)
                    /\ NoLinks /\ Cardinality(DOMAIN tree) + 2 <= MaxFiles
                         => /\ VerifyDir(pkg, LegacyArchive(tree), o)
                            /\ DOMAIN tree \ {p \in DOMAIN tree : Skipped(p)} = Sums(LegacyArchive(tree))
  BY DEF PackedVerifies
<1>1. TreeTyped(tree) /\ \A s \in shipped : s.tree = Payload(tree)
  BY DEF PackInv, Whole
<1>2. Cardinality(Regular(tree)) <= MaxFiles
  BY DEF VerifyDir, TreeValid
<1>3. Carries(pkg, tree, Payload(tree))
  BY <1>1, <1>2, PayloadCarries DEF BinaryPacked
<1>4. VerifyDir(pkg, Payload(tree), o)
  BY <1>1, <1>3, VerdictCarries
<1>5. ASSUME NoLinks, Cardinality(DOMAIN tree) + 2 <= MaxFiles
      PROVE  VerifyDir(pkg, LegacyArchive(tree), o)
  <2>1. Carries(pkg, tree, LegacyArchive(tree))
    BY <1>1, <1>5, LegacyCarries DEF BinaryPacked, NoLinks
  <2> QED
    BY <1>1, <2>1, VerdictCarries
<1>6. DOMAIN tree \ {p \in DOMAIN tree : Skipped(p)} = Sums(LegacyArchive(tree))
  BY PlainPaths DEF Sums, LegacyArchive
<1> QED
  BY <1>1, <1>4, <1>5, <1>6

LEMMA LoadsByGate == VerifiedLoads
<1> SUFFICES ASSUME NEW o \in Options, VerifyDir(pkg, tree, o), o.host # "", ~(pkg.spawn /\ pkg.family)
             PROVE  LoadDirForHost(pkg, tree, o.host)
  BY DEF VerifiedLoads
<1>1. HasFile(tree, PluginJSON) /\ KindValid(pkg) /\ HostGate(pkg, o) /\ TreeValid(pkg, tree)
  BY DEF VerifyDir
<1>2. pkg.spawn => PathExists(tree, <<pkg.binary>>)
  <2> SUFFICES ASSUME pkg.spawn PROVE PathExists(tree, <<pkg.binary>>)
    OBVIOUS
  <2>1. pkg.binary # "" /\ (pkg.kind # "" => pkg.kind = "process") /\ ~pkg.family
    BY <1>1 DEF KindValid
  <2>2. InferKind(pkg, tree) = "process"
    BY <2>1 DEF InferKind, KindOrInferred
  <2> QED
    BY <1>1, <2>1, <2>2 DEF TreeValid, BinaryPresent
<1> QED
  BY <1>1, <1>2 DEF LoadDirForHost, HostGate

(* A reader finds whole archives only, one and the same of a directory, of *)
(* nothing that is forbidden; what was packed verifies and what verified   *)
(* loads, wherever the packer fails, for any directories, layouts and      *)
(* gates (WriteBDX, VerifyDir, LoadDirForHost).                            *)
THEOREM OnlyWholePackagesShip == PackSpec => []OnlyWholeShips
<1>1. PackInv => OnlyWholeShips
  BY WholeByInv, NothingForbiddenByInv, PackedByInv, LoadsByGate DEF OnlyWholeShips
<1> QED
  BY <1>1, PackInvInit, PackStep, PTL DEF PackSpec
=============================================================================
