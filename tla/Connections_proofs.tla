------------------------- MODULE Connections_proofs -------------------------
(***************************************************************************)
(* Theorems about Connections, for any number of connections, principals,  *)
(* calls and endpoints.                                                    *)
(*                                                                         *)
(* The invariants rest on the order in which a call makes, registers and   *)
(* counts its tasks (Numbered, Made, Dropped): a task is made once, so a   *)
(* goroutine that drops an ended task never drops a running one, and what  *)
(* a call that fails has made is what it undoes (Undone).                  *)
(***************************************************************************)
EXTENDS Connections, TLAPS

At(m) == call[m].at
Num(m) == call[m].n

(* The number of the task that a call works on is within its size.         *)
Numbered ==
    \A m \in Calls :
        /\ At(m) = "idle" => Num(m) = 0
        /\ At(m) \in {"alive", "create", "created", "stored", "again"} => Num(m) < Size(m)

(* A call that has yet to make its next task has made those before it.     *)
Made ==
    /\ \A t \in running \cup dropStore :
         At(t[1]) \in {"idle", "alive", "create", "again"} => t[2] <= Num(t[1])
    /\ \A t \in subs :
         At(t[1]) \in {"idle", "alive", "create", "created", "again"} => t[2] <= Num(t[1])
    /\ \A t \in running \cup dropStore \cup subs :
         At(t[1]) \in {"created", "stored"} => t[2] <= Num(t[1]) + 1
    /\ \A m \in serving : Kind[m] = "service" /\ At(m) # "idle"

(* What is being dropped has ended.                                        *)
Dropped == dropStore \cap running = {}

(* A Serve that was refused has ended what it made.                        *)
Undone ==
    \A m \in Calls : At(m) = "unwound" => m \notin serving /\ TasksOf({m}) \cap running = {}

Inv == /\ TypeOK /\ Numbered /\ Made /\ Dropped /\ Undone
       /\ RestartIsClean /\ NoOrphans /\ RefusedLeavesNothing

----------------------------------------------------------------------------
LEMMA TaskFacts ==
    /\ \A t \in Tasks : /\ t[1] \in Calls /\ t[2] \in Nat /\ 1 <= t[2]
                        /\ t[2] <= Size(t[1]) /\ t = <<t[1], t[2]>>
    /\ \A m \in Calls : Size(m) \in Nat /\ 1 <= Size(m)
    /\ \A m \in Calls, t \in Tasks : t \in TasksOf({m}) <=> t[1] = m
    /\ \A M \in SUBSET Calls : TasksOf(M) \subseteq Tasks
    /\ \A m \in Calls, n \in Nat : n < Size(m) => <<m, n + 1>> \in Tasks
BY BoundsAssumption, KindAssumption DEF Tasks, TasksOf, Size

LEMMA GotoFacts ==
    ASSUME TypeOK, NEW m \in Calls, NEW l \in Stages, Goto(m, l)
    PROVE  /\ call' \in [Calls -> [at : Stages, conn : Conns \cup {NoConn}, n : Nat]]
           /\ call'[m].at = l /\ call'[m].n = call[m].n
           /\ \A x \in Calls : call'[x].conn = call[x].conn /\ call'[x].n = call[x].n
           /\ \A x \in Calls : x # m => call'[x] = call[x]
BY DEF TypeOK, Goto

----------------------------------------------------------------------------
(* Steps that change no call and only end tasks, drop what has ended, or   *)
(* take things off the store.                                              *)
Shrinks ==
    /\ running' \subseteq running /\ subs' \subseteq subs /\ serving' \subseteq serving
    /\ dropStore' \subseteq dropStore \cup (running \ running')
    /\ UNCHANGED call

LEMMA ShrinkStep ==
    ASSUME Inv, Shrinks
    PROVE  Numbered' /\ Made' /\ Dropped' /\ Undone' /\ RefusedLeavesNothing'
<1>1. Numbered'
  BY DEF Inv, Numbered, Shrinks, At, Num, Size
<1>2. Made'
  BY DEF Inv, Made, Shrinks, At, Num
<1>3. Dropped'
  BY DEF Inv, Dropped, Shrinks
<1>4. Undone' /\ RefusedLeavesNothing'
  BY DEF Inv, Undone, RefusedLeavesNothing, Shrinks, At, TasksOf, Tasks, Size
<1> QED BY <1>1, <1>2, <1>3, <1>4

LEMMA CleanStep ==
    ASSUME Inv, subs' \subseteq subs, UNCHANGED <<call, connGen, gen, closed>>
    PROVE  RestartIsClean'
BY DEF Inv, RestartIsClean, Outdated, ConnOf

(* The lists that hold a task keep it, or hand it to an ender.             *)
Keeps ==
    \A t \in running' :
        /\ t \in subs => t \in subs' \/ \E e \in Enders : t \in work'[e].subs
        /\ \A e \in Enders :
             /\ t \in work[e].subs => t \in work'[e].subs
             /\ t[1] \in work[e].services => t[1] \in work'[e].services

LEMMA HeldStep ==
    ASSUME Inv, Shrinks, Keeps
    PROVE  NoOrphans'
BY DEF Inv, NoOrphans, StillHeld, Shrinks, Keeps, Current

LEMMA TaskEndsStep == ASSUME Inv, NEW t \in Tasks, TaskEnds(t) PROVE Inv'
<1>1. Shrinks /\ TypeOK'
  BY DEF Inv, TypeOK, TaskEnds, Shrinks, store, conn
<1>2. NoOrphans'
  BY <1>1, HeldStep DEF Keeps, TaskEnds, store
<1>3. RestartIsClean'
  BY CleanStep DEF TaskEnds, store, conn
<1> QED BY <1>1, <1>2, <1>3, ShrinkStep DEF Inv

LEMMA DropFromStoreStep == ASSUME Inv, NEW t \in Tasks, DropFromStore(t) PROVE Inv'
<1>1. Shrinks /\ TypeOK'
  BY DEF Inv, TypeOK, DropFromStore, Shrinks, conn
<1>2. NoOrphans'
  BY <1>1, HeldStep DEF Keeps, DropFromStore, Inv, Dropped
<1>3. RestartIsClean'
  BY CleanStep DEF DropFromStore, conn
<1> QED BY <1>1, <1>2, <1>3, ShrinkStep DEF Inv

LEMMA DropFromOwnStep == ASSUME Inv, NEW t \in Tasks, DropFromOwn(t) PROVE Inv'
<1>1. Shrinks /\ TypeOK'
  BY DEF Inv, TypeOK, DropFromOwn, Shrinks, store
<1>2. NoOrphans'
  BY <1>1, HeldStep DEF Keeps, DropFromOwn, store
<1>3. RestartIsClean'
  BY CleanStep DEF DropFromOwn, store
<1> QED BY <1>1, <1>2, <1>3, ShrinkStep DEF Inv

LEMMA MatchDropsStep == ASSUME Inv, MatchDrops PROVE Inv'
<1>1. Shrinks /\ TypeOK'
  BY DEF Inv, TypeOK, MatchDrops, Shrinks, conn
<1>2. NoOrphans'
  BY <1>1, HeldStep DEF Keeps, MatchDrops
<1>3. RestartIsClean'
  BY CleanStep DEF MatchDrops, conn
<1> QED BY <1>1, <1>2, <1>3, ShrinkStep DEF Inv

LEMMA FinishSubStep == ASSUME Inv, NEW e \in Enders, NEW t \in Tasks, FinishSub(e, t) PROVE Inv'
<1>0. Shrinks
  BY DEF FinishSub, Shrinks, store, conn, Ended
<1>1. Shrinks /\ TypeOK'
  <2>1. work' \in [Enders -> [subs : SUBSET Tasks, services : SUBSET Calls,
                               conns : SUBSET Conns, consumers : SUBSET Tasks]]
    BY DEF Inv, TypeOK, FinishSub
  <2> QED
    BY <1>0, <2>1 DEF Inv, TypeOK, FinishSub, store, conn, Ended
<1>2. NoOrphans'
  BY <1>1, HeldStep DEF Keeps, FinishSub, store, Inv, TypeOK
<1>3. RestartIsClean'
  BY CleanStep DEF FinishSub, store, conn
<1> QED BY <1>1, <1>2, <1>3, ShrinkStep DEF Inv

LEMMA FinishServiceStep ==
    ASSUME Inv, NEW e \in Enders, NEW m \in Calls, FinishService(e, m) PROVE Inv'
<1>1. TasksOf({m}) \subseteq Tasks /\ \A t \in Tasks : t \in TasksOf({m}) <=> t[1] = m
  BY TaskFacts
<1> HIDE DEF TasksOf
<1>2. Shrinks
  BY <1>1 DEF FinishService, Shrinks, Ended, store
<1>3. work' \in [Enders -> [subs : SUBSET Tasks, services : SUBSET Calls,
                             conns : SUBSET Conns, consumers : SUBSET Tasks]]
      /\ \A x \in Enders : /\ work'[x].subs = work[x].subs
                            /\ \A y \in work[x].services : y = m \/ y \in work'[x].services
  BY DEF Inv, TypeOK, FinishService
<1>4. TypeOK'
  BY <1>1, <1>3 DEF Inv, TypeOK, FinishService, store, conn, Ended
<1>5. Keeps
  BY <1>1, <1>3 DEF Keeps, FinishService, store, Inv, TypeOK
<1>6. RestartIsClean'
  BY CleanStep DEF FinishService, store, conn
<1> QED BY <1>2, <1>4, <1>5, <1>6, HeldStep, ShrinkStep DEF Inv

LEMMA MarkDeadStep ==
    ASSUME Inv, NEW e \in Enders, NEW c \in Conns, MarkDead(e, c) PROVE Inv'
<1>1. work' \in [Enders -> [subs : SUBSET Tasks, services : SUBSET Calls,
                             conns : SUBSET Conns, consumers : SUBSET Tasks]]
      /\ \A x \in Enders : work'[x].subs = work[x].subs /\ work'[x].services = work[x].services
  <2> DEFINE W == [subs : SUBSET Tasks, services : SUBSET Calls,
                   conns : SUBSET Conns, consumers : SUBSET Tasks]
             w == [work[e] EXCEPT !.conns = @ \ {c}, !.consumers = ownConsumers[c]]
  <2>1. ownConsumers[c] \in SUBSET Tasks /\ work \in [Enders -> W]
    BY DEF Inv, TypeOK
  <2>2. w \in W /\ w.subs = work[e].subs /\ w.services = work[e].services
    BY <2>1
  <2>3. work' = [work EXCEPT ![e] = w]
    BY DEF MarkDead
  <2> HIDE DEF w, W
  <2>4. work' \in [Enders -> W] /\ \A x \in Enders : work'[x] = IF x = e THEN w ELSE work[x]
    BY <2>1, <2>2, <2>3
  <2> QED BY <2>2, <2>4 DEF W
<1>2. Shrinks
  BY DEF MarkDead, Shrinks, store
<1>3. TypeOK'
  BY <1>1 DEF Inv, TypeOK, MarkDead, store
<1>4. NoOrphans'
  BY <1>1, <1>2, HeldStep DEF Keeps, MarkDead, store
<1>5. RestartIsClean'
  BY CleanStep DEF MarkDead, store
<1> QED BY <1>2, <1>3, <1>4, <1>5, ShrinkStep DEF Inv

LEMMA FinishConsumerStep ==
    ASSUME Inv, NEW e \in Enders, NEW t \in Tasks, FinishConsumer(e, t) PROVE Inv'
<1>0. Shrinks
  BY DEF FinishConsumer, Shrinks, store, conn
<1>1. Shrinks /\ TypeOK'
  <2>1. work' \in [Enders -> [subs : SUBSET Tasks, services : SUBSET Calls,
                               conns : SUBSET Conns, consumers : SUBSET Tasks]]
    BY DEF Inv, TypeOK, FinishConsumer
  <2> QED
    BY <1>0, <2>1 DEF Inv, TypeOK, FinishConsumer, store, conn
<1>2. NoOrphans'
  BY <1>1, HeldStep DEF Keeps, FinishConsumer, store, Inv, TypeOK
<1>3. RestartIsClean'
  BY CleanStep DEF FinishConsumer, store, conn
<1> QED BY <1>1, <1>2, <1>3, ShrinkStep DEF Inv

(* What an ender takes off the store it holds until it has ended it.       *)
LEMMA TakeFacts ==
    ASSUME Inv, NEW e \in Enders, NEW C \in SUBSET Conns, NEW T \in SUBSET Tasks,
           NEW M \in SUBSET Calls, Take(e, C, T, M)
    PROVE  /\ work' \in [Enders -> [subs : SUBSET Tasks, services : SUBSET Calls,
                                    conns : SUBSET Conns, consumers : SUBSET Tasks]]
           /\ listed' \subseteq Conns /\ subs' \subseteq subs /\ services' \subseteq Calls
           /\ doomed' \subseteq Calls
           /\ Keeps
<1>1. /\ work[e] = NoWork /\ work'[e].subs = T
      /\ \A x \in Enders : x # e => work'[x] = work[x]
      /\ subs' = subs \ T
  BY DEF Take, Inv, TypeOK, Idle
<1>2. Keeps
  BY <1>1 DEF Keeps, NoWork
<1> QED BY <1>2 DEF Take, Inv, TypeOK, OfConn

LEMMA RestartStep == ASSUME Inv, NEW e \in Enders, Restart(e) PROVE Inv'
<1>1. Take(e, listed, subs, services) /\ listed \in SUBSET Conns /\ subs \in SUBSET Tasks
      /\ services \in SUBSET Calls /\ gen' \in Nat
  BY DEF Restart, Inv, TypeOK
<1>2. Shrinks
  BY <1>1, TakeFacts DEF Restart, Shrinks
<1>3. TypeOK'
  BY <1>1, TakeFacts DEF Inv, TypeOK, Restart, conn
<1>4. NoOrphans'
  BY <1>1, <1>2, TakeFacts, HeldStep
<1>5. RestartIsClean'
  BY <1>1 DEF RestartIsClean, Take
<1> QED BY <1>2, <1>3, <1>4, <1>5, ShrinkStep DEF Inv

LEMMA CloseStoreStep == ASSUME Inv, NEW e \in Enders, CloseStore(e) PROVE Inv'
<1>1. Take(e, listed, subs, services) /\ listed \in SUBSET Conns /\ subs \in SUBSET Tasks
      /\ services \in SUBSET Calls
  BY DEF CloseStore, Inv, TypeOK
<1>2. Shrinks /\ TypeOK'
  BY <1>1, TakeFacts DEF Inv, TypeOK, CloseStore, Shrinks, conn
<1>3. NoOrphans'
  BY <1>1, <1>2, TakeFacts, HeldStep
<1>4. RestartIsClean'
  BY <1>1 DEF RestartIsClean, Take
<1> QED BY <1>2, <1>3, <1>4, ShrinkStep DEF Inv

LEMMA RevokeStep == ASSUME Inv, NEW e \in Enders, NEW p \in Plugins, Revoke(e, p) PROVE Inv'
<1> DEFINE C == {c \in listed : Owner[c] = p}
           T == {t \in subs : OwnedBy(p, t[1])}
           M == {m \in services : OwnedBy(p, m)}
<1>1. Take(e, C, T, M) /\ C \in SUBSET Conns /\ T \in SUBSET Tasks /\ M \in SUBSET Calls
      /\ revoked' = revoked \cup C
  BY DEF Revoke, Inv, TypeOK
<1> HIDE DEF C, T, M
<1>2. Shrinks /\ TypeOK'
  BY <1>1, TakeFacts DEF Inv, TypeOK, Revoke, Shrinks, conn
<1>3. NoOrphans'
  BY <1>1, <1>2, TakeFacts, HeldStep
<1>4. RestartIsClean'
  BY <1>2, CleanStep DEF Revoke, conn, Shrinks
<1> QED BY <1>2, <1>3, <1>4, ShrinkStep DEF Inv

LEMMA CloseConnStep ==
    ASSUME Inv, NEW e \in Enders, NEW c \in Conns, CloseConn(e, c) PROVE Inv'
<1>1. Take(e, {c}, ownSubs[c], ownServices[c]) /\ ownSubs[c] \in SUBSET Tasks
      /\ ownServices[c] \in SUBSET Calls /\ {c} \in SUBSET Conns
  BY DEF CloseConn, Inv, TypeOK
<1>2. Shrinks /\ TypeOK'
  BY <1>1, TakeFacts DEF Inv, TypeOK, CloseConn, Shrinks
<1>3. NoOrphans'
  BY <1>1, <1>2, TakeFacts, HeldStep
<1>4. RestartIsClean'
  BY <1>2, CleanStep DEF CloseConn, Shrinks
<1> QED BY <1>2, <1>3, <1>4, ShrinkStep DEF Inv

----------------------------------------------------------------------------
(* Steps of a call.  Only that call moves: it is enough to look at its own *)
(* tasks, so the invariant is told per call and per task.                  *)
TaskInv(m, t) ==
    /\ (At(m) \in {"idle", "alive", "create", "again"}
          /\ (t \in running \/ t \in dropStore))
       => t[2] <= Num(m)
    /\ (At(m) \in {"idle", "alive", "create", "created", "again"} /\ t \in subs)
       => t[2] <= Num(m)
    /\ (At(m) \in {"created", "stored"}
          /\ (t \in running \/ t \in dropStore \/ t \in subs))
       => t[2] <= Num(m) + 1
    /\ ~(t \in dropStore /\ t \in running)
    /\ At(m) = "unwound" => t \notin running
    /\ At(m) = "refused" => t \notin running /\ t \notin subs
    /\ t \in subs => ~Outdated(ConnOf(m))
    /\ t \in running /\ Kind[m] # "consumer" => StillHeld(t)

OwnInv(m) ==
    /\ At(m) = "idle" => Num(m) = 0
    /\ At(m) \in {"alive", "create", "created", "stored", "again"} => Num(m) < Size(m)
    /\ m \in serving => Kind[m] = "service" /\ At(m) \notin {"idle", "unwound", "refused"}

LEMMA PerCall ==
    ASSUME Inv
    PROVE  \A m \in Calls : OwnInv(m) /\ \A t \in Tasks : t[1] = m => TaskInv(m, t)
<1>1. \A m \in Calls : OwnInv(m)
  BY DEF Inv, OwnInv, Numbered, Made, Undone, RefusedLeavesNothing, At
<1>2. ASSUME NEW m \in Calls, NEW t \in Tasks, t[1] = m PROVE TaskInv(m, t)
  <2>1. t \in TasksOf({m})
    BY <1>2, TaskFacts
  <2>2. At(m) = "unwound" => t \notin running
    BY <2>1 DEF Inv, Undone
  <2>3. At(m) = "refused" => t \notin running /\ t \notin subs
    BY <2>1 DEF Inv, RefusedLeavesNothing, At
  <2> QED BY <1>2, <2>2, <2>3
          DEF TaskInv, Inv, Made, Dropped, RestartIsClean, NoOrphans
<1> QED BY <1>1, <1>2

LEMMA FromCalls ==
    ASSUME TypeOK', \A m \in Calls : OwnInv(m)',
           \A m \in Calls : \A t \in Tasks : t[1] = m => TaskInv(m, t)'
    PROVE  Inv'
<1>1. \A t \in Tasks : t[1] \in Calls /\ TaskInv(t[1], t)'
  BY TaskFacts
<1>2. running' \subseteq Tasks /\ subs' \subseteq Tasks /\ dropStore' \subseteq Tasks
      /\ serving' \subseteq Calls
  BY DEF TypeOK
<1>3. Numbered'
  BY DEF OwnInv, Numbered, Size
<1>4. Made' /\ Dropped'
  BY <1>1, <1>2 DEF OwnInv, TaskInv, Made, Dropped
<1>5. Undone' /\ RefusedLeavesNothing'
  BY <1>1, <1>2, TaskFacts DEF OwnInv, TaskInv, Undone, RefusedLeavesNothing, At, TasksOf
<1>6. RestartIsClean' /\ NoOrphans'
  BY <1>1, <1>2 DEF TaskInv, RestartIsClean, NoOrphans
<1> QED BY <1>3, <1>4, <1>5, <1>6 DEF Inv

(* A step of call m, seen from the other calls.                            *)
Same(t) ==
    /\ (t \in running') = (t \in running)
    /\ (t \in dropStore') = (t \in dropStore)
    /\ (t \in subs') = (t \in subs)

Moves(m) ==
    /\ \A x \in Calls : x # m => call'[x] = call[x]
    /\ \A t \in Tasks : t[1] # m => Same(t)
    /\ \A x \in Calls : x # m => (x \in serving' <=> x \in serving)
    /\ UNCHANGED <<gen, closed, connGen, work>>

LEMMA CallStep ==
    ASSUME Inv, NEW m \in Calls, Moves(m), TypeOK', OwnInv(m)',
           \A t \in Tasks : t[1] = m => TaskInv(m, t)'
    PROVE  Inv'
<1>1. \A x \in Calls : x # m => call'[x] = call[x]
  BY DEF Moves
<1>2. ASSUME NEW x \in Calls, x # m PROVE OwnInv(x)'
  <2>1. OwnInv(x)
    BY PerCall
  <2> QED BY <1>1, <1>2, <2>1 DEF OwnInv, Moves, At, Num, Size
<1>3. ASSUME NEW x \in Calls, NEW t \in Tasks, t[1] = x, x # m PROVE TaskInv(x, t)'
  <2>1. TaskInv(x, t)
    BY <1>3, PerCall
  <2>2. Same(t)
    BY <1>3 DEF Moves
  <2>3. StillHeld(t) => StillHeld(t)'
    BY <1>1, <1>3, <2>2 DEF Same, StillHeld, Moves, Current
  <2> QED BY <1>1, <1>3, <2>1, <2>2, <2>3 DEF Same, TaskInv, Moves, At, Num, Outdated, ConnOf
<1> QED BY <1>2, <1>3, FromCalls

LEMMA AliveStoreStep == ASSUME Inv, NEW m \in Calls, AliveStore(m) PROVE Inv'
<1>1. PICK l \in {"unwind", "refused", "create"} :
      /\ Goto(m, l)
      /\ l = "refused" => Kind[m] # "service"
  BY DEF AliveStore, Refused
<1>2. /\ call' \in [Calls -> [at : Stages, conn : Conns \cup {NoConn}, n : Nat]]
      /\ At(m)' = l /\ Num(m)' = Num(m) /\ ConnOf(m)' = ConnOf(m)
      /\ \A x \in Calls : x # m => call'[x] = call[x]
  BY <1>1, GotoFacts DEF Stages, Inv, At, Num, ConnOf
<1>3. OwnInv(m) /\ \A t \in Tasks : t[1] = m => TaskInv(m, t)
  BY PerCall
<1>4. TypeOK'
  BY <1>2, <1>3, TaskFacts DEF Inv, TypeOK, AliveStore, Current, OwnInv, At, Num, store, conn, Refused
<1>5. Moves(m)
  BY <1>2, TaskFacts DEF Moves, Same, AliveStore, Current, store, conn, Refused
<1>6. OwnInv(m)'
  BY <1>1, <1>2, <1>3 DEF OwnInv, AliveStore, At, Size, store, conn, Refused
<1>7. ASSUME NEW t \in Tasks, t[1] = m PROVE TaskInv(m, t)'
  <2>1. TaskInv(m, t)
    BY <1>3, <1>7
  <2>2. t \in TasksOf({m}) /\ t = <<m, t[2]>> /\ t[2] \in Nat /\ t[2] >= 1 /\ t[2] <= Size(m)
        /\ Num(m) \in Nat
    BY <1>7, TaskFacts DEF Inv, TypeOK, Num
  <2> QED BY <1>1, <1>2, <1>3, <1>7, <2>1, <2>2
          DEF TaskInv, OwnInv, AliveStore, At, Num, Current, Outdated, StillHeld, Size, store, conn, Refused
<1> QED BY <1>4, <1>5, <1>6, <1>7, CallStep

LEMMA NewSubscriptionStep == ASSUME Inv, NEW m \in Calls, NewSubscription(m) PROVE Inv'
<1>1. Goto(m, "created")
  BY DEF NewSubscription
<1>2. /\ call' \in [Calls -> [at : Stages, conn : Conns \cup {NoConn}, n : Nat]]
      /\ At(m)' = "created" /\ Num(m)' = Num(m) /\ ConnOf(m)' = ConnOf(m)
      /\ \A x \in Calls : x # m => call'[x] = call[x]
  BY <1>1, GotoFacts DEF Stages, Inv, At, Num, ConnOf
<1>3. OwnInv(m) /\ \A t \in Tasks : t[1] = m => TaskInv(m, t)
  BY PerCall
<1>4. TypeOK'
  BY <1>2, <1>3, TaskFacts DEF Inv, TypeOK, NewSubscription, Current, OwnInv, At, Num, store, conn
<1>5. Moves(m)
  BY <1>2, TaskFacts DEF Moves, Same, NewSubscription, Current, store, conn
<1>6. OwnInv(m)'
  BY <1>1, <1>2, <1>3 DEF OwnInv, NewSubscription, At, Size, store, conn
<1>7. ASSUME NEW t \in Tasks, t[1] = m PROVE TaskInv(m, t)'
  <2>1. TaskInv(m, t)
    BY <1>3, <1>7
  <2>2. t \in TasksOf({m}) /\ t = <<m, t[2]>> /\ t[2] \in Nat /\ t[2] >= 1 /\ t[2] <= Size(m)
        /\ Num(m) \in Nat
    BY <1>7, TaskFacts DEF Inv, TypeOK, Num
  <2> QED BY <1>1, <1>2, <1>3, <1>7, <2>1, <2>2
          DEF TaskInv, OwnInv, NewSubscription, At, Num, Current, Outdated, StillHeld, Size, store, conn
<1> QED BY <1>4, <1>5, <1>6, <1>7, CallStep

LEMMA RegisterStep == ASSUME Inv, NEW m \in Calls, Register(m) PROVE Inv'
<1>1. PICK l \in {"unwind", "refused", "stored"} :
      /\ Goto(m, l)
      /\ l = "refused" => Kind[m] # "service"
      /\ l = "stored" <=> ~Outdated(ConnOf(m))
  BY DEF Register, Refused
<1>2. /\ call' \in [Calls -> [at : Stages, conn : Conns \cup {NoConn}, n : Nat]]
      /\ At(m)' = l /\ Num(m)' = Num(m) /\ ConnOf(m)' = ConnOf(m)
      /\ \A x \in Calls : x # m => call'[x] = call[x]
  BY <1>1, GotoFacts DEF Stages, Inv, At, Num, ConnOf
<1>3. OwnInv(m) /\ \A t \in Tasks : t[1] = m => TaskInv(m, t)
  BY PerCall
<1>4. TypeOK'
  BY <1>2, <1>3, TaskFacts DEF Inv, TypeOK, Register, Current, OwnInv, At, Num, conn, Refused, Ended
<1>5. Moves(m)
  BY <1>2, TaskFacts DEF Moves, Same, Register, Current, conn, Refused, Ended
<1>6. OwnInv(m)'
  BY <1>1, <1>2, <1>3 DEF OwnInv, Register, At, Size, conn, Refused, Ended
<1>7. ASSUME NEW t \in Tasks, t[1] = m PROVE TaskInv(m, t)'
  <2>1. TaskInv(m, t)
    BY <1>3, <1>7
  <2>2. t \in TasksOf({m}) /\ t = <<m, t[2]>> /\ t[2] \in Nat /\ t[2] >= 1 /\ t[2] <= Size(m)
        /\ Num(m) \in Nat
    BY <1>7, TaskFacts DEF Inv, TypeOK, Num
  <2> QED BY <1>1, <1>2, <1>3, <1>7, <2>1, <2>2
          DEF TaskInv, OwnInv, Register, At, Num, Current, Outdated, StillHeld, Size, conn, Refused, Ended
<1> QED BY <1>4, <1>5, <1>6, <1>7, CallStep

LEMMA AliveAgainStep == ASSUME Inv, NEW m \in Calls, AliveAgain(m) PROVE Inv'
<1>1. PICK l \in {"unwind", "alive"} : Goto(m, l)
  BY DEF AliveAgain, Refused
<1>2. /\ call' \in [Calls -> [at : Stages, conn : Conns \cup {NoConn}, n : Nat]]
      /\ At(m)' = l /\ Num(m)' = Num(m) /\ ConnOf(m)' = ConnOf(m)
      /\ \A x \in Calls : x # m => call'[x] = call[x]
  BY <1>1, GotoFacts DEF Stages, Inv, At, Num, ConnOf
<1>3. OwnInv(m) /\ \A t \in Tasks : t[1] = m => TaskInv(m, t)
  BY PerCall
<1>4. TypeOK'
  BY <1>2, <1>3, TaskFacts DEF Inv, TypeOK, AliveAgain, Current, OwnInv, At, Num, store, conn
<1>5. Moves(m)
  BY <1>2, TaskFacts DEF Moves, Same, AliveAgain, Current, store, conn
<1>6. OwnInv(m)'
  BY <1>1, <1>2, <1>3 DEF OwnInv, AliveAgain, At, Size, store, conn
<1>7. ASSUME NEW t \in Tasks, t[1] = m PROVE TaskInv(m, t)'
  <2>1. TaskInv(m, t)
    BY <1>3, <1>7
  <2>2. t \in TasksOf({m}) /\ t = <<m, t[2]>> /\ t[2] \in Nat /\ t[2] >= 1 /\ t[2] <= Size(m)
        /\ Num(m) \in Nat
    BY <1>7, TaskFacts DEF Inv, TypeOK, Num
  <2> QED BY <1>1, <1>2, <1>3, <1>7, <2>1, <2>2
          DEF TaskInv, OwnInv, AliveAgain, At, Num, Current, Outdated, StillHeld, Size, store, conn
<1> QED BY <1>4, <1>5, <1>6, <1>7, CallStep

LEMMA ListServiceStep == ASSUME Inv, NEW m \in Calls, ListService(m) PROVE Inv'
<1>1. Goto(m, "listed")
  BY DEF ListService
<1>2. /\ call' \in [Calls -> [at : Stages, conn : Conns \cup {NoConn}, n : Nat]]
      /\ At(m)' = "listed" /\ Num(m)' = Num(m) /\ ConnOf(m)' = ConnOf(m)
      /\ \A x \in Calls : x # m => call'[x] = call[x]
  BY <1>1, GotoFacts DEF Stages, Inv, At, Num, ConnOf
<1>3. OwnInv(m) /\ \A t \in Tasks : t[1] = m => TaskInv(m, t)
  BY PerCall
<1>4. TypeOK'
  BY <1>2, <1>3, TaskFacts DEF Inv, TypeOK, ListService, Current, OwnInv, At, Num, conn
<1>5. Moves(m)
  BY <1>2, TaskFacts DEF Moves, Same, ListService, Current, conn
<1>6. OwnInv(m)'
  BY <1>1, <1>2, <1>3 DEF OwnInv, ListService, At, Size, conn
<1>7. ASSUME NEW t \in Tasks, t[1] = m PROVE TaskInv(m, t)'
  <2>1. TaskInv(m, t)
    BY <1>3, <1>7
  <2>2. t \in TasksOf({m}) /\ t = <<m, t[2]>> /\ t[2] \in Nat /\ t[2] >= 1 /\ t[2] <= Size(m)
        /\ Num(m) \in Nat
    BY <1>7, TaskFacts DEF Inv, TypeOK, Num
  <2> QED BY <1>1, <1>2, <1>3, <1>7, <2>1, <2>2
          DEF TaskInv, OwnInv, ListService, At, Num, Current, Outdated, StillHeld, Size, conn
<1> QED BY <1>4, <1>5, <1>6, <1>7, CallStep

LEMMA AppendServiceStep == ASSUME Inv, NEW m \in Calls, AppendService(m) PROVE Inv'
<1>1. Goto(m, "mounted")
  BY DEF AppendService
<1>2. /\ call' \in [Calls -> [at : Stages, conn : Conns \cup {NoConn}, n : Nat]]
      /\ At(m)' = "mounted" /\ Num(m)' = Num(m) /\ ConnOf(m)' = ConnOf(m)
      /\ \A x \in Calls : x # m => call'[x] = call[x]
  BY <1>1, GotoFacts DEF Stages, Inv, At, Num, ConnOf
<1>3. OwnInv(m) /\ \A t \in Tasks : t[1] = m => TaskInv(m, t)
  BY PerCall
<1>0. ownServices' \in [Conns -> SUBSET Calls]
  <2>1. ownServices \in [Conns -> SUBSET Calls] /\ m \in Calls
    BY <1>3, TaskFacts DEF Inv, TypeOK, AppendService, OwnInv, At, Num, Current
  <2> QED BY <2>1 DEF AppendService
<1>4. TypeOK'
  BY <1>0, <1>2, <1>3, TaskFacts DEF Inv, TypeOK, AppendService, Current, OwnInv, At, Num, store
<1>5. Moves(m)
  BY <1>2, TaskFacts DEF Moves, Same, AppendService, Current, store
<1>6. OwnInv(m)'
  BY <1>1, <1>2, <1>3 DEF OwnInv, AppendService, At, Size, store
<1>7. ASSUME NEW t \in Tasks, t[1] = m PROVE TaskInv(m, t)'
  <2>1. TaskInv(m, t)
    BY <1>3, <1>7
  <2>2. t \in TasksOf({m}) /\ t = <<m, t[2]>> /\ t[2] \in Nat /\ t[2] >= 1 /\ t[2] <= Size(m)
        /\ Num(m) \in Nat
    BY <1>7, TaskFacts DEF Inv, TypeOK, Num
  <2> QED BY <1>1, <1>2, <1>3, <1>7, <2>1, <2>2
          DEF TaskInv, OwnInv, AppendService, At, Num, Current, Outdated, StillHeld, Size, store
<1> QED BY <1>4, <1>5, <1>6, <1>7, CallStep

LEMMA UnwindStep == ASSUME Inv, NEW m \in Calls, Unwind(m) PROVE Inv'
<1>1. Goto(m, "unwound")
  BY DEF Unwind
<1>2. /\ call' \in [Calls -> [at : Stages, conn : Conns \cup {NoConn}, n : Nat]]
      /\ At(m)' = "unwound" /\ Num(m)' = Num(m) /\ ConnOf(m)' = ConnOf(m)
      /\ \A x \in Calls : x # m => call'[x] = call[x]
  BY <1>1, GotoFacts DEF Stages, Inv, At, Num, ConnOf
<1>3. OwnInv(m) /\ \A t \in Tasks : t[1] = m => TaskInv(m, t)
  BY PerCall
<1>4. TypeOK'
  BY <1>2, <1>3, TaskFacts DEF Inv, TypeOK, Unwind, Current, OwnInv, At, Num, store, conn, Ended
<1>5. Moves(m)
  BY <1>2, TaskFacts DEF Moves, Same, Unwind, Current, store, conn, Ended
<1>6. OwnInv(m)'
  BY <1>1, <1>2, <1>3 DEF OwnInv, Unwind, At, Size, store, conn, Ended
<1>7. ASSUME NEW t \in Tasks, t[1] = m PROVE TaskInv(m, t)'
  <2>1. TaskInv(m, t)
    BY <1>3, <1>7
  <2>2. t \in TasksOf({m}) /\ t = <<m, t[2]>> /\ t[2] \in Nat /\ t[2] >= 1 /\ t[2] <= Size(m)
        /\ Num(m) \in Nat
    BY <1>7, TaskFacts DEF Inv, TypeOK, Num
  <2> QED BY <1>1, <1>2, <1>3, <1>7, <2>1, <2>2
          DEF TaskInv, OwnInv, Unwind, At, Num, Current, Outdated, StillHeld, Size, store, conn, Ended
<1> QED BY <1>4, <1>5, <1>6, <1>7, CallStep

LEMMA UnwindDropStep == ASSUME Inv, NEW m \in Calls, UnwindDrop(m) PROVE Inv'
<1>1. Goto(m, "refused")
  BY DEF UnwindDrop
<1>2. /\ call' \in [Calls -> [at : Stages, conn : Conns \cup {NoConn}, n : Nat]]
      /\ At(m)' = "refused" /\ Num(m)' = Num(m) /\ ConnOf(m)' = ConnOf(m)
      /\ \A x \in Calls : x # m => call'[x] = call[x]
  BY <1>1, GotoFacts DEF Stages, Inv, At, Num, ConnOf
<1>3. OwnInv(m) /\ \A t \in Tasks : t[1] = m => TaskInv(m, t)
  BY PerCall
<1>4. TypeOK'
  BY <1>2, <1>3, TaskFacts DEF Inv, TypeOK, UnwindDrop, Current, OwnInv, At, Num, conn
<1>5. Moves(m)
  BY <1>2, TaskFacts DEF Moves, Same, UnwindDrop, Current, conn
<1>6. OwnInv(m)'
  BY <1>1, <1>2, <1>3 DEF OwnInv, UnwindDrop, At, Size, conn
<1>7. ASSUME NEW t \in Tasks, t[1] = m PROVE TaskInv(m, t)'
  <2>1. TaskInv(m, t)
    BY <1>3, <1>7
  <2>2. t \in TasksOf({m}) /\ t = <<m, t[2]>> /\ t[2] \in Nat /\ t[2] >= 1 /\ t[2] <= Size(m)
        /\ Num(m) \in Nat
    BY <1>7, TaskFacts DEF Inv, TypeOK, Num
  <2> QED BY <1>1, <1>2, <1>3, <1>7, <2>1, <2>2
          DEF TaskInv, OwnInv, UnwindDrop, At, Num, Current, Outdated, StillHeld, Size, conn
<1> QED BY <1>4, <1>5, <1>6, <1>7, CallStep

LEMMA AppendConsumerStep == ASSUME Inv, NEW m \in Calls, AppendConsumer(m) PROVE Inv'
<1>1. Goto(m, "mounted")
  BY DEF AppendConsumer
<1>2. /\ call' \in [Calls -> [at : Stages, conn : Conns \cup {NoConn}, n : Nat]]
      /\ At(m)' = "mounted" /\ Num(m)' = Num(m) /\ ConnOf(m)' = ConnOf(m)
      /\ \A x \in Calls : x # m => call'[x] = call[x]
  BY <1>1, GotoFacts DEF Stages, Inv, At, Num, ConnOf
<1>3. OwnInv(m) /\ \A t \in Tasks : t[1] = m => TaskInv(m, t)
  BY PerCall
<1>0. ownConsumers' \in [Conns -> SUBSET Tasks]
  <2>1. ownConsumers \in [Conns -> SUBSET Tasks] /\ Current(m) \in Tasks
    BY <1>3, TaskFacts DEF Inv, TypeOK, AppendConsumer, OwnInv, At, Num, Current
  <2> QED BY <2>1 DEF AppendConsumer
<1>4. TypeOK'
  BY <1>0, <1>2, <1>3, TaskFacts DEF Inv, TypeOK, AppendConsumer, Current, OwnInv, At, Num, store
<1>5. Moves(m)
  BY <1>2, TaskFacts DEF Moves, Same, AppendConsumer, Current, store
<1>6. OwnInv(m)'
  BY <1>1, <1>2, <1>3 DEF OwnInv, AppendConsumer, At, Size, store
<1>7. ASSUME NEW t \in Tasks, t[1] = m PROVE TaskInv(m, t)'
  <2>1. TaskInv(m, t)
    BY <1>3, <1>7
  <2>2. t \in TasksOf({m}) /\ t = <<m, t[2]>> /\ t[2] \in Nat /\ t[2] >= 1 /\ t[2] <= Size(m)
        /\ Num(m) \in Nat
    BY <1>7, TaskFacts DEF Inv, TypeOK, Num
  <2> QED BY <1>1, <1>2, <1>3, <1>7, <2>1, <2>2
          DEF TaskInv, OwnInv, AppendConsumer, At, Num, Current, Outdated, StillHeld, Size, store
<1> QED BY <1>4, <1>5, <1>6, <1>7, CallStep

LEMMA StopServiceStep == ASSUME Inv, NEW m \in Calls, StopService(m) PROVE Inv'
<1>1. Goto(m, "stopOwn")
  BY DEF StopService
<1>2. /\ call' \in [Calls -> [at : Stages, conn : Conns \cup {NoConn}, n : Nat]]
      /\ At(m)' = "stopOwn" /\ Num(m)' = Num(m) /\ ConnOf(m)' = ConnOf(m)
      /\ \A x \in Calls : x # m => call'[x] = call[x]
  BY <1>1, GotoFacts DEF Stages, Inv, At, Num, ConnOf
<1>3. OwnInv(m) /\ \A t \in Tasks : t[1] = m => TaskInv(m, t)
  BY PerCall
<1>4. TypeOK'
  BY <1>2, <1>3, TaskFacts DEF Inv, TypeOK, StopService, Current, OwnInv, At, Num, conn
<1>5. Moves(m)
  BY <1>2, TaskFacts DEF Moves, Same, StopService, Current, conn
<1>6. OwnInv(m)'
  BY <1>1, <1>2, <1>3 DEF OwnInv, StopService, At, Size, conn
<1>7. ASSUME NEW t \in Tasks, t[1] = m PROVE TaskInv(m, t)'
  <2>1. TaskInv(m, t)
    BY <1>3, <1>7
  <2>2. t \in TasksOf({m}) /\ t = <<m, t[2]>> /\ t[2] \in Nat /\ t[2] >= 1 /\ t[2] <= Size(m)
        /\ Num(m) \in Nat
    BY <1>7, TaskFacts DEF Inv, TypeOK, Num
  <2> QED BY <1>1, <1>2, <1>3, <1>7, <2>1, <2>2
          DEF TaskInv, OwnInv, StopService, At, Num, Current, Outdated, StillHeld, Size, conn
<1> QED BY <1>4, <1>5, <1>6, <1>7, CallStep

LEMMA StopOwnStep == ASSUME Inv, NEW m \in Calls, StopOwn(m) PROVE Inv'
<1>1. Goto(m, "stopFinish")
  BY DEF StopOwn
<1>2. /\ call' \in [Calls -> [at : Stages, conn : Conns \cup {NoConn}, n : Nat]]
      /\ At(m)' = "stopFinish" /\ Num(m)' = Num(m) /\ ConnOf(m)' = ConnOf(m)
      /\ \A x \in Calls : x # m => call'[x] = call[x]
  BY <1>1, GotoFacts DEF Stages, Inv, At, Num, ConnOf
<1>3. OwnInv(m) /\ \A t \in Tasks : t[1] = m => TaskInv(m, t)
  BY PerCall
<1>4. TypeOK'
  BY <1>2, <1>3, TaskFacts DEF Inv, TypeOK, StopOwn, Current, OwnInv, At, Num, store
<1>5. Moves(m)
  BY <1>2, TaskFacts DEF Moves, Same, StopOwn, Current, store
<1>6. OwnInv(m)'
  BY <1>1, <1>2, <1>3 DEF OwnInv, StopOwn, At, Size, store
<1>7. ASSUME NEW t \in Tasks, t[1] = m PROVE TaskInv(m, t)'
  <2>1. TaskInv(m, t)
    BY <1>3, <1>7
  <2>2. t \in TasksOf({m}) /\ t = <<m, t[2]>> /\ t[2] \in Nat /\ t[2] >= 1 /\ t[2] <= Size(m)
        /\ Num(m) \in Nat
    BY <1>7, TaskFacts DEF Inv, TypeOK, Num
  <2> QED BY <1>1, <1>2, <1>3, <1>7, <2>1, <2>2
          DEF TaskInv, OwnInv, StopOwn, At, Num, Current, Outdated, StillHeld, Size, store
<1> QED BY <1>4, <1>5, <1>6, <1>7, CallStep

LEMMA StopFinishStep == ASSUME Inv, NEW m \in Calls, StopFinish(m) PROVE Inv'
<1>1. Goto(m, "stopped")
  BY DEF StopFinish
<1>2. /\ call' \in [Calls -> [at : Stages, conn : Conns \cup {NoConn}, n : Nat]]
      /\ At(m)' = "stopped" /\ Num(m)' = Num(m) /\ ConnOf(m)' = ConnOf(m)
      /\ \A x \in Calls : x # m => call'[x] = call[x]
  BY <1>1, GotoFacts DEF Stages, Inv, At, Num, ConnOf
<1>3. OwnInv(m) /\ \A t \in Tasks : t[1] = m => TaskInv(m, t)
  BY PerCall
<1>4. TypeOK'
  BY <1>2, <1>3, TaskFacts DEF Inv, TypeOK, StopFinish, Current, OwnInv, At, Num, store, conn, Ended
<1>5. Moves(m)
  BY <1>2, TaskFacts DEF Moves, Same, StopFinish, Current, store, conn, Ended
<1>6. OwnInv(m)'
  BY <1>1, <1>2, <1>3 DEF OwnInv, StopFinish, At, Size, store, conn, Ended
<1>7. ASSUME NEW t \in Tasks, t[1] = m PROVE TaskInv(m, t)'
  <2>1. TaskInv(m, t)
    BY <1>3, <1>7
  <2>2. t \in TasksOf({m}) /\ t = <<m, t[2]>> /\ t[2] \in Nat /\ t[2] >= 1 /\ t[2] <= Size(m)
        /\ Num(m) \in Nat
    BY <1>7, TaskFacts DEF Inv, TypeOK, Num
  <2> QED BY <1>1, <1>2, <1>3, <1>7, <2>1, <2>2
          DEF TaskInv, OwnInv, StopFinish, At, Num, Current, Outdated, StillHeld, Size, store, conn, Ended
<1> QED BY <1>4, <1>5, <1>6, <1>7, CallStep

LEMMA AppendSubStep == ASSUME Inv, NEW m \in Calls, AppendSub(m) PROVE Inv'
<1>1. OwnInv(m) /\ \A t \in Tasks : t[1] = m => TaskInv(m, t)
  BY PerCall
<1>2. PICK l \in {"again", "serve", "mounted"} :
      /\ call' = [call EXCEPT ![m] = [at |-> l, conn |-> ConnOf(m), n |-> Num(m) + 1]]
      /\ l = "again" => Num(m) + 1 < Size(m)
  BY DEF AppendSub, Num
<1>3. /\ call' \in [Calls -> [at : Stages, conn : Conns \cup {NoConn}, n : Nat]]
      /\ At(m)' = l /\ Num(m)' = Num(m) + 1 /\ ConnOf(m)' = ConnOf(m)
      /\ \A x \in Calls : x # m => call'[x] = call[x]
  BY <1>2 DEF Inv, TypeOK, At, Num, ConnOf, Stages
<1>4. TypeOK'
  <2>1. ownSubs \in [Conns -> SUBSET Tasks] /\ Current(m) \in Tasks
    BY <1>1, TaskFacts DEF Inv, TypeOK, AppendSub, OwnInv, At, Num, Current
  <2>2. ownSubs' \in [Conns -> SUBSET Tasks]
    BY <2>1 DEF AppendSub
  <2> QED BY <1>3, <2>2 DEF Inv, TypeOK, AppendSub, store
<1>5. Moves(m)
  BY <1>3 DEF Moves, Same, AppendSub, store
<1>6. OwnInv(m)'
  BY <1>1, <1>2, <1>3 DEF OwnInv, AppendSub, At, Size
<1>7. ASSUME NEW t \in Tasks, t[1] = m PROVE TaskInv(m, t)'
  <2>1. TaskInv(m, t)
    BY <1>1, <1>7
  <2>2. t[2] \in Nat /\ t[2] <= Size(m) /\ Num(m) \in Nat
    BY <1>7, TaskFacts DEF Inv, TypeOK, Num
  <2> QED BY <1>2, <1>3, <1>7, <2>1, <2>2
          DEF TaskInv, AppendSub, At, Num, Current, Outdated, StillHeld, store
<1> QED BY <1>4, <1>5, <1>6, <1>7, CallStep

LEMMA AliveConnStep ==
    ASSUME Inv, NEW m \in Calls, NEW c \in Conns, AliveConn(m, c) PROVE Inv'
<1>1. OwnInv(m) /\ \A t \in Tasks : t[1] = m => TaskInv(m, t)
  BY PerCall
<1>2. PICK l \in {"refused", "alive"} :
      call' = [call EXCEPT ![m] = [at |-> l, conn |-> c, n |-> 0]]
  BY DEF AliveConn
<1>3. /\ call' \in [Calls -> [at : Stages, conn : Conns \cup {NoConn}, n : Nat]]
      /\ At(m) = "idle" /\ Num(m) = 0 /\ At(m)' = l /\ Num(m)' = 0
      /\ \A x \in Calls : x # m => call'[x] = call[x]
  BY <1>1, <1>2 DEF Inv, TypeOK, OwnInv, AliveConn, At, Num, Stages
<1>4. TypeOK'
  BY <1>3 DEF Inv, TypeOK, AliveConn, store, conn
<1>5. Moves(m)
  BY <1>3 DEF Moves, Same, AliveConn, store, conn
<1>6. OwnInv(m)'
  BY <1>1, <1>3, TaskFacts DEF OwnInv, AliveConn, Size
<1>7. ASSUME NEW t \in Tasks, t[1] = m PROVE TaskInv(m, t)'
  <2>1. t[2] \in Nat /\ t[2] >= 1
    BY TaskFacts
  <2>2. t \notin running /\ t \notin dropStore /\ t \notin subs
    BY <1>1, <1>3, <1>7, <2>1 DEF TaskInv
  <2> QED BY <2>2 DEF TaskInv, AliveConn, store
<1> QED BY <1>4, <1>5, <1>6, <1>7, CallStep

(* A connection that is new has no task yet, so none changes generation.   *)
LEMMA ConnectStep == ASSUME Inv, NEW c \in Conns, Connect(c) PROVE Inv'
<1>1. Shrinks
  BY DEF Connect, Shrinks
<1>2. TypeOK'
  BY DEF Inv, TypeOK, Connect
<1>3. NoOrphans'
  BY <1>1, HeldStep DEF Keeps, Connect
<1>4. RestartIsClean'
  <2>1. \A m \in Calls : ConnOf(m) # c
    BY DEF Connect, Fresh, OfConn
  <2>2. \A x \in Conns \cup {NoConn} : x # c => connGen'[x] = connGen[x]
    BY DEF Connect, Inv, TypeOK
  <2>3. \A t \in subs : t[1] \in Calls /\ ConnOf(t[1]) \in Conns \cup {NoConn}
    BY TaskFacts DEF Inv, TypeOK, ConnOf
  <2> QED BY <2>1, <2>2, <2>3 DEF Inv, RestartIsClean, Outdated, ConnOf, Connect
<1> QED BY <1>1, <1>2, <1>3, <1>4, ShrinkStep DEF Inv

----------------------------------------------------------------------------
(* The end of a connection: what was mounted on it is, until it has ended, *)
(* in the hands of one of the calls that end the connection.               *)
(* What an ender still has to end, and what ends with a connection that is *)
(* to be marked dead.                                                      *)
EnderHolds(t) ==
    \E e \in Enders :
        \/ t \in work[e].subs \/ t[1] \in work[e].services \/ t \in work[e].consumers
        \/ ConnOf(t[1]) \in work[e].conns /\ t \in ownConsumers[ConnOf(t[1])]

Serviced(m) == \E e \in Enders : m \in work[e].services

(* What holds of a task: dropped tasks have ended and are not made again;  *)
(* a listed connection lists what runs on it; and an ender holds what runs *)
(* although its connection was ended.                                      *)
TaskEndInv(t) ==
    /\ t \in dropOwn => t \notin running
    /\ t \in dropOwn /\ At(t[1]) \in {"idle", "alive", "create", "again"}
       => t[2] <= Num(t[1])
    /\ t \in dropOwn /\ At(t[1]) \in {"created", "stored"} => t[2] <= Num(t[1]) + 1
    /\ (t \in running /\ ConnOf(t[1]) \in listed /\ Kind[t[1]] # "consumer")
       => \/ t \in ownSubs[ConnOf(t[1])]
          \/ At(t[1]) \in {"created", "stored"} /\ t = Current(t[1])
    /\ (t \in running /\ ConnOf(t[1]) \in listed /\ Kind[t[1]] = "consumer")
       => t \in ownConsumers[ConnOf(t[1])]
    /\ t[1] \in doomed /\ t \in running => EnderHolds(t)

(* What holds of a call: where it can be once it is doomed, and where an   *)
(* open service is listed.                                                 *)
CallEndInv(m) ==
    /\ m \in doomed => At(m) \in {"mounted", "stopOwn", "stopFinish", "stopped"}
    /\ (m \in serving /\ At(m) = "mounted" /\ ConnOf(m) \in listed)
       => m \in ownServices[ConnOf(m)]
    /\ (m \in serving /\ At(m) \in {"listed", "mounted"})
       => m \in services \/ Serviced(m)
    /\ m \in doomed /\ m \in serving => Serviced(m)

(* A connection that is to be marked dead is not listed.                   *)
Unlisted == \A e \in Enders : work[e].conns \cap listed = {}

EndInv ==
    /\ Unlisted
    /\ \A m \in Calls : CallEndInv(m)
    /\ \A t \in Tasks : TaskEndInv(t)

(* Steps that change no call: tasks end, lists shrink, and what leaves the *)
(* store is with an ender.                                                 *)
HandsOver ==
    /\ UNCHANGED call
    /\ running' \subseteq running /\ serving' \subseteq serving /\ listed' \subseteq listed
    /\ dropOwn' \subseteq dropOwn \cup dropStore
    /\ \A t \in running' : ConnOf(t[1]) \in listed' =>
         /\ t \in ownSubs[ConnOf(t[1])] => t \in ownSubs'[ConnOf(t[1])]
         /\ t \in ownConsumers[ConnOf(t[1])] => t \in ownConsumers'[ConnOf(t[1])]
    /\ \A m \in serving' :
         /\ (ConnOf(m) \in listed' /\ m \in ownServices[ConnOf(m)])
            => m \in ownServices'[ConnOf(m)]
         /\ Serviced(m) => Serviced(m)'
         /\ m \in services => m \in services' \/ Serviced(m)'
    /\ \A t \in running' : EnderHolds(t) => EnderHolds(t)'

(* The calls that a step dooms are mounted, and an ender has them.         *)
NewlyDoomed(m) ==
    /\ At(m) = "mounted"
    /\ m \in serving' => Serviced(m)'
    /\ \A t \in running' : t[1] = m => EnderHolds(t)'

LEMMA HandOverStep ==
    ASSUME Inv, EndInv, HandsOver, Unlisted',
           \A m \in doomed' : m \in doomed \/ NewlyDoomed(m)
    PROVE  EndInv'
<1>1. ASSUME NEW m \in Calls PROVE CallEndInv(m)'
  <2>1. CallEndInv(m)
    BY DEF EndInv
  <2> QED
    BY <2>1 DEF CallEndInv, HandsOver, NewlyDoomed, At, ConnOf
<1>2. ASSUME NEW t \in Tasks PROVE TaskEndInv(t)'
  <2>1. TaskEndInv(t) /\ t[1] \in Calls
    BY TaskFacts DEF EndInv
  <2>2. TaskInv(t[1], t)
    BY <2>1, PerCall
  <2>3. t \in dropOwn' => t \in dropOwn \/ t \in dropStore
    BY DEF HandsOver
  <2>4. /\ t \in dropOwn' => t \notin running'
        /\ t \in dropOwn' /\ At(t[1]) \in {"idle", "alive", "create", "again"}
           => t[2] <= Num(t[1])
        /\ t \in dropOwn' /\ At(t[1]) \in {"created", "stored"} => t[2] <= Num(t[1]) + 1
    BY <2>1, <2>2, <2>3 DEF TaskEndInv, TaskInv, HandsOver
  <2>5. t[1] \in doomed' /\ t \in running' => EnderHolds(t)'
    BY <2>1 DEF TaskEndInv, NewlyDoomed, HandsOver
  <2> QED
    BY <2>1, <2>4, <2>5 DEF TaskEndInv, HandsOver, At, Num, ConnOf, Current
<1> QED
  BY <1>1, <1>2 DEF EndInv

LEMMA EndTasksStep ==
    ASSUME Inv, EndInv, NEW t \in Tasks,
           TaskEnds(t) \/ DropFromStore(t) \/ DropFromOwn(t) \/ MatchDrops
    PROVE  EndInv'
<1>1. UNCHANGED <<call, work, listed, services, ownServices, ownConsumers, doomed>>
      /\ running' \subseteq running /\ serving' = serving
      /\ dropOwn' \subseteq dropOwn \cup dropStore
  BY DEF TaskEnds, DropFromStore, DropFromOwn, MatchDrops, store, conn
<1>2. ASSUME NEW x \in running', ConnOf(x[1]) \in listed, x \in ownSubs[ConnOf(x[1])]
      PROVE  x \in ownSubs'[ConnOf(x[1])]
  <2>1. CASE UNCHANGED ownSubs
    BY <1>2, <2>1
  <2>2. CASE DropFromOwn(t)
    <3>1. x # t /\ ownSubs \in [Conns -> SUBSET Tasks]
      BY <1>1, <1>2, <2>2 DEF DropFromOwn, EndInv, TaskEndInv, Inv, TypeOK
    <3> QED
      BY <1>2, <2>2, <3>1 DEF DropFromOwn, Inv, TypeOK
  <2> QED
    BY <2>1, <2>2 DEF TaskEnds, DropFromStore, MatchDrops, conn
<1>3. /\ \A m \in Calls : Serviced(m)' = Serviced(m)
      /\ \A x \in running' : EnderHolds(x)' = EnderHolds(x)
  BY <1>1 DEF Serviced, EnderHolds, ConnOf
<1>4. HandsOver
  BY <1>1, <1>2, <1>3 DEF HandsOver, Inv, TypeOK
<1>5. Unlisted'
  BY <1>1 DEF EndInv, Unlisted
<1> QED
  BY <1>1, <1>4, <1>5, HandOverStep

(* Whatever else an ender holds, it still holds after one of its steps.    *)
LEMMA EndWorkStep ==
    ASSUME Inv, EndInv, NEW e \in Enders, EndWork(e)
    PROVE  EndInv'
<1> DEFINE W == [subs : SUBSET Tasks, services : SUBSET Calls,
                 conns : SUBSET Conns, consumers : SUBSET Tasks]
<1>0. work \in [Enders -> W] /\ \A m \in Calls : \A t \in Tasks : t \in TasksOf({m}) <=> t[1] = m
  BY TaskFacts DEF Inv, TypeOK
<1>1. ASSUME NEW t \in Tasks, FinishSub(e, t) PROVE EndInv'
  <2>1. /\ UNCHANGED <<call, listed, services, ownSubs, ownServices, ownConsumers,
                       doomed, dropOwn, serving>>
        /\ running' = running \ {t}
        /\ \A x \in Enders :
             /\ work'[x].services = work[x].services /\ work'[x].conns = work[x].conns
             /\ work'[x].consumers = work[x].consumers
             /\ work[x].subs \subseteq work'[x].subs \cup {t}
    BY <1>0, <1>1 DEF FinishSub, store, conn
  <2>2. HandsOver
    BY <2>1 DEF HandsOver, EnderHolds, Serviced, ConnOf
  <2>3. Unlisted'
    BY <2>1 DEF EndInv, Unlisted
  <2> QED
    BY <2>1, <2>2, <2>3, HandOverStep
<1>2. ASSUME NEW t \in Tasks, FinishConsumer(e, t) PROVE EndInv'
  <2>1. /\ UNCHANGED <<call, listed, services, ownSubs, ownServices, ownConsumers,
                       doomed, dropOwn, serving>>
        /\ running' = running \ {t}
        /\ \A x \in Enders :
             /\ work'[x].services = work[x].services /\ work'[x].conns = work[x].conns
             /\ work'[x].subs = work[x].subs
             /\ work[x].consumers \subseteq work'[x].consumers \cup {t}
    BY <1>0, <1>2 DEF FinishConsumer, store, conn
  <2>2. HandsOver
    BY <2>1 DEF HandsOver, EnderHolds, Serviced, ConnOf
  <2>3. Unlisted'
    BY <2>1 DEF EndInv, Unlisted
  <2> QED
    BY <2>1, <2>2, <2>3, HandOverStep
<1>3. ASSUME NEW m \in Calls, FinishService(e, m) PROVE EndInv'
  <2>1. /\ UNCHANGED <<call, listed, services, ownSubs, ownServices, ownConsumers,
                       doomed, dropOwn>>
        /\ running' \subseteq running /\ \A t \in running' : t[1] # m
        /\ serving' = serving \ {m}
        /\ \A x \in Enders :
             /\ work'[x].consumers = work[x].consumers /\ work'[x].conns = work[x].conns
             /\ work'[x].subs = work[x].subs
             /\ work[x].services \subseteq work'[x].services \cup {m}
    BY <1>0, <1>3 DEF FinishService, store, conn, Inv, TypeOK
  <2>2. HandsOver
    BY <2>1 DEF HandsOver, EnderHolds, Serviced, ConnOf
  <2>3. Unlisted'
    BY <2>1 DEF EndInv, Unlisted
  <2> QED
    BY <2>1, <2>2, <2>3, HandOverStep
<1>4. ASSUME NEW c \in Conns, MarkDead(e, c) PROVE EndInv'
  <2>1. /\ UNCHANGED <<call, listed, services, doomed, dropOwn, running, serving>>
        /\ c \in work[e].conns /\ work[e].consumers = {} /\ c \notin listed
    BY <1>4 DEF MarkDead, store, EndInv, Unlisted
  <2>2. \A x \in Conns : x # c => /\ ownSubs'[x] = ownSubs[x]
                                  /\ ownServices'[x] = ownServices[x]
                                  /\ ownConsumers'[x] = ownConsumers[x]
    BY <1>4 DEF MarkDead, Inv, TypeOK
  <2>3. \A x \in Enders :
          /\ work'[x].services = work[x].services /\ work'[x].subs = work[x].subs
          /\ x # e => work'[x] = work[x]
          /\ work[x].conns \subseteq work'[x].conns \cup {c}
          /\ work'[x].conns \subseteq work[x].conns
          /\ work'[e].consumers = ownConsumers[c] /\ work[e].conns \subseteq work'[e].conns \cup {c}
    <3> DEFINE w == [work[e] EXCEPT !.conns = @ \ {c}, !.consumers = ownConsumers[c]]
    <3>1. work[e] \in W /\ ownConsumers[c] \in SUBSET Tasks
      BY <1>0 DEF Inv, TypeOK
    <3>2. /\ w.subs = work[e].subs /\ w.services = work[e].services
          /\ w.conns = work[e].conns \ {c} /\ w.consumers = ownConsumers[c]
      BY <3>1
    <3>3. work' = [work EXCEPT ![e] = w]
      BY <1>4 DEF MarkDead
    <3> HIDE DEF w
    <3>4. \A x \in Enders : work'[x] = IF x = e THEN w ELSE work[x]
      BY <1>0, <3>3
    <3> QED
      BY <3>2, <3>4
  <2>4. ASSUME NEW t \in running', EnderHolds(t) PROVE EnderHolds(t)'
    <3>1. PICK x \in Enders :
            \/ t \in work[x].subs \/ t[1] \in work[x].services \/ t \in work[x].consumers
            \/ ConnOf(t[1]) \in work[x].conns /\ t \in ownConsumers[ConnOf(t[1])]
      BY <2>4 DEF EnderHolds
    <3>2. CASE t \in work[x].subs \/ t[1] \in work[x].services \/ t \in work[x].consumers
      BY <2>1, <2>3, <3>2 DEF EnderHolds
    <3>3. CASE ConnOf(t[1]) \in work[x].conns /\ t \in ownConsumers[ConnOf(t[1])]
      <4>1. CASE ConnOf(t[1]) = c
        <5>1. t \in work'[e].consumers
          BY <2>3, <3>3, <4>1
        <5> QED
          BY <5>1 DEF EnderHolds
      <4>2. CASE ConnOf(t[1]) # c
        <5>1. ConnOf(t[1]) \in Conns
          BY <1>0, <3>3
        <5>2. ConnOf(t[1]) \in work'[x].conns /\ t \in ownConsumers'[ConnOf(t[1])]
          BY <2>2, <2>3, <3>3, <4>2, <5>1
        <5>3. ConnOf(t[1])' = ConnOf(t[1])
          BY <2>1 DEF ConnOf
        <5> QED
          BY <5>2, <5>3 DEF EnderHolds
      <4> QED
        BY <4>1, <4>2
    <3> QED
      BY <3>1, <3>2, <3>3
  <2>5. HandsOver
    <3>1. listed \subseteq Conns
      BY DEF Inv, TypeOK
    <3>2. \A m \in serving' : Serviced(m) => Serviced(m)'
      BY <2>3 DEF Serviced
    <3> QED
      BY <2>1, <2>2, <2>4, <3>1, <3>2 DEF HandsOver
  <2>6. Unlisted'
    BY <2>1, <2>3 DEF EndInv, Unlisted
  <2> QED
    BY <2>1, <2>5, <2>6, HandOverStep
<1> QED
  BY <1>1, <1>2, <1>3, <1>4 DEF EndWork

(* An ender takes whatever runs on the connections that it takes.          *)
TakesAll(C, T, M) ==
    /\ \A t \in running : /\ ConnOf(t[1]) \in C \cap listed
                          /\ Kind[t[1]] # "consumer" /\ At(t[1]) = "mounted"
                          /\ t \in subs \/ t \in ownSubs[ConnOf(t[1])]
                          => t \in T \/ \E x \in Enders : t \in work[x].subs \/ t[1] \in work[x].services
    /\ \A m \in serving : ConnOf(m) \in C \cap listed /\ At(m) = "mounted"
                          => m \in M \/ Serviced(m)

LEMMA TakeStep ==
    ASSUME Inv, EndInv, NEW e \in Enders, NEW C \in SUBSET Conns,
           NEW T \in SUBSET Tasks, NEW M \in SUBSET Calls,
           Take(e, C, T, M), TakesAll(C, T, M),
           UNCHANGED <<call, dropOwn, running, serving, ownConsumers>>,
           \A c \in Conns : c \in listed /\ c \notin C
                            => ownSubs'[c] = ownSubs[c] /\ ownServices'[c] = ownServices[c]
    PROVE  EndInv'
<1>1. /\ work[e] = NoWork /\ work'[e].subs = T /\ work'[e].services = M
      /\ work'[e].conns = C /\ work'[e].consumers = {}
      /\ \A x \in Enders : x # e => work'[x] = work[x]
      /\ listed' = listed \ C /\ services' = services \ M
      /\ doomed' = doomed \cup {m \in OfConn(C \cap listed) : At(m) = "mounted"}
  BY DEF Take, Inv, TypeOK, Idle, At
<1>2. /\ \A m \in Calls : Serviced(m) => Serviced(m)'
      /\ \A t : EnderHolds(t) => EnderHolds(t)'
      /\ \A m \in M : Serviced(m)'
  BY <1>1 DEF Serviced, EnderHolds, NoWork, ConnOf
<1>3. HandsOver
  <2>1. listed \subseteq Conns /\ serving \subseteq Calls
    BY DEF Inv, TypeOK
  <2> QED
    BY <1>1, <1>2, <2>1 DEF HandsOver
<1>4. Unlisted'
  BY <1>1 DEF EndInv, Unlisted
<1>5. ASSUME NEW m \in doomed', m \notin doomed PROVE NewlyDoomed(m)
  <2>1. m \in Calls /\ ConnOf(m) \in C /\ ConnOf(m) \in listed /\ At(m) = "mounted"
    BY <1>1, <1>5 DEF OfConn
  <2>2. m \in serving' => Serviced(m)'
    BY <1>2, <2>1 DEF TakesAll
  <2>3. ASSUME NEW t \in running', t[1] = m PROVE EnderHolds(t)'
    <3>1. t \in Tasks /\ t \in running
      BY DEF Inv, TypeOK
    <3>2. TaskEndInv(t)
      BY <3>1 DEF EndInv
    <3>3. CASE Kind[m] = "consumer"
      <4>1. t \in ownConsumers[ConnOf(m)]
        BY <2>1, <2>3, <3>1, <3>2, <3>3 DEF TaskEndInv
      <4> QED
        BY <1>1, <2>1, <2>3, <4>1 DEF EnderHolds, ConnOf
    <3>4. CASE Kind[m] # "consumer"
      <4>1. t \in ownSubs[ConnOf(m)]
        BY <2>1, <2>3, <3>1, <3>2, <3>4 DEF TaskEndInv
      <4>2. t \in T \/ \E x \in Enders : t \in work[x].subs \/ t[1] \in work[x].services
        BY <2>1, <2>3, <3>1, <3>4, <4>1 DEF TakesAll
      <4> QED
        BY <1>1, <1>2, <4>2 DEF EnderHolds
    <3> QED
      BY <3>3, <3>4
  <2> QED
    BY <2>1, <2>2, <2>3 DEF NewlyDoomed
<1> QED
  BY <1>3, <1>4, <1>5, HandOverStep

(* What is mounted and runs is listed by the store or held by an ender.    *)
LEMMA MountedIsListed ==
    ASSUME Inv, EndInv
    PROVE  /\ \A t \in running : Kind[t[1]] # "consumer" /\ At(t[1]) = "mounted"
                 => t \in subs \/ \E x \in Enders : t \in work[x].subs \/ t[1] \in work[x].services
           /\ \A m \in serving : At(m) = "mounted" => m \in services \/ Serviced(m)
<1>1. ASSUME NEW t \in running, Kind[t[1]] # "consumer", At(t[1]) = "mounted"
      PROVE  t \in subs \/ \E x \in Enders : t \in work[x].subs \/ t[1] \in work[x].services
  BY <1>1 DEF Inv, NoOrphans, StillHeld, At
<1>2. \A m \in serving : At(m) = "mounted" => m \in services \/ Serviced(m)
  BY DEF Inv, TypeOK, EndInv, CallEndInv
<1> QED
  BY <1>1, <1>2

LEMMA EndConnsStep ==
    ASSUME Inv, EndInv, NEW e \in Enders,
           \/ Restart(e) \/ CloseStore(e)
           \/ \E p \in Plugins : Revoke(e, p)
           \/ \E c \in Conns : CloseConn(e, c)
    PROVE  EndInv'
<1>0. /\ listed \in SUBSET Conns /\ subs \in SUBSET Tasks /\ services \in SUBSET Calls
      /\ running \subseteq Tasks /\ serving \subseteq Calls
  BY DEF Inv, TypeOK
<1>1. CASE Restart(e) \/ CloseStore(e)
  <2>1. /\ Take(e, listed, subs, services)
        /\ UNCHANGED <<call, dropOwn, running, serving, ownConsumers, ownSubs, ownServices>>
    BY <1>1 DEF Restart, CloseStore, conn
  <2>2. TakesAll(listed, subs, services)
    BY MountedIsListed DEF TakesAll
  <2> QED
    BY <1>0, <2>1, <2>2, TakeStep
<1>2. ASSUME NEW p \in Plugins, Revoke(e, p) PROVE EndInv'
  <2> DEFINE C == {c \in listed : Owner[c] = p}
             T == {t \in subs : OwnedBy(p, t[1])}
             M == {m \in services : OwnedBy(p, m)}
  <2>1. /\ Take(e, C, T, M) /\ C \in SUBSET Conns /\ T \in SUBSET Tasks /\ M \in SUBSET Calls
        /\ UNCHANGED <<call, dropOwn, running, serving, ownConsumers, ownSubs, ownServices>>
    BY <1>0, <1>2 DEF Revoke, conn
  <2>2. \A m \in Calls : ConnOf(m) \in C => OwnedBy(p, m)
    BY <1>0, ConnAssumption DEF OwnedBy
  <2>3. TakesAll(C, T, M)
    <3>1. \A t \in running : t[1] \in Calls
      BY <1>0, TaskFacts
    <3> QED
      BY <1>0, <2>2, <3>1, MountedIsListed DEF TakesAll
  <2> HIDE DEF C, T, M
  <2> QED
    BY <2>1, <2>3, TakeStep
<1>3. ASSUME NEW c \in Conns, CloseConn(e, c) PROVE EndInv'
  <2>1. /\ Take(e, {c}, ownSubs[c], ownServices[c])
        /\ ownSubs[c] \in SUBSET Tasks /\ ownServices[c] \in SUBSET Calls
        /\ UNCHANGED <<call, dropOwn, running, serving, ownConsumers>>
        /\ \A x \in Conns : x # c => ownSubs'[x] = ownSubs[x] /\ ownServices'[x] = ownServices[x]
    BY <1>3 DEF CloseConn, Inv, TypeOK
  <2>2. ASSUME NEW t \in running, ConnOf(t[1]) = c, c \in listed,
               Kind[t[1]] # "consumer", At(t[1]) = "mounted"
        PROVE  t \in ownSubs[c]
    BY <1>0, <2>2 DEF EndInv, TaskEndInv
  <2>3. ASSUME NEW m \in serving, ConnOf(m) = c, c \in listed, At(m) = "mounted"
        PROVE  m \in ownServices[c]
    BY <1>0, <2>3 DEF EndInv, CallEndInv
  <2>4. TakesAll({c}, ownSubs[c], ownServices[c])
    BY <2>2, <2>3 DEF TakesAll
  <2> QED
    BY <2>1, <2>4, TakeStep
<1> QED
  BY <1>1, <1>2, <1>3

(* A new connection has nothing mounted.                                   *)
LEMMA EndConnectStep ==
    ASSUME Inv, EndInv, NEW c \in Conns, Connect(c)
    PROVE  EndInv'
<1>1. /\ UNCHANGED <<call, work, services, ownSubs, ownServices, ownConsumers, doomed,
                     dropOwn, running, serving>>
      /\ listed' = listed \cup {c} /\ \A e \in Enders : c \notin work[e].conns
      /\ \A m \in Calls : ConnOf(m) # c
  BY DEF Connect, Fresh, OfConn
<1>2. ASSUME NEW m \in Calls PROVE CallEndInv(m)'
  BY <1>1 DEF EndInv, CallEndInv, At, ConnOf, Serviced
<1>3. ASSUME NEW t \in Tasks PROVE TaskEndInv(t)'
  <2>1. t[1] \in Calls /\ TaskEndInv(t)
    BY TaskFacts DEF EndInv
  <2>2. EnderHolds(t)' = EnderHolds(t)
    BY <1>1 DEF EnderHolds, ConnOf
  <2> QED
    BY <1>1, <2>1, <2>2 DEF TaskEndInv, At, Num, ConnOf, Current
<1>4. Unlisted'
  BY <1>1 DEF EndInv, Unlisted
<1> QED
  BY <1>2, <1>3, <1>4 DEF EndInv

(* Steps of a call: the others keep what they have, also in the lists of   *)
(* their connections.                                                      *)
OthersKept(m) ==
    /\ \A x \in Calls : x # m =>
         /\ call'[x] = call[x]
         /\ (x \in serving' <=> x \in serving) /\ (x \in services' <=> x \in services)
         /\ \A c \in Conns : x \in ownServices'[c] <=> x \in ownServices[c]
    /\ \A t \in Tasks : t[1] # m =>
         /\ t \in running' <=> t \in running
         /\ \A c \in Conns : /\ t \in ownSubs'[c] <=> t \in ownSubs[c]
                             /\ t \in ownConsumers'[c] <=> t \in ownConsumers[c]
    /\ UNCHANGED <<work, listed, doomed, dropOwn>>

LEMMA EndCallStep ==
    ASSUME Inv, EndInv, NEW m \in Calls, OthersKept(m), CallEndInv(m)',
           \A t \in Tasks : t[1] = m => TaskEndInv(t)'
    PROVE  EndInv'
<1>0. listed \subseteq Conns /\ \A e \in Enders : work[e].conns \subseteq Conns
  BY DEF Inv, TypeOK
<1>1. ASSUME NEW x \in Calls, x # m PROVE CallEndInv(x)'
  <2>1. CallEndInv(x)
    BY DEF EndInv
  <2> QED
    BY <1>0, <1>1, <2>1 DEF CallEndInv, OthersKept, At, ConnOf, Serviced
<1>2. ASSUME NEW t \in Tasks, t[1] # m PROVE TaskEndInv(t)'
  <2>1. t[1] \in Calls /\ TaskEndInv(t) /\ call'[t[1]] = call[t[1]]
    BY <1>2, TaskFacts DEF EndInv, OthersKept
  <2>2. EnderHolds(t) => EnderHolds(t)'
    BY <1>0, <1>2, <2>1 DEF EnderHolds, OthersKept, ConnOf
  <2> QED
    BY <1>0, <1>2, <2>1, <2>2 DEF TaskEndInv, OthersKept, At, Num, ConnOf, Current
<1>3. Unlisted'
  BY DEF EndInv, Unlisted, OthersKept
<1> QED
  BY <1>1, <1>2, <1>3 DEF EndInv

(* A call that goes on without mounting anything.                          *)
Ending == {"mounted", "stopOwn", "stopFinish", "stopped"}
Before == {"idle", "alive", "create", "again"}
Making == {"created", "stored"}

GoesOn(m) ==
    /\ OthersKept(m) /\ UNCHANGED <<ownSubs, ownConsumers>>
    /\ Num(m)' = Num(m) /\ ConnOf(m)' = ConnOf(m)
    /\ running' \subseteq running /\ serving' \subseteq serving
    /\ At(m)' # "mounted" /\ (At(m)' = "listed" => m \in services')
    /\ At(m) \in Ending => At(m)' \in Ending
    /\ At(m)' \in Before => At(m) \in Before
    /\ At(m)' \in Making => At(m) \in Making
    /\ At(m) \in Making => At(m)' \in Making \/ Current(m) \notin running'

LEMMA EndGoesOnStep ==
    ASSUME Inv, EndInv, NEW m \in Calls, GoesOn(m)
    PROVE  EndInv'
<1>1. CallEndInv(m)'
  <2>1. CallEndInv(m)
    BY DEF EndInv
  <2> QED
    BY <2>1 DEF CallEndInv, GoesOn, OthersKept, Serviced, Ending
<1>2. ASSUME NEW t \in Tasks, t[1] = m PROVE TaskEndInv(t)'
  <2>1. TaskEndInv(t)
    BY DEF EndInv
  <2>2. EnderHolds(t)' = EnderHolds(t) /\ Current(m)' = Current(m)
    BY <1>2 DEF EnderHolds, GoesOn, OthersKept, ConnOf, Current, Num
  <2> QED
    BY <1>2, <2>1, <2>2 DEF TaskEndInv, GoesOn, OthersKept, Before, Making
<1> QED
  BY <1>1, <1>2, EndCallStep DEF GoesOn

LEMMA GotoOf ==
    ASSUME Inv, NEW m \in Calls, NEW l \in Stages, Goto(m, l)
    PROVE  /\ At(m)' = l /\ Num(m)' = Num(m) /\ ConnOf(m)' = ConnOf(m)
           /\ \A x \in Calls : x # m => call'[x] = call[x]
  BY GotoFacts DEF Inv, At, Num, ConnOf

LEMMA EndMountStep ==
    ASSUME Inv, EndInv, NEW m \in Calls,
           \/ AliveStore(m) \/ Register(m) \/ AliveAgain(m) \/ ListService(m)
           \/ Unwind(m) \/ UnwindDrop(m)
           \/ StopService(m) \/ StopOwn(m) \/ StopFinish(m)
    PROVE  EndInv'
<1>0. /\ \A t \in Tasks : t \in TasksOf({m}) <=> t[1] = m
      /\ running \subseteq Tasks /\ subs \subseteq Tasks
      /\ Current(m)[1] = m
  BY TaskFacts DEF Inv, TypeOK, Current
<1>1. CASE AliveStore(m)
  <2>1. PICK l \in {"unwind", "refused", "create"} : Goto(m, l)
    BY <1>1 DEF AliveStore, Refused
  <2> QED
    BY <1>1, <2>1, GotoOf, EndGoesOnStep
       DEF AliveStore, GoesOn, OthersKept, store, conn, Stages, Ending, Before, Making, At
<1>2. CASE Register(m)
  <2>1. CASE Outdated(ConnOf(m))
    <3>1. PICK l \in {"unwind", "refused"} : Goto(m, l)
      BY <1>2, <2>1 DEF Register, Refused
    <3>2. /\ running' = running \ {Current(m)} /\ At(m) = "created"
          /\ UNCHANGED <<serving, services, work, listed, doomed, dropOwn, ownSubs,
                         ownServices, ownConsumers>>
      BY <1>2, <2>1 DEF Register, conn, At
    <3>3. GoesOn(m)
      BY <1>0, <3>1, <3>2, GotoOf DEF GoesOn, OthersKept, Stages, Ending, Before, Making
    <3> QED
      BY <3>3, EndGoesOnStep
  <2>2. CASE ~ Outdated(ConnOf(m))
    <3>1. Goto(m, "stored")
      BY <1>2, <2>2 DEF Register
    <3>2. At(m) = "created"
          /\ UNCHANGED <<running, serving, services, work, listed, doomed, dropOwn, ownSubs,
                         ownServices, ownConsumers>>
      BY <1>2, <2>2 DEF Register, conn, At
    <3>3. GoesOn(m)
      BY <3>1, <3>2, GotoOf DEF GoesOn, OthersKept, Stages, Ending, Before, Making
    <3> QED
      BY <3>3, EndGoesOnStep
  <2> QED
    BY <2>1, <2>2
<1>3. CASE AliveAgain(m)
  <2>1. PICK l \in {"unwind", "alive"} : Goto(m, l)
    BY <1>3 DEF AliveAgain
  <2> QED
    BY <1>3, <2>1, GotoOf, EndGoesOnStep
       DEF AliveAgain, GoesOn, OthersKept, store, conn, Stages, Ending, Before, Making, At
<1>4. CASE ListService(m)
  <2>1. Goto(m, "listed")
    BY <1>4 DEF ListService
  <2> QED
    BY <1>4, <2>1, GotoOf, EndGoesOnStep
       DEF ListService, GoesOn, OthersKept, conn, Stages, Ending, Before, Making, At
<1>5. CASE Unwind(m)
  <2>1. Goto(m, "unwound")
    BY <1>5 DEF Unwind
  <2> QED
    BY <1>0, <1>5, <2>1, GotoOf, EndGoesOnStep
       DEF Unwind, GoesOn, OthersKept, store, conn, Stages, Ending, Before, Making, At
<1>6. CASE UnwindDrop(m)
  <2>1. Goto(m, "refused")
    BY <1>6 DEF UnwindDrop
  <2> QED
    BY <1>6, <2>1, GotoOf, EndGoesOnStep
       DEF UnwindDrop, GoesOn, OthersKept, conn, Stages, Ending, Before, Making, At
<1>7. CASE StopService(m)
  <2>1. Goto(m, "stopOwn")
    BY <1>7 DEF StopService
  <2> QED
    BY <1>7, <2>1, GotoOf, EndGoesOnStep
       DEF StopService, GoesOn, OthersKept, conn, Stages, Ending, Before, Making, At
<1>8. CASE StopOwn(m)
  <2>1. Goto(m, "stopFinish")
    BY <1>8 DEF StopOwn
  <2>2. \A c \in Conns : \A x \in Calls : x # m =>
          (x \in ownServices'[c] <=> x \in ownServices[c])
    BY <1>8 DEF StopOwn, Inv, TypeOK
  <2> QED
    BY <1>8, <2>1, <2>2, GotoOf, EndGoesOnStep
       DEF StopOwn, GoesOn, OthersKept, store, Stages, Ending, Before, Making, At
<1>9. CASE StopFinish(m)
  <2>1. Goto(m, "stopped")
    BY <1>9 DEF StopFinish
  <2> QED
    BY <1>0, <1>9, <2>1, GotoOf, EndGoesOnStep
       DEF StopFinish, GoesOn, OthersKept, store, conn, Stages, Ending, Before, Making, At
<1> QED
  BY <1>1, <1>2, <1>3, <1>4, <1>5, <1>6, <1>7, <1>8, <1>9

LEMMA EndAliveConnStep ==
    ASSUME Inv, EndInv, NEW m \in Calls, NEW c \in Conns, AliveConn(m, c)
    PROVE  EndInv'
<1>1. OwnInv(m) /\ CallEndInv(m) /\ \A t \in Tasks : t[1] = m => TaskInv(m, t)
  BY PerCall DEF EndInv
<1>2. /\ At(m) = "idle" /\ Num(m) = 0 /\ m \notin serving /\ m \notin doomed
      /\ At(m)' \in {"refused", "alive"} /\ Num(m)' = 0
      /\ \A x \in Calls : x # m => call'[x] = call[x]
  BY <1>1 DEF AliveConn, Inv, TypeOK, OwnInv, CallEndInv, At, Num
<1>3. OthersKept(m) /\ UNCHANGED <<serving, running, doomed, dropOwn>>
  BY <1>2 DEF OthersKept, AliveConn, store, conn
<1>4. CallEndInv(m)'
  BY <1>2, <1>3 DEF CallEndInv
<1>5. ASSUME NEW t \in Tasks, t[1] = m PROVE TaskEndInv(t)'
  <2>1. t[2] \in Nat /\ 1 <= t[2] /\ TaskInv(m, t) /\ TaskEndInv(t)
    BY <1>1, <1>5, TaskFacts DEF EndInv
  <2>2. t \notin running /\ t \notin dropOwn
    BY <1>2, <1>5, <2>1 DEF TaskInv, TaskEndInv
  <2> QED
    BY <1>3, <2>2 DEF TaskEndInv
<1> QED
  BY <1>3, <1>4, <1>5, EndCallStep

LEMMA EndNewSubscriptionStep ==
    ASSUME Inv, EndInv, NEW m \in Calls, NewSubscription(m)
    PROVE  EndInv'
<1>1. /\ At(m) = "create" /\ At(m)' = "created" /\ Num(m)' = Num(m)
      /\ ConnOf(m)' = ConnOf(m) /\ \A x \in Calls : x # m => call'[x] = call[x]
      /\ Kind[m] # "consumer"
  BY GotoOf DEF NewSubscription, Stages, At
<1>2. /\ running' = running \cup {Current(m)} /\ serving' \subseteq serving \cup {m}
      /\ \A x \in Calls : x # m => (x \in serving' <=> x \in serving)
      /\ UNCHANGED <<work, listed, doomed, dropOwn, services, ownSubs, ownServices,
                     ownConsumers>>
      /\ Current(m)[1] = m /\ Current(m)[2] = Num(m) + 1 /\ Current(m)' = Current(m)
  BY <1>1 DEF NewSubscription, store, conn, Current, Num
<1>3. OthersKept(m)
  BY <1>1, <1>2 DEF OthersKept
<1>4. CallEndInv(m) /\ m \notin doomed
  BY <1>1 DEF EndInv, CallEndInv
<1>5. CallEndInv(m)'
  BY <1>1, <1>2, <1>4 DEF CallEndInv
<1>6. ASSUME NEW t \in Tasks, t[1] = m PROVE TaskEndInv(t)'
  <2>1. TaskEndInv(t) /\ t[2] \in Nat /\ Num(m) \in Nat
    BY TaskFacts DEF EndInv, Inv, TypeOK, Num
  <2>2. t \in dropOwn => t[2] <= Num(m) /\ t[2] <= Num(m) + 1 /\ t # Current(m)
    BY <1>1, <1>2, <1>6, <2>1 DEF TaskEndInv
  <2> QED
    BY <1>1, <1>2, <1>4, <1>6, <2>1, <2>2 DEF TaskEndInv
<1> QED
  BY <1>3, <1>5, <1>6, EndCallStep

LEMMA EndAppendConsumerStep ==
    ASSUME Inv, EndInv, NEW m \in Calls, AppendConsumer(m)
    PROVE  EndInv'
<1>1. /\ At(m) = "create" /\ At(m)' = "mounted" /\ Num(m)' = Num(m)
      /\ ConnOf(m)' = ConnOf(m) /\ \A x \in Calls : x # m => call'[x] = call[x]
      /\ Kind[m] = "consumer"
  BY GotoOf DEF AppendConsumer, Stages, At
<1>2. /\ running' = running \cup {Current(m)}
      /\ UNCHANGED <<work, listed, doomed, dropOwn, services, serving, ownSubs, ownServices>>
      /\ Current(m)[1] = m /\ Current(m)[2] = Num(m) + 1
  BY DEF AppendConsumer, store, Current, Num
<1>3. /\ \A c \in Conns : \A t : t \in ownConsumers'[c]
             <=> t \in ownConsumers[c] \/ (c = ConnOf(m) /\ t = Current(m))
      /\ listed \subseteq Conns
  BY DEF AppendConsumer, Inv, TypeOK
<1>4. OthersKept(m)
  BY <1>1, <1>2, <1>3 DEF OthersKept
<1>5. m \notin doomed /\ m \notin serving
  <2>1. CallEndInv(m) /\ OwnInv(m)
    BY PerCall DEF EndInv
  <2> QED
    BY <1>1, <2>1 DEF CallEndInv, OwnInv
<1>6. CallEndInv(m)'
  BY <1>2, <1>5 DEF CallEndInv
<1>7. ASSUME NEW t \in Tasks, t[1] = m PROVE TaskEndInv(t)'
  <2>1. TaskEndInv(t) /\ t[2] \in Nat /\ Num(m) \in Nat
    BY TaskFacts DEF EndInv, Inv, TypeOK, Num
  <2>2. t \in dropOwn => t # Current(m)
    BY <1>1, <1>2, <1>7, <2>1 DEF TaskEndInv
  <2> QED
    BY <1>1, <1>2, <1>3, <1>5, <1>7, <2>1, <2>2 DEF TaskEndInv
<1> QED
  BY <1>4, <1>6, <1>7, EndCallStep

LEMMA EndAppendServiceStep ==
    ASSUME Inv, EndInv, NEW m \in Calls, AppendService(m)
    PROVE  EndInv'
<1>1. /\ At(m) = "listed" /\ At(m)' = "mounted" /\ Num(m)' = Num(m)
      /\ ConnOf(m)' = ConnOf(m) /\ \A x \in Calls : x # m => call'[x] = call[x]
  BY GotoOf DEF AppendService, Stages, At
<1>2. UNCHANGED <<work, listed, doomed, dropOwn, services, serving, running, ownSubs,
                  ownConsumers>>
  BY DEF AppendService, store
<1>3. /\ \A c \in Conns : \A x : x \in ownServices'[c]
             <=> x \in ownServices[c] \/ (c = ConnOf(m) /\ x = m)
      /\ listed \subseteq Conns
  BY DEF AppendService, Inv, TypeOK
<1>4. OthersKept(m)
  BY <1>1, <1>2, <1>3 DEF OthersKept
<1>5. CallEndInv(m)'
  <2>1. CallEndInv(m)
    BY DEF EndInv
  <2> QED
    BY <1>1, <1>2, <1>3, <2>1 DEF CallEndInv, Serviced
<1>6. ASSUME NEW t \in Tasks, t[1] = m PROVE TaskEndInv(t)'
  <2>1. TaskEndInv(t)
    BY DEF EndInv
  <2>2. EnderHolds(t)' = EnderHolds(t)
    BY <1>1, <1>2, <1>6 DEF EnderHolds
  <2> QED
    BY <1>1, <1>2, <1>6, <2>1, <2>2 DEF TaskEndInv
<1> QED
  BY <1>4, <1>5, <1>6, EndCallStep

LEMMA EndAppendSubStep ==
    ASSUME Inv, EndInv, NEW m \in Calls, AppendSub(m)
    PROVE  EndInv'
<1>1. PICK l \in {"again", "serve", "mounted"} :
      /\ call' = [call EXCEPT ![m] = [at |-> l, conn |-> ConnOf(m), n |-> Num(m) + 1]]
      /\ l = "mounted" => Kind[m] # "service"
  BY DEF AppendSub, Num
<1>2. /\ At(m) = "stored" /\ At(m)' = l /\ Num(m)' = Num(m) + 1 /\ Num(m) \in Nat
      /\ ConnOf(m)' = ConnOf(m) /\ \A x \in Calls : x # m => call'[x] = call[x]
  BY <1>1 DEF AppendSub, Inv, TypeOK, At, Num, ConnOf
<1>3. /\ UNCHANGED <<work, listed, doomed, dropOwn, services, serving, running, ownServices,
                     ownConsumers>>
      /\ Current(m)[1] = m
  BY DEF AppendSub, store, Current
<1>4. /\ \A c \in Conns : \A t : t \in ownSubs'[c]
             <=> t \in ownSubs[c] \/ (c = ConnOf(m) /\ t = Current(m))
      /\ listed \subseteq Conns
  BY DEF AppendSub, Inv, TypeOK
<1>5. OthersKept(m)
  BY <1>2, <1>3, <1>4 DEF OthersKept
<1>6. m \notin doomed /\ (m \in serving => l # "mounted")
  <2>1. CallEndInv(m) /\ OwnInv(m)
    BY PerCall DEF EndInv
  <2> QED
    BY <1>1, <1>2, <2>1 DEF CallEndInv, OwnInv
<1>7. CallEndInv(m)'
  BY <1>2, <1>3, <1>6 DEF CallEndInv
<1>8. ASSUME NEW t \in Tasks, t[1] = m PROVE TaskEndInv(t)'
  <2>1. TaskEndInv(t)
    BY DEF EndInv
  <2> QED
    BY <1>2, <1>3, <1>4, <1>6, <1>8, <2>1 DEF TaskEndInv
<1> QED
  BY <1>5, <1>7, <1>8, EndCallStep

----------------------------------------------------------------------------
LEMMA InitInv == Init => Inv
<1> SUFFICES ASSUME Init PROVE Inv
  OBVIOUS
<1>1. TypeOK
  BY DEF Init, TypeOK, NoWork, Stages
<1>2. Numbered /\ Made /\ Dropped
  BY <1>1 DEF Init, Numbered, Made, Dropped, At, Num
<1>3. Undone /\ RestartIsClean /\ NoOrphans /\ RefusedLeavesNothing
  BY DEF Init, Undone, RestartIsClean, NoOrphans, RefusedLeavesNothing, At
<1> QED BY <1>1, <1>2, <1>3 DEF Inv

LEMMA NextInv == Inv /\ [Next]_vars => Inv'
<1> SUFFICES ASSUME Inv, [Next]_vars PROVE Inv'
  OBVIOUS
<1>1. ASSUME NEW c \in Conns, Connect(c) PROVE Inv'
  BY <1>1, ConnectStep
<1>2. ASSUME NEW m \in Calls, Mount(m) PROVE Inv'
  BY <1>2, AliveStoreStep, NewSubscriptionStep, RegisterStep, AppendSubStep, AliveAgainStep,
     ListServiceStep, AppendServiceStep, UnwindStep, UnwindDropStep, AppendConsumerStep
     DEF Mount
<1>3. ASSUME NEW m \in Calls, NEW c \in Conns, AliveConn(m, c) PROVE Inv'
  BY <1>3, AliveConnStep
<1>4. ASSUME NEW m \in Calls, StopService(m) \/ StopOwn(m) \/ StopFinish(m) PROVE Inv'
  BY <1>4, StopServiceStep, StopOwnStep, StopFinishStep
<1>5. ASSUME NEW t \in Tasks, TaskEnds(t) \/ DropFromStore(t) \/ DropFromOwn(t) PROVE Inv'
  BY <1>5, TaskEndsStep, DropFromStoreStep, DropFromOwnStep
<1>6. CASE MatchDrops
  BY <1>6, MatchDropsStep
<1>7. ASSUME NEW e \in Enders, Restart(e) \/ CloseStore(e) PROVE Inv'
  BY <1>7, RestartStep, CloseStoreStep
<1>8. ASSUME NEW e \in Enders, EndWork(e) PROVE Inv'
  BY <1>8, FinishSubStep, FinishConsumerStep, FinishServiceStep, MarkDeadStep DEF EndWork
<1>9. ASSUME NEW e \in Enders, NEW p \in Plugins, Revoke(e, p) PROVE Inv'
  BY <1>9, RevokeStep
<1>10. ASSUME NEW e \in Enders, NEW c \in Conns, CloseConn(e, c) PROVE Inv'
  BY <1>10, CloseConnStep
<1>11. CASE UNCHANGED vars
  <2>1. TypeOK'
    BY <1>11 DEF Inv, TypeOK, vars, store, conn
  <2>2. Shrinks /\ Keeps
    BY <1>11 DEF Shrinks, Keeps, vars, store, conn
  <2>3. RestartIsClean'
    BY <1>11, CleanStep DEF vars, store, conn
  <2> QED BY <2>1, <2>2, <2>3, HeldStep, ShrinkStep DEF Inv
<1> QED
  BY <1>1, <1>2, <1>3, <1>4, <1>5, <1>6, <1>7, <1>8, <1>9, <1>10, <1>11 DEF Next

LEMMA Invariance == Spec => []Inv
BY InitInv, NextInv, PTL DEF Spec

LEMMA EndInvariance == Spec => [](Inv /\ EndInv)
<1>1. Init => Inv /\ EndInv
  BY InitInv DEF Init, EndInv, Unlisted, CallEndInv, TaskEndInv, NoWork
<1>2. ASSUME Inv, EndInv, Next PROVE EndInv'
  <2>1. ASSUME NEW m \in Calls, Mount(m) PROVE EndInv'
    BY <1>2, <2>1, EndMountStep, EndNewSubscriptionStep, EndAppendSubStep,
       EndAppendServiceStep, EndAppendConsumerStep DEF Mount
  <2>2. ASSUME MatchDrops PROVE EndInv'
    <3>1. PICK t \in Tasks : TRUE
      BY <1>2, <2>2 DEF MatchDrops, Inv, TypeOK
    <3> QED
      BY <1>2, <2>2, EndTasksStep
  <2> QED
    BY <1>2, <2>1, <2>2, EndConnectStep, EndAliveConnStep, EndMountStep, EndTasksStep,
       EndConnsStep, EndWorkStep DEF Next
<1>3. ASSUME Inv, EndInv, UNCHANGED vars PROVE EndInv'
  <2>1. HandsOver /\ Unlisted'
    BY <1>3 DEF HandsOver, EndInv, Unlisted, EnderHolds, Serviced, ConnOf, vars, store, conn
  <2> QED
    BY <1>3, <2>1, HandOverStep DEF vars
<1>4. Inv /\ EndInv /\ [Next]_vars => (Inv /\ EndInv)'
  BY <1>2, <1>3, NextInv
<1> QED BY <1>1, <1>4, PTL DEF Spec

(* Restart, Revoke and Close, in any number and any order, end all that    *)
(* was mounted on the connections they end: when they have returned, no    *)
(* subscription, service or consumer of those connections is left.         *)
THEOREM EndsAreComplete == Spec => []EndIsComplete
<1>1. ASSUME Inv, EndInv, \A e \in Enders : Idle(e), NEW m \in doomed
      PROVE  m \notin serving /\ TasksOf({m}) \cap running = {}
  <2>1. m \in Calls /\ running \subseteq Tasks
    BY <1>1 DEF Inv, TypeOK
  <2>2. ~ Serviced(m) /\ \A t : ~ EnderHolds(t)
    BY <1>1 DEF Serviced, EnderHolds, Idle, NoWork
  <2>3. m \notin serving
    BY <1>1, <2>1, <2>2 DEF EndInv, CallEndInv
  <2>4. \A t \in Tasks : t[1] = m => t \notin running
    BY <1>1, <2>2 DEF EndInv, TaskEndInv
  <2> QED
    BY <2>1, <2>3, <2>4, TaskFacts
<1>2. Inv /\ EndInv => EndIsComplete
  BY <1>1 DEF EndIsComplete
<1> QED BY <1>2, EndInvariance, PTL

(* Every field keeps its type.                                             *)
THEOREM ConnectionTyping == Spec => []TypeOK
<1>1. Inv => TypeOK
  BY DEF Inv
<1> QED BY <1>1, Invariance, PTL

(* Where deliverers look for subscriptions there is none of an earlier     *)
(* generation or of a closed store, however subscribe and Restart race.    *)
THEOREM RestartLeavesNothing == Spec => []RestartIsClean
<1>1. Inv => RestartIsClean
  BY DEF Inv
<1> QED BY <1>1, Invariance, PTL

(* Every delivery loop that runs can still be withdrawn: it is listed, or  *)
(* a call in progress still holds it.                                      *)
THEOREM NothingIsOrphaned == Spec => []NoOrphans
<1>1. Inv => NoOrphans
  BY DEF Inv
<1> QED BY <1>1, Invariance, PTL

(* A subscribe, Serve or Consume that returns an error has left no         *)
(* goroutine, no listed subscription and no open service behind.           *)
THEOREM FailureLeavesNothing == Spec => []RefusedLeavesNothing
<1>1. Inv => RefusedLeavesNothing
  BY DEF Inv
<1> QED BY <1>1, Invariance, PTL
=============================================================================
