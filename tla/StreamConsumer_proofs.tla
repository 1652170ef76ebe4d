----------------------- MODULE StreamConsumer_proofs -----------------------
(***************************************************************************)
(* At-least-once delivery and the soundness of the ack floor and of        *)
(* cursors, for every filter, ack policy, limit and number of messages.    *)
(***************************************************************************)
EXTENDS StreamConsumer, WellFoundedInduction, TLAPS

(* No sequence of O is acknowledged in c, and none that c has read past    *)
(* has left its pending messages.                                          *)
Clear(c, O) == \A q \in O : q > c.ackFloor /\ q \notin c.acked
Tracked(c, O) == \A q \in O : q < c.next => q \in Pending(c)

(* c speaks of sequences up to n only.                                     *)
Within(c, n) ==
    /\ c.acked \subseteq 1 .. n /\ c.waiting \subseteq 1 .. n
    /\ c.due \subseteq 1 .. n
    /\ c.ackFloor <= n /\ c.next <= n + 1

Disjoint(c) == c.waiting \cap c.due = {}

----------------------------------------------------------------------------
(* The floor moves up over acknowledged sequences only.                    *)
LEMMA FloorRange ==
    ASSUME NEW A \in SUBSET Seqs, NEW f \in 0 .. MaxSeq
    PROVE  /\ Floor(A, f) \in 0 .. MaxSeq
           /\ f <= Floor(A, f)
           /\ f + 1 .. Floor(A, f) \subseteq A
           /\ Floor(A, f) = f \/ Floor(A, f) \in A
<1> DEFINE P(g) == g > f /\ f + 1 .. g \subseteq A /\ g + 1 \notin A
<1>1. CASE \E g \in A : P(g)
  <2>1. Floor(A, f) = CHOOSE g \in A : P(g)
    BY <1>1 DEF Floor
  <2>2. Floor(A, f) \in A /\ P(Floor(A, f))
    BY <1>1, <2>1
  <2>3. Floor(A, f) \in 1 .. MaxSeq
    BY <2>2 DEF Seqs
  <2>4. Floor(A, f) > f
    BY <2>2
  <2>5. f + 1 .. Floor(A, f) \subseteq A
    BY <2>2
  <2>6. Floor(A, f) \in 0 .. MaxSeq /\ f <= Floor(A, f)
    BY <2>3, <2>4, LimitsAssumption
  <2> QED
    BY <2>2, <2>5, <2>6
<1>2. CASE ~ \E g \in A : P(g)
  <2>1. Floor(A, f) = f
    BY <1>2 DEF Floor
  <2>2. f \in Nat /\ f + 1 .. f = {}
    BY LimitsAssumption
  <2> QED
    BY <2>1, <2>2
<1> QED
  BY <1>1, <1>2

(* What markAcked does to a consumerState.                                 *)
LEMMA MarkAckedFacts ==
    ASSUME NEW c \in StateType, NEW S \in SUBSET Seqs
    PROVE  LET d == MarkAcked(c, S) IN
           /\ d \in StateType
           /\ d.next = c.next
           /\ d.acked \subseteq c.acked \cup S
           /\ d.waiting = c.waiting \ S /\ d.due = c.due \ S
           /\ \A q \in Seqs : d.deliveries[q] <= c.deliveries[q]
           /\ c.ackFloor <= d.ackFloor
           /\ d.ackFloor = c.ackFloor \/ d.ackFloor \in c.acked \cup S
           /\ \A q \in Nat : c.ackFloor < q /\ q <= d.ackFloor
                               => q \in c.acked \cup S
<1> DEFINE A == c.acked \cup S
           f == Floor(A, c.ackFloor)
           passed == c.ackFloor + 1 .. f
           d == MarkAcked(c, S)
<1>1. A \in SUBSET Seqs /\ c.ackFloor \in 0 .. MaxSeq
  BY DEF StateType
<1>2. /\ f \in 0 .. MaxSeq /\ c.ackFloor <= f
      /\ c.ackFloor + 1 .. f \subseteq A
      /\ f = c.ackFloor \/ f \in A
  BY <1>1, FloorRange
<1>3. d = [next       |-> c.next,
           ackFloor   |-> f,
           acked      |-> A \ passed,
           waiting    |-> c.waiting \ S,
           due        |-> c.due \ S,
           deliveries |-> [q \in Seqs |-> IF q \in passed THEN 0
                                          ELSE c.deliveries[q]]]
  BY DEF MarkAcked
<1> HIDE DEF f, d
<1>4. d \in StateType
  <2>1. [q \in Seqs |-> IF q \in passed THEN 0 ELSE c.deliveries[q]]
          \in [Seqs -> Nat]
    BY DEF StateType
  <2> QED
    BY <1>1, <1>2, <1>3, <2>1 DEF StateType
<1>5. \A q \in Seqs : d.deliveries[q] <= c.deliveries[q]
  BY <1>3, LimitsAssumption DEF StateType, Seqs
<1>6. \A q \in Nat : c.ackFloor < q /\ q <= d.ackFloor => q \in A
  BY <1>1, <1>2, <1>3, LimitsAssumption
<1> QED
  BY <1>2, <1>3, <1>4, <1>5, <1>6 DEF d

(* Acknowledging sequences outside O keeps O clear and tracked.            *)
LEMMA MarkAckedKeeps ==
    ASSUME NEW c \in StateType, NEW S \in SUBSET Seqs, NEW O \in SUBSET Seqs,
           S \cap O = {}
    PROVE  /\ Clear(c, O) => Clear(MarkAcked(c, S), O)
           /\ Tracked(c, O) => Tracked(MarkAcked(c, S), O)
<1>1. ASSUME Clear(c, O), NEW q \in O
      PROVE  /\ q > MarkAcked(c, S).ackFloor
             /\ q \notin MarkAcked(c, S).acked
  <2>1. q \in Nat /\ q > c.ackFloor /\ q \notin c.acked \cup S
    BY <1>1 DEF Clear, Seqs
  <2> QED
    BY <2>1, MarkAckedFacts DEF StateType
<1>2. ASSUME Tracked(c, O), NEW q \in O, q < MarkAcked(c, S).next
      PROVE  q \in Pending(MarkAcked(c, S))
  BY <1>2, MarkAckedFacts DEF Tracked, Pending
<1> QED
  BY <1>1, <1>2 DEF Clear, Tracked

LEMMA MarkAckedWithin ==
    ASSUME NEW c \in StateType, NEW n \in 0 .. MaxSeq, Within(c, n),
           NEW S \in SUBSET (1 .. n)
    PROVE  Within(MarkAcked(c, S), n)
<1>1. S \in SUBSET Seqs
  BY LimitsAssumption DEF Seqs
<1> DEFINE d == MarkAcked(c, S)
<1>2. /\ d \in StateType /\ d.next = c.next /\ d.acked \subseteq c.acked \cup S
      /\ d.waiting = c.waiting \ S /\ d.due = c.due \ S
      /\ d.ackFloor = c.ackFloor \/ d.ackFloor \in c.acked \cup S
  BY <1>1, MarkAckedFacts
<1> HIDE DEF d
<1>3. d.ackFloor <= n
  BY <1>2, LimitsAssumption DEF Within, StateType
<1> QED
  BY <1>2, <1>3 DEF Within, d

LEMMA MarkAckedDisjoint ==
    ASSUME NEW c \in StateType, NEW S \in SUBSET Seqs, Disjoint(c)
    PROVE  Disjoint(MarkAcked(c, S))
  BY MarkAckedFacts DEF Disjoint

----------------------------------------------------------------------------
(* Starting a deadline, and handing a message over.                        *)
LEMMA WaitFacts ==
    ASSUME NEW c \in StateType, NEW m \in Seqs
    PROVE  LET d == Wait(c, m) IN
           /\ d \in StateType
           /\ d.next = c.next /\ d.ackFloor = c.ackFloor /\ d.acked = c.acked
           /\ d.deliveries = c.deliveries
           /\ d.waiting = c.waiting \cup {m} /\ d.due = c.due \ {m}
  BY DEF Wait, StateType

LEMMA BuildFacts ==
    ASSUME NEW c \in StateType, NEW m \in Seqs, NEW O \in SUBSET Seqs,
           NEW n \in 0 .. MaxSeq, m \in 1 .. n, Within(c, n), Disjoint(c),
           Clear(c, O), Tracked(c, O \ {m}),
           AckPolicy = "none" => m \notin O
    PROVE  LET d == Build(c, m) IN
           /\ d \in StateType
           /\ Within(d, n) /\ Disjoint(d)
           /\ Clear(d, O) /\ Tracked(d, O)
           /\ \A q \in Seqs : d.deliveries[q] <= c.deliveries[q]
                                               + (IF q = m THEN 1 ELSE 0)
<1> DEFINE e == [c EXCEPT !.deliveries[m] = @ + 1]
<1>1. /\ e \in StateType /\ e.next = c.next /\ e.ackFloor = c.ackFloor
      /\ e.acked = c.acked /\ e.waiting = c.waiting /\ e.due = c.due
      /\ \A q \in Seqs : e.deliveries[q] = c.deliveries[q]
                                            + (IF q = m THEN 1 ELSE 0)
  BY DEF StateType
<1>2. Build(c, m) = IF AckPolicy = "none" THEN MarkAcked(e, {m}) ELSE Wait(e, m)
  BY DEF Build
<1> HIDE DEF e
<1>3. Within(e, n) /\ Disjoint(e) /\ Clear(e, O) /\ Tracked(e, O \ {m})
  BY <1>1 DEF Within, Disjoint, Clear, Tracked, Pending
<1>4. CASE AckPolicy = "none"
  <2>1. {m} \in SUBSET Seqs /\ {m} \cap O = {} /\ Tracked(e, O)
        /\ {m} \in SUBSET (1 .. n)
    BY <1>3, <1>4 DEF Tracked
  <2>2. Clear(MarkAcked(e, {m}), O) /\ Tracked(MarkAcked(e, {m}), O)
    BY <1>1, <1>3, <2>1, MarkAckedKeeps
  <2>3. Within(MarkAcked(e, {m}), n) /\ Disjoint(MarkAcked(e, {m}))
    BY <1>1, <1>3, <2>1, MarkAckedWithin, MarkAckedDisjoint
  <2>4. /\ MarkAcked(e, {m}) \in StateType
        /\ \A q \in Seqs : MarkAcked(e, {m}).deliveries[q] <= e.deliveries[q]
    BY <1>1, <2>1, MarkAckedFacts
  <2> QED
    BY <1>1, <1>2, <1>4, <2>2, <2>3, <2>4
<1>5. CASE AckPolicy # "none"
  <2> DEFINE d == Wait(e, m)
  <2>1. /\ d \in StateType
        /\ d.next = e.next /\ d.ackFloor = e.ackFloor /\ d.acked = e.acked
        /\ d.deliveries = e.deliveries
        /\ d.waiting = e.waiting \cup {m} /\ d.due = e.due \ {m}
    BY <1>1, WaitFacts
  <2> HIDE DEF d
  <2>2. Within(d, n) /\ Disjoint(d) /\ Clear(d, O)
    BY <1>3, <2>1 DEF Within, Disjoint, Clear
  <2>3. Tracked(d, O)
    BY <1>3, <2>1 DEF Tracked, Pending
  <2>4. \A q \in Seqs : d.deliveries[q] <= c.deliveries[q]
                                          + (IF q = m THEN 1 ELSE 0)
    BY <1>1, <2>1 DEF StateType
  <2> QED
    BY <1>2, <1>5, <2>1, <2>2, <2>3, <2>4 DEF d
<1> QED
  BY <1>4, <1>5

----------------------------------------------------------------------------
(* A set of naturals that is not empty has a least element.                *)
LEMMA LeastElement ==
    ASSUME NEW T \in SUBSET Nat, T # {}
    PROVE  \E x \in T : \A y \in T : x <= y
<1> DEFINE R == {ss \in Nat \X Nat : ss[1] < ss[2]}
<1>0. OpToRel(<, Nat) = R
  BY Zenon DEF OpToRel
<1>1. IsWellFoundedOn(R, Nat)
  BY <1>0, NatLessThanWellFounded, Zenon
<1>2. ASSUME NEW a \in Nat, NEW b \in Nat, ~ (<<a, b>> \in R)
      PROVE  ~ (a < b)
  BY <1>2
<1> HIDE DEF R
<1>3. PICK x \in T : \A y \in T : ~ (<<y, x>> \in R)
  BY <1>1, WFMin
<1>4. \A y \in T : ~ (y < x)
  BY <1>2, <1>3
<1>5. \A y \in T : x <= y
  BY <1>4
<1> QED
  BY <1>5

(* Where a consumer reads from: no stored message before it is unread.     *)
LEMMA FirstSeqFacts ==
    ASSUME lastSeq \in 0 .. MaxSeq, NEW log \in SUBSET (1 .. lastSeq)
    PROVE  /\ FirstSeq(log) \in 1 .. lastSeq + 1
           /\ \A q \in log : FirstSeq(log) <= q
<1>1. CASE log = {}
  BY <1>1, LimitsAssumption DEF FirstSeq
<1>2. CASE log # {}
  <2>1. \E q \in log : \A r \in log : q <= r
    BY <1>2, LeastElement, log \in SUBSET Nat, LimitsAssumption
  <2>2. FirstSeq(log) \in log /\ \A r \in log : FirstSeq(log) <= r
    BY <1>2, <2>1 DEF FirstSeq
  <2>3. FirstSeq(log) \in 1 .. lastSeq
    BY <2>2
  <2>4. FirstSeq(log) \in 1 .. lastSeq + 1
    BY <2>3, LimitsAssumption
  <2> QED
    BY <2>2, <2>4
<1> QED
  BY <1>1, <1>2

LEMMA ReadFromFacts ==
    ASSUME lastSeq \in 0 .. MaxSeq, NEW log \in SUBSET (1 .. lastSeq),
           NEW c \in StateType
    PROVE  /\ ReadFrom(c, log) \in 1 .. MaxSeq + 1
           /\ c.next <= lastSeq + 1 => ReadFrom(c, log) <= lastSeq + 1
           /\ \A q \in log : q < ReadFrom(c, log) => q < c.next
<1>1. FirstSeq(log) \in 1 .. lastSeq + 1 /\ \A q \in log : FirstSeq(log) <= q
  BY FirstSeqFacts
<1>2. c.next \in 1 .. MaxSeq + 1
  BY DEF StateType
<1> QED
  BY <1>1, <1>2, LimitsAssumption DEF ReadFrom

----------------------------------------------------------------------------
(* The inductive invariant.  Beside what the theorems state it says that   *)
(* no owed message is acknowledged above the floor, that no count of       *)
(* deliveries exceeds the hand-overs that really happened (so that a       *)
(* message out of attempts is not owed), that nothing speaks of a sequence *)
(* that was never assigned, and that the cursor of the spec was minted.    *)
OwedSet == {q \in Seqs : Owed(q)}

Counted == \A q \in Seqs : cs.deliveries[q] <= handed[q]

IInv ==
    /\ TypeOK
    /\ Within(cs, lastSeq)
    /\ Clear(cs, OwedSet)
    /\ Tracked(cs, OwedSet)
    /\ Counted
    /\ CursorSound
    /\ \A c \in cursors : c.pos <= lastSeq
    /\ spec.start = "cursor" => spec.cursor \in cursors

(* Steps that add no message and forget no confirmation or hand-over.      *)
Shrinks ==
    /\ stored' \subseteq stored
    /\ published' = published
    /\ confirmed \subseteq confirmed'
    /\ handed' \in [Seqs -> Nat]
    /\ \A q \in Seqs : handed[q] <= handed'[q]

LEMMA UnchangedShrinks ==
    ASSUME TypeOK, stored' \subseteq stored, confirmed \subseteq confirmed',
           UNCHANGED <<published, handed>>
    PROVE  Shrinks
<1>1. handed' = handed /\ handed \in [Seqs -> Nat]
  BY DEF TypeOK
<1>2. \A q \in Seqs : handed[q] <= handed[q]
  BY <1>1
<1> QED
  BY <1>1, <1>2 DEF Shrinks

LEMMA InvImplies == IInv => NothingSkipped /\ FloorSound /\ CursorSound
  BY DEF IInv, NothingSkipped, FloorSound, OwedSet, Clear, Tracked

LEMMA OwedShrinks ==
    ASSUME TypeOK, Shrinks, NEW q \in Seqs, NEW f, OwedFrom(q, f)'
    PROVE  OwedFrom(q, f)
<1>1. handed[q] \in Nat /\ handed'[q] \in Nat /\ handed[q] <= handed'[q]
  BY DEF TypeOK, Shrinks
<1>2. handed'[q] = 0 => handed[q] = 0
  BY <1>1
<1>3. MaxDeliver = 0 \/ handed'[q] < MaxDeliver
        => MaxDeliver = 0 \/ handed[q] < MaxDeliver
  BY <1>1, LimitsAssumption
<1> QED
  BY <1>2, <1>3 DEF OwedFrom, Shrinks, Matches

LEMMA OwedSetShrinks ==
    ASSUME TypeOK, Shrinks, origin' = origin
    PROVE  OwedSet' \subseteq OwedSet
<1>1. ASSUME NEW q \in Seqs, Owed(q)' PROVE Owed(q)
  <2>1. \A f : f = origin => (OwedFrom(q, f)' => OwedFrom(q, f))
    BY OwedShrinks
  <2> QED
    BY <1>1, <2>1 DEF Owed, OwedFrom, Matches
<1> QED
  BY <1>1 DEF OwedSet

LEMMA CursorSoundStays ==
    ASSUME TypeOK, Shrinks, CursorSound, cursors' = cursors
    PROVE  CursorSound'
<1> SUFFICES ASSUME NEW q \in Seqs, NEW c \in cursors, OwedFrom(q, c.origin)'
             PROVE  q > c.pos
  BY DEF CursorSound
<1>1. OwedFrom(q, c.origin)
  BY OwedShrinks
<1> QED
  BY <1>1 DEF CursorSound

LEMMA Monotone ==
    ASSUME NEW c, NEW O, NEW P, P \subseteq O
    PROVE  /\ Clear(c, O) => Clear(c, P)
           /\ Tracked(c, O) => Tracked(c, P)
  BY DEF Clear, Tracked

(* What is left to show of a step that assigns no sequence, mints no       *)
(* cursor and moves no start position.                                     *)
LEMMA StepKeepsInv ==
    ASSUME IInv, Shrinks, lastSeq' = lastSeq, origin' = origin,
           spec' = spec, cursors' = cursors,
           held' \subseteq 1 .. lastSeq, confirmed' \subseteq Seqs,
           last' \in [Seqs -> {"nothing", "handed", "ack", "reopen"}],
           cs' \in StateType, Within(cs', lastSeq), Disjoint(cs'),
           Clear(cs', OwedSet'), Tracked(cs', OwedSet'),
           \A q \in Seqs : cs'.deliveries[q] <= handed'[q]
    PROVE  IInv'
<1>1. TypeOK'
  <2>1. stored' \subseteq 1 .. lastSeq' /\ held' \subseteq 1 .. lastSeq'
    BY DEF IInv, TypeOK, Shrinks
  <2> QED
    BY <2>1 DEF IInv, TypeOK, Shrinks, Disjoint
<1>2. CursorSound'
  BY CursorSoundStays DEF IInv
<1>3. Within(cs, lastSeq)' /\ Clear(cs, OwedSet)' /\ Tracked(cs, OwedSet)'
  BY DEF Within, Clear, Tracked, Pending
<1>4. /\ (\A c \in cursors : c.pos <= lastSeq)'
      /\ (spec.start = "cursor" => spec.cursor \in cursors)'
  BY DEF IInv
<1> QED
  BY <1>1, <1>2, <1>3, <1>4 DEF IInv, Counted

----------------------------------------------------------------------------
(* nextLocked: the pending messages it gives up are not owed.              *)
LEMMA DeadNotOwed ==
    ASSUME IInv, Shrinks
    PROVE  /\ Dead(stored') \cap OwedSet' = {}
           /\ Dead(stored') \subseteq 1 .. lastSeq
           /\ Dead(stored') \subseteq Seqs
<1>1. ASSUME NEW q \in Dead(stored') PROVE ~ Owed(q)'
  <2>1. q \in Seqs /\ (Exhausted(cs, q) \/ q \notin stored')
    BY DEF Dead, IInv, TypeOK, StateType
  <2>2. CASE q \notin stored'
    BY <2>2 DEF Owed, OwedFrom
  <2>3. CASE Exhausted(cs, q)
    <3>1. /\ cs.deliveries[q] \in Nat /\ handed[q] \in Nat /\ handed'[q] \in Nat
          /\ cs.deliveries[q] <= handed[q] /\ handed[q] <= handed'[q]
      BY <2>1 DEF IInv, TypeOK, StateType, Counted, Shrinks
    <3>2. MaxDeliver > 0 /\ handed'[q] >= MaxDeliver
      BY <2>3, <3>1, LimitsAssumption DEF Exhausted
    <3> QED
      BY <3>1, <3>2, LimitsAssumption DEF Owed, OwedFrom
  <2> QED
    BY <2>1, <2>2, <2>3
<1>2. Dead(stored') \subseteq cs.due /\ cs.due \subseteq 1 .. lastSeq
      /\ cs.due \subseteq Seqs
  BY DEF Dead, IInv, Within, TypeOK, StateType
<1> QED
  BY <1>1, <1>2 DEF OwedSet

(* The state after it gave up a set of them.                               *)
LEMMA GivenUp ==
    ASSUME IInv, Shrinks, origin' = origin, NEW met \in SUBSET Dead(stored')
    PROVE  LET c == MarkAcked(cs, met) IN
           /\ c \in StateType /\ c.next = cs.next
           /\ c.due \subseteq cs.due
           /\ Within(c, lastSeq) /\ Disjoint(c)
           /\ Clear(c, OwedSet') /\ Tracked(c, OwedSet')
           /\ \A q \in Seqs : c.deliveries[q] <= handed[q]
<1>1. /\ met \in SUBSET Seqs /\ met \in SUBSET (1 .. lastSeq)
      /\ met \cap OwedSet' = {}
  BY DeadNotOwed
<1>2. /\ cs \in StateType /\ lastSeq \in 0 .. MaxSeq /\ Within(cs, lastSeq)
      /\ Disjoint(cs) /\ Clear(cs, OwedSet) /\ Tracked(cs, OwedSet)
      /\ handed \in [Seqs -> Nat] /\ TypeOK
  BY DEF IInv, TypeOK, Disjoint
<1>3. OwedSet' \subseteq Seqs /\ OwedSet' \subseteq OwedSet
  BY <1>2, OwedSetShrinks DEF OwedSet
<1>4. Clear(cs, OwedSet') /\ Tracked(cs, OwedSet')
  BY <1>2, <1>3, Monotone
<1>5. Clear(MarkAcked(cs, met), OwedSet') /\ Tracked(MarkAcked(cs, met), OwedSet')
  BY <1>1, <1>2, <1>3, <1>4, MarkAckedKeeps
<1>6. Within(MarkAcked(cs, met), lastSeq) /\ Disjoint(MarkAcked(cs, met))
  BY <1>1, <1>2, MarkAckedWithin, MarkAckedDisjoint
<1>7. /\ MarkAcked(cs, met) \in StateType /\ MarkAcked(cs, met).next = cs.next
      /\ MarkAcked(cs, met).due = cs.due \ met
      /\ \A q \in Seqs : MarkAcked(cs, met).deliveries[q] <= cs.deliveries[q]
  BY <1>1, <1>2, MarkAckedFacts
<1>8. \A q \in Seqs : cs.deliveries[q] <= handed[q]
  BY DEF IInv, Counted
<1>9. \A q \in Seqs : MarkAcked(cs, met).deliveries[q] <= handed[q]
  BY <1>2, <1>7, <1>8 DEF StateType
<1> QED
  BY <1>5, <1>6, <1>7, <1>9

LEMMA HandOverCounts ==
    ASSUME TypeOK, NEW c, NEW m \in Seqs, HandOver(c, m)
    PROVE  /\ handed' \in [Seqs -> Nat] /\ handed'[m] # 0
           /\ \A q \in Seqs : handed[q] <= handed'[q]
           /\ \A q \in Seqs : handed'[q] = handed[q] + (IF q = m THEN 1 ELSE 0)
<1>1. handed \in [Seqs -> Nat] /\ handed' = [handed EXCEPT ![m] = @ + 1]
  BY DEF HandOver, TypeOK
<1> QED
  BY <1>1

(* A hand-over, from any state of the consumer that is in order.           *)
LEMMA HandOverKeepsInv ==
    ASSUME IInv, NEW c \in StateType, NEW m \in 1 .. lastSeq, HandOver(c, m),
           stored' \subseteq stored, origin' = origin,
           UNCHANGED <<lastSeq, published, spec, cursors, confirmed>>,
           Within(c, lastSeq), Disjoint(c), Clear(c, OwedSet'),
           Tracked(c, OwedSet' \ {m}),
           \A q \in Seqs : c.deliveries[q] <= handed[q]
    PROVE  IInv'
<1>1. m \in Seqs /\ lastSeq \in 0 .. MaxSeq
  BY LimitsAssumption DEF IInv, TypeOK, Seqs
<1>2. /\ handed \in [Seqs -> Nat] /\ handed' = [handed EXCEPT ![m] = @ + 1]
      /\ cs' = Build(c, m) /\ held' = held \cup {m}
      /\ last' = [last EXCEPT ![m] = "handed"]
  BY DEF HandOver, IInv, TypeOK
<1>3. /\ handed' \in [Seqs -> Nat] /\ \A q \in Seqs : handed[q] <= handed'[q]
      /\ handed'[m] # 0
      /\ \A q \in Seqs : handed'[q] = handed[q] + (IF q = m THEN 1 ELSE 0)
  BY <1>1, HandOverCounts DEF IInv
<1>4. Shrinks
  BY <1>3 DEF Shrinks
<1>5. OwedSet' \in SUBSET Seqs
  BY DEF OwedSet
<1>6. AckPolicy = "none" => m \notin OwedSet'
  BY <1>3 DEF OwedSet, Owed, OwedFrom
<1>7. /\ cs' \in StateType /\ Within(cs', lastSeq) /\ Disjoint(cs')
      /\ Clear(cs', OwedSet') /\ Tracked(cs', OwedSet')
      /\ \A q \in Seqs : cs'.deliveries[q] <= c.deliveries[q]
                                              + (IF q = m THEN 1 ELSE 0)
  BY <1>1, <1>2, <1>5, <1>6, BuildFacts
<1>8. \A q \in Seqs : cs'.deliveries[q] <= handed'[q]
  BY <1>2, <1>3, <1>7 DEF StateType
<1>9. /\ held' \subseteq 1 .. lastSeq /\ confirmed' \subseteq Seqs
      /\ last' \in [Seqs -> {"nothing", "handed", "ack", "reopen"}]
  BY <1>1, <1>2 DEF IInv, TypeOK
<1> QED
  BY <1>4, <1>7, <1>8, <1>9, StepKeepsInv

----------------------------------------------------------------------------
LEMMA RedeliverKeepsInv ==
    ASSUME IInv, NEW log \in SUBSET stored, NEW met \in SUBSET Dead(log),
           NEW m \in log, Redeliver(log, met, m)
    PROVE  IInv'
<1> DEFINE c == MarkAcked(cs, met)
<1>1. /\ stored' = log /\ HandOver(c, m) /\ m \in 1 .. lastSeq
      /\ UNCHANGED <<lastSeq, published, spec, cursors, confirmed, origin>>
  BY DEF Redeliver, IInv, TypeOK
<1>2. handed' \in [Seqs -> Nat] /\ \A q \in Seqs : handed[q] <= handed'[q]
  <2>1. m \in Seqs
    BY <1>1, LimitsAssumption DEF IInv, TypeOK, Seqs
  <2> QED
    BY <1>1, <2>1, HandOverCounts DEF IInv
<1>3. Shrinks
  BY <1>1, <1>2 DEF Shrinks
<1>4. /\ c \in StateType /\ Within(c, lastSeq) /\ Disjoint(c)
      /\ Clear(c, OwedSet') /\ Tracked(c, OwedSet')
      /\ \A q \in Seqs : c.deliveries[q] <= handed[q]
  BY <1>1, <1>3, GivenUp
<1> HIDE DEF c
<1>5. Tracked(c, OwedSet' \ {m})
  BY <1>4, Monotone
<1> QED
  BY <1>1, <1>4, <1>5, HandOverKeepsInv

(* Acknowledging unread messages that are not owed and moving the read     *)
(* position to n, when no owed message but m is unread before n.           *)
LEMMA ReadingOn ==
    ASSUME IInv, NEW c \in StateType, Within(c, lastSeq), Disjoint(c),
           Clear(c, OwedSet'), Tracked(c, OwedSet'), stored' \subseteq stored,
           NEW S \in SUBSET Unread(c, stored'), S \cap OwedSet' = {},
           NEW m, NEW n \in 1 .. lastSeq + 1,
           \A q \in OwedSet' : q \in Unread(c, stored') /\ q < n => q = m
    PROVE  LET d == [MarkAcked(c, S) EXCEPT !.next = n] IN
           /\ d \in StateType /\ Within(d, lastSeq) /\ Disjoint(d)
           /\ Clear(d, OwedSet') /\ Tracked(d, OwedSet' \ {m})
           /\ \A q \in Seqs : d.deliveries[q] <= c.deliveries[q]
<1> DEFINE e == MarkAcked(c, S)
           d == [e EXCEPT !.next = n]
<1>1. /\ lastSeq \in 0 .. MaxSeq /\ stored' \in SUBSET (1 .. lastSeq)
      /\ OwedSet' \in SUBSET Seqs /\ OwedSet' \subseteq stored'
  BY DEF IInv, TypeOK, OwedSet, Owed, OwedFrom
<1>2. S \in SUBSET (1 .. lastSeq) /\ S \in SUBSET Seqs
  BY <1>1, LimitsAssumption DEF Unread, Seqs
<1>3. /\ e \in StateType /\ e.next = c.next
      /\ \A q \in Seqs : e.deliveries[q] <= c.deliveries[q]
  BY <1>2, MarkAckedFacts
<1>4. Within(e, lastSeq) /\ Disjoint(e) /\ Clear(e, OwedSet') /\ Tracked(e, OwedSet')
  BY <1>1, <1>2, MarkAckedWithin, MarkAckedDisjoint, MarkAckedKeeps
<1> HIDE DEF e
<1>5. n \in 1 .. MaxSeq + 1 /\ n <= lastSeq + 1
  BY <1>1, LimitsAssumption
<1>6. /\ d \in StateType /\ d.next = n /\ d.ackFloor = e.ackFloor
      /\ d.acked = e.acked /\ d.waiting = e.waiting /\ d.due = e.due
      /\ d.deliveries = e.deliveries
  BY <1>3, <1>5 DEF StateType
<1> HIDE DEF d
<1>7. Within(d, lastSeq) /\ Disjoint(d) /\ Clear(d, OwedSet')
  BY <1>4, <1>5, <1>6 DEF Within, Disjoint, Clear
<1>8. ASSUME NEW q \in OwedSet' \ {m}, q < d.next PROVE q \in Pending(d)
  <2>1. q \in stored' /\ q < n /\ q \notin Unread(c, stored')
    BY <1>1, <1>6, <1>8
  <2>2. ReadFrom(c, stored') \in 1 .. MaxSeq + 1
        /\ \A r \in stored' : r < ReadFrom(c, stored') => r < c.next
    BY <1>1, ReadFromFacts
  <2>3. q < ReadFrom(c, stored')
    BY <1>1, <2>1, <2>2, LimitsAssumption DEF Unread
  <2>4. q \in Pending(e)
    BY <1>3, <1>4, <2>1, <2>2, <2>3 DEF Tracked
  <2> QED
    BY <1>6, <2>4 DEF Pending
<1> QED
  BY <1>3, <1>6, <1>7, <1>8 DEF Tracked, d, e

LEMMA DeliverNextKeepsInv ==
    ASSUME IInv, NEW log \in SUBSET stored, NEW m \in log, DeliverNext(log, m)
    PROVE  IInv'
<1> DEFINE c == MarkAcked(cs, Dead(log))
           S == Skipped(c, log, m)
           d == [MarkAcked(c, S) EXCEPT !.next = m + 1]
<1>1. /\ stored' = log /\ HandOver(d, m) /\ m \in 1 .. lastSeq
      /\ \A q \in Unread(c, log) : Matches(q) => m <= q
      /\ UNCHANGED <<lastSeq, published, spec, cursors, confirmed, origin>>
  BY DEF DeliverNext, NextAfter, IInv, TypeOK
<1>2. handed' \in [Seqs -> Nat] /\ \A q \in Seqs : handed[q] <= handed'[q]
  <2>1. m \in Seqs
    BY <1>1, LimitsAssumption DEF IInv, TypeOK, Seqs
  <2> QED
    BY <1>1, <2>1, HandOverCounts DEF IInv
<1>3. Shrinks
  BY <1>1, <1>2 DEF Shrinks
<1>4. /\ c \in StateType /\ Within(c, lastSeq) /\ Disjoint(c)
      /\ Clear(c, OwedSet') /\ Tracked(c, OwedSet')
      /\ \A q \in Seqs : c.deliveries[q] <= handed[q]
  BY <1>1, <1>3, GivenUp
<1> HIDE DEF c
<1>5. lastSeq \in Nat /\ m \in Nat /\ m + 1 \in 1 .. lastSeq + 1
  BY <1>1, LimitsAssumption DEF IInv, TypeOK
<1>6. ASSUME NEW q \in OwedSet', q \in Unread(c, log) PROVE m <= q /\ q \in Nat
  BY <1>1, <1>6 DEF OwedSet, Owed, OwedFrom, Matches, Seqs
<1>7. S \in SUBSET Unread(c, log) /\ S \cap OwedSet' = {}
  BY <1>5, <1>6 DEF Skipped
<1>8. \A q \in OwedSet' : q \in Unread(c, log) /\ q < m + 1 => q = m
  BY <1>5, <1>6
<1> HIDE DEF S
<1>9. /\ d \in StateType /\ Within(d, lastSeq) /\ Disjoint(d)
      /\ Clear(d, OwedSet') /\ Tracked(d, OwedSet' \ {m})
      /\ \A q \in Seqs : d.deliveries[q] <= c.deliveries[q]
  BY <1>1, <1>4, <1>5, <1>7, <1>8, ReadingOn
<1> HIDE DEF d
<1>10. \A q \in Seqs : d.deliveries[q] <= handed[q]
  BY <1>4, <1>9 DEF StateType, IInv, TypeOK
<1> QED
  BY <1>1, <1>9, <1>10, HandOverKeepsInv

LEMMA PollBlockedKeepsInv ==
    ASSUME IInv, NEW log \in SUBSET stored, PollBlocked(log)
    PROVE  IInv'
<1>1. /\ stored' = log /\ cs' = MarkAcked(cs, Dead(log))
      /\ UNCHANGED <<lastSeq, published, spec, held, cursors, handed, confirmed,
                     last, origin>>
  BY DEF PollBlocked
<1>2. handed' = handed /\ handed \in [Seqs -> Nat]
  BY <1>1 DEF IInv, TypeOK
<1>3. Shrinks
  BY <1>1, <1>2 DEF Shrinks
<1>4. /\ cs' \in StateType /\ Within(cs', lastSeq) /\ Disjoint(cs')
      /\ Clear(cs', OwedSet') /\ Tracked(cs', OwedSet')
      /\ \A q \in Seqs : cs'.deliveries[q] <= handed'[q]
  BY <1>1, <1>3, GivenUp
<1>5. /\ held' \subseteq 1 .. lastSeq /\ confirmed' \subseteq Seqs
      /\ last' \in [Seqs -> {"nothing", "handed", "ack", "reopen"}]
  BY <1>1 DEF IInv, TypeOK
<1> QED
  BY <1>1, <1>3, <1>4, <1>5, StepKeepsInv

LEMMA PollIdleKeepsInv ==
    ASSUME IInv, NEW log \in SUBSET stored, PollIdle(log)
    PROVE  IInv'
<1> DEFINE c == MarkAcked(cs, Dead(log))
           n == IF ReadFrom(c, log) > lastSeq THEN ReadFrom(c, log) ELSE lastSeq + 1
           S == Unread(c, log)
           d == [MarkAcked(c, S) EXCEPT !.next = n]
<1>1. /\ stored' = log /\ cs' = d
      /\ \A q \in Unread(c, log) : ~ Matches(q)
      /\ UNCHANGED <<lastSeq, published, spec, held, cursors, handed, confirmed,
                     last, origin>>
  BY DEF PollIdle
<1>2. handed' = handed /\ handed \in [Seqs -> Nat]
  BY <1>1 DEF IInv, TypeOK
<1>3. Shrinks
  BY <1>1, <1>2 DEF Shrinks
<1>4. /\ c \in StateType /\ Within(c, lastSeq) /\ Disjoint(c)
      /\ Clear(c, OwedSet') /\ Tracked(c, OwedSet')
      /\ \A q \in Seqs : c.deliveries[q] <= handed[q]
  BY <1>1, <1>3, GivenUp
<1> HIDE DEF c
<1>5. n \in 1 .. lastSeq + 1
  <2>1. lastSeq \in 0 .. MaxSeq /\ log \in SUBSET (1 .. lastSeq)
    BY DEF IInv, TypeOK
  <2>2. ReadFrom(c, log) \in 1 .. MaxSeq + 1 /\ ReadFrom(c, log) <= lastSeq + 1
    BY <1>4, <2>1, ReadFromFacts DEF Within
  <2> QED
    BY <2>1, <2>2, LimitsAssumption
<1> HIDE DEF n
<1>6. S \cap OwedSet' = {}
  BY <1>1 DEF OwedSet, Owed, OwedFrom, Matches
<1>7. \A q \in OwedSet' : q \in Unread(c, log) /\ q < n => q = 0
  BY <1>6
<1> HIDE DEF S
<1>8. S \in SUBSET Unread(c, stored')
  BY <1>1 DEF S
<1>9. /\ d \in StateType /\ Within(d, lastSeq) /\ Disjoint(d)
      /\ Clear(d, OwedSet') /\ Tracked(d, OwedSet' \ {0})
      /\ \A q \in Seqs : d.deliveries[q] <= c.deliveries[q]
  BY <1>1, <1>4, <1>5, <1>6, <1>7, <1>8, ReadingOn
<1> HIDE DEF d
<1>10. \A q \in Seqs : cs'.deliveries[q] <= handed'[q]
  BY <1>1, <1>2, <1>4, <1>9 DEF StateType
<1>11. OwedSet' \ {0} = OwedSet'
  BY DEF OwedSet, Seqs
<1>12. /\ held' \subseteq 1 .. lastSeq /\ confirmed' \subseteq Seqs
       /\ last' \in [Seqs -> {"nothing", "handed", "ack", "reopen"}]
  BY <1>1 DEF IInv, TypeOK
<1> QED
  BY <1>1, <1>3, <1>9, <1>10, <1>11, <1>12, StepKeepsInv

----------------------------------------------------------------------------
(* Steps that only acknowledge, S being confirmed by them.                 *)
LEMMA SettleKeepsInv ==
    ASSUME IInv, NEW S \in SUBSET (1 .. lastSeq), cs' = MarkAcked(cs, S),
           S \subseteq confirmed', confirmed \subseteq confirmed',
           confirmed' \subseteq Seqs,
           last' \in [Seqs -> {"nothing", "handed", "ack", "reopen"}],
           UNCHANGED <<stream, spec, held, cursors, handed, origin>>
    PROVE  IInv'
<1>1. /\ lastSeq \in 0 .. MaxSeq /\ cs \in StateType /\ Within(cs, lastSeq)
      /\ Disjoint(cs) /\ TypeOK /\ Clear(cs, OwedSet) /\ Tracked(cs, OwedSet)
      /\ handed \in [Seqs -> Nat] /\ held \subseteq 1 .. lastSeq
      /\ \A q \in Seqs : cs.deliveries[q] <= handed[q]
  BY DEF IInv, TypeOK, Disjoint, Counted
<1>2. S \in SUBSET Seqs
  BY <1>1, LimitsAssumption DEF Seqs
<1>3. Shrinks
  BY <1>1, UnchangedShrinks DEF stream
<1>4. OwedSet' \subseteq OwedSet /\ OwedSet' \in SUBSET Seqs /\ S \cap OwedSet' = {}
  BY <1>1, <1>3, OwedSetShrinks DEF OwedSet, Owed, OwedFrom
<1>5. Clear(cs, OwedSet') /\ Tracked(cs, OwedSet')
  BY <1>1, <1>4, Monotone
<1>6. Clear(cs', OwedSet') /\ Tracked(cs', OwedSet')
  BY <1>1, <1>2, <1>4, <1>5, MarkAckedKeeps
<1>7. Within(cs', lastSeq) /\ Disjoint(cs')
  BY <1>1, <1>2, MarkAckedWithin, MarkAckedDisjoint
<1>8. /\ cs' \in StateType
      /\ \A q \in Seqs : cs'.deliveries[q] <= cs.deliveries[q]
  BY <1>1, <1>2, MarkAckedFacts
<1>9. \A q \in Seqs : cs'.deliveries[q] <= handed'[q]
  BY <1>1, <1>8 DEF StateType
<1> QED
  BY <1>1, <1>3, <1>6, <1>7, <1>8, <1>9, StepKeepsInv DEF stream

LEMMA AckKeepsInv ==
    ASSUME IInv, NEW q \in held, Ack(q) \/ Term(q)
    PROVE  IInv'
<1>1. /\ q \in 1 .. lastSeq /\ q \in Seqs /\ lastSeq \in Nat /\ lastSeq <= MaxSeq
      /\ cs.ackFloor \in Nat /\ confirmed \subseteq Seqs
      /\ last \in [Seqs -> {"nothing", "handed", "ack", "reopen"}]
  BY LimitsAssumption DEF IInv, TypeOK, StateType, Seqs
<1>2. last' \in [Seqs -> {"nothing", "handed", "ack", "reopen"}]
  BY <1>1 DEF Ack, Term
<1>3. CASE Ack(q)
  <2>1. AckRange(q) \in SUBSET (1 .. lastSeq) /\ 1 .. q \subseteq Seqs
    BY <1>1, LimitsAssumption DEF AckRange, Seqs
  <2>2. AckRange(q) \subseteq confirmed' /\ confirmed' \subseteq Seqs
        /\ confirmed \subseteq confirmed'
    BY <1>1, <1>3, <2>1 DEF Ack, AckRange
  <2> QED
    BY <1>2, <1>3, <2>1, <2>2, SettleKeepsInv DEF Ack
<1>4. CASE Term(q)
  <2>1. {q} \in SUBSET (1 .. lastSeq)
    BY <1>1
  <2>2. {q} \subseteq confirmed' /\ confirmed' \subseteq Seqs
        /\ confirmed \subseteq confirmed'
    BY <1>1, <1>4 DEF Term
  <2> QED
    BY <1>2, <1>4, <2>1, <2>2, SettleKeepsInv DEF Term
<1> QED
  BY <1>3, <1>4

(* Steps that only move or add pending messages.                           *)
LEMMA PendingKeepsInv ==
    ASSUME IInv, cs' \in StateType, cs'.next = cs.next,
           cs'.ackFloor = cs.ackFloor, cs'.acked = cs.acked,
           cs'.deliveries = cs.deliveries, Pending(cs) \subseteq Pending(cs'),
           cs'.waiting \subseteq 1 .. lastSeq, cs'.due \subseteq 1 .. lastSeq,
           Disjoint(cs'),
           last' \in [Seqs -> {"nothing", "handed", "ack", "reopen"}],
           UNCHANGED <<stream, spec, held, cursors, handed, confirmed, origin>>
    PROVE  IInv'
<1>1. /\ Within(cs, lastSeq) /\ TypeOK /\ Clear(cs, OwedSet)
      /\ Tracked(cs, OwedSet) /\ handed \in [Seqs -> Nat]
      /\ held \subseteq 1 .. lastSeq /\ confirmed \subseteq Seqs
      /\ \A q \in Seqs : cs.deliveries[q] <= handed[q]
  BY DEF IInv, TypeOK, Counted
<1>2. Shrinks
  BY <1>1, UnchangedShrinks DEF stream
<1>3. OwedSet' \subseteq OwedSet
  BY <1>1, <1>2, OwedSetShrinks
<1>4. Clear(cs', OwedSet') /\ Tracked(cs', OwedSet') /\ Within(cs', lastSeq)
  BY <1>1, <1>3 DEF Clear, Tracked, Within
<1> QED
  BY <1>1, <1>2, <1>4, StepKeepsInv DEF stream

LEMMA ReopenKeepsInv ==
    ASSUME IInv, NEW q \in Seqs,
           (q \in cs.waiting /\ Deadline(q)) \/ (q \in held /\ (Nak(q) \/ InProgress(q)))
    PROVE  IInv'
<1>1. /\ cs \in StateType /\ Within(cs, lastSeq) /\ Disjoint(cs)
      /\ last \in [Seqs -> {"nothing", "handed", "ack", "reopen"}]
      /\ q \in 1 .. lastSeq
  BY DEF IInv, TypeOK, Disjoint, Within
<1>2. last' \in [Seqs -> {"nothing", "handed", "ack", "reopen"}]
  BY <1>1 DEF Deadline, Nak, InProgress
<1>3. CASE Deadline(q) \/ Nak(q)
  <2>1. /\ cs' = [cs EXCEPT !.waiting = @ \ {q}, !.due = @ \cup {q}]
        /\ UNCHANGED <<stream, spec, held, cursors, handed, confirmed, origin>>
    BY <1>3 DEF Deadline, Nak
  <2>2. /\ cs' \in StateType /\ cs'.next = cs.next
        /\ cs'.ackFloor = cs.ackFloor /\ cs'.acked = cs.acked
        /\ cs'.deliveries = cs.deliveries
        /\ cs'.waiting = cs.waiting \ {q} /\ cs'.due = cs.due \cup {q}
    BY <1>1, <2>1 DEF StateType
  <2>3. /\ Pending(cs) \subseteq Pending(cs') /\ Disjoint(cs')
        /\ cs'.waiting \subseteq 1 .. lastSeq /\ cs'.due \subseteq 1 .. lastSeq
    BY <1>1, <2>2 DEF Pending, Disjoint, Within
  <2> QED
    BY <1>2, <2>1, <2>2, <2>3, PendingKeepsInv
<1>4. CASE InProgress(q)
  <2>1. /\ cs' = Wait(cs, q)
        /\ UNCHANGED <<stream, spec, held, cursors, handed, confirmed, origin>>
    BY <1>4 DEF InProgress
  <2>2. /\ cs' \in StateType /\ cs'.next = cs.next
        /\ cs'.ackFloor = cs.ackFloor /\ cs'.acked = cs.acked
        /\ cs'.deliveries = cs.deliveries
        /\ cs'.waiting = cs.waiting \cup {q} /\ cs'.due = cs.due \ {q}
    BY <1>1, <2>1, WaitFacts
  <2>3. /\ Pending(cs) \subseteq Pending(cs') /\ Disjoint(cs')
        /\ cs'.waiting \subseteq 1 .. lastSeq /\ cs'.due \subseteq 1 .. lastSeq
    BY <1>1, <2>2 DEF Pending, Disjoint, Within
  <2> QED
    BY <1>2, <2>1, <2>2, <2>3, PendingKeepsInv
<1> QED
  BY <1>3, <1>4

----------------------------------------------------------------------------
(* The log.  A new message is beyond everything the consumer has read,     *)
(* acknowledged or put into a cursor.                                      *)
LEMMA PublishKeepsInv ==
    ASSUME IInv, NEW n \in lastSeq + 1 .. MaxSeq,
           NEW pub \in [lastSeq + 1 .. n -> Subjects],
           NEW kept \in SUBSET (stored \cup lastSeq + 1 .. n),
           Publish(n, pub, kept)
    PROVE  IInv'
<1>1. /\ lastSeq \in Nat /\ n \in Nat /\ lastSeq < n /\ lastSeq' = n
      /\ n \in 0 .. MaxSeq /\ 1 .. lastSeq \subseteq 1 .. n
      /\ lastSeq + 1 .. n \subseteq 1 .. n
  BY LimitsAssumption DEF IInv, TypeOK, Publish, Stream!Append
<1>2. /\ published \in [Seqs -> Subjects \cup {NoSubject}]
      /\ published' = [q \in Seqs |-> IF q \in lastSeq + 1 .. n THEN pub[q]
                                      ELSE published[q]]
      /\ stored' = kept
      /\ UNCHANGED <<cs, spec, held, cursors, handed, confirmed, last, origin>>
  BY DEF IInv, TypeOK, Publish, Stream!Append, Seqs
<1>3. kept \subseteq stored \cup lastSeq + 1 .. n /\ stored \subseteq 1 .. lastSeq
  BY DEF IInv, TypeOK
<1>4. TypeOK'
  <2>1. published' \in [Seqs -> Subjects \cup {NoSubject}]
    BY <1>1, <1>2
  <2>2. stored' \subseteq 1 .. lastSeq' /\ held' \subseteq 1 .. lastSeq'
    BY <1>1, <1>2, <1>3 DEF IInv, TypeOK
  <2> QED
    BY <1>1, <1>2, <2>1, <2>2 DEF IInv, TypeOK
<1>5. ASSUME NEW q \in Seqs, NEW f, OwedFrom(q, f)'
      PROVE  OwedFrom(q, f) \/ q > lastSeq
  <2>1. q \in Nat /\ (q \notin lastSeq + 1 .. n => published'[q] = published[q])
    BY <1>2 DEF Seqs
  <2>2. q \in lastSeq + 1 .. n => q > lastSeq
    BY <1>1
  <2> QED
    BY <1>2, <1>3, <1>5, <2>1, <2>2 DEF OwedFrom, Matches
<1>6. \A q \in OwedSet' : q \in OwedSet \/ q > lastSeq
  <2>1. ASSUME NEW q \in Seqs, Owed(q)' PROVE Owed(q) \/ q > lastSeq
    <3>1. \A f : f = origin => (OwedFrom(q, f)' => OwedFrom(q, f) \/ q > lastSeq)
      BY <1>5
    <3> QED
      BY <1>2, <2>1, <3>1 DEF Owed, OwedFrom, Matches
  <2> QED
    BY <2>1 DEF OwedSet
<1>7. /\ Within(cs, lastSeq) /\ Clear(cs, OwedSet) /\ Tracked(cs, OwedSet)
      /\ cs \in StateType /\ OwedSet' \subseteq Nat
  BY DEF IInv, TypeOK, OwedSet, Seqs
<1>8. \A q \in Nat : q > lastSeq => /\ q > cs.ackFloor /\ q \notin cs.acked
                                    /\ ~ (q < cs.next)
  BY <1>1, <1>7 DEF Within, StateType
<1>9. Within(cs, lastSeq)'
  <2>1. /\ cs.acked \subseteq 1 .. n /\ cs.waiting \subseteq 1 .. n
        /\ cs.due \subseteq 1 .. n
    BY <1>1, <1>7 DEF Within
  <2>2. cs.ackFloor <= n /\ cs.next <= n + 1
    BY <1>1, <1>7 DEF Within, StateType
  <2> QED
    BY <1>1, <1>2, <2>1, <2>2 DEF Within
<1>10. Clear(cs, OwedSet)' /\ Tracked(cs, OwedSet)'
  BY <1>2, <1>6, <1>7, <1>8 DEF Clear, Tracked, Pending
<1>11. /\ \A c \in cursors : c.pos <= lastSeq /\ c.pos \in Nat
       /\ \A c \in cursors : c.pos <= n
       /\ \A c \in cursors, q \in Seqs : q > lastSeq => q > c.pos
  BY <1>1 DEF IInv, TypeOK, CursorType, Seqs
<1>12. CursorSound'
  BY <1>2, <1>5, <1>11 DEF IInv, CursorSound
<1> QED
  BY <1>1, <1>2, <1>4, <1>9, <1>10, <1>11, <1>12 DEF IInv, Counted

LEMMA RemoveKeepsInv ==
    ASSUME IInv, NEW kept \in SUBSET stored, Remove(kept)
    PROVE  IInv'
<1>1. /\ stored' \subseteq stored
      /\ UNCHANGED <<lastSeq, published, cs, spec, held, cursors, handed,
                     confirmed, last, origin>>
  BY DEF Remove, Stream!Remove
<1>2. Shrinks
  BY <1>1, UnchangedShrinks DEF IInv
<1>3. OwedSet' \subseteq OwedSet
  BY <1>1, <1>2, OwedSetShrinks DEF IInv
<1>4. Clear(cs', OwedSet') /\ Tracked(cs', OwedSet')
  BY <1>1, <1>3, Monotone DEF IInv
<1>5. /\ cs' \in StateType /\ Within(cs', lastSeq) /\ Disjoint(cs')
      /\ held' \subseteq 1 .. lastSeq /\ confirmed' \subseteq Seqs
      /\ last' \in [Seqs -> {"nothing", "handed", "ack", "reopen"}]
      /\ \A q \in Seqs : cs'.deliveries[q] <= handed'[q]
  BY <1>1 DEF IInv, TypeOK, Disjoint, Counted
<1> QED
  BY <1>1, <1>2, <1>4, <1>5, StepKeepsInv

----------------------------------------------------------------------------
(* Cursors.  One is minted from the ack floor, which passed no owed        *)
(* message, and CursorSound carries that fact to the consumer that resumes *)
(* from it.                                                                *)
LEMMA CursorKeepsInv ==
    ASSUME IInv, Cursor
    PROVE  IInv'
<1> DEFINE new == [pos |-> cs.ackFloor, origin |-> origin]
<1>1. /\ cursors' = cursors \cup {new}
      /\ UNCHANGED <<stream, cs, spec, held, handed, confirmed, last, origin>>
  BY DEF Cursor, MintedPosition
<1>2. new \in CursorType /\ new.pos <= lastSeq
  BY DEF IInv, TypeOK, StateType, CursorType, Within
<1>3. TypeOK'
  BY <1>1, <1>2 DEF IInv, TypeOK, stream
<1>4. CursorSound'
  <2> SUFFICES ASSUME NEW q \in Seqs, NEW c \in cursors', OwedFrom(q, c.origin)'
               PROVE  q > c.pos
    BY DEF CursorSound
  <2>1. OwedFrom(q, c.origin)
    BY <1>1 DEF OwedFrom, Matches, stream
  <2>2. CASE c \in cursors
    BY <2>1, <2>2 DEF IInv, CursorSound
  <2>3. CASE c = new
    BY <2>1, <2>3 DEF IInv, Clear, OwedSet, Owed
  <2> QED
    BY <1>1, <2>2, <2>3
<1>5. OwedSet' = OwedSet
  BY <1>1 DEF OwedSet, Owed, OwedFrom, Matches, stream
<1>6. Within(cs, lastSeq)' /\ Clear(cs, OwedSet)' /\ Tracked(cs, OwedSet)'
  BY <1>1, <1>5 DEF IInv, Within, Clear, Tracked, Pending, stream
<1> QED
  BY <1>1, <1>2, <1>3, <1>4, <1>6 DEF IInv, Counted, stream

LEMMA NewStateFacts ==
    ASSUME NEW start \in 1 .. MaxSeq + 1
    PROVE  LET d == NewState(start) IN
           /\ d \in StateType /\ Disjoint(d)
           /\ d.next = start /\ d.ackFloor = start - 1 /\ d.acked = {}
           /\ d.waiting = {} /\ d.due = {}
           /\ \A q \in Seqs : d.deliveries[q] = 0
<1>1. start - 1 \in 0 .. MaxSeq
  BY LimitsAssumption
<1>2. [q \in Seqs |-> 0] \in [Seqs -> Nat]
  OBVIOUS
<1> QED
  BY <1>1, <1>2 DEF NewState, StateType, Disjoint

(* A consumer that starts again, at or before every message it owes.       *)
LEMMA StartKeepsInv ==
    ASSUME IInv, NEW start \in 1 .. MaxSeq + 1, start <= lastSeq + 1,
           cs' = NewState(start), origin' \in 1 .. MaxSeq + 1,
           \A q \in Seqs : Owed(q)' => q >= start,
           UNCHANGED <<stream, cursors, handed, confirmed>>,
           spec' \in [start : {"all", "new", "time", "cursor"}, cursor : CursorType],
           spec'.start = "cursor" => spec'.cursor \in cursors',
           held' \subseteq 1 .. lastSeq,
           last' \in [Seqs -> {"nothing", "handed", "ack", "reopen"}]
    PROVE  IInv'
<1>1. /\ cs' \in StateType /\ Disjoint(cs')
      /\ cs'.next = start /\ cs'.ackFloor = start - 1 /\ cs'.acked = {}
      /\ cs'.waiting = {} /\ cs'.due = {}
      /\ \A q \in Seqs : cs'.deliveries[q] = 0
  BY NewStateFacts
<1>2. lastSeq \in Nat /\ start \in Nat /\ start - 1 <= lastSeq
  BY LimitsAssumption DEF IInv, TypeOK
<1>3. TypeOK'
  <2>1. cs'.waiting \cap cs'.due = {}
    BY <1>1
  <2> QED
    BY <1>1, <2>1 DEF IInv, TypeOK, stream
<1>4. Within(cs, lastSeq)'
  BY <1>1, <1>2 DEF Within, stream
<1>5. Clear(cs, OwedSet)' /\ Tracked(cs, OwedSet)'
  <2>1. \A q \in OwedSet' : q \in Nat /\ q >= start
    BY DEF OwedSet, Seqs
  <2> QED
    BY <1>1, <1>2, <2>1 DEF Clear, Tracked
<1>6. Counted'
  BY <1>1 DEF IInv, TypeOK, Counted
<1>7. Shrinks
  BY UnchangedShrinks DEF IInv, stream
<1>8. CursorSound'
  BY <1>7, CursorSoundStays DEF IInv
<1> QED
  BY <1>3, <1>4, <1>5, <1>6, <1>8 DEF IInv, stream

LEMMA ResetKeepsInv ==
    ASSUME IInv, NEW start \in 1 .. MaxSeq + 1, Reset(start)
    PROVE  IInv'
<1>1. /\ start \in StartSeqs(spec) /\ cs' = NewState(start)
      /\ origin' = Promised(spec, start)
      /\ UNCHANGED <<stream, spec, held, cursors, handed, confirmed, last>>
  BY DEF Reset
<1>2. /\ lastSeq \in 0 .. MaxSeq /\ stored \in SUBSET (1 .. lastSeq)
      /\ spec \in [start : {"all", "new", "time", "cursor"}, cursor : CursorType]
      /\ held \subseteq 1 .. lastSeq
      /\ last \in [Seqs -> {"nothing", "handed", "ack", "reopen"}]
  BY DEF IInv, TypeOK
<1>3. CASE spec.start = "cursor"
  <2>1. /\ spec.cursor \in cursors /\ spec.cursor \in CursorType
        /\ start = spec.cursor.pos + 1 /\ origin' = spec.cursor.origin
        /\ spec.cursor.pos <= lastSeq
    BY <1>1, <1>2, <1>3 DEF IInv, StartSeqs, Promised
  <2>2. ASSUME NEW q \in Seqs, Owed(q)' PROVE q >= start
    <3>1. OwedFrom(q, spec.cursor.origin)
      BY <1>1, <2>1, <2>2 DEF Owed, OwedFrom, Matches, stream
    <3>2. q > spec.cursor.pos
      BY <2>1, <3>1 DEF IInv, CursorSound
    <3> QED
      BY <2>1, <3>2, LimitsAssumption DEF CursorType, Seqs
  <2>3. start <= lastSeq + 1 /\ origin' \in 1 .. MaxSeq + 1
    BY <1>2, <2>1, LimitsAssumption DEF CursorType
  <2> QED
    BY <1>1, <1>2, <2>1, <2>2, <2>3, StartKeepsInv DEF stream
<1>4. CASE spec.start # "cursor"
  <2>1. origin' = start
    BY <1>1, <1>4 DEF Promised
  <2>2. start <= lastSeq + 1
    <3>1. FirstSeq(stored) \in 1 .. lastSeq + 1
      BY <1>2, FirstSeqFacts
    <3>2. start \in {FirstSeq(stored)} \cup {lastSeq + 1} \cup stored
      BY <1>1, <1>2, <1>4 DEF StartSeqs
    <3> QED
      BY <1>2, <3>1, <3>2, LimitsAssumption
  <2>3. \A q \in Seqs : Owed(q)' => q >= start
    BY <2>1 DEF Owed, OwedFrom
  <2> QED
    BY <1>1, <1>2, <1>4, <2>1, <2>2, <2>3, StartKeepsInv DEF stream
<1> QED
  BY <1>3, <1>4

LEMMA ResumeKeepsInv ==
    ASSUME IInv, NEW c \in cursors, Resume(c)
    PROVE  IInv'
<1>1. /\ spec' = [start |-> "cursor", cursor |-> c] /\ cs' = NewState(c.pos + 1)
      /\ origin' = c.origin /\ held' = {} /\ last' = [q \in Seqs |-> "nothing"]
      /\ UNCHANGED <<stream, cursors, handed, confirmed>>
  BY DEF Resume
<1>2. /\ c \in CursorType /\ c.pos <= lastSeq /\ lastSeq \in 0 .. MaxSeq
  BY DEF IInv, TypeOK
<1>3. c.pos + 1 \in 1 .. MaxSeq + 1 /\ c.pos + 1 <= lastSeq + 1
      /\ c.origin \in 1 .. MaxSeq + 1 /\ c.pos \in Nat
  BY <1>2, LimitsAssumption DEF CursorType
<1>4. ASSUME NEW q \in Seqs, Owed(q)' PROVE q >= c.pos + 1
  <2>1. OwedFrom(q, c.origin)
    BY <1>1, <1>4 DEF Owed, OwedFrom, Matches, stream
  <2>2. q > c.pos
    BY <2>1 DEF IInv, CursorSound
  <2> QED
    BY <1>3, <2>2 DEF Seqs
<1>5. /\ spec' \in [start : {"all", "new", "time", "cursor"}, cursor : CursorType]
      /\ spec'.cursor \in cursors'
      /\ held' \subseteq 1 .. lastSeq
      /\ last' \in [Seqs -> {"nothing", "handed", "ack", "reopen"}]
  BY <1>1, <1>2
<1> QED
  BY <1>1, <1>3, <1>4, <1>5, StartKeepsInv

LEMMA AttachKeepsInv ==
    ASSUME IInv, NEW p \in StartPolicies, Attach(p)
    PROVE  IInv'
<1>1. /\ spec' = [start |-> p, cursor |-> NoCursor]
      /\ UNCHANGED <<stream, cs, held, cursors, handed, confirmed, last, origin>>
  BY DEF Attach
<1>2. NoCursor \in CursorType /\ p \in {"all", "new", "time"}
  BY StartAssumption, LimitsAssumption DEF NoCursor, CursorType
<1>3. TypeOK'
  BY <1>1, <1>2 DEF IInv, TypeOK, stream
<1>4. OwedSet' = OwedSet
  BY <1>1 DEF OwedSet, Owed, OwedFrom, Matches, stream
<1>5. Within(cs, lastSeq)' /\ Clear(cs, OwedSet)' /\ Tracked(cs, OwedSet)'
  BY <1>1, <1>4 DEF IInv, Within, Clear, Tracked, Pending, stream
<1>6. Shrinks
  BY <1>1, UnchangedShrinks DEF IInv, stream
<1>7. CursorSound'
  BY <1>1, <1>6, CursorSoundStays DEF IInv
<1> QED
  BY <1>1, <1>2, <1>3, <1>5, <1>7 DEF IInv, Counted, stream

----------------------------------------------------------------------------
LEMMA InitInv == Init => IInv
<1> SUFFICES ASSUME Init PROVE IInv
  OBVIOUS
<1>1. /\ 1 \in 1 .. MaxSeq + 1 /\ lastSeq = 0 /\ 0 \in 0 .. MaxSeq
      /\ NoCursor \in CursorType
  BY LimitsAssumption DEF Init, Stream!Empty, NoCursor, CursorType
<1>2. /\ cs \in StateType /\ Disjoint(cs)
      /\ cs.next = 1 /\ cs.ackFloor = 0 /\ cs.acked = {}
      /\ cs.waiting = {} /\ cs.due = {}
      /\ \A q \in Seqs : cs.deliveries[q] = 0
  <2>1. cs = NewState(1) /\ 1 - 1 = 0
    BY DEF Init
  <2> QED
    BY <1>1, <2>1, NewStateFacts
<1>3. spec \in [start : {"all", "new", "time", "cursor"}, cursor : CursorType]
      /\ spec.start # "cursor"
  BY <1>1, StartAssumption DEF Init
<1>4. OwedSet = {}
  BY DEF OwedSet, Owed, OwedFrom, Init, Stream!Empty
<1>5. TypeOK
  BY <1>1, <1>2, <1>3 DEF Init, Stream!Empty, TypeOK, Disjoint, Seqs
<1>6. Within(cs, lastSeq) /\ Clear(cs, OwedSet) /\ Tracked(cs, OwedSet)
  BY <1>1, <1>2, <1>4 DEF Within, Clear, Tracked
<1>7. Counted
  BY <1>2 DEF Counted, Init
<1>8. CursorSound /\ cursors = {}
  BY DEF CursorSound, Init
<1> QED
  BY <1>3, <1>5, <1>6, <1>7, <1>8 DEF IInv

LEMMA StutterInv ==
    ASSUME IInv, UNCHANGED vars
    PROVE  IInv'
<1>1. /\ UNCHANGED <<lastSeq, published, stored, cs, spec, held, cursors>>
      /\ UNCHANGED <<handed, confirmed, last, origin>>
  BY DEF vars, stream
<1>2. TypeOK'
  BY <1>1 DEF IInv, TypeOK
<1>3. OwedSet' = OwedSet
  BY <1>1 DEF OwedSet, Owed, OwedFrom, Matches
<1>4. Within(cs, lastSeq)' /\ Clear(cs, OwedSet)' /\ Tracked(cs, OwedSet)'
  BY <1>1, <1>3 DEF IInv, Within, Clear, Tracked, Pending
<1>5. CursorSound'
  BY <1>1 DEF IInv, CursorSound, OwedFrom, Matches
<1> QED
  BY <1>1, <1>2, <1>4, <1>5 DEF IInv, Counted

LEMMA NextInv == IInv /\ [Next]_vars => IInv'
<1> SUFFICES ASSUME IInv, [Next]_vars PROVE IInv'
  OBVIOUS
<1>1. CASE Log
  BY <1>1, PublishKeepsInv, RemoveKeepsInv DEF Log
<1>2. CASE Poll
  BY <1>2, RedeliverKeepsInv, DeliverNextKeepsInv, PollBlockedKeepsInv,
     PollIdleKeepsInv DEF Poll, PollOn
<1>3. CASE \E q \in Seqs : Deadline(q)
  BY <1>3, ReopenKeepsInv DEF Deadline
<1>4. CASE Handler
  <2>1. held \subseteq Seqs
    BY LimitsAssumption DEF IInv, TypeOK, Seqs
  <2> QED
    BY <1>4, <2>1, AckKeepsInv, ReopenKeepsInv DEF Handler
<1>5. CASE Cursor
  BY <1>5, CursorKeepsInv
<1>6. CASE \E start \in 1 .. MaxSeq + 1 : Reset(start)
  BY <1>6, ResetKeepsInv
<1>7. CASE \E p \in StartPolicies : Attach(p)
  BY <1>7, AttachKeepsInv
<1>8. CASE \E c \in cursors : Resume(c)
  BY <1>8, ResumeKeepsInv
<1>9. CASE UNCHANGED vars
  BY <1>9, StutterInv
<1> QED
  BY <1>1, <1>2, <1>3, <1>4, <1>5, <1>6, <1>7, <1>8, <1>9 DEF Next

LEMMA Invariance == Spec => []IInv
  BY InitInv, NextInv, PTL DEF Spec

(* The types, in which a pending message is waiting or due and not both.   *)
THEOREM ConsumerTyping == Spec => []TypeOK
<1>1. IInv => TypeOK
  BY DEF IInv
<1> QED
  BY <1>1, Invariance, PTL

(* nextLocked never reads past a message it still owes the handler without *)
(* keeping it pending, whatever trim, expire and Purge remove, whatever    *)
(* the filter skips and in whatever order the handler settles messages.    *)
THEOREM AtLeastOnce == Spec => []NothingSkipped
  BY InvImplies, Invariance, PTL

(* markAcked never moves the floor past a message that is still owed.      *)
THEOREM FloorNeverPassesOwed == Spec => []FloorSound
  BY InvImplies, Invariance, PTL

(* A consumer resumed from any cursor minted before skips nothing that the *)
(* consumer that minted it still owed.                                     *)
THEOREM ResumeSkipsNothing == Spec => []CursorSound
  BY InvImplies, Invariance, PTL

----------------------------------------------------------------------------
(* A message is handed over again early by no step of the consumer: the    *)
(* messages it takes from pending are due, and the others are unread.      *)
THEOREM RedeliveryWaits == Spec => NoEarlyRedelivery
<1>1. ASSUME IInv, [Next]_vars, NEW q \in Seqs, handed'[q] > handed[q]
      PROVE  q \notin cs.waiting \/ q >= cs.next
  <2>1. /\ handed \in [Seqs -> Nat] /\ cs \in StateType
        /\ cs.waiting \cap cs.due = {} /\ stored \subseteq 1 .. lastSeq
        /\ lastSeq \in 0 .. MaxSeq /\ ~ (handed[q] > handed[q])
    BY <1>1 DEF IInv, TypeOK
  <2>2. PICK log \in SUBSET stored :
          \/ \E met \in SUBSET Dead(log), m \in log : Redeliver(log, met, m)
          \/ \E m \in log : DeliverNext(log, m)
    <3>1. handed' # handed
      BY <1>1, <2>1
    <3> QED
      BY <1>1, <3>1 DEF Next, Log, Publish, Remove, Poll, PollOn, PollBlocked, PollIdle,
         Deadline, Handler, Ack, Term, Nak, InProgress, Cursor, Reset, Attach,
         Resume, vars
  <2>3. \A c, m : HandOver(c, m) => q = m
    BY <1>1, <2>1 DEF HandOver
  <2>4. ASSUME NEW met \in SUBSET Dead(log), NEW m \in log, Redeliver(log, met, m)
        PROVE  q \in cs.due
    <3>1. m \in MarkAcked(cs, met).due /\ q = m
      BY <2>3, <2>4 DEF Redeliver, DueNow
    <3> QED
      BY <3>1 DEF MarkAcked
  <2>5. ASSUME NEW m \in log, DeliverNext(log, m)
        PROVE  q >= cs.next
    <3> DEFINE c == MarkAcked(cs, Dead(log))
    <3>1. q = m /\ m \in Unread(c, log)
      BY <2>3, <2>5 DEF DeliverNext
    <3>2. Dead(log) \subseteq Seqs
      BY <2>1 DEF Dead, StateType
    <3>3. c \in StateType /\ c.next = cs.next
      BY <2>1, <3>2, MarkAckedFacts
    <3> HIDE DEF c
    <3>4. FirstSeq(log) \in 1 .. lastSeq + 1
      BY <2>1, FirstSeqFacts
    <3>5. ReadFrom(c, log) >= c.next /\ ReadFrom(c, log) \in Nat /\ c.next \in Nat
      BY <2>1, <3>3, <3>4, LimitsAssumption DEF ReadFrom, StateType
    <3> QED
      BY <3>1, <3>3, <3>5 DEF Unread, Seqs
  <2> QED
    BY <2>1, <2>2, <2>4, <2>5
<1>2. IInv /\ [Next]_vars
      => [\A q \in Seqs : handed'[q] > handed[q]
            => q \notin cs.waiting \/ q >= cs.next]_vars
  BY <1>1
<1> QED
  BY <1>2, Invariance, PTL DEF Spec, NoEarlyRedelivery

----------------------------------------------------------------------------
(* Without AckAll, the handler's Ack or Term of a message leaves it not    *)
(* pending, also when the floor has passed it.  (With AckAll it does not:  *)
(* ackAllThrough starts above the floor.)                                  *)
THEOREM AckSettles == AckPolicy # "all" => (Spec => []AckClears)
<1> SUFFICES ASSUME AckPolicy # "all" PROVE Spec => []AckClears
  OBVIOUS
<1>1. Init => AckClears
  BY DEF Init, AckClears
<1>2. ASSUME IInv, AckClears, [Next]_vars PROVE AckClears'
  <2>1. /\ cs \in StateType /\ stored \subseteq Seqs /\ held \subseteq Seqs
        /\ last \in [Seqs -> {"nothing", "handed", "ack", "reopen"}]
    BY <1>2, LimitsAssumption DEF IInv, TypeOK, Seqs
  <2>2. ASSUME NEW c \in StateType, NEW m \in Seqs, HandOver(c, m),
               Pending(c) \subseteq Pending(cs)
        PROVE  AckClears'
    <3> DEFINE e == [c EXCEPT !.deliveries[m] = @ + 1]
    <3>1. e \in StateType /\ e.waiting = c.waiting /\ e.due = c.due
      BY DEF StateType
    <3>2. cs' = (IF AckPolicy = "none" THEN MarkAcked(e, {m}) ELSE Wait(e, m))
          /\ last' = [last EXCEPT ![m] = "handed"]
      BY <2>2 DEF HandOver, Build
    <3> HIDE DEF e
    <3>3. Pending(cs') \subseteq Pending(c) \cup {m}
      BY <3>1, <3>2, MarkAckedFacts, WaitFacts DEF Pending
    <3> QED
      BY <1>2, <2>1, <2>2, <3>2, <3>3 DEF AckClears, Pending
  <2>3. ASSUME NEW S \in SUBSET Seqs
        PROVE  /\ MarkAcked(cs, S) \in StateType
               /\ Pending(MarkAcked(cs, S)) = Pending(cs) \ S
    BY <2>1, MarkAckedFacts DEF Pending
  <2>4. ASSUME Pending(cs') \subseteq Pending(cs), last' = last PROVE AckClears'
    BY <1>2, <2>4 DEF AckClears, Pending
  <2>5. ASSUME Pending(cs') = {} PROVE AckClears'
    BY <2>5 DEF AckClears, Pending
  <2>6. ASSUME NEW log \in SUBSET stored
        PROVE  /\ Dead(log) \in SUBSET Seqs
               /\ \A c \in StateType : Unread(c, log) \in SUBSET Seqs
    BY <2>1 DEF Dead, StateType, Unread
  <2>7. CASE Log \/ Cursor \/ (\E p \in StartPolicies : Attach(p)) \/ UNCHANGED vars
    <3>1. cs' = cs /\ last' = last
      BY <2>7 DEF Log, Publish, Remove, Cursor, Attach, vars
    <3> QED
      BY <3>1, <2>4
  <2>8. CASE (\E start \in 1 .. MaxSeq + 1 : Reset(start)) \/ (\E c \in cursors : Resume(c))
    <3>1. Pending(cs') = {}
      BY <2>8 DEF Reset, Resume, NewState, Pending
    <3> QED
      BY <3>1, <2>5
  <2>9. CASE \E q \in Seqs : Deadline(q)
    <3>1. Pending(cs') \subseteq Pending(cs) /\ last' = last
      BY <2>1, <2>9 DEF Deadline, Pending, StateType
    <3> QED
      BY <3>1, <2>4
  <2>10. CASE Handler
    <3>1. PICK q \in held : Ack(q) \/ Term(q) \/ Nak(q) \/ InProgress(q)
      BY <2>10 DEF Handler
    <3>2. q \in Seqs
      BY <2>1
    <3>3. CASE Ack(q) \/ Term(q)
      <4>1. cs' = MarkAcked(cs, {q}) /\ last' = [last EXCEPT ![q] = "ack"]
        BY <3>3 DEF Ack, Term, AckRange
      <4>2. Pending(cs') = Pending(cs) \ {q}
        BY <2>3, <3>2, <4>1
      <4> QED
        BY <1>2, <2>1, <4>1, <4>2 DEF AckClears, Pending
    <3>4. CASE Nak(q) \/ InProgress(q)
      <4>1. /\ Pending(cs') \subseteq Pending(cs) \cup {q}
            /\ last' = [last EXCEPT ![q] = "reopen"]
        BY <2>1, <3>4 DEF Nak, InProgress, Wait, Pending, StateType
      <4> QED
        BY <1>2, <2>1, <3>2, <4>1 DEF AckClears, Pending
    <3> QED
      BY <3>1, <3>3, <3>4
  <2>11. CASE Poll
    <3>1. PICK log \in SUBSET stored :
            \/ \E met \in SUBSET Dead(log), m \in log : Redeliver(log, met, m)
            \/ \E m \in log : DeliverNext(log, m)
            \/ PollBlocked(log)
            \/ PollIdle(log)
      BY <2>11 DEF Poll, PollOn
    <3>2. ASSUME NEW met \in SUBSET Dead(log), NEW m \in log, Redeliver(log, met, m)
          PROVE  AckClears'
      BY <2>1, <2>2, <2>3, <2>6, <3>2 DEF Redeliver
    <3> DEFINE c == MarkAcked(cs, Dead(log))
    <3>3. c \in StateType /\ Pending(c) \subseteq Pending(cs)
      BY <2>3, <2>6
    <3>4. ASSUME NEW S \in SUBSET Seqs, NEW n \in 1 .. MaxSeq + 1
          PROVE  LET d == [MarkAcked(c, S) EXCEPT !.next = n]
                 IN d \in StateType /\ Pending(d) \subseteq Pending(cs)
      <4>1. /\ MarkAcked(c, S) \in StateType
            /\ Pending(MarkAcked(c, S)) \subseteq Pending(cs)
        BY <3>3, MarkAckedFacts DEF Pending
      <4> QED
        BY <4>1 DEF StateType, Pending
    <3>5. ASSUME NEW m \in log, DeliverNext(log, m) PROVE AckClears'
      <4>1. /\ m \in Seqs /\ m + 1 \in 1 .. MaxSeq + 1
            /\ Skipped(c, log, m) \in SUBSET Seqs
        BY <2>1, <2>6, <3>3, LimitsAssumption DEF Skipped, Seqs
      <4>2. HandOver([MarkAcked(c, Skipped(c, log, m)) EXCEPT !.next = m + 1], m)
        BY <3>5 DEF DeliverNext, NextAfter
      <4> QED
        BY <2>2, <3>4, <4>1, <4>2
    <3>6. CASE PollBlocked(log)
      BY <2>4, <3>3, <3>6 DEF PollBlocked
    <3>7. CASE PollIdle(log)
      <4>1. Unread(c, log) \in SUBSET Seqs
        BY <2>6, <3>3
      <4>2. /\ last' = last
            /\ \E n : cs' = [MarkAcked(c, Unread(c, log)) EXCEPT !.next = n]
        BY <3>7 DEF PollIdle
      <4>3. Pending(cs') \subseteq Pending(cs)
        BY <3>3, <4>1, <4>2, MarkAckedFacts DEF Pending, StateType
      <4> QED
        BY <2>4, <4>2, <4>3
    <3> QED
      BY <3>1, <3>2, <3>5, <3>6, <3>7
  <2> QED
    BY <1>2, <2>7, <2>8, <2>9, <2>10, <2>11 DEF Next
<1> QED
  BY <1>1, <1>2, Invariance, PTL DEF Spec
=============================================================================
