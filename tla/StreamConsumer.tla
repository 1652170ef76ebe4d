--------------------------- MODULE StreamConsumer ---------------------------
(***************************************************************************)
(* The state a stream keeps for one consumer (consumerState in             *)
(* v2/bus/memory/streams.go): which stored message nextLocked hands over,  *)
(* how Ack, Nak, Term and InProgress change what is pending, how the ack   *)
(* floor advances over out-of-order acknowledgements, and where a consumer *)
(* resumes from a cursor.                                                  *)
(*                                                                         *)
(* Every action is one hold of the store's lock.  The handler keeps each   *)
(* message it was given and may call any of the four acknowledgements at   *)
(* any time and more than once: several Consume calls and Fetch calls      *)
(* share the state of one durable name, and each hand-over has its own     *)
(* closure over it.                                                        *)
(*                                                                         *)
(* Two things are abstracted.  The clock: a pending message is waiting for *)
(* its deadline or due, and a deadline may pass at any time.  The stream:  *)
(* it is the RetainedLog, which drops any stored message at any time       *)
(* (module StreamLog models the limits and is shown to implement it).      *)
(*                                                                         *)
(* A definition whose name has an underscore is a wrong version of the one *)
(* after it, kept to show that a property notices the difference.          *)
(***************************************************************************)
EXTENDS Naturals, FiniteSets

CONSTANTS
    Subjects,       \* subjects the stream covers
    Filter,         \* subjects that match ConsumerSpec.Filter
    AckPolicy,      \* ConsumerSpec.Ack
    MaxDeliver,     \* ConsumerSpec.MaxDeliver, 0 for no limit
    MaxAckPending,  \* ConsumerSpec.MaxAckPending, 0 for no limit
    StartPolicies,  \* the values of ConsumerSpec.Start in play
    NoSubject,      \* not a subject
    MaxSeq,         \* bound: sequence numbers
    MaxHanded,      \* bound: hand-overs of one message
    MaxCursors      \* bound: cursors that clients keep

ASSUME FilterAssumption == Filter \subseteq Subjects /\ NoSubject \notin Subjects
ASSUME PolicyAssumption == AckPolicy \in {"none", "all", "explicit"}
ASSUME LimitsAssumption ==
    /\ MaxDeliver \in Nat
    /\ MaxAckPending \in Nat
    /\ MaxSeq \in Nat
    /\ MaxHanded \in Nat
    /\ MaxCursors \in Nat
ASSUME StartAssumption == StartPolicies \subseteq {"all", "new", "time"}

VARIABLES
    \* the stream
    lastSeq, published, stored,
    \* consumerState, and the start position of its spec
    cs, spec,
    \* what clients hold
    held,           \* messages whose acknowledgement the handler can call
    cursors,        \* cursors minted by Cursor
    \* history
    handed,         \* times each message was handed over
    confirmed,      \* messages acknowledged or terminated by the handler
    last,           \* what last happened to each message
    origin          \* first sequence the start position promised

Stream == INSTANCE RetainedLog

stream == <<lastSeq, published, stored>>
vars == <<stream, cs, spec, held, cursors, handed, confirmed, last, origin>>

Seqs == 1 .. MaxSeq
Matches(q) == published[q] \in Filter

FirstSeq(log) ==
    IF log = {} THEN lastSeq + 1 ELSE CHOOSE q \in log : \A r \in log : q <= r

NoCursor == [pos |-> 0, origin |-> 1]
CursorType == [pos : 0 .. MaxSeq, origin : 1 .. MaxSeq + 1]

----------------------------------------------------------------------------
(* consumerState                                                           *)

StateType ==
    [next : 1 .. MaxSeq + 1, ackFloor : 0 .. MaxSeq, acked : SUBSET Seqs,
     waiting : SUBSET Seqs, due : SUBSET Seqs, deliveries : [Seqs -> Nat]]

(* The start of a consumerState: newConsumerState, and what Reset assigns. *)
NewState(start) ==
    [next |-> start, ackFloor |-> start - 1, acked |-> {}, waiting |-> {},
     due |-> {}, deliveries |-> [q \in Seqs |-> 0]]

Pending(c) == c.waiting \cup c.due

(* The floor after an unbroken run of acknowledged sequences above it.     *)
Floor_Highest(acked, floor) ==
    IF \E f \in acked : f > floor /\ \A r \in acked : r <= f
    THEN CHOOSE f \in acked : f > floor /\ \A r \in acked : r <= f
    ELSE floor

Floor(acked, floor) ==
    IF \E f \in acked : f > floor /\ floor + 1 .. f \subseteq acked
                                  /\ f + 1 \notin acked
    THEN CHOOSE f \in acked : f > floor /\ floor + 1 .. f \subseteq acked
                                        /\ f + 1 \notin acked
    ELSE floor

(* markAcked for every sequence of a set; the order does not matter.       *)
MarkAcked_LeavesPending(c, S) ==
    LET f == Floor(c.acked \cup S, c.ackFloor)
    IN [c EXCEPT !.ackFloor = f, !.acked = (@ \cup S) \ (c.ackFloor + 1 .. f)]

MarkAcked(c, S) ==
    LET f == Floor(c.acked \cup S, c.ackFloor)
        passed == c.ackFloor + 1 .. f
    IN [next       |-> c.next,
        ackFloor   |-> f,
        acked      |-> (c.acked \cup S) \ passed,
        waiting    |-> c.waiting \ S,
        due        |-> c.due \ S,
        deliveries |-> [q \in Seqs |-> IF q \in passed THEN 0 ELSE c.deliveries[q]]]

Wait(c, q) == [c EXCEPT !.waiting = @ \cup {q}, !.due = @ \ {q}]

(* buildLocked: count the delivery and start its deadline.                 *)
Build(c, m) ==
    LET counted == [c EXCEPT !.deliveries[m] = @ + 1]
    IN IF AckPolicy = "none" THEN MarkAcked(counted, {m}) ELSE Wait(counted, m)

----------------------------------------------------------------------------
Init ==
    /\ Stream!Empty
    /\ cs = NewState(1)
    /\ spec \in [start : StartPolicies, cursor : {NoCursor}]
    /\ held = {}
    /\ cursors = {}
    /\ handed = [q \in Seqs |-> 0]
    /\ confirmed = {}
    /\ last = [q \in Seqs |-> "nothing"]
    /\ origin = 1

(* Publish and PublishBatch: expire, append, trim.                         *)
Publish(n, pub, kept) ==
    /\ Stream!Append(n, pub, kept)
    /\ UNCHANGED <<cs, spec, held, cursors, handed, confirmed, last, origin>>

(* Purge, and the expire in Info.                                          *)
Remove(kept) ==
    /\ kept # stored
    /\ Stream!Remove(kept)
    /\ UNCHANGED <<cs, spec, held, cursors, handed, confirmed, last, origin>>

----------------------------------------------------------------------------
(* nextLocked and buildLocked.  expire leaves the messages of log.  The    *)
(* map of pending messages is walked in any order: those out of attempts   *)
(* and those no longer stored are acknowledged as they are met, and the    *)
(* walk stops at the first one that can be handed over again.              *)
Exhausted(c, q) == MaxDeliver > 0 /\ c.deliveries[q] >= MaxDeliver

Dead(log) == {q \in cs.due : Exhausted(cs, q) \/ q \notin log}
Ready(log) == cs.due \ Dead(log)

HandOver(c, m) ==
    /\ handed[m] < MaxHanded
    /\ cs' = Build(c, m)
    /\ held' = held \cup {m}
    /\ handed' = [handed EXCEPT ![m] = @ + 1]
    /\ last' = [last EXCEPT ![m] = "handed"]

DueNow_AnyPending(c) == Pending(c)
DueNow(c) == c.due

Redeliver(log, met, m) ==
    LET c == MarkAcked(cs, met)
    IN /\ m \in DueNow(c) \cap log
       /\ ~Exhausted(c, m)
       /\ stored' = log
       /\ HandOver(c, m)
       /\ UNCHANGED <<lastSeq, published, spec, cursors, confirmed, origin>>

MayRead_OffByOne(c) ==
    \/ MaxAckPending = 0
    \/ Cardinality(Pending(c)) + 1 < MaxAckPending

MayRead(c) ==
    \/ MaxAckPending = 0
    \/ Cardinality(Pending(c)) < MaxAckPending

ReadFrom(c, log) == IF c.next <= FirstSeq(log) THEN FirstSeq(log) ELSE c.next
Unread(c, log) == {q \in log : q >= ReadFrom(c, log)}

(* The next unread message that passes the filter; those before it that do *)
(* not are acknowledged.                                                   *)
Skipped(c, log, m) == {q \in Unread(c, log) : q < m}

NextAfter_SkipsOne(m) == IF m < MaxSeq THEN m + 2 ELSE m + 1
NextAfter(m) == m + 1

DeliverNext(log, m) ==
    LET c == MarkAcked(cs, Dead(log))
    IN /\ Ready(log) = {}
       /\ MayRead(c)
       /\ m \in Unread(c, log) /\ Matches(m)
       /\ \A q \in Unread(c, log) : Matches(q) => m <= q
       /\ stored' = log
       /\ HandOver([MarkAcked(c, Skipped(c, log, m)) EXCEPT !.next = NextAfter(m)], m)
       /\ UNCHANGED <<lastSeq, published, spec, cursors, confirmed, origin>>

(* Nothing to hand over: the consumer waits for room or for a message.     *)
PollBlocked(log) ==
    /\ Ready(log) = {}
    /\ ~MayRead(MarkAcked(cs, Dead(log)))
    /\ stored' = log
    /\ cs' = MarkAcked(cs, Dead(log))
    /\ UNCHANGED <<lastSeq, published, spec, held, cursors, handed, confirmed,
                   last, origin>>

PollIdle(log) ==
    LET c == MarkAcked(cs, Dead(log))
    IN /\ Ready(log) = {}
       /\ MayRead(c)
       /\ \A q \in Unread(c, log) : ~Matches(q)
       /\ stored' = log
       /\ cs' = [MarkAcked(c, Unread(c, log)) EXCEPT
                   !.next = IF ReadFrom(c, log) > lastSeq
                            THEN ReadFrom(c, log) ELSE lastSeq + 1]
       /\ UNCHANGED <<lastSeq, published, spec, held, cursors, handed, confirmed,
                      last, origin>>

(* A deadline passes: AckWait or the delay of a Nak.                       *)
Deadline(q) ==
    /\ q \in cs.waiting
    /\ cs' = [cs EXCEPT !.waiting = @ \ {q}, !.due = @ \cup {q}]
    /\ UNCHANGED <<stream, spec, held, cursors, handed, confirmed, last, origin>>

----------------------------------------------------------------------------
(* The acknowledgement closures of a message the handler was given.        *)
AckRange(q) == IF AckPolicy = "all" THEN cs.ackFloor + 1 .. q ELSE {q}

Ack(q) ==
    /\ q \in held
    /\ cs' = MarkAcked(cs, AckRange(q))
    /\ confirmed' = confirmed \cup (IF AckPolicy = "all" THEN 1 .. q ELSE {q})
    /\ last' = [last EXCEPT ![q] = "ack"]
    /\ UNCHANGED <<stream, spec, held, cursors, handed, origin>>

Term(q) ==
    /\ q \in held
    /\ cs' = MarkAcked(cs, {q})
    /\ confirmed' = confirmed \cup {q}
    /\ last' = [last EXCEPT ![q] = "ack"]
    /\ UNCHANGED <<stream, spec, held, cursors, handed, origin>>

(* Nak with no delay; with a delay it sets a deadline as InProgress does.  *)
Nak(q) ==
    /\ q \in held
    /\ cs' = [cs EXCEPT !.waiting = @ \ {q}, !.due = @ \cup {q}]
    /\ last' = [last EXCEPT ![q] = "reopen"]
    /\ UNCHANGED <<stream, spec, held, cursors, handed, confirmed, origin>>

InProgress(q) ==
    /\ q \in held
    /\ cs' = Wait(cs, q)
    /\ last' = [last EXCEPT ![q] = "reopen"]
    /\ UNCHANGED <<stream, spec, held, cursors, handed, confirmed, origin>>

----------------------------------------------------------------------------
(* Cursor, Reset, and Consume with an explicit cursor.  startSeqLocked is  *)
(* the set of positions a start policy can resolve to.                     *)
StartSeqs(sp) ==
    CASE sp.start = "all"    -> {FirstSeq(stored)}
      [] sp.start = "new"    -> {lastSeq + 1}
      [] sp.start = "time"   -> stored \cup {lastSeq + 1}
      [] sp.start = "cursor" -> {sp.cursor.pos + 1}

(* A cursor carries the promise of the consumer that minted it.            *)
Promised(sp, start) == IF sp.start = "cursor" THEN sp.cursor.origin ELSE start

MintedPosition_Delivered == cs.next - 1
MintedPosition == cs.ackFloor

Cursor ==
    /\ Cardinality(cursors) < MaxCursors
    /\ cursors' = cursors \cup {[pos |-> MintedPosition, origin |-> origin]}
    /\ UNCHANGED <<stream, cs, spec, held, handed, confirmed, last, origin>>

Reset(start) ==
    /\ start \in StartSeqs(spec)
    /\ cs' = NewState(start)
    /\ origin' = Promised(spec, start)
    /\ UNCHANGED <<stream, spec, held, cursors, handed, confirmed, last>>

(* Consume on a durable name that exists keeps its state and replaces its  *)
(* spec.                                                                   *)
Attach(start) ==
    /\ spec' = [start |-> start, cursor |-> NoCursor]
    /\ UNCHANGED <<stream, cs, held, cursors, handed, confirmed, last, origin>>

(* A new consumerState: closures over the one before act on that one only. *)
Resume(c) ==
    /\ c \in cursors
    /\ spec' = [start |-> "cursor", cursor |-> c]
    /\ cs' = NewState(c.pos + 1)
    /\ origin' = c.origin
    /\ held' = {}
    /\ last' = [q \in Seqs |-> "nothing"]
    /\ UNCHANGED <<stream, cursors, handed, confirmed>>

----------------------------------------------------------------------------
(* One call of nextLocked, after expire left log of what was stored.       *)
PollOn(log) ==
    \/ \E met \in SUBSET Dead(log), m \in log : Redeliver(log, met, m)
    \/ \E m \in log : DeliverNext(log, m)
    \/ PollBlocked(log)
    \/ PollIdle(log)

Poll == \E log \in SUBSET stored : PollOn(log)

Handler == \E q \in held : Ack(q) \/ Term(q) \/ Nak(q) \/ InProgress(q)

Log ==
    \/ \E n \in lastSeq + 1 .. MaxSeq :
         \E pub \in [lastSeq + 1 .. n -> Subjects],
            kept \in SUBSET (stored \cup lastSeq + 1 .. n) : Publish(n, pub, kept)
    \/ \E kept \in SUBSET stored : Remove(kept)

Next ==
    \/ Log
    \/ Poll
    \/ \E q \in Seqs : Deadline(q)
    \/ Handler
    \/ Cursor
    \/ \E start \in 1 .. MaxSeq + 1 : Reset(start)
    \/ \E p \in StartPolicies : Attach(p)
    \/ \E c \in cursors : Resume(c)

Spec == Init /\ [][Next]_vars

(* The run loop polls again after every hand-over and at the latest every  *)
(* 2ms.  Progress also needs a handler that acknowledges in the end what   *)
(* it was given, and asks for more time or for redelivery at most once per *)
(* hand-over, and a consumer that is left to run.  Nothing makes a message *)
(* expire: the fair poll is the one that finds all that was stored.        *)
GoodHandler ==
    \E q \in held : \/ Ack(q)
                    \/ last[q] = "handed" /\ (Nak(q) \/ InProgress(q))

LiveNext == Log \/ Poll \/ (\E q \in Seqs : Deadline(q)) \/ GoodHandler
LiveSpec ==
    /\ Init
    /\ [][LiveNext]_vars
    /\ WF_vars(PollOn(stored))
    /\ \A q \in Seqs : WF_vars(Ack(q))

----------------------------------------------------------------------------
(* The types; a pending message is waiting for its deadline or due, never  *)
(* both (it has one deadline).                                             *)
TypeOK ==
    /\ lastSeq \in 0 .. MaxSeq
    /\ published \in [Seqs -> Subjects \cup {NoSubject}]
    /\ stored \subseteq 1 .. lastSeq
    /\ cs \in StateType
    /\ spec \in [start : {"all", "new", "time", "cursor"}, cursor : CursorType]
    /\ held \subseteq 1 .. lastSeq
    /\ cursors \subseteq CursorType
    /\ handed \in [Seqs -> Nat]
    /\ confirmed \subseteq Seqs
    /\ last \in [Seqs -> {"nothing", "handed", "ack", "reopen"}]
    /\ origin \in 1 .. MaxSeq + 1
    /\ cs.waiting \cap cs.due = {}

(* What the consumer still owes its handler: a stored message inside the   *)
(* promise of the start position, that passes the filter, that the handler *)
(* has not settled and that has attempts left.                             *)
OwedFrom(q, from) ==
    /\ q \in stored
    /\ q >= from
    /\ Matches(q)
    /\ q \notin confirmed
    /\ MaxDeliver = 0 \/ handed[q] < MaxDeliver
    /\ AckPolicy # "none" \/ handed[q] = 0

Owed(q) == OwedFrom(q, origin)

(* At-least-once: the read position never passes a message that is still   *)
(* owed unless the message is pending, so that a deadline brings it back,  *)
(* through filters, holes left by trim, exhausted attempts, Reset and      *)
(* Resume.                                                                 *)
NothingSkipped == \A q \in Seqs : Owed(q) /\ q < cs.next => q \in Pending(cs)

(* The ack floor never passes a message that is still owed, although       *)
(* messages are acknowledged out of order.                                 *)
FloorSound == \A q \in Seqs : Owed(q) => q > cs.ackFloor

(* A stored cursor never makes a resumed consumer skip an owed message.    *)
CursorSound ==
    \A q \in Seqs, c \in cursors : OwedFrom(q, c.origin) => q > c.pos

(* After Ack or Term of the handler, the message is not pending.           *)
AckClears == \A q \in Seqs : last[q] = "ack" => q \notin Pending(cs)

(* A message is handed over again only after a deadline passed or the      *)
(* handler asked for it, or after Reset or Resume moved back before it.    *)
NoEarlyRedelivery ==
    [][\A q \in Seqs : handed'[q] > handed[q] => q \notin cs.waiting \/ q >= cs.next]_vars

(* Every message the consumer owes is settled in the end, although         *)
(* MaxAckPending stops it from reading on while others are pending.        *)
EventuallySettled == \A q \in Seqs : [](Owed(q) => <>~Owed(q))

----------------------------------------------------------------------------
(* streams.go:899: a cursor covers "everything this consumer has           *)
(* acknowledged", and delivery resumes "at the next message".              *)
CursorCoversAcked ==
    (/\ cs.next > lastSeq
     /\ Pending(cs) = {}
     /\ \A q \in stored : q \in confirmed)
    => \A q \in stored : q <= cs.ackFloor
=============================================================================
