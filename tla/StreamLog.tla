----------------------------- MODULE StreamLog -----------------------------
(***************************************************************************)
(* The streams of a store (v2/bus/memory/streams.go, without consumers):   *)
(* Publish and PublishBatch with message ids, time to live and expected    *)
(* sequence, the limits that expire and trim enforce, Purge, Declare and   *)
(* Delete.                                                                 *)
(*                                                                         *)
(* Every action is one hold of the store's lock.  The slice of stored      *)
(* messages is the set of their sequences: messages are appended in        *)
(* sequence order and never reordered.  A batch has two messages.          *)
(* Requests that fail before they change anything (no stream covers the    *)
(* subject, a limit is missing in Declare) are left out.                   *)
(*                                                                         *)
(* A definition whose name has an underscore is a wrong version of the one *)
(* after it, kept to show that a property notices the difference.          *)
(***************************************************************************)
EXTENDS Integers, FiniteSets, FiniteSetsExt

CONSTANTS
    Streams,            \* names of streams
    Subjects,
    Covers,             \* the subjects that the patterns of each stream match
    Sizes,              \* payload sizes in play
    MsgIDs,             \* idempotency keys
    NoID,               \* a publish without one
    TTLs,               \* times to live in play, 0 for none
    Expects,            \* values of ExpectLastSeq in play, 0 for none
    MaxAge, MaxBytes, MaxMsgs, MaxMsgsPerSubject, Dedupe,   \* StreamSpec
    NoSubject,          \* not a subject
    MaxSeq,             \* bound: sequence numbers of one stream
    MaxTime             \* bound: the clock

ASSUME NamesAssumption ==
    /\ Covers \in [Streams -> SUBSET Subjects]
    /\ NoID \notin MsgIDs
    /\ NoSubject \notin Subjects
ASSUME NumbersAssumption ==
    /\ Sizes \subseteq Nat /\ TTLs \subseteq Nat /\ Expects \subseteq Nat
    /\ MaxAge \in Nat /\ MaxBytes \in Nat /\ MaxMsgs \in Nat
    /\ MaxMsgsPerSubject \in Nat /\ Dedupe \in Nat
    /\ MaxSeq \in Nat /\ MaxTime \in Nat

VARIABLES
    now,        \* the clock
    log         \* the stream struct of each stream

vars == <<now, log>>

Seqs == 1 .. MaxSeq
Requests == [subject : Subjects, size : Sizes, id : MsgIDs \cup {NoID},
             ttl : TTLs, expect : Expects]

(* msgs holds the message of every sequence since the stream was declared; *)
(* stored says which of them the stream still has.  A dedupe entry is the  *)
(* sequence of the message that made it, 0 for none.                       *)
MsgType ==
    [subject : Subjects \cup {NoSubject}, size : Nat, at : 0 .. MaxTime,
     expires : Nat, id : MsgIDs \cup {NoID}, expect : Nat]
StreamType ==
    [declared : BOOLEAN, lastSeq : 0 .. MaxSeq, msgs : [Seqs -> MsgType],
     stored : SUBSET Seqs, bytes : Nat, dedupe : [MsgIDs -> 0 .. MaxSeq]]

NoMsg == [subject |-> NoSubject, size |-> 0, at |-> 0, expires |-> 0, id |-> NoID,
          expect |-> 0]
NewStream(declared) ==
    [declared |-> declared, lastSeq |-> 0, msgs |-> [q \in Seqs |-> NoMsg],
     stored |-> {}, bytes |-> 0, dedupe |-> [i \in MsgIDs |-> 0]]

----------------------------------------------------------------------------
(* Operations on one stream l.                                             *)
Total(weight) ==
    LET sum[q \in 0 .. MaxSeq] == IF q = 0 THEN 0 ELSE sum[q - 1] + weight[q]
    IN  sum[MaxSeq]
SizeOf(l, S) == Total([q \in Seqs |-> IF q \in S THEN l.msgs[q].size ELSE 0])

(* Drops the messages outside S, counting their bytes down.                *)
Retain(l, S) ==
    [declared |-> l.declared, lastSeq |-> l.lastSeq, msgs |-> l.msgs, stored |-> S,
     bytes |-> l.bytes - SizeOf(l, l.stored \ S), dedupe |-> l.dedupe]

Expired(m) ==
    \/ MaxAge > 0 /\ now - m.at > MaxAge
    \/ m.expires # 0 /\ now > m.expires

Expire(l) == Retain(l, {q \in l.stored : ~Expired(l.msgs[q])})

(* The newest messages of a subject, of the stream, and those that fit.    *)
Since(l, q) == {r \in l.stored : r >= q}

PerSubjectKept_DropsNewest(l) ==
    {q \in l.stored :
        Cardinality({r \in l.stored : r <= q /\ l.msgs[r].subject = l.msgs[q].subject})
          <= MaxMsgsPerSubject}

PerSubjectKept(l) ==
    {q \in l.stored :
        Cardinality({r \in Since(l, q) : l.msgs[r].subject = l.msgs[q].subject})
          <= MaxMsgsPerSubject}

TrimSubjects(l) ==
    IF MaxMsgsPerSubject > 0 THEN Retain(l, PerSubjectKept(l)) ELSE l


TrimCount(l) ==
    IF MaxMsgs > 0
    THEN Retain(l, {q \in l.stored : Cardinality(Since(l, q)) <= MaxMsgs})
    ELSE l

TrimBytes(l) ==
    IF MaxBytes > 0
    THEN Retain(l, {q \in l.stored :
                      l.bytes - SizeOf(l, {r \in l.stored : r < q}) <= MaxBytes})
    ELSE l

Trim(l) == TrimBytes(TrimCount(TrimSubjects(l)))

(* A repeat of a message id inside the window is not stored.               *)
Repeat_WhileStored(l, r) ==
    /\ r.id # NoID /\ Dedupe > 0
    /\ l.dedupe[r.id] \in l.stored
    /\ now - l.msgs[l.dedupe[r.id]].at <= Dedupe

Repeat(l, r) ==
    /\ r.id # NoID /\ Dedupe > 0
    /\ l.dedupe[r.id] # 0
    /\ now - l.msgs[l.dedupe[r.id]].at <= Dedupe

(* The part of appendLocked after its checks.                              *)
Stamp(r) ==
    [subject |-> r.subject, size |-> r.size, at |-> now,
     expires |-> IF r.ttl > 0 THEN now + r.ttl ELSE 0, id |-> r.id,
     expect |-> r.expect]

NextSeq_FromStored(l) == IF l.stored = {} THEN 1 ELSE Max(l.stored) + 1
NextSeq(l) == l.lastSeq + 1

Store(l, r) ==
    [declared |-> l.declared,
     lastSeq  |-> NextSeq(l),
     msgs     |-> [l.msgs EXCEPT ![NextSeq(l)] = Stamp(r)],
     stored   |-> l.stored \cup {NextSeq(l)},
     bytes    |-> l.bytes + r.size,
     dedupe   |-> [i \in MsgIDs |-> IF i = r.id THEN NextSeq(l) ELSE l.dedupe[i]]]

(* appendLocked without ExpectLastSeq, as PublishBatch calls it.           *)
Append(l, r) ==
    IF Repeat(l, r) THEN Expire(l) ELSE Store(Expire(l), r)

----------------------------------------------------------------------------
Init ==
    /\ now = 0
    /\ log = [s \in Streams |-> NewStream(FALSE)]

Tick == now < MaxTime /\ now' = now + 1 /\ UNCHANGED log

(* Declare leaves a stream that exists alone.                              *)
Declare(s) ==
    /\ ~log[s].declared
    /\ log' = [log EXCEPT ![s] = NewStream(TRUE)]
    /\ UNCHANGED now

Delete(s) ==
    /\ log[s].declared
    /\ log' = [log EXCEPT ![s] = NewStream(FALSE)]
    /\ UNCHANGED now

(* routeLocked walks a map: any stream that covers the subject.            *)
Routes(r) == {s \in Streams : log[s].declared /\ r.subject \in Covers[s]}

(* ExpectLastSeq fails after expire, and after the check for a repeat.     *)
PublishConflict(s, r) ==
    /\ ~Repeat(log[s], r)
    /\ r.expect # 0 /\ r.expect # log[s].lastSeq
    /\ log' = [log EXCEPT ![s] = Expire(@)]
    /\ UNCHANGED now

Publish(s, r) ==
    /\ Repeat(log[s], r) \/ r.expect \in {0, log[s].lastSeq}
    /\ log[s].lastSeq < MaxSeq
    /\ log' = [log EXCEPT ![s] = Trim(Append(@, r))]
    /\ UNCHANGED now

(* The sequence a batch will have reached in s before its second message.  *)
Projected_NotAdvanced(s, s1) == log[s].lastSeq
Projected(s, s1) == log[s].lastSeq + (IF s = s1 THEN 1 ELSE 0)

(* The bound MaxSeq leaves room for a batch.                               *)
Room(s) == log[s].lastSeq + 1 < MaxSeq

(* PublishBatch with both preconditions met; otherwise nothing happens.    *)
PublishBatch(s1, r1, s2, r2) ==
    LET first == [log EXCEPT ![s1] = Append(@, r1)]
        both == [first EXCEPT ![s2] = Append(@, r2)]
    IN /\ s1 \in Routes(r1) /\ s2 \in Routes(r2)
       /\ r1.expect \in {0, log[s1].lastSeq}
       /\ r2.expect \in {0, Projected(s2, s1)}
       /\ log' = [s \in Streams |-> IF s \in {s1, s2} THEN Trim(both[s]) ELSE both[s]]
       /\ UNCHANGED now

(* Purge of some subjects, and of the whole stream, which sets bytes to 0. *)
Purge(s, S) ==
    /\ log[s].declared
    /\ log' = [log EXCEPT ![s] =
                 Retain(@, {q \in @.stored : @.msgs[q].subject \notin S})]
    /\ UNCHANGED now

PurgeAll_KeepsBytes(s) ==
    /\ log[s].declared
    /\ log' = [log EXCEPT ![s].stored = {}]
    /\ UNCHANGED now

PurgeAll(s) ==
    /\ log[s].declared
    /\ log' = [log EXCEPT ![s].stored = {}, ![s].bytes = 0]
    /\ UNCHANGED now

(* Info, Fetch and every poll of a consumer expire first.                  *)
Read(s) ==
    /\ log[s].declared
    /\ log' = [log EXCEPT ![s] = Expire(@)]
    /\ UNCHANGED now

Next ==
    \/ Tick
    \/ \E s \in Streams : \/ Declare(s)
                          \/ Delete(s)
                          \/ PurgeAll(s)
                          \/ Read(s)
                          \/ \E S \in SUBSET Subjects : Purge(s, S)
    \/ \E r \in Requests : \E s \in Routes(r) : Publish(s, r) \/ PublishConflict(s, r)
    \/ \E s1, s2 \in Streams :
          /\ Room(s1) /\ Room(s2)
          /\ \E r1, r2 \in Requests : PublishBatch(s1, r1, s2, r2)

Spec == Init /\ [][Next]_vars

----------------------------------------------------------------------------
(* The types; what a stream stores has been assigned a sequence.           *)
TypeOK ==
    /\ now \in 0 .. MaxTime
    /\ log \in [Streams -> StreamType]
    /\ \A s \in Streams : log[s].stored \subseteq 1 .. log[s].lastSeq

(* The byte count that trim decides by, kept up to date by addition and    *)
(* subtraction in six places, is the size of what is stored.               *)
BytesExact == \A s \in Streams : log[s].bytes = SizeOf(log[s], log[s].stored)

(* No limit of the declaration is exceeded when the lock is released, also *)
(* by a batch, which is trimmed only at its end.                           *)
LimitsHold ==
    \A s \in Streams :
        /\ MaxMsgs > 0 => Cardinality(log[s].stored) <= MaxMsgs
        /\ MaxBytes > 0 => SizeOf(log[s], log[s].stored) <= MaxBytes
        /\ MaxMsgsPerSubject > 0 => \A b \in Subjects :
             Cardinality({q \in log[s].stored : log[s].msgs[q].subject = b})
               <= MaxMsgsPerSubject

(* The types, the byte count and the limits together: what trim decides by *)
(* is exact, and what it leaves is within every limit.                     *)
WithinLimits == TypeOK /\ BytesExact /\ LimitsHold

(* Limits drop the oldest first: a publish that drops a message that has   *)
(* not expired, or does not keep its own, drops every older one of its     *)
(* subject too.                                                            *)
Taken(s) == log[s].lastSeq + 1 .. log'[s].lastSeq
OldestFirst ==
    [][\A s \in Streams : \A q \in log[s].stored, r \in log[s].stored \cup Taken(s) :
         (/\ Taken(s) # {}
          /\ q < r /\ log[s].msgs[q].subject = log'[s].msgs[r].subject
          /\ ~Expired(log'[s].msgs[r])
          /\ r \notin log'[s].stored)
         => q \notin log'[s].stored]_vars

(* A message id is stored once per window, however often it is published,  *)
(* also by a batch, and although the stored message may be gone.           *)
StoredOnce ==
    \A s \in Streams : \A q, r \in 1 .. log[s].lastSeq :
        (/\ Dedupe > 0 /\ q < r
         /\ log[s].msgs[q].id # NoID /\ log[s].msgs[q].id = log[s].msgs[r].id)
        => log[s].msgs[r].at - log[s].msgs[q].at > Dedupe

(* A message stored under ExpectLastSeq directly follows the sequence that *)
(* its publisher expected.                                                 *)
ExpectHolds ==
    \A s \in Streams : \A q \in 1 .. log[s].lastSeq :
        log[s].msgs[q].expect \in {0, q - 1}

(* Each stream implements the log that its consumers know: every step of   *)
(* the store is a step of the stream's RetainedLog or leaves it alone.     *)
Subject(s) == [q \in Seqs |-> log[s].msgs[q].subject]
Retained(s) == INSTANCE RetainedLog
                 WITH lastSeq <- log[s].lastSeq, published <- Subject(s),
                      stored <- log[s].stored
ImplementsLog ==
    /\ \A s \in Streams : Retained(s)!Empty
    /\ [][\A s \in Streams : Retained(s)!Next \/ UNCHANGED Retained(s)!log]_vars
=============================================================================
