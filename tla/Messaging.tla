----------------------------- MODULE Messaging -----------------------------
(***************************************************************************)
(* The agent messaging contract (v2/messaging; the v1 package is the same).*)
(* The service that stores messages is outside the repository: it is any   *)
(* service whose requests, records and results pass the contract's         *)
(* validators.  A sender retries, two adapters race to deliver, a reader   *)
(* pages through the log, a client sums up its inbox.  A text is "" where  *)
(* it is absent or malformed; sizes are encoded sizes in units of the      *)
(* smallest message; the clock counts days; counts have Width bits.        *)
(***************************************************************************)
EXTENDS Integers, SequencesExt

CONSTANTS
    Bodies,             \* body -> its encoded size
    Participants,       \* lists of participants a conversation is opened with
    MetadataKeys,       \* lists of metadata keys a message may carry
    Conversations,      \* conversations of an inbox
    Width,              \* bits of a count
    MaxEnvelope, MaxListResult, MaxListItems, RetentionDays,
    Lives,              \* lives a service may give an idempotency record
    MaxMessages, MaxDays, MaxPages,
    MaxUpdates,         \* bound of the updates sent
    MaxDelivered        \* bound of the messages adapters deliver

ASSUME DaysAssumption == RetentionDays \in Int /\ Lives \subseteq Int
ASSUME ListAssumption == MaxListItems \in Nat
ASSUME CountsAssumption == 2 ^ Width \in Nat /\ IsFiniteSet(Conversations)

VARIABLES
    day,
    participants,       \* of the conversation, <<>> before it is opened
    log,                \* the messages stored, by sequence
    records,            \* idempotency records
    updates,            \* delivery updates under way
    sent,               \* updates that were sent so far
    reader,             \* [cursor, got, pages]: a listing under way
    inbox               \* the summary a client took in this step, or none

messagingVars == <<day, participants, log, records, updates, sent, reader, inbox>>

Adapters == {"x", "y"}
NoInbox == [unread |-> 0, counts |-> <<>>]
NewListing == [cursor |-> 0, got |-> <<>>, pages |-> 0]

MessagingInit ==
    /\ day = 0 /\ participants = <<>> /\ log = <<>> /\ records = {}
    /\ updates = {} /\ sent = 0 /\ reader = NewListing /\ inbox = NoInbox

----------------------------------------------------------------------------
(* Records.                                                                *)
RequiredText(x) == x # ""
Distinct(list) == IsInjective(list) /\ \A i \in DOMAIN list : RequiredText(list[i])
FaultValid(f) == f \in {"invalid_argument", "denied", "not_found", "conflict", "capacity", "unavailable"}
ConversationValid(owner, list) == RequiredText(owner) /\ Distinct(list) /\ \E i \in DOMAIN list : list[i] = owner

DeliveryValid(d) ==
    CASE d.state = "pending" -> d.adapter = "" /\ d.attempt = 0 /\ d.fault = "none"
      [] d.state \in {"dispatching", "delivered", "unknown"} ->
            RequiredText(d.adapter) /\ d.attempt > 0 /\ d.fault = "none"
      [] d.state = "failed" -> RequiredText(d.adapter) /\ d.attempt > 0 /\ FaultValid(d.fault)
      [] OTHER -> FALSE
MessageValid(m) ==
    /\ RequiredText(m.sender) /\ RequiredText(m.body) /\ m.sequence > 0
    /\ Distinct(m.metadata)
    /\ DeliveryValid(m.delivery)
    /\ m.size <= MaxEnvelope
IdempotencyValid(r) ==
    /\ RequiredText(r.owner) /\ RequiredText(r.key)
    /\ r.expires - r.created = RetentionDays

(* Requests and results.                                                   *)
SendRequestValid(r) ==
    /\ RequiredText(r.sender) /\ RequiredText(r.key) /\ RequiredText(r.body)
    /\ Distinct(r.metadata)
    /\ r.size <= MaxEnvelope
Transition_Retry(from, to) ==
    \/ from \in {"pending", "unknown"} /\ to = "dispatching"
    \/ from = "dispatching" /\ to \in {"delivered", "failed", "unknown"}
Transition(from, to) ==
    \/ from = "pending" /\ to = "dispatching"
    \/ from = "dispatching" /\ to \in {"delivered", "failed", "unknown"}
DeliveryUpdateValid(u) ==
    /\ RequiredText(u.adapter)
    /\ Transition(u.from, u.to)
    /\ u.attempt > 0
    /\ IF u.to = "failed" THEN FaultValid(u.fault) ELSE u.fault = "none"
ListRequestValid(r) == r.limit \in 0 .. MaxListItems
TotalSize(list) == FoldLeft(LAMBDA t, m : t + m.size, 0, list)
ListResultValid(r) ==
    /\ Len(r.messages) <= MaxListItems
    /\ \A i \in DOMAIN r.messages : MessageValid(r.messages[i])
    /\ r.hasMore => r.nextCursor # 0
    /\ TotalSize(r.messages) <= MaxListResult

(* InboxSummaryResult: the sum, refused where the next count would not fit.*)
Top == 2 ^ Width - 1
Add(acc, n) == IF acc.ok /\ Top - acc.total >= n THEN [ok |-> TRUE, total |-> acc.total + n]
               ELSE [ok |-> FALSE, total |-> 0]
Total(counts) ==
    LET upTo[n \in 0 .. Len(counts)] ==
          IF n = 0 THEN [ok |-> TRUE, total |-> 0] ELSE Add(upTo[n - 1], counts[n])
    IN  upTo[Len(counts)]
InboxSummaryValid(r) == Total(r.counts) = [ok |-> TRUE, total |-> r.unread]

----------------------------------------------------------------------------
Open(list) ==
    /\ participants = <<>>
    /\ ConversationValid("a", list)
    /\ participants' = list
    /\ UNCHANGED <<day, log, records, updates, sent, reader>> /\ inbox' = NoInbox

(* A send, first or repeated: a key the service still remembers answers    *)
(* with its message, or with a conflict if the request is another.         *)
Remembered(key) == {r \in records : r.key = key /\ day < r.expires}
Send(key, body, metadata) ==
    LET request == [sender |-> "a", key |-> key, body |-> body, metadata |-> metadata,
                    size |-> Bodies[body]]
        message == [sender |-> "a", key |-> key, body |-> body, metadata |-> metadata, day |-> day,
                    sequence |-> Len(log) + 1, size |-> Bodies[body],
                    delivery |-> [state |-> "pending", adapter |-> "", attempt |-> 0, fault |-> "none"]]
    IN  /\ participants # <<>> /\ Len(log) < MaxMessages
        /\ SendRequestValid(request)
        /\ Remembered(key) = {}
        /\ \E life \in Lives :
              LET record == [owner |-> "a", key |-> key, created |-> day, expires |-> day + life]
              IN  IdempotencyValid(record) /\ records' = records \cup {record}
        /\ log' = Append(log, message)
        /\ UNCHANGED <<day, participants, updates, sent, reader>> /\ inbox' = NoInbox
NewDay ==
    /\ day < MaxDays
    /\ day' = day + 1
    /\ UNCHANGED <<participants, log, records, updates, sent, reader>> /\ inbox' = NoInbox

(* An adapter asks for a change of the state it sees; the service makes it *)
(* if that is still the state, however late or often the request arrives.  *)
Update(adapter, i, to, fault) ==
    LET u == [message |-> i, adapter |-> adapter, from |-> log[i].delivery.state, to |-> to,
              attempt |-> 1, fault |-> fault]
    IN  /\ sent < MaxUpdates /\ i <= MaxDelivered
        /\ DeliveryUpdateValid(u)
        /\ updates' = updates \cup {u}
        /\ sent' = sent + 1
        /\ UNCHANGED <<day, participants, log, records, reader>> /\ inbox' = NoInbox
Apply(u) ==
    /\ \/ updates' = updates \ {u}
       \/ UNCHANGED updates
    /\ log[u.message].delivery.state = u.from
    /\ log' = [log EXCEPT ![u.message].delivery =
                  [state |-> u.to, adapter |-> u.adapter, attempt |-> u.attempt, fault |-> u.fault]]
    /\ UNCHANGED <<day, participants, records, sent, reader>> /\ inbox' = NoInbox

(* A page of the log: as many of the messages after the cursor as fit; the *)
(* cursor to go on from may be missing.                                    *)
Page(k) == SubSeq(log, reader.cursor + 1, reader.cursor + k)
Fits(k) ==
    reader.cursor + k <= Len(log) /\ k <= MaxListItems /\ TotalSize(Page(k)) <= MaxListResult
List ==
    \E k \in {n \in 0 .. MaxListItems : Fits(n)} : \E cursor \in {0, reader.cursor + k} :
        LET result == [messages |-> Page(k), nextCursor |-> cursor, hasMore |-> reader.cursor + k < Len(log)] IN
        /\ reader.pages < MaxPages
        /\ ListRequestValid([limit |-> MaxListItems])
        /\ k = 0 => ~Fits(1)
        /\ ListResultValid(result)
        /\ reader' = [got |-> reader.got \o [i \in 1 .. k |-> reader.cursor + i],
                      cursor |-> IF result.hasMore THEN result.nextCursor ELSE reader.cursor + k,
                      pages |-> reader.pages + 1]
        /\ UNCHANGED <<day, participants, log, records, updates, sent>> /\ inbox' = NoInbox

Summarize(counts, unread) ==
    LET result == [counts |-> counts, unread |-> unread] IN
    /\ participants = <<>>
    /\ InboxSummaryValid(result)
    /\ inbox' = result
    /\ UNCHANGED <<day, participants, log, records, updates, sent, reader>>

MessagingNext ==
    \/ \E list \in Participants : Open(list)
    \/ \E key \in {"k1", "k2"}, body \in DOMAIN Bodies, keys \in MetadataKeys : Send(key, body, keys)
    \/ NewDay
    \/ \E adapter \in Adapters, i \in DOMAIN log, to \in {"dispatching", "delivered", "failed", "unknown"},
          fault \in {"none", "unavailable"} : Update(adapter, i, to, fault)
    \/ \E u \in updates : Apply(u)
    \/ List
    \/ \E counts \in [1 .. Cardinality(Conversations) -> 0 .. Top], unread \in 0 .. Top :
          Summarize(counts, unread)

MessagingSpec == MessagingInit /\ [][MessagingNext]_messagingVars

----------------------------------------------------------------------------
(* What the service stores for a request it admitted passes the validators *)
(* of the results that carry it: no send or update leaves a message behind *)
(* that no reader may be given.                                            *)
StoredIsValid == \A i \in DOMAIN log : MessageValid(log[i])

(* A send that is repeated within the retention makes no second message    *)
(* (IdempotencyRecord's expiry).                                           *)
SentOnce ==
    \A i, j \in DOMAIN log :
        i < j /\ log[i].key = log[j].key => log[j].day - log[i].day >= RetentionDays

(* The updates of two adapters, late or repeated, start one dispatch of a  *)
(* message, and a result is never taken back (the transitions of           *)
(* DeliveryUpdateRequest).                                                 *)
DeliveryStep ==
    \A i \in DOMAIN log :
        log'[i].delivery # log[i].delivery =>
            \/ log[i].delivery.state = "pending"
            \/ log[i].delivery.state = "dispatching" /\ log'[i].delivery.state # "dispatching"
DispatchedOnce == [][DeliveryStep]_log

(* A listing gives every message once, in order, whatever cursors it is    *)
(* handed on the way (MessageListResult).                                  *)
ListedOnce == reader.got = [i \in 1 .. Len(reader.got) |-> i]

SumOf(counts) ==
    LET upTo[n \in 0 .. Len(counts)] == IF n = 0 THEN 0 ELSE upTo[n - 1] + counts[n]
    IN  upTo[Len(counts)]

(* The total a client takes is the sum of the counts, not of the counts    *)
(* modulo their width (InboxSummaryResult).                                *)
TotalIsTrue == inbox.unread = SumOf(inbox.counts)

(* A message that is sent again within the retention is stored once, is    *)
(* dispatched once by two adapters, is listed once and in order, and every *)
(* stored message and total is one a reader may be given                   *)
(* (IdempotencyRecord, DeliveryUpdateRequest, MessageListResult,           *)
(* InboxSummaryResult).                                                    *)
MessagesOnce ==
    /\ [](StoredIsValid /\ SentOnce /\ ListedOnce /\ TotalIsTrue)
    /\ DispatchedOnce
=============================================================================
