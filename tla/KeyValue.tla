------------------------------ MODULE KeyValue ------------------------------
(***************************************************************************)
(* Key-value buckets and their watchers (v2/bus/memory/kv.go).  The store  *)
(* maps the one bucket name modelled to an incarnation of the bucket;      *)
(* handles and watchers keep a pointer to theirs, and go on with it after  *)
(* the bucket is deleted and declared again.  Every operation is one step, *)
(* under the store's lock.                                                 *)
(*                                                                         *)
(* A value is a count: a client that updates writes one more than it read, *)
(* as a reconciler does.                                                   *)
(***************************************************************************)
EXTENDS Naturals, FiniteSets, Functions, SequencesExt, Watcher

CONSTANTS
    Clients,        \* plugins that hold a handle to the bucket
    Keys,           \* a sequence: the keys in the order Watch sorts them
    Filter,         \* the keys the watcher's filter matches
    History,        \* BucketSpec.History, zero for one
    TTL,            \* BucketSpec.TTL is not zero
    MaxBuckets,     \* bound: incarnations of the bucket
    MaxWrites       \* bound: writes in all

ASSUME KeysAssumption ==
    /\ Keys \in Seq(Range(Keys))
    /\ \A i, j \in DOMAIN Keys : Keys[i] = Keys[j] => i = j
ASSUME NumbersAssumption == History \in Nat /\ MaxBuckets \in Nat /\ TTL \in BOOLEAN

VARIABLES
    bound,          \* the incarnation store.buckets holds, zero if none
    made,           \* incarnations declared so far
    rev, keys,      \* of each incarnation: its revision, and key -> entries
    old,            \* keys whose current entry is older than the TTL
    handle,         \* the incarnation each client's handle points to, or zero
    read,           \* the entry each client last got, as a sequence of at most one
    watcher, of,    \* the watcher, and the incarnation it is registered in
    late,           \* history: it was registered in a bucket already deleted
    updates         \* history: updates to a key since a Put or Create of it

bucketVars == <<bound, made, rev, keys, old, updates>>
vars == <<bucketVars, handle, read, watcher, of, late>>

KeySet == Range(Keys)
Buckets == 1 .. MaxBuckets
Entry == [key : KeySet, value : Nat, rev : Nat, deleted : BOOLEAN]

Init ==
    /\ bound = 0
    /\ made = 0
    /\ rev = [b \in Buckets |-> 0]
    /\ keys = [b \in Buckets |-> [k \in KeySet |-> <<>>]]
    /\ old = [b \in Buckets |-> {}]
    /\ handle = [c \in Clients |-> 0]
    /\ read = [c \in Clients |-> <<>>]
    /\ watcher = Off
    /\ of = 0
    /\ late = FALSE
    /\ updates = [b \in Buckets |-> [k \in KeySet |-> 0]]

----------------------------------------------------------------------------
(* kvBucket.                                                               *)
Kept == IF History = 0 THEN 1 ELSE History
Current(b, k) == Last(keys[b][k])
Exists(b, k) == keys[b][k] # <<>>
Expired(b, k) == k \in old[b]
Live(b, k) == Exists(b, k) /\ ~Current(b, k).deleted /\ ~Expired(b, k)

Writes == FoldFunction(LAMBDA x, y : x + y, 0, rev)

(* append: the newest entries stay, and every watcher is offered the new.  *)
Trim(h) == IF Len(h) > Kept THEN SubSeq(h, Len(h) - Kept + 1, Len(h)) ELSE h

Offered(b, e) == IF of = b /\ e.key \in Filter THEN Offer(watcher, e) ELSE watcher

NewEntry(b, k, v, deleted) ==
    [key |-> k, value |-> v, rev |-> rev[b] + 1, deleted |-> deleted]

Write(b, k, v, deleted) ==
    /\ Writes < MaxWrites
    /\ rev' = [rev EXCEPT ![b] = @ + 1]
    /\ keys' = [keys EXCEPT ![b][k] = Trim(Append(@, NewEntry(b, k, v, deleted)))]
    /\ old' = [old EXCEPT ![b] = @ \ {k}]
    /\ watcher' = Offered(b, NewEntry(b, k, v, deleted))

Fresh(b, k) == updates' = [updates EXCEPT ![b][k] = 0]

----------------------------------------------------------------------------
(* kvAPI: Declare confirms a bucket that exists, Delete stops its watchers *)
(* and forgets it.                                                         *)
Declare ==
    /\ bound = 0
    /\ made < MaxBuckets
    /\ made' = made + 1
    /\ bound' = made + 1
    /\ UNCHANGED <<rev, keys, old, updates, handle, read, watcher, of, late>>

Open(c) ==
    /\ bound # 0
    /\ handle[c] # bound
    /\ handle' = [handle EXCEPT ![c] = bound]
    /\ read' = [read EXCEPT ![c] = <<>>]
    /\ UNCHANGED <<bucketVars, watcher, of, late>>

DeleteBucket ==
    /\ bound # 0
    /\ watcher' = IF of = bound THEN StopWith(watcher, "withdrawn") ELSE watcher
    /\ bound' = 0
    /\ UNCHANGED <<made, rev, keys, old, updates, handle, read, of, late>>

----------------------------------------------------------------------------
(* bucket, through a client's handle.                                      *)
Get(c, k) ==
    /\ handle[c] # 0
    /\ Live(handle[c], k)
    /\ read' = [read EXCEPT ![c] = <<Current(handle[c], k)>>]
    /\ UNCHANGED <<bucketVars, handle, watcher, of, late>>

Put(c, k) ==
    /\ handle[c] # 0
    /\ Write(handle[c], k, 0, FALSE)
    /\ Fresh(handle[c], k)
    /\ UNCHANGED <<bound, made, handle, read, of, late>>

Create(c, k) ==
    /\ handle[c] # 0
    /\ ~Live(handle[c], k)
    /\ Write(handle[c], k, 0, FALSE)
    /\ Fresh(handle[c], k)
    /\ UNCHANGED <<bound, made, handle, read, of, late>>

(* The compare-and-swap of a value read earlier.                           *)
SameRevision_Ignored(b, e) == TRUE
SameRevision(b, e) == Current(b, e.key).rev = e.rev

Update(c) ==
    LET e == read[c][1] IN
    /\ read[c] # <<>>
    /\ Live(handle[c], e.key)
    /\ SameRevision(handle[c], e)
    /\ Write(handle[c], e.key, e.value + 1, FALSE)
    /\ updates' = [updates EXCEPT ![handle[c]][e.key] = @ + 1]
    /\ UNCHANGED <<bound, made, handle, read, of, late>>

(* Delete does not look at the TTL: an expired key gets a tombstone.       *)
DeleteKey(c, k) ==
    /\ handle[c] # 0
    /\ Exists(handle[c], k)
    /\ ~Current(handle[c], k).deleted
    /\ Write(handle[c], k, 0, TRUE)
    /\ Fresh(handle[c], k)
    /\ UNCHANGED <<bound, made, handle, read, of, late>>

(* Purge takes a revision of its own, so a revision is never used twice.   *)
Purge(c, k) ==
    LET b == handle[c] IN
    /\ b # 0
    /\ Exists(b, k)
    /\ Writes < MaxWrites
    /\ keys' = [keys EXCEPT ![b][k] = <<>>]
    /\ rev' = [rev EXCEPT ![b] = @ + 1]
    /\ old' = [old EXCEPT ![b] = @ \ {k}]
    /\ watcher' = Offered(b, NewEntry(b, k, 0, TRUE))
    /\ Fresh(b, k)
    /\ UNCHANGED <<bound, made, handle, read, of, late>>

(* Watch queues the live entries that match, sorted by key, and registers  *)
(* the watcher under the same hold of the lock.                            *)
Snapshot(b) ==
    LET upTo[i \in 0 .. Len(Keys)] ==
          IF i = 0 THEN <<>>
          ELSE IF Keys[i] \in Filter /\ Live(b, Keys[i])
               THEN Append(upTo[i - 1], Current(b, Keys[i])) ELSE upTo[i - 1]
    IN  upTo[Len(Keys)]

Watch(c) ==
    /\ handle[c] # 0
    /\ ~Running(watcher)
    /\ watcher' = Started(Snapshot(handle[c]))
    /\ of' = handle[c]
    /\ late' = (handle[c] # bound)
    /\ UNCHANGED <<bucketVars, handle, read>>

----------------------------------------------------------------------------
(* The watcher: its goroutine, its reader, Stop, and the end of the        *)
(* connection.                                                             *)
Rest == <<bucketVars, handle, read, of, late>>
Run == (Pop(watcher, watcher') \/ Woken(watcher, watcher') \/ Exit(watcher, watcher'))
       /\ UNCHANGED Rest
Read == Hand(watcher, watcher') /\ UNCHANGED Rest
Stop ==
    /\ Running(watcher)
    /\ ~watcher.stopped
    /\ watcher' = StopWith(watcher, "none")
    /\ UNCHANGED Rest

CloseConn ==
    /\ Running(watcher)
    /\ ~watcher.stopped
    /\ watcher' = StopWith(watcher, "withdrawn")
    /\ UNCHANGED Rest

(* The TTL of a key's current entry passes: nothing is written or sent.    *)
Expire(b, k) ==
    /\ TTL
    /\ Exists(b, k)
    /\ ~Expired(b, k)
    /\ old' = [old EXCEPT ![b] = @ \cup {k}]
    /\ UNCHANGED <<bound, made, rev, keys, updates, handle, read, watcher, of, late>>

Next ==
    \/ Declare \/ DeleteBucket
    \/ \E c \in Clients :
        \/ Open(c) \/ Update(c) \/ Watch(c)
        \/ \E k \in KeySet : Get(c, k) \/ Put(c, k) \/ Create(c, k) \/ DeleteKey(c, k) \/ Purge(c, k)
    \/ Run \/ Read \/ Stop \/ CloseConn
    \/ \E b \in Buckets, k \in KeySet : Expire(b, k)

Spec == Init /\ [][Next]_vars

----------------------------------------------------------------------------
(* Types, and the limit on the entries kept of a key.                      *)
TypeOK ==
    /\ old \in [Buckets -> SUBSET KeySet]
    /\ bound \in 0 .. MaxBuckets
    /\ made \in 0 .. MaxBuckets
    /\ rev \in [Buckets -> Nat]
    /\ \A b \in Buckets, k \in KeySet :
           keys[b][k] \in Seq(Entry) /\ Len(keys[b][k]) <= Kept
    /\ handle \in [Clients -> 0 .. MaxBuckets]
    /\ \A c \in Clients : read[c] \in Seq(Entry) /\ Len(read[c]) <= 1
    /\ watcher.loop \in {"off", "top", "send", "wait", "exited"}
    /\ Pending(watcher) \in Seq(Entry) /\ watcher.got \subseteq Entry
    /\ of \in 0 .. MaxBuckets

(* Two reconcilers that read, add one and write with Update never lose an  *)
(* update, whatever Put, Delete, Purge, expiry and a deleted bucket do in  *)
(* between: the value counts exactly the updates since it was last set.    *)
NoLostUpdate ==
    \A b \in Buckets, k \in KeySet :
        Exists(b, k) => Current(b, k).value = updates[b][k]

(* A watcher that was not stopped mirrors its bucket: for every key it     *)
(* watches, the last entry it delivered or will deliver is the bucket's    *)
(* current one, and a tombstone or nothing where the key is gone.  (Expiry *)
(* is not reported: a key that expires leaves the bucket only.)            *)
Mirrored(k) ==
    IF Exists(of, k) /\ ~Current(of, k).deleted
    THEN \/ LastSaid(watcher, k) = {Current(of, k)}
         \/ LastSaid(watcher, k) = {} /\ Expired(of, k)
    ELSE \A e \in LastSaid(watcher, k) : e.deleted
MirrorExact ==
    Running(watcher) /\ ~watcher.stopped => \A k \in Filter \cap KeySet : Mirrored(k)

(* What the watcher delivers of one key is in the order of its revisions,  *)
(* each once, the snapshot included.                                       *)
StreamInOrder ==
    LET p == Pending(watcher) IN
    /\ \A i, j \in DOMAIN p : i < j /\ p[i].key = p[j].key => p[i].rev < p[j].rev
    /\ \A e \in watcher.got, i \in DOMAIN p : e.key = p[i].key => e.rev < p[i].rev

(* Deleting a bucket stops its watcher.  (One opened later on a handle to  *)
(* the deleted bucket is not stopped, and sees what that handle writes.)   *)
DeletedStops == Running(watcher) /\ of # bound /\ ~late => watcher.stopped

(* In a bucket that is written, expires, is deleted and made again under   *)
(* open handles, no update is lost; its watcher's stream is in order, ends *)
(* with the bucket as it is, and ends with the bucket (Update, append,     *)
(* Watch, Delete).                                                         *)
BucketIsFaithful ==
    TypeOK /\ NoLostUpdate /\ MirrorExact /\ StreamInOrder /\ DeletedStops
=============================================================================
