------------------------------ MODULE Objects ------------------------------
(***************************************************************************)
(* The object store (v2/bus/memory/objects.go): Put reads the whole body   *)
(* before it takes the store's lock, then replaces the object at once; a   *)
(* watcher is told of every object added, changed or removed.              *)
(*                                                                         *)
(* A body is a model value; its length is what MaxBytes is compared with,  *)
(* and its digest names it.  An element of the watcher's stream is the     *)
(* object's metadata, with an empty digest for an object that is removed.  *)
(***************************************************************************)
EXTENDS Naturals, SequencesExt, Watcher

CONSTANTS
    Putters,        \* goroutines that call Put, once each
    ObjectNames,    \* a sequence: the object names, sorted
    Bodies,         \* [bodies -> their length]
    MaxBytes,       \* BucketSpec.MaxBytes, zero for no limit
    MaxDeletes      \* bound: calls of Delete

VARIABLES
    declared,       \* the bucket exists
    objs,           \* objBucket.objs: name -> its data and metadata, or nothing
    body,           \* what each Put has read, before it takes the lock
    outcome,        \* what each Put returned
    deletes,
    objWatcher      \* the one watcher

objVars == <<declared, objs, body, outcome, deletes, objWatcher>>

NameSet == Range(ObjectNames)

Init ==
    /\ declared = FALSE
    /\ objs = [n \in NameSet |-> <<>>]
    /\ body = [p \in Putters |-> <<>>]
    /\ outcome = [p \in Putters |-> "none"]
    /\ deletes = 0
    /\ objWatcher = Off

Meta(n, digest, size) == [key |-> n, digest |-> digest, size |-> size]

Declare ==
    /\ ~declared
    /\ declared' = TRUE
    /\ UNCHANGED <<objs, body, outcome, deletes, objWatcher>>

(* io.ReadAll and the digest, outside the lock.                            *)
ReadBody(p, n, b) ==
    /\ outcome[p] = "none"
    /\ body[p] = <<>>
    /\ body' = [body EXCEPT ![p] = <<[name |-> n, data |-> b]>>]
    /\ UNCHANGED <<declared, objs, outcome, deletes, objWatcher>>

ReadFails(p) ==
    /\ outcome[p] = "none"
    /\ body[p] = <<>>
    /\ outcome' = [outcome EXCEPT ![p] = "unhandled"]
    /\ UNCHANGED <<declared, objs, body, deletes, objWatcher>>

TooLarge(b) == MaxBytes > 0 /\ Bodies[b] > MaxBytes

(* Put under the lock: the bucket, the limit, then the whole object.       *)
Offered(p) ==
    LET x == body[p][1] IN
    IF declared /\ ~TooLarge(x.data)
    THEN Offer(objWatcher, Meta(x.name, x.data, Bodies[x.data])) ELSE objWatcher

Put(p) ==
    LET x == body[p][1] IN
    /\ body[p] # <<>>
    /\ outcome[p] = "none"
    /\ objWatcher' = Offered(p)
    /\ \/ /\ ~declared
          /\ outcome' = [outcome EXCEPT ![p] = "not_found"]
          /\ UNCHANGED objs
       \/ /\ declared /\ TooLarge(x.data)
          /\ outcome' = [outcome EXCEPT ![p] = "budget"]
          /\ UNCHANGED objs
       \/ /\ declared /\ ~TooLarge(x.data)
          /\ outcome' = [outcome EXCEPT ![p] = "ok"]
          /\ objs' = [objs EXCEPT ![x.name] =
                         <<[data |-> x.data, meta |-> Meta(x.name, x.data, Bodies[x.data])]>>]
    /\ UNCHANGED <<declared, body, deletes>>

Delete(n) ==
    /\ declared
    /\ deletes < MaxDeletes
    /\ objs[n] # <<>>
    /\ objs' = [objs EXCEPT ![n] = <<>>]
    /\ deletes' = deletes + 1
    /\ objWatcher' = Offer(objWatcher, Meta(n, "", 0))
    /\ UNCHANGED <<declared, body, outcome>>

(* Watch: the metadata of every object, sorted by name, under the lock the *)
(* watcher is registered under.                                            *)
Snapshot ==
    LET present == SelectSeq(ObjectNames, LAMBDA n : objs[n] # <<>>)
    IN [i \in DOMAIN present |-> objs[present[i]][1].meta]

Watch ==
    /\ declared
    /\ ~Running(objWatcher)
    /\ objWatcher' = Started(Snapshot)
    /\ UNCHANGED <<declared, objs, body, outcome, deletes>>

Rest == <<declared, objs, body, outcome, deletes>>
Run == /\ Pop(objWatcher, objWatcher') \/ Woken(objWatcher, objWatcher')
          \/ Exit(objWatcher, objWatcher')
       /\ UNCHANGED Rest
Read == Hand(objWatcher, objWatcher') /\ UNCHANGED Rest
Stop == /\ Running(objWatcher)
        /\ ~objWatcher.stopped
        /\ objWatcher' = StopWith(objWatcher, "none")
        /\ UNCHANGED Rest

Next ==
    \/ Declare \/ Watch \/ Run \/ Read \/ Stop
    \/ \E p \in Putters :
        \/ Put(p) \/ ReadFails(p)
        \/ \E n \in NameSet, b \in DOMAIN Bodies : ReadBody(p, n, b)
    \/ \E n \in NameSet : Delete(n)

(* The watcher's goroutine runs; its reader reads until it calls Stop.     *)
Fairness == WF_objVars(Run) /\ WF_objVars(Read /\ ~objWatcher.stopped)
Spec == Init /\ [][Next]_objVars /\ Fairness

----------------------------------------------------------------------------
(* The watcher's stream ends, for every name, with the object's metadata,  *)
(* or with a removal or nothing where there is no such object: a Put that  *)
(* is refused, for its size or for the bucket, is not announced.           *)
ObjectsMirrored ==
    Running(objWatcher) /\ ~objWatcher.stopped =>
        \A n \in NameSet :
            IF objs[n] # <<>> THEN LastSaid(objWatcher, n) = {objs[n][1].meta}
            ELSE \A m \in LastSaid(objWatcher, n) : m.digest = ""

(* Everything queued reaches a reader that keeps reading: no wake-up is    *)
(* lost between offer and run.                                             *)
QueueDrains == objWatcher.queue # <<>> ~> objWatcher.queue = <<>> \/ objWatcher.stopped

(* A watcher that is stopped closes Updates, also with an element in hand, *)
(* no reader and a queue behind it.                                        *)
StopCloses == objWatcher.stopped ~> objWatcher.loop = "exited"
=============================================================================
