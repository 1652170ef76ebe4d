------------------------------ MODULE Watcher ------------------------------
(***************************************************************************)
(* kvWatcher and objWatcher (v2/bus/memory/kv.go, objects.go), which are   *)
(* the same machine over entries and object metadata: a queue without a    *)
(* limit that writers append to under the store's lock, and a goroutine    *)
(* that hands its elements to the reader one at a time.                    *)
(*                                                                         *)
(* A watcher is a record: loop is where its goroutine stands (off before   *)
(* Watch, top, send with an element in hand, wait, exited, which closes    *)
(* Updates), wake the token of its one-place channel, got the set of what  *)
(* the reader received last of each key.                                   *)
(***************************************************************************)
EXTENDS Naturals, Sequences

Off == [loop |-> "off", queue |-> <<>>, hand |-> <<>>, wake |-> FALSE,
        stopped |-> FALSE, err |-> "none", got |-> {}]

(* Watch: the current elements are queued before the goroutine starts.     *)
Started(snapshot) == [Off EXCEPT !.loop = "top", !.queue = snapshot]
Running(w) == w.loop # "off"

(* offer: never blocks, and leaves a token for the goroutine.              *)
Offer_NoWake(w, e) ==
    IF ~Running(w) \/ w.stopped THEN w ELSE [w EXCEPT !.queue = Append(@, e)]
Offer(w, e) ==
    IF ~Running(w) \/ w.stopped THEN w
    ELSE [w EXCEPT !.queue = Append(@, e), !.wake = TRUE]

(* stopWith: the first reason stays.                                       *)
StopWith(w, e) ==
    IF ~Running(w) \/ w.stopped THEN w ELSE [w EXCEPT !.stopped = TRUE, !.err = e]

(* run: take the oldest element, or wait for the token.                    *)
Pop(w, v) ==
    /\ w.loop = "top"
    /\ v = IF w.queue = <<>>
           THEN [w EXCEPT !.loop = "wait"]
           ELSE [w EXCEPT !.loop = "send", !.hand = <<Head(w.queue)>>, !.queue = Tail(@)]

Woken(w, v) ==
    /\ w.loop = "wait"
    /\ w.wake
    /\ v = [w EXCEPT !.loop = "top", !.wake = FALSE]

(* The reader receives the element in hand.                                *)
Hand(w, v) ==
    /\ w.loop = "send"
    /\ v = [w EXCEPT !.loop = "top", !.hand = <<>>,
                     !.got = {e \in @ : e.key # w.hand[1].key} \cup {w.hand[1]}]

(* doneCh is closed: either select may take it, and Updates is closed.     *)
Exit(w, v) ==
    /\ w.loop \in {"send", "wait"}
    /\ w.stopped
    /\ v = [w EXCEPT !.loop = "exited", !.hand = <<>>]

(* What the watcher will still deliver, in order, and the last that it has *)
(* delivered or will deliver of a key, a set of at most one.               *)
Pending(w) == w.hand \o w.queue
LastSaid(w, k) ==
    LET p == Pending(w)
        at == {i \in DOMAIN p : p[i].key = k}
    IN  IF at = {} THEN {e \in w.got : e.key = k}
        ELSE {p[i] : i \in {i \in at : \A j \in at : j <= i}}
=============================================================================
