---------------------------- MODULE RetainedLog ----------------------------
(***************************************************************************)
(* What a stream promises its consumers.  Sequence numbers are assigned    *)
(* once and in order, a message never changes, and one that was dropped    *)
(* never comes back.  Which messages are dropped, and when, is left open:  *)
(* module StreamLog says which the limits drop and is shown to implement   *)
(* this module; module StreamConsumer reads a log of this kind.            *)
(***************************************************************************)
EXTENDS Naturals

CONSTANTS
    Subjects,   \* subjects of messages
    NoSubject,  \* not a subject
    MaxSeq      \* bound: sequence numbers

VARIABLES
    lastSeq,    \* the last sequence assigned
    published,  \* the subject of each sequence, also of dropped ones
    stored      \* the sequences still stored

log == <<lastSeq, published, stored>>

Empty == /\ lastSeq = 0
         /\ published = [q \in 1 .. MaxSeq |-> NoSubject]
         /\ stored = {}

(* One message, or a batch of messages, takes the next sequences up to n.  *)
Append(n, pub, kept) ==
    /\ lastSeq' = n
    /\ published' = [q \in 1 .. MaxSeq |->
                        IF q \in lastSeq + 1 .. n THEN pub[q] ELSE published[q]]
    /\ stored' = kept

Remove(kept) ==
    /\ stored' = kept
    /\ UNCHANGED <<lastSeq, published>>

(* The stream is deleted, and may be declared again.                       *)
Recreate ==
    /\ lastSeq' = 0
    /\ published' = [q \in 1 .. MaxSeq |-> NoSubject]
    /\ stored' = {}

Next ==
    \/ \E n \in lastSeq + 1 .. MaxSeq :
         \E pub \in [lastSeq + 1 .. n -> Subjects],
            kept \in SUBSET (stored \cup lastSeq + 1 .. n) : Append(n, pub, kept)
    \/ \E kept \in SUBSET stored : Remove(kept)
    \/ Recreate

Spec == Empty /\ [][Next]_log
=============================================================================
