---------------------------- MODULE MCConsumer ----------------------------
(***************************************************************************)
(* A small instance of StreamConsumer in two modes: with clients that do   *)
(* anything, and with a handler that settles what it is given, for which   *)
(* the store's polling is fair.                                            *)
(***************************************************************************)
EXTENDS StreamConsumer

VARIABLE mode

ModeInit == mode \in {"any", "settling"} /\ Init

ModeNext ==
    /\ \/ mode = "any" /\ Next
       \/ mode = "settling" /\ LiveNext
    /\ UNCHANGED mode

Fairness ==
    /\ WF_vars(mode = "settling" /\ PollOn(stored))
    /\ \A q \in Seqs : WF_vars(mode = "settling" /\ Ack(q))

ModeSpec == ModeInit /\ [][ModeNext]_<<mode, vars>> /\ Fairness

(* Every owed message is handed over and settled in the end, with room for *)
(* one pending message at a time (MaxAckPending, poll).                    *)
SettledInTheEnd == \A q \in Seqs : [](mode = "settling" /\ Owed(q) => <>~Owed(q))
=============================================================================
