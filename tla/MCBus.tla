------------------------------- MODULE MCBus -------------------------------
(***************************************************************************)
(* Small instances of three parts of the bus that share no state, each in  *)
(* a scene of its own while the others stay where they began: connections  *)
(* and what is mounted on them, batches published to two streams that      *)
(* overlap, and a consumer whose Ack covers all before it.                 *)
(***************************************************************************)
EXTENDS MCConnections

VARIABLES scene,
    now, log,
    lastSeq, published, stored, cs, spec, held, cursors, handed, confirmed, last, origin

connVars == vars
logVars == <<now, log>>
ackVars == <<lastSeq, published, stored, cs, spec, held, cursors, handed, confirmed, last, origin>>

L == INSTANCE StreamLog WITH
    Streams <- {"s1", "s2"}, Subjects <- {"a", "b"},
    Covers <- "s1" :> {"a", "b"} @@ "s2" :> {"b"}, Sizes <- {1}, MsgIDs <- {},
    NoID <- "noid", TTLs <- {0}, Expects <- {0, 1, 2}, MaxAge <- 1,
    MaxBytes <- 4, MaxMsgs <- 2, MaxMsgsPerSubject <- 0, Dedupe <- 1,
    NoSubject <- "none", MaxSeq <- 4, MaxTime <- 0

A == INSTANCE StreamConsumer WITH
    Subjects <- {"a"}, Filter <- {"a"}, AckPolicy <- "all", MaxDeliver <- 0, MaxAckPending <- 0,
    StartPolicies <- {"all"}, NoSubject <- "none", MaxSeq <- 2, MaxHanded <- 2, MaxCursors <- 1

BusInit == scene \in {"connections", "batch", "ack all"} /\ Init /\ L!Init /\ A!Init

BusNext ==
    /\ \/ scene = "connections" /\ Next /\ UNCHANGED <<logVars, ackVars>>
       \/ scene = "batch" /\ L!Next /\ UNCHANGED <<connVars, ackVars>>
       \/ scene = "ack all" /\ A!Next /\ UNCHANGED <<connVars, logVars>>
    /\ UNCHANGED scene

BusSpec == BusInit /\ [][BusNext]_<<scene, connVars, logVars, ackVars>>

----------------------------------------------------------------------------
(* Every message of a batch was stored at the sequence it expected, also   *)
(* after the messages before it in the batch; a batch leaves no stream     *)
(* above its limits; and each stream is still the abstract log, which only *)
(* appends, and drops what it kept (PublishBatch, trim, Purge).  A         *)
(* consumer whose Ack covers all before it skips nothing that it owes, nor *)
(* do its floor and its cursors (markAcked, Cursor).             *)
StreamsSound ==
    /\ [](scene = "batch" => L!ExpectHolds /\ L!WithinLimits)
    /\ [][scene = "batch" =>
            \A s \in {"s1", "s2"} : L!Retained(s)!Next \/ UNCHANGED L!Retained(s)!log]_logVars
    /\ [](scene = "ack all" => A!NothingSkipped /\ A!FloorSound /\ A!CursorSound)
=============================================================================
