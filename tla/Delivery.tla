------------------------------ MODULE Delivery ------------------------------
(***************************************************************************)
(* What the probe promises to the Engine, without threads, queues or       *)
(* locks: every datum the addons hand over is given to the network once,   *)
(* in the order of arrival, none skipped; heartbeats (empty messages) come *)
(* in between; the message identifiers count 1, 2, ..., MsgIDMax, 1, ...   *)
(* with no gap and no repetition.  Whether the network then carries the    *)
(* message is not part of the promise: a datum is attempted once, and a    *)
(* failed attempt is not repeated.                                         *)
(***************************************************************************)
EXTENDS Integers

CONSTANTS MsgIDMax   \* the last identifier before the count restarts at 1

Heartbeat == 0       \* the element a heartbeat carries; data are 1, 2, 3, ...

VARIABLES
    accepted,    \* how many data the addons have handed over
    attempted,   \* the last datum handed to the network
    lastElem,    \* the last element handed to the network, heartbeats included
    lastID       \* the identifier of that message

deliveryVars == <<accepted, attempted, lastElem, lastID>>

Init ==
    /\ accepted = 0
    /\ attempted = 0
    /\ lastElem = -1
    /\ lastID = 0

NextID == (lastID % MsgIDMax) + 1

Accept ==
    /\ accepted' = accepted + 1
    /\ UNCHANGED <<attempted, lastElem, lastID>>

AttemptDatum ==
    /\ attempted < accepted
    /\ attempted' = attempted + 1
    /\ lastElem' = attempted + 1
    /\ lastID' = NextID
    /\ UNCHANGED accepted

AttemptHeartbeat ==
    /\ lastElem' = Heartbeat
    /\ lastID' = NextID
    /\ UNCHANGED <<accepted, attempted>>

Next == Accept \/ AttemptDatum \/ AttemptHeartbeat

Spec == Init /\ [][Next]_deliveryVars
=============================================================================
