----------------------------- MODULE SenderTest -----------------------------
(***************************************************************************)
(* The sender thread against an Engine that speaks TLS: the unit test      *)
(* testSender (src/unit_tests/sendercunittest.c).  Its main thread puts    *)
(* two elements in the queue, starts a server thread and, a second later,  *)
(* the sender of Pipeline; the server stops after two messages, main joins *)
(* it, looks at the queue and stops the sender.                            *)
(*                                                                         *)
(* The server takes one connection at a time: while its callback runs, the *)
(* next one waits in the backlog and the sender in the handshake.  That    *)
(* opens the step PopSDElementSend of Pipeline; the other steps of the     *)
(* sender are those of Pipeline.  The second of sleep orders nothing.      *)
(***************************************************************************)
EXTENDS Pipeline

CONSTANT Lenght   \* messages after which the server stops (2), as the test spells it

ASSUME SenderTestAssumption == Lenght \in Nat \ {0}

\* The test is over long before a heartbeat each second, behind its two
\* elements, uses up the identifiers of an unsigned short.
ASSUME DurationAssumption == MaxClock \in Nat \ {0} /\ MaxClock + 2 <= MsgIDMax

VARIABLES
    testPC,      \* where the main thread of the test is
    serverPC,    \* where the server thread is
    listening,   \* is the port open?
    pending,     \* does a connection wait in the backlog?
    sendPC,      \* where sendMessage is in its exchange
    conn,        \* what the connection being served holds
    values,      \* the messages the callback has stored
    sent,        \* history: messages that sendMessage reported as sent
    unread       \* history: messages whose read failed

netVars == <<listening, pending, sendPC, conn, sent>>
serverVars == <<serverPC, values, unread>>
testVars == <<testPC, netVars, serverVars>>

NoData == [id |-> -1, elem |-> Null]   \* nothing written yet
EndOfFile == [id |-> 0, elem |-> Null] \* closed without a message: the empty string

TestInit ==
    /\ sdQueue = <<1, 2>> /\ accepted = 2
    /\ collectQueue = <<>> /\ collectMutex = Free /\ sdMutex = Free
    /\ pc = [t \in Threads |-> IF t = "format" THEN "exited" ELSE "while"]
    /\ poped = [t \in Threads |-> Null] /\ last = [t \in Threads |-> Null]
    /\ addonPC = [a \in Addons |-> "cancelled"]
    /\ signum = 0 /\ msgID = 0 /\ tmpTime = 0 /\ collectTime = 0 /\ clock = 1 /\ behind = 0
    /\ attempted = 0 /\ wire = [id |-> 0, elem |-> Null, at |-> 0]
    /\ testPC = "create" /\ serverPC = "start"
    /\ listening = FALSE /\ pending = FALSE
    /\ sendPC = "connect" /\ conn = NoData
    /\ values = <<>> /\ sent = {} /\ unread = {}

Message == [id |-> msgID, elem |-> poped["sender"]]

-----------------------------------------------------------------------------
(* sendMessage over TLS, inside popSDElementQueue. *)

At(point) == pc["sender"] = "send" /\ sendPC = point

\* Fault: a connection that is refused is tried again.
ConnectRetried ==
    /\ At("connect")
    /\ IF listening THEN sendPC' = "handshake" ELSE UNCHANGED sendPC
    /\ pending' = listening
    /\ UNCHANGED <<vars, listening, conn, sent>>

Connect ==
    /\ At("connect")
    /\ IF listening THEN sendPC' = "handshake" ELSE sendPC' = "failed"
    /\ pending' = listening
    /\ UNCHANGED <<vars, listening, conn, sent>>

\* The write, and the end of the connection; an error sends nothing.
Write ==
    /\ At("write")
    /\ \/ conn' = Message /\ sent' = sent \cup {Message}
       \/ conn' = EndOfFile /\ UNCHANGED sent
    /\ sendPC' = "connect"
    /\ PopSDElementSend
    /\ UNCHANGED <<listening, pending>>

\* Fault: the exchange is not over when sendMessage is left.
FailKept ==
    /\ At("failed")
    /\ PopSDElementSend
    /\ UNCHANGED netVars

Fail ==
    /\ At("failed")
    /\ sendPC' = "connect"
    /\ PopSDElementSend
    /\ UNCHANGED <<listening, pending, conn, sent>>

SendMessage == (Connect \/ Write \/ Fail) /\ UNCHANGED <<testPC, serverVars>>

SenderElsewhere ==
    /\ testPC # "create"
    /\ \/ SenderWhile \/ HeartBeat \/ PushSDElementQueue("sender") \/ SenderPeek
       \/ PopSDElementLock \/ PopSDElementTest \/ PopSDElementRemove \/ PopSDElementUnlock
       \/ SenderWrap \/ SenderSleep
    /\ UNCHANGED testVars

-----------------------------------------------------------------------------
(* The server thread: server and incoming_callback. *)

\* A port that cannot be opened is reported, and the loop runs all the same.
ServerListen ==
    /\ serverPC = "start"
    /\ listening' \in BOOLEAN
    /\ serverPC' = "loop"
    /\ UNCHANGED <<vars, testPC, pending, sendPC, conn, sent, values, unread>>

\* The callback up to the handshake: done on both sides; without certificate or
\* TLS connection, and the connection closed; or failed.  A handshake that failed
\* leaves tls_conn, which keeps the connection open: its client fails as well, or
\* waits for an answer that nobody will give.
Incoming ==
    /\ serverPC = "loop" /\ pending
    /\ pending' = FALSE
    /\ \/ sendPC' = "write" /\ serverPC' = "read" /\ conn' = NoData
       \/ sendPC' \in {"failed", "abandoned"} /\ UNCHANGED <<serverPC, conn>>
    /\ UNCHANGED <<vars, testPC, listening, sent, values, unread>>

\* Faults: the callback is not left after a message; the test of cpt is off
\* by one; a read that is too short is not stored.
ReadAgain ==
    /\ serverPC = "read" /\ conn # NoData
    /\ values' = Append(values, conn)
    /\ serverPC' = IF Len(values') = Lenght THEN "stop" ELSE "read"
    /\ UNCHANGED <<vars, testPC, netVars, unread>>
ReadOneMore ==
    /\ serverPC = "read" /\ conn # NoData
    /\ values' = Append(values, conn)
    /\ serverPC' = IF Len(values') > Lenght THEN "stop" ELSE "loop"
    /\ UNCHANGED <<vars, testPC, netVars, unread>>
ReadForgets ==
    /\ serverPC = "read" /\ conn # NoData
    /\ values' \in {values, Append(values, conn)}
    /\ serverPC' = IF Len(values') = Lenght THEN "stop" ELSE "loop"
    /\ UNCHANGED <<vars, testPC, netVars, unread>>

\* The one read of the callback, which waits for data or the end of the
\* connection; an error stores nothing.
Read ==
    /\ serverPC = "read" /\ conn # NoData
    /\ \/ /\ values' = Append(values, conn)
          /\ serverPC' = IF Len(values') = Lenght THEN "stop" ELSE "loop"
          /\ UNCHANGED unread
       \/ /\ unread' = unread \cup {conn}
          /\ serverPC' = "loop"
          /\ UNCHANGED values
    /\ UNCHANGED <<vars, testPC, netVars>>

\* g_socket_service_stop and g_socket_listener_close: the connection in the
\* backlog is reset.
ServerStop ==
    /\ serverPC = "stop"
    /\ listening' = FALSE /\ pending' = FALSE
    /\ sendPC' = IF pending THEN "failed" ELSE sendPC
    /\ serverPC' = "ended"
    /\ UNCHANGED <<vars, testPC, conn, sent, values, unread>>

Server == ServerListen \/ Incoming \/ Read \/ ServerStop

-----------------------------------------------------------------------------
(* The main thread of the test. *)

\* The server is created before and the sender after a second of sleep.
CreateSender ==
    /\ testPC = "create"
    /\ testPC' = "join"
    /\ UNCHANGED <<vars, netVars, serverVars>>

JoinServer ==
    /\ testPC = "join" /\ serverPC = "ended"
    /\ testPC' = "assert"
    /\ UNCHANGED <<vars, netVars, serverVars>>

\* The assertions, and signum = SIGTERM.
StopSender ==
    /\ testPC = "assert"
    /\ testPC' = "cancel"
    /\ Signal
    /\ UNCHANGED <<netVars, serverVars>>

TestMain == CreateSender \/ JoinServer \/ StopSender

TestTick == Tick /\ UNCHANGED testVars

\* The sender has ended, or the server still waits when time is over, as it does
\* for ever when the sender was abandoned.
TestEnded ==
    /\ \/ testPC = "cancel" /\ pc["sender"] = "exited"
       \/ testPC = "join" /\ clock = MaxClock
    /\ UNCHANGED <<vars, testVars>>

TestNext == SendMessage \/ SenderElsewhere \/ Server \/ TestMain \/ TestTick \/ TestEnded

TestSpec == TestInit /\ [][TestNext]_<<vars, testVars>>

\* The three threads run; a read or a handshake waits for its peer only.
TestFairness ==
    /\ WF_<<vars, testVars>>(SendMessage) /\ WF_<<vars, testVars>>(SenderElsewhere)
    /\ WF_<<vars, testVars>>(Server) /\ WF_<<vars, testVars>>(TestMain)

TestFairSpec == TestSpec /\ TestFairness

-----------------------------------------------------------------------------
(* Properties *)

Messages == [id : 0 .. MsgIDMax, elem : Elements]

\* Type invariant.
TestTypeOK ==
    /\ testPC \in {"create", "join", "assert", "cancel"}
    /\ serverPC \in {"start", "loop", "read", "stop", "ended"}
    /\ listening \in BOOLEAN /\ pending \in BOOLEAN
    /\ sendPC \in {"connect", "handshake", "write", "failed", "abandoned"}
    /\ sendPC # "connect" => pc["sender"] = "send"
    /\ conn \in Messages \cup {NoData}
    /\ values \in Seq(Messages) /\ sent \subseteq Messages /\ unread \subseteq Messages

\* s is in the order of the identifiers, and the data in it in that of the queue.
InOrder(s) ==
    \A i, j \in 1 .. Len(s) :
        i < j /\ s[i] # EndOfFile /\ s[j] # EndOfFile =>
            /\ s[i].id < s[j].id
            /\ s[j].elem # Heartbeat => s[i].elem < s[j].elem

\* The Engine gets messages in the order of the queue and of their identifiers,
\* and none twice, whichever of them fail on the way.
ReceivedInOrder == InOrder(values)

\* The callback never stores past the array of the test, although the sender
\* goes on with a heartbeat behind the two elements.
NoValueOverrun == Len(values) <= Lenght

\* A message that sendMessage reported as sent is stored, about to be read, or
\* its read has failed: also the one that was under way when the server stopped.
SentIsReceived ==
    \A m \in sent :
        (\E i \in DOMAIN values : values[i] = m) \/ m \in unread \/ (serverPC = "read" /\ conn = m)

\* The sender under test keeps the promise of Delivery from where the test
\* starts it, with two data accepted: each one attempted once and in order, the
\* identifiers without gap, whatever becomes of the exchanges.
SendsAsDelivery == [][D!Next]_(D!deliveryVars)

\* sendMessage returns, and with it the SD-Element mutex, though it waits for a
\* server that is busy with the connection before, or has stopped.  Only the
\* callback that gives up a handshake and keeps its connection can hold it.
SendReturns == pc["sender"] = "send" ~> pc["sender"] # "send" \/ sendPC = "abandoned"

\* When the server has received its messages the queue is empty ("Verifie que
\* la queue est vide").
QueueEmptyAfterJoin == testPC = "assert" => sdQueue = <<>>

-----------------------------------------------------------------------------
(* The inductive invariant behind the safety properties (SenderTestProof);   *)
(* what the sender does between two exchanges is in IInv of Pipeline.        *)

\* The two ends of a connection: the backlog holds one for which the sender
\* waits in the handshake, the server reads one on which it has to write.
NetInv ==
    /\ pending <=> sendPC = "handshake"
    /\ serverPC = "read" /\ conn = NoData <=> sendPC = "write"
    /\ sendPC \in {"failed", "abandoned"} => serverPC # "read"
    /\ pending \/ serverPC = "read" => listening
    /\ serverPC = "start" => ~ listening

\* Nobody but the sender works on the queue.
AloneInv ==
    /\ pc["format"] = "exited" /\ collectQueue = <<>> /\ accepted = 2
    /\ behind = 0 /\ clock <= MaxClock

\* A heartbeat moves tmpTime on, so that messages are no more than the data
\* and the seconds: no identifier comes round again.
Waiting == IF Holds(sdQueue, Heartbeat) /\ ~ (pc["sender"] = "pop" /\ poped["sender"] = Heartbeat)
           THEN 1 ELSE 0   \* heartbeats queued and not handed to sendMessage
Pushed == IF pc["sender"] = "pushUnlock" THEN 1 ELSE 0   \* of which tmpTime does not know
CountInv ==
    /\ wire.id + Waiting <= attempted + tmpTime + Pushed
    /\ tmpTime <= collectTime /\ collectTime <= clock
    /\ pc["sender"] = "heartbeat" => collectTime > 0
    /\ pc["sender"] \in PushPC => collectTime > tmpTime

\* What the server has stored, with the message it is about to read: older
\* than the next message, and in order.
Received == IF serverPC = "read" /\ conn # NoData THEN Append(values, conn) ELSE values
Older(s, id, elem) ==
    \A i \in 1 .. Len(s) :
        s[i] = EndOfFile \/ (s[i].id \in 1 .. id /\ s[i].elem \in 0 .. elem)
ReceivedInv == InOrder(Received) /\ Older(Received, wire.id, attempted)

\* The server leaves its loop with the array full.
RoomInv ==
    /\ Len(values) <= Lenght
    /\ serverPC \in {"start", "loop", "read"} => Len(values) < Lenght

TestInv ==
    /\ IInv /\ TestTypeOK /\ NetInv /\ AloneInv /\ CountInv /\ ReceivedInv /\ RoomInv
    /\ SentIsReceived
=============================================================================
