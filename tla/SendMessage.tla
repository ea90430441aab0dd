----------------------------- MODULE SendMessage ----------------------------
(***************************************************************************)
(* One message to the Engine: sendMessage, initConnection and              *)
(* endConnection (src/src/sender.c), called over and over by the sender    *)
(* thread while it holds the SD-Element mutex.  A message is its length,   *)
(* the line feed that ends it included.  The protocol is what loadConf     *)
(* made of the configuration file (Conf): 0 is TLS over TCP, 1 is UDP, and *)
(* any other number gives a stream socket that nobody connects.            *)
(*                                                                         *)
(* errno belongs to the sender thread: no library call sets it to zero.    *)
(* gethostbyname reports in h_errno and need not set it.                   *)
(*                                                                         *)
(* Bound of the model checked: MaxCalls messages.                          *)
(***************************************************************************)
EXTENDS Conf

CONSTANTS
    BufSize,     \* size of completMsg (480)
    Lengths,     \* lengths of the messages to compose
    MaxCalls     \* bound: how many messages are sent

ASSUME SendMessageAssumption ==
    /\ BufSize \in Nat \ {0, 1}
    /\ Lengths \subseteq Nat \ {0}
    /\ MaxCalls \in Nat

EIO == 5              \* any error number but 0
Nothing == [len |-> 0, lf |-> FALSE]

VARIABLES
    file,          \* the configuration file
    protocol,      \* *protocol, from the configuration
    pc,            \* where the call is, "idle" between two calls
    length,        \* length of the message to compose
    completMsg,    \* what snprintf left in the buffer: length, ends with "\n"?
    openSockets,   \* sockets of the process that are open
    errno,         \* errno of the sender thread
    result,        \* what the last call returned
    taken,         \* history: what the transport took of the last message
    openBefore,    \* history: openSockets when the last call began
    errnoBefore,   \* history: errno when the last call began
    calls          \* calls begun

confVars == <<file, protocol>>
callVars == <<length, openBefore, errnoBefore, calls>>
vars == <<confVars, callVars, pc, completMsg, openSockets, errno, result, taken>>

\* main calls loadConf, and returns when it fails.  A text that has reached past
\* the structure is over other variables of main: the probe may crash, or go on.
Init ==
    /\ file \in Files
    /\ protocol = loadConf(file).conf.transportProto
    /\ \/ loadConf(file).status = EXIT_SUCCESS /\ pc = "idle"
       \/ loadConf(file).status = EXIT_FAILURE /\ pc = "ended"
       \/ loadConf(file).overrun /\ pc = "ended"
    /\ length = 0
    /\ completMsg = Nothing
    /\ openSockets = 0 /\ openBefore = 0
    /\ errno = 0 /\ errnoBefore = 0
    /\ result = EXIT_FAILURE
    /\ taken = Nothing
    /\ calls = 0

Returns(value) == pc' = "idle" /\ result' = value
Goto(point) == pc' = point /\ UNCHANGED result

Call ==
    /\ pc = "idle" /\ calls < MaxCalls
    /\ length' \in Lengths
    /\ taken' = Nothing
    /\ openBefore' = openSockets
    /\ errnoBefore' = errno
    /\ calls' = calls + 1
    /\ Goto("compose")
    /\ UNCHANGED <<confVars, completMsg, openSockets, errno>>

\* Fault: the size given to snprintf does not count the final zero.
ComposeFull ==
    /\ pc = "compose"
    /\ completMsg' = IF length <= BufSize THEN [len |-> length, lf |-> TRUE]
                     ELSE [len |-> BufSize, lf |-> FALSE]
    /\ Goto(IF protocol = 0 THEN "tlsConnect" ELSE "resolve")
    /\ UNCHANGED <<openSockets, errno, taken>>

\* Fault: the two transports are exchanged.
ComposeSwapped ==
    /\ pc = "compose"
    /\ completMsg' = IF length <= BufSize - 1 THEN [len |-> length, lf |-> TRUE]
                     ELSE [len |-> BufSize - 1, lf |-> FALSE]
    /\ Goto(IF protocol = 1 THEN "tlsConnect" ELSE "resolve")
    /\ UNCHANGED <<openSockets, errno, taken>>

\* snprintf keeps at most BufSize - 1 characters, and the line feed is last.
Compose ==
    /\ pc = "compose"
    /\ completMsg' = IF length <= BufSize - 1 THEN [len |-> length, lf |-> TRUE]
                     ELSE [len |-> BufSize - 1, lf |-> FALSE]
    /\ Goto(IF protocol = 0 THEN "tlsConnect" ELSE "resolve")
    /\ UNCHANGED <<openSockets, errno, taken>>

-----------------------------------------------------------------------------
(* TLS over TCP, through GIO. *)

TlsConnect ==
    /\ pc = "tlsConnect"
    /\ \/ Goto("tlsWrite") /\ openSockets' = openSockets + 1
       \/ Returns(EXIT_FAILURE) /\ UNCHANGED openSockets
    /\ errno' \in {errno, EIO}
    /\ UNCHANGED <<completMsg, taken>>

\* The stream takes n characters of the message.
Takes(n) == taken' = [len |-> n, lf |-> n = completMsg.len /\ completMsg.lf]

\* Faults: the error path does not release the connection; no error check.
WriteErrorLeaks ==
    /\ pc = "tlsWrite"
    /\ \/ /\ \E n \in 1 .. completMsg.len : Takes(n)
          /\ Returns(EXIT_SUCCESS)
          /\ openSockets' = openSockets - 1
       \/ Returns(EXIT_FAILURE) /\ UNCHANGED <<taken, openSockets>>
    /\ errno' \in {errno, EIO}
    /\ UNCHANGED completMsg
WriteUnchecked ==
    /\ pc = "tlsWrite"
    /\ (\E n \in 1 .. completMsg.len : Takes(n)) \/ UNCHANGED taken
    /\ Returns(EXIT_SUCCESS)
    /\ openSockets' = openSockets - 1
    /\ errno' \in {errno, EIO}
    /\ UNCHANGED completMsg

\* g_output_stream_write: an error, or n > 0 characters taken, which is all that
\* is known of them: what was not taken is not written again, and the connection
\* is closed in both cases without a look at how that went.
TlsWrite ==
    /\ pc = "tlsWrite"
    /\ \/ (\E n \in 1 .. completMsg.len : Takes(n)) /\ Returns(EXIT_SUCCESS)
       \/ Returns(EXIT_FAILURE) /\ UNCHANGED taken
    /\ openSockets' = openSockets - 1
    /\ errno' \in {errno, EIO}
    /\ UNCHANGED completMsg

-----------------------------------------------------------------------------
(* The other protocols, through the socket calls. *)

\* initConnection, the resolution: on failure sendMessage returns errno, which
\* the resolution may have left as it was.
Resolve ==
    /\ pc = "resolve"
    /\ errno' \in {errno, EIO}
    /\ Goto("socket") \/ Returns(errno')
    /\ UNCHANGED <<completMsg, openSockets, taken>>

\* initConnection, the socket.
Socket ==
    /\ pc = "socket"
    /\ \/ Goto("sendto") /\ openSockets' = openSockets + 1 /\ UNCHANGED errno
       \/ errno' = EIO /\ Returns(errno') /\ UNCHANGED openSockets
    /\ UNCHANGED <<completMsg, taken>>

\* Fault: the result of sendto is not looked at.
SendToUnchecked ==
    /\ pc = "sendto"
    /\ \/ protocol = 1 /\ Goto("close") /\ taken' = completMsg /\ UNCHANGED errno
       \/ protocol = 1 /\ Goto("close") /\ errno' = EIO /\ UNCHANGED taken
       \/ protocol # 1 /\ Goto("aborted") /\ UNCHANGED <<errno, taken>>
    /\ UNCHANGED <<completMsg, openSockets>>

\* A datagram is sent whole or not at all.  An error returns without closing
\* the socket.  On the stream socket that was never connected the kernel
\* raises SIGPIPE, whose handler aborts the probe (Signals).
SendTo ==
    /\ pc = "sendto"
    /\ \/ protocol = 1 /\ Goto("close") /\ taken' = completMsg /\ UNCHANGED errno
       \/ protocol = 1 /\ errno' = EIO /\ Returns(errno') /\ UNCHANGED taken
       \/ protocol # 1 /\ Goto("aborted") /\ UNCHANGED <<errno, taken>>
    /\ UNCHANGED <<completMsg, openSockets>>

\* endConnection: close frees the descriptor even when it reports an error.
Close ==
    /\ pc = "close"
    /\ openSockets' = openSockets - 1
    /\ \/ Returns(EXIT_SUCCESS) /\ UNCHANGED errno
       \/ errno' = EIO /\ Returns(errno')
    /\ UNCHANGED <<completMsg, taken>>

SendStep == Compose \/ TlsConnect \/ TlsWrite \/ Resolve \/ Socket \/ SendTo \/ Close

\* Nothing more happens when the bound is reached, when the configuration could
\* not be loaded, or when the probe has crashed or aborted.
Stopped ==
    /\ pc \in {"ended", "aborted"} \/ (pc = "idle" /\ calls = MaxCalls)
    /\ UNCHANGED vars

Next ==
    \/ Call
    \/ SendStep /\ UNCHANGED <<confVars, callVars>>
    \/ Stopped

Spec == Init /\ [][Next]_vars

-----------------------------------------------------------------------------
(* Properties *)

PlainPC == {"resolve", "socket", "sendto", "close", "aborted"}

Buffers == [len : 0 .. BufSize - 1, lf : BOOLEAN]

\* Type invariant.
TypeOK ==
    /\ file \in Files /\ protocol \in 0 .. 255
    /\ pc \in {"ended", "idle", "compose", "tlsConnect", "tlsWrite"} \cup PlainPC
    /\ length \in Nat
    /\ completMsg \in Buffers /\ taken \in Buffers
    /\ openSockets \in Nat /\ openBefore \in Nat
    /\ errno \in {0, EIO} /\ errnoBefore \in {0, EIO}
    /\ result \in {EXIT_SUCCESS, EXIT_FAILURE, EIO}
    /\ calls \in Nat

\* loadConf fails exactly when the file, the identifier or the token cannot be
\* read.  It gives each integer its value or its default whatever the keys before
\* it did to error and however long the texts are, and the texts, too, whenever
\* each fits its array.
LoadedAsMeant ==
    LET load == loadConf(file)
    IN  /\ load.status = EXIT_SUCCESS <=> file.readable /\ file.probe_id.ok /\ file.token.ok
        /\ load.status = EXIT_SUCCESS =>
              /\ \A field \in IntegerFields : load.conf[field] = Reference(file)[field]
              /\ Fits(file) => load.conf = Reference(file) /\ ~ load.overrun

\* The probe sends in the clear only when the file asks for it by a number it
\* could read, and aborts on a send only when that number, in eight bits, is
\* neither of the two that the file documents.
ClearOnlyIfAsked ==
    /\ pc \in PlainPC => file.transport_proto.ok /\ file.transport_proto.val % 256 # 0
    /\ pc = "aborted" => file.transport_proto.val % 256 \notin {0, 1}

Returned == pc = "idle" /\ calls > 0

\* A call leaves a socket open behind it only when sendto failed: never over
\* TLS, never with success, never when the message was taken.
LeakOnlyOnFailedSend ==
    Returned /\ openSockets # openBefore =>
        /\ openSockets = openBefore + 1
        /\ protocol = 1 /\ result = EIO /\ taken = Nothing

\* Over TLS a call reports success if and only if the stream has taken at least a
\* part of the message: neither the connection, nor a failed write, nor what the
\* calls before it left behind makes it say otherwise.
TlsStatusTruthful ==
    Returned /\ protocol = 0 => (result = EXIT_SUCCESS <=> taken # Nothing)

\* Over UDP success is reported for a message that never left only if the
\* thread's errno was still zero, that is before its first error.
UdpStatusTruthfulAfterFirstError ==
    Returned /\ errnoBefore # 0 /\ result = EXIT_SUCCESS => taken # Nothing

\* A message that TCP took whole ends with the line feed ("Caution: keep the
\* Line Feed to work with TCP").
LineFeedKept ==
    Returned /\ protocol = 0 /\ taken # Nothing /\ taken.len = completMsg.len => taken.lf
=============================================================================
