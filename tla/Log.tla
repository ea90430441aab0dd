--------------------------------- MODULE Log --------------------------------
(***************************************************************************)
(* The log of the probe: every thread, and the signal handler on any of    *)
(* them, logs through g_log, which calls log2File (src/src/log.c).  The    *)
(* file is opened and closed for each line; when it cannot be opened the   *)
(* line goes to the console, after one that says why.  The sender's        *)
(* sockets (src/src/sender.c) and the log share one table of descriptors.  *)
(*                                                                         *)
(* g_log is external: it takes a lock of GLib for a moment, then calls     *)
(* log2File without it, and counts its depth in each thread: a second call *)
(* inside the first is fatal.  A signal handler logs on whatever thread it *)
(* finds, the sender with its socket among them.  When it interrupts that  *)
(* thread outside g_log and outside the C library its call is like a call  *)
(* of the thread and is not told apart; Interrupt has the other cases.     *)
(* A line is the thread that wrote it and the number of its call; the line *)
(* that says why is number 0.                                              *)
(*                                                                         *)
(* Bounds of the model checked: MaxLines calls in each thread, MaxSignals  *)
(* signals at a point where the handler's call cannot succeed.             *)
(***************************************************************************)
EXTENDS Sequences, FiniteSets, Integers

CONSTANTS
    Threads,     \* the threads that log, "sender" one of them
    MaxFiles,    \* descriptors the process may have for sockets and the log
    MaxLines,    \* bound: calls of g_log in each thread
    MaxSignals   \* bound: signals that a call does not survive

ASSUME LogAssumption ==
    /\ IsFiniteSet(Threads) /\ "sender" \in Threads /\ "free" \notin Threads
    /\ MaxFiles \in Nat /\ MaxLines \in Nat /\ MaxSignals \in Nat

VARIABLES
    writable,    \* can the log file be opened and created at all?
    pc,          \* where each thread is in its call, "idle" outside
    begun,       \* calls each thread has begun
    logLock,     \* the owner of the lock of GLib, or Free
    libcLock,    \* the thread that hangs with a lock of the C library, or Free
    hung,        \* threads whose handler waits for a lock that they hold
    logFile,     \* the lines of the log file
    console,     \* the lines of the console
    lost,        \* history: lines that a full disk did not take
    openFiles,   \* descriptors in use
    sending,     \* has the sender a socket in use?
    leaked,      \* history: sockets that were never closed
    signals,     \* signals that a call did not survive
    process      \* "running" or "aborted"

vars == <<writable, pc, begun, logLock, libcLock, hung, logFile, console, lost, openFiles, sending,
          leaked, signals, process>>
lines == <<logFile, console, lost>>
sockets == <<sending, leaked>>   \* openFiles belongs to both sides
stuck == <<libcLock, hung>>
env == <<writable, begun, stuck, signals, process>>

Free == "free"

Init ==
    /\ writable \in BOOLEAN
    /\ pc = [t \in Threads |-> "idle"] /\ begun = [t \in Threads |-> 0]
    /\ logLock = Free /\ libcLock = Free /\ hung = {}
    /\ logFile = <<>> /\ console = <<>> /\ lost = {}
    /\ openFiles = 0 /\ sending = FALSE /\ leaked = 0
    /\ signals = 0 /\ process = "running"

Full == openFiles >= MaxFiles

At(t, point) == process = "running" /\ t \notin hung /\ pc[t] = point
Goto(t, point) == pc' = [pc EXCEPT ![t] = point]
Line(t) == <<t, begun[t]>>

-----------------------------------------------------------------------------
(* A call of g_log, also that of logStopProbe and of a signal handler.       *)
(* Formatting, fopen, fclose and g_print take locks of the C library, each   *)
(* for a moment.                                                             *)

Log(t) ==
    /\ At(t, "idle") /\ begun[t] < MaxLines
    /\ begun' = [begun EXCEPT ![t] = @ + 1]
    /\ Goto(t, "lock")
    /\ UNCHANGED <<writable, logLock, stuck, lines, openFiles, sockets, signals, process>>

\* The message is formatted, on the heap, before the lock is taken.
LogLock(t) ==
    /\ At(t, "lock") /\ logLock = Free /\ libcLock = Free
    /\ logLock' = t
    /\ Goto(t, "locked")
    /\ UNCHANGED <<lines, openFiles, sockets, env>>

LogUnlock(t) ==
    /\ At(t, "locked")
    /\ logLock' = Free
    /\ Goto(t, "open")
    /\ UNCHANGED <<lines, openFiles, sockets, env>>

\* Fault: fopen is called again until the file can be opened.
OpenRetried(t) ==
    /\ At(t, "open") /\ libcLock = Free
    /\ IF writable /\ ~ Full THEN Goto(t, "write") /\ openFiles' = openFiles + 1
       ELSE UNCHANGED <<pc, openFiles>>
    /\ UNCHANGED <<logLock, lines, sockets, env>>

\* log2File: fopen(..., "a").
Open(t) ==
    /\ At(t, "open") /\ libcLock = Free
    /\ IF writable /\ ~ Full THEN Goto(t, "write") /\ openFiles' = openFiles + 1
       ELSE Goto(t, "error") /\ UNCHANGED openFiles
    /\ UNCHANGED <<logLock, lines, sockets, env>>

\* Fault: the file is not closed.
WriteNoClose(t) ==
    /\ At(t, "write") /\ libcLock = Free
    /\ logFile' = Append(logFile, Line(t))
    /\ Goto(t, "idle")
    /\ UNCHANGED <<logLock, console, lost, openFiles, sockets, env>>

\* fprintf fills a buffer of the thread's own and fclose appends it to the
\* file in one write(2).  No result is looked at: a full disk loses the line.
Write(t) ==
    /\ At(t, "write") /\ libcLock = Free
    /\ \/ logFile' = Append(logFile, Line(t)) /\ UNCHANGED lost
       \/ lost' = lost \cup {Line(t)} /\ UNCHANGED logFile
    /\ openFiles' = openFiles - 1
    /\ Goto(t, "idle")
    /\ UNCHANGED <<logLock, console, sockets, env>>

log2Console(line) == console' = Append(console, line) /\ UNCHANGED <<logFile, lost>>

\* Fault: the reason is logged and the message forgotten.
ReasonOnly(t) ==
    /\ At(t, "error") /\ libcLock = Free
    /\ log2Console(<<t, 0>>)
    /\ Goto(t, "idle")
    /\ UNCHANGED <<logLock, openFiles, sockets, env>>

ErrorLine(t) ==
    /\ At(t, "error") /\ libcLock = Free
    /\ log2Console(<<t, 0>>)
    /\ Goto(t, "fallback")
    /\ UNCHANGED <<logLock, openFiles, sockets, env>>

Fallback(t) ==
    /\ At(t, "fallback") /\ libcLock = Free
    /\ log2Console(Line(t))
    /\ Goto(t, "idle")
    /\ UNCHANGED <<logLock, openFiles, sockets, env>>

GLog(t) == LogLock(t) \/ LogUnlock(t) \/ Open(t) \/ Write(t) \/ ErrorLine(t) \/ Fallback(t)

-----------------------------------------------------------------------------
(* The sender's sockets, one in use at a time; a handler that runs on the    *)
(* sender suspends it.  A failed sendto returns without closing its socket.  *)

Connect ==
    /\ At("sender", "idle") /\ ~ sending /\ ~ Full
    /\ sending' = TRUE /\ openFiles' = openFiles + 1
    /\ UNCHANGED <<leaked, pc, logLock, lines, env>>

\* Fault: the socket is closed again when none is in use.
CloseAgain ==
    /\ At("sender", "idle")
    /\ sending' = FALSE
    /\ openFiles' = openFiles - 1
    /\ UNCHANGED <<leaked, pc, logLock, lines, env>>

Disconnect ==
    /\ At("sender", "idle") /\ sending
    /\ sending' = FALSE
    /\ \/ openFiles' = openFiles - 1 /\ UNCHANGED leaked
       \/ leaked' = leaked + 1 /\ UNCHANGED openFiles
    /\ UNCHANGED <<pc, logLock, lines, env>>

-----------------------------------------------------------------------------
(* A signal on a thread that holds a lock the handler's g_log needs, or that *)
(* is inside g_log.  The handler waits for ever for the lock of GLib, or for *)
(* one of the C library, inside g_log or outside: others may need that one,  *)
(* as they do the one of the list of streams, or not.  When no such lock is  *)
(* held a second g_log inside the first ends the process.                    *)

Inside == {"open", "write", "error", "fallback"}

Interrupt(t) ==
    /\ process = "running" /\ t \notin hung /\ signals < MaxSignals
    /\ \/ pc[t] = "locked" /\ hung' = hung \cup {t} /\ UNCHANGED <<libcLock, process>>
       \/ /\ pc[t] # "locked" /\ hung' = hung \cup {t}
          /\ libcLock' = libcLock \/ (libcLock = Free /\ libcLock' = t)
          /\ UNCHANGED process
       \/ pc[t] \in Inside /\ process' = "aborted" /\ UNCHANGED stuck
    /\ signals' = signals + 1
    /\ UNCHANGED <<writable, pc, begun, logLock, lines, openFiles, sockets>>

\* t needs a lock that u, which hangs, will not give back.
WaitsFor(t, u) ==
    /\ u \in hung
    /\ \/ pc[t] = "lock" /\ logLock = u
       \/ pc[t] \in Inside \cup {"lock"} /\ libcLock = u

\* Nothing more happens when the process has aborted, when every thread has
\* made its calls, or when those that have not wait for one that hangs.
Stopped ==
    /\ \/ process = "aborted"
       \/ \A t \in Threads :
             \/ t \in hung \/ \E u \in Threads : WaitsFor(t, u)
             \/ pc[t] = "idle" /\ begun[t] = MaxLines
    /\ UNCHANGED vars

Next ==
    \/ \E t \in Threads : Log(t) \/ GLog(t) \/ Interrupt(t)
    \/ Connect \/ Disconnect
    \/ Stopped

Spec == Init /\ [][Next]_vars

\* Every thread runs, and a lock that is released again and again is taken.
Fairness == \A t \in Threads : WF_vars(GLog(t)) /\ SF_vars(LogLock(t))

FairSpec == Spec /\ Fairness

-----------------------------------------------------------------------------
(* Properties *)

\* Type invariant.
TypeOK ==
    /\ writable \in BOOLEAN /\ sending \in BOOLEAN
    /\ pc \in [Threads -> {"idle", "lock", "locked", "open", "write", "error", "fallback"}]
    /\ begun \in [Threads -> 0 .. MaxLines]
    /\ logLock \in Threads \cup {Free} /\ libcLock \in hung \cup {Free} /\ hung \subseteq Threads
    /\ logFile \in Seq(Threads \X Nat) /\ console \in Seq(Threads \X Nat)
    /\ lost \subseteq Threads \X Nat
    /\ openFiles \in 0 .. MaxFiles /\ leaked \in 0 .. MaxFiles
    /\ signals \in 0 .. MaxSignals
    /\ process \in {"running", "aborted"}

Times(s, line) == Cardinality({i \in DOMAIN s : s[i] = line})
Copies(line) == Times(logFile, line) + Times(console, line) + Cardinality({line} \cap lost)

\* A message is in the log file or on the console, once, when its call has
\* returned, however many threads log and whatever descriptors are left; only
\* a disk that is full loses one.
EachLineOnce ==
    \A t \in Threads, n \in 1 .. MaxLines :
        Copies(<<t, n>>) = IF n < begun[t] \/ (n = begun[t] /\ pc[t] = "idle") THEN 1 ELSE 0

\* The log falls back to the console only for a file it may not write, or when
\* the sockets that were leaked and one in use leave less than one descriptor
\* for each thread: the log takes none for itself for longer than a line.
FallbackOnlyWhenExhausted ==
    writable /\ console # <<>> => leaked + 1 + Cardinality(Threads) > MaxFiles

\* A call of g_log returns, whatever descriptors are left.  When it does not, a
\* signal has ended the process, or its handler hangs on this very thread or on
\* one that holds a lock the call needs: no other call is lost with it.
CallsReturn ==
    \A t \in Threads :
        pc[t] = "lock" ~> \/ pc[t] = "idle" \/ t \in hung \/ process = "aborted"
                         \/ \E u \in Threads : WaitsFor(t, u)
=============================================================================
