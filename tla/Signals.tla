------------------------------- MODULE Signals ------------------------------
(***************************************************************************)
(* How the probe starts its threads and how it stops (src/main.c from      *)
(* loadConf to the end, src/src/signals.c).  Main starts the addons, the   *)
(* format and the sender thread, then registers the signal handler, which  *)
(* runs on whatever thread the kernel picks, over what that thread was     *)
(* doing; it stores the first signal in signum and cancels the addon       *)
(* threads one by one; the two workers leave their loops when they see     *)
(* signum; main joins them, frees what the addons use and exits, or        *)
(* restarts the probe after SIGHUP.                                        *)
(*                                                                         *)
(* The handlers of one thread form a stack: a different signal interrupts  *)
(* a handler, the same signal is blocked while its handler runs (signal(2) *)
(* of glibc), and handlers of different threads run side by side.  Of the  *)
(* handler's log call only the outcome is modelled: it returns, hangs on a *)
(* lock that the interrupted code holds, or aborts (module Log).           *)
(*                                                                         *)
(* Bound of the model checked: MaxDeliveries signals and faults.           *)
(***************************************************************************)
EXTENDS Integers, Sequences

CONSTANTS
    AddonsThreads,   \* the array addonsThreads, a sequence without repetition
    MaxDeliveries    \* bound: how many signals are delivered

Addons == {AddonsThreads[i] : i \in DOMAIN AddonsThreads}
Workers == {"format", "sender"}
Threads == {"main"} \cup Workers \cup Addons

ASSUME SignalsAssumption ==
    /\ AddonsThreads \in Seq(Addons)
    /\ \A i, j \in DOMAIN AddonsThreads : AddonsThreads[i] = AddonsThreads[j] => i = j
    /\ Addons \cap ({"main"} \cup Workers) = {}
    /\ MaxDeliveries \in Nat

SIGHUP == 1
SIGSEGV == 11
SIGPIPE == 13
SIGTERM == 15
SIGIO == 29
SIGSYS == 31

\* One signal of each kind that the code tells apart and that does something by
\* default.  SIGSEGV stands for those an instruction raises.
Sigs == {SIGHUP, SIGSEGV, SIGPIPE, SIGTERM, SIGIO, SIGSYS}
ignored == {SIGIO}

\* What the loop of signalsHandler does not leave out.
Handled == {s \in Sigs : s < SIGSYS /\ s \notin ignored}

VARIABLES
    started,      \* the threads that were started
    registered,   \* the signals signal() was called for
    globals,      \* which of the pointers signum, threadIdentifiers are set: 0, 1 or 2
    signum,       \* main's signum, 0 or a signal
    stack,        \* stack[t]: the handlers running on thread t, the last on top
    cancelled,    \* the addons that pthread_cancel was called for
    ended,        \* the threads that have ended
    pcMain,       \* where main is
    result,       \* what waitForShutdown returned
    freed,        \* has main freed addonsThreads?
    tries,        \* calls of execve in restart
    process,      \* "running", or how the process ended
    killer,       \* the signal whose default action ended it, or 0
    deliveries    \* signals delivered so far

startVars == <<started, registered, globals>>
endVars == <<result, freed, tries>>
handlerVars == <<stack, cancelled, deliveries>>
processVars == <<process, killer>>
vars == <<startVars, signum, handlerVars, ended, pcMain, endVars, processVars>>

\* The steps of main that start threads, and what each of them starts.
Starts == [loadConf |-> {}, addonManager |-> Addons, format |-> {"format"}, sender |-> {"sender"}]
After == [loadConf |-> "addonManager", addonManager |-> "format", format |-> "sender",
          sender |-> "register"]

Starting == DOMAIN Starts \cup {"register", "setSignum"}
Joined == {"read", "assign", "free", "decide", "restart"}
MainPC == Starting \cup {"setIds", "joinFormat", "joinSender"} \cup Joined
MaxTries == 5

Init ==
    /\ started = {"main"}
    /\ registered = {} /\ globals = 0
    /\ signum = 0
    /\ stack = [t \in Threads |-> <<>>]
    /\ cancelled = {} /\ ended = {}
    /\ pcMain = "loadConf"
    /\ result = 0
    /\ freed = FALSE
    /\ tries = 0
    /\ process = "running" /\ killer = 0
    /\ deliveries = 0

Running == process = "running"
Alive(t) == t \in started \ ended
Idle(t) == Alive(t) /\ stack[t] = <<>>
Top(t) == stack[t][Len(stack[t])]
At(t, point) == Running /\ Alive(t) /\ stack[t] # <<>> /\ Top(t).at = point
Blocked(t, s) == \E k \in DOMAIN stack[t] : stack[t][k].sig = s
Killed(s) == process' = "killed" /\ killer' = s
Continue(t, point, n) ==
    stack' = [stack EXCEPT ![t][Len(stack[t])] = [sig |-> Top(t).sig, at |-> point, i |-> n]]

\* A handler returns to what it interrupted.  After a fault that is the
\* instruction that faulted, which faults again, for ever.
Return(t) ==
    \/ Top(t).sig = SIGSEGV /\ Continue(t, "faulting", 0)
    \/ /\ Top(t).sig # SIGSEGV
       /\ stack' = [stack EXCEPT ![t] = SubSeq(@, 1, Len(@) - 1)]

-----------------------------------------------------------------------------
(* Signals and their handler. *)

\* Signal s comes to thread t.  With no handler registered its default action
\* ends the process.
Raise(t, s) ==
    /\ Running /\ Alive(t)
    /\ deliveries < MaxDeliveries
    /\ deliveries' = deliveries + 1
    /\ \/ s \notin registered /\ Killed(s) /\ UNCHANGED stack
       \/ /\ s \in registered
          /\ stack' = [stack EXCEPT ![t] = Append(@, [sig |-> s, at |-> "log", i |-> 0])]
          /\ UNCHANGED processVars
    /\ UNCHANGED <<startVars, signum, cancelled, ended, pcMain, endVars>>

Deliver(t, s) == s # SIGSEGV /\ ~ Blocked(t, s) /\ Raise(t, s)

\* An instruction of the thread's own faults.
Fault(t) == Idle(t) /\ Raise(t, SIGSEGV)

\* g_error, g_message or g_critical.  g_error aborts when it has logged, and so
\* does any call that interrupts another one of the thread.
HandlerLog(t) ==
    /\ At(t, "log")
    /\ \/ Top(t).sig # SIGPIPE /\ Continue(t, "test", 0) /\ UNCHANGED process
       \/ Continue(t, "hung", 0) /\ UNCHANGED process
       \/ process' = "aborted" /\ UNCHANGED stack
    /\ UNCHANGED <<startVars, signum, cancelled, deliveries, ended, pcMain, endVars, killer>>

\* if (*signum == 0).  While the pointer is not set this faults, and again in
\* the handler of that fault, which kills the process.
HandlerTest(t) ==
    /\ At(t, "test")
    /\ \/ globals = 0 /\ Killed(SIGSEGV) /\ UNCHANGED stack
       \/ globals # 0 /\ signum = 0 /\ Continue(t, "store", 0) /\ UNCHANGED processVars
       \/ globals # 0 /\ signum # 0 /\ Return(t) /\ UNCHANGED processVars
    /\ UNCHANGED <<startVars, signum, cancelled, deliveries, ended, pcMain, endVars>>

\* *signum = _signum
HandlerStore(t) ==
    /\ At(t, "store")
    /\ signum' = Top(t).sig
    /\ Continue(t, "cancel", 1)
    /\ UNCHANGED <<startVars, cancelled, deliveries, ended, pcMain, endVars, processVars>>

\* Fault: the loop stops one short of the end of the array.
CancelAllButLast(t) ==
    /\ At(t, "cancel")
    /\ LET i == Top(t).i
       IN  \/ /\ i < Len(AddonsThreads)
              /\ cancelled' = cancelled \cup {AddonsThreads[i]}
              /\ Continue(t, "cancel", i + 1)
           \/ i >= Len(AddonsThreads) /\ Return(t) /\ UNCHANGED cancelled
    /\ UNCHANGED <<startVars, signum, deliveries, ended, pcMain, endVars, processVars>>

\* One turn of the loop over addonsThreads.  It faults while threadIdentifiers
\* is not set: the handler of that fault returns at once, because signum is set,
\* and the instruction runs again, for ever; in the handler of a fault it kills.
\* If the array was freed the turn reads the old value, faults for ever, or ends
\* the process.
HandlerCancel(t) ==
    /\ At(t, "cancel")
    /\ LET i == Top(t).i
           inArray == i <= Len(AddonsThreads)
       IN  \/ /\ globals = 1 \/ (inArray /\ freed)
              /\ ~ Blocked(t, SIGSEGV)
              /\ Continue(t, "refault", i)
              /\ UNCHANGED <<cancelled, processVars>>
           \/ /\ globals = 1 /\ Blocked(t, SIGSEGV)
              /\ Killed(SIGSEGV)
              /\ UNCHANGED <<cancelled, stack>>
           \/ /\ inArray /\ freed
              /\ process' = "crashed"
              /\ UNCHANGED <<cancelled, stack, killer>>
           \/ /\ globals = 2 /\ inArray
              /\ cancelled' = cancelled \cup {AddonsThreads[i]}
              /\ Continue(t, "cancel", i + 1)
              /\ UNCHANGED processVars
           \/ /\ globals = 2 /\ ~ inArray
              /\ Return(t)
              /\ UNCHANGED <<cancelled, processVars>>
    /\ UNCHANGED <<startVars, signum, deliveries, ended, pcMain, endVars>>

\* A thread that faults for ever or whose log call hangs.
Stuck(t) == \E k \in DOMAIN stack[t] : stack[t][k].at \in {"refault", "faulting", "hung"}
HandlerStuck(t) ==
    /\ At(t, "refault") \/ At(t, "faulting") \/ At(t, "hung")
    /\ UNCHANGED vars

SignalHandling(t) ==
    HandlerLog(t) \/ HandlerTest(t) \/ HandlerStore(t) \/ HandlerCancel(t) \/ HandlerStuck(t)

-----------------------------------------------------------------------------
(* The threads. *)

\* A worker that no handler or fault holds up ends some time after signum is set
\* (Pipeline), an addon at a cancellation point after it was cancelled: one is in
\* the log call of a handler, which opens a file, also of the one a fault enters
\* again and again.  The handlers it has end with it; their frames are kept.
Logging == {"log", "faulting", "refault"}
ThreadEnds(t) ==
    /\ Running /\ Alive(t)
    /\ \/ t \in Workers /\ signum # 0 /\ Idle(t)
       \/ t \in cancelled /\ (Idle(t) \/ \E point \in Logging : At(t, point))
    /\ ended' = ended \cup {t}
    /\ UNCHANGED <<startVars, signum, handlerVars, pcMain, endVars, processVars>>

\* What every step of main has in common; a signal handler on main holds it up.
MainAt(point) == Running /\ Idle("main") /\ pcMain = point

\* loadConf, addonManager and the two pthread_create: main leaves at the first
\* that fails.
MainStart ==
    /\ \E step \in DOMAIN Starts :
          /\ MainAt(step)
          /\ \/ /\ started' = started \cup Starts[step]
                /\ pcMain' = After[step]
                /\ UNCHANGED process
             \/ process' = "failed" /\ UNCHANGED <<started, pcMain>>
    /\ UNCHANGED <<registered, globals, signum, endVars>>

\* Fault: the loop stops before SIGTERM.
RegisterButLast ==
    /\ MainAt("register")
    /\ \E s \in Handled \ registered :
          /\ \A r \in Handled \ registered : s <= r
          /\ registered' = registered \cup {s}
          /\ pcMain' = IF registered' = Handled \ {SIGTERM} THEN "setSignum" ELSE "register"
    /\ UNCHANGED <<started, globals, signum, endVars, process>>

\* One turn of the loop of signalsHandler, in increasing order of signals.
MainRegister ==
    /\ MainAt("register")
    /\ \E s \in Handled \ registered :
          /\ \A r \in Handled \ registered : s <= r
          /\ registered' = registered \cup {s}
          /\ pcMain' = IF registered' = Handled THEN "setSignum" ELSE "register"
    /\ UNCHANGED <<started, globals, signum, endVars, process>>

\* Fault: main does not call waitForShutdown.
NoWait ==
    /\ \/ MainAt("setSignum") /\ globals' = 1 /\ pcMain' = "setIds"
       \/ MainAt("setIds") /\ globals' = 2 /\ pcMain' = "read"
    /\ UNCHANGED <<started, registered, signum, endVars, process>>

MainSetGlobals ==
    /\ \/ MainAt("setSignum") /\ globals' = 1 /\ pcMain' = "setIds"
       \/ MainAt("setIds") /\ globals' = 2 /\ pcMain' = "joinFormat"
    /\ UNCHANGED <<started, registered, signum, endVars, process>>

\* waitForShutdown: the two joins, and the reading of its result.
MainJoin ==
    /\ \/ MainAt("joinFormat") /\ "format" \in ended /\ pcMain' = "joinSender"
       \/ MainAt("joinSender") /\ "sender" \in ended /\ pcMain' = "read"
    /\ UNCHANGED <<startVars, signum, endVars, process>>

\* Fault: waitForShutdown returns what pthread_join returned.
ReturnOfJoin ==
    /\ MainAt("read")
    /\ result' = 0
    /\ pcMain' = "assign"
    /\ UNCHANGED <<startVars, signum, freed, tries, process>>

MainRead ==
    /\ MainAt("read")
    /\ result' = signum
    /\ pcMain' = "assign"
    /\ UNCHANGED <<startVars, signum, freed, tries, process>>

\* signum = waitForShutdown()
MainAssign ==
    /\ MainAt("assign")
    /\ signum' = result
    /\ pcMain' = "free"
    /\ UNCHANGED <<startVars, endVars, process>>

MainFree ==
    /\ MainAt("free")
    /\ freed' = TRUE
    /\ pcMain' = "decide"
    /\ UNCHANGED <<startVars, signum, result, tries, process>>

\* Fault: after SIGHUP main goes back to waiting.
WaitAgain ==
    /\ MainAt("decide")
    /\ \/ signum = SIGHUP /\ pcMain' = "joinFormat" /\ UNCHANGED process
       \/ signum # SIGHUP /\ process' = "exited" /\ UNCHANGED pcMain
    /\ UNCHANGED <<startVars, signum, endVars>>

MainDecide ==
    /\ MainAt("decide")
    /\ \/ signum = SIGHUP /\ pcMain' = "restart" /\ UNCHANGED process
       \/ signum # SIGHUP /\ process' = "exited" /\ UNCHANGED pcMain
    /\ UNCHANGED <<startVars, signum, endVars>>

\* Fault: the bound of the tries is off by one.
OneTryMore ==
    /\ MainAt("restart")
    /\ \/ process' = "restarted" /\ UNCHANGED tries
       \/ tries <= MaxTries /\ tries' = tries + 1 /\ UNCHANGED process
       \/ tries > MaxTries /\ process' = "exited" /\ UNCHANGED tries
    /\ UNCHANGED <<startVars, signum, pcMain, result, freed>>

\* restart: five calls of execve, whose failure ends in the exit of main.
MainRestart ==
    /\ MainAt("restart")
    /\ \/ tries < MaxTries /\ process' = "restarted" /\ UNCHANGED tries
       \/ tries < MaxTries /\ tries' = tries + 1 /\ UNCHANGED process
       \/ tries = MaxTries /\ process' = "exited" /\ UNCHANGED tries
    /\ UNCHANGED <<startVars, signum, pcMain, result, freed>>

Main ==
    /\ \/ MainStart \/ MainRegister \/ MainSetGlobals \/ MainJoin \/ MainRead \/ MainAssign
       \/ MainFree \/ MainDecide \/ MainRestart
    /\ UNCHANGED <<handlerVars, ended, killer>>

Stopped == ~ Running /\ UNCHANGED vars

Next ==
    \/ \E t \in Threads, s \in Sigs : Deliver(t, s)
    \/ \E t \in Threads : Fault(t) \/ SignalHandling(t) \/ ThreadEnds(t)
    \/ Main
    \/ Stopped

Spec == Init /\ [][Next]_vars

\* Every thread runs, and a worker that is free to leave does.  Signals need not
\* come, and an addon need not reach a cancellation point.
Fairness ==
    /\ WF_vars(Main)
    /\ \A t \in Threads : WF_vars(SignalHandling(t))
    /\ \A w \in Workers : WF_vars(ThreadEnds(w))

FairSpec == Spec /\ Fairness

-----------------------------------------------------------------------------
(* Properties *)

Points == {"log", "test", "store", "cancel", "refault", "faulting", "hung"}
Frames == [sig : Sigs, at : Points, i : 0 .. Len(AddonsThreads) + 1]

\* Type invariant.
TypeOK ==
    /\ started \subseteq Threads /\ registered \subseteq Sigs /\ globals \in 0 .. 2
    /\ signum \in {0} \cup Sigs /\ result \in {0} \cup Sigs
    /\ stack \in [Threads -> Seq(Frames)]
    /\ cancelled \subseteq Addons /\ ended \subseteq Threads
    /\ pcMain \in MainPC
    /\ freed \in BOOLEAN
    /\ tries \in 0 .. MaxTries
    /\ process \in {"running", "failed", "killed", "aborted", "crashed", "exited", "restarted"}
    /\ killer \in {0} \cup Sigs
    /\ deliveries \in Nat

\* main cleans up only after both workers have ended, and with a signal to act
\* on: what they use is not freed under them.
CleanupAfterWorkers == pcMain \in Joined => Workers \subseteq ended /\ signum # 0

\* The default action of a signal that signalsHandler does not leave out ends the
\* process only before its last line: from its return on, such a signal is
\* handled on every thread, although all of these were started before the first
\* handler was registered, and a fault in a handler no longer kills.  The signals
\* it leaves out may kill at any time.
HandledKillsOnlyAtStart ==
    process = "killed" /\ killer \in Handled => pcMain \in Starting \cup {"setIds"}

\* A stored signal means that every addon was cancelled, whichever threads the
\* signals were delivered to and however their handlers were nested, unless a
\* handler is still in its loop over them, or the thread it ran on has ended in it.
InLoop(t) == \E k \in DOMAIN stack[t] : stack[t][k].at \in {"cancel", "refault"}
EveryAddonCancelled ==
    Running /\ signum # 0 /\ (\A t \in Threads : ~ InLoop(t)) => cancelled = Addons

\* The loop over addonsThreads runs after main freed the array only on an
\* addon thread: a handler on a worker or on main holds up the joins or the
\* cleanup until it has returned.
FreedUnderAddonOnly ==
    \A t \in Threads : freed /\ At(t, "cancel") => t \in Addons

\* The probe ends in the order Shutdown promises: a signal once stored stays
\* one, though handlers on other threads may store over it and main assigns to
\* signum what waitForShutdown returned; the workers leave after it and the
\* cleanup comes after them.
S == INSTANCE Shutdown WITH requested <- signum # 0, gone <- ended \cap Workers, cleaned <- freed
ImplementsShutdown == S!Spec

\* A stored signal ends the process, unless main or a worker faults for ever or
\* hangs in the log call of a handler: what becomes of the addons and of the
\* handlers on them does not hold it up.
ShutdownEnds ==
    signum # 0 ~> ~ Running \/ \E t \in Workers \cup {"main"} : Stuck(t)

\* A signal that arrives when signum is set is ignored (the unit test of
\* signalsHandler: "signum != 0 le signal est ignore").
SignalLatched == [][signum # 0 => signum' = signum]_vars
=============================================================================
