----------------------------- MODULE DebService -----------------------------
(***************************************************************************)
(* The Debian service script (src/packages/deb/echoes-alert-probe.init)    *)
(* around the processes of Startup: one operator gives start, stop and     *)
(* restart, one after the other, while the daemon starts, reloads and ends *)
(* at its own pace.  start-stop-daemon is external; it is modelled by what *)
(* the options of the script ask of it: with --pidfile it looks at the     *)
(* process the file names, each time it looks, with --exec alone at every  *)
(* process of the probe.                                                   *)
(*                                                                         *)
(* Bound of the model checked: MaxCommands commands.                       *)
(***************************************************************************)
EXTENDS Startup

CONSTANT MaxCommands   \* bound: how many commands are given

ASSUME DebServiceAssumption == MaxCommands \in Nat

VARIABLES
    pc,          \* where the script is, "idle" between two commands
    command,     \* the command given last
    retval,      \* RETVAL of do_stop
    result,      \* what do_start or do_stop returned to the last command
    shellChild,  \* the process start-stop-daemon --start became
    scanned,     \* the processes found by the last look before KILL
    commands,    \* commands given
    starts       \* history: processes started since a stop that succeeded

scriptVars == <<pc, command, retval, result, shellChild, scanned, commands, starts>>
vars == <<startupVars, scriptVars>>

Init ==
    /\ StartupInit
    /\ pc = "idle" /\ command = "stop"
    /\ retval = 0 /\ result = 0
    /\ shellChild = 0 /\ scanned = {}
    /\ commands = 0 /\ starts = 0

\* --pidfile: the live process that the pid file names.
Named == Live \cap pidFile

Command ==
    /\ pc = "idle" /\ commands < MaxCommands
    /\ commands' = commands + 1
    /\ \E c \in {"start", "stop", "restart"} :
          /\ command' = c
          /\ pc' = IF c = "start" THEN "startTest" ELSE "stop"
    /\ UNCHANGED <<startupVars, retval, result, shellChild, scanned, starts>>

Goto(point) == pc' = point /\ UNCHANGED result
Returns(value) == pc' = "idle" /\ result' = value

-----------------------------------------------------------------------------
(* do_start *)

StartTest ==
    /\ pc = "startTest"
    /\ IF Named # {} THEN Returns(1) ELSE Goto("start")
    /\ UNCHANGED <<startupVars, command, retval, shellChild, scanned, commands, starts>>

Start ==
    /\ pc = "start"
    /\ \/ /\ Named # {}
          /\ Returns(2)
          /\ UNCHANGED <<proc, used, shellChild, starts>>
       \/ /\ Named = {} /\ used < MaxPid
          /\ used' = used + 1
          /\ Becomes(used + 1, "exec")
          /\ shellChild' = used + 1
          /\ starts' = starts + 1
          /\ Goto("startWait")
    /\ UNCHANGED <<status, pidFile, hups, openFailed, command, retval, scanned, commands>>

\* The shell waits for the process it has started, not for the daemon.
StartWait ==
    /\ pc = "startWait"
    /\ ~ Alive(shellChild)
    /\ Returns(IF status[shellChild] = EXIT_SUCCESS THEN 0 ELSE 2)
    /\ UNCHANGED <<startupVars, command, retval, shellChild, scanned, commands, starts>>

-----------------------------------------------------------------------------
(* do_stop, first start-stop-daemon: TERM/5/KILL/5 to the process named. *)

\* Fault: do_stop returns when the pid file names no process.
TrustPidFile ==
    /\ pc = "stop"
    /\ IF Named = {} THEN retval' = 1 /\ Goto("remove") ELSE retval' = 0 /\ Goto("waitTerm")
    /\ proc' = [p \in Pids |-> IF p \in Named THEN Terminated(p) ELSE proc[p]]
    /\ UNCHANGED <<status, used, pidFile, hups, openFailed, command, shellChild, scanned,
                   commands, starts>>

StopTerm ==
    /\ pc = "stop"
    /\ IF Named = {} THEN retval' = 1 /\ Goto("stopAll") ELSE retval' = 0 /\ Goto("waitTerm")
    /\ proc' = [p \in Pids |-> IF p \in Named THEN Terminated(p) ELSE proc[p]]
    /\ UNCHANGED <<status, used, pidFile, hups, openFailed, command, shellChild, scanned,
                   commands, starts>>

\* Five seconds pass, or nothing is named any more.
WaitTerm ==
    /\ pc = "waitTerm"
    /\ \/ Named = {} /\ Goto("stopAll") /\ UNCHANGED proc
       \/ /\ Named # {}
          /\ proc' = [p \in Pids |-> IF p \in Named THEN "ended" ELSE proc[p]]
          /\ Goto("waitKill")
    /\ UNCHANGED <<status, used, pidFile, hups, openFailed, command, retval, shellChild, scanned,
                   commands, starts>>

WaitKill ==
    /\ pc = "waitKill"
    /\ IF Named = {} THEN Goto("stopAll") ELSE Returns(2)
    /\ UNCHANGED <<startupVars, command, retval, shellChild, scanned, commands, starts>>

-----------------------------------------------------------------------------
(* do_stop, second start-stop-daemon: 0/5/KILL/5 to every process of the    *)
(* probe.  A process that forks between the look and the kill escapes.      *)

StopAll ==
    /\ pc = "stopAll"
    /\ IF Live = {} THEN Goto("remove") ELSE Goto("scan")
    /\ UNCHANGED <<startupVars, command, retval, shellChild, scanned, commands, starts>>

Scan ==
    /\ pc = "scan"
    /\ IF Live = {} THEN Goto("remove") ELSE Goto("kill")
    /\ scanned' = Live
    /\ UNCHANGED <<startupVars, command, retval, shellChild, commands, starts>>

KillAll ==
    /\ pc = "kill"
    /\ proc' = [p \in Pids |-> IF p \in scanned THEN "ended" ELSE proc[p]]
    /\ Goto("waitAll")
    /\ UNCHANGED <<status, used, pidFile, hups, openFailed, command, retval, shellChild, scanned,
                   commands, starts>>

\* Fault: the result of the second start-stop-daemon is not looked at.
IgnoreSurvivors ==
    /\ pc = "waitAll"
    /\ Goto("remove")
    /\ UNCHANGED <<startupVars, command, retval, shellChild, scanned, commands, starts>>

WaitAll ==
    /\ pc = "waitAll"
    /\ IF Live = {} THEN Goto("remove") ELSE Returns(2)
    /\ UNCHANGED <<startupVars, command, retval, shellChild, scanned, commands, starts>>

\* rm -f $PIDFILE, and the return: to do_start for a restart.
StopRemove ==
    /\ pc = "remove"
    /\ pidFile' = Absent
    /\ proc' = Orphan(proc)
    /\ starts' = 0
    /\ IF command = "restart" THEN Goto("startTest") ELSE Returns(retval)
    /\ UNCHANGED <<status, used, hups, openFailed, command, retval, shellChild, scanned, commands>>

Script ==
    \/ Command \/ StartTest \/ Start \/ StartWait \/ StopTerm \/ WaitTerm \/ WaitKill
    \/ StopAll \/ Scan \/ KillAll \/ WaitAll \/ StopRemove

\* No command is left, or no process can be started any more.
Rest ==
    /\ \/ pc = "idle" /\ commands = MaxCommands
       \/ pc = "start" /\ used = MaxPid
    /\ UNCHANGED vars

Next ==
    \/ \E p \in Pids : Main(p) /\ UNCHANGED scriptVars
    \/ Script
    \/ Rest

Spec == Init /\ [][Next]_vars

-----------------------------------------------------------------------------
(* Properties *)

\* Type invariant.
TypeOK ==
    /\ StartupTypeOK
    /\ pc \in {"idle", "startTest", "start", "startWait", "stop", "waitTerm", "waitKill",
               "stopAll", "scan", "kill", "waitAll", "remove"}
    /\ command \in {"start", "stop", "restart"}
    /\ retval \in {0, 1} /\ result \in {0, 1, 2}
    /\ shellChild \in Pids \cup {0} /\ scanned \subseteq Pids
    /\ commands \in Nat /\ starts \in Nat

\* A stop that does not report a failure leaves no process of the probe and no
\* pid file, however far in its start-up or in its restart the daemon was when
\* the stop came, and whatever the pid file said.
StopLeavesNothing ==
    pc = "idle" /\ command = "stop" /\ result # 2 => Live = {} /\ pidFile = Absent

\* After a restart that worked there is never more than one process of the
\* probe, although the old one had forked, or was left aside by its pid file.
RestartLeavesOne ==
    pc = "idle" /\ command = "restart" /\ result = 0 => Cardinality(Live) <= 1

\* A running daemon that was started once is found through its pid file, also
\* after SIGHUP gave it another identifier, unless the file could not be
\* opened.
DaemonIsNamed ==
    \A p \in Pids : proc[p] = "running" /\ starts <= 1 /\ ~ openFailed => pidFile = {p}

\* do_start returns "1 if daemon was already running": it does not start a
\* second one.
NoSecondProbe == Cardinality(Live) <= 1
=============================================================================
