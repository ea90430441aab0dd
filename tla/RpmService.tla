----------------------------- MODULE RpmService -----------------------------
(***************************************************************************)
(* The rpm service script (src/packages/rpm/echoes-alert-probe.init)       *)
(* around the processes of Startup: start, stop, restart and condrestart   *)
(* one after the other.  The lock file says that the probe was started;    *)
(* the pid file is written by the daemon and, with the output of pidof, by *)
(* the script.  daemon, killproc and pidof are external: daemon starts     *)
(* nothing when the pid file names a live process, and returns 0; killproc *)
(* sends one SIGTERM and waits for nothing.                                *)
(*                                                                         *)
(* Bound of the model checked: MaxCommands commands.                       *)
(***************************************************************************)
EXTENDS Startup

CONSTANT MaxCommands   \* bound: how many commands are given

ASSUME RpmServiceAssumption == MaxCommands \in Nat

VARIABLES
    pc,          \* where the script is, "idle" between two commands
    command,     \* the command given last
    lockFile,    \* is there a lock file?
    retval,      \* RETVAL
    shellChild,  \* the process that daemon started
    found,       \* what pidof has printed
    commands,    \* commands given
    left         \* history: processes that the last stop which removed the lock left

callVars == <<pc, command, retval>>
vars == <<startupVars, callVars, lockFile, shellChild, found, commands, left>>

Init ==
    /\ StartupInit
    /\ pc = "idle" /\ command = "stop"
    /\ lockFile = FALSE /\ retval = 0
    /\ shellChild = 0 /\ found = {}
    /\ commands = 0 /\ left = 0

\* The live processes that the pid file names.
Named == Live \cap pidFile

\* condrestart calls restart, which is no function of the script: no such
\* command is found, and nothing is done.
Command ==
    /\ pc = "idle" /\ commands < MaxCommands
    /\ commands' = commands + 1
    /\ \/ command' = "start" /\ pc' = "start" /\ retval' = 0
       \/ command' \in {"stop", "restart"} /\ pc' = "stop" /\ retval' = 0
       \/ command' = "condrestart" /\ pc' = "idle" /\ retval' = IF lockFile THEN 127 ELSE 1
    /\ UNCHANGED <<startupVars, lockFile, shellChild, found, left>>

Goto(point) == pc' = point /\ UNCHANGED <<command, retval>>
Returns(value) == pc' = "idle" /\ retval' = value /\ UNCHANGED command

-----------------------------------------------------------------------------
(* start *)

\* Fault: the lock file is not looked at.
StartAnyway ==
    /\ pc = "start"
    /\ Goto("daemon")
    /\ UNCHANGED <<startupVars, lockFile, shellChild, found, commands, left>>

StartTest ==
    /\ pc = "start"
    /\ IF lockFile THEN Returns(0) ELSE Goto("daemon")
    /\ UNCHANGED <<startupVars, lockFile, shellChild, found, commands, left>>

Daemon ==
    /\ pc = "daemon"
    /\ \/ /\ Named # {}
          /\ pc' = "touch" /\ retval' = 0 /\ UNCHANGED command
          /\ UNCHANGED <<proc, used, shellChild>>
       \/ /\ Named = {} /\ used < MaxPid
          /\ used' = used + 1
          /\ Becomes(used + 1, "exec")
          /\ shellChild' = used + 1
          /\ Goto("wait")
    /\ UNCHANGED <<status, pidFile, hups, openFailed, lockFile, found, commands, left>>

\* daemon waits for the process it has started, which leaves the probe behind.
DaemonWait ==
    /\ pc = "wait" /\ ~ Alive(shellChild)
    /\ pc' = "touch" /\ retval' = status[shellChild]
    /\ UNCHANGED <<startupVars, command, lockFile, shellChild, found, commands, left>>

\* Fault: the test of RETVAL is the wrong way round.
TouchOnFailure ==
    /\ pc = "touch"
    /\ lockFile' = (lockFile \/ retval # 0)
    /\ Goto("pidof")
    /\ UNCHANGED <<startupVars, shellChild, found, commands, left>>

Touch ==
    /\ pc = "touch"
    /\ lockFile' = (lockFile \/ retval = 0)
    /\ Goto("pidof")
    /\ UNCHANGED <<startupVars, shellChild, found, commands, left>>

Pidof ==
    /\ pc = "pidof"
    /\ found' = Live
    /\ Goto("echo")
    /\ UNCHANGED <<startupVars, lockFile, shellChild, commands, left>>

\* The last command of start: restart returns its status.
EchoPids ==
    /\ pc = "echo"
    /\ pidFile' = found
    /\ Returns(IF command = "restart" THEN 0 ELSE retval)
    /\ UNCHANGED <<proc, status, used, hups, openFailed, lockFile, shellChild, found, commands,
                   left>>

-----------------------------------------------------------------------------
(* stop *)

\* The end of stop: restart goes on, whatever its status.
StopReturns(value) ==
    /\ pc' = IF command = "restart" THEN "start" ELSE "idle"
    /\ retval' = value
    /\ UNCHANGED command

StopTest ==
    /\ pc = "stop"
    /\ IF pidFile = Absent THEN StopReturns(retval) ELSE Goto("killproc")
    /\ UNCHANGED <<startupVars, lockFile, shellChild, found, commands, left>>

\* When no process is named, killproc returns 0 or 7, depending on its options.
Killproc ==
    /\ pc = "killproc"
    /\ proc' = [p \in Pids |-> IF p \in Named THEN Terminated(p) ELSE proc[p]]
    /\ retval' \in IF Named # {} THEN {0} ELSE {0, 7}
    /\ pc' = "remove" /\ UNCHANGED command
    /\ UNCHANGED <<status, used, pidFile, hups, openFailed, lockFile, shellChild, found, commands,
                   left>>

StopRemove ==
    /\ pc = "remove"
    /\ \/ /\ retval = 0
          /\ lockFile' = FALSE /\ pidFile' = Absent /\ proc' = Orphan(proc)
          /\ left' = Cardinality(Live)
       \/ retval # 0 /\ UNCHANGED <<lockFile, pidFile, proc, left>>
    /\ StopReturns(retval)
    /\ UNCHANGED <<status, used, hups, openFailed, shellChild, found, commands>>

Script ==
    \/ Command \/ StartTest \/ Daemon \/ DaemonWait \/ Touch \/ Pidof \/ EchoPids
    \/ StopTest \/ Killproc \/ StopRemove

\* No command is left, or no process can be started any more.
Rest ==
    /\ \/ pc = "idle" /\ commands = MaxCommands
       \/ pc = "daemon" /\ used = MaxPid
    /\ UNCHANGED vars

Next ==
    \/ /\ \E p \in Pids : Main(p)
       /\ UNCHANGED <<callVars, lockFile, shellChild, found, commands, left>>
    \/ Script
    \/ Rest

Spec == Init /\ [][Next]_vars

-----------------------------------------------------------------------------
(* Properties *)

\* Type invariant.
TypeOK ==
    /\ StartupTypeOK
    /\ pc \in {"idle", "start", "daemon", "wait", "touch", "pidof", "echo",
               "stop", "killproc", "remove"}
    /\ command \in {"start", "stop", "restart", "condrestart"}
    /\ lockFile \in BOOLEAN
    /\ retval \in {0, 1, 7, 127}
    /\ shellChild \in Pids \cup {0} /\ found \subseteq Pids
    /\ commands \in Nat /\ left \in Nat

\* However often start and restart are given, and whatever the pid file says by
\* then, the lock file lets one process of the probe run beside those that the
\* last stop has left: stop does not wait, and misses a daemon that the pid
\* file does not name.
OneBesideTheLeft == Cardinality(Live) <= left + 1

\* Between two commands a probe runs without a lock file only when a stop has
\* left it running; otherwise a start would add a second one.
RunsUnderLock == pc = "idle" /\ ~ lockFile => Cardinality(Live) <= left
=============================================================================
