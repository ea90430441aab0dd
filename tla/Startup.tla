------------------------------- MODULE Startup ------------------------------
(***************************************************************************)
(* From execve to a running daemon, and on to its end: main of src/main.c  *)
(* (release build).  Main leaves its parent twice by fork, replaces the    *)
(* pid file, loads the configuration and the addons, starts its threads    *)
(* and waits; a signal ends it or makes it start again in the same process *)
(* (Signals).                                                              *)
(*                                                                         *)
(* A process is its identifier; identifiers are given in order and not     *)
(* given again.  The pid file is the set of identifiers it holds, or       *)
(* Absent.  A process that has opened the file writes to what it opened:   *)
(* nobody sees it once the file was removed in between ("orphaned").  A    *)
(* fork and the exit of the parent that follows it at once are one step.   *)
(*                                                                         *)
(* Bounds of the model checked: MaxPid processes, MaxHups signals SIGHUP.  *)
(***************************************************************************)
EXTENDS Integers, FiniteSets

CONSTANTS
    MaxPid,     \* bound: how many processes are created
    MaxHups     \* bound: how many times SIGHUP is sent

ASSUME StartupAssumption == MaxPid \in Nat \ {0} /\ MaxHups \in Nat

VARIABLES
    proc,       \* proc[p]: how far process p is
    status,     \* status[p]: the exit status of p, once it has ended
    used,       \* how many identifiers were given
    pidFile,    \* the identifiers in the pid file, or Absent
    hups,       \* signals SIGHUP sent so far
    openFailed  \* history: has fopen of the pid file ever failed?

startupVars == <<proc, status, used, pidFile, hups, openFailed>>

Pids == 1 .. MaxPid
Absent == {0}
EXIT_SUCCESS == 0
EXIT_FAILURE == 1

Phases == {"unborn", "exec", "again", "child", "daemon", "removed", "opened", "orphaned", "loading",
           "running", "stopping", "ended"}

StartupInit ==
    /\ proc = [p \in Pids |-> "unborn"]
    /\ status = [p \in Pids |-> EXIT_SUCCESS]
    /\ used = 0
    /\ pidFile = Absent
    /\ hups = 0
    /\ openFailed = FALSE

Alive(p) == proc[p] \notin {"unborn", "ended"}
Live == {p \in Pids : Alive(p)}

Becomes(p, phase) == proc' = [proc EXCEPT ![p] = phase]
Ends(p, code) == Becomes(p, "ended") /\ status' = [status EXCEPT ![p] = code]

\* What removing the pid file does to the processes that have it open.
Orphan(procs) == [q \in Pids |-> IF procs[q] = "opened" THEN "orphaned" ELSE procs[q]]

\* fork: the parent exits with success, also when fork has failed.
Fork(p, phase) ==
    /\ status' = [status EXCEPT ![p] = EXIT_SUCCESS]
    /\ \/ /\ used < MaxPid
          /\ used' = used + 1
          /\ proc' = [proc EXCEPT ![p] = "ended", ![used + 1] = phase]
       \/ Becomes(p, "ended") /\ UNCHANGED used

\* argc > 1: the version or the help text, and no probe.  The service scripts
\* pass on the options they are configured with.
Options(p) ==
    /\ proc[p] = "exec"
    /\ Ends(p, EXIT_SUCCESS)
    /\ UNCHANGED <<used, pidFile, hups, openFailed>>

ChdirFork(p) ==
    /\ proc[p] \in {"exec", "again"}
    /\ \/ Fork(p, "child")
       \/ Ends(p, EXIT_FAILURE) /\ UNCHANGED used
    /\ UNCHANGED <<pidFile, hups, openFailed>>

SecondFork(p) ==
    /\ proc[p] = "child"
    /\ Fork(p, "daemon")
    /\ UNCHANGED <<pidFile, hups, openFailed>>

RemovePidFile(p) ==
    /\ proc[p] = "daemon"
    /\ proc' = [Orphan(proc) EXCEPT ![p] = "removed"]
    /\ pidFile' = Absent
    /\ UNCHANGED <<status, used, hups, openFailed>>

\* fopen(..., "w"): a failure is logged and start-up goes on.
OpenPidFile(p) ==
    /\ proc[p] = "removed"
    /\ \/ Becomes(p, "opened") /\ pidFile' = {} /\ UNCHANGED openFailed
       \/ Becomes(p, "loading") /\ openFailed' = TRUE /\ UNCHANGED pidFile
    /\ UNCHANGED <<status, used, hups>>

\* Fault: the identifier is the one main had before it forked.
WriteParentPid(p) ==
    /\ proc[p] \in {"opened", "orphaned"}
    /\ pidFile' = IF proc[p] = "opened" THEN {p - 1} ELSE pidFile
    /\ Becomes(p, "loading")
    /\ UNCHANGED <<status, used, hups, openFailed>>

\* The identifier is written over the front of what the file holds by now.
WritePidFile(p) ==
    /\ proc[p] \in {"opened", "orphaned"}
    /\ \/ /\ proc[p] = "opened"
          /\ \E behind \in SUBSET pidFile :
                 (behind = pidFile => pidFile = {}) /\ pidFile' = behind \cup {p}
       \/ proc[p] = "orphaned" /\ UNCHANGED pidFile
    /\ Becomes(p, "loading")
    /\ UNCHANGED <<status, used, hups, openFailed>>

\* Fault: main returns the -1 of a failed call.
LoadReturnsMinusOne(p) ==
    /\ proc[p] = "loading"
    /\ \/ Becomes(p, "running") /\ UNCHANGED status
       \/ Ends(p, -1)
    /\ UNCHANGED <<used, pidFile, hups, openFailed>>

\* loadConf, addonManager, the two threads: each may fail, and main returns.
Load(p) ==
    /\ proc[p] = "loading"
    /\ \/ Becomes(p, "running") /\ UNCHANGED status
       \/ Ends(p, EXIT_FAILURE)
    /\ UNCHANGED <<used, pidFile, hups, openFailed>>

\* SIGHUP to a running daemon: it shuts down, then execve starts the probe
\* again in the same process, or has failed five times.  The shutdown is one step
\* here: a SIGTERM that comes in it, and is lost because signum is set (Signals),
\* is not told from one that comes to the probe that starts again.
Hup(p) ==
    /\ proc[p] = "running" /\ hups < MaxHups
    /\ hups' = hups + 1
    /\ \/ Becomes(p, "again") /\ UNCHANGED status
       \/ Ends(p, EXIT_SUCCESS)
    /\ UNCHANGED <<used, pidFile, openFailed>>

\* The end of a daemon that was asked to stop (Signals).
Stop(p) ==
    /\ proc[p] = "stopping"
    /\ Ends(p, EXIT_SUCCESS)
    /\ UNCHANGED <<used, pidFile, hups, openFailed>>

Main(p) ==
    \/ Options(p) \/ ChdirFork(p) \/ SecondFork(p) \/ RemovePidFile(p) \/ OpenPidFile(p)
    \/ WritePidFile(p) \/ Load(p) \/ Hup(p) \/ Stop(p)

\* What SIGTERM does to p: before the handlers are registered it kills.
Terminated(p) ==
    IF proc[p] \in {"running", "stopping"} THEN "stopping" ELSE "ended"

StartupTypeOK ==
    /\ proc \in [Pids -> Phases]
    /\ status \in [Pids -> {EXIT_SUCCESS, EXIT_FAILURE}]
    /\ used \in 0 .. MaxPid
    /\ pidFile \in (SUBSET Pids) \cup {Absent}
    /\ hups \in Nat
    /\ openFailed \in BOOLEAN
=============================================================================
