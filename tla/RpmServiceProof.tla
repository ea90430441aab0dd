--------------------------- MODULE RpmServiceProof --------------------------
(***************************************************************************)
(* Theorems about RpmService and the Startup under it, for any number of   *)
(* commands, of processes and of signals SIGHUP.                           *)
(***************************************************************************)
EXTENDS RpmService, StartupProof, FiniteSetTheorems, TLAPS

-----------------------------------------------------------------------------
(* The inductive invariant *)

\* The process that daemon started runs by itself until it forks or fails.
ChildInv ==
    pc = "wait" => shellChild \in Pids /\ proc[shellChild] \in {"exec", "ended"}

\* A start is under way, or will be noted, that may have brought up a probe.
Starting ==
    \/ pc = "wait" /\ ~ (proc[shellChild] = "ended" /\ status[shellChild] = EXIT_FAILURE)
    \/ pc = "touch" /\ retval = 0

\* Beside what the last stop left, at most one process, and none without a
\* lock file or a start.
CountInv ==
    /\ pc \in {"daemon", "wait", "touch"} => ~ lockFile
    /\ Cardinality(Live) <= left + 1
    /\ ~ lockFile /\ ~ Starting => Cardinality(Live) <= left

RpmInv == TypeOK /\ PidInv /\ ChildInv /\ CountInv

LEMMA InitRpmInv == Init => RpmInv
<1> SUFFICES ASSUME Init PROVE RpmInv
  OBVIOUS
<1>1. StartupTypeOK /\ PidInv /\ Cardinality(Live) = 0
  BY StartupInitTypes, FS_EmptySet DEF Init
<1>2. TypeOK
  <2>1. shellChild \in Pids \cup {0} /\ found \subseteq Pids
    BY DEF Init
  <2> QED
    BY <1>1, <2>1 DEF Init, TypeOK
<1> QED
  BY <1>1, <1>2 DEF Init, RpmInv, ChildInv, CountInv, Starting

-----------------------------------------------------------------------------
(* The steps of the processes *)

\* The process that daemon started ends with a failure only if it is the last
\* of its line.
LEMMA ChildFails ==
    ASSUME StartupTypeOK, NEW p \in Pids, proc[p] = "exec", Main(p), status'[p] = EXIT_FAILURE
    PROVE  Cardinality(Live') <= Cardinality(Live) - 1
<1>1. ChdirFork(p) /\ Ends(p, EXIT_FAILURE)
  BY DEF Main, Options, ChdirFork, SecondFork, RemovePidFile, OpenPidFile, WritePidFile, Load, Hup,
         Stop, Fork, Ends, EXIT_SUCCESS, EXIT_FAILURE, StartupTypeOK
<1>2. p \in Live /\ Live' \subseteq Live \ {p}
  BY <1>1 DEF Live, Alive, Ends, Becomes, StartupTypeOK
<1>3. Cardinality(Live \ {p}) = Cardinality(Live) - 1 /\ IsFiniteSet(Live \ {p})
  BY <1>2, LiveFacts, FS_RemoveElement
<1> QED
  BY <1>2, <1>3, LiveFacts, FS_Subset

\* A step of p changes what another process has reached only when that process
\* had the pid file open, or was not born.
LEMMA OthersStay ==
    ASSUME StartupTypeOK, PidInv, NEW p \in Pids, NEW q \in Pids \ {p}, Main(p),
           proc[q] \in {"exec", "ended"}
    PROVE  proc'[q] = proc[q] /\ status'[q] = status[q]
<1> USE StartupAssumption DEF StartupTypeOK, PidInv, Pids
<1>1. CASE Options(p) \/ WritePidFile(p) \/ OpenPidFile(p) \/ Load(p) \/ Hup(p) \/ Stop(p)
  BY <1>1 DEF Options, WritePidFile, OpenPidFile, Load, Hup, Stop, Ends, Becomes
<1>2. CASE RemovePidFile(p)
  BY <1>2 DEF RemovePidFile, Orphan
<1>3. CASE ChdirFork(p) \/ SecondFork(p)
  BY <1>3 DEF ChdirFork, SecondFork, Fork, Ends, Becomes
<1> QED
  BY <1>1, <1>2, <1>3 DEF Main

LEMMA MainKeeps ==
    ASSUME RpmInv, NEW p \in Pids, Main(p),
           UNCHANGED <<callVars, lockFile, shellChild, found, commands, left>>
    PROVE  RpmInv'
<1> USE DEF RpmInv, callVars
<1>1. TypeOK' /\ PidInv'
  BY MainTypes DEF TypeOK
<1>2. Cardinality(Live') <= Cardinality(Live) /\ Cardinality(Live') \in Nat /\ Cardinality(Live) \in Nat
  BY MainCount, LiveFacts DEF TypeOK
<1>3. CASE pc # "wait"
  BY <1>1, <1>2, <1>3 DEF ChildInv, CountInv, Starting, TypeOK
<1>4. CASE pc = "wait" /\ p # shellChild
  <2>1. proc'[shellChild] = proc[shellChild] /\ status'[shellChild] = status[shellChild]
    BY <1>4, OthersStay DEF ChildInv, TypeOK
  <2> QED
    BY <1>1, <1>2, <1>4, <2>1 DEF ChildInv, CountInv, Starting, TypeOK
<1>5. CASE pc = "wait" /\ p = shellChild
  <2>1. proc[p] = "exec"
    BY <1>5, MainIsLive DEF ChildInv, Live, Alive
  <2>2. proc'[p] = "ended"
    BY <2>1, StartupAssumption
       DEF TypeOK, StartupTypeOK, PidInv, Pids, Main, Options, ChdirFork, SecondFork, RemovePidFile,
           OpenPidFile, WritePidFile, Load, Hup, Stop, Fork, Ends, Becomes
  <2>3. CASE status'[p] = EXIT_FAILURE
    <3>1. Cardinality(Live') <= Cardinality(Live) - 1
      BY <2>1, <2>3, ChildFails DEF TypeOK
    <3> QED
      BY <1>1, <1>2, <1>5, <2>2, <3>1 DEF ChildInv, CountInv, TypeOK
  <2>4. CASE status'[p] # EXIT_FAILURE
    BY <1>1, <1>2, <1>5, <2>2, <2>4 DEF ChildInv, CountInv, Starting, TypeOK
  <2> QED
    BY <2>3, <2>4
<1> QED
  BY <1>3, <1>4, <1>5

-----------------------------------------------------------------------------
(* The steps of the script *)

LEMMA ScriptTypes ==
    ASSUME TypeOK, PidInv, ChildInv, Script
    PROVE  TypeOK' /\ PidInv'
<1> USE StartupAssumption DEF TypeOK, PidInv, callVars, Goto, Returns, StopReturns
<1>1. CASE Command
  BY <1>1 DEF Command, startupVars, StartupTypeOK
<1>2. CASE StartTest
  BY <1>2 DEF StartTest, startupVars, StartupTypeOK
<1>3. CASE Daemon
  BY <1>3 DEF Daemon, StartupTypeOK, Becomes, Pids, Phases
<1>4. CASE DaemonWait
  BY <1>4 DEF DaemonWait, startupVars, StartupTypeOK, ChildInv, EXIT_SUCCESS, EXIT_FAILURE
<1>5. CASE Touch
  BY <1>5 DEF Touch, startupVars, StartupTypeOK
<1>6. CASE Pidof
  BY <1>6 DEF Pidof, startupVars, StartupTypeOK, Live
<1>7. CASE EchoPids
  BY <1>7 DEF EchoPids, StartupTypeOK
<1>8. CASE StopTest
  BY <1>8 DEF StopTest, startupVars, StartupTypeOK
<1>9. CASE Killproc
  BY <1>9 DEF Killproc, StartupTypeOK, Named, Terminated, Phases, Live, Alive
<1>10. CASE StopRemove
  <2>1. proc' \in [Pids -> Phases] /\ (\A p \in Pids : p > used => proc'[p] = "unborn")
    BY <1>10 DEF StopRemove, StartupTypeOK, Orphan, Phases
  <2>2. pidFile' \in (SUBSET Pids) \cup {Absent}
    BY <1>10, Zenon DEF StopRemove, StartupTypeOK
  <2>3. lockFile' \in BOOLEAN /\ left' \in Nat
    <3>1. lockFile' \in {FALSE, lockFile} /\ left' \in {Cardinality(Live), left}
      BY <1>10 DEF StopRemove
    <3>2. lockFile' \in BOOLEAN
      BY <3>1, Zenon
    <3> QED
      BY <3>1, <3>2, LiveFacts
  <2>4. pc' \in {"start", "idle"} /\ UNCHANGED <<retval, command, status, used, hups, openFailed,
                                                shellChild, found, commands>>
    BY <1>10 DEF StopRemove
  <2> QED
    BY <2>1, <2>2, <2>3, <2>4 DEF StartupTypeOK
<1> QED
  BY <1>1, <1>2, <1>3, <1>4, <1>5, <1>6, <1>7, <1>8, <1>9, <1>10 DEF Script

\* The script starts one process in Daemon, and ends some in Killproc.
LEMMA ScriptKeeps ==
    ASSUME RpmInv, Script
    PROVE  RpmInv'
<1> USE DEF RpmInv, callVars, Goto, Returns, StopReturns
<1>1. TypeOK' /\ PidInv'
  BY ScriptTypes
<1>2. /\ Cardinality(Live) \in Nat /\ left \in Nat
      /\ UNCHANGED proc => Live' = Live
  BY LiveFacts DEF TypeOK, Live, Alive
<1>3. CASE Command
  BY <1>1, <1>2, <1>3 DEF Command, startupVars, ChildInv, CountInv, Starting
<1>4. CASE StartTest
  BY <1>1, <1>2, <1>4 DEF StartTest, startupVars, ChildInv, CountInv, Starting
<1>5. CASE Daemon
  <2>1. CASE UNCHANGED <<proc, used, shellChild>> /\ pc' = "touch" /\ retval' = 0
    BY <1>1, <1>2, <1>5, <2>1 DEF Daemon, ChildInv, CountInv, Starting
  <2>2. CASE /\ used < MaxPid /\ proc' = [proc EXCEPT ![used + 1] = "exec"]
             /\ shellChild' = used + 1 /\ pc' = "wait"
    <3>1. used + 1 \in Pids /\ proc'[used + 1] = "exec" /\ used + 1 \notin Live
      BY <2>2, StartupAssumption DEF TypeOK, StartupTypeOK, PidInv, Pids, Live, Alive
    <3>2. Live' = Live \cup {used + 1}
      BY <2>2, <3>1 DEF TypeOK, StartupTypeOK, Live, Alive
    <3>3. Cardinality(Live') = Cardinality(Live) + 1
      BY <3>1, <3>2, LiveFacts, FS_AddElement
    <3>4. Cardinality(Live) <= left /\ ~ lockFile /\ UNCHANGED <<lockFile, left>>
      BY <1>5 DEF Daemon, CountInv, Starting
    <3> QED
      BY <1>1, <1>2, <2>2, <3>1, <3>3, <3>4 DEF ChildInv, CountInv, Starting
  <2> QED
    BY <1>5, <2>1, <2>2 DEF Daemon, Becomes
<1>6. CASE DaemonWait
  BY <1>1, <1>2, <1>6 DEF DaemonWait, startupVars, ChildInv, CountInv, Starting, Alive, TypeOK,
                          StartupTypeOK, EXIT_SUCCESS, EXIT_FAILURE
<1>7. CASE Touch
  BY <1>1, <1>2, <1>7 DEF Touch, startupVars, ChildInv, CountInv, Starting
<1>8. CASE Pidof
  BY <1>1, <1>2, <1>8 DEF Pidof, startupVars, ChildInv, CountInv, Starting
<1>9. CASE EchoPids
  BY <1>1, <1>2, <1>9 DEF EchoPids, ChildInv, CountInv, Starting
<1>10. CASE StopTest
  BY <1>1, <1>2, <1>10 DEF StopTest, startupVars, ChildInv, CountInv, Starting
<1>11. CASE Killproc
  <2>1. Live' \subseteq Live
    BY <1>11 DEF Killproc, Named, Terminated, Live, Alive, TypeOK, StartupTypeOK
  <2>2. Cardinality(Live') <= Cardinality(Live) /\ Cardinality(Live') \in Nat
    BY <2>1, LiveFacts
  <2> QED
    BY <1>1, <1>2, <1>11, <2>2 DEF Killproc, ChildInv, CountInv, Starting
<1>12. CASE StopRemove
  <2>1. Live' = Live
    BY <1>12 DEF StopRemove, Orphan, Live, Alive
  <2> QED
    BY <1>1, <1>2, <1>12, <2>1 DEF StopRemove, ChildInv, CountInv, Starting
<1> QED
  BY <1>3, <1>4, <1>5, <1>6, <1>7, <1>8, <1>9, <1>10, <1>11, <1>12 DEF Script

-----------------------------------------------------------------------------
(* Theorems *)

\* The inductive invariant.
THEOREM RpmInvariant == Spec => []RpmInv
<1>1. ASSUME RpmInv, [Next]_vars
      PROVE  RpmInv'
  <2>1. ASSUME NEW p \in Pids, Main(p),
               UNCHANGED <<callVars, lockFile, shellChild, found, commands, left>>
        PROVE  RpmInv'
    BY <1>1, <2>1, MainKeeps
  <2>2. CASE Script
    BY <1>1, <2>2, ScriptKeeps
  <2>3. CASE UNCHANGED vars
    BY <1>1, <2>3 DEF RpmInv, TypeOK, StartupTypeOK, PidInv, ChildInv, CountInv, Starting,
                      Live, Alive, vars, startupVars, callVars
  <2> QED
    BY <1>1, <2>1, <2>2, <2>3 DEF Next, Rest
<1> QED
  BY <1>1, InitRpmInv, PTL DEF Spec

\* Each variable keeps its type.
THEOREM RpmTypeCorrect == Spec => []TypeOK
BY RpmInvariant, PTL DEF RpmInv

\* Whatever commands were given, the lock file admits one process beside those
\* that the last stop did not wait for, or did not find.
THEOREM LockAdmitsOne == Spec => []OneBesideTheLeft
<1>1. RpmInv => OneBesideTheLeft
  BY DEF RpmInv, CountInv, OneBesideTheLeft
<1> QED
  BY <1>1, RpmInvariant, PTL

\* Between two commands no probe runs without a lock file but those a stop left.
THEOREM ProbesRunUnderLock == Spec => []RunsUnderLock
<1>1. RpmInv => RunsUnderLock
  BY DEF RpmInv, CountInv, Starting, RunsUnderLock
<1> QED
  BY <1>1, RpmInvariant, PTL
=============================================================================
