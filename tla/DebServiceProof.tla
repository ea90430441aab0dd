--------------------------- MODULE DebServiceProof --------------------------
(***************************************************************************)
(* Theorems about DebService and the Startup under it, for any number of   *)
(* commands, of processes and of signals SIGHUP.                           *)
(***************************************************************************)
EXTENDS DebService, StartupProof, FiniteSetTheorems, TLAPS

-----------------------------------------------------------------------------
(* The inductive invariant *)

AtMostOneLive == \A p, q \in Live : p = q

\* A start since the last stop that succeeded has at most one process, and the
\* pid file is that process's.
StartsInv ==
    /\ starts = 0 => Live = {}
    /\ starts <= 1 =>
          /\ AtMostOneLive
          /\ \A p \in Pids :
                /\ proc[p] # "orphaned"
                /\ proc[p] = "opened" => pidFile = {}
                /\ proc[p] \in {"loading", "running", "stopping"} /\ ~ openFailed => pidFile = {p}

\* Where the script is, and what that took.
ScriptInv ==
    /\ \A p \in scanned : p <= used
    /\ pc \in {"startTest", "start", "startWait"} => command \in {"start", "restart"}
    /\ pc \in {"startTest", "start"} /\ command = "restart" => starts = 0
    /\ pc = "startWait" /\ command = "restart" => starts = 1
    /\ pc = "remove" => Live = {}
    /\ pc = "idle" /\ command = "stop" /\ result # 2 => starts = 0 /\ pidFile = Absent
    /\ pc = "idle" /\ command = "restart" /\ result = 0 => starts = 1

DebInv == TypeOK /\ PidInv /\ StartsInv /\ ScriptInv

LEMMA InitDebInv == Init => DebInv
<1> SUFFICES ASSUME Init PROVE DebInv
  OBVIOUS
<1>1. \A p \in Pids : proc[p] = "unborn"
  BY DEF Init, StartupInit
<1>2. TypeOK
  <2>1. StartupTypeOK
    BY StartupInitTypes DEF Init
  <2> QED
    BY <2>1 DEF Init, TypeOK
<1>3. Live = {}
  BY <1>1 DEF Live, Alive
<1>4. PidInv /\ StartsInv /\ ScriptInv
  BY <1>1, <1>3 DEF Init, StartupInit, PidInv, StartsInv, AtMostOneLive, ScriptInv
<1> QED
  BY <1>2, <1>4 DEF DebInv

-----------------------------------------------------------------------------
(* The steps of the processes *)

\* A step of the only live process leaves at most one.
LEMMA MainLive ==
    ASSUME StartupTypeOK, PidInv, NEW p \in Pids, Main(p), AtMostOneLive
    PROVE  AtMostOneLive'
<1> USE StartupAssumption DEF StartupTypeOK, PidInv, Pids, AtMostOneLive, Live, Alive
<1>1. \A q \in Pids \ {p} : proc[q] \in {"unborn", "ended"}
  BY MainIsLive
<1>2. (\A q \in Pids \ {p} : proc'[q] \in {"unborn", "ended"}) => AtMostOneLive'
  OBVIOUS
<1>3. (\A q \in Pids \ {used + 1} : proc'[q] \in {"unborn", "ended"}) => AtMostOneLive'
  OBVIOUS
<1>4. CASE Options(p) \/ WritePidFile(p) \/ OpenPidFile(p) \/ Load(p) \/ Hup(p) \/ Stop(p)
  BY <1>1, <1>2, <1>4 DEF Options, WritePidFile, OpenPidFile, Load, Hup, Stop, Ends, Becomes
<1>5. CASE RemovePidFile(p)
  BY <1>1, <1>2, <1>5 DEF RemovePidFile, Orphan
<1>6. CASE ChdirFork(p) \/ SecondFork(p)
  BY <1>1, <1>2, <1>3, <1>6 DEF ChdirFork, SecondFork, Fork, Ends, Becomes
<1> QED
  BY <1>4, <1>5, <1>6 DEF Main

LEMMA MainKeeps ==
    ASSUME DebInv, NEW p \in Pids, Main(p), UNCHANGED scriptVars
    PROVE  DebInv'
<1> USE DEF DebInv, scriptVars
<1>1. TypeOK' /\ PidInv' /\ used <= used'
  BY MainTypes DEF TypeOK
<1>2. starts = 0 => FALSE
  BY MainIsLive DEF StartsInv
<1>3. StartsInv'
  <2> SUFFICES ASSUME starts <= 1
               PROVE  /\ AtMostOneLive'
                      /\ \A q \in Pids :
                            /\ proc'[q] # "orphaned"
                            /\ proc'[q] = "opened" => pidFile' = {}
                            /\ proc'[q] \in {"loading", "running", "stopping"} /\ ~ openFailed'
                                  => pidFile' = {q}
    BY <1>2 DEF StartsInv
  <2>1. AtMostOneLive' /\ \A q \in Pids \ {p} : proc[q] \in {"unborn", "ended"}
    BY MainLive, MainIsLive DEF StartsInv, AtMostOneLive, TypeOK, Live, Alive
  <2> DEFINE Good == \A q \in Pids :
                        /\ proc'[q] # "orphaned"
                        /\ proc'[q] = "opened" => pidFile' = {}
                        /\ proc'[q] \in {"loading", "running", "stopping"} /\ ~ openFailed'
                              => pidFile' = {q}
  <2>2. CASE Options(p) \/ Load(p) \/ Hup(p) \/ Stop(p)
    BY <2>1, <2>2 DEF StartsInv, TypeOK, StartupTypeOK, Options, Load, Hup, Stop, Ends, Becomes
  <2>3. CASE ChdirFork(p) \/ SecondFork(p)
    BY <2>1, <2>3, StartupAssumption
       DEF StartsInv, TypeOK, StartupTypeOK, ChdirFork, SecondFork, Fork, Ends, Becomes, Pids
  <2>4. CASE RemovePidFile(p)
    BY <2>1, <2>4 DEF StartsInv, TypeOK, StartupTypeOK, RemovePidFile, Orphan
  <2>5. CASE OpenPidFile(p)
    BY <2>1, <2>5 DEF StartsInv, TypeOK, StartupTypeOK, OpenPidFile, Becomes
  <2>6. CASE WritePidFile(p)
    <3>1. pidFile = {} /\ pidFile' = {p}
      BY <2>6 DEF StartsInv, WritePidFile
    <3> QED
      BY <2>1, <2>6, <3>1 DEF StartsInv, TypeOK, StartupTypeOK, WritePidFile, Becomes
  <2> QED
    BY <2>1, <2>2, <2>3, <2>4, <2>5, <2>6 DEF Main
<1>4. ScriptInv'
  <2>1. \A q \in scanned' : q <= used'
    BY <1>1 DEF ScriptInv, TypeOK, StartupTypeOK, Pids
  <2> QED
    BY <1>2, <2>1, MainIsLive DEF ScriptInv, StartsInv
<1> QED
  BY <1>1, <1>3, <1>4

-----------------------------------------------------------------------------
(* The steps of the script *)

\* Named processes are live ones.
LEMMA NamedIsLive == Named \subseteq Live
BY DEF Named

LEMMA ScriptTypes ==
    ASSUME TypeOK, PidInv, \A p \in scanned : p <= used, Script
    PROVE  TypeOK' /\ PidInv'
<1> USE StartupAssumption DEF TypeOK, PidInv, scriptVars, Goto, Returns
<1>1. CASE Command
  BY <1>1 DEF Command, startupVars, StartupTypeOK
<1>2. CASE StartTest
  BY <1>2 DEF StartTest, startupVars, StartupTypeOK
<1>3. CASE Start
  BY <1>3 DEF Start, StartupTypeOK, Becomes, Pids, Phases
<1>4. CASE StartWait
  BY <1>4 DEF StartWait, startupVars, StartupTypeOK
<1>5. CASE StopTerm
  BY <1>5, NamedIsLive DEF StopTerm, StartupTypeOK, Terminated, Phases, Live, Alive
<1>6. CASE WaitTerm
  BY <1>6, NamedIsLive DEF WaitTerm, StartupTypeOK, Phases, Live, Alive
<1>7. CASE WaitKill
  BY <1>7 DEF WaitKill, startupVars, StartupTypeOK
<1>8. CASE StopAll
  BY <1>8 DEF StopAll, startupVars, StartupTypeOK
<1>9. CASE Scan
  BY <1>9 DEF Scan, Live, startupVars, StartupTypeOK
<1>10. CASE KillAll
  BY <1>10 DEF KillAll, StartupTypeOK, Phases, Pids
<1>11. CASE WaitAll
  BY <1>11 DEF WaitAll, startupVars, StartupTypeOK
<1>12. CASE StopRemove
  BY <1>12 DEF StopRemove, StartupTypeOK, Orphan, Phases
<1> QED
  BY <1>1, <1>2, <1>3, <1>4, <1>5, <1>6, <1>7, <1>8, <1>9, <1>10, <1>11, <1>12 DEF Script

\* The script kills and starts processes; it moves none of them on.
LEMMA ScriptKeeps ==
    ASSUME DebInv, Script
    PROVE  DebInv'
<1> USE DEF DebInv, Goto, Returns
<1>1. TypeOK' /\ PidInv'
  BY ScriptTypes DEF ScriptInv
<1>2. ASSUME UNCHANGED <<startupVars, starts>> PROVE StartsInv'
  BY <1>2 DEF StartsInv, AtMostOneLive, Live, Alive, startupVars
<1>3. ASSUME \A p \in Pids : \/ proc'[p] = proc[p]
                             \/ proc'[p] = "ended"
                             \/ proc'[p] = "stopping" /\ proc[p] \in {"running", "stopping"},
             UNCHANGED <<pidFile, openFailed, starts>>
      PROVE  StartsInv'
  BY <1>3 DEF StartsInv, AtMostOneLive, Live, Alive
<1>4. \A p \in scanned' : p <= used'
  <2>1. \A p \in Live : p <= used
    BY DEF PidInv, Live, Alive, Pids, TypeOK, StartupTypeOK
  <2>2. scanned' \in {scanned, Live} /\ used' \in {used, used + 1}
    BY Zenon DEF Script, Command, StartTest, Start, StartWait, StopTerm, WaitTerm, WaitKill, StopAll,
                 Scan, KillAll, WaitAll, StopRemove, startupVars
  <2> QED
    BY <2>1, <2>2 DEF ScriptInv, TypeOK, StartupTypeOK, Live, Pids
<1>5. CASE Command
  BY <1>1, <1>2, <1>4, <1>5 DEF Command, ScriptInv
<1>6. CASE StartTest
  BY <1>1, <1>2, <1>4, <1>6, NamedIsLive DEF StartTest, ScriptInv, StartsInv
<1>7. CASE Start
  <2>1. CASE UNCHANGED <<proc, used, shellChild, starts>>
    <3>1. StartsInv'
      BY <1>2, <1>7, <2>1 DEF Start, startupVars
    <3> QED
      BY <1>1, <1>4, <1>7, <2>1, <3>1 DEF Start, ScriptInv, StartsInv, TypeOK
  <2>2. CASE proc' = [proc EXCEPT ![used + 1] = "exec"] /\ starts' = starts + 1
    <3>1. StartsInv'
      <4>1. CASE starts = 0
        <5>1. \A q \in Pids \ {used + 1} : proc'[q] \in {"unborn", "ended"}
          BY <2>2, <4>1 DEF StartsInv, Live, Alive, TypeOK, StartupTypeOK
        <5>2. used + 1 \in Pids => proc'[used + 1] = "exec"
          BY <2>2 DEF TypeOK, StartupTypeOK
        <5> QED
          BY <2>2, <4>1, <5>1, <5>2 DEF StartsInv, AtMostOneLive, Live, Alive
      <4>2. CASE starts # 0
        BY <2>2, <4>2 DEF StartsInv, TypeOK
      <4> QED
        BY <4>1, <4>2
    <3> QED
      BY <1>1, <1>4, <1>7, <3>1 DEF Start, ScriptInv, StartsInv, TypeOK
  <2> QED
    BY <1>7, <2>1, <2>2 DEF Start, Becomes
<1>8. CASE StartWait
  BY <1>1, <1>2, <1>4, <1>8 DEF StartWait, ScriptInv
<1>9. CASE StopTerm
  BY <1>1, <1>3, <1>4, <1>9, NamedIsLive DEF StopTerm, ScriptInv, Terminated, TypeOK, StartupTypeOK
<1>10. CASE WaitTerm
  BY <1>1, <1>3, <1>4, <1>10 DEF WaitTerm, ScriptInv, TypeOK, StartupTypeOK
<1>11. CASE WaitKill
  BY <1>1, <1>2, <1>4, <1>11 DEF WaitKill, ScriptInv
<1>12. CASE StopAll
  BY <1>1, <1>2, <1>4, <1>12 DEF StopAll, ScriptInv, Live, Alive, startupVars
<1>13. CASE Scan
  BY <1>1, <1>2, <1>4, <1>13 DEF Scan, ScriptInv, Live, Alive, startupVars
<1>14. CASE KillAll
  BY <1>1, <1>3, <1>4, <1>14 DEF KillAll, ScriptInv, TypeOK, StartupTypeOK
<1>15. CASE WaitAll
  BY <1>1, <1>2, <1>4, <1>15 DEF WaitAll, ScriptInv, Live, Alive, startupVars
<1>16. CASE StopRemove
  <2>1. Live' = {}
    BY <1>16 DEF ScriptInv, StopRemove, Orphan, Live, Alive
  <2>2. StartsInv'
    BY <1>1, <1>16, <2>1 DEF StopRemove, StartsInv, AtMostOneLive, Live, Alive
  <2> QED
    BY <1>1, <1>4, <1>16, <2>2 DEF StopRemove, ScriptInv
<1> QED
  BY <1>5, <1>6, <1>7, <1>8, <1>9, <1>10, <1>11, <1>12, <1>13, <1>14, <1>15, <1>16 DEF Script

-----------------------------------------------------------------------------
(* Theorems *)

\* The inductive invariant.
THEOREM DebInvariant == Spec => []DebInv
<1>1. ASSUME DebInv, [Next]_vars
      PROVE  DebInv'
  <2>1. ASSUME NEW p \in Pids, Main(p), UNCHANGED scriptVars PROVE DebInv'
    BY <1>1, <2>1, MainKeeps
  <2>2. CASE Script
    BY <1>1, <2>2, ScriptKeeps
  <2>3. CASE UNCHANGED vars
    BY <1>1, <2>3 DEF DebInv, TypeOK, StartupTypeOK, PidInv, StartsInv, AtMostOneLive, ScriptInv,
                      Live, Alive, vars, startupVars, scriptVars
  <2> QED
    BY <1>1, <2>1, <2>2, <2>3 DEF Next, Rest
<1> QED
  BY <1>1, InitDebInv, PTL DEF Spec

\* Each variable keeps its type.
THEOREM DebTypeCorrect == Spec => []TypeOK
BY DebInvariant, PTL DEF DebInv

\* A stop that does not report a failure leaves no process and no pid file.
THEOREM StopIsComplete == Spec => []StopLeavesNothing
<1>1. DebInv => StopLeavesNothing
  BY DEF DebInv, ScriptInv, StartsInv, StopLeavesNothing
<1> QED
  BY <1>1, DebInvariant, PTL

\* A restart that worked leaves one process at most.
THEOREM RestartIsExclusive == Spec => []RestartLeavesOne
<1>1. DebInv => RestartLeavesOne
  <2> SUFFICES ASSUME DebInv, AtMostOneLive PROVE Cardinality(Live) <= 1
    BY DEF DebInv, ScriptInv, StartsInv, RestartLeavesOne
  <2>1. CASE Live = {}
    BY <2>1, FS_EmptySet
  <2>2. ASSUME NEW p \in Live PROVE Cardinality(Live) <= 1
    <3>1. Live = {p}
      BY <2>2 DEF AtMostOneLive
    <3> QED
      BY <3>1, FS_Singleton
  <2> QED
    BY <2>1, <2>2
<1> QED
  BY <1>1, DebInvariant, PTL

\* The pid file names the daemon of the only start.
THEOREM PidFileNamesDaemon == Spec => []DaemonIsNamed
<1>1. DebInv => DaemonIsNamed
  BY DEF DebInv, StartsInv, DaemonIsNamed
<1> QED
  BY <1>1, DebInvariant, PTL
=============================================================================
