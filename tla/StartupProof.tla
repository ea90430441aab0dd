----------------------------- MODULE StartupProof ---------------------------
(***************************************************************************)
(* Lemmas about the processes of Startup, for both service scripts.        *)
(***************************************************************************)
EXTENDS Startup, FiniteSetTheorems, TLAPS

\* Identifiers are given in order.
PidInv == \A p \in Pids : p > used => proc[p] = "unborn"

\* The first state has its types, and no process.
LEMMA StartupInitTypes ==
    ASSUME StartupInit
    PROVE  StartupTypeOK /\ PidInv /\ Live = {}
<1>1. proc \in [Pids -> Phases] /\ status \in [Pids -> {EXIT_SUCCESS, EXIT_FAILURE}]
  BY DEF StartupInit, Phases
<1>2. used \in 0 .. MaxPid
  BY StartupAssumption DEF StartupInit
<1>3. pidFile \in (SUBSET Pids) \cup {Absent}
  BY Zenon DEF StartupInit
<1>4. Live = {} /\ PidInv
  BY DEF StartupInit, Live, Alive, PidInv
<1> QED
  BY <1>1, <1>2, <1>3, <1>4 DEF StartupInit, StartupTypeOK

\* What a step of process p does to the others: it may give birth to the next
\* one as it ends, and takes the pid file from those that have it open.
LEMMA MainTypes ==
    ASSUME StartupTypeOK, PidInv, NEW p \in Pids, Main(p)
    PROVE  StartupTypeOK' /\ PidInv' /\ used <= used'
<1> USE StartupAssumption DEF StartupTypeOK, PidInv, Pids, Absent
<1>1. CASE Options(p)
  BY <1>1 DEF Options, Ends, Becomes, Phases
<1>2. CASE ChdirFork(p)
  BY <1>2 DEF ChdirFork, Fork, Ends, Becomes, Phases
<1>3. CASE SecondFork(p)
  BY <1>3 DEF SecondFork, Fork, Becomes, Phases
<1>4. CASE RemovePidFile(p)
  <2>1. Orphan(proc) \in [1 .. MaxPid -> Phases]
    BY DEF Orphan, Phases
  <2>2. \A q \in 1 .. MaxPid : q > used => Orphan(proc)[q] = "unborn"
    BY DEF Orphan
  <2>3. p <= used
    BY <1>4 DEF RemovePidFile
  <2>4. proc' = [Orphan(proc) EXCEPT ![p] = "removed"] /\ "removed" \in Phases
    BY <1>4 DEF RemovePidFile, Phases
  <2>5. proc' \in [1 .. MaxPid -> Phases] /\ \A q \in 1 .. MaxPid : q > used => proc'[q] = "unborn"
    BY <2>1, <2>2, <2>3, <2>4
  <2>6. pidFile' \in (SUBSET Pids) \cup {Absent}
    BY <1>4, Zenon DEF RemovePidFile
  <2> QED
    BY <1>4, <2>5, <2>6 DEF RemovePidFile
<1>5. CASE OpenPidFile(p)
  <2>1. pidFile' \in (SUBSET Pids) \cup {Absent}
    BY <1>5 DEF OpenPidFile
  <2>2. PICK phase \in Phases : proc' = [proc EXCEPT ![p] = phase]
    BY <1>5 DEF OpenPidFile, Becomes, Phases
  <2>3. UNCHANGED <<status, used, hups>> /\ openFailed' \in BOOLEAN /\ proc[p] # "unborn"
    BY <1>5 DEF OpenPidFile
  <2>4. proc' \in [1 .. MaxPid -> Phases] /\ \A q \in 1 .. MaxPid : q > used => proc'[q] = "unborn"
    BY <2>2, <2>3
  <2> QED
    BY <2>1, <2>3, <2>4
<1>6. CASE WritePidFile(p)
  <2>1. pidFile' \in (SUBSET Pids) \cup {Absent}
    <3>1. CASE UNCHANGED pidFile
      BY <3>1
    <3>2. ASSUME NEW behind \in SUBSET pidFile, behind = pidFile => pidFile = {},
                 pidFile' = behind \cup {p}
          PROVE  pidFile' \in SUBSET Pids
      BY <3>2
    <3> QED
      BY <1>6, <3>1, <3>2 DEF WritePidFile
  <2> QED
    BY <1>6, <2>1 DEF WritePidFile, Becomes, Phases
<1>7. CASE Load(p)
  BY <1>7 DEF Load, Ends, Becomes, Phases
<1>8. CASE Hup(p)
  BY <1>8 DEF Hup, Ends, Becomes, Phases
<1>9. CASE Stop(p)
  BY <1>9 DEF Stop, Ends, Becomes, Phases
<1> QED
  BY <1>1, <1>2, <1>3, <1>4, <1>5, <1>6, <1>7, <1>8, <1>9 DEF Main

\* Only a live process takes a step.
LEMMA MainIsLive ==
    ASSUME NEW p \in Pids, Main(p)
    PROVE  p \in Live
BY DEF Live, Alive, Main, Options, ChdirFork, SecondFork, RemovePidFile, OpenPidFile, WritePidFile,
       Load, Hup, Stop

\* Processes can be counted.
LEMMA LiveFacts ==
    /\ IsFiniteSet(Live) /\ Cardinality(Live) \in Nat
    /\ \A S \in SUBSET Live : Cardinality(S) \in Nat /\ Cardinality(S) <= Cardinality(Live)
<1>1. IsFiniteSet(Pids)
  BY StartupAssumption, FS_Interval DEF Pids
<1>2. Live \in SUBSET Pids
  BY DEF Live
<1>3. IsFiniteSet(Live)
  BY <1>1, <1>2, FS_Subset
<1>4. ASSUME NEW S \in SUBSET Live
      PROVE  Cardinality(S) \in Nat /\ Cardinality(S) <= Cardinality(Live)
  BY <1>3, FS_Subset, FS_CardinalityType
<1> QED
  BY <1>3, <1>4, FS_CardinalityType

\* A process that forks ends, so that no step makes the processes more.
LEMMA MainCount ==
    ASSUME StartupTypeOK, PidInv, NEW p \in Pids, Main(p)
    PROVE  Cardinality(Live') <= Cardinality(Live) /\ Cardinality(Live') \in Nat
<1> USE StartupAssumption DEF StartupTypeOK, PidInv, Pids, Live, Alive
<1>1. p \in Live
  BY MainIsLive
<1>2. CASE used' = used /\ Live' \subseteq Live
  BY <1>2, LiveFacts
<1>3. CASE used' = used + 1 /\ Live' \subseteq (Live \ {p}) \cup {used + 1}
  <2>1. Cardinality(Live \ {p}) = Cardinality(Live) - 1 /\ IsFiniteSet(Live \ {p})
    BY <1>1, LiveFacts, FS_RemoveElement
  <2>2. used + 1 \notin Live \ {p}
    OBVIOUS
  <2>3. /\ Cardinality((Live \ {p}) \cup {used + 1}) = Cardinality(Live) - 1 + 1
        /\ IsFiniteSet((Live \ {p}) \cup {used + 1})
    BY <2>1, <2>2, FS_AddElement
  <2> QED
    BY <1>3, <2>3, LiveFacts, FS_Subset, FS_CardinalityType
<1>4. CASE Options(p) \/ WritePidFile(p) \/ OpenPidFile(p) \/ Load(p) \/ Hup(p) \/ Stop(p)
  BY <1>2, <1>4 DEF Options, WritePidFile, OpenPidFile, Load, Hup, Stop, Ends, Becomes
<1>5. CASE RemovePidFile(p)
  BY <1>2, <1>5 DEF RemovePidFile, Orphan
<1>6. CASE ChdirFork(p) \/ SecondFork(p)
  <2>1. CASE used' = used
    BY <1>2, <1>6, <2>1 DEF ChdirFork, SecondFork, Fork, Ends, Becomes
  <2>2. CASE used' # used
    BY <1>3, <1>6, <2>2 DEF ChdirFork, SecondFork, Fork, Ends, Becomes
  <2> QED
    BY <2>1, <2>2
<1> QED
  BY <1>4, <1>5, <1>6 DEF Main
=============================================================================
