------------------------------ MODULE LogProof ------------------------------
(***************************************************************************)
(* Theorems about Log, for every set of threads, table of descriptors and  *)
(* number of lines and signals.                                            *)
(***************************************************************************)
EXTENDS Log, SequenceTheorems, FiniteSetTheorems, TLAPS

-----------------------------------------------------------------------------
(* How often a line is in a sequence *)

Where(s, line) == {i \in DOMAIN s : s[i] = line}

LEMMA TimesIsNat ==
    ASSUME NEW S, NEW s \in Seq(S), NEW line
    PROVE  IsFiniteSet(Where(s, line)) /\ Times(s, line) \in Nat
<1>1. DOMAIN s = 1 .. Len(s) /\ Len(s) \in Nat
  BY LenProperties
<1>2. IsFiniteSet(1 .. Len(s))
  BY <1>1, FS_Interval
<1>3. IsFiniteSet(Where(s, line))
  BY <1>1, <1>2, FS_Subset DEF Where
<1> QED
  BY <1>3, FS_CardinalityType DEF Times, Where

\* Appending a line adds one to its count and to no other's.
LEMMA TimesAppend ==
    ASSUME NEW S, NEW s \in Seq(S), NEW e \in S, NEW line
    PROVE  /\ e = line => Times(Append(s, e), line) = Times(s, line) + 1
           /\ e # line => Times(Append(s, e), line) = Times(s, line)
<1> DEFINE r == Append(s, e)
           n == Len(s)
<1>1. /\ n \in Nat /\ DOMAIN s = 1 .. n /\ DOMAIN r = 1 .. n + 1
      /\ r[n + 1] = e /\ \A i \in 1 .. n : r[i] = s[i]
  <2>1. /\ r \in Seq(S) /\ Len(r) = n + 1 /\ r[n + 1] = e
        /\ \A i \in 1 .. n : r[i] = s[i]
    BY AppendProperties
  <2> QED
    BY <2>1, LenProperties
<1>4. /\ Times(s, line) = Cardinality(Where(s, line)) /\ Times(r, line) = Cardinality(Where(r, line))
      /\ IsFiniteSet(Where(s, line)) /\ Times(s, line) \in Nat
  BY TimesIsNat DEF Times, Where
<1>5. SUFFICES /\ e = line => Times(r, line) = Times(s, line) + 1
               /\ e # line => Times(r, line) = Times(s, line)
  OBVIOUS
<1> HIDE DEF r, n
<1>2. CASE e = line
  <2>1. Where(r, line) = Where(s, line) \cup {n + 1} /\ n + 1 \notin Where(s, line)
    BY <1>1, <1>2 DEF Where
  <2> QED
    BY <1>2, <1>4, <2>1, FS_AddElement
<1>3. CASE e # line
  <2>1. Where(r, line) = Where(s, line)
    BY <1>1, <1>3 DEF Where
  <2> QED
    BY <1>3, <1>4, <2>1
<1> QED
  BY <1>2, <1>3

-----------------------------------------------------------------------------
(* The inductive invariant *)

Writing == {t \in Threads : pc[t] = "write"}

\* Whose the descriptors are.
FilesInv ==
    openFiles = leaked + (IF sending THEN 1 ELSE 0) + Cardinality(Writing)

\* The console is used, or about to be, only with too few descriptors left.
ConsoleInv ==
    writable /\ (console # <<>> \/ \E t \in Threads : pc[t] \in {"error", "fallback"}) =>
        leaked + 1 + Cardinality(Threads) > MaxFiles

\* The n-th call of t has returned.
Done(t, n) == n < begun[t] \/ (n = begun[t] /\ pc[t] = "idle")

LogInv == TypeOK /\ FilesInv /\ ConsoleInv /\ EachLineOnce

\* The threads that write are some of the threads.
LEMMA WritingFacts ==
    /\ IsFiniteSet(Threads) /\ Cardinality(Threads) \in Nat
    /\ IsFiniteSet(Writing) /\ Cardinality(Writing) \in Nat
<1>1. Writing \in SUBSET Threads
  BY DEF Writing
<1> QED
  BY <1>1, LogAssumption, FS_Subset, FS_CardinalityType

\* The sender's socket is none or one.
LEMMA SocketFact == (IF sending THEN 1 ELSE 0) \in {0, 1}
OBVIOUS

LEMMA InitLogInv == Init => LogInv
<1> SUFFICES ASSUME Init PROVE LogInv
  OBVIOUS
<1>1. TypeOK
  <2>1. logFile \in Seq(Threads \X Nat) /\ console \in Seq(Threads \X Nat)
    BY EmptySeq DEF Init
  <2>2. begun \in [Threads -> 0 .. MaxLines] /\ openFiles \in 0 .. MaxFiles /\ leaked \in 0 .. MaxFiles
        /\ signals \in 0 .. MaxSignals
    BY LogAssumption DEF Init
  <2> QED
    BY <2>1, <2>2 DEF Init, TypeOK
<1>2. FilesInv
  <2>1. Writing = {}
    BY DEF Init, Writing
  <2> QED
    BY <2>1, FS_EmptySet DEF Init, FilesInv
<1>3. ConsoleInv
  BY DEF Init, ConsoleInv
<1>4. EachLineOnce
  <2> SUFFICES ASSUME NEW t \in Threads, NEW n \in 1 .. MaxLines
               PROVE  Copies(<<t, n>>) = 0
    <3>1. \A t \in Threads, n \in 1 .. MaxLines : ~ Done(t, n)
      BY LogAssumption DEF Init, Done
    <3> QED
      BY <3>1 DEF EachLineOnce, Done
  <2>1. Times(<<>>, <<t, n>>) = 0
    <3>1. Where(<<>>, <<t, n>>) = {}
      <4>1. DOMAIN <<>> = {}
        OBVIOUS
      <4> QED
        BY <4>1 DEF Where
    <3> QED
      BY <3>1, FS_EmptySet DEF Times, Where
  <2>2. {<<t, n>>} \cap {} = {}
    OBVIOUS
  <2> QED
    BY <2>1, <2>2, FS_EmptySet, LogAssumption DEF Init, Copies
<1> QED
  BY <1>1, <1>2, <1>3, <1>4 DEF LogInv

-----------------------------------------------------------------------------
(* Each action keeps the invariant. *)

\* The steps that touch neither lines nor calls keep each line's count.
LEMMA CountsStay ==
    ASSUME EachLineOnce, UNCHANGED <<lines, begun>>,
           \A t \in Threads : pc'[t] = "idle" <=> pc[t] = "idle"
    PROVE  EachLineOnce'
BY DEF EachLineOnce, Copies, lines

\* A thread that is not writing and does not start to leaves Writing alone.
LEMMA WritingStays ==
    ASSUME TypeOK, NEW t \in Threads, NEW point, pc' = [pc EXCEPT ![t] = point],
           pc[t] # "write", point # "write"
    PROVE  Writing' = Writing
BY DEF Writing, TypeOK

LEMMA LogKeeps ==
    ASSUME LogInv, NEW t \in Threads, Log(t)
    PROVE  LogInv'
<1> USE DEF LogInv, Log, At, Goto
<1>1. TypeOK'
  BY LogAssumption DEF TypeOK, lines, sockets, stuck
<1>2. Writing' = Writing
  BY WritingStays
<1>3. FilesInv'
  BY <1>2 DEF FilesInv, TypeOK, sockets
<1>4. ConsoleInv'
  BY DEF ConsoleInv, TypeOK, lines, sockets
<1>5. EachLineOnce'
  <2>1. ASSUME NEW u \in Threads, NEW n \in 1 .. MaxLines PROVE Done(u, n)' <=> Done(u, n)
    <3>1. CASE u = t
      BY <2>1, <3>1, LogAssumption DEF Done, TypeOK
    <3>2. CASE u # t
      BY <2>1, <3>2 DEF Done, TypeOK
    <3> QED
      BY <3>1, <3>2
  <2>2. \A line : Copies(line)' = Copies(line)
    BY DEF Copies, lines
  <2> QED
    BY <2>1, <2>2 DEF EachLineOnce, Done
<1> QED
  BY <1>1, <1>3, <1>4, <1>5

\* Between the beginning and the end of a call, outside "write" and "error".
LEMMA QuietKeeps ==
    ASSUME LogInv, NEW t \in Threads, NEW point \in {"lock", "locked", "open"},
           pc[t] \in {"lock", "locked", "open"},
           pc' = [pc EXCEPT ![t] = point], TypeOK',
           UNCHANGED <<lines, openFiles, sockets, writable, begun>>
    PROVE  LogInv'
<1> USE DEF LogInv
<1>1. Writing' = Writing
  BY WritingStays
<1>2. FilesInv'
  BY <1>1 DEF FilesInv, TypeOK, sockets
<1>3. ConsoleInv'
  BY DEF ConsoleInv, TypeOK, lines, sockets
<1>4. EachLineOnce'
  BY CountsStay DEF TypeOK
<1> QED
  BY <1>2, <1>3, <1>4

LEMMA OpenKeeps ==
    ASSUME LogInv, NEW t \in Threads, Open(t)
    PROVE  LogInv'
<1> USE DEF LogInv, Open, At, Goto
<1>1. EachLineOnce'
  BY CountsStay DEF TypeOK, env
<1>2. t \notin Writing
  BY DEF Writing
<1>3. CASE writable /\ ~ Full
  <2>1. Writing' = Writing \cup {t}
    BY <1>3 DEF Writing, TypeOK
  <2>2. Cardinality(Writing') = Cardinality(Writing) + 1
    BY <1>2, <2>1, WritingFacts, FS_AddElement
  <2>3. TypeOK'
    <3>1. openFiles' \in 0 .. MaxFiles
      BY <1>3, LogAssumption DEF TypeOK, Full
    <3>2. pc' = [pc EXCEPT ![t] = "write"]
      BY <1>3
    <3> QED
      BY <3>1, <3>2 DEF TypeOK, lines, sockets, env, stuck
  <2>4. FilesInv'
    <3>1. openFiles' = openFiles + 1 /\ UNCHANGED sockets
      BY <1>3
    <3>3. openFiles + 1 = leaked + (IF sending THEN 1 ELSE 0) + (Cardinality(Writing) + 1)
      <4>1. /\ openFiles = leaked + (IF sending THEN 1 ELSE 0) + Cardinality(Writing)
            /\ openFiles \in Nat /\ leaked \in Nat /\ Cardinality(Writing) \in Nat
        BY WritingFacts, LogAssumption DEF FilesInv, TypeOK
      <4>2. CASE sending
        BY <4>1, <4>2
      <4>3. CASE ~ sending
        BY <4>1, <4>3
      <4> QED
        BY <4>2, <4>3
    <3>4. openFiles' = leaked' + (IF sending' THEN 1 ELSE 0) + Cardinality(Writing')
      BY <2>2, <3>1, <3>3 DEF sockets
    <3> QED
      BY <3>4 DEF FilesInv
  <2>5. ConsoleInv'
    BY <1>3 DEF ConsoleInv, TypeOK, lines, sockets, env, stuck
  <2> QED
    BY <1>1, <2>3, <2>4, <2>5
<1>4. CASE ~ (writable /\ ~ Full)
  <2>1. Writing' = Writing
    BY <1>4, WritingStays
  <2>2. TypeOK'
    BY <1>4 DEF TypeOK, lines, sockets, env, stuck
  <2>3. FilesInv'
    BY <1>4, <2>1 DEF FilesInv, sockets
  <2>4. ConsoleInv'
    <3>1. CASE ~ writable
      BY <3>1 DEF ConsoleInv, env
    <3>2. CASE Full
      <4>1. Cardinality(Writing) < Cardinality(Threads)
        <5>1. Cardinality(Threads \ {t}) = Cardinality(Threads) - 1 /\ IsFiniteSet(Threads \ {t})
          BY WritingFacts, FS_RemoveElement
        <5>2. Writing \in SUBSET (Threads \ {t})
          BY <1>2 DEF Writing
        <5> QED
          BY <5>1, <5>2, WritingFacts, FS_Subset
      <4> QED
        BY <1>4, <3>2, <4>1, WritingFacts, LogAssumption DEF ConsoleInv, FilesInv, Full, TypeOK, sockets
    <3> QED
      BY <1>4, <3>1, <3>2
  <2> QED
    BY <1>1, <2>2, <2>3, <2>4
<1> QED
  BY <1>3, <1>4

LEMMA WriteKeeps ==
    ASSUME LogInv, NEW t \in Threads, Write(t)
    PROVE  LogInv'
<1> USE DEF LogInv, Write, At, Goto
<1>1. t \in Writing /\ Writing' = Writing \ {t}
  BY DEF Writing, TypeOK
<1>2. Cardinality(Writing') = Cardinality(Writing) - 1 /\ Cardinality(Writing) - 1 \in Nat
  <2>1. Cardinality(Writing') = Cardinality(Writing) - 1 /\ IsFiniteSet(Writing')
    BY <1>1, WritingFacts, FS_RemoveElement
  <2> QED
    BY <2>1, FS_CardinalityType
<1>3. Line(t) \in Threads \X Nat
  BY LogAssumption DEF Line, TypeOK
<1>4. TypeOK'
  <2>1. openFiles' \in 0 .. MaxFiles
    <3>1. openFiles >= 1
      BY <1>2, WritingFacts, SocketFact DEF FilesInv, TypeOK
    <3> QED
      BY <3>1, LogAssumption DEF TypeOK
  <2>2. logFile' \in Seq(Threads \X Nat)
    <3>1. Append(logFile, Line(t)) \in Seq(Threads \X Nat)
      BY <1>3, AppendProperties DEF TypeOK
    <3> QED
      BY <3>1 DEF TypeOK
  <2>3. lost' \subseteq Threads \X Nat
    BY <1>3 DEF TypeOK
  <2> QED
    BY <2>1, <2>2, <2>3 DEF TypeOK, sockets, env, stuck
<1>5. FilesInv'
  BY <1>2, WritingFacts DEF FilesInv, TypeOK, sockets
<1>6. ConsoleInv'
  BY DEF ConsoleInv, TypeOK, sockets, env, stuck
<1>7. EachLineOnce'
  <2> SUFFICES ASSUME NEW u \in Threads, NEW n \in 1 .. MaxLines
               PROVE  Copies(<<u, n>>)' = IF Done(u, n)' THEN 1 ELSE 0
    BY DEF EachLineOnce, Done
  <2> DEFINE line == <<u, n>>
  <2>1. Copies(line) = IF Done(u, n) THEN 1 ELSE 0
    BY DEF EachLineOnce, Done
  <2>2. line = Line(t) <=> u = t /\ n = begun[t]
    BY DEF Line
  <2>5. /\ Line(t) = line => Times(Append(logFile, Line(t)), line) = Times(logFile, line) + 1
        /\ Line(t) # line => Times(Append(logFile, Line(t)), line) = Times(logFile, line)
        /\ Times(logFile, line) \in Nat
    <3>1. logFile \in Seq(Threads \X Nat)
      BY DEF TypeOK
    <3>2. Times(logFile, line) \in Nat
      BY <3>1, TimesIsNat
    <3> QED
      BY <1>3, <3>1, <3>2, TimesAppend
  <2>3. CASE line # Line(t)
    <3>1. Done(u, n)' <=> Done(u, n)
      BY <2>2, <2>3 DEF Done, TypeOK, env
    <3>2. Times(logFile', line) = Times(logFile, line)
      <4>1. CASE logFile' = Append(logFile, Line(t))
        BY <2>3, <2>5, <4>1
      <4>2. CASE UNCHANGED logFile
        BY <4>2
      <4> QED
        BY <4>1, <4>2
    <3>3. {line} \cap lost' = {line} \cap lost
      BY <2>3
    <3> QED
      BY <2>1, <3>1, <3>2, <3>3 DEF Copies
  <2>4. CASE line = Line(t)
    <3>1. Done(u, n)' /\ ~ Done(u, n)
      BY <2>2, <2>4, LogAssumption DEF Done, TypeOK, env
    <3>2. Times(logFile, line) \in Nat /\ Times(console, line) \in Nat
      BY TimesIsNat DEF TypeOK
    <3>3. Cardinality({line} \cap lost) \in Nat /\ IsFiniteSet({line} \cap lost)
      <4>1. {line} \cap lost \in SUBSET {line}
        OBVIOUS
      <4> QED
        BY <4>1, FS_Singleton, FS_Subset, FS_CardinalityType
    <3>4. Times(logFile, line) = 0 /\ Times(console, line) = 0 /\ Cardinality({line} \cap lost) = 0
      BY <2>1, <3>1, <3>2, <3>3 DEF Copies
    <3>5. CASE logFile' = Append(logFile, Line(t)) /\ UNCHANGED lost
      <4>1. Times(Append(logFile, Line(t)), line) = Times(logFile, line) + 1
        BY <2>4, <2>5
      <4> QED
        BY <3>1, <3>4, <3>5, <4>1 DEF Copies
    <3>6. CASE lost' = lost \cup {Line(t)} /\ UNCHANGED logFile
      <4>1. {line} \cap lost' = {line}
        BY <2>4, <3>6
      <4>2. Cardinality({line} \cap lost') = 1
        BY <4>1, FS_Singleton
      <4> QED
        BY <3>1, <3>4, <3>6, <4>2 DEF Copies
    <3> QED
      BY <3>5, <3>6
  <2> QED
    BY <2>3, <2>4
<1> QED
  BY <1>4, <1>5, <1>6, <1>7

\* What a thread adds to the console, and the line it adds there.
LEMMA ConsoleAppend ==
    ASSUME LogInv, NEW e \in Threads \X Nat, log2Console(e),
           NEW u \in Threads, NEW n \in 1 .. MaxLines
    PROVE  /\ Copies(<<u, n>>) \in Nat
           /\ <<u, n>> = e => Copies(<<u, n>>)' = Copies(<<u, n>>) + 1
           /\ <<u, n>> # e => Copies(<<u, n>>)' = Copies(<<u, n>>)
<1> DEFINE line == <<u, n>>
<1>1. /\ e = line => Times(Append(console, e), line) = Times(console, line) + 1
      /\ e # line => Times(Append(console, e), line) = Times(console, line)
      /\ Times(console, line) \in Nat /\ Times(logFile, line) \in Nat
  <2>1. logFile \in Seq(Threads \X Nat) /\ console \in Seq(Threads \X Nat)
    BY DEF LogInv, TypeOK
  <2>2. Times(console, line) \in Nat /\ Times(logFile, line) \in Nat
    BY <2>1, TimesIsNat
  <2> QED
    BY <2>1, <2>2, TimesAppend
<1>2. Cardinality({line} \cap lost) \in Nat
  <2>1. {line} \cap lost \in SUBSET {line}
    OBVIOUS
  <2> QED
    BY <2>1, FS_Singleton, FS_Subset, FS_CardinalityType
<1>3. Times(console', line) = Times(Append(console, e), line) /\ UNCHANGED <<logFile, lost>>
  BY DEF log2Console
<1> QED
  BY <1>1, <1>2, <1>3 DEF Copies

\* A line is a thread and a number, also the one that says why.
LEMMA LineType ==
    ASSUME TypeOK, NEW t \in Threads
    PROVE  Line(t) \in Threads \X Nat /\ <<t, 0>> \in Threads \X Nat
BY LogAssumption DEF Line, TypeOK

\* The console grows by one line.
LEMMA ConsoleType ==
    ASSUME TypeOK, NEW e \in Threads \X Nat, log2Console(e)
    PROVE  console' \in Seq(Threads \X Nat)
<1>1. Append(console, e) \in Seq(Threads \X Nat)
  BY AppendProperties DEF TypeOK
<1> QED
  BY <1>1 DEF log2Console

LEMMA ErrorLineKeeps ==
    ASSUME LogInv, NEW t \in Threads, ErrorLine(t)
    PROVE  LogInv'
<1> USE DEF LogInv, ErrorLine, At, Goto
<1>1. <<t, 0>> \in Threads \X Nat
  BY LineType
<1>2. TypeOK'
  <2>1. console' \in Seq(Threads \X Nat)
    BY <1>1, ConsoleType
  <2> QED
    BY <2>1 DEF TypeOK, log2Console, sockets, env, stuck
<1>3. Writing' = Writing
  BY WritingStays
<1>4. FilesInv'
  BY <1>3 DEF FilesInv, sockets
<1>5. ConsoleInv'
  BY DEF ConsoleInv, sockets, env
<1>6. EachLineOnce'
  <2>1. ASSUME NEW u \in Threads, NEW n \in 1 .. MaxLines
        PROVE  Copies(<<u, n>>)' = Copies(<<u, n>>)
    <3>1. <<u, n>> # <<t, 0>>
      BY LogAssumption
    <3> QED
      BY <1>1, <3>1, ConsoleAppend
  <2> SUFFICES ASSUME NEW u \in Threads, NEW n \in 1 .. MaxLines
               PROVE  Copies(<<u, n>>)' = IF Done(u, n)' THEN 1 ELSE 0
    BY DEF EachLineOnce, Done
  <2>2. Copies(<<u, n>>) = IF Done(u, n) THEN 1 ELSE 0
    BY DEF EachLineOnce, Done
  <2>3. Done(u, n)' <=> Done(u, n)
    BY DEF Done, TypeOK, env
  <2> QED
    BY <2>1, <2>2, <2>3
<1> QED
  BY <1>2, <1>4, <1>5, <1>6

LEMMA FallbackKeeps ==
    ASSUME LogInv, NEW t \in Threads, Fallback(t)
    PROVE  LogInv'
<1> USE DEF LogInv, Fallback, At, Goto
<1>1. Line(t) \in Threads \X Nat
  BY LineType
<1>2. TypeOK'
  <2>1. console' \in Seq(Threads \X Nat)
    BY <1>1, ConsoleType
  <2> QED
    BY <2>1 DEF TypeOK, log2Console, sockets, env, stuck
<1>3. Writing' = Writing
  BY WritingStays
<1>4. FilesInv'
  BY <1>3 DEF FilesInv, sockets
<1>5. ConsoleInv'
  BY DEF ConsoleInv, sockets, env
<1>6. EachLineOnce'
  <2> SUFFICES ASSUME NEW u \in Threads, NEW n \in 1 .. MaxLines
               PROVE  Copies(<<u, n>>)' = IF Done(u, n)' THEN 1 ELSE 0
    BY DEF EachLineOnce, Done
  <2>1. Copies(<<u, n>>) = IF Done(u, n) THEN 1 ELSE 0
    BY DEF EachLineOnce, Done
  <2>2. <<u, n>> = Line(t) <=> u = t /\ n = begun[t]
    BY DEF Line
  <2>3. CASE <<u, n>> = Line(t)
    <3>1. Done(u, n)' /\ ~ Done(u, n)
      BY <2>2, <2>3, LogAssumption DEF Done, TypeOK, env
    <3>2. Copies(<<u, n>>)' = Copies(<<u, n>>) + 1
      BY <1>1, <2>3, ConsoleAppend
    <3> QED
      BY <2>1, <3>1, <3>2
  <2>4. CASE <<u, n>> # Line(t)
    <3>1. Done(u, n)' <=> Done(u, n)
      BY <2>2, <2>4 DEF Done, TypeOK, env
    <3>2. Copies(<<u, n>>)' = Copies(<<u, n>>)
      BY <1>1, <2>4, ConsoleAppend
    <3> QED
      BY <2>1, <3>1, <3>2
  <2> QED
    BY <2>3, <2>4
<1> QED
  BY <1>2, <1>4, <1>5, <1>6

LEMMA LockKeeps ==
    ASSUME LogInv, NEW t \in Threads, LogLock(t) \/ LogUnlock(t)
    PROVE  LogInv'
<1>1. TypeOK'
  BY DEF LogInv, TypeOK, LogLock, LogUnlock, At, Goto, lines, sockets, env, stuck
<1>2. /\ pc[t] \in {"lock", "locked"} /\ UNCHANGED <<lines, openFiles, sockets, writable, begun>>
      /\ pc' = [pc EXCEPT ![t] = "locked"] \/ pc' = [pc EXCEPT ![t] = "open"]
  BY DEF LogLock, LogUnlock, At, Goto, env
<1> QED
  BY <1>1, <1>2, QuietKeeps

LEMMA InterruptKeeps ==
    ASSUME LogInv, NEW t \in Threads, Interrupt(t)
    PROVE  LogInv'
<1>1. TypeOK'
  <2>1. signals' \in 0 .. MaxSignals
    BY LogAssumption DEF LogInv, TypeOK, Interrupt
  <2>2. /\ process' \in {"running", "aborted"}
        /\ hung' \subseteq Threads /\ libcLock' \in hung' \cup {Free}
    BY DEF LogInv, TypeOK, Interrupt, stuck
  <2> QED
    BY <2>1, <2>2 DEF LogInv, TypeOK, Interrupt, lines, sockets
<1>2. UNCHANGED <<pc, lines, openFiles, sockets, writable, begun>>
  BY DEF Interrupt
<1>3. Writing' = Writing
  BY <1>2 DEF Writing
<1>4. FilesInv' /\ ConsoleInv'
  BY <1>2, <1>3 DEF LogInv, FilesInv, ConsoleInv, lines, sockets
<1>5. EachLineOnce'
  BY <1>2, CountsStay DEF LogInv
<1> QED
  BY <1>1, <1>4, <1>5 DEF LogInv

\* The sender's sockets.
LEMMA SocketsKeep ==
    ASSUME LogInv, Connect \/ Disconnect
    PROVE  LogInv'
<1> USE DEF LogInv
<1>1. UNCHANGED <<pc, lines, begun, writable>> /\ Writing' = Writing
  BY DEF Connect, Disconnect, env, Writing
<1>2. EachLineOnce'
  BY <1>1, CountsStay
<1>3. /\ openFiles \in 0 .. MaxFiles /\ leaked \in 0 .. MaxFiles /\ Cardinality(Writing) \in Nat
      /\ openFiles = leaked + (IF sending THEN 1 ELSE 0) + Cardinality(Writing)
  BY WritingFacts DEF FilesInv, TypeOK
<1>4. CASE Connect
  <2>1. ~ sending /\ sending' /\ leaked' = leaked /\ openFiles' = openFiles + 1
        /\ pc["sender"] = "idle" /\ openFiles < MaxFiles
    BY <1>3, <1>4, LogAssumption DEF Connect, At, Full
  <2>2. TypeOK'
    BY <1>1, <1>3, <1>4, <2>1, LogAssumption DEF TypeOK, Connect, lines, env, stuck
  <2>3. FilesInv'
    BY <1>1, <1>3, <2>1 DEF FilesInv
  <2>4. ConsoleInv'
    BY <1>1, <2>1 DEF ConsoleInv, lines
  <2> QED
    BY <1>2, <2>2, <2>3, <2>4
<1>5. CASE Disconnect
  <2>1. openFiles = leaked + 1 + Cardinality(Writing)
    BY <1>3, <1>5 DEF Disconnect
  <2>2. /\ sending' = FALSE /\ openFiles' \in 0 .. MaxFiles /\ leaked' \in 0 .. MaxFiles
        /\ leaked' >= leaked /\ openFiles' = leaked' + Cardinality(Writing)
    BY <1>3, <1>5, <2>1, LogAssumption DEF Disconnect
  <2>3. TypeOK'
    BY <1>1, <1>5, <2>2 DEF TypeOK, Disconnect, lines, env, stuck
  <2>4. FilesInv'
    BY <1>1, <1>3, <2>2 DEF FilesInv
  <2>5. ConsoleInv'
    BY <1>1, <1>3, <2>2, WritingFacts, LogAssumption DEF ConsoleInv, lines
  <2> QED
    BY <1>2, <2>3, <2>4, <2>5
<1> QED
  BY <1>4, <1>5

\* No step at all.
LEMMA StutterKeeps ==
    ASSUME LogInv, UNCHANGED vars
    PROVE  LogInv'
BY DEF LogInv, TypeOK, FilesInv, ConsoleInv, EachLineOnce, Copies, Writing, vars, lines, sockets

-----------------------------------------------------------------------------
(* Theorems *)

\* The inductive invariant holds in every state of the log.
THEOREM LogInvariant == Spec => []LogInv
<1>1. LogInv /\ [Next]_vars => LogInv'
  <2> SUFFICES ASSUME LogInv, [Next]_vars PROVE LogInv'
    OBVIOUS
  <2>1. ASSUME NEW t \in Threads, Log(t) PROVE LogInv'
    BY <2>1, LogKeeps
  <2>2. ASSUME NEW t \in Threads, GLog(t) PROVE LogInv'
    BY <2>2, LockKeeps, OpenKeeps, WriteKeeps, ErrorLineKeeps, FallbackKeeps DEF GLog
  <2>3. ASSUME NEW t \in Threads, Interrupt(t) PROVE LogInv'
    BY <2>3, InterruptKeeps
  <2>4. CASE Connect \/ Disconnect
    BY <2>4, SocketsKeep
  <2>5. CASE Stopped \/ UNCHANGED vars
    BY <2>5, StutterKeeps DEF Stopped
  <2> QED
    BY <2>1, <2>2, <2>3, <2>4, <2>5 DEF Next
<1> QED
  BY <1>1, InitLogInv, PTL DEF Spec

\* The state keeps its types: no more descriptors than the process may have.
THEOREM LogTypeCorrect == Spec => []TypeOK
<1>1. LogInv => TypeOK
  BY DEF LogInv
<1> QED
  BY <1>1, LogInvariant, PTL

\* Each message of a call that has returned is logged exactly once, by any
\* number of threads and with any number of descriptors left (log2File).
THEOREM LinesAppearOnce == Spec => []EachLineOnce
<1>1. LogInv => EachLineOnce
  BY DEF LogInv
<1> QED
  BY <1>1, LogInvariant, PTL

\* A log file that can be written is given up for the console only when the
\* sockets leaked and one in use leave less than one descriptor for each thread
\* that logs (log2File, and the sockets of sender.c).
THEOREM FallbackMeansExhausted == Spec => []FallbackOnlyWhenExhausted
<1>1. LogInv => FallbackOnlyWhenExhausted
  BY DEF LogInv, ConsoleInv, FallbackOnlyWhenExhausted
<1> QED
  BY <1>1, LogInvariant, PTL
=============================================================================
