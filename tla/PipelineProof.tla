--------------------------- MODULE PipelineProof ----------------------------
(***************************************************************************)
(* Proofs about Pipeline, for every set of addons, heartbeat period, range *)
(* of identifiers and bound.                                               *)
(***************************************************************************)
EXTENDS Pipeline, SequenceTheorems, TLAPS

-----------------------------------------------------------------------------
(* The list operations, on a list with no element twice. *)

\* Removing what follows the first element leaves the tail.
LEMMA AfterHead ==
    ASSUME NEW q \in Seq(Nat), q # <<>>,
           \A i, j \in 1 .. Len(q) : q[i] = q[j] => i = j
    PROVE  After(q, Head(q)) = Tail(q)
<1>1. Len(q) \in Nat \ {0} /\ DOMAIN q = 1 .. Len(q)
  BY EmptySeq, LenProperties
<1>2. Head(q) = q[1]
  OBVIOUS
<1>3. Holds(q, Head(q))
  BY <1>1, <1>2 DEF Holds
<1>4. Position(q, Head(q)) = 1
  BY <1>1, <1>2 DEF Position
<1>5. Tail(q) = SubSeq(q, 2, Len(q))
  BY TailIsSubSeq
<1>6. SubSeq(q, Position(q, Head(q)) + 1, Len(q)) = Tail(q)
  <2>1. Position(q, Head(q)) + 1 = 2
    BY <1>4
  <2> QED
    BY <2>1, <1>5
<1> QED
  BY <1>3, <1>6 DEF After

\* The library's facts on Head, Tail and Append, for a queue of elements.
LEMMA QueueFacts ==
    ASSUME NEW q \in Seq(Nat)
    PROVE  /\ Len(q) \in Nat /\ \A i \in 1 .. Len(q) : q[i] \in Nat
           /\ q = <<>> <=> Len(q) = 0
           /\ q # <<>> =>
                 /\ Head(q) \in Nat /\ Head(q) = q[1]
                 /\ Tail(q) \in Seq(Nat) /\ Len(Tail(q)) = Len(q) - 1
                 /\ \A i \in 1 .. Len(q) - 1 : Tail(q)[i] = q[i + 1]
           /\ \A e \in Nat :
                 /\ Append(q, e) \in Seq(Nat) /\ Append(q, e) # <<>>
                 /\ Len(Append(q, e)) = Len(q) + 1
                 /\ \A i \in 1 .. Len(q) : Append(q, e)[i] = q[i]
                 /\ Append(q, e)[Len(q) + 1] = e
<1>1. Len(q) \in Nat /\ \A i \in 1 .. Len(q) : q[i] \in Nat
  BY LenProperties, ElementOfSeq
<1>2. q = <<>> <=> Len(q) = 0
  BY EmptySeq
<1>3. ASSUME q # <<>>
      PROVE  /\ Head(q) \in Nat /\ Head(q) = q[1]
             /\ Tail(q) \in Seq(Nat) /\ Len(Tail(q)) = Len(q) - 1
             /\ \A i \in 1 .. Len(q) - 1 : Tail(q)[i] = q[i + 1]
  BY <1>3, HeadTailProperties
<1>4. ASSUME NEW e \in Nat
      PROVE  /\ Append(q, e) \in Seq(Nat) /\ Len(Append(q, e)) = Len(q) + 1
             /\ \A i \in 1 .. Len(q) : Append(q, e)[i] = q[i]
             /\ Append(q, e)[Len(q) + 1] = e
  BY AppendProperties
<1> QED
  BY <1>1, <1>2, <1>3, <1>4

\* Linking after the last element appends.
LEMMA LinkLast ==
    ASSUME NEW q \in Seq(Nat), NEW new,
           \A i, j \in 1 .. Len(q) : q[i] = q[j] => i = j
    PROVE  Link(q, IF q = <<>> THEN Null ELSE q[Len(q)], new) = Append(q, new)
<1>1. CASE q = <<>>
  <2>1. Append(<<>>, new) = <<new>>
    OBVIOUS
  <2> QED
    BY <1>1, <2>1 DEF Link
<1>2. CASE q # <<>>
  <2> DEFINE e == q[Len(q)]
  <2>1. Len(q) \in Nat \ {0} /\ DOMAIN q = 1 .. Len(q)
    BY <1>2, EmptySeq, LenProperties
  <2>2. e \in Nat
    BY <2>1, ElementOfSeq
  <2>3. e # Null
    BY <2>2 DEF Null
  <2>4. Holds(q, e) /\ Position(q, e) = Len(q)
    BY <2>1 DEF Holds, Position
  <2>5. SubSeq(q, 1, Len(q)) = q
    BY SubSeqFull
  <2> QED
    BY <1>2, <2>3, <2>4, <2>5 DEF Link
<1> QED
  BY <1>1, <1>2

\* The next datum goes to the end of a list that holds out + 1 .. in.
LEMMA ContentsAppend ==
    ASSUME NEW q \in Seq(Nat), NEW out \in Nat, NEW in \in Nat, out <= in, Contents(q, out, in)
    PROVE  Contents(Append(q, in + 1), out, in + 1)
<1> DEFINE r == Append(q, in + 1)
<1>1. /\ Len(q) \in Nat /\ \A i \in 1 .. Len(q) : q[i] \in Nat
      /\ Len(r) = Len(q) + 1
      /\ \A i \in 1 .. Len(q) : r[i] = q[i]
      /\ r[Len(q) + 1] = in + 1
  BY QueueFacts
<1>c1. \A i \in 1 .. Len(q) : q[i] = Heartbeat \/ q[i] \in out + 1 .. in
  BY DEF Contents
<1>c2. \A n \in out + 1 .. in : \E i \in 1 .. Len(q) : q[i] = n
  BY DEF Contents
<1>c3. \A i, j \in 1 .. Len(q) : i < j /\ q[i] # Heartbeat /\ q[j] # Heartbeat => q[i] < q[j]
  BY DEF Contents
<1>c4. \A i, j \in 1 .. Len(q) : q[i] = Heartbeat /\ q[j] = Heartbeat => i = j
  BY DEF Contents
<1> HIDE DEF r
<1>2. \A i \in 1 .. Len(r) : r[i] = Heartbeat \/ r[i] \in out + 1 .. in + 1
  BY <1>1, <1>c1
<1>3. \A n \in out + 1 .. in + 1 : \E i \in 1 .. Len(r) : r[i] = n
  <2> SUFFICES ASSUME NEW n \in out + 1 .. in + 1 PROVE \E i \in 1 .. Len(r) : r[i] = n
    OBVIOUS
  <2>1. CASE n = in + 1
    BY <1>1, <2>1
  <2>2. CASE n # in + 1
    <3>1. PICK i \in 1 .. Len(q) : q[i] = n
      BY <2>2, <1>c2
    <3> QED
      BY <1>1, <3>1
  <2> QED
    BY <2>1, <2>2
<1>4. \A i, j \in 1 .. Len(r) : i < j /\ r[i] # Heartbeat /\ r[j] # Heartbeat => r[i] < r[j]
  <2> SUFFICES ASSUME NEW i \in 1 .. Len(r), NEW j \in 1 .. Len(r), i < j,
                      r[i] # Heartbeat, r[j] # Heartbeat
               PROVE  r[i] < r[j]
    OBVIOUS
  <2>1. i \in 1 .. Len(q) /\ r[i] = q[i] /\ q[i] \in out + 1 .. in
    BY <1>1, <1>c1
  <2>2. CASE j = Len(q) + 1
    BY <1>1, <2>1, <2>2
  <2>3. CASE j \in 1 .. Len(q)
    BY <1>1, <2>1, <2>3, <1>c3
  <2>4. j = Len(q) + 1 \/ j \in 1 .. Len(q)
    BY <1>1
  <2> QED
    BY <2>2, <2>3, <2>4
<1>5. \A i, j \in 1 .. Len(r) : r[i] = Heartbeat /\ r[j] = Heartbeat => i = j
  <2>1. \A i \in 1 .. Len(r) : r[i] = Heartbeat => i \in 1 .. Len(q) /\ q[i] = Heartbeat
    BY <1>1 DEF Heartbeat
  <2> QED
    BY <2>1, <1>c4
<1>6. Contents(r, out, in + 1)
  BY <1>2, <1>3, <1>4, <1>5 DEF Contents
<1> QED
  BY <1>6 DEF r

\* A heartbeat goes to the end of a list that holds none.
LEMMA ContentsHeartbeat ==
    ASSUME NEW q \in Seq(Nat), NEW out \in Nat, NEW in \in Nat, Contents(q, out, in),
           ~ Holds(q, Heartbeat)
    PROVE  Contents(Append(q, Heartbeat), out, in)
<1> DEFINE r == Append(q, Heartbeat)
<1>1. /\ Len(q) \in Nat
      /\ Len(r) = Len(q) + 1
      /\ \A i \in 1 .. Len(q) : r[i] = q[i] /\ q[i] # Heartbeat
      /\ r[Len(q) + 1] = Heartbeat
  BY QueueFacts, LenProperties DEF Holds, Heartbeat
<1>c1. \A i \in 1 .. Len(q) : q[i] = Heartbeat \/ q[i] \in out + 1 .. in
  BY DEF Contents
<1>c2. \A n \in out + 1 .. in : \E i \in 1 .. Len(q) : q[i] = n
  BY DEF Contents
<1>c3. \A i, j \in 1 .. Len(q) : i < j /\ q[i] # Heartbeat /\ q[j] # Heartbeat => q[i] < q[j]
  BY DEF Contents
<1>c4. \A i, j \in 1 .. Len(q) : q[i] = Heartbeat /\ q[j] = Heartbeat => i = j
  BY DEF Contents
<1> HIDE DEF r
<1>2. Contents(r, out, in)
  <2>1. \A n \in out + 1 .. in : \E i \in 1 .. Len(r) : r[i] = n
    <3> SUFFICES ASSUME NEW n \in out + 1 .. in PROVE \E i \in 1 .. Len(r) : r[i] = n
      OBVIOUS
    <3>1. PICK i \in 1 .. Len(q) : q[i] = n
      BY <1>c2
    <3> QED
      BY <1>1, <3>1
  <2>2. ASSUME NEW i \in 1 .. Len(r) PROVE r[i] = Heartbeat \/ r[i] \in out + 1 .. in
    <3>1. i = Len(q) + 1 \/ i \in 1 .. Len(q)
      BY <1>1
    <3>2. CASE i = Len(q) + 1
      BY <1>1, <3>2
    <3>3. CASE i \in 1 .. Len(q)
      <4>1. r[i] = q[i]
        BY <1>1, <3>3
      <4> QED
        BY <4>1, <3>3, <1>c1
    <3> QED
      BY <3>1, <3>2, <3>3
  <2>3. \A i, j \in 1 .. Len(r) : i < j /\ r[i] # Heartbeat /\ r[j] # Heartbeat => r[i] < r[j]
    <3>1. \A i \in 1 .. Len(r) : r[i] # Heartbeat => i \in 1 .. Len(q) /\ q[i] = r[i]
      BY <1>1
    <3> QED
      BY <3>1, <1>c3
  <2>4. \A i, j \in 1 .. Len(r) : r[i] = Heartbeat /\ r[j] = Heartbeat => i = j
    <3>1. \A i \in 1 .. Len(r) : r[i] = Heartbeat => i = Len(q) + 1
      BY <1>1
    <3> QED
      BY <3>1
  <2> QED
    BY <2>1, <2>2, <2>3, <2>4 DEF Contents
<1> QED
  BY <1>2 DEF r

\* The first element of the list is a heartbeat or the next datum, and
\* removing it leaves the others.
LEMMA ContentsHeadTail ==
    ASSUME NEW q \in Seq(Nat), q # <<>>, NEW out \in Nat, NEW in \in Nat, Contents(q, out, in)
    PROVE  /\ Head(q) = Heartbeat =>
                  Contents(Tail(q), out, in) /\ ~ Holds(Tail(q), Heartbeat)
           /\ Head(q) # Heartbeat =>
                  Head(q) = out + 1 /\ out < in /\ Contents(Tail(q), out + 1, in)
<1> DEFINE r == Tail(q)
<1>1. /\ Len(q) \in Nat \ {0} /\ \A i \in 1 .. Len(q) : q[i] \in Nat
      /\ r \in Seq(Nat) /\ Len(r) = Len(q) - 1 /\ DOMAIN r = 1 .. Len(r)
      /\ \A i \in 1 .. Len(r) : r[i] = q[i + 1]
      /\ Head(q) = q[1]
  BY QueueFacts, LenProperties
<1>c1. \A i \in 1 .. Len(q) : q[i] = Heartbeat \/ q[i] \in out + 1 .. in
  BY DEF Contents
<1>c2. \A n \in out + 1 .. in : \E i \in 1 .. Len(q) : q[i] = n
  BY DEF Contents
<1>c3. \A i, j \in 1 .. Len(q) : i < j /\ q[i] # Heartbeat /\ q[j] # Heartbeat => q[i] < q[j]
  BY DEF Contents
<1>c4. \A i, j \in 1 .. Len(q) : q[i] = Heartbeat /\ q[j] = Heartbeat => i = j
  BY DEF Contents
<1> HIDE DEF r
<1>2. \A i \in 1 .. Len(r) : i + 1 \in 1 .. Len(q)
  BY <1>1
<1>3. \A i, j \in 1 .. Len(r) : i < j /\ r[i] # Heartbeat /\ r[j] # Heartbeat => r[i] < r[j]
  <2> SUFFICES ASSUME NEW i \in 1 .. Len(r), NEW j \in 1 .. Len(r), i < j,
                      r[i] # Heartbeat, r[j] # Heartbeat
               PROVE  r[i] < r[j]
    OBVIOUS
  <2>1. i + 1 < j + 1 /\ r[i] = q[i + 1] /\ r[j] = q[j + 1]
    BY <1>1
  <2> QED
    BY <1>2, <2>1, <1>c3
<1>4. \A i, j \in 1 .. Len(r) : r[i] = Heartbeat /\ r[j] = Heartbeat => i = j
  <2> SUFFICES ASSUME NEW i \in 1 .. Len(r), NEW j \in 1 .. Len(r),
                      r[i] = Heartbeat, r[j] = Heartbeat
               PROVE  i = j
    OBVIOUS
  <2>1. i + 1 = j + 1
    BY <1>1, <1>2, <1>c4
  <2> QED
    BY <2>1
<1>5. \A n : n # Head(q) /\ (\E i \in 1 .. Len(q) : q[i] = n) => \E i \in 1 .. Len(r) : r[i] = n
  <2> SUFFICES ASSUME NEW n, n # Head(q), NEW i \in 1 .. Len(q), q[i] = n
               PROVE  \E k \in 1 .. Len(r) : r[k] = n
    OBVIOUS
  <2>1. i - 1 \in 1 .. Len(r) /\ r[i - 1] = n
    <3>1. i \in Nat /\ i # 1 /\ i >= 1 /\ i <= Len(r) + 1 /\ Len(r) \in Nat
      BY <1>1
    <3>2. i - 1 \in 1 .. Len(r) /\ (i - 1) + 1 = i
      BY <3>1
    <3>3. r[i - 1] = q[(i - 1) + 1]
      BY <1>1, <3>2
    <3> QED
      BY <3>2, <3>3
  <2> QED
    BY <2>1
<1>6. ASSUME Head(q) = Heartbeat PROVE Contents(r, out, in) /\ ~ Holds(r, Heartbeat)
  <2>1. \A i \in 1 .. Len(r) : r[i] # Heartbeat
    <3> SUFFICES ASSUME NEW i \in 1 .. Len(r), r[i] = Heartbeat PROVE FALSE
      OBVIOUS
    <3>1. 1 \in 1 .. Len(q) /\ q[1] = Heartbeat
      BY <1>1, <1>6
    <3>2. i + 1 \in 1 .. Len(q) /\ q[i + 1] = Heartbeat
      BY <1>1, <1>2
    <3>3. i + 1 = 1
      BY <3>1, <3>2, <1>c4
    <3> QED
      BY <3>3
  <2>2. \A i \in 1 .. Len(r) : r[i] \in out + 1 .. in
    BY <1>1, <1>2, <2>1, <1>c1
  <2>3. \A n \in out + 1 .. in : \E i \in 1 .. Len(r) : r[i] = n
    <3> SUFFICES ASSUME NEW n \in out + 1 .. in PROVE \E i \in 1 .. Len(r) : r[i] = n
      OBVIOUS
    <3>1. n # Head(q)
      BY <1>6 DEF Heartbeat
    <3> QED
      BY <1>5, <1>c2, <3>1
  <2> QED
    BY <1>1, <1>3, <1>4, <2>1, <2>2, <2>3 DEF Contents, Holds
<1>7. ASSUME Head(q) # Heartbeat
      PROVE  Head(q) = out + 1 /\ out < in /\ Contents(r, out + 1, in)
  <2>1. Head(q) \in out + 1 .. in
    BY <1>1, <1>7, <1>c1
  <2>2. PICK k \in 1 .. Len(q) : q[k] = out + 1
    BY <2>1, <1>c2
  <2>3. Head(q) = out + 1
    <3>1. CASE k = 1
      BY <1>1, <2>2, <3>1
    <3>2. CASE 1 < k
      <4>2. 1 \in 1 .. Len(q) /\ q[1] # Heartbeat /\ q[k] # Heartbeat
        BY <1>1, <1>7, <2>2 DEF Heartbeat
      <4>1. q[1] < q[k]
        BY <3>2, <4>2, <1>c3
      <4> QED
        BY <1>1, <2>1, <2>2, <4>1
    <3> QED
      BY <3>1, <3>2
  <2>4. \A i \in 1 .. Len(r) : r[i] = Heartbeat \/ r[i] \in out + 2 .. in
    <3> SUFFICES ASSUME NEW i \in 1 .. Len(r), r[i] # Heartbeat PROVE r[i] \in out + 2 .. in
      OBVIOUS
    <3>1. 1 < i + 1 /\ i + 1 \in 1 .. Len(q) /\ 1 \in 1 .. Len(q)
      BY <1>1, <1>2
    <3>4. r[i] = q[i + 1]
      BY <1>1
    <3>2. q[1] < q[i + 1]
      BY <1>1, <1>7, <3>1, <3>4, <1>c3
    <3>3. q[i + 1] \in out + 1 .. in
      BY <3>1, <3>4, <1>c1
    <3>5. q[1] = out + 1
      BY <1>1, <2>3
    <3> QED
      BY <3>2, <3>3, <3>4, <3>5
  <2>5. \A n \in out + 2 .. in : \E i \in 1 .. Len(r) : r[i] = n
    <3> SUFFICES ASSUME NEW n \in out + 2 .. in PROVE \E i \in 1 .. Len(r) : r[i] = n
      OBVIOUS
    <3>1. n \in out + 1 .. in /\ n # Head(q)
      BY <2>3
    <3> QED
      BY <1>5, <1>c2, <3>1
  <2>6. (out + 1) + 1 = out + 2
    OBVIOUS
  <2>7. Contents(r, out + 1, in)
    BY <1>3, <1>4, <2>4, <2>5, <2>6 DEF Contents
  <2> QED
    BY <2>1, <2>3, <2>7
<1> QED
  BY <1>6, <1>7 DEF r

\* The collect queue and the SD-Element queue hold no element twice.
LEMMA NoDuplicate ==
    ASSUME TypeOK, CollectInv, SDInv
    PROVE  /\ \A i, j \in 1 .. Len(collectQueue) : collectQueue[i] = collectQueue[j] => i = j
           /\ \A i, j \in 1 .. Len(sdQueue) : sdQueue[i] = sdQueue[j] => i = j
<1>1. Len(collectQueue) \in Nat /\ Len(sdQueue) \in Nat /\ accepted \in Nat
  BY LenProperties DEF TypeOK
<1>2. \A i, j \in 1 .. Len(collectQueue) : collectQueue[i] = collectQueue[j] => i = j
  BY <1>1 DEF CollectInv, Collected
<1>3. \A i \in 1 .. Len(sdQueue) : sdQueue[i] \in Nat
  BY ElementOfSeq DEF TypeOK
<1>4. \A i, j \in 1 .. Len(sdQueue) : sdQueue[i] = sdQueue[j] => i = j
  BY <1>1, <1>3 DEF SDInv, Contents
<1> QED
  BY <1>2, <1>4

\* What the three statements that change a list do to it.
LEMMA ListSteps ==
    ASSUME IInv
    PROVE  /\ PopCollectRemove =>
                  collectQueue # <<>> /\ collectQueue' = Tail(collectQueue)
           /\ PopSDElementRemove =>
                  sdQueue # <<>> /\ sdQueue' = Tail(sdQueue)
           /\ \A t \in Threads : PushLink(t) => sdQueue' = Append(sdQueue, NewElement(t))
<1>1. collectQueue \in Seq(Nat) /\ sdQueue \in Seq(Nat)
  BY DEF IInv, TypeOK
<1>2. ASSUME PopCollectRemove PROVE collectQueue # <<>> /\ collectQueue' = Tail(collectQueue)
  <2>1. collectQueue # <<>> /\ Head(collectQueue) = poped["format"]
    BY <1>2 DEF IInv, HeadInHand, PopCollectRemove
  <2> QED
    BY <1>1, <1>2, <2>1, NoDuplicate, AfterHead DEF IInv, PopCollectRemove
<1>3. ASSUME PopSDElementRemove PROVE sdQueue # <<>> /\ sdQueue' = Tail(sdQueue)
  <2>1. sdQueue # <<>> /\ Head(sdQueue) = poped["sender"]
    BY <1>3 DEF IInv, HeadInHand, PopSDElementRemove
  <2> QED
    BY <1>1, <1>3, <2>1, NoDuplicate, AfterHead DEF IInv, PopSDElementRemove
<1>4. ASSUME NEW t \in Threads, PushLink(t) PROVE sdQueue' = Append(sdQueue, NewElement(t))
  <2>1. last[t] = IF sdQueue = <<>> THEN Null ELSE sdQueue[Len(sdQueue)]
    BY <1>4 DEF IInv, TailInHand, PushLink
  <2> QED
    BY <1>1, <1>4, <2>1, NoDuplicate, LinkLast DEF IInv, PushLink
<1> QED
  BY <1>2, <1>3, <1>4

\* A thread that goes on leaves the other where it is.
LEMMA GotoFormat ==
    ASSUME TypeOK, NEW to \in FormatPC, Goto("format", to)
    PROVE  /\ pc' \in [Threads -> FormatPC \cup SenderPC]
           /\ pc'["format"] = to /\ pc'["sender"] = pc["sender"]
BY DEF TypeOK, Goto, Threads

LEMMA GotoSender ==
    ASSUME TypeOK, NEW to \in SenderPC, Goto("sender", to)
    PROVE  /\ pc' \in [Threads -> FormatPC \cup SenderPC]
           /\ pc'["sender"] = to /\ pc'["format"] = pc["format"]
BY DEF TypeOK, Goto, Threads

LEMMA GotoThread ==
    ASSUME TypeOK, NEW t \in Threads, NEW to, Goto(t, to)
    PROVE  /\ pc'[t] = to
           /\ \A u \in Threads \ {t} : pc'[u] = pc[u]
BY DEF TypeOK, Goto

-----------------------------------------------------------------------------
(* Every part of the inductive invariant is preserved by every step. *)

\* Type correctness.
LEMMA TypeStep == IInv /\ [Next]_vars => TypeOK'
<1> SUFFICES ASSUME IInv, [Next]_vars PROVE TypeOK'
  OBVIOUS
<1> USE MsgIDAssumption
<1>t. TypeOK
  BY DEF IInv
<1>1. ASSUME NEW t \in Threads, PushLock(t) PROVE TypeOK'
  BY <1>t, <1>1 DEF TypeOK, PushLock, Goto, queueVars, localVars, senderVars, envVars,
     historyVars, Threads, FormatPC, SenderPC, PushPC, Free
<1>2. ASSUME NEW t \in Threads, PushWalk(t) PROVE TypeOK'
  <2>1. sdQueue # <<>> => sdQueue[Len(sdQueue)] \in Nat
    BY <1>t, EmptySeq, ElementOfSeq DEF TypeOK
  <2> QED
    BY <1>t, <1>2, <2>1 DEF TypeOK, PushWalk, Goto, queueVars, mutexVars, senderVars, envVars,
       historyVars, Threads, FormatPC, SenderPC, PushPC, Elements
<1>3. ASSUME NEW t \in Threads, PushLink(t) PROVE TypeOK'
  <2>1. sdQueue' = Append(sdQueue, NewElement(t))
    BY <1>3, ListSteps
  <2>2. NewElement(t) \in Nat
    BY <1>3, <1>t, QueueFacts
       DEF NewElement, PushLink, IInv, HeadInHand, PushPC, TypeOK, Heartbeat, Threads
  <2>3. sdQueue' \in Seq(Nat)
    BY <1>t, <2>1, <2>2, QueueFacts DEF TypeOK
  <2> QED
    BY <1>t, <1>3, <2>3 DEF TypeOK, PushLink, Goto, mutexVars, localVars, senderVars, envVars,
       historyVars, Threads, FormatPC, SenderPC, PushPC
<1>4. ASSUME NEW t \in Threads, PushUnlock(t) PROVE TypeOK'
  BY <1>t, <1>4 DEF TypeOK, PushUnlock, Goto, queueVars, localVars, envVars,
     historyVars, Threads, FormatPC, SenderPC, PushPC, Free
<1>5. CASE FormatWhile \/ FormatPeek \/ FormatSleep
  BY <1>t, <1>5, GotoFormat DEF TypeOK, FormatWhile, FormatPeek, FormatSleep,
     queueVars, mutexVars, localVars, senderVars, envVars, historyVars, FormatPC, PushPC
<1>6. CASE PopCollectLock \/ PopCollectUnlock
  BY <1>t, <1>6, GotoFormat DEF TypeOK, PopCollectLock, PopCollectUnlock,
     queueVars, localVars, senderVars, envVars, historyVars, FormatPC, PushPC, Free
<1>7. CASE PopCollectTest
  <2>1. pc' \in [Threads -> FormatPC \cup SenderPC]
        /\ pc'["format"] \in FormatPC /\ pc'["sender"] \in SenderPC
    BY <1>t, <1>7, GotoFormat DEF TypeOK, PopCollectTest, FormatPC, PushPC
  <2>3. collectQueue # <<>> => Head(collectQueue) \in Nat
    BY <1>t, QueueFacts DEF TypeOK
  <2>2. poped' \in [Threads -> Elements]
    BY <1>t, <1>7, <2>3 DEF TypeOK, PopCollectTest, Elements
  <2> QED
    BY <1>t, <1>7, <2>1, <2>2 DEF TypeOK, PopCollectTest, queueVars, mutexVars,
       senderVars, envVars, historyVars
<1>8. CASE PopCollectRemove
  <2>1. collectQueue' \in Seq(Nat)
    BY <1>t, <1>8, ListSteps, QueueFacts DEF TypeOK
  <2>2. pc' \in [Threads -> FormatPC \cup SenderPC]
        /\ pc'["format"] \in FormatPC /\ pc'["sender"] \in SenderPC
    BY <1>t, <1>8, GotoFormat DEF TypeOK, PopCollectRemove, FormatPC, PushPC
  <2> QED
    BY <1>t, <1>8, <2>1, <2>2 DEF TypeOK, PopCollectRemove, mutexVars, localVars,
       senderVars, envVars, historyVars
<1>9. CASE SenderWhile \/ SenderSleep \/ HeartBeat
  <2>1. pc' \in [Threads -> FormatPC \cup SenderPC]
        /\ pc'["format"] \in FormatPC /\ pc'["sender"] \in SenderPC
    BY <1>t, <1>9, GotoSender DEF TypeOK, SenderWhile, SenderSleep, HeartBeat, HeartBeatTime,
       HeartBeatTest, SenderPC, PushPC
  <2>2. collectTime' \in Nat
    <3>1. clock - behind \in Nat
      BY <1>t DEF TypeOK
    <3> QED
      BY <1>t, <1>9, <3>1 DEF TypeOK, SenderWhile, SenderSleep, HeartBeat, HeartBeatTime,
         HeartBeatTest, senderVars
  <2> QED
    BY <1>t, <1>9, <2>1, <2>2 DEF TypeOK, SenderWhile, SenderSleep, HeartBeat, HeartBeatTime,
       HeartBeatTest, queueVars, mutexVars, localVars, senderVars, envVars, historyVars
<1>10. CASE SenderPeek \/ SenderWrap
  <2>1. pc' \in [Threads -> FormatPC \cup SenderPC]
        /\ pc'["format"] \in FormatPC /\ pc'["sender"] \in SenderPC
    BY <1>t, <1>10, GotoSender DEF TypeOK, SenderPeek, SenderWrap, SenderPC, PushPC
  <2>2. msgID' \in 0 .. MsgIDMax
    BY <1>t, <1>10 DEF TypeOK, SenderPeek, SenderWrap
  <2> QED
    BY <1>t, <1>10, <2>1, <2>2 DEF TypeOK, SenderPeek, SenderWrap, queueVars, mutexVars,
       localVars, envVars, historyVars
<1>11. CASE PopSDElementLock \/ PopSDElementUnlock
  BY <1>t, <1>11, GotoSender DEF TypeOK, PopSDElementLock, PopSDElementUnlock,
     queueVars, localVars, senderVars, envVars, historyVars, SenderPC, PushPC, Free, Threads
<1>12. CASE PopSDElementTest \/ PopSDElementSend
  <2>1. pc' \in [Threads -> FormatPC \cup SenderPC]
        /\ pc'["format"] \in FormatPC /\ pc'["sender"] \in SenderPC
    BY <1>t, <1>12, GotoSender DEF TypeOK, PopSDElementTest, PopSDElementSend, SenderPC, PushPC
  <2>2. CASE PopSDElementTest
    <3>2. sdQueue # <<>> => Head(sdQueue) \in Nat
      BY <1>t, QueueFacts DEF TypeOK
    <3>1. poped' \in [Threads -> Elements]
      BY <1>t, <2>2, <3>2 DEF TypeOK, PopSDElementTest, Elements
    <3> QED
      BY <1>t, <2>2, <2>1, <3>1 DEF TypeOK, PopSDElementTest, queueVars, mutexVars,
         senderVars, envVars, historyVars
  <2>3. CASE PopSDElementSend
    <3>1. poped["sender"] \in Nat
      BY <1>t, <2>3, QueueFacts DEF PopSDElementSend, IInv, HeadInHand, TypeOK
    <3> QED
      BY <1>t, <2>3, <2>1, <3>1 DEF TypeOK, PopSDElementSend, queueVars, mutexVars, localVars,
         senderVars, envVars, Elements
  <2> QED
    BY <1>12, <2>2, <2>3
<1>13. CASE PopSDElementRemove
  <2>1. sdQueue' \in Seq(Nat)
    BY <1>t, <1>13, ListSteps, QueueFacts DEF TypeOK
  <2>2. pc' \in [Threads -> FormatPC \cup SenderPC]
        /\ pc'["format"] \in FormatPC /\ pc'["sender"] \in SenderPC
    BY <1>t, <1>13, GotoSender DEF TypeOK, PopSDElementRemove, SenderPC, PushPC
  <2> QED
    BY <1>t, <1>13, <2>1, <2>2 DEF TypeOK, PopSDElementRemove, mutexVars, localVars,
       senderVars, envVars, historyVars
<1>14. ASSUME NEW a \in Addons, Addon(a) PROVE TypeOK'
  <2>1. CASE AddonPush(a)
    <3>1. collectQueue' \in Seq(Nat)
      BY <1>t, <2>1, QueueFacts DEF TypeOK, AddonPush
    <3> QED
      BY <1>t, <2>1, <3>1 DEF TypeOK, AddonPush, mutexVars, localVars, senderVars
  <2>2. CASE AddonLock(a) \/ AddonUnlock(a) \/ AddonCancelled(a)
    BY <1>t, <2>2 DEF TypeOK, AddonLock, AddonUnlock, AddonCancelled, queueVars, mutexVars,
       localVars, senderVars, historyVars, Free
  <2> QED
    BY <1>14, <2>1, <2>2 DEF Addon
<1>15. CASE Signal \/ Tick \/ SetClock
  <2>1. CASE Signal
    BY <1>t, <2>1 DEF TypeOK, Signal, queueVars, mutexVars, localVars, senderVars, historyVars
  <2>2. CASE Tick
    BY <1>t, <2>2 DEF TypeOK, Tick, queueVars, mutexVars, localVars, senderVars, historyVars
  <2>3. CASE SetClock
    <3>1. behind' \in 0 .. clock - 1
      BY <1>t, <2>3, BoundsAssumption DEF TypeOK, SetClock
    <3> QED
      BY <1>t, <2>3, <3>1 DEF TypeOK, SetClock, queueVars, mutexVars, localVars, senderVars,
         historyVars
  <2> QED
    BY <1>15, <2>1, <2>2, <2>3
<1>16. CASE UNCHANGED vars
  BY <1>t, <1>16 DEF TypeOK, vars, queueVars, mutexVars, localVars, senderVars, envVars, historyVars
<1> QED
  BY <1>1, <1>2, <1>3, <1>4, <1>5, <1>6, <1>7, <1>8, <1>9, <1>10, <1>11, <1>12, <1>13, <1>14,
     <1>15, <1>16
     DEF Next, PushSDElementQueue, Format, PopCollectQueue, Sender, PopSDElementQueue, Terminated

\* Each mutex is owned by the thread that is between its lock and its unlock.
LEMMA LockStep == IInv /\ [Next]_vars => LockInv'
<1> SUFFICES ASSUME IInv, [Next]_vars PROVE LockInv'
  OBVIOUS
<1> USE AddonsAssumption DEF LockInv, HoldsCollect, FormatHoldsSD, SenderHoldsSD, PushPC, Free
<1>t. TypeOK /\ LockInv
  BY DEF IInv
<1>1. ASSUME NEW t \in Threads, PushSDElementQueue(t) PROVE LockInv'
  <2>1. t = "format" \/ t = "sender"
    BY DEF Threads
  <2>2. UNCHANGED <<collectMutex, addonPC>>
    BY <1>1 DEF PushSDElementQueue, PushLock, PushWalk, PushLink, PushUnlock, mutexVars, envVars
  <2>3. CASE PushLock(t)
    BY <1>t, <2>1, <2>2, <2>3, GotoThread DEF PushLock, Threads
  <2>4. CASE PushWalk(t) \/ PushLink(t)
    BY <1>t, <2>1, <2>2, <2>4, GotoThread DEF PushWalk, PushLink, Threads, mutexVars
  <2>5. CASE PushUnlock(t)
    BY <1>t, <2>1, <2>2, <2>5, GotoThread DEF PushUnlock, Threads
  <2> QED
    BY <1>1, <2>3, <2>4, <2>5 DEF PushSDElementQueue
<1>2. CASE FormatWhile \/ FormatPeek \/ FormatSleep \/ PopCollectTest \/ PopCollectRemove
  <2>1. UNCHANGED <<mutexVars, addonPC>>
    BY <1>2 DEF FormatWhile, FormatPeek, FormatSleep, PopCollectTest, PopCollectRemove, envVars
  <2>2. /\ pc'["sender"] = pc["sender"]
        /\ pc'["format"] \in HoldsCollect <=> pc["format"] \in HoldsCollect
        /\ pc'["format"] \notin FormatHoldsSD /\ pc["format"] \notin FormatHoldsSD
    BY <1>t, <1>2, GotoFormat DEF FormatWhile, FormatPeek, FormatSleep, PopCollectTest,
       PopCollectRemove, FormatPC
  <2> QED
    BY <1>t, <2>1, <2>2 DEF mutexVars
<1>3. CASE PopCollectLock \/ PopCollectUnlock
  BY <1>t, <1>3, GotoFormat DEF PopCollectLock, PopCollectUnlock, FormatPC, envVars
<1>4. CASE SenderWhile \/ SenderSleep \/ HeartBeat \/ SenderPeek \/ SenderWrap
           \/ PopSDElementTest \/ PopSDElementSend \/ PopSDElementRemove
  <2>1. UNCHANGED <<mutexVars, addonPC>>
    BY <1>4 DEF SenderWhile, SenderSleep, HeartBeat, HeartBeatTime, HeartBeatTest, SenderPeek,
       SenderWrap, PopSDElementTest, PopSDElementSend, PopSDElementRemove, envVars
  <2>2. /\ pc'["format"] = pc["format"]
        /\ pc'["sender"] \in SenderHoldsSD <=> pc["sender"] \in SenderHoldsSD
    BY <1>t, <1>4, GotoSender DEF SenderWhile, SenderSleep, HeartBeat, HeartBeatTime,
       HeartBeatTest, SenderPeek, SenderWrap, PopSDElementTest, PopSDElementSend,
       PopSDElementRemove, SenderPC
  <2> QED
    BY <1>t, <2>1, <2>2 DEF mutexVars
<1>5. CASE PopSDElementLock \/ PopSDElementUnlock
  BY <1>t, <1>5, GotoSender DEF PopSDElementLock, PopSDElementUnlock, SenderPC, envVars
<1>6. ASSUME NEW a \in Addons, Addon(a) PROVE LockInv'
  <2>1. UNCHANGED <<pc, sdMutex>>
    BY <1>6 DEF Addon, AddonLock, AddonPush, AddonUnlock, AddonCancelled, mutexVars
  <2>2. CASE AddonLock(a)
    BY <1>t, <2>1, <2>2 DEF AddonLock, TypeOK
  <2>3. CASE AddonPush(a) \/ AddonCancelled(a)
    BY <1>t, <2>1, <2>3 DEF AddonPush, AddonCancelled, TypeOK, mutexVars
  <2>4. CASE AddonUnlock(a)
    BY <1>t, <2>1, <2>4 DEF AddonUnlock, TypeOK
  <2> QED
    BY <1>6, <2>2, <2>3, <2>4 DEF Addon
<1>7. CASE Signal \/ Tick \/ SetClock \/ UNCHANGED vars
  BY <1>t, <1>7 DEF Signal, Tick, SetClock, vars, mutexVars, envVars
<1> QED
  BY <1>1, <1>2, <1>3, <1>4, <1>5, <1>6, <1>7
     DEF Next, Format, PopCollectQueue, Sender, PopSDElementQueue, Terminated

\* What a thread reads from a list before it uses it still holds when it does.
LEMMA HandStep == IInv /\ [Next]_vars => (HeadInHand /\ TailInHand /\ PeekIsStable)'
<1> SUFFICES ASSUME IInv, [Next]_vars PROVE (HeadInHand /\ TailInHand /\ PeekIsStable)'
  OBVIOUS
<1> USE AddonsAssumption
    DEF HeadInHand, TailInHand, PeekIsStable, HoldsCollect, FormatHoldsSD, SenderHoldsSD, PushPC,
        Threads
<1>t. TypeOK /\ HeadInHand /\ TailInHand /\ PeekIsStable /\ LockInv
  BY DEF IInv
<1>1. ASSUME NEW t \in Threads, PushSDElementQueue(t) PROVE (HeadInHand /\ TailInHand /\ PeekIsStable)'
  <2>1. UNCHANGED <<collectQueue, poped>>
    BY <1>1 DEF PushSDElementQueue, PushLock, PushWalk, PushLink, PushUnlock, queueVars, localVars
  <2>2. CASE PushLock(t) \/ PushUnlock(t)
    BY <1>t, <2>1, <2>2, GotoThread DEF PushLock, PushUnlock, queueVars, localVars
  <2>3. CASE PushWalk(t)
    <3>1. sdQueue' = sdQueue /\ pc'[t] = "pushLink"
          /\ \A u \in Threads \ {t} : pc'[u] = pc[u] /\ last'[u] = last[u]
      BY <1>t, <2>3, GotoThread DEF PushWalk, queueVars, TypeOK
    <3>2. last'[t] = IF sdQueue = <<>> THEN Null ELSE sdQueue[Len(sdQueue)]
      BY <1>t, <2>3 DEF PushWalk, TypeOK
    <3> QED
      BY <1>t, <2>1, <2>3, <3>1, <3>2 DEF PushWalk
  <2>4. CASE PushLink(t)
    <3>1. sdQueue' # <<>>
      <4>1. NewElement(t) \in Nat
        BY <1>t, <2>4, QueueFacts DEF NewElement, PushLink, TypeOK, Heartbeat
      <4>2. sdQueue' = Append(sdQueue, NewElement(t))
        BY <2>4, ListSteps
      <4> QED
        BY <1>t, <4>1, <4>2, QueueFacts DEF TypeOK
    <3>2. sdMutex = t /\ pc'[t] = "pushUnlock"
          /\ \A u \in Threads \ {t} :
                /\ pc'[u] = pc[u]
                /\ u = "sender" => pc[u] \notin SenderHoldsSD
                /\ u = "format" => pc[u] \notin FormatHoldsSD
      BY <1>t, <2>4, GotoThread DEF PushLink, LockInv
    <3> QED
      BY <1>t, <2>1, <2>4, <3>1, <3>2 DEF PushLink
  <2> QED
    BY <1>1, <2>2, <2>3, <2>4 DEF PushSDElementQueue
<1>2. CASE FormatWhile \/ FormatPeek \/ FormatSleep \/ PopCollectLock \/ PopCollectUnlock
  BY <1>t, <1>2, GotoFormat DEF FormatWhile, FormatPeek, FormatSleep, PopCollectLock,
     PopCollectUnlock, FormatPC, queueVars, localVars
<1>3. CASE PopCollectTest
  <2>1. poped'["sender"] = poped["sender"]
        /\ (collectQueue # <<>> => poped'["format"] = Head(collectQueue))
    BY <1>t, <1>3 DEF PopCollectTest, TypeOK
  <2> QED
    BY <1>t, <1>3, <2>1, GotoFormat DEF PopCollectTest, FormatPC, queueVars
<1>4. CASE PopCollectRemove
  BY <1>t, <1>4, GotoFormat DEF PopCollectRemove, FormatPC, localVars
<1>5. CASE SenderWhile \/ SenderSleep \/ HeartBeat \/ SenderPeek \/ SenderWrap
           \/ PopSDElementLock \/ PopSDElementUnlock
  BY <1>t, <1>5, GotoSender DEF SenderWhile, SenderSleep, HeartBeat, HeartBeatTime, HeartBeatTest,
     SenderPeek, SenderWrap, PopSDElementLock, PopSDElementUnlock, SenderPC, queueVars, localVars
<1>6. CASE PopSDElementTest
  <2>1. poped'["format"] = poped["format"]
        /\ (sdQueue # <<>> => poped'["sender"] = Head(sdQueue))
    BY <1>t, <1>6 DEF PopSDElementTest, TypeOK
  <2> QED
    BY <1>t, <1>6, <2>1, GotoSender DEF PopSDElementTest, SenderPC, queueVars
<1>7. CASE PopSDElementSend
  BY <1>t, <1>7, GotoSender DEF PopSDElementSend, SenderPC, queueVars, localVars
<1>8. CASE PopSDElementRemove
  <2>1. pc["format"] \notin FormatHoldsSD
    BY <1>t, <1>8 DEF PopSDElementRemove, LockInv
  <2> QED
    BY <1>t, <1>8, <2>1, GotoSender DEF PopSDElementRemove, SenderPC, localVars
<1>9. ASSUME NEW a \in Addons, Addon(a) PROVE (HeadInHand /\ TailInHand /\ PeekIsStable)'
  <2>1. UNCHANGED <<pc, sdQueue, poped, last>>
    BY <1>9 DEF Addon, AddonLock, AddonPush, AddonUnlock, AddonCancelled, queueVars, localVars
  <2>2. CASE AddonPush(a)
    <3>1. collectQueue' # <<>>
      BY <1>t, <2>2, AppendProperties DEF AddonPush, TypeOK
    <3>2. pc["format"] \notin HoldsCollect
      BY <1>t, <2>2 DEF AddonPush, LockInv
    <3> QED
      BY <1>t, <2>1, <3>1, <3>2
  <2>3. CASE AddonLock(a) \/ AddonUnlock(a) \/ AddonCancelled(a)
    BY <1>t, <2>1, <2>3 DEF AddonLock, AddonUnlock, AddonCancelled, queueVars
  <2> QED
    BY <1>9, <2>2, <2>3 DEF Addon
<1>10. CASE Signal \/ Tick \/ SetClock \/ UNCHANGED vars
  BY <1>t, <1>10 DEF Signal, Tick, SetClock, vars, queueVars, localVars
<1> QED
  BY <1>1, <1>2, <1>3, <1>4, <1>5, <1>6, <1>7, <1>8, <1>9, <1>10
     DEF Next, Format, PopCollectQueue, Sender, PopSDElementQueue, Terminated

\* The collect queue holds the last data accepted, in order.
LEMMA CollectStep == IInv /\ [Next]_vars => CollectInv'
<1> SUFFICES ASSUME IInv, [Next]_vars PROVE CollectInv'
  OBVIOUS
<1>t. TypeOK /\ CollectInv
  BY DEF IInv
<1>q. collectQueue \in Seq(Nat) /\ Len(collectQueue) \in Nat /\ accepted \in Nat
  BY <1>t, LenProperties DEF TypeOK
<1>1. CASE PopCollectRemove
  <2>1. collectQueue # <<>> /\ collectQueue' = Tail(collectQueue) /\ accepted' = accepted
    BY <1>1, ListSteps DEF PopCollectRemove, historyVars
  <2>2. /\ Len(collectQueue') = Len(collectQueue) - 1 /\ Len(collectQueue) # 0
        /\ \A i \in 1 .. Len(collectQueue) - 1 : collectQueue'[i] = collectQueue[i + 1]
    BY <1>q, <2>1, QueueFacts
  <2>3. \A i \in 1 .. Len(collectQueue) - 1 :
            collectQueue[i + 1] = accepted - Len(collectQueue) + (i + 1)
    BY <1>t, <1>q DEF CollectInv, Collected
  <2> QED
    BY <1>t, <1>q, <2>1, <2>2, <2>3 DEF CollectInv, Collected
<1>2. ASSUME NEW a \in Addons, AddonPush(a) PROVE CollectInv'
  <2>1. collectQueue' = Append(collectQueue, accepted + 1) /\ accepted' = accepted + 1
    BY <1>2 DEF AddonPush
  <2>2. /\ Len(collectQueue') = Len(collectQueue) + 1
        /\ \A i \in 1 .. Len(collectQueue) : collectQueue'[i] = collectQueue[i]
        /\ collectQueue'[Len(collectQueue) + 1] = accepted + 1
    BY <1>q, <2>1, QueueFacts
  <2> QED
    BY <1>t, <1>q, <2>1, <2>2 DEF CollectInv, Collected
<1>3. CASE UNCHANGED <<collectQueue, accepted>>
  BY <1>t, <1>3 DEF CollectInv, Collected
<1>4. \/ PopCollectRemove \/ \E a \in Addons : AddonPush(a)
      \/ UNCHANGED <<collectQueue, accepted>>
  BY DEF Next, PushSDElementQueue, PushLock, PushWalk, PushLink, PushUnlock, Format, FormatWhile,
     FormatPeek, FormatSleep, PopCollectQueue, PopCollectLock, PopCollectTest, PopCollectUnlock,
     Sender, SenderWhile, SenderPeek, SenderSleep, SenderWrap, HeartBeat, HeartBeatTime,
     HeartBeatTest, PopSDElementQueue, PopSDElementLock, PopSDElementTest, PopSDElementSend,
     PopSDElementRemove, PopSDElementUnlock, Addon, AddonLock, AddonUnlock, AddonCancelled,
     Signal, Tick, SetClock, Terminated, vars, queueVars, historyVars
<1> QED
  BY <1>1, <1>2, <1>3, <1>4

\* The SD-Element queue holds the formatted data that were not removed, in
\* order, and at most one heartbeat.
NoHeartbeatPC == {"while", "time", "heartbeat", "pushLock", "pushWalk", "pushLink", "sleep", "exited"}

LEMMA SDStep == IInv /\ [Next]_vars => SDInv'
<1> SUFFICES ASSUME IInv, [Next]_vars PROVE SDInv'
  OBVIOUS
<1> DEFINE Calm == ~ Holds(sdQueue, Heartbeat)
<1>t. /\ TypeOK /\ CollectInv
      /\ Removed \in Nat /\ attempted \in Removed .. Formatted
      /\ Contents(sdQueue, Removed, Formatted)
      /\ pc["sender"] \in NoHeartbeatPC => Calm
  BY DEF IInv, SDInv, NoHeartbeatPC
<1>q. /\ sdQueue \in Seq(Nat) /\ attempted \in Nat
      /\ Len(collectQueue) \in Nat /\ accepted \in Nat /\ Collected \in Nat
      /\ Formatted \in Nat
  BY <1>t, LenProperties DEF TypeOK, CollectInv, Collected, Formatted
<1>s. SUFFICES /\ Removed' \in Nat /\ attempted' \in Removed' .. Formatted'
               /\ Contents(sdQueue', Removed', Formatted')
               /\ pc'["sender"] \in NoHeartbeatPC => Calm'
  BY DEF SDInv, NoHeartbeatPC, Contents
<1>1. CASE PushLink("format")
  <2>1. /\ pc["format"] = "pushLink" /\ pc'["format"] = "pushUnlock" /\ pc'["sender"] = pc["sender"]
        /\ UNCHANGED <<collectQueue, accepted, attempted, poped>>
    BY <1>t, <1>1, GotoThread DEF PushLink, Threads, localVars, historyVars
  <2>2. poped["format"] = Formatted + 1
    <3>1. collectQueue # <<>> /\ poped["format"] = Head(collectQueue)
      BY <2>1 DEF IInv, HeadInHand, PushPC
    <3>2. Head(collectQueue) = collectQueue[1] /\ 1 \in 1 .. Len(collectQueue)
      BY <1>t, <1>q, <3>1, QueueFacts DEF TypeOK
    <3>3. Formatted = Collected
      BY <2>1 DEF Formatted
    <3> QED
      BY <1>t, <3>1, <3>2, <3>3 DEF CollectInv
  <2>3. sdQueue' = Append(sdQueue, Formatted + 1)
    BY <1>1, <2>2, ListSteps DEF NewElement, Threads
  <2>4. Formatted' = Formatted + 1 /\ Removed' = Removed
    BY <2>1 DEF Formatted, Collected, Removed
  <2>5. Contents(sdQueue', Removed', Formatted')
    BY <1>t, <1>q, <2>3, <2>4, ContentsAppend
  <2>6. Calm => Calm'
    <3>1. DOMAIN sdQueue = 1 .. Len(sdQueue) /\ DOMAIN sdQueue' = 1 .. Len(sdQueue) + 1
      BY <1>q, <2>3, LenProperties, QueueFacts
    <3>2. /\ \A i \in 1 .. Len(sdQueue) : sdQueue'[i] = sdQueue[i]
          /\ sdQueue'[Len(sdQueue) + 1] = Formatted + 1
      BY <1>q, <2>3, QueueFacts
    <3>3. Formatted + 1 # Heartbeat /\ Len(sdQueue) \in Nat
      BY <1>q, QueueFacts DEF Heartbeat
    <3> QED
      BY <3>1, <3>2, <3>3 DEF Holds
  <2> QED
    BY <1>t, <1>q, <2>1, <2>4, <2>5, <2>6
<1>2. CASE PushLink("sender")
  <2>1. /\ pc["sender"] = "pushLink" /\ pc'["sender"] = "pushUnlock" /\ pc'["format"] = pc["format"]
        /\ UNCHANGED <<collectQueue, accepted, attempted, poped>>
    BY <1>t, <1>2, GotoThread DEF PushLink, Threads, localVars, historyVars
  <2>2. sdQueue' = Append(sdQueue, Heartbeat)
    BY <1>2, ListSteps DEF NewElement, Threads
  <2>3. Formatted' = Formatted /\ Removed' = Removed
    BY <2>1 DEF Formatted, Collected, Removed
  <2>4. Contents(sdQueue', Removed', Formatted')
    BY <1>t, <1>q, <2>1, <2>2, <2>3, ContentsHeartbeat DEF NoHeartbeatPC
  <2> QED
    BY <1>t, <2>1, <2>3, <2>4 DEF NoHeartbeatPC
<1>3. CASE PopSDElementSend
  <2>1. /\ pc["sender"] = "send" /\ pc'["sender"] = "pop" /\ pc'["format"] = pc["format"]
        /\ UNCHANGED <<collectQueue, accepted, poped, sdQueue>>
    BY <1>t, <1>3, GotoSender
       DEF PopSDElementSend, SenderPC, queueVars, localVars
  <2>2. sdQueue # <<>> /\ Head(sdQueue) = poped["sender"] /\ Removed = attempted
    BY <2>1 DEF IInv, HeadInHand, Removed
  <2>3. Formatted' = Formatted
    BY <2>1 DEF Formatted, Collected
  <2>4. CASE poped["sender"] = Heartbeat
    <3>1. attempted' = attempted /\ Removed' = Removed
      BY <1>3, <2>1, <2>2, <2>4 DEF PopSDElementSend, Removed
    <3> QED
      BY <1>t, <2>1, <2>3, <3>1 DEF NoHeartbeatPC
  <2>5. CASE poped["sender"] # Heartbeat
    <3>1. poped["sender"] = attempted + 1 /\ attempted < Formatted
      BY <1>t, <1>q, <2>2, <2>5, ContentsHeadTail
    <3>2. attempted' = attempted + 1
      BY <1>3, <2>5, <3>1 DEF PopSDElementSend
    <3>3. Removed' = Removed
      BY <1>q, <2>1, <2>2, <2>5, <3>2 DEF Removed
    <3> QED
      BY <1>t, <1>q, <2>1, <2>2, <2>3, <3>1, <3>2, <3>3 DEF NoHeartbeatPC
  <2> QED
    BY <2>4, <2>5
<1>4. CASE PopSDElementRemove
  <2>1. /\ pc["sender"] = "pop" /\ pc'["sender"] = "popUnlock" /\ pc'["format"] = pc["format"]
        /\ UNCHANGED <<collectQueue, accepted, attempted>>
    BY <1>t, <1>4, GotoSender DEF PopSDElementRemove, SenderPC, historyVars
  <2>2. sdQueue # <<>> /\ Head(sdQueue) = poped["sender"] /\ sdQueue' = Tail(sdQueue)
    BY <1>4, <2>1, ListSteps DEF IInv, HeadInHand
  <2>3. Formatted' = Formatted /\ Removed' = attempted
    BY <2>1 DEF Formatted, Collected, Removed
  <2>4. Contents(sdQueue', attempted, Formatted)
    <3>1. CASE poped["sender"] = Heartbeat
      BY <1>t, <1>q, <2>1, <2>2, <3>1, ContentsHeadTail DEF Removed
    <3>2. CASE poped["sender"] # Heartbeat
      <4>1. Removed = attempted - 1 /\ Removed + 1 = attempted
        BY <1>q, <2>1, <3>2 DEF Removed
      <4> QED
        BY <1>t, <1>q, <2>2, <3>2, <4>1, ContentsHeadTail
    <3> QED
      BY <3>1, <3>2
  <2> QED
    BY <1>t, <1>q, <2>1, <2>3, <2>4 DEF NoHeartbeatPC
<1>5. CASE PopCollectRemove
  <2>1. /\ pc["format"] = "pop" /\ pc'["format"] = "popUnlock" /\ pc'["sender"] = pc["sender"]
        /\ UNCHANGED <<sdQueue, accepted, attempted, poped>>
    BY <1>t, <1>5, GotoFormat DEF PopCollectRemove, FormatPC, historyVars, localVars
  <2>2. Len(collectQueue') = Len(collectQueue) - 1
    BY <1>t, <1>5, ListSteps, QueueFacts DEF TypeOK
  <2>3. Formatted' = Formatted /\ Removed' = Removed
    BY <1>q, <2>1, <2>2 DEF Formatted, Collected, Removed
  <2> QED
    BY <1>t, <2>1, <2>3
<1>6. ASSUME NEW a \in Addons, AddonPush(a)
      PROVE  /\ Removed' \in Nat /\ attempted' \in Removed' .. Formatted'
             /\ Contents(sdQueue', Removed', Formatted')
             /\ pc'["sender"] \in NoHeartbeatPC => Calm'
  <2>1. UNCHANGED <<sdQueue, pc, attempted, poped>>
        /\ collectQueue' = Append(collectQueue, accepted + 1) /\ accepted' = accepted + 1
    BY <1>6 DEF AddonPush, localVars
  <2>2. Len(collectQueue') = Len(collectQueue) + 1
    BY <1>t, <1>q, <2>1, QueueFacts DEF TypeOK
  <2>3. Formatted' = Formatted /\ Removed' = Removed
    BY <1>q, <2>1, <2>2 DEF Formatted, Collected, Removed
  <2> QED
    BY <1>t, <2>1, <2>3
<1>7. CASE /\ UNCHANGED <<sdQueue, collectQueue, accepted, attempted>>
           /\ Formatted' = Formatted /\ Removed' = Removed
           /\ pc'["sender"] \in NoHeartbeatPC => pc["sender"] \in NoHeartbeatPC \/ sdQueue = <<>>
  <2>1. sdQueue = <<>> => Calm
    BY <1>q, QueueFacts, LenProperties DEF Holds
  <2> QED
    BY <1>t, <1>7, <2>1
<1>8. \/ PushLink("format") \/ PushLink("sender") \/ PopSDElementSend \/ PopSDElementRemove
      \/ PopCollectRemove \/ \E a \in Addons : AddonPush(a)
      \/ /\ UNCHANGED <<sdQueue, collectQueue, accepted, attempted>>
         /\ Formatted' = Formatted /\ Removed' = Removed
         /\ pc'["sender"] \in NoHeartbeatPC => pc["sender"] \in NoHeartbeatPC \/ sdQueue = <<>>
  <2> DEFINE Rest ==
         /\ UNCHANGED <<sdQueue, collectQueue, accepted, attempted>>
         /\ Formatted' = Formatted /\ Removed' = Removed
         /\ pc'["sender"] \in NoHeartbeatPC => pc["sender"] \in NoHeartbeatPC \/ sdQueue = <<>>
  <2> USE DEF Formatted, Collected, Removed, NoHeartbeatPC
  <2>1. ASSUME NEW t \in Threads, PushSDElementQueue(t)
        PROVE  PushLink("format") \/ PushLink("sender") \/ Rest
    <3>1. t = "format" \/ t = "sender"
      BY DEF Threads
    <3>2. CASE PushLock(t) \/ PushWalk(t) \/ PushUnlock(t)
      <4>1. UNCHANGED <<queueVars, historyVars, poped>>
        BY <3>2 DEF PushLock, PushWalk, PushUnlock, localVars
      <4>2. CASE PushLock(t)
        BY <1>t, <3>1, <4>1, <4>2, GotoThread DEF PushLock, Threads, queueVars, historyVars
      <4>3. CASE PushWalk(t)
        BY <1>t, <3>1, <4>1, <4>3, GotoThread DEF PushWalk, Threads, queueVars, historyVars
      <4>4. CASE PushUnlock(t)
        BY <1>t, <3>1, <4>1, <4>4, GotoThread DEF PushUnlock, Threads, queueVars, historyVars
      <4> QED
        BY <3>2, <4>2, <4>3, <4>4
    <3> QED
      BY <2>1, <3>1, <3>2 DEF PushSDElementQueue
  <2>2. ASSUME Format PROVE PopCollectRemove \/ Rest
    <3>1. CASE FormatWhile \/ FormatPeek \/ FormatSleep \/ PopCollectLock \/ PopCollectUnlock
      BY <1>t, <3>1, GotoFormat DEF FormatWhile, FormatPeek, FormatSleep, PopCollectLock,
         PopCollectUnlock, FormatPC, PushPC, queueVars, historyVars, localVars
    <3>2. CASE PopCollectTest
      <4>1. poped'["sender"] = poped["sender"]
        BY <1>t, <3>2 DEF PopCollectTest, TypeOK, Threads
      <4> QED
        BY <1>t, <3>2, <4>1, GotoFormat DEF PopCollectTest, FormatPC, PushPC, queueVars, historyVars
    <3> QED
      BY <2>2, <3>1, <3>2 DEF Format, PopCollectQueue
  <2>3. ASSUME Sender PROVE PopSDElementSend \/ PopSDElementRemove \/ Rest
    <3>1. CASE SenderWhile \/ SenderPeek \/ SenderSleep \/ SenderWrap \/ HeartBeat
               \/ PopSDElementLock \/ PopSDElementUnlock \/ PopSDElementTest
      <4>1. UNCHANGED <<queueVars, historyVars>>
        BY <3>1 DEF SenderWhile, SenderPeek, SenderSleep, SenderWrap, HeartBeat, HeartBeatTime,
           HeartBeatTest, PopSDElementLock, PopSDElementUnlock, PopSDElementTest
      <4>2. /\ pc["sender"] # "pop" /\ pc'["sender"] # "pop" /\ pc'["format"] = pc["format"]
            /\ pc'["sender"] \in NoHeartbeatPC => pc["sender"] \in NoHeartbeatPC \/ sdQueue = <<>>
        BY <1>t, <3>1, GotoSender DEF SenderWhile, SenderPeek, SenderSleep, SenderWrap, HeartBeat,
           HeartBeatTime, HeartBeatTest, PopSDElementLock, PopSDElementUnlock, PopSDElementTest,
           SenderPC, PushPC
      <4> QED
        BY <4>1, <4>2 DEF queueVars, historyVars
    <3> QED
      BY <2>3, <3>1 DEF Sender, PopSDElementQueue
  <2>4. ASSUME NEW a \in Addons, Addon(a) PROVE AddonPush(a) \/ Rest
    BY <2>4 DEF Addon, AddonLock, AddonUnlock, AddonCancelled, queueVars, historyVars, localVars
  <2>5. ASSUME Signal \/ Tick \/ SetClock \/ UNCHANGED vars PROVE Rest
    BY <2>5 DEF Signal, Tick, SetClock, vars, queueVars, historyVars, localVars
  <2> QED
    BY <2>1, <2>2, <2>3, <2>4, <2>5 DEF Next, Terminated
<1> QED
  BY <1>1, <1>2, <1>3, <1>4, <1>5, <1>6, <1>7, <1>8

\* Message identifiers follow each other without gap.
LEMMA IDStep == IInv /\ [Next]_vars => IDInv'
<1> SUFFICES ASSUME IInv, [Next]_vars PROVE IDInv'
  OBVIOUS
<1> USE MsgIDAssumption
<1>t. TypeOK /\ IDInv /\ PeekIsStable /\ wire.id \in 0 .. MsgIDMax /\ msgID \in 0 .. MsgIDMax
  BY DEF IInv, TypeOK
<1>1. CASE SenderPeek
  <2>1. /\ pc["sender"] = "peek" /\ wire' = wire
        /\ \/ pc'["sender"] = "popLock" /\ msgID' = (msgID + 1) % (MsgIDMax + 1)
           \/ pc'["sender"] = "sleep" /\ msgID' = msgID
    <3>1. pc["sender"] = "peek" /\ wire' = wire
      BY <1>1 DEF SenderPeek, historyVars
    <3>2. CASE sdQueue # <<>>
      <4>1. Goto("sender", "popLock") /\ msgID' = (msgID + 1) % (MsgIDMax + 1)
        BY <1>1, <3>2, Zenon DEF SenderPeek
      <4>2. pc'["sender"] = "popLock"
        BY <1>t, <4>1, GotoThread DEF Threads
      <4> QED
        BY <3>1, <4>1, <4>2
    <3>3. CASE sdQueue = <<>>
      BY <1>t, <1>1, <3>1, <3>3, GotoSender DEF SenderPeek, SenderPC
    <3> QED
      BY <3>1, <3>2, <3>3
  <2>2. msgID = wire.id % MsgIDMax
    BY <1>t, <2>1 DEF IDInv
  <2>3. msgID \in 0 .. MsgIDMax - 1
    BY <1>t, <2>2
  <2>4. (msgID + 1) % (MsgIDMax + 1) = msgID + 1
    BY <2>3
  <2> QED
    BY <2>1, <2>2, <2>4 DEF IDInv
<1>2. CASE PopSDElementSend
  <2>1. pc["sender"] = "send" /\ pc'["sender"] = "pop" /\ wire'.id = msgID /\ msgID' = msgID
    BY <1>t, <1>2, GotoSender DEF PopSDElementSend, SenderPC, senderVars
  <2> QED
    BY <2>1 DEF IDInv
<1>3. CASE SenderWrap
  <2>1. /\ pc["sender"] = "wrap" /\ pc'["sender"] = "peek" /\ wire' = wire
        /\ msgID' = IF msgID = MsgIDMax THEN 0 ELSE msgID
    BY <1>t, <1>3, GotoSender DEF SenderWrap, SenderPC, historyVars
  <2>2. msgID = wire.id
    BY <1>t, <2>1 DEF IDInv
  <2>3. wire.id % MsgIDMax = IF wire.id = MsgIDMax THEN 0 ELSE wire.id
    BY <1>t
  <2> QED
    BY <2>1, <2>2, <2>3 DEF IDInv
<1>4. CASE PopSDElementTest
  <2>1. /\ pc["sender"] = "popTest" /\ pc'["sender"] = "send" /\ wire' = wire /\ msgID' = msgID
    BY <1>t, <1>4, GotoSender DEF PopSDElementTest, SenderPC, historyVars, senderVars, PeekIsStable
  <2> QED
    BY <1>t, <2>1 DEF IDInv
<1>5. CASE SenderWhile \/ SenderSleep \/ HeartBeat \/ PopSDElementLock \/ PopSDElementRemove
           \/ PopSDElementUnlock
  <2>1. UNCHANGED <<msgID, wire>>
    BY <1>5 DEF SenderWhile, SenderSleep, HeartBeat, HeartBeatTime, HeartBeatTest,
       PopSDElementLock, PopSDElementRemove, PopSDElementUnlock, historyVars, senderVars
  <2>2. \/ pc["sender"] = "popLock" /\ pc'["sender"] = "popTest"
        \/ pc["sender"] = "pop" /\ pc'["sender"] = "popUnlock"
        \/ pc["sender"] = "popUnlock" /\ pc'["sender"] = "wrap"
        \/ /\ pc["sender"] \in {"while", "sleep", "time", "heartbeat"}
           /\ pc'["sender"] \in {"while", "time", "exited", "heartbeat", "pushLock", "peek"}
    BY <1>t, <1>5, GotoSender DEF SenderWhile, SenderSleep, HeartBeat, HeartBeatTime, HeartBeatTest,
       PopSDElementLock, PopSDElementRemove, PopSDElementUnlock, SenderPC, PushPC
  <2> QED
    BY <1>t, <2>1, <2>2 DEF IDInv
<1>6. ASSUME NEW t \in Threads, PushSDElementQueue(t) PROVE IDInv'
  <2>1. UNCHANGED <<msgID, wire>>
    BY <1>6 DEF PushSDElementQueue, PushLock, PushWalk, PushLink, PushUnlock, historyVars, senderVars
  <2>2. \/ pc'["sender"] = pc["sender"]
        \/ pc["sender"] \in PushPC /\ pc'["sender"] \in PushPC \cup {"peek"}
    BY <1>t, <1>6, GotoThread DEF PushSDElementQueue, PushLock, PushWalk, PushLink, PushUnlock,
       PushPC, Threads
  <2> QED
    BY <1>t, <2>1, <2>2 DEF IDInv, PushPC
<1>7. CASE Format
  <2>1. UNCHANGED <<msgID, wire>>
    BY <1>7 DEF Format, FormatWhile, FormatPeek, FormatSleep, PopCollectQueue, PopCollectLock,
       PopCollectTest, PopCollectRemove, PopCollectUnlock, historyVars, senderVars
  <2>2. pc'["sender"] = pc["sender"]
    BY <1>t, <1>7, GotoFormat DEF Format, FormatWhile, FormatPeek, FormatSleep, PopCollectQueue,
       PopCollectLock, PopCollectTest, PopCollectRemove, PopCollectUnlock, FormatPC, PushPC
  <2> QED
    BY <1>t, <2>1, <2>2 DEF IDInv
<1>8. ASSUME (\E a \in Addons : Addon(a)) \/ Signal \/ Tick \/ SetClock \/ UNCHANGED vars PROVE IDInv'
  <2>1. UNCHANGED <<msgID, wire, pc>>
    BY <1>8 DEF Addon, AddonLock, AddonPush, AddonUnlock, AddonCancelled, Signal, Tick, SetClock, vars,
       historyVars, senderVars
  <2> QED
    BY <1>t, <2>1 DEF IDInv
<1> QED
  BY <1>1, <1>2, <1>3, <1>4, <1>5, <1>6, <1>7, <1>8
     DEF Next, Sender, PopSDElementQueue, Terminated

\* The time heartBeat remembers is never later than the last message, unless
\* a message is queued.
LEMMA SilenceStep == IInv /\ [Next]_vars => SilenceInv'
<1> SUFFICES ASSUME IInv, [Next]_vars PROVE SilenceInv'
  OBVIOUS
<1> USE HeartbeatAssumption
<1>t. TypeOK /\ SilenceInv /\ PeekIsStable /\ wire.at \in Nat /\ sdQueue \in Seq(Nat)
      /\ tmpTime \in Nat /\ collectTime \in Nat /\ clock \in Nat /\ behind \in Nat
  BY DEF IInv, TypeOK
<1>1. ASSUME NEW t \in Threads, PushSDElementQueue(t) PROVE SilenceInv'
  <2>1. UNCHANGED <<collectTime, clock, wire>>
    BY <1>1 DEF PushSDElementQueue, PushLock, PushWalk, PushLink, PushUnlock, historyVars,
       senderVars, envVars
  <2>2. CASE PushLock(t) \/ PushWalk(t)
    <3>1. UNCHANGED <<tmpTime, sdQueue>>
      BY <2>2 DEF PushLock, PushWalk, senderVars, queueVars
    <3>2. \/ pc'["sender"] = pc["sender"]
          \/ pc'["sender"] \in {"pushWalk", "pushLink"}
      BY <1>t, <2>2, GotoThread DEF PushLock, PushWalk, Threads
    <3> QED
      BY <1>t, <2>1, <3>1, <3>2 DEF SilenceInv
  <2>3. CASE PushLink(t)
    <3>1. tmpTime' = tmpTime
      BY <2>3 DEF PushLink, senderVars
    <3>2. sdQueue' # <<>>
      <4>1. NewElement(t) \in Nat
        BY <2>3, <1>t, QueueFacts
           DEF NewElement, PushLink, IInv, HeadInHand, PushPC, TypeOK, Heartbeat, Threads
      <4> QED
        BY <1>t, <2>3, <4>1, ListSteps, QueueFacts
    <3>3. pc'["sender"] = pc["sender"] \/ pc'["sender"] = "pushUnlock"
      BY <1>t, <2>3, GotoThread DEF PushLink, Threads
    <3> QED
      BY <1>t, <2>1, <3>1, <3>2, <3>3 DEF SilenceInv
  <2>4. CASE PushUnlock(t)
    <3>1. sdQueue' = sdQueue
      BY <2>4 DEF PushUnlock, queueVars
    <3>2. CASE t = "sender"
      <4>1. pc["sender"] = "pushUnlock" /\ pc'["sender"] = "peek" /\ tmpTime' = collectTime
        BY <1>t, <2>4, <3>2, GotoThread DEF PushUnlock, Threads
      <4> QED
        BY <1>t, <2>1, <3>1, <4>1 DEF SilenceInv
    <3>3. CASE t = "format"
      <4>1. pc'["sender"] = pc["sender"] /\ tmpTime' = tmpTime
        BY <1>t, <2>4, <3>3, GotoThread DEF PushUnlock, Threads
      <4> QED
        BY <1>t, <2>1, <3>1, <4>1 DEF SilenceInv
    <3> QED
      BY <3>2, <3>3 DEF Threads
  <2> QED
    BY <1>1, <2>2, <2>3, <2>4 DEF PushSDElementQueue
<1>2. CASE Format
  <2>1. UNCHANGED <<sdQueue, tmpTime, collectTime, clock, wire>>
    BY <1>2 DEF Format, FormatWhile, FormatPeek, FormatSleep, PopCollectQueue, PopCollectLock,
       PopCollectTest, PopCollectRemove, PopCollectUnlock, historyVars, senderVars, envVars, queueVars
  <2>2. pc'["sender"] = pc["sender"]
    BY <1>t, <1>2, GotoFormat DEF Format, FormatWhile, FormatPeek, FormatSleep, PopCollectQueue,
       PopCollectLock, PopCollectTest, PopCollectRemove, PopCollectUnlock, FormatPC, PushPC
  <2> QED
    BY <1>t, <2>1, <2>2 DEF SilenceInv
<1>3. CASE HeartBeatTime
  <2>1. /\ pc["sender"] = "time" /\ pc'["sender"] = "heartbeat" /\ collectTime' = clock - behind
        /\ UNCHANGED <<sdQueue, tmpTime, clock, wire>>
    BY <1>t, <1>3, GotoSender DEF HeartBeatTime, SenderPC, queueVars, envVars, historyVars
  <2> QED
    BY <1>t, <2>1 DEF SilenceInv
<1>4. CASE HeartBeatTest
  <2> DEFINE idle == sdQueue = <<>> \/ tmpTime = 0
             due  == tmpTime = 0 \/ collectTime - tmpTime > HEARTBEAT
  <2>1. /\ pc["sender"] = "heartbeat"
        /\ pc'["sender"] = IF idle /\ due THEN "pushLock" ELSE "peek"
        /\ tmpTime' = IF idle THEN tmpTime ELSE collectTime
        /\ UNCHANGED <<sdQueue, collectTime, clock, wire>>
    BY <1>t, <1>4, GotoSender DEF HeartBeatTest, SenderPC, PushPC, queueVars, envVars, historyVars
  <2> QED
    BY <1>t, <2>1 DEF SilenceInv
<1>5. CASE PopSDElementSend
  <2>1. /\ pc["sender"] = "send" /\ pc'["sender"] = "pop" /\ wire'.at = clock
        /\ UNCHANGED <<sdQueue, tmpTime, collectTime, clock>>
    BY <1>t, <1>5, GotoSender DEF PopSDElementSend, SenderPC, queueVars, envVars, senderVars
  <2> QED
    BY <1>t, <2>1 DEF SilenceInv
<1>6. CASE PopSDElementRemove
  <2>1. /\ pc["sender"] = "pop" /\ pc'["sender"] = "popUnlock"
        /\ UNCHANGED <<tmpTime, collectTime, clock, wire>>
    BY <1>t, <1>6, GotoSender DEF PopSDElementRemove, SenderPC, envVars, senderVars, historyVars
  <2> QED
    BY <1>t, <2>1 DEF SilenceInv
<1>7. CASE SenderWhile \/ SenderSleep \/ SenderPeek \/ SenderWrap \/ PopSDElementLock
           \/ PopSDElementTest \/ PopSDElementUnlock
  <2>1. UNCHANGED <<sdQueue, tmpTime, collectTime, clock, wire>>
    BY <1>7 DEF SenderWhile, SenderSleep, SenderPeek, SenderWrap, PopSDElementLock, PopSDElementTest,
       PopSDElementUnlock, queueVars, envVars, senderVars, historyVars
  <2>2. \/ pc["sender"] = "sleep" /\ pc'["sender"] = "while"
        \/ pc["sender"] = "while" /\ pc'["sender"] \in {"time", "exited"}
        \/ pc["sender"] = "peek" /\ pc'["sender"] = "popLock"
        \/ pc["sender"] = "peek" /\ sdQueue = <<>> /\ pc'["sender"] = "sleep"
        \/ pc["sender"] = "popLock" /\ pc'["sender"] = "popTest"
        \/ pc["sender"] = "popTest" /\ pc'["sender"] = "send"
        \/ pc["sender"] = "popUnlock" /\ pc'["sender"] = "wrap"
        \/ pc["sender"] = "wrap" /\ pc'["sender"] = "peek"
    BY <1>t, <1>7, GotoSender DEF SenderWhile, SenderSleep, SenderPeek, SenderWrap, PopSDElementLock,
       PopSDElementTest, PopSDElementUnlock, SenderPC, PeekIsStable
  <2> QED
    BY <1>t, <2>1, <2>2 DEF SilenceInv
<1>8. CASE (\E a \in Addons : Addon(a)) \/ Signal \/ SetClock \/ UNCHANGED vars
  <2>1. UNCHANGED <<sdQueue, tmpTime, collectTime, clock, wire, pc>>
    BY <1>8 DEF Addon, AddonLock, AddonPush, AddonUnlock, AddonCancelled, Signal, SetClock, vars,
       historyVars, senderVars, queueVars, envVars
  <2> QED
    BY <1>t, <2>1 DEF SilenceInv
<1>9. CASE Tick
  <2>1. UNCHANGED <<sdQueue, tmpTime, collectTime, wire, pc>> /\ clock' = clock + 1
    BY <1>9 DEF Tick, historyVars, senderVars, queueVars
  <2> QED
    BY <1>t, <2>1 DEF SilenceInv
<1> QED
  BY <1>1, <1>2, <1>3, <1>4, <1>5, <1>6, <1>7, <1>8, <1>9
     DEF Next, Sender, HeartBeat, PopSDElementQueue, Terminated

-----------------------------------------------------------------------------
(* The theorems. *)

LEMMA InitInv == Init => IInv
<1> SUFFICES ASSUME Init PROVE IInv
  OBVIOUS
<1> USE AddonsAssumption, HeartbeatAssumption, MsgIDAssumption DEF Init
<1>1. <<>> \in Seq(Nat) /\ Len(<<>>) = 0 /\ DOMAIN <<>> = {}
  BY EmptySeq, LenProperties
<1>2. TypeOK
  BY <1>1 DEF TypeOK, Threads, FormatPC, SenderPC, Elements, Null, Free
<1>3. LockInv /\ HeadInHand /\ TailInHand /\ PeekIsStable
  BY DEF LockInv, HeadInHand, TailInHand, PeekIsStable, HoldsCollect, FormatHoldsSD, SenderHoldsSD,
     PushPC, Threads, Free
<1>4. CollectInv
  BY <1>1 DEF CollectInv
<1>5. SDInv
  BY <1>1 DEF SDInv, Contents, Holds, Removed, Formatted, Collected, Threads
<1>6. IDInv
  BY DEF IDInv, Threads
<1>7. SilenceInv
  BY DEF SilenceInv, Threads
<1> QED
  BY <1>2, <1>3, <1>4, <1>5, <1>6, <1>7 DEF IInv

LEMMA NextInv == IInv /\ [Next]_vars => IInv'
BY TypeStep, LockStep, HandStep, CollectStep, SDStep, IDStep, SilenceStep DEF IInv

\* The invariant holds in every reachable state.
THEOREM InductiveInvariant == Spec => []IInv
BY InitInv, NextInv, PTL DEF Spec

\* Who waits for a mutex waits for a thread that runs, or for format, which
\* waits for the sender, which runs: the two mutexes cannot deadlock.
THEOREM NobodyWaitsInACircle == Spec => []NoCircularWait
<1>1. IInv => NoCircularWait
  <2> SUFFICES ASSUME IInv PROVE NoCircularWait
    OBVIOUS
  <2>i. TypeOK /\ LockInv
    BY DEF IInv
  <2>1. ASSUME NEW t \in Threads, sdMutex = t PROVE Runs(t)
    <3>1. pc[t] \in FormatHoldsSD \cup SenderHoldsSD
      BY <2>i, <2>1 DEF LockInv, Threads
    <3> QED
      BY <3>1 DEF Runs, FormatHoldsSD, SenderHoldsSD
  <2>2. ASSUME collectMutex = "format"
        PROVE  \/ Runs("format")
               \/ pc["format"] = "pushLock" /\ sdMutex = "sender" /\ Runs("sender")
    <3>1. pc["format"] \in HoldsCollect
      BY <2>i, <2>2 DEF LockInv
    <3>2. CASE sdMutex = Free \/ pc["format"] # "pushLock"
      BY <3>1, <3>2 DEF Runs, HoldsCollect, PushPC
    <3>3. CASE pc["format"] = "pushLock" /\ sdMutex # Free
      <4>1. sdMutex # "format"
        BY <2>i, <3>3 DEF LockInv, FormatHoldsSD
      <4>2. sdMutex = "sender"
        BY <2>i, <3>3, <4>1 DEF TypeOK, Threads
      <4> QED
        BY <2>1, <3>3, <4>2 DEF Threads
    <3> QED
      BY <3>2, <3>3
  <2>3. ASSUME NEW a \in Addons, collectMutex = a PROVE addonPC[a] \in {"push", "unlock"}
    BY <2>i, <2>3 DEF LockInv
  <2> QED
    BY <2>1, <2>2, <2>3 DEF NoCircularWait
<1> QED
  BY InductiveInvariant, <1>1, PTL

\* A shutdown leaves behind what was not attempted, each datum in one queue,
\* and no mutex taken.
THEOREM ShutdownLeavesTheRest == Spec => []LeftBehind
<1>1. IInv => LeftBehind
  <2> SUFFICES ASSUME IInv, \A t \in Threads : pc[t] = "exited"
               PROVE  /\ sdMutex = Free /\ collectMutex # "format"
                      /\ \E formatted \in attempted .. accepted :
                            \A n \in 1 .. accepted :
                               /\ Holds(sdQueue, n) <=> n \in attempted + 1 .. formatted
                               /\ Holds(collectQueue, n) <=> n \in formatted + 1 .. accepted
    BY DEF LeftBehind
  <2>1. pc["format"] = "exited" /\ pc["sender"] = "exited"
    BY DEF Threads
  <2>2. sdMutex = Free /\ collectMutex # "format"
    <3>1. sdMutex \in Threads \cup {Free}
      BY DEF IInv, TypeOK
    <3>2. sdMutex # "format" /\ sdMutex # "sender" /\ collectMutex # "format"
      BY <2>1 DEF IInv, LockInv, HoldsCollect, FormatHoldsSD, SenderHoldsSD, PushPC
    <3> QED
      BY <3>1, <3>2 DEF Threads
  <2>3. Formatted = Collected /\ Removed = attempted
    BY <2>1 DEF Formatted, Removed
  <2>4. /\ collectQueue \in Seq(Nat) /\ sdQueue \in Seq(Nat)
        /\ Len(collectQueue) \in Nat /\ accepted \in Nat /\ attempted \in Nat
        /\ DOMAIN collectQueue = 1 .. Len(collectQueue) /\ DOMAIN sdQueue = 1 .. Len(sdQueue)
    BY LenProperties DEF IInv, TypeOK
  <2>5. Collected = accepted - Len(collectQueue) /\ Collected \in attempted .. accepted
    BY <2>3, <2>4 DEF IInv, SDInv, CollectInv, Collected
  <2>6. ASSUME NEW n \in 1 .. accepted
        PROVE  Holds(sdQueue, n) <=> n \in attempted + 1 .. Collected
    <3>1. n # Heartbeat
      BY <2>4 DEF Heartbeat
    <3>2. Contents(sdQueue, attempted, Collected)
      BY <2>3 DEF IInv, SDInv
    <3> QED
      BY <2>4, <3>1, <3>2 DEF Contents, Holds
  <2>7. ASSUME NEW n \in 1 .. accepted
        PROVE  Holds(collectQueue, n) <=> n \in Collected + 1 .. accepted
    <3>1. \A i \in 1 .. Len(collectQueue) : collectQueue[i] = Collected + i
      BY DEF IInv, CollectInv
    <3>2. CASE n \in Collected + 1 .. accepted
      <4>1. n - Collected \in 1 .. Len(collectQueue) /\ collectQueue[n - Collected] = n
        BY <2>4, <2>5, <3>1, <3>2
      <4> QED
        BY <2>4, <3>2, <4>1 DEF Holds
    <3>3. CASE n \notin Collected + 1 .. accepted
      <4>1. \A i \in 1 .. Len(collectQueue) : Collected + i \in Collected + 1 .. accepted
        BY <2>4, <2>5
      <4> QED
        BY <2>4, <3>1, <3>3, <4>1 DEF Holds
    <3> QED
      BY <3>2, <3>3
  <2> QED
    BY <2>2, <2>5, <2>6, <2>7
<1> QED
  BY InductiveInvariant, <1>1, PTL

\* Type correctness, for every set of addons and every bound.
THEOREM TypeCorrect == Spec => []TypeOK
<1>1. IInv => TypeOK
  BY DEF IInv
<1> QED
  BY InductiveInvariant, <1>1, PTL

\* Every accepted datum that was not handed to sendMessage is in a queue.
THEOREM NoDatumIsLost == Spec => []NoDatumLost
<1>1. IInv => NoDatumLost
  <2> SUFFICES ASSUME IInv, NEW n \in attempted + 1 .. accepted
               PROVE  Holds(collectQueue, n) \/ Holds(sdQueue, n)
    BY DEF NoDatumLost
  <2>1. /\ collectQueue \in Seq(Nat) /\ sdQueue \in Seq(Nat) /\ Len(collectQueue) \in Nat
        /\ attempted \in Nat /\ accepted \in Nat /\ Removed \in Nat /\ Removed <= attempted
        /\ DOMAIN collectQueue = 1 .. Len(collectQueue) /\ DOMAIN sdQueue = 1 .. Len(sdQueue)
    BY LenProperties DEF IInv, TypeOK, SDInv
  <2>2. Collected \in Nat /\ Collected <= Formatted /\ Formatted \in Nat
    BY <2>1 DEF IInv, CollectInv, Collected, Formatted
  <2>3. CASE n <= Formatted
    <3>1. n \in Removed + 1 .. Formatted
      BY <2>1, <2>2, <2>3
    <3> QED
      BY <2>1, <3>1 DEF IInv, SDInv, Contents, Holds
  <2>4. CASE n > Formatted
    <3>1. n - Collected \in 1 .. Len(collectQueue)
      BY <2>1, <2>2, <2>4 DEF Collected
    <3>2. collectQueue[n - Collected] = n
      BY <2>1, <2>2, <3>1 DEF IInv, CollectInv
    <3> QED
      BY <2>1, <3>1, <3>2 DEF Holds
  <2> QED
    BY <2>1, <2>2, <2>3, <2>4
<1> QED
  BY InductiveInvariant, <1>1, PTL

\* The last element a pusher found by walking the list still is the last when
\* it links the new one.
THEOREM TailIsInHand == Spec => []TailInHand
<1>1. IInv => TailInHand
  BY DEF IInv
<1> QED
  BY InductiveInvariant, <1>1, PTL

\* The first element a consumer read still is the first when it unlinks it.
THEOREM HeadIsInHand == Spec => []HeadInHand
<1>1. IInv => HeadInHand
  BY DEF IInv
<1> QED
  BY InductiveInvariant, <1>1, PTL

\* A list seen not empty without the mutex still is so when the mutex is taken.
THEOREM PeekStaysTrue == Spec => []PeekIsStable
<1>1. IInv => PeekIsStable
  BY DEF IInv
<1> QED
  BY InductiveInvariant, <1>1, PTL

\* The SD-Element queue never holds two heartbeats.
THEOREM OneHeartbeat == Spec => []AtMostOneHeartbeat
<1>1. IInv => AtMostOneHeartbeat
  BY LenProperties DEF IInv, TypeOK, SDInv, Contents, AtMostOneHeartbeat
<1> QED
  BY InductiveInvariant, <1>1, PTL

\* When the sender sleeps, the last message is at most HEARTBEAT seconds older
\* than the time heartBeat read, however the system's clock was set.
THEOREM SilenceIsBounded == Spec => []SilenceBound
<1>1. IInv => SilenceBound
  <2> SUFFICES ASSUME IInv, pc["sender"] = "sleep" PROVE collectTime - wire.at <= HEARTBEAT
    BY DEF SilenceBound
  <2>1. collectTime \in Nat /\ tmpTime \in Nat /\ wire.at \in Nat
    BY DEF IInv, TypeOK
  <2>2. tmpTime <= wire.at /\ collectTime - tmpTime <= HEARTBEAT
    BY DEF IInv, SilenceInv
  <2> QED
    BY <2>1, <2>2, HeartbeatAssumption
<1> QED
  BY InductiveInvariant, <1>1, PTL

\* A step of the pipeline attempts the next datum or a heartbeat, takes a datum
\* over, or shows nothing.
LEMMA DeliveryStep == IInv /\ [Next]_vars => [D!Next]_(D!deliveryVars)
<1> SUFFICES ASSUME IInv, [Next]_vars PROVE [D!Next]_(D!deliveryVars)
  OBVIOUS
<1>1. CASE PopSDElementSend
  <2>1. /\ pc["sender"] = "send" /\ accepted' = accepted
        /\ wire'.id = msgID /\ wire'.elem = poped["sender"]
        /\ attempted' = IF poped["sender"] = Heartbeat THEN attempted ELSE poped["sender"]
    BY <1>1 DEF PopSDElementSend
  <2>2. wire'.id = (wire.id % MsgIDMax) + 1
    BY <2>1 DEF IInv, IDInv
  <2>3. CASE poped["sender"] = Heartbeat
    BY <2>1, <2>2, <2>3 DEF D!Next, D!AttemptHeartbeat, D!NextID, D!Heartbeat, Heartbeat
  <2>4. CASE poped["sender"] # Heartbeat
    <3>1. sdQueue # <<>> /\ Head(sdQueue) = poped["sender"] /\ Removed = attempted
      BY <2>1 DEF IInv, HeadInHand, Removed
    <3>2. /\ sdQueue \in Seq(Nat) /\ attempted \in Nat /\ accepted \in Nat
          /\ Len(collectQueue) \in Nat /\ Collected \in Nat /\ Formatted \in Nat
      BY LenProperties DEF IInv, TypeOK, CollectInv, Collected, Formatted
    <3>3. poped["sender"] = attempted + 1 /\ attempted < Formatted
      BY <2>4, <3>1, <3>2, ContentsHeadTail DEF IInv, SDInv
    <3>4. Formatted <= accepted
      <4>1. pc["format"] \in {"pushUnlock", "pop"} => Len(collectQueue) # 0
        BY QueueFacts DEF IInv, HeadInHand, PushPC, TypeOK
      <4> QED
        BY <3>2, <4>1 DEF Formatted, Collected
    <3>5. attempted < accepted /\ attempted' = attempted + 1 /\ wire'.elem = attempted + 1
      BY <2>1, <2>4, <3>2, <3>3, <3>4
    <3> QED
      BY <2>1, <2>2, <3>5 DEF D!Next, D!AttemptDatum, D!NextID
  <2> QED
    BY <2>3, <2>4
<1>2. ASSUME NEW a \in Addons, AddonPush(a) PROVE D!Next
  BY <1>2 DEF AddonPush, D!Next, D!Accept
<1>3. CASE UNCHANGED historyVars
  BY <1>3 DEF historyVars, D!deliveryVars
<1>4. PopSDElementSend \/ (\E a \in Addons : AddonPush(a)) \/ UNCHANGED historyVars
  BY DEF Next, PushSDElementQueue, PushLock, PushWalk, PushLink, PushUnlock, Format, FormatWhile,
     FormatPeek, FormatSleep, PopCollectQueue, PopCollectLock, PopCollectTest, PopCollectRemove,
     PopCollectUnlock, Sender, SenderWhile, SenderPeek, SenderSleep, SenderWrap, HeartBeat,
     HeartBeatTime, HeartBeatTest, PopSDElementQueue, PopSDElementLock, PopSDElementTest,
     PopSDElementRemove, PopSDElementUnlock, Addon, AddonLock, AddonUnlock, AddonCancelled,
     Signal, Tick, SetClock, Terminated, vars
<1> QED
  BY <1>1, <1>2, <1>3, <1>4

\* The pipeline implements Delivery: each datum attempted once and in order, the
\* identifiers cyclic.
THEOREM PipelineImplementsDelivery == Spec => ImplementsDelivery
<1>1. Init => D!Init
  BY DEF Init, D!Init, Null
<1> QED
  BY <1>1, DeliveryStep, InductiveInvariant, PTL DEF Spec, ImplementsDelivery, D!Spec

-----------------------------------------------------------------------------
(* Shutdown *)

\* The threads that have left.
Gone == {t \in Threads : pc[t] = "exited"}

\* A thread that takes a step had not left; it leaves only from its outer loop,
\* and then signum is set.
LEMMA ThreadMoves ==
    ASSUME IInv, NEW t \in Threads, NEW to, Goto(t, to), pc[t] # "exited",
           to = "exited" => signum # 0,
           signum' = signum
    PROVE  (\E w \in Threads : S!Leave(w)) \/ UNCHANGED S!shutdownVars
<1>1. (signum # 0)' = (signum # 0)
  OBVIOUS
<1>2. pc' = [pc EXCEPT ![t] = to] /\ DOMAIN pc = Threads
  BY DEF Goto, IInv, TypeOK
<1>3. CASE to = "exited"
  <2>1. Gone' = Gone \cup {t} /\ t \notin Gone
    BY <1>2, <1>3 DEF Gone
  <2>2. signum # 0
    BY <1>3
  <2>3. S!Leave(t)
    BY <1>1, <2>1, <2>2 DEF S!Leave, Gone
  <2> QED
    BY <2>3
<1>4. CASE to # "exited"
  <2>1. Gone' = Gone
    BY <1>2, <1>4 DEF Gone
  <2> QED
    BY <1>1, <2>1 DEF S!shutdownVars, Gone
<1> QED
  BY <1>3, <1>4

\* Each step of the pipeline is one of Shutdown or is not seen by it.
LEMMA LeaveStep == IInv /\ [Next]_vars => [S!Next]_(S!shutdownVars)
<1> SUFFICES ASSUME IInv, [Next]_vars PROVE S!Next \/ UNCHANGED S!shutdownVars
  OBVIOUS
<1>1. ASSUME NEW t \in Threads, PushSDElementQueue(t) PROVE S!Next \/ UNCHANGED S!shutdownVars
  <2>1. \E to \in {"pushWalk", "pushLink", "pushUnlock", "pop", "peek"} : Goto(t, to)
    BY <1>1 DEF PushSDElementQueue, PushLock, PushWalk, PushLink, PushUnlock
  <2>2. pc[t] # "exited" /\ signum' = signum
    BY <1>1 DEF PushSDElementQueue, PushLock, PushWalk, PushLink, PushUnlock, envVars
  <2> QED
    BY <2>1, <2>2, ThreadMoves DEF S!Next
<1>2. ASSUME Format PROVE S!Next \/ UNCHANGED S!shutdownVars
  <2>1. \E to \in {"peek", "exited", "popLock", "sleep", "while", "popTest", "popUnlock", "pushLock"} :
           Goto("format", to) /\ (to = "exited" => signum # 0)
    BY <1>2 DEF Format, FormatWhile, FormatPeek, FormatSleep, PopCollectQueue, PopCollectLock,
                PopCollectTest, PopCollectRemove, PopCollectUnlock
  <2>2. pc["format"] # "exited" /\ signum' = signum /\ "format" \in Threads
    BY <1>2 DEF Format, FormatWhile, FormatPeek, FormatSleep, PopCollectQueue, PopCollectLock,
                PopCollectTest, PopCollectRemove, PopCollectUnlock, envVars, Threads
  <2> QED
    BY <2>1, <2>2, ThreadMoves DEF S!Next
<1>3. ASSUME Sender PROVE S!Next \/ UNCHANGED S!shutdownVars
  <2>1. \E to \in {"time", "exited", "heartbeat", "pushLock", "peek", "popLock", "sleep", "while",
                   "popTest", "popUnlock", "send", "pop", "wrap"} :
           Goto("sender", to) /\ (to = "exited" => signum # 0)
    BY <1>3 DEF Sender, SenderWhile, HeartBeat, HeartBeatTime, HeartBeatTest, SenderPeek,
                SenderSleep, SenderWrap, PopSDElementQueue, PopSDElementLock, PopSDElementTest,
                PopSDElementSend, PopSDElementRemove, PopSDElementUnlock
  <2>2. pc["sender"] # "exited" /\ signum' = signum /\ "sender" \in Threads
    BY <1>3 DEF Sender, SenderWhile, HeartBeat, HeartBeatTime, HeartBeatTest, SenderPeek,
                SenderSleep, SenderWrap, PopSDElementQueue, PopSDElementLock, PopSDElementTest,
                PopSDElementSend, PopSDElementRemove, PopSDElementUnlock, envVars, Threads
  <2> QED
    BY <2>1, <2>2, ThreadMoves DEF S!Next
<1>4. ASSUME Signal PROVE S!Next
  <2>1. ~ (signum # 0) /\ (signum # 0)' = TRUE
    BY <1>4 DEF Signal
  <2>2. Gone' = Gone
    BY <1>4 DEF Signal, Gone
  <2>3. S!Request
    BY <2>1, <2>2 DEF S!Request, Gone
  <2> QED
    BY <2>3 DEF S!Next
<1>5. ASSUME UNCHANGED <<pc, signum>> PROVE UNCHANGED S!shutdownVars
  <2>1. Gone' = Gone /\ (signum # 0)' = (signum # 0)
    BY <1>5 DEF Gone
  <2> QED
    BY <2>1 DEF S!shutdownVars, Gone
<1>6. ASSUME NEW a \in Addons, Addon(a) PROVE UNCHANGED <<pc, signum>>
  BY <1>6 DEF Addon, AddonLock, AddonPush, AddonUnlock, AddonCancelled
<1>7. ASSUME Tick \/ SetClock \/ Terminated \/ UNCHANGED vars PROVE UNCHANGED <<pc, signum>>
  BY <1>7 DEF Tick, SetClock, Terminated, vars, envVars
<1> QED
  BY <1>1, <1>2, <1>3, <1>4, <1>5, <1>6, <1>7 DEF Next

\* The two threads keep their part of Shutdown: a signal asks them to leave, they
\* do not leave before, and do not come back.
THEOREM PipelineLeavesAsAgreed == Spec => LeavesAsAgreed
<1>1. Init => S!Init
  <2> SUFFICES ASSUME Init PROVE S!Init
    OBVIOUS
  <2>1. Gone = {}
    BY DEF Init, Gone
  <2>2. (signum # 0) = FALSE
    BY DEF Init
  <2> QED
    BY <2>1, <2>2 DEF S!Init, Gone
<1> QED
  BY <1>1, LeaveStep, InductiveInvariant, PTL DEF Spec, LeavesAsAgreed, S!Spec

=============================================================================
