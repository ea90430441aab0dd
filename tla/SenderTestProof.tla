---------------------------- MODULE SenderTestProof ----------------------------
(***************************************************************************)
(* Proofs about SenderTest, for every duration of the test, heartbeat      *)
(* period and number of messages the server takes.  The sender of the test *)
(* is that of Pipeline, started in another state: its invariant IInv is    *)
(* kept by the lemmas of PipelineProof.                                    *)
(***************************************************************************)
EXTENDS SenderTest, PipelineProof

-----------------------------------------------------------------------------
(* The test as an instance of Pipeline. *)

\* Each step of the test is a step of Pipeline, or leaves the pipeline alone.
LEMMA StepOfPipeline == [TestNext]_<<vars, testVars>> => [Next]_vars
<1> SUFFICES ASSUME TestNext, vars' # vars PROVE Next
  BY Zenon
<1>1. CASE SendMessage
  <2>1. PopSDElementSend
    BY <1>1 DEF SendMessage, Connect, Write, Fail
  <2> QED
    BY <2>1 DEF Next, Sender, PopSDElementQueue
<1>2. CASE SenderElsewhere
  BY <1>2 DEF SenderElsewhere, Next, Sender, PopSDElementQueue, Threads
<1>3. CASE Server
  BY <1>3, Zenon DEF Server, ServerListen, Incoming, Read, ServerStop
<1>4. CASE TestMain
  BY <1>4 DEF TestMain, CreateSender, JoinServer, StopSender, Next
<1>5. CASE TestTick
  BY <1>5 DEF TestTick, Next
<1>6. CASE TestEnded
  BY <1>6 DEF TestEnded
<1> QED
  BY <1>1, <1>2, <1>3, <1>4, <1>5, <1>6 DEF TestNext

\* The two elements of the test are what the pipeline holds when two data were
\* formatted and none was sent.
LEMMA TestInitPipeline == TestInit => IInv
<1> SUFFICES ASSUME TestInit PROVE IInv
  OBVIOUS
<1> USE AddonsAssumption, HeartbeatAssumption, MsgIDAssumption DEF TestInit
<1>1. /\ <<>> \in Seq(Nat) /\ Len(<<>>) = 0 /\ DOMAIN <<>> = {}
      /\ <<1, 2>> \in Seq(Nat) /\ Len(<<1, 2>>) = 2 /\ DOMAIN <<1, 2>> = 1 .. 2
      /\ <<1, 2>>[1] = 1 /\ <<1, 2>>[2] = 2
  OBVIOUS
<1>2. TypeOK
  BY <1>1 DEF TypeOK, Threads, FormatPC, SenderPC, Elements, Null, Free
<1>3. LockInv /\ HeadInHand /\ TailInHand /\ PeekIsStable
  BY DEF LockInv, HeadInHand, TailInHand, PeekIsStable, HoldsCollect, FormatHoldsSD, SenderHoldsSD,
     PushPC, Threads, Free
<1>4. CollectInv
  BY <1>1 DEF CollectInv
<1>5. SDInv
  <2>1. Collected = 2 /\ Formatted = 2 /\ Removed = 0
    BY <1>1 DEF Removed, Formatted, Collected, Threads
  <2>2. Contents(<<1, 2>>, 0, 2)
    BY <1>1 DEF Contents, Heartbeat
  <2>3. ~ Holds(<<1, 2>>, Heartbeat)
    BY <1>1 DEF Holds, Heartbeat
  <2> QED
    BY <2>1, <2>2, <2>3 DEF SDInv
<1>6. IDInv
  BY DEF IDInv, Threads
<1>7. SilenceInv
  BY <1>1 DEF SilenceInv, Threads
<1> QED
  BY <1>2, <1>3, <1>4, <1>5, <1>6, <1>7 DEF IInv

\* The pipeline's invariant holds throughout the test.
LEMMA PipelineStep == IInv /\ [TestNext]_<<vars, testVars>> => IInv'
BY StepOfPipeline, NextInv

\* What the sender's steps outside of an exchange leave alone, and that they
\* neither start in the call of sendMessage nor change anything of format.
LEMMA ElsewhereFrame ==
    ASSUME IInv, SenderElsewhere
    PROVE  /\ UNCHANGED <<testVars, collectQueue, accepted, attempted, wire, clock, behind>>
           /\ pc["sender"] # "send" /\ pc'["format"] = pc["format"]
<1>1. UNCHANGED <<testVars, collectQueue, accepted, attempted, wire, clock, behind>>
  BY DEF SenderElsewhere, SenderWhile, HeartBeat, HeartBeatTime, HeartBeatTest, PushSDElementQueue,
     PushLock, PushWalk, PushLink, PushUnlock, SenderPeek, PopSDElementLock, PopSDElementTest,
     PopSDElementRemove, PopSDElementUnlock, SenderWrap, SenderSleep, queueVars, historyVars, envVars
<1>2. pc["sender"] # "send" /\ \E to \in SenderPC : Goto("sender", to)
  BY DEF SenderElsewhere, SenderWhile, HeartBeat, HeartBeatTime, HeartBeatTest, PushSDElementQueue,
     PushLock, PushWalk, PushLink, PushUnlock, SenderPeek, PopSDElementLock, PopSDElementTest,
     PopSDElementRemove, PopSDElementUnlock, SenderWrap, SenderSleep, SenderPC, PushPC
<1>3. pc'["format"] = pc["format"]
  BY <1>2, GotoSender DEF IInv
<1> QED
  BY <1>1, <1>2, <1>3

\* What the test's call of sendMessage does to the pipeline.
LEMMA SendFrame ==
    ASSUME IInv, PopSDElementSend
    PROVE  /\ UNCHANGED <<collectQueue, sdQueue, accepted, clock, behind, tmpTime, collectTime, msgID,
                          poped>>
           /\ pc["sender"] = "send" /\ pc'["sender"] = "pop" /\ pc'["format"] = pc["format"]
           /\ wire'.id = msgID /\ wire'.elem = poped["sender"]
           /\ poped["sender"] = Heartbeat => attempted' = attempted
           /\ poped["sender"] # Heartbeat => attempted' = poped["sender"]
<1>1. /\ UNCHANGED <<collectQueue, sdQueue, accepted, clock, behind, tmpTime, collectTime, msgID,
                     poped>>
      /\ pc["sender"] = "send" /\ wire'.id = msgID /\ wire'.elem = poped["sender"]
      /\ poped["sender"] = Heartbeat => attempted' = attempted
      /\ poped["sender"] # Heartbeat => attempted' = poped["sender"]
  BY DEF PopSDElementSend, queueVars, localVars, senderVars, envVars
<1>2. pc'["sender"] = "pop" /\ pc'["format"] = pc["format"]
  BY GotoSender DEF PopSDElementSend, SenderPC, IInv
<1> QED
  BY <1>1, <1>2

\* Both data were formatted before the test began.
LEMMA AllFormatted == AloneInv => Formatted = 2
<1>1. Len(<<>>) = 0
  OBVIOUS
<1> QED
  BY <1>1 DEF AloneInv, Collected, Formatted

\* The message about to be sent: a heartbeat that is queued, or the datum
\* after the last one attempted, which is one of the two.
LEMMA MessageInHand ==
    ASSUME IInv, AloneInv, pc["sender"] = "send"
    PROVE  /\ attempted \in 0 .. 2 /\ poped["sender"] \in Nat
           /\ poped["sender"] = Heartbeat => Waiting = 1
           /\ poped["sender"] # Heartbeat =>
                  poped["sender"] = attempted + 1 /\ attempted < 2
<1>1. /\ sdQueue # <<>> /\ Head(sdQueue) = poped["sender"] /\ sdQueue \in Seq(Nat)
      /\ Removed = attempted /\ attempted \in Nat
  BY DEF IInv, TypeOK, HeadInHand, Removed
<1>2. Formatted = 2
  BY AllFormatted
<1>3. attempted \in 0 .. 2 /\ Contents(sdQueue, attempted, 2)
  BY <1>1, <1>2 DEF IInv, SDInv
<1>4. poped["sender"] # Heartbeat => poped["sender"] = attempted + 1 /\ attempted < 2
  BY <1>1, <1>3, ContentsHeadTail
<1>5. poped["sender"] = Heartbeat => Waiting = 1
  <2>1. Holds(sdQueue, Head(sdQueue))
    BY <1>1, QueueFacts, LenProperties DEF Holds
  <2> QED
    BY <1>1, <2>1 DEF Waiting
<1>6. poped["sender"] \in Nat
  BY <1>1, QueueFacts
<1> QED
  BY <1>3, <1>4, <1>5, <1>6

\* The next identifier is larger than all before: the test does not last long
\* enough for the identifiers to come round.
LEMMA NextIdentifier ==
    ASSUME IInv, AloneInv, CountInv, pc["sender"] = "send"
    PROVE  wire.id \in Nat /\ msgID = wire.id + 1
<1> USE MsgIDAssumption, DurationAssumption
<1>1. /\ wire.id \in 0 .. MsgIDMax /\ tmpTime \in Nat /\ attempted \in Nat
      /\ collectTime \in Nat /\ clock \in Nat
      /\ msgID = (wire.id % MsgIDMax) + 1
  BY DEF IInv, TypeOK, IDInv
<1>2. tmpTime <= MaxClock
  BY <1>1 DEF CountInv, AloneInv
<1>3. wire.id + Waiting <= attempted + tmpTime
  BY <1>1 DEF CountInv, Pushed
<1>4. Waiting \in {0, 1}
  BY DEF Waiting
<1>5. wire.id < MsgIDMax
  <2>1. CASE poped["sender"] = Heartbeat
    BY <1>1, <1>2, <1>3, <2>1, MessageInHand
  <2>2. CASE poped["sender"] # Heartbeat
    BY <1>1, <1>2, <1>3, <1>4, <2>2, MessageInHand
  <2> QED
    BY <2>1, <2>2
<1>6. wire.id % MsgIDMax = wire.id
  BY <1>1, <1>5
<1> QED
  BY <1>1, <1>6

-----------------------------------------------------------------------------
(* One lemma for each part of the invariant. *)

\* No step of the test makes anybody but the sender touch the queue.
LEMMA AloneStep == TestInv /\ [TestNext]_<<vars, testVars>> => AloneInv'
<1> SUFFICES ASSUME TestInv, [TestNext]_<<vars, testVars>> PROVE AloneInv'
  OBVIOUS
<1>i. IInv /\ AloneInv
  BY DEF TestInv
<1>1. CASE SenderElsewhere
  BY <1>i, <1>1, ElsewhereFrame DEF AloneInv
<1>2. CASE PopSDElementSend
  BY <1>i, <1>2, SendFrame DEF AloneInv
<1>3. CASE Signal
  BY <1>i, <1>3 DEF AloneInv, Signal, queueVars, historyVars
<1>4. CASE Tick
  <2>1. clock' = clock + 1 /\ clock < MaxClock /\ clock \in Nat
        /\ UNCHANGED <<pc, collectQueue, accepted, behind>>
    BY <1>i, <1>4 DEF Tick, queueVars, historyVars, IInv, TypeOK
  <2>2. clock' <= MaxClock
    BY <2>1, BoundsAssumption
  <2> QED
    BY <1>i, <2>1, <2>2 DEF AloneInv
<1>5. CASE UNCHANGED vars
  BY <1>i, <1>5 DEF AloneInv, vars, queueVars, envVars, historyVars
<1> QED
  BY <1>1, <1>2, <1>3, <1>4, <1>5
     DEF TestNext, SendMessage, Connect, Write, Fail, Server, ServerListen, Incoming, Read, ServerStop,
         TestMain, CreateSender, JoinServer, StopSender, TestTick, TestEnded

\* A heartbeat that was pushed is counted by tmpTime, one that was sent by the
\* identifier.
LEMMA CountStep == TestInv /\ [TestNext]_<<vars, testVars>> => CountInv'
<1> SUFFICES ASSUME TestInv, [TestNext]_<<vars, testVars>> PROVE CountInv'
  OBVIOUS
<1> USE HeartbeatAssumption
<1>i. IInv /\ AloneInv /\ CountInv
  BY DEF TestInv
<1>t. /\ TypeOK /\ wire.id \in Nat /\ attempted \in Nat /\ tmpTime \in Nat /\ collectTime \in Nat
      /\ clock \in Nat \ {0} /\ behind = 0 /\ sdQueue \in Seq(Nat)
      /\ Waiting \in {0, 1} /\ Pushed \in {0, 1}
  BY <1>i DEF IInv, TypeOK, AloneInv, Waiting, Pushed
<1>1. CASE SenderElsewhere
  <2>f. UNCHANGED <<attempted, wire, clock>>
    BY <1>i, <1>1, ElsewhereFrame
  <2>1. CASE HeartBeatTime
    <3>1. /\ pc["sender"] = "time" /\ pc'["sender"] = "heartbeat"
          /\ collectTime' = clock /\ UNCHANGED <<tmpTime, sdQueue, poped>>
      BY <1>t, <2>1, GotoSender DEF HeartBeatTime, SenderPC, queueVars, localVars
    <3>2. Waiting' = Waiting /\ Pushed' = 0 /\ Pushed = 0
      BY <3>1 DEF Waiting, Pushed
    <3> QED
      BY <1>i, <1>t, <2>f, <3>1, <3>2 DEF CountInv, PushPC
  <2>2. CASE HeartBeatTest
    <3> DEFINE idle == sdQueue = <<>> \/ tmpTime = 0
               due  == tmpTime = 0 \/ collectTime - tmpTime > HEARTBEAT
    <3>1. /\ pc["sender"] = "heartbeat"
          /\ pc'["sender"] = IF idle /\ due THEN "pushLock" ELSE "peek"
          /\ tmpTime' = IF idle THEN tmpTime ELSE collectTime
          /\ UNCHANGED <<collectTime, sdQueue, poped>>
      BY <1>t, <2>2, GotoSender DEF HeartBeatTest, SenderPC, PushPC, queueVars, localVars
    <3>2. Waiting' = Waiting /\ Pushed' = 0 /\ Pushed = 0
      BY <3>1 DEF Waiting, Pushed
    <3>3. tmpTime <= collectTime /\ collectTime > 0 /\ (due => collectTime > tmpTime)
      BY <1>i, <1>t, <3>1 DEF CountInv
    <3> QED
      BY <1>i, <1>t, <2>f, <3>1, <3>2, <3>3 DEF CountInv, PushPC
  <2>3. CASE PushLock("sender") \/ PushWalk("sender")
    <3>1. /\ pc["sender"] \in {"pushLock", "pushWalk"} /\ pc'["sender"] \in {"pushWalk", "pushLink"}
          /\ UNCHANGED <<tmpTime, collectTime, sdQueue, poped>>
      BY <1>t, <2>3, GotoSender DEF PushLock, PushWalk, SenderPC, PushPC, queueVars, localVars, senderVars
    <3>2. Waiting' = Waiting /\ Pushed' = 0 /\ Pushed = 0
      BY <3>1 DEF Waiting, Pushed
    <3> QED
      BY <1>i, <1>t, <2>f, <3>1, <3>2 DEF CountInv, PushPC
  <2>4. CASE PushLink("sender")
    <3>1. /\ pc["sender"] = "pushLink" /\ pc'["sender"] = "pushUnlock"
          /\ UNCHANGED <<tmpTime, collectTime>>
      BY <1>t, <2>4, GotoSender DEF PushLink, SenderPC, PushPC, senderVars
    <3>2. ~ Holds(sdQueue, Heartbeat)
      BY <1>i, <3>1 DEF IInv, SDInv
    <3>3. Waiting = 0 /\ Waiting' <= 1 /\ Waiting' \in Nat /\ Pushed' = 1 /\ Pushed = 0
      BY <3>1, <3>2 DEF Waiting, Pushed
    <3> QED
      BY <1>i, <1>t, <2>f, <3>1, <3>3 DEF CountInv, PushPC
  <2>5. CASE PushUnlock("sender")
    <3>1. /\ pc["sender"] = "pushUnlock" /\ pc'["sender"] = "peek"
          /\ tmpTime' = collectTime /\ UNCHANGED <<collectTime, sdQueue, poped>>
      BY <1>t, <2>5, GotoSender DEF PushUnlock, SenderPC, queueVars, localVars
    <3>2. Waiting' = Waiting /\ Pushed' = 0 /\ Pushed = 1
      BY <3>1 DEF Waiting, Pushed
    <3> QED
      BY <1>i, <1>t, <2>f, <3>1, <3>2 DEF CountInv, PushPC
  <2>6. CASE PopSDElementRemove
    <3>1. /\ pc["sender"] = "pop" /\ pc'["sender"] = "popUnlock"
          /\ UNCHANGED <<tmpTime, collectTime, poped>>
      BY <1>t, <2>6, GotoSender DEF PopSDElementRemove, SenderPC, senderVars, localVars
    <3>2. sdQueue # <<>> /\ sdQueue' = Tail(sdQueue) /\ Head(sdQueue) = poped["sender"]
      BY <1>i, <2>6, <3>1, ListSteps DEF IInv, HeadInHand
    <3>3. Waiting' <= Waiting /\ Waiting' \in Nat
      <4>1. CASE poped["sender"] = Heartbeat
        <5>1. Removed \in Nat /\ Formatted \in Nat /\ Contents(sdQueue, Removed, Formatted)
          BY <1>i, AllFormatted DEF IInv, SDInv
        <5>2. ~ Holds(sdQueue', Heartbeat)
          BY <1>t, <3>2, <4>1, <5>1, ContentsHeadTail
        <5> QED
          BY <1>t, <5>2 DEF Waiting
      <4>2. CASE poped["sender"] # Heartbeat
        <5>1. Holds(sdQueue', Heartbeat) => Holds(sdQueue, Heartbeat)
          <6>1. /\ Len(sdQueue) \in Nat \ {0} /\ DOMAIN sdQueue = 1 .. Len(sdQueue)
                /\ DOMAIN sdQueue' = 1 .. Len(sdQueue) - 1
                /\ \A i \in 1 .. Len(sdQueue) - 1 : sdQueue'[i] = sdQueue[i + 1]
            BY <1>t, <3>2, QueueFacts, LenProperties
          <6>2. \A i \in 1 .. Len(sdQueue) - 1 : i + 1 \in 1 .. Len(sdQueue)
            BY <6>1
          <6> QED
            BY <6>1, <6>2 DEF Holds
        <5> QED
          BY <3>1, <4>2, <5>1 DEF Waiting
      <4> QED
        BY <4>1, <4>2
    <3>4. Pushed' = 0 /\ Pushed = 0
      BY <3>1 DEF Pushed
    <3> QED
      BY <1>i, <1>t, <2>f, <3>1, <3>3, <3>4 DEF CountInv, PushPC
  <2>7. CASE PopSDElementTest
    <3>1. /\ pc["sender"] = "popTest" /\ pc'["sender"] \in {"popUnlock", "send"}
          /\ UNCHANGED <<tmpTime, collectTime, sdQueue>>
      BY <1>t, <2>7, GotoSender DEF PopSDElementTest, SenderPC, senderVars, queueVars
    <3>2. Waiting' = Waiting /\ Pushed' = 0 /\ Pushed = 0
      BY <3>1 DEF Waiting, Pushed
    <3> QED
      BY <1>i, <1>t, <2>f, <3>1, <3>2 DEF CountInv, PushPC
  <2>8. CASE SenderWhile \/ SenderPeek \/ PopSDElementLock \/ PopSDElementUnlock \/ SenderWrap
             \/ SenderSleep
    <3>1. UNCHANGED <<tmpTime, collectTime, sdQueue, poped>>
      BY <2>8 DEF SenderWhile, SenderPeek, PopSDElementLock, PopSDElementUnlock, SenderWrap, SenderSleep,
         senderVars, queueVars, localVars
    <3>2. /\ pc["sender"] \in {"while", "peek", "popLock", "popUnlock", "wrap", "sleep"}
          /\ pc'["sender"] \in {"time", "exited", "popLock", "sleep", "popTest", "wrap", "peek", "while"}
      BY <1>t, <2>8, GotoSender DEF SenderWhile, SenderPeek, PopSDElementLock, PopSDElementUnlock,
         SenderWrap, SenderSleep, SenderPC
    <3>3. Waiting' = Waiting /\ Pushed' = 0 /\ Pushed = 0
      BY <3>1, <3>2 DEF Waiting, Pushed
    <3> QED
      BY <1>i, <1>t, <2>f, <3>1, <3>2, <3>3 DEF CountInv, PushPC
  <2> QED
    BY <1>1, <2>1, <2>2, <2>3, <2>4, <2>5, <2>6, <2>7, <2>8
       DEF SenderElsewhere, HeartBeat, PushSDElementQueue
<1>2. CASE PopSDElementSend
  <2>f. /\ UNCHANGED <<sdQueue, clock, tmpTime, collectTime, poped>>
        /\ pc["sender"] = "send" /\ pc'["sender"] = "pop" /\ wire'.id = msgID
    BY <1>i, <1>2, SendFrame
  <2>1. wire'.id = wire.id + 1
    BY <1>i, <2>f, NextIdentifier
  <2>2. Pushed = 0 /\ Pushed' = 0
    BY <2>f DEF Pushed
  <2>3. wire'.id + Waiting' <= attempted' + tmpTime
    <3>1. CASE poped["sender"] = Heartbeat
      <4>1. Waiting = 1 /\ attempted' = attempted
        BY <1>i, <1>2, <2>f, <3>1, MessageInHand, SendFrame
      <4>2. Waiting' = 0
        BY <2>f, <3>1 DEF Waiting
      <4> QED
        BY <1>i, <1>t, <2>1, <2>2, <4>1, <4>2 DEF CountInv
    <3>2. CASE poped["sender"] # Heartbeat
      <4>1. attempted' = attempted + 1
        BY <1>i, <1>2, <2>f, <3>2, MessageInHand, SendFrame
      <4>2. Waiting' = Waiting
        BY <2>f, <3>2 DEF Waiting
      <4> QED
        BY <1>i, <1>t, <2>1, <2>2, <4>1, <4>2 DEF CountInv
    <3> QED
      BY <3>1, <3>2
  <2>4. attempted' \in Nat
    BY <1>i, <1>t, <1>2, <2>f, MessageInHand, SendFrame
  <2> QED
    BY <1>i, <1>t, <2>f, <2>2, <2>3, <2>4 DEF CountInv, PushPC
<1>3. CASE Signal \/ Tick \/ UNCHANGED vars
  <2>1. /\ UNCHANGED <<pc, poped, sdQueue, wire, attempted, tmpTime, collectTime>>
        /\ clock' \in {clock, clock + 1}
    BY <1>3 DEF Signal, Tick, vars, localVars, queueVars, historyVars, senderVars, envVars
  <2>2. Waiting' = Waiting /\ Pushed' = Pushed
    BY <2>1 DEF Waiting, Pushed
  <2> QED
    BY <1>i, <1>t, <2>1, <2>2 DEF CountInv
<1> QED
  BY <1>1, <1>2, <1>3
     DEF TestNext, SendMessage, Connect, Write, Fail, Server, ServerListen, Incoming, Read, ServerStop,
         TestMain, CreateSender, JoinServer, StopSender, TestTick, TestEnded

\* The steps of the test that concern its own state, one by one, and the rest.
LEMMA TestSteps ==
    ASSUME TestInv, [TestNext]_<<vars, testVars>>
    PROVE  \/ Connect /\ UNCHANGED <<testPC, serverVars>>
           \/ Write /\ UNCHANGED <<testPC, serverVars>>
           \/ Fail /\ UNCHANGED <<testPC, serverVars>>
           \/ ServerListen \/ Incoming \/ Read \/ ServerStop
           \/ /\ UNCHANGED <<netVars, serverVars, wire, attempted>>
              /\ testPC' \in {testPC, "join", "assert", "cancel"}
              /\ pc["sender"] # "send" \/ pc' = pc
<1>1. CASE SendMessage
  BY <1>1, Zenon DEF SendMessage
<1>2. CASE SenderElsewhere
  BY <1>2, ElsewhereFrame DEF TestInv, testVars
<1>3. CASE Server
  BY <1>3, Zenon DEF Server
<1>4. CASE TestMain
  BY <1>4 DEF TestMain, CreateSender, JoinServer, StopSender, Signal, vars, historyVars
<1>5. CASE TestTick \/ TestEnded \/ UNCHANGED <<vars, testVars>>
  BY <1>5 DEF TestTick, TestEnded, Tick, vars, historyVars, testVars
<1> QED
  BY <1>1, <1>2, <1>3, <1>4, <1>5 DEF TestNext

\* Both ends of a connection are where the other may find them.
LEMMA NetStep == TestInv /\ [TestNext]_<<vars, testVars>> => NetInv'
<1> SUFFICES ASSUME TestInv, [TestNext]_<<vars, testVars>> PROVE NetInv'
  OBVIOUS
<1>i. NetInv /\ listening \in BOOLEAN /\ pending \in BOOLEAN /\ IInv
  BY DEF TestInv, TestTypeOK
<1>1. CASE Connect /\ UNCHANGED <<testPC, serverVars>>
  <2>1. sendPC = "connect" /\ pending' = listening
        /\ UNCHANGED <<serverPC, listening, conn>>
    BY <1>1, Zenon DEF Connect, At, serverVars
  <2>2. CASE listening
    <3>1. sendPC' = "handshake"
      BY <1>1, <2>2 DEF Connect
    <3> QED
      BY <1>i, <2>1, <2>2, <3>1 DEF NetInv
  <2>3. CASE ~ listening
    <3>1. sendPC' = "failed"
      BY <1>1, <2>3 DEF Connect
    <3> QED
      BY <1>i, <2>1, <2>3, <3>1 DEF NetInv
  <2> QED
    BY <2>2, <2>3
<1>2. CASE Write /\ UNCHANGED <<testPC, serverVars>>
  <2>1. /\ sendPC = "write" /\ sendPC' = "connect" /\ UNCHANGED <<serverPC, listening, pending>>
        /\ conn' \in {Message, EndOfFile}
    BY <1>2, Zenon DEF Write, At, serverVars
  <2>2. Message # NoData
    <3>1. msgID # -1
      BY <1>i DEF IInv, TypeOK
    <3> QED
      BY <3>1 DEF Message, NoData
  <2>3. EndOfFile # NoData
    BY DEF EndOfFile, NoData
  <2> QED
    BY <1>i, <2>1, <2>2, <2>3 DEF NetInv
<1>3. CASE Fail /\ UNCHANGED <<testPC, serverVars>>
  BY <1>i, <1>3 DEF NetInv, Fail, At, serverVars
<1>4. CASE ServerListen
  BY <1>i, <1>4 DEF NetInv, ServerListen
<1>5. CASE Incoming
  BY <1>i, <1>5 DEF NetInv, Incoming
<1>6. CASE Read
  BY <1>i, <1>6 DEF NetInv, Read, netVars
<1>7. CASE ServerStop
  BY <1>i, <1>7 DEF NetInv, ServerStop
<1>8. CASE UNCHANGED <<netVars, serverVars>>
  BY <1>i, <1>8, Zenon DEF NetInv, netVars, serverVars
<1> QED
  BY TestSteps, <1>1, <1>2, <1>3, <1>4, <1>5, <1>6, <1>7, <1>8

\* A message is one of the numbered elements.
LEMMA MessageType == IInv => Message \in Messages /\ NoData # EndOfFile /\ EndOfFile \in Messages
<1> USE MsgIDAssumption
<1>1. IInv => Message \in Messages
  BY DEF IInv, TypeOK, Message, Messages, Threads
<1>2. NoData # EndOfFile /\ EndOfFile \in Messages
  BY DEF NoData, EndOfFile, Messages, Elements, Null
<1> QED
  BY <1>1, <1>2

\* The variables of the test keep their types, and sendMessage is left with its
\* exchange over.
LEMMA TestTypeStep == TestInv /\ [TestNext]_<<vars, testVars>> => TestTypeOK'
<1> SUFFICES ASSUME TestInv, [TestNext]_<<vars, testVars>> PROVE TestTypeOK'
  OBVIOUS
<1>i. IInv /\ TestTypeOK /\ NetInv
  BY DEF TestInv
<1>1. CASE Connect /\ UNCHANGED <<testPC, serverVars>>
  <2>1. /\ pc' = pc /\ pc["sender"] = "send" /\ pending' = listening
        /\ UNCHANGED <<testPC, serverPC, listening, conn, values, sent, unread>>
    BY <1>1, Zenon DEF Connect, At, serverVars, vars
  <2>2. sendPC' \in {"handshake", "failed"}
    BY <1>1 DEF Connect
  <2> QED
    BY <1>i, <2>1, <2>2, Zenon DEF TestTypeOK
<1>2. CASE Write /\ UNCHANGED <<testPC, serverVars>>
  <2>1. /\ sendPC' = "connect"
        /\ UNCHANGED <<testPC, serverPC, listening, pending, values, unread>>
        /\ conn' \in {Message, EndOfFile} /\ sent' \in {sent, sent \cup {Message}}
    BY <1>2, Zenon DEF Write, serverVars
  <2> QED
    BY <1>i, <2>1, MessageType DEF TestTypeOK
<1>3. CASE Fail /\ UNCHANGED <<testPC, serverVars>>
  BY <1>i, <1>3, Zenon DEF TestTypeOK, Fail, serverVars
<1>4. CASE ServerListen
  BY <1>i, <1>4 DEF TestTypeOK, ServerListen, vars
<1>5. CASE Incoming
  <2>1. pc["sender"] = "send"
    BY <1>i, <1>5 DEF NetInv, TestTypeOK, Incoming
  <2> QED
    BY <1>i, <1>5, <2>1 DEF TestTypeOK, Incoming, vars
<1>6. CASE Read
  <2>1. conn \in Messages
    BY <1>i, <1>6 DEF TestTypeOK, Read
  <2>2. values' \in Seq(Messages) /\ unread' \subseteq Messages
    BY <1>i, <1>6, <2>1, AppendProperties DEF TestTypeOK, Read
  <2>3. serverPC' \in {"stop", "loop"} /\ UNCHANGED <<pc, testPC, listening, pending, sendPC, conn, sent>>
    BY <1>6 DEF Read, vars, netVars
  <2> QED
    BY <1>i, <2>2, <2>3, Zenon DEF TestTypeOK
<1>7. CASE ServerStop
  <2>1. pc["sender"] = "send" \/ sendPC' = "connect"
    BY <1>i, <1>7 DEF NetInv, TestTypeOK, ServerStop
  <2> QED
    BY <1>i, <1>7, <2>1 DEF TestTypeOK, ServerStop, vars
<1>8. CASE /\ UNCHANGED <<netVars, serverVars>>
           /\ testPC' \in {testPC, "join", "assert", "cancel"}
           /\ pc["sender"] # "send" \/ pc' = pc
  BY <1>i, <1>8 DEF TestTypeOK, netVars, serverVars
<1> QED
  BY TestSteps, <1>1, <1>2, <1>3, <1>4, <1>5, <1>6, <1>7, <1>8

\* The server that has its messages reads no further one.
LEMMA RoomStep == TestInv /\ [TestNext]_<<vars, testVars>> => RoomInv'
<1> SUFFICES ASSUME TestInv, [TestNext]_<<vars, testVars>> PROVE RoomInv'
  OBVIOUS
<1> USE SenderTestAssumption
<1>i. RoomInv /\ values \in Seq(Messages) /\ Len(values) \in Nat
  BY LenProperties DEF TestInv, TestTypeOK
<1>1. CASE Read
  <2>1. CASE values' = Append(values, conn) /\ serverPC' = IF Len(values') = Lenght THEN "stop" ELSE "loop"
    <3>1. Len(values') = Len(values) + 1
      <4>1. conn \in Messages
        BY <1>1 DEF Read, TestInv, TestTypeOK
      <4> QED
        BY <1>i, <2>1, <4>1, AppendProperties
    <3>2. Len(values) < Lenght
      BY <1>i, <1>1 DEF RoomInv, Read
    <3> QED
      BY <1>i, <2>1, <3>1, <3>2 DEF RoomInv
  <2>2. CASE values' = values
    BY <1>i, <1>1, <2>2 DEF RoomInv, Read
  <2> QED
    BY <1>1, <2>1, <2>2 DEF Read
<1>2. CASE \/ (Connect \/ Write \/ Fail) /\ UNCHANGED <<testPC, serverVars>>
           \/ UNCHANGED <<netVars, serverVars>>
  <2>1. UNCHANGED <<values, serverPC>>
    BY <1>2, Zenon DEF serverVars
  <2> QED
    BY <1>i, <2>1 DEF RoomInv
<1>3. CASE ServerListen \/ Incoming \/ ServerStop
  BY <1>i, <1>3 DEF RoomInv, ServerListen, Incoming, ServerStop
<1> QED
  BY TestSteps, <1>1, <1>2, <1>3

-----------------------------------------------------------------------------
(* The order of what the server receives. *)

\* A message with a larger identifier, and a later datum if it is one, may
\* follow.
LEMMA OrderAppend ==
    ASSUME NEW s \in Seq(Messages), NEW m \in Messages, NEW id \in Nat, NEW elem \in Nat,
           InOrder(s), Older(s, id, elem),
           m = EndOfFile \/ (m.id > id /\ (m.elem = Heartbeat \/ m.elem > elem))
    PROVE  InOrder(Append(s, m))
<1> DEFINE r == Append(s, m)
<1>1. /\ Len(s) \in Nat /\ Len(r) = Len(s) + 1 /\ r[Len(s) + 1] = m
      /\ \A i \in 1 .. Len(s) : r[i] = s[i]
  BY AppendProperties, LenProperties
<1> HIDE DEF r
<1>2. SUFFICES ASSUME NEW i \in 1 .. Len(r), NEW j \in 1 .. Len(r), i < j,
                      r[i] # EndOfFile, r[j] # EndOfFile
               PROVE  r[i].id < r[j].id /\ (r[j].elem # Heartbeat => r[i].elem < r[j].elem)
  BY DEF InOrder, r
<1>3. i \in 1 .. Len(s) /\ r[i] = s[i]
  BY <1>1, <1>2
<1>4. CASE j \in 1 .. Len(s)
  BY <1>1, <1>2, <1>3, <1>4 DEF InOrder
<1>5. CASE j = Len(s) + 1
  <2>1. s[i].id \in 1 .. id /\ s[i].elem \in 0 .. elem
    BY <1>2, <1>3 DEF Older
  <2>2. m.id \in Nat /\ m.elem \in Int
    BY MsgIDAssumption DEF Messages, Elements, Null
  <2>3. r[j] = m
    BY <1>1, <1>5
  <2> QED
    BY <1>2, <1>3, <2>1, <2>2, <2>3
<1> QED
  BY <1>1, <1>4, <1>5

\* What is younger than all of a sequence and its new end is younger than all.
LEMMA OlderAppend ==
    ASSUME NEW s \in Seq(Messages), NEW m \in Messages, NEW id, NEW elem, Older(s, id, elem),
           m = EndOfFile \/ (m.id \in 1 .. id /\ m.elem \in 0 .. elem)
    PROVE  Older(Append(s, m), id, elem)
<1> DEFINE r == Append(s, m)
<1>1. /\ Len(s) \in Nat /\ Len(r) = Len(s) + 1 /\ r[Len(s) + 1] = m
      /\ \A i \in 1 .. Len(s) : r[i] = s[i]
  BY AppendProperties, LenProperties
<1> HIDE DEF r
<1>2. SUFFICES ASSUME NEW i \in 1 .. Len(r)
               PROVE  r[i] = EndOfFile \/ (r[i].id \in 1 .. id /\ r[i].elem \in 0 .. elem)
  BY DEF Older, r
<1>3. CASE i \in 1 .. Len(s)
  BY <1>1, <1>3 DEF Older
<1>4. CASE i = Len(s) + 1
  BY <1>1, <1>4
<1> QED
  BY <1>1, <1>3, <1>4

\* Both hold of what was there before the last message, and the second with
\* later bounds.
LEMMA OrderPrefix ==
    ASSUME NEW s \in Seq(Messages), NEW m \in Messages, NEW id, NEW elem,
           InOrder(Append(s, m)), Older(Append(s, m), id, elem)
    PROVE  InOrder(s) /\ Older(s, id, elem)
<1>1. /\ Len(s) \in Nat /\ Len(Append(s, m)) = Len(s) + 1
      /\ \A i \in 1 .. Len(s) : Append(s, m)[i] = s[i]
  BY AppendProperties, LenProperties
<1>2. 1 .. Len(s) \subseteq 1 .. Len(Append(s, m))
  BY <1>1
<1> QED
  BY <1>1, <1>2 DEF InOrder, Older

LEMMA OlderLater ==
    ASSUME NEW s, NEW id \in Nat, NEW elem \in Nat, NEW newID \in Nat, NEW newElem \in Nat,
           id <= newID, elem <= newElem, Older(s, id, elem)
    PROVE  Older(s, newID, newElem)
BY DEF Older

\* A call of sendMessage has a later message in hand than any before it.
LEMMA MessageIsNext ==
    ASSUME TestInv, PopSDElementSend
    PROVE  /\ wire.id \in Nat /\ wire'.id = wire.id + 1 /\ Message.id = wire.id + 1
           /\ attempted \in Nat /\ attempted' \in Nat /\ attempted <= attempted'
           /\ Message.elem \in 0 .. attempted'
           /\ Message.elem = Heartbeat \/ Message.elem > attempted
<1>1. IInv /\ AloneInv /\ CountInv /\ pc["sender"] = "send" /\ wire'.id = msgID
  BY SendFrame DEF TestInv
<1>2. wire.id \in Nat /\ wire'.id = wire.id + 1 /\ Message.id = wire.id + 1
  BY <1>1, NextIdentifier DEF Message
<1>3. Message.elem = poped["sender"]
  BY DEF Message
<1>4. attempted \in 0 .. 2 /\ poped["sender"] \in Nat
  BY <1>1, MessageInHand
<1>5. CASE poped["sender"] = Heartbeat
  <2>1. attempted' = attempted
    BY <1>1, <1>5, SendFrame
  <2> QED
    BY <1>2, <1>3, <1>4, <1>5, <2>1 DEF Heartbeat
<1>6. CASE poped["sender"] # Heartbeat
  <2>1. attempted' = poped["sender"] /\ poped["sender"] = attempted + 1
    BY <1>1, <1>6, SendFrame, MessageInHand
  <2> QED
    BY <1>2, <1>3, <1>4, <2>1
<1> QED
  BY <1>5, <1>6

\* What the server has stored and is about to read stays in order.
LEMMA ReceivedStep == TestInv /\ [TestNext]_<<vars, testVars>> => ReceivedInv'
<1> SUFFICES ASSUME TestInv, [TestNext]_<<vars, testVars>> PROVE ReceivedInv'
  OBVIOUS
<1>i. /\ InOrder(Received) /\ Older(Received, wire.id, attempted)
      /\ NetInv /\ values \in Seq(Messages) /\ IInv /\ conn \in Messages \cup {NoData}
  BY DEF TestInv, ReceivedInv, TestTypeOK
<1>1. CASE Write /\ UNCHANGED <<testPC, serverVars>>
  <2>1. /\ PopSDElementSend /\ sendPC = "write" /\ values' = values /\ serverPC' = serverPC
        /\ conn' \in {Message, EndOfFile}
    BY <1>1, Zenon DEF Write, At, serverVars
  <2>2. Received = values /\ Received' = Append(values, conn')
    <3>1. serverPC = "read" /\ conn = NoData
      BY <1>i, <2>1 DEF NetInv
    <3>2. conn' # NoData
      <4>1. Message \in Messages /\ EndOfFile \in Messages
        BY <1>i, MessageType
      <4>2. NoData \notin Messages
        BY DEF Messages, NoData
      <4> QED
        BY <2>1, <4>1, <4>2
    <3> QED
      BY <2>1, <3>1, <3>2 DEF Received
  <2>3. conn' \in Messages
    BY <1>i, <2>1, MessageType
  <2>m. /\ wire.id \in Nat /\ wire'.id = wire.id + 1 /\ Message.id = wire.id + 1
        /\ attempted \in Nat /\ attempted' \in Nat /\ attempted <= attempted'
        /\ Message.elem \in 0 .. attempted'
        /\ Message.elem = Heartbeat \/ Message.elem > attempted
    BY <2>1, MessageIsNext
  <2>4. \/ conn' = EndOfFile
        \/ conn'.id > wire.id /\ (conn'.elem = Heartbeat \/ conn'.elem > attempted)
    BY <2>1, <2>m
  <2>5. \/ conn' = EndOfFile
        \/ conn'.id \in 1 .. wire'.id /\ conn'.elem \in 0 .. attempted'
    BY <2>1, <2>m
  <2>6. InOrder(Append(values, conn'))
    BY <1>i, <2>2, <2>3, <2>4, <2>m, OrderAppend
  <2>7. Older(values, wire'.id, attempted')
    BY <1>i, <2>2, <2>m, OlderLater
  <2>8. Older(Append(values, conn'), wire'.id, attempted')
    BY <1>i, <2>3, <2>5, <2>7, OlderAppend
  <2> QED
    BY <2>2, <2>6, <2>8 DEF ReceivedInv
<1>2. CASE Fail /\ UNCHANGED <<testPC, serverVars>>
  <2>1. PopSDElementSend /\ UNCHANGED <<values, serverPC, conn>>
    BY <1>2 DEF Fail, serverVars
  <2>2. Received' = Received
    BY <2>1 DEF Received
  <2>3. Older(Received, wire'.id, attempted')
    BY <1>i, <2>1, OlderLater, MessageIsNext
  <2> QED
    BY <1>i, <2>2, <2>3 DEF ReceivedInv
<1>3. CASE Read
  <2>1. /\ serverPC = "read" /\ conn # NoData /\ serverPC' # "read" /\ UNCHANGED <<wire, attempted>>
        /\ values' \in {values, Append(values, conn)}
    BY <1>3 DEF Read, vars, historyVars
  <2>2. Received = Append(values, conn) /\ Received' = values'
    BY <2>1 DEF Received
  <2>3. InOrder(values) /\ Older(values, wire.id, attempted)
    BY <1>i, <2>1, <2>2, OrderPrefix
  <2> QED
    BY <1>i, <2>1, <2>2, <2>3 DEF ReceivedInv
<1>4. CASE ServerListen \/ Incoming \/ ServerStop
  <2>1. UNCHANGED <<values, wire, attempted>> /\ Received = values /\ Received' = values
    BY <1>4 DEF ServerListen, Incoming, ServerStop, vars, historyVars, Received
  <2> QED
    BY <1>i, <2>1 DEF ReceivedInv
<1>5. CASE \/ Connect /\ UNCHANGED <<testPC, serverVars>>
           \/ UNCHANGED <<netVars, serverVars, wire, attempted>>
  <2>1. UNCHANGED <<serverPC, values, conn, wire, attempted>>
    BY <1>5, Zenon DEF Connect, serverVars, netVars, vars, historyVars
  <2>2. Received' = Received
    BY <2>1 DEF Received
  <2> QED
    BY <1>i, <2>1, <2>2 DEF ReceivedInv
<1> QED
  BY TestSteps, <1>1, <1>2, <1>3, <1>4, <1>5

\* What was reported as sent arrives, or its read fails.
LEMMA SentStep == TestInv /\ [TestNext]_<<vars, testVars>> => SentIsReceived'
<1> SUFFICES ASSUME TestInv, [TestNext]_<<vars, testVars>>, NEW m \in sent'
             PROVE  \/ \E i \in DOMAIN values' : values'[i] = m
                    \/ m \in unread'
                    \/ serverPC' = "read" /\ conn' = m
  BY DEF SentIsReceived
<1>i. SentIsReceived /\ NetInv /\ IInv /\ values \in Seq(Messages) /\ sent \subseteq Messages
      /\ conn \in Messages \cup {NoData}
  BY DEF TestInv, TestTypeOK
<1>n. NoData \notin Messages
  BY DEF Messages, NoData
<1>1. CASE Write /\ UNCHANGED <<testPC, serverVars>>
  <2>1. /\ sendPC = "write" /\ UNCHANGED <<values, serverPC, unread>>
        /\ conn' = Message \/ sent' = sent
        /\ sent' \subseteq sent \cup {Message} /\ (sent' = sent \/ conn' = Message)
    BY <1>1 DEF Write, At, serverVars
  <2>2. serverPC = "read" /\ conn = NoData
    BY <1>i, <2>1 DEF NetInv
  <2>3. CASE m = Message /\ conn' = Message
    BY <2>1, <2>2, <2>3
  <2>4. CASE m \in sent
    BY <1>i, <1>n, <2>1, <2>2, <2>4 DEF SentIsReceived
  <2> QED
    BY <2>1, <2>3, <2>4
<1>2. CASE Read
  <2>1. sent' = sent /\ serverPC = "read" /\ conn \in Messages
    BY <1>i, <1>2 DEF Read, netVars
  <2>2. /\ Len(values) \in Nat /\ DOMAIN values = 1 .. Len(values)
        /\ DOMAIN Append(values, conn) = 1 .. Len(values) + 1
        /\ Append(values, conn)[Len(values) + 1] = conn
        /\ \A i \in 1 .. Len(values) : Append(values, conn)[i] = values[i]
    BY <1>i, <2>1, AppendProperties, LenProperties
  <2>3. CASE \E i \in DOMAIN values : values[i] = m
    <3>1. PICK i \in DOMAIN values : values[i] = m
      BY <2>3
    <3>2. values' \in {values, Append(values, conn)}
      BY <1>2 DEF Read
    <3> QED
      BY <2>2, <3>1, <3>2
  <2>4. CASE m \in unread
    BY <1>2, <2>4 DEF Read
  <2>5. CASE conn = m
    <3>1. values' = Append(values, conn) \/ m \in unread'
      BY <1>2, <2>5 DEF Read
    <3> QED
      BY <2>2, <2>5, <3>1
  <2> QED
    BY <1>i, <2>1, <2>3, <2>4, <2>5 DEF SentIsReceived
<1>3. CASE ServerListen \/ Incoming \/ ServerStop
  <2>1. UNCHANGED <<values, sent, unread>> /\ serverPC # "read"
    BY <1>3 DEF ServerListen, Incoming, ServerStop
  <2> QED
    BY <1>i, <2>1 DEF SentIsReceived
<1>4. CASE \/ Connect /\ UNCHANGED <<testPC, serverVars>>
           \/ Fail /\ UNCHANGED <<testPC, serverVars>>
           \/ UNCHANGED <<netVars, serverVars>>
  <2>1. UNCHANGED <<serverPC, values, conn, sent, unread>>
    BY <1>4, Zenon DEF Connect, Fail, serverVars, netVars
  <2> QED
    BY <1>i, <2>1 DEF SentIsReceived
<1> QED
  BY TestSteps, <1>1, <1>2, <1>3, <1>4

-----------------------------------------------------------------------------
(* The theorems. *)

LEMMA TestInitInv == TestInit => TestInv
<1> SUFFICES ASSUME TestInit PROVE TestInv
  OBVIOUS
<1> USE DEF TestInit
<1>1. IInv
  BY TestInitPipeline
<1>2. /\ <<>> \in Seq(Messages) /\ Len(<<>>) = 0 /\ DOMAIN <<>> = {}
  OBVIOUS
<1>3. TestTypeOK
  BY <1>2 DEF TestTypeOK
<1>4. NetInv
  BY DEF NetInv
<1>5. AloneInv
  BY DurationAssumption DEF AloneInv, Threads
<1>6. CountInv
  <2>1. Waiting = 0
    <3>1. ~ Holds(<<1, 2>>, Heartbeat)
      BY DEF Holds, Heartbeat
    <3> QED
      BY <3>1 DEF Waiting
  <2>2. Pushed = 0
    BY DEF Pushed, Threads
  <2> QED
    BY <2>1, <2>2 DEF CountInv, Threads, PushPC
<1>7. ReceivedInv
  <2>1. Received = <<>>
    BY DEF Received
  <2> QED
    BY <1>2, <2>1 DEF ReceivedInv, InOrder, Older
<1>8. RoomInv
  BY <1>2, SenderTestAssumption DEF RoomInv
<1>9. SentIsReceived
  BY DEF SentIsReceived
<1> QED
  BY <1>1, <1>3, <1>4, <1>5, <1>6, <1>7, <1>8, <1>9 DEF TestInv

\* The invariant holds in every state of the test, whatever fails, in the time
\* that DurationAssumption gives it.
THEOREM TestInvariant == TestSpec => []TestInv
<1>1. TestInv /\ [TestNext]_<<vars, testVars>> => TestInv'
  <2>1. TestInv => IInv
    BY DEF TestInv
  <2> QED
    BY <2>1, PipelineStep, TestTypeStep, NetStep, AloneStep, CountStep, ReceivedStep, RoomStep, SentStep
       DEF TestInv
<1> QED
  BY TestInitInv, <1>1, PTL DEF TestSpec

\* Type correctness of the test's own variables.
THEOREM TestTypeCorrect == TestSpec => []TestTypeOK
<1>1. TestInv => TestTypeOK
  BY DEF TestInv
<1> QED
  BY TestInvariant, <1>1, PTL

\* What the server has stored is in the order of the queue and of the
\* identifiers, however many exchanges fail and heartbeats come in between.
THEOREM ServerReceivesInOrder == TestSpec => []ReceivedInOrder
<1>1. TestInv => ReceivedInOrder
  <2> SUFFICES ASSUME TestInv PROVE InOrder(values)
    BY DEF ReceivedInOrder
  <2>1. values \in Seq(Messages) /\ InOrder(Received) /\ Older(Received, wire.id, attempted)
        /\ conn \in Messages \cup {NoData}
    BY DEF TestInv, TestTypeOK, ReceivedInv
  <2>2. CASE serverPC = "read" /\ conn # NoData
    BY <2>1, <2>2, OrderPrefix DEF Received
  <2>3. CASE ~ (serverPC = "read" /\ conn # NoData)
    BY <2>1, <2>3 DEF Received
  <2> QED
    BY <2>2, <2>3
<1> QED
  BY TestInvariant, <1>1, PTL

\* The server stores no more messages than it was told to wait for.
THEOREM ServerStaysInArray == TestSpec => []NoValueOverrun
<1>1. TestInv => NoValueOverrun
  BY DEF TestInv, RoomInv, NoValueOverrun
<1> QED
  BY TestInvariant, <1>1, PTL

\* A message reported as sent is stored or being read, or its read failed.
THEOREM SentMessageArrives == TestSpec => []SentIsReceived
<1>1. TestInv => SentIsReceived
  BY DEF TestInv
<1> QED
  BY TestInvariant, <1>1, PTL

\* The test runs the sender of the probe: each of its steps is one of Pipeline
\* or is not seen there.
THEOREM TestRunsPipeline == TestSpec => [][Next]_vars
BY StepOfPipeline, PTL DEF TestSpec

\* The promise of Delivery, kept by the sender under test.
THEOREM TestSendsAsDelivery == TestSpec => SendsAsDelivery
<1>1. TestInv => IInv
  BY DEF TestInv
<1> QED
  BY <1>1, TestInvariant, StepOfPipeline, DeliveryStep, PTL DEF TestSpec, SendsAsDelivery
=============================================================================
