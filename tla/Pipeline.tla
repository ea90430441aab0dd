------------------------------ MODULE Pipeline ------------------------------
(***************************************************************************)
(* The core of the probe: addons push collected data on the collect queue, *)
(* the format thread turns each datum into an SD-Element on the SD-Element *)
(* queue, the sender thread adds heartbeats and hands every element to the *)
(* network (src/src/format.c, src/src/sender.c).  Each queue is a linked   *)
(* list behind a mutex of its own.                                         *)
(*                                                                         *)
(* A datum is the number of its arrival in the collect queue: 1, 2, 3...   *)
(* A step is what one thread does between two points where the others may  *)
(* see or change something it uses: taking or releasing a mutex, reading a *)
(* list head with no mutex held, walking to the end of a list, linking a   *)
(* new last element, sending, unlinking the first element.  The walk and   *)
(* the link, and the reading of the first element and its removal, are     *)
(* separate steps: only the mutexes keep them from interleaving.           *)
(*                                                                         *)
(* Bounds of the model checked: MaxData data, MaxClock seconds.  calloc    *)
(* never fails and no queue argument is NULL (the code aborts otherwise).  *)
(***************************************************************************)
EXTENDS Integers, Sequences

CONSTANTS
    Addons,      \* the addon threads (external: addonLib)
    HEARTBEAT,   \* seconds of silence before a heartbeat (10 in sender.h)
    MsgIDMax,    \* largest value of an unsigned short (65535)
    MaxData,     \* bound: how many data the addons collect
    MaxClock,    \* bound: the last value of the clock
    MaxBehind    \* bound: how far behind the system's clock is set

ASSUME AddonsAssumption == Addons \cap {"format", "sender", "free"} = {}
ASSUME HeartbeatAssumption == HEARTBEAT \in Nat
ASSUME MsgIDAssumption == MsgIDMax \in Nat \ {0}
ASSUME BoundsAssumption == MaxData \in Nat /\ MaxClock \in Nat /\ MaxBehind \in Nat

VARIABLES
    collectQueue,  \* CollectQueue: the data from first to last
    collectMutex,  \* CollectQueue.mutex: its owner, or Free
    sdQueue,       \* SDElementQueue: the elements from first to last
    sdMutex,       \* SDElementQueue.mutex: its owner, or Free
    pc,            \* where the format and the sender thread are
    poped,         \* popedElement, a local of each of the two pop functions
    last,          \* lastElement, a local of each call of pushSDElementQueue
    addonPC,       \* where each addon thread is
    signum,        \* 0 until the signal handler stores a signal number
    msgID,         \* SenderParams.msgID
    tmpTime,       \* static tmpTime of heartBeat
    collectTime,   \* local collectTime of heartBeat
    clock,         \* the time that has passed, in seconds
    behind,        \* how far time(2) is behind it, after somebody has set it
    accepted,      \* history: how many data were linked in the collect queue
    attempted,     \* history: the last datum given to sendMessage
    wire           \* history: the last call of sendMessage

queueVars == <<collectQueue, sdQueue>>
mutexVars == <<collectMutex, sdMutex>>
localVars == <<poped, last>>
senderVars == <<msgID, tmpTime, collectTime>>
envVars == <<addonPC, signum, clock, behind>>
historyVars == <<accepted, attempted, wire>>
vars == <<queueVars, mutexVars, pc, localVars, senderVars, envVars, historyVars>>

-----------------------------------------------------------------------------
Free == "free"
Null == -1           \* the null pointer
Heartbeat == 0       \* the SD-Element with the empty afterOffset

Threads == {"format", "sender"}

PushPC == {"pushLock", "pushWalk", "pushLink", "pushUnlock"}
FormatPC == {"while", "peek", "popLock", "popTest", "pop", "popUnlock",
             "sleep", "exited"} \cup PushPC
SenderPC == {"while", "time", "heartbeat", "peek", "popLock", "popTest", "send",
             "pop", "popUnlock", "wrap", "sleep", "exited"} \cup PushPC

Elements == Nat \cup {Null}

Init ==
    /\ collectQueue = <<>> /\ collectMutex = Free
    /\ sdQueue = <<>> /\ sdMutex = Free
    /\ pc = [t \in Threads |-> "while"]
    /\ poped = [t \in Threads |-> Null]
    /\ last = [t \in Threads |-> Null]
    /\ addonPC = [a \in Addons |-> "idle"]
    /\ signum = 0
    /\ msgID = 0 /\ tmpTime = 0 /\ collectTime = 0
    /\ clock = 1 /\ behind = 0
    /\ accepted = 0 /\ attempted = 0
    /\ wire = [id |-> 0, elem |-> Null, at |-> 0]

Goto(self, to) == pc' = [pc EXCEPT ![self] = to]

Holds(q, e) == \E i \in DOMAIN q : q[i] = e
Position(q, e) == CHOOSE i \in DOMAIN q : q[i] = e

\* What the list is after first = e->next: all that follows e.
After(q, e) == IF Holds(q, e) THEN SubSeq(q, Position(q, e) + 1, Len(q)) ELSE <<>>

\* What the list is after new is linked where the walk ended: as the first
\* element if the walk found no element, else as the successor of the element
\* it found (whatever was linked there in the meantime is cut off, and new is
\* out of reach when that element has left the list).
Link(q, found, new) ==
    IF found = Null THEN <<new>>
    ELSE IF Holds(q, found) THEN Append(SubSeq(q, 1, Position(q, found)), new)
    ELSE q

-----------------------------------------------------------------------------
(* pushSDElementQueue, called by popCollectQueue with the element in hand and *)
(* by heartBeat with an empty one.                                            *)

\* Faults: the heartbeat takes the pointer of the last pop; format pushes an
\* element with no content.
StalePointer(self) == poped[self]
EmptyElement(self) == Heartbeat

NewElement(self) == IF self = "format" THEN poped["format"] ELSE Heartbeat

\* Fault: no pthread_mutex_lock in pushSDElementQueue.
PushWithoutLock(self) ==
    /\ pc[self] = "pushLock"
    /\ sdMutex' = self
    /\ Goto(self, "pushWalk")
    /\ UNCHANGED <<queueVars, collectMutex, localVars, senderVars, envVars, historyVars>>

PushLock(self) ==
    /\ pc[self] = "pushLock"
    /\ sdMutex = Free
    /\ sdMutex' = self
    /\ Goto(self, "pushWalk")
    /\ UNCHANGED <<queueVars, collectMutex, localVars, senderVars, envVars, historyVars>>

\* Fault: no walk, the new element is linked after the first.
PushAfterFirst(self) ==
    /\ pc[self] = "pushWalk"
    /\ last' = [last EXCEPT ![self] = IF sdQueue = <<>> THEN Null ELSE Head(sdQueue)]
    /\ Goto(self, "pushLink")
    /\ UNCHANGED <<queueVars, mutexVars, poped, senderVars, envVars, historyVars>>

PushWalk(self) ==
    /\ pc[self] = "pushWalk"
    /\ last' = [last EXCEPT ![self] =
                    IF sdQueue = <<>> THEN Null ELSE sdQueue[Len(sdQueue)]]
    /\ Goto(self, "pushLink")
    /\ UNCHANGED <<queueVars, mutexVars, poped, senderVars, envVars, historyVars>>

PushLink(self) ==
    /\ pc[self] = "pushLink"
    /\ sdQueue' = Link(sdQueue, last[self], NewElement(self))
    /\ Goto(self, "pushUnlock")
    /\ UNCHANGED <<collectQueue, mutexVars, localVars, senderVars, envVars, historyVars>>

\* Fault: pushSDElementQueue returns with the mutex in hand.
PushReturn(self) ==
    /\ pc[self] = "pushUnlock"
    /\ Goto(self, IF self = "format" THEN "pop" ELSE "peek")
    /\ tmpTime' = IF self = "sender" THEN collectTime ELSE tmpTime
    /\ UNCHANGED <<queueVars, mutexVars, localVars, msgID, collectTime, envVars, historyVars>>

\* The unlock and the return: to the pop for format, and for the sender to
\* heartBeat, which remembers the time of this heartbeat.
PushUnlock(self) ==
    /\ pc[self] = "pushUnlock"
    /\ sdMutex' = Free
    /\ Goto(self, IF self = "format" THEN "pop" ELSE "peek")
    /\ tmpTime' = IF self = "sender" THEN collectTime ELSE tmpTime
    /\ UNCHANGED <<queueVars, collectMutex, localVars, msgID, collectTime, envVars,
                   historyVars>>

PushSDElementQueue(self) ==
    PushLock(self) \/ PushWalk(self) \/ PushLink(self) \/ PushUnlock(self)

-----------------------------------------------------------------------------
(* The format thread: format and popCollectQueue. *)

FormatWhile ==
    /\ pc["format"] = "while"
    /\ Goto("format", IF signum = 0 THEN "peek" ELSE "exited")
    /\ UNCHANGED <<queueVars, mutexVars, localVars, senderVars, envVars, historyVars>>

\* Fault: the inner loop tests first->next, and leaves the last element.
PeekNext ==
    /\ pc["format"] = "peek"
    /\ Goto("format", IF Len(collectQueue) > 1 THEN "popLock" ELSE "sleep")
    /\ UNCHANGED <<queueVars, mutexVars, localVars, senderVars, envVars, historyVars>>

\* The condition of the inner loop, read with no mutex held.
FormatPeek ==
    /\ pc["format"] = "peek"
    /\ Goto("format", IF collectQueue # <<>> THEN "popLock" ELSE "sleep")
    /\ UNCHANGED <<queueVars, mutexVars, localVars, senderVars, envVars, historyVars>>

\* Fault: after the sleep signum is not read again.
SleepInInnerLoop ==
    /\ pc["format"] = "sleep"
    /\ Goto("format", "peek")
    /\ UNCHANGED <<queueVars, mutexVars, localVars, senderVars, envVars, historyVars>>

FormatSleep ==
    /\ pc["format"] = "sleep"
    /\ Goto("format", "while")
    /\ UNCHANGED <<queueVars, mutexVars, localVars, senderVars, envVars, historyVars>>

PopCollectLock ==
    /\ pc["format"] = "popLock"
    /\ collectMutex = Free
    /\ collectMutex' = "format"
    /\ Goto("format", "popTest")
    /\ UNCHANGED <<queueVars, sdMutex, localVars, senderVars, envVars, historyVars>>

\* Fault: the element leaves the list as soon as it is read.
RemoveFirst ==
    /\ pc["format"] = "popTest"
    /\ IF collectQueue = <<>>
       THEN Goto("format", "popUnlock") /\ UNCHANGED <<collectQueue, poped>>
       ELSE /\ poped' = [poped EXCEPT !["format"] = Head(collectQueue)]
            /\ collectQueue' = Tail(collectQueue)
            /\ Goto("format", "pushLock")
    /\ UNCHANGED <<sdQueue, mutexVars, last, senderVars, envVars, historyVars>>

PopCollectTest ==
    /\ pc["format"] = "popTest"
    /\ IF collectQueue = <<>>
       THEN Goto("format", "popUnlock") /\ UNCHANGED poped
       ELSE /\ poped' = [poped EXCEPT !["format"] = Head(collectQueue)]
            /\ Goto("format", "pushLock")
    /\ UNCHANGED <<queueVars, mutexVars, last, senderVars, envVars, historyVars>>

PopCollectRemove ==
    /\ pc["format"] = "pop"
    /\ collectQueue' = After(collectQueue, poped["format"])
    /\ Goto("format", "popUnlock")
    /\ UNCHANGED <<sdQueue, mutexVars, localVars, senderVars, envVars, historyVars>>

PopCollectUnlock ==
    /\ pc["format"] = "popUnlock"
    /\ collectMutex' = Free
    /\ Goto("format", "peek")
    /\ UNCHANGED <<queueVars, sdMutex, localVars, senderVars, envVars, historyVars>>

PopCollectQueue ==
    PopCollectLock \/ PopCollectTest \/ PopCollectRemove \/ PopCollectUnlock

Format == FormatWhile \/ FormatPeek \/ FormatSleep \/ PopCollectQueue

-----------------------------------------------------------------------------
(* The sender thread: sender, heartBeat and popSDElementQueue. *)

SenderWhile ==
    /\ pc["sender"] = "while"
    /\ Goto("sender", IF signum = 0 THEN "time" ELSE "exited")
    /\ UNCHANGED <<queueVars, mutexVars, localVars, senderVars, envVars, historyVars>>

HeartBeatTime ==
    /\ pc["sender"] = "time"
    /\ collectTime' = clock - behind
    /\ Goto("sender", "heartbeat")
    /\ UNCHANGED <<queueVars, mutexVars, localVars, msgID, tmpTime, envVars, historyVars>>

\* Fault: tmpTime moves in every round, not only when there are data.
TimeOfRound ==
    /\ pc["sender"] = "heartbeat"
    /\ LET idle == sdQueue = <<>> \/ tmpTime = 0
           due  == tmpTime = 0 \/ collectTime - tmpTime > HEARTBEAT
       IN  Goto("sender", IF idle /\ due THEN "pushLock" ELSE "peek")
    /\ tmpTime' = collectTime
    /\ UNCHANGED <<queueVars, mutexVars, localVars, msgID, collectTime, envVars,
                   historyVars>>

\* The test of heartBeat, reading the head of the list with no mutex held.
HeartBeatTest ==
    /\ pc["sender"] = "heartbeat"
    /\ LET idle == sdQueue = <<>> \/ tmpTime = 0
           due  == tmpTime = 0 \/ collectTime - tmpTime > HEARTBEAT
       IN  /\ Goto("sender", IF idle /\ due THEN "pushLock" ELSE "peek")
           /\ tmpTime' = IF idle THEN tmpTime ELSE collectTime
    /\ UNCHANGED <<queueVars, mutexVars, localVars, msgID, collectTime, envVars,
                   historyVars>>

HeartBeat == HeartBeatTime \/ HeartBeatTest

\* Faults: a do ... while; the identifier is taken before the test.
PopWithoutPeek ==
    /\ pc["sender"] = "peek"
    /\ Goto("sender", "popLock")
    /\ msgID' = (msgID + 1) % (MsgIDMax + 1)
    /\ UNCHANGED <<queueVars, mutexVars, localVars, tmpTime, collectTime, envVars,
                   historyVars>>
CountBeforePeek ==
    /\ pc["sender"] = "peek"
    /\ Goto("sender", IF sdQueue # <<>> THEN "popLock" ELSE "sleep")
    /\ msgID' = (msgID + 1) % (MsgIDMax + 1)
    /\ UNCHANGED <<queueVars, mutexVars, localVars, tmpTime, collectTime, envVars,
                   historyVars>>

\* The condition of the inner loop, read with no mutex held; the identifier
\* is taken before the mutex, and the addition is that of an unsigned short.
SenderPeek ==
    /\ pc["sender"] = "peek"
    /\ IF sdQueue # <<>>
       THEN Goto("sender", "popLock") /\ msgID' = (msgID + 1) % (MsgIDMax + 1)
       ELSE Goto("sender", "sleep") /\ UNCHANGED msgID
    /\ UNCHANGED <<queueVars, mutexVars, localVars, tmpTime, collectTime, envVars,
                   historyVars>>

SenderSleep ==
    /\ pc["sender"] = "sleep"
    /\ Goto("sender", "while")
    /\ UNCHANGED <<queueVars, mutexVars, localVars, senderVars, envVars, historyVars>>

\* Fault: the identifier is left to the overflow of the unsigned short.
NoReset ==
    /\ pc["sender"] = "wrap"
    /\ Goto("sender", "peek")
    /\ UNCHANGED <<queueVars, mutexVars, localVars, senderVars, envVars, historyVars>>

SenderWrap ==
    /\ pc["sender"] = "wrap"
    /\ msgID' = IF msgID = MsgIDMax THEN 0 ELSE msgID
    /\ Goto("sender", "peek")
    /\ UNCHANGED <<queueVars, mutexVars, localVars, tmpTime, collectTime, envVars,
                   historyVars>>

PopSDElementLock ==
    /\ pc["sender"] = "popLock"
    /\ sdMutex = Free
    /\ sdMutex' = "sender"
    /\ Goto("sender", "popTest")
    /\ UNCHANGED <<queueVars, collectMutex, localVars, senderVars, envVars, historyVars>>

PopSDElementTest ==
    /\ pc["sender"] = "popTest"
    /\ IF sdQueue = <<>>
       THEN Goto("sender", "popUnlock") /\ UNCHANGED poped
       ELSE /\ poped' = [poped EXCEPT !["sender"] = Head(sdQueue)]
            /\ Goto("sender", "send")
    /\ UNCHANGED <<queueVars, mutexVars, last, senderVars, envVars, historyVars>>

\* The call of sendMessage, with the mutex held.  Its result is not used:
\* sent or failed, what follows is the same.
PopSDElementSend ==
    /\ pc["sender"] = "send"
    /\ wire' = [id |-> msgID, elem |-> poped["sender"], at |-> clock]
    /\ attempted' = IF poped["sender"] = Heartbeat THEN attempted ELSE poped["sender"]
    /\ Goto("sender", "pop")
    /\ UNCHANGED <<queueVars, mutexVars, localVars, senderVars, envVars, accepted>>

PopSDElementRemove ==
    /\ pc["sender"] = "pop"
    /\ sdQueue' = After(sdQueue, poped["sender"])
    /\ Goto("sender", "popUnlock")
    /\ UNCHANGED <<collectQueue, mutexVars, localVars, senderVars, envVars, historyVars>>

PopSDElementUnlock ==
    /\ pc["sender"] = "popUnlock"
    /\ sdMutex' = Free
    /\ Goto("sender", "wrap")
    /\ UNCHANGED <<queueVars, collectMutex, localVars, senderVars, envVars, historyVars>>

PopSDElementQueue ==
    \/ PopSDElementLock \/ PopSDElementTest \/ PopSDElementSend
    \/ PopSDElementRemove \/ PopSDElementUnlock

Sender == SenderWhile \/ HeartBeat \/ SenderPeek \/ PopSDElementQueue \/ SenderWrap \/ SenderSleep

-----------------------------------------------------------------------------
(* The environment: the addon threads (external), the signal that stops the  *)
(* probe, and time.  An addon is cancelled between two calls of              *)
(* pushCollectQueue, never while it holds the mutex.                         *)

AddonLock(a) ==
    /\ addonPC[a] = "idle"
    /\ accepted < MaxData
    /\ collectMutex = Free
    /\ collectMutex' = a
    /\ addonPC' = [addonPC EXCEPT ![a] = "push"]
    /\ UNCHANGED <<queueVars, sdMutex, pc, localVars, senderVars, signum, clock, behind,
                   historyVars>>

AddonPush(a) ==
    /\ addonPC[a] = "push"
    /\ collectQueue' = Append(collectQueue, accepted + 1)
    /\ accepted' = accepted + 1
    /\ addonPC' = [addonPC EXCEPT ![a] = "unlock"]
    /\ UNCHANGED <<sdQueue, mutexVars, pc, localVars, senderVars, signum, clock, behind,
                   attempted, wire>>

AddonUnlock(a) ==
    /\ addonPC[a] = "unlock"
    /\ collectMutex' = Free
    /\ addonPC' = [addonPC EXCEPT ![a] = "idle"]
    /\ UNCHANGED <<queueVars, sdMutex, pc, localVars, senderVars, signum, clock, behind,
                   historyVars>>

AddonCancelled(a) ==
    /\ addonPC[a] = "idle"
    /\ signum # 0
    /\ addonPC' = [addonPC EXCEPT ![a] = "cancelled"]
    /\ UNCHANGED <<queueVars, mutexVars, pc, localVars, senderVars, signum, clock, behind,
                   historyVars>>

Addon(a) == AddonLock(a) \/ AddonPush(a) \/ AddonUnlock(a) \/ AddonCancelled(a)

Signal ==
    /\ signum = 0
    /\ signum' = 1
    /\ UNCHANGED <<queueVars, mutexVars, pc, localVars, senderVars, addonPC, clock, behind,
                   historyVars>>

Tick ==
    /\ clock < MaxClock
    /\ clock' = clock + 1
    /\ UNCHANGED <<queueVars, mutexVars, pc, localVars, senderVars, addonPC, signum, behind,
                   historyVars>>

\* The system's clock is set, back or forward again; it is never ahead.
SetClock ==
    /\ behind' \in 0 .. MaxBehind
    /\ behind' < clock
    /\ UNCHANGED <<queueVars, mutexVars, pc, localVars, senderVars, addonPC, signum, clock,
                   historyVars>>

\* Every thread has ended: the only state in which nothing more happens.
Terminated ==
    /\ \A t \in Threads : pc[t] = "exited"
    /\ \A a \in Addons : addonPC[a] = "cancelled"
    /\ UNCHANGED vars

Next ==
    \/ \E t \in Threads : PushSDElementQueue(t)
    \/ Format
    \/ Sender
    \/ \E a \in Addons : Addon(a)
    \/ Signal
    \/ Tick
    \/ SetClock
    \/ Terminated

Spec == Init /\ [][Next]_vars

\* The threads run and calls return (a network call that never returned would
\* be a different system).  A mutex is strongly fair to the threads waiting
\* for it: the sender sleeps a second between two rounds, format holds the
\* collect mutex for one element at a time, and glibc wakes a waiter at each
\* unlock.
Fairness ==
    /\ WF_vars(Format) /\ SF_vars(PopCollectLock)
    /\ WF_vars(Sender) /\ SF_vars(PopSDElementLock)
    /\ \A t \in Threads : WF_vars(PushSDElementQueue(t)) /\ SF_vars(PushLock(t))
    /\ \A a \in Addons : WF_vars(AddonPush(a) \/ AddonUnlock(a)) /\ WF_vars(AddonCancelled(a))

FairSpec == Spec /\ Fairness

-----------------------------------------------------------------------------
(* Properties *)

\* Type invariant: what each variable of the two threads, of the queues and
\* of the environment may hold.
TypeOK ==
    /\ collectQueue \in Seq(Nat) /\ sdQueue \in Seq(Nat)
    /\ collectMutex \in Addons \cup {"format", Free}
    /\ sdMutex \in Threads \cup {Free}
    /\ pc \in [Threads -> FormatPC \cup SenderPC]
    /\ pc["format"] \in FormatPC /\ pc["sender"] \in SenderPC
    /\ poped \in [Threads -> Elements] /\ last \in [Threads -> Elements]
    /\ addonPC \in [Addons -> {"idle", "push", "unlock", "cancelled"}]
    /\ signum \in {0, 1}
    /\ msgID \in 0 .. MsgIDMax
    /\ tmpTime \in Nat /\ collectTime \in Nat
    /\ clock \in Nat \ {0} /\ behind \in 0 .. clock - 1
    /\ accepted \in Nat /\ attempted \in Nat
    /\ wire \in [id : 0 .. MsgIDMax, elem : Elements, at : Nat]

\* No datum disappears between the addons and the network: each datum that
\* was accepted and not yet handed to sendMessage is linked in the collect
\* queue or in the SD-Element queue (popCollectQueue links it in the second
\* before it unlinks it from the first).
NoDatumLost ==
    \A n \in attempted + 1 .. accepted : Holds(collectQueue, n) \/ Holds(sdQueue, n)

\* The pointer pushSDElementQueue found by walking the list still is its last
\* element when the new one is linked, so no element linked by the other
\* pusher is cut off (lines 61-74 of format.c).
TailInHand ==
    \A t \in Threads : pc[t] = "pushLink" =>
        last[t] = IF sdQueue = <<>> THEN Null ELSE sdQueue[Len(sdQueue)]

\* The element a consumer read as the first still is the first when it sets
\* first to its successor, however long the formatting or the sending took.
HeadInHand ==
    /\ pc["format"] \in PushPC \cup {"pop"} =>
           collectQueue # <<>> /\ Head(collectQueue) = poped["format"]
    /\ pc["sender"] \in {"send", "pop"} =>
           sdQueue # <<>> /\ Head(sdQueue) = poped["sender"]

\* What the unlocked look at first != NULL saw is still true when the mutex
\* is taken: no call of a pop function finds an empty queue, so no message
\* identifier is taken without a message.
PeekIsStable ==
    /\ pc["format"] \in {"popLock", "popTest"} => collectQueue # <<>>
    /\ pc["sender"] \in {"popLock", "popTest"} => sdQueue # <<>>

\* Heartbeats never pile up: the SD-Element queue holds at most one, although
\* heartBeat looks at the queue before it pushes and format pushes meanwhile.
AtMostOneHeartbeat ==
    \A i, j \in DOMAIN sdQueue :
        sdQueue[i] = Heartbeat /\ sdQueue[j] = Heartbeat => i = j

\* When the sender goes to sleep, the last message is at most HEARTBEAT
\* seconds older than the time heartBeat read in this round: the Engine is
\* not left longer without a message, whatever mix of data and heartbeats
\* was sent and whichever branch of heartBeat was taken.  A clock that was
\* set back adds to the silence what it is behind, and no more: the bound
\* is between the time read and the real time of the message.
SilenceBound ==
    pc["sender"] = "sleep" => collectTime - wire.at <= HEARTBEAT

\* What a shutdown leaves behind: when both threads have left, no mutex is in
\* their hands, and the queues hold the data that were not attempted and no
\* others, each in one queue, those in the SD-Element queue the older ones.
\* Nothing is half done, though a signal may come at any step.
LeftBehind ==
    (\A t \in Threads : pc[t] = "exited") =>
        /\ sdMutex = Free /\ collectMutex # "format"
        /\ \E formatted \in attempted .. accepted :
              \A n \in 1 .. accepted :
                  /\ Holds(sdQueue, n) <=> n \in attempted + 1 .. formatted
                  /\ Holds(collectQueue, n) <=> n \in formatted + 1 .. accepted

\* Nobody waits in a circle: who holds the SD-Element mutex waits for nothing,
\* though popCollectQueue asks for it with the collect mutex in hand and the
\* sender holds it during an exchange; who holds the collect mutex waits for
\* nothing, or for the sender.
Runs(t) ==
    /\ pc[t] # "exited"
    /\ pc[t] = "pushLock" => sdMutex = Free
    /\ pc[t] = "popLock" => (IF t = "format" THEN collectMutex ELSE sdMutex) = Free
NoCircularWait ==
    /\ \A t \in Threads : sdMutex = t => Runs(t)
    /\ collectMutex = "format" =>
           Runs("format") \/ (pc["format"] = "pushLock" /\ sdMutex = "sender" /\ Runs("sender"))
    /\ \A a \in Addons : collectMutex = a => addonPC[a] \in {"push", "unlock"}

\* The two threads keep their part of Shutdown: they leave after a signal was
\* stored, whatever they were doing when it came, and stay away.
S == INSTANCE Shutdown WITH
         Workers <- Threads, requested <- signum # 0,
         gone <- {t \in Threads : pc[t] = "exited"}, cleaned <- FALSE
LeavesAsAgreed == S!Spec

\* The threads, queues and mutexes implement the abstract promise: each datum
\* attempted once and in order, message identifiers cyclic without gap.
D == INSTANCE Delivery WITH lastElem <- wire.elem, lastID <- wire.id
ImplementsDelivery == D!Spec

\* Unless the probe is stopped, each datum an addon handed over is eventually
\* given to the network, although its path takes two mutexes, one of them
\* while holding the other.
EveryDatumAttempted ==
    \A n \in 1 .. MaxData : accepted >= n ~> (attempted >= n \/ signum # 0)

\* Once a signal is stored both worker threads end, so main's joins return.
ShutdownCompletes ==
    signum # 0 ~> \A t \in Threads : pc[t] = "exited"
-----------------------------------------------------------------------------
(* The inductive invariant behind the safety properties (PipelineProof). *)

\* Who owns which mutex, from where each thread is.
HoldsCollect == PushPC \cup {"popTest", "pop", "popUnlock"}
FormatHoldsSD == {"pushWalk", "pushLink", "pushUnlock"}
SenderHoldsSD == FormatHoldsSD \cup {"popTest", "send", "pop", "popUnlock"}

LockInv ==
    /\ pc["format"] \in HoldsCollect <=> collectMutex = "format"
    /\ pc["format"] \in FormatHoldsSD <=> sdMutex = "format"
    /\ pc["sender"] \in SenderHoldsSD <=> sdMutex = "sender"
    /\ \A a \in Addons : addonPC[a] \in {"push", "unlock"} <=> collectMutex = a

\* How many data have left the collect queue, entered the SD-Element queue and
\* left it.
Collected == accepted - Len(collectQueue)
Formatted == IF pc["format"] \in {"pushUnlock", "pop"} THEN Collected + 1 ELSE Collected
Removed == IF pc["sender"] = "pop" /\ poped["sender"] # Heartbeat
           THEN attempted - 1 ELSE attempted

\* The collect queue holds the data after the first Collected, in order.
CollectInv ==
    /\ Len(collectQueue) <= accepted
    /\ \A i \in 1 .. Len(collectQueue) : collectQueue[i] = Collected + i

\* q holds exactly the data out + 1 .. in, in order, and at most one heartbeat.
Contents(q, out, in) ==
    /\ \A i \in 1 .. Len(q) : q[i] = Heartbeat \/ q[i] \in out + 1 .. in
    /\ \A n \in out + 1 .. in : \E i \in 1 .. Len(q) : q[i] = n
    /\ \A i, j \in 1 .. Len(q) : i < j /\ q[i] # Heartbeat /\ q[j] # Heartbeat => q[i] < q[j]
    /\ \A i, j \in 1 .. Len(q) : q[i] = Heartbeat /\ q[j] = Heartbeat => i = j

\* The SD-Element queue holds what was formatted and not yet removed; the
\* heartbeat of a round is gone before the next one is pushed.
SDInv ==
    /\ Removed \in Nat /\ attempted \in Removed .. Formatted
    /\ Contents(sdQueue, Removed, Formatted)
    /\ pc["sender"] \in {"while", "time", "heartbeat", "pushLock", "pushWalk", "pushLink",
                         "sleep", "exited"} => ~ Holds(sdQueue, Heartbeat)

\* The identifier about to be used, or used last, against the last one used.
IDInv ==
    msgID = CASE pc["sender"] \in {"popLock", "popTest", "send"} -> (wire.id % MsgIDMax) + 1
              [] pc["sender"] \in {"pop", "popUnlock", "wrap"} -> wire.id
              [] OTHER -> wire.id % MsgIDMax

\* tmpTime is a time at or after which a message was sent, or is about to be.
SilenceInv ==
    /\ tmpTime <= clock /\ collectTime <= clock
    /\ tmpTime <= wire.at \/ sdQueue # <<>>
    /\ pc["sender"] \in {"pop", "popUnlock", "wrap", "sleep", "exited", "while", "time"} =>
           tmpTime <= wire.at
    /\ pc["sender"] = "pushUnlock" => sdQueue # <<>>
    /\ pc["sender"] \in {"peek", "popLock", "popTest", "send", "pop", "popUnlock",
                         "wrap", "sleep"} =>
           collectTime - tmpTime <= HEARTBEAT

IInv ==
    /\ TypeOK /\ LockInv /\ HeadInHand /\ TailInHand /\ PeekIsStable
    /\ CollectInv /\ SDInv /\ IDInv /\ SilenceInv

=============================================================================
