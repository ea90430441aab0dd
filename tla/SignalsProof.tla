---------------------------- MODULE SignalsProof ----------------------------
(***************************************************************************)
(* Theorems about Signals, for any number of addon threads and of signals. *)
(***************************************************************************)
EXTENDS Signals, SequenceTheorems, TLAPS

-----------------------------------------------------------------------------
(* The stacks of handlers *)

StackType == stack \in [Threads -> Seq(Frames)]

\* What a stack holds.
LEMMA StackFacts ==
    ASSUME StackType, NEW t \in Threads
    PROVE  /\ stack[t] \in Seq(Frames) /\ Len(stack[t]) \in Nat
           /\ DOMAIN stack[t] = 1 .. Len(stack[t])
           /\ \A k \in 1 .. Len(stack[t]) : stack[t][k] \in Frames
           /\ stack[t] # <<>> <=> Len(stack[t]) \in 1 .. Len(stack[t])
<1>1. stack[t] \in Seq(Frames)
  BY DEF StackType
<1>2. /\ Len(stack[t]) \in Nat /\ DOMAIN stack[t] = 1 .. Len(stack[t])
      /\ \A k \in 1 .. Len(stack[t]) : stack[t][k] \in Frames
  BY <1>1, LenProperties, ElementOfSeq
<1>3. stack[t] # <<>> => Len(stack[t]) \in Nat \ {0}
  BY <1>1, EmptySeq
<1>4. stack[t] = <<>> => Len(stack[t]) = 0
  BY EmptySeq
<1> QED
  BY <1>1, <1>2, <1>3, <1>4

\* A handler returns to the code it interrupted: the frames below it stay.
LEMMA ReturnFacts ==
    ASSUME StackType, NEW t \in Threads, stack[t] # <<>>,
           stack' = [stack EXCEPT ![t] = SubSeq(@, 1, Len(@) - 1)]
    PROVE  /\ StackType'
           /\ \A u \in Threads \ {t} : stack'[u] = stack[u]
           /\ Len(stack'[t]) = Len(stack[t]) - 1
           /\ \A k \in 1 .. Len(stack[t]) - 1 : stack'[t][k] = stack[t][k]
<1>1. Len(stack[t]) \in Nat \ {0} /\ \A k \in 1 .. Len(stack[t]) : stack[t][k] \in Frames
  BY StackFacts
<1> DEFINE rest == SubSeq(stack[t], 1, Len(stack[t]) - 1)
<1>2. /\ rest \in Seq(Frames) /\ Len(rest) = Len(stack[t]) - 1
      /\ \A k \in 1 .. Len(stack[t]) - 1 : rest[k] = stack[t][k]
  <2>1. /\ 1 \in Int /\ Len(stack[t]) - 1 \in Int
        /\ \A k \in 1 .. Len(stack[t]) - 1 : stack[t][k] \in Frames
    BY <1>1
  <2>2. /\ rest \in Seq(Frames)
        /\ Len(rest) = IF 1 <= Len(stack[t]) - 1 THEN Len(stack[t]) - 1 - 1 + 1 ELSE 0
        /\ \A k \in 1 .. Len(stack[t]) - 1 - 1 + 1 : rest[k] = stack[t][1 + k - 1]
    BY <2>1, SubSeqProperties
  <2> QED
    BY <1>1, <2>2
<1> HIDE DEF rest
<1>3. stack' = [stack EXCEPT ![t] = rest]
  BY DEF rest
<1>4. stack'[t] = rest /\ \A u \in Threads \ {t} : stack'[u] = stack[u]
  BY <1>3 DEF StackType
<1>5. StackType'
  BY <1>2, <1>3 DEF StackType
<1> QED
  BY <1>2, <1>4, <1>5

\* A handler goes on: its own frame changes.
LEMMA ContinueFacts ==
    ASSUME StackType, NEW t \in Threads, stack[t] # <<>>,
           NEW point \in Points,
           NEW n \in 0 .. Len(AddonsThreads) + 1, Continue(t, point, n)
    PROVE  /\ StackType'
           /\ \A u \in Threads \ {t} : stack'[u] = stack[u]
           /\ Len(stack'[t]) = Len(stack[t])
           /\ \A k \in 1 .. Len(stack[t]) :
                 stack'[t][k] = IF k = Len(stack[t]) THEN [sig |-> Top(t).sig, at |-> point, i |-> n]
                                ELSE stack[t][k]
<1> DEFINE top == [sig |-> Top(t).sig, at |-> point, i |-> n]
           changed == [stack[t] EXCEPT ![Len(stack[t])] = top]
<1>1. stack[t] \in Seq(Frames) /\ Len(stack[t]) \in 1 .. Len(stack[t])
  BY StackFacts
<1>2. top \in Frames
  <2>1. Top(t) \in Frames
    BY StackFacts DEF Top
  <2> QED
    BY <2>1 DEF Frames
<1>3. stack' = [stack EXCEPT ![t] = changed]
  BY DEF Continue
<1> HIDE DEF top
<1>4. /\ changed \in Seq(Frames) /\ Len(changed) = Len(stack[t])
      /\ \A k \in 1 .. Len(stack[t]) : changed[k] = IF k = Len(stack[t]) THEN top ELSE stack[t][k]
  BY <1>1, <1>2, ExceptSeq
<1> HIDE DEF changed
<1>5. stack'[t] = changed /\ \A u \in Threads \ {t} : stack'[u] = stack[u]
  BY <1>3 DEF StackType
<1>6. StackType'
  BY <1>3, <1>4 DEF StackType
<1> QED
  BY <1>4, <1>5, <1>6 DEF top

\* A signal is delivered: a frame is added on top.
LEMMA PushFacts ==
    ASSUME StackType, NEW t \in Threads, NEW s \in Sigs,
           stack' = [stack EXCEPT ![t] = Append(@, [sig |-> s, at |-> "log", i |-> 0])]
    PROVE  /\ StackType'
           /\ \A u \in Threads \ {t} : stack'[u] = stack[u]
           /\ Len(stack'[t]) = Len(stack[t]) + 1
           /\ \A k \in 1 .. Len(stack[t]) : stack'[t][k] = stack[t][k]
           /\ stack'[t][Len(stack[t]) + 1].at = "log"
<1> DEFINE top == [sig |-> s, at |-> "log", i |-> 0]
           changed == Append(stack[t], top)
<1>1. stack[t] \in Seq(Frames)
  BY StackFacts
<1>2. Len(AddonsThreads) \in Nat
  BY SignalsAssumption, LenProperties
<1>3. top \in Frames /\ top.at = "log"
  BY <1>2 DEF Frames, Points
<1>4. stack' = [stack EXCEPT ![t] = changed]
  OBVIOUS
<1> HIDE DEF top
<1>5. /\ changed \in Seq(Frames) /\ Len(changed) = Len(stack[t]) + 1
      /\ \A k \in 1 .. Len(stack[t]) : changed[k] = stack[t][k]
      /\ changed[Len(stack[t]) + 1] = top
  BY <1>1, <1>3, AppendProperties
<1> HIDE DEF changed
<1>6. stack'[t] = changed /\ \A u \in Threads \ {t} : stack'[u] = stack[u]
  BY <1>4 DEF StackType
<1>7. StackType'
  BY <1>4, <1>5 DEF StackType
<1> QED
  BY <1>3, <1>5, <1>6, <1>7

-----------------------------------------------------------------------------
(* The inductive invariant *)

Frame(t, k) == stack[t][k]
Walking(t, k) == Frame(t, k).at \in {"cancel", "refault"}

\* A walk over addonsThreads has cancelled what is behind it, and a stored
\* signal has a walk under way or over.
WalkInv ==
    /\ \A t \in Threads : \A k \in 1 .. Len(stack[t]) :
          Walking(t, k) => /\ Frame(t, k).i >= 1
                           /\ \A j \in 1 .. Frame(t, k).i - 1 : AddonsThreads[j] \in cancelled
    /\ \/ signum = 0
       \/ cancelled = Addons
       \/ \E t \in Threads : \E k \in 1 .. Len(stack[t]) : Walking(t, k)

\* How far main is, and what that took.
MainInv ==
    /\ pcMain \in {"setSignum", "setIds", "joinFormat", "joinSender"} \cup Joined => registered = Handled
    /\ pcMain \notin Starting => globals # 0
    /\ globals = 1 => pcMain = "setIds"
    /\ Workers \cap ended # {} => signum # 0
    /\ pcMain \in {"joinSender"} \cup Joined => "format" \in ended
    /\ pcMain \in Joined => "sender" \in ended
    /\ pcMain \in Joined \ {"read"} => result # 0
    /\ process = "killed" /\ killer \in Handled => pcMain \in Starting \cup {"setIds"}

\* Where a handler is that never comes to the walk.
Harmless == {"log", "test", "faulting", "hung"}

\* A worker that ended has no handler, and one of main that starts after the
\* addons' array was freed does not come to the walk.
FreedInv ==
    /\ \A t \in ended \ Addons : stack[t] = <<>>
    /\ freed => /\ pcMain \in {"decide", "restart"}
                /\ \A k \in 1 .. Len(stack["main"]) : Frame("main", k).at \in Harmless

SignalsInv == TypeOK /\ WalkInv /\ MainInv /\ FreedInv

LEMMA InitSignalsInv == Init => SignalsInv
<1> SUFFICES ASSUME Init PROVE SignalsInv
  OBVIOUS
<1>1. \A t \in Threads : stack[t] = <<>> /\ Len(stack[t]) = 0
  BY EmptySeq DEF Init
<1>2. TypeOK
  <2>1. stack \in [Threads -> Seq(Frames)]
    BY EmptySeq DEF Init
  <2>2. "loadConf" \in MainPC
    BY DEF MainPC, Starting, Starts
  <2>3. started \subseteq Threads /\ cancelled \subseteq Addons /\ ended \subseteq Threads
    BY DEF Init, Threads
  <2>4. tries \in 0 .. MaxTries /\ globals \in 0 .. 2
    BY DEF Init, MaxTries
  <2> QED
    BY <2>1, <2>2, <2>3, <2>4 DEF Init, TypeOK
<1>3. WalkInv
  BY <1>1 DEF Init, WalkInv
<1>4. MainInv
  BY DEF Init, MainInv, Starting, Starts, Joined
<1>5. FreedInv
  BY DEF Init, FreedInv
<1> QED
  BY <1>2, <1>3, <1>4, <1>5 DEF SignalsInv

-----------------------------------------------------------------------------
(* Each action keeps the invariant. *)

\* The names of main and of the workers are no addon's.
LEMMA ThreadNames ==
    /\ "main" \in Threads /\ Workers \subseteq Threads /\ Addons \subseteq Threads
    /\ "main" \notin Addons /\ Workers \cap Addons = {}
BY SignalsAssumption DEF Threads, Workers

LEMMA SigsPositive == Sigs \subseteq Nat \ {0}
BY DEF Sigs, SIGHUP, SIGSEGV, SIGPIPE, SIGTERM, SIGIO, SIGSYS

\* A walk that goes on, or a new one, keeps a stored signal's walk, and the
\* steps of main do not touch the stacks.
LEMMA MainKeepsWalks ==
    ASSUME WalkInv, UNCHANGED <<stack, cancelled>>, signum = 0 => signum' = 0
    PROVE  WalkInv'
BY DEF WalkInv, Walking, Frame

\* The process ends under the threads.
LEMMA EndKeeps ==
    ASSUME SignalsInv, deliveries' \in Nat,
           process' \in {"killed", "aborted", "crashed"}, killer' \in {0} \cup Sigs,
           process' = "killed" /\ killer' \in Handled => pcMain \in Starting \cup {"setIds"},
           UNCHANGED <<startVars, signum, stack, cancelled, ended, pcMain, endVars>>
    PROVE  SignalsInv'
<1> USE DEF SignalsInv
<1>1. TypeOK'
  BY DEF TypeOK, startVars, endVars
<1>2. WalkInv'
  BY MainKeepsWalks
<1>3. MainInv'
  BY DEF MainInv, startVars, endVars
<1>4. FreedInv'
  BY DEF FreedInv, Frame, endVars
<1> QED
  BY <1>1, <1>2, <1>3, <1>4

LEMMA RaiseKeeps ==
    ASSUME SignalsInv, NEW t \in Threads, NEW s \in Sigs, Raise(t, s)
    PROVE  SignalsInv'
<1> USE DEF SignalsInv, Raise
<1>0. deliveries' \in Nat
  BY DEF TypeOK
<1>1. CASE s \notin registered /\ Killed(s) /\ UNCHANGED stack
  <2>1. s \in Handled => pcMain \in Starting \cup {"setIds"}
    BY <1>1 DEF MainInv, TypeOK, MainPC
  <2>2. process' = "killed" /\ killer' = s
    BY <1>1 DEF Killed
  <2> QED
    BY <1>0, <1>1, <2>1, <2>2, EndKeeps
<1>2. CASE stack' = [stack EXCEPT ![t] = Append(@, [sig |-> s, at |-> "log", i |-> 0])] /\ UNCHANGED processVars
  <2>1. StackType
    BY DEF TypeOK, StackType
  <2>2. /\ StackType'
        /\ \A u \in Threads \ {t} : stack'[u] = stack[u]
        /\ Len(stack'[t]) = Len(stack[t]) + 1
        /\ \A k \in 1 .. Len(stack[t]) : stack'[t][k] = stack[t][k]
        /\ stack'[t][Len(stack[t]) + 1].at = "log"
    BY <1>2, <2>1, PushFacts
  <2>3. Len(stack[t]) \in Nat /\ \A k \in 1 .. Len(stack'[t]) : k \in 1 .. Len(stack[t]) \/ k = Len(stack[t]) + 1
    BY <2>1, <2>2, StackFacts
  <2>4. TypeOK'
    BY <1>0, <1>2, <2>2 DEF TypeOK, StackType, startVars, endVars, processVars
  <2>5. WalkInv'
    <3>1. \A u \in Threads : \A k \in 1 .. Len(stack'[u]) :
             Walking(u, k)' => k \in 1 .. Len(stack[u]) /\ Walking(u, k) /\ Frame(u, k)' = Frame(u, k)
      BY <2>2, <2>3 DEF Walking, Frame
    <3>2. \A u \in Threads : \A k \in 1 .. Len(stack[u]) :
             Walking(u, k) => k \in 1 .. Len(stack'[u]) /\ Walking(u, k)'
      BY <2>2, <2>3 DEF Walking, Frame
    <3> QED
      BY <3>1, <3>2 DEF WalkInv
  <2>6. MainInv'
    BY <1>2 DEF MainInv, startVars, endVars, processVars
  <2>7. FreedInv'
    <3>1. t \notin ended
      BY DEF Alive
    <3>2. \A u \in ended' \ Addons : stack'[u] = <<>>
      BY <2>2, <3>1 DEF FreedInv, TypeOK
    <3>3. ASSUME freed' PROVE \A k \in 1 .. Len(stack'["main"]) : Frame("main", k)'.at \in Harmless
      BY <2>2, <2>3, <3>3, ThreadNames DEF FreedInv, Frame, endVars, Harmless
    <3> QED
      BY <3>2, <3>3 DEF FreedInv, endVars
  <2> QED
    BY <2>4, <2>5, <2>6, <2>7
<1> QED
  BY <1>1, <1>2

\* A handler goes to a point outside the walk: it had not come to the walk, or
\* the walk is over.
LEMMA PointKeeps ==
    ASSUME SignalsInv, NEW t \in Threads, stack[t] # <<>>,
           NEW point \in Harmless \cup {"store"}, Continue(t, point, 0),
           Top(t).at \notin {"cancel", "refault"} \/ cancelled = Addons,
           point = "store" => signum = 0 /\ globals # 0,
           UNCHANGED <<startVars, signum, cancelled, deliveries, ended, pcMain, endVars, processVars>>
    PROVE  SignalsInv'
<1> USE DEF SignalsInv
<1> StackType
  BY DEF TypeOK, StackType
<1> DEFINE n == Len(stack[t])
<1>1. n \in 1 .. n /\ n \in Nat /\ Top(t) = stack[t][n]
  BY StackFacts DEF Top
<1>2. /\ StackType'
      /\ \A u \in Threads \ {t} : stack'[u] = stack[u]
      /\ Len(stack'[t]) = n
      /\ \A k \in 1 .. n : k # n => stack'[t][k] = stack[t][k]
      /\ stack'[t][n].at = point
  <2>1. point \in Points /\ 0 \in 0 .. Len(AddonsThreads) + 1
    BY SignalsAssumption, LenProperties DEF Points, Harmless
  <2>2. /\ StackType'
        /\ \A u \in Threads \ {t} : stack'[u] = stack[u]
        /\ Len(stack'[t]) = n
        /\ \A k \in 1 .. n :
              stack'[t][k] = IF k = n THEN [sig |-> Top(t).sig, at |-> point, i |-> 0]
                             ELSE stack[t][k]
    BY <2>1, ContinueFacts
  <2> QED
    BY <1>1, <2>2
<1>3. TypeOK'
  BY <1>2 DEF TypeOK, StackType, startVars, endVars, processVars
<1>4. WalkInv'
  <2>1. \A u \in Threads : \A k \in 1 .. Len(stack'[u]) :
           Walking(u, k)' => k \in 1 .. Len(stack[u]) /\ Walking(u, k) /\ Frame(u, k)' = Frame(u, k)
    BY <1>1, <1>2 DEF Walking, Frame, Harmless
  <2>2. cancelled # Addons => \A u \in Threads : \A k \in 1 .. Len(stack[u]) :
           Walking(u, k) => k \in 1 .. Len(stack'[u]) /\ Walking(u, k)'
    BY <1>1, <1>2 DEF Walking, Frame
  <2> QED
    BY <2>1, <2>2 DEF WalkInv
<1>5. MainInv'
  BY DEF MainInv, startVars, endVars, processVars
<1>6. FreedInv'
  <2>1. \A u \in ended' \ Addons : stack'[u] = <<>>
    BY <1>2 DEF FreedInv, TypeOK
  <2>2. ASSUME freed' PROVE \A k \in 1 .. Len(stack'["main"]) : Frame("main", k)'.at \in Harmless
    <3>1. freed /\ pcMain \in Joined
      BY <2>2 DEF FreedInv, endVars, Joined
    <3>2. point \in Harmless
      BY <3>1, ThreadNames DEF MainInv, Workers, Joined
    <3> QED
      BY <1>1, <1>2, <3>1, <3>2, ThreadNames DEF FreedInv, Frame
  <2> QED
    BY <2>1, <2>2 DEF FreedInv, endVars
<1> QED
  BY <1>3, <1>4, <1>5, <1>6

\* A handler returns: it had not come to the walk, or the walk is over.
LEMMA ReturnKeeps ==
    ASSUME SignalsInv, NEW t \in Threads, stack[t] # <<>>, Return(t),
           Top(t).at \notin {"cancel", "refault"} \/ cancelled = Addons,
           UNCHANGED <<startVars, signum, cancelled, deliveries, ended, pcMain, endVars, processVars>>
    PROVE  SignalsInv'
<1> USE DEF SignalsInv
<1> StackType
  BY DEF TypeOK, StackType
<1> DEFINE n == Len(stack[t])
<1>0. CASE Continue(t, "faulting", 0)
  BY <1>0, PointKeeps DEF Harmless
<1>a. CASE stack' = [stack EXCEPT ![t] = SubSeq(@, 1, Len(@) - 1)]
  <2>1. n \in 1 .. n /\ n \in Nat /\ Top(t) = stack[t][n]
    BY StackFacts DEF Top
  <2>2. /\ StackType'
        /\ \A u \in Threads \ {t} : stack'[u] = stack[u]
        /\ Len(stack'[t]) = n - 1
        /\ \A k \in 1 .. n - 1 : stack'[t][k] = stack[t][k]
    BY <1>a, ReturnFacts
  <2>3. TypeOK'
    BY <2>2 DEF TypeOK, StackType, startVars, endVars, processVars
  <2>4. WalkInv'
    <3>1. \A u \in Threads : \A k \in 1 .. Len(stack'[u]) :
             Walking(u, k)' => k \in 1 .. Len(stack[u]) /\ Walking(u, k) /\ Frame(u, k)' = Frame(u, k)
      BY <2>1, <2>2 DEF Walking, Frame
    <3>2. cancelled # Addons => \A u \in Threads : \A k \in 1 .. Len(stack[u]) :
             Walking(u, k) => k \in 1 .. Len(stack'[u]) /\ Walking(u, k)'
      BY <2>1, <2>2 DEF Walking, Frame
    <3> QED
      BY <3>1, <3>2 DEF WalkInv
  <2>5. MainInv'
    BY DEF MainInv, startVars, endVars, processVars
  <2>6. FreedInv'
    <3>1. \A u \in ended' \ Addons : stack'[u] = <<>>
      BY <2>2 DEF FreedInv, TypeOK
    <3>2. ASSUME freed' PROVE \A k \in 1 .. Len(stack'["main"]) : Frame("main", k)'.at \in Harmless
      BY <2>1, <2>2, <3>2, ThreadNames DEF FreedInv, Frame, endVars
    <3> QED
      BY <3>1, <3>2 DEF FreedInv, endVars
  <2> QED
    BY <2>3, <2>4, <2>5, <2>6
<1> QED
  BY <1>0, <1>a DEF Return

LEMMA HandlerLogKeeps ==
    ASSUME SignalsInv, NEW t \in Threads, HandlerLog(t)
    PROVE  SignalsInv'
<1>1. stack[t] # <<>> /\ Top(t).at = "log" /\ Running
  BY DEF HandlerLog, At
<1>2. UNCHANGED <<startVars, signum, cancelled, deliveries, ended, pcMain, endVars, killer>>
  BY DEF HandlerLog
<1>3. CASE Continue(t, "test", 0) /\ UNCHANGED process
  BY <1>1, <1>2, <1>3, PointKeeps DEF Harmless, processVars
<1>4. CASE Continue(t, "hung", 0) /\ UNCHANGED process
  BY <1>1, <1>2, <1>4, PointKeeps DEF Harmless, processVars
<1>5. CASE process' = "aborted" /\ UNCHANGED stack
  <2>1. deliveries' \in Nat /\ killer' \in {0} \cup Sigs
    BY <1>2 DEF SignalsInv, TypeOK
  <2> QED
    BY <1>2, <1>5, <2>1, EndKeeps
<1> QED
  BY <1>3, <1>4, <1>5 DEF HandlerLog

LEMMA HandlerTestKeeps ==
    ASSUME SignalsInv, NEW t \in Threads, HandlerTest(t)
    PROVE  SignalsInv'
<1>1. stack[t] # <<>> /\ Top(t).at = "test"
  BY DEF HandlerTest, At
<1>2. UNCHANGED <<startVars, signum, cancelled, deliveries, ended, pcMain, endVars>>
  BY DEF HandlerTest
<1>3. CASE globals = 0 /\ Killed(SIGSEGV) /\ UNCHANGED stack
  <2>1. pcMain \in Starting
    BY <1>3 DEF SignalsInv, MainInv
  <2>2. SIGSEGV \in Sigs /\ deliveries' \in Nat
    BY <1>2 DEF Sigs, SignalsInv, TypeOK
  <2>3. process' = "killed" /\ killer' = SIGSEGV
    BY <1>3 DEF Killed
  <2> QED
    BY <1>2, <1>3, <2>1, <2>2, <2>3, EndKeeps
<1>4. CASE globals # 0 /\ signum = 0 /\ Continue(t, "store", 0) /\ UNCHANGED processVars
  BY <1>1, <1>2, <1>4, PointKeeps
<1>5. CASE Return(t) /\ UNCHANGED processVars
  BY <1>1, <1>2, <1>5, ReturnKeeps
<1> QED
  BY <1>3, <1>4, <1>5 DEF HandlerTest

LEMMA HandlerStoreKeeps ==
    ASSUME SignalsInv, NEW t \in Threads, HandlerStore(t)
    PROVE  SignalsInv'
<1> USE DEF SignalsInv, HandlerStore
<1> StackType /\ stack[t] # <<>>
  BY DEF TypeOK, StackType, At
<1> DEFINE n == Len(stack[t])
<1>1. n \in 1 .. n /\ n \in Nat /\ stack[t][n] \in Frames /\ stack[t][n].at = "store"
  BY StackFacts DEF At, Top
<1>2. signum' = stack[t][n].sig /\ signum' \in Sigs /\ signum' # 0
  BY <1>1, SigsPositive DEF Top, Frames
<1>3. /\ StackType'
      /\ \A u \in Threads \ {t} : stack'[u] = stack[u]
      /\ Len(stack'[t]) = n
      /\ \A k \in 1 .. n : k # n => stack'[t][k] = stack[t][k]
      /\ stack'[t][n].at = "cancel" /\ stack'[t][n].i = 1
  <2>1. "cancel" \in Points /\ 1 \in 0 .. Len(AddonsThreads) + 1
    BY SignalsAssumption, LenProperties DEF Points
  <2>2. /\ StackType'
        /\ \A u \in Threads \ {t} : stack'[u] = stack[u]
        /\ Len(stack'[t]) = n
        /\ \A k \in 1 .. n :
              stack'[t][k] = IF k = n THEN [sig |-> Top(t).sig, at |-> "cancel", i |-> 1]
                             ELSE stack[t][k]
    BY <2>1, ContinueFacts
  <2> QED
    BY <1>1, <2>2
<1>4. TypeOK'
  BY <1>2, <1>3 DEF TypeOK, StackType, startVars, endVars, processVars
<1>5. WalkInv'
  <2>1. \A u \in Threads : \A k \in 1 .. Len(stack'[u]) :
           Walking(u, k)' => \/ u = t /\ k = n
                             \/ k \in 1 .. Len(stack[u]) /\ Walking(u, k) /\ Frame(u, k)' = Frame(u, k)
    BY <1>1, <1>3 DEF Walking, Frame
  <2>2. Walking(t, n)' /\ n \in 1 .. Len(stack'[t]) /\ Frame(t, n)'.i = 1
    BY <1>1, <1>3 DEF Walking, Frame
  <2> QED
    BY <2>1, <2>2 DEF WalkInv
<1>6. MainInv'
  BY <1>2 DEF MainInv, startVars, endVars, processVars
<1>7. FreedInv'
  <2>1. \A u \in ended' \ Addons : stack'[u] = <<>>
    BY <1>3 DEF FreedInv, TypeOK
  <2>2. ASSUME freed' PROVE \A k \in 1 .. Len(stack'["main"]) : Frame("main", k)'.at \in Harmless
    <3>1. t # "main"
      BY <1>1, <2>2, ThreadNames DEF FreedInv, Frame, endVars, Harmless
    <3> QED
      BY <1>3, <2>2, <3>1, ThreadNames DEF FreedInv, Frame, endVars, Harmless
  <2> QED
    BY <2>1, <2>2 DEF FreedInv, endVars
<1> QED
  BY <1>4, <1>5, <1>6, <1>7

\* A walk goes on, cancelling one addon or faulting.
LEMMA WalkStepKeeps ==
    ASSUME SignalsInv, NEW t \in Threads, At(t, "cancel"),
           NEW point \in {"cancel", "refault"}, NEW m \in 1 .. Len(AddonsThreads) + 1,
           Continue(t, point, m),
           cancelled \subseteq cancelled', cancelled' \subseteq Addons,
           \A j \in 1 .. m - 1 : j \in 1 .. Top(t).i - 1 \/ AddonsThreads[j] \in cancelled',
           UNCHANGED <<startVars, signum, deliveries, ended, pcMain, endVars, processVars>>
    PROVE  SignalsInv'
<1> USE DEF SignalsInv
<1> StackType /\ stack[t] # <<>>
  BY DEF TypeOK, StackType, At
<1> DEFINE n == Len(stack[t])
<1>1. n \in 1 .. n /\ n \in Nat /\ stack[t][n] \in Frames /\ stack[t][n].at = "cancel"
  BY StackFacts DEF At, Top
<1>2. /\ StackType'
      /\ \A u \in Threads \ {t} : stack'[u] = stack[u]
      /\ Len(stack'[t]) = n
      /\ \A k \in 1 .. n : k # n => stack'[t][k] = stack[t][k]
      /\ stack'[t][n].at = point /\ stack'[t][n].i = m
  <2>1. point \in Points
    BY DEF Points
  <2>2. /\ StackType'
        /\ \A u \in Threads \ {t} : stack'[u] = stack[u]
        /\ Len(stack'[t]) = n
        /\ \A k \in 1 .. n :
              stack'[t][k] = IF k = n THEN [sig |-> Top(t).sig, at |-> point, i |-> m]
                             ELSE stack[t][k]
    BY <2>1, ContinueFacts
  <2> QED
    BY <1>1, <2>2
<1>3. TypeOK'
  BY <1>2 DEF TypeOK, StackType, startVars, endVars, processVars
<1>4. WalkInv'
  <2>1. \A u \in Threads : \A k \in 1 .. Len(stack'[u]) :
           Walking(u, k)' => \/ u = t /\ k = n
                             \/ k \in 1 .. Len(stack[u]) /\ Walking(u, k) /\ Frame(u, k)' = Frame(u, k)
    BY <1>1, <1>2 DEF Walking, Frame
  <2>2. Walking(t, n)' /\ n \in 1 .. Len(stack'[t]) /\ Frame(t, n)'.i = m
    BY <1>1, <1>2 DEF Walking, Frame
  <2>3. Walking(t, n) /\ Frame(t, n) = Top(t)
    BY <1>1 DEF Walking, Frame, Top
  <2>4. \A j \in 1 .. m - 1 : AddonsThreads[j] \in cancelled'
    BY <1>1, <2>3 DEF WalkInv
  <2> QED
    BY <2>1, <2>2, <2>4 DEF WalkInv
<1>5. MainInv'
  BY DEF MainInv, startVars, endVars, processVars
<1>6. FreedInv'
  <2>1. \A u \in ended' \ Addons : stack'[u] = <<>>
    BY <1>2 DEF FreedInv, TypeOK
  <2>2. ASSUME freed' PROVE \A k \in 1 .. Len(stack'["main"]) : Frame("main", k)'.at \in Harmless
    <3>1. t # "main"
      BY <1>1, <2>2, ThreadNames DEF FreedInv, Frame, endVars, Harmless
    <3> QED
      BY <1>2, <2>2, <3>1, ThreadNames DEF FreedInv, Frame, endVars, Harmless
  <2> QED
    BY <2>1, <2>2 DEF FreedInv, endVars
<1> QED
  BY <1>3, <1>4, <1>5, <1>6

LEMMA HandlerCancelKeeps ==
    ASSUME SignalsInv, NEW t \in Threads, HandlerCancel(t)
    PROVE  SignalsInv'
<1> USE DEF SignalsInv
<1> DEFINE i == Top(t).i
           n == Len(stack[t])
<1>1. /\ At(t, "cancel") /\ stack[t] # <<>> /\ Top(t).at = "cancel"
      /\ UNCHANGED <<startVars, signum, deliveries, ended, pcMain, endVars>>
  BY DEF HandlerCancel, At
<1>2. /\ i \in 1 .. Len(AddonsThreads) + 1
      /\ \A j \in 1 .. i - 1 : AddonsThreads[j] \in cancelled
  <2>1. n \in 1 .. n /\ stack[t][n] \in Frames /\ Top(t) = stack[t][n]
    BY <1>1, StackFacts DEF TypeOK, StackType, Top
  <2>2. Len(AddonsThreads) \in Nat /\ i \in 0 .. Len(AddonsThreads) + 1
    BY <2>1, SignalsAssumption, LenProperties DEF Frames
  <2>3. Walking(t, n) /\ Frame(t, n) = Top(t)
    BY <1>1, <2>1 DEF Walking, Frame
  <2> QED
    BY <2>1, <2>2, <2>3 DEF WalkInv
<1>3. Len(AddonsThreads) \in Nat /\ Addons = {AddonsThreads[j] : j \in 1 .. Len(AddonsThreads)}
  BY SignalsAssumption, LenProperties DEF Addons
<1> HIDE DEF i
<1>4. CASE Continue(t, "refault", i) /\ UNCHANGED <<cancelled, processVars>>
  <2>1. \A j \in 1 .. i - 1 : j \in 1 .. Top(t).i - 1 \/ AddonsThreads[j] \in cancelled'
    BY <1>2, <1>4
  <2>2. cancelled \subseteq cancelled' /\ cancelled' \subseteq Addons
    BY <1>4 DEF TypeOK
  <2> QED
    BY <1>1, <1>2, <1>4, <2>1, <2>2, WalkStepKeeps
<1>5. CASE /\ i <= Len(AddonsThreads)
           /\ cancelled' = cancelled \cup {AddonsThreads[i]}
           /\ Continue(t, "cancel", i + 1)
           /\ UNCHANGED processVars
  <2> DEFINE m == i + 1
  <2>1. m \in 1 .. Len(AddonsThreads) + 1
    BY <1>2, <1>3, <1>5
  <2>2. \A j \in 1 .. m - 1 : j \in 1 .. Top(t).i - 1 \/ AddonsThreads[j] \in cancelled'
    BY <1>2, <1>5
  <2>4. Continue(t, "cancel", m)
    BY <1>5
  <2> HIDE DEF m
  <2>3. cancelled \subseteq cancelled' /\ cancelled' \subseteq Addons
    BY <1>2, <1>3, <1>5 DEF TypeOK
  <2> QED
    BY <1>1, <1>5, <2>1, <2>2, <2>3, <2>4, WalkStepKeeps
<1>6. CASE process' = "crashed" /\ UNCHANGED <<cancelled, stack, killer>>
  <2>1. deliveries' \in Nat /\ killer' \in {0} \cup Sigs
    BY <1>1, <1>6 DEF TypeOK
  <2> QED
    BY <1>1, <1>6, <2>1, EndKeeps
<1>7. CASE i > Len(AddonsThreads) /\ Return(t) /\ UNCHANGED <<cancelled, processVars>>
  <2>1. cancelled = Addons
    BY <1>2, <1>3, <1>7 DEF TypeOK
  <2> QED
    BY <1>1, <1>7, <2>1, ReturnKeeps
<1>8. CASE globals = 1 /\ Killed(SIGSEGV) /\ UNCHANGED <<cancelled, stack>>
  <2>1. pcMain = "setIds"
    BY <1>8 DEF MainInv
  <2>2. SIGSEGV \in Sigs /\ deliveries' \in Nat
    BY <1>1 DEF Sigs, TypeOK
  <2>3. process' = "killed" /\ killer' = SIGSEGV
    BY <1>8 DEF Killed
  <2> QED
    BY <1>1, <1>8, <2>1, <2>2, <2>3, EndKeeps
<1>9. \/ Continue(t, "refault", i) /\ UNCHANGED <<cancelled, processVars>>
      \/ globals = 1 /\ Killed(SIGSEGV) /\ UNCHANGED <<cancelled, stack>>
      \/ process' = "crashed" /\ UNCHANGED <<cancelled, stack, killer>>
      \/ /\ i <= Len(AddonsThreads)
         /\ cancelled' = cancelled \cup {AddonsThreads[i]}
         /\ Continue(t, "cancel", i + 1)
         /\ UNCHANGED processVars
      \/ ~ (i <= Len(AddonsThreads)) /\ Return(t) /\ UNCHANGED <<cancelled, processVars>>
  BY DEF HandlerCancel, i
<1> QED
  BY <1>2, <1>3, <1>4, <1>5, <1>6, <1>7, <1>8, <1>9

LEMMA ThreadEndsKeeps ==
    ASSUME SignalsInv, NEW t \in Threads, ThreadEnds(t)
    PROVE  SignalsInv'
<1> USE DEF SignalsInv, ThreadEnds
<1>1. TypeOK'
  BY DEF TypeOK, startVars, handlerVars, endVars, processVars
<1>2. WalkInv'
  BY MainKeepsWalks DEF handlerVars
<1>3. MainInv'
  BY ThreadNames DEF TypeOK, MainInv, startVars, endVars, processVars
<1>4. FreedInv'
  <2>1. t \notin Addons => stack[t] = <<>>
    BY DEF TypeOK, Idle
  <2> QED
    BY <2>1 DEF FreedInv, Frame, handlerVars, endVars
<1> QED
  BY <1>1, <1>2, <1>3, <1>4

\* The names of the points of main.
LEMMA PcNames ==
    /\ DOMAIN Starts = {"loadConf", "addonManager", "format", "sender"}
    /\ Starting = {"loadConf", "addonManager", "format", "sender", "register", "setSignum"}
    /\ Joined = {"read", "assign", "free", "decide", "restart"}
    /\ MainPC = Starting \cup Joined \cup {"setIds", "joinFormat", "joinSender"}
<1>1. DOMAIN Starts = {"loadConf", "addonManager", "format", "sender"}
  BY DEF Starts
<1> QED
  BY <1>1 DEF Starting, Joined, MainPC

\* What main starts, and where it goes on.
LEMMA StartNames ==
    ASSUME NEW step \in DOMAIN Starts
    PROVE  Starts[step] \subseteq Threads /\ After[step] \in {"addonManager", "format", "sender", "register"}
<1>1. step \in {"loadConf", "addonManager", "format", "sender"}
  BY PcNames
<1> QED
  BY <1>1, ThreadNames DEF Starts, After, Workers

LEMMA MainKeeps ==
    ASSUME SignalsInv, Main
    PROVE  SignalsInv'
<1> USE DEF SignalsInv
<1>0. UNCHANGED <<stack, cancelled, deliveries, ended, killer>>
  BY DEF Main, handlerVars
<1>1. CASE MainStart
  <2>1. TypeOK'
    BY <1>0, <1>1, PcNames, StartNames DEF MainStart, TypeOK, MainAt, startVars, endVars
  <2>2. signum = 0 => signum' = 0
    BY <1>0, <1>1, PcNames, StartNames DEF MainStart, MainAt, MainInv
  <2>3. MainInv'
    BY <1>0, <1>1, PcNames, StartNames DEF MainStart, MainAt, MainInv, TypeOK, startVars, endVars
  <2>4. FreedInv'
    BY <1>0, <1>1, PcNames DEF MainStart, MainAt, FreedInv, Frame, startVars, endVars
  <2> QED
    BY <1>0, <2>1, <2>2, <2>3, <2>4, MainKeepsWalks
<1>2. CASE MainRegister
  <2>1. TypeOK'
    BY <1>0, <1>2, PcNames DEF MainRegister, Handled, TypeOK, MainAt, startVars, endVars
  <2>2. signum = 0 => signum' = 0
    BY <1>0, <1>2, PcNames DEF MainRegister, MainAt, MainInv
  <2>3. MainInv'
    BY <1>0, <1>2, PcNames DEF MainRegister, Handled, MainAt, MainInv, TypeOK, startVars, endVars
  <2>4. FreedInv'
    BY <1>0, <1>2 DEF MainRegister, MainAt, FreedInv, Frame, startVars, endVars
  <2> QED
    BY <1>0, <2>1, <2>2, <2>3, <2>4, MainKeepsWalks
<1>3. CASE MainSetGlobals
  <2>1. TypeOK'
    BY <1>0, <1>3, PcNames DEF MainSetGlobals, TypeOK, MainAt, startVars, endVars
  <2>2. signum = 0 => signum' = 0
    BY <1>0, <1>3, PcNames DEF MainSetGlobals, MainAt, Running, MainInv
  <2>3. MainInv'
    BY <1>0, <1>3, PcNames DEF MainSetGlobals, MainAt, Running, MainInv, TypeOK, startVars, endVars
  <2>4. FreedInv'
    BY <1>0, <1>3 DEF MainSetGlobals, MainAt, FreedInv, Frame, startVars, endVars
  <2> QED
    BY <1>0, <2>1, <2>2, <2>3, <2>4, MainKeepsWalks
<1>4. CASE MainJoin
  <2>1. TypeOK'
    BY <1>0, <1>4, PcNames DEF MainJoin, TypeOK, MainAt, startVars, endVars
  <2>2. signum = 0 => signum' = 0
    BY <1>0, <1>4, PcNames DEF MainJoin, MainAt, MainInv
  <2>3. MainInv'
    BY <1>0, <1>4, PcNames DEF MainJoin, MainAt, MainInv, TypeOK, startVars, endVars
  <2>4. FreedInv'
    BY <1>0, <1>4 DEF MainJoin, MainAt, FreedInv, Frame, startVars, endVars
  <2> QED
    BY <1>0, <2>1, <2>2, <2>3, <2>4, MainKeepsWalks
<1>5. CASE MainRead
  <2>1. TypeOK'
    BY <1>0, <1>5, PcNames DEF MainRead, TypeOK, MainAt, startVars, endVars
  <2>2. signum = 0 => signum' = 0
    BY <1>0, <1>5, PcNames DEF MainRead, MainAt, MainInv, Workers
  <2>3. MainInv'
    BY <1>0, <1>5, PcNames DEF MainRead, MainAt, MainInv, Workers, TypeOK, startVars, endVars
  <2>4. FreedInv'
    BY <1>0, <1>5 DEF MainRead, MainAt, FreedInv, Frame, startVars, endVars
  <2> QED
    BY <1>0, <2>1, <2>2, <2>3, <2>4, MainKeepsWalks
<1>6. CASE MainAssign
  <2>1. TypeOK'
    BY <1>0, <1>6, PcNames DEF MainAssign, TypeOK, MainAt, startVars, endVars
  <2>2. signum = 0 => signum' = 0
    BY <1>0, <1>6, PcNames DEF MainAssign, MainAt, MainInv, Workers
  <2>3. MainInv'
    BY <1>0, <1>6, PcNames DEF MainAssign, MainAt, MainInv, TypeOK, startVars, endVars
  <2>4. FreedInv'
    BY <1>0, <1>6 DEF MainAssign, MainAt, FreedInv, Frame, startVars, endVars
  <2> QED
    BY <1>0, <2>1, <2>2, <2>3, <2>4, MainKeepsWalks
<1>7. CASE MainFree
  <2>1. TypeOK'
    BY <1>0, <1>7, PcNames DEF MainFree, TypeOK, MainAt, startVars, endVars
  <2>2. signum = 0 => signum' = 0
    BY <1>0, <1>7, PcNames DEF MainFree, MainAt, MainInv
  <2>3. MainInv'
    BY <1>0, <1>7, PcNames DEF MainFree, MainAt, MainInv, TypeOK, startVars, endVars
  <2>4. FreedInv'
    BY <1>0, <1>7, EmptySeq DEF MainFree, MainAt, Idle, FreedInv, Frame, startVars, endVars
  <2> QED
    BY <1>0, <2>1, <2>2, <2>3, <2>4, MainKeepsWalks
<1>8. CASE MainDecide
  <2>1. TypeOK'
    BY <1>0, <1>8, PcNames DEF MainDecide, TypeOK, MainAt, startVars, endVars
  <2>2. signum = 0 => signum' = 0
    BY <1>0, <1>8, PcNames DEF MainDecide, MainAt, MainInv
  <2>3. MainInv'
    BY <1>0, <1>8, PcNames DEF MainDecide, MainAt, MainInv, TypeOK, startVars, endVars
  <2>4. FreedInv'
    BY <1>0, <1>8 DEF MainDecide, MainAt, FreedInv, Frame, startVars, endVars
  <2> QED
    BY <1>0, <2>1, <2>2, <2>3, <2>4, MainKeepsWalks
<1>9. CASE MainRestart
  <2>1. TypeOK'
    BY <1>0, <1>9, PcNames DEF MainRestart, MaxTries, TypeOK, MainAt, startVars, endVars
  <2>2. signum = 0 => signum' = 0
    BY <1>0, <1>9, PcNames DEF MainRestart, MainAt, MainInv
  <2>3. MainInv'
    BY <1>0, <1>9, PcNames DEF MainRestart, MainAt, MainInv, TypeOK, startVars, endVars
  <2>4. FreedInv'
    BY <1>0, <1>9 DEF MainRestart, MainAt, FreedInv, Frame, startVars, endVars
  <2> QED
    BY <1>0, <2>1, <2>2, <2>3, <2>4, MainKeepsWalks
<1> QED
  BY <1>1, <1>2, <1>3, <1>4, <1>5, <1>6, <1>7, <1>8, <1>9 DEF Main

-----------------------------------------------------------------------------
(* Theorems *)

\* The inductive invariant.
THEOREM SignalsInvariant == Spec => []SignalsInv
<1>1. ASSUME SignalsInv, [Next]_vars
      PROVE  SignalsInv'
  <2>1. ASSUME UNCHANGED vars PROVE SignalsInv'
    <3>1. TypeOK' /\ MainInv'
      BY <1>1, <2>1 DEF SignalsInv, TypeOK, MainInv, vars, startVars, handlerVars, endVars, processVars
    <3>2. WalkInv'
      BY <1>1, <2>1, MainKeepsWalks DEF SignalsInv, vars, handlerVars
    <3>3. FreedInv'
      BY <1>1, <2>1 DEF SignalsInv, FreedInv, Frame, vars, handlerVars, endVars
    <3> QED
      BY <3>1, <3>2, <3>3 DEF SignalsInv
  <2>2. ASSUME NEW t \in Threads, NEW s \in Sigs, Deliver(t, s) PROVE SignalsInv'
    BY <1>1, <2>2, RaiseKeeps DEF Deliver
  <2>3. ASSUME NEW t \in Threads, SignalHandling(t) PROVE SignalsInv'
    BY <1>1, <2>1, <2>3, HandlerLogKeeps, HandlerTestKeeps, HandlerStoreKeeps, HandlerCancelKeeps
       DEF SignalHandling, HandlerStuck
  <2>6. ASSUME NEW t \in Threads, Fault(t) PROVE SignalsInv'
    BY <1>1, <2>6, RaiseKeeps DEF Fault, Sigs
  <2>4. ASSUME NEW t \in Threads, ThreadEnds(t) PROVE SignalsInv'
    BY <1>1, <2>4, ThreadEndsKeeps
  <2>5. CASE Main
    BY <1>1, <2>5, MainKeeps
  <2> QED
    BY <1>1, <2>1, <2>2, <2>3, <2>4, <2>5, <2>6 DEF Next, Stopped
<1> QED
  BY <1>1, InitSignalsInv, PTL DEF Spec

\* Each variable keeps its type.
THEOREM SignalsTypeCorrect == Spec => []TypeOK
BY SignalsInvariant, PTL DEF SignalsInv

\* From the return of signalsHandler on no signal that it does not leave out ends
\* the process by its default action: those it leaves out still do.
THEOREM HandledSignalsKillOnlyAtStart == Spec => []HandledKillsOnlyAtStart
<1>1. SignalsInv => HandledKillsOnlyAtStart
  BY DEF SignalsInv, MainInv, HandledKillsOnlyAtStart
<1> QED
  BY <1>1, SignalsInvariant, PTL

\* main frees nothing before both workers are gone.
THEOREM WorkersEndFirst == Spec => []CleanupAfterWorkers
<1>1. SignalsInv => CleanupAfterWorkers
  BY DEF SignalsInv, MainInv, CleanupAfterWorkers, Workers
<1> QED
  BY <1>1, SignalsInvariant, PTL

\* A stored signal has cancelled every addon, whatever the nesting of handlers
\* and the threads they ran on, when no handler is left in its loop.
THEOREM AddonsAreCancelled == Spec => []EveryAddonCancelled
<1>1. SignalsInv => EveryAddonCancelled
  <2> SUFFICES ASSUME SignalsInv, signum # 0, \A t \in Threads : ~ InLoop(t)
               PROVE  cancelled = Addons
    BY DEF EveryAddonCancelled
  <2>1. \A t \in Threads : \A k \in 1 .. Len(stack[t]) : ~ Walking(t, k)
    BY StackFacts DEF SignalsInv, TypeOK, StackType, InLoop, Walking, Frame
  <2> QED
    BY <2>1 DEF SignalsInv, WalkInv
<1> QED
  BY <1>1, SignalsInvariant, PTL

\* Only an addon's thread can walk over the array that main freed.
THEOREM FreedOnlyUnderAddons == Spec => []FreedUnderAddonOnly
<1>1. SignalsInv => FreedUnderAddonOnly
  <2> SUFFICES ASSUME SignalsInv, NEW t \in Threads, freed, At(t, "cancel"), t \notin Addons
               PROVE  FALSE
    BY DEF FreedUnderAddonOnly
  <2>1. stack[t] # <<>> /\ stack[t][Len(stack[t])].at = "cancel"
    BY DEF At, Top
  <2>2. Len(stack[t]) \in 1 .. Len(stack[t])
    BY <2>1, StackFacts DEF SignalsInv, TypeOK, StackType
  <2>3. t # "main"
    BY <2>1, <2>2 DEF SignalsInv, FreedInv, Frame, Harmless
  <2>4. t \in Workers
    BY <2>3 DEF Threads
  <2>5. t \in ended
    BY <2>4 DEF SignalsInv, FreedInv, MainInv, Joined, Workers
  <2> QED
    BY <2>5 DEF At, Alive
<1> QED
  BY <1>1, SignalsInvariant, PTL

-----------------------------------------------------------------------------
(* Signals implements Shutdown. *)

\* A step that sets no first signal, ends no worker and frees nothing is not
\* seen by Shutdown.
LEMMA UnseenByShutdown ==
    ASSUME signum' = 0 <=> signum = 0,
           ended' \cap Workers = ended \cap Workers,
           freed' = freed
    PROVE  UNCHANGED S!shutdownVars
<1>1. (signum # 0)' = (signum # 0)
  OBVIOUS
<1> QED
  BY <1>1 DEF S!shutdownVars

\* The first handler to store a signal requests the end; a later one does not.
LEMMA StoreRequests ==
    ASSUME SignalsInv, NEW t \in Threads, HandlerStore(t)
    PROVE  S!Request \/ UNCHANGED S!shutdownVars
<1>1. stack[t] # <<>> /\ Len(stack[t]) \in 1 .. Len(stack[t])
  BY StackFacts DEF SignalsInv, TypeOK, StackType, HandlerStore, At
<1>2. Top(t).sig \in Sigs
  BY <1>1, StackFacts DEF SignalsInv, TypeOK, StackType, Top, Frames
<1>3. signum' # 0 /\ ended' = ended /\ freed' = freed
  BY <1>2, SigsPositive DEF HandlerStore, endVars
<1>4. CASE signum # 0
  BY <1>3, <1>4, UnseenByShutdown
<1>5. CASE signum = 0
  <2>1. ~ (signum # 0) /\ (signum # 0)' = TRUE
    BY <1>3, <1>5
  <2> QED
    BY <1>3, <2>1 DEF S!Request
<1> QED
  BY <1>4, <1>5

\* A worker that ends leaves after the request; an addon is not counted.
LEMMA EndLeaves ==
    ASSUME SignalsInv, NEW t \in Threads, ThreadEnds(t)
    PROVE  (\E w \in Workers : S!Leave(w)) \/ UNCHANGED S!shutdownVars
<1>1. UNCHANGED <<signum, freed>> /\ ended' = ended \cup {t} /\ t \notin ended
  BY DEF ThreadEnds, Idle, Alive, endVars
<1>2. CASE t \in Workers
  <2>1. signum # 0
    BY <1>2, ThreadNames DEF ThreadEnds, SignalsInv, TypeOK
  <2>2. ended' \cap Workers = (ended \cap Workers) \cup {t} /\ t \notin ended \cap Workers
    BY <1>1, <1>2
  <2>3. (signum # 0)' = (signum # 0)
    BY <1>1
  <2>4. S!Leave(t)
    BY <1>1, <2>1, <2>2, <2>3 DEF S!Leave
  <2> QED
    BY <1>2, <2>4
<1>3. CASE t \notin Workers
  BY <1>1, <1>3, UnseenByShutdown
<1> QED
  BY <1>2, <1>3

\* A step of main cleans up after both workers, or is not seen: what it assigns
\* to signum is the signal waitForShutdown read.
LEMMA MainCleans ==
    ASSUME SignalsInv, Main
    PROVE  S!Clean \/ UNCHANGED S!shutdownVars
<1>1. ended' = ended
  BY DEF Main
<1>2. CASE MainFree
  <2>1. /\ pcMain = "free" /\ ~ freed /\ Workers \subseteq ended
    BY <1>2 DEF MainFree, MainAt, SignalsInv, MainInv, FreedInv, Joined, Workers
  <2>2. freed' = TRUE /\ (signum # 0)' = (signum # 0)
    BY <1>2 DEF MainFree
  <2>3. ended \cap Workers = Workers /\ (ended \cap Workers)' = ended \cap Workers
    BY <1>1, <2>1
  <2> QED
    BY <2>1, <2>2, <2>3 DEF S!Clean
<1>3. CASE MainAssign
  <2>1. result # 0 /\ signum # 0
    BY <1>3 DEF MainAssign, MainAt, SignalsInv, MainInv, Joined, Workers
  <2>2. signum' # 0 /\ freed' = freed
    BY <1>3, <2>1 DEF MainAssign, endVars
  <2> QED
    BY <1>1, <2>1, <2>2, UnseenByShutdown
<1>4. CASE ~ MainFree /\ ~ MainAssign
  <2>1. UNCHANGED <<signum, freed>>
    BY <1>4 DEF Main, MainStart, MainRegister, MainSetGlobals, MainJoin, MainRead, MainDecide,
                MainRestart, endVars
  <2> QED
    BY <1>1, <2>1, UnseenByShutdown
<1> QED
  BY <1>2, <1>3, <1>4

\* Every step is one of Shutdown or is not seen by it.
LEMMA ShutdownStep == SignalsInv /\ [Next]_vars => [S!Next]_(S!shutdownVars)
<1> SUFFICES ASSUME SignalsInv, [Next]_vars PROVE S!Next \/ UNCHANGED S!shutdownVars
  OBVIOUS
<1>1. ASSUME NEW t \in Threads, NEW s \in Sigs, Raise(t, s) PROVE UNCHANGED S!shutdownVars
  BY <1>1, UnseenByShutdown DEF Raise, endVars
<1>2. ASSUME NEW t \in Threads, HandlerLog(t) \/ HandlerTest(t) \/ HandlerCancel(t)
      PROVE  UNCHANGED S!shutdownVars
  BY <1>2, UnseenByShutdown DEF HandlerLog, HandlerTest, HandlerCancel, endVars
<1>3. ASSUME UNCHANGED vars PROVE UNCHANGED S!shutdownVars
  BY <1>3, UnseenByShutdown DEF vars, endVars
<1>4. ASSUME NEW t \in Threads, HandlerStore(t) PROVE S!Next \/ UNCHANGED S!shutdownVars
  BY <1>4, StoreRequests DEF S!Next
<1>5. ASSUME NEW t \in Threads, ThreadEnds(t) PROVE S!Next \/ UNCHANGED S!shutdownVars
  BY <1>5, EndLeaves DEF S!Next
<1>6. CASE Main
  BY <1>6, MainCleans DEF S!Next
<1>7. ASSUME NEW t \in Threads, Fault(t) PROVE UNCHANGED S!shutdownVars
  BY <1>1, <1>7 DEF Fault, Sigs
<1> QED
  BY <1>1, <1>2, <1>3, <1>4, <1>5, <1>6, <1>7 DEF Next, SignalHandling, HandlerStuck, Deliver, Stopped

\* The probe ends as agreed: the request is never taken back, the workers leave
\* after it, and main frees what the threads share after both have left.
THEOREM SignalsImplementShutdown == Spec => ImplementsShutdown
<1>1. Init => S!Init
  BY DEF Init, S!Init
<1> QED
  BY <1>1, ShutdownStep, SignalsInvariant, PTL DEF Spec, ImplementsShutdown, S!Spec
=============================================================================
