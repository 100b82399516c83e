--------------------------- MODULE Reactor_proofs ---------------------------
(***************************************************************************)
(* Theorems about Reactor, for any number of threads, functors, timers and *)
(* channels: the loop in it is an EventLoop, the timer queue a TimerQueue, *)
(* so that what is proved of each holds of both together, and the timers   *)
(* the one expects are the functors the other holds.                       *)
(***************************************************************************)
EXTENDS Reactor, EventLoop_proofs, WellFoundedInduction

USE ThreadAssumption, ChannelAssumption, ReactorAssumption DEF Threads

-----------------------------------------------------------------------------
(* The loop in the reactor is a loop. *)

\* Whatever the timer queue does between and within the loop's callbacks is a
\* step of EventLoop.
LEMMA ReactorStepIsLoopStep == TypeOK /\ [ReactorNext]_reactorVars => [Next]_vars
<1> SUFFICES ASSUME TypeOK, [ReactorNext]_reactorVars PROVE [Next]_vars
  OBVIOUS
<1>1. ASSUME NEW self \in Threads, NEW t \in Timers, AddTimer(self, t)
      PROVE  Next
  BY <1>1 DEF AddTimer, Next, Api
<1>2. ASSUME NEW self \in Threads, UseLoop(self)
      PROVE  Next
  BY <1>2 DEF UseLoop, Next, Api
<1>3. ASSUME NEW self \in Callers, Finish(self)
      PROVE  [Next]_vars
  <2>1. CASE FinishCall(self)
    BY <2>1 DEF Next, Api
  <2>2. CASE AddTimerReturn(self)
    BY <2>2 DEF AddTimerReturn
  <2> QED
    BY <1>3, <2>1, <2>2 DEF Finish
<1>4. CASE Loop
  BY <1>4 DEF Next
<1>5. CASE PollChannels
  <2>1. PICK others \in SUBSET Channels : Poll(others)
    BY <1>5 DEF PollChannels
  <2>2. wakeup_fd \in Nat
    BY DEF TypeOK
  <2>3. PollWoken \/ PollElse
    BY <2>1, <2>2 DEF PollWoken, PollElse
  <2> QED
    BY <2>3 DEF Next, LoopStep
<1>6. CASE TimerEvent \/ WakeupEvent \/ ChannelEvent \/ EventReturn
  BY <1>6 DEF TimerEvent, WakeupEvent, ChannelEvent, EventReturn, Next, LoopStep
<1>7. CASE TimerStep \/ TimerReset \/ Tick
  BY <1>7 DEF TimerStep, TimerReset, Tick
<1>8. CASE RunOneFunctor \/ LoopOnly
  BY <1>8 DEF RunOneFunctor, LoopOnly, Next, LoopStep
<1>9. CASE FinishCall(LoopThread)
  BY <1>9 DEF Next, Api
<1>10. CASE UNCHANGED reactorVars
  BY <1>10 DEF reactorVars
<1>11. CASE Round
  BY <1>5, <1>6, <1>7, <1>8, <1>9, <1>11 DEF Round, PollReady
<1>12. CASE PollFails
  BY <1>12 DEF Next
<1> QED
  BY <1>1, <1>2, <1>3, <1>4, <1>5, <1>7, <1>10, <1>11, <1>12 DEF ReactorNext


\* A loop with a timer queue behaves as an EventLoop: what is proved of EventLoop
\* holds of it.
THEOREM ReactorRunsAnEventLoop == ReactorSpec => Spec
<1>1. ReactorInit => Init /\ TypeOK
  BY TypeOK_Init DEF ReactorInit
<1>2. TypeOK /\ [ReactorNext]_reactorVars => [Next]_vars /\ TypeOK'
  BY ReactorStepIsLoopStep, TypeOK_Next
<1> QED
  BY <1>1, <1>2, PTL DEF ReactorSpec, Spec

-----------------------------------------------------------------------------
(* The timerfd is read when it is readable. *)

\* The inductive invariant behind TimerReadable: only between ::poll and the first
\* dispatch is the timer channel active, and HandleRead is inside a callback.
ReactorInv ==
  /\ TimerChannel \in active_channels => fd_ready /\ pc = "dispatch"
  /\ timer_pc # "idle" => pc = "callback"

\* At first no channel is active.
LEMMA ReactorInv_Init == ReactorInit => ReactorInv
  BY DEF ReactorInit, Init, TQ!Init, ReactorInv

\* One step keeps ReactorInv.
LEMMA ReactorInv_Next == ReactorInv /\ [ReactorNext]_reactorVars => ReactorInv'
<1> SUFFICES ASSUME ReactorInv, [ReactorNext]_reactorVars PROVE ReactorInv'
  OBVIOUS
<1> USE DEF ReactorInv, loopVars, queueVars
<1>1. ASSUME NEW self \in Threads, NEW t \in Timers, AddTimer(self, t)
      PROVE  ReactorInv'
  <2>1. /\ UNCHANGED <<active_channels, pc>>
        /\ self = LoopThread => pc \in UserCode
    BY <1>1 DEF AddTimer, RunInLoop, QueueInLoop, CanCall
  <2>2. \E when : TQ!AddTimer(self, t, when)
    BY <1>1 DEF AddTimer, TQ!RunAt, TQ!RunAfter, TQ!RunEvery
  <2>3. UNCHANGED timer_pc /\ (self # LoopThread => UNCHANGED fd_ready)
    BY <2>2 DEF TQ!AddTimer, TQ!fdVars
  <2> QED
    BY <2>1, <2>3 DEF UserCode
<1>2. ASSUME NEW self \in Threads, UseLoop(self)
      PROVE  ReactorInv'
  BY <1>2 DEF UseLoop, QueueInLoop, RunInLoop, Quit, timerVars
<1>3. ASSUME NEW self \in Threads, FinishCall(self), UNCHANGED timerVars
      PROVE  ReactorInv'
  BY <1>3 DEF FinishCall, FinishQueueInLoop, FinishQuit, timerVars
<1>4. ASSUME NEW self \in Callers, AddTimerReturn(self)
      PROVE  ReactorInv'
  BY <1>4 DEF AddTimerReturn, vars, TQ!AddTimerReturn, TQ!fdVars
<1>5. CASE Loop /\ UNCHANGED timerVars
  BY <1>5 DEF Loop, timerVars
<1>6. CASE PollChannels \/ (PollFails /\ UNCHANGED timerVars)
  BY <1>6 DEF PollChannels, Poll, PollFails, timerVars
<1>7. CASE TimerEvent
  BY <1>7 DEF TimerEvent, HandleEvent, TQ!HandleRead
<1>8. CASE TimerStep \/ TimerReset
  <2>1. UNCHANGED <<active_channels, pc>> /\ timer_pc # "idle"
    BY <1>8 DEF TimerStep, TimerReset, vars, TQ!RunTimer, TQ!CallbackReturn, TQ!Reset
  <2> QED
    BY <2>1
<1>9. CASE WakeupEvent \/ ChannelEvent
  BY <1>9 DEF WakeupEvent, ChannelEvent, Turn, HandleRead, HandleEvent, timerVars
<1>10. CASE EventReturn
  BY <1>10 DEF EventReturn, CallbackReturn, timerVars
<1>11. CASE RunOneFunctor
  <2>1. UNCHANGED active_channels /\ pc = "run" /\ pc' = "functor"
    BY <1>11 DEF RunOneFunctor, RunFunctor
  <2>2. UNCHANGED timer_pc
    BY <1>11 DEF RunOneFunctor, TQ!RunQueuedAdd, timerVars
  <2> QED
    BY <2>1, <2>2
<1>12. CASE LoopOnly
  BY <1>12 DEF LoopOnly, ExitLoop, EnterPoll, SwapPendingFunctors, FunctorReturn,
               EndPendingFunctors, timerVars
<1>13. CASE Tick
  BY <1>13 DEF Tick, TQ!Tick, vars
<1>14. CASE UNCHANGED reactorVars
  BY <1>14 DEF reactorVars, vars, timerVars
<1> QED
  BY <1>1, <1>2, <1>3, <1>4, <1>5, <1>6, <1>7, <1>8, <1>9, <1>10, <1>11, <1>12,
     <1>13, <1>14 DEF ReactorNext, Round, PollReady, Finish

\* HandleRead never reads a timerfd that has nothing to read.
THEOREM TimerfdIsReadable == ReactorSpec => []TimerReadable
<1>1. ReactorInv => TimerReadable
  BY DEF ReactorInv, TimerReadable
<1> QED
  BY <1>1, ReactorInv_Init, ReactorInv_Next, PTL DEF ReactorSpec


-----------------------------------------------------------------------------
(* The timer queue in the reactor is a timer queue. *)

\* Every step of the reactor is one of the timer queue, or leaves it alone;
\* HandleRead, because the timerfd is still readable.
LEMMA ReactorStepIsTimerStep ==
  ReactorInv /\ [ReactorNext]_reactorVars => [TQ!Next]_(TQ!vars)
<1> SUFFICES ASSUME ReactorInv, [ReactorNext]_reactorVars
             PROVE  TQ!Next \/ UNCHANGED TQ!vars
  OBVIOUS
<1>0. UNCHANGED timerVars => UNCHANGED TQ!vars
  BY DEF timerVars, TQ!vars, TQ!entries, TQ!locals, TQ!callVars, TQ!clockVars,
         TQ!fdVars, TQ!history
<1>1. CASE ReactorNext
  <2>0. ~broken
    BY <1>1 DEF ReactorNext
  <2>1. ASSUME NEW self \in Threads, NEW t \in Timers, AddTimer(self, t)
        PROVE  TQ!Next
    BY <2>0, <2>1 DEF AddTimer, TQ!Next
  <2>2. ASSUME NEW self \in Threads, UseLoop(self)
        PROVE  UNCHANGED TQ!vars
    BY <1>0, <2>2 DEF UseLoop
  <2>3. ASSUME NEW self \in Callers, AddTimerReturn(self)
        PROVE  TQ!Next
    BY <2>0, <2>3 DEF AddTimerReturn, TQ!Next
  <2>4. CASE TimerEvent
    BY <2>0, <2>4 DEF TimerEvent, Turn, ReactorInv, TQ!Next
  <2>5. CASE TimerStep \/ TimerReset
    BY <2>0, <2>5 DEF TimerStep, TimerReset, TQ!Next
  <2>6. CASE RunOneFunctor
    BY <1>0, <2>0, <2>6 DEF RunOneFunctor, TQ!Next
  <2>7. CASE Tick
    BY <2>0, <2>7 DEF Tick, TQ!Next
  <2>8. CASE UNCHANGED timerVars
    BY <1>0, <2>8
  <2> QED
    BY <1>1, <2>1, <2>2, <2>3, <2>4, <2>5, <2>6, <2>7, <2>8
       DEF ReactorNext, Round, PollReady, Finish, PollChannels, WakeupEvent, ChannelEvent,
           EventReturn, LoopOnly
<1>2. CASE UNCHANGED reactorVars
  BY <1>0, <1>2 DEF reactorVars
<1> QED
  BY <1>1, <1>2

\* The timer queue inside the loop implements TimerQueue.
THEOREM ReactorRunsATimerQueue == ReactorSpec => ImplementsTimerQueue
<1>1. ReactorInit => TQ!Init
  BY DEF ReactorInit
<1> QED
  BY <1>1, ReactorInv_Init, ReactorInv_Next, ReactorStepIsTimerStep, PTL
     DEF ReactorSpec, ImplementsTimerQueue, TQ!Spec

-----------------------------------------------------------------------------
(* What is proved of TimerQueue holds in the reactor. *)

(* The theorems come with TimerQueue's definitions, under TP; the lemmas below say *)
(* that they are those of TQ.                                                      *)

TP == INSTANCE TimerQueue_proofs
        WITH pc <- timer_pc, pending_functors <- queued_adds, MaxSet <- 0

\* The types.
LEMMA SameTypes == TQ!TypeOK <=> TP!TypeOK
  BY DEF TQ!TypeOK, TP!TypeOK, TQ!Entry, TP!Entry

\* The initial states.
LEMMA SameInit == TQ!Init <=> TP!Init
  BY DEF TQ!Init, TP!Init

\* The variables.
LEMMA SameVars == TQ!vars = TP!vars /\ (TQ!vars)' = (TP!vars)'
  BY DEF TQ!vars, TQ!entries, TQ!locals, TQ!callVars, TQ!clockVars,
         TQ!fdVars, TQ!history, TP!vars, TP!entries, TP!locals, TP!callVars, TP!clockVars,
         TP!fdVars, TP!history

\* The steps, action by action.
LEMMA SameNext == TQ!Next <=> TP!Next
<1> USE DEF TQ!entries, TQ!locals, TQ!callVars, TQ!clockVars, TQ!fdVars, TQ!history,
            TP!entries, TP!locals, TP!callVars, TP!clockVars, TP!fdVars, TP!history
<1>1. ASSUME NEW time PROVE TQ!ResetTimerfd(time) <=> TP!ResetTimerfd(time)
  BY DEF TQ!ResetTimerfd, TP!ResetTimerfd, TQ!Settime, TP!Settime, TQ!TimeSinceNow,
         TP!TimeSinceNow, TQ!DurationSinceNow, TP!DurationSinceNow
<1>2. ASSUME NEW t, NEW when PROVE TQ!AddTimerInLoop(t, when) <=> TP!AddTimerInLoop(t, when)
  BY <1>1 DEF TQ!AddTimerInLoop, TP!AddTimerInLoop, TQ!EarliestChanged, TP!EarliestChanged
<1>3. ASSUME NEW self, NEW t, NEW when
      PROVE  TQ!AddTimer(self, t, when) <=> TP!AddTimer(self, t, when)
  BY <1>2 DEF TQ!AddTimer, TP!AddTimer
<1>4. ASSUME NEW self, NEW t, NEW when
      PROVE  /\ TQ!RunAt(self, t, when) <=> TP!RunAt(self, t, when)
             /\ TQ!RunAfter(self, t, when) <=> TP!RunAfter(self, t, when)
             /\ TQ!RunEvery(self, t) <=> TP!RunEvery(self, t)
  BY <1>3 DEF TQ!RunAt, TP!RunAt, TQ!RunAfter, TP!RunAfter, TQ!RunEvery, TP!RunEvery,
              TQ!AddTime, TP!AddTime
<1>5. ASSUME NEW self
      PROVE  TQ!AddTimerReturn(self) <=> TP!AddTimerReturn(self)
  BY DEF TQ!AddTimerReturn, TP!AddTimerReturn
<1>6. TQ!RunQueuedAdd <=> TP!RunQueuedAdd
  BY <1>2 DEF TQ!RunQueuedAdd, TP!RunQueuedAdd, TQ!FrameLives, TP!FrameLives
<1>7. TQ!HandleRead <=> TP!HandleRead
  BY DEF TQ!HandleRead, TP!HandleRead, TQ!GetExpired, TP!GetExpired
<1>8. ASSUME NEW e
      PROVE  TQ!RunTimer(e) <=> TP!RunTimer(e)
  BY DEF TQ!RunTimer, TP!RunTimer
<1>9. TQ!CallbackReturn <=> TP!CallbackReturn
  BY DEF TQ!CallbackReturn, TP!CallbackReturn
<1>10. TQ!Reset <=> TP!Reset
  BY <1>1 DEF TQ!Reset, TP!Reset, TQ!Restarted, TP!Restarted, TQ!AddTime, TP!AddTime,
              TQ!Valid, TP!Valid
<1>11. TQ!Tick <=> TP!Tick
  BY DEF TQ!Tick, TP!Tick
<1>12. ASSUME NEW time PROVE TQ!SetClock(time) <=> TP!SetClock(time)
  BY DEF TQ!SetClock, TP!SetClock
<1> QED
  BY <1>4, <1>5, <1>6, <1>7, <1>8, <1>9, <1>10, <1>11, <1>12 DEF TQ!Next, TP!Next

\* The specification.
LEMMA SameSpec == TQ!Spec => TP!Spec
<1>1. [TQ!Next]_(TQ!vars) => [TP!Next]_(TP!vars)
  BY SameNext, SameVars
<1> QED
  BY <1>1, SameInit, PTL DEF TQ!Spec, TP!Spec

\* What TimerQueue's instance assumes of the constants.
LEMMA TimerAssumptions ==
  TP!TimerThreadAssumption /\ TP!TimerAssumption /\ TP!DelayAssumption
  BY ReactorTimerAssumption
     DEF TP!TimerThreadAssumption, TP!TimerAssumption, TP!DelayAssumption

\* The timer queue's variables have their types.
LEMMA ReactorTimerTypes == ReactorSpec => []TQ!TypeOK
<1>1. TP!Spec => []TP!TypeOK
  BY TimerAssumptions, TP!TypeCorrect
<1> QED
  BY <1>1, SameSpec, SameTypes, ReactorRunsATimerQueue, PTL DEF ImplementsTimerQueue

\* In the reactor no timer is lost, the timerfd is armed in time, the set of entries
\* stays ordered, timers are kept as long as they are needed and run apart, whatever
\* functors, channel callbacks and other threads do.
THEOREM TimersHold ==
  ReactorSpec => /\ [](TQ!NoLostTimer /\ TQ!TimerfdInTime /\ TQ!EntriesMatchTimers)
                 /\ []TQ!KeptWhileNeeded
                 /\ TQ!RunsApart
<1>1. TP!Spec => /\ []TP!NoLostTimer /\ []TP!TimerfdInTime /\ []TP!EntriesMatchTimers
                 /\ []TP!KeptWhileNeeded /\ TP!RunsApart
  BY TimerAssumptions, TP!NoTimerIsLost, TP!TimerfdIsInTime, TP!EntriesStayOrdered,
     TP!TimersAreKept, TP!TimersRunApart
<1>2. /\ TP!NoLostTimer => TQ!NoLostTimer
      /\ TP!TimerfdInTime => TQ!TimerfdInTime
      /\ TP!EntriesMatchTimers => TQ!EntriesMatchTimers
  BY DEF TP!NoLostTimer, TQ!NoLostTimer, TP!TimerfdInTime, TQ!TimerfdInTime,
         TP!EntriesMatchTimers, TQ!EntriesMatchTimers
<1>3. TP!KeptWhileNeeded => TQ!KeptWhileNeeded
  BY DEF TP!KeptWhileNeeded, TQ!KeptWhileNeeded, TP!Queued, TQ!Queued, TP!Held, TQ!Held,
         TP!Waits, TQ!Waits
<1>4. TP!RunsApart => TQ!RunsApart
  <2> DEFINE Apart == \A t \in Timers :
                        runs'[t] > runs[t] /\ runs[t] > 0
                          => now - last_run[t] > Interval[t]
  <2>1. [Apart]_(TP!vars) => [Apart]_(TQ!vars)
    BY SameVars
  <2> QED
    BY <2>1, PTL DEF TP!RunsApart, TQ!RunsApart
<1> QED
  BY <1>1, <1>2, <1>3, <1>4, SameSpec, ReactorRunsATimerQueue, PTL DEF ImplementsTimerQueue

\* The service of TQ is that of TP.
LEMMA SameService == TP!ImplementsTimerService => TQ!ImplementsTimerService
<1>1. {t \in added : TQ!HasRunToCome(t)} = {t \in added : TP!HasRunToCome(t)}
  BY DEF TQ!HasRunToCome, TP!HasRunToCome, TQ!Queued, TP!Queued, TQ!Waits, TP!Waits,
         TQ!Held, TP!Held
<1>2. {t \in added : TQ!HasRunToCome(t)}' = {t \in added : TP!HasRunToCome(t)}'
  BY DEF TQ!HasRunToCome, TP!HasRunToCome, TQ!Queued, TP!Queued, TQ!Waits, TP!Waits,
         TQ!Held, TP!Held
<1>3. [t \in Timers |-> TQ!Due(t)] = [t \in Timers |-> TP!Due(t)]
  BY DEF TQ!Due, TP!Due
<1>4. [t \in Timers |-> TQ!Due(t)]' = [t \in Timers |-> TP!Due(t)]'
  BY DEF TQ!Due, TP!Due
<1>5. TP!TS!Init => TQ!TS!Init
  BY <1>1, <1>3 DEF TP!TS!Init, TQ!TS!Init
<1>6. [TP!TS!Next]_(TP!TS!vars) => [TQ!TS!Next]_(TQ!TS!vars)
  BY <1>1, <1>2, <1>3, <1>4
  DEF TP!TS!Next, TQ!TS!Next, TP!TS!Add, TQ!TS!Add, TP!TS!Run, TQ!TS!Run,
      TP!TS!ReadClock, TQ!TS!ReadClock, TP!TS!vars, TQ!TS!vars
<1> QED
  BY <1>5, <1>6, PTL DEF TP!ImplementsTimerService, TQ!ImplementsTimerService,
     TP!TS!Spec, TQ!TS!Spec

\* The loop implements the abstract timer service: for whoever calls RunAt, RunAfter
\* and RunEvery, on any thread, at any moment of a round, timers run after their time
\* and once for every time they are due.
THEOREM ReactorServesTimers == ReactorSpec => TQ!ImplementsTimerService
<1>1. TP!Spec => TP!ImplementsTimerService
  BY TimerAssumptions, TP!ServesTimers
<1> QED
  BY <1>1, SameService, SameSpec, ReactorRunsATimerQueue, PTL DEF ImplementsTimerQueue

-----------------------------------------------------------------------------
(* The functors of AddTimer in the loop's queue. *)

\* Induction over a set of naturals.
LEMMA SetInduction ==
  ASSUME NEW S, 0 \in S, \A n \in Nat : n \in S => n + 1 \in S
  PROVE  Nat \subseteq S
<1> DEFINE T == Nat \ S
           R == OpToRel(<, Nat)
<1> SUFFICES ASSUME T # {} PROVE FALSE
  OBVIOUS
<1>1. IsWellFoundedOn(R, Nat)
  BY NatLessThanWellFounded
<1>2. PICK n \in T : \A m \in T : ~ (<<m, n>> \in R)
  <2>1. T \subseteq Nat
    OBVIOUS
  <2> HIDE DEF R, T
  <2> QED
    BY <1>1, <2>1, WFMin
<1>3. n \in Nat /\ n # 0 /\ n - 1 \in Nat
  OBVIOUS
<1>4. n - 1 \in T
  BY <1>3
<1>5. <<n - 1, n>> \in R
  BY <1>3 DEF OpToRel
<1> QED
  BY <1>2, <1>4, <1>5

\* The equation of the recursive function in AddsOf.
IsAdds(adds, queue, n) ==
  adds = [k \in 0 .. n |->
            IF k = 0 THEN <<>>
            ELSE IF queue[k] \in Timers THEN Append(adds[k - 1], queue[k])
                                        ELSE adds[k - 1]]

\* There is such a function.
LEMMA AddsExist ==
  ASSUME NEW queue, NEW N \in Nat
  PROVE  \E adds : IsAdds(adds, queue, N)
<1> DEFINE S == {n \in Nat : \E adds : IsAdds(adds, queue, n)}
<1>1. 0 \in S
  <2>1. IsAdds([k \in 0 .. 0 |-> <<>>], queue, 0)
    BY DEF IsAdds
  <2> QED
    BY <2>1
<1>2. ASSUME NEW n \in Nat, n \in S
      PROVE  n + 1 \in S
  <2>1. PICK adds : IsAdds(adds, queue, n)
    BY <1>2
  <2> DEFINE last == IF queue[n + 1] \in Timers THEN Append(adds[n], queue[n + 1])
                                                ELSE adds[n]
             more == [k \in 0 .. n + 1 |-> IF k = n + 1 THEN last ELSE adds[k]]
  <2>2. \A k \in 0 .. n + 1 :
          more[k] = IF k = 0 THEN <<>>
                    ELSE IF queue[k] \in Timers THEN Append(more[k - 1], queue[k])
                                                ELSE more[k - 1]
    <3> TAKE k \in 0 .. n + 1
    <3>1. CASE k = n + 1
      <4>1. more[k] = last /\ k # 0 /\ k - 1 = n /\ more[k - 1] = adds[n]
        BY <3>1
      <4> QED
        BY <3>1, <4>1
    <3>2. CASE k = 0
      <4>1. 0 \in 0 .. n /\ more[k] = adds[0]
        BY <3>2
      <4> QED
        BY <2>1, <3>2, <4>1 DEF IsAdds
    <3>3. CASE k \in 1 .. n
      <4>1. /\ k \in 0 .. n /\ k # 0
            /\ more[k] = adds[k] /\ more[k - 1] = adds[k - 1]
        BY <3>3
      <4> HIDE DEF more
      <4> QED
        BY <2>1, <4>1 DEF IsAdds
    <3> QED
      BY <3>1, <3>2, <3>3
  <2>3. IsAdds(more, queue, n + 1)
    BY <2>2 DEF IsAdds
  <2> HIDE DEF more
  <2> QED
    BY <2>3
<1> HIDE DEF S
<1>3. N \in S
  BY <1>1, <1>2, SetInduction
<1> QED
  BY <1>3 DEF S

\* AddsOf is the last value of a function that satisfies the equation.
LEMMA AddsOfIs ==
  ASSUME NEW queue, Len(queue) \in Nat
  PROVE  \E adds : IsAdds(adds, queue, Len(queue)) /\ AddsOf(queue) = adds[Len(queue)]
<1> DEFINE adds == CHOOSE a : IsAdds(a, queue, Len(queue))
<1>1. IsAdds(adds, queue, Len(queue))
  BY AddsExist
<1>2. AddsOf(queue) = adds[Len(queue)]
  BY DEF AddsOf, IsAdds
<1> QED
  BY <1>1, <1>2

\* One value after another.
LEMMA AddsStep ==
  ASSUME NEW adds, NEW queue, NEW n \in Nat, IsAdds(adds, queue, n)
  PROVE  /\ adds[0] = <<>>
         /\ \A k \in Nat : k + 1 <= n =>
              adds[k + 1] = IF queue[k + 1] \in Timers
                            THEN Append(adds[k], queue[k + 1]) ELSE adds[k]
<1>1. 0 \in 0 .. n
  OBVIOUS
<1>2. adds[0] = <<>>
  BY <1>1 DEF IsAdds
<1>3. ASSUME NEW k \in Nat, k + 1 <= n
      PROVE  adds[k + 1] = IF queue[k + 1] \in Timers
                           THEN Append(adds[k], queue[k + 1]) ELSE adds[k]
  <2>1. k + 1 \in 0 .. n /\ k + 1 # 0 /\ (k + 1) - 1 = k
    BY <1>3
  <2>2. adds[k + 1] = IF queue[k + 1] \in Timers
                      THEN Append(adds[(k + 1) - 1], queue[k + 1])
                      ELSE adds[(k + 1) - 1]
    BY <2>1 DEF IsAdds
  <2> QED
    BY <2>1, <2>2
<1> QED
  BY <1>2, <1>3

\* No functor, no timer.
LEMMA AddsOfEmpty == AddsOf(<<>>) = <<>>
<1>1. Len(<<>>) = 0
  OBVIOUS
<1>2. PICK adds : IsAdds(adds, <<>>, 0) /\ AddsOf(<<>>) = adds[0]
  BY <1>1, AddsOfIs
<1> QED
  BY <1>2, AddsStep

\* One more functor.
LEMMA AddsOfAppend ==
  ASSUME NEW queue \in Seq(Functors), NEW f \in Functors
  PROVE  AddsOf(Append(queue, f))
           = IF f \in Timers THEN Append(AddsOf(queue), f) ELSE AddsOf(queue)
<1> DEFINE n    == Len(queue)
           more == Append(queue, f)
<1>1. /\ n \in Nat /\ Len(more) = n + 1 /\ more[n + 1] = f
      /\ \A k \in 1 .. n : more[k] = queue[k]
  BY AppendProperties, LenProperties
<1>2. PICK a : IsAdds(a, queue, n) /\ AddsOf(queue) = a[n]
  BY <1>1, AddsOfIs
<1> HIDE DEF more
<1>3. PICK b : IsAdds(b, more, n + 1) /\ AddsOf(more) = b[n + 1]
  BY <1>1, AddsOfIs
<1> HIDE DEF n
<1> DEFINE S == {k \in Nat : k <= n => a[k] = b[k]}
<1>4. 0 \in S
  BY <1>1, <1>2, <1>3, AddsStep
<1>5. ASSUME NEW k \in Nat, k \in S
      PROVE  k + 1 \in S
  <2> SUFFICES ASSUME k + 1 <= n PROVE a[k + 1] = b[k + 1]
    OBVIOUS
  <2>1. a[k + 1] = IF queue[k + 1] \in Timers THEN Append(a[k], queue[k + 1]) ELSE a[k]
    BY <1>1, <1>2, AddsStep
  <2>2. b[k + 1] = IF more[k + 1] \in Timers THEN Append(b[k], more[k + 1]) ELSE b[k]
    BY <1>1, <1>3, AddsStep
  <2>3. a[k] = b[k] /\ more[k + 1] = queue[k + 1]
    BY <1>1, <1>5
  <2> QED
    BY <2>1, <2>2, <2>3
<1> HIDE DEF S
<1>6. n \in S
  BY <1>1, <1>4, <1>5, SetInduction
<1>7. a[n] = b[n]
  BY <1>1, <1>6 DEF S
<1>8. b[n + 1] = IF f \in Timers THEN Append(b[n], f) ELSE b[n]
  BY <1>1, <1>3, AddsStep
<1> QED
  BY <1>2, <1>3, <1>7, <1>8 DEF more

\* Appending leaves the front alone.
LEMMA ConsAppend ==
  ASSUME NEW S, NEW h \in S, NEW f \in S, NEW s \in Seq(S)
  PROVE  Append(<<h>> \o s, f) = <<h>> \o Append(s, f)
<1>1. <<h>> \in Seq(S) /\ <<f>> \in Seq(S)
  OBVIOUS
<1>2. <<h>> \o s \in Seq(S)
  BY <1>1, ConcatProperties
<1>3. Append(<<h>> \o s, f) = (<<h>> \o s) \o <<f>>
  BY <1>2, AppendIsConcat
<1>4. Append(s, f) = s \o <<f>>
  BY AppendIsConcat
<1> QED
  BY <1>1, <1>3, <1>4, ConcatAssociative

\* The first functor is the first to go.
LEMMA AddsOfTail ==
  ASSUME NEW queue \in Seq(Functors), queue # <<>>
  PROVE  /\ Head(queue) \notin Timers => AddsOf(Tail(queue)) = AddsOf(queue)
         /\ Head(queue) \in Timers =>
              /\ AddsOf(queue) # <<>> /\ Head(AddsOf(queue)) = Head(queue)
              /\ AddsOf(Tail(queue)) = Tail(AddsOf(queue))
<1> DEFINE h == Head(queue)
           r == Tail(queue)
           n == Len(r)
<1>1. /\ n \in Nat /\ Len(queue) = n + 1 /\ queue[1] = h /\ h \in Functors
      /\ \A k \in 1 .. n : queue[k + 1] = r[k]
      /\ \A k \in 1 .. n : r[k] \in Functors
  <2>1. /\ r \in Seq(Functors) /\ n = Len(queue) - 1 /\ Len(queue) \in Nat
        /\ h \in Functors /\ \A k \in 1 .. n : r[k] = queue[k + 1]
    BY HeadTailProperties, LenProperties
  <2> QED
    BY <2>1, LenProperties, ElementOfSeq
<1>2. PICK a : IsAdds(a, queue, n + 1) /\ AddsOf(queue) = a[n + 1]
  BY <1>1, AddsOfIs
<1>3. PICK b : IsAdds(b, r, n) /\ AddsOf(r) = b[n]
  BY <1>1, AddsOfIs
<1> HIDE DEF h, r, n
<1> DEFINE At(k) == /\ b[k] \in Seq(Timers)
                    /\ h \in Timers => a[k + 1] = <<h>> \o b[k]
                    /\ h \notin Timers => a[k + 1] = b[k]
           S == {k \in Nat : k <= n => At(k)}
<1>4. 0 \in S
  <2>1. b[0] = <<>> /\ a[0] = <<>>
    BY <1>1, <1>2, <1>3, AddsStep
  <2>2. 0 + 1 <= n + 1 /\ 0 + 1 = 1
    BY <1>1
  <2>3. a[0 + 1] = IF queue[0 + 1] \in Timers THEN Append(a[0], queue[0 + 1]) ELSE a[0]
    BY <1>1, <1>2, <2>2, AddsStep
  <2>4. b[0] \in Seq(Timers)
    BY <2>1, EmptySeq
  <2>5. Append(<<>>, h) = <<h>> \o <<>>
    OBVIOUS
  <2>6. At(0)
    BY <1>1, <2>1, <2>2, <2>3, <2>4, <2>5
  <2> QED
    BY <2>6
<1>5. ASSUME NEW k \in Nat, k \in S
      PROVE  k + 1 \in S
  <2> SUFFICES ASSUME k + 1 <= n PROVE At(k + 1)
    OBVIOUS
  <2> DEFINE f == r[k + 1]
  <2>1. b[k + 1] = IF f \in Timers THEN Append(b[k], f) ELSE b[k]
    BY <1>1, <1>3, AddsStep
  <2>2. queue[(k + 1) + 1] = f
    BY <1>1
  <2>3. a[(k + 1) + 1] = IF f \in Timers THEN Append(a[k + 1], f) ELSE a[k + 1]
    <3>1. k + 1 \in Nat /\ (k + 1) + 1 <= n + 1 /\ n + 1 \in Nat
      BY <1>1
    <3> QED
      BY <1>2, <2>2, <3>1, AddsStep
  <2>4. At(k)
    <3> HIDE DEF At
    <3> QED
      BY <1>1, <1>5
  <2> HIDE DEF f
  <2>5. b[k + 1] \in Seq(Timers)
    BY <2>1, <2>4, AppendProperties
  <2>6. h \in Timers /\ f \in Timers =>
          Append(<<h>> \o b[k], f) = <<h>> \o Append(b[k], f)
    BY <2>4, ConsAppend
  <2>7. CASE f \in Timers
    <3>1. b[k + 1] = Append(b[k], f) /\ a[(k + 1) + 1] = Append(a[k + 1], f)
      BY <2>1, <2>3, <2>7
    <3> QED
      BY <2>4, <2>5, <2>6, <2>7, <3>1
  <2>8. CASE f \notin Timers
    <3>1. b[k + 1] = b[k] /\ a[(k + 1) + 1] = a[k + 1]
      BY <2>1, <2>3, <2>8
    <3> QED
      BY <2>4, <2>5, <3>1
  <2> QED
    BY <2>7, <2>8
<1> HIDE DEF At, S
<1>6. n \in S
  BY <1>1, <1>4, <1>5, SetInduction
<1>7. At(n)
  BY <1>1, <1>6 DEF S
<1>8. h \in Timers => /\ <<h>> \o b[n] # <<>>
                      /\ Head(<<h>> \o b[n]) = h /\ Tail(<<h>> \o b[n]) = b[n]
  BY <1>7 DEF At
<1> QED
  BY <1>2, <1>3, <1>7, <1>8 DEF h, r, At

-----------------------------------------------------------------------------
(* The two queues are one. *)

Whole == functors \o pending_functors

\* The conjunct of ReactorTypeOK that ties the parts together.
QueuedAddsInv == queued_adds = AddsOf(Whole)

\* At first both queues are empty.
LEMMA QueuedAdds_Init == ReactorInit => QueuedAddsInv
<1>1. <<>> \o <<>> = <<>>
  BY EmptySeq, ConcatEmptySeq
<1> QED
  BY <1>1, AddsOfEmpty DEF ReactorInit, Init, TQ!Init, QueuedAddsInv, Whole

\* A functor that is queued is the last of the loop's queue.
LEMMA QueueInLoopAdds ==
  ASSUME TypeOK, NEW self \in Threads, NEW f \in Functors, QueueInLoop(self, f)
  PROVE  AddsOf(Whole') = IF f \in Timers THEN Append(AddsOf(Whole), f) ELSE AddsOf(Whole)
<1>1. Whole' = Append(Whole, f)
  BY QueueInLoopIsSubmit DEF FQ!Submit, Whole
<1>2. Whole \in Seq(Functors)
  BY ConcatProperties DEF TypeOK, Whole
<1> QED
  BY <1>1, <1>2, AddsOfAppend

\* A functor that is run was the first of it.
LEMMA RunFunctorTakes ==
  ASSUME TypeOK, RunFunctor
  PROVE  /\ Whole \in Seq(Functors) /\ Whole # <<>>
         /\ Head(Whole) = Head(functors) /\ Whole' = Tail(Whole)
<1>1. Whole # <<>> /\ Whole' = Tail(Whole) /\ Append(ran, Head(Whole)) = ran'
  BY RunFunctorIsRunNext DEF FQ!RunNext, Whole
<1>2. Whole \in Seq(Functors)
  BY ConcatProperties DEF TypeOK, Whole
<1>3. /\ functors \in Seq(Functors) /\ functors # <<>> /\ ran \in Seq(Functors)
      /\ ran' = Append(ran, Head(functors))
  BY DEF TypeOK, RunFunctor
<1>4. Head(functors) \in Functors /\ Head(Whole) \in Functors
  BY <1>1, <1>2, <1>3, HeadTailProperties
<1>5. Head(Whole) = Head(functors)
  BY <1>1, <1>3, <1>4, AppendInjective
<1> QED
  BY <1>1, <1>2, <1>5

\* One step keeps them together.
LEMMA QueuedAdds_Next ==
  TypeOK /\ WorkInv /\ QueuedAddsInv /\ [ReactorNext]_reactorVars => QueuedAddsInv'
<1> SUFFICES ASSUME TypeOK, WorkInv, QueuedAddsInv, [ReactorNext]_reactorVars
             PROVE  QueuedAddsInv'
  OBVIOUS
<1>0. ASSUME UNCHANGED <<functors, pending_functors, queued_adds>>
      PROVE  QueuedAddsInv'
  BY <1>0 DEF QueuedAddsInv, Whole
<1>1. ASSUME NEW self \in Threads, NEW t \in Timers, AddTimer(self, t)
      PROVE  QueuedAddsInv'
  <2>1. \E when : TQ!AddTimer(self, t, when)
    BY <1>1 DEF AddTimer, TQ!RunAt, TQ!RunAfter, TQ!RunEvery
  <2>2. CASE self = LoopThread
    BY <1>0, <1>1, <2>1, <2>2
       DEF AddTimer, RunInLoop, TQ!AddTimer, TQ!callVars, loopVars
  <2>3. CASE self # LoopThread
    <3>1. QueueInLoop(self, t) /\ t \in Functors
      BY <1>1, <2>3 DEF AddTimer, RunInLoop
    <3>2. queued_adds' = Append(queued_adds, t)
      BY <2>1, <2>3 DEF TQ!AddTimer
    <3> QED
      BY <3>1, <3>2, QueueInLoopAdds DEF QueuedAddsInv
  <2> QED
    BY <2>2, <2>3
<1>2. ASSUME NEW self \in Threads, UseLoop(self)
      PROVE  QueuedAddsInv'
  <2>0. UNCHANGED queued_adds
    BY <1>2 DEF UseLoop, timerVars
  <2>1. ASSUME NEW f \in Functors \ Timers, QueueInLoop(self, f)
        PROVE  QueuedAddsInv'
    BY <2>0, <2>1, QueueInLoopAdds DEF QueuedAddsInv
  <2>2. ASSUME NEW f \in Functors \ Timers, RunInLoop(self, f)
        PROVE  QueuedAddsInv'
    BY <1>0, <2>0, <2>1, <2>2 DEF RunInLoop, loopVars
  <2>3. CASE Quit(self)
    BY <1>0, <2>0, <2>3 DEF Quit, loopVars, queueVars
  <2> QED
    BY <1>2, <2>1, <2>2, <2>3 DEF UseLoop
<1>3. CASE RunOneFunctor
  <2>1. RunFunctor
    BY <1>3 DEF RunOneFunctor
  <2>2. /\ Whole \in Seq(Functors) /\ Whole # <<>>
        /\ Head(Whole) = Head(functors) /\ Whole' = Tail(Whole)
    BY <2>1, RunFunctorTakes
  <2>3. CASE Head(functors) \in Timers
    <3>1. queued_adds' = Tail(queued_adds)
      BY <1>3, <2>3 DEF RunOneFunctor, TQ!RunQueuedAdd
    <3> QED
      BY <2>2, <2>3, <3>1, AddsOfTail DEF QueuedAddsInv
  <2>4. CASE Head(functors) \notin Timers
    <3>1. queued_adds' = queued_adds
      BY <1>3, <2>4 DEF RunOneFunctor, timerVars
    <3> QED
      BY <2>2, <2>4, <3>1, AddsOfTail DEF QueuedAddsInv
  <2> QED
    BY <2>3, <2>4
<1>4. CASE SwapPendingFunctors /\ UNCHANGED timerVars
  <2>1. Whole' = Whole
    BY <1>4, SwapIsStutter DEF FQ!vars, Whole
  <2> QED
    BY <1>4, <2>1 DEF QueuedAddsInv, timerVars
<1> USE <1>0 DEF loopVars, queueVars
<1>5. ASSUME NEW self \in Threads, FinishCall(self), UNCHANGED timerVars
      PROVE  QueuedAddsInv'
  BY <1>5 DEF FinishCall, FinishQueueInLoop, FinishQuit, timerVars
<1>6. ASSUME NEW self \in Callers, AddTimerReturn(self)
      PROVE  QueuedAddsInv'
  BY <1>6 DEF AddTimerReturn, TQ!AddTimerReturn, vars
<1>7. CASE Loop /\ UNCHANGED timerVars
  BY <1>7 DEF Loop, timerVars
<1>8. CASE PollChannels \/ (PollFails /\ UNCHANGED timerVars)
  BY <1>8 DEF PollChannels, Poll, PollFails, timerVars
<1>9. CASE TimerEvent
  BY <1>9 DEF TimerEvent, HandleEvent, TQ!HandleRead, TQ!callVars
<1>10. CASE TimerStep \/ TimerReset
  BY <1>10 DEF TimerStep, TimerReset, TQ!RunTimer, TQ!CallbackReturn, TQ!Reset,
               TQ!callVars, vars
<1>11. CASE WakeupEvent \/ ChannelEvent \/ EventReturn
  BY <1>11 DEF WakeupEvent, ChannelEvent, EventReturn, HandleRead, HandleEvent,
               CallbackReturn, timerVars
<1>12. CASE (ExitLoop \/ EnterPoll \/ FunctorReturn \/ EndPendingFunctors)
              /\ UNCHANGED timerVars
  BY <1>12 DEF ExitLoop, EnterPoll, FunctorReturn, EndPendingFunctors, timerVars
<1>13. CASE Tick
  BY <1>13 DEF Tick, TQ!Tick, TQ!callVars, vars
<1>14. CASE UNCHANGED reactorVars
  BY <1>14 DEF reactorVars, vars, timerVars
<1> QED
  BY <1>1, <1>2, <1>3, <1>4, <1>5, <1>6, <1>7, <1>8, <1>9, <1>10, <1>11, <1>12,
     <1>13, <1>14 DEF ReactorNext, Round, PollReady, Finish, LoopOnly

\* The types of the reactor, and its two queues agree: the functors of AddTimer that
\* the timer queue waits for are the ones in the loop's queue, in the same order.
THEOREM ReactorTypeCorrect == ReactorSpec => []ReactorTypeOK
<1>1. ReactorSpec => [](TypeOK /\ WorkInv)
  BY ReactorRunsAnEventLoop, TypeCorrect, WorkInvariant, PTL
<1>2. TypeOK /\ QueuedAddsInv /\ TQ!TypeOK => ReactorTypeOK
  BY DEF QueuedAddsInv, ReactorTypeOK, Whole
<1> QED
  BY <1>1, <1>2, QueuedAdds_Init, QueuedAdds_Next, ReactorTimerTypes, PTL DEF ReactorSpec

\* What is proved of EventLoop holds in the reactor.
THEOREM LoopHolds ==
  ReactorSpec => /\ [](NoLostWakeup /\ NoLostQuit /\ CleanExit /\ WakeupReadable)
                 /\ ImplementsFunctorQueue
  BY ReactorRunsAnEventLoop, NoWakeupIsLost, NoQuitIsLost, LoopExitsClean,
     WakeupIsReadable, RunsFunctorsInOrder, PTL

=============================================================================
