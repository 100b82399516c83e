------------------------------ MODULE Reactor -------------------------------
(***************************************************************************)
(* The loop with its timer queue (reactor/s03, the same files in s04): one *)
(* thread that polls, runs expired timers, dispatches the other channels   *)
(* and runs functors, and threads that queue functors, add timers and      *)
(* quit.                                                                   *)
(*                                                                         *)
(* EventLoop and TimerQueue leave open what this module ties together: the *)
(* timerfd is one of the loop's channels and the first to be dispatched,   *)
(* the functor of a timer added on another thread goes through the loop's  *)
(* queue, timers are added by functors and callbacks, which queue functors *)
(* and quit in turn.  An action is an action of each part, or of one of    *)
(* them while the other stands still.                                      *)
(***************************************************************************)
EXTENDS EventLoop

CONSTANTS
  TimerChannel,                        \* timer_channel of the TimerQueue
  Timers, NoTimer, Interval, MinDelay, \* as in TimerQueue; the name of a timer
  Whens, Delays, MaxClock              \* is also that of its AddTimer functor

ASSUME ReactorAssumption == TimerChannel \in Channels /\ Timers \subseteq Functors
ASSUME ReactorTimerAssumption ==
  /\ NoTimer \notin Timers /\ Interval \in [Timers -> Nat]
  /\ MinDelay \in Nat \ {0} /\ Whens \subseteq Nat /\ Delays \subseteq Nat
  /\ MaxClock \in Nat

VARIABLES
  timers, expiration, timer_pc, now, expired, to_run, queued_adds, frame,
  clock, set_count, fd_left, fd_ready, added, runs, last_run, broken

timerVars == <<timers, expiration, timer_pc, now, expired, to_run, queued_adds,
               frame, clock, set_count, fd_left, fd_ready, added, runs, last_run,
               broken>>

\* timer_pc is where HandleRead is; queued_adds are the functors of AddTimer
\* among those of the loop.
TQ == INSTANCE TimerQueue
        WITH pc <- timer_pc, pending_functors <- queued_adds, MaxSet <- 0

\* The functors of AddTimer among those of a queue, in their order.
AddsOf(queue) ==
  LET Adds[n \in 0 .. Len(queue)] ==
        IF n = 0 THEN <<>>
        ELSE IF queue[n] \in Timers THEN Append(Adds[n - 1], queue[n]) ELSE Adds[n - 1]
  IN Adds[Len(queue)]

ReactorTypeOK ==
  /\ TypeOK
  /\ TQ!TypeOK
  /\ queued_adds = AddsOf(functors \o pending_functors)

ReactorInit == Init /\ TQ!Init

-----------------------------------------------------------------------------
(* What users do. *)

\* On the loop thread users' code is not running between two timers, nor in the
\* functor of AddTimer; on another thread, not inside AddTimer.
InUserCode(self) ==
  IF self = LoopThread
  THEN timer_pc # "run" /\ (pc = "functor" => ran[Len(ran)] \notin Timers)
  ELSE frame[self] = NoTimer

\* RunAt, RunAfter and RunEvery: RunInLoop decides where the timer is added.
AddTimer(self, t) ==
  /\ InUserCode(self)
  /\ RunInLoop(self, t)
  /\ \/ \E when \in Whens : TQ!RunAt(self, t, when)
     \/ \E delay \in Delays : TQ!RunAfter(self, t, delay)
     \/ TQ!RunEvery(self, t)

AddTimerReturn(self) ==
  /\ call[self] = "none"
  /\ UNCHANGED vars
  /\ TQ!AddTimerReturn(self)

UseLoop(self) ==
  /\ InUserCode(self)
  /\ \/ \E f \in Functors \ Timers : QueueInLoop(self, f) \/ RunInLoop(self, f)
     \/ Quit(self)
  /\ UNCHANGED timerVars

-----------------------------------------------------------------------------
(* A round of the loop. *)

\* Mutant: the timer queue's constructor does not enable reading.
PollWithoutTimerfd ==
  /\ \E others \in SUBSET (Channels \ {TimerChannel}) : Poll(others)
  /\ UNCHANGED timerVars

\* Mutant: every pollfd is taken for an event.
PollTakesAll == Poll(Channels) /\ UNCHANGED timerVars

\* The timerfd is one of the descriptors ::poll looks at.
PollChannels ==
  /\ \E others \in SUBSET (Channels \ {TimerChannel}) :
       Poll(others \cup (IF fd_ready THEN {TimerChannel} ELSE {}))
  /\ UNCHANGED timerVars

PollReady == (fd_ready \/ wakeup_fd > 0) /\ PollChannels

\* Mutant: the order of the channels is left to chance.
AnyTurn(ch) == ch \in active_channels

\* EventLoop's constructor initialises timer_queue, whose constructor registers its
\* channel, before its body enables the wakeup channel; users' channels come later.
\* The list of active channels has the order of registration (Poller!InOrder).
Turn(ch) ==
  /\ ch \in active_channels
  /\ ch # TimerChannel => TimerChannel \notin active_channels
  /\ ch \notin {TimerChannel, WakeupChannel} => WakeupChannel \notin active_channels

\* TimerQueue::HandleRead up to the first timer.
TimerEvent ==
  /\ Turn(TimerChannel)
  /\ HandleEvent(TimerChannel)
  /\ TQ!HandleRead

\* The rest of it, inside the callback of the loop.
TimerStep ==
  /\ UNCHANGED vars
  /\ \/ \E e \in to_run : TQ!RunTimer(e)
     \/ call[LoopThread] = "none" /\ TQ!CallbackReturn

TimerReset == UNCHANGED vars /\ TQ!Reset

WakeupEvent == Turn(WakeupChannel) /\ HandleRead /\ UNCHANGED timerVars

ChannelEvent ==
  /\ \E ch \in Channels \ {TimerChannel} : Turn(ch) /\ HandleEvent(ch)
  /\ UNCHANGED timerVars

EventReturn == timer_pc = "idle" /\ CallbackReturn /\ UNCHANGED timerVars

\* Mutant: the functor of AddTimer is taken for one of the user's.
RunAnyFunctor == RunFunctor /\ UNCHANGED timerVars

\* A functor of AddTimer adds its timer, any other is free.
RunOneFunctor ==
  /\ RunFunctor
  /\ IF Head(functors) \in Timers THEN TQ!RunQueuedAdd ELSE UNCHANGED timerVars

\* The steps of Loop() that the timer queue has no part in.
LoopOnly ==
  /\ ExitLoop \/ EnterPoll \/ SwapPendingFunctors \/ FunctorReturn \/ EndPendingFunctors
  /\ UNCHANGED timerVars

\* What the loop thread does by itself while something is ready.
Round ==
  \/ PollReady
  \/ TimerEvent
  \/ TimerStep \/ TimerReset
  \/ WakeupEvent
  \/ ChannelEvent
  \/ EventReturn
  \/ RunOneFunctor
  \/ LoopOnly
  \/ FinishCall(LoopThread) /\ UNCHANGED timerVars

\* A caller in the middle of a call.
Finish(self) ==
  \/ FinishCall(self) /\ UNCHANGED timerVars
  \/ AddTimerReturn(self)

Tick == TQ!Tick /\ UNCHANGED vars

ReactorNext ==
  /\ ~broken
  /\ \/ \E self \in Threads :
          \/ \E t \in Timers : AddTimer(self, t)
          \/ UseLoop(self)
     \/ \E self \in Callers : Finish(self)
     \/ Loop /\ UNCHANGED timerVars
     \/ Round
     \/ ~fd_ready /\ wakeup_fd = 0 /\ PollChannels
     \/ PollFails /\ UNCHANGED timerVars
     \/ Tick

reactorVars == <<vars, timerVars>>

\* As in EventLoop, and time passes.  No fairness for a poll that finds neither
\* the timerfd nor the eventfd readable, and ::poll does not fail for ever.
ReactorSpec ==
  /\ ReactorInit /\ [][ReactorNext]_reactorVars
  /\ WF_reactorVars(~broken /\ Round)
  /\ SF_reactorVars(~broken /\ PollReady)
  /\ \A self \in Callers : WF_reactorVars(~broken /\ Finish(self))
  /\ WF_reactorVars(~broken /\ Tick)

-----------------------------------------------------------------------------
\* The timerfd that ::poll found readable is still readable when HandleRead gets
\* to it: nothing that runs in between arms it again, so the read does not fail
\* and the trace record does not print an uninitialised howmany (TimerQueue.cpp
\* lines 56-63, 96-100, 151; EventLoop.cpp 76-79).
TimerReadable == TimerChannel \in active_channels => fd_ready

\* The timer queue inside the loop behaves as TimerQueue says, so what is proved
\* of it holds here: whatever functors, callbacks and other threads do.
ImplementsTimerQueue == TQ!Spec

\* Timers whose time the instance, which ends at MaxClock, lets pass are run in
\* the end, all of them, although functors, channels and other timers keep the
\* loop busy, and without help from the poll timeout.
Due == \E e \in timers \cup to_run : e.when < MaxClock

TimersRun == looping /\ Due ~> ~Due \/ quit \/ broken

=============================================================================
