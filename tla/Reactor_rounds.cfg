\* One caller and the loop thread, a functor and two timers, a user's channel.
CONSTANTS
  LoopThread = loop
  Callers = {a}
  once = once
  again = again
  Functors = {once, again, f}
  Timers = {once, again}
  NoTimer = none
  Channels = {timer, user}
  TimerChannel = timer
  WakeupChannel = wakeup
  EventfdMax = 1
  Interval <- MCInterval
  MinDelay = 1
  Whens = {0}
  Delays = {1}
  MaxClock = 3
SPECIFICATION ReactorSpec
\* The model stops at a dangling reference.
CHECK_DEADLOCK FALSE
INVARIANTS ReactorTypeOK TimerReadable
PROPERTIES ImplementsTimerQueue TimersRun
