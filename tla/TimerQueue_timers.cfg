\* Timers added on the loop thread and another one; the clock is set once.
CONSTANTS
  LoopThread = loop
  Callers = {a}
  once = once
  again = again
  Timers = {once, again}
  NoTimer = none
  Interval <- MCInterval
  MinDelay = 2
  Whens = {0, 2, 5}
  Delays = {0, 3}
  MaxClock = 9
  MaxSet = 1
SPECIFICATION Spec
\* The clock of the instance ends, or the model stops at a dangling reference.
CHECK_DEADLOCK FALSE
INVARIANTS TypeOK NoLostTimer TimerfdInTime EntriesMatchTimers
PROPERTIES ImplementsTimerService
