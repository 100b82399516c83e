\* test6.cpp: RunAfter called on the thread that does not run the loop.
CONSTANTS
  LoopThread = loop
  Callers = {a}
  once = once
  again = again
  Timers = {once}
  NoTimer = none
  Interval <- MCInterval
  MinDelay = 1
  Whens = {}
  Delays = {2}
  MaxClock = 5
  MaxSet = 0
SPECIFICATION Spec
CHECK_DEADLOCK FALSE
INVARIANTS QueuedAddFindsTimer
