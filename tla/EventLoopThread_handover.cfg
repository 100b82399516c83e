\* The owner and one thread it shares the loop with: the hand-over and the end.
CONSTANTS
  LoopThread = loop_thread
  Owner = owner_thread
  WakeupChannel = wakeup
  Callers = {owner_thread, a}
  Functors = {f, g}
  Channels = {ch}
  EventfdMax = 2
SPECIFICATION ThreadSpec
\* The program ends: destructor done, or stopped at undefined behaviour.
CHECK_DEADLOCK FALSE
INVARIANTS ThreadTypeOK StartLoopReturnsLoop LoopLivesUntilQuit
PROPERTIES StartLoopReturns DtorOfRunningLoopReturns
