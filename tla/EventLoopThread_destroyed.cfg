\* test6.cpp: Quit() by the owner, then the destructor of loopThread.
CONSTANTS
  LoopThread = loop_thread
  Owner = owner_thread
  WakeupChannel = wakeup
  Callers = {owner_thread}
  Functors = {f}
  Channels = {}
  EventfdMax = 1
SPECIFICATION ThreadSpec
CHECK_DEADLOCK FALSE
INVARIANTS NoUseAfterDestroy
