\* test6.cpp: the block that declares loopThread is left and "exit main" printed.
CONSTANTS
  LoopThread = loop_thread
  Owner = owner_thread
  WakeupChannel = wakeup
  Callers = {owner_thread}
  Functors = {f}
  Channels = {}
  EventfdMax = 1
SPECIFICATION ThreadSpec
CHECK_DEADLOCK FALSE
PROPERTIES DtorReturns
