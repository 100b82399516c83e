\* Two callers and the loop thread, three submissions, one ordinary channel; nothing
\* rests on the poll timeout.
CONSTANTS
  LoopThread = loop
  Callers = {a, b}
  Functors = {f, g, h}
  Channels = {ch}
  WakeupChannel = wakeup
  EventfdMax = 2
SPECIFICATION WakeupSpec
INVARIANTS TypeOK NoLostWakeup NoLostQuit CleanExit
PROPERTIES QuitStopsLoop QueuedFunctorRuns ImplementsFunctorQueue ServesItsQueue
