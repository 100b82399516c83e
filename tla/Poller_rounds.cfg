\* Three channels on three descriptors; the user's channel has both callbacks set, the
\* others only the one for reading.
CONSTANTS
  user = user
  Channels = {timer, wakeup, user}
  NoChannel = none
  Fds = {3, 4, 5}
  Callbacks <- MCCallbacks
  Conditions <- MCConditions
  MayDestroy = FALSE
SPECIFICATION FairSpec
INVARIANTS TypeOK PollerConsistent NewFdIsUnknown InOrder
PROPERTIES PollFindsAll ReadableIsRead
