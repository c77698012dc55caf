SPECIFICATION FairSpec
CONSTANTS
  Fds = {1, 2, 3}
  kInitRetryDelay = 1
  kMaxRetryDelay = 3
INVARIANTS OneAttempt SocketsOwned StopIsFinal
PROPERTY Reconnects
CHECK_DEADLOCK FALSE
