SPECIFICATION FairSpec
CONSTANTS
  Users = {t1, t2}
  IOThread = io
  ShutdownThreads = {io, t1}
  MsgLens = {1, 2}
  MaxBytes = 2
  MaxUnread = 1
  HighWaterMark = 1
INVARIANTS StreamIntact PollOutIffBuffered CallbacksQueued WatchedIsAlive DownIsFinal
PROPERTIES FinAfterBuffer PeerEndsConnection ShutdownCompletes
