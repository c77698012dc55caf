SPECIFICATION Spec
CONSTANTS
  Users = {t1}
  IOThread = io
  ShutdownThreads = {io}
  MsgLens = {1}
  MaxBytes = 1
  MaxUnread = 1
  HighWaterMark = 2
INVARIANT SendIsSafe
