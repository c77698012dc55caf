SPECIFICATION FairSpec
CONSTANTS
  LoopThread = io
  Threads = {t1, t2}
  Channels = {c1}
  MaxCalls = 2
  EarlyQueue = FALSE
INVARIANTS NoLostWakeup NoLostQuit
PROPERTIES ImplementsQueue QueuedFunctorsRun
