SPECIFICATION FairThreadSpec
CONSTANTS
  LoopThread = io
  Threads = {main, t1}
  Owner = main
  Channels = {c1}
  MaxCalls = 1
  EarlyQueue = TRUE
INVARIANT StartedLoopIsPublished
PROPERTIES StartLoopReturns QuitWhileLoopingJoins
