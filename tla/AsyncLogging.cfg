SPECIFICATION FairSpec
CONSTANTS
  rollSize = 1
  flushInterval = 0
  checkEveryN = 2
  kRollPerSeconds = 2
  MaxTime = 3
  BufferSize = 1
  MaxBuffers = 3
  MaxLines = 5
INVARIANTS LinesKept FilesRoll
PROPERTIES LinesReachDisk StopReturns
CHECK_DEADLOCK FALSE
