SPECIFICATION FairSpec
CONSTANTS
  Threads = {t1}
  MaxAddr = 2
  MaxTimers = 2
  Intervals = {0, 1}
  MaxTime = 3
  Early = 1
INVARIANTS SetsAgree NeverComesBack
PROPERTY TimersRun
