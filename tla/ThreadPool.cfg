SPECIFICATION FairSpec
CONSTANTS
  Main = m
  Others = {p1}
  Workers = {w1, w2}
  maxQueueSize = 1
  MaxTasks = 2
INVARIANT TasksInOrder
PROPERTIES StopReturns RunReturns
CHECK_DEADLOCK FALSE
