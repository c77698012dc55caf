SPECIFICATION FairSpec
CONSTANTS
  Clients = {c1, c2, c3}
  MaxDescriptors = 3
  MaxOthers = 1
  ThreadNums = {0, 2}
INVARIANTS ConnectionsMatch RoundRobin
PROPERTIES EveryClientAnswered EveryConnectionEnds
CHECK_DEADLOCK FALSE
