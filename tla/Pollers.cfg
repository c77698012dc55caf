SPECIFICATION FairSpec
CONSTANTS
  Fds = {0, 1, 2}
  kInitEventListSize = 1
INVARIANTS PollIndexed OnlyUnusedAborts
PROPERTIES EPollImplementsPoller ReadyIsReported
