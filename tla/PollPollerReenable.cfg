SPECIFICATION FairSpec
CONSTANTS
  Fds = {0, 1}
  kInitEventListSize = 1
PROPERTY PollReadyIsReported
