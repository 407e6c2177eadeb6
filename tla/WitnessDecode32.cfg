CONSTANTS
  IndexWidth = 2
  OneByteMax = 1
  ThreeByteMax = 2
  FiveByteMax = 31
  Counts <- MCCounts32
  Sizes <- MCSizes32
  MaxVecSize = 12
  Slack = 2
  IndexMax = 15
  UsizeMax = 31
SPECIFICATION FairSpec
INVARIANTS
  SlicesInBounds
  IteratesReceived
