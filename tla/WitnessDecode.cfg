CONSTANTS
  IndexWidth = 2
  OneByteMax = 1
  ThreeByteMax = 2
  FiveByteMax = 31
  Counts <- MCCounts
  Sizes <- MCSizes
  MaxVecSize = 12
  Slack = 2
  IndexMax = 15
  UsizeMax = 63
SPECIFICATION FairSpec
INVARIANTS
  BoundedMemory
  PacksLikeFromSlice
  ReencodesReceived
PROPERTY Termination
