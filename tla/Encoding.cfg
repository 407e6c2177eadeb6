CONSTANTS
  Radix = 5
  MaxVecSize = 40
  UsizeWidth = 8
  Transactions <- MCTransactions
  ChunkSize = 3
  Lengths <- MCLengths
  Streams <- MCStreams
SPECIFICATION Spec
INVARIANTS
  ArrivesWhole
  NoPrefixAccepted
  AcceptedIsCanonical
  PartsReadBack
  BoundedAllocation
  ReadsExactly
  RefusesOnlyShort
PROPERTY Termination
