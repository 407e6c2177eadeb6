CONSTANTS
  MaxU32 = 15
  MaxU64 = 1023
  LOCK_TIME_THRESHOLD = 5
  HashLength = 2
  MaxAmount = 63
  Btc = 7
  Amounts <- MCAmounts
  Coins <- MCCoins
  ComponentSize = 2
  Answers <- MCAnswers
  Keys <- MCKeys
  a = a
  b = b
  NoAccount = NoAccount
  Default = Default
  Settable <- MCSettable
  MaxSets <- MCMaxSets
  Orders <- MCOrders
  MaxReads = 3
SPECIFICATION Spec
INVARIANT SignatureIsDer
CHECK_DEADLOCK FALSE
