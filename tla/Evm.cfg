SPECIFICATION Spec
CONSTANTS
  Transactions <- MCTransactions
  Signatures <- MCSignatures
  Initial <- MCInitial
  Assignable <- MCAssignable
  Answers <- MCAnswers
  MaxRequests = 2
  Documents <- MCDocuments
  MaxU64 = 99
  MaxU128 = 999
  AddressLength = 2
INVARIANTS
  ReadsBack
  AcceptedExactlyIfFresh
  AsWritten
PROPERTIES
  Termination
  Authorized
CHECK_DEADLOCK FALSE
