CONSTANTS
  Radix = 12
  MaxDepth = 20
  Transactions <- MCTransactions
  Foreign <- MCForeign
  Forms <- MCForms
  MaxPosts = 2
  Initial <- MCInitial
  Assignable <- MCAssignable
  SignerKey <- SecpKey
  Answers <- MCAnswers
  Noise = {1}
  MaxRequests = 2
  ED25519_PUBLIC_KEY_LENGTH = 1
  SECP256K1_PUBLIC_KEY_LENGTH = 2
  COMPONENT_SIZE = 1
  SECP256K1_SIGNATURE_LENGTH = 3
  HASH_LENGTH = 1
  Cells = {0, 1}
  MaxLength = 4
  MaxHops = 3
SPECIFICATION Spec
INVARIANT WrittenIsRead
CHECK_DEADLOCK FALSE
