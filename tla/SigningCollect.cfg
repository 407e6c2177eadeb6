CONSTANTS
  NumInputs = 3
  MaxRequests = 3
  OutPoints = {op1, op2, op3}
  Sequences = {seq1}
  Outputs = {outs}
  LockTimes = {lt}
  Code = code
  Value = value
  Collect = TRUE
SPECIFICATION FairSpec
INVARIANT NeverRejected
PROPERTIES
  ImplementsIdeal
  Termination
