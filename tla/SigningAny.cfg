CONSTANTS
  NumInputs = 2
  MaxRequests = 2
  OutPoints = {op1, op2}
  Sequences = {seq1}
  Outputs = {outs}
  LockTimes = {lt}
  Code = code
  Value = value
  Collect = FALSE
CONSTRAINT SignatureUsedOnce
SYMMETRY Symmetry
SPECIFICATION Spec
INVARIANTS
  TypeOK
  SegwitPayloadsCommitted
  LegacyPayloadsCommitted
PROPERTY AttachIsLocal
