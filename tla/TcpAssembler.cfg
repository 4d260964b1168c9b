SPECIFICATION Spec
CONSTANTS
  Modulus = 16
  Limit = 5
  MaxPending = 3
  First = 12
  Size = 9
  Stream <- MCStream
  Alter <- MCAlter
  Forged = 99
  FinAt <- MCFinAt
  SegmentMax = 3
  Window = 7
INVARIANTS TypeOK InOrder Prompt ClosedComplete
PROPERTIES FailsForCause
CHECK_DEADLOCK FALSE
