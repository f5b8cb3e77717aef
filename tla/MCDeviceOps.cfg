SPECIFICATION FairSpec
CONSTANTS
  Udid = u1
  MaxOps = 2
INVARIANTS AppliedAsReported NoLateEffect
PROPERTY OperationsReturn
CHECK_DEADLOCK FALSE
