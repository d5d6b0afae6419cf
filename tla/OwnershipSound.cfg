CONSTANTS
  Callee <- MCCallee
  Forms <- MCForms
  Threshold = 6
  MaxParallelDepth = 1
  Sizes <- MCSizes
SPECIFICATION Spec
INVARIANTS TypeOK MemorySafe NoLeak ComputesMeaning VerifiedCompiles
CHECK_DEADLOCK FALSE
