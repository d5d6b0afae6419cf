CONSTANTS
  Callee <- MCCallee
  Forms <- MCForms
  Threshold = 6
  MaxParallelDepth = 1
  Sizes <- MCSizesTwo
SPECIFICATION Spec
INVARIANT VerifiedIsMemorySafe
CHECK_DEADLOCK FALSE
