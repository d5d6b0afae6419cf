CONSTANTS
  Callee <- MCCallee
  Forms <- MCFormsCapture
  Threshold = 6
  MaxParallelDepth = 1
  Sizes <- MCSizesCapture
SPECIFICATION Spec
INVARIANT ReferencesKeepDistance
CHECK_DEADLOCK FALSE
