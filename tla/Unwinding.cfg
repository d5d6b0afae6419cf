CONSTANTS
  Threads = {main, worker}
  main = main
  worker = worker
  Main = main
  Addresses = {10, 20}
  MaxSpans = 2
  MaxRoots = 2
  Budgets <- MCBudgets
SPECIFICATION Spec
INVARIANTS TrapsAreFrames StructuredUnlessCut SpanFollowsCalls RootsAreOwn
PROPERTY TaskEnds
CHECK_DEADLOCK FALSE
