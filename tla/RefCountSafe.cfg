\* Two heap values and a constant, at most four references, main and two tasks;
\* a caller leaves what its tasks captured alone until it has joined them.
SPECIFICATION Spec
CONSTANTS
  main = main  a = a  b = b  o1 = o1  o2 = o2  s1 = s1
  r1 = r1  r2 = r2  r3 = r3  r4 = r4
  Tasks = {main, a, b}
  Root = main
  Parent <- Fork2
  Objs = {o1, o2}
  Static = {s1}
  Refs = {r1, r2, r3, r4}
  NoObj = NoObj
  NoRef = NoRef
  CallerKeepsLent = TRUE
SYMMETRY Sym
INVARIANTS TypeOK CountExact NoUseAfterFree DestroyedOnce NoLeak
CHECK_DEADLOCK FALSE
