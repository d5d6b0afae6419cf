\* main and two workers, a ring of two slots, five tasks on three levels.
SPECIFICATION Spec
CONSTANTS
  r = r  a = a  b = b  c = c  d = d
  main = main  w1 = w1  w2 = w2
  Tasks = {r, a, b, c, d}
  Root = r
  Parent <- Tree
  Main = main
  Workers = {w1, w2}
  QueueSize = 2
  NoTask = NoTask
SYMMETRY TwoWorkers
INVARIANTS TypeOK QueueExact HandleLive EnvironmentLive NoLostWakeup NoCircularWait
PROPERTY ImplementsForkJoin
