\* main and one worker, a ring of one slot, forks nested three deep.
SPECIFICATION FairSpec
CONSTANTS
  r = r  a = a  b = b  c = c  d = d
  main = main  w1 = w1  w2 = w2
  Tasks = {r, a, b, c, d}
  Root = r
  Parent <- Chain
  Main = main
  Workers = {w1}
  QueueSize = 1
  NoTask = NoTask
PROPERTY ForkLeadsToJoin
