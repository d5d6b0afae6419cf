\* main, a task it joins and one a trap made it abandon; three blocks, so that
\* one is reused while two are on the list; two emissions each.
SPECIFICATION Spec
CONSTANTS
  main = main  a = a  z = z
  b1 = b1  b2 = b2  b3 = b3
  Producers = {main, a, z}
  Main = main
  Abandoned = {z}
  Blocks = {b1, b2, b3}
  Null = Null
  Sources = {"span"}
  MaxEmits = 2
SYMMETRY AnyBlock
INVARIANTS TypeOK ListExact ArgumentLive NoMissedSignal
PROPERTY ImplementsOutbox
