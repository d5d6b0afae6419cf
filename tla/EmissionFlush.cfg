\* main, a task it joins and one a trap made it abandon, one emission each, of a
\* span or of a string constant.
SPECIFICATION FairSpec
CONSTANTS
  main = main  a = a  z = z
  b1 = b1  b2 = b2  b3 = b3
  Producers = {main, a, z}
  Main = main
  Abandoned = {z}
  Blocks = {b1, b2}
  Null = Null
  Sources = {"span", "literal"}
  MaxEmits = 1
PROPERTIES EmittedIsWritten WaitAllReturns
