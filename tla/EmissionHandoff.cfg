\* The same program with oe operators whose argument is a string it owns.
SPECIFICATION Spec
CONSTANTS
  main = main  a = a  z = z
  b1 = b1  b2 = b2  b3 = b3
  Producers = {main, a, z}
  Main = main
  Abandoned = {z}
  Blocks = {b1, b2, b3}
  Null = Null
  Sources = {"span", "literal", "value"}
  MaxEmits = 2
INVARIANT ArgumentLive
