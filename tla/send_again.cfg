SPECIFICATION StringsSpec
CONSTANTS
  Dest = {d1, d2}
  Chars <- SomeChars
  NL = NL
  MaxLine = 3
  Vectors <- SomeVectors
  MaxSends = 4
SYMMETRY DestSymmetry
INVARIANTS
  BuffersAreFreed
CHECK_DEADLOCK FALSE
