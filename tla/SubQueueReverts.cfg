CONSTANTS
  c1 = c1
  c2 = c2
  b1 = b1
  b2 = b2
  b3 = b3
  Consumers <- MCConsumers
  Blocks <- MCBlocks
  Kinds <- ExplicitOnly
  BlockSize = 2
  IndexMod = 16
  MaxBulk = 3
  IndexSize = 2
  MaxHeaders = 2
  MaxTail = 8
SYMMETRY Symmetry
SPECIFICATION Spec
INVARIANT DestructorTakesRest
