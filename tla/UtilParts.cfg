CONSTANTS
  x1 = x1
  x2 = x2
  x3 = x3
  y1 = y1
  y2 = y2
  t1 = t1
  k1 = k1
  n1 = n1
  n2 = n2
  n3 = n3
  Consumers <- MCConsumers
  Blocks <- MCBlocks
  Kinds <- BothKinds
  BlockSize = 2
  IndexMod = 16
  MaxBulk = 3
  IndexSize = 2
  MaxHeaders = 2
  MaxTail = 6
SYMMETRY Symmetry
SPECIFICATION PartsSpec
INVARIANTS
  
  
  
  ClaimsExact
  BlocksAccounted
  SearchesEnd
  ProducersKept
  ListWalked
  QueuesApart
  RingExact
  LocksHold
  NoFalseNegative
  BuffersApart
  SettingsRead
CHECK_DEADLOCK FALSE
