CONSTANTS
  k0 = k0
  k1 = k1
  v0 = v0
  v1 = v1
  Keys <- MCKeys
  Values <- MCValues
  NoValue = NoValue
  EmptyKey = k0
  EmptyVal = v0
  Commands <- MCCommands
  MaxCmds = 2
  Orderly = FALSE
  MaxArrivals = 3
SPECIFICATION StartedSpec
INVARIANTS RightCallback OnceEach
CHECK_DEADLOCK FALSE
