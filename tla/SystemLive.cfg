CONSTANTS
  k0 = k0
  k1 = k1
  v0 = v0
  v1 = v1
  Keys <- MCKeys
  Values <- MCValues
  NoValue = NoValue
  EmptyKey = k0
  EmptyVal = v0
  Commands <- MCCommands
  MaxCmds = 2
  Orderly = TRUE
  MaxArrivals = 1
SPECIFICATION AllSpec
INVARIANTS AnswersFollowScript
PROPERTIES AllAnswered Reopens
CHECK_DEADLOCK FALSE
