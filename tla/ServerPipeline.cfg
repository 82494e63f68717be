CONSTANTS
  Keys = {k0, k1}
  Values = {v0, v1}
  NoValue = NoValue
  MT_NUM = 2
  KeySize <- MCKeySize
  ValSize <- MCValSize
  MaxSize = 1
  SizeMod = 1000
  SemaBound = FALSE
  EmptyKey = k0
  EmptyVal = v0
  Ctxs = {c1, c2}
  NoCtx = NoCtx
  QueueCap = 1
  MaxRecv = 3
SPECIFICATION FairServerSpec
INVARIANTS OneOwner
PROPERTIES ImplementsSerialServer ImplementsAbstractKV AllLeave
CHECK_DEADLOCK FALSE
