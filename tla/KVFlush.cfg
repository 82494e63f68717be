SPECIFICATION FlushSpec
CONSTANTS
  k1 = k1
  k2 = k2
  v1 = v1
  EmptyVal = v0
  Keys <- MCKeys
  Values <- MCValues
  NoValue = NoValue
  MT_NUM = 2
  KeySize <- MCKeySize
  ValSize <- MCValSize
  MaxSize = 3
  SizeMod = 16
  SemaBound = TRUE
SYMMETRY Symmetry
INVARIANTS
  TypeOK SizeExact WriterAlone NoLostSignal ClosedIsFull FlushMark
  NothingLost ReadsLatest
PROPERTY ClearedIsDurable
\* The process may abort.
CHECK_DEADLOCK FALSE
