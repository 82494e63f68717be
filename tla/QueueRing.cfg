CONSTANTS
  Elements = {e1, e2, e3}
  None = None
  WordBits = 8
  MCBits = 1
  MCAsked = 3
  Size = 4
  IndexMod = 8
  Remap <- MCRemap
  c1 = c1
  c2 = c2
SPECIFICATION AllSpec
INVARIANTS
  TypeOK
  SlotExclusive
  RemapRight
  WakeupsCovered
  ElementsAreUnits
PROPERTIES
  ImplementsFairFifo
  ImplementsSemaphore
  ElementsMove
\* The last word has no next one.
CHECK_DEADLOCK FALSE
