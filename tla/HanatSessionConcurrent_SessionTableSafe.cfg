CONSTANTS
  w1 = w1
  w2 = w2
  k1 = k1
  k2 = k2
  Workers <- MCWorkers
  Keys <- MCKeys
  MaxSlots = 2
  Buffers = {1}
  NoSlot = NoSlot
  NoKey = NoKey
SPECIFICATION Spec
CHECK_DEADLOCK FALSE
INVARIANT SessionTableSafe
