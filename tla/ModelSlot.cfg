\* Three loads, two unloads and two streams in any interleaving, with hangups.
CONSTANTS
  Load = {l1, l2, l3}
  Unload = {u1, u2}
  Stream = {i1, i2}
  Hangups = TRUE
SPECIFICATION SlotFairSpec
INVARIANT SlotSound
PROPERTY UnpublishedEngineExits
CHECK_DEADLOCK FALSE
