SPECIFICATION Spec
CONSTANTS
  k1 = k1
  k2 = k2
  Keys <- MCKeys
  LiveBuffer = 1
  MaxSeq = 3
  MaxFails = 1
  MaxRotations = 0
SYMMETRY Symmetric
CHECK_DEADLOCK FALSE
INVARIANTS CatchesUpOnReconnect
