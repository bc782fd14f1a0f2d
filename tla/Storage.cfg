SPECIFICATION MCSpec
CONSTANTS
  None = None
  MaxSaves = 4
  MaxFaults = 2
  k1 = k1
  a = a
  b = b
  v1 = v1
  v2 = v2
  v3 = v3
SYMMETRY Symmetric
INVARIANTS
  SaveInv
  AtomicSave
  FramesSurvive
  AsOfExact
  ServesTheLog
  GraphMatchesRows
  RecoveryRepeats
  GraphValid
  SearchExact
  StopEnds
  AckedKept
CHECK_DEADLOCK FALSE
