SPECIFICATION MCSpec
CONSTANTS
  k1 = k1
  k2 = k2
  v1 = v1
  None = None
  Keys <- MCKeys
  LiveBuffer = 1
  MaxSeq = 2
  MaxFails = 1
  MaxRotations = 1
SYMMETRY Symmetric
CHECK_DEADLOCK FALSE
INVARIANTS TypeOK QuietReplicaConverged RecoveryIsPrefix AckedSurvives 
