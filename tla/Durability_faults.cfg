SPECIFICATION Spec
CONSTANTS
  k1 = k1
  k2 = k2
  v1 = v1
  v2 = v2
  NoVal = NoVal
  Keys <- MCOneKey
  Vals <- MCOneVal
  SyncMode = "always"
  MaxSeq = 2
  Errors = TRUE
  Whys = {"periodic", "backup", "stop"}
SYMMETRY Symmetric
INVARIANTS TypeOK RecoveryIsPrefix AckedSurvives StoreIsLogHead
PROPERTIES ImplementsDurableMap OnlyCoveredRemoved
