SPECIFICATION FairSpec
CONSTANTS
  k1 = k1
  k2 = k2
  v1 = v1
  v2 = v2
  NoVal = NoVal
  Keys <- MCOneKey
  Vals <- MCOneVal
  SyncMode = "everysec"
  MaxSeq = 2
  Errors = TRUE
  Whys = {"periodic"}
INVARIANTS RecoveryIsPrefix
PROPERTIES LossWindowCloses MutationMuReleased
