SPECIFICATION Spec
CONSTANTS
  None = None
  MaxSaves = 4
  MaxFaults = 0
INVARIANTS
  BackupCoversCrash
CHECK_DEADLOCK FALSE
