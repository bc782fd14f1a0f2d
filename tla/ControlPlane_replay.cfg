SPECIFICATION Spec
CONSTANTS
  Primary = "p"
  Replicas = {"r1"}
  Engines = {"e1", "e2", "e3"}
  None = None
  Raft = TRUE
  Modes = {FALSE}
  MaxAttempts = 1
  MaxEntries = 2
  MaxTroubles = 1
CHECK_DEADLOCK FALSE
INVARIANTS OwnDirectory
