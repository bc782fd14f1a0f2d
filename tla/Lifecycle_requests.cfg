SPECIFICATION Spec
CONSTANTS
  None = None
  Ids = {t1, t2}
  Slots = {g1, g2}
  Engines = {e1, e2}
  Records = 2
  Budget = 1
  MaxTenants = 2
  MaxRestarts = 1
  MaxOps = 2
  MaxFaults = 1
  MaxFailures = 1
  MaxCrashes = 1
INVARIANTS
  OneEngine
  NoLostEngine
  SequentialTenants
  RestoreOutcome
CHECK_DEADLOCK FALSE
SYMMETRY Symmetry
