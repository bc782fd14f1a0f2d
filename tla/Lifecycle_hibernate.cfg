SPECIFICATION Spec
CONSTANTS
  None = None
  Ids = {t1}
  Slots = {g1, g2}
  Engines = {e1, e2}
  Records = 2
  Budget = 1
  MaxTenants = 1
  MaxRestarts = 1
  MaxOps = 2
  MaxFaults = 0
  MaxFailures = 1
  MaxCrashes = 0
INVARIANTS
  HibernateStops
CHECK_DEADLOCK FALSE
