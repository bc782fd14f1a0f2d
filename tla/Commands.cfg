SPECIFICATION MCSpec
CONSTANTS
  k1 = k1
  k2 = k2
  c1 = c1
  c2 = c2
  j1 = j1
  NaN = NaN
  Zero = Zero
  h1 = h1
  None = None
  Keys <- MCKeys
  Clients <- MCClients
  Ops <- AllOps
  Second = 2
  TTLs = {2}
  Limit = 7
  Start = 4
  MaxNow = 7
  MaxFlight = 1
  MaxCmds = 2
  MaxCrashes = 1
SYMMETRY Symmetric
INVARIANTS ReplayAgrees QuotaHolds ReaperFinds ZSetConsistent BitsAgree DocAgrees RangesAgree SubscribersFollow
PROPERTIES NothingReapedEarly
CHECK_DEADLOCK FALSE
