SPECIFICATION MCSpec
CONSTANTS
  k1 = k1
  t1 = t1
  g1 = g1
  e1 = e1
  e2 = e2
  e3 = e3
  None = None
CHECK_DEADLOCK FALSE
PROPERTIES StreamDrains Restarted
