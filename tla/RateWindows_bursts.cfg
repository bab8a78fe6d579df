SPECIFICATION Spec
CONSTANTS
  s1 = s1
  None = None
  Sockets = {s1}
  MAX <- Limits
  WINDOW <- Lengths
  MaxTime = 5
INVARIANTS WindowInv BurstBounded RefusedOnlyAtLimit
CHECK_DEADLOCK FALSE
