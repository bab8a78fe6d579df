SPECIFICATION FairSpec
CONSTANTS
  u1 = u1
  u2 = u2
  s1 = s1
  s2 = s2
  e1 = e1
  e2 = e2
  r1 = r1
  r2 = r2
  r3 = r3
  None = None
  Users = {u1, u2}
  Sessions = {s1}
  EventReqs = {e1}
  RunReqs = {r1, r2}
  Events <- TwoEvents
  Submissions <- Mixed
  KILL_TOLERANCE = 1
  GOLD_TOLERANCE = 1
  MAX_KILLS_PER_SEC = 1
  MaxTime = 2
  SerialClients = FALSE
  Faults = TRUE
INVARIANTS OneRunPerSession EligibleRunsExplained NoFalseMismatch IInv
PROPERTIES LedgerImplemented ClosedSessionGetsRun
CHECK_DEADLOCK FALSE
