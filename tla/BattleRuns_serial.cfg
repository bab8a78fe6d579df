SPECIFICATION Spec
CONSTANTS
  u1 = u1
  u2 = u2
  s1 = s1
  s2 = s2
  e1 = e1
  e2 = e2
  r1 = r1
  r2 = r2
  r3 = r3
  None = None
  Users = {u1}
  Sessions = {s1, s2}
  EventReqs = {e1, e2}
  RunReqs = {r1, r2}
  Events <- TwoEvents
  Submissions <- ShortLong
  KILL_TOLERANCE = 1
  GOLD_TOLERANCE = 1
  MAX_KILLS_PER_SEC = 1
  MaxTime = 3
  SerialClients = TRUE
  Faults = TRUE
INVARIANTS VerdictMatchesLog RunsSpaced CheckedEventsOpen
PROPERTIES NoLateEvent
SYMMETRY Symmetry
CHECK_DEADLOCK FALSE
