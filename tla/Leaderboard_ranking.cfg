SPECIFICATION Spec
CONSTANTS
  u1 = u1
  u2 = u2
  u3 = u3
  r1 = r1
  r2 = r2
  r3 = r3
  None = None
  Users = {u1, u2, u3}
  RunIds = {r1, r2, r3}
  Levels = {1, 2}
  Kills = {1}
  MAX_LEADERBOARD_LIMIT = 2
  MaxTime = 1
INVARIANTS PagesShowRanks
PROPERTIES OvertakeNeedsProgress
SYMMETRY Symmetry
CHECK_DEADLOCK FALSE
