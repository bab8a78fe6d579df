SPECIFICATION Spec
CONSTANTS
  p1 = p1
  p2 = p2
  p3 = p3
  c1 = c1
  c2 = c2
  None = None
  Puts = {p1, p2}
  Claims = {c1}
  Bodies <- TwoBodies
  Cap = 3
  TotalXp <- Curve
  XP_BASE_ALLOWANCE = 2
  MAX_XP_PER_SEC = 1
  GOLD_BASE_ALLOWANCE = 1
  MAX_GOLD_PER_SEC = 1
  IdleGold <- GoldPerUnit
  IdleXp <- XpPerUnit
  MaxOffline = 2
  MaxTime = 2
  SerialClients = FALSE
  Faults = FALSE
PROPERTIES ClaimKeepsProgress
CHECK_DEADLOCK FALSE
