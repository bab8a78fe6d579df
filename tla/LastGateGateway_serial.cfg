SPECIFICATION GatewaySpec
CONSTANTS
  s1 = s1
  s2 = s2
  s3 = s3
  c1 = c1
  c2 = c2
  None = None
  Sockets = {s1, s2, s3}
  Codes = {c1, c2}
  WAITING_ROOM_TTL = 1
  DISCONNECTED_ROOM_TTL = 1
  FreshSockets = FALSE
  Lanes = {1}
INVARIANTS GatewayInv MemberListens PeersHear PeersAnnounced
SYMMETRY Symmetry
