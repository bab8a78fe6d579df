SPECIFICATION Spec
CONSTANTS
  s1 = s1
  s2 = s2
  s3 = s3
  s4 = s4
  c1 = c1
  c2 = c2
  None = None
  Sockets = {s1, s2, s3, s4}
  Codes = {c1, c2}
  WAITING_ROOM_TTL = 3
  DISCONNECTED_ROOM_TTL = 2
  FreshSockets = TRUE
INVARIANTS MembersSit
PROPERTIES GuestNotReplaced
SYMMETRY Symmetry
