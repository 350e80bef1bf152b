SPECIFICATION Spec
CONSTANTS
  u1 = u1
  u2 = u2
  c1 = c1
  c2 = c2
  c3 = c3
  Users = {u1, u2}
  Connections = {c1, c2, c3}
  Owner <- OwnerOf
  Rooms = {a, b}
  None = None
SYMMETRY Symmetry
INVARIANTS ShownWhileSeated IndexedIsSeated SeatsGetBroadcasts
CHECK_DEADLOCK FALSE
CONSTRAINT TwoCallsAtOnce
