SPECIFICATION Spec
CONSTANTS
  u1 = u1
  u2 = u2
  h1 = h1
  h2 = h2
  h3 = h3
  Users <- TwoUsers
  HostUser = u1
  Ids = {a1, a2, a3}
  AllianceLimit = 2
  Hexes <- ThreeHexes
  Areas <- SmallAreas
  FirstArea <- LargerArea
  None = None
SYMMETRY Symmetry
INVARIANTS MembershipAgrees EverybodyCanPlay
PROPERTIES RunningBoardIsFixed
CHECK_DEADLOCK FALSE
