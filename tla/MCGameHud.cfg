SPECIFICATION Spec
CONSTANTS
  h1 = h1  h2 = h2  s1 = s1  s2 = s2  s3 = s3
  Me = Me  Ally = Ally  Foe = Foe  None = None
  Hexes = {h1, h2}
  Spots = {s1, s2, s3}
  HexOf <- MCHexOf
  Close <- MCClose
  Adjacent <- MCAdjacent
  Forts = {h2}
  Starts <- MCStarts
  ClaimMode = "PresenceWithTroop"
  MaxTroops = 2  MaxActs = 2  MaxUpsets = 2
INVARIANTS  PromptsFitBoard
PROPERTIES FixIsReported
CHECK_DEADLOCK FALSE
