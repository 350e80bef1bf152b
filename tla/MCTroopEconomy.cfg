SPECIFICATION Spec
CONSTANTS
  p1 = p1
  p2 = p2
  p3 = p3
  m = m
  h1 = h1
  h2 = h2
  h3 = h3
  None = None
  Players = {p1, p2, p3}
  Alliances = {"red", "blue"}
  Hexes = {m, h1, h2, h3}
  Team <- TeamOf
  HQ <- HQOf
  Master = m
  Commanders = {p1, p2}
  ClaimModes = {"PresenceWithTroop"}
  WinTypes = {"Percent", "Elimination"}
  WinShare = 70
  HQRaidShare = 60
  StartTroops = 1
  MaxTroops = 1
 
PROPERTIES  WinIsNoticed WinnerIsFinal
CONSTRAINT Bounds
SYMMETRY Symmetry

CHECK_DEADLOCK FALSE
