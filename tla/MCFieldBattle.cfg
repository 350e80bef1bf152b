SPECIFICATION FairSpec
CONSTANTS
  p1 = p1
  p2 = p2
  p3 = p3
  Players = {p1, p2, p3}
  Side <- SideOf
  Grid = {h1}
  Beyond = {}
  MaxTroops = 1
  MaxBattles = 1
  MaxCrashes = 1
  HighestOnly = {TRUE, FALSE}
  Boosts = {0, 2}
  None = None
  Unknown = Unknown
  Timer = Timer
 
PROPERTIES FightsAreDecisive JoinersFight EveryBattleEnds
CHECK_DEADLOCK FALSE
