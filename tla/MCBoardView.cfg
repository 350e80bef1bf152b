SPECIFICATION ViewSpec
CONSTANTS
  base = base  wall = wall  hold = hold
  Me = Me  Ally = Ally  Foe = Foe  Nothing = Nothing  Us = Us  Them = Them
  Hexes = {base, wall, hold}
  Neighbours <- MCNeighbours
  Sector <- MCSector
  Start <- MCStart
  Home = base  Camp = hold
  Memory = 1  MaxTroops = 2
  MaxPending = 2  MaxWire = 1
  MaxWalks = 1  MaxEvents = 2
 
PROPERTIES MarkersAreRecent BoardCatchesUp
