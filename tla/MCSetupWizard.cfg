SPECIFICATION WizardSpec
CONSTANTS
  A = A  B = B  Host = Host  Guest = Guest  Nothing = Nothing
  Names = {A, B}
  Canvas = {1, 2, 3}
  PatternCells = {1, 2}
  TemplateCells = {2, 3}
  MinDrawn = 2
  MinTile = 1
  Tiles = {1, 2}
  Footprints = {3, 6}
  MaxAlliances = 2
  Starts <- MCStarts
  MaxActs = 3  MaxUpsets = 1
INVARIANTS GatesWerePassed ScreenSettles AppliedAreaStands
CHECK_DEADLOCK FALSE
