SPECIFICATION CardsSpec
CONSTANTS
  i1 = i1  i2 = i2  o1 = o1  Nothing = Nothing
  Grounds = {"own", "fort", "foes"}
  Invites = {i1, i2}
  Offers = {o1}
  MaxItems = 3
  MaxActs = 2  MaxUpsets = 2
INVARIANTS TimersMatchPanels
PROPERTIES  StaleCardsClose
CHECK_DEADLOCK FALSE
