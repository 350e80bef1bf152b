SPECIFICATION Spec
CONSTANTS
  Ids = {host, guest}
  Host = host
  Rooms = {old, new}
  Old = old
  None = None
  Slots = {1, 2}
  Careful = TRUE
  MaxPages = 3
  MaxEvents = 2
INVARIANTS  OwnFightReported
PROPERTY ScenarioStarts
CHECK_DEADLOCK FALSE
