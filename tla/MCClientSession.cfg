SPECIFICATION Spec
CONSTANTS
  u1 = u1
  u2 = u2
  a = a
  b = b
  Users = {u1, u2}
  Rooms = {a, b}
  Other = Other
  None = None
  MaxRetries = 2
  MaxActs = 2
  MaxFaults = 1
  MaxNews = 1
INVARIANTS SavedRoomIsOwn
PROPERTIES ResumeShowsItsRoom ResumeSettles 
CHECK_DEADLOCK FALSE
