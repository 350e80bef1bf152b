SPECIFICATION FairSpec
CONSTANTS
  t1 = t1
  t2 = t2
  t3 = t3
  t4 = t4
  Tasks <- FourTasks
  MaxAge = 2
  MaxNow = 6
  MaxFailures = 1
  MaxCrashes = 2
  None = None
INVARIANTS QueueDrainsToNewest
PROPERTIES RowNeverGoesBack StaleRoomsStayDown GameOverIsRecorded
CHECK_DEADLOCK FALSE
