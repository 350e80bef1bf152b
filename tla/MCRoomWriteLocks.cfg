SPECIFICATION FairLockSpec
CONSTANTS
  close1 = close1
  close2 = close2
  cancel1 = cancel1
  Writers <- AllWriters
  Closing <- ClosingTasks
  Cancellable <- CancellableTasks
  Locks = {l1, l2, l3}
  NoLock = NoLock
INVARIANTS NothingLeaks
PROPERTIES EveryTaskEnds ImplementsMutex
