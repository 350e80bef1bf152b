-------------------------- MODULE RoomWriteLocks --------------------------
(***************************************************************************)
(* The reference-counted write locks of RoomPersistenceService.            *)
(*                                                                         *)
(* roomWriteLocks maps a room code to a RoomWriteLock: a SemaphoreSlim(1), *)
(* a lease count and a retired flag.  A persistence task takes a lease on  *)
(* the entry's lock, waits for the semaphore, writes the row, and gives    *)
(* both back.  A task that closes the room (a GameOver snapshot, or        *)
(* DeactivateRoomAsync) retires the lock; the last task to drop its lease  *)
(* on a retired lock removes it from the dictionary and disposes it, and   *)
(* a later task gets a new lock.                                           *)
(*                                                                         *)
(* Codes do not share locks, so this module follows one code.  Every read  *)
(* or write of memory that another thread can observe is a step of its     *)
(* own.  A task runs once: it is a fire-and-forget Task.Run or a call made *)
(* by the startup code.                                                    *)
(***************************************************************************)
EXTENDS Integers, FiniteSets

CONSTANTS
  Writers,      \* persistence tasks of the room
  Closing,      \* the tasks that retire the lock when they have written
  Cancellable,  \* the tasks whose caller passed a token that may be cancelled
  Locks,        \* identities of RoomWriteLock objects, allocated once each
  NoLock        \* no entry in the dictionary; local not assigned

ASSUME WritersFinite == IsFiniteSet(Writers)
ASSUME KindsOfTask == Closing \subseteq Writers /\ Cancellable \subseteq Writers
ASSUME NoLockIsNoLock == NoLock \notin Locks

VARIABLES
  entry,      \* roomWriteLocks[code], or NoLock
  created,    \* locks allocated so far
  leases,     \* leaseCount of each lock
  retired,    \* locks whose retired flag is set
  permits,    \* CurrentCount of each lock's semaphore
  disposed,   \* locks whose semaphore has been disposed
  pc,         \* control point of each task
  mine,       \* the task's local roomLock
  seen,       \* the task's local currentLeaseCount
  ret         \* where TryRemoveRetiredRoomLock returns to

lockVars == <<entry, created, leases, retired, permits, disposed>>
protocolVars == <<lockVars, pc, mine, seen, ret>>

Points == {"getOrAdd", "check", "read", "cas", "recheck", "undo", "wait",
           "writing", "retire", "release", "unlease",
           "sweep", "remove", "dispose", "done"}

LockTypeOK ==
  /\ entry \in Locks \cup {NoLock}
  /\ created \subseteq Locks
  /\ retired \subseteq Locks
  /\ disposed \subseteq Locks
  /\ leases \in [Locks -> Nat]
  /\ permits \in [Locks -> {0, 1}]
  /\ pc \in [Writers -> Points]
  /\ mine \in [Writers -> Locks \cup {NoLock}]
  /\ seen \in [Writers -> Int]
  /\ ret \in [Writers -> {"getOrAdd", "release", "done"}]

LockInit ==
  /\ entry = NoLock
  /\ created = {}
  /\ leases = [l \in Locks |-> 0]
  /\ retired = {}
  /\ permits = [l \in Locks |-> 1]
  /\ disposed = {}
  /\ pc = [t \in Writers |-> "getOrAdd"]
  /\ mine = [t \in Writers |-> NoLock]
  /\ seen = [t \in Writers |-> 0]
  /\ ret = [t \in Writers |-> "done"]

Goto(t, from, to) ==
  /\ pc[t] = from
  /\ pc' = [pc EXCEPT ![t] = to]

----------------------------------------------------------------------------
(* AcquireRoomLockAsync *)

\* Which fresh identity `new` returns makes no difference.
NewLock == CHOOSE l \in Locks : l \notin created

\* GetOrAdd: the entry's lock, or a new one that becomes the entry.
GetOrAdd(t) ==
  /\ Goto(t, "getOrAdd", "check")
  /\ \/ /\ entry # NoLock
        /\ mine' = [mine EXCEPT ![t] = entry]
        /\ UNCHANGED <<entry, created>>
     \/ /\ entry = NoLock
        /\ created # Locks
        /\ entry' = NewLock
        /\ created' = created \cup {NewLock}
        /\ mine' = [mine EXCEPT ![t] = NewLock]
  /\ UNCHANGED <<leases, retired, permits, disposed, seen, ret>>

\* Head of the loop of TryAcquireLease: a retired lock gives no lease.
CheckRetired(t) ==
  /\ \/ /\ Goto(t, "check", "sweep")
        /\ mine[t] \in retired
        /\ ret' = [ret EXCEPT ![t] = "getOrAdd"]
     \/ /\ Goto(t, "check", "read")
        /\ mine[t] \notin retired
        /\ UNCHANGED ret
  /\ UNCHANGED <<lockVars, mine, seen>>

ReadLeaseCount(t) ==
  /\ Goto(t, "read", "cas")
  /\ seen' = [seen EXCEPT ![t] = leases[mine[t]]]
  /\ UNCHANGED <<lockVars, mine, ret>>

\* CompareExchange(ref leaseCount, current + 1, current); the loop restarts
\* when another thread changed the count since it was read.
CompareExchange(t) ==
  /\ \/ /\ Goto(t, "cas", "recheck")
        /\ leases[mine[t]] = seen[t]
        /\ leases' = [leases EXCEPT ![mine[t]] = seen[t] + 1]
     \/ /\ Goto(t, "cas", "check")
        /\ leases[mine[t]] # seen[t]
        /\ UNCHANGED leases
  /\ UNCHANGED <<entry, created, retired, permits, disposed, mine, seen, ret>>

\* The lease counts only if the lock is still not retired.
RecheckRetired(t) ==
  /\ \/ Goto(t, "recheck", "wait") /\ mine[t] \notin retired
     \/ Goto(t, "recheck", "undo") /\ mine[t] \in retired
  /\ UNCHANGED <<lockVars, mine, seen, ret>>

\* ReleaseLease of a lease taken on a lock that was retired meanwhile.
UndoLease(t) ==
  /\ Goto(t, "undo", "sweep")
  /\ leases' = [leases EXCEPT ![mine[t]] = @ - 1]
  /\ ret' = [ret EXCEPT ![t] = "getOrAdd"]
  /\ UNCHANGED <<entry, created, retired, permits, disposed, mine, seen>>

\* Semaphore.WaitAsync: a disposed semaphore would throw.
WaitSemaphore(t) ==
  /\ Goto(t, "wait", "writing")
  /\ permits[mine[t]] > 0
  /\ mine[t] \notin disposed
  /\ permits' = [permits EXCEPT ![mine[t]] = @ - 1]
  /\ UNCHANGED <<entry, created, leases, retired, disposed, mine, seen, ret>>

\* Mutant: the catch block rethrows without dropping the lease.
WaitCancelled_LeaseKept(t) ==
  t \in Cancellable /\ Goto(t, "wait", "done") /\ UNCHANGED <<lockVars, mine, seen, ret>>

\* The wait is cancelled: the catch block drops the lease and rethrows.
WaitCancelled(t) ==
  /\ t \in Cancellable
  /\ Goto(t, "wait", "unlease")
  /\ ret' = [ret EXCEPT ![t] = "done"]
  /\ UNCHANGED <<lockVars, mine, seen>>

----------------------------------------------------------------------------
(* PersistSerializedAsync and DeactivateRoomAsync around the row's write *)

\* UpsertRoomAsync (or the deactivation) returns; it swallows its exceptions,
\* so the finally block is all that is left.
FinishWrite(t) ==
  /\ Goto(t, "writing", IF t \in Closing THEN "retire" ELSE "release")
  /\ UNCHANGED <<lockVars, mine, seen, ret>>

RetireRoomLock(t) ==
  /\ Goto(t, "retire", "sweep")
  /\ retired' = retired \cup {mine[t]}
  /\ ret' = [ret EXCEPT ![t] = "release"]
  /\ UNCHANGED <<entry, created, leases, permits, disposed, mine, seen>>

\* ReleaseRoomLock gives the semaphore back before the lease.
ReleaseSemaphore(t) ==
  /\ Goto(t, "release", "unlease")
  /\ mine[t] \notin disposed
  /\ permits' = [permits EXCEPT ![mine[t]] = @ + 1]
  /\ ret' = [ret EXCEPT ![t] = "done"]
  /\ UNCHANGED <<entry, created, leases, retired, disposed, mine, seen>>

\* Mutant: the last lease is dropped without TryRemoveRetiredRoomLock.
ReleaseRoomLease_NoSweep(t) ==
  /\ Goto(t, "unlease", "done")
  /\ leases' = [leases EXCEPT ![mine[t]] = @ - 1]
  /\ UNCHANGED <<entry, created, retired, permits, disposed, mine, seen, ret>>

ReleaseRoomLease(t) ==
  /\ Goto(t, "unlease", "sweep")
  /\ leases' = [leases EXCEPT ![mine[t]] = @ - 1]
  /\ UNCHANGED <<entry, created, retired, permits, disposed, mine, seen, ret>>

----------------------------------------------------------------------------
(* TryRemoveRetiredRoomLock *)

\* Mutant: a retired lock is removed although leases are out.
SweepCheck_IgnoresLeases(t) ==
  /\ Goto(t, "sweep", IF mine[t] \in retired THEN "remove" ELSE ret[t])
  /\ UNCHANGED <<lockVars, mine, seen, ret>>

\* IsRetired never goes back to false, so reading it together with LeaseCount
\* gives what reading it just before gives.
SweepCheck(t) ==
  /\ Goto(t, "sweep",
          IF mine[t] \in retired /\ leases[mine[t]] = 0
            THEN "remove" ELSE ret[t])
  /\ UNCHANGED <<lockVars, mine, seen, ret>>

\* TryRemove of the exact pair: another thread, or another generation, wins.
SweepRemove(t) ==
  /\ \/ /\ Goto(t, "remove", "dispose")
        /\ entry = mine[t]
        /\ entry' = NoLock
     \/ /\ Goto(t, "remove", ret[t])
        /\ entry # mine[t]
        /\ UNCHANGED entry
  /\ UNCHANGED <<created, leases, retired, permits, disposed, mine, seen, ret>>

SweepDispose(t) ==
  /\ Goto(t, "dispose", ret[t])
  /\ disposed' = disposed \cup {mine[t]}
  /\ UNCHANGED <<entry, created, leases, retired, permits, mine, seen, ret>>

----------------------------------------------------------------------------
Step(t) ==
  \/ GetOrAdd(t) \/ CheckRetired(t) \/ ReadLeaseCount(t)
  \/ CompareExchange(t) \/ RecheckRetired(t) \/ UndoLease(t)
  \/ WaitSemaphore(t) \/ FinishWrite(t) \/ RetireRoomLock(t)
  \/ ReleaseSemaphore(t) \/ ReleaseRoomLease(t)
  \/ SweepCheck(t) \/ SweepRemove(t) \/ SweepDispose(t)

AllDone == \A t \in Writers : pc[t] = "done"

Terminated == AllDone /\ UNCHANGED protocolVars

LockNext == (\E t \in Writers : Step(t) \/ WaitCancelled(t)) \/ Terminated

LockSpec == LockInit /\ [][LockNext]_protocolVars

(* The thread pool runs every task that can run.  A task that waits for    *)
(* the semaphore may be overtaken by each of the others only once, since   *)
(* tasks run once: weak fairness of each task is all the code needs.       *)
FairLockSpec == LockSpec /\ \A t \in Writers : WF_protocolVars(Step(t))

----------------------------------------------------------------------------
\* Between WaitAsync and Release: the task may touch the row.
InCritical(t) ==
  \/ pc[t] \in {"writing", "retire", "release"}
  \/ pc[t] \in {"sweep", "remove", "dispose"} /\ ret[t] = "release"

\* The task holds a lease that TryAcquireLease has confirmed.
HasLease(t) == InCritical(t) \/ pc[t] \in {"wait", "unlease"}

\* Two persistence tasks of a room never write its row at the same time, not
\* even when the lock was retired, removed and replaced between their arrivals
\* (PersistSerializedAsync and DeactivateRoomAsync rely on it).
MutualExclusion ==
  \A t, u \in Writers : InCritical(t) /\ InCritical(u) => t = u

\* A task with a lease holds the lock that is in the dictionary: no generation
\* of the lock is replaced while someone may still wait on it or write under it.
LeaseIsOnEntry ==
  \A t \in Writers : HasLease(t) => mine[t] = entry

\* No task waits on, or releases, a semaphore that has been disposed
\* (ObjectDisposedException would leave the row's write undone).
NoUseAfterDispose ==
  \A t \in Writers : HasLease(t) => mine[t] \notin disposed

\* When all tasks have run, nothing of a retired lock is left behind: its lease
\* count is 0, it is out of the dictionary and its semaphore is disposed.
NothingLeaks ==
  AllDone => /\ retired = disposed
             /\ entry \notin retired
             /\ \A l \in Locks : leases[l] = 0 /\ permits[l] = 1

\* Once retired, a lock never gives a lease again and is never put back in the
\* dictionary; only a retired lock leaves the dictionary.
RetirementIsFinal ==
  [][ /\ retired \subseteq retired'
      /\ entry' # entry => entry' \notin retired /\ entry \in retired \cup {NoLock}
      /\ \A t \in Writers : HasLease(t)' /\ ~HasLease(t) => mine[t] \notin retired
    ]_protocolVars

\* Every persistence task ends, whatever retirements it runs into.
EveryTaskEnds == \A t \in Writers : <>(pc[t] = "done")

----------------------------------------------------------------------------
\* What the callers see of this module.
Phase == [t \in Writers |->
            IF InCritical(t) THEN "writing"
            ELSE IF \/ pc[t] \in {"unlease", "done"}
                    \/ pc[t] \in {"sweep", "remove", "dispose"} /\ ret[t] = "done"
                 THEN "finished"
            ELSE "waiting"]

Mutex == INSTANCE WriterMutex WITH Tasks <- Writers, phase <- Phase

\* The lock protocol implements a plain mutual-exclusion object.
ImplementsMutex == Mutex!Spec
=============================================================================
