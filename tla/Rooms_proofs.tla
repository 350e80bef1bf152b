----------------------------- MODULE Rooms_proofs -----------------------------
(***************************************************************************)
(* Proofs about RoomWriteLocks and RoomPersistence, for every set of tasks *)
(* (of the locks, every finite one), every set of lock identities, every   *)
(* bound, and every number of crashes and failed writes.  The two share    *)
(* no state: RoomPersistence takes its lock from WriterMutex, which        *)
(* RoomWriteLocks is shown to implement.                                   *)
(*                                                                         *)
(* RoomWriteLocks.  A lock that is not retired is the dictionary's entry   *)
(* (LiveLockIsEntry), so a lease confirmed by the second look at the       *)
(* retired flag is a lease on the entry (LeaseIsOnEntry).  The lease count *)
(* is the number of tasks between their compare-exchange and their         *)
(* decrement (LeaseCount); a task that saw 0 on a retired lock therefore   *)
(* knows that no confirmed lease on it exists, and none can appear any     *)
(* more (SweptLockIsFree).  So the entry is replaced only when nobody      *)
(* waits or writes under it, and the semaphore of the one entry is what    *)
(* keeps writers apart (OnePermit).  A retired lock always has somebody on *)
(* the way to sweep it (SweepIsComing), so nothing of it is left behind.   *)
(*                                                                         *)
(* RoomPersistence.  Everything that holds a state of the room -- the row, *)
(* the queued snapshots, the room in memory -- is ordered by time the way  *)
(* it is ordered by version and by GameOver (SnapshotsOrdered, RowOrdered, *)
(* MemoryAhead).  UpsertRoomAsync compares times, of a row that cannot     *)
(* have changed since it was found (Exclusive), so it compares versions.   *)
(* A task that keeps the row instead of writing its snapshot found one at  *)
(* least as advanced (RowCoversOlder), so nothing is lost either.          *)
(***************************************************************************)
EXTENDS RoomWriteLocks, RoomPersistence, FiniteSetTheorems, TLAPS

(***************************************************************************)
(* The write locks                                                         *)
(***************************************************************************)

\* The task has incremented its lock's lease count and not yet decremented it.
Counted(t) == HasLease(t) \/ pc[t] \in {"recheck", "undo"}

CountedOn(l) == {t \in Writers : Counted(t) /\ mine[t] = l}

LeaseCount == \A l \in Locks : leases[l] = Cardinality(CountedOn(l))

Types ==
  /\ entry \in Locks \cup {NoLock}
  /\ created \subseteq Locks
  /\ retired \subseteq created
  /\ disposed \subseteq retired
  /\ leases \in [Locks -> Int]
  /\ permits \in [Locks -> Int]
  /\ pc \in [Writers -> Points]
  /\ mine \in [Writers -> Locks \cup {NoLock}]
  /\ seen \in [Writers -> Int]
  /\ ret \in [Writers -> {"getOrAdd", "release", "done"}]

LiveLockIsEntry ==
  /\ \A l \in created : l \notin retired => l = entry
  /\ entry # NoLock => entry \in created
  /\ entry \notin disposed

LocalLock ==
  \A t \in Writers :
    /\ pc[t] # "getOrAdd" => mine[t] \in created
    /\ pc[t] = "unlease" => ret[t] = "done"
    /\ pc[t] = "undo" => mine[t] \in retired

SweptLockIsFree ==
  \A t \in Writers :
    /\ pc[t] = "remove" =>
         /\ mine[t] \in retired
         /\ \A u \in Writers : HasLease(u) => mine[u] # mine[t]
    /\ pc[t] = "dispose" => mine[t] \in retired /\ mine[t] # entry

OnePermit ==
  \A l \in Locks :
    permits[l] = IF \E t \in Writers : InCritical(t) /\ mine[t] = l THEN 0 ELSE 1

LocksInv ==
  /\ Types
  /\ LeaseCount
  /\ LiveLockIsEntry
  /\ LocalLock
  /\ LeaseIsOnEntry
  /\ SweptLockIsFree
  /\ OnePermit
  /\ MutualExclusion

----------------------------------------------------------------------------
\* Leases nobody counts are not there: a count of 0 means no confirmed lease.
LEMMA ZeroLeases ==
  ASSUME LeaseCount, NEW l \in Locks, leases[l] = 0
  PROVE  \A t \in Writers : HasLease(t) => mine[t] # l
<1>1. IsFiniteSet(CountedOn(l))
  BY WritersFinite, FS_Subset DEF CountedOn
<1>2. CountedOn(l) = {}
  BY <1>1, FS_EmptySet DEF LeaseCount
<1>. QED  BY <1>2 DEF CountedOn, Counted

\* The three ways a step can move the lease counts.
LEMMA CountUnchanged ==
  ASSUME LeaseCount, leases' = leases,
         \A t \in Writers, l \in Locks :
           Counted(t)' /\ mine'[t] = l <=> Counted(t) /\ mine[t] = l
  PROVE  LeaseCount'
<1> SUFFICES ASSUME NEW l \in Locks
             PROVE  leases'[l] = Cardinality(CountedOn(l)')
  BY DEF LeaseCount
<1>1. CountedOn(l)' = CountedOn(l)
  BY DEF CountedOn
<1>. QED  BY <1>1 DEF LeaseCount

LEMMA CountUp ==
  ASSUME Types, LeaseCount, NEW t \in Writers, mine[t] \in Locks,
         ~Counted(t), Counted(t)', mine' = mine,
         leases' = [leases EXCEPT ![mine[t]] = @ + 1],
         \A u \in Writers : u # t => (Counted(u)' <=> Counted(u))
  PROVE  LeaseCount'
<1> SUFFICES ASSUME NEW l \in Locks
             PROVE  leases'[l] = Cardinality(CountedOn(l)')
  BY DEF LeaseCount
<1>1. IsFiniteSet(CountedOn(l))
  BY WritersFinite, FS_Subset DEF CountedOn
<1>2. CASE l = mine[t]
  <2>1. CountedOn(l)' = CountedOn(l) \cup {t} /\ t \notin CountedOn(l)
    BY <1>2 DEF CountedOn
  <2>2. Cardinality(CountedOn(l)') = Cardinality(CountedOn(l)) + 1
    BY <2>1, <1>1, FS_AddElement
  <2>3. leases'[l] = leases[l] + 1
    BY <1>2 DEF Types
  <2>. QED  BY <2>2, <2>3 DEF LeaseCount
<1>3. CASE l # mine[t]
  <2>1. CountedOn(l)' = CountedOn(l)
    BY <1>3 DEF CountedOn
  <2>2. leases'[l] = leases[l]
    BY <1>3 DEF Types
  <2>. QED  BY <2>1, <2>2 DEF LeaseCount
<1>. QED  BY <1>2, <1>3

LEMMA CountDown ==
  ASSUME Types, LeaseCount, NEW t \in Writers, mine[t] \in Locks,
         Counted(t), ~Counted(t)', mine' = mine,
         leases' = [leases EXCEPT ![mine[t]] = @ - 1],
         \A u \in Writers : u # t => (Counted(u)' <=> Counted(u))
  PROVE  LeaseCount'
<1> SUFFICES ASSUME NEW l \in Locks
             PROVE  leases'[l] = Cardinality(CountedOn(l)')
  BY DEF LeaseCount
<1>1. IsFiniteSet(CountedOn(l))
  BY WritersFinite, FS_Subset DEF CountedOn
<1>2. CASE l = mine[t]
  <2>1. CountedOn(l)' = CountedOn(l) \ {t} /\ t \in CountedOn(l)
    BY <1>2 DEF CountedOn
  <2>2. Cardinality(CountedOn(l)') = Cardinality(CountedOn(l)) - 1
    BY <2>1, <1>1, FS_RemoveElement
  <2>3. leases'[l] = leases[l] - 1
    BY <1>2 DEF Types
  <2>. QED  BY <2>2, <2>3 DEF LeaseCount
<1>3. CASE l # mine[t]
  <2>1. CountedOn(l)' = CountedOn(l)
    BY <1>3 DEF CountedOn
  <2>2. leases'[l] = leases[l]
    BY <1>3 DEF Types
  <2>. QED  BY <2>1, <2>2 DEF LeaseCount
<1>. QED  BY <1>2, <1>3
----------------------------------------------------------------------------
THEOREM InitLocks == LockInit => LocksInv
<1> SUFFICES ASSUME LockInit PROVE LocksInv
  OBVIOUS
<1> USE DEF LockInit
<1>1. Types /\ LiveLockIsEntry /\ LocalLock
  BY NoLockIsNoLock DEF Types, LiveLockIsEntry, LocalLock, Points
<1>2. \A t \in Writers : ~Counted(t) /\ ~HasLease(t) /\ ~InCritical(t)
  BY DEF Counted, HasLease, InCritical
<1>3. LeaseCount
  <2>1. \A l \in Locks : CountedOn(l) = {}
    BY <1>2 DEF CountedOn
  <2>. QED  BY <2>1, FS_EmptySet DEF LeaseCount
<1>4. LeaseIsOnEntry /\ SweptLockIsFree /\ OnePermit /\ MutualExclusion
  BY <1>2 DEF LeaseIsOnEntry, SweptLockIsFree, OnePermit, MutualExclusion
<1>. QED  BY <1>1, <1>3, <1>4 DEF LocksInv

----------------------------------------------------------------------------
\* One lemma per group of actions: what each step does to the parts of LocksInv.
USE DEF Goto, lockVars

LEMMA StepGetOrAdd ==
  ASSUME LocksInv, NEW t \in Writers, GetOrAdd(t) PROVE LocksInv'
<1> USE DEF LocksInv, GetOrAdd
<1>0. entry = NoLock => NewLock \in Locks /\ NewLock \notin created
  BY DEF Types, NewLock
<1>1. Types'
  BY <1>0 DEF Types, Points
<1>2. \A u \in Writers : /\ Counted(u)' <=> Counted(u)
                         /\ HasLease(u)' <=> HasLease(u)
                         /\ InCritical(u)' <=> InCritical(u)
                         /\ HasLease(u) \/ Counted(u) => u # t
                         /\ u # t => mine'[u] = mine[u]
  BY DEF Types, Counted, HasLease, InCritical
<1>3. LeaseCount'
  BY <1>2, CountUnchanged
<1>4. LiveLockIsEntry' /\ LocalLock'
  BY <1>0, NoLockIsNoLock DEF Types, LiveLockIsEntry, LocalLock
<1>5. LeaseIsOnEntry'
  BY <1>0, <1>2, NoLockIsNoLock DEF Types, LeaseIsOnEntry, LocalLock, HasLease, InCritical
<1>6. SweptLockIsFree'
  BY <1>0, <1>2 DEF Types, SweptLockIsFree, LocalLock
<1>7. OnePermit' /\ MutualExclusion'
  BY <1>2 DEF OnePermit, MutualExclusion, HasLease
<1>. QED  BY <1>1, <1>3, <1>4, <1>5, <1>6, <1>7

\* Steps that neither take nor give back anything: only t's control point moves.
LEMMA StepLocal ==
  ASSUME LocksInv, NEW t \in Writers,
         CheckRetired(t) \/ ReadLeaseCount(t) \/ FinishWrite(t)
  PROVE  LocksInv'
<1> USE DEF LocksInv, CheckRetired, ReadLeaseCount, FinishWrite
<1>1. Types'
  BY DEF Types, Points, LocalLock
<1>2. \A u \in Writers : /\ Counted(u)' <=> Counted(u)
                         /\ HasLease(u)' <=> HasLease(u)
                         /\ InCritical(u)' <=> InCritical(u)
  BY DEF Types, Counted, HasLease, InCritical
<1>3. LeaseCount'
  BY <1>2, CountUnchanged
<1>4. LiveLockIsEntry' /\ LocalLock'
  BY DEF Types, LiveLockIsEntry, LocalLock
<1>5. LeaseIsOnEntry' /\ OnePermit' /\ MutualExclusion'
  BY <1>2 DEF LeaseIsOnEntry, OnePermit, MutualExclusion
<1>6. SweptLockIsFree'
  BY <1>2 DEF Types, SweptLockIsFree
<1>. QED  BY <1>1, <1>3, <1>4, <1>5, <1>6

LEMMA StepCompareExchange ==
  ASSUME LocksInv, NEW t \in Writers, CompareExchange(t) PROVE LocksInv'
<1> USE DEF LocksInv, CompareExchange
<1>0. mine[t] \in Locks
  BY DEF Types, LocalLock
<1>1. Types'
  BY <1>0 DEF Types, Points
<1>2. \A u \in Writers : /\ u # t => (Counted(u)' <=> Counted(u))
                         /\ HasLease(u)' <=> HasLease(u)
                         /\ InCritical(u)' <=> InCritical(u)
  BY DEF Types, Counted, HasLease, InCritical
<1>3. LeaseCount'
  <2>1. CASE leases[mine[t]] = seen[t] /\ pc'[t] = "recheck"
    <3>1. ~Counted(t) /\ Counted(t)'
      BY <2>1 DEF Types, Counted, HasLease, InCritical
    <3>2. leases' = [leases EXCEPT ![mine[t]] = @ + 1]
      BY <2>1, <1>0 DEF Types
    <3>. QED  BY <3>1, <3>2, <1>0, <1>2, CountUp
  <2>2. CASE leases[mine[t]] # seen[t]
    <3>1. Counted(t)' <=> Counted(t)
      BY <2>2 DEF Types, Counted, HasLease, InCritical
    <3>. QED  BY <2>2, <3>1, <1>2, CountUnchanged
  <2>. QED  BY <2>1, <2>2 DEF Types
<1>4. LiveLockIsEntry' /\ LocalLock'
  BY DEF Types, LiveLockIsEntry, LocalLock
<1>5. LeaseIsOnEntry' /\ OnePermit' /\ MutualExclusion'
  BY <1>2 DEF LeaseIsOnEntry, OnePermit, MutualExclusion
<1>6. SweptLockIsFree'
  BY <1>2 DEF Types, SweptLockIsFree
<1>. QED  BY <1>1, <1>3, <1>4, <1>5, <1>6

\* The confirmed lease is on the entry, because the lock is not retired; and
\* no task is about to remove that lock, for the same reason.
LEMMA StepRecheckRetired ==
  ASSUME LocksInv, NEW t \in Writers, RecheckRetired(t) PROVE LocksInv'
<1> USE DEF LocksInv, RecheckRetired
<1>1. Types'
  BY DEF Types, Points
<1>2. \A u \in Writers : /\ Counted(u)' <=> Counted(u)
                         /\ u # t => (HasLease(u)' <=> HasLease(u))
                         /\ InCritical(u)' <=> InCritical(u)
  BY DEF Types, Counted, HasLease, InCritical
<1>3. LeaseCount'
  BY <1>2, CountUnchanged
<1>4. HasLease(t)' => mine[t] \notin retired /\ mine[t] = entry
  BY DEF Types, HasLease, InCritical, LocalLock, LiveLockIsEntry
<1>5. LiveLockIsEntry' /\ LocalLock'
  BY DEF Types, LiveLockIsEntry, LocalLock
<1>6. LeaseIsOnEntry' /\ OnePermit' /\ MutualExclusion'
  BY <1>2, <1>4 DEF LeaseIsOnEntry, OnePermit, MutualExclusion
<1>7. SweptLockIsFree'
  BY <1>2, <1>4 DEF Types, SweptLockIsFree
<1>. QED  BY <1>1, <1>3, <1>5, <1>6, <1>7

\* The two ways a task gives its lease back.
LEMMA StepGiveBack ==
  ASSUME LocksInv, NEW t \in Writers, UndoLease(t) \/ ReleaseRoomLease(t) PROVE LocksInv'
<1> USE DEF LocksInv, UndoLease, ReleaseRoomLease
<1>0. mine[t] \in Locks
  BY DEF Types, LocalLock
<1>1. Types'
  BY <1>0 DEF Types, Points
<1>2. /\ \A u \in Writers : /\ u # t => (Counted(u)' <=> Counted(u))
                            /\ u # t => (HasLease(u)' <=> HasLease(u))
                            /\ InCritical(u)' <=> InCritical(u)
      /\ Counted(t) /\ ~Counted(t)' /\ ~HasLease(t)'
  BY DEF Types, Counted, HasLease, InCritical, LocalLock
<1>3. LeaseCount'
  BY <1>0, <1>2, CountDown
<1>4. LiveLockIsEntry' /\ LocalLock'
  BY DEF Types, LiveLockIsEntry, LocalLock
<1>5. LeaseIsOnEntry' /\ OnePermit' /\ MutualExclusion'
  BY <1>2 DEF LeaseIsOnEntry, OnePermit, MutualExclusion
<1>6. SweptLockIsFree'
  BY <1>2 DEF Types, SweptLockIsFree
<1>. QED  BY <1>1, <1>3, <1>4, <1>5, <1>6

LEMMA StepWaitSemaphore ==
  ASSUME LocksInv, NEW t \in Writers, WaitSemaphore(t) PROVE LocksInv'
<1> USE DEF LocksInv, WaitSemaphore
<1>0. mine[t] \in Locks
  BY DEF Types, LocalLock
<1>1. Types'
  BY <1>0 DEF Types, Points
<1>2. \A u \in Writers : /\ Counted(u)' <=> Counted(u)
                         /\ HasLease(u)' <=> HasLease(u)
                         /\ u # t => (InCritical(u)' <=> InCritical(u))
                         /\ InCritical(u) => HasLease(u)
  BY DEF Types, Counted, HasLease, InCritical
<1>3. LeaseCount'
  BY <1>2, CountUnchanged
<1>4. LiveLockIsEntry' /\ LocalLock'
  BY DEF Types, LiveLockIsEntry, LocalLock
<1>5. LeaseIsOnEntry' /\ SweptLockIsFree'
  BY <1>2 DEF Types, LeaseIsOnEntry, SweptLockIsFree
<1>6. /\ InCritical(t)' /\ HasLease(t)
      /\ \A u \in Writers : InCritical(u) => mine[u] # mine[t]
  BY <1>0 DEF Types, OnePermit, InCritical, HasLease
<1>7. MutualExclusion'
  BY <1>2, <1>6 DEF MutualExclusion, LeaseIsOnEntry
<1>8. OnePermit'
  BY <1>0, <1>2, <1>6 DEF Types, OnePermit
<1>. QED  BY <1>1, <1>3, <1>4, <1>5, <1>7, <1>8

\* A cancelled waiter keeps its lease until the catch block drops it.
LEMMA StepWaitCancelled ==
  ASSUME LocksInv, NEW t \in Writers, WaitCancelled(t) PROVE LocksInv'
<1> USE DEF LocksInv, WaitCancelled
<1>1. Types'
  BY DEF Types, Points
<1>2. \A u \in Writers : /\ Counted(u)' <=> Counted(u)
                         /\ HasLease(u)' <=> HasLease(u)
                         /\ InCritical(u)' <=> InCritical(u)
  BY DEF Types, Counted, HasLease, InCritical
<1>3. LeaseCount'
  BY <1>2, CountUnchanged
<1>4. LiveLockIsEntry' /\ LocalLock'
  BY DEF Types, LiveLockIsEntry, LocalLock
<1>5. LeaseIsOnEntry' /\ OnePermit' /\ MutualExclusion'
  BY <1>2 DEF LeaseIsOnEntry, OnePermit, MutualExclusion
<1>6. SweptLockIsFree'
  BY <1>2 DEF Types, SweptLockIsFree
<1>. QED  BY <1>1, <1>3, <1>4, <1>5, <1>6

\* Retiring under the semaphore: every confirmed lease is on the same lock.
LEMMA StepRetireRoomLock ==
  ASSUME LocksInv, NEW t \in Writers, RetireRoomLock(t) PROVE LocksInv'
<1> USE DEF LocksInv, RetireRoomLock
<1>1. Types'
  BY DEF Types, Points, LocalLock
<1>2. \A u \in Writers : /\ Counted(u)' <=> Counted(u)
                         /\ HasLease(u)' <=> HasLease(u)
                         /\ InCritical(u)' <=> InCritical(u)
  BY DEF Types, Counted, HasLease, InCritical
<1>3. LeaseCount'
  BY <1>2, CountUnchanged
<1>4. LiveLockIsEntry' /\ LocalLock'
  BY DEF Types, LiveLockIsEntry, LocalLock
<1>5. LeaseIsOnEntry' /\ OnePermit' /\ MutualExclusion'
  BY <1>2 DEF LeaseIsOnEntry, OnePermit, MutualExclusion
<1>6. SweptLockIsFree'
  BY <1>2 DEF Types, SweptLockIsFree
<1>. QED  BY <1>1, <1>3, <1>4, <1>5, <1>6

LEMMA StepReleaseSemaphore ==
  ASSUME LocksInv, NEW t \in Writers, ReleaseSemaphore(t) PROVE LocksInv'
<1> USE DEF LocksInv, ReleaseSemaphore
<1>0. mine[t] \in Locks
  BY DEF Types, LocalLock
<1>1. Types'
  BY <1>0 DEF Types, Points
<1>2. /\ \A u \in Writers : /\ Counted(u)' <=> Counted(u)
                            /\ HasLease(u)' <=> HasLease(u)
                            /\ u # t => (InCritical(u)' <=> InCritical(u))
      /\ InCritical(t) /\ ~InCritical(t)'
  BY DEF Types, Counted, HasLease, InCritical
<1>3. LeaseCount'
  BY <1>2, CountUnchanged
<1>4. LiveLockIsEntry' /\ LocalLock'
  BY DEF Types, LiveLockIsEntry, LocalLock
<1>5. LeaseIsOnEntry' /\ MutualExclusion' /\ SweptLockIsFree'
  BY <1>2 DEF Types, LeaseIsOnEntry, MutualExclusion, SweptLockIsFree
<1>6. OnePermit'
  <2>1. \A u \in Writers : ~InCritical(u)'
    BY <1>2 DEF MutualExclusion
  <2>2. \A l \in Locks : permits'[l] = 1
    BY <1>0, <1>2 DEF Types, OnePermit, MutualExclusion
  <2>. QED  BY <2>1, <2>2 DEF OnePermit
<1>. QED  BY <1>1, <1>3, <1>4, <1>5, <1>6

\* A task that found a retired lock without leases found one without
\* confirmed leases, and none can come back.
LEMMA StepSweepCheck ==
  ASSUME LocksInv, NEW t \in Writers, SweepCheck(t) PROVE LocksInv'
<1> USE DEF LocksInv, SweepCheck
<1>0. mine[t] \in Locks
  BY DEF Types, LocalLock
<1>1. Types'
  BY DEF Types, Points
<1>2. \A u \in Writers : /\ Counted(u)' <=> Counted(u)
                         /\ HasLease(u)' <=> HasLease(u)
                         /\ InCritical(u)' <=> InCritical(u)
  BY DEF Types, Counted, HasLease, InCritical
<1>3. LeaseCount'
  BY <1>2, CountUnchanged
<1>4. LiveLockIsEntry' /\ LocalLock'
  BY DEF Types, LiveLockIsEntry, LocalLock
<1>5. LeaseIsOnEntry' /\ OnePermit' /\ MutualExclusion'
  BY <1>2 DEF LeaseIsOnEntry, OnePermit, MutualExclusion
<1>6. SweptLockIsFree'
  <2>1. pc'[t] = "remove" =>
          /\ mine[t] \in retired
          /\ \A u \in Writers : HasLease(u) => mine[u] # mine[t]
    BY <1>0, ZeroLeases DEF Types
  <2>. QED  BY <1>2, <2>1 DEF Types, SweptLockIsFree
<1>. QED  BY <1>1, <1>3, <1>4, <1>5, <1>6

LEMMA StepSweepRemove ==
  ASSUME LocksInv, NEW t \in Writers, SweepRemove(t) PROVE LocksInv'
<1> USE DEF LocksInv, SweepRemove
<1>0. mine[t] \in Locks /\ mine[t] \in retired
  BY DEF Types, LocalLock, SweptLockIsFree
<1>1. Types'
  BY DEF Types, Points
<1>2. \A u \in Writers : /\ Counted(u)' <=> Counted(u)
                         /\ HasLease(u)' <=> HasLease(u)
                         /\ InCritical(u)' <=> InCritical(u)
  BY DEF Types, Counted, HasLease, InCritical
<1>3. LeaseCount'
  BY <1>2, CountUnchanged
<1>4. LiveLockIsEntry' /\ LocalLock'
  BY <1>0, NoLockIsNoLock DEF Types, LiveLockIsEntry, LocalLock
<1>5. LeaseIsOnEntry'
  BY <1>2 DEF LeaseIsOnEntry, SweptLockIsFree
<1>6. OnePermit' /\ MutualExclusion'
  BY <1>2 DEF OnePermit, MutualExclusion
<1>7. SweptLockIsFree'
  BY <1>0, <1>2, NoLockIsNoLock DEF Types, SweptLockIsFree, LocalLock
<1>. QED  BY <1>1, <1>3, <1>4, <1>5, <1>6, <1>7

LEMMA StepSweepDispose ==
  ASSUME LocksInv, NEW t \in Writers, SweepDispose(t) PROVE LocksInv'
<1> USE DEF LocksInv, SweepDispose
<1>0. mine[t] \in retired /\ mine[t] # entry
  BY DEF SweptLockIsFree
<1>1. Types'
  BY <1>0 DEF Types, Points
<1>2. \A u \in Writers : /\ Counted(u)' <=> Counted(u)
                         /\ HasLease(u)' <=> HasLease(u)
                         /\ InCritical(u)' <=> InCritical(u)
  BY DEF Types, Counted, HasLease, InCritical
<1>3. LeaseCount'
  BY <1>2, CountUnchanged
<1>4. LiveLockIsEntry' /\ LocalLock'
  BY <1>0 DEF Types, LiveLockIsEntry, LocalLock
<1>5. LeaseIsOnEntry' /\ OnePermit' /\ MutualExclusion'
  BY <1>2 DEF LeaseIsOnEntry, OnePermit, MutualExclusion
<1>6. SweptLockIsFree'
  BY <1>2 DEF Types, SweptLockIsFree
<1>. QED  BY <1>1, <1>3, <1>4, <1>5, <1>6

LEMMA IdleLocks == ASSUME LocksInv, UNCHANGED protocolVars PROVE LocksInv'
<1> USE DEF LocksInv, protocolVars
<1>1. \A u \in Writers : /\ Counted(u)' <=> Counted(u)
                         /\ HasLease(u)' <=> HasLease(u)
                         /\ InCritical(u)' <=> InCritical(u)
  BY DEF Counted, HasLease, InCritical
<1>2. LeaseCount'
  BY <1>1, CountUnchanged
<1>3. Types' /\ LiveLockIsEntry' /\ LocalLock'
  BY DEF Types, LiveLockIsEntry, LocalLock
<1>4. LeaseIsOnEntry' /\ OnePermit' /\ MutualExclusion' /\ SweptLockIsFree'
  BY <1>1 DEF LeaseIsOnEntry, OnePermit, MutualExclusion, SweptLockIsFree
<1>. QED  BY <1>2, <1>3, <1>4

THEOREM NextLocks == LocksInv /\ [LockNext]_protocolVars => LocksInv'
<1> SUFFICES ASSUME LocksInv, [LockNext]_protocolVars PROVE LocksInv'
  OBVIOUS
<1>1. ASSUME NEW t \in Writers, Step(t) PROVE LocksInv'
  BY <1>1, StepGetOrAdd, StepLocal, StepCompareExchange, StepRecheckRetired,
     StepGiveBack, StepWaitSemaphore, StepRetireRoomLock, StepReleaseSemaphore,
     StepSweepCheck, StepSweepRemove, StepSweepDispose DEF Step
<1>2. ASSUME NEW t \in Writers, WaitCancelled(t) PROVE LocksInv'
  BY <1>2, StepWaitCancelled
<1>3. CASE UNCHANGED protocolVars
  BY <1>3, IdleLocks
<1>. QED  BY <1>1, <1>2, <1>3 DEF LockNext, Terminated

THEOREM LocksAlways == LockSpec => []LocksInv
  BY InitLocks, NextLocks, PTL DEF LockSpec

----------------------------------------------------------------------------
(* The properties the runs check, for every instance. *)

\* The variables of the lock protocol keep their types.
THEOREM LockTypeCorrect == LockSpec => []LockTypeOK
<1>1. LocksInv => LockTypeOK
  <2> SUFFICES ASSUME LocksInv PROVE LockTypeOK
    OBVIOUS
  <2>1. \A l \in Locks : leases[l] \in Nat
    BY WritersFinite, FS_Subset, FS_CardinalityType DEF LocksInv, LeaseCount, CountedOn
  <2>. QED  BY <2>1 DEF LocksInv, Types, OnePermit, LockTypeOK
<1>. QED  BY <1>1, LocksAlways, PTL

\* At most one persistence task of a room writes its row, across generations
\* of the room's lock.
THEOREM MutualExclusionHolds == LockSpec => []MutualExclusion
<1>1. LocksInv => MutualExclusion
  BY DEF LocksInv
<1>. QED  BY <1>1, LocksAlways, PTL

\* A task with a confirmed lease holds the lock the dictionary has now.
THEOREM LeaseIsOnEntryHolds == LockSpec => []LeaseIsOnEntry
<1>1. LocksInv => LeaseIsOnEntry
  BY DEF LocksInv
<1>. QED  BY <1>1, LocksAlways, PTL

\* Nobody waits on or releases a disposed semaphore.
THEOREM NoUseAfterDisposeHolds == LockSpec => []NoUseAfterDispose
<1>1. LocksInv => NoUseAfterDispose
  BY DEF LocksInv, LeaseIsOnEntry, LiveLockIsEntry, NoUseAfterDispose
<1>. QED  BY <1>1, LocksAlways, PTL

\* Retirement never goes back: a retired lock gives no confirmed lease, is never
\* the entry again, and only retired locks leave the dictionary.
THEOREM RetirementIsFinalHolds == LockSpec => RetirementIsFinal
<1>1. LocksInv /\ [LockNext]_protocolVars =>
        [ /\ retired \subseteq retired'
          /\ entry' # entry => entry' \notin retired /\ entry \in retired \cup {NoLock}
          /\ \A t \in Writers : HasLease(t)' /\ ~HasLease(t) => mine[t] \notin retired
        ]_protocolVars
  <2> SUFFICES ASSUME LocksInv, LockNext
               PROVE  /\ retired \subseteq retired'
                      /\ entry' # entry => entry' \notin retired /\ entry \in retired \cup {NoLock}
                      /\ \A t \in Writers : HasLease(t)' /\ ~HasLease(t) => mine[t] \notin retired
    OBVIOUS
  <2>1. ASSUME NEW t \in Writers, Step(t) \/ WaitCancelled(t)
        PROVE  retired \subseteq retired'
    BY <2>1 DEF Step, GetOrAdd, CheckRetired, ReadLeaseCount, CompareExchange,
       RecheckRetired, UndoLease, WaitSemaphore, FinishWrite, RetireRoomLock,
       ReleaseSemaphore, ReleaseRoomLease, SweepCheck, SweepRemove, SweepDispose,
       WaitCancelled
  <2>2. ASSUME NEW t \in Writers, Step(t) \/ WaitCancelled(t), entry' # entry
        PROVE  entry' \notin retired /\ entry \in retired \cup {NoLock}
    <3>1. GetOrAdd(t) \/ SweepRemove(t)
      BY <2>2 DEF Step, CheckRetired, ReadLeaseCount, CompareExchange,
         RecheckRetired, UndoLease, WaitSemaphore, FinishWrite, RetireRoomLock,
         ReleaseSemaphore, ReleaseRoomLease, SweepCheck, SweepDispose,
         WaitCancelled
    <3>2. CASE GetOrAdd(t)
      BY <3>2, <2>2 DEF GetOrAdd, NewLock, LocksInv, Types
    <3>3. CASE SweepRemove(t)
      BY <3>3, <2>2, NoLockIsNoLock DEF SweepRemove, LocksInv, Types, SweptLockIsFree
    <3>. QED  BY <3>1, <3>2, <3>3
  <2>3. ASSUME NEW t \in Writers, Step(t) \/ WaitCancelled(t),
               NEW u \in Writers, HasLease(u)', ~HasLease(u)
        PROVE  mine[u] \notin retired
    <3>1. RecheckRetired(t) /\ u = t
      BY <2>3 DEF Step, GetOrAdd, CheckRetired, ReadLeaseCount, CompareExchange,
         RecheckRetired, UndoLease, WaitSemaphore, FinishWrite, RetireRoomLock,
         ReleaseSemaphore, ReleaseRoomLease, SweepCheck, SweepRemove,
         SweepDispose, WaitCancelled, HasLease, InCritical, LocksInv, Types, LocalLock
    <3>. QED  BY <3>1, <2>3 DEF RecheckRetired, HasLease, InCritical, LocksInv, Types
  <2>4. CASE Terminated
    BY <2>4 DEF Terminated, protocolVars, HasLease, InCritical
  <2>. QED  BY <2>1, <2>2, <2>3, <2>4 DEF LockNext
<1>. QED  BY <1>1, LocksAlways, PTL DEF LockSpec, RetirementIsFinal

----------------------------------------------------------------------------
(* Nothing is left of a retired lock.                                      *)

\* The task will still come to TryRemoveRetiredRoomLock with its lock, or is
\* there and has not lost the race for it.
WillSweep(t) == Counted(t) \/ pc[t] \in {"sweep", "remove"}

\* A retired lock is never forgotten: while it is the entry, somebody will
\* still sweep it; when it has left the dictionary, it is disposed or the task
\* that took it out is about to dispose it.
SweepIsComing ==
  \A l \in retired :
    /\ l = entry => \E t \in Writers : WillSweep(t) /\ mine[t] = l
    /\ l # entry => \/ l \in disposed
                    \/ \E t \in Writers : pc[t] = "dispose" /\ mine[t] = l

\* A step that takes nobody off the way to the sweep.
LEMMA SweepersStay ==
  ASSUME SweepIsComing, UNCHANGED <<entry, retired, disposed>>,
         \A t \in Writers : /\ WillSweep(t) => WillSweep(t)' /\ mine'[t] = mine[t]
                            /\ pc[t] = "dispose" => pc'[t] = "dispose" /\ mine'[t] = mine[t]
  PROVE  SweepIsComing'
<1> SUFFICES ASSUME NEW l \in retired
             PROVE  /\ l = entry => \E t \in Writers : WillSweep(t)' /\ mine'[t] = l
                    /\ l # entry => \/ l \in disposed
                                    \/ \E t \in Writers : pc'[t] = "dispose" /\ mine'[t] = l
  BY DEF SweepIsComing
<1>1. CASE l = entry
  <2>1. PICK t \in Writers : WillSweep(t) /\ mine[t] = l
    BY <1>1 DEF SweepIsComing
  <2>. QED  BY <2>1, <1>1
<1>2. CASE l # entry /\ l \notin disposed
  <2>1. PICK t \in Writers : pc[t] = "dispose" /\ mine[t] = l
    BY <1>2 DEF SweepIsComing
  <2>. QED  BY <2>1, <1>2
<1>. QED  BY <1>1, <1>2

\* Whoever finds leases on the lock leaves the sweep to their holder.
LEMMA SweepCheckPassesOn ==
  ASSUME LocksInv, SweepIsComing, NEW t \in Writers, SweepCheck(t)
  PROVE  SweepIsComing'
<1> USE DEF LocksInv, SweepCheck
<1>0. mine[t] \in Locks
  BY DEF Types, LocalLock
<1>1. \A u \in Writers : /\ Counted(u)' <=> Counted(u)
                         /\ u # t => pc'[u] = pc[u]
  BY DEF Types, Counted, HasLease, InCritical
<1>2. CASE pc'[t] = "remove"
  <2>1. \A u \in Writers : WillSweep(u) => WillSweep(u)'
    BY <1>1, <1>2 DEF WillSweep
  <2>. QED  BY <2>1, <1>1, SweepersStay
<1>3. CASE mine[t] \in retired /\ leases[mine[t]] # 0
  <2>1. CountedOn(mine[t]) # {}
    BY <1>0, <1>3, FS_EmptySet DEF LeaseCount
  <2>2. PICK v \in Writers : Counted(v) /\ mine[v] = mine[t]
    BY <2>1 DEF CountedOn
  <2> SUFFICES ASSUME NEW l \in retired
               PROVE  /\ l = entry => \E u \in Writers : WillSweep(u)' /\ mine[u] = l
                      /\ l # entry => \/ l \in disposed
                                      \/ \E u \in Writers : pc'[u] = "dispose" /\ mine[u] = l
    BY DEF SweepIsComing
  <2>3. CASE l = entry /\ l = mine[t]
    BY <2>2, <2>3, <1>1 DEF WillSweep
  <2>4. CASE l = entry /\ l # mine[t]
    <3>1. PICK u \in Writers : WillSweep(u) /\ mine[u] = l
      BY <2>4 DEF SweepIsComing
    <3>. QED  BY <3>1, <2>4, <1>1 DEF WillSweep
  <2>5. CASE l # entry /\ l \notin disposed
    <3>1. PICK u \in Writers : pc[u] = "dispose" /\ mine[u] = l
      BY <2>5 DEF SweepIsComing
    <3>. QED  BY <3>1, <2>5, <1>1
  <2>. QED  BY <2>3, <2>4, <2>5
<1>4. CASE mine[t] \notin retired
  <2> SUFFICES ASSUME NEW l \in retired
               PROVE  /\ l = entry => \E u \in Writers : WillSweep(u)' /\ mine[u] = l
                      /\ l # entry => \/ l \in disposed
                                      \/ \E u \in Writers : pc'[u] = "dispose" /\ mine[u] = l
    BY DEF SweepIsComing
  <2>1. CASE l = entry
    <3>1. PICK u \in Writers : WillSweep(u) /\ mine[u] = l
      BY <2>1 DEF SweepIsComing
    <3>. QED  BY <3>1, <2>1, <1>1, <1>4 DEF WillSweep
  <2>2. CASE l # entry /\ l \notin disposed
    <3>1. PICK u \in Writers : pc[u] = "dispose" /\ mine[u] = l
      BY <2>2 DEF SweepIsComing
    <3>. QED  BY <3>1, <2>2, <1>1
  <2>. QED  BY <2>1, <2>2
<1>5. pc'[t] = "remove" \/ mine[t] \notin retired \/ leases[mine[t]] # 0
  BY DEF Types
<1>. QED  BY <1>2, <1>3, <1>4, <1>5

LEMMA SweepIsComingStep ==
  ASSUME LocksInv, SweepIsComing, NEW t \in Writers, Step(t) \/ WaitCancelled(t)
  PROVE  SweepIsComing'
<1> USE DEF LocksInv, Types
<1>1. CASE GetOrAdd(t)
  <2>0. entry = NoLock => NewLock \in Locks /\ NewLock \notin created
    BY <1>1 DEF NewLock, GetOrAdd
  <2>1. \A u \in Writers : /\ WillSweep(u) => WillSweep(u)' /\ mine'[u] = mine[u]
                           /\ pc[u] = "dispose" => pc'[u] = "dispose" /\ mine'[u] = mine[u]
    BY <1>1 DEF GetOrAdd, WillSweep, Counted, HasLease, InCritical
  <2>2. entry' # entry => entry = NoLock /\ entry' \notin retired /\ NoLock \notin retired
    BY <1>1, <2>0, NoLockIsNoLock DEF GetOrAdd
  <2>3. \A l \in retired : l = entry' <=> l = entry
    BY <2>2
  <2> SUFFICES ASSUME NEW l \in retired
               PROVE  /\ l = entry => \E u \in Writers : WillSweep(u)' /\ mine'[u] = l
                      /\ l # entry => \/ l \in disposed
                                      \/ \E u \in Writers : pc'[u] = "dispose" /\ mine'[u] = l
    BY <1>1, <2>3 DEF SweepIsComing, GetOrAdd
  <2>4. CASE l = entry
    <3>1. PICK u \in Writers : WillSweep(u) /\ mine[u] = l
      BY <2>4 DEF SweepIsComing
    <3>. QED  BY <3>1, <2>1, <2>4
  <2>5. CASE l # entry /\ l \notin disposed
    <3>1. PICK u \in Writers : pc[u] = "dispose" /\ mine[u] = l
      BY <2>5 DEF SweepIsComing
    <3>. QED  BY <3>1, <2>1, <2>5
  <2>. QED  BY <2>4, <2>5
<1>2. CASE CheckRetired(t) \/ ReadLeaseCount(t) \/ CompareExchange(t) \/ RecheckRetired(t)
  BY <1>2, SweepersStay DEF CheckRetired, ReadLeaseCount, CompareExchange,
     RecheckRetired, WillSweep, Counted, HasLease, InCritical
<1>3. CASE UndoLease(t) \/ WaitSemaphore(t) \/ FinishWrite(t) \/ WaitCancelled(t)
  BY <1>3, SweepersStay DEF UndoLease, WaitSemaphore, FinishWrite, WaitCancelled,
     WillSweep, Counted, HasLease, InCritical
<1>4. CASE ReleaseSemaphore(t) \/ ReleaseRoomLease(t)
  BY <1>4, SweepersStay DEF ReleaseSemaphore, ReleaseRoomLease,
     WillSweep, Counted, HasLease, InCritical
<1>5. CASE RetireRoomLock(t)
  <2>1. mine[t] = entry /\ WillSweep(t)'
    BY <1>5 DEF RetireRoomLock, LeaseIsOnEntry, HasLease, InCritical, WillSweep
  <2>2. \A u \in Writers : /\ WillSweep(u) => WillSweep(u)'
                           /\ pc[u] = "dispose" => pc'[u] = "dispose"
    BY <1>5 DEF RetireRoomLock, WillSweep, Counted, HasLease, InCritical
  <2> SUFFICES ASSUME NEW l \in retired'
               PROVE  /\ l = entry => \E u \in Writers : WillSweep(u)' /\ mine[u] = l
                      /\ l # entry => \/ l \in disposed
                                      \/ \E u \in Writers : pc'[u] = "dispose" /\ mine[u] = l
    BY <1>5 DEF SweepIsComing, RetireRoomLock
  <2>3. CASE l = entry
    BY <2>1, <2>3
  <2>4. CASE l # entry /\ l \notin disposed
    <3>1. l \in retired
      BY <1>5, <2>1, <2>4 DEF RetireRoomLock
    <3>2. PICK u \in Writers : pc[u] = "dispose" /\ mine[u] = l
      BY <2>4, <3>1 DEF SweepIsComing
    <3>. QED  BY <3>2, <2>2, <2>4
  <2>. QED  BY <2>3, <2>4
<1>6. CASE SweepCheck(t)
  BY <1>6, SweepCheckPassesOn
<1>7. CASE SweepRemove(t)
  <2>1. \A u \in Writers : u # t => /\ WillSweep(u) => WillSweep(u)'
                                    /\ pc[u] = "dispose" => pc'[u] = "dispose"
    BY <1>7 DEF SweepRemove, WillSweep, Counted, HasLease, InCritical
  <2> SUFFICES ASSUME NEW l \in retired
               PROVE  /\ l = entry' => \E u \in Writers : WillSweep(u)' /\ mine[u] = l
                      /\ l # entry' => \/ l \in disposed
                                       \/ \E u \in Writers : pc'[u] = "dispose" /\ mine[u] = l
    BY <1>7 DEF SweepIsComing, SweepRemove
  <2>2. CASE l = mine[t] /\ l = entry
    BY <1>7, <2>2, NoLockIsNoLock DEF SweepRemove
  <2>3. CASE l # mine[t] /\ l = entry
    <3>1. PICK u \in Writers : WillSweep(u) /\ mine[u] = l
      BY <2>3 DEF SweepIsComing
    <3>. QED  BY <3>1, <2>1, <2>3, <1>7 DEF SweepRemove
  <2>4. CASE l # entry
    <3>1. l \in disposed \/ \E u \in Writers : pc[u] = "dispose" /\ mine[u] = l
      BY <2>4 DEF SweepIsComing
    <3>2. l # entry'
      BY <1>7, <2>4, NoLockIsNoLock DEF SweepRemove
    <3>3. pc[t] # "dispose"
      BY <1>7 DEF SweepRemove
    <3>. QED  BY <3>1, <3>2, <3>3, <2>1
  <2>. QED  BY <2>2, <2>3, <2>4
<1>8. CASE SweepDispose(t)
  <2>1. /\ \A u \in Writers : WillSweep(u) => WillSweep(u)'
        /\ \A u \in Writers : u # t /\ pc[u] = "dispose" => pc'[u] = "dispose"
    BY <1>8 DEF SweepDispose, WillSweep, Counted, HasLease, InCritical
  <2> SUFFICES ASSUME NEW l \in retired
               PROVE  /\ l = entry => \E u \in Writers : WillSweep(u)' /\ mine[u] = l
                      /\ l # entry => \/ l \in disposed'
                                      \/ \E u \in Writers : pc'[u] = "dispose" /\ mine[u] = l
    BY <1>8 DEF SweepIsComing, SweepDispose
  <2>2. CASE l = entry
    <3>1. PICK u \in Writers : WillSweep(u) /\ mine[u] = l
      BY <2>2 DEF SweepIsComing
    <3>. QED  BY <3>1, <2>1, <2>2
  <2>3. CASE l # entry /\ l \notin disposed'
    <3>1. l # mine[t] /\ l \notin disposed
      BY <1>8, <2>3 DEF SweepDispose
    <3>2. PICK u \in Writers : pc[u] = "dispose" /\ mine[u] = l
      BY <2>3, <3>1 DEF SweepIsComing
    <3>. QED  BY <3>1, <3>2, <2>1, <2>3
  <2>. QED  BY <2>2, <2>3
<1>. QED  BY <1>1, <1>2, <1>3, <1>4, <1>5, <1>6, <1>7, <1>8 DEF Step

\* With the tasks done, a retired lock has been taken out and disposed of, and
\* no lease or permit is outstanding on any lock.
THEOREM NothingLeaksHolds == LockSpec => []NothingLeaks
<1>1. LockInit => SweepIsComing
  BY DEF LockInit, SweepIsComing
<1>2. LocksInv /\ SweepIsComing /\ [LockNext]_protocolVars => SweepIsComing'
  <2> SUFFICES ASSUME LocksInv, SweepIsComing, [LockNext]_protocolVars PROVE SweepIsComing'
    OBVIOUS
  <2>1. CASE \E t \in Writers : Step(t) \/ WaitCancelled(t)
    BY <2>1, SweepIsComingStep
  <2>2. CASE UNCHANGED protocolVars
    BY <2>2 DEF protocolVars, SweepIsComing, WillSweep, Counted, HasLease, InCritical
  <2>. QED  BY <2>1, <2>2 DEF LockNext, Terminated
<1>3. LocksInv /\ SweepIsComing => NothingLeaks
  <2> SUFFICES ASSUME LocksInv, SweepIsComing, AllDone
               PROVE  /\ retired = disposed
                      /\ entry \notin retired
                      /\ \A l \in Locks : leases[l] = 0 /\ permits[l] = 1
    BY DEF NothingLeaks
  <2>1. \A t \in Writers : /\ ~WillSweep(t) /\ ~Counted(t) /\ ~InCritical(t)
                           /\ pc[t] # "dispose"
    BY DEF AllDone, WillSweep, Counted, HasLease, InCritical
  <2>2. retired = disposed /\ entry \notin retired
    BY <2>1 DEF SweepIsComing, LocksInv, Types
  <2>3. \A l \in Locks : CountedOn(l) = {}
    BY <2>1 DEF CountedOn
  <2>4. \A l \in Locks : leases[l] = 0
    BY <2>3, FS_EmptySet DEF LocksInv, LeaseCount
  <2>5. \A l \in Locks : permits[l] = 1
    BY <2>1 DEF LocksInv, OnePermit
  <2>. QED  BY <2>2, <2>4, <2>5
<1>. QED  BY <1>1, <1>2, <1>3, LocksAlways, PTL DEF LockSpec

----------------------------------------------------------------------------
(* The lock protocol implements the mutual-exclusion object its callers use. *)

Finished(t) ==
  \/ pc[t] \in {"unlease", "done"}
  \/ pc[t] \in {"sweep", "remove", "dispose"} /\ ret[t] = "done"

\* A step that moves nobody in or out of the critical section is a stutter.
LEMMA PhaseUnchanged ==
  ASSUME \A u \in Writers : /\ InCritical(u)' <=> InCritical(u)
                            /\ Finished(u)' <=> Finished(u)
  PROVE  Phase' = Phase
BY DEF Phase, Finished

LEMMA InitMapsToInit == LockInit => Mutex!Init
BY DEF LockInit, Mutex!Init, Phase, InCritical

LEMMA StepMapsToStep ==
  ASSUME LocksInv, NEW t \in Writers, Step(t) \/ WaitCancelled(t)
  PROVE  Mutex!Next \/ Phase' = Phase
<1> USE DEF LocksInv, Types
<1>1. CASE WaitSemaphore(t)
  <2>1. /\ \A u \in Writers : ~InCritical(u)
        /\ InCritical(t)' /\ ~Finished(t)
        /\ \A u \in Writers \ {t} : /\ InCritical(u)' <=> InCritical(u)
                                    /\ Finished(u)' <=> Finished(u)
    BY <1>1 DEF WaitSemaphore, OnePermit, LeaseIsOnEntry, HasLease, InCritical,
       Finished, LocalLock
  <2>2. Phase[t] = "waiting" /\ \A u \in Writers : Phase[u] # "writing"
    BY <2>1 DEF Phase, Finished
  <2>3. Phase' = [Phase EXCEPT ![t] = "writing"]
    BY <2>1 DEF Phase, Finished
  <2>. QED  BY <2>2, <2>3 DEF Mutex!Next, Mutex!Enter
<1>2. CASE ReleaseSemaphore(t)
  <2>1. /\ InCritical(t) /\ ~InCritical(t)' /\ Finished(t)'
        /\ \A u \in Writers \ {t} : /\ InCritical(u)' <=> InCritical(u)
                                    /\ Finished(u)' <=> Finished(u)
    BY <1>2 DEF ReleaseSemaphore, InCritical, Finished
  <2>2. Phase[t] = "writing" /\ Phase' = [Phase EXCEPT ![t] = "finished"]
    BY <2>1 DEF Phase, Finished
  <2>. QED  BY <2>2 DEF Mutex!Next, Mutex!Leave
<1>3. CASE WaitCancelled(t)
  <2>1. /\ ~InCritical(t) /\ ~Finished(t) /\ ~InCritical(t)' /\ Finished(t)'
        /\ \A u \in Writers \ {t} : /\ InCritical(u)' <=> InCritical(u)
                                    /\ Finished(u)' <=> Finished(u)
    BY <1>3 DEF WaitCancelled, InCritical, Finished
  <2>2. Phase[t] = "waiting" /\ Phase' = [Phase EXCEPT ![t] = "finished"]
    BY <2>1 DEF Phase, Finished
  <2>. QED  BY <2>2 DEF Mutex!Next, Mutex!GiveUp
<1>4. CASE GetOrAdd(t) \/ CheckRetired(t) \/ ReadLeaseCount(t) \/ CompareExchange(t)
  BY <1>4, PhaseUnchanged DEF GetOrAdd, CheckRetired, ReadLeaseCount,
     CompareExchange, InCritical, Finished
<1>5. CASE RecheckRetired(t) \/ UndoLease(t) \/ FinishWrite(t) \/ RetireRoomLock(t)
  BY <1>5, PhaseUnchanged DEF RecheckRetired, UndoLease, FinishWrite,
     RetireRoomLock, InCritical, Finished
<1>6. CASE ReleaseRoomLease(t) \/ SweepCheck(t) \/ SweepRemove(t) \/ SweepDispose(t)
  BY <1>6, PhaseUnchanged DEF ReleaseRoomLease, SweepCheck, SweepRemove,
     SweepDispose, InCritical, Finished, LocalLock
<1>. QED  BY <1>1, <1>2, <1>3, <1>4, <1>5, <1>6 DEF Step

\* RoomWriteLocks implements WriterMutex.
THEOREM LocksRefineMutex == LockSpec => ImplementsMutex
<1>1. LocksInv /\ [LockNext]_protocolVars => [Mutex!Next]_Phase
  <2> SUFFICES ASSUME LocksInv, [LockNext]_protocolVars PROVE Mutex!Next \/ Phase' = Phase
    OBVIOUS
  <2>1. CASE \E t \in Writers : Step(t) \/ WaitCancelled(t)
    BY <2>1, StepMapsToStep
  <2>2. CASE UNCHANGED protocolVars
    BY <2>2 DEF protocolVars, Phase, InCritical
  <2>. QED  BY <2>1, <2>2 DEF LockNext, Terminated
<1>. QED  BY <1>1, InitMapsToInit, LocksAlways, PTL
     DEF LockSpec, ImplementsMutex, Mutex!Spec

(***************************************************************************)
(* Persistence and restart                                                 *)
(***************************************************************************)

\* Only the task in the critical section has found a row, and it is current.
Exclusive ==
  /\ \A t \in Tasks : phase[t] = "writing" => snap[t] # None /\ found[t] = row
  /\ \A t, u \in Tasks : phase[t] = "writing" /\ phase[u] = "writing" => t = u

\* Snapshots belong to a room in memory, and are taken from it.
SnapshotsOfRoom ==
  /\ room # None => server = "up"
  /\ \A t \in Tasks : snap[t] # None =>
       /\ room # None
       /\ snap[t].version <= room.version
       /\ snap[t].over => room.over
       /\ (snap[t].active <=> ~snap[t].over)
       /\ snap[t].at <= now

SnapshotsOrdered ==
  \A t, u \in Tasks : snap[t] # None /\ snap[u] # None =>
    /\ snap[t].at = snap[u].at => t = u
    /\ snap[t].at < snap[u].at =>
         snap[t].version <= snap[u].version /\ (snap[t].over => snap[u].over)

\* A snapshot at least as young as the row is at least as advanced; a closed
\* row has only snapshots of a finished game after it.
RowOrdered ==
  row # None =>
    /\ row.at <= now /\ row.version <= latest
    /\ row.over => ~row.active
    /\ \A t \in Tasks : snap[t] # None /\ row.at <= snap[t].at =>
         row.version <= snap[t].version /\ (~row.active => snap[t].over)

MemoryAhead ==
  room # None =>
    /\ room.version <= latest
    /\ row # None => row.version <= room.version /\ (~row.active => room.over)

IInv ==
  /\ TypeOK
  /\ Exclusive
  /\ SnapshotsOfRoom
  /\ SnapshotsOrdered
  /\ RowOrdered
  /\ MemoryAhead

----------------------------------------------------------------------------
LEMMA RowOfRoom ==
  ASSUME NEW r \in Rooms, NEW time \in Nat
  PROVE  /\ Row(r, time) \in Rows
         /\ Row(r, time).version = r.version /\ (Row(r, time).over <=> r.over)
         /\ (Row(r, time).active <=> ~r.over) /\ Row(r, time).at = time
BY DEF Row, Rows, Rooms

THEOREM InitInv == Init => IInv
<1> SUFFICES ASSUME Init PROVE IInv
  OBVIOUS
<1> USE DEF Init, Lock!Init
<1>1. room \in Rooms
  BY DEF Rooms
<1>2. PICK t \in Tasks : snap = [u \in Tasks |-> IF u = t THEN Row(room, 1) ELSE None]
  OBVIOUS
<1>3. /\ Row(room, 1) \in Rows /\ Row(room, 1).version = 1
      /\ ~Row(room, 1).over /\ Row(room, 1).active /\ Row(room, 1).at = 1
  BY <1>1, RowOfRoom
<1>4. TypeOK
  BY <1>1, <1>2, <1>3 DEF TypeOK, Lock!TypeOK, Lock!Phases
<1>5. Exclusive /\ RowOrdered /\ MemoryAhead
  BY <1>1 DEF Exclusive, RowOrdered, MemoryAhead
<1>6. \A u \in Tasks : snap[u] # None => u = t /\ snap[u] = Row(room, 1)
  BY <1>2
<1>7. SnapshotsOfRoom
  <2>1. room # None
    BY <1>1, NoneIsNone
  <2>2. room.version = 1 /\ ~room.over
    OBVIOUS
  <2>. QED  BY <1>3, <1>6, <2>1, <2>2 DEF SnapshotsOfRoom
<1>8. SnapshotsOrdered
  BY <1>3, <1>6 DEF SnapshotsOrdered
<1>. QED  BY <1>4, <1>5, <1>7, <1>8 DEF IInv

----------------------------------------------------------------------------
(* One lemma per action. *)

LEMMA StepMutate ==
  ASSUME IInv, NEW t \in Tasks, Mutate(t) PROVE IInv'
<1> USE DEF IInv, Mutate, QueuePersistence
<1>1. /\ room \in Rooms /\ room' \in Rooms /\ room' # None
      /\ room'.version = latest + 1 /\ room'.over \in BOOLEAN
      /\ room.over => room'.over
  <2>1. room \in Rooms /\ room.over \in BOOLEAN
    BY DEF TypeOK, Rooms
  <2>2. PICK over \in {room.over, TRUE} :
          room' = [version |-> latest + 1, over |-> over]
    OBVIOUS
  <2>3. over \in BOOLEAN /\ (room.over => over)
    BY <2>1, <2>2
  <2>4. room' \in Rooms /\ room'.version = latest + 1 /\ room'.over = over
    BY <2>2, <2>3 DEF TypeOK, Rooms
  <2>. QED  BY <2>1, <2>3, <2>4, NoneIsNone
<1>2. /\ snap' = [snap EXCEPT ![t] = Row(room', now + 1)]
      /\ Row(room', now + 1) \in Rows
      /\ Row(room', now + 1).version = latest + 1
      /\ (Row(room', now + 1).over <=> room'.over)
      /\ (Row(room', now + 1).active <=> ~room'.over)
      /\ Row(room', now + 1).at = now + 1
  BY <1>1, RowOfRoom DEF TypeOK
<1>3. TypeOK'
  BY <1>1, <1>2 DEF TypeOK, Lock!TypeOK
<1>4. Exclusive'
  BY <1>2 DEF TypeOK, Exclusive
<1>5. \A u \in Tasks : snap'[u] # None =>
        \/ u = t /\ snap'[u] = Row(room', now + 1)
        \/ u # t /\ snap'[u] = snap[u] /\ snap[u] # None /\ snap[u] \in Rows
  BY <1>2 DEF TypeOK
<1>6. SnapshotsOfRoom'
  BY <1>1, <1>2, <1>5 DEF TypeOK, SnapshotsOfRoom, MemoryAhead, Rooms, Rows
<1>7. SnapshotsOrdered'
  BY <1>1, <1>2, <1>5 DEF TypeOK, SnapshotsOrdered, SnapshotsOfRoom, MemoryAhead, Rooms, Rows
<1>8. RowOrdered'
  BY <1>1, <1>2, <1>5 DEF TypeOK, RowOrdered, MemoryAhead, Rooms, Rows
<1>9. MemoryAhead'
  BY <1>1 DEF TypeOK, MemoryAhead, RowOrdered, Rooms, Rows
<1>. QED  BY <1>3, <1>4, <1>6, <1>7, <1>8, <1>9

LEMMA StepMutateUnsaved ==
  ASSUME IInv, MutateUnsaved PROVE IInv'
<1> USE DEF IInv, MutateUnsaved
<1>1. /\ room \in Rooms /\ room' \in Rooms /\ room' # None
      /\ room'.version = latest + 1 /\ room'.over = room.over
  BY NoneIsNone DEF TypeOK, Rooms
<1>2. TypeOK'
  BY <1>1 DEF TypeOK, Lock!TypeOK
<1>3. Exclusive' /\ SnapshotsOrdered'
  BY DEF Exclusive, SnapshotsOrdered
<1>4. SnapshotsOfRoom'
  BY <1>1 DEF TypeOK, SnapshotsOfRoom, MemoryAhead, Rooms, Rows
<1>5. RowOrdered' /\ MemoryAhead'
  BY <1>1 DEF TypeOK, RowOrdered, MemoryAhead, Rooms, Rows
<1>. QED  BY <1>2, <1>3, <1>4, <1>5

LEMMA StepFindRow ==
  ASSUME IInv, NEW t \in Tasks, FindRow(t) PROVE IInv'
<1> USE DEF IInv, FindRow, Lock!Enter, Pending
<1>1. TypeOK'
  BY DEF TypeOK, Lock!TypeOK, Lock!Phases
<1>2. Exclusive'
  BY DEF TypeOK, Lock!TypeOK, Exclusive
<1>3. SnapshotsOfRoom' /\ SnapshotsOrdered' /\ RowOrdered' /\ MemoryAhead'
  BY DEF SnapshotsOfRoom, SnapshotsOrdered, RowOrdered, MemoryAhead
<1>. QED  BY <1>1, <1>2, <1>3

LEMMA StepUpsertFails ==
  ASSUME IInv, NEW t \in Tasks, UpsertFails(t) PROVE IInv'
<1> USE DEF IInv, UpsertFails, LeaveLock, Lock!Leave, Pending
<1>1. TypeOK'
  <2>1. snap[t].version \in Nat
    BY DEF TypeOK, Rows
  <2>. QED  BY <2>1 DEF TypeOK, Lock!TypeOK, Lock!Phases
<1>2. Exclusive'
  BY DEF TypeOK, Lock!TypeOK, Exclusive
<1>3. SnapshotsOfRoom' /\ SnapshotsOrdered' /\ RowOrdered' /\ MemoryAhead'
  BY DEF SnapshotsOfRoom, SnapshotsOrdered, RowOrdered, MemoryAhead
<1>. QED  BY <1>1, <1>2, <1>3

\* The row found is the row: either it stays, or the snapshot replaces one
\* that is not younger.
LEMMA UpsertEffect ==
  ASSUME IInv, NEW t \in Tasks, UpsertRoom(t)
  PROVE  /\ snap[t] # None /\ snap[t] \in Rows /\ phase[t] = "writing"
         /\ \/ row' = row /\ row # None
            \/ row' = snap[t] /\ (row # None => row.at <= snap[t].at)
<1> USE DEF IInv, UpsertRoom, LeaveLock, Lock!Leave, Pending
<1>1. found[t] = row /\ snap[t] # None /\ snap[t] \in Rows /\ phase[t] = "writing"
  BY DEF Exclusive, TypeOK
<1>. QED  BY <1>1 DEF TypeOK, Rows

LEMMA StepUpsertRoom ==
  ASSUME IInv, NEW t \in Tasks, UpsertRoom(t) PROVE IInv'
<1> USE DEF IInv
<1>0. /\ snap[t] # None /\ snap[t] \in Rows /\ phase[t] = "writing"
      /\ \/ row' = row /\ row # None
         \/ row' = snap[t] /\ (row # None => row.at <= snap[t].at)
  BY UpsertEffect
<1>1. /\ phase' = [phase EXCEPT ![t] = "finished"]
      /\ found' = [found EXCEPT ![t] = None]
      /\ UNCHANGED <<server, room, now, latest, snap, failed, crashes>>
  BY DEF UpsertRoom, LeaveLock, Lock!Leave
<1>2. TypeOK'
  BY <1>0, <1>1 DEF TypeOK, Lock!TypeOK, Lock!Phases
<1>3. Exclusive'
  BY <1>0, <1>1 DEF TypeOK, Lock!TypeOK, Exclusive
<1>4. SnapshotsOfRoom' /\ SnapshotsOrdered'
  BY <1>1 DEF SnapshotsOfRoom, SnapshotsOrdered
<1>5. /\ room # None /\ room \in Rooms
      /\ snap[t].version <= room.version /\ snap[t].at <= now
      /\ room.version <= latest
      /\ (snap[t].over => room.over) /\ (snap[t].active <=> ~snap[t].over)
  BY <1>0 DEF SnapshotsOfRoom, MemoryAhead, TypeOK
<1>6. RowOrdered'
  <2>1. CASE row' = row
    BY <2>1, <1>1 DEF RowOrdered
  <2>2. CASE row' = snap[t]
    <3>1. row'.at <= now /\ row'.version <= latest /\ (row'.over => ~row'.active)
      BY <2>2, <1>0, <1>5 DEF TypeOK, Rooms, Rows
    <3>2. ASSUME NEW u \in Tasks, snap[u] # None, snap[t].at <= snap[u].at
          PROVE  snap[t].version <= snap[u].version /\ (~snap[t].active => snap[u].over)
      <4>1. snap[u] \in Rows
        BY <3>2 DEF TypeOK
      <4>2. CASE snap[t].at = snap[u].at
        BY <4>2, <3>2, <1>0, <1>5 DEF SnapshotsOrdered, Rows
      <4>3. CASE snap[t].at < snap[u].at
        BY <4>3, <3>2, <1>0, <1>5 DEF SnapshotsOrdered, Rows
      <4>. QED  BY <4>1, <4>2, <4>3, <3>2, <1>0 DEF Rows
    <3>. QED  BY <3>1, <3>2, <2>2, <1>1 DEF RowOrdered
  <2>. QED  BY <2>1, <2>2, <1>0
<1>7. MemoryAhead'
  BY <1>0, <1>1, <1>5 DEF MemoryAhead, Rows
<1>. QED  BY <1>2, <1>3, <1>4, <1>6, <1>7

LEMMA StepCrash ==
  ASSUME IInv, Crash PROVE IInv'
<1> USE DEF IInv, Crash
<1>1. TypeOK'
  BY DEF TypeOK, Lock!TypeOK, Lock!Phases
<1>2. Exclusive'
  BY DEF TypeOK, Lock!TypeOK, Exclusive
<1>3. SnapshotsOfRoom' /\ SnapshotsOrdered' /\ MemoryAhead'
  BY DEF SnapshotsOfRoom, SnapshotsOrdered, MemoryAhead
<1>4. RowOrdered'
  BY DEF RowOrdered
<1>. QED  BY <1>1, <1>2, <1>3, <1>4

LEMMA StepTimePasses ==
  ASSUME IInv, TimePasses PROVE IInv'
<1> USE DEF IInv, TimePasses
<1>1. TypeOK'
  BY NumbersAreNats DEF TypeOK, Lock!TypeOK
<1>2. now <= now'
  BY NumbersAreNats DEF TypeOK
<1>3. Exclusive' /\ SnapshotsOrdered' /\ MemoryAhead'
  BY DEF Exclusive, SnapshotsOrdered, MemoryAhead
<1>4. SnapshotsOfRoom' /\ RowOrdered'
  BY <1>1, <1>2 DEF SnapshotsOfRoom, RowOrdered, TypeOK, Rows
<1>. QED  BY <1>1, <1>3, <1>4

\* While the server starts there is no room and no snapshot: a row can be
\* closed without anything to reopen it.
LEMMA StepDeactivateStaleRooms ==
  ASSUME IInv, DeactivateStaleRooms PROVE IInv'
<1> USE DEF IInv, DeactivateStaleRooms
<1>1. room = None /\ \A t \in Tasks : snap[t] = None
  BY DEF SnapshotsOfRoom
<1>2. /\ row' = None <=> row = None
      /\ row # None => /\ row' \in Rows
                       /\ row'.version = row.version /\ row'.over = row.over
                       /\ row'.at \in {row.at, now} /\ (row'.active => row.active)
  <2>1. row # None => row \in Rows
    BY DEF TypeOK
  <2>2. CASE Stale
    <3>1. row' = [row EXCEPT !.active = FALSE, !.at = now] /\ row \in Rows
      BY <2>1, <2>2 DEF Stale, ActiveRow
    <3>2. row' \in Rows
      BY <3>1 DEF TypeOK, Rows
    <3>3. row' # None
      BY <3>2, NoneIsNone
    <3>. QED  BY <3>1, <3>2, <3>3, <2>2 DEF Stale, ActiveRow, Rows
  <2>3. CASE ~Stale
    BY <2>1, <2>3
  <2>. QED  BY <2>2, <2>3
<1>3. TypeOK'
  BY <1>2 DEF TypeOK, Lock!TypeOK
<1>4. Exclusive' /\ SnapshotsOfRoom' /\ SnapshotsOrdered' /\ MemoryAhead'
  BY <1>1 DEF Exclusive, SnapshotsOfRoom, SnapshotsOrdered, MemoryAhead
<1>5. RowOrdered'
  BY <1>1, <1>2 DEF RowOrdered, TypeOK, Rows
<1>. QED  BY <1>3, <1>4, <1>5

LEMMA StepRestoreRooms ==
  ASSUME IInv, NEW t \in Tasks, RestoreRooms(t) PROVE IInv'
<1> USE DEF IInv, RestoreRooms, QueuePersistence, ActiveRow
<1>1. /\ row \in Rows /\ row # None /\ row.active /\ ~row.over
      /\ row.at <= now /\ row.version <= latest
      /\ \A u \in Tasks : snap[u] = None
  BY DEF TypeOK, RowOrdered, SnapshotsOfRoom
<1>2. /\ room' \in Rooms /\ room' # None
      /\ room'.version = row.version /\ ~room'.over
  BY <1>1, NoneIsNone DEF Rooms, Rows
<1>3. /\ snap' = [snap EXCEPT ![t] = Row(room', now + 1)]
      /\ Row(room', now + 1) \in Rows
      /\ Row(room', now + 1).version = row.version
      /\ ~Row(room', now + 1).over
      /\ Row(room', now + 1).active
      /\ Row(room', now + 1).at = now + 1
  BY <1>2, RowOfRoom DEF TypeOK
<1>4. \A u \in Tasks : snap'[u] # None => u = t /\ snap'[u] = Row(room', now + 1)
  BY <1>1, <1>3 DEF TypeOK
<1>5. TypeOK'
  BY <1>2, <1>3 DEF TypeOK, Lock!TypeOK
<1>6. Exclusive'
  BY <1>1 DEF Exclusive
<1>7. SnapshotsOfRoom' /\ SnapshotsOrdered'
  BY <1>2, <1>3, <1>4 DEF TypeOK, SnapshotsOfRoom, SnapshotsOrdered, Rows
<1>8. RowOrdered' /\ MemoryAhead'
  BY <1>1, <1>2, <1>3, <1>4 DEF TypeOK, RowOrdered, MemoryAhead, Rows
<1>. QED  BY <1>5, <1>6, <1>7, <1>8

LEMMA StepRestoreNothing ==
  ASSUME IInv, RestoreNothing PROVE IInv'
<1> USE DEF IInv, RestoreNothing, ActiveRow
<1>1. TypeOK'
  BY DEF TypeOK, Lock!TypeOK, Rows
<1>2. SnapshotsOfRoom'
  BY DEF SnapshotsOfRoom
<1>3. Exclusive' /\ SnapshotsOrdered' /\ RowOrdered' /\ MemoryAhead'
  BY DEF Exclusive, SnapshotsOrdered, RowOrdered, MemoryAhead
<1>. QED  BY <1>1, <1>2, <1>3

LEMMA StepDeactivationFails ==
  ASSUME IInv, DeactivationFails PROVE IInv'
<1> USE DEF IInv, DeactivationFails, Stale, ActiveRow
<1>1. TypeOK'
  BY DEF TypeOK, Lock!TypeOK, Rows
<1>2. SnapshotsOfRoom'
  BY DEF SnapshotsOfRoom
<1>3. Exclusive' /\ SnapshotsOrdered' /\ RowOrdered' /\ MemoryAhead'
  BY DEF Exclusive, SnapshotsOrdered, RowOrdered, MemoryAhead
<1>. QED  BY <1>1, <1>2, <1>3

LEMMA Stutter == ASSUME IInv, UNCHANGED vars PROVE IInv'
BY DEF IInv, vars, TypeOK, Lock!TypeOK, Exclusive, SnapshotsOfRoom,
   SnapshotsOrdered, RowOrdered, MemoryAhead

THEOREM NextInv == IInv /\ [Next]_vars => IInv'
<1> SUFFICES ASSUME IInv, [Next]_vars PROVE IInv'
  OBVIOUS
<1>1. ASSUME NEW t \in Tasks, Mutate(t) \/ Writer(t) \/ RestoreRooms(t) PROVE IInv'
  BY <1>1, StepMutate, StepFindRow, StepUpsertRoom, StepUpsertFails,
     StepRestoreRooms DEF Writer
<1>2. CASE MutateUnsaved
  BY <1>2, StepMutateUnsaved
<1>3. CASE Crash \/ TimePasses
  BY <1>3, StepCrash, StepTimePasses
<1>4. CASE DeactivateStaleRooms \/ DeactivationFails \/ RestoreNothing
  BY <1>4, StepDeactivateStaleRooms, StepDeactivationFails, StepRestoreNothing
<1>5. CASE UNCHANGED vars
  BY <1>5, Stutter
<1>. QED  BY <1>1, <1>2, <1>3, <1>4, <1>5 DEF Next, Startup

THEOREM Invariance == Spec => []IInv
  BY InitInv, NextInv, PTL DEF Spec

----------------------------------------------------------------------------
(* The properties the runs check. *)

\* The room, its row and its snapshots keep their types.
THEOREM TypeCorrect == Spec => []TypeOK
<1>1. IInv => TypeOK
  BY DEF IInv
<1>. QED  BY <1>1, Invariance, PTL

\* The room in memory is at least as new as its row and its queued snapshots.
THEOREM MemoryIsNewestHolds == Spec => []MemoryIsNewest
<1>1. IInv => MemoryIsNewest
  BY DEF IInv, MemoryIsNewest, MemoryAhead, SnapshotsOfRoom, Pending
<1>. QED  BY <1>1, Invariance, PTL

\* What a step may do to the row.
LEMMA RowSteps ==
  ASSUME IInv, [Next]_vars, row # None
  PROVE  /\ row' # None /\ row'.version >= row.version
         /\ ~row.active => ~row'.active
<1> USE DEF IInv
<1>0. row \in Rows /\ row.version \in Nat
  BY DEF TypeOK, Rows
<1>1. CASE row' = row
  BY <1>0, <1>1
<1>2. CASE row' # row
  <2>1. (\E t \in Tasks : UpsertRoom(t)) \/ DeactivateStaleRooms
    BY <1>2 DEF Next, vars, Writer, Startup, Mutate, FindRow, UpsertFails,
       LeaveLock, RestoreRooms, RestoreNothing, DeactivationFails, MutateUnsaved,
       Crash, TimePasses
  <2>2. ASSUME NEW t \in Tasks, UpsertRoom(t)
        PROVE  /\ row' # None /\ row'.version >= row.version
               /\ ~row.active => ~row'.active
    <3>1. /\ snap[t] # None /\ snap[t] \in Rows
          /\ row' = snap[t] /\ row.at <= snap[t].at
      BY <1>2, <2>2, UpsertEffect
    <3>2. /\ row.version <= snap[t].version /\ (~row.active => snap[t].over)
          /\ (snap[t].active <=> ~snap[t].over)
      BY <3>1 DEF RowOrdered, SnapshotsOfRoom
    <3>. QED  BY <1>0, <3>1, <3>2 DEF Rows
  <2>3. CASE DeactivateStaleRooms
    <3>1. row' = [row EXCEPT !.active = FALSE, !.at = now]
      BY <1>2, <2>3 DEF DeactivateStaleRooms
    <3>2. row' \in Rows
      BY <1>0, <3>1 DEF TypeOK, Rows
    <3>3. row' # None
      BY <3>2, NoneIsNone
    <3>. QED  BY <1>0, <3>1, <3>3 DEF Rows
  <2>. QED  BY <2>1, <2>2, <2>3
<1>. QED  BY <1>1, <1>2

\* The row is never replaced by an older state of the room, in whatever order
\* writes, failures and restarts come.
THEOREM RowNeverGoesBackHolds == Spec => RowNeverGoesBack
<1>1. IInv /\ [Next]_vars =>
        [row # None => row' # None /\ row'.version >= row.version]_vars
  BY RowSteps
<1>. QED  BY <1>1, Invariance, PTL DEF Spec, RowNeverGoesBack

\* A closed row is never opened again.
THEOREM ClosedRowStaysClosedHolds == Spec => ClosedRowStaysClosed
<1>1. IInv /\ [Next]_vars => [row # None /\ ~row.active => ~row'.active]_vars
  BY RowSteps
<1>. QED  BY <1>1, Invariance, PTL DEF Spec, ClosedRowStaysClosed

\* The room that comes back at startup is not one that had gone stale.
THEOREM StaleRoomsStayDownHolds == Spec => StaleRoomsStayDown
<1> DEFINE Fresh == server = "restoring" => ~Stale \/ row.version \in failed
<1>1. Init => Fresh
  BY DEF Init
<1>2. IInv /\ Fresh /\ [Next]_vars => Fresh'
  <2> SUFFICES ASSUME IInv, Fresh, [Next]_vars, server' = "restoring"
               PROVE  ~Stale' \/ row'.version \in failed'
    OBVIOUS
  <2>1. CASE DeactivateStaleRooms
    BY <2>1, NoneIsNone DEF DeactivateStaleRooms, Stale, ActiveRow, IInv, TypeOK, Rows
  <2>2. CASE DeactivationFails
    BY <2>2 DEF DeactivationFails
  <2>3. CASE UNCHANGED vars
    BY <2>3 DEF vars, Stale, ActiveRow
  <2>4. CASE ~DeactivateStaleRooms /\ ~DeactivationFails /\ ~UNCHANGED vars
    <3>1. server = "up"
      BY <2>4 DEF Next, Writer, Startup, Mutate, FindRow, UpsertRoom,
         UpsertFails, LeaveLock, RestoreRooms, RestoreNothing, MutateUnsaved,
         Crash, TimePasses, Pending, IInv, SnapshotsOfRoom
    <3>2. server' = server
      BY <2>4, <3>1 DEF Next, Writer, Startup, Mutate, FindRow, UpsertRoom,
         UpsertFails, LeaveLock, RestoreRooms, RestoreNothing, MutateUnsaved,
         Crash, TimePasses
    <3>. QED  BY <3>1, <3>2
  <2>. QED  BY <2>1, <2>2, <2>3, <2>4
<1>3. Fresh =>
        [server = "restoring" /\ room = None /\ room' # None =>
           ~Stale \/ row.version \in failed]_vars
  OBVIOUS
<1>. QED  BY <1>1, <1>2, <1>3, Invariance, PTL DEF Spec, StaleRoomsStayDown

----------------------------------------------------------------------------
(* The queue drains to its newest snapshot.                                *)

\* A task that is done with its snapshot left a row at least as new, unless
\* the database refused that snapshot.
FinishedIsRecorded ==
  \A t \in Tasks : snap[t] # None /\ phase[t] = "finished" =>
    \/ snap[t].version \in failed
    \/ row # None /\ row.version >= snap[t].version

\* The row only advances, so a step that finishes no task keeps what is recorded.
LEMMA RecordedStays ==
  ASSUME IInv, [Next]_vars, FinishedIsRecorded, failed \subseteq failed',
         \A t \in Tasks : snap'[t] # None /\ phase'[t] = "finished" =>
           snap[t] # None /\ phase[t] = "finished" /\ snap'[t] = snap[t]
  PROVE  FinishedIsRecorded'
<1> SUFFICES ASSUME NEW t \in Tasks, snap'[t] # None, phase'[t] = "finished"
             PROVE  \/ snap'[t].version \in failed'
                    \/ row' # None /\ row'.version >= snap'[t].version
  BY DEF FinishedIsRecorded
<1>1. /\ snap[t] # None /\ snap'[t] = snap[t] /\ snap[t].version \in Nat
      /\ \/ snap[t].version \in failed
         \/ row # None /\ row.version >= snap[t].version
  BY DEF FinishedIsRecorded, IInv, TypeOK, Rows
<1>2. CASE row # None /\ row.version >= snap[t].version
  <2>1. row' # None /\ row'.version >= row.version
    BY <1>2, RowSteps
  <2>2. row \in Rows /\ row' \in Rows
    BY <1>2, <2>1, NextInv DEF IInv, TypeOK
  <2>. QED  BY <1>1, <1>2, <2>1, <2>2 DEF Rows
<1>. QED  BY <1>1, <1>2

\* A snapshot taken before the row's was is not more advanced than the row.
RowCoversOlder ==
  row # None =>
    \A t \in Tasks : snap[t] # None /\ snap[t].at < row.at =>
      snap[t].version <= row.version

LEMMA CoversStep ==
  ASSUME IInv, [Next]_vars, RowCoversOlder PROVE RowCoversOlder'
<1> USE DEF IInv
<1>1. CASE \E t \in Tasks : UpsertRoom(t)
  <2>1. PICK t \in Tasks : UpsertRoom(t)
    BY <1>1
  <2>2. /\ snap[t] # None /\ snap[t] \in Rows
        /\ (row' = row /\ row # None) \/ row' = snap[t]
        /\ snap' = snap
    BY <2>1, UpsertEffect DEF UpsertRoom, LeaveLock
  <2>. QED  BY <2>2 DEF RowCoversOlder, SnapshotsOrdered
<1>2. CASE DeactivateStaleRooms
  BY <1>2 DEF DeactivateStaleRooms, RowCoversOlder, SnapshotsOfRoom
<1>3. CASE \E t \in Tasks : Mutate(t) \/ RestoreRooms(t)
  <2>1. PICK t \in Tasks : Mutate(t) \/ RestoreRooms(t)
    BY <1>3
  <2>2. /\ row' = row
        /\ snap' = [snap EXCEPT ![t] = Row(room', now + 1)]
        /\ Row(room', now + 1).at = now + 1
    BY <2>1 DEF Mutate, RestoreRooms, QueuePersistence, Row
  <2>3. row # None => row.at <= now /\ row.at \in Nat /\ now \in Nat
    BY DEF TypeOK, RowOrdered, Rows
  <2>4. \A u \in Tasks : u # t => snap'[u] = snap[u]
    BY <2>2 DEF TypeOK
  <2>5. row # None => ~(snap'[t].at < row.at)
    BY <2>2, <2>3 DEF TypeOK
  <2>. QED  BY <2>2, <2>4, <2>5 DEF RowCoversOlder
<1>4. CASE Crash
  BY <1>4 DEF Crash, RowCoversOlder
<1>5. CASE UNCHANGED <<row, snap>>
  BY <1>5 DEF RowCoversOlder
<1>. QED
  BY <1>1, <1>2, <1>3, <1>4, <1>5 DEF Next, vars, Writer, Startup, FindRow,
     UpsertFails, LeaveLock, RestoreNothing, DeactivationFails, MutateUnsaved, TimePasses

\* The task that writes leaves its snapshot, or a row that is newer.
LEMMA UpsertRecords ==
  ASSUME IInv, RowCoversOlder, FinishedIsRecorded, NEW t \in Tasks, UpsertRoom(t)
  PROVE  FinishedIsRecorded'
<1> USE DEF IInv
<1>1. [Next]_vars
  BY DEF Next, Writer
<1>2. /\ phase' = [phase EXCEPT ![t] = "finished"]
      /\ snap' = snap /\ failed' = failed
  BY DEF UpsertRoom, LeaveLock, Lock!Leave
<1>3. snap[t] # None /\ snap[t] \in Rows
  BY UpsertEffect
<1>4. row' # None /\ row'.version >= snap[t].version
  <2>1. CASE row' = snap[t]
    BY <2>1, <1>3 DEF Rows
  <2>2. CASE row' # snap[t]
    <3>1. row' = row /\ row # None /\ row \in Rows
      BY <2>2, UpsertEffect DEF TypeOK
    <3>2. row.at > snap[t].at
      BY <2>2, <3>1, <1>3 DEF UpsertRoom, LeaveLock, Lock!Leave, Pending, Exclusive
    <3>. QED  BY <3>1, <3>2, <1>3 DEF RowCoversOlder, Rows
  <2>. QED  BY <2>1, <2>2
<1>5. ASSUME NEW u \in Tasks, snap'[u] # None, phase'[u] = "finished"
      PROVE  \/ snap'[u].version \in failed'
             \/ row' # None /\ row'.version >= snap'[u].version
  <2>1. CASE u = t
    BY <2>1, <1>2, <1>4
  <2>2. CASE u # t /\ snap[u].version \notin failed
    <3>1. /\ row # None /\ row.version >= snap[u].version
          /\ row \in Rows /\ snap[u] \in Rows
      BY <1>2, <1>5, <2>2 DEF FinishedIsRecorded, TypeOK, Lock!TypeOK
    <3>2. row' # None /\ row'.version >= row.version /\ row' \in Rows
      BY <1>1, <3>1, RowSteps, NextInv DEF TypeOK
    <3>. QED  BY <1>2, <3>1, <3>2 DEF Rows
  <2>. QED  BY <1>2, <2>1, <2>2
<1>. QED  BY <1>5 DEF FinishedIsRecorded

LEMMA RecordedStep ==
  ASSUME IInv, RowCoversOlder, FinishedIsRecorded, [Next]_vars
  PROVE  FinishedIsRecorded'
<1> USE DEF IInv, TypeOK, Lock!TypeOK
<1>1. CASE \E t \in Tasks : UpsertRoom(t)
  BY <1>1, UpsertRecords
<1>2. CASE \E t \in Tasks : FindRow(t)
  BY <1>2, RecordedStays DEF FindRow, Lock!Enter
<1>3. CASE \E t \in Tasks : Mutate(t) \/ RestoreRooms(t)
  BY <1>3, RecordedStays DEF Mutate, RestoreRooms, QueuePersistence
<1>4. CASE \E t \in Tasks : UpsertFails(t)
  <2>1. PICK t \in Tasks : UpsertFails(t)
    BY <1>4
  <2>2. /\ phase' = [phase EXCEPT ![t] = "finished"]
        /\ UNCHANGED <<snap, row>>
        /\ failed' = failed \cup {snap[t].version}
    BY <2>1 DEF UpsertFails, LeaveLock, Lock!Leave
  <2>. QED  BY <2>2 DEF FinishedIsRecorded
<1>5. CASE Crash
  BY <1>5 DEF Crash, FinishedIsRecorded
<1>6. CASE MutateUnsaved \/ TimePasses \/ Startup \/ UNCHANGED vars
  <2>1. CASE \E t \in Tasks : RestoreRooms(t)
    BY <1>3, <2>1
  <2>2. CASE ~\E t \in Tasks : RestoreRooms(t)
    <3>1. UNCHANGED <<snap, phase>> /\ failed \subseteq failed'
      BY <1>6, <2>2 DEF MutateUnsaved, TimePasses, Startup, DeactivateStaleRooms,
         DeactivationFails, RestoreNothing, vars
    <3>. QED  BY <3>1, RecordedStays
  <2>. QED  BY <2>1, <2>2
<1>. QED  BY <1>1, <1>2, <1>3, <1>4, <1>5, <1>6 DEF Next, Writer

\* With no write queued or under way, the row is at least as new as every
\* snapshot of this process that the database did not refuse.
THEOREM QueueDrainsToNewestHolds == Spec => []QueueDrainsToNewest
<1>1. Init => RowCoversOlder /\ FinishedIsRecorded
  BY DEF Init, Lock!Init, RowCoversOlder, FinishedIsRecorded
<1>2. IInv /\ RowCoversOlder /\ FinishedIsRecorded /\ [Next]_vars
        => RowCoversOlder' /\ FinishedIsRecorded'
  BY CoversStep, RecordedStep
<1>3. FinishedIsRecorded => QueueDrainsToNewest
  BY DEF FinishedIsRecorded, QueueDrainsToNewest, Pending
<1>. QED  BY <1>1, <1>2, <1>3, Invariance, PTL DEF Spec
===============================================================================
