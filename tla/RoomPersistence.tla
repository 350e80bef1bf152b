-------------------------- MODULE RoomPersistence --------------------------
(***************************************************************************)
(* Durability of one room: the room in memory, the snapshots its service   *)
(* operations queue for the database, the row they end up in, and the      *)
(* crash and restart of the server process.                                *)
(*                                                                         *)
(* A snapshot's contents are its version (how many mutations of the room   *)
(* it has seen) and whether its phase is GameOver.  Versions are never     *)
(* reused: a mutation made after a restart is a new one.  Writers of the   *)
(* row exclude each other as WriterMutex says, which RoomWriteLocks        *)
(* implements.                                                             *)
(***************************************************************************)
EXTENDS Integers, FiniteSets

CONSTANTS
  Tasks,        \* identities of persistence tasks (Task.Run), used once each
  MaxAge,       \* age at which startup treats an active row as stale
  MaxNow,       \* bound on the clock and on versions
  MaxFailures,  \* bound on database calls that fail
  MaxCrashes,   \* bound on crashes of the process
  None          \* no room, no row, no snapshot

ASSUME NumbersAreNats == MaxAge \in Nat /\ MaxNow \in Nat

Rooms == [version : Nat, over : BOOLEAN]
Rows == [version : Nat, over : BOOLEAN, active : BOOLEAN, at : Nat]

ASSUME NoneIsNone == None \notin Rooms \cup Rows

VARIABLES
  server,     \* "up", "down", or "restoring" between the two startup calls
  room,       \* the GameRoom in _rooms, or None
  now,        \* DateTime.UtcNow; it advances between any two queued snapshots
  latest,     \* the version of the last mutation ever made
  snap,       \* snap[t]: the snapshot task t was started with, or None
  phase,      \* phase[t]: how far t is at the row's write lock
  found,      \* found[t]: what t's FindAsync returned
  row,        \* the PersistedRooms row of the room, or None
  failed,     \* versions whose write the database refused
  crashes

vars == <<server, room, now, latest, snap, phase, found, row, failed, crashes>>

Lock == INSTANCE WriterMutex

TypeOK ==
  /\ server \in {"up", "down", "restoring"}
  /\ room \in Rooms \cup {None}
  /\ now \in Nat /\ latest \in Nat /\ crashes \in Nat
  /\ snap \in [Tasks -> Rows \cup {None}]
  /\ Lock!TypeOK
  /\ found \in [Tasks -> Rows \cup {None}]
  /\ row \in Rows \cup {None}
  /\ failed \subseteq Nat

\* CreatePersistedRoom: a room is active until its game is over.
Row(r, time) ==
  [version |-> r.version, over |-> r.over, active |-> ~r.over, at |-> time]

Pending(t) == snap[t] # None /\ phase[t] # "finished"

ActiveRow == row # None /\ row.active

CanFail == Cardinality(failed) < MaxFailures

\* The process starts, and a host creates the room, which queues its first row.
Init ==
  /\ server = "up"
  /\ room = [version |-> 1, over |-> FALSE]
  /\ latest = 1
  /\ now = 1
  /\ \E t \in Tasks :
       snap = [u \in Tasks |-> IF u = t THEN Row(room, 1) ELSE None]
  /\ Lock!Init
  /\ found = [t \in Tasks |-> None]
  /\ row = None
  /\ failed = {}
  /\ crashes = 0

----------------------------------------------------------------------------
(* The running server *)

\* QueuePersistence under the room's SyncRoot: the snapshot and its time are
\* taken together; the task that will write it starts whenever it does.
QueuePersistence(t, r) ==
  /\ snap[t] = None /\ phase[t] = "waiting"
  /\ now < MaxNow
  /\ now' = now + 1
  /\ snap' = [snap EXCEPT ![t] = Row(r, now + 1)]

\* A service operation changes the room and queues its snapshot.  Once the
\* phase is GameOver no operation changes it.
Mutate(t) ==
  /\ server = "up" /\ room # None
  /\ \E over \in {room.over, TRUE} :
       /\ room' = [version |-> latest + 1, over |-> over]
       /\ QueuePersistence(t, room')
  /\ latest' = latest + 1
  /\ UNCHANGED <<server, phase, found, row, failed, crashes>>

\* An operation that changes the room and does not persist it (a position
\* update, a troop-transfer offer, a join of a field battle).
MutateUnsaved ==
  /\ server = "up" /\ room # None
  /\ latest < MaxNow
  /\ room' = [room EXCEPT !.version = latest + 1]
  /\ latest' = latest + 1
  /\ UNCHANGED <<server, now, snap, phase, found, row, failed, crashes>>

\* The task gets the write lock and reads the row (FindAsync); if the read
\* throws, the exception is logged and the task gives the lock back.
FindRow(t) ==
  /\ Pending(t)
  /\ Lock!Enter(t)
  /\ found' = [found EXCEPT ![t] = row]
  /\ UNCHANGED <<server, room, now, latest, snap, row, failed, crashes>>

\* The finally block of PersistSerializedAsync.
LeaveLock(t) ==
  /\ Pending(t)
  /\ Lock!Leave(t)
  /\ found' = [found EXCEPT ![t] = None]
  /\ UNCHANGED <<server, room, now, latest, snap, crashes>>

\* Mutant: the time of the row found is not looked at.
UpsertRoom_Always(t) ==
  /\ LeaveLock(t)
  /\ row' = snap[t]
  /\ UNCHANGED failed

\* Mutant: the comparison is the other way round.
UpsertRoom_Reversed(t) ==
  /\ LeaveLock(t)
  /\ row' = IF found[t] # None /\ found[t].at < snap[t].at THEN row ELSE snap[t]
  /\ UNCHANGED failed

\* The rest of UpsertRoomAsync: a row newer than the snapshot is kept,
\* otherwise the snapshot replaces what was found.
UpsertRoom(t) ==
  /\ LeaveLock(t)
  /\ row' = IF found[t] # None /\ found[t].at > snap[t].at THEN row ELSE snap[t]
  /\ UNCHANGED failed

\* FindAsync or SaveChangesAsync throws: logged, and nobody retries.
UpsertFails(t) ==
  /\ LeaveLock(t)
  /\ CanFail
  /\ failed' = failed \cup {snap[t].version}
  /\ UNCHANGED row

----------------------------------------------------------------------------
(* Crash and restart *)

\* The process dies: the room in memory and every queued snapshot are gone.
Crash ==
  /\ crashes < MaxCrashes
  /\ server # "down"
  /\ server' = "down"
  /\ crashes' = crashes + 1
  /\ room' = None
  /\ phase' = [t \in Tasks |-> IF snap[t] = None THEN phase[t] ELSE "finished"]
  /\ snap' = [t \in Tasks |-> None]
  /\ found' = [t \in Tasks |-> None]
  /\ UNCHANGED <<now, latest, row, failed>>

\* The server may be down for as long as it takes a row to become stale.
TimePasses ==
  /\ server = "down"
  /\ now + MaxAge < MaxNow
  /\ now' = now + MaxAge + 1
  /\ UNCHANGED <<server, room, latest, snap, phase, found, row, failed, crashes>>

Stale == ActiveRow /\ row.at < now - MaxAge

\* Mutant: rows of any age are left active.
DeactivateStaleRooms_Skipped ==
  /\ server = "down"
  /\ server' = "restoring"
  /\ UNCHANGED <<row, room, now, latest, snap, phase, found, failed, crashes>>

\* DeactivateStaleRoomsAsync, the first startup call.  Nothing else runs yet.
DeactivateStaleRooms ==
  /\ server = "down"
  /\ server' = "restoring"
  /\ row' = IF Stale THEN [row EXCEPT !.active = FALSE, !.at = now] ELSE row
  /\ UNCHANGED <<room, now, latest, snap, phase, found, failed, crashes>>

\* The database refuses: logged, and the row stays as it is.
DeactivationFails ==
  /\ server = "down"
  /\ Stale /\ CanFail
  /\ server' = "restoring"
  /\ failed' = failed \cup {row.version}
  /\ UNCHANGED <<row, room, now, latest, snap, phase, found, crashes>>

\* RestoreActiveRoomsAsync and RestoreRooms, the second: an active row becomes
\* the room in memory, and is queued again with the current time.
RestoreRooms(t) ==
  /\ server = "restoring"
  /\ ActiveRow
  /\ server' = "up"
  /\ room' = [version |-> row.version, over |-> row.over]
  /\ QueuePersistence(t, room')
  /\ UNCHANGED <<latest, phase, found, row, failed, crashes>>

\* There is no active row, or the query fails: the server starts without it.
RestoreNothing ==
  /\ server = "restoring"
  /\ ~ActiveRow \/ CanFail
  /\ server' = "up"
  /\ failed' = IF ActiveRow THEN failed \cup {row.version} ELSE failed
  /\ UNCHANGED <<room, now, latest, snap, phase, found, row, crashes>>

----------------------------------------------------------------------------
Writer(t) == FindRow(t) \/ UpsertRoom(t) \/ UpsertFails(t)

Startup ==
  DeactivateStaleRooms \/ DeactivationFails \/ (\E t \in Tasks : RestoreRooms(t)) \/ RestoreNothing

Next ==
  \/ \E t \in Tasks : Mutate(t) \/ Writer(t)
  \/ MutateUnsaved
  \/ Crash
  \/ TimePasses
  \/ Startup

Spec == Init /\ [][Next]_vars

(* The thread pool runs queued tasks, and a lock that is released goes to   *)
(* one of its waiters; each other task enters at most once, so weak         *)
(* fairness of the tasks is enough.                                         *)
FairSpec == Spec /\ \A t \in Tasks : WF_vars(Writer(t))

----------------------------------------------------------------------------
\* Whatever order queued writes, failures and restarts come in, the row is
\* never replaced by an older state of the room.
RowNeverGoesBack ==
  [][row # None => row' # None /\ row'.version >= row.version]_vars

\* A row that was closed, by GameOver or as stale, is never opened again, so
\* a finished room is not restored by a later restart.
ClosedRowStaysClosed ==
  [][row # None /\ ~row.active => ~row'.active]_vars

\* When the queue is empty, the row holds the newest snapshot that was queued
\* since the last start, unless the database refused that very snapshot.
QueueDrainsToNewest ==
  (\A u \in Tasks : ~Pending(u)) =>
    \A t \in Tasks :
      snap[t] # None /\ snap[t].version \notin failed =>
        row # None /\ row.version >= snap[t].version

\* The room in memory is never behind its row or a snapshot of this process:
\* a restart resumes from the newest durable state, never from an older one.
MemoryIsNewest ==
  room # None =>
    /\ row # None => room.version >= row.version
    /\ \A t \in Tasks : Pending(t) => room.version >= snap[t].version

\* A room that comes back at startup has a row younger than MaxAge, unless the
\* database failed to close it.
StaleRoomsStayDown ==
  [][server = "restoring" /\ room = None /\ room' # None =>
       ~Stale \/ row.version \in failed]_vars

\* A game that is over is recorded as over, unless the process died or the
\* database refused a write first.
GameOverIsRecorded ==
  room # None /\ room.over
    ~> (row # None /\ ~row.active) \/ crashes > 0 \/ failed # {}
=============================================================================
