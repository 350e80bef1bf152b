---------------------------- MODULE WriterMutex ----------------------------
(***************************************************************************)
(* What the per-room write lock of RoomPersistenceService promises to its  *)
(* callers, without saying how: persistence tasks of one room write its    *)
(* database row one at a time.  A task asks for the row, writes, and is    *)
(* done; a task whose wait is cancelled is done without having written.    *)
(* RoomWriteLocks implements this specification; RoomPersistence builds    *)
(* on it.                                                                  *)
(***************************************************************************)
CONSTANT Tasks

VARIABLE phase      \* phase[t]: how far task t is

Phases == {"waiting", "writing", "finished"}

TypeOK == phase \in [Tasks -> Phases]

Init == phase = [t \in Tasks |-> "waiting"]

\* The row is given to a task only when no task is writing it.
Enter(t) ==
  /\ phase[t] = "waiting"
  /\ \A u \in Tasks : phase[u] # "writing"
  /\ phase' = [phase EXCEPT ![t] = "writing"]

Leave(t) ==
  /\ phase[t] = "writing"
  /\ phase' = [phase EXCEPT ![t] = "finished"]

GiveUp(t) ==
  /\ phase[t] = "waiting"
  /\ phase' = [phase EXCEPT ![t] = "finished"]

Next == \E t \in Tasks : Enter(t) \/ Leave(t) \/ GiveUp(t)

Spec == Init /\ [][Next]_phase
=============================================================================
