------------------------- MODULE MCRoomWriteLocks -------------------------
(* An instance of RoomWriteLocks for TLC: two tasks that close the room and *)
(* one whose wait may be cancelled.  Three locks, since each closing task   *)
(* retires at most one.  Liveness is checked, so there is no symmetry.      *)
EXTENDS RoomWriteLocks

CONSTANTS close1, close2, cancel1

ClosingTasks == {close1, close2}
CancellableTasks == {cancel1}
AllWriters == ClosingTasks \union CancellableTasks
=============================================================================
