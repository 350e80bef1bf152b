------------------------- MODULE MCRoomPersistence -------------------------
(* An instance of RoomPersistence for TLC: four queued snapshots, so that   *)
(* two may be pending on each side of a crash.                              *)
EXTENDS RoomPersistence

CONSTANTS t1, t2, t3, t4

FourTasks == {t1, t2, t3, t4}
=============================================================================
