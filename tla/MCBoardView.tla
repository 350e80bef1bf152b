----------------------------- MODULE MCBoardView -----------------------------
(* Our base, a wall of the enemy next to it, and his hold behind it. *)
EXTENDS BoardView, TLC

CONSTANTS base, wall, hold

MCNeighbours == (base :> {wall}) @@ (wall :> {base, hold}) @@ (hold :> {wall})
MCSector == (base :> {base, wall, hold}) @@ (wall :> {wall, hold}) @@ (hold :> {hold})
MCStart == (base :> Us) @@ (wall :> Them) @@ (hold :> Them)
=============================================================================
