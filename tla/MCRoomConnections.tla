------------------------- MODULE MCRoomConnections -------------------------
(* Instances of RoomConnections for TLC. *)
EXTENDS RoomConnections, Naturals, TLC

CONSTANTS u1, u2, c1, c2, c3

\* One player with two connections, and perhaps another with one.
OwnerOf == [c \in Connections |-> IF c = c3 THEN u2 ELSE u1]

\* Bound: the hub works on at most two connections' calls at a time.
TwoCallsAtOnce == Cardinality({c \in Connections : pc[c] # "idle"}) <= 2

Symmetry == Permutations(Rooms) \cup Permutations({c1, c2})
=============================================================================
