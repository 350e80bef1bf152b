---------------------------- MODULE MCLobbySetup ----------------------------
(* An instance of LobbySetup for TLC: two players, two alliances and, after  *)
(* they are configured anew, ids of old ones on tiles; one area with just    *)
(* enough hexes and one with too few.                                        *)
EXTENDS LobbySetup, TLC

CONSTANTS u1, u2, h1, h2, h3

TwoUsers == {u1, u2}
ThreeHexes == {h1, h2, h3}
SmallAreas == {{h1, h2, h3}, {h2, h3}}
LargerArea == {h1, h2, h3}

\* h2 and h3 are in the same areas; ids are drawn at random.
Symmetry == Permutations(Ids) \cup Permutations({h2, h3})
=============================================================================
