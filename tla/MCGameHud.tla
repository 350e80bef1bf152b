------------------------------ MODULE MCGameHud ------------------------------
(* Two neighbouring hexes, three places: two of them close together.         *)
EXTENDS GameHud

CONSTANTS h1, h2, s1, s2, s3

MCHexOf == (s1 :> h1) @@ (s2 :> h1) @@ (s3 :> h2)
MCClose == {<<s, s>> : s \in Spots} \cup {<<s1, s2>>, <<s2, s1>>}
MCAdjacent == {<<h1, h2>>, <<h2, h1>>}

Start(owner1, troops1, owner2, troops2, hand, spot) ==
  [tile |-> (h1 :> [owner |-> owner1, troops |-> troops1])
         @@ (h2 :> [owner |-> owner2, troops |-> troops2]), carried |-> hand, fix |-> spot]

\* Standing among own, allied, neutral and hostile hexes.
MCStarts == {Start(Me, 2, None, 0, 0, s1), Start(None, 0, Foe, 0, 2, s1), Start(Foe, 0, Ally, 1, 1, s3)}
=============================================================================
