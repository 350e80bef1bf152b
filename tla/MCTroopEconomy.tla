--------------------------- MODULE MCTroopEconomy ---------------------------
(* An instance of TroopEconomy for TLC. *)
EXTENDS TroopEconomy, TLC

CONSTANTS p1, p2, p3, m, h1, h2, h3

\* Two players against one, whose headquarters can be raided.
TeamOf == [p \in Players |-> IF p = p3 THEN "blue" ELSE "red"]
HQOf == [a \in Alliances |-> IF a = "blue" THEN h2 ELSE None]

Symmetry == {p @@ h : p \in Permutations({p1, p2}), h \in Permutations({h1, h3})}

\* One thing pending at a time: an offer to somebody else, a raid or a rally.
\* The troops of the master tile are nobody's and stay as they are.
Bounds ==
  /\ Cardinality(offers) + Cardinality({a \in Alliances : raid[a] # None})
       + Cardinality({c \in Commanders : rally[c] # None}) <= 1
  /\ \A o \in offers : o.from # o.to
  /\ troops[m] = 1
=============================================================================
