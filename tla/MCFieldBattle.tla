--------------------------- MODULE MCFieldBattle ---------------------------
(* An instance of FieldBattle for TLC. *)
EXTENDS FieldBattle

CONSTANTS p1, p2, p3

\* One player against an alliance of two.
SideOf == [p \in Players |-> IF p = p1 THEN "red" ELSE "blue"]
=============================================================================
