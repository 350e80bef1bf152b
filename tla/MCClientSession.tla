--------------------------- MODULE MCClientSession ---------------------------
(* Instances of ClientSession for TLC. *)
EXTENDS ClientSession, TLC

CONSTANTS u1, u2, a, b
=============================================================================
