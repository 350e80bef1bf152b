----------------------------- MODULE MCAgentTools -----------------------------
(* Two sessions, the room they played before and one more for a new game.   *)
EXTENDS AgentTools

==============================================================================
