---------------------------- MODULE MCAgentTurn ----------------------------
(* Up to two retries, two texts, and a channel that is soon full. *)
EXTENDS AgentTurn
=============================================================================
