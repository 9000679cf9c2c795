---------------------------- MODULE MCAgentLoop ----------------------------
(* Instances of AgentLoop: a prompt and two messages that say different     *)
(* things.                                                                  *)
EXTENDS AgentLoop, TLC

CONSTANTS p, m1, m2

AllDiffer == p :> "go" @@ m1 :> "stop" @@ m2 :> "why"
============================================================================
