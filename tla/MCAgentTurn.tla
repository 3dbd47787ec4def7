------------------------------ MODULE MCAgentTurn ------------------------------
(* Model checking AgentTurn on a small instance. *)
EXTENDS AgentTurn

===============================================================================
