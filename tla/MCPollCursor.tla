----------------------------- MODULE MCPollCursor -----------------------------
(* Model checking PollCursor on small instances. *)
EXTENDS PollCursor

===============================================================================
