----------------------------- MODULE MCOracleStart -----------------------------
(* Model checking OracleStart on a small instance. *)
EXTENDS OracleStart

===============================================================================
