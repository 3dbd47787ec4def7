------------------------------ MODULE MCEventLoop ------------------------------
(* Model checking OracleEventLoop on small instances. *)
EXTENDS OracleEventLoop

===============================================================================
