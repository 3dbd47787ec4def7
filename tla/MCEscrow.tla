------------------------------- MODULE MCEscrow -------------------------------
(* Model checking EVMAIAgentEscrow on small instances. *)
EXTENDS EVMAIAgentEscrow, TLC

\* The users are interchangeable.  Used where no liveness is checked.
Symmetry == Permutations(Users)

===============================================================================
