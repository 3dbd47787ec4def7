---------------------------- MODULE MCAnswerHandler ----------------------------
(* Model checking AnswerHandler on small instances. *)
EXTENDS AnswerHandler, TLC

\* The slots of the queue are interchangeable.
Symmetry == Permutations(Tasks)

===============================================================================
