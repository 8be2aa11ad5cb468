-------------------------- MODULE MCPrerequisites --------------------------
(* Model-checking instances of Prerequisites. *)
EXTENDS Prerequisites, TLC

\* Tickets and jobs are interchangeable.
Symmetric == Permutations(Tickets) \cup Permutations(Jobs)
=============================================================================
