------------------------ MODULE MCTicketSupervisor ------------------------
(* Model-checking instances of TicketSupervisor. *)
EXTENDS TicketSupervisor, TLC

\* Overlapping sweeps are interchangeable.
Symmetric == Permutations(Sweeps)
=============================================================================
