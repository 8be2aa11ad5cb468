--------------------------- MODULE MCTicketQueue ---------------------------
(* Model-checking instances of TicketQueue. *)
EXTENDS TicketQueue, TLC

\* Agents and processes are interchangeable.
Symmetric ==
  Permutations(Agents) \cup Permutations(Pumps)
=============================================================================
