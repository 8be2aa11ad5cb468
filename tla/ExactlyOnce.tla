----------------------------- MODULE ExactlyOnce -----------------------------
(***************************************************************************)
(* What the CI wait promises, without sweeps, contexts or transactions: a  *)
(* registered wait ends exactly once, by being delivered or by being       *)
(* cleared at somebody's request, and at most one wait is open at a time.  *)
(***************************************************************************)
EXTENDS Integers

CONSTANT MaxReg       \* bound: registrations

VARIABLES made,       \* registrations made so far
          fate        \* what became of each registration

Regs == 1..MaxReg

Init ==
  /\ made = 0
  /\ fate = [r \in Regs |-> "none"]

\* A new wait; one that is still open is cleared by it.
Register ==
  /\ made < MaxReg
  /\ made' = made + 1
  /\ fate' = [r \in Regs |-> IF r = made + 1 THEN "open"
                             ELSE IF fate[r] = "open" THEN "cleared" ELSE fate[r]]

End(r, how) ==
  /\ fate[r] = "open"
  /\ fate' = [fate EXCEPT ![r] = how]
  /\ UNCHANGED made

Next ==
  \/ Register
  \/ \E r \in Regs : End(r, "delivered") \/ End(r, "cleared")

Spec == Init /\ [][Next]_<<made, fate>>
=============================================================================
