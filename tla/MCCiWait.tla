------------------------------ MODULE MCCiWait ------------------------------
(* Model-checking instances of CiWait. *)
EXTENDS CiWait, TLC

\* Overlapping sweeps are interchangeable.
SweepSymmetry == Permutations(Sweeps)
=============================================================================
