--------------------------- MODULE MCSessionDefer ---------------------------
(* Model-checking instances of SessionDefer. *)
EXTENDS SessionDefer, TLC
=============================================================================
