--------------------------- MODULE MCDispatchSeat ---------------------------
(* Small instances of DispatchSeat for TLC. *)
EXTENDS DispatchSeat

=============================================================================
