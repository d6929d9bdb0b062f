------------------------- MODULE MCStallingTimeout -------------------------
(* Model checking StallingTimeout with the constants of the code. *)
EXTENDS StallingTimeout
=============================================================================
