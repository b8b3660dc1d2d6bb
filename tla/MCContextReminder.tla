------------------------- MODULE MCContextReminder -------------------------
(* ContextReminder on a small instance. *)
EXTENDS ContextReminder, TLC
=============================================================================
