--------------------------- MODULE MCSendMessage ---------------------------
(* SendMessage on a small instance. *)
EXTENDS SendMessage, TLC
=============================================================================
