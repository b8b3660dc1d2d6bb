----------------------------- MODULE MCQrLogin -----------------------------
(* QrLogin on a small instance. *)
EXTENDS QrLogin, TLC
=============================================================================
