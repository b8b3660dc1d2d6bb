--------------------------- MODULE MCUpdatesStream ---------------------------
(* UpdatesStream on small instances. *)
EXTENDS UpdatesStream, TLC

\* The two run_loop tasks are interchangeable.
LoopSymmetry == Permutations(Loops)
=============================================================================
