-------------------------- MODULE MCQueuableProcess --------------------------
(* QueuableProcess for TLC: see the .cfg files for the number of tasks.     *)
EXTENDS QueuableProcess
=============================================================================
