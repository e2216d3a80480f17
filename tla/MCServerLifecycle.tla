-------------------------- MODULE MCServerLifecycle --------------------------
(* ServerLifecycle for TLC: see the .cfg files for the bounds.              *)
EXTENDS ServerLifecycle
=============================================================================
