--------------------------- MODULE MCSocketSharing ---------------------------
(* SocketSharing for TLC; Socket objects are interchangeable.               *)
EXTENDS SocketSharing, TLC

Symmetry == Permutations(Holders)
=============================================================================
