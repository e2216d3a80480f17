--------------------------- MODULE MCConfiguration ---------------------------
(* Configuration for TLC; the names a user gives are interchangeable.       *)
EXTENDS Configuration, TLC

Symmetry == Permutations(Names)
=============================================================================
