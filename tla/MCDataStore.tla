---------------------------- MODULE MCDataStore ----------------------------
(* DataStore for TLC; files are interchangeable.                            *)
EXTENDS DataStore, TLC

Symmetry == Permutations(Files)
=============================================================================
