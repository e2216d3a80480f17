-------------------------- MODULE MCConnectionPool --------------------------
(* ConnectionPool for TLC: connections and process objects are              *)
(* interchangeable where no temporal property is checked.                   *)
EXTENDS ConnectionPool, TLC

Symmetry == Permutations(Socks) \cup Permutations(Procs)
=============================================================================
