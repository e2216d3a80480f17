----------------------------- MODULE MCExchange -----------------------------
(* Exchange for TLC: see the .cfg files for the number of requests.         *)
EXTENDS Exchange
=============================================================================
