---------------------------- MODULE MCPointValue ----------------------------
(* PointValue for TLC.                                                      *)
EXTENDS PointValue
=============================================================================
