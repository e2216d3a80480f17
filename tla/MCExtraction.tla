---------------------------- MODULE MCExtraction ----------------------------
(* Extraction for TLC.                                                      *)
EXTENDS Extraction

CONSTANT MaxMessages    \* bound: messages in a file

(* Every order of messages in one file, or one message in each of two.      *)
MCInputs ==
    LET Sized(n) == [1..n -> Messages \cup {Zero}]
    IN  {<<f>> : f \in UNION {Sized(n) : n \in 1..MaxMessages}}
          \cup {<<f, g>> : f \in Sized(1), g \in Sized(1)}
=============================================================================
