----------------------------- MODULE IndexStore -----------------------------
(***************************************************************************)
(* What the index of Mashroom promises over restarts, without its files.   *)
(* The program answers from "view"; "saved" is the last index that was     *)
(* written as a whole, and "kept" what the next start will read: saved or  *)
(* nothing.  There is never a mixture of two saves and never an index      *)
(* older than the last one saved.  Ends of the program, crashes included,  *)
(* are Stop; the last thing it does may be a save.                         *)
(***************************************************************************)
EXTENDS Naturals

CONSTANTS Sources, MaxVersion

VARIABLES view, saved, kept

Index == [Sources -> 0..MaxVersion]
Empty == [s \in Sources |-> 0]

Init == view = Empty /\ saved = Empty /\ kept = Empty

(* Indexing adds sources or newer versions of them and removes none.        *)
Add == /\ view' \in {v \in Index : \A s \in Sources : v[s] >= view[s]}
       /\ UNCHANGED <<saved, kept>>

Save  == saved' \in {saved, view} /\ kept' \in {Empty, saved'} /\ UNCHANGED view
Start == view' = kept /\ UNCHANGED <<saved, kept>>
Stop  == view' = Empty /\ saved' \in {saved, view} /\ kept' \in {Empty, saved'}

Next == Add \/ Save \/ Start \/ Stop

Spec == Init /\ [][Next]_<<view, saved, kept>>
=============================================================================
