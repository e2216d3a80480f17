-------------------------- MODULE Persistence_proofs --------------------------
(***************************************************************************)
(* Proofs about what one session of the program leaves to the next, on     *)
(* files that are truncated and written in place while the program may end *)
(* at any point: the index (DataStore) and the configurations              *)
(* (Configuration, in the second part).                                    *)
(*                                                                         *)
(* DataStore, for any files, hosts and versions: what was confirmed is     *)
(* kept, what is unsaved is offered, and the two files implement           *)
(* IndexStore.  None of the results is inductive by itself.  VersionInv    *)
(* says that versions only grow on their way from the sources over the     *)
(* command's result to memory; WriteInv what Data::save has left when the  *)
(* list file is written; KeptInv that the files hold what was confirmed    *)
(* whenever neither of them is truncated.                                  *)
(***************************************************************************)
EXTENDS DataStore, Configuration, TLAPS

VersionInv ==
    /\ \A s \in Sources : /\ mem[s] <= world[s] /\ result[s] <= world[s]
                          /\ disk.idx[s] <= world[s]
                          /\ result[s] = 0 \/ result[s] >= mem[s]
    /\ \A h \in Hosts : result[h] = 0
    /\ pc # "index" => result = Empty

WriteInv ==
    pc \in {"list", "relist"} =>
        IF failed THEN damaged
                  ELSE written /\ disk.st = "whole" /\ disk.idx = mem

KeptInv ==
    ~damaged =>
        /\ pc \notin {"opened", "relist"} => \A s \in Sources : Kept[s] >= confirmed[s]
        /\ pc # "relist" => list = "names" \/ confirmed = Empty

OfferInv == pc \in {"cli", "index"} => mem = Kept \/ unsaved \/ failed

IInv == TypeOK /\ VersionInv /\ WriteInv /\ KeptInv /\ OfferInv /\ NothingConfirmedLost

(* The index a start would read is nothing or the one last written whole.   *)
LEMMA KeptFacts ==
    ASSUME TypeOK
    PROVE  Kept \in {Empty, disk.idx} /\ Kept \in Index /\ Empty \in Index
BY StoreAssumption DEF TypeOK, Kept, TornIndex, Index, Empty

LEMMA InitInv == Init => IInv
<1> SUFFICES ASSUME Init PROVE IInv
    OBVIOUS
<1>1. /\ Empty \in Index /\ [s \in Sources |-> 1] \in Index
      /\ \A s \in Sources : Empty[s] = 0
    BY StoreAssumption DEF Empty, Index
<1>2. TypeOK
    <2>1. unsaved \in BOOLEAN /\ written \in BOOLEAN /\ damaged \in BOOLEAN /\ failed \in BOOLEAN
        BY DEF Init
    <2>2. disk \in [st : {"absent", "torn", "whole"}, idx : Index]
        BY <1>1 DEF Init, NoFile
    <2>3. QED
        BY <1>1, <2>1, <2>2 DEF Init, TypeOK
<1>3. Kept = Empty /\ disk.idx = Empty
    BY DEF Init, Kept, TornIndex, NoFile
<1>4. VersionInv
    BY <1>1, <1>3 DEF Init, VersionInv, Sources
<1>5. WriteInv /\ OfferInv
    BY <1>3 DEF Init, WriteInv, OfferInv
<1>6. KeptInv /\ NothingConfirmedLost
    BY <1>1, <1>3 DEF Init, KeptInv, NothingConfirmedLost
<1>7. QED
    BY <1>2, <1>4, <1>5, <1>6 DEF IInv

(* What every step can use of the types.                                    *)
LEMMA Typing ==
    ASSUME IInv
    PROVE  /\ \A s \in Sources : /\ mem[s] \in 0..MaxVersion /\ world[s] \in 0..MaxVersion
                                 /\ result[s] \in 0..MaxVersion /\ disk.idx[s] \in 0..MaxVersion
                                 /\ confirmed[s] \in 0..MaxVersion /\ Kept[s] \in 0..MaxVersion
                                 /\ Empty[s] = 0
           /\ MaxVersion \in Nat
           /\ Kept \in {Empty, disk.idx} /\ Kept \in Index /\ Empty \in Index
<1>1. Kept \in {Empty, disk.idx} /\ Kept \in Index /\ Empty \in Index
    BY KeptFacts DEF IInv
<1>2. QED
    BY <1>1, StoreAssumption DEF IInv, TypeOK, Index, Empty

(* The sources change: versions only grow.                                  *)
LEMMA SourceInv == ASSUME IInv, NEW x \in Sources, SourceChanges(x) PROVE IInv'
<1> USE DEF SourceChanges, history, diskVars
<1>1. Kept' = Kept
    BY DEF Kept
<1>2. world' \in Index /\ \A s \in Sources : world'[s] >= world[s] /\ world'[s] \in Nat
    BY Typing, StoreAssumption DEF IInv, TypeOK, Index
<1>3. TypeOK'
    BY <1>2 DEF IInv, TypeOK
<1>4. VersionInv'
    BY <1>2, Typing DEF IInv, VersionInv
<1>5. WriteInv' /\ KeptInv' /\ OfferInv' /\ NothingConfirmedLost'
    BY <1>1 DEF IInv, WriteInv, KeptInv, OfferInv, NothingConfirmedLost
<1>6. QED
    BY <1>3, <1>4, <1>5 DEF IInv

(* A start reads what is kept.                                              *)
LEMMA StartInv == ASSUME IInv, Start PROVE IInv'
<1> USE DEF Start, history
<1>1. Kept' = Kept /\ mem' = Kept
    BY DEF Kept
<1>2. TypeOK'
    BY Typing DEF IInv, TypeOK
<1>3. VersionInv'
    BY <1>1, Typing DEF IInv, VersionInv
<1>4. WriteInv' /\ OfferInv'
    BY <1>1 DEF WriteInv, OfferInv
<1>5. KeptInv' /\ NothingConfirmedLost'
    BY <1>1 DEF IInv, KeptInv, NothingConfirmedLost
<1>6. QED
    BY <1>2, <1>3, <1>4, <1>5 DEF IInv

(* The steps of an index command: memory gets newer versions only, and the  *)
(* files are left alone.                                                    *)
LEMMA IndexInv ==
    ASSUME IInv, UNCHANGED indexFrame, pc \in {"cli", "index"}, pc' \in {"cli", "index"},
           mem' \in Index, result' \in Index, unsaved' \in BOOLEAN,
           VersionInv',
           \A s \in Sources : mem'[s] >= mem[s],
           unsaved' \/ (mem' = mem /\ unsaved' = unsaved)
    PROVE  IInv'
<1> USE DEF indexFrame, diskVars, history
<1>1. Kept' = Kept
    BY DEF Kept
<1>2. TypeOK'
    BY DEF IInv, TypeOK
<1>3. WriteInv'
    BY DEF WriteInv
<1>4. OfferInv'
    BY <1>1 DEF IInv, OfferInv
<1>5. KeptInv'
    BY <1>1 DEF IInv, KeptInv
<1>6. NothingConfirmedLost'
    <2>1. \A s \in Sources : mem'[s] \in 0..MaxVersion
        BY DEF Index
    <2>2. QED
        BY <2>1, Typing DEF IInv, NothingConfirmedLost
<1>7. QED
    BY <1>2, <1>3, <1>4, <1>5, <1>6 DEF IInv

LEMMA IndexSteps ==
    ASSUME IInv,
           \/ IndexBegin \/ IndexAbandoned \/ IndexDone
           \/ \E f \in Files : IndexFile(f)
           \/ \E h \in Hosts : IndexHost(h)
    PROVE  /\ IInv'
           /\ mem' \in Index /\ \A s \in Sources : mem'[s] >= mem[s]
           /\ UNCHANGED diskVars
<1> USE DEF indexFrame, diskVars, history
<1>0. /\ mem \in Index /\ result \in Index /\ world \in Index
      /\ VersionInv /\ Files \subseteq Sources /\ Hosts \subseteq Sources
      /\ unsaved \in BOOLEAN
    BY DEF IInv, TypeOK, Sources
<1>1. CASE IndexBegin
    <2>1. VersionInv'
        BY <1>0, <1>1 DEF IndexBegin, VersionInv
    <2>2. QED
        BY <1>0, <1>1, <2>1, IndexInv, Typing DEF IndexBegin
<1>2. CASE IndexAbandoned
    <2>1. VersionInv'
        BY <1>0, <1>2, Typing DEF IndexAbandoned, VersionInv, Sources
    <2>2. QED
        BY <1>0, <1>2, <2>1, IndexInv, Typing DEF IndexAbandoned
<1>3. CASE IndexDone
    <2>1. \A s \in Sources : mem'[s] = IF result[s] # 0 THEN result[s] ELSE mem[s]
        BY <1>3 DEF IndexDone, Overlay
    <2>2. mem' \in Index
        BY <1>3, Typing DEF IndexDone, Overlay, Index
    <2>3. \A s \in Sources : mem'[s] >= mem[s] /\ mem'[s] <= world[s]
        BY <1>0, <2>1, Typing DEF VersionInv
    <2>4. VersionInv'
        BY <1>0, <1>3, <2>3, Typing DEF IndexDone, VersionInv, Sources
    <2>5. unsaved' \in BOOLEAN /\ unsaved'
        BY <1>3 DEF IndexDone
    <2>6. QED
        BY <1>0, <1>3, <2>2, <2>3, <2>4, <2>5, IndexInv, Typing DEF IndexDone
<1>4. ASSUME NEW f \in Files, IndexFile(f)
      PROVE  IInv' /\ UNCHANGED mem /\ UNCHANGED diskVars
    <2>1. result' \in Index
        BY <1>0, <1>4 DEF IndexFile, Index
    <2>2. VersionInv'
        BY <1>0, <1>4, Typing, StoreAssumption DEF IndexFile, VersionInv, Index
    <2>3. QED
        BY <1>0, <1>4, <2>1, <2>2, IndexInv, Typing DEF IndexFile
<1>5. ASSUME NEW h \in Hosts, IndexHost(h)
      PROVE  /\ IInv' /\ mem' \in Index /\ UNCHANGED diskVars
             /\ \A s \in Sources : mem'[s] >= mem[s]
    <2>1. mem' \in Index
        BY <1>0, <1>5 DEF IndexHost, Index
    <2>2. \A s \in Sources : mem'[s] >= mem[s]
        BY <1>0, <1>5, Typing DEF IndexHost, VersionInv, Index
    <2>3. VersionInv'
        BY <1>0, <1>5, Typing DEF IndexHost, VersionInv, Index
    <2>4. unsaved' \in BOOLEAN /\ unsaved'
        BY <1>5 DEF IndexHost
    <2>5. QED
        BY <1>0, <1>5, <2>1, <2>2, <2>3, <2>4, IndexInv DEF IndexHost
<1>6. QED
    BY <1>0, <1>1, <1>2, <1>3, <1>4, <1>5, Typing DEF IndexBegin, IndexAbandoned

(* Leaving the program.                                                     *)
LEMMA OffTypes == ASSUME TurnedOff PROVE /\ unsaved' \in BOOLEAN /\ written' \in BOOLEAN
                                         /\ failed' \in BOOLEAN
BY DEF TurnedOff

(* The process is gone: memory is empty, and KeptInv must hold of the files. *)
LEMMA OffInv ==
    ASSUME IInv, TurnedOff, UNCHANGED world,
           disk' \in [st : {"absent", "torn", "whole"}, idx : Index],
           list' \in {"absent", "blank", "names"},
           confirmed' \in Index, damaged' \in BOOLEAN,
           disk'.idx \in {disk.idx, mem}, KeptInv'
    PROVE  IInv'
<1>1. TypeOK'
    BY OffTypes, Typing DEF TurnedOff, IInv, TypeOK
<1>2. VersionInv'
    BY Typing DEF TurnedOff, IInv, VersionInv, Sources
<1>3. WriteInv' /\ OfferInv' /\ NothingConfirmedLost'
    BY DEF TurnedOff, WriteInv, OfferInv, NothingConfirmedLost
<1>4. QED
    BY <1>1, <1>2, <1>3 DEF IInv

(* The answers to "Save changes?".                                          *)
LEMMA AnswerInv ==
    ASSUME IInv,
           \/ \E why \in {"command", "exit"} : AnswerYes(why)
           \/ ExitDeclined
    PROVE  IInv' /\ UNCHANGED <<mem, diskVars>>
<1> USE DEF AnswerYes, ExitDeclined, saveFrame, diskVars
<1>1. Kept' = Kept
    BY DEF Kept
<1>2. TypeOK'
    BY DEF IInv, TypeOK
<1>3. VersionInv' /\ WriteInv' /\ OfferInv'
    BY DEF IInv, VersionInv, WriteInv, OfferInv
<1>4. KeptInv' /\ NothingConfirmedLost'
    BY <1>1 DEF IInv, KeptInv, NothingConfirmedLost
<1>5. QED
    BY <1>2, <1>3, <1>4 DEF IInv

LEMMA ExitCleanInv == ASSUME IInv, ExitClean PROVE IInv'
<1> USE DEF ExitClean, saveFrame, diskVars
<1>1. Kept' = Kept
    BY DEF Kept
<1>2. KeptInv'
    BY <1>1 DEF IInv, KeptInv, TurnedOff
<1>3. QED
    BY <1>2, OffInv DEF IInv, TypeOK

(* A crash inside a truncated file counts as damage, elsewhere the files    *)
(* are as they were.                                                        *)
LEMMA CrashInv == ASSUME IInv, Crash PROVE IInv'
<1> USE DEF Crash, saveFrame, diskVars
<1>1. Kept' = Kept
    BY DEF Kept
<1>2. damaged' \in BOOLEAN /\ (~damaged' => ~damaged /\ pc \notin {"opened", "relist"})
    OBVIOUS
<1>3. KeptInv'
    BY <1>1, <1>2 DEF IInv, KeptInv, TurnedOff
<1>4. QED
    BY <1>2, <1>3, OffInv DEF IInv, TypeOK

(* The index file is truncated.                                             *)
LEMMA WriteOpenInv == ASSUME IInv, WriteOpen PROVE IInv' /\ UNCHANGED mem /\ disk'.idx = disk.idx
<1> USE DEF WriteOpen, saveFrame, commandFrame
<1>1. /\ disk' \in [st : {"absent", "torn", "whole"}, idx : Index]
      /\ disk'.idx = disk.idx
    BY DEF IInv, TypeOK
<1>2. TypeOK'
    BY <1>1 DEF IInv, TypeOK
<1>3. VersionInv' /\ WriteInv' /\ OfferInv'
    BY <1>1 DEF IInv, VersionInv, WriteInv, OfferInv
<1>4. KeptInv' /\ NothingConfirmedLost'
    BY DEF IInv, KeptInv, NothingConfirmedLost
<1>5. QED
    BY <1>1, <1>2, <1>3, <1>4 DEF IInv

(* The index file is filled: what it holds now is newer than what was       *)
(* confirmed, and a list that names it keeps it.                            *)
LEMMA WriteDoneInv == ASSUME IInv, WriteDone PROVE IInv'
<1> USE DEF WriteDone, saveFrame
<1>1. /\ disk' \in [st : {"absent", "torn", "whole"}, idx : Index]
      /\ disk'.idx = mem /\ disk'.st = "whole"
    BY DEF IInv, TypeOK
<1>2. Kept' = IF list = "names" THEN mem ELSE Empty
    BY <1>1 DEF Kept
<1>3. ~damaged => \A s \in Sources : Kept'[s] >= confirmed[s]
    BY <1>2, Typing DEF IInv, KeptInv, NothingConfirmedLost
<1>4. KeptInv'
    BY <1>3 DEF IInv, KeptInv
<1>5. CASE goal = "dtor"
    BY <1>1, <1>4, <1>5, OffInv DEF AfterWrite, IInv, TypeOK
<1>6. CASE goal # "dtor"
    <2> USE <1>6 DEF AfterWrite
    <2>1. unsaved' \in BOOLEAN /\ written' \in BOOLEAN /\ failed' \in BOOLEAN
        OBVIOUS
    <2>2. TypeOK'
        BY <1>1, <2>1 DEF IInv, TypeOK
    <2>3. VersionInv'
        BY <1>1 DEF IInv, VersionInv
    <2>4. WriteInv'
        BY <1>1 DEF WriteInv
    <2>5. OfferInv'
        BY DEF OfferInv
    <2>6. NothingConfirmedLost'
        BY DEF IInv, NothingConfirmedLost
    <2>7. QED
        BY <1>4, <2>2, <2>3, <2>4, <2>5, <2>6 DEF IInv
<1>7. QED
    BY <1>5, <1>6

(* A failed write is damage.                                                *)
LEMMA WriteFailsInv == ASSUME IInv, WriteFails PROVE IInv'
<1> USE DEF WriteFails, saveFrame, diskVars
<1>1. damaged' /\ damaged' \in BOOLEAN
    OBVIOUS
<1>2. KeptInv'
    BY <1>1 DEF KeptInv
<1>3. CASE goal = "dtor"
    BY <1>1, <1>2, <1>3, OffInv DEF AfterWrite, IInv, TypeOK
<1>4. CASE goal # "dtor"
    <2> USE <1>4 DEF AfterWrite
    <2>1. unsaved' \in BOOLEAN /\ failed' /\ failed' \in BOOLEAN
        OBVIOUS
    <2>2. TypeOK'
        BY <1>1, <2>1 DEF IInv, TypeOK
    <2>3. VersionInv' /\ OfferInv'
        BY DEF IInv, VersionInv, OfferInv
    <2>4. WriteInv' /\ NothingConfirmedLost'
        BY <1>1, <2>1 DEF WriteInv, NothingConfirmedLost
    <2>5. QED
        BY <1>2, <2>2, <2>3, <2>4 DEF IInv
<1>5. QED
    BY <1>3, <1>4

(* The list file is truncated.                                              *)
LEMMA ListOpenInv == ASSUME IInv, ListOpen PROVE IInv'
<1> USE DEF ListOpen, saveFrame, commandFrame
<1>1. TypeOK'
    BY DEF IInv, TypeOK
<1>2. VersionInv' /\ WriteInv' /\ OfferInv'
    BY DEF IInv, VersionInv, WriteInv, OfferInv
<1>3. KeptInv' /\ NothingConfirmedLost'
    BY DEF IInv, KeptInv, NothingConfirmedLost
<1>4. QED
    BY <1>1, <1>2, <1>3 DEF IInv

(* The list file is filled: unless the write of the index failed, it names  *)
(* the index file, which holds memory, and that is confirmed.               *)
LEMMA ListWriteInv == ASSUME IInv, ListWrite PROVE IInv'
<1> USE DEF ListWrite
<1>1. list' \in {"absent", "blank", "names"} /\ confirmed' \in Index /\ damaged' \in BOOLEAN
    BY DEF IInv, TypeOK
<1>2. CASE failed
    <2>1. damaged /\ damaged' = damaged
        BY <1>2 DEF IInv, WriteInv
    <2>2. KeptInv'
        BY <2>1 DEF KeptInv
    <2>3. CASE goal # "command"
        BY <1>1, <2>2, <2>3, OffInv DEF IInv, TypeOK
    <2>4. CASE goal = "command"
        <3> USE <2>4 DEF commandFrame
        <3>1. TypeOK'
            BY <1>1 DEF IInv, TypeOK
        <3>2. VersionInv' /\ WriteInv' /\ OfferInv'
            BY <1>2 DEF IInv, VersionInv, WriteInv, OfferInv
        <3>3. NothingConfirmedLost'
            BY <2>1 DEF NothingConfirmedLost
        <3>4. QED
            BY <2>2, <3>1, <3>2, <3>3 DEF IInv
    <2>5. QED
        BY <2>3, <2>4
<1>3. CASE ~failed
    <2>1. written /\ disk.st = "whole" /\ disk.idx = mem
        BY <1>3 DEF IInv, WriteInv
    <2>2. list' = "names" /\ Kept' = mem /\ confirmed' = mem
        BY <1>3, <2>1 DEF Kept
    <2>3. KeptInv'
        BY <2>2, Typing DEF KeptInv
    <2>4. CASE goal # "command"
        BY <1>1, <2>3, <2>4, OffInv DEF IInv, TypeOK
    <2>5. CASE goal = "command"
        <3> USE <2>5 DEF commandFrame
        <3>1. TypeOK'
            BY <1>1 DEF IInv, TypeOK
        <3>2. VersionInv' /\ WriteInv'
            BY DEF IInv, VersionInv, WriteInv
        <3>3. OfferInv'
            BY <2>2 DEF OfferInv
        <3>4. NothingConfirmedLost'
            BY <2>2, Typing DEF NothingConfirmedLost
        <3>5. QED
            BY <2>3, <3>1, <3>2, <3>3, <3>4 DEF IInv
    <2>6. QED
        BY <2>4, <2>5
<1>4. QED
    BY <1>2, <1>3

LEMMA NextInv == ASSUME IInv, [Next]_vars PROVE IInv'
<1>1. CASE Next
    BY <1>1, SourceInv, StartInv, IndexSteps, AnswerInv, ExitCleanInv, CrashInv, WriteOpenInv,
       WriteDoneInv, WriteFailsInv, ListOpenInv, ListWriteInv DEF Next
<1>2. CASE UNCHANGED vars
    <2> USE <1>2 DEF vars, diskVars, history
    <2>1. Kept' = Kept
        BY DEF Kept
    <2>2. TypeOK' /\ VersionInv' /\ WriteInv'
        BY DEF IInv, TypeOK, VersionInv, WriteInv
    <2>3. KeptInv' /\ OfferInv' /\ NothingConfirmedLost'
        BY <2>1 DEF IInv, KeptInv, OfferInv, NothingConfirmedLost
    <2>4. QED
        BY <2>2, <2>3 DEF IInv
<1>3. QED
    BY <1>1, <1>2

(* Every reachable state of the store satisfies IInv.                       *)
THEOREM StoreInvariant == Spec => []IInv
<1>1. IInv /\ [Next]_vars => IInv'
    BY NextInv
<1>2. QED
    BY InitInv, <1>1, PTL DEF Spec

(* Memory, files and history of the store keep their types.                 *)
THEOREM StoreTypeCorrect == Spec => []TypeOK
<1>1. IInv => TypeOK
    BY DEF IInv
<1>2. QED
    BY <1>1, StoreInvariant, PTL

(* What a completed save was answered yes for is in the index of every      *)
(* later session that Data::read gives, unless a write failed or was cut    *)
(* short.                                                                   *)
THEOREM ConfirmedIsKept == Spec => []NothingConfirmedLost
<1>1. IInv => NothingConfirmedLost
    BY DEF IInv
<1>2. QED
    BY <1>1, StoreInvariant, PTL

(* At the prompt, data that a start would not read is marked in unsaved_,   *)
(* unless the last write failed.                                            *)
THEOREM UnsavedIsOffered == Spec => []UnsavedOffered
<1>1. IInv => UnsavedOffered
    BY DEF IInv, OfferInv, UnsavedOffered
<1>2. QED
    BY <1>1, StoreInvariant, PTL

(* Steps of the store are steps of IndexStore.                              *)
LEMMA StoreStep == ASSUME IInv, [Next]_vars PROVE [Abstract!Next]_<<mem, disk.idx, Kept>>
<1> USE DEF Abstract!Next, Abstract!Add, Abstract!Save, Abstract!Start, Abstract!Stop
<1>1. Kept \in {Empty, disk.idx} /\ Kept' \in {Empty, disk'.idx}
    BY NextInv, Typing, KeptFacts DEF Kept, TornIndex
<1>2. Abstract!Index = Index /\ Abstract!Empty = Empty
    BY DEF Abstract!Index, Abstract!Empty, Index, Empty
<1>3. ASSUME UNCHANGED diskVars PROVE Kept' = Kept /\ disk'.idx = disk.idx
    BY <1>3 DEF diskVars, Kept
<1>4. CASE UNCHANGED vars \/ \E s \in Sources : SourceChanges(s)
    BY <1>3, <1>4 DEF vars, SourceChanges
<1>5. CASE Start
    <2>1. Kept' = Kept /\ mem' = Kept /\ disk' = disk
        BY <1>5 DEF Start, Kept
    <2>2. Abstract!Start
        BY <2>1
    <2>3. QED
        BY <2>2
<1>6. CASE \/ IndexBegin \/ IndexAbandoned \/ IndexDone
           \/ \E f \in Files : IndexFile(f)
           \/ \E h \in Hosts : IndexHost(h)
    <2>1. Abstract!Add
        BY <1>2, <1>3, <1>6, IndexSteps
    <2>2. QED
        BY <2>1
<1>7. CASE (\E why \in {"command", "exit"} : AnswerYes(why)) \/ ExitDeclined
    BY <1>3, <1>7, AnswerInv
<1>8. CASE ExitClean \/ Crash
    <2>1. Abstract!Stop
        BY <1>1, <1>2, <1>3, <1>8 DEF ExitClean, Crash, TurnedOff
    <2>2. QED
        BY <2>1
<1>9. CASE WriteOpen \/ ListOpen
    <2>1. UNCHANGED mem /\ disk'.idx = disk.idx
        BY <1>9, WriteOpenInv DEF ListOpen, commandFrame
    <2>2. Abstract!Save
        BY <1>1, <1>2, <2>1
    <2>3. QED
        BY <2>2
<1>10. CASE WriteDone \/ WriteFails \/ ListWrite
    <2>1. disk'.idx \in {disk.idx, mem} /\ mem' \in {mem, Empty}
        BY <1>10 DEF WriteDone, WriteFails, ListWrite, AfterWrite, TurnedOff, commandFrame, diskVars
    <2>2. Abstract!Save \/ Abstract!Stop
        BY <1>1, <1>2, <2>1
    <2>3. QED
        BY <2>2
<1>11. QED
    BY <1>4, <1>5, <1>6, <1>7, <1>8, <1>9, <1>10 DEF Next

(* Data and Mashroom implement IndexStore: over failures and crashes a      *)
(* start reads nothing or exactly the index that was last written whole.    *)
THEOREM StoreRefinement == Spec => ImplementsStore
<1>1. Init => Abstract!Init
    BY DEF Init, Abstract!Init, Abstract!Empty, Empty, Kept, TornIndex, NoFile
<1>2. IInv /\ [Next]_vars => [Abstract!Next]_<<mem, disk.idx, Kept>>
    BY StoreStep
<1>3. QED
    BY <1>1, <1>2, StoreInvariant, PTL DEF Spec, ImplementsStore, Abstract!Spec

-----------------------------------------------------------------------------
(***************************************************************************)
(* Configuration, for any set of names without the empty one, which the    *)
(* option --name refuses (NamesAssumption).  That a session after an       *)
(* orderly end has a default configuration is not inductive by itself: it  *)
(* rests on what ~Config left in the file (ConfigFileInv) and on the form  *)
(* of the file, which its type fixes.                                      *)
(***************************************************************************)

(* A completed ~Config leaves a server file that parses.                    *)
ConfigFileInv == place = "off" /\ ended = "orderly" => serverFile.st = "whole"

ConfigInv ==
    ConfigTypeOK /\ ConfigFileInv /\ CurrentRegistered /\ DefaultAfterOrderlyEnd

LEMMA DefaultIsNamed == Default # NoName /\ NoName \notin AllNames
BY NamesAssumption DEF Default, NoName, AllNames

LEMMA InitConfigInv == ConfigInit => ConfigInv
BY DEF ConfigInit, ConfigInv, ConfigTypeOK, ConfigFileInv, CurrentRegistered,
       DefaultAfterOrderlyEnd, AllNames, Default, NoName

(* The start of a session is the step that needs ConfigFileInv.             *)
LEMMA StartConfigInv == ConfigInv /\ StartConfig => ConfigInv'
<1> SUFFICES ASSUME ConfigInv, StartConfig PROVE ConfigInv'
    OBVIOUS
<1> USE DEF ConfigInv, StartConfig, files, read_user_config,
            read_server_config, StoredServers
<1>1. serverFile \in [st : {"absent", "torn", "whole"}, last : AllNames \cup {NoName},
                      kind : {"array"}, names : SUBSET AllNames]
    BY DEF ConfigTypeOK
<1>2. ConfigTypeOK'
    BY <1>1 DEF ConfigTypeOK, AllNames
<1>3. CurrentRegistered'
    BY <1>1 DEF CurrentRegistered
<1>4. ConfigFileInv'
    BY DEF ConfigFileInv
<1>5. DefaultAfterOrderlyEnd'
    BY <1>1, DefaultIsNamed DEF DefaultAfterOrderlyEnd, ConfigFileInv
<1>6. QED
    BY <1>2, <1>3, <1>4, <1>5

(* The commands of a session.                                               *)
LEMMA CommandConfigInv ==
    ASSUME ConfigInv, NEW n \in AllNames,
           \/ add_server_config(n) \/ set_server_config(n)
           \/ remove_server_config(n) \/ remove_user_config(n)
    PROVE  ConfigInv'
<1> USE DefaultIsNamed
    DEF ConfigInv, ConfigTypeOK, ConfigFileInv, CurrentRegistered,
        DefaultAfterOrderlyEnd
<1>1. CASE add_server_config(n)
    BY <1>1 DEF add_server_config, files
<1>2. CASE set_server_config(n)
    BY <1>2 DEF set_server_config, files
<1>3. CASE remove_server_config(n)
    BY <1>3 DEF remove_server_config, files, EndEarly, NoMemory
<1>4. CASE remove_user_config(n)
    BY <1>4 DEF remove_user_config, files
<1>5. QED
    BY <1>1, <1>2, <1>3, <1>4

(* ~Config, its failures, and the end of the process anywhere.              *)
LEMMA ExitConfigInv ==
    ASSUME ConfigInv,
           \/ Exit \/ WriteConfigFails \/ CrashConfig
           \/ OpenUser \/ WriteUser \/ OpenServer \/ WriteServer
    PROVE  ConfigInv'
<1> USE DefaultIsNamed
    DEF ConfigInv, ConfigTypeOK, ConfigFileInv, CurrentRegistered,
        DefaultAfterOrderlyEnd
<1>1. CASE Exit
    BY <1>1 DEF Exit, memory, files
<1>2. CASE WriteConfigFails
    BY <1>2 DEF WriteConfigFails, NoMemory, memory, files
<1>3. CASE CrashConfig
    BY <1>3 DEF CrashConfig, EndEarly, NoMemory, files
<1>4. CASE OpenUser
    BY <1>4 DEF OpenUser, memory
<1>5. CASE WriteUser
    BY <1>5 DEF WriteUser, memory
<1>6. CASE OpenServer
    BY <1>6 DEF OpenServer, memory
<1>7. CASE WriteServer
    BY <1>7 DEF WriteServer, NoMemory
<1>8. QED
    BY <1>1, <1>2, <1>3, <1>4, <1>5, <1>6, <1>7

(* Every reachable state of Config satisfies ConfigInv.                     *)
THEOREM ConfigInvariant == ConfigSpec => []ConfigInv
<1>1. ConfigInv /\ [ConfigNext]_configVars => ConfigInv'
    <2> SUFFICES ASSUME ConfigInv, [ConfigNext]_configVars PROVE ConfigInv'
        OBVIOUS
    <2>1. CASE ConfigNext
        BY <2>1, StartConfigInv, CommandConfigInv, ExitConfigInv DEF ConfigNext
    <2>2. CASE UNCHANGED configVars
        BY <2>2 DEF ConfigInv, ConfigTypeOK, ConfigFileInv, CurrentRegistered,
                    DefaultAfterOrderlyEnd, configVars, memory, files
    <2>3. QED
        BY <2>1, <2>2
<1>2. QED
    BY InitConfigInv, <1>1, PTL DEF ConfigSpec

(* Memory and files of Config keep their types; "configs" stays an array.   *)
THEOREM ConfigTypeCorrect == ConfigSpec => []ConfigTypeOK
<1>1. ConfigInv => ConfigTypeOK
    BY DEF ConfigInv
<1>2. QED
    BY <1>1, ConfigInvariant, PTL

(* Whatever is added, set and removed, over any number of sessions, the     *)
(* current server configuration is registered or the empty one.             *)
THEOREM CurrentIsRegistered == ConfigSpec => []CurrentRegistered
<1>1. ConfigInv => CurrentRegistered
    BY DEF ConfigInv
<1>2. QED
    BY <1>1, ConfigInvariant, PTL

(* After an orderly end remove_server_config finds the default              *)
(* configuration that it dereferences.                                      *)
THEOREM DefaultIsThere == ConfigSpec => []DefaultAfterOrderlyEnd
<1>1. ConfigInv => DefaultAfterOrderlyEnd
    BY DEF ConfigInv
<1>2. QED
    BY <1>1, ConfigInvariant, PTL
===============================================================================
