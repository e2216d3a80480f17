------------------------------ MODULE DataStore ------------------------------
(***************************************************************************)
(* Data and Mashroom: the index in memory, the index file it is written to *)
(* and the list file that tells the next start which index file to read.   *)
(*                                                                         *)
(* The index command reads its sources one after the other; "save", the    *)
(* end of the program (~Mashroom, then ~Data) and the start work on two    *)
(* files, each truncated and then written in place.  The program may end   *)
(* at any point.  A source has a version; the index holds the version it   *)
(* saw, 0 for a source that is not indexed.                                *)
(***************************************************************************)
EXTENDS Naturals

CONSTANTS
    Files,        \* GRIB files an index command may name
    Hosts,        \* other servers it may ask
    MaxVersion    \* bound: changes of a source

ASSUME StoreAssumption == MaxVersion \in Nat \ {0} /\ Files \cap Hosts = {}

Sources == Files \cup Hosts
Index == [Sources -> 0..MaxVersion]
Empty == [s \in Sources |-> 0]

VARIABLES
    pc,         \* where the program is
    goal,       \* why Data::save runs: "command", "exit" (~Mashroom), "dtor" (~Data)
    world,      \* the version each source has
    mem,        \* positions_ of the DataStruct
    result,     \* what the index command under way has read from files
    unsaved,    \* unsaved_ contains the format
    written,    \* files_ names the index file
    disk,       \* index file: [st |-> "absent", "torn" or "whole", idx |-> contents]
    list,       \* list file: "absent", "blank" (no file named) or "names" it
    confirmed,  \* history: the index at the last save that was answered yes and completed
    damaged,    \* history: since then a write failed or was cut short
    failed      \* history: the last write of this session failed

diskVars == <<disk, list>>
history  == <<confirmed, damaged, failed>>
vars == <<pc, goal, world, mem, result, unsaved, written, diskVars, history>>

NoFile == [st |-> "absent", idx |-> Empty]

Init ==
    /\ pc = "off" /\ goal = "command" /\ world = [s \in Sources |-> 1]
    /\ mem = Empty /\ result = Empty /\ unsaved = FALSE /\ written = FALSE
    /\ disk = NoFile /\ list = "absent"
    /\ confirmed = Empty /\ damaged = FALSE /\ failed = FALSE

(* Later entries win.                                                       *)
Overlay(old, new) == [s \in Sources |-> IF new[s] # 0 THEN new[s] ELSE old[s]]

(* The process is gone, and its memory with it.                             *)
TurnedOff ==
    /\ pc' = "off" /\ goal' = "command" /\ mem' = Empty /\ result' = Empty
    /\ unsaved' = FALSE /\ written' = FALSE /\ failed' = FALSE

(* A source is rewritten by somebody else.                                  *)
SourceChanges(s) ==
    /\ world[s] < MaxVersion
    /\ world' = [world EXCEPT ![s] = @ + 1]
    /\ UNCHANGED <<pc, goal, mem, result, unsaved, written, diskVars, history>>

-----------------------------------------------------------------------------
(* Start: Mashroom(), __read_initial_data_file__, Data::read                *)

(* External, and an assumption: deserialize_from_file leaves the index as   *)
(* it is when the file was cut short.  Data::__read__ drops its result.     *)
TornIndex == Empty

(* What the files give: a list that names nothing (or is cut short, the     *)
(* parser is not done) reads nothing.                                       *)
Kept ==
    IF list # "names" \/ disk.st = "absent" THEN Empty
    ELSE IF disk.st = "whole" THEN disk.idx ELSE TornIndex

(* A missing list file is created.                                          *)
Start ==
    /\ pc = "off"
    /\ mem' = Kept
    /\ list' = IF list = "absent" THEN "blank" ELSE list
    /\ pc' = "cli"
    /\ UNCHANGED <<goal, world, result, unsaved, written, disk, history>>

-----------------------------------------------------------------------------
(* The index command: Index::execute                                        *)

indexFrame == <<goal, world, written, diskVars, history>>

IndexBegin ==
    /\ pc = "cli"
    /\ pc' = "index"
    /\ UNCHANGED <<indexFrame, mem, result, unsaved>>

(* FILE, and each file of a DIRECTORY: read into the command's own result.  *)
IndexFile(f) ==
    /\ pc = "index"
    /\ result' = [result EXCEPT ![f] = world[f]]
    /\ UNCHANGED <<indexFrame, pc, mem, unsaved>>

(* Mutant: the answer of a host is added and not marked as unsaved.         *)
IndexHostQuiet(h) ==
    /\ pc = "index"
    /\ mem' = [mem EXCEPT ![h] = world[h]]
    /\ UNCHANGED <<indexFrame, pc, result, unsaved>>

(* HOST: the answer goes to the store at once.                              *)
IndexHost(h) ==
    /\ pc = "index"
    /\ mem' = [mem EXCEPT ![h] = world[h]]
    /\ unsaved' = TRUE
    /\ UNCHANGED <<indexFrame, pc, result>>

(* A path that is no directory, or a host without connection: execute       *)
(* returns, and what it has read from files is dropped with hIndex.         *)
IndexAbandoned ==
    /\ pc = "index"
    /\ pc' = "cli" /\ result' = Empty
    /\ UNCHANGED <<indexFrame, mem, unsaved>>

(* Mutant: the new index replaces the old one.                              *)
IndexDoneReplaces ==
    /\ pc = "index"
    /\ mem' = result
    /\ unsaved' = TRUE
    /\ pc' = "cli" /\ result' = Empty
    /\ UNCHANGED indexFrame

(* Data::add_data(result.sublime()): positions_[path] = positions.          *)
IndexDone ==
    /\ pc = "index"
    /\ mem' = Overlay(mem, result)
    /\ unsaved' = TRUE
    /\ pc' = "cli" /\ result' = Empty
    /\ UNCHANGED indexFrame

-----------------------------------------------------------------------------
(* Mashroom::save, ~Mashroom, ~Data                                         *)

saveFrame == <<world, confirmed>>
commandFrame == <<goal, mem, result, unsaved, written, failed>>

(* "save" or "exit" with unsaved data, answered yes.  (Any other answer to  *)
(* "save" changes nothing.)                                                 *)
AnswerYes(why) ==
    /\ pc = "cli" /\ unsaved
    /\ pc' = "write" /\ goal' = why
    /\ UNCHANGED <<saveFrame, mem, result, unsaved, written, diskVars, damaged, failed>>

(* "exit" answered with anything else: ~Data saves all the same.            *)
ExitDeclined ==
    /\ pc = "cli" /\ unsaved
    /\ pc' = "write" /\ goal' = "dtor"
    /\ UNCHANGED <<saveFrame, mem, result, unsaved, written, diskVars, damaged, failed>>

ExitClean ==
    /\ pc = "cli" /\ ~unsaved
    /\ TurnedOff
    /\ UNCHANGED <<saveFrame, diskVars, damaged>>

(* After Data::save: ~Data ends the program, Mashroom::save goes on to the  *)
(* list file.                                                               *)
AfterWrite(named, error) ==
    IF goal = "dtor"
    THEN TurnedOff
    ELSE /\ pc' = "list" /\ unsaved' = FALSE /\ written' = named /\ failed' = error
         /\ UNCHANGED <<goal, mem, result>>

(* __write__: the ofstream truncates the old index file ...                 *)
WriteOpen ==
    /\ pc = "write"
    /\ disk' = [disk EXCEPT !.st = "torn"]
    /\ pc' = "opened"
    /\ UNCHANGED <<saveFrame, commandFrame, list, damaged>>

(* ... and is filled; __write_all__ erases the format from unsaved_.        *)
WriteDone ==
    /\ pc = "opened"
    /\ disk' = [st |-> "whole", idx |-> mem]
    /\ AfterWrite(TRUE, FALSE)
    /\ UNCHANGED <<saveFrame, list, damaged>>

(* The file cannot be opened, or serialization fails: SERIALIZATION_ERROR,  *)
(* files_ is not set, and unsaved_ loses the format all the same.           *)
WriteFails ==
    /\ pc \in {"write", "opened"}
    /\ damaged' = TRUE
    /\ AfterWrite(written, TRUE)
    /\ UNCHANGED <<saveFrame, diskVars>>

(* __write_initial_data_file__: truncated ...                               *)
ListOpen ==
    /\ pc = "list"
    /\ list' = "blank"
    /\ pc' = "relist"
    /\ UNCHANGED <<saveFrame, commandFrame, disk, damaged>>

(* Mutant: the list is only written for the command.                        *)
ListWriteForgets ==
    /\ pc = "relist"
    /\ list' = IF written /\ goal = "command" THEN "names" ELSE "blank"
    /\ IF failed THEN UNCHANGED <<confirmed, damaged>>
                 ELSE confirmed' = mem /\ damaged' = FALSE
    /\ IF goal = "command" THEN pc' = "cli" /\ UNCHANGED commandFrame ELSE TurnedOff
    /\ UNCHANGED <<world, disk>>

(* ... and written from files_, which knows the writes of this session.     *)
ListWrite ==
    /\ pc = "relist"
    /\ list' = IF written THEN "names" ELSE "blank"
    /\ IF failed THEN UNCHANGED <<confirmed, damaged>>
                 ELSE confirmed' = mem /\ damaged' = FALSE
    /\ IF goal = "command" THEN pc' = "cli" /\ UNCHANGED commandFrame ELSE TurnedOff
    /\ UNCHANGED <<world, disk>>

(* The program is killed, or an error it meets aborts it.                   *)
Crash ==
    /\ pc # "off"
    /\ TurnedOff
    /\ damaged' = (damaged \/ pc \in {"opened", "relist"})
    /\ UNCHANGED <<saveFrame, diskVars>>

Next ==
    \/ \E s \in Sources : SourceChanges(s)
    \/ Start
    \/ IndexBegin \/ IndexAbandoned \/ IndexDone
    \/ \E f \in Files : IndexFile(f)
    \/ \E h \in Hosts : IndexHost(h)
    \/ \E why \in {"command", "exit"} : AnswerYes(why)
    \/ ExitDeclined \/ ExitClean
    \/ WriteOpen \/ WriteDone \/ WriteFails
    \/ ListOpen \/ ListWrite
    \/ Crash

Spec == Init /\ [][Next]_vars

-----------------------------------------------------------------------------
(* Properties                                                               *)

TypeOK ==
    /\ pc \in {"off", "cli", "index", "write", "opened", "list", "relist"}
    /\ goal \in {"command", "exit", "dtor"}
    /\ world \in Index /\ mem \in Index /\ result \in Index /\ confirmed \in Index
    /\ unsaved \in BOOLEAN /\ written \in BOOLEAN
    /\ disk \in [st : {"absent", "torn", "whole"}, idx : Index]
    /\ list \in {"absent", "blank", "names"}
    /\ damaged \in BOOLEAN /\ failed \in BOOLEAN

(* What a completed save was answered yes for is in the index of every      *)
(* later session, over any number of restarts, declined exits and crashes,  *)
(* unless a write failed or the program ended inside one of the two         *)
(* truncated files.                                                         *)
NothingConfirmedLost ==
    pc # "off" /\ ~damaged => \A s \in Sources : mem[s] >= confirmed[s]

(* At the prompt the program answers from what the next start would read,   *)
(* or unsaved_ says that it does not; only a failed write breaks this (the  *)
(* format is erased from unsaved_ whatever __write__ returned).             *)
UnsavedOffered == pc = "cli" => mem = Kept \/ unsaved \/ failed

(* Data and Mashroom implement IndexStore: whatever fails or is cut short,  *)
(* a start reads nothing or exactly the index that was last written whole.  *)
Abstract == INSTANCE IndexStore WITH view <- mem, saved <- disk.idx, kept <- Kept
ImplementsStore == Abstract!Spec
=============================================================================
