----------------------------- MODULE Extraction -----------------------------
(***************************************************************************)
(* Extract::execute: the messages of the input files are read, one after   *)
(* the other, into a time series per parameter, and the series are written *)
(* to files of one Period each.  Nobody gives an Extract a stop token, so  *)
(* its stop_requested() is false throughout.                               *)
(*                                                                         *)
(* The files are named by the command ("paths") and scanned, or found in   *)
(* the index ("matched") and read at the positions it holds, which may be  *)
(* older than the file.  Series are sorted by time alone, so a series is   *)
(* the number of values it has for each time.  A message is the parameter  *)
(* and time of its value; "other" stands for a message the filters refuse, *)
(* "zero" for one whose length field is 0.                                 *)
(***************************************************************************)
EXTENDS Naturals, Sequences, FiniteSetsExt

CONSTANTS
    Params,      \* parameters asked for
    MaxTime,     \* bound: times are 0..MaxTime
    Period,      \* t_off_: time covered by one file
    Unit,        \* smallest unit of Period, to which the name of a file is rounded
    Inputs       \* the input files a command may have: a sequence of messages each

Times    == 0..MaxTime
Columns  == Params \cup {"other"}
Messages == [param : Params, time : Times] \cup {[param |-> "other", time |-> 0]}
Zero     == [param |-> "zero", time |-> 0]
Series   == [Columns -> [Times -> Nat]]
NoValues == [c \in Columns |-> [t \in Times |-> 0]]

(* A Period of 0 is accepted by the command and by a request.               *)
ASSUME ExtractionAssumption ==
    /\ MaxTime \in Nat
    /\ Period \in Nat /\ Unit \in Nat \ {0} /\ Period % Unit = 0
    /\ Inputs \subseteq Seq(Seq(Messages \cup {Zero}))

VARIABLES
    mode,      \* "paths" or "matched"
    format,    \* "txt" or "windows" (json and bin are written alike)
    relative,  \* out_path_ is relative
    files,     \* the messages of each input file
    chosen,    \* matched mode: the positions of each file that the index holds
    pc,
    fi, mi,    \* current file and message
    data,      \* result: ExtractedData
    rest,      \* txt: values the rows have not reached
    row,       \* txt: rows written
    limit,     \* txt: file_end_time; windows: lower_bound_time
    current,   \* txt: name of the open file
    out,       \* the values in the file of each name
    skipped,   \* history: files that could not be opened
    ioerror    \* history: an output file could not be written

command == <<mode, format, relative, files>>
reading == <<fi, mi, data, chosen, skipped>>
writing == <<rest, row, limit, current, out, ioerror>>
vars == <<command, pc, reading, writing>>

File == files[fi]

Init ==
    /\ mode \in {"paths", "matched"} /\ format \in {"txt", "windows"}
    /\ relative \in BOOLEAN /\ (format = "windows" => ~relative)
    /\ files \in Inputs
    /\ chosen = [f \in 1..Len(files) |-> {}] /\ skipped = {}
    /\ pc = "file" /\ fi = 1 /\ mi = 1 /\ data = NoValues
    /\ rest = NoValues /\ row = 0 /\ limit = 0 /\ current = 0
    /\ out = [n \in Times |-> NoValues] /\ ioerror = FALSE

-----------------------------------------------------------------------------
(* Reading                                                                  *)

readFrame == <<command, writing>>
NextFile  == pc' = "file" /\ fi' = fi + 1 /\ UNCHANGED mi

(* No such file, not a regular file in the index, or open fails.            *)
FileSkipped ==
    /\ pc = "file" /\ fi <= Len(files)
    /\ skipped' = skipped \cup {fi}
    /\ NextFile
    /\ UNCHANGED <<readFrame, data, chosen>>

(* An empty file, or a directory among the paths: mmap fails, but what is   *)
(* tested for is a null pointer, and a message is read at MAP_FAILED.       *)
OpenCrashes ==
    /\ pc = "file" /\ fi <= Len(files)
    /\ pc' = "terminated"
    /\ UNCHANGED <<readFrame, reading>>

OpenFile ==
    /\ pc = "file" /\ fi <= Len(files)
    /\ pc' = "message" /\ mi' = 1
    /\ UNCHANGED <<readFrame, fi, data, chosen, skipped>>

(* get_result(ref_data)[parameter].emplace_back(date, value).               *)
Append1(m) == data' = [data EXCEPT ![m.param][m.time] = @ + 1]

AtMessage == pc = "message" /\ mi <= Len(File)

(* Mutant: the message is added before the filters.                         *)
ScanMessageUnfiltered ==
    /\ AtMessage /\ mode = "paths" /\ File[mi] # Zero
    /\ Append1(File[mi])
    /\ mi' = mi + 1
    /\ UNCHANGED <<readFrame, pc, fi, chosen, skipped>>

(* Mutant: a refused message is looked at again.                            *)
ScanMessageStays ==
    /\ AtMessage /\ mode = "paths" /\ File[mi] # Zero
    /\ IF File[mi].param \in Params THEN Append1(File[mi]) /\ mi' = mi + 1
                                    ELSE UNCHANGED <<data, mi>>
    /\ UNCHANGED <<readFrame, pc, fi, chosen, skipped>>

(* paths: refused messages are passed over; next_message moves on by the    *)
(* length of the message.  A length of 0 keeps it where it is and the loop  *)
(* never leaves the message: no step.  (What those iterations add to the    *)
(* series, from a message that has been freed, is left out.)                *)
ScanMessage ==
    /\ AtMessage /\ mode = "paths" /\ File[mi] # Zero
    /\ IF File[mi].param \in Params THEN Append1(File[mi]) ELSE UNCHANGED data
    /\ mi' = mi + 1
    /\ UNCHANGED <<readFrame, pc, fi, chosen, skipped>>

(* matched: the positions are sorted, a message is at one of them or not,   *)
(* and no filter is applied.  (A position past the end of the file is       *)
(* passed over.)  With length 0 the message that is read has been freed:    *)
(* any value, or none, is added.                                            *)
ReadPosition ==
    /\ AtMessage /\ mode = "matched"
    /\ chosen' = [chosen EXCEPT ![fi] = @ \cup {mi}]
    /\ IF File[mi] = Zero
       THEN UNCHANGED data \/ \E m \in Messages : Append1(m)
       ELSE Append1(File[mi])
    /\ mi' = mi + 1
    /\ UNCHANGED <<readFrame, pc, fi, skipped>>

PassPosition ==
    /\ AtMessage /\ mode = "matched"
    /\ mi' = mi + 1
    /\ UNCHANGED <<readFrame, pc, fi, data, chosen, skipped>>

FileEnd ==
    /\ pc = "message" /\ mi > Len(File)
    /\ NextFile
    /\ UNCHANGED <<readFrame, data, chosen, skipped>>

-----------------------------------------------------------------------------
(* Writing                                                                  *)

TimesOf(s, c) == {t \in Times : s[c][t] > 0}
AllTimes(s)   == UNION {TimesOf(s, c) : c \in Columns}
Fronts        == {Min(TimesOf(data, c)) : c \in {k \in Columns : TimesOf(data, k) # {}}}

(* A series as the values it has: for each time the first, the second, ...  *)
Values(s, c) == UNION {{t} \X (1..s[c][t]) : t \in Times}
Size(c)      == Cardinality(Values(data, c))

(* round_by_time_period: the file a time belongs to, by its name.           *)
FileName(t) == t - (t % Unit)

writeFrame == <<command, reading>>

NothingFound ==
    /\ pc = "file" /\ fi > Len(files) /\ AllTimes(data) = {}
    /\ pc' = "done"
    /\ UNCHANGED <<writeFrame, writing>>

BeginWriting ==
    /\ pc = "file" /\ fi > Len(files) /\ AllTimes(data) # {}
    /\ pc' = format
    /\ rest' = data /\ row' = 0
    /\ limit' = Min(AllTimes(data)) + (IF format = "txt" THEN Period ELSE 0)
    /\ UNCHANGED <<writeFrame, current, out, ioerror>>

MaxLength == Max({Size(c) : c \in Columns})
RowTime   == Min(AllTimes(rest))
NewFile   == row = 0 \/ RowTime >= limit

(* Mutant: file_end_time keeps the end of the first file.                   *)
TxtRowSameEnd ==
    /\ pc = "txt" /\ row < MaxLength
    /\ NewFile /\ row > 0 => ~relative
    /\ LET t    == RowTime
           cols == {c \in Columns : rest[c][t] > 0}
           name == IF NewFile THEN FileName(t) ELSE current
           old  == IF NewFile THEN NoValues ELSE out[name]
       IN  /\ current' = name
           /\ out' = [out EXCEPT ![name] =
                        [c \in Columns |-> IF c \in cols THEN [old[c] EXCEPT ![t] = @ + 1]
                                                         ELSE old[c]]]
           /\ rest' = [c \in Columns |-> IF c \in cols THEN [rest[c] EXCEPT ![t] = @ - 1]
                                                       ELSE rest[c]]
    /\ row' = row + 1
    /\ UNCHANGED <<writeFrame, pc, limit, ioerror>>

(* One row for each value of the longest column: the earliest time left,    *)
(* with a value of every column that has one for it.                        *)
TxtRow ==
    /\ pc = "txt" /\ row < MaxLength
    /\ NewFile /\ row > 0 => ~relative
    /\ LET t    == RowTime
           cols == {c \in Columns : rest[c][t] > 0}
           name == IF NewFile THEN FileName(t) ELSE current
           old  == IF NewFile THEN NoValues ELSE out[name]
       IN  /\ current' = name
           /\ limit' = IF NewFile THEN t + Period ELSE limit
           /\ out' = [out EXCEPT ![name] =
                        [c \in Columns |-> IF c \in cols THEN [old[c] EXCEPT ![t] = @ + 1]
                                                         ELSE old[c]]]
           /\ rest' = [c \in Columns |-> IF c \in cols THEN [rest[c] EXCEPT ![t] = @ - 1]
                                                       ELSE rest[c]]
    /\ row' = row + 1
    /\ UNCHANGED <<writeFrame, pc, ioerror>>

(* The name of a second file is appended to the name of the first: for a    *)
(* relative path create_directories throws out of a noexcept function.      *)
TxtTerminates ==
    /\ pc = "txt" /\ row < MaxLength
    /\ NewFile /\ row > 0 /\ relative
    /\ pc' = "terminated"
    /\ UNCHANGED <<writeFrame, writing>>

(* Mutant: the lower end of a window is left out.                           *)
WriteWindowLate ==
    /\ pc = "windows" /\ limit <= Max(Fronts)
    /\ LET in(t) == limit < t /\ t <= limit + Period
       IN  out' = [out EXCEPT ![FileName(limit)] =
                     [c \in Columns |-> [t \in Times |-> IF in(t) THEN data[c][t] ELSE 0]]]
    /\ limit' = limit + Period
    /\ UNCHANGED <<writeFrame, pc, rest, row, current, ioerror>>

(* lower_bound(lower) to upper_bound(upper): both ends are included.  The   *)
(* windows end with the latest FIRST time of a column, and do not end at    *)
(* all if the Period is 0.                                                  *)
WriteWindow ==
    /\ pc = "windows" /\ limit <= Max(Fronts)
    /\ LET in(t) == limit <= t /\ t <= limit + Period
       IN  out' = [out EXCEPT ![FileName(limit)] =
                     [c \in Columns |-> [t \in Times |-> IF in(t) THEN data[c][t] ELSE 0]]]
    /\ limit' = limit + Period
    /\ UNCHANGED <<writeFrame, pc, rest, row, current, ioerror>>

(* A stream or serialization error: the file is removed and the loop goes on. *)
WindowLost ==
    /\ pc = "windows" /\ limit <= Max(Fronts)
    /\ out' = [out EXCEPT ![FileName(limit)] = NoValues]
    /\ limit' = limit + Period /\ ioerror' = TRUE
    /\ UNCHANGED <<writeFrame, pc, rest, row, current>>

(* A file cannot be opened: the exception ends in __write_file__.           *)
OpenThrows ==
    /\ \/ pc = "windows" /\ limit <= Max(Fronts)
       \/ pc = "txt" /\ row < MaxLength /\ NewFile
    /\ pc' = "done" /\ ioerror' = TRUE
    /\ UNCHANGED <<writeFrame, rest, row, limit, current, out>>

(* execute returns NONE whatever __write_file__ returned.                   *)
Written ==
    /\ \/ pc = "txt" /\ row >= MaxLength
       \/ pc = "windows" /\ limit > Max(Fronts)
    /\ pc' = "done"
    /\ UNCHANGED <<writeFrame, writing>>

Finished == pc \in {"done", "terminated"}

Next ==
    \/ FileSkipped \/ OpenCrashes \/ OpenFile \/ ScanMessage
    \/ ReadPosition \/ PassPosition \/ FileEnd
    \/ NothingFound \/ BeginWriting
    \/ TxtRow \/ TxtTerminates \/ WriteWindow \/ WindowLost \/ OpenThrows \/ Written

(* execute runs on the thread of the command or of a request, with nothing  *)
(* to wait for.                                                             *)
Spec == Init /\ [][Next]_vars /\ WF_vars(Next)

-----------------------------------------------------------------------------
(* Properties                                                               *)

TypeOK ==
    /\ mode \in {"paths", "matched"} /\ format \in {"txt", "windows"} /\ relative \in BOOLEAN
    /\ pc \in {"file", "message", "txt", "windows", "done", "terminated"}
    /\ files \in Inputs /\ chosen \in [1..Len(files) -> SUBSET Nat]
    /\ fi \in 1..Len(files) + 1 /\ mi \in Nat \ {0} /\ skipped \subseteq 1..Len(files)
    /\ data \in Series /\ rest \in Series /\ out \in [Times -> Series]
    /\ row \in Nat /\ limit \in 0..MaxTime + Period /\ current \in Times
    /\ ioerror \in BOOLEAN

NoZeroLength == \A f \in 1..Len(files) : \A i \in 1..Len(files[f]) : files[f][i] # Zero

(* The messages execute is to read from a file.                             *)
Asked(f) ==
    {i \in 1..Len(files[f]) :
        IF mode = "paths" THEN files[f][i].param \in Params ELSE i \in chosen[f]}

(* Where the values of parameter c at time t are: file and message.         *)
Sought(c, t) ==
    {p \in UNION {{f} \X Asked(f) : f \in (1..Len(files)) \ skipped} :
        files[p[1]][p[2]] = [param |-> c, time |-> t]}

(* When execute has returned, each message asked for was added to the       *)
(* series once, and no other: the filters, the moves of next_message and    *)
(* positions past the end of a file lose and repeat nothing.                *)
ReadOnce ==
    pc = "done" /\ NoZeroLength =>
        \A c \in Columns, t \in Times : data[c][t] = Cardinality(Sought(c, t))

(* A column that has for each time as many values as any other.             *)
Longest(k) == \A j \in Columns, u \in Times : data[k][u] >= data[j][u]

(* What a txt export holds when nothing fails.  The values of one time are  *)
(* in one file, none of them twice, and a file covers less than a Period:   *)
(* no file is truncated by a later one.  All values are there if one column *)
(* is Longest; rows are counted by the column with most values, so columns  *)
(* that are shifted against each other are cut.                             *)
RowsExported ==
    pc = "done" /\ format = "txt" /\ ~ioerror /\ Period > 0 =>
        /\ \A c \in Columns : \A t \in TimesOf(data, c) : \E n \in Times :
            /\ \A k \in Times \ {n} : out[k][c][t] = 0
            /\ out[n][c][t] <= data[c][t]
            /\ (\E k \in Columns : Longest(k)) => out[n][c][t] = data[c][t]
        /\ \A n \in Times : \A t, u \in AllTimes(out[n]) : t - u < Period

(* The beginning of the window a time lies in.                              *)
Own(t) == t - ((t - Min(AllTimes(data))) % Period)

(* What a json or bin export holds when nothing fails: a file has all the   *)
(* values of a time or none, and covers one window; up to the latest first  *)
(* time of a column every value is in the file of its window.  So the files *)
(* do not truncate each other, and none of those values is lost.            *)
WindowsExported ==
    pc = "done" /\ format = "windows" /\ ~ioerror /\ Period > 0 =>
        /\ \A c \in Columns : \A t \in TimesOf(data, c) :
            /\ \A n \in Times : out[n][c][t] \in {0, data[c][t]}
            /\ t <= Max(Fronts) => out[FileName(Own(t))][c][t] = data[c][t]
        /\ \A n \in Times : \A t, u \in AllTimes(out[n]) : t - u <= Period

(* Extraction ends, unless a scanned file has a message of length 0 or      *)
(* windows have the length 0.                                               *)
ExtractionEnds == NoZeroLength /\ (format = "txt" \/ Period > 0) ~> Finished
=============================================================================
