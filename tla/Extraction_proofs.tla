-------------------------- MODULE Extraction_proofs --------------------------
(***************************************************************************)
(* Proofs about Extraction, for any input files, parameters, times and     *)
(* period.  With a period of 0 only what concerns reading and the number   *)
(* of rows is left of the invariant.                                       *)
(***************************************************************************)
EXTENDS Extraction, FiniteSetTheorems, TLAPS

(* Reading is past a message.                                               *)
Passed(p) == p[1] < fi \/ (p[1] = fi /\ pc = "message" /\ p[2] < mi)

(* Where reading is; positions are taken, and files skipped, behind it.     *)
PlaceInv ==
    /\ pc = "message" => fi <= Len(files) /\ mi <= Len(File) + 1
    /\ pc \notin {"file", "message", "terminated"} => fi = Len(files) + 1
    /\ \A f \in skipped : f < fi
    /\ \A f \in 1..Len(files) : \A i \in chosen[f] : Passed(<<f, i>>)

(* Message i of file f is asked for, and reading is past it.                *)
Reads(f, i) == f \in 1..Len(files) /\ f \notin skipped /\ i \in Asked(f) /\ Passed(<<f, i>>)

(* The messages read so far that hold a value of parameter c at time t.     *)
Got(c, t) ==
    {p \in Nat \X Nat :
        Reads(p[1], p[2]) /\ files[p[1]][p[2]] = [param |-> c, time |-> t]}

CountInv ==
    NoZeroLength => \A c \in Columns, t \in Times :
                        /\ IsFiniteSet(Got(c, t))
                        /\ data[c][t] = Cardinality(Got(c, t))

(* A series has finitely many values, and no column more than others        *)
(* without end: there is a longest one.                                     *)
SizeInv ==
    /\ \A c \in Columns : IsFiniteSet(Values(data, c))
    /\ \E b \in Nat : \A c \in Columns : Size(c) <= b

UnwrittenInv == pc \in {"file", "message"} => out = [n \in Times |-> NoValues]

FormatInv ==
    /\ pc \in {"txt", "windows"} => format = pc /\ AllTimes(data) # {}

(* A value of time t of column c is in the file n.                          *)
Has(n, c, t) == out[n][c][t] > 0

(* The rows written so far.  The open file begins at limit - Period; the    *)
(* values left are not earlier, nor earlier than any that was written.      *)
RowsInv ==
    pc = "txt" /\ Period > 0 =>
        /\ \A c \in Columns, t \in Times : \E n \in Times :
            /\ out[n][c][t] + rest[c][t] = data[c][t]
            /\ \A k \in Times \ {n} : out[k][c][t] = 0
        /\ row = 0 => \A n \in Times, c \in Columns, t \in Times : ~Has(n, c, t)
        /\ row > 0 => limit >= Period /\ current = FileName(limit - Period)
        /\ \A n \in Times, c \in Columns, t \in Times : Has(n, c, t) =>
            /\ \A d \in Columns, u \in Times : rest[d][u] > 0 => t <= u
            /\ n <= current /\ t < limit
            /\ IF n = current THEN limit <= t + Period ELSE t + Period < limit
            /\ \A d \in Columns, u \in Times : Has(n, d, u) => t - u < Period
        /\ row > 0 => \A d \in Columns, u \in Times : rest[d][u] > 0 => limit <= u + Period

(* A row takes at most one value of a column, and one of a longest column.  *)
LeftInv ==
    pc = "txt" => \A c \in Columns :
        /\ IsFiniteSet(Values(rest, c))
        /\ Cardinality(Values(rest, c)) + row >= Size(c)
        /\ Longest(c) =>
            /\ Cardinality(Values(rest, c)) + row = Size(c)
            /\ \A j \in Columns, u \in Times : rest[c][u] >= rest[j][u]

(* w is the beginning of a window.                                          *)
First == Min(AllTimes(data))
Begins(w) == First <= w /\ (w - First) % Period = 0

(* The windows before limit are written, each to a file of its own.         *)
WindowsInv ==
    pc = "windows" /\ Period > 0 =>
        /\ Begins(limit) /\ limit <= Max(Fronts) + Period
        /\ ~ioerror => \A n \in Times, c \in Columns, t \in Times :
            out[n][c][t] =
                IF \E w \in Times : /\ Begins(w) /\ w < limit /\ n = FileName(w)
                                    /\ w <= t /\ t <= w + Period
                THEN data[c][t] ELSE 0

IInv ==
    /\ TypeOK /\ PlaceInv /\ CountInv /\ SizeInv /\ UnwrittenInv /\ FormatInv
    /\ RowsInv /\ LeftInv /\ WindowsInv
    /\ ReadOnce /\ RowsExported /\ WindowsExported

-----------------------------------------------------------------------------
(* Facts about numbers                                                      *)

LEMMA Bounds ==
    /\ MaxTime \in Nat /\ Period \in Nat /\ Unit \in Nat /\ Unit > 0
    /\ Period > 0 => Unit <= Period
    /\ Times \subseteq Nat /\ \A t \in Times : t <= MaxTime
<1>1. MaxTime \in Nat /\ Period \in Nat /\ Unit \in Nat /\ Unit > 0
    BY ExtractionAssumption
<1>2. Period > 0 => Unit <= Period
    <2>1. Period < Unit => Period % Unit = Period
        BY <1>1
    <2>2. QED
        BY <1>1, <2>1, ExtractionAssumption
<1>3. QED
    BY <1>1, <1>2 DEF Times

LEMMA Division ==
    ASSUME NEW a \in Nat, NEW p \in Nat, p > 0
    PROVE  /\ a \div p \in Nat /\ a % p \in 0..(p - 1)
           /\ a = p * (a \div p) + (a % p)
OBVIOUS

LEMMA Monotone ==
    ASSUME NEW p \in Nat, NEW a \in Nat, NEW b \in Nat, a <= b
    PROVE  p * a <= p * b
OBVIOUS

LEMMA Product ==
    ASSUME NEW p \in Nat, p > 0, NEW k \in Nat
    PROVE  p * k \in Nat /\ (p * k) % p = 0
OBVIOUS

(* Two multiples are one of them apart, and what lies between has the       *)
(* remainder that is missing.                                               *)
LEMMA Multiples ==
    ASSUME NEW p \in Nat, p > 0, NEW a \in Nat, NEW b \in Nat, a % p = 0
    PROVE  /\ b % p = 0 /\ a < b => a + p <= b
           /\ (a + p) % p = 0
           /\ a <= b /\ b < a + p => b % p = b - a
<1>1. a = p * (a \div p) /\ a \div p \in Nat
    BY Division
<1>2. b = p * (b \div p) + (b % p) /\ b \div p \in Nat /\ b % p \in 0..(p - 1)
    BY Division
<1> DEFINE q == a \div p
           r == b \div p
<1> HIDE DEF q, r
<1>3. ASSUME b % p = 0, a < b PROVE a + p <= b
    <2>1. CASE r <= q
        <3>1. p * r <= p * q
            BY <1>1, <1>2, <2>1, Monotone DEF q, r
        <3>2. QED
            BY <1>1, <1>2, <1>3, <3>1 DEF q, r
    <2>2. CASE q + 1 <= r
        <3>1. p * (q + 1) <= p * r
            BY <1>1, <1>2, <2>2, Monotone DEF q, r
        <3>2. p * (q + 1) = p * q + p
            BY <1>1 DEF q
        <3>3. QED
            BY <1>1, <1>2, <1>3, <3>1, <3>2 DEF q, r
    <2>3. QED
        BY <2>1, <2>2, <1>1, <1>2 DEF q, r
<1>4. ASSUME a <= b, b < a + p PROVE r = q
    <2>1. CASE r + 1 <= q
        <3>1. p * (r + 1) <= p * q
            BY <1>1, <1>2, <2>1, Monotone DEF q, r
        <3>2. p * (r + 1) = p * r + p
            BY <1>2 DEF r
        <3>3. QED
            BY <1>1, <1>2, <1>4, <3>1, <3>2 DEF q, r
    <2>2. CASE q + 1 <= r
        <3>1. p * (q + 1) <= p * r
            BY <1>1, <1>2, <2>2, Monotone DEF q, r
        <3>2. p * (q + 1) = p * q + p
            BY <1>1 DEF q
        <3>3. QED
            BY <1>1, <1>2, <1>4, <3>1, <3>2 DEF q, r
    <2>3. QED
        BY <2>1, <2>2, <1>1, <1>2 DEF q, r
<1>5. (a + p) % p = 0
    <2>1. p * (q + 1) = p * q + p /\ q + 1 \in Nat
        BY <1>1 DEF q
    <2>2. a + p = p * (q + 1)
        BY <1>1, <2>1 DEF q
    <2>3. (p * (q + 1)) % p = 0
        BY <2>1, Product
    <2>4. QED
        BY <2>2, <2>3
<1>6. QED
    BY <1>3, <1>4, <1>5, <1>1, <1>2 DEF q, r

(* round_by_time_period gives a time that is at most a Unit earlier.        *)
LEMMA Names ==
    ASSUME NEW t \in Times
    PROVE  FileName(t) \in Times /\ FileName(t) <= t /\ t < FileName(t) + Unit
<1>1. t % Unit \in 0..(Unit - 1) /\ t % Unit <= t
    <2>1. t = Unit * (t \div Unit) + (t % Unit) /\ t \div Unit \in Nat /\ t % Unit \in 0..(Unit - 1)
        BY Bounds, Division
    <2>2. Unit * (t \div Unit) \in Nat
        BY <2>1, Bounds
    <2>3. QED
        BY <2>1, <2>2, Bounds
<1>2. QED
    BY <1>1, Bounds DEF FileName, Times

(* Sets of natural numbers have a least element and, if they have a bound,  *)
(* a greatest one.                                                          *)
LEMMA Least ==
    ASSUME NEW S, S \subseteq Nat, S # {}
    PROVE  Min(S) \in S /\ \A x \in S : Min(S) <= x
<1> DEFINE Less == {ss \in Nat \X Nat : ss[1] < ss[2]}
<1>1. IsWellFoundedOn(Less, Nat)
    BY NatLessThanWellFounded DEF OpToRel
<1> HIDE DEF Less
<1>2. PICK x \in S : \A y \in S : <<y, x>> \notin Less
    BY <1>1, WFMin
<1>3. ASSUME NEW y \in S PROVE x <= y
    <2>1. x \in Nat /\ y \in Nat /\ ~(y < x)
        BY <1>2 DEF Less
    <2>2. QED
        BY <2>1
<1>4. QED
    BY <1>3 DEF Min

LEMMA Greatest ==
    ASSUME NEW S, S \subseteq Nat, S # {}, NEW b \in Nat, \A x \in S : x <= b
    PROVE  Max(S) \in S /\ \A x \in S : x <= Max(S)
<1> DEFINE D == {b - x : x \in S}
<1>1. D \subseteq Nat /\ D # {}
    <2>1. \A x \in S : b - x \in Nat
        <3>1. \A x \in S : x \in Nat /\ x <= b
            OBVIOUS
        <3>2. QED
            BY <3>1
    <2>2. QED
        BY <2>1
<1>2. Min(D) \in D /\ \A d \in D : Min(D) <= d
    BY <1>1, Least
<1>3. PICK x \in S : Min(D) = b - x
    BY <1>2
<1>4. ASSUME NEW y \in S PROVE x >= y
    <2>1. b - y \in D /\ x \in Nat /\ y \in Nat
        OBVIOUS
    <2>2. b - x <= b - y
        BY <1>2, <1>3, <2>1
    <2>3. QED
        BY <2>1, <2>2
<1>5. QED
    BY <1>4 DEF Max

-----------------------------------------------------------------------------
(* Files and series                                                         *)

LEMMA FileFacts ==
    ASSUME TypeOK
    PROVE  /\ Len(files) \in Nat
           /\ \A f \in 1..Len(files) :
                /\ Len(files[f]) \in Nat
                /\ \A i \in 1..Len(files[f]) : files[f][i] \in Messages \cup {Zero}
<1>1. files \in Seq(Seq(Messages \cup {Zero}))
    BY ExtractionAssumption DEF TypeOK
<1>2. QED
    BY <1>1

LEMMA MessageFacts ==
    ASSUME NEW x \in Messages
    PROVE  x.param \in Columns /\ x.time \in Times /\ x = [param |-> x.param, time |-> x.time]
BY Bounds DEF Messages, Columns, Times

LEMMA InValues ==
    ASSUME NEW s \in Series, NEW c \in Columns, NEW v
    PROVE  v \in Values(s, c) <=> \E t \in Times : \E i \in 1..s[c][t] : v = <<t, i>>
BY DEF Values

(* A column with one value more.                                            *)
LEMMA OneMore ==
    ASSUME NEW s \in Series, NEW r \in Series, NEW c \in Columns, NEW t \in Times,
           r[c] = [s[c] EXCEPT ![t] = @ + 1]
    PROVE  /\ IsFiniteSet(Values(s, c)) <=> IsFiniteSet(Values(r, c))
           /\ IsFiniteSet(Values(s, c)) =>
                Cardinality(Values(r, c)) = Cardinality(Values(s, c)) + 1
<1> DEFINE v == <<t, s[c][t] + 1>>
<1>1. s[c] \in [Times -> Nat] /\ r[c][t] = s[c][t] + 1 /\ \A u \in Times \ {t} : r[c][u] = s[c][u]
    BY DEF Series
<1>2. v \notin Values(s, c)
    BY <1>1, InValues
<1>3. Values(r, c) = Values(s, c) \cup {v}
    <2>1. ASSUME NEW x PROVE x \in Values(r, c) <=> x \in Values(s, c) \cup {v}
        <3>1. x \in Values(r, c) <=> \E u \in Times : \E i \in 1..r[c][u] : x = <<u, i>>
            BY ONLY InValues, r \in Series, c \in Columns
        <3>2. x \in Values(s, c) <=> \E u \in Times : \E i \in 1..s[c][u] : x = <<u, i>>
            BY InValues
        <3>3. ASSUME x \in Values(r, c) PROVE x \in Values(s, c) \cup {v}
            BY <1>1, <3>1, <3>2, <3>3
        <3>4. ASSUME x \in Values(s, c) PROVE x \in Values(r, c)
            BY <1>1, <3>1, <3>2, <3>4
        <3>5. v \in Values(r, c)
            <4>1. s[c][t] + 1 \in 1..r[c][t]
                BY <1>1
            <4>2. QED
                BY <4>1, InValues
        <3>6. QED
            BY <3>3, <3>4, <3>5
    <2>2. QED
        BY <2>1
<1> HIDE DEF v
<1>4. IsFiniteSet(Values(s, c)) =>
        /\ IsFiniteSet(Values(r, c))
        /\ Cardinality(Values(r, c)) = Cardinality(Values(s, c)) + 1
    BY <1>2, <1>3, FS_AddElement
<1>5. IsFiniteSet(Values(r, c)) => IsFiniteSet(Values(s, c))
    BY <1>3, FS_Subset
<1>6. QED
    BY <1>4, <1>5

(* emplace_back keeps SizeInv.                                              *)
LEMMA AppendSize ==
    ASSUME TypeOK, SizeInv, NEW x \in Messages, Append1(x)
    PROVE  SizeInv' /\ data' \in Series
<1> DEFINE c == x.param
           t == x.time
<1>1. c \in Columns /\ t \in Times /\ data \in Series
    BY MessageFacts DEF TypeOK
<1>2. /\ data' \in Series
      /\ data'[c] = [data[c] EXCEPT ![t] = @ + 1]
      /\ \A d \in Columns \ {c} : data'[d] = data[d]
    BY <1>1 DEF Append1, Series
<1> HIDE DEF c, t
<1>3. ASSUME NEW d \in Columns
      PROVE  IsFiniteSet(Values(data', d)) /\ Cardinality(Values(data', d)) <= Size(d) + 1
             /\ Size(d) \in Nat
    <2>1. IsFiniteSet(Values(data, d)) /\ Size(d) \in Nat
        BY FS_CardinalityType DEF SizeInv, Size
    <2>2. CASE d = c
        BY <1>1, <1>2, <2>1, <2>2, OneMore DEF Size
    <2>3. CASE d # c
        <3>1. Values(data', d) = Values(data, d)
            BY <1>2, <2>3 DEF Values
        <3>2. QED
            BY <2>1, <3>1 DEF Size
    <2>4. QED
        BY <2>2, <2>3
<1>4. PICK b \in Nat : \A d \in Columns : Size(d) <= b
    BY DEF SizeInv
<1>5. \A d \in Columns : Cardinality(Values(data', d)) \in Nat
    BY <1>3, FS_CardinalityType
<1>6. \A d \in Columns : Cardinality(Values(data', d)) <= b + 1
    BY <1>3, <1>4, <1>5
<1>7. b + 1 \in Nat
    OBVIOUS
<1>8. QED
    BY <1>2, <1>3, <1>6, <1>7 DEF SizeInv, Size, Values

-----------------------------------------------------------------------------
(* Reading                                                                  *)

(* A step that reads no message asked for.                                  *)
LEMMA SameReads ==
    ASSUME CountInv, UNCHANGED <<files, data>>, \A f, i \in Nat : Reads(f, i)' <=> Reads(f, i)
    PROVE  CountInv'
<1>1. NoZeroLength' <=> NoZeroLength
    BY DEF NoZeroLength
<1>2. ASSUME NEW c, NEW t PROVE Got(c, t)' = Got(c, t)
    <2>1. ASSUME NEW p \in Nat \X Nat PROVE Reads(p[1], p[2])' <=> Reads(p[1], p[2])
        OBVIOUS
    <2>2. QED
        BY <2>1 DEF Got
<1>3. QED
    BY <1>1, <1>2 DEF CountInv

(* A step that reads the message at fi and mi, and adds its value.          *)
LEMMA OneRead ==
    ASSUME TypeOK, CountInv, UNCHANGED files, NEW x \in Messages, Append1(x),
           fi \in 1..Len(files), x = File[mi], ~Reads(fi, mi),
           \A f, i \in Nat : Reads(f, i)' <=> Reads(f, i) \/ (f = fi /\ i = mi)
    PROVE  CountInv'
<1>1. NoZeroLength' <=> NoZeroLength
    BY DEF NoZeroLength
<1> DEFINE q == <<fi, mi>>
<1>2. q \in Nat \X Nat /\ q[1] = fi /\ q[2] = mi
    BY FileFacts DEF TypeOK
<1>3. x.param \in Columns /\ x.time \in Times /\ x = [param |-> x.param, time |-> x.time]
    BY MessageFacts
<1>4. ASSUME NEW p \in Nat \X Nat
      PROVE  Reads(p[1], p[2])' <=> Reads(p[1], p[2]) \/ p = q
    BY <1>2
<1> HIDE DEF q
<1>5. ASSUME NEW c \in Columns, NEW t \in Times, NoZeroLength
      PROVE  IsFiniteSet(Got(c, t)') /\ data'[c][t] = Cardinality(Got(c, t)')
    <2>1. IsFiniteSet(Got(c, t)) /\ data[c][t] = Cardinality(Got(c, t))
        BY <1>5 DEF CountInv
    <2>2. data[c] \in [Times -> Nat] /\ data \in [Columns -> [Times -> Nat]]
        BY DEF TypeOK, Series
    <2>3. CASE c = x.param /\ t = x.time
        <3>1. q \notin Got(c, t)
            BY <1>2 DEF Got
        <3>2. files[q[1]][q[2]] = [param |-> c, time |-> t]
            BY <1>2, <1>3, <2>3 DEF File
        <3>3. Got(c, t)' = Got(c, t) \cup {q}
            BY <1>2, <1>4, <3>2 DEF Got
        <3>4. IsFiniteSet(Got(c, t)') /\ Cardinality(Got(c, t)') = Cardinality(Got(c, t)) + 1
            BY <2>1, <3>1, <3>3, FS_AddElement
        <3>5. data'[c][t] = data[c][t] + 1
            BY <2>2, <2>3 DEF Append1
        <3>6. QED
            BY <2>1, <3>4, <3>5
    <2>4. CASE ~(c = x.param /\ t = x.time)
        <3>1. files[q[1]][q[2]] # [param |-> c, time |-> t]
            <4>1. x # [param |-> c, time |-> t]
                BY <1>3, <2>4
            <4>2. QED
                BY <1>2, <4>1 DEF File
        <3>2. Got(c, t)' = Got(c, t)
            BY <1>2, <1>4, <3>1 DEF Got
        <3>3. data'[c][t] = data[c][t]
            BY <1>3, <2>2, <2>4 DEF Append1
        <3>4. QED
            BY <2>1, <3>2, <3>3
    <2>5. QED
        BY <2>3, <2>4
<1>6. QED
    BY <1>1, <1>5 DEF CountInv

(* When reading is over, the messages read are those sought.                *)
LEMMA AllGot ==
    ASSUME TypeOK, fi = Len(files) + 1, NEW c, NEW t
    PROVE  Got(c, t) = Sought(c, t)
<1>1. ASSUME NEW p \in Got(c, t) PROVE p \in Sought(c, t)
    <2>1. /\ p = <<p[1], p[2]>> /\ p[1] \in (1..Len(files)) \ skipped /\ p[2] \in Asked(p[1])
          /\ files[p[1]][p[2]] = [param |-> c, time |-> t]
        BY DEF Got, Reads
    <2>2. p \in {p[1]} \X Asked(p[1])
        BY <2>1
    <2>3. QED
        BY <2>1, <2>2 DEF Sought
<1>2. ASSUME NEW p \in Sought(c, t) PROVE p \in Got(c, t)
    <2>1. PICK f \in (1..Len(files)) \ skipped : p \in {f} \X Asked(f)
        BY DEF Sought
    <2>2. PICK i \in Asked(f) : p = <<f, i>>
        BY <2>1
    <2>3. p \in Nat \X Nat /\ p[1] = f /\ p[2] = i
        BY <2>1, <2>2, FileFacts DEF Asked
    <2>4. Passed(<<f, i>>)
        BY <2>1, FileFacts DEF Passed
    <2>5. files[f][i] = [param |-> c, time |-> t]
        BY <2>3 DEF Sought
    <2>6. QED
        BY <2>1, <2>2, <2>3, <2>4, <2>5 DEF Got, Reads
<1>3. QED
    BY <1>1, <1>2

(* While reading goes on nothing is said about what is written.             *)
LEMMA StillReading ==
    ASSUME TypeOK', PlaceInv', CountInv', SizeInv', UnwrittenInv', pc' \in {"file", "message"}
    PROVE  IInv'
<1>1. FormatInv' /\ RowsInv' /\ LeftInv' /\ WindowsInv'
    BY DEF FormatInv, RowsInv, LeftInv, WindowsInv
<1>2. ReadOnce' /\ RowsExported' /\ WindowsExported'
    BY DEF ReadOnce, RowsExported, WindowsExported
<1>3. QED
    BY <1>1, <1>2 DEF IInv

LEMMA NoValuesFacts ==
    /\ NoValues \in Series
    /\ \A c \in Columns, t \in Times : NoValues[c][t] = 0
    /\ \A c \in Columns : Values(NoValues, c) = {}
<1>1. NoValues \in Series /\ \A c \in Columns, t \in Times : NoValues[c][t] = 0
    BY DEF NoValues, Series
<1>2. ASSUME NEW c \in Columns PROVE Values(NoValues, c) = {}
    <2>1. \A v : v \notin Values(NoValues, c)
        BY <1>1, InValues
    <2>2. QED
        BY <2>1
<1>3. QED
    BY <1>1, <1>2

LEMMA InitInv == Init => IInv
<1> SUFFICES ASSUME Init PROVE IInv
    OBVIOUS
<1>1. files \in Inputs /\ Len(files) \in Nat
    BY ExtractionAssumption DEF Init
<1>2. TypeOK
    <2>1. chosen \in [1..Len(files) -> SUBSET Nat] /\ skipped \subseteq 1..Len(files)
        BY <1>1 DEF Init
    <2>2. fi \in 1..Len(files) + 1 /\ mi \in Nat \ {0}
        BY <1>1 DEF Init
    <2>3. data \in Series /\ rest \in Series /\ out \in [Times -> Series]
        BY NoValuesFacts DEF Init
    <2>4. row \in Nat /\ limit \in 0..MaxTime + Period /\ current \in Times
        BY Bounds DEF Init, Times
    <2>5. relative \in BOOLEAN /\ ioerror \in BOOLEAN
        BY DEF Init
    <2>6. QED
        BY <1>1, <2>1, <2>2, <2>3, <2>4, <2>5 DEF TypeOK, Init
<1>3. PlaceInv
    BY <1>1 DEF Init, PlaceInv
<1>4. CountInv
    <2>1. ASSUME NEW c \in Columns, NEW t \in Times PROVE Got(c, t) = {}
        <3>1. \A f, i \in Nat : ~Reads(f, i)
            BY <1>1 DEF Init, Reads, Passed
        <3>2. QED
            BY <3>1 DEF Got
    <2>2. QED
        BY <2>1, NoValuesFacts, FS_EmptySet DEF CountInv, Init
<1>5. SizeInv
    <2>1. \A c \in Columns : Values(data, c) = {}
        BY NoValuesFacts DEF Init
    <2>2. \A c \in Columns : IsFiniteSet(Values(data, c)) /\ Size(c) <= 0
        BY <2>1, FS_EmptySet DEF Size
    <2>3. QED
        BY <2>2 DEF SizeInv
<1>6. UnwrittenInv /\ pc = "file"
    BY DEF UnwrittenInv, Init
<1>7. FormatInv /\ RowsInv /\ LeftInv /\ WindowsInv
    BY <1>6 DEF FormatInv, RowsInv, LeftInv, WindowsInv
<1>8. ReadOnce /\ RowsExported /\ WindowsExported
    BY <1>6 DEF ReadOnce, RowsExported, WindowsExported
<1>9. QED
    BY <1>2, <1>3, <1>4, <1>5, <1>6, <1>7, <1>8 DEF IInv

(* A step that leaves the series and the output as they are.                *)
LEMMA SeriesKept ==
    ASSUME SizeInv, UnwrittenInv, pc \in {"file", "message"}, UNCHANGED <<data, out>>
    PROVE  SizeInv' /\ UnwrittenInv'
BY DEF SizeInv, UnwrittenInv, Size, Values

LEMMA FileSkippedInv == IInv /\ FileSkipped => IInv'
<1> SUFFICES ASSUME IInv, FileSkipped PROVE IInv'
    OBVIOUS
<1>1. TypeOK /\ PlaceInv /\ CountInv /\ SizeInv /\ UnwrittenInv
    BY DEF IInv
<1>2. Len(files) \in Nat
    BY <1>1, FileFacts
<1> USE DEF FileSkipped, NextFile, readFrame, command, writing
<1>3. TypeOK'
    BY <1>1, <1>2 DEF TypeOK
<1>4. PlaceInv'
    BY <1>1, <1>2 DEF PlaceInv, Passed, TypeOK
<1>5. ASSUME NEW f \in Nat, NEW i \in Nat PROVE Reads(f, i)' <=> Reads(f, i)
    BY <1>1, <1>2 DEF Reads, Passed, Asked, TypeOK
<1>6. CountInv'
    BY <1>1, <1>5, SameReads
<1>7. SizeInv' /\ UnwrittenInv'
    BY <1>1, SeriesKept
<1>8. QED
    BY <1>3, <1>4, <1>6, <1>7, StillReading

LEMMA OpenCrashesInv == IInv /\ OpenCrashes => IInv'
<1> SUFFICES ASSUME IInv, OpenCrashes PROVE IInv'
    OBVIOUS
<1>1. TypeOK /\ PlaceInv /\ CountInv /\ SizeInv
    BY DEF IInv
<1>2. /\ pc = "file" /\ pc' = "terminated"
      /\ UNCHANGED <<command, reading, writing>>
    BY DEF OpenCrashes, readFrame
<1> USE DEF command, reading, writing
<1>3. TypeOK' /\ PlaceInv' /\ SizeInv'
    BY <1>1, <1>2 DEF TypeOK, PlaceInv, Passed, SizeInv, Size, Values
<1>4. CountInv'
    BY <1>1, <1>2, SameReads DEF Reads, Asked, Passed
<1>5. /\ UnwrittenInv' /\ FormatInv' /\ RowsInv' /\ LeftInv' /\ WindowsInv'
      /\ ReadOnce' /\ RowsExported' /\ WindowsExported'
    BY <1>2 DEF UnwrittenInv, FormatInv, RowsInv, LeftInv, WindowsInv, ReadOnce, RowsExported,
                WindowsExported
<1>6. QED
    BY <1>3, <1>4, <1>5 DEF IInv

LEMMA OpenFileInv == IInv /\ OpenFile => IInv'
<1> SUFFICES ASSUME IInv, OpenFile PROVE IInv'
    OBVIOUS
<1>1. TypeOK /\ PlaceInv /\ CountInv /\ SizeInv /\ UnwrittenInv
    BY DEF IInv
<1>2. Len(files) \in Nat /\ fi \in 1..Len(files) /\ Len(files[fi]) \in Nat
    BY <1>1, FileFacts DEF OpenFile, TypeOK
<1> USE DEF OpenFile, readFrame, command, writing
<1>3. TypeOK'
    BY <1>1, <1>2 DEF TypeOK
<1>4. PlaceInv'
    BY <1>1, <1>2 DEF PlaceInv, Passed, TypeOK, File
<1>5. ASSUME NEW f \in Nat, NEW i \in Nat PROVE Reads(f, i)' <=> Reads(f, i)
    <2>1. Asked(f)' = Asked(f) /\ (i \in Asked(f) => i >= 1)
        BY DEF Asked
    <2>2. QED
        BY <1>1, <1>2, <2>1 DEF Reads, Passed, TypeOK
<1>6. CountInv'
    BY <1>1, <1>5, SameReads
<1>7. SizeInv' /\ UnwrittenInv'
    BY <1>1, SeriesKept
<1>8. QED
    BY <1>3, <1>4, <1>6, <1>7, StillReading

LEMMA FileEndInv == IInv /\ FileEnd => IInv'
<1> SUFFICES ASSUME IInv, FileEnd PROVE IInv'
    OBVIOUS
<1>1. TypeOK /\ PlaceInv /\ CountInv /\ SizeInv /\ UnwrittenInv
    BY DEF IInv
<1>2. Len(files) \in Nat /\ fi \in 1..Len(files) /\ Len(files[fi]) \in Nat
    BY <1>1, FileFacts DEF FileEnd, TypeOK, PlaceInv
<1> USE DEF FileEnd, NextFile, readFrame, command, writing
<1>3. TypeOK'
    BY <1>1, <1>2 DEF TypeOK
<1>4. PlaceInv'
    BY <1>1, <1>2 DEF PlaceInv, Passed, TypeOK
<1>5. ASSUME NEW f \in Nat, NEW i \in Nat PROVE Reads(f, i)' <=> Reads(f, i)
    <2>1. Asked(f)' = Asked(f) /\ (f = fi /\ i \in Asked(f) => i < mi)
        BY <1>1, <1>2 DEF Asked, File, TypeOK
    <2>2. QED
        BY <1>1, <1>2, <2>1 DEF Reads, Passed, TypeOK
<1>6. CountInv'
    BY <1>1, <1>5, SameReads
<1>7. SizeInv' /\ UnwrittenInv'
    BY <1>1, SeriesKept
<1>8. QED
    BY <1>3, <1>4, <1>6, <1>7, StillReading

(* The place of reading when it is at a message.                            *)
LEMMA MessagePlace ==
    ASSUME TypeOK, PlaceInv, AtMessage
    PROVE  /\ Len(files) \in Nat /\ fi \in 1..Len(files) /\ fi \notin skipped
           /\ Len(files[fi]) \in Nat /\ mi \in 1..Len(files[fi])
           /\ File[mi] \in Messages \cup {Zero}
           /\ pc = "message" /\ ~Reads(fi, mi)
<1>1. Len(files) \in Nat /\ fi \in 1..Len(files) /\ fi \notin skipped /\ pc = "message"
    BY FileFacts DEF AtMessage, PlaceInv, TypeOK
<1>2. Len(files[fi]) \in Nat /\ mi \in 1..Len(files[fi])
    BY <1>1, FileFacts DEF AtMessage, File, TypeOK
<1>3. ~Reads(fi, mi)
    BY <1>1, <1>2 DEF Reads, Passed
<1>4. QED
    BY <1>1, <1>2, <1>3, FileFacts DEF File

LEMMA ScanMessageInv == IInv /\ ScanMessage => IInv'
<1> SUFFICES ASSUME IInv, ScanMessage PROVE IInv'
    OBVIOUS
<1>1. TypeOK /\ PlaceInv /\ CountInv /\ SizeInv /\ UnwrittenInv
    BY DEF IInv
<1> DEFINE x == File[mi]
<1>2. /\ Len(files) \in Nat /\ fi \in 1..Len(files) /\ fi \notin skipped
      /\ Len(files[fi]) \in Nat /\ mi \in 1..Len(files[fi])
      /\ x \in Messages /\ pc = "message" /\ ~Reads(fi, mi) /\ mode = "paths"
    BY <1>1, MessagePlace DEF ScanMessage
<1>3. /\ UNCHANGED <<command, writing, pc, fi, chosen, skipped>> /\ mi' = mi + 1
      /\ IF x.param \in Params THEN Append1(x) ELSE UNCHANGED data
    BY DEF ScanMessage, readFrame
<1>4. SizeInv' /\ data' \in Series /\ UnwrittenInv'
    <2>1. CASE x.param \in Params
        BY <1>1, <1>2, <1>3, <2>1, AppendSize DEF UnwrittenInv, writing
    <2>2. CASE x.param \notin Params
        BY <1>1, <1>2, <1>3, <2>2, SeriesKept DEF writing, TypeOK
    <2>3. QED
        BY <2>1, <2>2
<1>5. TypeOK'
    BY <1>1, <1>2, <1>3, <1>4 DEF TypeOK, command, writing
<1>6. PlaceInv'
    <2>1. ASSUME NEW f \in 1..Len(files), NEW i \in chosen[f] PROVE Passed(<<f, i>>)'
        BY <1>1, <1>2, <1>3 DEF PlaceInv, Passed, TypeOK
    <2>2. pc' = "message" => fi' <= Len(files') /\ mi' <= Len(File') + 1
        BY <1>2, <1>3 DEF File, command
    <2>3. QED
        BY <1>1, <1>2, <1>3, <2>1, <2>2 DEF PlaceInv, command
<1>7. ASSUME NEW f \in Nat, NEW i \in Nat
      PROVE  Reads(f, i)' <=> Reads(f, i) \/ (f = fi /\ i = mi /\ x.param \in Params)
    <2>1. Asked(f)' = Asked(f)
        BY <1>3 DEF Asked, command
    <2>2. Passed(<<f, i>>)' <=> Passed(<<f, i>>) \/ (f = fi /\ i = mi)
        BY <1>2, <1>3 DEF Passed
    <2>3. mi \in Asked(fi) <=> x.param \in Params
        BY <1>2 DEF Asked, File
    <2>4. QED
        BY <1>2, <1>3, <2>1, <2>2, <2>3 DEF Reads, command
<1>8. CountInv'
    <2>1. CASE x.param \in Params
        <3>1. \A f, i \in Nat : Reads(f, i)' <=> Reads(f, i) \/ (f = fi /\ i = mi)
            BY <1>7, <2>1
        <3>2. Append1(x) /\ UNCHANGED files
            BY <1>3, <2>1 DEF command
        <3>3. QED
            BY <1>1, <1>2, <3>1, <3>2, OneRead
    <2>2. CASE x.param \notin Params
        BY <1>1, <1>3, <1>7, <2>2, SameReads DEF command
    <2>3. QED
        BY <2>1, <2>2
<1>9. QED
    BY <1>2, <1>3, <1>4, <1>5, <1>6, <1>8, StillReading

LEMMA PassPositionInv == IInv /\ PassPosition => IInv'
<1> SUFFICES ASSUME IInv, PassPosition PROVE IInv'
    OBVIOUS
<1>1. TypeOK /\ PlaceInv /\ CountInv /\ SizeInv /\ UnwrittenInv
    BY DEF IInv
<1>2. /\ Len(files) \in Nat /\ fi \in 1..Len(files)
      /\ Len(files[fi]) \in Nat /\ mi \in 1..Len(files[fi])
      /\ pc = "message" /\ mode = "matched"
    BY <1>1, MessagePlace DEF PassPosition
<1>3. /\ UNCHANGED <<command, writing, pc, fi, data, chosen, skipped>> /\ mi' = mi + 1
    BY DEF PassPosition, readFrame
<1>4. SizeInv' /\ UnwrittenInv'
    BY <1>1, <1>2, <1>3, SeriesKept DEF writing
<1>5. TypeOK'
    BY <1>1, <1>2, <1>3 DEF TypeOK, command, writing
<1>6. PlaceInv'
    BY <1>1, <1>2, <1>3 DEF PlaceInv, Passed, TypeOK, File, command
<1>7. ASSUME NEW f \in Nat, NEW i \in Nat PROVE Reads(f, i)' <=> Reads(f, i)
    <2>1. Asked(f)' = Asked(f)
        BY <1>3 DEF Asked, command
    <2>2. Passed(<<f, i>>)' <=> Passed(<<f, i>>) \/ (f = fi /\ i = mi)
        BY <1>2, <1>3 DEF Passed
    <2>3. mi \notin Asked(fi)
        BY <1>1, <1>2 DEF Asked, PlaceInv, Passed
    <2>4. QED
        BY <1>2, <1>3, <2>1, <2>2, <2>3 DEF Reads, command
<1>8. CountInv'
    BY <1>1, <1>3, <1>7, SameReads DEF command
<1>9. QED
    BY <1>2, <1>3, <1>4, <1>5, <1>6, <1>8, StillReading

LEMMA ReadPositionInv == IInv /\ ReadPosition => IInv'
<1> SUFFICES ASSUME IInv, ReadPosition PROVE IInv'
    OBVIOUS
<1>1. TypeOK /\ PlaceInv /\ CountInv /\ SizeInv /\ UnwrittenInv
    BY DEF IInv
<1> DEFINE x == File[mi]
<1>2. /\ Len(files) \in Nat /\ fi \in 1..Len(files) /\ fi \notin skipped
      /\ Len(files[fi]) \in Nat /\ mi \in 1..Len(files[fi])
      /\ x \in Messages \cup {Zero} /\ pc = "message" /\ ~Reads(fi, mi) /\ mode = "matched"
    BY <1>1, MessagePlace DEF ReadPosition
<1>3. /\ UNCHANGED <<command, writing, pc, fi, skipped>> /\ mi' = mi + 1
      /\ chosen' = [chosen EXCEPT ![fi] = @ \cup {mi}]
      /\ IF x = Zero THEN UNCHANGED data \/ \E m \in Messages : Append1(m) ELSE Append1(x)
    BY DEF ReadPosition, readFrame
<1>4. SizeInv' /\ data' \in Series /\ UnwrittenInv'
    <2>1. ASSUME NEW m \in Messages, Append1(m) PROVE SizeInv' /\ data' \in Series /\ UnwrittenInv'
        BY <1>1, <1>2, <1>3, <2>1, AppendSize DEF UnwrittenInv, writing
    <2>2. ASSUME UNCHANGED data PROVE SizeInv' /\ data' \in Series /\ UnwrittenInv'
        BY <1>1, <1>2, <1>3, <2>2, SeriesKept DEF writing, TypeOK
    <2>3. QED
        BY <1>2, <1>3, <2>1, <2>2
<1>5. chosen \in [1..Len(files) -> SUBSET Nat] /\ chosen' \in [1..Len(files) -> SUBSET Nat]
    BY <1>1, <1>2, <1>3 DEF TypeOK
<1>6. TypeOK'
    BY <1>1, <1>2, <1>3, <1>4, <1>5 DEF TypeOK, command, writing
<1>7. PlaceInv'
    BY <1>1, <1>2, <1>3, <1>5 DEF PlaceInv, Passed, TypeOK, File, command
<1>8. ASSUME NEW f \in Nat, NEW i \in Nat
      PROVE  Reads(f, i)' <=> Reads(f, i) \/ (f = fi /\ i = mi)
    <2>1. f \in 1..Len(files) => (i \in Asked(f)' <=> i \in Asked(f) \/ (f = fi /\ i = mi))
        BY <1>2, <1>3, <1>5 DEF Asked, command
    <2>2. Passed(<<f, i>>)' <=> Passed(<<f, i>>) \/ (f = fi /\ i = mi)
        BY <1>2, <1>3 DEF Passed
    <2>3. QED
        BY <1>2, <1>3, <2>1, <2>2 DEF Reads, command
<1>9. CountInv'
    <2>1. CASE x = Zero
        <3>1. ~NoZeroLength'
            BY <1>2, <1>3, <2>1 DEF NoZeroLength, File, command
        <3>2. QED
            BY <3>1 DEF CountInv
    <2>2. CASE x # Zero
        <3>1. Append1(x) /\ UNCHANGED files /\ x \in Messages
            BY <1>2, <1>3, <2>2 DEF command
        <3>2. QED
            BY <1>1, <1>2, <1>8, <3>1, OneRead
    <2>3. QED
        BY <2>1, <2>2
<1>10. QED
    BY <1>2, <1>3, <1>4, <1>6, <1>7, <1>9, StillReading

-----------------------------------------------------------------------------
(* Writing                                                                  *)

(* The times of a series.                                                   *)
LEMMA TimesFacts ==
    ASSUME NEW s \in Series
    PROVE  /\ AllTimes(s) \subseteq Times
           /\ \A t : t \in AllTimes(s) <=> t \in Times /\ \E c \in Columns : s[c][t] > 0
           /\ AllTimes(s) # {} => Min(AllTimes(s)) \in AllTimes(s) /\
                                  \A t \in AllTimes(s) : Min(AllTimes(s)) <= t
<1>1. \A t : t \in AllTimes(s) <=> t \in Times /\ \E c \in Columns : s[c][t] > 0
    BY DEF AllTimes, TimesOf
<1>2. AllTimes(s) \subseteq Times /\ AllTimes(s) \subseteq Nat
    BY <1>1, Bounds
<1>3. QED
    BY <1>1, <1>2, Least

LEMMA FrontsFacts ==
    ASSUME TypeOK, AllTimes(data) # {}
    PROVE  /\ First \in AllTimes(data) /\ \A t \in AllTimes(data) : First <= t
           /\ First \in Times /\ Max(Fronts) \in Times /\ First <= Max(Fronts)
<1>1. data \in Series
    BY DEF TypeOK
<1>2. First \in AllTimes(data) /\ First \in Times /\ \A t \in AllTimes(data) : First <= t
    BY <1>1, TimesFacts DEF First
<1>3. ASSUME NEW c \in Columns, TimesOf(data, c) # {}
      PROVE  Min(TimesOf(data, c)) \in TimesOf(data, c)
    <2>1. TimesOf(data, c) \subseteq Nat
        BY Bounds DEF TimesOf
    <2>2. QED
        BY <1>3, <2>1, Least
<1>4. Fronts \subseteq AllTimes(data)
    BY <1>3 DEF Fronts, AllTimes
<1>5. Fronts # {}
    BY DEF Fronts, AllTimes
<1>6. Fronts \subseteq Times /\ Fronts \subseteq Nat /\ \A x \in Fronts : x <= MaxTime
    BY <1>1, <1>4, TimesFacts, Bounds
<1>7. Max(Fronts) \in Fronts
    BY <1>5, <1>6, Bounds, Greatest
<1>8. QED
    BY <1>2, <1>4, <1>6, <1>7

LEMMA SameData ==
    ASSUME UNCHANGED data
    PROVE  /\ AllTimes(data)' = AllTimes(data) /\ Fronts' = Fronts /\ First' = First
           /\ MaxLength' = MaxLength
           /\ \A w : Begins(w)' <=> Begins(w)
           /\ \A c : TimesOf(data, c)' = TimesOf(data, c)
           /\ \A c : Size(c)' = Size(c) /\ (Longest(c)' <=> Longest(c))
<1>1. /\ AllTimes(data)' = AllTimes(data) /\ First' = First
      /\ \A c : TimesOf(data, c)' = TimesOf(data, c)
    BY DEF AllTimes, First, TimesOf
<1>2. Fronts' = Fronts
    BY DEF Fronts, TimesOf
<1>3. \A c : Size(c)' = Size(c) /\ (Longest(c)' <=> Longest(c))
    BY DEF Size, Values, Longest
<1>4. MaxLength' = MaxLength
    BY <1>3 DEF MaxLength
<1>5. \A w : Begins(w)' <=> Begins(w)
    BY <1>1 DEF Begins
<1>6. QED
    BY <1>1, <1>2, <1>3, <1>4, <1>5

(* What has been read stays as it is while the output is written.           *)
LEMMA ReadingOver ==
    ASSUME TypeOK, PlaceInv, CountInv, SizeInv, UNCHANGED <<command, reading>>,
           pc \notin {"message", "terminated"}, pc = "file" => fi > Len(files),
           pc' \notin {"file", "message"}
    PROVE  /\ PlaceInv' /\ CountInv' /\ SizeInv' /\ UnwrittenInv' /\ ReadOnce'
<1> USE DEF command, reading
<1>1. Len(files) \in Nat /\ fi = Len(files) + 1
    BY FileFacts DEF PlaceInv, TypeOK
<1>2. PlaceInv'
    BY <1>1 DEF PlaceInv, Passed
<1>3. CountInv'
    <2>1. ASSUME NEW f \in Nat, NEW i \in Nat PROVE Reads(f, i)' <=> Reads(f, i)
        <3>1. Asked(f)' = Asked(f)
            BY DEF Asked
        <3>2. Passed(<<f, i>>)' <=> Passed(<<f, i>>)
            BY DEF Passed
        <3>3. QED
            BY <3>1, <3>2 DEF Reads
    <2>2. QED
        BY <2>1, SameReads
<1>4. SizeInv' /\ UnwrittenInv'
    BY DEF SizeInv, Size, Values, UnwrittenInv
<1>5. ReadOnce'
    <2>1. ASSUME NoZeroLength, NEW c \in Columns, NEW t \in Times
          PROVE  data[c][t] = Cardinality(Sought(c, t))
        BY <1>1, <2>1, AllGot DEF CountInv
    <2>2. \A c, t : Sought(c, t)' = Sought(c, t)
        BY DEF Sought, Asked
    <2>3. NoZeroLength' <=> NoZeroLength
        BY DEF NoZeroLength
    <2>4. QED
        BY <2>1, <2>2, <2>3 DEF ReadOnce
<1>6. QED
    BY <1>2, <1>3, <1>4, <1>5

LEMMA NothingFoundInv == IInv /\ NothingFound => IInv'
<1> SUFFICES ASSUME IInv, NothingFound PROVE IInv'
    OBVIOUS
<1>1. TypeOK /\ PlaceInv /\ CountInv /\ SizeInv /\ UnwrittenInv
    BY DEF IInv
<1>2. /\ pc = "file" /\ fi > Len(files) /\ AllTimes(data) = {} /\ pc' = "done"
      /\ UNCHANGED <<command, reading, writing>>
    BY DEF NothingFound, writeFrame
<1>3. PlaceInv' /\ CountInv' /\ SizeInv' /\ UnwrittenInv' /\ ReadOnce'
    BY <1>1, <1>2, ReadingOver
<1>4. TypeOK'
    BY <1>1, <1>2 DEF TypeOK, command, reading, writing
<1>5. FormatInv' /\ RowsInv' /\ LeftInv' /\ WindowsInv'
    BY <1>2 DEF FormatInv, RowsInv, LeftInv, WindowsInv
<1>6. \A c \in Columns : TimesOf(data', c) = {}
    BY <1>2 DEF AllTimes, reading
<1>7. ASSUME NEW n \in Times PROVE AllTimes(out'[n]) = {}
    BY <1>1, <1>2, NoValuesFacts, TimesFacts DEF UnwrittenInv, writing
<1>8. RowsExported' /\ WindowsExported'
    BY <1>6, <1>7 DEF RowsExported, WindowsExported
<1>9. QED
    BY <1>3, <1>4, <1>5, <1>8 DEF IInv

LEMMA BeginWritingInv == IInv /\ BeginWriting => IInv'
<1> SUFFICES ASSUME IInv, BeginWriting PROVE IInv'
    OBVIOUS
<1>1. TypeOK /\ PlaceInv /\ CountInv /\ SizeInv /\ UnwrittenInv
    BY DEF IInv
<1>2. /\ pc = "file" /\ fi > Len(files) /\ AllTimes(data) # {} /\ pc' = format
      /\ rest' = data /\ row' = 0
      /\ limit' = First + (IF format = "txt" THEN Period ELSE 0)
      /\ UNCHANGED <<command, reading, current, out, ioerror>>
    BY DEF BeginWriting, writeFrame, First
<1>3. format \in {"txt", "windows"} /\ data \in Series
    BY <1>1 DEF TypeOK
<1>4. PlaceInv' /\ CountInv' /\ SizeInv' /\ UnwrittenInv' /\ ReadOnce'
    BY <1>1, <1>2, <1>3, ReadingOver
<1>5. First \in Times /\ First <= Max(Fronts) /\ Max(Fronts) \in Times
    BY <1>1, <1>2, FrontsFacts
<1>6. TypeOK'
    <2>1. limit' \in 0..MaxTime + Period
        BY <1>2, <1>5, Bounds
    <2>2. QED
        BY <1>1, <1>2, <1>3, <2>1 DEF TypeOK, command, reading
<1>7. UNCHANGED <<data, format>> /\ AllTimes(data)' # {}
    BY <1>2, SameData DEF command, reading
<1>8. \A n \in Times, c \in Columns, t \in Times : out'[n][c][t] = 0
    BY <1>1, <1>2, NoValuesFacts DEF UnwrittenInv
<1>9. FormatInv'
    BY <1>2, <1>7 DEF FormatInv
<1>10. RowsInv'
    <2>1. ASSUME NEW c \in Columns, NEW t \in Times
          PROVE  \E n \in Times : /\ out'[n][c][t] + rest'[c][t] = data'[c][t]
                                  /\ \A k \in Times \ {n} : out'[k][c][t] = 0
        <3>1. data[c][t] \in Nat
            BY <1>3 DEF Series
        <3>2. out'[t][c][t] + rest'[c][t] = data'[c][t]
            BY <1>2, <1>7, <1>8, <3>1
        <3>3. QED
            BY <1>8, <3>2
    <2>2. \A n \in Times, c \in Columns, t \in Times : ~Has(n, c, t)'
        BY <1>8 DEF Has
    <2>3. QED
        BY <1>2, <2>1, <2>2 DEF RowsInv
<1>11. LeftInv'
    <2>1. ASSUME NEW c \in Columns
          PROVE  /\ IsFiniteSet(Values(data, c)) /\ Size(c) \in Nat
                 /\ Cardinality(Values(data, c)) = Size(c)
        BY <1>1, FS_CardinalityType DEF SizeInv, Size
    <2>2. \A c \in Columns : Values(rest, c)' = Values(data, c) /\ Size(c)' = Size(c)
        BY <1>2, <1>7, SameData DEF Values
    <2>3. \A c \in Columns : Longest(c)' => \A j \in Columns, u \in Times : rest'[c][u] >= rest'[j][u]
        BY <1>2, <1>7 DEF Longest
    <2>4. QED
        BY <1>2, <2>1, <2>2, <2>3 DEF LeftInv
<1>12. WindowsInv'
    <2> SUFFICES ASSUME pc' = "windows", Period > 0 PROVE WindowsInv'
        BY DEF WindowsInv
    <2>1. limit' = First /\ First \in Nat
        BY <1>2, <1>5, Bounds
    <2>2. Begins(limit)' /\ limit' <= Max(Fronts)' + Period
        <3>1. First - First = 0 /\ 0 % Period = 0
            BY <2>1, Bounds
        <3>2. Begins(First)
            BY <2>1, <3>1 DEF Begins
        <3>3. First' = First /\ Fronts' = Fronts
            BY <1>7, SameData
        <3>4. Begins(limit)'
            BY <2>1, <3>2, <3>3 DEF Begins
        <3>5. limit' <= Max(Fronts) + Period
            <4>1. Max(Fronts) \in Nat /\ Period \in Nat
                BY <1>5, Bounds
            <4>2. QED
                BY <1>5, <2>1, <4>1
        <3>6. QED
            BY <3>3, <3>4, <3>5 DEF Max
    <2>3. \A w \in Times : ~(Begins(w)' /\ w < limit')
        BY <1>7, <2>1, SameData, Bounds DEF Begins
    <2>4. QED
        BY <1>8, <2>2, <2>3 DEF WindowsInv
<1>13. RowsExported' /\ WindowsExported'
    BY <1>2, <1>3 DEF RowsExported, WindowsExported
<1>14. QED
    BY <1>4, <1>6, <1>9, <1>10, <1>11, <1>12, <1>13 DEF IInv

(* Windows                                                                  *)

(* The window of length p from f on that t lies in.                         *)
LEMMA WindowPlace ==
    ASSUME NEW p \in Nat, p > 0, NEW f \in Nat, NEW t \in Nat, f <= t
    PROVE  LET w == t - ((t - f) % p)
           IN  w \in Nat /\ f <= w /\ (w - f) % p = 0 /\ w <= t /\ t <= w + p
<1> DEFINE d == t - f
           r == d % p
           q == d \div p
           w == t - r
<1>1. d \in Nat /\ t = f + d
    OBVIOUS
<1>2. q \in Nat /\ r \in 0..(p - 1) /\ d = p * q + r
    BY <1>1, Division
<1>3. p * q \in Nat /\ (p * q) % p = 0
    BY <1>2, Product
<1>4. w = t - ((t - f) % p)
    OBVIOUS
<1> HIDE DEF q, r, d
<1>5. w - f = p * q
    BY <1>1, <1>2, <1>3
<1>6. w \in Nat /\ f <= w /\ (w - f) % p = 0 /\ w <= t /\ t <= w + p
    BY <1>1, <1>2, <1>3, <1>5
<1>7. QED
    BY <1>4, <1>6

(* Windows follow each other at a distance of a Period, and their files     *)
(* have different names.                                                    *)
LEMMA WindowOrder ==
    ASSUME TypeOK, AllTimes(data) # {}, Period > 0, NEW v \in Nat, Begins(v),
           NEW w \in Times, Begins(w)
    PROVE  /\ w < v => w + Period <= v
           /\ w < v + Period => w <= v
           /\ v \in Times /\ w < v => FileName(w) # FileName(v)
<1>1. First \in Nat /\ w \in Nat /\ Period \in Nat
    BY FrontsFacts, Bounds DEF TypeOK
<1> DEFINE a == w - First
           b == v - First
<1>2. a \in Nat /\ b \in Nat /\ a % Period = 0 /\ b % Period = 0
    BY <1>1 DEF Begins
<1>3. w = First + a /\ v = First + b
    BY <1>1
<1> HIDE DEF a, b
<1>4. (a < b => a + Period <= b) /\ (b < a => b + Period <= a)
    BY <1>1, <1>2, Multiples
<1>5. (w < v => w + Period <= v) /\ (w < v + Period => w <= v)
    BY <1>1, <1>2, <1>3, <1>4
<1>6. ASSUME v \in Times, w < v PROVE FileName(w) # FileName(v)
    <2>1. w + Period <= v
        BY <1>5, <1>6
    <2>2. /\ FileName(w) \in Nat /\ FileName(w) <= w
          /\ FileName(v) \in Nat /\ v < FileName(v) + Unit
        BY <1>6, Names, Bounds
    <2>3. QED
        BY <1>1, <2>1, <2>2, Bounds
<1>7. QED
    BY <1>5, <1>6

(* The next window.                                                         *)
LEMMA NextWindow ==
    ASSUME TypeOK, AllTimes(data) # {}, limit <= Max(Fronts)
    PROVE  /\ limit \in Times /\ limit + Period \in 0..MaxTime + Period
           /\ limit + Period <= Max(Fronts) + Period
           /\ Period > 0 /\ Begins(limit) => Begins(limit + Period)
<1>1. First \in Nat /\ limit \in Nat /\ Period \in Nat /\ MaxTime \in Nat
    <2>1. First \in Nat
        BY FrontsFacts, Bounds DEF TypeOK
    <2>2. limit \in 0..MaxTime + Period
        BY DEF TypeOK
    <2>3. QED
        BY <2>1, <2>2, Bounds
<1>2. Max(Fronts) \in Nat /\ Max(Fronts) <= MaxTime
    BY FrontsFacts, Bounds
<1>3. limit \in Times /\ limit + Period \in 0..MaxTime + Period
    BY <1>1, <1>2 DEF Times
<1>4. limit + Period <= Max(Fronts) + Period
    BY <1>1, <1>2
<1>5. ASSUME Period > 0, Begins(limit) PROVE Begins(limit + Period)
    <2>1. limit - First \in Nat /\ (limit - First) % Period = 0
        BY <1>1, <1>5 DEF Begins
    <2>2. ((limit - First) + Period) % Period = 0
        BY <1>1, <1>5, <2>1, Multiples
    <2>3. (limit + Period) - First = (limit - First) + Period
        BY <1>1
    <2>4. First <= limit + Period
        BY <1>1, <2>1
    <2>5. QED
        BY <2>2, <2>3, <2>4 DEF Begins
<1>6. QED
    BY <1>3, <1>4, <1>5

(* What the file of a window holds.                                         *)
Window(c, t) == IF limit <= t /\ t <= limit + Period THEN data[c][t] ELSE 0

LEMMA WriteWindowInv == IInv /\ WriteWindow => IInv'
<1> SUFFICES ASSUME IInv, WriteWindow PROVE IInv'
    OBVIOUS
<1>1. TypeOK /\ PlaceInv /\ CountInv /\ SizeInv /\ FormatInv /\ WindowsInv
    BY DEF IInv
<1>2. /\ pc = "windows" /\ limit <= Max(Fronts) /\ pc' = "windows"
      /\ out' = [out EXCEPT ![FileName(limit)] = [c \in Columns |-> [t \in Times |-> Window(c, t)]]]
      /\ limit' = limit + Period
      /\ UNCHANGED <<command, reading, rest, row, current, ioerror>>
    BY DEF WriteWindow, writeFrame, Window
<1>3. AllTimes(data) # {} /\ format = "windows" /\ (Period > 0 => Begins(limit))
    BY <1>1, <1>2 DEF FormatInv, WindowsInv
<1>4. /\ limit \in Times /\ limit + Period \in 0..MaxTime + Period
      /\ limit + Period <= Max(Fronts) + Period
      /\ Period > 0 => Begins(limit + Period)
    BY <1>1, <1>2, <1>3, NextWindow
<1>5. FileName(limit) \in Times
    BY <1>4, Names
<1>6. UNCHANGED <<data, format>>
    BY <1>2 DEF command, reading
<1>7. PlaceInv' /\ CountInv' /\ SizeInv' /\ UnwrittenInv' /\ ReadOnce'
    BY <1>1, <1>2, ReadingOver
<1>8. TypeOK'
    <2>1. [c \in Columns |-> [t \in Times |-> Window(c, t)]] \in Series
        BY <1>1 DEF TypeOK, Series, Window
    <2>2. out' \in [Times -> Series]
        BY <1>1, <1>2, <2>1 DEF TypeOK
    <2>3. QED
        BY <1>1, <1>2, <1>4, <2>2 DEF TypeOK, command, reading
<1>9. FormatInv'
    BY <1>2, <1>3, <1>6, SameData DEF FormatInv
<1>10. RowsInv' /\ LeftInv' /\ RowsExported' /\ WindowsExported'
    BY <1>2 DEF RowsInv, LeftInv, RowsExported, WindowsExported
<1>11. WindowsInv'
    <2> SUFFICES ASSUME Period > 0 PROVE WindowsInv'
        BY DEF WindowsInv
    <2>1. Begins(limit)' /\ limit' <= Max(Fronts)' + Period
        <3>1. First' = First /\ Fronts' = Fronts
            BY <1>6, SameData
        <3>2. Begins(limit)'
            BY <1>2, <1>4, <3>1 DEF Begins
        <3>3. QED
            BY <1>2, <1>4, <3>1, <3>2 DEF Max
    <2>2. ASSUME ~ioerror, NEW n \in Times, NEW c \in Columns, NEW t \in Times
          PROVE  out'[n][c][t] =
                    IF \E w \in Times : /\ Begins(w) /\ w < limit + Period /\ n = FileName(w)
                                        /\ w <= t /\ t <= w + Period
                    THEN data[c][t] ELSE 0
        <3>1. out[n][c][t] =
                IF \E w \in Times : /\ Begins(w) /\ w < limit /\ n = FileName(w)
                                    /\ w <= t /\ t <= w + Period
                THEN data[c][t] ELSE 0
            BY <1>1, <1>2, <2>2 DEF WindowsInv
        <3>2. \A w \in Times : Begins(w) =>
                /\ w < limit + Period => w <= limit
                /\ w < limit => FileName(w) # FileName(limit)
            BY <1>1, <1>3, <1>4, Bounds, WindowOrder
        <3>3. limit < limit + Period /\ \A w \in Times : w < limit => w < limit + Period
            BY <1>4, Bounds
        <3>4. CASE n = FileName(limit)
            <4>1. out'[n][c][t] = Window(c, t)
                BY <1>1, <1>2, <1>5, <3>4 DEF TypeOK
            <4>2. ASSUME NEW w \in Times, Begins(w), w < limit + Period, n = FileName(w)
                  PROVE  w = limit
                <5>1. w <= limit /\ ~(w < limit)
                    BY <3>2, <3>4, <4>2
                <5>2. QED
                    BY <5>1, <1>4, Bounds
            <4>3. (\E w \in Times : /\ Begins(w) /\ w < limit + Period /\ n = FileName(w)
                                    /\ w <= t /\ t <= w + Period)
                    <=> limit <= t /\ t <= limit + Period
                BY <1>3, <1>4, <3>3, <3>4, <4>2
            <4>4. QED
                BY <4>1, <4>3 DEF Window
        <3>5. CASE n # FileName(limit)
            <4>1. out'[n][c][t] = out[n][c][t]
                BY <1>1, <1>2, <3>5 DEF TypeOK
            <4>2. ASSUME NEW w \in Times, Begins(w), n = FileName(w)
                  PROVE  w < limit + Period <=> w < limit
                <5>1. w # limit /\ w \in Nat /\ limit \in Nat
                    BY <1>4, <3>5, <4>2, Bounds
                <5>2. QED
                    BY <3>2, <3>3, <4>2, <5>1
            <4>3. (\E w \in Times : /\ Begins(w) /\ w < limit + Period /\ n = FileName(w)
                                    /\ w <= t /\ t <= w + Period)
                    <=> (\E w \in Times : /\ Begins(w) /\ w < limit /\ n = FileName(w)
                                          /\ w <= t /\ t <= w + Period)
                BY <4>2
            <4>4. QED
                BY <3>1, <4>1, <4>3
        <3>6. QED
            BY <3>4, <3>5
    <2>3. \A w : Begins(w)' <=> Begins(w)
        BY <1>6, SameData
    <2>4. ASSUME ~ioerror', NEW n \in Times, NEW c \in Columns, NEW t \in Times
          PROVE  out'[n][c][t] =
                    IF \E w \in Times : /\ Begins(w)' /\ w < limit' /\ n = FileName(w)
                                        /\ w <= t /\ t <= w + Period
                    THEN data'[c][t] ELSE 0
        BY <1>2, <1>6, <2>2, <2>3, <2>4
    <2>5. QED
        BY <2>1, <2>4 DEF WindowsInv
<1>12. QED
    BY <1>7, <1>8, <1>9, <1>10, <1>11 DEF IInv

LEMMA WindowLostInv == IInv /\ WindowLost => IInv'
<1> SUFFICES ASSUME IInv, WindowLost PROVE IInv'
    OBVIOUS
<1>1. TypeOK /\ PlaceInv /\ CountInv /\ SizeInv /\ FormatInv /\ WindowsInv
    BY DEF IInv
<1>2. /\ pc = "windows" /\ limit <= Max(Fronts) /\ pc' = "windows"
      /\ out' = [out EXCEPT ![FileName(limit)] = NoValues]
      /\ limit' = limit + Period /\ ioerror' = TRUE
      /\ UNCHANGED <<command, reading, rest, row, current>>
    BY DEF WindowLost, writeFrame
<1>3. AllTimes(data) # {} /\ format = "windows" /\ (Period > 0 => Begins(limit))
    BY <1>1, <1>2 DEF FormatInv, WindowsInv
<1>4. /\ limit \in Times /\ limit + Period \in 0..MaxTime + Period
      /\ limit + Period <= Max(Fronts) + Period
      /\ Period > 0 => Begins(limit + Period)
    BY <1>1, <1>2, <1>3, NextWindow
<1>5. UNCHANGED <<data, format>>
    BY <1>2 DEF command, reading
<1>6. PlaceInv' /\ CountInv' /\ SizeInv' /\ UnwrittenInv' /\ ReadOnce'
    BY <1>1, <1>2, ReadingOver
<1>7. TypeOK'
    <2>1. out' \in [Times -> Series] /\ ioerror' \in BOOLEAN
        BY <1>1, <1>2, NoValuesFacts DEF TypeOK
    <2>2. QED
        BY <1>1, <1>2, <1>4, <2>1 DEF TypeOK, command, reading
<1>8. FormatInv'
    BY <1>2, <1>3, <1>5, SameData DEF FormatInv
<1>9. RowsInv' /\ LeftInv' /\ RowsExported' /\ WindowsExported'
    BY <1>2 DEF RowsInv, LeftInv, RowsExported, WindowsExported
<1>10. WindowsInv'
    <2> SUFFICES ASSUME Period > 0 PROVE WindowsInv'
        BY DEF WindowsInv
    <2>1. First' = First /\ Fronts' = Fronts
        BY <1>5, SameData
    <2>2. Begins(limit)'
        BY <1>2, <1>4, <2>1 DEF Begins
    <2>3. limit' <= Max(Fronts)' + Period
        BY <1>2, <1>4, <2>1 DEF Max
    <2>4. QED
        BY <1>2, <2>2, <2>3 DEF WindowsInv
<1>11. QED
    BY <1>6, <1>7, <1>8, <1>9, <1>10 DEF IInv

(* Rows                                                                     *)

LEMMA LongestSize ==
    ASSUME SizeInv, Columns # {}
    PROVE  /\ MaxLength \in Nat /\ \E k \in Columns : MaxLength = Size(k)
           /\ \A c \in Columns : Size(c) \in Nat /\ Size(c) <= MaxLength
<1>1. PICK b \in Nat : \A c \in Columns : Size(c) <= b
    BY DEF SizeInv
<1>2. \A c \in Columns : Size(c) \in Nat
    BY FS_CardinalityType DEF SizeInv, Size
<1> DEFINE S == {Size(c) : c \in Columns}
<1>3. S \subseteq Nat /\ S # {} /\ \A x \in S : x <= b
    BY <1>1, <1>2
<1> HIDE DEF S
<1>4. Max(S) \in S /\ \A x \in S : x <= Max(S)
    BY <1>3, Greatest
<1>5. QED
    BY <1>2, <1>4 DEF MaxLength, S

(* While there are rows to write there are values left.                     *)
LEMMA ValuesLeft ==
    ASSUME TypeOK, SizeInv, LeftInv, pc = "txt", row < MaxLength, AllTimes(data) # {}
    PROVE  RowTime \in AllTimes(rest) /\ \A u \in AllTimes(rest) : RowTime <= u
<1>1. Columns # {}
    BY DEF AllTimes
<1>2. PICK k \in Columns : MaxLength = Size(k)
    BY <1>1, LongestSize
<1>3. Size(k) \in Nat /\ row \in Nat /\ rest \in Series
    BY <1>1, LongestSize DEF TypeOK
<1>4. IsFiniteSet(Values(rest, k)) /\ Cardinality(Values(rest, k)) + row >= Size(k)
    BY DEF LeftInv
<1>5. Cardinality(Values(rest, k)) \in Nat /\ Cardinality(Values(rest, k)) # 0
    BY <1>2, <1>3, <1>4, FS_CardinalityType
<1>6. Values(rest, k) # {}
    BY <1>5, FS_EmptySet
<1>7. PICK t \in Times : \E i \in 1..rest[k][t] : TRUE
    BY <1>3, <1>6, InValues
<1>8. rest[k][t] \in Nat /\ rest[k][t] > 0
    BY <1>3, <1>7 DEF Series
<1>9. t \in AllTimes(rest)
    BY <1>3, <1>8, TimesFacts
<1>10. QED
    BY <1>3, <1>9, TimesFacts DEF RowTime

(* What a row of txt output does: it takes a value of the earliest time     *)
(* left from every column that has one, to the file name, and keeps what    *)
(* the file holds unless every row has a file of its own.                   *)
Row(t, name) ==
    /\ t \in Times /\ name \in Times
    /\ \A d \in Columns, u \in Times : rest[d][u] > 0 => t <= u
    /\ \E d \in Columns : rest[d][t] > 0
    /\ \A c \in Columns, u \in Times :
        rest'[c][u] = IF u = t /\ rest[c][t] > 0 THEN rest[c][u] - 1 ELSE rest[c][u]
    /\ Period > 0 => \A n \in Times, c \in Columns, u \in Times :
        out'[n][c][u] = IF n = name /\ u = t /\ rest[c][t] > 0 THEN out[n][c][u] + 1 ELSE out[n][c][u]

(* A new file has a name that no earlier one has.                           *)
LEMMA NewName ==
    ASSUME TypeOK, RowsInv, pc = "txt", Period > 0, NewFile, RowTime \in Times,
           NEW n \in Times, NEW c \in Columns, NEW u \in Times, Has(n, c, u)
    PROVE  /\ row > 0 /\ n < FileName(RowTime) /\ current < FileName(RowTime)
           /\ u < RowTime
<1>1. row > 0 /\ RowTime >= limit
    <2>1. row # 0
        BY DEF RowsInv
    <2>2. QED
        BY <2>1 DEF NewFile, TypeOK
<1>2. limit \in Nat /\ limit >= Period /\ current = FileName(limit - Period) /\ limit - Period \in Times
    <2>1. limit \in 0..MaxTime + Period /\ limit >= Period /\ current = FileName(limit - Period)
        BY <1>1 DEF RowsInv, TypeOK
    <2>2. QED
        BY <2>1, Bounds DEF Times
<1>3. n <= current /\ u < limit
    BY DEF RowsInv
<1>4. current \in Nat /\ current <= limit - Period
    BY <1>2, Names, Bounds
<1>5. FileName(RowTime) \in Nat /\ RowTime < FileName(RowTime) + Unit
    BY Names, Bounds
<1>6. n \in Nat /\ u \in Nat /\ RowTime \in Nat
    BY Bounds
<1>7. QED
    BY <1>1, <1>2, <1>3, <1>4, <1>5, <1>6, Bounds

LEMMA RowWritten ==
    ASSUME IInv, TxtRow
    PROVE  /\ Row(RowTime, current')
           /\ rest' \in Series /\ out' \in [Times -> Series]
           /\ current' = IF NewFile THEN FileName(RowTime) ELSE current
           /\ limit' = IF NewFile THEN RowTime + Period ELSE limit
           /\ row' = row + 1 /\ pc = "txt" /\ pc' = "txt"
           /\ UNCHANGED <<command, reading, ioerror>>
<1>1. TypeOK /\ SizeInv /\ FormatInv /\ RowsInv /\ LeftInv
    BY DEF IInv
<1> DEFINE t == RowTime
           cols == {c \in Columns : rest[c][t] > 0}
           name == IF NewFile THEN FileName(t) ELSE current
           old == IF NewFile THEN NoValues ELSE out[name]
<1>2. /\ pc = "txt" /\ row < MaxLength /\ pc' = "txt"
      /\ current' = name /\ limit' = (IF NewFile THEN t + Period ELSE limit)
      /\ out' = [out EXCEPT ![name] =
                    [c \in Columns |-> IF c \in cols THEN [old[c] EXCEPT ![t] = @ + 1]
                                                     ELSE old[c]]]
      /\ rest' = [c \in Columns |-> IF c \in cols THEN [rest[c] EXCEPT ![t] = @ - 1]
                                                  ELSE rest[c]]
      /\ row' = row + 1 /\ UNCHANGED <<command, reading, ioerror>>
    BY DEF TxtRow, writeFrame
<1>3. rest \in Series /\ out \in [Times -> Series] /\ current \in Times
    BY <1>1 DEF TypeOK
<1>4. t \in AllTimes(rest) /\ \A u \in AllTimes(rest) : t <= u
    BY <1>1, <1>2, ValuesLeft DEF FormatInv
<1>5. /\ t \in Times /\ \E d \in Columns : rest[d][t] > 0
      /\ \A d \in Columns, u \in Times : rest[d][u] > 0 => t <= u
    BY <1>3, <1>4, TimesFacts
<1>6. name \in Times
    BY <1>3, <1>5, Names
<1>7. ASSUME Period > 0, NewFile, NEW c \in Columns, NEW u \in Times PROVE out[name][c][u] = 0
    <2>1. ~Has(name, c, u)
        <3>1. ASSUME Has(name, c, u) PROVE FALSE
            <4>1. name < FileName(t)
                BY <1>1, <1>2, <1>5, <1>6, <1>7, <3>1, NewName
            <4>2. name = FileName(t) /\ name \in Nat
                BY <1>6, <1>7, Bounds
            <4>3. QED
                BY <4>1, <4>2
        <3>2. QED
            BY <3>1
    <2>2. out[name][c][u] \in Nat
        BY <1>3, <1>6 DEF Series
    <2>3. QED
        BY <2>1, <2>2 DEF Has
<1>8. /\ old \in Series
      /\ Period > 0 => \A c \in Columns, u \in Times : old[c][u] = out[name][c][u]
    BY <1>3, <1>6, <1>7, NoValuesFacts
<1>9. name = current' /\ cols \subseteq Columns /\ \A c \in Columns : c \in cols <=> rest[c][t] > 0
    BY <1>2
<1> HIDE DEF t, name, old, cols
<1>10. /\ rest' \in Series
       /\ \A c \in Columns, u \in Times :
            rest'[c][u] = IF u = t /\ rest[c][t] > 0 THEN rest[c][u] - 1 ELSE rest[c][u]
    <2>1. ASSUME NEW c \in Columns
          PROVE  /\ rest'[c] \in [Times -> Nat]
                 /\ \A u \in Times :
                      rest'[c][u] = IF u = t /\ rest[c][t] > 0 THEN rest[c][u] - 1 ELSE rest[c][u]
        <3>1. rest[c] \in [Times -> Nat]
            BY <1>3 DEF Series
        <3>2. rest'[c] = IF c \in cols THEN [rest[c] EXCEPT ![t] = @ - 1] ELSE rest[c]
            BY <1>2
        <3>3. QED
            BY <1>5, <1>9, <3>1, <3>2
    <2>2. rest' = [c \in Columns |-> rest'[c]]
        BY <1>2
    <2>3. QED
        BY <2>1, <2>2 DEF Series
<1> DEFINE new == [c \in Columns |-> IF c \in cols THEN [old[c] EXCEPT ![t] = @ + 1] ELSE old[c]]
<1>11. /\ new \in Series
       /\ Period > 0 => \A c \in Columns, u \in Times :
            new[c][u] = IF u = t /\ rest[c][t] > 0 THEN out[name][c][u] + 1 ELSE out[name][c][u]
    <2>1. ASSUME NEW c \in Columns
          PROVE  /\ new[c] \in [Times -> Nat]
                 /\ Period > 0 => \A u \in Times :
                      new[c][u] = IF u = t /\ rest[c][t] > 0 THEN out[name][c][u] + 1
                                                             ELSE out[name][c][u]
        <3>1. old[c] \in [Times -> Nat]
            BY <1>8 DEF Series
        <3>2. new[c] = IF c \in cols THEN [old[c] EXCEPT ![t] = @ + 1] ELSE old[c]
            OBVIOUS
        <3>3. QED
            BY <1>5, <1>8, <1>9, <3>1, <3>2
    <2>2. QED
        BY <2>1 DEF Series
<1>12. out' = [out EXCEPT ![name] = new]
    BY <1>2
<1> HIDE DEF new
<1>13. /\ out' \in [Times -> Series]
       /\ Period > 0 => \A n \in Times, c \in Columns, u \in Times :
            out'[n][c][u] = IF n = name /\ u = t /\ rest[c][t] > 0 THEN out[n][c][u] + 1
                                                                   ELSE out[n][c][u]
    BY <1>3, <1>6, <1>11, <1>12
<1>14. Row(t, name)
    BY <1>5, <1>6, <1>10, <1>13 DEF Row
<1>15. QED
    BY <1>2, <1>9, <1>10, <1>13, <1>14 DEF t, name

LEMMA TxtRowInv == IInv /\ TxtRow => IInv'
<1> SUFFICES ASSUME IInv, TxtRow PROVE IInv'
    OBVIOUS
<1>1. TypeOK /\ PlaceInv /\ CountInv /\ SizeInv /\ FormatInv /\ RowsInv /\ LeftInv
    BY DEF IInv
<1> DEFINE t == RowTime
           name == current'
<1>2. /\ Row(t, name)
      /\ rest' \in Series /\ out' \in [Times -> Series]
      /\ name = IF NewFile THEN FileName(t) ELSE current
      /\ limit' = IF NewFile THEN t + Period ELSE limit
      /\ row' = row + 1 /\ pc = "txt" /\ pc' = "txt"
      /\ UNCHANGED <<command, reading, ioerror>>
    BY RowWritten
<1>3. /\ rest \in Series /\ out \in [Times -> Series] /\ data \in Series
      /\ row \in Nat /\ limit \in Nat /\ current \in Nat
    BY <1>1, Bounds DEF TypeOK
<1>4. /\ t \in Times /\ name \in Times /\ \E d \in Columns : rest[d][t] > 0
      /\ \A d \in Columns, u \in Times : rest[d][u] > 0 => t <= u
    BY <1>2 DEF Row
<1>5. \A c \in Columns, u \in Times :
        rest'[c][u] = IF u = t /\ rest[c][t] > 0 THEN rest[c][u] - 1 ELSE rest[c][u]
    BY <1>2 DEF Row
<1>6. Period > 0 => \A n \in Times, c \in Columns, u \in Times :
        out'[n][c][u] = IF n = name /\ u = t /\ rest[c][t] > 0 THEN out[n][c][u] + 1 ELSE out[n][c][u]
    BY <1>2 DEF Row
<1>7. NewFile <=> row = 0 \/ t >= limit
    BY DEF NewFile
<1>8. UNCHANGED <<data, format>>
    BY <1>2 DEF command, reading
<1>9. t \in Nat /\ name \in Nat
    BY <1>4, Bounds
<1>10. /\ \A c \in Columns, u \in Times : rest[c][u] \in Nat /\ rest'[c][u] \in Nat /\ data[c][u] \in Nat
       /\ \A n \in Times, c \in Columns, u \in Times : out[n][c][u] \in Nat /\ out'[n][c][u] \in Nat
    BY <1>2, <1>3 DEF Series
<1>11. ASSUME Period > 0, NewFile, NEW n \in Times, NEW c \in Columns, NEW u \in Times, Has(n, c, u)
       PROVE  row > 0 /\ n < name /\ n # name /\ u < t
    <2>1. row > 0 /\ n < FileName(t) /\ u < t
        BY <1>1, <1>2, <1>4, <1>11, NewName
    <2>2. n \in Nat /\ FileName(t) = name
        BY <1>2, <1>11, Bounds
    <2>3. QED
        BY <1>9, <2>1, <2>2
<1>12. ASSUME Period > 0
       PROVE  ~NewFile => row > 0 /\ t < limit /\ limit <= t + Period /\ name = current /\ limit' = limit
    <2>1. ~NewFile => row > 0 /\ t < limit /\ name = current /\ limit' = limit
        BY <1>2, <1>3, <1>7, <1>9
    <2>2. ~NewFile => limit <= t + Period
        BY <1>1, <1>2, <1>4, <1>12, <2>1 DEF RowsInv
    <2>3. QED
        BY <2>1, <2>2
<1> HIDE DEF t, name
<1>13. PlaceInv' /\ CountInv' /\ SizeInv' /\ UnwrittenInv' /\ ReadOnce'
    BY <1>1, <1>2, ReadingOver
<1>14. TypeOK'
    <2>1. limit' \in 0..MaxTime + Period /\ current' \in Times /\ row' \in Nat
        BY <1>1, <1>2, <1>4, Bounds DEF TypeOK, name, Times
    <2>2. QED
        BY <1>1, <1>2, <2>1 DEF TypeOK, command, reading
<1>15. FormatInv'
    BY <1>1, <1>2, <1>8, SameData DEF FormatInv
<1>16. WindowsInv' /\ RowsExported' /\ WindowsExported'
    BY <1>2 DEF WindowsInv, RowsExported, WindowsExported
<1>17. RowsInv'
    <2> SUFFICES ASSUME Period > 0 PROVE RowsInv'
        BY DEF RowsInv
    <2>1. ASSUME NEW c \in Columns, NEW u \in Times
          PROVE  \E n \in Times : /\ out'[n][c][u] + rest'[c][u] = data'[c][u]
                                  /\ \A k \in Times \ {n} : out'[k][c][u] = 0
        <3>1. PICK n \in Times : /\ out[n][c][u] + rest[c][u] = data[c][u]
                                 /\ \A k \in Times \ {n} : out[k][c][u] = 0
            BY <1>1, <1>2 DEF RowsInv
        <3>2. CASE ~(u = t /\ rest[c][t] > 0)
            BY <1>5, <1>6, <1>8, <3>1, <3>2
        <3>3. CASE u = t /\ rest[c][t] > 0
            <4>1. Has(n, c, u) => n = name
                <5>1. CASE NewFile
                    BY <1>9, <1>11, <3>3, <5>1
                <5>2. CASE ~NewFile
                    BY <1>1, <1>2, <1>3, <1>9, <1>12, <3>3, <5>2, Bounds DEF RowsInv
                <5>3. QED
                    BY <5>1, <5>2
            <4>2. out[name][c][u] = out[n][c][u] /\ \A k \in Times \ {name} : out[k][c][u] = 0
                BY <1>4, <1>10, <3>1, <4>1 DEF Has
            <4>3. out'[name][c][u] + rest'[c][u] = data'[c][u]
                BY <1>4, <1>5, <1>6, <1>8, <1>10, <3>1, <3>3, <4>2
            <4>4. \A k \in Times \ {name} : out'[k][c][u] = 0
                BY <1>6, <4>2
            <4>5. QED
                BY <1>4, <4>3, <4>4
        <3>4. QED
            BY <3>2, <3>3
    <2>2. row' > 0 /\ row' # 0
        BY <1>2, <1>3
    <2>3. limit' >= Period /\ current' = FileName(limit' - Period)
        <3>1. CASE NewFile
            <4>1. limit' = t + Period /\ (t + Period) - Period = t
                BY <1>2, <1>9, <3>1, Bounds DEF t
            <4>2. QED
                BY <1>2, <1>9, <3>1, <4>1, Bounds DEF t, name
        <3>2. CASE ~NewFile
            BY <1>1, <1>2, <1>12, <3>2 DEF RowsInv, name
        <3>3. QED
            BY <3>1, <3>2
    <2>4. \A n \in Times, c \in Columns, u \in Times :
            Has(n, c, u)' => Has(n, c, u) \/ (n = name /\ u = t)
        BY <1>6 DEF Has
    <2>5. ASSUME NEW d \in Columns, NEW v \in Times, rest'[d][v] > 0
          PROVE  rest[d][v] > 0 /\ t <= v
        BY <1>4, <1>5, <1>10, <2>5
    <2>6. ASSUME NEW n \in Times, NEW c \in Columns, NEW u \in Times, Has(n, c, u)'
          PROVE  /\ \A d \in Columns, v \in Times : rest'[d][v] > 0 => u <= v
                 /\ n <= name /\ u < limit'
                 /\ IF n = name THEN limit' <= u + Period ELSE u + Period < limit'
        <3>1. n \in Nat /\ u \in Nat
            BY Bounds
        <3>2. CASE Has(n, c, u)
            <4>1. /\ \A d \in Columns, v \in Times : rest[d][v] > 0 => u <= v
                  /\ n <= current /\ u < limit
                  /\ IF n = current THEN limit <= u + Period ELSE u + Period < limit
                BY <1>1, <1>2, <3>2 DEF RowsInv
            <4>2. CASE NewFile
                <5>1. n < name /\ n # name /\ u < t
                    BY <1>11, <3>2, <4>2
                <5>2. limit' = t + Period
                    BY <1>2, <4>2 DEF t
                <5>3. u < limit' /\ u + Period < limit' /\ n <= name
                    BY <1>9, <3>1, <5>1, <5>2, Bounds
                <5>4. QED
                    BY <2>5, <4>1, <5>1, <5>3
            <4>3. CASE ~NewFile
                BY <1>12, <2>5, <4>1, <4>3
            <4>4. QED
                BY <4>2, <4>3
        <3>3. CASE n = name /\ u = t
            <4>1. t < limit' /\ limit' <= t + Period
                <5>1. CASE NewFile
                    <6>1. limit' = t + Period
                        BY <1>2, <5>1 DEF t
                    <6>2. QED
                        BY <1>9, <6>1, Bounds
                <5>2. CASE ~NewFile
                    BY <1>12, <5>2
                <5>3. QED
                    BY <5>1, <5>2
            <4>2. QED
                BY <1>9, <2>5, <3>3, <4>1
        <3>4. QED
            BY <2>4, <2>6, <3>2, <3>3
    <2>7. ASSUME NEW n \in Times, NEW c \in Columns, NEW u \in Times, Has(n, c, u)',
                 NEW d \in Columns, NEW v \in Times, Has(n, d, v)'
          PROVE  u - v < Period
        <3>1. CASE n = name
            <4>1. u < limit' /\ limit' <= v + Period
                BY <2>6, <2>7, <3>1
            <4>2. u \in Nat /\ v \in Nat /\ limit' \in Nat /\ Period \in Nat
                BY <1>14, Bounds DEF TypeOK
            <4>3. QED
                BY <4>1, <4>2
        <3>2. CASE n # name
            <4>1. Has(n, c, u) /\ Has(n, d, v)
                BY <2>4, <2>7, <3>2
            <4>2. QED
                BY <1>1, <1>2, <4>1 DEF RowsInv
        <3>3. QED
            BY <3>1, <3>2
    <2>8. ASSUME NEW d \in Columns, NEW u \in Times, rest'[d][u] > 0 PROVE limit' <= u + Period
        <3>1. rest[d][u] > 0 /\ t <= u /\ u \in Nat
            BY <2>5, <2>8, Bounds
        <3>2. CASE NewFile
            BY <1>2, <1>9, <3>1, <3>2, Bounds DEF t
        <3>3. CASE ~NewFile
            BY <1>1, <1>2, <1>12, <3>1, <3>3 DEF RowsInv
        <3>4. QED
            BY <3>2, <3>3
    <2>9. QED
        BY <2>1, <2>2, <2>3, <2>6, <2>7, <2>8 DEF RowsInv, name
<1>18. LeftInv'
    <2>1. ASSUME NEW c \in Columns
          PROVE  /\ IsFiniteSet(Values(rest', c))
                 /\ Cardinality(Values(rest', c)) + row' >= Size(c)
                 /\ Longest(c) =>
                      /\ Cardinality(Values(rest', c)) + row' = Size(c)
                      /\ \A j \in Columns, u \in Times : rest'[c][u] >= rest'[j][u]
        <3>1. /\ IsFiniteSet(Values(rest, c))
              /\ Cardinality(Values(rest, c)) + row >= Size(c)
              /\ Longest(c) =>
                   /\ Cardinality(Values(rest, c)) + row = Size(c)
                   /\ \A j \in Columns, u \in Times : rest[c][u] >= rest[j][u]
            BY <1>1, <1>2 DEF LeftInv
        <3>2. Size(c) \in Nat /\ Cardinality(Values(rest, c)) \in Nat
            BY <1>1, <3>1, FS_CardinalityType DEF SizeInv, Size
        <3>3. CASE rest[c][t] > 0
            <4>1. rest[c] = [rest'[c] EXCEPT ![t] = @ + 1]
                <5>1. rest[c] \in [Times -> Nat] /\ rest'[c] \in [Times -> Nat]
                    BY <1>2, <1>3 DEF Series
                <5>2. \A u \in Times : rest[c][u] = IF u = t THEN rest'[c][u] + 1 ELSE rest'[c][u]
                    BY <1>5, <1>10, <3>3
                <5>3. QED
                    BY <1>4, <5>1, <5>2
            <4>2. /\ IsFiniteSet(Values(rest', c))
                  /\ Cardinality(Values(rest, c)) = Cardinality(Values(rest', c)) + 1
                BY <1>2, <1>3, <1>4, <3>1, <4>1, OneMore
            <4>3. Cardinality(Values(rest', c)) \in Nat
                BY <4>2, FS_CardinalityType
            <4>4. Cardinality(Values(rest', c)) + row' = Cardinality(Values(rest, c)) + row
                BY <1>2, <1>3, <4>2, <4>3
            <4>5. Longest(c) => \A j \in Columns, u \in Times : rest'[c][u] >= rest'[j][u]
                BY <1>5, <1>10, <3>1, <3>3
            <4>6. QED
                BY <3>1, <4>2, <4>4, <4>5
        <3>4. CASE ~(rest[c][t] > 0)
            <4>1. \A u \in Times : rest'[c][u] = rest[c][u]
                BY <1>5, <3>4
            <4>2. Values(rest', c) = Values(rest, c)
                BY <4>1 DEF Values
            <4>3. ~Longest(c)
                BY <1>4, <1>10, <3>1, <3>4
            <4>4. QED
                BY <1>2, <1>3, <3>1, <3>2, <4>2, <4>3
        <3>5. QED
            BY <3>3, <3>4
    <2>2. \A c \in Columns : /\ Size(c)' = Size(c) /\ (Longest(c)' <=> Longest(c))
                             /\ Values(rest, c)' = Values(rest', c)
        BY <1>8, SameData DEF Values
    <2>3. QED
        BY <2>1, <2>2 DEF LeftInv
<1>19. QED
    BY <1>13, <1>14, <1>15, <1>16, <1>17, <1>18 DEF IInv

-----------------------------------------------------------------------------
(* The end of writing                                                       *)

LEMMA TxtTerminatesInv == IInv /\ TxtTerminates => IInv'
<1> SUFFICES ASSUME IInv, TxtTerminates PROVE IInv'
    OBVIOUS
<1>1. TypeOK /\ PlaceInv /\ CountInv /\ SizeInv
    BY DEF IInv
<1>2. pc = "txt" /\ pc' = "terminated" /\ UNCHANGED <<command, reading, writing>>
    BY DEF TxtTerminates, writeFrame
<1>3. PlaceInv' /\ CountInv' /\ SizeInv' /\ UnwrittenInv' /\ ReadOnce'
    BY <1>1, <1>2, ReadingOver
<1>4. TypeOK'
    BY <1>1, <1>2 DEF TypeOK, command, reading, writing
<1>5. FormatInv' /\ RowsInv' /\ LeftInv' /\ WindowsInv' /\ RowsExported' /\ WindowsExported'
    BY <1>2 DEF FormatInv, RowsInv, LeftInv, WindowsInv, RowsExported, WindowsExported
<1>6. QED
    BY <1>3, <1>4, <1>5 DEF IInv

LEMMA OpenThrowsInv == IInv /\ OpenThrows => IInv'
<1> SUFFICES ASSUME IInv, OpenThrows PROVE IInv'
    OBVIOUS
<1>1. TypeOK /\ PlaceInv /\ CountInv /\ SizeInv
    BY DEF IInv
<1>2. /\ pc \in {"txt", "windows"} /\ pc' = "done" /\ ioerror' = TRUE
      /\ UNCHANGED <<command, reading, rest, row, limit, current, out>>
    BY DEF OpenThrows, writeFrame
<1>3. PlaceInv' /\ CountInv' /\ SizeInv' /\ UnwrittenInv' /\ ReadOnce'
    BY <1>1, <1>2, ReadingOver
<1>4. TypeOK'
    <2>1. ioerror' \in BOOLEAN
        BY <1>2
    <2>2. QED
        BY <1>1, <1>2, <2>1 DEF TypeOK, command, reading
<1>5. FormatInv' /\ RowsInv' /\ LeftInv' /\ WindowsInv' /\ RowsExported' /\ WindowsExported'
    BY <1>2 DEF FormatInv, RowsInv, LeftInv, WindowsInv, RowsExported, WindowsExported
<1>6. QED
    BY <1>3, <1>4, <1>5 DEF IInv

(* All rows are written.                                                    *)
LEMMA RowsEnd ==
    ASSUME IInv, pc = "txt", row >= MaxLength, Period > 0
    PROVE  /\ \A c \in Columns : \A t \in TimesOf(data, c) : \E n \in Times :
                /\ \A k \in Times \ {n} : out[k][c][t] = 0
                /\ out[n][c][t] <= data[c][t]
                /\ (\E k \in Columns : Longest(k)) => out[n][c][t] = data[c][t]
           /\ \A n \in Times : \A t, u \in AllTimes(out[n]) : t - u < Period
<1>1. TypeOK /\ SizeInv /\ RowsInv /\ LeftInv
    BY DEF IInv
<1>2. /\ rest \in Series /\ out \in [Times -> Series] /\ data \in Series /\ row \in Nat
    BY <1>1 DEF TypeOK
<1>3. ASSUME NEW k \in Columns, Longest(k), NEW c \in Columns, NEW t \in Times
      PROVE  rest[c][t] = 0
    <2>1. /\ IsFiniteSet(Values(rest, k)) /\ Cardinality(Values(rest, k)) + row = Size(k)
          /\ rest[k][t] >= rest[c][t]
        BY <1>1, <1>3 DEF LeftInv
    <2>2. Size(k) \in Nat /\ Size(k) <= MaxLength /\ MaxLength \in Nat
        BY <1>1, LongestSize
    <2>3. Cardinality(Values(rest, k)) = 0
        BY <1>2, <2>1, <2>2, FS_CardinalityType
    <2>4. Values(rest, k) = {}
        BY <2>1, <2>3, FS_EmptySet
    <2>5. rest[k][t] \in Nat /\ rest[c][t] \in Nat
        BY <1>2 DEF Series
    <2>6. rest[k][t] = 0
        <3>1. ASSUME rest[k][t] > 0 PROVE FALSE
            <4>1. 1 \in 1..rest[k][t]
                BY <2>5, <3>1
            <4>2. <<t, 1>> \in Values(rest, k)
                BY <1>2, <4>1, InValues
            <4>3. QED
                BY <2>4, <4>2
        <3>2. QED
            BY <2>5, <3>1
    <2>7. QED
        BY <2>1, <2>5, <2>6
<1>4. ASSUME NEW c \in Columns, NEW t \in TimesOf(data, c)
      PROVE  \E n \in Times :
                /\ \A k \in Times \ {n} : out[k][c][t] = 0
                /\ out[n][c][t] <= data[c][t]
                /\ (\E k \in Columns : Longest(k)) => out[n][c][t] = data[c][t]
    <2>1. t \in Times
        BY DEF TimesOf
    <2>2. PICK n \in Times : /\ out[n][c][t] + rest[c][t] = data[c][t]
                             /\ \A k \in Times \ {n} : out[k][c][t] = 0
        BY <1>1, <2>1 DEF RowsInv
    <2>3. out[n][c][t] \in Nat /\ rest[c][t] \in Nat
        BY <1>2, <2>1 DEF Series
    <2>4. out[n][c][t] <= data[c][t]
        BY <2>2, <2>3
    <2>5. (\E k \in Columns : Longest(k)) => out[n][c][t] = data[c][t]
        BY <1>3, <2>1, <2>2, <2>3
    <2>6. QED
        BY <2>2, <2>4, <2>5
<1>5. ASSUME NEW n \in Times, NEW t \in AllTimes(out[n]), NEW u \in AllTimes(out[n])
      PROVE  t - u < Period
    <2>1. out[n] \in Series
        BY <1>2
    <2>2. /\ t \in Times /\ \E c \in Columns : out[n][c][t] > 0
          /\ u \in Times /\ \E c \in Columns : out[n][c][u] > 0
        BY <2>1, TimesFacts
    <2>3. QED
        BY <1>1, <2>2 DEF RowsInv, Has
<1>6. QED
    BY <1>4, <1>5

(* All windows are written.                                                 *)
LEMMA WindowsEnd ==
    ASSUME IInv, pc = "windows", limit > Max(Fronts), ~ioerror, Period > 0
    PROVE  /\ \A c \in Columns : \A t \in TimesOf(data, c) :
                /\ \A n \in Times : out[n][c][t] \in {0, data[c][t]}
                /\ t <= Max(Fronts) => out[FileName(Own(t))][c][t] = data[c][t]
           /\ \A n \in Times : \A t, u \in AllTimes(out[n]) : t - u <= Period
<1>1. TypeOK /\ FormatInv /\ WindowsInv
    BY DEF IInv
<1>2. AllTimes(data) # {} /\ First \in Nat /\ Max(Fronts) \in Nat
    BY <1>1, FrontsFacts, Bounds DEF FormatInv
<1>3. \A n \in Times, c \in Columns, t \in Times :
        out[n][c][t] =
            IF \E w \in Times : /\ Begins(w) /\ w < limit /\ n = FileName(w)
                                /\ w <= t /\ t <= w + Period
            THEN data[c][t] ELSE 0
    BY <1>1 DEF WindowsInv
<1>4. limit \in Nat /\ Period \in Nat /\ out \in [Times -> Series] /\ data \in Series
    BY <1>1, Bounds DEF TypeOK
<1>5. ASSUME NEW c \in Columns, NEW t \in TimesOf(data, c)
      PROVE  /\ \A n \in Times : out[n][c][t] \in {0, data[c][t]}
             /\ t <= Max(Fronts) => out[FileName(Own(t))][c][t] = data[c][t]
    <2>1. t \in AllTimes(data) /\ t \in Times /\ t \in Nat
        BY Bounds DEF AllTimes, TimesOf
    <2>2. First <= t
        BY <1>1, <1>2, <2>1, FrontsFacts
    <2>3. /\ Own(t) \in Nat /\ First <= Own(t) /\ (Own(t) - First) % Period = 0
          /\ Own(t) <= t /\ t <= Own(t) + Period
        BY <1>2, <1>4, <2>1, <2>2, WindowPlace DEF Own, First
    <2>4. Own(t) \in Times /\ FileName(Own(t)) \in Times /\ Begins(Own(t))
        BY <2>1, <2>3, Bounds, Names DEF Times, Begins
    <2>5. ASSUME t <= Max(Fronts) PROVE Own(t) < limit
        BY <1>2, <1>4, <2>1, <2>3, <2>5
    <2>6. t <= Max(Fronts) => out[FileName(Own(t))][c][t] = data[c][t]
        BY <1>3, <2>1, <2>3, <2>4, <2>5
    <2>7. QED
        BY <1>3, <2>1, <2>6
<1>6. ASSUME NEW n \in Times, NEW t \in AllTimes(out[n]), NEW u \in AllTimes(out[n])
      PROVE  t - u <= Period
    <2>1. out[n] \in Series
        BY <1>4
    <2>2. /\ t \in Times /\ \E c \in Columns : out[n][c][t] > 0
          /\ u \in Times /\ \E c \in Columns : out[n][c][u] > 0
        BY <2>1, TimesFacts
    <2>3. PICK w \in Times : Begins(w) /\ n = FileName(w) /\ w <= t /\ t <= w + Period
        BY <1>3, <2>2
    <2>4. PICK v \in Times : Begins(v) /\ n = FileName(v) /\ v <= u /\ u <= v + Period
        BY <1>3, <2>2
    <2>5. w \in Nat /\ v \in Nat /\ t \in Nat /\ u \in Nat
        BY <2>2, Bounds
    <2>6. ~(w < v) /\ ~(v < w)
        BY <1>1, <1>2, <2>3, <2>4, <2>5, WindowOrder
    <2>7. QED
        BY <1>4, <2>3, <2>4, <2>5, <2>6
<1>7. QED
    BY <1>5, <1>6

LEMMA WrittenInv == IInv /\ Written => IInv'
<1> SUFFICES ASSUME IInv, Written PROVE IInv'
    OBVIOUS
<1>1. TypeOK /\ PlaceInv /\ CountInv /\ SizeInv /\ FormatInv
    BY DEF IInv
<1>2. /\ (pc = "txt" /\ row >= MaxLength) \/ (pc = "windows" /\ limit > Max(Fronts))
      /\ pc' = "done" /\ UNCHANGED <<command, reading, writing>>
    BY DEF Written, writeFrame
<1>3. PlaceInv' /\ CountInv' /\ SizeInv' /\ UnwrittenInv' /\ ReadOnce'
    BY <1>1, <1>2, ReadingOver
<1>4. TypeOK'
    BY <1>1, <1>2 DEF TypeOK, command, reading, writing
<1>5. FormatInv' /\ RowsInv' /\ LeftInv' /\ WindowsInv'
    BY <1>2 DEF FormatInv, RowsInv, LeftInv, WindowsInv
<1>6. UNCHANGED <<format, data, out, ioerror>> /\ pc = format
    BY <1>1, <1>2 DEF command, reading, writing, FormatInv
<1>7. RowsExported'
    <2>1. SUFFICES ASSUME format = "txt", Period > 0 PROVE RowsExported'
        BY <1>6 DEF RowsExported
    <2>2. pc = "txt" /\ row >= MaxLength
        BY <1>2, <1>6, <2>1
    <2>3. \A c : Longest(c)' <=> Longest(c)
        BY <1>6, SameData
    <2>4. \A c : TimesOf(data', c) = TimesOf(data, c)
        BY <1>6
    <2>5. \A n : AllTimes(out'[n]) = AllTimes(out[n])
        BY <1>6
    <2>6. QED
        BY <1>6, <2>1, <2>2, <2>3, <2>4, <2>5, RowsEnd DEF RowsExported
<1>8. WindowsExported'
    <2>1. SUFFICES ASSUME format = "windows", ~ioerror, Period > 0 PROVE WindowsExported'
        BY <1>6 DEF WindowsExported
    <2>2. pc = "windows" /\ limit > Max(Fronts)
        BY <1>2, <1>6, <2>1
    <2>3. (\A t : Own(t)' = Own(t)) /\ Max(Fronts)' = Max(Fronts)
        BY <1>6, SameData DEF Own, AllTimes, TimesOf, Max
    <2>4. \A c : TimesOf(data', c) = TimesOf(data, c)
        BY <1>6
    <2>5. \A n : AllTimes(out'[n]) = AllTimes(out[n])
        BY <1>6
    <2>6. QED
        BY <1>6, <2>1, <2>2, <2>3, <2>4, <2>5, WindowsEnd DEF WindowsExported
<1>9. QED
    BY <1>3, <1>4, <1>5, <1>7, <1>8 DEF IInv

LEMMA StutterInv == IInv /\ UNCHANGED vars => IInv'
<1> SUFFICES ASSUME IInv, UNCHANGED vars PROVE IInv'
    OBVIOUS
<1> USE DEF vars, command, reading, writing
<1>1. TypeOK' /\ PlaceInv' /\ SizeInv' /\ UnwrittenInv' /\ FormatInv'
    BY DEF IInv, TypeOK, PlaceInv, Passed, File, SizeInv, Size, Values, UnwrittenInv, FormatInv,
           AllTimes, TimesOf
<1>2. CountInv'
    BY SameReads DEF IInv, Reads, Asked, Passed
<1>3. RowsInv' /\ LeftInv'
    <2>1. RowsInv /\ LeftInv
        BY DEF IInv
    <2>2. RowsInv'
        BY <2>1 DEF RowsInv, Has
    <2>3. \A c : Values(rest, c)' = Values(rest, c)
        BY DEF Values
    <2>4. LeftInv'
        BY <2>1, <2>3, SameData DEF LeftInv
    <2>5. QED
        BY <2>2, <2>4
<1>4. WindowsInv'
    BY SameData DEF IInv, WindowsInv, Begins, Max
<1>5. ReadOnce'
    BY DEF IInv, ReadOnce, NoZeroLength, Sought, Asked
<1>6. RowsExported'
    BY SameData DEF IInv, RowsExported, AllTimes, TimesOf
<1>7. WindowsExported'
    <2>1. (\A t : Own(t)' = Own(t)) /\ Max(Fronts)' = Max(Fronts)
        BY SameData DEF Own, AllTimes, TimesOf, Max
    <2>2. QED
        BY <2>1 DEF IInv, WindowsExported, TimesOf, AllTimes
<1>8. QED
    BY <1>1, <1>2, <1>3, <1>4, <1>5, <1>6, <1>7 DEF IInv

-----------------------------------------------------------------------------
(* Theorems                                                                 *)

(* IInv holds in every state of an extraction: it is kept by every step of  *)
(* reading (messages of scanned files, positions of the index) and of       *)
(* writing (rows of txt, windows of json and bin), failures included.       *)
THEOREM ExtractionInvariant == Spec => []IInv
<1>1. IInv /\ [Next]_vars => IInv'
    <2> SUFFICES ASSUME IInv, [Next]_vars PROVE IInv'
        OBVIOUS
    <2>1. CASE UNCHANGED vars
        BY <2>1, StutterInv
    <2>2. CASE FileSkipped \/ OpenCrashes \/ OpenFile \/ ScanMessage \/ ReadPosition \/ PassPosition \/ FileEnd
        BY <2>2, FileSkippedInv, OpenCrashesInv, OpenFileInv, ScanMessageInv, ReadPositionInv,
           PassPositionInv, FileEndInv
    <2>3. CASE NothingFound \/ BeginWriting \/ TxtRow \/ TxtTerminates
        BY <2>3, NothingFoundInv, BeginWritingInv, TxtRowInv, TxtTerminatesInv
    <2>4. CASE WriteWindow \/ WindowLost \/ OpenThrows \/ Written
        BY <2>4, WriteWindowInv, WindowLostInv, OpenThrowsInv, WrittenInv
    <2>5. QED
        BY <2>1, <2>2, <2>3, <2>4 DEF Next
<1>2. QED
    BY <1>1, InitInv, PTL DEF Spec

(* The state of an extraction has its type; in particular no file is named  *)
(* for a time outside the times of the data.                                *)
THEOREM ExtractionTypeCorrect == Spec => []TypeOK
<1>1. IInv => TypeOK
    BY DEF IInv
<1>2. QED
    BY <1>1, ExtractionInvariant, PTL

(* Whatever the input files, each message asked for is in the series once,  *)
(* and no other: reading ends behind the last message of the last file, and *)
(* counts each message as it passes it.                                     *)
THEOREM EachReadOnce == Spec => []ReadOnce
<1>1. IInv => ReadOnce
    BY DEF IInv
<1>2. QED
    BY <1>1, ExtractionInvariant, PTL

(* A txt export never writes a value of one time to two files, nor a file   *)
(* twice, and is complete if one column has for each time as many values as *)
(* any other: each row takes one of its values.                             *)
THEOREM RowsComplete == Spec => []RowsExported
<1>1. IInv => RowsExported
    BY DEF IInv
<1>2. QED
    BY <1>1, ExtractionInvariant, PTL

(* A json or bin export has every value up to the latest first time of a    *)
(* column in the file of its window, and a file covers one window: a Unit   *)
(* is not longer than a Period, so the files of two windows have different  *)
(* names.                                                                   *)
THEOREM WindowsComplete == Spec => []WindowsExported
<1>1. IInv => WindowsExported
    BY DEF IInv
<1>2. QED
    BY <1>1, ExtractionInvariant, PTL
=============================================================================
