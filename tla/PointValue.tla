----------------------------- MODULE PointValue -----------------------------
(***************************************************************************)
(* From the position a user asks for to the bits of a GRIB message that    *)
(* become a value: pos_in_grid, value_by_raw and Message::extract_value,   *)
(* for one message.                                                        *)
(*                                                                         *)
(* Only where bits come from matters: the value is the interval of bits of *)
(* the data section (from byte 11 on) that end up in tbits under the mask. *)
(* Scaling is left out.  A position is counted in steps of 1/Sub of the    *)
(* increments dx and dy from the first point, which is in the upper left   *)
(* corner of the grids that pos_in_grid lets pass, and the corners of a    *)
(* grid are nx - 1 and ny - 1 increments apart.  value_by_raw adds floats: *)
(* its sum is off by up to Slack of those steps before it is truncated.    *)
(***************************************************************************)
EXTENDS Integers

CONSTANTS
    MaxSide,  \* bound: points along a parallel or a meridian
    Sub,      \* positions told apart per increment
    Slack,    \* bound: rounding error of value_by_raw, in the same steps
    Widths    \* bits per value

(* The error stays below one point, which float's 24 bits give for grids of *)
(* up to about a million points.                                            *)
ASSUME PointAssumption ==
    /\ MaxSide \in Nat \ {0} /\ Sub \in Nat \ {0} /\ Slack \in 0..(Sub - 1)
    /\ Widths \subseteq 0..255

VARIABLES
    msg,      \* the message: grid, size, width, and what its flags say
    lon, lat, \* position asked for
    correct,  \* is_correct_pos of it
    checked,  \* pos_in_grid is asked: not for messages found through the index
    pc,
    n,        \* value_by_raw
    bits,     \* bytes from the start of the data to the pointer of that name
    t_bits,   \* bits in tbits that the value has not used
    out       \* what extract_value returns

vars    == <<msg, lon, lat, correct, checked, pc, n, bits, t_bits, out>>
request == <<msg, lon, lat, correct, checked>>

Sides    == 1..MaxSide
NoIndex  == -1000000  \* numeric_limits<int>::min(), or UNDEFINED as an int
Messages == [grid : {"latlon", "other", "none"}, nx : Sides, ny : Sides, width : Widths,
             bitmap : BOOLEAN, simple : BOOLEAN]
Nothing  == [kind |-> "nothing", from |-> 0, to |-> 0]
Value(f) == [kind |-> "value", from |-> f, to |-> f + msg.width]
Other(k) == [kind |-> k, from |-> 0, to |-> 0]

Init ==
    /\ msg \in Messages /\ correct \in BOOLEAN /\ checked \in BOOLEAN
    /\ lon \in -1..(MaxSide * Sub) /\ lat \in -1..(MaxSide * Sub)
    /\ pc = "filter" /\ n = 0 /\ bits = 0 /\ t_bits = 0 /\ out = Nothing

-----------------------------------------------------------------------------
(* Mutant: the western edge is moved out by one step.                       *)
PosInGridShifted ==
    /\ msg.grid = "latlon"
    /\ lon \in -1..((msg.nx - 1) * Sub) /\ lat \in 0..((msg.ny - 1) * Sub)

(* Other grids have no pos_in_grid and count as not containing the position.*)
PosInGrid ==
    /\ msg.grid = "latlon"
    /\ lon \in 0..((msg.nx - 1) * Sub) /\ lat \in 0..((msg.ny - 1) * Sub)

(* Mutant: points are counted from 0.                                       *)
ValueByRawFromZero(e) ==
    LET sum == lon + msg.nx * lat + e
    IN  IF sum >= 0 THEN sum \div Sub ELSE -((-sum) \div Sub)

(* The sum of column and row is converted to int as a whole, so a position  *)
(* between two parallels moves along the row; e is the error of the floats. *)
ValueByRaw(e) ==
    LET sum == lon + Sub + msg.nx * lat + e
    IN  IF sum >= 0 THEN sum \div Sub ELSE -((-sum) \div Sub)

(* Rounding is monotone: 1 plus two terms that are not negative is at least *)
(* 1 in floats too.                                                         *)
Errors == {e \in -Slack..Slack : lon >= 0 /\ lat >= 0 => lon + msg.nx * lat + e >= 0}

(* Extract::__extract__: the message is passed over.                        *)
Refuse ==
    /\ pc = "filter" /\ (msg.grid = "none" \/ (checked /\ ~PosInGrid))
    /\ pc' = "done"
    /\ UNCHANGED <<request, n, bits, t_bits, out>>

Locate ==
    /\ pc = "filter" /\ msg.grid # "none" /\ (checked => PosInGrid)
    /\ IF correct /\ msg.grid = "latlon" THEN \E e \in Errors : n' = ValueByRaw(e)
                                         ELSE n' = NoIndex
    /\ pc' = "flags"
    /\ UNCHANGED <<request, bits, t_bits, out>>

Return(o) == pc' = "done" /\ out' = o /\ UNCHANGED <<request, n, bits, t_bits>>

(* Complex packing and harmonic coefficients give UNDEFINED, a field of     *)
(* width 0 its reference value.                                             *)
NotPacked ==
    /\ pc = "flags"
    /\ \/ ~msg.simple /\ Return(Other("undefined"))
       \/ msg.simple /\ msg.width = 0 /\ Return(Other("reference"))

(* With a bitmap jmask has no value, and bbits none unless n is a multiple  *)
(* of 8: UNDEFINED or any bits.                                             *)
WithBitmap ==
    /\ pc = "flags" /\ msg.simple /\ msg.width > 0 /\ msg.bitmap
    /\ \E k \in {"undefined", "any"} : Return(Other(k))

(* bits += 2*(n-1), whatever the width.                                     *)
Seek ==
    /\ pc = "flags" /\ msg.simple /\ msg.width > 0 /\ ~msg.bitmap
    /\ bits' = 2 * (n - 1) /\ t_bits' = 0
    /\ pc' = "pair"
    /\ UNCHANGED <<request, n, out>>

(* Mutant: the pointer stays on the two bytes.                              *)
ReadPairStays ==
    /\ pc = "pair"
    /\ t_bits' = IF msg.width > 8 THEN t_bits + 16 ELSE t_bits
    /\ pc' = "loop"
    /\ UNCHANGED <<request, n, bits, out>>

(* Two bytes at once for widths over 8.                                     *)
ReadPair ==
    /\ pc = "pair"
    /\ IF msg.width > 8 THEN bits' = bits + 2 /\ t_bits' = t_bits + 16
                        ELSE UNCHANGED <<bits, t_bits>>
    /\ pc' = "loop"
    /\ UNCHANGED <<request, n, out>>

(* Mutant: one byte more than needed.                                       *)
ReadByteMore ==
    /\ pc = "loop" /\ t_bits <= msg.width
    /\ bits' = bits + 1 /\ t_bits' = t_bits + 8
    /\ UNCHANGED <<request, pc, n, out>>

ReadByte ==
    /\ pc = "loop" /\ t_bits < msg.width
    /\ bits' = bits + 1 /\ t_bits' = t_bits + 8
    /\ UNCHANGED <<request, pc, n, out>>

(* tbits holds t_bits bits and ends where the pointer stands; the value is  *)
(* its first width bits.  (1 << width) - 1 overflows an int from 31 on, and *)
(* so does the offset of NoIndex.                                           *)
Mask ==
    /\ pc = "loop" /\ t_bits >= msg.width
    /\ Return(IF msg.width >= 31 \/ n = NoIndex THEN Other("any")
                                                ELSE Value(8 * bits - t_bits))

Next ==
    \/ Refuse \/ Locate \/ NotPacked \/ WithBitmap
    \/ Seek \/ ReadPair \/ ReadByte \/ Mask

Spec == Init /\ [][Next]_vars

-----------------------------------------------------------------------------
TypeOK ==
    /\ msg \in Messages /\ correct \in BOOLEAN /\ checked \in BOOLEAN /\ lon \in Int /\ lat \in Int
    /\ pc \in {"filter", "flags", "pair", "loop", "done"}
    /\ n \in Int /\ bits \in Int /\ t_bits \in 0..(msg.width + 7)
    /\ out \in [kind : {"nothing", "undefined", "reference", "any", "value"}, from : Int, to : Int]

Reading == pc \in {"pair", "loop"} \/ out.kind = "value"
Points  == msg.nx * msg.ny
Bytes   == (Points * msg.width + 7) \div 8
Point   == (lat \div Sub) * msg.nx + lon \div Sub + 1

(* value_by_raw of a correct position that pos_in_grid let pass numbers a   *)
(* point of the grid whatever the floats round to; on a parallel it is the  *)
(* point at or before the position or a neighbour of that one in the order  *)
(* of the values, between two parallels it may be a row further on.         *)
IndexInGrid ==
    correct /\ checked /\ pc \in {"flags", "pair", "loop"} =>
        /\ n \in 1..Points
        /\ Point - 1 <= n
        /\ n <= Point + (IF lat % Sub = 0 THEN 1 ELSE msg.nx + 1)

(* extract_value gives the bits of value n when it is the first or 16 bits  *)
(* wide, and for other widths below 31 a number of as many bits, however    *)
(* the bytes are fetched.                                                   *)
ValueBits ==
    out.kind = "value" =>
        /\ out.to - out.from = msg.width
        /\ msg.width = 16 \/ n = 1 => out = Value(msg.width * (n - 1))

(* For a correct position in the grid and values of 16 bits or more no byte *)
(* before or behind the data of the section is read.                        *)
InsideSection ==
    correct /\ checked /\ Reading /\ msg.width >= 16 => 0 <= bits /\ bits <= Bytes
=============================================================================
