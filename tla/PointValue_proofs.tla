-------------------------- MODULE PointValue_proofs --------------------------
(***************************************************************************)
(* Where the bits of a value come from, for grids of any size, positions   *)
(* told apart as finely as one likes, every width and every rounding error *)
(* below one point.                                                        *)
(*                                                                         *)
(* ValueBits rests on the pointer and the bits in tbits moving together    *)
(* (ReadInv), InsideSection on that and on IndexInGrid, which must be kept *)
(* to the end of the call.                                                 *)
(***************************************************************************)
EXTENDS PointValue, TLAPS

ReadInv ==
    /\ pc = "pair" => bits = 2 * (n - 1) /\ t_bits = 0
    /\ pc = "loop" => 8 * bits - t_bits = 16 * (n - 1)
    /\ out.kind = "value" => pc = "done" /\ 8 * bits - t_bits = 16 * (n - 1)
    /\ pc \in {"pair", "loop"} => msg.width > 0

NumberInv ==
    correct /\ checked /\ (pc \in {"flags", "pair", "loop"} \/ out.kind = "value") =>
        n \in 1..Points

IInv == TypeOK /\ ReadInv /\ ValueBits /\ IndexInGrid /\ NumberInv

LEMMA Constants ==
    /\ MaxSide \in Nat /\ Sub \in Nat /\ Sub > 0 /\ Slack \in 0..(Sub - 1)
    /\ Widths \subseteq 0..255
BY PointAssumption

LEMMA Bounded ==
    ASSUME msg \in Messages
    PROVE  msg.width \in 0..255 /\ msg.nx \in Nat \ {0} /\ msg.ny \in Nat \ {0}
<1>1. msg.width \in Widths /\ msg.nx \in Sides /\ msg.ny \in Sides
    BY DEF Messages
<1>2. msg.nx \in Nat \ {0} /\ msg.ny \in Nat \ {0}
    BY <1>1, Constants DEF Sides
<1>3. msg.width \in 0..255
    BY <1>1, Constants
<1>4. QED
    BY <1>2, <1>3

(* What division says about a position in the grid.                         *)
LEMMA Division ==
    ASSUME NEW s \in Nat, s > 0, NEW x \in Nat
    PROVE  /\ x \div s \in Nat /\ x % s \in 0..(s - 1)
           /\ x = s * (x \div s) + (x % s)
OBVIOUS

LEMMA Monotone ==
    ASSUME NEW a \in Nat, NEW b \in Nat, NEW c \in Nat, a <= b
    PROVE  a * c <= b * c /\ c * a <= c * b
OBVIOUS

LEMMA DivBounds ==
    ASSUME NEW s \in Nat, s > 0, NEW x \in Nat, NEW k \in Nat
    PROVE  /\ s * k <= x => k <= x \div s
           /\ x < s * (k + 1) => x \div s <= k
<1>1. x = s * (x \div s) + (x % s) /\ x \div s \in Nat /\ x % s \in 0..(s - 1)
    BY Division
<1>2. ASSUME s * k <= x, ~(k <= x \div s) PROVE FALSE
    <2>1. s * (x \div s + 1) <= s * k
        BY <1>1, <1>2, Monotone
    <2>2. QED
        BY <1>1, <1>2, <2>1
<1>3. ASSUME x < s * (k + 1), ~(x \div s <= k) PROVE FALSE
    <2>1. s * (k + 1) <= s * (x \div s)
        BY <1>1, <1>3, Monotone
    <2>2. QED
        BY <1>1, <1>3, <2>1
<1>4. QED
    BY <1>2, <1>3, <1>1

(* value_by_raw in the grid: the part of an increment that the position is  *)
(* beyond its meridian and its parallel is what the conversion drops or     *)
(* carries over into the column; the error adds less than one point to it.  *)
LEMMA InGrid ==
    ASSUME msg \in Messages, PosInGrid, NEW e \in Errors
    PROVE  /\ ValueByRaw(e) \in 1..Points
           /\ Point - 1 <= ValueByRaw(e)
           /\ ValueByRaw(e) <= Point + (IF lat % Sub = 0 THEN 1 ELSE msg.nx + 1)
<1> DEFINE nx == msg.nx
           ny == msg.ny
           q  == lat \div Sub
           r  == lat % Sub
           c  == lon \div Sub
           d  == lon % Sub
           sum == lon + Sub + nx * lat + e
<1>1. nx \in Nat /\ nx > 0 /\ ny \in Nat /\ ny > 0 /\ Sub \in Nat /\ Sub > 0
    BY Bounded, Constants
<1>2. lon \in Nat /\ lat \in Nat /\ lon <= (nx - 1) * Sub /\ lat <= (ny - 1) * Sub
    BY <1>1 DEF PosInGrid
<1>3. /\ q \in Nat /\ r \in 0..(Sub - 1) /\ lat = Sub * q + r
      /\ c \in Nat /\ d \in 0..(Sub - 1) /\ lon = Sub * c + d
    BY <1>1, <1>2, Division
<1>4. Point = q * nx + c + 1 /\ Points = nx * ny
    BY DEF Point, Points
<1>e. e \in Int /\ -Sub < e /\ e < Sub /\ lon + nx * lat + e >= 0
    BY <1>1, <1>2, Constants DEF Errors, nx
<1> HIDE DEF nx, ny, q, r, c, d
<1>5. Point \in Nat /\ Point > 0 /\ Points \in Nat
    <2>1. q * nx \in Nat /\ nx * ny \in Nat
        BY <1>1, <1>3
    <2>2. QED
        BY <1>3, <1>4, <2>1
<1>6. sum = Sub * Point + d + nx * r + e /\ sum \in Nat /\ Sub * 1 <= sum
    <2>1. nx * lat = Sub * (q * nx) + nx * r
        BY <1>1, <1>3
    <2>2. Sub * Point = Sub * (q * nx) + Sub * c + Sub
        BY <1>1, <1>3, <1>4
    <2>3. nx * lat \in Nat
        BY <1>1, <1>2
    <2>4. QED
        BY <1>1, <1>2, <1>3, <1>e, <2>1, <2>2, <2>3
<1>7. ValueByRaw(e) = sum \div Sub
    BY <1>6 DEF ValueByRaw, nx
<1>8. nx * r \in Nat /\ nx * r <= nx * (Sub - 1)
    BY <1>1, <1>3, Monotone
<1>9. Point - 1 <= ValueByRaw(e)
    <2>1. Sub * (Point - 1) = Sub * Point - Sub
        BY <1>1, <1>5
    <2>2. Sub * (Point - 1) <= sum
        BY <1>1, <1>3, <1>5, <1>6, <1>8, <1>e, <2>1
    <2>3. Point - 1 \in Nat
        BY <1>5
    <2> HIDE DEF sum
    <2>4. QED
        BY <1>1, <1>6, <1>7, <2>2, <2>3, DivBounds
<1>10. ValueByRaw(e) <= Point + nx + 1
    <2>1. /\ nx * (Sub - 1) = Sub * nx - nx
          /\ Sub * (Point + nx + 1 + 1) = Sub * Point + Sub * nx + Sub + Sub
        BY <1>1, <1>5
    <2>2. sum < Sub * (Point + nx + 1 + 1)
        BY <1>1, <1>3, <1>5, <1>6, <1>8, <1>e, <2>1
    <2> HIDE DEF sum
    <2>3. Point + nx + 1 \in Nat
        BY <1>1, <1>5
    <2>4. QED
        BY <1>1, <1>6, <1>7, <2>2, <2>3, DivBounds
<1>11. ASSUME r = 0 PROVE ValueByRaw(e) <= Point + 1
    <2>1. Sub * (Point + 1 + 1) = Sub * Point + Sub + Sub /\ nx * r = 0
        BY <1>1, <1>5, <1>11
    <2>2. sum < Sub * (Point + 1 + 1)
        BY <1>1, <1>3, <1>5, <1>6, <1>e, <2>1
    <2>3. Point + 1 \in Nat
        BY <1>5
    <2> HIDE DEF sum
    <2>4. QED
        BY <1>1, <1>6, <1>7, <2>2, <2>3, DivBounds
<1>12. ValueByRaw(e) <= Points
    <2>1. nx * lat <= nx * ((ny - 1) * Sub)
        BY <1>1, <1>2, Monotone
    <2>2. /\ (nx - 1) * Sub = nx * Sub - Sub
          /\ nx * ((ny - 1) * Sub) = Sub * (nx * ny) - nx * Sub
          /\ Sub * (Points + 1) = Sub * (nx * ny) + Sub
        BY <1>1, <1>4
    <2>3. sum < Sub * (Points + 1)
        BY <1>1, <1>2, <1>4, <1>5, <1>e, <2>1, <2>2
    <2> HIDE DEF sum
    <2>4. QED
        BY <1>1, <1>5, <1>6, <1>7, <2>3, DivBounds
<1>13. ValueByRaw(e) \in Nat /\ 1 <= ValueByRaw(e)
    <2> HIDE DEF sum
    <2>1. QED
        BY <1>1, <1>6, <1>7, Division, DivBounds
<1>14. QED
    BY <1>1, <1>5, <1>9, <1>10, <1>11, <1>12, <1>13 DEF nx, r

LEMMA InitInv == Init => IInv
<1> SUFFICES ASSUME Init PROVE IInv
    OBVIOUS
<1>1. msg.width \in 0..255
    BY Bounded DEF Init
<1>2. TypeOK
    BY <1>1, Constants DEF Init, TypeOK, Nothing
<1>3. QED
    BY <1>2 DEF Init, IInv, ReadInv, ValueBits, IndexInGrid, NumberInv, Nothing

LEMMA StepInv == IInv /\ [Next]_vars => IInv'
<1> SUFFICES ASSUME IInv, [Next]_vars PROVE IInv'
    OBVIOUS
<1> USE DEF IInv, request
<1>0. /\ msg \in Messages /\ msg.width \in 0..255 /\ n \in Int /\ bits \in Int /\ t_bits \in Int
      /\ msg.nx \in Nat /\ msg.ny \in Nat
    BY Bounded DEF TypeOK
<1>1. CASE Refuse
    BY <1>1 DEF Refuse, TypeOK, ReadInv, ValueBits, IndexInGrid, NumberInv, Value, Points, Point
<1>2. CASE Locate
    <2>1. /\ pc = "filter" /\ pc' = "flags" /\ (checked => PosInGrid)
          /\ UNCHANGED <<msg, lon, lat, correct, checked, bits, t_bits, out>>
        BY <1>2 DEF Locate
    <2>2. n' \in Int
        <3>1. msg.nx * lat \in Int /\ lon \in Int /\ Sub \in Nat /\ Sub > 0 /\ Slack \in Nat
            BY <1>0, Constants DEF TypeOK
        <3>2. ASSUME NEW e \in Errors PROVE ValueByRaw(e) \in Int
            <4>1. e \in Int
                BY <3>1 DEF Errors
            <4>2. QED
                BY <3>1, <4>1 DEF ValueByRaw
        <3>3. QED
            BY <1>2, <3>2 DEF Locate, NoIndex
    <2>3. TypeOK'
        BY <2>1, <2>2 DEF TypeOK
    <2>4. out.kind # "value"
        BY <2>1 DEF ReadInv
    <2>5. ReadInv' /\ ValueBits'
        BY <2>1, <2>4 DEF ReadInv, ValueBits
    <2>6. IndexInGrid' /\ NumberInv'
        <3>1. ASSUME correct, checked
              PROVE  /\ n' \in 1..Points /\ Point - 1 <= n'
                     /\ n' <= Point + (IF lat % Sub = 0 THEN 1 ELSE msg.nx + 1)
            <4>1. PICK e \in Errors : n' = ValueByRaw(e)
                BY <1>2, <2>1, <3>1 DEF Locate, PosInGrid
            <4>2. QED
                BY <1>0, <2>1, <3>1, <4>1, InGrid
        <3>2. QED
            BY <2>1, <3>1 DEF IndexInGrid, NumberInv, Point, Points
    <2>7. QED
        BY <2>3, <2>5, <2>6
<1>3. ASSUME NEW o, Return(o), pc = "flags", o.kind # "value",
             o \in [kind : {"undefined", "reference", "any"}, from : Int, to : Int]
      PROVE  IInv'
    BY <1>3 DEF Return, TypeOK, ReadInv, ValueBits, IndexInGrid, NumberInv, Points, Point
<1>4. CASE NotPacked
    BY <1>3, <1>4 DEF NotPacked, Other
<1>5. CASE WithBitmap
    BY <1>3, <1>5 DEF WithBitmap, Other
<1>6. CASE Seek
    <2>1. TypeOK' /\ ReadInv'
        BY <1>0, <1>6 DEF Seek, TypeOK, ReadInv
    <2>2. QED
        BY <2>1, <1>6 DEF Seek, ReadInv, ValueBits, IndexInGrid, NumberInv, Points, Point
<1>7. CASE ReadPair
    <2>1. TypeOK' /\ ReadInv'
        BY <1>0, <1>7 DEF ReadPair, TypeOK, ReadInv
    <2>2. QED
        BY <2>1, <1>7 DEF ReadPair, ReadInv, ValueBits, IndexInGrid, NumberInv, Points, Point
<1>8. CASE ReadByte
    <2>1. TypeOK' /\ ReadInv'
        BY <1>0, <1>8 DEF ReadByte, TypeOK, ReadInv
    <2>2. QED
        BY <2>1, <1>8 DEF ReadByte, ReadInv, ValueBits, IndexInGrid, NumberInv, Points, Point
<1>9. CASE Mask
    <2>1. /\ pc = "loop" /\ pc' = "done" /\ UNCHANGED <<msg, lon, lat, correct, checked, n, bits, t_bits>>
          /\ 8 * bits - t_bits = 16 * (n - 1)
          /\ out' \in {Other("any"), Value(16 * (n - 1))}
        BY <1>9 DEF Mask, Return, ReadInv
    <2>2. TypeOK'
        BY <1>0, <2>1 DEF TypeOK, Other, Value
    <2>3. ReadInv' /\ IndexInGrid' /\ NumberInv'
        BY <2>1 DEF ReadInv, IndexInGrid, NumberInv, Points, Point
    <2>4. ValueBits'
        <3>1. ASSUME msg.width = 16 \/ n = 1 PROVE msg.width * (n - 1) = 16 * (n - 1)
            BY <1>0, <3>1
        <3>2. 16 * (n - 1) \in Int /\ msg.width \in Int
            BY <1>0
        <3>3. QED
            BY <2>1, <3>1, <3>2 DEF ValueBits, Other, Value
    <2>5. QED
        BY <2>2, <2>3, <2>4
<1>10. CASE UNCHANGED vars
    BY <1>10 DEF vars, TypeOK, ReadInv, ValueBits, IndexInGrid, NumberInv, Value, Points, Point
<1>11. QED
    BY <1>1, <1>2, <1>4, <1>5, <1>6, <1>7, <1>8, <1>9, <1>10 DEF Next

(* Bytes is large enough for what is read of values of 16 bits or more.     *)
LEMMA Inside == IInv => InsideSection
<1> SUFFICES ASSUME IInv, correct, checked, Reading, msg.width >= 16
             PROVE  0 <= bits /\ bits <= Bytes
    BY DEF InsideSection
<1>1. /\ msg.width \in Nat /\ bits \in Int /\ t_bits \in 0..(msg.width + 7)
      /\ msg.nx \in Nat /\ msg.ny \in Nat
    BY Bounded DEF IInv, TypeOK
<1>2. n \in 1..Points /\ 8 * bits - t_bits = 16 * (n - 1) /\ Points \in Nat
    BY <1>1 DEF IInv, NumberInv, ReadInv, Reading, Points
<1>3. 16 * (n - 1) <= msg.width * (n - 1) /\ msg.width * n <= msg.width * Points
    BY <1>1, <1>2, Monotone
<1>4. msg.width * (n - 1) = msg.width * n - msg.width
    BY <1>1, <1>2
<1>5. msg.width * Points = Points * msg.width /\ msg.width * Points \in Nat
    BY <1>1, <1>2
<1>6. bits \in Nat /\ 8 * bits <= Points * msg.width + 7 /\ Points * msg.width + 7 \in Nat
    BY <1>1, <1>2, <1>3, <1>4, <1>5
<1>7. QED
    BY <1>6, DivBounds DEF Bytes

(* What extract_value does with one message, for every message.             *)
THEOREM CallInvariant == Spec => []IInv
BY InitInv, StepInv, PTL DEF Spec

(* The state of one call keeps its type, and tbits never holds a byte more  *)
(* than the width needs.                                                    *)
THEOREM CallTypeCorrect == Spec => []TypeOK
<1>1. IInv => TypeOK
    BY DEF IInv
<1> QED
    BY CallInvariant, <1>1, PTL

(* value_by_raw numbers a point of the grid for every correct position in   *)
(* it, for every rounding error below one point: the one at or before it on *)
(* a parallel or a neighbour of that one, and between two parallels at most *)
(* a row and a point further on.                                            *)
THEOREM PointOfTheGrid == Spec => []IndexInGrid
<1>1. IInv => IndexInGrid
    BY DEF IInv
<1> QED
    BY CallInvariant, <1>1, PTL

(* extract_value takes the bits of value n for n = 1 and for 16 bits, and   *)
(* as many bits as a value has for every width below 31.                    *)
THEOREM BitsOfTheValue == Spec => []ValueBits
<1>1. IInv => ValueBits
    BY DEF IInv
<1> QED
    BY CallInvariant, <1>1, PTL

(* extract_value reads nothing outside the data of its section for values   *)
(* of 16 bits or more and positions in the grid.                            *)
THEOREM StaysInSection == Spec => []InsideSection
BY CallInvariant, Inside, PTL
=============================================================================
