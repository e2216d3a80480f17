------------------------- MODULE SocketSharing_proofs -------------------------
(***************************************************************************)
(* Proofs about SocketSharing, for any number of sockets, connections and  *)
(* descriptor numbers.  OwnConnection needs to know that a Socket which is *)
(* being assigned from is at rest (AssignInv) and that blocks in use have  *)
(* a number (BlockInv).  LeakOnlyByRace is not inductive: a number must be *)
(* held by a Socket at rest (OpenInv), one that is about to give its share *)
(* up is not enough.                                                       *)
(***************************************************************************)
EXTENDS SocketSharing, TLAPS

BlockInv ==
    /\ \A b \in 1..made : number[b] \in Fds
    /\ \A h \in Holders : held[h] \in 0..made

AssignInv ==
    \A h \in Holders : /\ pc[h] = "take" => from[h] # h /\ pc[from[h]] = "idle"
                       /\ pc[h] # "take" => from[h] = h

OpenInv ==
    \A n \in Fds :
        table[n] # 0 => \/ table[n] \in raced
                        \/ \E h \in Holders : held[h] # 0 /\ pc[h] = "idle" /\ Descriptor(h) = n

IInv == TypeOK /\ BlockInv /\ AssignInv /\ OwnConnection /\ OpenInv

LEMMA Bounds == MaxBlocks \in Nat /\ Fds \subseteq Nat /\ -1 \notin Fds /\ 0 \notin Blocks
BY SharingAssumption DEF Blocks

LEMMA InitInv == Init => IInv
BY Bounds DEF Init, IInv, TypeOK, BlockInv, AssignInv, OwnConnection, OpenInv, Blocks, Descriptor

(* A Socket that holds a block has a number of the table.                   *)
LEMMA Numbered ==
    ASSUME IInv, NEW h \in Holders, held[h] # 0
    PROVE  /\ held[h] \in 1..made /\ held[h] \in Blocks /\ made \in 0..MaxBlocks
           /\ Descriptor(h) = number[held[h]] /\ Descriptor(h) \in Fds
BY Bounds DEF IInv, TypeOK, BlockInv, Descriptor, Blocks

(* A new connection gets a free number: no Socket at rest uses it.          *)
LEMMA MakeInv ==
    ASSUME IInv, NEW h \in Holders, NEW fd \in Fds, Make(h, fd)
    PROVE  IInv'
<1> USE DEF Make
<1>1. /\ made \in 0..MaxBlocks /\ made' = made + 1 /\ made' \in Blocks /\ made' # 0
      /\ table[fd] = 0 /\ pc[h] = "idle"
    BY Bounds DEF IInv, TypeOK, Blocks, FreeFds, Mine
<1>2. TypeOK'
    BY <1>1 DEF IInv, TypeOK
<1>3. /\ \A x \in Holders : x # h => held'[x] = held[x]
      /\ held'[h] = made' /\ number'[made'] = fd
      /\ \A b \in 1..made : number'[b] = number[b] /\ b # made' /\ b \in Blocks
    BY <1>1, Bounds DEF IInv, TypeOK, Blocks
<1>4. BlockInv'
    <2>1. \A b \in 1..made' : b \in 1..made \/ b = made'
        BY <1>1
    <2>2. \A b \in 1..made' : number'[b] \in Fds
        BY <1>3, <2>1 DEF IInv, BlockInv
    <2>3. \A x \in Holders : held'[x] \in 0..made'
        BY <1>1, <1>3 DEF IInv, BlockInv
    <2>4. QED
        BY <2>2, <2>3 DEF BlockInv
<1>5. AssignInv'
    BY DEF IInv, AssignInv
<1>6. \A x \in Holders : x # h /\ held[x] # 0 =>
          Descriptor(x)' = Descriptor(x) /\ Descriptor(x) \in Fds
    BY <1>3, Numbered DEF Descriptor
<1>7. Descriptor(h)' = fd
    BY <1>1, <1>3 DEF Descriptor
<1>8. table'[fd] = made' /\ \A n \in Fds : n # fd => table'[n] = table[n]
    BY DEF IInv, TypeOK
<1>9. OwnConnection'
    <2> SUFFICES ASSUME cut' = {}, NEW x \in Holders, held'[x] # 0, pc'[x] = "idle"
                 PROVE  table'[Descriptor(x)'] = held'[x]
        BY DEF OwnConnection
    <2>1. CASE x = h
        BY <2>1, <1>3, <1>7, <1>8
    <2>2. CASE x # h
        BY <2>2, <1>1, <1>3, <1>6, <1>8 DEF IInv, OwnConnection
    <2>3. QED
        BY <2>1, <2>2
<1>10. OpenInv'
    <2> SUFFICES ASSUME NEW n \in Fds, table'[n] # 0, table'[n] \notin raced'
                 PROVE  \E x \in Holders : held'[x] # 0 /\ pc'[x] = "idle" /\ Descriptor(x)' = n
        BY DEF OpenInv
    <2>1. CASE n = fd
        BY <2>1, <1>1, <1>3, <1>7
    <2>2. CASE n # fd
        <3>1. PICK x \in Holders : held[x] # 0 /\ pc[x] = "idle" /\ Descriptor(x) = n
            BY <2>2, <1>8 DEF IInv, OpenInv
        <3>2. x # h
            BY <3>1
        <3>3. QED
            BY <3>1, <3>2, <1>3, <1>6
    <2>3. QED
        BY <2>1, <2>2
<1>11. QED
    BY <1>2, <1>4, <1>5, <1>9, <1>10 DEF IInv

(* h takes over the block of g, which is at rest and keeps it or not; h was *)
(* empty, had closed its number or had the same one.                        *)
LEMMA TakeInv ==
    ASSUME IInv, NEW h \in Holders, NEW g \in Holders, h # g, pc[g] = "idle",
           held' \in [Holders -> {0} \cup Blocks],
           held'[h] = held[g], held'[g] \in {0, held[g]},
           \A x \in Holders \ {h, g} : held'[x] = held[x],
           pc' = [pc EXCEPT ![h] = "idle"], from' = [from EXCEPT ![h] = h],
           \A x \in Holders : pc[x] = "take" => x = h \/ from[x] # h,
           held[h] = 0 \/ pc[h] # "idle" \/ Descriptor(h) = Descriptor(g),
           UNCHANGED <<number, table, made, cut, raced>>
    PROVE  IInv'
<1>1. TypeOK'
    BY DEF IInv, TypeOK
<1>2. BlockInv'
    <2>1. made \in Nat /\ \A x \in Holders : held'[x] \in {0, held[g], held[x]}
        BY Bounds DEF IInv, TypeOK, Blocks
    <2>2. QED
        BY <2>1 DEF IInv, BlockInv
<1>3. /\ pc'[h] = "idle" /\ pc'[g] = "idle"
      /\ \A x \in Holders : x # h => pc'[x] = pc[x] /\ from'[x] = from[x]
    BY DEF IInv, TypeOK
<1>4. AssignInv'
    <2>0. \A x \in Holders : pc'[x] # "take" => from'[x] = x
        BY <1>3 DEF IInv, TypeOK, AssignInv
    <2> SUFFICES ASSUME NEW x \in Holders, pc'[x] = "take"
                 PROVE  from'[x] # x /\ pc'[from'[x]] = "idle"
        BY <2>0 DEF AssignInv
    <2>1. x # h /\ pc[x] = "take" /\ from'[x] = from[x] /\ from[x] \in Holders
        BY <1>3 DEF IInv, TypeOK
    <2>2. from[x] # x /\ pc[from[x]] = "idle" /\ from[x] # h
        BY <2>1 DEF IInv, AssignInv
    <2>3. QED
        BY <1>3, <2>1, <2>2
<1>5. \A x \in Holders : held'[x] # 0 =>
          \E y \in Holders : /\ held[y] = held'[x] /\ Descriptor(y) = Descriptor(x)'
                             /\ pc'[x] = "idle" => pc[y] = "idle"
    <2> SUFFICES ASSUME NEW x \in Holders, held'[x] # 0
                 PROVE  \E y \in Holders : /\ held[y] = held'[x]
                                           /\ Descriptor(y) = Descriptor(x)'
                                           /\ pc'[x] = "idle" => pc[y] = "idle"
        OBVIOUS
    <2>1. CASE x = h
        <3>1. held[g] = held'[x] /\ Descriptor(g) = Descriptor(x)'
            BY <2>1 DEF Descriptor
        <3>2. QED
            BY <3>1
    <2>2. CASE x # h
        <3>1. held[x] = held'[x] /\ Descriptor(x) = Descriptor(x)'
            BY <2>2 DEF Descriptor
        <3>2. QED
            BY <1>3, <2>2, <3>1
    <2>3. QED
        BY <2>1, <2>2
<1>6. OwnConnection'
    BY <1>5 DEF IInv, OwnConnection
<1>7. OpenInv'
    <2> SUFFICES ASSUME NEW n \in Fds, table[n] # 0, table[n] \notin raced
                 PROVE  \E x \in Holders : held'[x] # 0 /\ pc'[x] = "idle" /\ Descriptor(x)' = n
        BY DEF OpenInv
    <2>1. PICK y \in Holders : held[y] # 0 /\ pc[y] = "idle" /\ Descriptor(y) = n
        BY DEF IInv, OpenInv
    <2>2. CASE y \in {h, g}
        <3>1. Descriptor(g) = n
            BY <2>1, <2>2
        <3>2. held[g] # 0
            BY <3>1, Bounds DEF Descriptor
        <3>3. held'[h] # 0 /\ Descriptor(h)' = n
            BY <3>1, <3>2 DEF Descriptor
        <3>4. QED
            BY <1>3, <3>3
    <2>3. CASE y \notin {h, g}
        <3>1. held'[y] # 0 /\ Descriptor(y)' = n
            BY <2>1, <2>3 DEF Descriptor
        <3>2. QED
            BY <1>3, <2>1, <2>3, <3>1
    <2>4. QED
        BY <2>2, <2>3
<1>8. QED
    BY <1>1, <1>2, <1>4, <1>6, <1>7 DEF IInv

(* Copy and move constructors, the second half of operator=, and operator=  *)
(* on equal numbers.                                                        *)
LEMMA TakeSteps ==
    ASSUME IInv, NEW h \in Holders,
           \/ \E g \in Holders, moving \in BOOLEAN : Construct(h, g, moving)
           \/ \E moving \in BOOLEAN : AssignTake(h, moving)
           \/ \E g \in Holders : AssignEqual(h, g)
    PROVE  IInv'
<1>0. /\ held \in [Holders -> {0} \cup Blocks] /\ pc \in [Holders -> {"idle", "take", "release"}]
      /\ from \in [Holders -> Holders]
    BY DEF IInv, TypeOK
<1>1. ASSUME NEW g \in Holders, NEW moving \in BOOLEAN, Construct(h, g, moving)
      PROVE  IInv'
    <2> USE <1>0, <1>1 DEF Construct, Mine
    <2>1. h # g /\ pc[g] = "idle" /\ pc[h] = "idle" /\ held[h] = 0
        OBVIOUS
    <2>2. held' \in [Holders -> {0} \cup Blocks]
        OBVIOUS
    <2>3. /\ held'[h] = held[g] /\ held'[g] \in {0, held[g]}
          /\ \A x \in Holders \ {h, g} : held'[x] = held[x]
        OBVIOUS
    <2>4. \A x \in Holders : pc[x] = "take" => x = h \/ from[x] # h
        OBVIOUS
    <2>5. pc' = [pc EXCEPT ![h] = "idle"] /\ from' = [from EXCEPT ![h] = h]
        BY <2>1 DEF IInv, AssignInv
    <2>6. QED
        BY <2>1, <2>2, <2>3, <2>4, <2>5, TakeInv
<1>2. ASSUME NEW moving \in BOOLEAN, AssignTake(h, moving)
      PROVE  IInv'
    <2> USE <1>0, <1>2 DEF AssignTake
    <2> DEFINE g == from[h]
    <2>1. g \in Holders /\ h # g /\ pc[g] = "idle" /\ pc[h] = "take"
        BY DEF IInv, AssignInv
    <2>2. held' \in [Holders -> {0} \cup Blocks]
        OBVIOUS
    <2>3. /\ held'[h] = held[g] /\ held'[g] \in {0, held[g]}
          /\ \A x \in Holders \ {h, g} : held'[x] = held[x]
        BY <2>1
    <2>4. \A x \in Holders : pc[x] = "take" => x = h \/ from[x] # h
        BY <2>1 DEF IInv, AssignInv
    <2> HIDE DEF g
    <2>5. QED
        BY <2>1, <2>2, <2>3, <2>4, TakeInv
<1>3. ASSUME NEW g \in Holders, AssignEqual(h, g)
      PROVE  IInv'
    <2> USE <1>0, <1>3 DEF AssignEqual, Mine
    <2>1. h # g /\ pc[g] = "idle" /\ pc[h] = "idle" /\ Descriptor(h) = Descriptor(g)
        OBVIOUS
    <2>2. held' \in [Holders -> {0} \cup Blocks]
        OBVIOUS
    <2>3. /\ held'[h] = held[g] /\ held'[g] \in {0, held[g]}
          /\ \A x \in Holders \ {h, g} : held'[x] = held[x]
        BY <2>1
    <2>4. \A x \in Holders : pc[x] = "take" => x = h \/ from[x] # h
        OBVIOUS
    <2>5. pc' = [pc EXCEPT ![h] = "idle"] /\ from' = [from EXCEPT ![h] = h]
        BY <2>1 DEF IInv, AssignInv
    <2>6. UNCHANGED <<number, table, made, cut, raced>>
        OBVIOUS
    <2> HIDE <1>3 DEF AssignEqual, Mine
    <2>7. QED
        BY <2>1, <2>2, <2>3, <2>4, <2>5, <2>6, TakeInv
<1>4. QED
    BY <1>1, <1>2, <1>3

(* h, at rest until now, closes its number and starts to give up its share: *)
(* nobody else at rest may use the number, unless the block counts as cut.  *)
LEMMA CloseInv ==
    ASSUME IInv, NEW h \in Holders, Mine(h), held[h] # 0, CloseFd(Descriptor(h)),
           pc' \in [Holders -> {"idle", "take", "release"}], from' \in [Holders -> Holders],
           AssignInv',
           \A x \in Holders \ {h} : pc'[x] = pc[x],
           cut' \subseteq Blocks, cut \subseteq cut',
           cut' = {} => Sharers(h) = {} /\ pc'[h] # "idle",
           raced' \subseteq {0} \cup Blocks, raced \subseteq raced',
           UNCHANGED <<held, number, made>>
    PROVE  IInv'
<1>1. /\ Descriptor(h) \in Fds /\ pc[h] = "idle"
      /\ table'[Descriptor(h)] = 0
      /\ \A n \in Fds : n # Descriptor(h) => table'[n] = table[n]
    BY Numbered DEF CloseFd, Mine
<1>2. TypeOK'
    BY DEF IInv, TypeOK, CloseFd
<1>3. BlockInv'
    BY DEF IInv, BlockInv
<1>4. \A x \in Holders : Descriptor(x)' = Descriptor(x)
    BY DEF Descriptor
<1>5. OwnConnection'
    <2> SUFFICES ASSUME cut' = {}, NEW x \in Holders, held[x] # 0, pc'[x] = "idle"
                 PROVE  table'[Descriptor(x)] = held[x]
        BY <1>4 DEF OwnConnection
    <2>1. cut = {} /\ x # h /\ pc[x] = "idle" /\ held[x] # held[h]
        BY DEF Sharers
    <2>2. table[Descriptor(x)] = held[x] /\ table[Descriptor(h)] = held[h]
        BY <1>1, <2>1 DEF IInv, OwnConnection
    <2>3. Descriptor(x) # Descriptor(h) /\ Descriptor(x) \in Fds
        BY <2>1, <2>2, Numbered
    <2>4. QED
        BY <1>1, <2>2, <2>3
<1>6. OpenInv'
    <2> SUFFICES ASSUME NEW n \in Fds, table'[n] # 0, table'[n] \notin raced'
                 PROVE  \E x \in Holders : held[x] # 0 /\ pc'[x] = "idle" /\ Descriptor(x) = n
        BY <1>4 DEF OpenInv
    <2>1. n # Descriptor(h) /\ table[n] # 0 /\ table[n] \notin raced
        BY <1>1
    <2>2. PICK x \in Holders : held[x] # 0 /\ pc[x] = "idle" /\ Descriptor(x) = n
        BY <2>1 DEF IInv, OpenInv
    <2>3. QED
        BY <2>1, <2>2
<1>7. QED
    BY <1>2, <1>3, <1>5, <1>6 DEF IInv

(* Who starts to give up a share is not assigned from.                      *)
LEMMA LeavesRest ==
    ASSUME IInv, NEW h \in Holders, Mine(h), NEW s \in {"take", "release"}, NEW g \in Holders,
           s = "take" => h # g /\ Mine(g), s = "release" => g = h,
           pc' = [pc EXCEPT ![h] = s], from' = [from EXCEPT ![h] = g]
    PROVE  /\ AssignInv'
           /\ pc' \in [Holders -> {"idle", "take", "release"}] /\ from' \in [Holders -> Holders]
           /\ pc'[h] = s /\ \A x \in Holders \ {h} : pc'[x] = pc[x]
<1>1. /\ pc' \in [Holders -> {"idle", "take", "release"}] /\ from' \in [Holders -> Holders]
      /\ pc'[h] = s /\ from'[h] = g
      /\ \A x \in Holders \ {h} : pc'[x] = pc[x] /\ from'[x] = from[x] /\ from[x] # h
    BY DEF IInv, TypeOK, Mine
<1>2. AssignInv'
    <2> SUFFICES ASSUME NEW x \in Holders
                 PROVE  /\ pc'[x] = "take" => from'[x] # x /\ pc'[from'[x]] = "idle"
                        /\ pc'[x] # "take" => from'[x] = x
        BY DEF AssignInv
    <2>1. CASE x = h
        BY <1>1, <2>1 DEF Mine
    <2>2. CASE x # h
        BY <1>1, <2>2 DEF IInv, AssignInv, TypeOK
    <2>3. QED
        BY <2>1, <2>2
<1>3. QED
    BY <1>1, <1>2

LEMMA AssignCloseInv ==
    ASSUME IInv, NEW h \in Holders, NEW g \in Holders, AssignClose(h, g)
    PROVE  IInv'
<1> USE DEF AssignClose
<1>1. /\ AssignInv' /\ pc'[h] = "take" /\ \A x \in Holders \ {h} : pc'[x] = pc[x]
      /\ pc' \in [Holders -> {"idle", "take", "release"}] /\ from' \in [Holders -> Holders]
    BY LeavesRest
<1>2. held[h] \in Blocks /\ cut \subseteq Blocks /\ raced \subseteq {0} \cup Blocks
    BY Numbered DEF IInv, TypeOK
<1>3. cut' \subseteq Blocks /\ cut \subseteq cut' /\ (cut' = {} => Sharers(h) = {})
    BY <1>2
<1>4. QED
    BY <1>1, <1>2, <1>3, CloseInv

LEMMA BindFailsInv == ASSUME IInv, NEW h \in Holders, BindFails(h) PROVE IInv'
<1> USE DEF BindFails
<1>1. AssignInv'
    BY DEF IInv, AssignInv
<1>2. held[h] \in Blocks /\ cut \subseteq Blocks /\ raced \subseteq {0} \cup Blocks
    BY Numbered DEF IInv, TypeOK
<1>3. cut' \subseteq Blocks /\ cut \subseteq cut' /\ cut' # {}
    BY <1>2
<1>4. pc' \in [Holders -> {"idle", "take", "release"}] /\ from' \in [Holders -> Holders]
    BY DEF IInv, TypeOK
<1>5. QED
    BY <1>1, <1>2, <1>3, <1>4, CloseInv

(* ~Socket: the last share closes the number; otherwise some sharer at rest *)
(* still has it, or the connection counts as raced.                         *)
LEMMA DestroyTestInv == ASSUME IInv, NEW h \in Holders, DestroyTest(h) PROVE IInv'
<1> USE DEF DestroyTest
<1>1. /\ AssignInv' /\ pc'[h] = "release" /\ \A x \in Holders \ {h} : pc'[x] = pc[x]
      /\ pc' \in [Holders -> {"idle", "take", "release"}] /\ from' \in [Holders -> Holders]
    <2>1. from' = [from EXCEPT ![h] = h]
        BY DEF IInv, TypeOK, AssignInv, Mine
    <2>2. QED
        BY <2>1, LeavesRest
<1>2. /\ held[h] \in Blocks /\ cut \subseteq Blocks /\ pc[h] = "idle"
      /\ Descriptor(h) = number[held[h]] /\ Descriptor(h) \in Fds
    BY Numbered DEF IInv, TypeOK, Mine
<1>3. raced' \subseteq {0} \cup Blocks /\ raced \subseteq raced'
    BY <1>2 DEF IInv, TypeOK
<1>4. CASE Sharers(h) = {}
    BY <1>1, <1>2, <1>3, <1>4, CloseInv
<1>5. CASE Sharers(h) # {}
    <2>1. table' = table
        BY <1>5
    <2>2. TypeOK'
        BY <1>1, <1>3, <2>1 DEF IInv, TypeOK
    <2>3. BlockInv'
        BY DEF IInv, BlockInv
    <2>4. \A x \in Holders : Descriptor(x)' = Descriptor(x)
        BY DEF Descriptor
    <2>5. OwnConnection'
        BY <1>1, <2>1, <2>4 DEF IInv, OwnConnection
    <2>6. OpenInv'
        <3> SUFFICES ASSUME NEW n \in Fds, table[n] # 0, table[n] \notin raced'
                     PROVE  \E x \in Holders : held[x] # 0 /\ pc'[x] = "idle" /\ Descriptor(x) = n
            BY <2>1, <2>4 DEF OpenInv
        <3>1. PICK x \in Holders : held[x] # 0 /\ pc[x] = "idle" /\ Descriptor(x) = n
            BY <1>3 DEF IInv, OpenInv
        <3>2. CASE x # h
            BY <1>1, <3>1, <3>2
        <3>3. CASE x = h
            <4>1. ~ \E y \in Sharers(h) : pc[y] # "idle"
                BY <3>1, <3>3
            <4>2. PICK y \in Holders \ {h} : held[y] = held[h]
                BY <1>5 DEF Sharers
            <4>3. pc'[y] = "idle"
                BY <1>1, <4>1, <4>2 DEF Sharers
            <4>4. Descriptor(y) = n /\ held[y] # 0
                BY <3>1, <3>3, <4>2 DEF Descriptor
            <4>5. QED
                BY <4>3, <4>4
        <3>4. QED
            BY <3>2, <3>3
    <2>7. QED
        BY <1>1, <2>2, <2>3, <2>5, <2>6 DEF IInv
<1>6. QED
    BY <1>4, <1>5

(* The share of a destroyed Socket: it was not at rest, so nothing rests on *)
(* it.                                                                      *)
LEMMA DestroyReleaseInv == ASSUME IInv, NEW h \in Holders, DestroyRelease(h) PROVE IInv'
<1> USE DEF DestroyRelease
<1>1. /\ held' \in [Holders -> {0} \cup Blocks] /\ held'[h] = 0
      /\ pc' \in [Holders -> {"idle", "take", "release"}]
      /\ \A x \in Holders \ {h} : held'[x] = held[x] /\ pc'[x] = pc[x]
      /\ pc[h] = "release"
    BY DEF IInv, TypeOK
<1>2. TypeOK'
    BY <1>1 DEF IInv, TypeOK
<1>3. BlockInv'
    BY <1>1, Bounds DEF IInv, TypeOK, BlockInv, Blocks
<1>4. AssignInv'
    BY <1>1 DEF IInv, TypeOK, AssignInv
<1>5. \A x \in Holders \ {h} : Descriptor(x)' = Descriptor(x)
    BY <1>1 DEF Descriptor
<1>6. OwnConnection'
    BY <1>1, <1>5 DEF IInv, OwnConnection
<1>7. OpenInv'
    <2> SUFFICES ASSUME NEW n \in Fds, table[n] # 0, table[n] \notin raced
                 PROVE  \E x \in Holders : held'[x] # 0 /\ pc'[x] = "idle" /\ Descriptor(x)' = n
        BY DEF OpenInv
    <2>1. PICK x \in Holders : held[x] # 0 /\ pc[x] = "idle" /\ Descriptor(x) = n
        BY DEF IInv, OpenInv
    <2>2. x # h
        BY <1>1, <2>1
    <2>3. QED
        BY <1>1, <1>5, <2>1, <2>2
<1>8. QED
    BY <1>2, <1>3, <1>4, <1>6, <1>7 DEF IInv

(* Every reachable state of sockets and table satisfies IInv.               *)
THEOREM SharingInvariant == Spec => []IInv
<1>1. IInv /\ [Next]_vars => IInv'
    <2> SUFFICES ASSUME IInv, [Next]_vars PROVE IInv'
        OBVIOUS
    <2>1. CASE Next
        BY <2>1, MakeInv, TakeSteps, AssignCloseInv, DestroyTestInv, DestroyReleaseInv,
           BindFailsInv DEF Next
    <2>2. CASE UNCHANGED vars
        <3> USE <2>2 DEF vars
        <3>1. \A h \in Holders : Descriptor(h)' = Descriptor(h)
            BY DEF Descriptor
        <3>2. TypeOK' /\ BlockInv' /\ AssignInv'
            BY DEF IInv, TypeOK, BlockInv, AssignInv
        <3>3. OwnConnection' /\ OpenInv'
            BY <3>1 DEF IInv, OwnConnection, OpenInv
        <3>4. QED
            BY <3>2, <3>3 DEF IInv
    <2>3. QED
        BY <2>1, <2>2
<1>2. QED
    BY InitInv, <1>1, PTL DEF Spec

(* Sockets, blocks and the descriptor table keep their types.               *)
THEOREM SharingTypeCorrect == Spec => []TypeOK
<1>1. IInv => TypeOK
    BY DEF IInv
<1>2. QED
    BY <1>1, SharingInvariant, PTL

(* Unless operator= (or a failed bind) closed a shared descriptor, every    *)
(* Socket at rest speaks to the connection it was made for.                 *)
THEOREM SocketsKeepConnection == Spec => []OwnConnection
<1>1. IInv => OwnConnection
    BY DEF IInv
<1>2. QED
    BY <1>1, SharingInvariant, PTL

(* A descriptor is lost only when ~Socket counts a share that another       *)
(* thread is just giving up.                                                *)
THEOREM DescriptorsLeakByRace == Spec => []LeakOnlyByRace
<1>1. IInv => LeakOnlyByRace
    BY DEF IInv, OpenInv, LeakOnlyByRace
<1>2. QED
    BY <1>1, SharingInvariant, PTL
===============================================================================
