---------------------------- MODULE SocketSharing ----------------------------
(***************************************************************************)
(* The class Socket: copies share one descriptor through a shared_ptr<int> *)
(* (a block), and the class decides by hand when to ::close it.  Socket    *)
(* objects live in different threads: the key of peers_, the arguments of  *)
(* every worker, the accept loop and the client each have a copy.          *)
(*                                                                         *)
(* One thread uses one Socket object at a time; the block and the kernel's *)
(* descriptor table are what the threads share.  The kernel hands out a    *)
(* free number again (Linux the lowest).  Block b is made for connection b. *)
(***************************************************************************)
EXTENDS Integers

CONSTANTS
    Holders,     \* places for Socket objects
    MaxBlocks,   \* bound: connections ever made
    Fds          \* descriptor numbers the kernel may give

ASSUME SharingAssumption == MaxBlocks \in Nat /\ Fds \subseteq Nat

Blocks == 1..MaxBlocks

VARIABLES
    held,     \* [Holders -> socket_: a block, or 0 for the null pointer]
    number,   \* [Blocks -> *socket_, the descriptor number in the block]
    table,    \* kernel: [Fds -> the connection behind the number, 0 if closed]
    pc,       \* [Holders -> "idle", "take" (in operator=), "release" (in ~Socket)]
    from,     \* [Holders -> the right hand side of the operator= under way, h if none]
    made,     \* connections made so far
    cut,      \* history: blocks that operator= closed while others held them
    raced     \* history: connections whose block two threads gave up at once

vars == <<held, number, table, pc, from, made, cut, raced>>

Init ==
    /\ held = [h \in Holders |-> 0] /\ number = [b \in Blocks |-> -1]
    /\ table = [n \in Fds |-> 0]
    /\ pc = [h \in Holders |-> "idle"] /\ from = [h \in Holders |-> h]
    /\ made = 0 /\ cut = {} /\ raced = {}

-----------------------------------------------------------------------------
Descriptor(h) == IF held[h] = 0 THEN -1 ELSE number[held[h]]
Sharers(h) == {x \in Holders \ {h} : held[x] = held[h]}
FreeFds == {n \in Fds : table[n] = 0}

(* ::close(fd): whatever connection the number means now; -1 is EBADF.      *)
CloseFd(fd) == table' = [n \in Fds |-> IF n = fd THEN 0 ELSE table[n]]

(* No other thread is inside this object.                                   *)
Mine(h) == pc[h] = "idle" /\ \A x \in Holders \ {h} : from[x] # h

(* Socket(host, port, ...) and Socket(raw, address) after ::accept; without *)
(* a free number socket() fails with EMFILE and the constructor throws.     *)
Make(h, fd) ==
    /\ Mine(h) /\ held[h] = 0
    /\ made < MaxBlocks /\ fd \in FreeFds
    /\ made' = made + 1
    /\ held' = [held EXCEPT ![h] = made']
    /\ number' = [number EXCEPT ![made'] = fd]
    /\ table' = [table EXCEPT ![fd] = made']
    /\ UNCHANGED <<pc, from, cut, raced>>

(* Copy and move constructors: operator= on a null Socket, close(-1).       *)
Construct(h, g, moving) ==
    /\ Mine(h) /\ Mine(g) /\ h # g
    /\ held[h] = 0 /\ held[g] # 0
    /\ held' = [held EXCEPT ![h] = held[g], ![g] = IF moving THEN 0 ELSE @]
    /\ UNCHANGED <<number, table, pc, from, made, cut, raced>>

(* Mutant: operator= forgets the descriptor it held.                        *)
AssignCloseForgets(h, g) ==
    /\ Mine(h) /\ Mine(g) /\ h # g /\ held[h] # 0
    /\ Descriptor(h) # Descriptor(g)
    /\ cut' = IF Sharers(h) # {} THEN cut \cup {held[h]} ELSE cut
    /\ pc' = [pc EXCEPT ![h] = "take"]
    /\ from' = [from EXCEPT ![h] = g]
    /\ UNCHANGED <<held, number, table, made, raced>>

(* operator=, the descriptors differ: ::close of the own one, whoever else  *)
(* holds the block ...                                                      *)
AssignClose(h, g) ==
    /\ Mine(h) /\ Mine(g) /\ h # g /\ held[h] # 0
    /\ Descriptor(h) # Descriptor(g)
    /\ CloseFd(Descriptor(h))
    /\ cut' = IF Sharers(h) # {} THEN cut \cup {held[h]} ELSE cut
    /\ pc' = [pc EXCEPT ![h] = "take"]
    /\ from' = [from EXCEPT ![h] = g]
    /\ UNCHANGED <<held, number, made, raced>>

(* ... then the block of the other side; a move leaves it null.             *)
AssignTake(h, moving) ==
    /\ pc[h] = "take"
    /\ held' = [held EXCEPT ![h] = held[from[h]],
                            ![from[h]] = IF moving THEN 0 ELSE @]
    /\ pc' = [pc EXCEPT ![h] = "idle"]
    /\ from' = [from EXCEPT ![h] = h]
    /\ UNCHANGED <<number, table, made, cut, raced>>

(* operator=(const Socket&), equal numbers: only the block is exchanged.    *)
(* (operator=(Socket&&) does nothing then.)                                 *)
AssignEqual(h, g) ==
    /\ Mine(h) /\ Mine(g) /\ held[h] # held[g]
    /\ Descriptor(h) = Descriptor(g)
    /\ held' = [held EXCEPT ![h] = held[g]]
    /\ UNCHANGED <<number, table, pc, from, made, cut, raced>>

(* Mutant: the descriptor is closed without looking at use_count().         *)
DestroyTestAlways(h) ==
    /\ Mine(h) /\ held[h] # 0
    /\ CloseFd(Descriptor(h))
    /\ raced' = IF \E x \in Sharers(h) : pc[x] # "idle"
                THEN raced \cup {table[Descriptor(h)]} ELSE raced
    /\ pc' = [pc EXCEPT ![h] = "release"]
    /\ UNCHANGED <<held, number, from, made, cut>>

(* ~Socket: reads use_count() and closes when nobody shares the block ...   *)
DestroyTest(h) ==
    /\ Mine(h) /\ held[h] # 0
    /\ IF Sharers(h) = {} THEN CloseFd(Descriptor(h)) ELSE UNCHANGED table
    /\ raced' = IF \E x \in Sharers(h) : pc[x] # "idle"
                THEN raced \cup {table[Descriptor(h)]} ELSE raced
    /\ pc' = [pc EXCEPT ![h] = "release"]
    /\ UNCHANGED <<held, number, from, made, cut>>

(* ... then the member shared_ptr gives up its share.                       *)
DestroyRelease(h) ==
    /\ pc[h] = "release"
    /\ held' = [held EXCEPT ![h] = 0]
    /\ pc' = [pc EXCEPT ![h] = "idle"]
    /\ UNCHANGED <<number, table, from, made, cut, raced>>

(* Socket::bind fails with EACCES, EINVAL and the like: the descriptor is   *)
(* closed, the exception leaves the block with its number.  Only a socket   *)
(* that was just made is bound (CommonServer), it is not shared yet.        *)
BindFails(h) ==
    /\ Mine(h) /\ held[h] # 0 /\ Sharers(h) = {}
    /\ CloseFd(Descriptor(h))
    /\ cut' = cut \cup {held[h]}
    /\ UNCHANGED <<held, number, pc, from, made, raced>>

Next ==
    \E h \in Holders :
        \/ \E fd \in Fds : Make(h, fd)
        \/ \E g \in Holders, moving \in BOOLEAN : Construct(h, g, moving)
        \/ \E g \in Holders : AssignClose(h, g) \/ AssignEqual(h, g)
        \/ \E moving \in BOOLEAN : AssignTake(h, moving)
        \/ DestroyTest(h) \/ DestroyRelease(h)
        \/ BindFails(h)

Spec == Init /\ [][Next]_vars

-----------------------------------------------------------------------------
(* Properties                                                               *)

TypeOK ==
    /\ held \in [Holders -> {0} \cup Blocks]
    /\ number \in [Blocks -> {-1} \cup Fds]
    /\ table \in [Fds -> {0} \cup Blocks]
    /\ pc \in [Holders -> {"idle", "take", "release"}]
    /\ from \in [Holders -> Holders]
    /\ made \in {0} \cup Blocks
    /\ cut \subseteq Blocks /\ raced \subseteq {0} \cup Blocks

(* As long as operator= never closes a descriptor that copies still hold    *)
(* (and bind never fails), every Socket that is not in a destructor or an   *)
(* assignment speaks to the connection it was made for: no number is closed *)
(* under it, and none is given to somebody else.                            *)
OwnConnection ==
    cut = {} =>
        \A h \in Holders :
            held[h] # 0 /\ pc[h] = "idle" => table[Descriptor(h)] = held[h]

(* A number that stays open with no Socket left to close it was lost in one *)
(* way only: ~Socket counted the share of another thread that was giving it *)
(* up at the same time, in ~Socket or, with its descriptor already closed,  *)
(* in operator=.  No other order of copies, moves and assignments loses     *)
(* one, not even on a number that was closed and given out again.           *)
LeakOnlyByRace ==
    \A n \in Fds :
        table[n] # 0 => table[n] \in raced \/ \E h \in Holders : Descriptor(h) = n
=============================================================================
