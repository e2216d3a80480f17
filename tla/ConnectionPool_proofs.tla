------------------------ MODULE ConnectionPool_proofs ------------------------
(***************************************************************************)
(* Proofs about ConnectionPool, for any number of connections, process     *)
(* objects and requests.                                                   *)
(*                                                                         *)
(* peers_, the polling thread and stop() hand process objects to each      *)
(* other, mostly without a lock, so no property is inductive alone.  IInv  *)
(* says who may be at which step while m is held (LockInv), what is known  *)
(* of a connection that the accept thread has not added yet (NewInv), what *)
(* the polling thread still knows of peers_ when it comes back to it       *)
(* (PollInv), what stop() found (StopInv), and who owns which process      *)
(* object (OwnInv).                                                        *)
(***************************************************************************)
EXTENDS ConnectionPool, FiniteSetTheorems, TLAPS

(* Each request was answered or is in the receive buffer.                   *)
CountInv == \A s \in Socks : sent[s] = served[s] + unread[s]

LockInv ==
    /\ m = "accept" <=> apc = "adding"
    /\ m = "poll" <=> ppc \in {"joinErase", "joinReplace"}

(* The accept thread has not added the connection to the pool yet.          *)
New(s) == conn[s] \in {"idle", "backlog"} \/ (apc \in {"lock", "adding"} /\ acur = s)

NewInv ==
    /\ acur \in Socks <=> apc \in {"lock", "adding", "modify"}
    /\ apc \in {"lock", "adding"} => conn[acur] \notin {"idle", "backlog"}
    /\ \A s \in Socks : New(s) => peers[s] = "absent" /\ \A p \in Procs : serves[p] # s
    /\ apc = "modify" /\ peers[acur] = "absent" => conn[acur] = "hup"

PollInv ==
    /\ ppc \in {"find", "erase", "replace", "joinReplace", "execute"} =>
           pcur \in Socks /\ peers[pcur] # "absent"
    /\ \A s \in hups : conn[s] = "hup"
    /\ ppc = "erase" => pcur \in hups
    /\ ppc = "replace" => peers[pcur] = "null" \/ Ready(peers[pcur])
    /\ ppc \in {"joinReplace", "execute"} => peers[pcur] \in Procs /\ work[peers[pcur]] = "fresh"
    /\ \A p \in Procs : work[p] = "fresh" =>
           \/ ppc \in {"joinReplace", "execute"} /\ peers[pcur] = p
           \/ ppc = "exited"
    /\ victim \in Procs => \/ /\ ppc = "joinErase" /\ peers[serves[victim]] = "absent"
                              /\ conn[serves[victim]] = "hup"
                           \/ ppc = "joinReplace" /\ work[victim] \notin Running

StopInv ==
    /\ spc \in {"collect", "stopping", "done"} => ppc = "exited"
    /\ moved # {} => spc = "stopping"
    /\ sdel \in Procs => sdel \in moved
    /\ StopIsFinal

(* Where a process object is: in peers_, in the hands of the polling        *)
(* thread, in those of stop(), or gone.                                     *)
Held(p) == serves[p] \in Socks /\ peers[serves[p]] = p

OwnInv ==
    /\ \A s \in Socks : peers[s] \in Procs => serves[peers[s]] = s
    /\ \A p \in Procs :
        /\ IF work[p] = "unused"
           THEN serves[p] = "none" /\ asked[p] = 0 /\ p # victim /\ p \notin moved /\ p \notin freed
           ELSE serves[p] \in Socks /\ (Held(p) \/ p = victim \/ p \in moved \/ p \in freed)
        /\ Held(p) => asked[p] = 0 /\ p # victim /\ p \notin moved /\ p \notin freed
        /\ p = victim => asked[p] = 1 /\ p \notin moved /\ p \notin freed
        /\ p \in moved => p \notin freed

(* A worker that can still take a step is not in a freed object.            *)
FreedInv == \A p \in freed : work[p] \in {"fresh", "exited"}

IInv ==
    /\ TypeOK /\ CountInv /\ LockInv /\ NewInv /\ PollInv /\ StopInv /\ OwnInv
    /\ FreedInv /\ FaultsOnlyWhere

LEMMA NamesApart ==
    /\ "absent" \notin Procs /\ "null" \notin Procs /\ "none" \notin Procs
    /\ "absent" \notin Socks /\ "null" \notin Socks /\ "none" \notin Socks
    /\ MaxRequests \in Nat
BY PoolAssumption DEF Names

LEMMA InitInv == Init => IInv
<1> SUFFICES ASSUME Init PROVE IInv
    OBVIOUS
<1>1. /\ edge \in [Socks -> BOOLEAN] /\ ledge \in BOOLEAN /\ intr \in BOOLEAN
      /\ wake \in BOOLEAN /\ crashed \in BOOLEAN
    BY DEF Init
<1>2. TypeOK
    BY <1>1, NamesApart DEF Init, TypeOK
<1>3. CountInv /\ LockInv /\ NewInv /\ PollInv /\ StopInv /\ OwnInv
    BY NamesApart DEF Init, CountInv, LockInv, NewInv, New, PollInv, StopInv, StopIsFinal,
                      OwnInv, Held
<1>4. FreedInv /\ FaultsOnlyWhere
    BY DEF Init, FreedInv, FaultsOnlyWhere
<1>5. QED
    BY <1>2, <1>3, <1>4 DEF IInv

(* Clients: what they do reaches the kernel, not the pool.                  *)
LEMMA ClientInv ==
    ASSUME IInv, ~crashed, \E s \in Socks : Client(s)
    PROVE  IInv'
<1> USE NamesApart
    DEF IInv, TypeOK, Running, CountInv, LockInv, NewInv, New, PollInv, Ready, StopInv,
        StopIsFinal, OwnInv, Held, FreedInv, FaultsOnlyWhere, InDestruction,
        Restructuring, netVars, procVars, pollVars, accVars, takeVars, stopVars
<1>1. ASSUME NEW s \in Socks, Connect(s)
      PROVE  IInv'
    BY <1>1 DEF Connect
<1>2. ASSUME NEW s \in Socks, SendRequest(s)
      PROVE  IInv'
    BY <1>2 DEF SendRequest, Arrival
<1>3. ASSUME NEW s \in Socks, NEW how \in {"fin", "hup"}, HangUpBy(s, how)
      PROVE  IInv'
    BY <1>3 DEF HangUpBy, Arrival
<1>4. QED
    BY <1>1, <1>2, <1>3 DEF Client

(* The accept thread.  The connection it adds is new, so no process object  *)
(* is overwritten.                                                          *)
LEMMA AcceptInv ==
    ASSUME IInv, ~crashed, AcceptThread
    PROVE  IInv'
<1> USE NamesApart
    DEF IInv, TypeOK, Running, CountInv, LockInv, NewInv, New, PollInv, Ready, StopInv,
        StopIsFinal, OwnInv, Held, FreedInv, FaultsOnlyWhere, InDestruction,
        Restructuring, netVars, procVars, pollVars, accVars, takeVars, stopVars
<1>1. CASE AcceptWait
    <2>1. ledge' \in BOOLEAN
        BY <1>1 DEF AcceptWait
    <2>2. QED
        BY <2>1, <1>1 DEF AcceptWait
<1>2. ASSUME NEW s \in Socks, Accept(s)
      PROVE  IInv'
    BY <1>2 DEF Accept
<1>3. CASE AddLock
    BY <1>3 DEF AddLock
<1>4. CASE AddConnection
    <2>1. TypeOK' /\ CountInv' /\ LockInv'
        BY <1>4 DEF AddConnection
    <2>2. NewInv'
        BY <1>4 DEF AddConnection
    <2>3. PollInv'
        BY <1>4 DEF AddConnection
    <2>4. StopInv'
        BY <1>4 DEF AddConnection
    <2>5. OwnInv'
        BY <1>4 DEF AddConnection
    <2>6. FreedInv' /\ FaultsOnlyWhere'
        BY <1>4 DEF AddConnection
    <2>7. QED
        BY <2>1, <2>2, <2>3, <2>4, <2>5, <2>6
<1>5. CASE ModifyConnection
    BY <1>5 DEF ModifyConnection, Readable
<1>6. CASE ModifyThrows
    BY <1>6 DEF ModifyThrows
<1>7. QED
    BY <1>1, <1>2, <1>3, <1>4, <1>5, <1>6 DEF AcceptThread

(* A system call that fails: the accept thread goes on without the          *)
(* connection or ends, the polling thread ends.                             *)
LEMMA ErrorInv ==
    ASSUME IInv, ~crashed, SystemErrors
    PROVE  IInv'
<1> USE NamesApart
    DEF IInv, TypeOK, Running, CountInv, LockInv, NewInv, New, PollInv, Ready, StopInv,
        StopIsFinal, OwnInv, Held, FreedInv, FaultsOnlyWhere, InDestruction, Restructuring,
        netVars, procVars, pollVars, accVars, takeVars, stopVars, Fails
<1>1. CASE AcceptFails
    BY <1>1 DEF AcceptFails
<1>2. CASE AddFails
    <2>1. TypeOK' /\ CountInv' /\ LockInv'
        BY <1>2 DEF AddFails
    <2>2. NewInv'
        BY <1>2 DEF AddFails
    <2>3. PollInv'
        BY <1>2 DEF AddFails
    <2>4. StopInv'
        BY <1>2 DEF AddFails
    <2>5. OwnInv'
        BY <1>2 DEF AddFails
    <2>6. FreedInv' /\ FaultsOnlyWhere'
        BY <1>2 DEF AddFails
    <2>7. QED
        BY <2>1, <2>2, <2>3, <2>4, <2>5, <2>6
<1>3. CASE ModifyFails
    BY <1>3 DEF ModifyFails
<1>4. CASE PollThrows
    BY <1>4 DEF PollThrows
<1>5. QED
    BY <1>1, <1>2, <1>3, <1>4 DEF SystemErrors

(* The polling thread.  It destroys under m what it found without m.        *)
LEMMA PollThreadInv ==
    ASSUME IInv, ~crashed, PollThread \/ PollFindMisses
    PROVE  IInv'
<1> USE NamesApart
    DEF IInv, TypeOK, Running, CountInv, LockInv, NewInv, New, PollInv, Ready, StopInv,
        StopIsFinal, OwnInv, Held, FreedInv, FaultsOnlyWhere, InDestruction,
        Restructuring, netVars, procVars, pollVars, accVars, takeVars, stopVars
<1>1. CASE PollWait
    <2>1. wake' \in BOOLEAN /\ edge' \in [Socks -> BOOLEAN]
        BY <1>1 DEF PollWait
    <2>2. QED
        BY <2>1, <1>1 DEF PollWait, Pending, Readable
<1>2. CASE PollInterrupted
    <2>1. wake' \in BOOLEAN /\ edge' \in [Socks -> BOOLEAN]
        BY <1>2 DEF PollInterrupted
    <2>2. QED
        BY <2>1, <1>2 DEF PollInterrupted, Pending, Readable
<1>3. CASE PollAgain
    BY <1>3 DEF PollAgain
<1>4. CASE PollFind
    BY <1>4 DEF PollFind, Replaceable
<1>5. CASE PollErase
    <2>1. TypeOK' /\ CountInv' /\ LockInv'
        BY <1>5 DEF PollErase, BeginDestroy
    <2>2. NewInv'
        BY <1>5 DEF PollErase, BeginDestroy
    <2>3. PollInv'
        BY <1>5 DEF PollErase, BeginDestroy
    <2>4. StopInv'
        BY <1>5 DEF PollErase, BeginDestroy
    <2>5. OwnInv'
        BY <1>5 DEF PollErase, BeginDestroy
    <2>6. FreedInv' /\ FaultsOnlyWhere'
        BY <1>5 DEF PollErase, BeginDestroy
    <2>7. QED
        BY <2>1, <2>2, <2>3, <2>4, <2>5, <2>6
<1>6. CASE PollJoined
    <2>1. TypeOK' /\ CountInv' /\ LockInv'
        BY <1>6 DEF PollJoined
    <2>2. NewInv'
        BY <1>6 DEF PollJoined
    <2>3. PollInv'
        BY <1>6 DEF PollJoined
    <2>4. StopInv'
        BY <1>6 DEF PollJoined
    <2>5. OwnInv'
        BY <1>6 DEF PollJoined
    <2>6. FreedInv' /\ FaultsOnlyWhere'
        BY <1>6 DEF PollJoined
    <2>7. QED
        BY <2>1, <2>2, <2>3, <2>4, <2>5, <2>6
<1>7. CASE PollExecute
    <2>1. TypeOK' /\ CountInv' /\ LockInv'
        BY <1>7 DEF PollExecute
    <2>2. NewInv'
        BY <1>7 DEF PollExecute
    <2>3. PollInv'
        BY <1>7 DEF PollExecute
    <2>4. StopInv'
        BY <1>7 DEF PollExecute
    <2>5. OwnInv'
        BY <1>7 DEF PollExecute
    <2>6. FreedInv' /\ FaultsOnlyWhere'
        BY <1>7 DEF PollExecute
    <2>7. QED
        BY <2>1, <2>2, <2>3, <2>4, <2>5, <2>6
<1>8. ASSUME NEW s \in Socks, PollContains(s)
      PROVE  IInv'
    BY <1>8 DEF PollContains
<1>9. ASSUME NEW p \in Procs, PollReplace(p)
      PROVE  IInv'
    <2>1. TypeOK' /\ CountInv' /\ LockInv'
        BY <1>9 DEF PollReplace, BeginDestroy
    <2>2. NewInv'
        BY <1>9 DEF PollReplace, BeginDestroy
    <2>3. PollInv'
        BY <1>9 DEF PollReplace, BeginDestroy
    <2>4. StopInv'
        BY <1>9 DEF PollReplace, BeginDestroy
    <2>5. OwnInv'
        BY <1>9 DEF PollReplace, BeginDestroy
    <2>6. FreedInv' /\ FaultsOnlyWhere'
        BY <1>9 DEF PollReplace, BeginDestroy
    <2>7. QED
        BY <2>1, <2>2, <2>3, <2>4, <2>5, <2>6
<1>10. CASE PollFindMisses
    <2>1. crashed' \in BOOLEAN
        BY <1>10 DEF PollFindMisses
    <2>2. QED
        BY <2>1, <1>10 DEF PollFindMisses
<1>11. QED
    BY <1>1, <1>2, <1>3, <1>4, <1>5, <1>6, <1>7, <1>8, <1>9, <1>10 DEF PollThread

(* Workers.  One that looks its connection up and finds no process object   *)
(* is neither in peers_ nor a victim of the polling thread: stop() has it.  *)
LEMMA WorkerInv ==
    ASSUME IInv, ~crashed, \E p \in Procs : \/ WorkerRuns(p) \/ WorkerExit(p)
                                        \/ WorkerUndefined(p) \/ UndefinedExit(p)
    PROVE  IInv'
<1> USE NamesApart
    DEF IInv, TypeOK, Running, CountInv, LockInv, NewInv, New, PollInv, Ready, StopInv,
        StopIsFinal, OwnInv, Held, FreedInv, FaultsOnlyWhere, InDestruction,
        Restructuring, netVars, procVars, pollVars, accVars, takeVars, stopVars
<1>1. ASSUME NEW p \in Procs, WorkerLookup(p)
      PROVE  IInv'
    <2>1. crashed' \in BOOLEAN
        BY <1>1 DEF WorkerLookup
    <2>2. ASSUME peers[serves[p]] = "null" PROVE spc = "stopping"
        <3>1. ~Held(p) /\ p \notin freed /\ p # victim
            BY <1>1, <2>2 DEF WorkerLookup
        <3>2. p \in moved
            BY <1>1, <3>1 DEF WorkerLookup
        <3>3. QED
            BY <3>2
    <2>3. work'[p] = "replying" => ~InDestruction(p)
        BY <1>1 DEF WorkerLookup, ToWork
    <2>4. FaultsOnlyWhere'
        BY <1>1, <2>2, <2>3 DEF WorkerLookup, ToWork
    <2>5. QED
        BY <2>1, <2>4, <1>1 DEF WorkerLookup, ToWork
<1>2. ASSUME NEW p \in Procs, WorkerReply(p)
      PROVE  IInv'
    <2>1. serves[p] \in Socks
        BY <1>2 DEF WorkerReply
    <2>2. TypeOK' /\ CountInv'
        BY <1>2, <2>1 DEF WorkerReply, ToWork
    <2>3. LockInv' /\ NewInv' /\ PollInv' /\ StopInv'
        BY <1>2, <2>1 DEF WorkerReply, ToWork
    <2>4. OwnInv' /\ FreedInv' /\ FaultsOnlyWhere'
        BY <1>2, <2>1 DEF WorkerReply, ToWork
    <2>5. QED
        BY <2>2, <2>3, <2>4
<1>3. ASSUME NEW p \in Procs, WorkerNoRequest(p)
      PROVE  IInv'
    BY <1>3 DEF WorkerNoRequest, ToWork
<1>4. ASSUME NEW p \in Procs, WorkerReturn(p)
      PROVE  IInv'
    BY <1>4 DEF WorkerReturn, ToWork
<1>5. ASSUME NEW p \in Procs, WorkerExit(p)
      PROVE  IInv'
    BY <1>5 DEF WorkerExit, ToWork
<1>6. ASSUME NEW p \in Procs, WorkerUndefined(p)
      PROVE  IInv'
    BY <1>6 DEF WorkerUndefined, ToWork
<1>7. ASSUME NEW p \in Procs, UndefinedExit(p)
      PROVE  IInv'
    BY <1>7 DEF UndefinedExit, ToWork
<1>8. QED
    BY <1>1, <1>2, <1>3, <1>4, <1>5, <1>6, <1>7 DEF WorkerRuns

(* stop() and its continuation.                                             *)
LEMMA StopThreadInv ==
    ASSUME IInv, ~crashed, StopInterrupt \/ StopThread
    PROVE  IInv'
<1> USE NamesApart
    DEF IInv, TypeOK, Running, CountInv, LockInv, NewInv, New, PollInv, Ready, StopInv,
        StopIsFinal, OwnInv, Held, FreedInv, FaultsOnlyWhere, InDestruction,
        Restructuring, netVars, procVars, pollVars, accVars, takeVars, stopVars, stopFrame
<1>1. CASE StopInterrupt
    BY <1>1 DEF StopInterrupt
<1>2. CASE StopWake
    BY <1>2 DEF StopWake
<1>3. CASE StopWaitPoll
    BY <1>3 DEF StopWaitPoll
<1>4. CASE StopCollect
    <2>1. TypeOK' /\ CountInv' /\ LockInv'
        BY <1>4 DEF StopCollect
    <2>2. NewInv'
        BY <1>4 DEF StopCollect
    <2>3. PollInv'
        BY <1>4 DEF StopCollect
    <2>4. StopInv'
        BY <1>4 DEF StopCollect
    <2>5. OwnInv'
        BY <1>4 DEF StopCollect
    <2>6. FreedInv' /\ FaultsOnlyWhere'
        BY <1>4 DEF StopCollect
    <2>7. QED
        BY <2>1, <2>2, <2>3, <2>4, <2>5, <2>6
<1>5. CASE StopJoined
    <2>1. TypeOK' /\ CountInv' /\ LockInv'
        BY <1>5 DEF StopJoined
    <2>2. NewInv'
        BY <1>5 DEF StopJoined
    <2>3. PollInv'
        BY <1>5 DEF StopJoined
    <2>4. StopInv'
        BY <1>5 DEF StopJoined
    <2>5. OwnInv'
        BY <1>5 DEF StopJoined
    <2>6. FreedInv' /\ FaultsOnlyWhere'
        BY <1>5 DEF StopJoined
    <2>7. QED
        BY <2>1, <2>2, <2>3, <2>4, <2>5, <2>6
<1>6. CASE StopDone
    BY <1>6 DEF StopDone
<1>7. ASSUME NEW p \in Procs, StopDestroy(p)
      PROVE  IInv'
    BY <1>7 DEF StopDestroy
<1>8. ASSUME NEW p \in Procs, NEW w \in BOOLEAN, StopAsk(p, w)
      PROVE  IInv'
    BY <1>8 DEF StopAsk
<1>9. QED
    BY <1>1, <1>2, <1>3, <1>4, <1>5, <1>6, <1>7, <1>8 DEF StopThread

LEMMA StepInv == IInv /\ [Next]_vars => IInv'
<1> SUFFICES ASSUME IInv, [Next]_vars PROVE IInv'
    OBVIOUS
<1>1. CASE UNCHANGED vars
    BY <1>1
    DEF vars, IInv, TypeOK, CountInv, LockInv, NewInv, New, PollInv, Ready, StopInv,
        StopIsFinal, OwnInv, Held, FreedInv, FaultsOnlyWhere, InDestruction,
        Restructuring, netVars, procVars, pollVars, accVars, takeVars, stopVars
<1>2. CASE Next
    BY <1>2, ClientInv, AcceptInv, ErrorInv, PollThreadInv, WorkerInv, StopThreadInv DEF Next
<1>3. QED
    BY <1>1, <1>2

LEMMA Invariance == Spec => []IInv
<1>1. QED
    BY InitInv, StepInv, PTL DEF Spec

(* Pool, kernel and threads keep their types: no connection answers more    *)
(* than was sent on it and no process object is asked to stop a third time. *)
THEOREM PoolTypeCorrect == Spec => []TypeOK
<1>1. IInv => TypeOK
    BY DEF IInv
<1>2. QED
    BY <1>1, Invariance, PTL

(* A process object that polling_connections replaces is not in a reply.    *)
THEOREM ReplacedIsIdle == Spec => []IdleWhenReplaced
<1>1. IInv => IdleWhenReplaced
    BY DEF IInv, PollInv, Ready, Running, IdleWhenReplaced
<1>2. QED
    BY <1>1, Invariance, PTL

(* After stop() has emptied peers_ no process object is put there again.    *)
THEOREM StoppedForGood == Spec => []StopIsFinal
<1>1. IInv => StopIsFinal
    BY DEF IInv, StopInv
<1>2. QED
    BY <1>1, Invariance, PTL

(* A worker faults only in stop() or in a changing peers_, the accept       *)
(* thread dies only of a reset or of a failed system call, and a reply      *)
(* loses its mprocess_ only to a reset or to stop().                        *)
THEOREM FaultsHaveOneCause == Spec => []FaultsOnlyWhere
<1>1. IInv => FaultsOnlyWhere
    BY DEF IInv
<1>2. QED
    BY <1>1, Invariance, PTL

(* The connections whose entry in peers_ holds p: the one p was made for,   *)
(* or none.                                                                 *)
LEMMA EntriesOf ==
    ASSUME IInv, NEW p \in Procs
    PROVE  Cardinality({s \in Socks : peers[s] = p}) = IF Held(p) THEN 1 ELSE 0
<1>1. CASE Held(p)
    <2>1. {s \in Socks : peers[s] = p} = {serves[p]}
        BY <1>1 DEF IInv, OwnInv, Held
    <2>2. QED
        BY <1>1, <2>1, FS_Singleton
<1>2. CASE ~Held(p)
    <2>1. {s \in Socks : peers[s] = p} = {}
        BY <1>2 DEF IInv, OwnInv, Held
    <2>2. QED
        BY <1>2, <2>1, FS_EmptySet
<1>3. QED
    BY <1>1, <1>2

(* No process object is lost and none has two owners, wherever polling      *)
(* thread, accept thread and stop() are.                                    *)
THEOREM OneOwner == Spec => []OwnedOnce
<1>1. IInv => OwnedOnce
    <2> SUFFICES ASSUME IInv, NEW p \in Procs
                 PROVE  Owners(p) = IF work[p] = "unused" THEN 0 ELSE 1
        BY DEF OwnedOnce
    <2>1. Owners(p) = (IF Held(p) THEN 1 ELSE 0) + (IF victim = p THEN 1 ELSE 0)
                        + (IF p \in moved THEN 1 ELSE 0) + (IF p \in freed THEN 1 ELSE 0)
        BY EntriesOf DEF Owners
    <2>2. CASE work[p] = "unused"
        BY <2>1, <2>2, NamesApart DEF IInv, OwnInv, Held
    <2>3. CASE work[p] # "unused"
        BY <2>1, <2>3 DEF IInv, OwnInv, Held
    <2>4. QED
        BY <2>2, <2>3
<1>2. QED
    BY <1>1, Invariance, PTL

(* A step that leaves worker and stop flag of p alone is none of ProcessLife. *)
LEMMA LifeKept ==
    ASSUME NEW p \in Procs, work'[p] = work[p], asked'[p] = asked[p]
    PROVE  UNCHANGED Life(p)!vars
BY DEF Life!vars

(* Each step of polling thread, worker or stop() is one of ProcessLife for  *)
(* every process object: by PollInv and StopInv the one that is asked to    *)
(* stop was started, and by OwnInv the one that is started was not.         *)
LEMMA LifeStep ==
    ASSUME IInv, [Next]_vars, NEW p \in Procs
    PROVE  FollowsLife(p)
<1> DEFINE L == \/ Life(p)!Next \/ UNCHANGED Life(p)!vars
                \/ work[p] = "undefined" \/ work'[p] = "undefined"
<1> USE NamesApart
    DEF IInv, TypeOK, Running, PollInv, Ready, StopInv, OwnInv, Held
<1>1. ASSUME UNCHANGED procVars PROVE L
    BY <1>1, LifeKept DEF procVars
<1>2. ASSUME UNCHANGED vars PROVE L
    BY <1>1, <1>2 DEF vars
<1>3. ASSUME NEW s \in Socks, Client(s) PROVE L
    BY <1>1, <1>3 DEF Client, Connect, SendRequest, HangUpBy
<1>4. ASSUME AcceptThread \/ SystemErrors PROVE L
    BY <1>1, <1>4 DEF AcceptThread, AcceptWait, Accept, AddLock, AddConnection,
                      ModifyConnection, ModifyThrows, SystemErrors, AcceptFails,
                      AddFails, ModifyFails, PollThrows
<1>5. ASSUME PollWait \/ PollInterrupted \/ PollAgain \/ PollFind \/ PollFindMisses
             \/ \E s \in Socks : PollContains(s)
      PROVE  L
    BY <1>1, <1>5 DEF PollWait, PollInterrupted, PollAgain, PollFind, PollFindMisses,
                      PollContains
<1>6. ASSUME PollJoined \/ StopInterrupt \/ StopWake \/ StopWaitPoll \/ StopCollect
             \/ StopJoined \/ StopDone
      PROVE  L
    BY <1>6, LifeKept DEF PollJoined, StopInterrupt, StopWake, StopWaitPoll, StopCollect,
                          StopJoined, StopDone
<1>7. ASSUME PollErase PROVE L
    BY <1>7 DEF PollErase, BeginDestroy, Life!Next, Life!Ask, Life!vars
<1>8. ASSUME NEW q \in Procs, PollReplace(q) PROVE L
    BY <1>8 DEF PollReplace, BeginDestroy, Life!Next, Life!Ask, Life!vars
<1>9. ASSUME PollExecute PROVE L
    BY <1>9 DEF PollExecute, Life!Next, Life!Start, Life!vars
<1>10. ASSUME NEW q \in Procs,
              WorkerRuns(q) \/ WorkerExit(q) \/ WorkerUndefined(q) \/ UndefinedExit(q)
       PROVE  L
    BY <1>10 DEF WorkerRuns, WorkerLookup, WorkerReply, WorkerNoRequest, WorkerReturn,
                 WorkerExit, WorkerUndefined, UndefinedExit, ToWork,
                 Life!Next, Life!Finish, Life!Exit, Life!vars
<1>11. ASSUME NEW q \in Procs, NEW w \in BOOLEAN, StopDestroy(q) \/ StopAsk(q, w)
       PROVE  L
    BY <1>11 DEF StopDestroy, StopAsk, Life!Next, Life!Ask, Life!vars
<1>12. QED
    BY <1>2, <1>3, <1>4, <1>5, <1>6, <1>7, <1>8, <1>9, <1>10, <1>11
    DEF Next, PollThread, StopThread, FollowsLife

(* The pool uses a process object only in the ways ProcessLife describes.   *)
THEOREM PoolUsesLife == Spec => UsesLife
<1>1. Init => \A p \in Procs : Life(p)!Init
    BY DEF Init, Life!Init
<1>2. IInv /\ [Next]_vars =>
        [\A p \in Procs : FollowsLife(p)]_vars
    BY LifeStep
<1>3. QED
    BY <1>1, <1>2, Invariance, PTL DEF Spec, UsesLife
=============================================================================
