--------------------------- MODULE ConnectionPool ---------------------------
(***************************************************************************)
(* AbstractConnectionPool with the threads that meet in it:                *)
(*   - clients connect, send one request at a time, close or reset;        *)
(*   - the accept thread of CommonServer adds a connection to the pool and *)
(*     switches it to edge-triggered notification in after_accept;         *)
(*   - the polling thread waits on mp_connections and gives a socket with  *)
(*     an event a new process object;                                      *)
(*   - the worker of a process object runs ConnectionPool::execute;        *)
(*   - stop() ends the polling thread, takes the process objects out of    *)
(*     peers_ and destroys them.                                           *)
(* A process object is seen as ProcessLife shows it: "ready" is ready(),   *)
(* and its worker leaves only when it is ready and was asked to stop.  Its *)
(* destructor destroys mprocess_ and the members of the base classes       *)
(* before it joins the worker: a worker that is still there is undefined.  *)
(***************************************************************************)
EXTENDS Naturals, FiniteSets

CONSTANTS
    Socks,        \* connections (socket descriptors are not reused)
    Procs,        \* process objects; make_process takes an unused one (bound)
    MaxRequests   \* bound: requests a client sends on one connection

Names == {"absent", "null", "none"}

ASSUME PoolAssumption ==
    /\ MaxRequests \in Nat
    /\ Names \cap Procs = {} /\ Names \cap Socks = {}

VARIABLES
    conn,      \* [Socks -> state of the TCP connection]
    sent,      \* [Socks -> requests sent by the client]
    unread,    \* [Socks -> requests in the socket's receive buffer]
    served,    \* [Socks -> requests answered]
    reg,       \* [Socks -> how mp_connections watches it]
    edge,      \* [Socks -> an edge is pending in epoll's ready list]
    m,         \* who holds the pool's mutex m
    peers,     \* peers_: "absent", "null" (no process yet) or a process
    work,      \* [Procs -> where its worker is]
    serves,    \* [Procs -> the socket it was made for]
    asked,     \* [Procs -> calls of request_stop(false): the first sets the flag]
    freed,     \* process objects whose destructor has finished
    ledge,     \* the accepter's listening socket has an unreported edge
    apc, acur, \* the accept thread and the socket it is adding
    ppc, pcur, \* the polling thread and the socket of its current event
    batch,     \* events returned by the last wait and not yet handled
    hups,      \* those of them that carry HangUp
    victim,    \* the process object the polling thread is destroying
    intr,      \* Interruptor::interrupted of mp_connections
    wake,      \* the eventfd of the interruptor has an unreported edge
    spc,       \* the thread in stop(), then its std::async continuation
    moved,     \* process objects taken out of peers_ and not yet destroyed
    sdel,      \* the one of them being destroyed
    stuck,     \* process objects whose m request_stop(true) holds for good
    syserr,    \* the thread whose system call failed (bound: one call fails)
    crashed    \* assert(process) failed, or a lookup met a changing map

netVars  == <<conn, sent, unread, served>>
procVars == <<work, serves, asked, freed>>
pollVars == <<ppc, pcur, batch, hups, victim>>
accVars  == <<ledge, apc, acur>>
takeVars == <<spc, moved, sdel, stuck>>
stopVars == <<intr, wake, takeVars>>
vars == <<netVars, reg, edge, m, peers, procVars, accVars, pollVars,
          stopVars, syserr, crashed>>

Init ==
    /\ conn = [s \in Socks |-> "idle"]
    /\ sent = [s \in Socks |-> 0]
    /\ unread = [s \in Socks |-> 0]
    /\ served = [s \in Socks |-> 0]
    /\ reg = [s \in Socks |-> "none"]
    /\ edge = [s \in Socks |-> FALSE]
    /\ m = "free"
    /\ peers = [s \in Socks |-> "absent"]
    /\ work = [p \in Procs |-> "unused"]
    /\ serves = [p \in Procs |-> "none"]
    /\ asked = [p \in Procs |-> 0]
    /\ freed = {}
    /\ ledge = FALSE /\ apc = "wait" /\ acur = "none"
    /\ ppc = "wait" /\ pcur = "none" /\ batch = {} /\ hups = {} /\ victim = "null"
    /\ intr = FALSE /\ wake = FALSE
    /\ spc = "idle" /\ moved = {} /\ sdel = "none" /\ stuck = {}
    /\ syserr = "none" /\ crashed = FALSE

-----------------------------------------------------------------------------
(* Clients and the kernel                                                   *)

(* What epoll sees: In for data or end of file, HangUp after a reset.       *)
Readable(s) == unread[s] > 0 \/ conn[s] \in {"fin", "hup"}

(* An arrival is a new edge for a socket watched edge-triggered.            *)
Arrival(s) == edge' = [edge EXCEPT ![s] = (reg[s] = "edge") \/ @]

Connect(s) ==
    /\ conn[s] = "idle"
    /\ conn' = [conn EXCEPT ![s] = "backlog"]
    /\ ledge' = TRUE
    /\ UNCHANGED <<sent, unread, served, reg, edge, m, peers, procVars, apc, acur,
                   pollVars, stopVars, syserr, crashed>>

(* Client::request: the next request follows the answer to the last one.    *)
SendRequest(s) ==
    /\ conn[s] \in {"backlog", "open"}
    /\ sent[s] < MaxRequests /\ sent[s] = served[s]
    /\ sent' = [sent EXCEPT ![s] = @ + 1]
    /\ unread' = [unread EXCEPT ![s] = @ + 1]
    /\ Arrival(s)
    /\ UNCHANGED <<conn, served, reg, m, peers, procVars, accVars, pollVars,
                   stopVars, syserr, crashed>>

(* The client closes its end ("fin") or resets the connection ("hup").      *)
HangUpBy(s, how) ==
    /\ conn[s] = "open"
    /\ conn' = [conn EXCEPT ![s] = how]
    /\ Arrival(s)
    /\ UNCHANGED <<sent, unread, served, reg, m, peers, procVars, accVars, pollVars,
                   stopVars, syserr, crashed>>

-----------------------------------------------------------------------------
(* The accept thread                                                        *)

(* accepter->wait(-1) reports the edge of the listening socket, once for    *)
(* all the connections that arrived before.                                 *)
AcceptWait ==
    /\ apc = "wait" /\ ledge
    /\ ledge' = FALSE
    /\ apc' = "accept"
    /\ UNCHANGED <<netVars, reg, edge, m, peers, procVars, acur, pollVars, stopVars,
                   syserr, crashed>>

(* A system call of thread t fails.                                         *)
Fails(t) == syserr = "none" /\ syserr' = t

(* One ::accept per event.                                                  *)
Accept(s) ==
    /\ apc = "accept" /\ conn[s] = "backlog"
    /\ conn' = [conn EXCEPT ![s] = "open"]
    /\ apc' = "lock" /\ acur' = s
    /\ UNCHANGED <<sent, unread, served, reg, edge, m, peers, procVars, ledge,
                   pollVars, stopVars, syserr, crashed>>

(* ::accept returns -1.  __accept_throw__ swallows the error or throws      *)
(* runtime_error, which the loop catches (wait), or invalid_argument, which *)
(* ends the thread; the connection stays in the backlog.                    *)
AcceptFails ==
    /\ apc = "accept" /\ Fails("accept")
    /\ apc' \in {"wait", "dead"}
    /\ UNCHANGED <<netVars, reg, edge, m, peers, procVars, ledge, acur, pollVars,
                   stopVars, crashed>>

(* add_connection takes m.                                                  *)
AddLock ==
    /\ apc = "lock" /\ m = "free"
    /\ m' = "accept"
    /\ apc' = "adding"
    /\ UNCHANGED <<netVars, reg, edge, peers, procVars, ledge, acur, pollVars,
                   stopVars, syserr, crashed>>

(* add_connection: peers_[socket] and epoll ADD, level-triggered.           *)
AddConnection ==
    /\ apc = "adding"
    /\ peers' = [peers EXCEPT ![acur] = "null"]
    /\ reg' = [reg EXCEPT ![acur] = "level"]
    /\ m' = "free"
    /\ apc' = "modify"
    /\ UNCHANGED <<netVars, edge, procVars, ledge, acur, pollVars, stopVars, syserr,
                   crashed>>

(* The epoll ADD fails and throws out of add_connection: runtime_error is   *)
(* caught in the loop, any other ends the thread.  peers_ keeps the entry,  *)
(* and with it the open descriptor, which nobody watches.                   *)
AddFails ==
    /\ apc = "adding" /\ Fails("accept")
    /\ peers' = [peers EXCEPT ![acur] = "null"]
    /\ m' = "free"
    /\ apc' \in {"wait", "dead"} /\ acur' = "none"
    /\ UNCHANGED <<netVars, reg, edge, procVars, ledge, pollVars, stopVars, crashed>>

(* after_accept, modify_connection: MOD re-arms a readable socket.          *)
ModifyConnection ==
    /\ apc = "modify" /\ m = "free"
    /\ peers[acur] # "absent"
    /\ reg' = [reg EXCEPT ![acur] = "edge"]
    /\ edge' = [edge EXCEPT ![acur] = Readable(acur)]
    /\ apc' = "wait" /\ acur' = "none"
    /\ UNCHANGED <<netVars, m, peers, procVars, ledge, pollVars, stopVars, syserr, crashed>>

(* The epoll MOD fails with runtime_error: the socket stays level-triggered. *)
ModifyFails ==
    /\ apc = "modify" /\ m = "free" /\ Fails("accept")
    /\ peers[acur] # "absent"
    /\ apc' = "wait" /\ acur' = "none"
    /\ UNCHANGED <<netVars, reg, edge, m, peers, procVars, ledge, pollVars, stopVars,
                   crashed>>

(* The polling thread erased it meanwhile: invalid_argument passes the two  *)
(* handlers for runtime_error and ends the accept thread with false; the    *)
(* last copy of the socket goes with it.                                    *)
ModifyThrows ==
    /\ apc = "modify" /\ m = "free"
    /\ peers[acur] = "absent"
    /\ reg' = [reg EXCEPT ![acur] = "none"]
    /\ apc' = "dead" /\ acur' = "none"
    /\ UNCHANGED <<netVars, edge, m, peers, procVars, ledge, pollVars, stopVars,
                   syserr, crashed>>

-----------------------------------------------------------------------------
(* The polling thread                                                       *)

Pending(s) == \/ reg[s] = "edge" /\ edge[s]
              \/ reg[s] = "level" /\ Readable(s)

(* mp_connections->wait(-1) returns and nothing was interrupted.            *)
PollWait ==
    /\ ppc = "wait" /\ ~intr
    /\ wake \/ \E s \in Socks : Pending(s)
    /\ batch' = {s \in Socks : Pending(s)}
    /\ hups' = {s \in Socks : Pending(s) /\ conn[s] = "hup"}
    /\ edge' = [s \in Socks |-> FALSE]
    /\ wake' = FALSE
    /\ ppc' = "next"
    /\ UNCHANGED <<netVars, reg, m, peers, procVars, accVars, pcur, victim, intr,
                   takeVars, syserr, crashed>>

(* The wait returns, for whatever event, and interrupted() is true.         *)
PollInterrupted ==
    /\ ppc = "wait" /\ intr
    /\ wake \/ \E s \in Socks : Pending(s)
    /\ ppc' = "exited"
    /\ edge' = [s \in Socks |-> FALSE]
    /\ wake' = FALSE
    /\ UNCHANGED <<netVars, reg, m, peers, procVars, accVars, pcur, batch, hups,
                   victim, intr, takeVars, syserr, crashed>>

(* All events handled: back to wait.                                        *)
PollAgain ==
    /\ ppc = "next" /\ batch = {}
    /\ ppc' = "wait"
    /\ pcur' = "none" /\ hups' = {}
    /\ UNCHANGED <<netVars, reg, edge, m, peers, procVars, accVars, batch, victim,
                   stopVars, syserr, crashed>>

(* contains_socket, under m.                                                *)
PollContains(s) ==
    /\ ppc = "next" /\ s \in batch
    /\ m = "free"
    /\ batch' = batch \ {s}
    /\ IF peers[s] = "absent" THEN UNCHANGED <<ppc, pcur>>
                              ELSE ppc' = "find" /\ pcur' = s
    /\ UNCHANGED <<netVars, reg, edge, m, peers, procVars, accVars, hups, victim,
                   stopVars, syserr, crashed>>

(* epoll_wait, make_process or the start of its thread throws: the handler  *)
(* returns.  The object made last stays in peers_ without a thread.         *)
PollThrows ==
    /\ ppc \in {"wait", "replace", "execute"} /\ Fails("poll")
    /\ ppc' = "exited"
    /\ pcur' = "none" /\ batch' = {} /\ hups' = {}
    /\ UNCHANGED <<netVars, reg, edge, m, peers, procVars, accVars, victim, stopVars,
                   crashed>>

(* peers_.find without m can miss while add_connection inserts, or read     *)
(* what the rehash has just freed.                                          *)
PollFindMisses ==
    /\ ppc = "find" /\ apc = "adding"
    /\ \/ ppc' = "next" /\ UNCHANGED crashed
       \/ crashed' = TRUE /\ UNCHANGED ppc
    /\ UNCHANGED <<netVars, reg, edge, m, peers, procVars, accVars, pcur, batch,
                   hups, victim, stopVars, syserr>>

(* ready() of the process in peers_: its last function has returned.        *)
Ready(p) == work[p] \in {"ready", "exited"}

(* !found->second || found->second->ready()                                 *)
Replaceable(s) == peers[s] # "null" => Ready(peers[s])

(* Mutant: the busy process is replaced as well.                            *)
PollFindAnyProcess ==
    /\ ppc = "find"
    /\ ppc' = IF pcur \in hups THEN "erase" ELSE "replace"
    /\ UNCHANGED <<netVars, reg, edge, m, peers, procVars, accVars, pcur, batch,
                   hups, victim, stopVars, syserr, crashed>>

(* Mutant: only a ready process is replaced, a null one is not.             *)
PollFindReadyOnly ==
    /\ ppc = "find"
    /\ ppc' = IF pcur \in hups THEN "erase"
              ELSE IF peers[pcur] # "null" /\ Ready(peers[pcur]) THEN "replace"
              ELSE "next"
    /\ UNCHANGED <<netVars, reg, edge, m, peers, procVars, accVars, pcur, batch,
                   hups, victim, stopVars, syserr, crashed>>

(* Mutant: the end of the client's stream is taken for a HangUp.            *)
PollFindEraseAtEnd ==
    /\ ppc = "find"
    /\ ppc' = IF conn[pcur] \in {"fin", "hup"} THEN "erase"
              ELSE IF Replaceable(pcur) THEN "replace"
              ELSE "next"
    /\ UNCHANGED <<netVars, reg, edge, m, peers, procVars, accVars, pcur, batch,
                   hups, victim, stopVars, syserr, crashed>>

(* found: HangUp leads to erase; a null process or a ready one is replaced; *)
(* a busy one, and a socket that is_valid() finds reset since the event     *)
(* (SO_ERROR, unless somebody has read it), is left alone and the event is  *)
(* gone.                                                                    *)
PollFind ==
    /\ ppc = "find"
    /\ \/ pcur \in hups /\ ppc' = "erase"
       \/ /\ pcur \notin hups
          /\ \/ Replaceable(pcur) /\ ppc' = "replace"
             \/ conn[pcur] = "hup" /\ ppc' = "next"
             \/ ~Replaceable(pcur) /\ ppc' = "next"
    /\ UNCHANGED <<netVars, reg, edge, m, peers, procVars, accVars, pcur, batch,
                   hups, victim, stopVars, syserr, crashed>>

(* ~Process destroys mprocess_, asks the worker to stop, destroys cv,       *)
(* queue, future and m of the base classes, and then joins; the polling     *)
(* thread keeps the pool's m all along.                                     *)
BeginDestroy(p) ==
    /\ m = "free" /\ m' = "poll"
    /\ victim' = p
    /\ asked' = [q \in Procs |-> IF q = p THEN asked[q] + 1 ELSE asked[q]]

(* HangUp: peers_.erase under m, with the process object in it.  The        *)
(* descriptor is closed unless the accept thread still has a copy of it.    *)
PollErase ==
    /\ ppc = "erase"
    /\ BeginDestroy(peers[pcur])
    /\ peers' = [peers EXCEPT ![pcur] = "absent"]
    /\ reg' = [reg EXCEPT ![pcur] = IF acur = pcur THEN @ ELSE "none"]
    /\ ppc' = "joinErase"
    /\ UNCHANGED <<netVars, edge, work, serves, freed, accVars, pcur, batch, hups,
                   stopVars, syserr, crashed>>

(* found->second = make_process() under m: the new object is in the map     *)
(* before the old one is destroyed.                                         *)
PollReplace(p) ==
    /\ ppc = "replace"
    /\ work[p] = "unused"
    /\ BeginDestroy(peers[pcur])
    /\ peers' = [peers EXCEPT ![pcur] = p]
    /\ work' = [work EXCEPT ![p] = "fresh"]
    /\ serves' = [serves EXCEPT ![p] = pcur]
    /\ ppc' = "joinReplace"
    /\ UNCHANGED <<netVars, reg, edge, freed, accVars, pcur, batch, hups, stopVars,
                   syserr, crashed>>

(* ~jthread has joined the old worker; m is released.                       *)
PollJoined ==
    /\ ppc \in {"joinErase", "joinReplace"}
    /\ victim \in Procs => work[victim] = "exited"
    /\ freed' = freed \cup ({victim} \cap Procs)
    /\ victim' = "null"
    /\ m' = "free"
    /\ ppc' = IF ppc = "joinErase" THEN "next" ELSE "execute"
    /\ UNCHANGED <<netVars, reg, edge, peers, work, serves, asked, accVars, pcur,
                   batch, hups, stopVars, syserr, crashed>>

(* execute_process without m: the worker starts.                            *)
PollExecute ==
    /\ ppc = "execute"
    /\ work' = [work EXCEPT ![peers[pcur]] = "starting"]
    /\ ppc' = "next"
    /\ UNCHANGED <<netVars, reg, edge, m, peers, serves, asked, freed, accVars, pcur,
                   batch, hups, victim, stopVars, syserr, crashed>>

-----------------------------------------------------------------------------
(* The worker of a process object: ConnectionPool::execute, then            *)
(* Process<Server>::reply                                                   *)

ToWork(p, where) == work' = [work EXCEPT ![p] = where]

(* The process object p is in its destructor.                               *)
InDestruction(p) == p = victim \/ p = sdel

(* peers_ is being changed under m: by an insertion, which may rehash it,   *)
(* or by an erase, which frees the node last.                               *)
Restructuring == apc = "adding" \/ ppc = "joinErase"

(* execute looks its own process up in peers_, without m.  Gone: at()       *)
(* throws and the future is ready; moved out by stop: assert(process).  In  *)
(* a map that is being changed the lookup can miss as well, or fault.       *)
WorkerLookup(p) ==
    /\ work[p] = "starting"
    /\ \/ Restructuring /\ ToWork(p, "ready") /\ UNCHANGED crashed
       \/ Restructuring /\ crashed' = TRUE /\ UNCHANGED work
       \/ peers[serves[p]] = p /\ ToWork(p, "replying") /\ UNCHANGED crashed
       \/ peers[serves[p]] = "absent" /\ ToWork(p, "ready") /\ UNCHANGED crashed
       \/ peers[serves[p]] = "null" /\ crashed' = TRUE /\ UNCHANGED work
    /\ UNCHANGED <<netVars, reg, edge, m, peers, serves, asked, freed, accVars,
                   pollVars, stopVars, syserr>>

(* reply receives one message and answers it.                               *)
WorkerReply(p) ==
    /\ work[p] = "replying" /\ ~InDestruction(p) /\ unread[serves[p]] > 0
    /\ unread' = [unread EXCEPT ![serves[p]] = @ - 1]
    /\ served' = [served EXCEPT ![serves[p]] = @ + 1]
    /\ ToWork(p, "returning")
    /\ UNCHANGED <<conn, sent, reg, edge, m, peers, serves, asked, freed, accVars,
                   pollVars, stopVars, syserr, crashed>>

(* Nothing to receive: end of file, a reset, or the 5 second timeout.       *)
WorkerNoRequest(p) ==
    /\ work[p] = "replying" /\ ~InDestruction(p) /\ unread[serves[p]] = 0
    /\ ToWork(p, "returning")
    /\ UNCHANGED <<netVars, reg, edge, m, peers, serves, asked, freed, accVars,
                   pollVars, stopVars, syserr, crashed>>

(* execute has returned and the promise is satisfied.                       *)
WorkerReturn(p) ==
    /\ work[p] = "returning"
    /\ ToWork(p, "ready")
    /\ UNCHANGED <<netVars, reg, edge, m, peers, serves, asked, freed, accVars,
                   pollVars, stopVars, syserr, crashed>>

(* Mutant: the worker leaves as soon as its function has returned.          *)
WorkerExitUnasked(p) ==
    /\ work[p] = "ready" /\ p \notin stuck
    /\ ToWork(p, "exited")
    /\ UNCHANGED <<netVars, reg, edge, m, peers, serves, asked, freed, accVars,
                   pollVars, stopVars, syserr, crashed>>

(* The worker leaves its loop, which it need not: it may sleep through the  *)
(* only request_stop, or still be on its way when the members are destroyed *)
(* (StopTerminates and NoSleeperInDestroyedCv of QueuableProcess).          *)
WorkerExit(p) ==
    /\ work[p] = "ready" /\ asked[p] > 0 /\ p \notin stuck
    /\ ToWork(p, "exited")
    /\ UNCHANGED <<netVars, reg, edge, m, peers, serves, asked, freed, accVars,
                   pollVars, stopVars, syserr, crashed>>

(* A reply uses mprocess_ and the loop after it cv, queue, future and m: in *)
(* an object whose destructor has begun they may be gone.  What follows is  *)
(* undefined ...                                                            *)
WorkerUndefined(p) ==
    /\ InDestruction(p) /\ work[p] \in {"replying", "ready"}
    /\ ToWork(p, "undefined")
    /\ UNCHANGED <<netVars, reg, edge, m, peers, serves, asked, freed, accVars,
                   pollVars, stopVars, syserr, crashed>>

(* ... and the thread may end, or never.                                    *)
UndefinedExit(p) ==
    /\ work[p] = "undefined"
    /\ ToWork(p, "exited")
    /\ UNCHANGED <<netVars, reg, edge, m, peers, serves, asked, freed, accVars,
                   pollVars, stopVars, syserr, crashed>>

-----------------------------------------------------------------------------
(* stop()                                                                   *)

stopFrame == <<netVars, reg, edge, serves, accVars, pollVars, syserr, crashed>>

(* Multiplexor::interrupt: the flag, then the write to the eventfd.         *)
StopInterrupt ==
    /\ spc = "idle"
    /\ intr' = TRUE
    /\ spc' = "flagged"
    /\ UNCHANGED <<stopFrame, m, peers, work, asked, freed, wake, moved, sdel, stuck>>

(* Mutant: the flag is set and nobody writes to the eventfd.                *)
StopWakeSilent ==
    /\ spc = "flagged"
    /\ spc' = "waiting"
    /\ UNCHANGED <<stopFrame, m, peers, work, asked, freed, intr, wake, moved, sdel,
                   stuck>>

StopWake ==
    /\ spc = "flagged"
    /\ wake' = TRUE
    /\ spc' = "waiting"
    /\ UNCHANGED <<stopFrame, m, peers, work, asked, freed, intr, moved, sdel, stuck>>

(* Mutant: result is not waited for.                                        *)
StopNoWait ==
    /\ spc = "waiting"
    /\ spc' = "collect"
    /\ UNCHANGED <<stopFrame, m, peers, work, asked, freed, intr, wake, moved, sdel,
                   stuck>>

(* result.wait(): the polling thread has returned.                          *)
StopWaitPoll ==
    /\ spc = "waiting" /\ ppc = "exited"
    /\ spc' = "collect"
    /\ UNCHANGED <<stopFrame, m, peers, work, asked, freed, intr, wake, moved, sdel,
                   stuck>>

(* Mutant: the process objects are stopped and stay in the map.             *)
StopCollectKeeps ==
    /\ spc = "collect" /\ m = "free"
    /\ moved' = {peers[s] : s \in Socks} \cap Procs
    /\ spc' = "stopping"
    /\ UNCHANGED <<stopFrame, m, peers, work, asked, freed, intr, wake, sdel, stuck>>

(* The continuation moves every process object out of the map, under m.     *)
StopCollect ==
    /\ spc = "collect" /\ m = "free"
    /\ moved' = {peers[s] : s \in Socks} \cap Procs
    /\ peers' = [s \in Socks |-> IF peers[s] \in Procs THEN "null" ELSE peers[s]]
    /\ spc' = "stopping"
    /\ UNCHANGED <<stopFrame, m, work, asked, freed, intr, wake, sdel, stuck>>

(* proc->request_stop(wait, timeout), in a task of its own.  wait is read   *)
(* through a reference to a parameter of stop(), which may have returned:   *)
(* either value, and true locks the process object for good.                *)
StopAsk(p, wait) ==
    /\ spc = "stopping" /\ p \in moved \ stuck /\ asked[p] = 0
    /\ IF wait THEN stuck' = stuck \cup {p} /\ UNCHANGED asked
               ELSE asked' = [asked EXCEPT ![p] = 1] /\ UNCHANGED stuck
    /\ UNCHANGED <<stopFrame, m, peers, work, freed, intr, wake, spc, moved, sdel>>

(* ~vector waits for the task of p and destroys its closure: ~Process.      *)
StopDestroy(p) ==
    /\ spc = "stopping" /\ sdel = "none"
    /\ p \in moved /\ asked[p] = 1
    /\ asked' = [asked EXCEPT ![p] = 2]
    /\ sdel' = p
    /\ UNCHANGED <<stopFrame, m, peers, work, freed, intr, wake, spc, moved, stuck>>

(* ~jthread has joined; an object whose thread never started has none.      *)
StopJoined ==
    /\ sdel \in Procs /\ work[sdel] \in {"fresh", "exited"}
    /\ freed' = freed \cup {sdel}
    /\ moved' = moved \ {sdel}
    /\ sdel' = "none"
    /\ UNCHANGED <<stopFrame, m, peers, work, asked, intr, wake, spc, stuck>>

StopDone ==
    /\ spc = "stopping" /\ moved = {}
    /\ spc' = "done"
    /\ UNCHANGED <<stopFrame, m, peers, work, asked, freed, intr, wake, moved, sdel,
                   stuck>>

-----------------------------------------------------------------------------
Client(s) == Connect(s) \/ SendRequest(s) \/ \E how \in {"fin", "hup"} : HangUpBy(s, how)

AcceptThread ==
    \/ AcceptWait \/ \E s \in Socks : Accept(s)
    \/ AddLock \/ AddConnection \/ ModifyConnection \/ ModifyThrows

SystemErrors == AcceptFails \/ AddFails \/ ModifyFails \/ PollThrows

PollThread ==
    \/ PollWait \/ PollInterrupted \/ PollAgain \/ PollFind \/ PollErase
    \/ PollJoined \/ PollExecute
    \/ \E s \in Socks : PollContains(s)
    \/ \E p \in Procs : PollReplace(p)

WorkerRuns(p) == WorkerLookup(p) \/ WorkerReply(p) \/ WorkerNoRequest(p) \/ WorkerReturn(p)

StopThread ==
    \/ StopWake \/ StopWaitPoll \/ StopCollect \/ StopJoined \/ StopDone
    \/ \E p \in Procs : StopDestroy(p) \/ \E w \in BOOLEAN : StopAsk(p, w)

(* A failed assert or a fault ends the program: nothing happens afterwards. *)
Next ==
    /\ ~crashed
    /\ \/ \E s \in Socks : Client(s)
       \/ AcceptThread
       \/ PollThread \/ PollFindMisses
       \/ SystemErrors
       \/ \E p \in Procs : \/ WorkerRuns(p) \/ WorkerExit(p)
                           \/ WorkerUndefined(p) \/ UndefinedExit(p)
       \/ StopInterrupt \/ StopThread

Spec == Init /\ [][Next]_vars

(***************************************************************************)
(* Every thread is scheduled and std::mutex lets a thread that keeps       *)
(* asking in.  Nothing makes a worker leave: it may sleep through the      *)
(* request, or meet destroyed members.  Clients owe nothing; replies take  *)
(* finite time (5 second timeouts).                                        *)
(***************************************************************************)
Fairness ==
    /\ WF_vars(AcceptThread) /\ SF_vars(AddLock) /\ SF_vars(ModifyConnection)
    /\ WF_vars(PollThread) /\ SF_vars(PollErase)
    /\ \A s \in Socks : SF_vars(PollContains(s))
    /\ SF_vars(\E p \in Procs : PollReplace(p))
    /\ \A p \in Procs : WF_vars(WorkerRuns(p))
    /\ WF_vars(StopThread) /\ SF_vars(StopCollect)

FairSpec == Spec /\ Fairness

-----------------------------------------------------------------------------
(* Properties                                                               *)

Running == {"starting", "replying", "returning"}

TypeOK ==
    /\ conn \in [Socks -> {"idle", "backlog", "open", "fin", "hup"}]
    /\ sent \in [Socks -> 0..MaxRequests]
    /\ unread \in [Socks -> 0..MaxRequests]
    /\ served \in [Socks -> 0..MaxRequests]
    /\ reg \in [Socks -> {"none", "level", "edge"}]
    /\ edge \in [Socks -> BOOLEAN]
    /\ m \in {"free", "accept", "poll"}
    /\ peers \in [Socks -> {"absent", "null"} \cup Procs]
    /\ work \in [Procs -> {"unused", "fresh", "ready", "exited", "undefined"} \cup Running]
    /\ serves \in [Procs -> {"none"} \cup Socks]
    /\ asked \in [Procs -> 0..2]
    /\ freed \subseteq Procs
    /\ ledge \in BOOLEAN
    /\ apc \in {"wait", "accept", "lock", "adding", "modify", "dead"}
    /\ acur \in {"none"} \cup Socks
    /\ ppc \in {"wait", "next", "find", "erase", "joinErase", "replace",
               "joinReplace", "execute", "exited"}
    /\ pcur \in {"none"} \cup Socks
    /\ batch \subseteq Socks /\ hups \subseteq Socks
    /\ victim \in {"null"} \cup Procs
    /\ intr \in BOOLEAN /\ wake \in BOOLEAN
    /\ spc \in {"idle", "flagged", "waiting", "collect", "stopping", "done"}
    /\ moved \subseteq Procs /\ stuck \subseteq Procs
    /\ sdel \in {"none"} \cup Procs
    /\ syserr \in {"none", "accept", "poll"}
    /\ crashed \in BOOLEAN

(* The replaced process object has finished its reply: ~Process destroys    *)
(* mprocess_ before the base class joins, so a reply must not be under way. *)
IdleWhenReplaced ==
    ppc = "joinReplace" /\ victim \in Procs => work[victim] \notin Running

(* Once stop() has emptied peers_ no event puts a process object back: the  *)
(* polling thread has returned before, and accept only adds null ones.      *)
StopIsFinal ==
    spc \in {"stopping", "done"} => \A s \in Socks : peers[s] \notin Procs

(* Every process object that was made is in peers_, being destroyed, taken  *)
(* by stop, or freed: none is lost, and none is owned twice.                *)
Owners(p) ==
    Cardinality({s \in Socks : peers[s] = p})
      + (IF victim = p THEN 1 ELSE 0) + (IF p \in moved THEN 1 ELSE 0)
      + (IF p \in freed THEN 1 ELSE 0)
OwnedOnce == \A p \in Procs : Owners(p) = IF work[p] = "unused" THEN 0 ELSE 1

(* A process object as its own specification describes it.                  *)
Life(p) == INSTANCE ProcessLife WITH
    life  <- IF work[p] \in {"unused", "fresh"} THEN "new"
             ELSE IF work[p] \in Running THEN "busy" ELSE work[p],
    asked <- asked[p] > 0 /\ work[p] \notin {"unused", "fresh"}

FollowsLife(p) ==
    \/ Life(p)!Next \/ UNCHANGED Life(p)!vars
    \/ work[p] = "undefined" \/ work'[p] = "undefined"

(* Whatever polling thread, worker and stop() do with a process object is a *)
(* step of ProcessLife, which QueuableProcess implements: nobody asks one   *)
(* to stop that was put into peers_ and is about to be started, and none is *)
(* executed twice or in the middle of its destruction.  A worker that has   *)
(* come into the undefined is left out.                                     *)
UsesLife ==
    /\ \A p \in Procs : Life(p)!Init
    /\ [][\A p \in Procs : FollowsLife(p)]_vars

(* interrupt() sets the flag before it writes to the eventfd, so the        *)
(* polling thread ends, unless it is caught in the join of a process.       *)
PollStops ==
    intr ~> ppc = "exited" \/ ppc \in {"joinErase", "joinReplace"} \/ crashed
              \/ \A p \in Procs : work[p] # "unused"

(* The first request of an accepted client is answered, whichever of the    *)
(* level event before after_accept and the edge event after it reports it,  *)
(* unless a system call of the server fails.  It is said of a client that   *)
(* is alone: while another connection is being added the lookups of its     *)
(* event and of its process can miss, and nobody repeats them.              *)
FirstRequestServed ==
    \A s \in Socks :
        conn[s] = "open" /\ sent[s] = 1 ~>
            served[s] = 1 \/ conn[s] = "hup" \/ intr \/ syserr # "none"

(* Where this code can fail.  A worker faults (assert(process) or a lookup  *)
(* in peers_) only while stop() has process objects that it moved out, or   *)
(* while peers_ is being changed, never by a connection that was replaced.  *)
(* The accept thread dies only when a client has reset its connection, or   *)
(* of a failed system call.  A reply is overtaken by the destruction of its *)
(* mprocess_ only after a reset of its connection or in stop(): an orderly  *)
(* end of the client's stream leads to none of them.                        *)
FaultsOnlyWhere ==
    /\ crashed => spc = "stopping" \/ Restructuring
    /\ apc = "dead" => \/ \E s \in Socks : conn[s] = "hup" /\ peers[s] = "absent"
                      \/ syserr = "accept"
    /\ \A p \in Procs : InDestruction(p) /\ work[p] = "replying" =>
                          conn[serves[p]] = "hup" \/ spc = "stopping"

(* Each message a client sends is received, as the ping test counts them.   *)
RequestServed ==
    \A s \in Socks : \A n \in 1..MaxRequests :
        conn[s] = "open" /\ sent[s] = n ~> served[s] >= n \/ conn[s] # "open" \/ intr
                                                \/ syserr # "none"
=============================================================================
