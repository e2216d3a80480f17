--------------------------- MODULE ServerLifecycle ---------------------------
(***************************************************************************)
(* Launching and closing the server: the command line thread in Mashroom,  *)
(* the accept thread of CommonServer, the polling thread of the pool and   *)
(* the task that AbstractConnectionPool::stop starts.                      *)
(*                                                                         *)
(* The four share two interruptors (a flag and an eventfd each), the       *)
(* accepter that the accept thread frees when it ends, and the one future  *)
(* "result" of the pool, which first holds the polling thread and then the *)
(* stop task.  Connections and process objects are only counted here, see  *)
(* ConnectionPool for them.                                                *)
(***************************************************************************)
EXTENDS Naturals

CONSTANTS
    MaxConns,     \* bound: clients that ever connect
    MaxCommands   \* bound: launch and close commands typed

ASSUME BoundsAssumption == MaxConns \in Nat /\ MaxCommands \in Nat

VARIABLES
    pc,         \* the command line thread
    commands,   \* commands typed so far
    wait,       \* wait_for_end_connections of the close under way
    left,       \* further close or stop calls of the destructors under way
    server,     \* server_: "none" or "made"
    status,     \* Server::status_
    accepter,   \* the accepter of CommonServer: "null", "live" or "freed"
    aintr,      \* its interrupted flag
    awake,      \* its eventfd has an unreported edge
    arrived,    \* clients that connected
    backlog,    \* an unreported edge of the listening socket
    apc,        \* the accept thread
    conns,      \* entries of peers_
    procs,      \* entries of peers_ that hold a process object
    ppc,        \* the polling thread
    pintr,      \* the interrupted flag of mp_connections
    pwake,      \* its eventfd has an unreported edge
    result,     \* what the pool's future "result" holds
    task,       \* the stop task
    dangling    \* interrupt() used an accepter that was freed

cliVars  == <<commands, server, status>>
accVars  == <<accepter, aintr, awake>>
netVars  == <<arrived, backlog>>
poolVars == <<conns, procs>>
intVars  == <<pintr, pwake>>
vars == <<pc, wait, left, cliVars, accVars, netVars, apc, poolVars, ppc, intVars,
          result, task, dangling>>

Init ==
    /\ pc = "cli" /\ commands = 0 /\ wait = FALSE /\ left = 0
    /\ server = "none" /\ status = "INACTIVE"
    /\ accepter = "null" /\ aintr = FALSE /\ awake = FALSE
    /\ arrived = 0 /\ backlog = FALSE
    /\ apc = "none" /\ conns = 0 /\ procs = 0 /\ ppc = "none"
    /\ pintr = FALSE /\ pwake = FALSE
    /\ result = "invalid" /\ task = "none" /\ dangling = FALSE

AcceptEnded == apc \in {"true", "false"}

(* The asynchronous operation that result holds has finished.               *)
ResultReady ==
    /\ result = "poll" => ppc = "exited"
    /\ result = "stop" => task = "done"

-----------------------------------------------------------------------------
(* The command line thread: launch_server                                   *)

Command == pc = "cli" /\ commands < MaxCommands /\ commands' = commands + 1

(* deploy_server fails: the exception of bind is printed, server_ is empty. *)
DeployFails ==
    /\ Command
    /\ server = "none"
    /\ UNCHANGED <<pc, wait, left, server, status, accVars, netVars, apc,
                   poolVars, ppc, intVars, result, task, dangling>>

(* listen throws: the noexcept launch_notifier ends the program.            *)
ListenFails ==
    /\ Command
    /\ status = "INACTIVE"
    /\ server' = "made"
    /\ pc' = "terminated"
    /\ UNCHANGED <<wait, left, status, accVars, netVars, apc, poolVars, ppc,
                   intVars, result, task, dangling>>

(* make_instance, listen, after_listen, a new accepter, the accept thread.  *)
Launch ==
    /\ Command
    /\ status = "INACTIVE"
    /\ server' = "made"
    /\ status' = "READY"
    /\ accepter' = "live"
    /\ apc' = "start"
    /\ UNCHANGED <<pc, wait, left, aintr, awake, netVars, poolVars, ppc, intVars,
                   result, task, dangling>>

(* Any status but INACTIVE: "Server already launched".                      *)
LaunchRefused ==
    /\ Command
    /\ status # "INACTIVE"
    /\ UNCHANGED <<pc, wait, left, server, status, accVars, netVars, apc, poolVars,
                   ppc, intVars, result, task, dangling>>

-----------------------------------------------------------------------------
(* The command line thread: CommonServer::close                             *)

closeFrame == <<cliVars, wait, left, netVars, apc, poolVars, ppc>>

(* close_server(w), and shutdown_server, which is close(false).             *)
Close(w) ==
    /\ Command
    /\ server = "made"
    /\ wait' = w
    /\ pc' = "close"
    /\ UNCHANGED <<left, server, status, accVars, netVars, apc, poolVars,
                   ppc, intVars, result, task, dangling>>

(* The program ends: ~Server calls close, ~CommonServer repeats its steps   *)
(* and ~AbstractConnectionPool calls stop once more.                        *)
Exit ==
    /\ pc = "cli"
    /\ pc' = IF server = "made" THEN "close" ELSE "gone"
    /\ wait' = FALSE
    /\ left' = IF server = "made" THEN 3 ELSE 0
    /\ UNCHANGED <<cliVars, accVars, netVars, apc, poolVars, ppc, intVars, result,
                   task, dangling>>

(* Mutant: close does not look at accepter.                                 *)
CheckAccepterNot ==
    /\ pc = "close"
    /\ pc' = "aflag"
    /\ UNCHANGED <<closeFrame, accVars, intVars, result, task, dangling>>

(* if(accepter)                                                             *)
CheckAccepter ==
    /\ pc = "close"
    /\ pc' = IF accepter = "live" THEN "aflag" ELSE "pflag"
    /\ UNCHANGED <<closeFrame, accVars, intVars, result, task, dangling>>

(* Mutant: interrupt() writes to the eventfd before it sets the flag.       *)
InterruptAcceptLate ==
    \/ /\ pc = "aflag"
       /\ awake' = TRUE /\ pc' = "awrite" /\ UNCHANGED aintr
       /\ UNCHANGED <<closeFrame, accepter, intVars, result, task, dangling>>
    \/ /\ pc = "awrite"
       /\ aintr' = TRUE /\ pc' = "pflag" /\ UNCHANGED awake
       /\ UNCHANGED <<closeFrame, accepter, intVars, result, task, dangling>>

(* accepter->interrupt(): the flag, then the write to the eventfd.  The     *)
(* accept thread may free the accepter before either of them.               *)
InterruptAccept ==
    \/ /\ pc = "aflag"
       /\ aintr' = TRUE /\ pc' = "awrite" /\ UNCHANGED awake
       /\ dangling' = (dangling \/ accepter # "live")
       /\ UNCHANGED <<closeFrame, accepter, intVars, result, task>>
    \/ /\ pc = "awrite"
       /\ awake' = TRUE /\ pc' = "pflag" /\ UNCHANGED aintr
       /\ dangling' = (dangling \/ accepter # "live")
       /\ UNCHANGED <<closeFrame, accepter, intVars, result, task>>

(* stop: mp_connections->interrupt().                                       *)
InterruptPoll ==
    \/ pc = "pflag"  /\ pintr' = TRUE /\ pc' = "pwrite" /\ UNCHANGED pwake
                     /\ UNCHANGED <<closeFrame, accVars, result, task, dangling>>
    \/ pc = "pwrite" /\ pwake' = TRUE /\ pc' = "valid" /\ UNCHANGED pintr
                     /\ UNCHANGED <<closeFrame, accVars, result, task, dangling>>

(* if(result.valid())                                                       *)
CheckResult ==
    /\ pc = "valid"
    /\ pc' = IF result = "invalid" THEN "assign" ELSE "wait"
    /\ UNCHANGED <<closeFrame, accVars, intVars, result, task, dangling>>

(* Mutant: stop does not wait for what result holds.                        *)
WaitResultSkipped ==
    /\ pc = "wait"
    /\ pc' = "assign"
    /\ UNCHANGED <<closeFrame, accVars, intVars, result, task, dangling>>

(* result.wait()                                                            *)
WaitResult ==
    /\ pc = "wait" /\ ResultReady
    /\ pc' = "assign"
    /\ UNCHANGED <<closeFrame, accVars, intVars, result, task, dangling>>

(* std::async starts the stop task.                                         *)
StartTask ==
    /\ pc = "assign"
    /\ task' = "collect"
    /\ pc' = "store"
    /\ UNCHANGED <<closeFrame, accVars, intVars, result, dangling>>

(* result = ...: the assignment waits for the operation it replaces, which  *)
(* the accept thread may have stored in the meantime.                       *)
StoreTask ==
    /\ pc = "store" /\ (result = "poll" => ppc = "exited")
    /\ result' = "stop"
    /\ pc' = "await"
    /\ UNCHANGED <<closeFrame, accVars, intVars, task, dangling>>

closeDone == <<cliVars, wait, accVars, netVars, apc, poolVars, ppc, intVars, result,
               task, dangling>>

(* Mutant: close returns without accept_result.wait().                      *)
AwaitAcceptSkipped ==
    /\ pc = "await"
    /\ left = 0 /\ pc' = "cli" /\ UNCHANGED left
    /\ UNCHANGED closeDone

(* accept_result.wait(), then back to the prompt or to the next destructor. *)
AwaitAccept ==
    /\ pc = "await" /\ AcceptEnded
    /\ \/ left = 0 /\ pc' = "cli" /\ UNCHANGED left
       \/ left = 3 /\ pc' = "close" /\ left' = 2
       \/ left = 2 /\ pc' = "pflag" /\ left' = 1
    /\ UNCHANGED closeDone

(* The destructor of result, after the last stop.                           *)
JoinTask ==
    /\ pc = "await" /\ left = 1 /\ ResultReady
    /\ pc' = "gone" /\ left' = 0
    /\ UNCHANGED closeDone

-----------------------------------------------------------------------------
(* Clients                                                                  *)

ClientConnects ==
    /\ status = "READY" /\ arrived < MaxConns
    /\ arrived' = arrived + 1
    /\ backlog' = TRUE
    /\ UNCHANGED <<pc, wait, left, cliVars, accVars, apc, poolVars, ppc, intVars,
                   result, task, dangling>>

-----------------------------------------------------------------------------
(* The accept thread                                                        *)

acceptFrame == <<pc, wait, left, cliVars, arrived, procs, intVars, task, dangling>>

(* polling_connections: std::async starts the polling thread ...            *)
StartPolling ==
    /\ apc = "start"
    /\ ppc' = "wait"
    /\ apc' = "store"
    /\ UNCHANGED <<acceptFrame, accVars, backlog, conns, result>>

(* ... and its future is assigned to result, after the one it replaces.     *)
StorePolling ==
    /\ apc = "store" /\ ResultReady
    /\ result' = "poll"
    /\ apc' = "test"
    /\ UNCHANGED <<acceptFrame, accVars, backlog, conns, ppc>>

(* Top of the loop: interrupted frees the accepter and returns true.        *)
AcceptTest ==
    /\ apc = "test"
    /\ IF aintr THEN apc' = "true" /\ accepter' = "freed"
                ELSE apc' = "wait" /\ UNCHANGED accepter
    /\ UNCHANGED <<acceptFrame, aintr, awake, backlog, conns, ppc, result>>

(* Mutant: the listening socket is accepted from on every wakeup.           *)
AcceptWaitStale ==
    /\ apc = "wait" /\ (awake \/ backlog)
    /\ awake' = FALSE /\ UNCHANGED backlog
    /\ apc' = IF backlog THEN "accept" ELSE "test"
    /\ UNCHANGED <<acceptFrame, accepter, aintr, conns, ppc, result>>

(* accepter->wait(-1) returns: for a client, for the eventfd, or for both.  *)
AcceptWait ==
    /\ apc = "wait" /\ (awake \/ backlog)
    /\ awake' = FALSE /\ backlog' = FALSE
    /\ apc' = IF backlog THEN "accept" ELSE "test"
    /\ UNCHANGED <<acceptFrame, accepter, aintr, conns, ppc, result>>

(* ::accept, add_connection, after_accept: they need the pool's mutex m.    *)
AcceptOne ==
    /\ apc = "accept" /\ ppc # "join"
    /\ conns' = conns + 1
    /\ apc' = "test"
    /\ UNCHANGED <<acceptFrame, accVars, backlog, ppc, result>>

(* modify_connection threw (see ConnectionPool!ModifyThrows): the thread    *)
(* returns false and leaves the accepter alive.                             *)
AcceptThrows ==
    /\ apc = "accept" /\ ppc # "join"
    /\ apc' = "false"
    /\ UNCHANGED <<acceptFrame, accVars, backlog, conns, ppc, result>>

-----------------------------------------------------------------------------
(* The polling thread and the stop task                                     *)

pollFrame == <<pc, wait, left, cliVars, accVars, netVars, apc, conns, pintr, result,
               dangling>>

(* wait(-1) returns with the event of a client and interrupted() is false.  *)
PollTake ==
    /\ ppc = "wait" /\ ~pintr /\ conns > 0
    /\ ppc' = "handle"
    /\ UNCHANGED <<pollFrame, procs, pwake, task>>

(* The client has no process object yet and gets one ...                    *)
PollEvent ==
    /\ ppc = "handle" /\ procs < conns
    /\ procs' = procs + 1
    /\ ppc' = "wait"
    /\ UNCHANGED <<pollFrame, pwake, task>>

(* ... or the process object of that client is replaced or erased: the      *)
(* thread joins the old worker and holds m meanwhile.                       *)
PollJoin ==
    /\ ppc = "handle" /\ procs > 0
    /\ ppc' = "join"
    /\ UNCHANGED <<pollFrame, procs, pwake, task>>

(* The old worker has ended, if it noticed that it was asked to             *)
(* (StopTerminates of QueuableProcess shows that it need not).              *)
PollJoined ==
    /\ ppc = "join"
    /\ ppc' = "wait"
    /\ UNCHANGED <<pollFrame, procs, pwake, task>>

(* wait(-1) returns and interrupted() is true.                              *)
PollInterrupted ==
    /\ ppc = "wait" /\ pintr /\ (pwake \/ conns > 0)
    /\ pwake' = FALSE
    /\ ppc' = "exited"
    /\ UNCHANGED <<pollFrame, procs, task>>

(* The stop task empties peers_ and calls request_stop(wait) of each        *)
(* process.  It reads wait through a reference that is dead once stop() has *)
(* returned, and request_stop(true) never returns (RequestStopWaiting of    *)
(* QueuableProcess).                                                        *)
TaskCollect(w) ==
    /\ task = "collect"
    /\ w = wait \/ pc # "store"
    /\ task' = IF procs > 0 /\ w THEN "hung" ELSE "done"
    /\ procs' = 0
    /\ UNCHANGED <<pollFrame, ppc, pwake>>

-----------------------------------------------------------------------------
CliSteps ==
    \/ CheckAccepter \/ InterruptAccept \/ InterruptPoll \/ CheckResult \/ WaitResult
    \/ StartTask \/ StoreTask \/ AwaitAccept \/ JoinTask

AcceptSteps ==
    StartPolling \/ StorePolling \/ AcceptTest \/ AcceptWait \/ AcceptOne \/ AcceptThrows

PollSteps == PollTake \/ PollEvent \/ PollJoin \/ PollInterrupted

TaskSteps == \E w \in BOOLEAN : TaskCollect(w)

Next ==
    \/ DeployFails \/ ListenFails \/ Launch \/ LaunchRefused
    \/ \E w \in BOOLEAN : Close(w)
    \/ Exit
    \/ CliSteps
    \/ ClientConnects
    \/ AcceptSteps
    \/ PollJoined
    \/ PollSteps
    \/ TaskSteps

Spec == Init /\ [][Next]_vars

(* The operating system schedules every thread; nobody has to type a        *)
(* command, connect, or end the program, and a joined worker need not end.  *)
Fairness ==
    /\ WF_vars(CliSteps) /\ WF_vars(AcceptSteps)
    /\ WF_vars(PollSteps) /\ WF_vars(TaskSteps)

FairSpec == Spec /\ Fairness

-----------------------------------------------------------------------------
(* Properties                                                               *)

TypeOK ==
    /\ pc \in {"cli", "close", "aflag", "awrite", "pflag", "pwrite", "valid", "wait",
               "assign", "store", "await", "gone", "terminated"}
    /\ commands \in 0..MaxCommands /\ wait \in BOOLEAN /\ left \in 0..3
    /\ server \in {"none", "made"} /\ status \in {"INACTIVE", "READY"}
    /\ accepter \in {"null", "live", "freed"}
    /\ aintr \in BOOLEAN /\ awake \in BOOLEAN
    /\ arrived \in 0..MaxConns /\ backlog \in BOOLEAN
    /\ apc \in {"none", "start", "store", "test", "wait", "accept", "true", "false"}
    /\ conns \in 0..MaxConns /\ procs \in 0..MaxConns
    /\ ppc \in {"none", "wait", "handle", "join", "exited"}
    /\ pintr \in BOOLEAN /\ pwake \in BOOLEAN
    /\ result \in {"invalid", "poll", "stop"}
    /\ task \in {"none", "collect", "hung", "done"}
    /\ dangling \in BOOLEAN

Closed == pc \in {"cli", "gone"} /\ pintr

(* A close that returned leaves nobody to serve clients: the accept thread  *)
(* has ended and the polling thread, even one that was started after stop() *)
(* looked at result, finds the flag up when it wakes.                       *)
ClosedForGood == Closed => AcceptEnded /\ ppc \in {"exited", "wait"} /\ (ppc = "wait" => pwake)

(* The stop task sees every process object: none is made once it has        *)
(* emptied peers_, whether stop() found the polling thread in result or     *)
(* looked before the accept thread put it there.                            *)
TaskSeesAll == task \in {"hung", "done"} => procs = 0

(* interrupt() always finds the accepter alive when it sets the flag,       *)
(* however often close, shutdown and the destructors call it: only its      *)
(* write, after the flag, can meet an accepter the accept thread has freed. *)
FlagInLiveAccepter == (pc = "aflag" => accepter = "live") /\ (dangling => aintr)

(* The accept thread ends after close has raised its flag, whether it was   *)
(* asleep in wait, handling a client, or still starting the polling thread; *)
(* only a polling thread that holds m in a join can keep it.                *)
InterruptEndsAccept == pc = "awrite" ~> AcceptEnded \/ ppc = "join"
=============================================================================
