----------------------- MODULE ServerLifecycle_proofs -----------------------
(***************************************************************************)
(* Proofs about ServerLifecycle, for any number of clients and commands.   *)
(*                                                                         *)
(* What the command line thread may rely on depends on how far the accept  *)
(* thread has come (LaunchInv) and on which of the two interrupts have     *)
(* been completed (FlagInv).  The heart is QuietInv: behind the point      *)
(* where stop() looked at result, the polling thread handles no event any  *)
(* more, whichever of polling thread, stop task or nothing result held.    *)
(***************************************************************************)
EXTENDS ServerLifecycle, TLAPS

(* The polling thread is not in an event.                                   *)
Quiet == ppc \notin {"handle", "join"}

(* Every client is waiting, being accepted, or in peers_.                   *)
CountInv ==
    /\ conns + (IF backlog THEN 1 ELSE 0) + (IF apc = "accept" THEN 1 ELSE 0) <= arrived
    /\ procs <= conns

(* The accept thread has not yet stored the polling thread in result.       *)
Early == apc \in {"none", "start", "store"}

LaunchInv ==
    /\ status = "INACTIVE" <=> apc = "none"
    /\ status = "READY" => server = "made"
    /\ server = "made" => status = "READY" \/ pc = "terminated"
    /\ pc \notin {"cli", "gone"} => server = "made"
    /\ ppc = "none" <=> apc \in {"none", "start"}
    /\ Early => conns = 0 /\ Quiet /\ result # "poll"
    /\ result = "invalid" => Early
    /\ accepter = "live" <=> apc \notin {"none", "true"}

FlagInv ==
    /\ pintr => server = "made"
    /\ pc \in {"pwrite", "valid", "wait", "assign", "store", "await"} => pintr
    /\ pintr /\ pc # "pwrite" => pwake \/ ppc = "exited"

QuietInv ==
    /\ pintr /\ pc \notin {"pwrite", "valid", "wait"} => Quiet
    /\ result = "stop" \/ task # "none" => pintr /\ Quiet
    /\ TaskSeesAll

(* After a close that returned the accept thread has ended.                 *)
EndInv ==
    /\ left \in {1, 2} => AcceptEnded
    /\ aintr /\ pc \in {"cli", "gone", "close", "aflag"} => AcceptEnded
    /\ pintr /\ pc \in {"cli", "gone"} => AcceptEnded
    /\ pc = "awrite" => aintr
    /\ FlagInLiveAccepter

IInv == TypeOK /\ CountInv /\ LaunchInv /\ FlagInv /\ QuietInv /\ EndInv

(* What the user does: the disjuncts of Next before CliSteps.               *)
Commands ==
    \/ DeployFails \/ ListenFails \/ Launch \/ LaunchRefused
    \/ \E w \in BOOLEAN : Close(w)
    \/ Exit

LEMMA InitInv == Init => IInv
<1> SUFFICES ASSUME Init PROVE IInv
    OBVIOUS
<1>1. /\ wait \in BOOLEAN /\ aintr \in BOOLEAN /\ awake \in BOOLEAN /\ backlog \in BOOLEAN
      /\ pintr \in BOOLEAN /\ pwake \in BOOLEAN /\ dangling \in BOOLEAN
    BY DEF Init
<1>2. TypeOK
    BY <1>1, BoundsAssumption DEF Init, TypeOK
<1>3. CountInv /\ LaunchInv /\ FlagInv /\ QuietInv /\ EndInv
    BY DEF Init, CountInv, Early, Quiet, LaunchInv, FlagInv, QuietInv, EndInv, TaskSeesAll,
           AcceptEnded, FlagInLiveAccepter
<1>4. QED
    BY <1>2, <1>3 DEF IInv

(* A command typed at the prompt, or the end of the program.                *)
LEMMA CommandInv == IInv /\ Commands => IInv'
<1> SUFFICES ASSUME IInv, Commands PROVE IInv'
    OBVIOUS
<1> USE BoundsAssumption
    DEF IInv, TypeOK, CountInv, Early, Quiet, LaunchInv, FlagInv, QuietInv, EndInv,
        TaskSeesAll, AcceptEnded, FlagInLiveAccepter, cliVars, accVars, netVars,
        poolVars, intVars, Command
<1>1. CASE DeployFails
    BY <1>1 DEF DeployFails
<1>2. CASE ListenFails
    BY <1>2 DEF ListenFails
<1>3. CASE Launch
    BY <1>3 DEF Launch
<1>4. CASE LaunchRefused
    BY <1>4 DEF LaunchRefused
<1>5. ASSUME NEW w \in BOOLEAN, Close(w)
      PROVE  IInv'
    BY <1>5 DEF Close
<1>6. CASE Exit
    <2>1. wait' \in BOOLEAN
        BY <1>6 DEF Exit
    <2>2. QED
        BY <2>1, <1>6 DEF Exit
<1>7. QED
    BY <1>1, <1>2, <1>3, <1>4, <1>5, <1>6 DEF Commands

(* close() and stop(), in the command line thread.                          *)
LEMMA CloseInv == IInv /\ CliSteps => IInv'
<1> SUFFICES ASSUME IInv, CliSteps PROVE IInv'
    OBVIOUS
<1> USE BoundsAssumption
    DEF IInv, TypeOK, CountInv, Early, Quiet, LaunchInv, FlagInv, QuietInv, EndInv,
        TaskSeesAll, AcceptEnded, FlagInLiveAccepter, cliVars, accVars, netVars,
        poolVars, intVars,
        closeFrame, closeDone, ResultReady
<1>1. CASE CheckAccepter
    BY <1>1 DEF CheckAccepter
<1>2. CASE InterruptAccept
    <2>1. aintr' \in BOOLEAN /\ awake' \in BOOLEAN /\ dangling' \in BOOLEAN
        BY <1>2 DEF InterruptAccept
    <2>2. QED
        BY <2>1, <1>2 DEF InterruptAccept
<1>3. CASE InterruptPoll
    <2>1. pintr' \in BOOLEAN /\ pwake' \in BOOLEAN
        BY <1>3 DEF InterruptPoll
    <2>2. QED
        BY <2>1, <1>3 DEF InterruptPoll
<1>4. CASE CheckResult
    BY <1>4 DEF CheckResult
<1>5. CASE WaitResult
    BY <1>5 DEF WaitResult
<1>6. CASE StartTask
    BY <1>6 DEF StartTask
<1>7. CASE StoreTask
    BY <1>7 DEF StoreTask
<1>8. CASE AwaitAccept
    BY <1>8 DEF AwaitAccept
<1>9. CASE JoinTask
    BY <1>9 DEF JoinTask
<1>10. QED
    BY <1>1, <1>2, <1>3, <1>4, <1>5, <1>6, <1>7, <1>8, <1>9 DEF CliSteps

(* The accept thread.                                                       *)
LEMMA AcceptInv == IInv /\ AcceptSteps => IInv'
<1> SUFFICES ASSUME IInv, AcceptSteps PROVE IInv'
    OBVIOUS
<1> USE BoundsAssumption
    DEF IInv, TypeOK, CountInv, Early, Quiet, LaunchInv, FlagInv, QuietInv, EndInv,
        TaskSeesAll, AcceptEnded, FlagInLiveAccepter, cliVars, accVars, netVars,
        poolVars, intVars, acceptFrame, ResultReady
<1>1. CASE StartPolling
    BY <1>1 DEF StartPolling
<1>2. CASE StorePolling
    BY <1>2 DEF StorePolling
<1>3. CASE AcceptTest
    BY <1>3 DEF AcceptTest
<1>4. CASE AcceptWait
    <2>1. awake' \in BOOLEAN /\ backlog' \in BOOLEAN
        BY <1>4 DEF AcceptWait
    <2>2. QED
        BY <2>1, <1>4 DEF AcceptWait
<1>5. CASE AcceptOne
    BY <1>5 DEF AcceptOne
<1>6. CASE AcceptThrows
    BY <1>6 DEF AcceptThrows
<1>7. QED
    BY <1>1, <1>2, <1>3, <1>4, <1>5, <1>6 DEF AcceptSteps

(* The polling thread and the stop task.                                    *)
LEMMA PollInv == IInv /\ (PollSteps \/ PollJoined \/ TaskSteps) => IInv'
<1> SUFFICES ASSUME IInv, PollSteps \/ PollJoined \/ TaskSteps PROVE IInv'
    OBVIOUS
<1> USE BoundsAssumption
    DEF IInv, TypeOK, CountInv, Early, Quiet, LaunchInv, FlagInv, QuietInv, EndInv,
        TaskSeesAll, AcceptEnded, FlagInLiveAccepter, cliVars, accVars, netVars,
        poolVars, intVars, pollFrame
<1>1. CASE PollTake
    BY <1>1 DEF PollTake
<1>2. CASE PollEvent
    BY <1>2 DEF PollEvent
<1>3. CASE PollJoin
    BY <1>3 DEF PollJoin
<1>4. CASE PollInterrupted
    <2>1. pwake' \in BOOLEAN
        BY <1>4 DEF PollInterrupted
    <2>2. QED
        BY <2>1, <1>4 DEF PollInterrupted
<1>5. CASE PollJoined
    BY <1>5 DEF PollJoined
<1>6. ASSUME NEW w \in BOOLEAN, TaskCollect(w)
      PROVE  IInv'
    BY <1>6 DEF TaskCollect
<1>7. QED
    BY <1>1, <1>2, <1>3, <1>4, <1>5, <1>6 DEF PollSteps, TaskSteps

LEMMA StepInv == IInv /\ [Next]_vars => IInv'
<1> SUFFICES ASSUME IInv, [Next]_vars PROVE IInv'
    OBVIOUS
<1>1. CASE Commands
    BY <1>1, CommandInv
<1>2. CASE CliSteps
    BY <1>2, CloseInv
<1>3. CASE ClientConnects
    BY <1>3, BoundsAssumption
    DEF ClientConnects, IInv, TypeOK, CountInv, Early, Quiet, LaunchInv, FlagInv, QuietInv,
        EndInv, TaskSeesAll, AcceptEnded, FlagInLiveAccepter, cliVars, accVars, poolVars, intVars
<1>4. CASE AcceptSteps
    BY <1>4, AcceptInv
<1>5. CASE PollSteps \/ PollJoined \/ TaskSteps
    BY <1>5, PollInv
<1>6. CASE UNCHANGED vars
    BY <1>6
    DEF vars, IInv, TypeOK, CountInv, Early, Quiet, LaunchInv, FlagInv, QuietInv, EndInv,
        TaskSeesAll, AcceptEnded, FlagInLiveAccepter, cliVars, accVars, netVars, poolVars,
        intVars
<1>7. QED
    BY <1>1, <1>2, <1>3, <1>4, <1>5, <1>6 DEF Next, Commands

LEMMA Invariance == Spec => []IInv
<1>1. QED
    BY InitInv, StepInv, PTL DEF Spec

(* The state of the four threads and what they share keeps its type: the    *)
(* pool never has more entries than clients connected, nor more process     *)
(* objects than entries.                                                    *)
THEOREM LifecycleTypeCorrect == Spec => []TypeOK
<1>1. IInv => TypeOK
    BY DEF IInv
<1>2. QED
    BY <1>1, Invariance, PTL

(* When CommonServer::close has returned, or the destructors have run, the  *)
(* accept thread has ended and the polling thread serves nobody any more.   *)
THEOREM CloseIsFinal == Spec => []ClosedForGood
<1>1. IInv => ClosedForGood
    BY DEF IInv, TypeOK, LaunchInv, FlagInv, QuietInv, EndInv, Quiet, Closed, ClosedForGood,
           AcceptEnded
<1>2. QED
    BY <1>1, Invariance, PTL

(* The stop task of AbstractConnectionPool::stop leaves no process object   *)
(* behind, whatever result held when stop() looked at it.                   *)
THEOREM StopTaskSeesAll == Spec => []TaskSeesAll
<1>1. IInv => TaskSeesAll
    BY DEF IInv, QuietInv
<1>2. QED
    BY <1>1, Invariance, PTL

(* Multiplexor::interrupt raises the flag of an accepter that is alive,     *)
(* however often close and the destructors call it.                         *)
THEOREM FlagMeetsAccepter == Spec => []FlagInLiveAccepter
<1>1. IInv => FlagInLiveAccepter
    BY DEF IInv, EndInv
<1>2. QED
    BY <1>1, Invariance, PTL
=============================================================================
