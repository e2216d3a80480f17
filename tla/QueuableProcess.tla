--------------------------- MODULE QueuableProcess ---------------------------
(***************************************************************************)
(* One process object of the network library: AbstractProcess (a jthread,  *)
(* a mutex m, a shared_future) extended by AbstractQueuableProcess (a      *)
(* queue of tasks and a condition variable cv).                            *)
(*                                                                         *)
(* Three parties share the object:                                         *)
(*   - the worker thread started by execute_process, which runs the first  *)
(*     function and then the loop of after_execution_protected;            *)
(*   - threads that enqueue further tasks;                                 *)
(*   - the owner, which calls request_stop and destroys the object.        *)
(* A task is the number under which it was enqueued.                       *)
(***************************************************************************)
EXTENDS Naturals, Sequences

CONSTANT MaxTasks          \* bound: how many tasks are ever enqueued

ASSUME MaxTasksAssumption == MaxTasks \in Nat

VARIABLES
    m,          \* who holds the mutex m: "free", "worker" or "owner"
    queue,      \* std::deque<Queue_task> queue
    future,     \* state of the shared_future: "invalid", "pending", "ready"
    stop,       \* the stop flag of the jthread's stop_source
    wpc,        \* program counter of the worker thread
    current,    \* the task the worker moved out of the queue (0: none)
    opc,        \* program counter of the owner
    destroying, \* the owner is inside ~AbstractQueuableProcess
    askedBefore,\* history: the stop flag was already up when it went in
    enqueued,   \* history: how many tasks were enqueued
    started,    \* history: the tasks invoked, in order
    late        \* history: how many tasks were invoked after the stop flag

vars == <<m, queue, future, stop, wpc, current, opc, destroying,
          askedBefore, enqueued, started, late>>

history == <<askedBefore, enqueued, started, late>>

(***************************************************************************)
(* Where the worker can be.  It holds m in HoldsLock and nowhere else.     *)
(* "undefined": it has used a member of the object that is destroyed.      *)
(***************************************************************************)
WorkerLocations == {"none", "body", "enter", "loop", "run", "task", "relock",
                    "pred", "presleep", "asleep", "woken", "check", "exited",
                    "undefined"}
HoldsLock == {"loop", "pred", "presleep", "check"}

(***************************************************************************)
(* Where the owner can be: "notify" and "flag" are the two steps of        *)
(* request_stop(false) after the unlock, "selflock" is request_stop(true)  *)
(* blocked on m inside ready() while it holds m itself.  "members" is the  *)
(* end of the destructor's body; the members go in the reverse order of    *)
(* their declaration, so cv, queue, future and m are gone in "join", where *)
(* ~jthread, the first member of AbstractProcess, waits for the worker.    *)
(***************************************************************************)
OwnerLocations == {"idle", "notify", "flag", "members", "join", "destroyed",
                   "selflock"}

(* m, cv, queue and future of the object have been destroyed.               *)
MembersDead == opc \in {"join", "destroyed"}

Init ==
    /\ m = "free"
    /\ queue = <<>>
    /\ future = "invalid"
    /\ stop = FALSE
    /\ wpc = "none"
    /\ current = 0
    /\ opc = "idle"
    /\ destroying = FALSE
    /\ askedBefore = FALSE
    /\ enqueued = 0
    /\ started = <<>>
    /\ late = 0

-----------------------------------------------------------------------------
(* The worker thread                                                        *)

(* execute_process: a fresh promise and future, then the jthread.           *)
ExecuteProcess ==
    /\ opc = "idle"
    /\ wpc = "none"
    /\ future' = "pending"
    /\ wpc' = "body"
    /\ UNCHANGED <<m, queue, stop, current, opc, destroying, history>>

(* The function returns or throws: the promise is satisfied either way.     *)
BodyDone ==
    /\ wpc = "body"
    /\ future' = "ready"
    /\ wpc' = "enter"
    /\ UNCHANGED <<m, queue, stop, current, opc, destroying, history>>

(* The three places where the worker takes m: at the top of                 *)
(* after_execution_protected, after a task, and when cv.wait wakes up.      *)
WorkerLock ==
    /\ ~MembersDead
    /\ m = "free"
    /\ \/ wpc = "enter"  /\ wpc' = "loop"
       \/ wpc = "relock" /\ wpc' = "pred"
       \/ wpc = "woken"  /\ wpc' = "pred"
    /\ m' = "worker"
    /\ UNCHANGED <<queue, future, stop, current, opc, destroying, history>>

(* Mutant: the newest task is moved out instead of the front one.           *)
PopTaskBack ==
    /\ ~MembersDead
    /\ wpc = "loop" /\ queue # <<>>
    /\ current' = queue[Len(queue)]
    /\ queue' = SubSeq(queue, 1, Len(queue) - 1)
    /\ m' = "free"
    /\ wpc' = "run"
    /\ UNCHANGED <<future, stop, opc, destroying, history>>

(* Mutant: the task is popped before it is moved out, and lost.             *)
PopTaskLost ==
    /\ ~MembersDead
    /\ wpc = "loop" /\ queue # <<>>
    /\ queue' = Tail(queue)
    /\ m' = "free"
    /\ wpc' = "run"
    /\ UNCHANGED <<future, stop, current, opc, destroying, history>>

(* Top of the do loop with work: move the front task out and unlock.        *)
PopTask ==
    /\ ~MembersDead
    /\ wpc = "loop" /\ queue # <<>>
    /\ current' = Head(queue)
    /\ queue' = Tail(queue)
    /\ m' = "free"
    /\ wpc' = "run"
    /\ UNCHANGED <<future, stop, opc, destroying, history>>

(* Top of the do loop without work: fall through to cv.wait.                *)
SkipEmptyQueue ==
    /\ ~MembersDead
    /\ wpc = "loop" /\ queue = <<>>
    /\ wpc' = "pred"
    /\ UNCHANGED <<m, queue, future, stop, current, opc, destroying, history>>

(* Mutant: the task leaves the future of the first function in place.       *)
StartTaskKeepFuture ==
    /\ ~MembersDead
    /\ wpc = "run"
    /\ started' = Append(started, current)
    /\ late' = IF stop THEN late + 1 ELSE late
    /\ wpc' = "task"
    /\ UNCHANGED <<m, queue, future, stop, current, opc, destroying, askedBefore, enqueued>>

(* The task body replaces the shared future, without m, and runs.           *)
StartTask ==
    /\ ~MembersDead
    /\ wpc = "run"
    /\ future' = "pending"
    /\ started' = Append(started, current)
    /\ late' = IF stop THEN late + 1 ELSE late
    /\ wpc' = "task"
    /\ UNCHANGED <<m, queue, stop, current, opc, destroying, askedBefore, enqueued>>

(* The task's promise is satisfied, by its value or its exception.          *)
TaskDone ==
    /\ wpc = "task"
    /\ future' = "ready"
    /\ current' = 0
    /\ wpc' = "relock"
    /\ UNCHANGED <<m, queue, stop, opc, destroying, history>>

(* Mutant: the stop test is the whole predicate.                            *)
CvPredicateStopOnly ==
    /\ ~MembersDead
    /\ wpc = "pred"
    /\ wpc' = IF stop THEN "check" ELSE "presleep"
    /\ UNCHANGED <<m, queue, future, stop, current, opc, destroying, history>>

(* cv.wait evaluates its predicate under m.                                 *)
CvPredicate ==
    /\ ~MembersDead
    /\ wpc = "pred"
    /\ wpc' = IF queue # <<>> \/ stop THEN "check" ELSE "presleep"
    /\ UNCHANGED <<m, queue, future, stop, current, opc, destroying, history>>

(* cv.wait releases m and blocks, in one step for whoever notifies.         *)
CvSleep ==
    /\ ~MembersDead
    /\ wpc = "presleep"
    /\ m' = "free"
    /\ wpc' = "asleep"
    /\ UNCHANGED <<queue, future, stop, current, opc, destroying, history>>

(* A condition variable may wake its waiter without a notification.  The    *)
(* waiter of a destroyed one is in the undefined.                           *)
SpuriousWakeup ==
    /\ wpc = "asleep"
    /\ wpc' = IF MembersDead THEN "undefined" ELSE "woken"
    /\ UNCHANGED <<m, queue, future, stop, current, opc, destroying, history>>

(* Mutant: leave only when the queue has been drained as well.              *)
LoopTestDrain ==
    /\ ~MembersDead
    /\ wpc = "check"
    /\ IF stop /\ queue = <<>> THEN wpc' = "exited" /\ m' = "free"
                               ELSE wpc' = "loop"   /\ m' = m
    /\ UNCHANGED <<queue, future, stop, current, opc, destroying, history>>

(* Mutant: the condition of the do loop is forgotten.                       *)
LoopTestAlways ==
    /\ ~MembersDead
    /\ wpc = "check"
    /\ wpc' = "exited" /\ m' = "free"
    /\ UNCHANGED <<queue, future, stop, current, opc, destroying, history>>

(* while(!stop_requested()): leave, releasing m, or go round.               *)
LoopTest ==
    /\ ~MembersDead
    /\ wpc = "check"
    /\ IF stop THEN wpc' = "exited" /\ m' = "free"
               ELSE wpc' = "loop"   /\ m' = m
    /\ UNCHANGED <<queue, future, stop, current, opc, destroying, history>>

(* Everything the worker does outside user code and sleep uses m, cv, queue *)
(* or future.  Once they are destroyed its next step is undefined ...       *)
UseDestroyed ==
    /\ MembersDead
    /\ wpc \notin {"none", "body", "task", "asleep", "exited", "undefined"}
    /\ wpc' = "undefined"
    /\ UNCHANGED <<m, queue, future, stop, current, opc, destroying, history>>

(* ... and may let the thread end (the memory is still there, and the       *)
(* virtual after_execution_protected is AbstractProcess's empty one by      *)
(* then), block it for ever, or end the program: the last two are no step.  *)
UndefinedExit ==
    /\ wpc = "undefined"
    /\ wpc' = "exited"
    /\ UNCHANGED <<m, queue, future, stop, current, opc, destroying, history>>

-----------------------------------------------------------------------------
(* Callers                                                                  *)

(* cv.notify_one: the worker is the only thread that ever blocks in cv.     *)
NotifyOne == wpc' = IF wpc = "asleep" THEN "woken" ELSE wpc

(* Mutant: enqueue without its notify_one.                                  *)
EnqueueSilent ==
    /\ ~destroying
    /\ m = "free"
    /\ enqueued < MaxTasks
    /\ enqueued' = enqueued + 1
    /\ queue' = Append(queue, enqueued + 1)
    /\ UNCHANGED <<m, future, stop, wpc, current, opc, destroying, askedBefore, started, late>>

(* enqueue: push_back and notify_one inside one critical section.           *)
Enqueue ==
    /\ ~destroying
    /\ m = "free"
    /\ enqueued < MaxTasks
    /\ enqueued' = enqueued + 1
    /\ queue' = Append(queue, enqueued + 1)
    /\ NotifyOne
    /\ UNCHANGED <<m, future, stop, current, opc, destroying, askedBefore, started, late>>

(* request_stop_protected(false), up to the unlock.                         *)
ClearQueue ==
    /\ m = "free"
    /\ queue' = <<>>
    /\ opc' = "notify"
    /\ UNCHANGED <<m, future, stop, wpc, current, enqueued, started, late>>

RequestStop ==
    /\ opc = "idle"
    /\ ClearQueue
    /\ UNCHANGED <<destroying, askedBefore>>

(* The body of ~AbstractQueuableProcess is request_stop_protected(false).   *)
Destroy ==
    /\ opc = "idle"
    /\ ClearQueue
    /\ destroying' = TRUE
    /\ askedBefore' = stop

(* Mutant: request_stop without its notify_one.                             *)
StopNotifySilent ==
    /\ opc = "notify"
    /\ opc' = "flag"
    /\ UNCHANGED <<m, queue, future, stop, wpc, current, destroying, history>>

(* cv.notify_one() after the unlock, before the flag is set.                *)
StopNotify ==
    /\ opc = "notify"
    /\ NotifyOne
    /\ opc' = "flag"
    /\ UNCHANGED <<m, queue, future, stop, current, destroying, history>>

(* thread.request_stop(): sets the flag if there is a thread, wakes nobody. *)
StopFlag ==
    /\ opc = "flag"
    /\ stop' = (stop \/ wpc # "none")
    /\ opc' = IF destroying THEN "members" ELSE "idle"
    /\ UNCHANGED <<m, queue, future, wpc, current, destroying, history>>

(* cv and queue of AbstractQueuableProcess, then future and m of            *)
(* AbstractProcess are destroyed, whatever the worker is doing.             *)
DestroyMembers ==
    /\ opc = "members"
    /\ opc' = "join"
    /\ UNCHANGED <<m, queue, future, stop, wpc, current, destroying, history>>

(* ~jthread joins a started thread; a never started one has none.           *)
Join ==
    /\ opc = "join"
    /\ wpc \in {"none", "exited"}
    /\ opc' = "destroyed"
    /\ UNCHANGED <<m, queue, future, stop, wpc, current, destroying, history>>

(* request_stop_protected(true): the predicate of its cv.wait calls ready(), *)
(* which locks m again in the thread that holds it.  std::mutex is not       *)
(* recursive, so the call never returns and m stays taken.                   *)
RequestStopWaiting ==
    /\ opc = "idle"
    /\ m = "free"
    /\ m' = "owner"
    /\ queue' = <<>>
    /\ opc' = "selflock"
    /\ UNCHANGED <<future, stop, wpc, current, destroying, history>>

-----------------------------------------------------------------------------
Worker ==
    \/ BodyDone \/ WorkerLock \/ PopTask \/ SkipEmptyQueue \/ StartTask
    \/ TaskDone \/ CvPredicate \/ CvSleep \/ LoopTest \/ UseDestroyed

OwnerStep == StopNotify \/ StopFlag \/ DestroyMembers \/ Join

Next ==
    \/ ExecuteProcess
    \/ Worker
    \/ SpuriousWakeup
    \/ UndefinedExit
    \/ Enqueue
    \/ RequestStop
    \/ Destroy
    \/ OwnerStep
    \/ RequestStopWaiting

Spec == Init /\ [][Next]_vars

(***************************************************************************)
(* Every thread that can run is scheduled, and std::mutex lets a thread    *)
(* that keeps asking in.  Nobody has to enqueue, stop, or wake spuriously, *)
(* and nothing is expected of a thread that is in the undefined.           *)
(***************************************************************************)
Fairness ==
    /\ WF_vars(Worker)
    /\ SF_vars(WorkerLock)
    /\ WF_vars(OwnerStep)

FairSpec == Spec /\ Fairness

-----------------------------------------------------------------------------
(* Properties                                                               *)

TypeOK ==
    /\ m \in {"free", "worker", "owner"}
    /\ queue \in Seq(1..MaxTasks)
    /\ future \in {"invalid", "pending", "ready"}
    /\ stop \in BOOLEAN
    /\ wpc \in WorkerLocations
    /\ current \in 0..MaxTasks
    /\ opc \in OwnerLocations
    /\ destroying \in BOOLEAN
    /\ askedBefore \in BOOLEAN
    /\ enqueued \in 0..MaxTasks
    /\ started \in Seq(1..MaxTasks)
    /\ late \in Nat

(* Tasks are invoked in the order in which they were enqueued and none is   *)
(* invoked twice, whatever request_stop clears in between: the moved-out    *)
(* front task is always older than the ones still queued.                   *)
InOrderOnce ==
    \A i, j \in DOMAIN started : i < j => started[i] < started[j]

(* The worker never blocks in cv while a task waits: enqueue pushes and     *)
(* notifies inside the critical section in which the predicate is tested.   *)
NoStrandedTask ==
    wpc \in {"presleep", "asleep"} => queue = <<>>

(* At most one task is still invoked once the stop flag is up: the loop of  *)
(* after_execution_protected tests the flag only after its first round.     *)
AtMostOneLateTask == late <= 1

(* While user code runs the future is not ready, so ready() is false and    *)
(* the pool does not replace the process: reply asserts busy().             *)
BusyWhileRunning ==
    wpc \in {"body", "task"} => future = "pending"

(* ~condition_variable_any may only run when no thread is blocked in it.    *)
(* The notification of a second request_stop, the destructor's after the    *)
(* pool's, comes when the flag is up, so it cannot be slept through: the    *)
(* worker is not in cv.wait when the members go.  After a first one it may  *)
(* be.  (What it does with the other members then, UseDestroyed, the code   *)
(* does not prevent in either case.)                                        *)
NoSleeperInDestroyedCv ==
    askedBefore /\ opc \in {"members", "join", "destroyed"} =>
        wpc \notin {"presleep", "asleep"}

(***************************************************************************)
(* The inductive invariant behind the safety properties: who holds m where, *)
(* the order of all tasks from the oldest invoked to the youngest queued,  *)
(* and that a late task leaves the worker on the way out of its loop.      *)
(***************************************************************************)
LockInv ==
    /\ ~MembersDead => (m = "worker" <=> wpc \in HoldsLock)
    /\ m = "owner" <=> opc = "selflock"

OrderInv ==
    /\ \A i \in DOMAIN started : started[i] <= enqueued
    /\ \A i \in DOMAIN queue : queue[i] <= enqueued
    /\ \A i, j \in DOMAIN queue : i < j => queue[i] < queue[j]
    /\ \A i \in DOMAIN started, j \in DOMAIN queue : started[i] < queue[j]
    /\ wpc = "run" =>
         /\ current \in 1..enqueued
         /\ \A i \in DOMAIN started : started[i] < current
         /\ \A j \in DOMAIN queue : current < queue[j]

LateInv ==
    late # 0 => /\ late = 1 /\ stop
                /\ wpc \in {"task", "relock", "pred", "check", "exited", "undefined"}

FutureInv == future = "pending" <=> wpc \in {"body", "task"}

StartInv == wpc = "none" => ~stop

(* The owner on its way out: the flag is up before the members go, and a    *)
(* worker asked before is out of cv.wait once it has been notified.         *)
OwnerInv ==
    /\ destroying => opc \notin {"idle", "selflock"}
    /\ opc \in {"members", "join", "destroyed"} =>
         destroying /\ (stop \/ wpc = "none")
    /\ wpc = "undefined" => MembersDead /\ stop
    /\ askedBefore => destroying /\ stop /\ wpc # "presleep"
    /\ askedBefore /\ opc # "notify" => wpc # "asleep"

(* All the parts together: preserved by every step of every party.          *)
IInv ==
    /\ TypeOK /\ LockInv /\ OrderInv /\ InOrderOnce /\ NoStrandedTask
    /\ LateInv /\ FutureInv /\ StartInv /\ OwnerInv

(* The process object implements the life cycle the pool relies on.         *)
Life == INSTANCE ProcessLife WITH
    life  <- IF wpc = "none" THEN "new"
             ELSE IF wpc = "exited" THEN "exited"
             ELSE IF future = "pending" THEN "busy" ELSE "ready",
    asked <- stop

(* Seen through ready() and the stop flag, every step of the three parties  *)
(* is a step of ProcessLife: the worker never leaves in the middle of a     *)
(* function, and never without having been asked to stop.                   *)
ImplementsLife == Life!Spec

(* A task taken into the queue is invoked, unless the owner clears the      *)
(* queue or stops the process: no enqueue is forgotten.                     *)
TaskServed ==
    \A t \in 1..MaxTasks :
        (wpc # "none" /\ \E i \in DOMAIN queue : queue[i] = t) ~>
            \/ \E i \in DOMAIN started : started[i] = t
            \/ opc # "idle" \/ stop

(* What the comments on Mashroom::close_server ask for: a process that is   *)
(* told to stop at once comes to its end and can be destroyed.  Behaviours  *)
(* in which the worker used a destroyed member are left out: what is left   *)
(* is the notification that was slept through.                              *)
StopTerminates == destroying ~> opc = "destroyed" \/ wpc = "undefined"
=============================================================================
