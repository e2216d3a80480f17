----------------------- MODULE QueuableProcess_proofs -----------------------
(***************************************************************************)
(* Proofs about QueuableProcess, for any number of enqueued tasks.         *)
(***************************************************************************)
EXTENDS QueuableProcess, TLAPS

-----------------------------------------------------------------------------
(* What the three operations on the queue do to it, as functions.           *)

(* enqueue's push_back keeps the older tasks where they are.                *)
LEMMA AppendFacts ==
    ASSUME NEW S, NEW s \in Seq(S), NEW e \in S
    PROVE  /\ Append(s, e) \in Seq(S)
           /\ DOMAIN s = 1..Len(s) /\ Len(s) \in Nat
           /\ DOMAIN Append(s, e) = 1..(Len(s) + 1)
           /\ \A i \in DOMAIN s : Append(s, e)[i] = s[i]
           /\ Append(s, e)[Len(s) + 1] = e
    OBVIOUS

(* pop_front moves every remaining task one place forward.                  *)
LEMMA TailFacts ==
    ASSUME NEW S, NEW s \in Seq(S), s # <<>>
    PROVE  /\ Head(s) \in S /\ Head(s) = s[1]
           /\ Tail(s) \in Seq(S)
           /\ DOMAIN s = 1..Len(s) /\ Len(s) \in Nat \ {0}
           /\ DOMAIN Tail(s) = 1..(Len(s) - 1)
           /\ \A i \in DOMAIN Tail(s) : Tail(s)[i] = s[i + 1]
    OBVIOUS

-----------------------------------------------------------------------------
(* The fresh process object satisfies the invariant.                        *)
LEMMA InitIInv == Init => IInv
<1> SUFFICES ASSUME Init PROVE IInv
    OBVIOUS
<1>1. TypeOK
    <2>1. 0 \in 0..MaxTasks /\ <<>> \in Seq(1..MaxTasks)
        BY MaxTasksAssumption
    <2> QED  BY <2>1 DEF Init, TypeOK, WorkerLocations, OwnerLocations
<1>2. DOMAIN queue = {} /\ DOMAIN started = {}
    BY DEF Init
<1>3. OrderInv /\ InOrderOnce
    BY <1>2 DEF Init, OrderInv, InOrderOnce
<1>4. LockInv /\ NoStrandedTask /\ LateInv /\ FutureInv /\ StartInv /\ OwnerInv
    BY DEF Init, LockInv, NoStrandedTask, LateInv, FutureInv, StartInv, OwnerInv,
           HoldsLock, MembersDead
<1> QED  BY <1>1, <1>3, <1>4 DEF IInv

(* Every step keeps the variables in their types.                           *)
LEMMA StepTypeOK == IInv /\ [Next]_vars => TypeOK'
<1> SUFFICES ASSUME IInv, [Next]_vars PROVE TypeOK'
    OBVIOUS
<1> USE MaxTasksAssumption DEF IInv, TypeOK, WorkerLocations, OwnerLocations, history
<1>1. CASE ExecuteProcess  BY <1>1 DEF ExecuteProcess
<1>2. CASE BodyDone  BY <1>2 DEF BodyDone
<1>3. CASE WorkerLock  BY <1>3 DEF WorkerLock
<1>4. CASE PopTask
    <2>1. /\ Head(queue) \in 1..MaxTasks
          /\ Tail(queue) \in Seq(1..MaxTasks)
        BY <1>4, TailFacts DEF PopTask
    <2> QED  BY <1>4, <2>1 DEF PopTask
<1>5. CASE SkipEmptyQueue  BY <1>5 DEF SkipEmptyQueue
<1>6. CASE StartTask
    <2>1. current \in 1..MaxTasks
        BY <1>6 DEF StartTask, OrderInv
    <2>2. Append(started, current) \in Seq(1..MaxTasks)
        BY <2>1, AppendFacts
    <2> QED  BY <1>6, <2>2 DEF StartTask
<1>7. CASE TaskDone  BY <1>7 DEF TaskDone
<1>8. CASE CvPredicate  BY <1>8 DEF CvPredicate
<1>9. CASE CvSleep  BY <1>9 DEF CvSleep
<1>10. CASE LoopTest  BY <1>10 DEF LoopTest
<1>11. CASE SpuriousWakeup  BY <1>11 DEF SpuriousWakeup
<1>12. CASE Enqueue
    <2>1. enqueued + 1 \in 1..MaxTasks
        BY <1>12 DEF Enqueue
    <2>2. Append(queue, enqueued + 1) \in Seq(1..MaxTasks)
        BY <2>1, AppendFacts
    <2> QED  BY <1>12, <2>1, <2>2 DEF Enqueue, NotifyOne
<1>13. CASE RequestStop  BY <1>13 DEF RequestStop, ClearQueue
<1>14. CASE Destroy  BY <1>14 DEF Destroy, ClearQueue
<1>15. CASE StopNotify  BY <1>15 DEF StopNotify, NotifyOne
<1>16. CASE StopFlag  BY <1>16 DEF StopFlag
<1>17. CASE Join  BY <1>17 DEF Join
<1>18. CASE RequestStopWaiting  BY <1>18 DEF RequestStopWaiting
<1>19. CASE UNCHANGED vars  BY <1>19 DEF vars
<1>20. CASE UseDestroyed  BY <1>20 DEF UseDestroyed
<1>21. CASE UndefinedExit  BY <1>21 DEF UndefinedExit
<1>22. CASE DestroyMembers  BY <1>22 DEF DestroyMembers
<1> QED
    BY <1>1, <1>2, <1>3, <1>4, <1>5, <1>6, <1>7, <1>8, <1>9, <1>10, <1>11,
       <1>12, <1>13, <1>14, <1>15, <1>16, <1>17, <1>18, <1>19, <1>20, <1>21, <1>22
    DEF Next, Worker, OwnerStep

(* Every step keeps m in the hands its holder's program counter shows, the  *)
(* sleeping worker's queue empty, the future in step with the running code, *)
(* a worker that ran a late task on its way out, and one that was asked     *)
(* before the destructor out of cv.wait once it was notified.               *)
LEMMA StepControl ==
    IInv /\ [Next]_vars =>
        /\ LockInv' /\ NoStrandedTask' /\ LateInv' /\ FutureInv' /\ StartInv'
        /\ OwnerInv'
<1> SUFFICES ASSUME IInv, [Next]_vars
             PROVE  /\ LockInv' /\ NoStrandedTask' /\ LateInv' /\ FutureInv'
                    /\ StartInv' /\ OwnerInv'
    OBVIOUS
<1> USE DEF IInv, TypeOK, WorkerLocations, OwnerLocations, HoldsLock, LockInv,
            NoStrandedTask, LateInv, FutureInv, StartInv, OwnerInv, MembersDead,
            history
<1>1. CASE ExecuteProcess  BY <1>1 DEF ExecuteProcess
<1>2. CASE BodyDone  BY <1>2 DEF BodyDone
<1>3. CASE WorkerLock  BY <1>3 DEF WorkerLock
<1>4. CASE PopTask  BY <1>4 DEF PopTask
<1>5. CASE SkipEmptyQueue  BY <1>5 DEF SkipEmptyQueue
<1>6. CASE StartTask  BY <1>6 DEF StartTask
<1>7. CASE TaskDone  BY <1>7 DEF TaskDone
<1>8. CASE CvPredicate  BY <1>8 DEF CvPredicate
<1>9. CASE CvSleep  BY <1>9 DEF CvSleep
<1>10. CASE LoopTest  BY <1>10 DEF LoopTest
<1>11. CASE SpuriousWakeup  BY <1>11 DEF SpuriousWakeup
<1>12. CASE Enqueue  BY <1>12 DEF Enqueue, NotifyOne
<1>13. CASE RequestStop  BY <1>13 DEF RequestStop, ClearQueue
<1>14. CASE Destroy  BY <1>14 DEF Destroy, ClearQueue
<1>15. CASE StopNotify  BY <1>15 DEF StopNotify, NotifyOne
<1>16. CASE StopFlag  BY <1>16 DEF StopFlag
<1>17. CASE Join  BY <1>17 DEF Join
<1>18. CASE RequestStopWaiting  BY <1>18 DEF RequestStopWaiting
<1>19. CASE UNCHANGED vars  BY <1>19 DEF vars
<1>20. CASE UseDestroyed  BY <1>20 DEF UseDestroyed
<1>21. CASE UndefinedExit  BY <1>21 DEF UndefinedExit
<1>22. CASE DestroyMembers  BY <1>22 DEF DestroyMembers
<1> QED
    BY <1>1, <1>2, <1>3, <1>4, <1>5, <1>6, <1>7, <1>8, <1>9, <1>10, <1>11,
       <1>12, <1>13, <1>14, <1>15, <1>16, <1>17, <1>18, <1>19, <1>20, <1>21, <1>22
    DEF Next, Worker, OwnerStep

(* Every step keeps the tasks in order: only enqueue adds a task, and it is *)
(* younger than all others; only PopTask and StartTask move one along; a    *)
(* cleared queue is in order.                                               *)
LEMMA StepOrder == IInv /\ [Next]_vars => OrderInv' /\ InOrderOnce'
<1> SUFFICES ASSUME IInv, [Next]_vars PROVE OrderInv' /\ InOrderOnce'
    OBVIOUS
<1>1. /\ enqueued \in Nat
      /\ \A i \in DOMAIN queue : i \in Nat /\ queue[i] \in Nat
      /\ \A i \in DOMAIN started : i \in Nat /\ started[i] \in Nat
    BY MaxTasksAssumption DEF IInv, TypeOK
<1>2. /\ queue \in Seq(1..MaxTasks) /\ started \in Seq(1..MaxTasks)
      /\ enqueued \in 0..MaxTasks
    BY DEF IInv, TypeOK
<1>3. \A i, j \in DOMAIN started : i < j => started[i] < started[j]
    BY DEF IInv, InOrderOnce
<1>4. \A i \in DOMAIN started : started[i] <= enqueued
    BY DEF IInv, OrderInv
<1>5. \A i \in DOMAIN queue : queue[i] <= enqueued
    BY DEF IInv, OrderInv
<1>6. \A i, j \in DOMAIN queue : i < j => queue[i] < queue[j]
    BY DEF IInv, OrderInv
<1>7. \A i \in DOMAIN started, j \in DOMAIN queue : started[i] < queue[j]
    BY DEF IInv, OrderInv
<1>8. wpc = "run" => /\ current \in 1..enqueued
                     /\ \A i \in DOMAIN started : started[i] < current
                     /\ \A j \in DOMAIN queue : current < queue[j]
    BY DEF IInv, OrderInv
<1>9. CASE PopTask
    <2>1. /\ Head(queue) = queue[1]
          /\ DOMAIN queue = 1..Len(queue) /\ Len(queue) \in Nat \ {0}
          /\ DOMAIN Tail(queue) = 1..(Len(queue) - 1)
          /\ \A i \in DOMAIN Tail(queue) : Tail(queue)[i] = queue[i + 1]
          /\ Head(queue) \in 1..MaxTasks
        BY <1>2, <1>9, TailFacts DEF PopTask
    <2>2. /\ queue' = Tail(queue) /\ current' = queue[1]
          /\ started' = started /\ enqueued' = enqueued /\ wpc' = "run"
        BY <1>9, <2>1 DEF PopTask, history
    <2>3. \A j \in DOMAIN queue' :
            j \in Nat /\ j + 1 \in DOMAIN queue /\ 1 < j + 1 /\ queue'[j] = queue[j + 1]
        BY <2>1, <2>2
    <2>4. 1 \in DOMAIN queue
        BY <2>1
    <2>5. \A i, j \in DOMAIN queue' : i < j => queue'[i] < queue'[j]
        BY <2>3, <1>6
    <2>6. \A j \in DOMAIN queue' : queue'[j] <= enqueued' /\ current' < queue'[j]
        BY <2>2, <2>3, <2>4, <1>5, <1>6
    <2>7. \A i \in DOMAIN started' : \A j \in DOMAIN queue' : started'[i] < queue'[j]
        BY <2>2, <2>3, <1>7
    <2>8. \A i \in DOMAIN started' : started'[i] <= enqueued' /\ started'[i] < current'
        BY <2>2, <2>4, <1>4, <1>7
    <2>9. current' \in 1..enqueued'
        BY <2>1, <2>2, <2>4, <1>1, <1>5
    <2> QED  BY <2>2, <2>5, <2>6, <2>7, <2>8, <2>9, <1>3 DEF OrderInv, InOrderOnce
<1>10. CASE StartTask
    <2>1. /\ current \in 1..enqueued
          /\ \A i \in DOMAIN started : started[i] < current
          /\ \A j \in DOMAIN queue : current < queue[j]
        BY <1>8, <1>10 DEF StartTask
    <2>2. current \in 1..MaxTasks
        BY <2>1, <1>2, MaxTasksAssumption
    <2>3. /\ DOMAIN started = 1..Len(started) /\ Len(started) \in Nat
          /\ DOMAIN started' = 1..(Len(started) + 1)
          /\ \A i \in DOMAIN started : started'[i] = started[i]
          /\ started'[Len(started) + 1] = current
        BY <1>2, <1>10, <2>2, AppendFacts DEF StartTask
    <2>4. queue' = queue /\ enqueued' = enqueued /\ wpc' = "task"
        BY <1>10 DEF StartTask
    <2>5. \A i \in DOMAIN started' :
            i \in DOMAIN started \/ (i = Len(started) + 1 /\ started'[i] = current)
        BY <2>3
    <2>6. \A i, j \in DOMAIN started' : i < j => started'[i] < started'[j]
        BY <2>1, <2>3, <2>5, <1>3
    <2>7. \A i \in DOMAIN started' : started'[i] <= enqueued'
        BY <2>1, <2>3, <2>4, <2>5, <1>1, <1>4
    <2>8. \A i \in DOMAIN started', j \in DOMAIN queue' : started'[i] < queue'[j]
        BY <2>1, <2>3, <2>4, <2>5, <1>7
    <2> QED  BY <2>4, <2>6, <2>7, <2>8, <1>5, <1>6 DEF OrderInv, InOrderOnce
<1>11. CASE Enqueue
    <2>1. enqueued + 1 \in 1..MaxTasks /\ enqueued' = enqueued + 1
        BY <1>2, <1>11, MaxTasksAssumption DEF Enqueue
    <2>2. /\ DOMAIN queue = 1..Len(queue) /\ Len(queue) \in Nat
          /\ DOMAIN queue' = 1..(Len(queue) + 1)
          /\ \A i \in DOMAIN queue : queue'[i] = queue[i]
          /\ queue'[Len(queue) + 1] = enqueued + 1
        BY <1>2, <1>11, <2>1, AppendFacts DEF Enqueue
    <2>3. /\ started' = started /\ current' = current
          /\ wpc' = "run" => wpc = "run"
        BY <1>11 DEF Enqueue, NotifyOne
    <2>4. \A i \in DOMAIN queue' :
            i \in DOMAIN queue \/ (i = Len(queue) + 1 /\ queue'[i] = enqueued + 1)
        BY <2>2
    <2>5. \A i \in DOMAIN queue : queue[i] < enqueued + 1
        BY <1>1, <1>5
    <2>6. \A i, j \in DOMAIN queue' : i < j => queue'[i] < queue'[j]
        BY <2>2, <2>4, <2>5, <1>6
    <2>7. \A i \in DOMAIN queue' : queue'[i] <= enqueued'
        BY <2>1, <2>2, <2>4, <2>5, <1>1
    <2>8. \A i \in DOMAIN started' : started'[i] < enqueued + 1
        BY <2>3, <1>1, <1>4
    <2>9. \A i \in DOMAIN started', j \in DOMAIN queue' : started'[i] < queue'[j]
        BY <2>2, <2>3, <2>4, <2>8, <1>7
    <2>10. \A i \in DOMAIN started' : started'[i] <= enqueued'
        BY <2>1, <2>3, <1>1, <1>4
    <2>11. ASSUME wpc' = "run"
           PROVE  /\ current' \in 1..enqueued'
                  /\ \A i \in DOMAIN started' : started'[i] < current'
                  /\ \A j \in DOMAIN queue' : current' < queue'[j]
        <3>1. /\ current' \in 1..enqueued
              /\ \A i \in DOMAIN started : started[i] < current'
              /\ \A j \in DOMAIN queue : current' < queue[j]
            BY <2>3, <2>11, <1>8
        <3>2. current' \in 1..enqueued' /\ current' < enqueued + 1
            BY <3>1, <2>1, <1>1
        <3> QED  BY <3>1, <3>2, <2>2, <2>3, <2>4
    <2> QED  BY <2>3, <2>6, <2>7, <2>9, <2>10, <2>11, <1>3 DEF OrderInv, InOrderOnce
<1>12. CASE \/ ExecuteProcess \/ BodyDone \/ WorkerLock \/ SkipEmptyQueue
            \/ TaskDone \/ CvPredicate \/ CvSleep \/ LoopTest \/ SpuriousWakeup
            \/ StopNotify \/ StopFlag \/ Join \/ UseDestroyed \/ UndefinedExit
            \/ DestroyMembers \/ UNCHANGED vars
    <2>1. /\ queue' = queue /\ started' = started /\ enqueued' = enqueued
          /\ wpc' = "run" => wpc = "run" /\ current' = current
        BY <1>12 DEF ExecuteProcess, BodyDone, WorkerLock, SkipEmptyQueue,
            TaskDone, CvPredicate, CvSleep, LoopTest, SpuriousWakeup,
            StopNotify, NotifyOne, StopFlag, Join, UseDestroyed, UndefinedExit,
            DestroyMembers, vars, history
    <2> QED  BY <2>1 DEF IInv, OrderInv, InOrderOnce
<1>13. CASE RequestStop \/ Destroy \/ RequestStopWaiting
    <2>1. /\ queue' = <<>> /\ started' = started /\ enqueued' = enqueued
          /\ wpc' = wpc /\ current' = current
        BY <1>13 DEF RequestStop, Destroy, RequestStopWaiting, ClearQueue, history
    <2>2. DOMAIN queue' = {}
        BY <2>1
    <2> QED  BY <2>1, <2>2, <1>3, <1>4, <1>8 DEF OrderInv, InOrderOnce
<1> QED
    BY <1>9, <1>10, <1>11, <1>12, <1>13 DEF Next, Worker, OwnerStep

(* The invariant holds in every reachable state.                            *)
THEOREM InvariantHolds == Spec => []IInv
<1>1. IInv /\ [Next]_vars => IInv'
    BY StepTypeOK, StepControl, StepOrder DEF IInv
<1> QED
    BY InitIInv, <1>1, PTL DEF Spec

(* Every variable of the process object stays in its type.                  *)
THEOREM TypeCorrect == Spec => []TypeOK
<1>1. IInv => TypeOK
    BY DEF IInv
<1> QED  BY InvariantHolds, <1>1, PTL

(* after_execution_protected invokes the tasks in the order of enqueue,     *)
(* each at most once, for any interleaving with enqueue and request_stop.   *)
THEOREM TasksInOrderOnce == Spec => []InOrderOnce
<1>1. IInv => InOrderOnce
    BY DEF IInv
<1> QED  BY InvariantHolds, <1>1, PTL

(* The worker never sleeps on cv over a queued task.                        *)
THEOREM NoTaskStranded == Spec => []NoStrandedTask
<1>1. IInv => NoStrandedTask
    BY DEF IInv
<1> QED  BY InvariantHolds, <1>1, PTL

(* Once the stop flag is set at most one more task is invoked.              *)
THEOREM LateTasksBounded == Spec => []AtMostOneLateTask
<1>1. IInv => AtMostOneLateTask
    BY DEF IInv, TypeOK, LateInv, AtMostOneLateTask
<1> QED  BY InvariantHolds, <1>1, PTL

(* ready() is false while the first function or a task runs.                *)
THEOREM RunningIsBusy == Spec => []BusyWhileRunning
<1>1. IInv => BusyWhileRunning
    BY DEF IInv, FutureInv, BusyWhileRunning
<1> QED  BY InvariantHolds, <1>1, PTL

(* When cv is destroyed after an earlier request_stop, no worker is blocked *)
(* in it: the destructor's own notification finds the flag up.              *)
THEOREM CvDestroyedUnused == Spec => []NoSleeperInDestroyedCv
<1>1. IInv => NoSleeperInDestroyedCv
    BY DEF IInv, OwnerInv, NoSleeperInDestroyedCv
<1> QED  BY InvariantHolds, <1>1, PTL

-----------------------------------------------------------------------------
(* A step of any party is a step of ProcessLife or leaves it unchanged.     *)
LEMMA StepLife == IInv /\ [Next]_vars => [Life!Next]_(Life!vars)
<1> SUFFICES ASSUME IInv, [Next]_vars PROVE [Life!Next]_(Life!vars)
    OBVIOUS
<1> USE DEF IInv, TypeOK, WorkerLocations, HoldsLock, FutureInv, StartInv, OwnerInv,
            history, Life!Next, Life!vars
<1>1. CASE ExecuteProcess  BY <1>1 DEF ExecuteProcess, Life!Start
<1>2. CASE BodyDone  BY <1>2 DEF BodyDone, Life!Finish
<1>3. CASE StartTask  BY <1>3 DEF StartTask, Life!Resume
<1>4. CASE TaskDone  BY <1>4 DEF TaskDone, Life!Finish
<1>5. CASE LoopTest  BY <1>5 DEF LoopTest, Life!Exit
<1>6. CASE StopFlag  BY <1>6 DEF StopFlag, Life!Ask
<1>7. CASE \/ WorkerLock \/ PopTask \/ SkipEmptyQueue \/ CvPredicate \/ CvSleep
           \/ SpuriousWakeup \/ UseDestroyed
    BY <1>7 DEF WorkerLock, PopTask, SkipEmptyQueue, CvPredicate, CvSleep,
                SpuriousWakeup, UseDestroyed
<1>8. CASE Enqueue \/ StopNotify
    BY <1>8 DEF Enqueue, StopNotify, NotifyOne
<1>9. CASE \/ RequestStop \/ Destroy \/ RequestStopWaiting \/ DestroyMembers
           \/ Join \/ UNCHANGED vars
    BY <1>9 DEF RequestStop, Destroy, ClearQueue, RequestStopWaiting,
                DestroyMembers, Join, vars
<1>10. CASE UndefinedExit  BY <1>10 DEF UndefinedExit, Life!Exit
<1> QED
    BY <1>1, <1>2, <1>3, <1>4, <1>5, <1>6, <1>7, <1>8, <1>9, <1>10
    DEF Next, Worker, OwnerStep

(* The process object implements ProcessLife, the specification the         *)
(* connection pool is built on.                                             *)
THEOREM LifeRefinement == Spec => ImplementsLife
<1>1. Init => Life!Init
    BY DEF Init, Life!Init
<1> QED
    BY InvariantHolds, StepLife, <1>1, PTL DEF Spec, ImplementsLife, Life!Spec
=============================================================================
