----------------------------- MODULE ProcessLife -----------------------------
(***************************************************************************)
(* What a process object promises to the connection pool that owns it,     *)
(* without its mutex, condition variable and queue: ready() is false while *)
(* one of its functions runs; the worker thread leaves only between two    *)
(* functions, only after it was asked to stop, and then for good.          *)
(***************************************************************************)
VARIABLES
    life,    \* "new", "busy", "ready" (ready() is true) or "exited"
    asked    \* the stop flag was set

vars == <<life, asked>>

Init == life = "new" /\ asked = FALSE

(* execute_process *)
Start == life = "new" /\ life' = "busy" /\ UNCHANGED asked

(* the running function satisfies its promise *)
Finish == life = "busy" /\ life' = "ready" /\ UNCHANGED asked

(* the worker takes another task out of its queue *)
Resume == life = "ready" /\ life' = "busy" /\ UNCHANGED asked

(* request_stop on a started thread *)
Ask == life # "new" /\ asked' = TRUE /\ UNCHANGED life

(* the worker thread ends *)
Exit == life = "ready" /\ asked /\ life' = "exited" /\ UNCHANGED asked

Next == Start \/ Finish \/ Resume \/ Ask \/ Exit

Spec == Init /\ [][Next]_vars
=============================================================================
