------------------------------ MODULE TaskPool ------------------------------
(***************************************************************************)
(* What the scheduler promises the application, without list, workers'     *)
(* loops, counters or fibers: a task once submitted is run piece by piece, *)
(* by one thread at a time and one piece per thread, never after it ended; *)
(* a task that waits is not run before it is woken; and the pool of        *)
(* threads does not leave work behind.                                     *)
(***************************************************************************)
EXTENDS Naturals

CONSTANTS Tasks, Threads, NoThread

VARIABLES
    status,     \* what became of each task
    runner,     \* the thread that executes it
    open        \* some thread of the pool is at work

vars == <<status, runner, open>>

Status == {"new", "ready", "running", "waiting", "done"}

Init ==
    /\ status = [t \in Tasks |-> "new"]
    /\ runner = [t \in Tasks |-> NoThread]
    /\ open = FALSE

\* New tasks are accepted at any time, several at once.
Submit(T) ==
    /\ \A t \in T : status[t] = "new"
    /\ status' = [t \in Tasks |-> IF t \in T THEN "ready" ELSE status[t]]
    /\ UNCHANGED <<runner, open>>

\* A thread of the pool that runs nothing picks a task that is ready.
Run(t, w) ==
    /\ open
    /\ status[t] = "ready"
    /\ \A s \in Tasks : runner[s] # w
    /\ status' = [status EXCEPT ![t] = "running"]
    /\ runner' = [runner EXCEPT ![t] = w]
    /\ UNCHANGED open

\* The piece of work ends: the task yields, waits for an event, or is done.
Leave(t, s) ==
    /\ status[t] = "running"
    /\ status' = [status EXCEPT ![t] = s]
    /\ runner' = [runner EXCEPT ![t] = NoThread]
    /\ UNCHANGED open

Wake(t) ==
    /\ status[t] = "waiting"
    /\ status' = [status EXCEPT ![t] = "ready"]
    /\ UNCHANGED <<runner, open>>

\* The first thread comes to work, or the last one leaves.
Open == ~open /\ open' = TRUE /\ UNCHANGED <<status, runner>>
Close ==
    /\ open
    /\ \A t \in Tasks : status[t] \notin {"ready", "running"}
    /\ open' = FALSE
    /\ UNCHANGED <<status, runner>>

Next ==
    \/ \E s, t \in Tasks : Submit({s, t})
    \/ \E t \in Tasks, w \in Threads : Run(t, w)
    \/ \E t \in Tasks, s \in {"ready", "waiting", "done"} : Leave(t, s)
    \/ \E t \in Tasks : Wake(t)
    \/ Open \/ Close

Spec == Init /\ [][Next]_vars
=============================================================================
