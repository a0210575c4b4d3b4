--------------------------- MODULE SchedulerPool ---------------------------
(***************************************************************************)
(* The scheduler implements TaskPool.  A task is running from swapIn to    *)
(* the moment its fiber's m_state (or its registration with an event       *)
(* source) says that it stopped; from there on it is ready, waiting or     *)
(* done although its worker still has its fiber in hand, which is what     *)
(* makes the hand-over windows of run() visible to the refinement.         *)
(***************************************************************************)
EXTENDS SchedulerInv

RunsTask(w, t) == pc[w] \in {"user", "hold"} /\ TaskOf(Cur(w)) = t

statusBar == [t \in Tasks |->
    IF t \in finished THEN "done"
    ELSE IF \E w \in Runners : RunsTask(w, t) THEN "running"
    ELSE IF Armed(t) THEN "waiting"
    ELSE IF issued[t] # Nil THEN "ready" ELSE "new"]

runnerBar == [t \in Tasks |->
    IF \E w \in Runners : RunsTask(w, t)
    THEN CHOOSE w \in Runners : RunsTask(w, t) ELSE Nil]

openBar == \E w \in Runners : pc[w] \notin {"none", "exit"}

Pool_ == INSTANCE TaskPool WITH
    Tasks <- Tasks, Threads <- Runners, NoThread <- Nil,
    status <- statusBar, runner <- runnerBar, open <- openBar

\* Every step of the scheduler is a step of TaskPool or none: exclusive
\* execution, no run before the wake-up, no loss, and no thread pool that
\* leaves ready work behind, as one statement about run(), schedule(),
\* start() and stop().
ImplementsPool == Pool_!Spec
=============================================================================
