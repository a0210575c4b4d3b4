---------------------------- MODULE SchedulerInv ----------------------------
(***************************************************************************)
(* The inductive invariant behind SwapInPre and FiberAsserts: who owns a   *)
(* Fiber object.  It holds when nobody puts a fiber into the list that is  *)
(* there already or is running, i.e. without switchTo() to another thread  *)
(* and without a fiber listed twice in a batch.                            *)
(***************************************************************************)
EXTENDS Scheduler

SingleSubmission == SwitchTargets = {} /\ ~Resubmit

\* What the list holds.
ListTasks == {m_fibers[i].task : i \in DOMAIN m_fibers}
ListDistinct ==
    \A i, j \in DOMAIN m_fibers : m_fibers[i].task = m_fibers[j].task => i = j

\* run()'s locals of w refer to x.
Refers(w, x) == ft[w] = x \/ func_fiber[w] = x

\* The runner works for a fiber past swapIn; the last three of these states
\* are those in which its fiber has stopped and may be woken already.
Busy == {"user", "hold", "leaving", "ret", "post"}
Stopped == {"leaving", "ret", "post"}

\* The application thread and the program counters of the runners agree.
ControlInv ==
    /\ caller \in {"off", "join"} => m_threads = {}
    /\ caller = "early" => Workers = {}
    /\ m_threads = {} /\ caller # "join" => \A w \in Workers : pc[w] \in {"none", "exit"}
    /\ m_rootFiber = "INIT" => pc[Caller] = "none"

\* run()'s locals agree with its program counter.
Locals(w) ==
    /\ pc[w] \in {"none", "scan", "idle", "exit"} => ft[w] = Nil
    /\ pc[w] = "dispatch" => ft[w] \in FiberObjs \union Funcs
    /\ pc[w] \in Busy => Cur(w) \in FiberObjs
    /\ pc[w] \in Busy => ft[w] \notin Funcs
LocalsInv == \A w \in Threads : Locals(w)

\* No Fiber object is in the hands of two runners, or twice in those of one.
OwnerInv ==
    /\ \A v, w \in Threads, x \in FiberObjs : Refers(v, x) /\ Refers(w, x) => v = w
    /\ \A w \in Threads : ft[w] # Nil => ft[w] # func_fiber[w]

\* A fiber in the list, or due to be woken, is on nobody's stack, except
\* that it may have been woken before its runner let go of it; then it is
\* still in state EXEC, and the scan steps over it.
Leaving(w, x) == Cur(w) = x /\ pc[w] \in Stopped /\ m_state[x] = "EXEC"
ListInv ==
    /\ ListDistinct
    /\ \A x \in FiberObjs : x \in armed => x \notin ListTasks
    /\ \A w \in Threads, x \in FiberObjs :
        Refers(w, x) /\ (x \in ListTasks \/ x \in armed) => Leaving(w, x)

\* A fiber not scheduled yet, or not allocated yet, is nowhere.
FreshInv ==
    \A x \in FiberObjs \union Funcs :
        (IF x \in Pool THEN m_state[x] = "NONE" ELSE issued[x] = Nil) =>
            x \notin ListTasks /\ x \notin armed /\ \A w \in Threads : ~Refers(w, x)

\* Fiber states match what the runners do.
StateInv ==
    \A w \in Threads :
        /\ pc[w] \in {"user", "hold"} => m_state[Cur(w)] = "EXEC"
        /\ pc[w] = "dispatch" /\ ft[w] \in FiberObjs => m_state[ft[w]] # "EXEC"
        /\ func_fiber[w] # Nil /\ (ft[w] # Nil \/ pc[w] \notin Busy) =>
            m_state[func_fiber[w]] = "INIT"

\* At any time a Fiber object belongs to the list, to an event source or to
\* one runner, and to two of them only in the window in which a suspended
\* fiber is woken before its runner has marked it HOLD.
Ownership ==
    /\ ControlInv /\ LocalsInv /\ OwnerInv /\ ListInv /\ FreshInv /\ StateInv
    /\ \A w \in Threads : pc[w] # "hold"
-----------------------------------------------------------------------------
(* The inductive invariants behind NoTaskLost and LastExitDrains, which    *)
(* need no assumption on who submits what, and behind RunOnce, which needs *)
(* SingleSubmission.                                                       *)

\* Runner w has Fiber object or function x in its hands; one that is on its
\* way to execute it, or executes it.
Has(w, x) == pc[w] \in Counted \union {"post"} /\ Cur(w) = x
Runs(w, x) == pc[w] \in {"dispatch", "user", "hold"} /\ Cur(w) = x

\* x will come to a runner again: it is listed, awaits its event, or is held.
Kept(x) == x \in ListTasks \/ x \in armed \/ \E w \in Runners : Has(w, x)
Coming(x) == x \in ListTasks \/ x \in armed \/ \E w \in Runners : Runs(w, x)

\* Accepted and not ended.
Pending(t) == t \in Tasks /\ issued[t] # Nil /\ t \notin finished
\* x stands for a task that may be pending.
Live(x) == TaskOf(x) \in Tasks \ finished /\ (x \in Fibers => issued[x] # Nil)

\* func_fiber belongs to one runner, and is empty whenever run() puts a
\* function into it.
FuncInv ==
    /\ \A v, w \in Threads : func_fiber[v] # Nil /\ func_fiber[v] = func_fiber[w] => v = w
    /\ \A w \in Threads : func_fiber[w] # Nil =>
        /\ m_state[func_fiber[w]] # "NONE"
        /\ ft[w] # Nil \/ pc[w] \notin Busy => m_func[func_fiber[w]] = Nil
    /\ \A x \in Pool : m_state[x] = "NONE" => m_func[x] = Nil

\* A fiber that ended did end its task; one that neither ended nor yielded,
\* which run() forgets when it comes back, is found elsewhere.
EndInv ==
    \A x \in FiberObjs :
        /\ m_state[x] \in Finished => TaskOf(x) \in finished
        /\ m_state[x] \notin Yielded \union Finished /\ Live(x) => Coming(x)

\* Every pending task is kept, as a function or inside a Fiber object.
KeptInv ==
    \A t \in Tasks : Pending(t) => \E x \in FiberObjs \union Funcs : TaskOf(x) = t /\ Kept(x)

\* A fiber in state EXEC is on the hands of a runner.
ExecInv ==
    \A x \in FiberObjs : m_state[x] = "EXEC" => \E w \in Runners : pc[w] \in Busy /\ Cur(w) = x

\* Nobody submits for a particular thread.
Unpinned == Pins \union SpawnPins \subseteq {AnyThread} /\ SwitchTargets = {}
AnyInv == \A i \in DOMAIN m_fibers : m_fibers[i].thread = AnyThread

\* A function is in one place, and in a Fiber object only after it left the
\* list.
FuncOnce ==
    /\ \A x, y \in Pool : m_func[x] # Nil /\ m_func[x] = m_func[y] => x = y
    /\ \A f \in Funcs :
        /\ f \in ListTasks => \A w \in Threads : ft[w] # f
        /\ \A v, w \in Threads : ft[v] = f /\ ft[w] = f => v = w
        /\ (f \in ListTasks \/ \E w \in Threads : ft[w] = f) =>
            f \notin finished /\ \A x \in Pool : m_func[x] # f

\* What is in a Fiber object or ended was submitted, and a Fiber object that
\* is kept has its task.
InsideInv ==
    /\ \A x \in Pool : m_func[x] # Nil => issued[m_func[x]] # Nil
    /\ finished \subseteq Tasks /\ \A t \in finished : issued[t] # Nil
    /\ \A x \in Pool : Kept(x) => m_func[x] # Nil

\* The fiber of an ended task is finished, and no finished one awaits an event.
DoneInv ==
    \A x \in FiberObjs :
        /\ TaskOf(x) \in finished => m_state[x] \in Finished
        /\ x \in armed => m_state[x] \notin Finished

OnceInv == FuncOnce /\ InsideInv /\ DoneInv
=============================================================================
