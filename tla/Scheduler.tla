------------------------------ MODULE Scheduler ------------------------------
(***************************************************************************)
(* The N:M coroutine scheduler of scheduler.h / scheduler.cc with the part *)
(* of fiber.cc its workers drive: one shared task list under m_mutex, the  *)
(* threads that execute Scheduler::run, the thread that calls start(),     *)
(* schedule() and stop(), and whoever wakes a suspended fiber from outside.*)
(*                                                                         *)
(* Grain of atomicity.  A section under m_mutex is one step, and so is a   *)
(* stretch of code that touches only what its thread owns.  Everything     *)
(* between two such stretches is a program counter value, in particular    *)
(*   dispatch  the entry is out of the list, swapIn not yet called;        *)
(*   leaving   m_state says the fiber stopped, its context is not saved;   *)
(*   ret       back in run(), still counted in m_activeThreadCount;        *)
(*   post      no longer counted, the fiber not yet back in the list.      *)
(* Fiber::m_state is a plain field that run() reads under m_mutex and      *)
(* fibers write without it.  A worker that sees an entry got it through    *)
(* m_mutex after the EXEC of an earlier swapIn was written, so a stale     *)
(* read can only be EXEC, and makes a scan skip the entry as an earlier    *)
(* scan would have.                                                        *)
(***************************************************************************)
EXTENDS Integers, FiniteSets, SequencesExt, FiberState

CONSTANTS
    Workers,        \* the m_threadCount threads start() creates
    Caller,         \* the thread that built the scheduler and calls stop()
    Others,         \* threads outside the scheduler whose ids are known
    UseCaller,      \* the constructor's use_caller
    Fibers,         \* Fiber objects the application hands to schedule()
    Funcs,          \* functions the application hands to schedule()
    Pool,           \* Fiber objects run() allocates for functions
    AnyThread,      \* thread id -1
    Nil,            \* an empty pointer
    StoppingInit,   \* values the uninitialised m_stopping can have
    AutoStopInit,   \* values the uninitialised m_autoStop can have
    Pins,           \* thread ids the application passes to schedule()
    SpawnPins,      \* thread ids a running fiber passes to schedule()
    SwitchTargets,  \* thread ids a running fiber passes to switchTo()
    Waiting,        \* tasks whose body suspends by swapOut() until woken
    Resubmit,       \* the application may list a fiber twice in one batch
    MaxYields,      \* bound: times a body gives up its thread
    MaxStarts       \* bound: calls of start()

Runners == IF UseCaller THEN Workers \union {Caller} ELSE Workers
Threads == Workers \union {Caller} \union Others
FiberObjs == Fibers \union Pool
\* What the application submits; each is one piece of work.
Tasks == Fibers \union Funcs

ASSUME ThreadAssumption ==
    /\ IsFiniteSet(Workers)
    /\ Caller \notin Workers /\ Others \cap (Workers \union {Caller}) = {}
    /\ UseCaller \in BOOLEAN
    /\ Runners # {}      \* LIONET_ASSERT(threads > 0) in the constructor
    /\ AnyThread \notin Threads /\ Nil \notin Threads /\ AnyThread # Nil
ASSUME TaskAssumption ==
    /\ Fibers \cap Pool = {} /\ FiberObjs \cap Funcs = {}
    /\ Nil \notin FiberObjs \union Funcs
    /\ Waiting \subseteq Tasks
    /\ Resubmit \in BOOLEAN
ASSUME BoundAssumption ==
    /\ StoppingInit \subseteq BOOLEAN /\ AutoStopInit \subseteq BOOLEAN
    /\ Pins \subseteq Threads \union {AnyThread}
    /\ SpawnPins \subseteq Threads \union {AnyThread}
    /\ SwitchTargets \subseteq Threads
    /\ MaxYields \in Nat /\ MaxStarts \in Nat

VARIABLES
    m_fibers,             \* the task list: [task, thread] entries
    m_activeThreadCount,
    m_idleThreadCount,
    m_stopping,
    m_autoStop,
    m_threads,            \* threads stop() will join
    m_rootFiber,          \* state of the use_caller fiber
    m_state,              \* state of every Fiber object, "NONE" before `new`
    m_func,               \* the function inside a Fiber object of Pool
    pc,                   \* where a runner is in run()
    ft,                   \* run()'s local ft: the task taken
    func_fiber,           \* run()'s local func_fiber
    idle_fiber,           \* state of run()'s local idle_fiber
    caller,               \* where the application thread is
    starts,               \* calls of start() so far
    issued,               \* history: the thread each task was scheduled for
    armed,                \* tasks some outside event source will wake
    yields,               \* history: how often each body gave up its thread
    finished              \* history: tasks whose body ended

queueVars  == <<m_fibers, m_activeThreadCount, m_idleThreadCount>>
flagVars   == <<m_stopping, m_autoStop, m_threads, m_rootFiber, caller, starts>>
fiberVars  == <<m_state, m_func>>
runVars    == <<pc, ft, func_fiber, idle_fiber>>
taskVars   == <<issued, armed, yields, finished>>
vars == <<queueVars, flagVars, fiberVars, runVars, taskVars>>

PCs == {"none", "scan", "dispatch", "user", "hold", "leaving", "ret", "post",
        "idle", "exit"}
\* The runner is counted in m_activeThreadCount.
Counted == {"dispatch", "user", "hold", "leaving", "ret"}
\* The runner executes on the stack of the fiber it took.
OnStackPCs == {"user", "hold", "leaving"}

-----------------------------------------------------------------------------
(* Derived views of the state.                                             *)

\* The fiber a runner past swapIn works for: ft on the fiber path, and
\* func_fiber on the function path, which empties ft before swapIn.
Cur(w) == IF ft[w] # Nil THEN ft[w] ELSE func_fiber[w]

\* The piece of work a Fiber object or a list entry stands for.
TaskOf(x) == IF x \in Pool THEN m_func[x] ELSE x

Entry(x, thr) == [task |-> x, thread |-> thr]

\* scheduleNonLock under m_mutex: an empty pointer or function is not
\* listed; the tickle() that follows only logs.
Push(x, thr) == m_fibers' = IF x # Nil THEN Append(m_fibers, Entry(x, thr)) ELSE m_fibers

\* Mutant of Stopping: an idle worker leaves without being told to stop.
StoppingUnasked == m_fibers = <<>> /\ m_activeThreadCount = 0

\* stopping()
Stopping == m_autoStop /\ m_stopping /\ m_fibers = <<>> /\ m_activeThreadCount = 0

\* Mutant of Takable: the test for EXEC is missing.
TakableExecuting(w, e) == e.thread \in {AnyThread, w}

\* The entries run() does not step over: not pinned to another thread and
\* not a fiber that is executing.
Takable(w, e) ==
    /\ e.thread \in {AnyThread, w}
    /\ e.task \in FiberObjs => m_state[e.task] # "EXEC"

\* A thread id the application can name: its own, or one that was started.
Known(thr) == thr \in Workers => pc[thr] # "none"

-----------------------------------------------------------------------------
Init ==
    /\ m_fibers = <<>>
    /\ m_activeThreadCount = 0
    /\ m_idleThreadCount = 0
    /\ m_stopping \in StoppingInit      \* neither flag has an initialiser
    /\ m_autoStop \in AutoStopInit
    /\ m_threads = {}
    /\ m_rootFiber = "INIT"
    /\ m_state = [x \in FiberObjs |-> IF x \in Fibers THEN "INIT" ELSE "NONE"]
    /\ m_func = [x \in Pool |-> Nil]
    /\ pc = [w \in Threads |-> "none"]
    /\ ft = [w \in Threads |-> Nil]
    /\ func_fiber = [w \in Threads |-> Nil]
    /\ idle_fiber = [w \in Threads |-> "INIT"]
    /\ caller = "off"
    /\ starts = 0
    /\ issued = [t \in Tasks |-> Nil]
    /\ armed = {}
    /\ yields = [t \in Tasks |-> 0]
    /\ finished = {}

-----------------------------------------------------------------------------
(* Scheduler::run, the loop every runner executes.                         *)

\* The scan takes the first entry this thread may run.
TakeTask(w) ==
    /\ pc[w] = "scan"
    /\ \E i \in DOMAIN m_fibers :
        /\ Takable(w, m_fibers[i])
        /\ \A j \in 1 .. i - 1 : ~Takable(w, m_fibers[j])
        /\ ft' = [ft EXCEPT ![w] = m_fibers[i].task]
        /\ m_fibers' = RemoveAt(m_fibers, i)
    /\ m_activeThreadCount' = m_activeThreadCount + 1
    /\ pc' = [pc EXCEPT ![w] = "dispatch"]
    /\ UNCHANGED <<m_idleThreadCount, func_fiber, idle_fiber,
                   flagVars, fiberVars, taskVars>>

NothingToTake(w) == \A i \in DOMAIN m_fibers : ~Takable(w, m_fibers[i])

\* Mutant of ExitRun: the idle fiber is looked at before the list.
ExitRunUnscanned(w) ==
    /\ pc[w] = "scan"
    /\ idle_fiber[w] = "TERM"
    /\ pc' = [pc EXCEPT ![w] = "exit"]
    /\ func_fiber' = [func_fiber EXCEPT ![w] = Nil]
    /\ UNCHANGED <<ft, idle_fiber, queueVars, flagVars, fiberVars, taskVars>>

\* Nothing to take and the idle fiber has terminated: run() returns.
ExitRun(w) ==
    /\ pc[w] = "scan"
    /\ NothingToTake(w)
    /\ idle_fiber[w] = "TERM"
    /\ pc' = [pc EXCEPT ![w] = "exit"]
    /\ func_fiber' = [func_fiber EXCEPT ![w] = Nil]
    /\ UNCHANGED <<ft, idle_fiber, queueVars, flagVars, fiberVars, taskVars>>

\* Mutant of EnterIdle: the idle worker is not counted.
EnterIdleUncounted(w) ==
    /\ pc[w] = "scan"
    /\ NothingToTake(w)
    /\ idle_fiber[w] # "TERM"
    /\ pc' = [pc EXCEPT ![w] = "idle"]
    /\ idle_fiber' = [idle_fiber EXCEPT ![w] = "EXEC"]
    /\ UNCHANGED <<ft, func_fiber, queueVars, flagVars, fiberVars, taskVars>>

\* Nothing to take: swap to the idle fiber.
EnterIdle(w) ==
    /\ pc[w] = "scan"
    /\ NothingToTake(w)
    /\ idle_fiber[w] # "TERM"
    /\ pc' = [pc EXCEPT ![w] = "idle"]
    /\ idle_fiber' = [idle_fiber EXCEPT ![w] = "EXEC"]
    /\ m_idleThreadCount' = m_idleThreadCount + 1
    /\ UNCHANGED <<m_fibers, m_activeThreadCount, ft, func_fiber,
                   flagVars, fiberVars, taskVars>>

\* Scheduler::idle: one test of stopping(), then YieldToHold or return.
IdleCheck(w) ==
    /\ pc[w] = "idle"
    /\ idle_fiber' = [idle_fiber EXCEPT ![w] = IF Stopping THEN "TERM" ELSE "HOLD"]
    /\ m_idleThreadCount' = m_idleThreadCount - 1
    /\ pc' = [pc EXCEPT ![w] = "scan"]
    /\ UNCHANGED <<m_fibers, m_activeThreadCount, ft, func_fiber,
                   flagVars, fiberVars, taskVars>>

\* The entry holds a fiber that can run: swapIn.
SwapInFiber(w) ==
    /\ pc[w] = "dispatch"
    /\ ft[w] \in FiberObjs
    /\ m_state[ft[w]] \notin Finished
    /\ m_state' = [m_state EXCEPT ![ft[w]] = "EXEC"]
    /\ pc' = [pc EXCEPT ![w] = "user"]
    /\ UNCHANGED <<m_func, ft, func_fiber, idle_fiber,
                   queueVars, flagVars, taskVars>>

\* The entry holds a fiber that ended in the meantime: count it off, go on.
SkipDeadFiber(w) ==
    /\ pc[w] = "dispatch"
    /\ ft[w] \in FiberObjs
    /\ m_state[ft[w]] \in Finished
    /\ m_activeThreadCount' = m_activeThreadCount - 1
    /\ ft' = [ft EXCEPT ![w] = Nil]
    /\ pc' = [pc EXCEPT ![w] = "scan"]
    /\ UNCHANGED <<m_fibers, m_idleThreadCount, func_fiber, idle_fiber,
                   flagVars, fiberVars, taskVars>>

\* The entry holds a function: put it into func_fiber, a new one if there
\* is none, and swapIn.
SwapInFunc(w) ==
    /\ pc[w] = "dispatch"
    /\ ft[w] \in Funcs
    /\ \E x \in Pool :
        /\ IF func_fiber[w] # Nil THEN x = func_fiber[w] ELSE m_state[x] = "NONE"
        /\ func_fiber' = [func_fiber EXCEPT ![w] = x]
        /\ m_func' = [m_func EXCEPT ![x] = ft[w]]
        /\ m_state' = [m_state EXCEPT ![x] = "EXEC"]
    /\ ft' = [ft EXCEPT ![w] = Nil]
    /\ pc' = [pc EXCEPT ![w] = "user"]
    /\ UNCHANGED <<idle_fiber, queueVars, flagVars, taskVars>>

\* Mutant of Deactivate: the function path forgets to count off.
DeactivateFiberOnly(w) ==
    /\ pc[w] = "ret"
    /\ m_activeThreadCount' = IF ft[w] # Nil THEN m_activeThreadCount - 1
                              ELSE m_activeThreadCount
    /\ pc' = [pc EXCEPT ![w] = "post"]
    /\ UNCHANGED <<m_fibers, m_idleThreadCount, ft, func_fiber, idle_fiber,
                   flagVars, fiberVars, taskVars>>

\* swapIn returned.
Deactivate(w) ==
    /\ pc[w] = "ret"
    /\ m_activeThreadCount' = m_activeThreadCount - 1
    /\ pc' = [pc EXCEPT ![w] = "post"]
    /\ UNCHANGED <<m_fibers, m_idleThreadCount, ft, func_fiber, idle_fiber,
                   flagVars, fiberVars, taskVars>>

\* Mutant of Release: run() keeps the func_fiber it has given away.
ReleaseKept(w) ==
    /\ ft' = [ft EXCEPT ![w] = Nil]
    /\ UNCHANGED func_fiber

\* ft.reset() on the fiber path, func_fiber.reset() on the function path.
Release(w) ==
    /\ ft' = [ft EXCEPT ![w] = Nil]
    /\ func_fiber' = IF ft[w] # Nil THEN func_fiber
                     ELSE [func_fiber EXCEPT ![w] = Nil]

\* Mutant of Requeue: only READY goes back into the list, HOLD does not.
RequeueReadyOnly(w) ==
    /\ pc[w] = "post"
    /\ m_state[Cur(w)] \in Yielded
    /\ IF m_state[Cur(w)] = "READY" THEN Push(Cur(w), AnyThread)
       ELSE UNCHANGED m_fibers
    /\ Release(w)
    /\ pc' = [pc EXCEPT ![w] = "scan"]
    /\ UNCHANGED <<m_activeThreadCount, m_idleThreadCount, idle_fiber,
                   flagVars, fiberVars, taskVars>>

\* It yielded: back into the list, for any thread.
Requeue(w) ==
    /\ pc[w] = "post"
    /\ m_state[Cur(w)] \in Yielded
    /\ Push(Cur(w), AnyThread)
    /\ Release(w)
    /\ pc' = [pc EXCEPT ![w] = "scan"]
    /\ UNCHANGED <<m_activeThreadCount, m_idleThreadCount, idle_fiber,
                   flagVars, fiberVars, taskVars>>

\* Mutant of HoldTask: a suspended fiber is scheduled like one that yielded.
HoldTaskScheduled(w) ==
    /\ pc[w] = "post"
    /\ m_state[Cur(w)] \notin Yielded \union Finished
    /\ m_state' = [m_state EXCEPT ![Cur(w)] = "HOLD"]
    /\ Push(Cur(w), AnyThread)
    /\ Release(w)
    /\ pc' = [pc EXCEPT ![w] = "scan"]
    /\ UNCHANGED <<m_func, m_activeThreadCount, m_idleThreadCount, idle_fiber,
                   flagVars, taskVars>>

\* It suspended with its state still EXEC: mark it HOLD and forget it.
HoldTask(w) ==
    /\ pc[w] = "post"
    /\ m_state[Cur(w)] \notin Yielded \union Finished
    /\ m_state' = [m_state EXCEPT ![Cur(w)] = "HOLD"]
    /\ Release(w)
    /\ pc' = [pc EXCEPT ![w] = "scan"]
    /\ UNCHANGED <<m_func, idle_fiber, queueVars, flagVars, taskVars>>

\* A fiber from the list ended: drop it.
DropFiber(w) ==
    /\ pc[w] = "post"
    /\ ft[w] # Nil
    /\ m_state[ft[w]] \in Finished
    /\ ft' = [ft EXCEPT ![w] = Nil]
    /\ pc' = [pc EXCEPT ![w] = "scan"]
    /\ UNCHANGED <<func_fiber, idle_fiber, queueVars, flagVars, fiberVars, taskVars>>

\* The function in func_fiber ended: reset(nullptr), kept for the next one.
ResetFunc(w) ==
    /\ pc[w] = "post"
    /\ ft[w] = Nil
    /\ m_state[func_fiber[w]] \in Finished
    /\ m_state' = [m_state EXCEPT ![func_fiber[w]] = "INIT"]
    /\ m_func' = [m_func EXCEPT ![func_fiber[w]] = Nil]
    /\ pc' = [pc EXCEPT ![w] = "scan"]
    /\ UNCHANGED <<ft, func_fiber, idle_fiber, queueVars, flagVars, taskVars>>

-----------------------------------------------------------------------------
(* What a body does on its fiber's stack.                                  *)

CanYield(w) == yields[TaskOf(Cur(w))] < MaxYields
CountYield(w) == yields' = [yields EXCEPT ![TaskOf(Cur(w))] = @ + 1]

\* Fiber::YieldToReady up to its swapOut.
YieldToReady(w) ==
    /\ pc[w] = "user"
    /\ CanYield(w) /\ CountYield(w)
    /\ m_state' = [m_state EXCEPT ![Cur(w)] = "READY"]
    /\ pc' = [pc EXCEPT ![w] = "leaving"]
    /\ UNCHANGED <<m_func, ft, func_fiber, idle_fiber, issued, armed, finished,
                   queueVars, flagVars>>

\* Fiber::YieldToHold up to its swapOut, called by the body or by switchTo.
YieldToHold(w) ==
    /\ \/ pc[w] = "user" /\ CanYield(w) /\ CountYield(w)
       \/ pc[w] = "hold" /\ UNCHANGED yields
    /\ m_state' = [m_state EXCEPT ![Cur(w)] = "HOLD"]
    /\ pc' = [pc EXCEPT ![w] = "leaving"]
    /\ UNCHANGED <<m_func, ft, func_fiber, idle_fiber, issued, armed, finished,
                   queueVars, flagVars>>

\* Mutant of Suspend: the waiting body leaves by YieldToHold.
SuspendByYield(w) ==
    /\ pc[w] = "user"
    /\ TaskOf(Cur(w)) \in Waiting
    /\ CanYield(w) /\ CountYield(w)
    /\ armed' = armed \union {Cur(w)}
    /\ m_state' = [m_state EXCEPT ![Cur(w)] = "HOLD"]
    /\ pc' = [pc EXCEPT ![w] = "leaving"]
    /\ UNCHANGED <<m_func, ft, func_fiber, idle_fiber, issued, finished,
                   queueVars, flagVars>>

\* The body registers with an event source and calls swapOut() directly.
Suspend(w) ==
    /\ pc[w] = "user"
    /\ TaskOf(Cur(w)) \in Waiting
    /\ CanYield(w) /\ CountYield(w)
    /\ armed' = armed \union {Cur(w)}
    /\ pc' = [pc EXCEPT ![w] = "leaving"]
    /\ UNCHANGED <<ft, func_fiber, idle_fiber, issued, finished,
                   queueVars, flagVars, fiberVars>>

\* Scheduler::switchTo up to its YieldToHold.  For this thread, or for any,
\* it returns at once, which is a stuttering step.
SwitchTo(w, thr) ==
    /\ pc[w] = "user"
    /\ thr # w
    /\ Known(thr)
    /\ CanYield(w) /\ CountYield(w)
    /\ Push(Cur(w), thr)
    /\ pc' = [pc EXCEPT ![w] = "hold"]
    /\ UNCHANGED <<m_activeThreadCount, m_idleThreadCount, ft, func_fiber,
                   idle_fiber, issued, armed, finished, flagVars, fiberVars>>

\* A running body schedules a task nobody scheduled before.
Spawn(w, t, thr) ==
    /\ pc[w] = "user"
    /\ issued[t] = Nil
    /\ Known(thr)
    /\ Push(t, thr)
    /\ issued' = [issued EXCEPT ![t] = thr]
    /\ UNCHANGED <<m_activeThreadCount, m_idleThreadCount, armed, yields,
                   finished, flagVars, fiberVars, runVars>>

\* The body returns or throws; Fiber::MainFunc up to its swapOut.
MainFunc(w) ==
    /\ pc[w] = "user"
    /\ finished' = finished \union {TaskOf(Cur(w))}
    /\ \/ /\ m_state' = [m_state EXCEPT ![Cur(w)] = "TERM"]
       \/ /\ m_state' = [m_state EXCEPT ![Cur(w)] = "EXCEPT"]
    /\ pc' = [pc EXCEPT ![w] = "leaving"]
    /\ UNCHANGED <<m_func, ft, func_fiber, idle_fiber, issued, armed, yields,
                   queueVars, flagVars>>

\* Fiber::swapOut: the context is saved, the thread is back in run().
SwapOut(w) ==
    /\ pc[w] = "leaving"
    /\ pc' = [pc EXCEPT ![w] = "ret"]
    /\ UNCHANGED <<ft, func_fiber, idle_fiber, queueVars, flagVars, fiberVars, taskVars>>

\* An event source, outside the scheduler, schedules the fiber it was given.
Wake(x) ==
    /\ x \in armed
    /\ armed' = armed \ {x}
    /\ Push(x, AnyThread)
    /\ UNCHANGED <<m_activeThreadCount, m_idleThreadCount, issued, yields,
                   finished, flagVars, fiberVars, runVars>>

-----------------------------------------------------------------------------
(* The application thread: schedule, start, schedule, stop, and again.     *)

Schedule(t, thr) ==
    /\ caller \in {"off", "on"}
    /\ issued[t] = Nil
    /\ Known(thr)
    /\ Push(t, thr)
    /\ issued' = [issued EXCEPT ![t] = thr]
    /\ UNCHANGED <<m_activeThreadCount, m_idleThreadCount, armed, yields,
                   finished, flagVars, fiberVars, runVars>>

\* schedule(begin, end) on two tasks: one section under m_mutex, any thread.
ScheduleBatch(s, t) ==
    /\ caller \in {"off", "on"}
    /\ issued[s] = Nil /\ issued[t] = Nil
    /\ s = t => Resubmit /\ t \in Fibers
    /\ m_fibers' = m_fibers \o <<Entry(s, AnyThread), Entry(t, AnyThread)>>
    /\ issued' = [issued EXCEPT ![s] = AnyThread, ![t] = AnyThread]
    /\ UNCHANGED <<m_activeThreadCount, m_idleThreadCount, armed, yields,
                   finished, flagVars, fiberVars, runVars>>

\* start() on a scheduler whose m_stopping is set: the threads begin to run.
Start ==
    /\ caller = "off" /\ starts < MaxStarts
    /\ m_stopping
    /\ starts' = starts + 1
    /\ caller' = "on"
    /\ m_stopping' = FALSE
    /\ m_threads' = Workers
    /\ pc' = [w \in Threads |-> IF w \in Workers THEN "scan" ELSE pc[w]]
    /\ idle_fiber' = [w \in Threads |-> IF w \in Workers THEN "INIT" ELSE idle_fiber[w]]
    /\ UNCHANGED <<ft, func_fiber, m_autoStop, m_rootFiber,
                   queueVars, fiberVars, taskVars>>

\* start() on a scheduler whose m_stopping is clear returns at once.
StartIgnored ==
    /\ caller = "off" /\ starts < MaxStarts
    /\ ~m_stopping
    /\ starts' = starts + 1
    /\ caller' = "on"
    /\ UNCHANGED <<m_stopping, m_autoStop, m_threads, m_rootFiber,
                   queueVars, fiberVars, runVars, taskVars>>

\* Mutant of StopBegin: m_autoStop is left alone.
StopBeginManual ==
    /\ caller = "on"
    /\ m_stopping' = IF UseCaller /\ Workers = {} /\ m_rootFiber \in {"TERM", "INIT"}
                     THEN TRUE ELSE m_stopping
    /\ caller' = IF UseCaller /\ Workers = {} /\ m_rootFiber \in {"TERM", "INIT"}
                 THEN "early" ELSE "flag"
    /\ UNCHANGED <<m_autoStop, m_threads, m_rootFiber, starts,
                   queueVars, fiberVars, runVars, taskVars>>

\* stop() up to the first test: a scheduler without threads of its own.
StopBegin ==
    /\ caller = "on"
    /\ m_autoStop' = TRUE
    /\ m_stopping' = IF UseCaller /\ Workers = {} /\ m_rootFiber \in {"TERM", "INIT"}
                     THEN TRUE ELSE m_stopping
    /\ caller' = IF UseCaller /\ Workers = {} /\ m_rootFiber \in {"TERM", "INIT"}
                 THEN "early" ELSE "flag"
    /\ UNCHANGED <<m_threads, m_rootFiber, starts,
                   queueVars, fiberVars, runVars, taskVars>>

\* stop(): `if (stopping()) return` of that first test.
StopEarly ==
    /\ caller = "early"
    /\ caller' = IF Stopping THEN "off" ELSE "flag"
    /\ UNCHANGED <<m_stopping, m_autoStop, m_threads, m_rootFiber, starts,
                   queueVars, fiberVars, runVars, taskVars>>

\* stop(): m_stopping = true; the tickles only log.
StopFlag ==
    /\ caller = "flag"
    /\ m_stopping' = TRUE
    /\ caller' = IF UseCaller THEN "root" ELSE "swap"
    /\ UNCHANGED <<m_autoStop, m_threads, m_rootFiber, starts,
                   queueVars, fiberVars, runVars, taskVars>>

\* Mutant of SkipRoot: the caller does not look whether work is left.
SkipRootAlways ==
    /\ caller = "root"
    /\ caller' = "swap"
    /\ UNCHANGED <<m_stopping, m_autoStop, m_threads, m_rootFiber, starts,
                   queueVars, fiberVars, runVars, taskVars>>

\* stop(): nothing is left for the root fiber.
SkipRoot ==
    /\ caller = "root"
    /\ Stopping
    /\ caller' = "swap"
    /\ UNCHANGED <<m_stopping, m_autoStop, m_threads, m_rootFiber, starts,
                   queueVars, fiberVars, runVars, taskVars>>

\* stop(): m_rootFiber->call() enters run() on the application thread.
CallRoot ==
    /\ caller = "root"
    /\ ~Stopping
    /\ m_rootFiber = "INIT"
    /\ m_rootFiber' = "EXEC"
    /\ pc' = [pc EXCEPT ![Caller] = "scan"]
    /\ caller' = "rootrun"
    /\ UNCHANGED <<m_stopping, m_autoStop, m_threads, starts, ft, func_fiber,
                   idle_fiber, queueVars, fiberVars, taskVars>>

\* call() on a root fiber whose run() has returned resumes CallerMainFunc
\* behind its back(), at LIONET_ASSERT2(false, "never reach ...").
CallDeadRoot ==
    /\ caller = "root"
    /\ ~Stopping
    /\ m_rootFiber = "TERM"
    /\ m_rootFiber' = "EXEC"
    /\ caller' = "aborted"
    /\ UNCHANGED <<m_stopping, m_autoStop, m_threads, starts,
                   queueVars, fiberVars, runVars, taskVars>>

\* run() returned on the root fiber: CallerMainFunc sets TERM and goes back.
RootBack ==
    /\ caller = "rootrun"
    /\ pc[Caller] = "exit"
    /\ m_rootFiber' = "TERM"
    /\ caller' = "swap"
    /\ UNCHANGED <<m_stopping, m_autoStop, m_threads, starts,
                   queueVars, fiberVars, runVars, taskVars>>

\* stop(): take the threads over under m_mutex.
SwapThreads ==
    /\ caller = "swap"
    /\ m_threads' = {}
    /\ caller' = IF m_threads = {} THEN "off" ELSE "join"
    /\ UNCHANGED <<m_stopping, m_autoStop, m_rootFiber, starts,
                   queueVars, fiberVars, runVars, taskVars>>

\* stop(): every thread taken over has been joined.
Join ==
    /\ caller = "join"
    /\ \A w \in Workers : pc[w] = "exit"
    /\ caller' = "off"
    /\ UNCHANGED <<m_stopping, m_autoStop, m_threads, m_rootFiber, starts,
                   queueVars, fiberVars, runVars, taskVars>>

-----------------------------------------------------------------------------
\* The steps of a runner that happen without anybody deciding on them.
RunStep(w) ==
    \/ TakeTask(w) \/ ExitRun(w) \/ EnterIdle(w) \/ IdleCheck(w)
    \/ SwapInFiber(w) \/ SkipDeadFiber(w) \/ SwapInFunc(w)
    \/ Deactivate(w) \/ Requeue(w) \/ HoldTask(w) \/ DropFiber(w) \/ ResetFunc(w)

BodyStep(w) ==
    \/ YieldToReady(w) \/ YieldToHold(w) \/ Suspend(w)
    \/ \E thr \in SwitchTargets : SwitchTo(w, thr)
    \/ \E t \in Tasks, thr \in SpawnPins : Spawn(w, t, thr)
    \/ MainFunc(w) \/ SwapOut(w)

StopStep ==
    \/ StopEarly \/ StopFlag \/ SkipRoot \/ CallRoot \/ CallDeadRoot \/ RootBack
    \/ SwapThreads \/ Join

CallerStep ==
    \/ \E t \in Tasks, thr \in Pins : Schedule(t, thr)
    \/ \E s, t \in Tasks : ScheduleBatch(s, t)
    \/ Start \/ StartIgnored \/ StopBegin
    \/ StopStep

Next ==
    /\ caller # "aborted"      \* a failed LIONET_ASSERT ends the process
    /\ \/ \E w \in Runners : RunStep(w) \/ BodyStep(w)
       \/ \E x \in FiberObjs : Wake(x)
       \/ CallerStep

Spec == Init /\ [][Next]_vars

\* Threads are preemptively scheduled, a body runs to its next yield or to
\* its end, stop() goes on, and the event a fiber waits for happens.
Fairness ==
    /\ \A w \in Runners : WF_vars(caller # "aborted" /\ (RunStep(w) \/ BodyStep(w)))
    /\ \A x \in FiberObjs : WF_vars(caller # "aborted" /\ Wake(x))
    /\ WF_vars(StopStep)

FairSpec == Spec /\ Fairness

-----------------------------------------------------------------------------
(* Properties.                                                             *)

Entries == [task : FiberObjs \union Funcs, thread : Threads \union {AnyThread}]

\* Every variable has its type, the counters taken as integers.
Types ==
    /\ m_fibers \in Seq(Entries)
    /\ m_activeThreadCount \in Int
    /\ m_idleThreadCount \in Int
    /\ m_stopping \in BOOLEAN /\ m_autoStop \in BOOLEAN
    /\ m_threads \in {{}, Workers}
    /\ m_rootFiber \in {"INIT", "EXEC", "TERM"}
    /\ m_state \in [FiberObjs -> State \union {"NONE"}]
    /\ m_func \in [Pool -> Funcs \union {Nil}]
    /\ pc \in [Threads -> PCs]
    /\ ft \in [Threads -> FiberObjs \union Funcs \union {Nil}]
    /\ func_fiber \in [Threads -> Pool \union {Nil}]
    /\ idle_fiber \in [Threads -> {"INIT", "EXEC", "HOLD", "TERM"}]
    /\ caller \in {"off", "on", "early", "flag", "root", "rootrun", "swap",
                   "join", "aborted"}
    /\ starts \in Nat
    /\ issued \in [Tasks -> Threads \union {AnyThread, Nil}]
    /\ armed \subseteq FiberObjs
    /\ yields \in [Tasks -> Nat]
    /\ finished \subseteq Tasks \union {Nil}

\* Every variable has its type.  The two thread counters are size_t that
\* run() increments and decrements on different paths (scheduler.cc): none
\* of them is ever decremented below zero, where it would wrap around.
TypeOK == Types /\ m_activeThreadCount \in Nat /\ m_idleThreadCount \in Nat

\* swapIn's "@pre getState() != EXEC" (fiber.h): run() tests the state when it
\* takes the entry, and it still holds when run() gets to the call.
SwapInNotExec ==
    \A w \in Runners : pc[w] = "dispatch" /\ ft[w] \in FiberObjs => m_state[ft[w]] # "EXEC"

\* Two threads never stand on the stack of one fiber, and a fiber a worker
\* is about to swapIn is on nobody's stack and not in state EXEC: the
\* precondition of Fiber::swapIn (fiber.h), against a fiber woken while it
\* is still leaving its thread.
SwapInPre ==
    \A v, w \in Runners : v # w =>
        /\ pc[w] \in OnStackPCs /\ pc[v] \in OnStackPCs => Cur(v) # Cur(w)
        /\ pc[w] = "dispatch" /\ ft[w] \in FiberObjs =>
            /\ m_state[ft[w]] # "EXEC"
            /\ pc[v] \in OnStackPCs => Cur(v) # ft[w]

\* The LIONET_ASSERTs of Fiber::reset, YieldToReady and YieldToHold on the
\* fibers that run() drives: func_fiber can be reset whenever run() does
\* so, and a body that runs finds its fiber in EXEC.
FiberAsserts ==
    \A w \in Runners :
        /\ pc[w] \in {"scan", "idle", "dispatch"} /\ func_fiber[w] # Nil =>
            m_state[func_fiber[w]] \in Resettable
        /\ pc[w] \in {"user", "hold"} => m_state[Cur(w)] = "EXEC"

\* m_activeThreadCount and m_idleThreadCount say how many runners are on a
\* task and how many in their idle fiber, whatever path the task took.
CountsExact ==
    /\ m_activeThreadCount = Cardinality({w \in Runners : pc[w] \in Counted})
    /\ m_idleThreadCount = Cardinality({w \in Runners : pc[w] = "idle"})

\* The places a task that was scheduled and has not ended can be.
Queued(t) == \E i \in DOMAIN m_fibers : TaskOf(m_fibers[i].task) = t
HeldBy(w, t) ==
    /\ pc[w] \in Counted \union {"post"}
    /\ t = IF pc[w] = "dispatch" THEN TaskOf(ft[w]) ELSE TaskOf(Cur(w))
Armed(t) == \E x \in armed : TaskOf(x) = t

\* No accepted task is dropped: until its body ends it is in the list, in
\* the hands of a runner, or registered with an event source, through
\* every hand-over of run(), the wake-up races and stop().
NoTaskLost ==
    \A t \in Tasks : issued[t] # Nil /\ t \notin finished =>
        \/ Queued(t)
        \/ \E w \in Runners : HeldBy(w, t)
        \/ Armed(t)

\* A body is executed by at most one thread, and never again after it
\* ended, although its fiber can be in the list while a worker holds it.
RunOnce ==
    \A w \in Runners : pc[w] \in {"user", "hold"} =>
        /\ TaskOf(Cur(w)) \notin finished
        /\ \A v \in Runners : HeldBy(v, TaskOf(Cur(w))) => v = w

\* When the last runner leaves run() the list is empty: workers may leave
\* early in the window between `--m_activeThreadCount` and schedule(), but
\* the one in that window stays until it has drained the list.
LastExitDrains ==
    [][(\E w \in Runners : pc[w] # "exit" /\ pc'[w] = "exit")
        => \/ m_fibers = <<>>
           \/ \E v \in Runners : pc'[v] \notin {"none", "exit"}]_vars

\* stop() returns.
StopReturns == caller \in {"early", "flag", "root", "rootrun", "swap", "join"} ~> caller = "off"

\* A task scheduled before stop() on a scheduler that did start its threads
\* is run to its end, also if stop() is never called; only one meant for the
\* caller's thread has to wait for stop().
EveryTaskRuns ==
    \A t \in Tasks :
        (issued[t] \in Workers \union {AnyThread} /\ caller = "on" /\ m_threads # {}) ~> t \in finished

\* stop() runs every task that was scheduled before it was called.
StopDrains ==
    \A t \in Tasks : (issued[t] # Nil /\ caller \in {"early", "flag"}) ~> t \in finished

\* schedule(func, thread): "the id of the thread that executes the fiber, -1
\* for any thread" (scheduler.h).  A body scheduled for a thread is executed
\* there, also after it yielded.
PinHonoured ==
    \A w \in Runners : pc[w] = "user" => issued[TaskOf(Cur(w))] \in {w, AnyThread}
=============================================================================
