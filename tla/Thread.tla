------------------------------- MODULE Thread -------------------------------
(***************************************************************************)
(* Thread (thread.cc): the handshake between the constructor and run(),    *)
(* join and the destructor, with the two ways the library uses it: threads *)
(* the application owns, and those Scheduler::start makes one after the    *)
(* other with the scheduler's m_mutex locked, a mutex their task needs.    *)
(* pthread_create, pthread_join and the semaphore are external.  Thread    *)
(* names are left out.                                                     *)
(***************************************************************************)
EXTENDS FiniteSets, Naturals

CONSTANTS
    Sched,      \* the threads of the scheduler, m_threads
    Owned,      \* threads of the application
    MayFail     \* pthread_create may fail

Threads == Sched \union Owned

ASSUME ThreadsAssumption ==
    Sched \cap Owned = {} /\ IsFiniteSet(Threads) /\ MayFail \in BOOLEAN

VARIABLES
    obj,          \* what became of each Thread object
    m_id,         \* its m_id is set (it is -1 before)
    m_thread,     \* its m_thread is set
    m_semaphore,  \* the count of its semaphore
    run,          \* where its thread is in Thread::run
    t_thread,     \* the thread-local pointer of its thread is set
    m_mutex,      \* of the scheduler, locked by start()
    m_threadIds,  \* the threads whose getId() start() has recorded
    caller        \* where the application is in start() and stop()

threadVars == <<obj, m_id, m_thread, m_semaphore, run, t_thread, m_mutex, m_threadIds, caller>>
startVars == <<m_mutex, m_threadIds, caller>>

ThreadInit ==
    /\ obj = [t \in Threads |-> "none"]
    /\ m_id = [t \in Threads |-> FALSE]
    /\ m_thread = [t \in Threads |-> FALSE]
    /\ m_semaphore = [t \in Threads |-> 0]
    /\ run = [t \in Threads |-> "none"]
    /\ t_thread = [t \in Threads |-> FALSE]
    /\ m_mutex = FALSE
    /\ m_threadIds = {}
    /\ caller = "off"

-----------------------------------------------------------------------------
(* The constructor, join and the destructor.                               *)

\* Semaphore::wait and Semaphore::notify on the semaphore of t.
Wait(t) ==
    /\ m_semaphore[t] > 0
    /\ m_semaphore' = [m_semaphore EXCEPT ![t] = @ - 1]
Notify(t) == m_semaphore' = [m_semaphore EXCEPT ![t] = @ + 1]

\* start() makes its threads one at a time.
MayMake(t) ==
    \/ t \in Owned
    \/ /\ caller = "starting"
       /\ \A u \in Sched \ m_threadIds : obj[u] = "none"

\* The constructor up to m_semaphore.wait().
ThreadNew(t) ==
    /\ obj[t] = "none" /\ MayMake(t)
    /\ obj' = [obj EXCEPT ![t] = "waiting"]
    /\ m_thread' = [m_thread EXCEPT ![t] = TRUE]
    /\ run' = [run EXCEPT ![t] = "begin"]
    /\ UNCHANGED <<m_id, m_semaphore, t_thread, startVars>>

\* pthread_create fails and the constructor throws, in start() through the
\* loop: the lock is released, the threads made so far stay in m_threads.
NewThrows(t) ==
    /\ MayFail
    /\ obj[t] = "none" /\ MayMake(t)
    /\ obj' = [obj EXCEPT ![t] = "failed"]
    /\ \/ t \in Sched /\ m_mutex' = FALSE /\ caller' = "on"
       \/ t \in Owned /\ UNCHANGED <<m_mutex, caller>>
    /\ UNCHANGED <<m_id, m_thread, m_semaphore, run, t_thread, m_threadIds>>

\* Mutant of NewReturns: the constructor does not wait.
NewReturnsAtOnce(t) ==
    /\ obj[t] = "waiting"
    /\ obj' = [obj EXCEPT ![t] = "made"]
    /\ UNCHANGED <<m_id, m_thread, m_semaphore, run, t_thread, startVars>>

\* The wait is over and the constructor returns.
NewReturns(t) ==
    /\ obj[t] = "waiting"
    /\ Wait(t)
    /\ obj' = [obj EXCEPT ![t] = "made"]
    /\ UNCHANGED <<m_id, m_thread, run, t_thread, startVars>>

\* join() by the owner of the thread; stop() joins those of the scheduler.
\* On a thread that was joined it does nothing.
Join(t) ==
    /\ obj[t] = "made" /\ m_thread[t]
    /\ t \in Sched => caller = "joining"
    /\ run[t] = "ended"
    /\ m_thread' = [m_thread EXCEPT ![t] = FALSE]
    /\ UNCHANGED <<obj, m_id, m_semaphore, run, t_thread, startVars>>

\* The destructor, which detaches a thread that was not joined; stop() has
\* joined those of the scheduler.
ThreadDelete(t) ==
    /\ obj[t] = "made"
    /\ t \in Sched => caller = "stopped"
    /\ obj' = [obj EXCEPT ![t] = "gone"]
    /\ m_thread' = [m_thread EXCEPT ![t] = FALSE]
    /\ UNCHANGED <<m_id, m_semaphore, run, t_thread, startVars>>

-----------------------------------------------------------------------------
(* Thread::run on the new thread.                                          *)

RunBegin(t) ==
    /\ run[t] = "begin"
    /\ t_thread' = [t_thread EXCEPT ![t] = TRUE]
    /\ m_id' = [m_id EXCEPT ![t] = TRUE]
    /\ run' = [run EXCEPT ![t] = "take"]
    /\ UNCHANGED <<obj, m_thread, m_semaphore, startVars>>

\* The function is swapped out of the object.
RunTake(t) ==
    /\ run[t] = "take"
    /\ run' = [run EXCEPT ![t] = "notify"]
    /\ UNCHANGED <<obj, m_id, m_thread, m_semaphore, t_thread, startVars>>

\* Mutant of RunNotify: the semaphore is posted when the task is done.
RunNotifyLast(t) ==
    \/ /\ run[t] = "notify"
       /\ run' = [run EXCEPT ![t] = "task"]
       /\ UNCHANGED <<obj, m_id, m_thread, t_thread, m_semaphore, startVars>>
    \/ /\ run[t] = "ended" /\ obj[t] = "waiting" /\ m_semaphore[t] = 0
       /\ Notify(t)
       /\ UNCHANGED <<obj, m_id, m_thread, t_thread, run, startVars>>

RunNotify(t) ==
    /\ run[t] = "notify"
    /\ Notify(t)
    /\ run' = [run EXCEPT ![t] = "task"]
    /\ UNCHANGED <<obj, m_id, m_thread, t_thread, startVars>>

\* The task begins.  Scheduler::run needs m_mutex first of all.
RunTask(t) ==
    /\ run[t] = "task"
    /\ t \in Sched => ~m_mutex
    /\ run' = [run EXCEPT ![t] = "working"]
    /\ UNCHANGED <<obj, m_id, m_thread, m_semaphore, t_thread, startVars>>

RunEnd(t) ==
    /\ run[t] = "working"
    /\ run' = [run EXCEPT ![t] = "ended"]
    /\ UNCHANGED <<obj, m_id, m_thread, m_semaphore, t_thread, startVars>>

-----------------------------------------------------------------------------
(* Scheduler::start and the end of Scheduler::stop.                        *)

StartBegin ==
    /\ caller = "off"
    /\ m_mutex' = TRUE
    /\ caller' = "starting"
    /\ UNCHANGED <<obj, m_id, m_thread, m_semaphore, run, t_thread, m_threadIds>>

\* m_threadIds.push_back(m_threads[i]->getId())
StartRecord(t) ==
    /\ caller = "starting" /\ t \in Sched
    /\ obj[t] = "made" /\ t \notin m_threadIds
    /\ m_threadIds' = m_threadIds \union {t}
    /\ UNCHANGED <<obj, m_id, m_thread, m_semaphore, run, t_thread, m_mutex, caller>>

StartEnd ==
    /\ caller = "starting" /\ m_threadIds = Sched
    /\ m_mutex' = FALSE
    /\ caller' = "on"
    /\ UNCHANGED <<obj, m_id, m_thread, m_semaphore, run, t_thread, m_threadIds>>

\* Mutant of StopSwap: the threads are joined with m_mutex still locked.
StopSwapLocked ==
    /\ caller = "on"
    /\ m_mutex' = TRUE
    /\ caller' = "joining"
    /\ UNCHANGED <<obj, m_id, m_thread, m_semaphore, run, t_thread, m_threadIds>>

\* stop() takes m_threads over.  The entries start() did not fill are null,
\* and sooner or later the loop that joins them comes to one.
StopSwap ==
    /\ caller = "on"
    /\ caller' = IF \E t \in Sched : obj[t] \in {"none", "failed"} THEN "null" ELSE "joining"
    /\ UNCHANGED <<obj, m_id, m_thread, m_semaphore, run, t_thread, m_mutex, m_threadIds>>

StopEnd ==
    /\ caller = "joining"
    /\ \A t \in Sched : ~m_thread[t]
    /\ caller' = "stopped"
    /\ UNCHANGED <<obj, m_id, m_thread, m_semaphore, run, t_thread, m_mutex, m_threadIds>>

-----------------------------------------------------------------------------
RunStep(t) == RunBegin(t) \/ RunTake(t) \/ RunNotify(t) \/ RunTask(t) \/ RunEnd(t)
CallStep ==
    \/ StartEnd \/ StopEnd
    \/ \E t \in Sched : ThreadNew(t) \/ NewReturns(t) \/ StartRecord(t) \/ Join(t)

ThreadNext ==
    \/ \E t \in Threads : RunStep(t) \/ ThreadNew(t) \/ NewThrows(t) \/ NewReturns(t) \/ Join(t) \/ ThreadDelete(t)
    \/ \E t \in Sched : StartRecord(t)
    \/ StartBegin \/ StartEnd \/ StopSwap \/ StopEnd

ThreadSpec == ThreadInit /\ [][ThreadNext]_threadVars

\* Threads are preemptively scheduled and tasks end; the application goes on
\* inside start() and stop().
ThreadFairness ==
    /\ \A t \in Threads : WF_threadVars(RunStep(t)) /\ WF_threadVars(NewReturns(t))
    /\ WF_threadVars(CallStep)

-----------------------------------------------------------------------------
(* Properties.                                                             *)

\* When the constructor has returned, run() has set m_id and has finished
\* with the object, which may be destroyed from then on: start() records
\* ids that exist, and run() touches no destroyed object.
Handshake ==
    \A t \in Threads : obj[t] \in {"made", "gone"} =>
        m_id[t] /\ run[t] \in {"task", "working", "ended"}

\* start() returns although it waits, with m_mutex locked, for threads whose
\* task locks m_mutex.
StartReturns == caller = "starting" ~> caller = "on"

\* stop() returns with every thread of the scheduler at its end.
JoinReturns == caller = "joining" ~> caller = "stopped" /\ \A t \in Sched : run[t] = "ended"

=============================================================================
