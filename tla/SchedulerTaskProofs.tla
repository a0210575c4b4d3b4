------------------------ MODULE SchedulerTaskProofs ------------------------
(***************************************************************************)
(* What becomes of a task, proved for any number of threads and tasks: no  *)
(* task is lost, none is run twice, the last runner leaves no work behind, *)
(* and the scheduler implements TaskPool.                                  *)
(***************************************************************************)
EXTENDS SchedulerPool, SchedulerProofs

-----------------------------------------------------------------------------
(* Frames.                                                                 *)

\* The scan takes an entry out of the list, whose task may be listed again.
LEMMA TakeAnyList ==
    ASSUME m_fibers \in Seq(Entries), NEW i \in DOMAIN m_fibers,
           m_fibers' = RemoveAt(m_fibers, i)
    PROVE  /\ m_fibers[i].task \in ListTasks
           /\ ListTasks' \subseteq ListTasks
           /\ \A y \in ListTasks : y # m_fibers[i].task => y \in ListTasks'
           /\ \A j \in DOMAIN m_fibers' : \E k \in DOMAIN m_fibers : m_fibers'[j] = m_fibers[k]
<1>1. DOMAIN m_fibers = 1 .. Len(m_fibers) /\ Len(m_fibers) \in Nat
    OBVIOUS
<1>2. /\ m_fibers' \in Seq(Entries)
      /\ Len(m_fibers') = Len(m_fibers) - 1
      /\ \A j \in 1 .. Len(m_fibers) - 1 :
            m_fibers'[j] = IF j < i THEN m_fibers[j] ELSE m_fibers[j + 1]
    BY <1>1, RemoveAtElements
<1>3. DOMAIN m_fibers' = 1 .. Len(m_fibers) - 1
    BY <1>2
<1>4. m_fibers[i].task \in ListTasks
    BY DEF ListTasks
<1>5. \A j \in DOMAIN m_fibers' : \E k \in DOMAIN m_fibers : m_fibers'[j] = m_fibers[k]
    BY <1>1, <1>2, <1>3
<1>6. ListTasks' \subseteq ListTasks
    BY <1>5 DEF ListTasks
<1>7. ASSUME NEW y \in ListTasks, y # m_fibers[i].task PROVE y \in ListTasks'
    <2>1. PICK k \in 1 .. Len(m_fibers) : k # i /\ y = m_fibers[k].task
        BY <1>1, <1>7 DEF ListTasks
    <2>2. CASE k < i
        <3>1. k \in 1 .. Len(m_fibers) - 1 /\ m_fibers'[k] = m_fibers[k]
            BY <2>1, <2>2, <1>1, <1>2
        <3> QED
            BY <3>1, <2>1, <1>3 DEF ListTasks
    <2>3. CASE k > i
        <3>1. k - 1 \in 1 .. Len(m_fibers) - 1 /\ m_fibers'[k - 1] = m_fibers[k]
            BY <2>1, <2>3, <1>1, <1>2
        <3> QED
            BY <3>1, <2>1, <1>3 DEF ListTasks
    <2> QED
        BY <2>1, <2>2, <2>3, <1>1
<1> QED
    BY <1>4, <1>5, <1>6, <1>7

\* A step of w leaves program counter and locals of the others alone.
LEMMA OthersStay ==
    ASSUME NEW w, RunnerFrame(w), Types
    PROVE  \A v \in Threads : v # w =>
            /\ pc'[v] = pc[v] /\ ft'[v] = ft[v] /\ func_fiber'[v] = func_fiber[v]
            /\ Cur(v)' = Cur(v)
            /\ \A x : Has(v, x)' = Has(v, x) /\ Runs(v, x)' = Runs(v, x)
<1> SUFFICES ASSUME NEW v \in Threads, v # w
             PROVE  /\ pc'[v] = pc[v] /\ ft'[v] = ft[v] /\ func_fiber'[v] = func_fiber[v]
                    /\ Cur(v)' = Cur(v)
                    /\ \A x : Has(v, x)' = Has(v, x) /\ Runs(v, x)' = Runs(v, x)
    OBVIOUS
<1>1. pc'[v] = pc[v] /\ ft'[v] = ft[v] /\ func_fiber'[v] = func_fiber[v]
    BY DEF RunnerFrame, Types
<1>2. Cur(v)' = Cur(v)
    BY <1>1 DEF Cur
<1> QED
    BY <1>1, <1>2 DEF Has, Runs

\* In a step of w, x stays kept (or on its way to a runner) if what w itself,
\* the list and the event sources do with it leaves it in one of these places.
LEMMA KeptMove ==
    ASSUME NEW w \in Runners, RunnerFrame(w), Types, NEW x
    PROVE  /\ /\ x \in ListTasks \/ x \in armed =>
                    x \in ListTasks' \/ x \in armed' \/ Has(w, x)'
              /\ Has(w, x) => x \in ListTasks' \/ x \in armed' \/ Has(w, x)'
                              \/ \E v \in Runners : v # w /\ Has(v, x)
              /\ Kept(x)
              => Kept(x)'
           /\ /\ x \in ListTasks \/ x \in armed =>
                    x \in ListTasks' \/ x \in armed' \/ Runs(w, x)'
              /\ Runs(w, x) => x \in ListTasks' \/ x \in armed' \/ Runs(w, x)'
              /\ Coming(x)
              => Coming(x)'
<1>1. \A v \in Runners : v # w => Has(v, x)' = Has(v, x) /\ Runs(v, x)' = Runs(v, x)
    BY OthersStay, ThreadSets
<1> QED
    BY <1>1 DEF Kept, Coming

\* In a step of w, ExecInv holds on if each fiber in state EXEC is then worked
\* for by w, or was so by another runner.
LEMMA ExecMove ==
    ASSUME NEW w \in Runners, RunnerFrame(w), Types, ExecInv,
           \A x \in FiberObjs : m_state'[x] = "EXEC" =>
                \/ pc'[w] \in Busy /\ Cur(w)' = x
                \/ m_state[x] = "EXEC" /\ ~(pc[w] \in Busy /\ Cur(w) = x)
    PROVE  ExecInv'
<1> SUFFICES ASSUME NEW x \in FiberObjs, m_state'[x] = "EXEC"
             PROVE  \E v \in Runners : pc'[v] \in Busy /\ Cur(v)' = x
    BY DEF ExecInv
<1>1. CASE pc'[w] \in Busy /\ Cur(w)' = x
    BY <1>1
<1>2. CASE m_state[x] = "EXEC" /\ ~(pc[w] \in Busy /\ Cur(w) = x)
    <2>1. PICK v \in Runners : pc[v] \in Busy /\ Cur(v) = x
        BY <1>2 DEF ExecInv
    <2>2. v # w /\ v \in Threads
        BY <1>2, <2>1, ThreadSets
    <2> QED
        BY <2>1, <2>2, OthersStay
<1> QED
    BY <1>1, <1>2

\* Without a change of m_func, KeptInv holds on if every x that stands for a
\* pending task stays kept.
LEMMA KeptFrame ==
    ASSUME KeptInv, UNCHANGED m_func, \A t \in Tasks : Pending(t)' => Pending(t),
           \A x \in FiberObjs \union Funcs : Pending(TaskOf(x))' /\ Kept(x) => Kept(x)'
    PROVE  KeptInv'
<1>1. \A x : TaskOf(x)' = TaskOf(x)
    BY DEF TaskOf
<1> QED
    BY <1>1 DEF KeptInv
\* The steps of a runner in run() that move the runner itself.
MoveStep(w) ==
    \/ RunStep(w) \/ YieldToReady(w) \/ YieldToHold(w) \/ Suspend(w) \/ MainFunc(w) \/ SwapOut(w)
    \/ \E thr \in SwitchTargets : SwitchTo(w, thr)

\* They leave the other threads and the application's variables alone.
LEMMA RunnerMoves ==
    ASSUME TypeInv, NEW w \in Runners, MoveStep(w)
    PROVE  RunnerFrame(w)
<1> USE ThreadSets DEF queueVars, flagVars, fiberVars, runVars, taskVars
<1>1. CASE TakeTask(w)
    BY <1>1 DEF TakeTask, RunnerFrame, TypeInv, Types, PCs
<1>2. CASE ExitRun(w)
    BY <1>2 DEF ExitRun, RunnerFrame, TypeInv, Types, PCs
<1>3. CASE EnterIdle(w)
    BY <1>3 DEF EnterIdle, RunnerFrame, TypeInv, Types, PCs
<1>4. CASE IdleCheck(w)
    BY <1>4 DEF IdleCheck, RunnerFrame, TypeInv, Types, PCs
<1>5. CASE SwapInFiber(w)
    BY <1>5 DEF SwapInFiber, RunnerFrame, TypeInv, Types, PCs
<1>6. CASE SkipDeadFiber(w)
    BY <1>6 DEF SkipDeadFiber, RunnerFrame, TypeInv, Types, PCs
<1>7. CASE SwapInFunc(w)
    BY <1>7 DEF SwapInFunc, RunnerFrame, TypeInv, Types, PCs
<1>8. CASE Deactivate(w)
    BY <1>8 DEF Deactivate, RunnerFrame, TypeInv, Types, PCs
<1>9. CASE Requeue(w)
    BY <1>9 DEF Requeue, RunnerFrame, TypeInv, Types, PCs, Release
<1>10. CASE HoldTask(w)
    BY <1>10 DEF HoldTask, RunnerFrame, TypeInv, Types, PCs, Release
<1>11. CASE DropFiber(w)
    BY <1>11 DEF DropFiber, RunnerFrame, TypeInv, Types, PCs
<1>12. CASE ResetFunc(w)
    BY <1>12 DEF ResetFunc, RunnerFrame, TypeInv, Types, PCs
<1>13. CASE YieldToReady(w)
    BY <1>13 DEF YieldToReady, RunnerFrame, TypeInv, Types, PCs
<1>14. CASE YieldToHold(w)
    BY <1>14 DEF YieldToHold, RunnerFrame, TypeInv, Types, PCs
<1>15. CASE Suspend(w)
    BY <1>15 DEF Suspend, RunnerFrame, TypeInv, Types, PCs
<1>16. CASE MainFunc(w)
    BY <1>16 DEF MainFunc, RunnerFrame, TypeInv, Types, PCs
<1>17. CASE SwapOut(w)
    BY <1>17 DEF SwapOut, RunnerFrame, TypeInv, Types, PCs
<1>18. ASSUME NEW thr \in SwitchTargets, SwitchTo(w, thr) PROVE RunnerFrame(w)
    BY <1>18 DEF SwitchTo, RunnerFrame, TypeInv, Types, PCs
<1> QED
    BY <1>1, <1>2, <1>3, <1>4, <1>5, <1>6, <1>7, <1>8, <1>9, <1>10, <1>11, <1>12, <1>13, <1>14, <1>15, <1>16, <1>17, <1>18
    DEF MoveStep, RunStep

-----------------------------------------------------------------------------
(* No task is lost.                                                        *)

\* The inductive invariant of this section, with the types.
TaskInv == FuncInv /\ EndInv /\ KeptInv /\ ExecInv

\* Nothing is pending at the start.
LEMMA TaskInit == Init => TaskInv
<1> SUFFICES ASSUME Init PROVE TaskInv
    OBVIOUS
<1>1. FuncInv
    BY TaskAssumption DEF Init, FuncInv, FiberObjs
<1>2. \A t : ~Pending(t)
    BY DEF Init, Pending
<1>3. EndInv /\ ExecInv
    <2>1. \A x \in FiberObjs : ~Live(x) /\ m_state[x] \in {"INIT", "NONE"}
        BY TaskAssumption DEF Init, Live, TaskOf, FiberObjs, Tasks
    <2> QED
        BY <2>1 DEF EndInv, ExecInv, Finished
<1>4. KeptInv
    BY <1>2 DEF KeptInv
<1> QED
    BY <1>1, <1>3, <1>4 DEF TaskInv

\* Every step keeps the pending tasks in place: one case per action.
LEMMA TaskStep ==
    ASSUME TypeInv, TypeInv', TaskInv, [Next]_vars
    PROVE  TaskInv'
<1> USE TaskAssumption, ThreadSets
<1> USE DEF queueVars, flagVars, fiberVars, runVars, taskVars
<1>1. ASSUME NEW w \in Runners, ExitRun(w) PROVE TaskInv'
    <2>1. RunnerFrame(w)
        BY <1>1 DEF ExitRun, RunnerFrame, TypeInv, Types, PCs
    <2>2. /\ UNCHANGED <<m_fibers, armed, m_state, m_func, issued, finished>>
          /\ pc[w] \notin Counted \union {"post"} /\ pc'[w] \notin Counted \union {"post"}
        BY <1>1 DEF ExitRun, TypeInv, Types, Counted
    <2>3. ListTasks' = ListTasks /\ \A x : TaskOf(x)' = TaskOf(x)
        BY <2>2, SameList DEF TaskOf
    <2>4. \A x : (Kept(x) => Kept(x)') /\ (Coming(x) => Coming(x)')
        BY <2>1, <2>2, <2>3, KeptMove DEF Has, Runs, TypeInv, Counted
    <2>5. FuncInv'
        BY <1>1, <2>1, <2>2, OthersStay DEF ExitRun, FuncInv, TypeInv, Types, TaskInv, Busy
    <2>6. EndInv'
        BY <2>2, <2>3, <2>4 DEF EndInv, TaskInv, Pending, Live
    <2>7. KeptInv'
        BY <2>2, <2>4, KeptFrame DEF TaskInv, Pending
    <2>8. ExecInv'
        BY <2>1, <2>2, OthersStay DEF ExecInv, TaskInv, TypeInv, Busy, Counted
    <2> QED
        BY <2>5, <2>6, <2>7, <2>8 DEF TaskInv
<1>2. ASSUME NEW w \in Runners, EnterIdle(w) PROVE TaskInv'
    <2>1. RunnerFrame(w)
        BY <1>2 DEF EnterIdle, RunnerFrame, TypeInv, Types, PCs
    <2>2. /\ UNCHANGED <<m_fibers, armed, m_state, m_func, issued, finished>>
          /\ pc[w] \notin Counted \union {"post"} /\ pc'[w] \notin Counted \union {"post"}
        BY <1>2 DEF EnterIdle, TypeInv, Types, Counted
    <2>3. ListTasks' = ListTasks /\ \A x : TaskOf(x)' = TaskOf(x)
        BY <2>2, SameList DEF TaskOf
    <2>4. \A x : (Kept(x) => Kept(x)') /\ (Coming(x) => Coming(x)')
        BY <2>1, <2>2, <2>3, KeptMove DEF Has, Runs, TypeInv, Counted
    <2>5. FuncInv'
        BY <1>2, <2>1, <2>2, OthersStay DEF EnterIdle, FuncInv, TypeInv, Types, TaskInv, Busy
    <2>6. EndInv'
        BY <2>2, <2>3, <2>4 DEF EndInv, TaskInv, Pending, Live
    <2>7. KeptInv'
        BY <2>2, <2>4, KeptFrame DEF TaskInv, Pending
    <2>8. ExecInv'
        BY <2>1, <2>2, OthersStay DEF ExecInv, TaskInv, TypeInv, Busy, Counted
    <2> QED
        BY <2>5, <2>6, <2>7, <2>8 DEF TaskInv
<1>3. ASSUME NEW w \in Runners, IdleCheck(w) PROVE TaskInv'
    <2>1. RunnerFrame(w)
        BY <1>3 DEF IdleCheck, RunnerFrame, TypeInv, Types, PCs
    <2>2. /\ UNCHANGED <<m_fibers, armed, m_state, m_func, issued, finished>>
          /\ pc[w] \notin Counted \union {"post"} /\ pc'[w] \notin Counted \union {"post"}
        BY <1>3 DEF IdleCheck, TypeInv, Types, Counted
    <2>3. ListTasks' = ListTasks /\ \A x : TaskOf(x)' = TaskOf(x)
        BY <2>2, SameList DEF TaskOf
    <2>4. \A x : (Kept(x) => Kept(x)') /\ (Coming(x) => Coming(x)')
        BY <2>1, <2>2, <2>3, KeptMove DEF Has, Runs, TypeInv, Counted
    <2>5. FuncInv'
        BY <1>3, <2>1, <2>2, OthersStay DEF IdleCheck, FuncInv, TypeInv, Types, TaskInv, Busy
    <2>6. EndInv'
        BY <2>2, <2>3, <2>4 DEF EndInv, TaskInv, Pending, Live
    <2>7. KeptInv'
        BY <2>2, <2>4, KeptFrame DEF TaskInv, Pending
    <2>8. ExecInv'
        BY <2>1, <2>2, OthersStay DEF ExecInv, TaskInv, TypeInv, Busy, Counted
    <2> QED
        BY <2>5, <2>6, <2>7, <2>8 DEF TaskInv
<1>4. ASSUME NEW w \in Runners, Deactivate(w) PROVE TaskInv'
    <2>1. RunnerFrame(w)
        BY <1>4 DEF Deactivate, RunnerFrame, TypeInv, Types, PCs
    <2>2. /\ UNCHANGED <<m_fibers, armed, m_state, m_func, issued, finished, ft, func_fiber>>
          /\ pc[w] \in Stopped /\ pc'[w] \in Stopped /\ Cur(w)' = Cur(w)
        BY <1>4 DEF Deactivate, TypeInv, Types, Stopped, Cur
    <2>3. ListTasks' = ListTasks /\ \A x : TaskOf(x)' = TaskOf(x)
        BY <2>2, SameList DEF TaskOf
    <2>4. \A x : (Kept(x) => Kept(x)') /\ (Coming(x) => Coming(x)')
        BY <2>1, <2>2, <2>3, KeptMove DEF Has, Runs, TypeInv, Counted, Stopped
    <2>5. FuncInv'
        BY <2>1, <2>2, OthersStay DEF FuncInv, TypeInv, TaskInv, Busy, Stopped
    <2>6. EndInv'
        BY <2>2, <2>3, <2>4 DEF EndInv, TaskInv, Pending, Live
    <2>7. KeptInv'
        BY <2>2, <2>4, KeptFrame DEF TaskInv, Pending
    <2>8. ExecInv'
        BY <2>1, <2>2, OthersStay DEF ExecInv, TaskInv, TypeInv, Busy, Stopped
    <2> QED
        BY <2>5, <2>6, <2>7, <2>8 DEF TaskInv
<1>5. ASSUME NEW w \in Runners, SwapOut(w) PROVE TaskInv'
    <2>1. RunnerFrame(w)
        BY <1>5 DEF SwapOut, RunnerFrame, TypeInv, Types, PCs
    <2>2. /\ UNCHANGED <<m_fibers, armed, m_state, m_func, issued, finished, ft, func_fiber>>
          /\ pc[w] \in Stopped /\ pc'[w] \in Stopped /\ Cur(w)' = Cur(w)
        BY <1>5 DEF SwapOut, TypeInv, Types, Stopped, Cur
    <2>3. ListTasks' = ListTasks /\ \A x : TaskOf(x)' = TaskOf(x)
        BY <2>2, SameList DEF TaskOf
    <2>4. \A x : (Kept(x) => Kept(x)') /\ (Coming(x) => Coming(x)')
        BY <2>1, <2>2, <2>3, KeptMove DEF Has, Runs, TypeInv, Counted, Stopped
    <2>5. FuncInv'
        BY <2>1, <2>2, OthersStay DEF FuncInv, TypeInv, TaskInv, Busy, Stopped
    <2>6. EndInv'
        BY <2>2, <2>3, <2>4 DEF EndInv, TaskInv, Pending, Live
    <2>7. KeptInv'
        BY <2>2, <2>4, KeptFrame DEF TaskInv, Pending
    <2>8. ExecInv'
        BY <2>1, <2>2, OthersStay DEF ExecInv, TaskInv, TypeInv, Busy, Stopped
    <2> QED
        BY <2>5, <2>6, <2>7, <2>8 DEF TaskInv
<1>6. ASSUME NEW w \in Runners, SwapInFiber(w) PROVE TaskInv'
    <2>1. RunnerFrame(w)
        BY <1>6 DEF SwapInFiber, RunnerFrame, TypeInv, Types, PCs
    <2>0. PICK c : c = Cur(w)
        OBVIOUS
    <2>2. /\ UNCHANGED <<m_fibers, armed, m_func, issued, finished, ft, func_fiber>>
          /\ pc[w] = "dispatch" /\ pc'[w] = "user" /\ Cur(w)' = c /\ Cur(w) = c /\ c = ft[w] /\ c \in FiberObjs
          /\ m_state' = [m_state EXCEPT ![c] = "EXEC"]
        BY <1>6, <2>0 DEF SwapInFiber, TypeInv, Types, Cur
    <2>3. ListTasks' = ListTasks /\ \A x : TaskOf(x)' = TaskOf(x)
        BY <2>2, SameList DEF TaskOf
    <2>4. \A x : (Kept(x) => Kept(x)') /\ (Coming(x) => Coming(x)')
        BY <2>1, <2>2, <2>3, KeptMove DEF Has, Runs, TypeInv, Counted
    <2>5. FuncInv'
        BY <1>6, <2>1, <2>2, OthersStay DEF SwapInFiber, FuncInv, TypeInv, Types, TaskInv, LocalsInv, Locals, Busy, Cur
    <2>6. EndInv'
        <3>1. Coming(c)'
            BY <2>2 DEF Coming, Runs
        <3> QED
            BY <2>2, <2>3, <2>4, <3>1 DEF EndInv, TaskInv, Pending, Live, TypeInv, Types, Finished
    <2>7. KeptInv'
        BY <2>2, <2>4, KeptFrame DEF TaskInv, Pending
    <2>8. ExecInv'
        BY <2>1, <2>2, ExecMove DEF TaskInv, TypeInv, Types, Busy
    <2> QED
        BY <2>5, <2>6, <2>7, <2>8 DEF TaskInv
<1>7. ASSUME NEW w \in Runners, SkipDeadFiber(w) PROVE TaskInv'
    <2>1. RunnerFrame(w)
        BY <1>7 DEF SkipDeadFiber, RunnerFrame, TypeInv, Types, PCs
    <2>0. PICK c : c = Cur(w)
        OBVIOUS
    <2>2. /\ UNCHANGED <<m_fibers, armed, m_state, m_func, issued, finished, func_fiber>>
          /\ pc[w] \in {"dispatch", "post"} /\ pc'[w] = "scan"
          /\ Cur(w) = c /\ c = ft[w] /\ ft[w] # Nil
          /\ c \in FiberObjs /\ m_state[c] \in Finished
        BY <1>7, <2>0 DEF SkipDeadFiber, TypeInv, Types, LocalsInv, Locals, Busy, Cur
    <2>3. ListTasks' = ListTasks /\ \A x : TaskOf(x)' = TaskOf(x)
        BY <2>2, SameList DEF TaskOf
    <2>4. \A x : x # c => (Kept(x) => Kept(x)') /\ (Coming(x) => Coming(x)')
        BY <2>1, <2>2, <2>3, KeptMove DEF Has, Runs, TypeInv, Counted
    <2>a. ~Pending(TaskOf(c))'
        BY <2>2, <2>3 DEF EndInv, TaskInv, Pending, Live
    <2>5. FuncInv'
        BY <1>7, <2>1, <2>2, OthersStay DEF SkipDeadFiber, FuncInv, TypeInv, Types, TaskInv, LocalsInv, Locals, Busy
    <2>6. EndInv'
        BY <2>2, <2>3, <2>4, <2>a DEF EndInv, TaskInv, Pending, Live
    <2>7. KeptInv'
        <3>1. \A x \in FiberObjs \union Funcs : Pending(TaskOf(x))' /\ Kept(x) => Kept(x)'
            BY <2>3, <2>4, <2>a
        <3> QED
            BY <2>2, <3>1, KeptFrame DEF TaskInv, Pending
    <2>8. ExecInv'
        BY <2>1, <2>2, ExecMove DEF TaskInv, TypeInv, Types, Busy, Finished
    <2> QED
        BY <2>5, <2>6, <2>7, <2>8 DEF TaskInv
<1>8. ASSUME NEW w \in Runners, DropFiber(w) PROVE TaskInv'
    <2>1. RunnerFrame(w)
        BY <1>8 DEF DropFiber, RunnerFrame, TypeInv, Types, PCs
    <2>0. PICK c : c = Cur(w)
        OBVIOUS
    <2>2. /\ UNCHANGED <<m_fibers, armed, m_state, m_func, issued, finished, func_fiber>>
          /\ pc[w] \in {"dispatch", "post"} /\ pc'[w] = "scan"
          /\ Cur(w) = c /\ c = ft[w] /\ ft[w] # Nil
          /\ c \in FiberObjs /\ m_state[c] \in Finished
        BY <1>8, <2>0 DEF DropFiber, TypeInv, Types, LocalsInv, Locals, Busy, Cur
    <2>3. ListTasks' = ListTasks /\ \A x : TaskOf(x)' = TaskOf(x)
        BY <2>2, SameList DEF TaskOf
    <2>4. \A x : x # c => (Kept(x) => Kept(x)') /\ (Coming(x) => Coming(x)')
        BY <2>1, <2>2, <2>3, KeptMove DEF Has, Runs, TypeInv, Counted
    <2>a. ~Pending(TaskOf(c))'
        BY <2>2, <2>3 DEF EndInv, TaskInv, Pending, Live
    <2>5. FuncInv'
        BY <1>8, <2>1, <2>2, OthersStay DEF DropFiber, FuncInv, TypeInv, Types, TaskInv, LocalsInv, Locals, Busy
    <2>6. EndInv'
        BY <2>2, <2>3, <2>4, <2>a DEF EndInv, TaskInv, Pending, Live
    <2>7. KeptInv'
        <3>1. \A x \in FiberObjs \union Funcs : Pending(TaskOf(x))' /\ Kept(x) => Kept(x)'
            BY <2>3, <2>4, <2>a
        <3> QED
            BY <2>2, <3>1, KeptFrame DEF TaskInv, Pending
    <2>8. ExecInv'
        BY <2>1, <2>2, ExecMove DEF TaskInv, TypeInv, Types, Busy, Finished
    <2> QED
        BY <2>5, <2>6, <2>7, <2>8 DEF TaskInv
<1>9. ASSUME NEW w \in Runners, Requeue(w) PROVE TaskInv'
    <2>1. RunnerFrame(w)
        BY <1>9 DEF Requeue, RunnerFrame, TypeInv, Types, PCs, Release
    <2>0. PICK c : c = Cur(w)
        OBVIOUS
    <2>2. /\ UNCHANGED <<armed, m_state, m_func, issued, finished>>
          /\ pc[w] = "post" /\ pc'[w] = "scan" /\ m_state[c] \in Yielded
          /\ Cur(w) = c /\ c \in FiberObjs /\ Push(c, AnyThread)
        BY <1>9, <2>0 DEF Requeue, TypeInv, Types, LocalsInv, Locals, Busy
    <2>a. Entry(c, AnyThread) \in Entries
        BY <2>2 DEF Entry, Entries
    <2>3. ListTasks' = ListTasks \union {c} /\ \A x : TaskOf(x)' = TaskOf(x)
        BY <2>2, <2>a, PushList DEF TaskOf, TypeInv, Types
    <2>4. \A x : (Kept(x) => Kept(x)') /\ (Coming(x) => Coming(x)')
        BY <2>1, <2>2, <2>3, KeptMove DEF Has, Runs, TypeInv, Counted
    <2>5. FuncInv'
        BY <1>9, <2>1, <2>2, OthersStay DEF Requeue, FuncInv, TypeInv, Types, TaskInv, LocalsInv, Locals, Busy, Release
    <2>6. EndInv'
        BY <2>2, <2>3, <2>4 DEF EndInv, TaskInv, Pending, Live
    <2>7. KeptInv'
        BY <2>2, <2>4, KeptFrame DEF TaskInv, Pending
    <2>8. ExecInv'
        BY <2>1, <2>2, ExecMove DEF TaskInv, TypeInv, Busy, Yielded
    <2> QED
        BY <2>5, <2>6, <2>7, <2>8 DEF TaskInv
<1>10. ASSUME NEW w \in Runners, HoldTask(w) PROVE TaskInv'
    <2>1. RunnerFrame(w)
        BY <1>10 DEF HoldTask, RunnerFrame, TypeInv, Types, PCs, Release
    <2>0. PICK c : c = Cur(w)
        OBVIOUS
    <2>2. /\ UNCHANGED <<m_fibers, armed, m_func, issued, finished>>
          /\ pc[w] = "post" /\ pc'[w] = "scan" /\ Cur(w) = c /\ c \in FiberObjs
          /\ m_state[c] \notin Yielded \union Finished
          /\ m_state' = [m_state EXCEPT ![c] = "HOLD"]
        BY <1>10, <2>0 DEF HoldTask, TypeInv, Types, LocalsInv, Locals, Busy
    <2>3. ListTasks' = ListTasks /\ \A x : TaskOf(x)' = TaskOf(x)
        BY <2>2, SameList DEF TaskOf
    <2>4. \A x : Coming(x) => Coming(x)'
        BY <2>1, <2>2, <2>3, KeptMove DEF Runs, TypeInv
    <2>a. \A x : x # c /\ Kept(x) => Kept(x)'
        BY <2>1, <2>2, <2>3, KeptMove DEF Has, TypeInv, Counted
    <2>b. \A x : Coming(x)' => Kept(x)'
        BY DEF Coming, Kept, Runs, Has, Counted
    <2>5. FuncInv'
        BY <1>10, <2>1, <2>2, OthersStay DEF HoldTask, FuncInv, TypeInv, Types, TaskInv, LocalsInv, Locals, Busy, Release
    <2>6. EndInv'
        BY <2>2, <2>3, <2>4 DEF EndInv, TaskInv, Pending, Live, TypeInv, Types, Finished, Yielded
    <2>7. KeptInv'
        <3>1. Pending(TaskOf(c))' => Kept(c)'
            BY <2>2, <2>3, <2>4, <2>b DEF EndInv, TaskInv, Pending, Live, TaskOf
        <3>2. \A x \in FiberObjs \union Funcs : Pending(TaskOf(x))' /\ Kept(x) => Kept(x)'
            BY <2>a, <2>3, <3>1
        <3> QED
            BY <2>2, <3>2, KeptFrame DEF TaskInv, Pending
    <2>8. ExecInv'
        BY <2>1, <2>2, ExecMove DEF TaskInv, TypeInv, Types, Busy
    <2> QED
        BY <2>5, <2>6, <2>7, <2>8 DEF TaskInv
<1>11. ASSUME NEW w \in Runners, ResetFunc(w) PROVE TaskInv'
    <2>1. RunnerFrame(w)
        BY <1>11 DEF ResetFunc, RunnerFrame, TypeInv, Types, PCs
    <2>0. PICK p : p = func_fiber[w]
        OBVIOUS
    <2>2. /\ UNCHANGED <<m_fibers, armed, issued, finished, ft, func_fiber>>
          /\ pc[w] = "post" /\ pc'[w] = "scan" /\ Cur(w) = p /\ p \in Pool
          /\ m_state[p] \in Finished
          /\ m_state' = [m_state EXCEPT ![p] = "INIT"]
          /\ m_func' = [m_func EXCEPT ![p] = Nil]
        BY <1>11, <2>0 DEF ResetFunc, TypeInv, Types, LocalsInv, Locals, Busy, Cur, FiberObjs
    <2>3. /\ ListTasks' = ListTasks
          /\ \A x : x # p => TaskOf(x)' = TaskOf(x)
          /\ TaskOf(p)' = Nil /\ p \in FiberObjs
        BY <2>2, SameList DEF TaskOf, TypeInv, Types, FiberObjs
    <2>4. \A x : x # p => (Kept(x) => Kept(x)') /\ (Coming(x) => Coming(x)')
        BY <2>1, <2>2, <2>3, KeptMove DEF Has, Runs, TypeInv, Counted
    <2>a. ~Pending(TaskOf(p)) /\ ~Pending(TaskOf(p))' /\ ~Live(p)'
        <3>1. TaskOf(p) \in finished
            BY <2>2, <2>3 DEF EndInv, TaskInv
        <3>2. Nil \notin Tasks
            BY DEF Tasks, FiberObjs
        <3> QED
            BY <3>1, <3>2, <2>3 DEF Pending, Live
    <2>5. FuncInv'
        BY <1>11, <2>0, <2>1, <2>2, OthersStay DEF ResetFunc, FuncInv, TypeInv, Types, TaskInv, LocalsInv, Locals, Busy, FiberObjs
    <2>6. EndInv'
        <3>1. \A x \in FiberObjs : x # p => m_state'[x] = m_state[x]
            BY <2>2 DEF TypeInv, Types
        <3>2. m_state'[p] = "INIT"
            BY <2>2, <2>3 DEF TypeInv, Types
        <3>3. \A t : Pending(t)' = Pending(t)
            BY <2>2 DEF Pending
        <3> QED
            BY <2>2, <2>3, <2>4, <2>a, <3>1, <3>2, <3>3 DEF EndInv, TaskInv, Finished, Live
    <2>7. KeptInv'
        <3>1. \A t : Pending(t)' = Pending(t)
            BY <2>2 DEF Pending
        <3> QED
            BY <2>3, <2>4, <2>a, <3>1 DEF KeptInv, TaskInv
    <2>8. ExecInv'
        BY <2>1, <2>2, ExecMove DEF TaskInv, TypeInv, Types, Busy, Finished
    <2> QED
        BY <2>5, <2>6, <2>7, <2>8 DEF TaskInv
<1>12. ASSUME NEW w \in Runners, YieldToReady(w) PROVE TaskInv'
    <2>1. RunnerFrame(w)
        BY <1>12 DEF YieldToReady, RunnerFrame, TypeInv, Types, PCs
    <2>0. PICK c : c = Cur(w)
        OBVIOUS
    <2>2. /\ UNCHANGED <<m_fibers, armed, m_func, issued, finished, ft, func_fiber>>
          /\ pc[w] \in {"user", "hold"} /\ pc'[w] = "leaving"
          /\ Cur(w) = c /\ Cur(w)' = c /\ c \in FiberObjs
          /\ m_state' = [m_state EXCEPT ![c] = "READY"]
        BY <1>12, <2>0 DEF YieldToReady, TypeInv, Types, LocalsInv, Locals, Busy, Cur
    <2>3. ListTasks' = ListTasks /\ \A x : TaskOf(x)' = TaskOf(x)
        BY <2>2, SameList DEF TaskOf
    <2>4. \A x : (Kept(x) => Kept(x)') /\ (x # c /\ Coming(x) => Coming(x)')
        BY <2>1, <2>2, <2>3, KeptMove DEF Has, Runs, TypeInv, Counted
    <2>5. FuncInv'
        BY <1>12, <2>1, <2>2, OthersStay DEF YieldToReady, FuncInv, TypeInv, Types, TaskInv, LocalsInv, Locals, Busy
    <2>6. EndInv'
        BY <2>2, <2>3, <2>4 DEF EndInv, TaskInv, Pending, Live, TypeInv, Types, Finished, Yielded
    <2>7. KeptInv'
        BY <2>2, <2>4, KeptFrame DEF TaskInv, Pending
    <2>8. ExecInv'
        BY <2>1, <2>2, ExecMove DEF TaskInv, TypeInv, Types, Busy
    <2> QED
        BY <2>5, <2>6, <2>7, <2>8 DEF TaskInv
<1>13. ASSUME NEW w \in Runners, YieldToHold(w) PROVE TaskInv'
    <2>1. RunnerFrame(w)
        BY <1>13 DEF YieldToHold, RunnerFrame, TypeInv, Types, PCs
    <2>0. PICK c : c = Cur(w)
        OBVIOUS
    <2>2. /\ UNCHANGED <<m_fibers, armed, m_func, issued, finished, ft, func_fiber>>
          /\ pc[w] \in {"user", "hold"} /\ pc'[w] = "leaving"
          /\ Cur(w) = c /\ Cur(w)' = c /\ c \in FiberObjs
          /\ m_state' = [m_state EXCEPT ![c] = "HOLD"]
        BY <1>13, <2>0 DEF YieldToHold, TypeInv, Types, LocalsInv, Locals, Busy, Cur
    <2>3. ListTasks' = ListTasks /\ \A x : TaskOf(x)' = TaskOf(x)
        BY <2>2, SameList DEF TaskOf
    <2>4. \A x : (Kept(x) => Kept(x)') /\ (x # c /\ Coming(x) => Coming(x)')
        BY <2>1, <2>2, <2>3, KeptMove DEF Has, Runs, TypeInv, Counted
    <2>5. FuncInv'
        BY <1>13, <2>1, <2>2, OthersStay DEF YieldToHold, FuncInv, TypeInv, Types, TaskInv, LocalsInv, Locals, Busy
    <2>6. EndInv'
        BY <2>2, <2>3, <2>4 DEF EndInv, TaskInv, Pending, Live, TypeInv, Types, Finished, Yielded
    <2>7. KeptInv'
        BY <2>2, <2>4, KeptFrame DEF TaskInv, Pending
    <2>8. ExecInv'
        BY <2>1, <2>2, ExecMove DEF TaskInv, TypeInv, Types, Busy
    <2> QED
        BY <2>5, <2>6, <2>7, <2>8 DEF TaskInv
<1>14. ASSUME NEW w \in Runners, Suspend(w) PROVE TaskInv'
    <2>1. RunnerFrame(w)
        BY <1>14 DEF Suspend, RunnerFrame, TypeInv, Types, PCs
    <2>0. PICK c : c = Cur(w)
        OBVIOUS
    <2>2. /\ UNCHANGED <<m_fibers, m_state, m_func, issued, finished, ft, func_fiber>>
          /\ pc[w] = "user" /\ pc'[w] = "leaving"
          /\ Cur(w) = c /\ Cur(w)' = c /\ armed' = armed \union {c}
        BY <1>14, <2>0 DEF Suspend, TypeInv, Types, Cur
    <2>3. ListTasks' = ListTasks /\ \A x : TaskOf(x)' = TaskOf(x)
        BY <2>2, SameList DEF TaskOf
    <2>4. \A x : (Kept(x) => Kept(x)') /\ (Coming(x) => Coming(x)')
        BY <2>1, <2>2, <2>3, KeptMove DEF Has, Runs, TypeInv, Counted
    <2>5. FuncInv'
        BY <1>14, <2>1, <2>2, OthersStay DEF Suspend, FuncInv, TypeInv, Types, TaskInv, LocalsInv, Locals, Busy
    <2>6. EndInv'
        BY <2>2, <2>3, <2>4 DEF EndInv, TaskInv, Pending, Live
    <2>7. KeptInv'
        BY <2>2, <2>4, KeptFrame DEF TaskInv, Pending
    <2>8. ExecInv'
        BY <2>1, <2>2, ExecMove DEF TaskInv, TypeInv, Types, Busy
    <2> QED
        BY <2>5, <2>6, <2>7, <2>8 DEF TaskInv
<1>15. ASSUME NEW w \in Runners, MainFunc(w) PROVE TaskInv'
    <2>1. RunnerFrame(w)
        BY <1>15 DEF MainFunc, RunnerFrame, TypeInv, Types, PCs
    <2>0. PICK c : c = Cur(w)
        OBVIOUS
    <2>2. /\ UNCHANGED <<m_fibers, armed, m_func, issued, ft, func_fiber>>
          /\ pc[w] = "user" /\ pc'[w] = "leaving"
          /\ Cur(w) = c /\ Cur(w)' = c /\ c \in FiberObjs
          /\ finished' = finished \union {TaskOf(c)}
        BY <1>15, <2>0 DEF MainFunc, TypeInv, Types, LocalsInv, Locals, Busy, Cur
    <2>a. m_state'[c] \in Finished /\ \A x \in FiberObjs : x # c => m_state'[x] = m_state[x]
        BY <1>15, <2>0, <2>2 DEF MainFunc, TypeInv, Types, Finished
    <2>3. ListTasks' = ListTasks /\ \A x : TaskOf(x)' = TaskOf(x)
        BY <2>2, SameList DEF TaskOf
    <2>4. \A x : (Kept(x) => Kept(x)') /\ (x # c /\ Coming(x) => Coming(x)')
        BY <2>1, <2>2, <2>3, KeptMove DEF Has, Runs, TypeInv, Counted
    <2>5. FuncInv'
        <3>1. \A x \in FiberObjs : m_state[x] # "NONE" => m_state'[x] # "NONE"
            BY <2>a DEF Finished
        <3>2. \A x \in FiberObjs : m_state'[x] = "NONE" => m_state[x] = "NONE"
            BY <2>a DEF Finished
        <3>3. \A v \in Threads : func_fiber[v] # Nil => func_fiber[v] \in FiberObjs
            BY DEF TypeInv, Types, FiberObjs
        <3>4. \A v \in Threads : /\ ft'[v] = ft[v] /\ func_fiber'[v] = func_fiber[v]
                                 /\ pc'[v] \in Busy <=> pc[v] \in Busy
            BY <2>1, <2>2, OthersStay DEF TypeInv, Busy
        <3> QED
            BY <2>2, <3>1, <3>2, <3>3, <3>4 DEF FuncInv, TaskInv, FiberObjs
    <2>6. EndInv'
        BY <2>2, <2>3, <2>4, <2>a DEF EndInv, TaskInv, Pending, Live
    <2>7. KeptInv'
        BY <2>2, <2>4, KeptFrame DEF TaskInv, Pending
    <2>8. ExecInv'
        BY <2>1, <2>2, <2>a, ExecMove DEF TaskInv, TypeInv, Busy, Finished
    <2> QED
        BY <2>5, <2>6, <2>7, <2>8 DEF TaskInv
<1>16. ASSUME NEW w \in Runners, NEW thr \in SwitchTargets, SwitchTo(w, thr) PROVE TaskInv'
    <2>1. RunnerFrame(w)
        BY <1>16 DEF SwitchTo, RunnerFrame, TypeInv, Types, PCs
    <2>0. PICK c : c = Cur(w)
        OBVIOUS
    <2>2. /\ UNCHANGED <<armed, m_state, m_func, issued, finished, ft, func_fiber>>
          /\ pc[w] = "user" /\ pc'[w] = "hold" /\ Push(c, thr)
          /\ Cur(w) = c /\ Cur(w)' = c /\ c \in FiberObjs
        BY <1>16, <2>0 DEF SwitchTo, TypeInv, Types, LocalsInv, Locals, Busy, Cur
    <2>a. Entry(c, thr) \in Entries
        BY <2>2, BoundAssumption DEF Entry, Entries
    <2>3. ListTasks' = ListTasks \union {c} /\ \A x : TaskOf(x)' = TaskOf(x)
        BY <2>2, <2>a, PushList DEF TaskOf, TypeInv, Types
    <2>4. \A x : (Kept(x) => Kept(x)') /\ (Coming(x) => Coming(x)')
        BY <2>1, <2>2, <2>3, KeptMove DEF Has, Runs, TypeInv, Counted
    <2>5. FuncInv'
        BY <2>1, <2>2, OthersStay DEF FuncInv, TypeInv, Types, TaskInv, Busy
    <2>6. EndInv'
        BY <2>2, <2>3, <2>4 DEF EndInv, TaskInv, Pending, Live
    <2>7. KeptInv'
        BY <2>2, <2>4, KeptFrame DEF TaskInv, Pending
    <2>8. ExecInv'
        BY <2>1, <2>2, ExecMove DEF TaskInv, TypeInv, Busy
    <2> QED
        BY <2>5, <2>6, <2>7, <2>8 DEF TaskInv
<1>17. ASSUME NEW w \in Runners, TakeTask(w) PROVE TaskInv'
    <2>1. RunnerFrame(w)
        BY <1>17 DEF TakeTask, RunnerFrame, TypeInv, Types, PCs
    <2>a. PICK i \in DOMAIN m_fibers :
            /\ ft' = [ft EXCEPT ![w] = m_fibers[i].task]
            /\ m_fibers' = RemoveAt(m_fibers, i)
        BY <1>17 DEF TakeTask
    <2>0. PICK c : c = m_fibers[i].task
        OBVIOUS
    <2>b. c \in FiberObjs \union Funcs
        <3>1. m_fibers \in Seq(Entries) /\ i \in 1 .. Len(m_fibers)
            BY DEF TypeInv, Types
        <3>2. m_fibers[i] \in Entries
            BY <3>1
        <3> QED
            BY <2>0, <3>2 DEF Entries
    <2>2. /\ UNCHANGED <<armed, m_state, m_func, issued, finished, func_fiber>>
          /\ pc[w] = "scan" /\ pc'[w] = "dispatch" /\ ft[w] = Nil /\ ft'[w] = c /\ Cur(w)' = c
        BY <1>17, <2>0, <2>a, <2>b DEF TakeTask, TypeInv, Types, LocalsInv, Locals, Cur
    <2>3. /\ c \in ListTasks /\ ListTasks' \subseteq ListTasks
          /\ \A x \in ListTasks : x # c => x \in ListTasks'
        BY <2>0, <2>a, TakeAnyList DEF TypeInv, Types
    <2>c. \A x : TaskOf(x)' = TaskOf(x)
        BY <2>2 DEF TaskOf
    <2>4. \A x : (Kept(x) => Kept(x)') /\ (Coming(x) => Coming(x)')
        BY <2>1, <2>2, <2>3, KeptMove DEF Has, Runs, TypeInv, Counted
    <2>5. FuncInv'
        <3>1. \A v \in Threads : /\ func_fiber'[v] = func_fiber[v]
                                 /\ v # w => pc'[v] = pc[v] /\ ft'[v] = ft[v]
            BY <2>1, <2>2, OthersStay DEF TypeInv
        <3> QED
            BY <2>2, <3>1 DEF FuncInv, TaskInv, Busy
    <2>6. EndInv'
        BY <2>2, <2>c, <2>4 DEF EndInv, TaskInv, Pending, Live
    <2>7. KeptInv'
        BY <2>2, <2>4, KeptFrame DEF TaskInv, Pending
    <2>8. ExecInv'
        BY <2>1, <2>2, ExecMove DEF TaskInv, TypeInv, Busy
    <2> QED
        BY <2>5, <2>6, <2>7, <2>8 DEF TaskInv
<1>18. ASSUME NEW w \in Runners, SwapInFunc(w) PROVE TaskInv'
    <2>1. RunnerFrame(w)
        BY <1>18 DEF SwapInFunc, RunnerFrame, TypeInv, Types, PCs
    <2>a. PICK p \in Pool :
            /\ IF func_fiber[w] # Nil THEN p = func_fiber[w] ELSE m_state[p] = "NONE"
            /\ func_fiber' = [func_fiber EXCEPT ![w] = p]
            /\ m_func' = [m_func EXCEPT ![p] = ft[w]]
            /\ m_state' = [m_state EXCEPT ![p] = "EXEC"]
        BY <1>18 DEF SwapInFunc
    <2>0. PICK g : g = ft[w]
        OBVIOUS
    <2>2. /\ UNCHANGED <<m_fibers, armed, issued, finished>>
          /\ pc[w] = "dispatch" /\ pc'[w] = "user" /\ Cur(w) = g /\ Cur(w)' = p
          /\ ft[w] = g /\ g \in Funcs /\ ft'[w] = Nil /\ func_fiber'[w] = p
        BY <1>18, <2>0, <2>a DEF SwapInFunc, TypeInv, Types, Cur
    <2>3. /\ ListTasks' = ListTasks /\ p \in FiberObjs /\ p # Nil /\ g \notin Pool /\ g # Nil
          /\ \A x : x # p => TaskOf(x)' = TaskOf(x)
          /\ TaskOf(p)' = g
        <3>1. \A x \in Pool : x # p => m_func'[x] = m_func[x]
            BY <2>a DEF TypeInv, Types
        <3>2. m_func'[p] = g
            BY <2>a, <2>0 DEF TypeInv, Types
        <3> QED
            BY <2>2, <3>1, <3>2, SameList DEF TaskOf, FiberObjs
    \* The Fiber object is empty when run() puts the function into it.
    <2>b. m_func[p] = Nil /\ \A v \in Threads : v # w => func_fiber[v] # p
        <3>1. CASE func_fiber[w] # Nil
            BY <2>a, <2>2, <2>3, <3>1 DEF TaskInv, FuncInv, Busy
        <3>2. CASE func_fiber[w] = Nil
            BY <2>a, <2>2, <2>3, <3>2 DEF TaskInv, FuncInv
        <3> QED
            BY <3>1, <3>2
    <2>c. Nil \notin Tasks /\ TaskOf(p) = Nil /\ TaskOf(g) = g /\ \A t : Pending(t)' = Pending(t)
        BY <2>2, <2>b, <2>3 DEF Tasks, FiberObjs, TaskOf, Pending
    <2>4. \A x : x # g /\ x # p => (Kept(x) => Kept(x)') /\ (Coming(x) => Coming(x)')
        BY <2>1, <2>2, <2>3, KeptMove DEF Has, Runs, TypeInv, Counted
    <2>d. Kept(p)' /\ Coming(p)'
        BY <2>2 DEF Kept, Coming, Has, Runs, Counted
    <2>5. FuncInv'
        <3>1. m_state'[p] = "EXEC" /\ \A x \in FiberObjs : x # p => m_state'[x] = m_state[x]
            BY <2>a, <2>3 DEF TypeInv, Types
        <3>2. m_func'[p] = g /\ \A x \in Pool : x # p => m_func'[x] = m_func[x]
            BY <2>a, <2>2 DEF TypeInv, Types
        <3>3. \A v \in Threads : func_fiber[v] \in Pool \union {Nil}
            BY DEF TypeInv, Types
        <3> QED
            BY <2>1, <2>2, <2>b, <3>1, <3>2, <3>3, OthersStay
            DEF FuncInv, TypeInv, TaskInv, Busy, FiberObjs
    <2>6. EndInv'
        <3>1. m_state'[p] = "EXEC" /\ \A x \in FiberObjs : x # p => m_state'[x] = m_state[x]
            BY <2>a, <2>3 DEF TypeInv, Types
        <3>2. \A x \in FiberObjs : x # g
            BY <2>2
        <3> QED
            BY <2>2, <2>3, <2>4, <2>c, <2>d, <3>1, <3>2 DEF EndInv, TaskInv, Finished, Live
    <2>7. KeptInv'
        <3> SUFFICES ASSUME NEW t \in Tasks, Pending(t)
                     PROVE  \E x \in FiberObjs \union Funcs : TaskOf(x)' = t /\ Kept(x)'
            BY <2>c DEF KeptInv
        <3>1. PICK x \in FiberObjs \union Funcs : TaskOf(x) = t /\ Kept(x)
            BY DEF TaskInv, KeptInv
        <3>2. CASE x = g
            BY <3>1, <3>2, <2>3, <2>c, <2>d
        <3>3. CASE x # g
            BY <3>1, <3>3, <2>3, <2>4, <2>c
        <3> QED
            BY <3>2, <3>3
    <2>8. ExecInv'
        BY <2>1, <2>2, <2>3, <2>a, ExecMove DEF TaskInv, TypeInv, Types, Busy
    <2> QED
        BY <2>5, <2>6, <2>7, <2>8 DEF TaskInv
<1>19. ASSUME NEW T \in SUBSET Tasks,
             ListTasks' = ListTasks \union T,
             \A t \in Tasks \ T : issued'[t] = issued[t],
             UNCHANGED <<armed, m_state, m_func, finished, pc, ft, func_fiber>>
       PROVE  TaskInv'
    <2>1. \A x : /\ TaskOf(x)' = TaskOf(x) /\ Cur(x)' = Cur(x)
                 /\ Kept(x) => Kept(x)'
                 /\ Coming(x) => Coming(x)'
        BY <1>19 DEF TaskOf, Cur, Kept, Coming, Has, Runs
    <2>2. \A t \in T : t \in FiberObjs \union Funcs /\ TaskOf(t) = t /\ Kept(t)' /\ Coming(t)'
        BY <1>19 DEF TaskOf, Tasks, FiberObjs, Kept, Coming
    <2>3. \A t : t \notin T => Pending(t)' = Pending(t)
        BY <1>19 DEF Pending
    <2>4. FuncInv' /\ ExecInv'
        BY <1>19, <2>1 DEF TaskInv, FuncInv, ExecInv
    <2>5. KeptInv'
        BY <2>1, <2>2, <2>3 DEF TaskInv, KeptInv
    <2>6. EndInv'
        <3> SUFFICES ASSUME NEW x \in FiberObjs
                     PROVE  /\ m_state[x] \in Finished => TaskOf(x) \in finished
                            /\ m_state[x] \notin Yielded \union Finished /\ Live(x)' => Coming(x)'
            BY <1>19, <2>1 DEF EndInv
        <3>1. CASE x \notin T
            BY <1>19, <3>1, <2>1 DEF TaskInv, EndInv, Live, Tasks
        <3>2. CASE x \in T
            BY <3>2, <2>1, <2>2 DEF TaskInv, EndInv
        <3> QED
            BY <3>1, <3>2
    <2> QED
        BY <2>4, <2>5, <2>6 DEF TaskInv
<1>20. ASSUME NEW t \in Tasks, NEW thr \in Threads \union {AnyThread}, Push(t, thr),
              issued' = [issued EXCEPT ![t] = thr],
              UNCHANGED <<armed, m_state, m_func, finished, pc, ft, func_fiber>>
       PROVE  TaskInv'
    <2>1. Entry(t, thr) \in Entries
        BY DEF Entry, Entries, Tasks, FiberObjs
    <2>2. ListTasks' = ListTasks \union {t}
        BY <1>20, <2>1, PushList DEF TypeInv, Types
    <2>3. \A r \in Tasks \ {t} : issued'[r] = issued[r]
        BY <1>20 DEF TypeInv, Types
    <2>4. {t} \in SUBSET Tasks
        OBVIOUS
    <2> QED
        BY <1>20, <1>19, <2>2, <2>3, <2>4
<1>21. ASSUME NEW w \in Runners, NEW t \in Tasks, NEW thr \in SpawnPins, Spawn(w, t, thr)
       PROVE  TaskInv'
    BY <1>21, <1>20, BoundAssumption DEF Spawn
<1>22. ASSUME NEW t \in Tasks, NEW thr \in Pins, Schedule(t, thr) PROVE TaskInv'
    BY <1>22, <1>20, BoundAssumption DEF Schedule
<1>23. ASSUME NEW r \in Tasks, NEW t \in Tasks, ScheduleBatch(r, t) PROVE TaskInv'
    <2>1. Entry(r, AnyThread) \in Entries /\ Entry(t, AnyThread) \in Entries
        BY DEF Entry, Entries, Tasks, FiberObjs
    <2>2. ListTasks' = ListTasks \union {r, t}
        BY <1>23, <2>1, BatchList DEF ScheduleBatch, TypeInv, Types
    <2>3. \A u \in Tasks \ {r, t} : issued'[u] = issued[u]
        BY <1>23 DEF ScheduleBatch, TypeInv, Types
    <2>4. {r, t} \in SUBSET Tasks
        OBVIOUS
    <2> QED
        BY <1>23, <1>19, <2>2, <2>3, <2>4 DEF ScheduleBatch
<1>24. ASSUME UNCHANGED <<issued, finished, m_state, m_func, ft, func_fiber>>,
              \A x : x \in ListTasks \/ x \in armed => x \in ListTasks' \/ x \in armed',
              \A v \in Threads : \/ pc'[v] = pc[v]
                                 \/ pc[v] \in {"none", "exit"} /\ pc'[v] = "scan"
       PROVE  TaskInv'
    <2>1. /\ \A x : TaskOf(x)' = TaskOf(x) /\ Cur(x)' = Cur(x)
          /\ \A x : Kept(x) => Kept(x)'
          /\ \A x : Coming(x) => Coming(x)'
        BY <1>24 DEF TaskOf, Cur, Kept, Coming, Has, Runs, Counted
    <2>2. \A v \in Threads : pc'[v] \in Busy <=> pc[v] \in Busy
        BY <1>24 DEF Busy
    <2>3. FuncInv' /\ ExecInv'
        BY <1>24, <2>1, <2>2 DEF TaskInv, FuncInv, ExecInv
    <2>4. KeptInv'
        BY <1>24, <2>1, KeptFrame DEF TaskInv, Pending
    <2>5. EndInv'
        BY <1>24, <2>1 DEF TaskInv, EndInv, Live
    <2> QED
        BY <2>3, <2>4, <2>5 DEF TaskInv
<1>25. ASSUME NEW x \in FiberObjs, Wake(x) PROVE TaskInv'
    <2>1. Entry(x, AnyThread) \in Entries
        BY DEF Entry, Entries
    <2>2. ListTasks' = ListTasks \union {x}
        BY <1>25, <2>1, PushList DEF Wake, TypeInv, Types
    <2> QED
        BY <1>25, <1>24, <2>2 DEF Wake
<1>26. CASE Start
    <2>1. \A w \in Workers : pc[w] \in {"none", "exit"}
        BY <1>26 DEF Start, TypeInv, ControlInv
    <2> QED
        BY <1>26, <1>24, <2>1, SameList DEF Start
<1>27. CASE CallRoot
    <2>1. pc[Caller] = "none"
        BY <1>27 DEF CallRoot, TypeInv, ControlInv
    <2> QED
        BY <1>27, <1>24, <2>1, SameList DEF CallRoot, TypeInv, Types
<1>28. CASE StartIgnored \/ StopBegin \/ StopEarly \/ StopFlag \/ SkipRoot \/ CallDeadRoot
            \/ RootBack \/ SwapThreads \/ Join
    BY <1>28, <1>24, SameList DEF StartIgnored, StopBegin, StopEarly, StopFlag, SkipRoot,
        CallDeadRoot, RootBack, SwapThreads, Join
<1>29. CASE UNCHANGED vars
    BY <1>29, <1>24, SameList DEF vars
<1> QED
    BY <1>1, <1>2, <1>3, <1>4, <1>5, <1>6, <1>7, <1>8, <1>9, <1>10, <1>11,
       <1>12, <1>13, <1>14, <1>15, <1>16, <1>17, <1>18, <1>21, <1>22, <1>23,
       <1>25, <1>26, <1>27, <1>28, <1>29
    DEF Next, RunStep, BodyStep, CallerStep, StopStep

\* No accepted task is dropped by run(), by a wake-up, by switchTo(), by a
\* doubled batch or by stop(): it holds for all constants, also where fibers
\* are submitted twice and SwapInPre fails.
THEOREM NoTaskIsLost == Spec => []NoTaskLost
<1>1. TypeInv /\ TaskInv => NoTaskLost
    <2> SUFFICES ASSUME TypeInv, TaskInv, NEW t \in Tasks, Pending(t)
                 PROVE  Queued(t) \/ (\E w \in Runners : HeldBy(w, t)) \/ Armed(t)
        BY DEF NoTaskLost, Pending
    <2>1. PICK x \in FiberObjs \union Funcs : TaskOf(x) = t /\ Kept(x)
        BY DEF TaskInv, KeptInv
    <2>2. CASE x \in ListTasks
        BY <2>1, <2>2 DEF ListTasks, Queued
    <2>3. CASE x \in armed
        BY <2>1, <2>3 DEF Armed
    <2>4. CASE \E w \in Runners : Has(w, x)
        <3>1. PICK w \in Runners : Has(w, x)
            BY <2>4
        <3>2. pc[w] = "dispatch" => Cur(w) = ft[w]
            BY ThreadSets, TaskAssumption DEF TypeInv, LocalsInv, Locals, Cur
        <3> QED
            BY <2>1, <3>1, <3>2 DEF Has, HeldBy
    <2> QED
        BY <2>1, <2>2, <2>3, <2>4 DEF Kept
<1> QED
    BY <1>1, TypeInit, TypeStep, TaskInit, TaskStep, PTL DEF Spec

-----------------------------------------------------------------------------
(* The last runner.                                                        *)

\* If nobody submits for a particular thread, no entry is pinned.
LEMMA AnyStep ==
    ASSUME Unpinned, TypeInv, AnyInv, [Next]_vars
    PROVE  AnyInv'
<1> USE DEF queueVars, flagVars, fiberVars, runVars, taskVars
<1>0. m_fibers \in Seq(Entries) /\ DOMAIN m_fibers = 1 .. Len(m_fibers) /\ Len(m_fibers) \in Nat
    BY DEF TypeInv, Types
<1>1. ASSUME NEW x, Push(x, AnyThread) PROVE AnyInv'
    <2>0. CASE x = Nil
        BY <1>1, <2>0 DEF Push, AnyInv
    <2> SUFFICES ASSUME x # Nil PROVE AnyInv'
        BY <2>0
    <2>1. m_fibers' = Append(m_fibers, Entry(x, AnyThread))
        BY <1>1 DEF Push
    <2>2. /\ DOMAIN m_fibers' = 1 .. Len(m_fibers) + 1
          /\ \A i \in 1 .. Len(m_fibers) : m_fibers'[i] = m_fibers[i]
          /\ m_fibers'[Len(m_fibers) + 1] = Entry(x, AnyThread)
        BY <2>1, <1>0
    <2>3. Entry(x, AnyThread).thread = AnyThread
        BY DEF Entry
    <2> QED
        BY <1>0, <2>2, <2>3 DEF AnyInv
<1>2. ASSUME NEW w \in Runners, TakeTask(w) PROVE AnyInv'
    <2>1. PICK i \in DOMAIN m_fibers : m_fibers' = RemoveAt(m_fibers, i)
        BY <1>2 DEF TakeTask
    <2>2. \A j \in DOMAIN m_fibers' : \E k \in DOMAIN m_fibers : m_fibers'[j] = m_fibers[k]
        BY <1>0, <2>1, TakeAnyList
    <2> QED
        BY <2>2 DEF AnyInv
<1>3. ASSUME NEW r \in Tasks, NEW t \in Tasks, ScheduleBatch(r, t) PROVE AnyInv'
    <2> DEFINE two == <<Entry(r, AnyThread), Entry(t, AnyThread)>>
    <2>1. m_fibers' = m_fibers \o two
        BY <1>3 DEF ScheduleBatch
    <2>2. /\ DOMAIN m_fibers' = 1 .. Len(m_fibers) + 2
          /\ \A i \in 1 .. Len(m_fibers) : m_fibers'[i] = m_fibers[i]
          /\ m_fibers'[Len(m_fibers) + 1] = Entry(r, AnyThread)
          /\ m_fibers'[Len(m_fibers) + 2] = Entry(t, AnyThread)
        BY <2>1, <1>0
    <2>3. Entry(r, AnyThread).thread = AnyThread /\ Entry(t, AnyThread).thread = AnyThread
        BY DEF Entry
    <2> QED
        BY <1>0, <2>2, <2>3 DEF AnyInv
<1>4. ASSUME NEW w \in Runners, Requeue(w) PROVE AnyInv'
    BY <1>1, <1>4 DEF Requeue
<1>5. ASSUME NEW x \in FiberObjs, Wake(x) PROVE AnyInv'
    BY <1>1, <1>5 DEF Wake
<1>6. ASSUME NEW w \in Runners, NEW t \in Tasks, NEW thr \in SpawnPins, Spawn(w, t, thr)
      PROVE  AnyInv'
    BY <1>1, <1>6 DEF Spawn, Unpinned
<1>7. ASSUME NEW t \in Tasks, NEW thr \in Pins, Schedule(t, thr) PROVE AnyInv'
    BY <1>1, <1>7 DEF Schedule, Unpinned
<1>8. ASSUME UNCHANGED m_fibers PROVE AnyInv'
    BY <1>8 DEF AnyInv
<1>9. ASSUME NEW w \in Runners,
             ExitRun(w) \/ EnterIdle(w) \/ IdleCheck(w) \/ SwapInFiber(w) \/ SkipDeadFiber(w)
                \/ SwapInFunc(w) \/ Deactivate(w) \/ HoldTask(w) \/ DropFiber(w) \/ ResetFunc(w)
      PROVE  AnyInv'
    BY <1>8, <1>9 DEF ExitRun, EnterIdle, IdleCheck, SwapInFiber, SkipDeadFiber, SwapInFunc,
        Deactivate, HoldTask, DropFiber, ResetFunc
<1>10. ASSUME NEW w \in Runners,
              YieldToReady(w) \/ YieldToHold(w) \/ Suspend(w) \/ MainFunc(w) \/ SwapOut(w)
       PROVE  AnyInv'
    BY <1>8, <1>10 DEF YieldToReady, YieldToHold, Suspend, MainFunc, SwapOut
<1>11. CASE Start \/ StartIgnored \/ StopBegin \/ StopStep
    BY <1>8, <1>11 DEF Start, StartIgnored, StopBegin, StopStep, StopEarly, StopFlag, SkipRoot,
        CallRoot, CallDeadRoot, RootBack, SwapThreads, Join
<1>12. CASE UNCHANGED vars
    BY <1>8, <1>12 DEF vars
<1> QED
    BY <1>2, <1>3, <1>4, <1>5, <1>6, <1>7, <1>9, <1>10, <1>11, <1>12
    DEF Next, RunStep, BodyStep, CallerStep, Unpinned

\* A runner reaches its exit only by ExitRun.
LEMMA ExitOnly ==
    ASSUME TypeInv, [Next]_vars, NEW w \in Runners, pc[w] # "exit", pc'[w] = "exit"
    PROVE  ExitRun(w)
<1> USE ThreadSets
<1> USE DEF queueVars, flagVars, fiberVars, runVars, taskVars
<1>0. \A v \in Runners : \A p : pc' = [pc EXCEPT ![v] = p] => p = "exit" /\ v = w
    BY DEF TypeInv, Types
<1>1. ASSUME NEW v \in Runners,
             TakeTask(v) \/ EnterIdle(v) \/ IdleCheck(v) \/ SwapInFiber(v) \/ SkipDeadFiber(v)
                \/ SwapInFunc(v) \/ Deactivate(v) \/ Requeue(v) \/ HoldTask(v) \/ DropFiber(v)
                \/ ResetFunc(v)
      PROVE  FALSE
    BY <1>0, <1>1 DEF TakeTask, EnterIdle, IdleCheck, SwapInFiber, SkipDeadFiber, SwapInFunc,
        Deactivate, Requeue, HoldTask, DropFiber, ResetFunc
<1>2. ASSUME NEW v \in Runners,
             YieldToReady(v) \/ YieldToHold(v) \/ Suspend(v) \/ MainFunc(v) \/ SwapOut(v)
                \/ \E thr \in SwitchTargets : SwitchTo(v, thr)
      PROVE  FALSE
    BY <1>0, <1>2 DEF YieldToReady, YieldToHold, Suspend, MainFunc, SwapOut, SwitchTo
<1>3. ASSUME NEW v \in Runners, ExitRun(v) PROVE v = w
    BY <1>0, <1>3 DEF ExitRun
<1>4. ~Start /\ ~CallRoot
    BY DEF Start, CallRoot, TypeInv, Types
<1>5. pc' # pc
    OBVIOUS
<1>6. ~UNCHANGED vars /\ ~StartIgnored /\ ~StopBegin
    BY <1>5 DEF vars, StartIgnored, StopBegin
<1>7. ~(StopEarly \/ StopFlag \/ SkipRoot \/ CallDeadRoot \/ RootBack \/ SwapThreads \/ Join)
    BY <1>5 DEF StopEarly, StopFlag, SkipRoot, CallDeadRoot, RootBack, SwapThreads, Join
<1>8. \A x, t, thr : ~Wake(x) /\ ~Schedule(t, thr) /\ ~ScheduleBatch(x, t)
    BY <1>5 DEF Wake, Schedule, ScheduleBatch
<1>9. \A v, t, thr : ~Spawn(v, t, thr)
    BY <1>5 DEF Spawn
<1> QED
    BY <1>1, <1>2, <1>3, <1>4, <1>6, <1>7, <1>8, <1>9
    DEF Next, RunStep, BodyStep, CallerStep, StopStep

\* What a runner that found nothing to take says about the list: it is empty,
\* or a fiber in it is still being let go of by another runner.
LEMMA NothingLeft ==
    ASSUME TypeInv, ExecInv, AnyInv, NEW w \in Runners, NothingToTake(w), pc[w] \notin Busy,
           m_fibers # <<>>
    PROVE  \E v \in Runners : v # w /\ pc[v] \in Busy
<1>1. m_fibers \in Seq(Entries) /\ Len(m_fibers) \in Nat
    BY DEF TypeInv, Types
<1>2. 1 \in DOMAIN m_fibers
    BY <1>1
<1>3. m_fibers[1].task \in FiberObjs /\ m_state[m_fibers[1].task] = "EXEC"
    BY <1>2 DEF NothingToTake, Takable, AnyInv
<1> QED
    BY <1>3 DEF ExecInv

\* If no task is submitted for a particular thread, the last runner to leave
\* run() leaves an empty list: a fiber still in the window between
\* `--m_activeThreadCount` and schedule() keeps its runner in run().
THEOREM LastRunnerDrains ==
    ASSUME Unpinned
    PROVE  Spec => LastExitDrains
<1> DEFINE A == (\E w \in Runners : pc[w] # "exit" /\ pc'[w] = "exit")
                 => \/ m_fibers = <<>>
                    \/ \E v \in Runners : pc'[v] \notin {"none", "exit"}
<1>1. ASSUME TypeInv, TaskInv, AnyInv, [Next]_vars PROVE A
    <2> SUFFICES ASSUME NEW w \in Runners, pc[w] # "exit", pc'[w] = "exit", m_fibers # <<>>
                 PROVE  \E v \in Runners : pc'[v] \notin {"none", "exit"}
        OBVIOUS
    <2>1. ExitRun(w)
        BY <1>1, ExitOnly
    <2>2. PICK v \in Runners : v # w /\ pc[v] \in Busy
        BY <1>1, <2>1, NothingLeft DEF ExitRun, TaskInv, Busy
    <2>3. pc'[v] = pc[v]
        BY <1>1, <2>1, <2>2, ThreadSets DEF ExitRun, TypeInv, Types
    <2> QED
        BY <2>2, <2>3 DEF Busy
<1>2. Init => AnyInv
    BY DEF Init, AnyInv
<1>3. TypeInv /\ TaskInv /\ [Next]_vars => TypeInv' /\ TaskInv'
    BY TypeStep, TaskStep
<1>4. TypeInv /\ AnyInv /\ [Next]_vars => AnyInv'
    BY AnyStep
<1>5. TypeInv /\ TaskInv /\ AnyInv /\ [Next]_vars => [A]_vars
    BY <1>1
<1> QED
    BY <1>2, <1>3, <1>4, <1>5, TypeInit, TaskInit, PTL DEF Spec, LastExitDrains

-----------------------------------------------------------------------------
(* No task is run twice.                                                   *)

\* In a step of w, x was kept before if it is so afterwards, unless the list,
\* the event sources or w got it in this step.
LEMMA KeptBack ==
    ASSUME NEW w \in Runners, RunnerFrame(w), Types, NEW x,
           x \in ListTasks' \/ x \in armed' \/ Has(w, x)' => Kept(x)
    PROVE  Kept(x)' => Kept(x)
<1>1. \A v \in Runners : v # w => Has(v, x)' = Has(v, x)
    BY OthersStay, ThreadSets
<1> QED
    BY <1>1 DEF Kept

\* Nothing has been submitted at the start.
LEMMA OnceInit == Init => OnceInv
<1> SUFFICES ASSUME Init PROVE OnceInv
    OBVIOUS
<1>1. ListTasks = {} /\ finished = {} /\ armed = {}
    BY DEF Init, ListTasks
<1>2. FuncOnce
    BY <1>1, TaskAssumption DEF Init, FuncOnce
<1>3. \A x : ~Kept(x)
    BY <1>1, ThreadSets DEF Init, Kept, Has, Counted
<1>4. InsideInv /\ DoneInv
    BY <1>1, <1>3 DEF Init, InsideInv, DoneInv
<1> QED
    BY <1>2, <1>4 DEF OnceInv

\* Without a second submission of a fiber no step duplicates a task.
LEMMA OnceStep ==
    ASSUME SingleSubmission, FullInv, OnceInv, [Next]_vars
    PROVE  OnceInv'
<1> USE TaskAssumption, ThreadSets
<1> USE DEF queueVars, flagVars, fiberVars, runVars, taskVars
<1>0. TypeInv /\ Types
    BY DEF FullInv, TypeInv
\* Most steps move Fiber objects only.
<1>1. ASSUME UNCHANGED <<m_func, issued, finished>>,
             \A f \in Funcs : f \in ListTasks' => f \in ListTasks,
             \A v \in Threads : ft'[v] = ft[v] \/ ft'[v] \notin Funcs,
             \A x \in Pool : Kept(x)' => Kept(x),
             \A x \in FiberObjs : /\ m_state[x] \in Finished => m_state'[x] \in Finished
                                  /\ x \in armed' => m_state'[x] \notin Finished
      PROVE  OnceInv'
    <2>1. FuncOnce'
        BY <1>1 DEF OnceInv, FuncOnce
    <2>2. InsideInv'
        BY <1>1 DEF OnceInv, InsideInv
    <2>3. DoneInv'
        BY <1>1 DEF OnceInv, DoneInv, TaskOf
    <2> QED
        BY <2>1, <2>2, <2>3 DEF OnceInv
<1>2. ASSUME NEW w \in Runners,
             ExitRun(w) \/ EnterIdle(w) \/ IdleCheck(w) \/ SkipDeadFiber(w) \/ DropFiber(w)
                \/ Deactivate(w) \/ SwapOut(w)
      PROVE  OnceInv'
    <2>1. RunnerFrame(w)
        BY <1>0, <1>2, RunnerMoves DEF MoveStep, RunStep
    <2>2. /\ UNCHANGED <<m_fibers, armed, m_state, m_func, issued, finished>>
          /\ ft'[w] = ft[w] \/ ft'[w] = Nil
          /\ pc'[w] \in {"exit", "idle", "scan"} \/ (pc[w] \in Stopped /\ Cur(w)' = Cur(w))
        <3>1. CASE ExitRun(w) \/ EnterIdle(w) \/ IdleCheck(w)
            BY <1>0, <3>1 DEF ExitRun, EnterIdle, IdleCheck, Types
        <3>2. CASE SkipDeadFiber(w) \/ DropFiber(w)
            BY <1>0, <3>2 DEF SkipDeadFiber, DropFiber, Types
        <3>3. CASE Deactivate(w) \/ SwapOut(w)
            BY <1>0, <3>3 DEF Deactivate, SwapOut, Types, Stopped, Cur
        <3> QED
            BY <1>2, <3>1, <3>2, <3>3
    <2>3. ListTasks' = ListTasks
        BY <2>2, SameList
    <2>4. \A x \in Pool : Kept(x)' => Kept(x)
        <3> SUFFICES ASSUME NEW x \in Pool PROVE Kept(x)' => Kept(x)
            OBVIOUS
        <3>1. Has(w, x)' => Has(w, x)
            BY <2>2 DEF Has, Counted, Stopped
        <3> QED
            BY <1>0, <2>1, <2>2, <2>3, <3>1, KeptBack DEF Kept
    <2>5. \A v \in Threads : ft'[v] = ft[v] \/ ft'[v] \notin Funcs
        BY <1>0, <2>1, <2>2, OthersStay
    <2>6. \A x \in FiberObjs : x \in armed => m_state[x] \notin Finished
        BY DEF OnceInv, DoneInv
    <2> QED
        BY <1>1, <2>2, <2>3, <2>4, <2>5, <2>6
<1>3. ASSUME NEW w \in Runners,
             SwapInFiber(w) \/ Requeue(w) \/ HoldTask(w) \/ YieldToReady(w) \/ YieldToHold(w)
                \/ Suspend(w)
      PROVE  OnceInv'
    <2>1. RunnerFrame(w)
        BY <1>0, <1>3, RunnerMoves DEF MoveStep, RunStep
    <2>2. PICK c : c = Cur(w) /\ c \in FiberObjs
        BY <1>0, <1>3 DEF SwapInFiber, Requeue, HoldTask, YieldToReady, YieldToHold, Suspend,
            TypeInv, LocalsInv, Locals, Busy, Cur
    <2>3. /\ UNCHANGED <<m_func, issued, finished>>
          /\ ft'[w] = ft[w] \/ ft'[w] = Nil
          /\ pc'[w] = "scan" \/ Cur(w)' = c
          /\ pc[w] \in Counted \union {"post"}
        BY <1>0, <1>3, <2>2 DEF SwapInFiber, Requeue, HoldTask, YieldToReady, YieldToHold,
            Suspend, Types, Cur, Counted, Release
    <2>4. ListTasks' = ListTasks \/ ListTasks' = ListTasks \union {c}
        <3>1. CASE UNCHANGED m_fibers
            BY <3>1, SameList
        <3>2. CASE Requeue(w)
            <4>1. Entry(c, AnyThread) \in Entries
                BY <2>2 DEF Entry, Entries
            <4> QED
                BY <1>0, <2>2, <3>2, <4>1, PushList DEF Requeue, Types
        <3> QED
            BY <1>3, <3>1, <3>2 DEF SwapInFiber, HoldTask, YieldToReady, YieldToHold, Suspend
    <2>5. armed' = armed \/ (armed' = armed \union {c} /\ m_state'[c] = "EXEC")
        <3>1. ASSUME Suspend(w) PROVE m_state[c] = "EXEC"
            BY <2>2, <3>1 DEF Suspend, FullInv, OwnInv, StateInv
        <3>2. CASE Suspend(w)
            BY <2>2, <3>1, <3>2 DEF Suspend
        <3> QED
            BY <1>3, <3>2 DEF SwapInFiber, Requeue, HoldTask, YieldToReady, YieldToHold
    <2>6. /\ \A x \in FiberObjs : x # c => m_state'[x] = m_state[x]
          /\ m_state'[c] = m_state[c] \/ m_state'[c] \notin Finished
          /\ m_state[c] \notin Finished
        <3>1. m_state[c] = "EXEC" \/ SwapInFiber(w) \/ Requeue(w) \/ HoldTask(w)
            BY <1>3, <2>2 DEF YieldToReady, YieldToHold, Suspend, FullInv, OwnInv, StateInv
        <3>2. m_state[c] \notin Finished
            BY <2>2, <3>1 DEF SwapInFiber, Requeue, HoldTask, Finished, Yielded, Cur
        <3>3. CASE UNCHANGED m_state
            BY <3>2, <3>3
        <3>4. CASE \E q \in {"EXEC", "HOLD", "READY"} : m_state' = [m_state EXCEPT ![c] = q]
            BY <1>0, <2>2, <3>2, <3>4 DEF Types, Finished
        <3> QED
            BY <1>3, <2>2, <3>3, <3>4 DEF SwapInFiber, Requeue, HoldTask, YieldToReady,
                YieldToHold, Suspend, Cur
    <2>7. \A x \in Pool : Kept(x)' => Kept(x)
        <3> SUFFICES ASSUME NEW x \in Pool PROVE Kept(x)' => Kept(x)
            OBVIOUS
        <3>1. Has(w, c)
            BY <2>2, <2>3 DEF Has
        <3>2. Has(w, x)' => x = c
            BY <2>3 DEF Has, Counted
        <3> QED
            BY <1>0, <2>1, <2>4, <2>5, <3>1, <3>2, KeptBack DEF Kept
    <2>8. \A v \in Threads : ft'[v] = ft[v] \/ ft'[v] \notin Funcs
        BY <1>0, <2>1, <2>3, OthersStay
    <2>9. \A f \in Funcs : f \in ListTasks' => f \in ListTasks
        BY <2>2, <2>4
    <2>10. \A x \in FiberObjs : x \in armed' => m_state'[x] \notin Finished
        BY <2>5, <2>6 DEF OnceInv, DoneInv, Finished
    <2> QED
        BY <1>1, <2>3, <2>6, <2>7, <2>8, <2>9, <2>10
<1>4. ASSUME NEW w \in Runners, TakeTask(w) PROVE OnceInv'
    <2>1. RunnerFrame(w)
        BY <1>0, <1>4, RunnerMoves DEF MoveStep, RunStep
    <2>2. PICK i \in DOMAIN m_fibers :
            /\ ft' = [ft EXCEPT ![w] = m_fibers[i].task]
            /\ m_fibers' = RemoveAt(m_fibers, i)
        BY <1>4 DEF TakeTask
    <2>3. PICK c : c = m_fibers[i].task
        OBVIOUS
    <2>4. ListTasks' = ListTasks \ {c} /\ c \in ListTasks
        BY <1>0, <2>2, <2>3, TakeList DEF FullInv, OwnInv, ListInv, Types
    <2>5. /\ UNCHANGED <<armed, m_state, m_func, issued, finished, func_fiber>>
          /\ ft'[w] = c /\ \A v \in Threads : v # w => ft'[v] = ft[v]
        BY <1>0, <1>4, <2>2, <2>3 DEF TakeTask, Types
    <2>6. FuncOnce'
        BY <2>4, <2>5 DEF OnceInv, FuncOnce
    <2>7. \A x \in Pool : Kept(x)' => Kept(x)
        <3> SUFFICES ASSUME NEW x \in Pool PROVE Kept(x)' => Kept(x)
            OBVIOUS
        <3>1. Has(w, x)' => x = c \/ x = Nil \/ ft'[w] = Nil
            BY <2>5 DEF Has, Cur
        <3>2. c # Nil
            <4>1. m_fibers \in Seq(Entries) /\ i \in 1 .. Len(m_fibers)
                BY <1>0 DEF Types
            <4>2. m_fibers[i] \in Entries
                BY <4>1
            <4> QED
                BY <2>3, <4>2 DEF Entries
        <3>3. x # Nil
            BY DEF FiberObjs
        <3> QED
            BY <1>0, <2>1, <2>4, <2>5, <3>1, <3>2, <3>3, KeptBack DEF Kept
    <2>8. InsideInv' /\ DoneInv'
        BY <2>5, <2>7 DEF OnceInv, InsideInv, DoneInv, TaskOf
    <2> QED
        BY <2>6, <2>8 DEF OnceInv
<1>5. ASSUME NEW w \in Runners, SwapInFunc(w) PROVE OnceInv'
    <2>1. RunnerFrame(w)
        BY <1>0, <1>5, RunnerMoves DEF MoveStep, RunStep
    <2>2. PICK p \in Pool :
            /\ func_fiber' = [func_fiber EXCEPT ![w] = p]
            /\ m_func' = [m_func EXCEPT ![p] = ft[w]]
            /\ m_state' = [m_state EXCEPT ![p] = "EXEC"]
        BY <1>5 DEF SwapInFunc
    <2>3. PICK g \in Funcs : g = ft[w]
        BY <1>5 DEF SwapInFunc
    <2>4. /\ UNCHANGED <<m_fibers, armed, issued, finished>>
          /\ ft'[w] = Nil /\ \A v \in Threads : v # w => ft'[v] = ft[v]
          /\ Cur(w)' = p
          /\ m_func'[p] = g /\ \A x \in Pool : x # p => m_func'[x] = m_func[x]
          /\ m_state'[p] = "EXEC" /\ \A x \in FiberObjs : x # p => m_state'[x] = m_state[x]
        BY <1>0, <1>5, <2>2, <2>3 DEF SwapInFunc, Types, Cur, FiberObjs
    <2>5. ListTasks' = ListTasks
        BY <2>4, SameList
    <2>6. /\ g \notin ListTasks /\ g \notin finished /\ g # Nil
          /\ \A x \in Pool : m_func[x] # g
          /\ \A v \in Threads : v # w => ft[v] # g
        BY <2>3 DEF OnceInv, FuncOnce
    <2>7. issued[g] # Nil
        <3>1. Refers(w, g) /\ g \notin Pool
            BY <2>3 DEF Refers, FiberObjs
        <3> QED
            BY <3>1 DEF FullInv, OwnInv, FreshInv
    <2>8. FuncOnce'
        <3>1. \A x, y \in Pool : m_func'[x] # Nil /\ m_func'[x] = m_func'[y] => x = y
            BY <2>4, <2>6 DEF OnceInv, FuncOnce
        <3>2. ASSUME NEW f \in Funcs
              PROVE  /\ f \in ListTasks' => \A v \in Threads : ft'[v] # f
                     /\ \A u, v \in Threads : ft'[u] = f /\ ft'[v] = f => u = v
                     /\ (f \in ListTasks' \/ \E v \in Threads : ft'[v] = f) =>
                            f \notin finished' /\ \A x \in Pool : m_func'[x] # f
            <4>1. CASE f = g
                BY <4>1, <2>4, <2>5, <2>6
            <4>2. CASE f # g
                <5>1. \A v \in Threads : ft'[v] = f => ft[v] = f
                    BY <2>4
                <5>2. \A x \in Pool : m_func'[x] = f => m_func[x] = f
                    BY <4>2, <2>4
                <5> QED
                    BY <2>4, <2>5, <5>1, <5>2 DEF OnceInv, FuncOnce
            <4> QED
                BY <4>1, <4>2
        <3> QED
            BY <3>1, <3>2 DEF FuncOnce
    <2>9. \A x \in Pool : x # p /\ Kept(x)' => Kept(x)
        <3> SUFFICES ASSUME NEW x \in Pool, x # p PROVE Kept(x)' => Kept(x)
            OBVIOUS
        <3>1. ~Has(w, x)'
            BY <2>4 DEF Has
        <3> QED
            BY <1>0, <2>1, <2>4, <2>5, <3>1, KeptBack DEF Kept
    <2>10. InsideInv'
        BY <2>4, <2>6, <2>7, <2>9 DEF OnceInv, InsideInv
    <2>11. DoneInv'
        <3>1. \A x \in FiberObjs : x # p => TaskOf(x)' = TaskOf(x)
            BY <2>4 DEF TaskOf
        <3>2. TaskOf(p)' = g
            BY <2>4 DEF TaskOf
        <3> QED
            BY <2>4, <2>6, <3>1, <3>2 DEF OnceInv, DoneInv, Finished
    <2> QED
        BY <2>8, <2>10, <2>11 DEF OnceInv
<1>6. ASSUME NEW w \in Runners, ResetFunc(w) PROVE OnceInv'
    <2>1. RunnerFrame(w)
        BY <1>0, <1>6, RunnerMoves DEF MoveStep, RunStep
    <2>2. PICK p \in Pool : p = func_fiber[w] /\ Cur(w) = p
        BY <1>0, <1>6 DEF ResetFunc, TypeInv, Types, LocalsInv, Locals, Busy, Cur, FiberObjs
    <2>3. /\ UNCHANGED <<m_fibers, armed, issued, finished, ft, func_fiber>>
          /\ m_func'[p] = Nil /\ \A x \in Pool : x # p => m_func'[x] = m_func[x]
          /\ m_state[p] \in Finished /\ pc'[w] = "scan"
          /\ m_state'[p] = "INIT" /\ \A x \in FiberObjs : x # p => m_state'[x] = m_state[x]
        BY <1>0, <1>6, <2>2 DEF ResetFunc, Types, FiberObjs
    <2>4. ListTasks' = ListTasks
        BY <2>3, SameList
    <2>5. Refers(w, p) /\ p \in FiberObjs
        BY <2>2 DEF Refers, FiberObjs
    <2>6. ~Kept(p)'
        <3>1. p \notin ListTasks /\ p \notin armed
            BY <2>3, <2>5 DEF FullInv, OwnInv, ListInv, Leaving, Finished
        <3>2. \A v \in Runners : ~Has(v, p)'
            <4> SUFFICES ASSUME NEW v \in Runners, v # w, Has(v, p)' PROVE FALSE
                BY <2>3 DEF Has, Counted
            <4>1. Refers(v, p)
                BY <2>3, <2>5 DEF Has, Cur, Refers
            <4> QED
                BY <4>1, <2>5 DEF FullInv, OwnInv, OwnerInv
        <3> QED
            BY <2>3, <2>4, <3>1, <3>2 DEF Kept
    <2>7. \A x \in Pool : x # p /\ Kept(x)' => Kept(x)
        <3> SUFFICES ASSUME NEW x \in Pool, x # p PROVE Kept(x)' => Kept(x)
            OBVIOUS
        <3>1. ~Has(w, x)'
            BY <2>3 DEF Has, Counted
        <3> QED
            BY <1>0, <2>1, <2>3, <2>4, <3>1, KeptBack DEF Kept
    <2>8. FuncOnce'
        BY <2>3, <2>4 DEF OnceInv, FuncOnce
    <2>9. InsideInv'
        BY <2>3, <2>6, <2>7 DEF OnceInv, InsideInv
    <2>10. DoneInv'
        <3>1. Nil \notin finished
            BY DEF OnceInv, InsideInv, Tasks, FiberObjs
        <3>2. \A x \in FiberObjs : x # p => TaskOf(x)' = TaskOf(x)
            BY <2>3 DEF TaskOf
        <3>3. TaskOf(p)' = Nil
            BY <2>3 DEF TaskOf
        <3> QED
            BY <2>3, <3>1, <3>2, <3>3 DEF OnceInv, DoneInv, Finished
    <2> QED
        BY <2>8, <2>9, <2>10 DEF OnceInv
<1>7. ASSUME NEW w \in Runners, MainFunc(w) PROVE OnceInv'
    <2>1. RunnerFrame(w)
        BY <1>0, <1>7, RunnerMoves DEF MoveStep
    <2>2. PICK c \in FiberObjs : c = Cur(w)
        BY <1>0, <1>7 DEF MainFunc, TypeInv, LocalsInv, Locals, Busy
    <2>3. PICK t : t = TaskOf(c)
        OBVIOUS
    <2>4. /\ UNCHANGED <<m_fibers, armed, m_func, issued, ft, func_fiber>>
          /\ finished' = finished \union {t} /\ Cur(w)' = c
          /\ pc[w] = "user" /\ pc'[w] = "leaving"
        BY <1>0, <1>7, <2>2, <2>3 DEF MainFunc, Types, Cur
    <2>5. m_state'[c] \in Finished /\ \A x \in FiberObjs : x # c => m_state'[x] = m_state[x]
        BY <1>0, <1>7, <2>2 DEF MainFunc, Types, Finished
    <2>6. ListTasks' = ListTasks /\ \A x : TaskOf(x)' = TaskOf(x)
        BY <2>4, SameList DEF TaskOf
    <2>7. Refers(w, c) /\ Has(w, c) /\ Kept(c)
        BY <2>2, <2>4 DEF Refers, Has, Cur, Counted, Kept
    <2>8. c \notin armed
        BY <2>4, <2>7 DEF FullInv, OwnInv, ListInv, Leaving, Stopped
    <2>9. /\ t \in Tasks /\ issued[t] # Nil
          /\ \A x \in FiberObjs : TaskOf(x) = t => x = c
          /\ t \in Funcs => c \in Pool /\ m_func[c] = t
        <3>1. CASE c \in Pool
            <4>1. t = m_func[c] /\ t # Nil
                BY <2>3, <2>7, <3>1 DEF TaskOf, OnceInv, InsideInv
            <4>2. t \in Funcs /\ issued[t] # Nil
                BY <1>0, <3>1, <4>1 DEF Types, OnceInv, InsideInv
            <4> QED
                BY <3>1, <4>1, <4>2 DEF OnceInv, FuncOnce, TaskOf, Tasks, FiberObjs
        <3>2. CASE c \notin Pool
            <4>1. t = c /\ c \in Fibers
                BY <2>3, <3>2 DEF TaskOf, FiberObjs
            <4>2. issued[t] # Nil
                BY <2>7, <3>2, <4>1 DEF FullInv, OwnInv, FreshInv
            <4>3. \A x \in Pool : m_func[x] # t
                BY <1>0, <4>1 DEF Types, FiberObjs
            <4> QED
                BY <4>1, <4>2, <4>3 DEF TaskOf, Tasks, FiberObjs
        <3> QED
            BY <3>1, <3>2
    <2>10. FuncOnce'
        BY <2>4, <2>6, <2>9 DEF OnceInv, FuncOnce
    <2>11. \A x \in Pool : Kept(x)' => Kept(x)
        <3> SUFFICES ASSUME NEW x \in Pool PROVE Kept(x)' => Kept(x)
            OBVIOUS
        <3>1. Has(w, x)' => x = c
            BY <2>4 DEF Has
        <3> QED
            BY <1>0, <2>1, <2>4, <2>6, <2>7, <3>1, KeptBack DEF Kept
    <2>12. InsideInv'
        BY <2>4, <2>9, <2>11 DEF OnceInv, InsideInv
    <2>13. DoneInv'
        BY <2>4, <2>5, <2>6, <2>8, <2>9 DEF OnceInv, DoneInv
    <2> QED
        BY <2>10, <2>12, <2>13 DEF OnceInv
<1>8. ASSUME NEW T \in SUBSET Tasks, \A t \in T : issued[t] = Nil /\ issued'[t] # Nil,
             ListTasks' = ListTasks \union T,
             \A t \in Tasks \ T : issued'[t] = issued[t],
             UNCHANGED <<armed, m_state, m_func, finished, pc, ft, func_fiber>>
      PROVE  OnceInv'
    <2>1. \A t \in T : t \in FiberObjs \union Funcs /\ t \notin Pool
        BY <1>8 DEF Tasks, FiberObjs
    <2>2. \A t \in T : /\ t \notin ListTasks /\ \A v \in Threads : ft[v] # t
                       /\ t \notin finished /\ \A x \in Pool : m_func[x] # t
        <3> SUFFICES ASSUME NEW t \in T
                     PROVE  /\ t \notin ListTasks /\ \A v \in Threads : ft[v] # t
                            /\ t \notin finished /\ \A x \in Pool : m_func[x] # t
            OBVIOUS
        <3>1. t \notin ListTasks /\ \A v \in Threads : ~Refers(v, t)
            BY <1>8, <2>1 DEF FullInv, OwnInv, FreshInv
        <3>2. t # Nil
            BY <2>1
        <3> QED
            BY <1>8, <3>1, <3>2 DEF Refers, OnceInv, InsideInv
    <2>3. FuncOnce'
        BY <1>8, <2>2 DEF OnceInv, FuncOnce
    <2>4. \A x \in Pool : Kept(x)' => Kept(x)
        BY <1>8, <2>1 DEF Kept, Has, Cur
    <2>5. InsideInv'
        <3>1. \A t \in Tasks : issued[t] # Nil => issued'[t] # Nil
            BY <1>8
        <3>2. \A x \in Pool : m_func[x] # Nil => m_func[x] \in Tasks
            BY <1>0 DEF Types, Tasks
        <3> QED
            BY <1>8, <2>4, <3>1, <3>2 DEF OnceInv, InsideInv
    <2>6. DoneInv'
        BY <1>8 DEF OnceInv, DoneInv, TaskOf
    <2> QED
        BY <2>3, <2>5, <2>6 DEF OnceInv
<1>9. ASSUME NEW t \in Tasks, NEW thr \in Threads \union {AnyThread}, Push(t, thr),
             issued[t] = Nil, issued' = [issued EXCEPT ![t] = thr],
             UNCHANGED <<armed, m_state, m_func, finished, pc, ft, func_fiber>>
      PROVE  OnceInv'
    <2>1. Entry(t, thr) \in Entries
        BY DEF Entry, Entries, Tasks, FiberObjs
    <2>2. ListTasks' = ListTasks \union {t}
        BY <1>0, <1>9, <2>1, PushList DEF Types
    <2>3. issued'[t] # Nil /\ \A r \in Tasks \ {t} : issued'[r] = issued[r]
        BY <1>0, <1>9, ThreadAssumption DEF Types
    <2>4. {t} \in SUBSET Tasks
        OBVIOUS
    <2> QED
        BY <1>8, <1>9, <2>2, <2>3, <2>4
<1>10. ASSUME NEW w \in Runners, NEW t \in Tasks, NEW thr \in SpawnPins, Spawn(w, t, thr)
       PROVE  OnceInv'
    BY <1>9, <1>10, BoundAssumption DEF Spawn
<1>11. ASSUME NEW t \in Tasks, NEW thr \in Pins, Schedule(t, thr) PROVE OnceInv'
    BY <1>9, <1>11, BoundAssumption DEF Schedule
<1>12. ASSUME NEW r \in Tasks, NEW t \in Tasks, ScheduleBatch(r, t) PROVE OnceInv'
    <2>1. Entry(r, AnyThread) \in Entries /\ Entry(t, AnyThread) \in Entries
        BY DEF Entry, Entries, Tasks, FiberObjs
    <2>2. ListTasks' = ListTasks \union {r, t}
        BY <1>0, <1>12, <2>1, BatchList DEF ScheduleBatch, Types
    <2>3. /\ issued[r] = Nil /\ issued[t] = Nil /\ issued'[r] # Nil /\ issued'[t] # Nil
          /\ \A u \in Tasks \ {r, t} : issued'[u] = issued[u]
        BY <1>0, <1>12, ThreadAssumption DEF ScheduleBatch, Types
    <2>4. {r, t} \in SUBSET Tasks
        OBVIOUS
    <2>5. \A u \in {r, t} : issued[u] = Nil /\ issued'[u] # Nil
        BY <2>3
    <2> QED
        BY <1>8, <1>12, <2>2, <2>3, <2>4, <2>5 DEF ScheduleBatch
<1>13. ASSUME NEW x \in FiberObjs, Wake(x) PROVE OnceInv'
    <2>1. Entry(x, AnyThread) \in Entries
        BY DEF Entry, Entries
    <2>2. ListTasks' = ListTasks \union {x}
        BY <1>0, <1>13, <2>1, PushList DEF Wake, Types
    <2>3. /\ x \in armed /\ armed' = armed \ {x}
          /\ UNCHANGED <<m_state, m_func, issued, finished, pc, ft, func_fiber>>
        BY <1>13 DEF Wake
    <2>4. \A y \in Pool : Kept(y)' => Kept(y)
        BY <2>2, <2>3 DEF Kept, Has, Cur
    <2>5. \A y \in FiberObjs : y \in armed' => m_state[y] \notin Finished
        BY <2>3 DEF OnceInv, DoneInv
    <2> QED
        BY <1>1, <2>2, <2>3, <2>4, <2>5
<1>14. ASSUME UNCHANGED <<m_fibers, armed, issued, finished, m_state, m_func, ft, func_fiber>>,
              \A v \in Threads : \/ pc'[v] = pc[v]
                                 \/ pc[v] \in {"none", "exit"} /\ pc'[v] = "scan"
       PROVE  OnceInv'
    <2>1. ListTasks' = ListTasks
        BY <1>14, SameList
    <2>2. \A y \in Pool : Kept(y)' => Kept(y)
        BY <1>14, <2>1 DEF Kept, Has, Cur, Counted
    <2>3. \A y \in FiberObjs : y \in armed => m_state[y] \notin Finished
        BY DEF OnceInv, DoneInv
    <2> QED
        BY <1>1, <1>14, <2>1, <2>2, <2>3
<1>15. CASE Start
    <2>1. \A w \in Workers : pc[w] \in {"none", "exit"}
        BY <1>0, <1>15 DEF Start, TypeInv, ControlInv
    <2> QED
        BY <1>14, <1>15, <2>1 DEF Start
<1>16. CASE CallRoot
    <2>1. pc[Caller] = "none"
        BY <1>0, <1>16 DEF CallRoot, TypeInv, ControlInv
    <2> QED
        BY <1>0, <1>14, <1>16, <2>1 DEF CallRoot, Types
<1>17. CASE StartIgnored \/ StopBegin \/ StopEarly \/ StopFlag \/ SkipRoot \/ CallDeadRoot
            \/ RootBack \/ SwapThreads \/ Join
    BY <1>14, <1>17 DEF StartIgnored, StopBegin, StopEarly, StopFlag, SkipRoot, CallDeadRoot,
                        RootBack, SwapThreads, Join
<1>18. CASE UNCHANGED vars
    BY <1>14, <1>18 DEF vars
<1> QED
    BY <1>2, <1>3, <1>4, <1>5, <1>6, <1>7, <1>10, <1>11, <1>12, <1>13, <1>15, <1>16, <1>17, <1>18
    DEF Next, RunStep, BodyStep, CallerStep, StopStep, SingleSubmission

\* Under single submission two kept objects that stand for one task are one.
LEMMA OneObject ==
    ASSUME FullInv, OnceInv, NEW w \in Runners, pc[w] \in {"user", "hold"},
           NEW x \in FiberObjs \union Funcs, TaskOf(x) = TaskOf(Cur(w)),
           x \in Funcs => x \in ListTasks \/ \E v \in Threads : ft[v] = x
    PROVE  x = Cur(w)
<1> USE TaskAssumption, ThreadSets
<1>1. Cur(w) \in FiberObjs /\ Kept(Cur(w))
    BY DEF FullInv, TypeInv, LocalsInv, Locals, Busy, Kept, Has, Counted
<1>2. CASE Cur(w) \in Pool
    <2>1. TaskOf(x) = m_func[Cur(w)] /\ m_func[Cur(w)] \in Funcs
        BY <1>1, <1>2 DEF TaskOf, OnceInv, InsideInv, FullInv, TypeInv, Types
    <2>2. CASE x \in Pool
        BY <1>2, <2>1, <2>2 DEF TaskOf, OnceInv, FuncOnce
    <2>3. CASE x \notin Pool
        <3>1. x = m_func[Cur(w)] /\ x \in Funcs
            BY <2>1, <2>3 DEF TaskOf
        <3> QED
            BY <1>2, <3>1 DEF OnceInv, FuncOnce
    <2> QED
        BY <2>2, <2>3
<1>3. CASE Cur(w) \notin Pool
    <2>1. TaskOf(x) = Cur(w) /\ Cur(w) \in Fibers
        BY <1>1, <1>3 DEF TaskOf, FiberObjs
    <2>2. x \notin Pool
        BY <2>1 DEF TaskOf, FullInv, TypeInv, Types, FiberObjs
    <2> QED
        BY <2>1, <2>2 DEF TaskOf
<1> QED
    BY <1>2, <1>3

\* Without a second submission of a fiber, a body is executed by one thread
\* at a time and never after it ended.
THEOREM RunsOnce ==
    ASSUME SingleSubmission
    PROVE  Spec => []RunOnce
<1>1. ASSUME FullInv, OnceInv PROVE RunOnce
    <2> USE TaskAssumption, ThreadSets
    <2> SUFFICES ASSUME NEW w \in Runners, pc[w] \in {"user", "hold"}
                 PROVE  /\ TaskOf(Cur(w)) \notin finished
                        /\ \A v \in Runners : HeldBy(v, TaskOf(Cur(w))) => v = w
        BY DEF RunOnce
    <2>1. Cur(w) \in FiberObjs /\ Refers(w, Cur(w)) /\ m_state[Cur(w)] = "EXEC"
        BY <1>1 DEF FullInv, OwnInv, TypeInv, LocalsInv, Locals, StateInv, Busy, Refers, Cur
    <2>2. TaskOf(Cur(w)) \notin finished
        BY <1>1, <2>1 DEF OnceInv, DoneInv, Finished
    <2>3. ASSUME NEW v \in Runners, HeldBy(v, TaskOf(Cur(w))) PROVE v = w
        <3>1. PICK x \in FiberObjs \union Funcs :
                TaskOf(x) = TaskOf(Cur(w)) /\ Refers(v, x) /\ (x \in Funcs => ft[v] = x)
            <4>1. CASE pc[v] = "dispatch"
                BY <1>1, <2>3, <4>1 DEF HeldBy, FullInv, TypeInv, LocalsInv, Locals, Refers
            <4>2. CASE pc[v] # "dispatch"
                <5>1. Cur(v) \in FiberObjs
                    BY <1>1, <2>3, <4>2 DEF HeldBy, FullInv, TypeInv, LocalsInv, Locals, Busy, Counted
                <5> QED
                    BY <2>3, <4>2, <5>1 DEF HeldBy, Refers, Cur
            <4> QED
                BY <4>1, <4>2
        <3>2. x = Cur(w)
            BY <1>1, <3>1, OneObject
        <3> QED
            BY <1>1, <2>1, <3>1, <3>2 DEF FullInv, OwnInv, OwnerInv
    <2> QED
        BY <2>2, <2>3
<1>2. Init => FullInv /\ OnceInv
    BY TypeInit, OwnInit, OnceInit DEF FullInv
<1>3. FullInv /\ OnceInv /\ [Next]_vars => FullInv' /\ OnceInv'
    BY TypeStep, OwnStep, OnceStep DEF FullInv
<1> QED
    BY <1>1, <1>2, <1>3, PTL DEF Spec

-----------------------------------------------------------------------------
(* The scheduler implements TaskPool.                                      *)

\* What the refinement needs to know of a state.
PoolInv == FullInv /\ TaskInv /\ OnceInv /\ AnyInv

\* runnerBar names the one runner that executes a task.
RunnerBar ==
    \A t \in Tasks :
        /\ \A w \in Runners : RunsTask(w, t) <=> runnerBar[t] = w
        /\ (\A w \in Runners : ~RunsTask(w, t)) => runnerBar[t] = Nil

\* A kept Fiber object is the only one that stands for its task.
LEMMA OneTask ==
    ASSUME FullInv, OnceInv, NEW x \in FiberObjs, NEW y \in FiberObjs,
           TaskOf(x) = TaskOf(y), Kept(x)
    PROVE  x = y
<1> USE TaskAssumption
<1>1. \A z \in Pool : m_func[z] \in Funcs \union {Nil}
    BY DEF FullInv, TypeInv, Types
<1>2. CASE x \in Pool
    <2>1. m_func[x] # Nil
        BY <1>2 DEF OnceInv, InsideInv
    <2> QED
        BY <1>1, <1>2, <2>1 DEF TaskOf, OnceInv, FuncOnce, FiberObjs
<1>3. CASE x \notin Pool
    BY <1>1, <1>3 DEF TaskOf, FiberObjs
<1> QED
    BY <1>2, <1>3

\* The state of a fiber that a runner executes.
LEMMA RunsFacts ==
    ASSUME PoolInv, NEW w \in Runners, pc[w] \in {"user", "hold"}
    PROVE  /\ pc[w] = "user" /\ Cur(w) \in FiberObjs /\ Has(w, Cur(w)) /\ Kept(Cur(w))
           /\ Refers(w, Cur(w)) /\ Cur(w) \notin armed /\ Cur(w) \notin ListTasks
           /\ TaskOf(Cur(w)) \in Tasks /\ issued[TaskOf(Cur(w))] # Nil
           /\ TaskOf(Cur(w)) \notin finished
           /\ \A v \in Runners : RunsTask(v, TaskOf(Cur(w))) => v = w
<1> USE TaskAssumption, ThreadSets
<1> DEFINE c == Cur(w)
<1>1. pc[w] = "user"
    BY DEF PoolInv, FullInv, OwnInv
<1>2. c \in FiberObjs /\ Refers(w, c) /\ Has(w, c) /\ Kept(c)
    BY <1>1 DEF PoolInv, FullInv, TypeInv, LocalsInv, Locals, Busy, Refers, Cur, Has, Kept, Counted
<1> HIDE DEF c
<1>3. c \notin armed /\ c \notin ListTasks
    BY <1>1, <1>2 DEF PoolInv, FullInv, OwnInv, ListInv, Leaving, Stopped
<1>4. TaskOf(c) \in Tasks /\ issued[TaskOf(c)] # Nil
    <2>1. CASE c \in Pool
        BY <1>2, <2>1 DEF PoolInv, FullInv, TypeInv, Types, OnceInv, InsideInv, TaskOf, Tasks
    <2>2. CASE c \notin Pool
        BY <1>2, <2>2 DEF PoolInv, FullInv, OwnInv, FreshInv, TaskOf, Tasks, FiberObjs
    <2> QED
        BY <2>1, <2>2
<1>5. m_state[c] = "EXEC"
    BY <1>1 DEF PoolInv, FullInv, OwnInv, StateInv, c
<1>6. TaskOf(c) \notin finished
    BY <1>2, <1>5 DEF PoolInv, OnceInv, DoneInv, Finished
<1>7. ASSUME NEW v \in Runners, RunsTask(v, TaskOf(c)) PROVE v = w
    <2>1. Cur(v) \in FiberObjs /\ Refers(v, Cur(v)) /\ TaskOf(Cur(v)) = TaskOf(c)
        BY <1>7 DEF RunsTask, PoolInv, FullInv, TypeInv, LocalsInv, Locals, Busy, Refers, Cur
    <2>2. Cur(v) = c
        BY <1>2, <2>1, OneTask DEF PoolInv
    <2> QED
        BY <1>2, <2>1, <2>2 DEF PoolInv, FullInv, OwnInv, OwnerInv
<1> QED
    BY <1>1, <1>2, <1>3, <1>4, <1>6, <1>7 DEF c

\* The choice in runnerBar is none: at most one runner executes a task.
LEMMA RunnerBarExact == PoolInv => RunnerBar
<1> SUFFICES ASSUME PoolInv, NEW t \in Tasks
             PROVE  /\ \A w \in Runners : RunsTask(w, t) <=> runnerBar[t] = w
                    /\ (\A w \in Runners : ~RunsTask(w, t)) => runnerBar[t] = Nil
    BY DEF RunnerBar
<1>1. \A v, w \in Runners : RunsTask(v, t) /\ RunsTask(w, t) => v = w
    <2> SUFFICES ASSUME NEW v \in Runners, NEW w \in Runners, RunsTask(v, t), RunsTask(w, t)
                 PROVE  v = w
        OBVIOUS
    <2>1. pc[w] \in {"user", "hold"} /\ TaskOf(Cur(w)) = t
        BY DEF RunsTask
    <2> QED
        BY <2>1, RunsFacts
<1>2. CASE \E w \in Runners : RunsTask(w, t)
    <2>1. runnerBar[t] = CHOOSE w \in Runners : RunsTask(w, t)
        BY <1>2 DEF runnerBar
    <2>2. runnerBar[t] \in Runners /\ RunsTask(runnerBar[t], t)
        BY <1>2, <2>1
    <2> QED
        BY <1>1, <1>2, <2>2
<1>3. CASE ~\E w \in Runners : RunsTask(w, t)
    <2>1. runnerBar[t] = Nil
        BY <1>3 DEF runnerBar
    <2>2. Nil \notin Runners
        BY ThreadSets, ThreadAssumption
    <2> QED
        BY <1>3, <2>1, <2>2
<1> QED
    BY <1>2, <1>3

\* The same of the next state.
LEMMA RunnerBarNext == PoolInv' => RunnerBar'
    BY RunnerBarExact, PTL

\* A task looks the same after a step that changes none of what the mapping
\* looks at.
SameTask(t) ==
    /\ (t \in finished)' <=> (t \in finished)
    /\ Armed(t)' <=> Armed(t)
    /\ (issued[t] # Nil)' <=> (issued[t] # Nil)
    /\ \A w \in Runners : RunsTask(w, t)' <=> RunsTask(w, t)
LEMMA SameBar ==
    ASSUME RunnerBar, RunnerBar', NEW t \in Tasks, SameTask(t)
    PROVE  statusBar'[t] = statusBar[t] /\ runnerBar'[t] = runnerBar[t]
<1>1. statusBar'[t] = statusBar[t]
    BY DEF SameTask, statusBar
<1>2. ASSUME NEW w \in Runners, RunsTask(w, t) PROVE runnerBar'[t] = runnerBar[t]
    <2>1. RunsTask(w, t)'
        BY <1>2 DEF SameTask
    <2>2. runnerBar[t] = w
        BY <1>2 DEF RunnerBar
    <2>3. runnerBar'[t] = w
        BY <2>1 DEF RunnerBar
    <2> QED
        BY <2>2, <2>3
<1>3. ASSUME \A w \in Runners : ~RunsTask(w, t) PROVE runnerBar'[t] = runnerBar[t]
    <2>1. \A w \in Runners : ~RunsTask(w, t)'
        BY <1>3 DEF SameTask
    <2>2. runnerBar[t] = Nil
        BY <1>3 DEF RunnerBar
    <2>3. runnerBar'[t] = Nil
        BY <2>1 DEF RunnerBar
    <2> QED
        BY <2>2, <2>3
<1> QED
    BY <1>1, <1>2, <1>3

\* Nothing the mapping looks at changed.
LEMMA SameBars ==
    ASSUME RunnerBar, RunnerBar', \A t \in Tasks : SameTask(t)
    PROVE  statusBar' = statusBar /\ runnerBar' = runnerBar
<1>1. \A t \in Tasks : statusBar'[t] = statusBar[t] /\ runnerBar'[t] = runnerBar[t]
    BY SameBar
<1>2. /\ statusBar = [t \in Tasks |-> statusBar[t]] /\ statusBar' = [t \in Tasks |-> statusBar'[t]]
      /\ runnerBar = [t \in Tasks |-> runnerBar[t]] /\ runnerBar' = [t \in Tasks |-> runnerBar'[t]]
    BY DEF statusBar, runnerBar
<1> QED
    BY <1>1, <1>2

\* Only task t changed.
LEMMA OneBar ==
    ASSUME RunnerBar, RunnerBar', NEW t \in Tasks, \A s \in Tasks : s # t => SameTask(s)
    PROVE  /\ statusBar' = [statusBar EXCEPT ![t] = statusBar'[t]]
           /\ runnerBar' = [runnerBar EXCEPT ![t] = runnerBar'[t]]
<1>1. \A s \in Tasks : s # t => statusBar'[s] = statusBar[s] /\ runnerBar'[s] = runnerBar[s]
    BY SameBar
<1>2. /\ statusBar = [s \in Tasks |-> statusBar[s]] /\ statusBar' = [s \in Tasks |-> statusBar'[s]]
      /\ runnerBar = [s \in Tasks |-> runnerBar[s]] /\ runnerBar' = [s \in Tasks |-> runnerBar'[s]]
    BY DEF statusBar, runnerBar
<1> QED
    BY <1>1, <1>2

\* Every step of the scheduler is a step of TaskPool or leaves its variables
\* alone: one case per action.
LEMMA PoolStep ==
    ASSUME SingleSubmission, Unpinned, PoolInv, PoolInv', [Next]_vars
    PROVE  Pool_!Next \/ UNCHANGED Pool_!vars
<1> USE TaskAssumption, ThreadSets
<1> USE DEF queueVars, flagVars, fiberVars, runVars, taskVars
<1>0. TypeInv /\ Types /\ RunnerBar /\ RunnerBar'
    BY RunnerBarExact, RunnerBarNext DEF PoolInv, FullInv, TypeInv
\* The runners but w execute what they executed.
<1>1. ASSUME NEW w \in Runners, RunnerFrame(w), NEW v \in Runners, v # w, NEW t,
             pc[v] \in {"user", "hold"} => TaskOf(Cur(v))' = TaskOf(Cur(v))
      PROVE  RunsTask(v, t)' <=> RunsTask(v, t)
    <2>1. pc'[v] = pc[v]
        BY <1>0, <1>1, OthersStay
    <2> QED
        BY <1>1, <2>1 DEF RunsTask
<1>2. ASSUME NEW w \in Runners, RunnerFrame(w), UNCHANGED m_func,
             NEW v \in Runners, v # w, NEW t
      PROVE  RunsTask(v, t)' <=> RunsTask(v, t)
    <2>1. Cur(v)' = Cur(v)
        BY <1>0, <1>2, OthersStay
    <2>2. TaskOf(Cur(v))' = TaskOf(Cur(v))
        BY <1>2, <2>1 DEF TaskOf
    <2> QED
        BY <1>1, <1>2, <2>2
\* A step of a runner that neither begins nor ends to execute a body.
<1>3. ASSUME NEW w \in Runners, RunnerFrame(w), UNCHANGED <<m_func, armed, finished, issued>>,
             pc[w] \notin {"user", "hold"}, pc'[w] \notin {"user", "hold"}
      PROVE  statusBar' = statusBar /\ runnerBar' = runnerBar
    <2>1. \A t : Armed(t)' <=> Armed(t)
        BY <1>3 DEF Armed, TaskOf
    <2>2. \A v \in Runners : \A t : RunsTask(v, t)' <=> RunsTask(v, t)
        <3> SUFFICES ASSUME NEW v \in Runners, NEW t PROVE RunsTask(v, t)' <=> RunsTask(v, t)
            OBVIOUS
        <3>1. CASE v = w
            BY <1>3, <3>1 DEF RunsTask
        <3>2. CASE v # w
            BY <1>2, <1>3, <3>2
        <3> QED
            BY <3>1, <3>2
    <2>3. \A t \in Tasks : SameTask(t)
        BY <1>3, <2>1, <2>2 DEF SameTask
    <2> QED
        BY <1>0, <2>3, SameBars
<1>4. ASSUME NEW w \in Runners, pc[w] \notin {"none", "exit"}, pc'[w] \notin {"none", "exit"}
      PROVE  openBar' = openBar
    BY <1>4 DEF openBar
<1>5. ASSUME NEW w \in Runners,
             TakeTask(w) \/ EnterIdle(w) \/ IdleCheck(w) \/ SkipDeadFiber(w) \/ Deactivate(w)
                \/ Requeue(w) \/ HoldTask(w) \/ DropFiber(w) \/ SwapOut(w)
      PROVE  UNCHANGED Pool_!vars
    <2>1. RunnerFrame(w)
        BY <1>0, <1>5, RunnerMoves DEF MoveStep, RunStep
    <2>2. /\ UNCHANGED <<m_func, armed, finished, issued>>
          /\ pc[w] \in {"scan", "idle", "dispatch", "leaving", "ret", "post"}
          /\ pc'[w] \in {"scan", "idle", "dispatch", "ret", "post"}
        <3>1. CASE TakeTask(w) \/ EnterIdle(w) \/ IdleCheck(w) \/ SkipDeadFiber(w)
            BY <1>0, <3>1 DEF TakeTask, EnterIdle, IdleCheck, SkipDeadFiber, Types
        <3>2. CASE Deactivate(w) \/ Requeue(w) \/ HoldTask(w) \/ DropFiber(w) \/ SwapOut(w)
            BY <1>0, <3>2 DEF Deactivate, Requeue, HoldTask, DropFiber, SwapOut, Types
        <3> QED
            BY <1>5, <3>1, <3>2
    <2> QED
        BY <1>3, <1>4, <2>1, <2>2 DEF Pool_!vars
\* The body gives up its thread or ends.
<1>6. ASSUME NEW w \in Runners,
             YieldToReady(w) \/ YieldToHold(w) \/ Suspend(w) \/ MainFunc(w)
      PROVE  Pool_!Next
    <2>1. RunnerFrame(w)
        BY <1>0, <1>6, RunnerMoves DEF MoveStep
    <2>2. PICK c : c = Cur(w)
        OBVIOUS
    <2>3. PICK t : t = TaskOf(c)
        OBVIOUS
    <2>4. pc[w] \in {"user", "hold"} /\ pc'[w] = "leaving" /\ UNCHANGED <<m_func, issued>>
        BY <1>0, <1>6 DEF YieldToReady, YieldToHold, Suspend, MainFunc, Types
    <2>5. /\ armed' = armed \/ armed' = armed \union {c}
          /\ finished' = finished \/ finished' = finished \union {t}
        BY <1>6, <2>2, <2>3 DEF YieldToReady, YieldToHold, Suspend, MainFunc
    <2>6. /\ t \in Tasks /\ t \notin finished /\ issued[t] # Nil
          /\ \A v \in Runners : RunsTask(v, t) => v = w
        BY <2>2, <2>3, <2>4, RunsFacts
    <2>7. RunsTask(w, t) /\ \A s : s # t => ~RunsTask(w, s)
        BY <2>2, <2>3, <2>4 DEF RunsTask
    <2>8. \A s : ~RunsTask(w, s)'
        BY <2>4 DEF RunsTask
    <2>9. \A v \in Runners : \A s : v # w => (RunsTask(v, s)' <=> RunsTask(v, s))
        BY <1>2, <2>1, <2>4
    <2>10. ASSUME NEW s \in Tasks, s # t PROVE SameTask(s)
        <3>1. Armed(s)' <=> Armed(s)
            BY <2>3, <2>4, <2>5, <2>10 DEF Armed, TaskOf
        <3>2. \A v \in Runners : RunsTask(v, s)' <=> RunsTask(v, s)
            BY <2>7, <2>8, <2>9, <2>10
        <3> QED
            BY <2>4, <2>5, <2>10, <3>1, <3>2 DEF SameTask
    <2>11. /\ statusBar' = [statusBar EXCEPT ![t] = statusBar'[t]]
           /\ runnerBar' = [runnerBar EXCEPT ![t] = runnerBar'[t]]
        BY <1>0, <2>6, <2>10, OneBar
    <2>12. statusBar[t] = "running"
        BY <2>6, <2>7 DEF statusBar
    <2>13. \A v \in Runners : ~RunsTask(v, t)'
        BY <2>6, <2>8, <2>9
    <2>14. runnerBar'[t] = Nil
        BY <1>0, <2>6, <2>13 DEF RunnerBar
    <2>15. statusBar'[t] \in {"ready", "waiting", "done"}
        BY <2>4, <2>6, <2>13 DEF statusBar
    <2>16. openBar' = openBar
        BY <1>4, <2>4
    <2>17. Pool_!Leave(t, statusBar'[t])
        BY <2>11, <2>12, <2>14, <2>16 DEF Pool_!Leave
    <2> QED
        BY <2>6, <2>15, <2>17 DEF Pool_!Next
\* swapIn: the runner begins to execute task t, which stood ready.
<1>7. ASSUME NEW w \in Runners, RunnerFrame(w), NEW t \in Tasks,
             pc[w] = "dispatch", pc'[w] = "user", TaskOf(Cur(w))' = t,
             UNCHANGED <<finished, issued>>, t \notin finished, issued[t] # Nil,
             \A s : Armed(s)' <=> Armed(s), ~Armed(t),
             \A v \in Runners : ~RunsTask(v, t),
             \A v \in Runners : v # w /\ pc[v] \in {"user", "hold"} =>
                TaskOf(Cur(v))' = TaskOf(Cur(v))
      PROVE  Pool_!Next
    <2>1. \A s : ~RunsTask(w, s) /\ (RunsTask(w, s)' <=> s = t)
        BY <1>7 DEF RunsTask
    <2>2. \A v \in Runners : \A s : v # w => (RunsTask(v, s)' <=> RunsTask(v, s))
        BY <1>1, <1>7
    <2>3. ASSUME NEW s \in Tasks, s # t PROVE SameTask(s)
        BY <1>7, <2>1, <2>2, <2>3 DEF SameTask
    <2>4. /\ statusBar' = [statusBar EXCEPT ![t] = statusBar'[t]]
          /\ runnerBar' = [runnerBar EXCEPT ![t] = runnerBar'[t]]
        BY <1>0, <2>3, OneBar
    <2>5. statusBar[t] = "ready"
        BY <1>7 DEF statusBar
    <2>6. statusBar'[t] = "running"
        BY <1>7, <2>1 DEF statusBar
    <2>7. runnerBar'[t] = w
        BY <1>0, <2>1 DEF RunnerBar
    <2>8. openBar /\ openBar'
        BY <1>7 DEF openBar
    <2>9. \A s \in Tasks : runnerBar[s] # w
        BY <1>0, <2>1 DEF RunnerBar
    <2>10. Pool_!Run(t, w)
        BY <2>4, <2>5, <2>6, <2>7, <2>8, <2>9 DEF Pool_!Run
    <2> QED
        BY <2>10 DEF Pool_!Next
<1>8. ASSUME NEW w \in Runners, SwapInFiber(w) PROVE Pool_!Next
    <2>1. RunnerFrame(w)
        BY <1>0, <1>8, RunnerMoves DEF MoveStep, RunStep
    <2>2. PICK c : c = Cur(w)
        OBVIOUS
    <2>3. PICK t : t = TaskOf(c)
        OBVIOUS
    <2>4. /\ UNCHANGED <<m_func, armed, issued, finished>>
          /\ pc[w] = "dispatch" /\ pc'[w] = "user" /\ ft[w] = c /\ Cur(w)' = c
          /\ c \in FiberObjs /\ m_state[c] \notin Finished
        BY <1>0, <1>8, <2>2 DEF SwapInFiber, Types, Cur, FiberObjs
    <2>5. Refers(w, c) /\ Kept(c)
        BY <2>2, <2>4 DEF Refers, Kept, Has, Counted
    <2>6. t \in Tasks /\ issued[t] # Nil
        <3>1. CASE c \in Pool
            BY <1>0, <2>3, <2>5, <3>1 DEF PoolInv, Types, OnceInv, InsideInv, TaskOf, Tasks
        <3>2. CASE c \notin Pool
            BY <2>3, <2>4, <2>5, <3>2 DEF PoolInv, FullInv, OwnInv, FreshInv, TaskOf, Tasks, FiberObjs
        <3> QED
            BY <3>1, <3>2
    <2>7. t \notin finished
        BY <2>3, <2>4 DEF PoolInv, OnceInv, DoneInv
    <2>8. ASSUME NEW x \in armed, TaskOf(x) = t PROVE FALSE
        <3>1. x \in FiberObjs
            BY <1>0 DEF Types
        <3>2. x = c
            BY <2>3, <2>4, <2>5, <2>8, <3>1, OneTask DEF PoolInv
        <3> QED
            BY <2>4, <2>5, <3>2 DEF PoolInv, FullInv, OwnInv, ListInv, Leaving, Stopped
    <2>9. ASSUME NEW v \in Runners, RunsTask(v, t) PROVE FALSE
        <3>1. pc[v] \in {"user", "hold"} /\ TaskOf(Cur(v)) = t
            BY <2>9 DEF RunsTask
        <3>2. Cur(v) \in FiberObjs /\ Refers(v, Cur(v))
            BY <3>1, RunsFacts
        <3>3. Cur(v) = c
            BY <2>3, <2>4, <2>5, <3>1, <3>2, OneTask DEF PoolInv
        <3> QED
            BY <2>4, <2>5, <3>1, <3>2, <3>3 DEF PoolInv, FullInv, OwnInv, OwnerInv
    <2>10. (\A x : TaskOf(x)' = TaskOf(x)) /\ ~Armed(t)
        BY <2>4, <2>8 DEF TaskOf, Armed
    <2>11. \A s : Armed(s)' <=> Armed(s)
        BY <2>4 DEF Armed, TaskOf
    <2>12. \A v \in Runners : v # w => Cur(v)' = Cur(v)
        BY <1>0, <2>1, OthersStay
    <2>13. TaskOf(Cur(w))' = t /\ \A v \in Runners : v # w => TaskOf(Cur(v))' = TaskOf(Cur(v))
        BY <2>3, <2>4, <2>12 DEF TaskOf
    <2> QED
        BY <1>7, <2>1, <2>4, <2>6, <2>7, <2>9, <2>10, <2>11, <2>13
<1>9. ASSUME NEW w \in Runners, SwapInFunc(w) PROVE Pool_!Next
    <2>1. RunnerFrame(w)
        BY <1>0, <1>9, RunnerMoves DEF MoveStep, RunStep
    <2>2. PICK p \in Pool :
            /\ IF func_fiber[w] # Nil THEN p = func_fiber[w] ELSE m_state[p] = "NONE"
            /\ func_fiber' = [func_fiber EXCEPT ![w] = p]
            /\ m_func' = [m_func EXCEPT ![p] = ft[w]]
        BY <1>9 DEF SwapInFunc
    <2>3. PICK g : g = ft[w]
        OBVIOUS
    <2>4. /\ UNCHANGED <<armed, issued, finished>>
          /\ pc[w] = "dispatch" /\ pc'[w] = "user" /\ Cur(w)' = p
          /\ ft[w] = g /\ g \in Funcs /\ g \in Tasks /\ g # Nil
        BY <1>0, <1>9, <2>2, <2>3 DEF SwapInFunc, Types, Cur, Tasks
    <2>5. TaskOf(p)' = g /\ \A x : x # p => TaskOf(x)' = TaskOf(x)
        BY <1>0, <2>2, <2>3 DEF Types, TaskOf
    \* The Fiber object is empty and with nobody when run() fills it.
    <2>6. m_func[p] = Nil
        BY <2>2, <2>4 DEF PoolInv, TaskInv, FuncInv
    <2>7. ~Kept(p) /\ p \notin armed
        BY <2>6 DEF PoolInv, OnceInv, InsideInv, Kept
    <2>8. \A v \in Runners : pc[v] \in {"user", "hold"} => Cur(v) # p
        BY <2>7, RunsFacts
    <2>9. \A s : Armed(s)' <=> Armed(s)
        BY <2>4, <2>5, <2>7 DEF Armed
    <2>10. /\ g \notin finished /\ issued[g] # Nil
           /\ \A x \in FiberObjs : TaskOf(x) # g
        <3>1. g \notin finished /\ \A x \in Pool : m_func[x] # g
            BY <2>4 DEF PoolInv, OnceInv, FuncOnce
        <3>2. issued[g] # Nil
            BY <2>4 DEF PoolInv, FullInv, OwnInv, FreshInv, Refers, FiberObjs
        <3> QED
            BY <2>4, <3>1, <3>2 DEF TaskOf, FiberObjs
    <2>11. ~Armed(g)
        BY <1>0, <2>10 DEF Armed, Types
    <2>12. ASSUME NEW v \in Runners PROVE ~RunsTask(v, g)
        BY <2>10, RunsFacts DEF RunsTask
    <2>13. ASSUME NEW v \in Runners, v # w, pc[v] \in {"user", "hold"}
           PROVE  TaskOf(Cur(v))' = TaskOf(Cur(v))
        <3>1. Cur(v)' = Cur(v)
            BY <1>0, <2>1, <2>13, OthersStay
        <3>2. PICK y : y = Cur(v)
            OBVIOUS
        <3>3. y # p /\ y = Cur(v)'
            BY <2>8, <2>13, <3>1, <3>2
        <3>4. TaskOf(y)' = TaskOf(y)
            BY <2>5, <3>3
        <3> QED
            BY <3>2, <3>3, <3>4 DEF TaskOf
    <2>14. TaskOf(Cur(w))' = g
        BY <2>4, <2>5 DEF TaskOf
    <2> QED
        BY <1>7, <2>1, <2>4, <2>9, <2>10, <2>11, <2>12, <2>13, <2>14
\* The Fiber object that is emptied is in no hands but its runner's.
<1>10. ASSUME NEW w \in Runners, ResetFunc(w) PROVE UNCHANGED Pool_!vars
    <2>1. RunnerFrame(w)
        BY <1>0, <1>10, RunnerMoves DEF MoveStep, RunStep
    <2>2. PICK p : p = func_fiber[w]
        OBVIOUS
    <2>3. /\ UNCHANGED <<armed, issued, finished>>
          /\ pc[w] = "post" /\ pc'[w] = "scan" /\ p \in Pool /\ p \in FiberObjs
          /\ Refers(w, p) /\ m_state[p] \in Finished
          /\ m_func' = [m_func EXCEPT ![p] = Nil]
        BY <1>0, <1>10, <2>2
        DEF ResetFunc, Types, TypeInv, LocalsInv, Locals, Busy, Cur, FiberObjs, Refers
    <2>4. \A x : x # p => TaskOf(x)' = TaskOf(x)
        BY <1>0, <2>3 DEF Types, TaskOf
    <2>5. p \notin armed
        BY <2>3 DEF PoolInv, OnceInv, DoneInv
    <2>6. \A s : s # Nil => (Armed(s)' <=> Armed(s))
        BY <2>3, <2>4, <2>5 DEF Armed
    <2>7. ASSUME NEW v \in Runners, NEW t PROVE RunsTask(v, t)' <=> RunsTask(v, t)
        <3>1. CASE v = w
            BY <2>3, <3>1 DEF RunsTask
        <3>2. CASE v # w
            <4>1. ASSUME pc[v] \in {"user", "hold"} PROVE TaskOf(Cur(v))' = TaskOf(Cur(v))
                <5>1. Cur(v)' = Cur(v)
                    BY <1>0, <2>1, <3>2, OthersStay
                <5>2. PICK y : y = Cur(v)
                    OBVIOUS
                <5>3. Refers(v, y)
                    BY <4>1, <5>2, RunsFacts
                <5>4. y # p
                    BY <2>3, <3>2, <5>3 DEF PoolInv, FullInv, OwnInv, OwnerInv
                <5>5. TaskOf(y)' = TaskOf(y) /\ y = Cur(v)'
                    BY <2>4, <5>1, <5>2, <5>4
                <5> QED
                    BY <5>2, <5>5 DEF TaskOf
            <4> QED
                BY <1>1, <2>1, <3>2, <4>1
        <3> QED
            BY <3>1, <3>2
    <2>8. Nil \notin Tasks
        BY DEF Tasks, FiberObjs
    <2>9. \A t \in Tasks : SameTask(t)
        BY <2>3, <2>6, <2>7, <2>8 DEF SameTask
    <2>10. statusBar' = statusBar /\ runnerBar' = runnerBar
        BY <1>0, <2>9, SameBars
    <2> QED
        BY <1>4, <2>3, <2>10 DEF Pool_!vars
\* The last runner leaves only when every task has ended or waits.
<1>11. ASSUME NEW w \in Runners, ExitRun(w) PROVE Pool_!Next \/ UNCHANGED Pool_!vars
    <2>1. RunnerFrame(w)
        BY <1>0, <1>11, RunnerMoves DEF MoveStep, RunStep
    <2>2. /\ UNCHANGED <<m_func, armed, finished, issued>>
          /\ pc[w] = "scan" /\ pc'[w] = "exit" /\ NothingToTake(w)
        BY <1>0, <1>11 DEF ExitRun, Types
    <2>3. statusBar' = statusBar /\ runnerBar' = runnerBar /\ openBar
        BY <1>3, <2>1, <2>2 DEF openBar
    <2>4. CASE openBar'
        <3>1. openBar' = openBar
            BY <2>3, <2>4 DEF openBar
        <3> QED
            BY <2>3, <3>1 DEF Pool_!vars
    <2>5. CASE ~openBar'
        <3>1. \A v \in Runners : v # w => pc[v] \in {"none", "exit"}
            BY <1>0, <2>1, <2>5, OthersStay DEF openBar
        <3>2. m_fibers = <<>>
            BY <1>0, <2>2, <3>1, NothingLeft DEF PoolInv, TaskInv, Busy
        <3>3. ListTasks = {}
            BY <3>2 DEF ListTasks
        <3>4. \A v \in Runners : \A x : ~Has(v, x) /\ ~RunsTask(v, x)
            BY <2>2, <3>1 DEF Has, RunsTask, Counted
        <3>5. ASSUME NEW t \in Tasks PROVE statusBar[t] \notin {"ready", "running"}
            <4>1. CASE Pending(t)
                <5>1. PICK x \in FiberObjs \union Funcs : TaskOf(x) = t /\ Kept(x)
                    BY <4>1 DEF PoolInv, TaskInv, KeptInv
                <5>2. Armed(t)
                    BY <3>3, <3>4, <5>1 DEF Kept, Armed
                <5> QED
                    BY <3>4, <5>2 DEF statusBar
            <4>2. CASE ~Pending(t)
                BY <3>4, <4>2 DEF statusBar, Pending
            <4> QED
                BY <4>1, <4>2
        <3>6. openBar' = FALSE
            BY <2>5 DEF openBar
        <3>7. Pool_!Close
            BY <2>3, <3>5, <3>6 DEF Pool_!Close
        <3> QED
            BY <3>7 DEF Pool_!Next
    <2> QED
        BY <2>4, <2>5
\* schedule(): tasks that nobody knew become ready.
<1>12. ASSUME NEW s \in Tasks, NEW t \in Tasks, issued[s] = Nil, issued[t] = Nil,
              issued'[s] # Nil, issued'[t] # Nil,
              \A u \in Tasks : u \notin {s, t} => issued'[u] = issued[u],
              UNCHANGED <<pc, ft, func_fiber, m_func, armed, finished>>
       PROVE  Pool_!Next
    <2>1. /\ \A u : Armed(u)' <=> Armed(u)
          /\ \A v \in Runners : \A u : RunsTask(v, u)' <=> RunsTask(v, u)
        BY <1>12 DEF Armed, RunsTask, TaskOf, Cur
    <2>2. ASSUME NEW u \in {s, t}
          PROVE  u \notin finished /\ ~Armed(u) /\ \A v \in Runners : ~RunsTask(v, u)
        <3>1. u \in Tasks /\ issued[u] = Nil /\ u \notin finished
            BY <1>12 DEF PoolInv, OnceInv, InsideInv
        <3>2. ASSUME NEW x \in armed, TaskOf(x) = u PROVE FALSE
            <4>1. x \in FiberObjs
                BY <1>0 DEF Types
            <4>2. CASE x \in Pool
                BY <3>1, <3>2, <4>2 DEF TaskOf, PoolInv, OnceInv, InsideInv, Tasks, FiberObjs
            <4>3. CASE x \notin Pool
                BY <3>1, <3>2, <4>1, <4>3 DEF TaskOf, PoolInv, FullInv, OwnInv, FreshInv
            <4> QED
                BY <4>2, <4>3
        <3>3. \A v \in Runners : ~RunsTask(v, u)
            BY <3>1, RunsFacts DEF RunsTask
        <3> QED
            BY <3>1, <3>2, <3>3 DEF Armed
    <2>3. ASSUME NEW u \in {s, t} PROVE statusBar[u] = "new" /\ statusBar'[u] = "ready"
        BY <1>12, <2>1, <2>2 DEF statusBar
    <2>4. ASSUME NEW u \in Tasks, u \notin {s, t} PROVE statusBar'[u] = statusBar[u]
        BY <1>12, <2>1, <2>4 DEF statusBar
    <2>5. statusBar' = [u \in Tasks |-> statusBar'[u]]
        BY DEF statusBar
    <2>6. statusBar' = [u \in Tasks |-> IF u \in {s, t} THEN "ready" ELSE statusBar[u]]
        BY <2>3, <2>4, <2>5
    <2>7. runnerBar' = runnerBar /\ openBar' = openBar
        BY <1>12 DEF runnerBar, openBar, RunsTask, TaskOf, Cur
    <2>8. Pool_!Submit({s, t})
        BY <2>3, <2>6, <2>7 DEF Pool_!Submit
    <2> QED
        BY <2>8 DEF Pool_!Next
<1>13. ASSUME NEW w \in Runners, NEW t \in Tasks, NEW thr \in SpawnPins, Spawn(w, t, thr)
       PROVE  Pool_!Next
    <2>1. thr # Nil
        BY ThreadAssumption, BoundAssumption
    <2>2. /\ issued[t] = Nil /\ issued'[t] # Nil
          /\ \A u \in Tasks : u # t => issued'[u] = issued[u]
          /\ UNCHANGED <<pc, ft, func_fiber, m_func, armed, finished>>
        BY <1>0, <1>13, <2>1 DEF Spawn, Types
    <2> QED
        BY <1>12, <2>2
<1>14. ASSUME NEW t \in Tasks, NEW thr \in Pins, Schedule(t, thr)
       PROVE  Pool_!Next
    <2>1. thr # Nil
        BY ThreadAssumption, BoundAssumption
    <2>2. /\ issued[t] = Nil /\ issued'[t] # Nil
          /\ \A u \in Tasks : u # t => issued'[u] = issued[u]
          /\ UNCHANGED <<pc, ft, func_fiber, m_func, armed, finished>>
        BY <1>0, <1>14, <2>1 DEF Schedule, Types
    <2> QED
        BY <1>12, <2>2
<1>15. ASSUME NEW s \in Tasks, NEW t \in Tasks, ScheduleBatch(s, t)
       PROVE  Pool_!Next
    <2>1. /\ issued[s] = Nil /\ issued[t] = Nil /\ issued'[s] # Nil /\ issued'[t] # Nil
          /\ \A u \in Tasks : u \notin {s, t} => issued'[u] = issued[u]
          /\ UNCHANGED <<pc, ft, func_fiber, m_func, armed, finished>>
        BY <1>0, <1>15, ThreadAssumption DEF ScheduleBatch, Types
    <2> QED
        BY <1>12, <2>1
\* The event source schedules the fiber: no other Fiber object has its task.
<1>16. ASSUME NEW x \in FiberObjs, Wake(x) PROVE Pool_!Next
    <2>1. /\ UNCHANGED <<pc, ft, func_fiber, m_func, issued, finished>>
          /\ x \in armed /\ armed' = armed \ {x}
        BY <1>16 DEF Wake
    <2>2. PICK t : t = TaskOf(x)
        OBVIOUS
    <2>3. \A y : TaskOf(y)' = TaskOf(y)
        BY <2>1 DEF TaskOf
    <2>4. Kept(x)
        BY <2>1 DEF Kept
    <2>5. t \in Tasks /\ issued[t] # Nil
        <3>1. CASE x \in Pool
            BY <1>0, <2>2, <2>4, <3>1 DEF PoolInv, Types, OnceInv, InsideInv, TaskOf, Tasks
        <3>2. CASE x \notin Pool
            BY <2>1, <2>2, <3>2 DEF PoolInv, FullInv, OwnInv, FreshInv, TaskOf, Tasks, FiberObjs
        <3> QED
            BY <3>1, <3>2
    <2>6. t \notin finished
        BY <2>1, <2>2 DEF PoolInv, OnceInv, DoneInv
    <2>7. \A y \in armed : TaskOf(y) = t => y = x
        BY <1>0, <2>2, <2>4, OneTask DEF PoolInv, Types
    <2>8. ASSUME NEW v \in Runners, RunsTask(v, t) PROVE FALSE
        <3>1. pc[v] \in {"user", "hold"} /\ TaskOf(Cur(v)) = t
            BY <2>8 DEF RunsTask
        <3>2. Cur(v) \in FiberObjs /\ Cur(v) \notin armed
            BY <3>1, RunsFacts
        <3> QED
            BY <2>1, <2>2, <2>4, <3>1, <3>2, OneTask DEF PoolInv
    <2>9. \A v \in Runners : \A s : RunsTask(v, s)' <=> RunsTask(v, s)
        BY <2>1 DEF RunsTask, TaskOf, Cur
    <2>10. Armed(t) /\ ~Armed(t)'
        <3>1. Armed(t)
            BY <2>1, <2>2 DEF Armed
        <3>2. \A y \in armed' : TaskOf(y)' # t
            BY <2>1, <2>3, <2>7
        <3> QED
            BY <3>1, <3>2 DEF Armed
    <2>11. ASSUME NEW s \in Tasks, s # t PROVE SameTask(s)
        <3>1. Armed(s)' <=> Armed(s)
            BY <2>1, <2>2, <2>3, <2>11 DEF Armed
        <3> QED
            BY <2>1, <2>9, <3>1 DEF SameTask
    <2>12. statusBar' = [statusBar EXCEPT ![t] = statusBar'[t]]
        BY <1>0, <2>5, <2>11, OneBar
    <2>13. statusBar[t] = "waiting" /\ statusBar'[t] = "ready"
        BY <2>1, <2>5, <2>6, <2>8, <2>9, <2>10 DEF statusBar
    <2>14. runnerBar' = runnerBar /\ openBar' = openBar
        BY <2>1 DEF runnerBar, openBar, RunsTask, TaskOf, Cur
    <2>15. Pool_!Wake(t)
        BY <2>12, <2>13, <2>14 DEF Pool_!Wake
    <2> QED
        BY <2>5, <2>15 DEF Pool_!Next
\* start() and stop() touch no task; they may bring runners into run().
<1>17. ASSUME UNCHANGED <<ft, func_fiber, m_func, armed, finished, issued>>,
              \A v \in Runners : \/ pc'[v] = pc[v]
                                 \/ pc[v] \in {"none", "exit"} /\ pc'[v] = "scan"
       PROVE  Pool_!Next \/ UNCHANGED Pool_!vars
    <2>1. \A v \in Runners : \A t : RunsTask(v, t)' <=> RunsTask(v, t)
        BY <1>17 DEF RunsTask, TaskOf, Cur
    <2>2. \A t : Armed(t)' <=> Armed(t)
        BY <1>17 DEF Armed, TaskOf
    <2>3. \A t \in Tasks : SameTask(t)
        BY <1>17, <2>1, <2>2 DEF SameTask
    <2>4. statusBar' = statusBar /\ runnerBar' = runnerBar
        BY <1>0, <2>3, SameBars
    <2>5. openBar => openBar'
        BY <1>17 DEF openBar
    <2>6. CASE openBar' = openBar
        BY <2>4, <2>6 DEF Pool_!vars
    <2>7. CASE openBar' # openBar
        <3>1. ~openBar /\ openBar' = TRUE
            BY <2>5, <2>7 DEF openBar
        <3> QED
            BY <2>4, <3>1 DEF Pool_!Open, Pool_!Next
    <2> QED
        BY <2>6, <2>7
<1>18. ASSUME Start PROVE Pool_!Next \/ UNCHANGED Pool_!vars
    <2>1. \A w \in Workers : pc[w] \in {"none", "exit"}
        BY <1>0, <1>18 DEF Start, TypeInv, ControlInv
    <2>2. /\ UNCHANGED <<ft, func_fiber, m_func, armed, finished, issued>>
          /\ \A v \in Threads : pc'[v] = IF v \in Workers THEN "scan" ELSE pc[v]
        BY <1>18 DEF Start
    <2> QED
        BY <1>17, <2>1, <2>2
<1>19. ASSUME CallRoot PROVE Pool_!Next \/ UNCHANGED Pool_!vars
    <2>1. pc[Caller] = "none"
        BY <1>0, <1>19 DEF CallRoot, TypeInv, ControlInv
    <2>2. /\ UNCHANGED <<ft, func_fiber, m_func, armed, finished, issued>>
          /\ \A v \in Threads : pc'[v] = IF v = Caller THEN "scan" ELSE pc[v]
        BY <1>0, <1>19 DEF CallRoot, Types
    <2> QED
        BY <1>17, <2>1, <2>2
<1>20. ASSUME StartIgnored \/ StopBegin \/ StopEarly \/ StopFlag \/ SkipRoot \/ CallDeadRoot
                \/ RootBack \/ SwapThreads \/ Join \/ UNCHANGED vars
       PROVE  Pool_!Next \/ UNCHANGED Pool_!vars
    <2>1. UNCHANGED <<pc, ft, func_fiber, m_func, armed, finished, issued>>
        BY <1>20 DEF StartIgnored, StopBegin, StopEarly, StopFlag, SkipRoot, CallDeadRoot,
            RootBack, SwapThreads, Join, vars
    <2> QED
        BY <1>17, <2>1
<1> QED
    BY <1>5, <1>6, <1>8, <1>9, <1>10, <1>11, <1>13, <1>14, <1>15, <1>16, <1>18, <1>19, <1>20
    DEF Next, RunStep, BodyStep, CallerStep, StopStep, SingleSubmission

\* No thread pool at work and no task known, in both specifications.
LEMMA PoolInit == Init => Pool_!Init
<1> SUFFICES ASSUME Init PROVE Pool_!Init
    OBVIOUS
<1>1. /\ \A w \in Runners : pc[w] = "none"
      /\ armed = {} /\ finished = {} /\ \A t \in Tasks : issued[t] = Nil
    BY ThreadSets DEF Init
<1>2. ~openBar /\ openBar = FALSE
    BY <1>1 DEF openBar
<1>3. \A t : ~Armed(t) /\ \A w \in Runners : ~RunsTask(w, t)
    BY <1>1 DEF Armed, RunsTask
<1>4. statusBar = [t \in Tasks |-> "new"]
    BY <1>1, <1>3 DEF statusBar
<1>5. runnerBar = [t \in Tasks |-> Nil]
    BY <1>3 DEF runnerBar
<1> QED
    BY <1>2, <1>4, <1>5 DEF Pool_!Init

\* run(), schedule(), start() and stop() implement TaskPool for any number of
\* threads and tasks, when no fiber is put into the list a second time and
\* nobody asks for a particular thread: pieces of a task never overlap, a
\* waiting task is not run before it is woken, and the last thread to leave
\* run() leaves no work behind.
THEOREM PoolImplemented ==
    ASSUME SingleSubmission, Unpinned
    PROVE  Spec => ImplementsPool
<1>1. Init => PoolInv
    BY TypeInit, OwnInit, TaskInit, OnceInit DEF PoolInv, FullInv, Init, AnyInv
<1>2. PoolInv /\ [Next]_vars => PoolInv'
    <2> SUFFICES ASSUME PoolInv, [Next]_vars PROVE PoolInv'
        OBVIOUS
    <2>1. TypeInv'
        BY TypeStep DEF PoolInv, FullInv
    <2>2. OwnInv'
        BY <2>1, OwnStep DEF PoolInv
    <2>3. TaskInv'
        BY <2>1, TaskStep DEF PoolInv, FullInv
    <2>4. OnceInv'
        BY OnceStep DEF PoolInv
    <2>5. AnyInv'
        BY AnyStep DEF PoolInv, FullInv
    <2> QED
        BY <2>1, <2>2, <2>3, <2>4, <2>5 DEF PoolInv, FullInv
<1>3. PoolInv /\ PoolInv' /\ [Next]_vars => [Pool_!Next]_Pool_!vars
    BY PoolStep
<1> QED
    BY <1>1, <1>2, <1>3, PoolInit, PTL DEF Spec, ImplementsPool, Pool_!Spec

=============================================================================
