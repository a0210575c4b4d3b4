-------------------------- MODULE SchedulerProofs --------------------------
(***************************************************************************)
(* Proofs about Scheduler for any number of threads, tasks, yields and     *)
(* restarts.                                                               *)
(***************************************************************************)
EXTENDS SchedulerInv, SequenceTheorems, FiniteSetTheorems, TLAPS

-----------------------------------------------------------------------------
(* The task list.                                                          *)

\* std::list::erase at a position: length, type and elements of the rest.
LEMMA RemoveAtElements ==
    ASSUME NEW S, NEW s \in Seq(S), NEW i \in 1 .. Len(s)
    PROVE  /\ RemoveAt(s, i) \in Seq(S)
           /\ Len(RemoveAt(s, i)) = Len(s) - 1
           /\ \A j \in 1 .. Len(s) - 1 :
                RemoveAt(s, i)[j] = IF j < i THEN s[j] ELSE s[j + 1]
<1> DEFINE a == SubSeq(s, 1, i - 1)
<1> DEFINE b == SubSeq(s, i + 1, Len(s))
<1>1. a \in Seq(S) /\ Len(a) = i - 1 /\ \A j \in 1 .. i - 1 : a[j] = s[j]
    BY SubSeqProperties
<1>2. b \in Seq(S) /\ Len(b) = Len(s) - i /\ \A j \in 1 .. Len(s) - i : b[j] = s[i + j]
    BY SubSeqProperties
<1>3. RemoveAt(s, i) = a \o b
    BY DEF RemoveAt
<1> HIDE DEF a, b
<1>4. a \o b \in Seq(S) /\ Len(a \o b) = Len(s) - 1
    <2>1. a \o b \in Seq(S) /\ Len(a \o b) = Len(a) + Len(b)
        BY <1>1, <1>2, ConcatProperties
    <2>2. Len(s) \in Nat /\ i \in Nat
        OBVIOUS
    <2> QED
        BY <1>1, <1>2, <2>1, <2>2
<1>5. \A j \in 1 .. Len(s) - 1 : (a \o b)[j] = IF j < i THEN s[j] ELSE s[j + 1]
    <2> TAKE j \in 1 .. Len(s) - 1
    <2>1. (a \o b)[j] = IF j <= Len(a) THEN a[j] ELSE b[j - Len(a)]
        BY <1>1, <1>2, ConcatProperties
    <2> QED
        BY <2>1, <1>1, <1>2
<1> QED
    BY <1>3, <1>4, <1>5

\* schedule(): what the list holds after push_back.
LEMMA PushList ==
    ASSUME NEW x, NEW thr, m_fibers \in Seq(Entries), Push(x, thr),
           Entry(x, thr) \in Entries
    PROVE  /\ m_fibers' \in Seq(Entries)
           /\ ListTasks' = ListTasks \union {x}
           /\ ListDistinct /\ x \notin ListTasks => ListDistinct'
<1>0. Entry(x, thr).task = x /\ Entry(x, thr).task \in FiberObjs \union Funcs
    BY DEF Entry, Entries
<1>1. m_fibers' = Append(m_fibers, Entry(x, thr))
    BY <1>0, TaskAssumption DEF Push
<1>2. /\ m_fibers' \in Seq(Entries)
      /\ Len(m_fibers') = Len(m_fibers) + 1
      /\ \A i \in 1 .. Len(m_fibers) : m_fibers'[i] = m_fibers[i]
      /\ m_fibers'[Len(m_fibers) + 1] = Entry(x, thr)
    BY <1>1, AppendProperties
<1>3. /\ DOMAIN m_fibers = 1 .. Len(m_fibers) /\ DOMAIN m_fibers' = 1 .. Len(m_fibers')
      /\ Len(m_fibers) \in Nat
    BY <1>2
<1>4. Entry(x, thr).task = x
    BY DEF Entry
<1>5. ListTasks' = ListTasks \union {x}
    BY <1>2, <1>3, <1>4 DEF ListTasks
<1>6. ASSUME ListDistinct, x \notin ListTasks PROVE ListDistinct'
    BY <1>2, <1>3, <1>4, <1>6 DEF ListDistinct, ListTasks
<1> QED
    BY <1>2, <1>5, <1>6

\* run(): what the list holds after the scan took entry i.
LEMMA TakeList ==
    ASSUME m_fibers \in Seq(Entries), NEW i \in DOMAIN m_fibers,
           m_fibers' = RemoveAt(m_fibers, i), ListDistinct
    PROVE  /\ m_fibers' \in Seq(Entries)
           /\ ListTasks' = ListTasks \ {m_fibers[i].task}
           /\ m_fibers[i].task \in ListTasks
           /\ ListDistinct'
<1>1. DOMAIN m_fibers = 1 .. Len(m_fibers) /\ Len(m_fibers) \in Nat
    OBVIOUS
<1>2. /\ m_fibers' \in Seq(Entries)
      /\ Len(m_fibers') = Len(m_fibers) - 1
      /\ \A j \in 1 .. Len(m_fibers) - 1 :
            m_fibers'[j] = IF j < i THEN m_fibers[j] ELSE m_fibers[j + 1]
    BY <1>1, RemoveAtElements
<1>3. DOMAIN m_fibers' = 1 .. Len(m_fibers) - 1
    BY <1>2
<1>4. m_fibers[i].task \in ListTasks
    BY DEF ListTasks
<1>5. ASSUME NEW y \in ListTasks' PROVE y \in ListTasks /\ y # m_fibers[i].task
    <2>1. PICK j \in 1 .. Len(m_fibers) - 1 : y = m_fibers'[j].task
        BY <1>3, <1>5 DEF ListTasks
    <2>2. PICK k \in 1 .. Len(m_fibers) : k # i /\ y = m_fibers[k].task
        BY <2>1, <1>2, <1>1
    <2> QED
        BY <2>2, <1>1 DEF ListTasks, ListDistinct
<1>6. ASSUME NEW y \in ListTasks, y # m_fibers[i].task PROVE y \in ListTasks'
    <2>1. PICK k \in 1 .. Len(m_fibers) : k # i /\ y = m_fibers[k].task
        BY <1>1, <1>6 DEF ListTasks
    <2>2. CASE k < i
        BY <2>1, <2>2, <1>1, <1>2, <1>3 DEF ListTasks
    <2>3. CASE k > i
        <3>1. k - 1 \in 1 .. Len(m_fibers) - 1 /\ m_fibers'[k - 1] = m_fibers[k]
            BY <2>1, <2>3, <1>1, <1>2
        <3> QED
            BY <3>1, <2>1, <1>3 DEF ListTasks
    <2> QED
        BY <2>1, <2>2, <2>3, <1>1
<1>7. ASSUME NEW j \in 1 .. Len(m_fibers) - 1, NEW k \in 1 .. Len(m_fibers) - 1,
             m_fibers'[j].task = m_fibers'[k].task
      PROVE  j = k
    <2> DEFINE old(l) == IF l < i THEN l ELSE l + 1
    <2>1. \A l \in 1 .. Len(m_fibers) - 1 :
            old(l) \in DOMAIN m_fibers /\ m_fibers'[l] = m_fibers[old(l)]
        BY <1>1, <1>2
    <2>2. old(j) = old(k)
        BY <2>1, <1>7 DEF ListDistinct
    <2> QED
        BY <2>2, <1>1
<1>8. ListDistinct'
    BY <1>3, <1>7 DEF ListDistinct
<1> QED
    BY <1>2, <1>4, <1>5, <1>6, <1>8

\* schedule(begin, end): what the list holds after two push_backs.
LEMMA BatchList ==
    ASSUME NEW x, NEW y, m_fibers \in Seq(Entries),
           Entry(x, AnyThread) \in Entries, Entry(y, AnyThread) \in Entries,
           m_fibers' = m_fibers \o <<Entry(x, AnyThread), Entry(y, AnyThread)>>
    PROVE  /\ m_fibers' \in Seq(Entries)
           /\ ListTasks' = ListTasks \union {x, y}
           /\ (ListDistinct /\ x \notin ListTasks /\ y \notin ListTasks /\ x # y)
                => ListDistinct'
<1> DEFINE n == Len(m_fibers)
           two == <<Entry(x, AnyThread), Entry(y, AnyThread)>>
<1>1. two \in Seq(Entries) /\ Len(two) = 2
      /\ two[1] = Entry(x, AnyThread) /\ two[2] = Entry(y, AnyThread)
    OBVIOUS
<1> HIDE DEF two
<1>2. n \in Nat /\ DOMAIN m_fibers = 1 .. n
    OBVIOUS
<1>3. m_fibers' \in Seq(Entries) /\ Len(m_fibers') = n + 2
    BY <1>1, ConcatProperties DEF two
<1>4. \A i \in 1 .. n + 2 : m_fibers'[i] = IF i <= n THEN m_fibers[i] ELSE two[i - n]
    BY <1>1, ConcatProperties DEF two
<1>5. /\ DOMAIN m_fibers' = 1 .. n + 2
      /\ \A i \in 1 .. n : m_fibers'[i] = m_fibers[i]
      /\ m_fibers'[n + 1] = Entry(x, AnyThread)
      /\ m_fibers'[n + 2] = Entry(y, AnyThread)
    BY <1>1, <1>2, <1>3, <1>4
<1>6. Entry(x, AnyThread).task = x /\ Entry(y, AnyThread).task = y
    BY DEF Entry
<1>7. ListTasks' = ListTasks \union {x, y}
    <2>1. ASSUME NEW z \in ListTasks' PROVE z \in ListTasks \union {x, y}
        BY <2>1, <1>2, <1>5, <1>6 DEF ListTasks
    <2>2. ASSUME NEW z \in ListTasks \union {x, y} PROVE z \in ListTasks'
        <3>1. ASSUME NEW i \in 1 .. n, z = m_fibers[i].task PROVE z \in ListTasks'
            <4>1. i \in DOMAIN m_fibers' /\ m_fibers'[i] = m_fibers[i]
                BY <1>2, <1>5
            <4> QED
                BY <3>1, <4>1 DEF ListTasks
        <3>2. n + 1 \in DOMAIN m_fibers' /\ n + 2 \in DOMAIN m_fibers'
            BY <1>2, <1>5
        <3>3. x \in ListTasks' /\ y \in ListTasks'
            BY <3>2, <1>5, <1>6 DEF ListTasks
        <3> QED
            BY <2>2, <3>1, <3>3, <1>2 DEF ListTasks
    <2> QED
        BY <2>1, <2>2
<1>8. ASSUME ListDistinct, x \notin ListTasks, y \notin ListTasks, x # y PROVE ListDistinct'
    BY <1>2, <1>5, <1>6, <1>8 DEF ListDistinct, ListTasks
<1> QED
    BY <1>3, <1>7, <1>8

-----------------------------------------------------------------------------
(* Types.                                                                  *)

\* Inductive as it stands for all constants: the types, with where the
\* application thread and the runners' locals stand.
TypeInv == Types /\ ControlInv /\ LocalsInv

\* The initial values have their types, and no thread is in run() yet.
LEMMA TypeInit == Init => TypeInv
<1> SUFFICES ASSUME Init PROVE TypeInv
    OBVIOUS
<1>1. Types
    BY ThreadAssumption, TaskAssumption, BoundAssumption
    DEF Init, Types, State, PCs, FiberObjs, Entries
<1>2. ControlInv /\ LocalsInv
    BY DEF Init, ControlInv, LocalsInv, Locals, Threads, Busy
<1> QED
    BY <1>1, <1>2 DEF TypeInv

\* What every step of a runner w has in common: w is in run() and moves only
\* its own program counter and locals; the application thread's variables
\* stay.
RunnerFrame(w) ==
    /\ w \in Runners
    /\ pc[w] \notin {"none", "exit"}
    /\ \E p \in PCs : pc' = [pc EXCEPT ![w] = p]
    /\ \A v \in Threads : v # w => ft'[v] = ft[v] /\ func_fiber'[v] = func_fiber[v]
    /\ UNCHANGED flagVars

\* Every thread that executes run() is a thread.
LEMMA ThreadSets == Runners \subseteq Threads /\ Workers \subseteq Threads /\ Caller \in Threads
    BY DEF Runners, Threads

\* The control part depends only on the variables of stop() and the counters
\* of the runners named here.
LEMMA FrameControl ==
    ASSUME NEW w, RunnerFrame(w), TypeInv
    PROVE  ControlInv'
<1>1. w \in Workers \/ w = Caller
    BY DEF RunnerFrame, Runners
<1>2. UNCHANGED <<caller, m_threads, m_rootFiber>>
    BY DEF RunnerFrame, flagVars
<1>3. \A v \in Threads : v # w => pc'[v] = pc[v]
    BY DEF RunnerFrame, TypeInv, Types
<1> QED
    BY <1>1, <1>2, <1>3, ThreadSets, ThreadAssumption
    DEF RunnerFrame, TypeInv, Types, ControlInv

\* The locals of run() of every thread but w are framed.
LEMMA FrameLocals ==
    ASSUME NEW w, RunnerFrame(w), TypeInv, Locals(w)'
    PROVE  LocalsInv'
<1> SUFFICES ASSUME NEW v \in Threads, v # w PROVE Locals(v)'
    BY DEF LocalsInv
<1>1. pc'[v] = pc[v] /\ ft'[v] = ft[v] /\ func_fiber'[v] = func_fiber[v]
    BY DEF RunnerFrame, TypeInv, Types
<1> QED
    BY <1>1 DEF TypeInv, LocalsInv, Locals, Cur

\* The bound on yields keeps its type.
LEMMA CountYieldType ==
    ASSUME NEW w, yields \in [Tasks -> Nat], CountYield(w)
    PROVE  yields' \in [Tasks -> Nat]
<1> DEFINE t == TaskOf(Cur(w))
<1>1. yields' = [yields EXCEPT ![t] = yields[t] + 1]
    BY DEF CountYield
<1> HIDE DEF t
<1>2. t \in Tasks => yields[t] + 1 \in Nat
    OBVIOUS
<1> QED
    BY <1>1, <1>2

\* Types, control and locals survive every step: one case per action.
LEMMA TypeStep == TypeInv /\ [Next]_vars => TypeInv'
<1> SUFFICES ASSUME TypeInv, [Next]_vars PROVE TypeInv'
    OBVIOUS
<1> USE TaskAssumption, BoundAssumption, ThreadSets
<1> USE DEF queueVars, flagVars, fiberVars, runVars, taskVars
<1>1. ASSUME NEW w \in Runners, TakeTask(w) PROVE TypeInv'
    <2>0. PICK i \in DOMAIN m_fibers :
            /\ ft' = [ft EXCEPT ![w] = m_fibers[i].task]
            /\ m_fibers' = RemoveAt(m_fibers, i)
        BY <1>1 DEF TakeTask
    <2>a. m_fibers' \in Seq(Entries) /\ m_fibers[i].task \in FiberObjs \union Funcs
        <3>1. m_fibers \in Seq(Entries) /\ i \in 1 .. Len(m_fibers)
            BY DEF TypeInv, Types
        <3>2. m_fibers[i] \in Entries
            BY <3>1
        <3> QED
            BY <2>0, <3>1, <3>2, RemoveAtElements DEF Entries
    <2>1. Types'
        BY <1>1, <2>0, <2>a DEF TakeTask, TypeInv, Types, PCs
    <2>2. RunnerFrame(w)
        BY <1>1 DEF TakeTask, RunnerFrame, TypeInv, Types, PCs
    <2>3. Locals(w)'
        BY <1>1, <2>0, <2>a DEF TakeTask, TypeInv, Types, Locals, Busy
    <2> QED
        BY <2>1, <2>2, <2>3, FrameControl, FrameLocals DEF TypeInv
<1>2. ASSUME NEW w \in Runners, ExitRun(w) PROVE TypeInv'
    <2>1. Types'
        BY <1>2 DEF ExitRun, TypeInv, Types, LocalsInv, Locals, Busy, PCs
    <2>2. RunnerFrame(w)
        BY <1>2 DEF ExitRun, RunnerFrame, TypeInv, Types, PCs
    <2>3. Locals(w)'
        BY <1>2 DEF ExitRun, TypeInv, Types, LocalsInv, Locals, Busy, Cur
    <2> QED
        BY <2>1, <2>2, <2>3, FrameControl, FrameLocals DEF TypeInv
<1>3. ASSUME NEW w \in Runners, EnterIdle(w) PROVE TypeInv'
    <2>1. Types'
        BY <1>3 DEF EnterIdle, TypeInv, Types, LocalsInv, Locals, Busy, PCs
    <2>2. RunnerFrame(w)
        BY <1>3 DEF EnterIdle, RunnerFrame, TypeInv, Types, PCs
    <2>3. Locals(w)'
        BY <1>3 DEF EnterIdle, TypeInv, Types, LocalsInv, Locals, Busy, Cur
    <2> QED
        BY <2>1, <2>2, <2>3, FrameControl, FrameLocals DEF TypeInv
<1>4. ASSUME NEW w \in Runners, IdleCheck(w) PROVE TypeInv'
    <2>1. Types'
        BY <1>4 DEF IdleCheck, TypeInv, Types, LocalsInv, Locals, Busy, PCs
    <2>2. RunnerFrame(w)
        BY <1>4 DEF IdleCheck, RunnerFrame, TypeInv, Types, PCs
    <2>3. Locals(w)'
        BY <1>4 DEF IdleCheck, TypeInv, Types, LocalsInv, Locals, Busy, Cur
    <2> QED
        BY <2>1, <2>2, <2>3, FrameControl, FrameLocals DEF TypeInv
<1>5. ASSUME NEW w \in Runners, SwapInFiber(w) PROVE TypeInv'
    <2>1. Types'
        BY <1>5 DEF SwapInFiber, TypeInv, Types, LocalsInv, Locals, Busy, PCs, State
    <2>2. RunnerFrame(w)
        BY <1>5 DEF SwapInFiber, RunnerFrame, TypeInv, Types, PCs
    <2>3. Locals(w)'
        BY <1>5 DEF SwapInFiber, TypeInv, Types, LocalsInv, Locals, Busy, Cur
    <2> QED
        BY <2>1, <2>2, <2>3, FrameControl, FrameLocals DEF TypeInv
<1>6. ASSUME NEW w \in Runners, SkipDeadFiber(w) PROVE TypeInv'
    <2>1. Types'
        BY <1>6 DEF SkipDeadFiber, TypeInv, Types, LocalsInv, Locals, Busy, PCs
    <2>2. RunnerFrame(w)
        BY <1>6 DEF SkipDeadFiber, RunnerFrame, TypeInv, Types, PCs
    <2>3. Locals(w)'
        BY <1>6 DEF SkipDeadFiber, TypeInv, Types, LocalsInv, Locals, Busy, Cur
    <2> QED
        BY <2>1, <2>2, <2>3, FrameControl, FrameLocals DEF TypeInv
<1>7. ASSUME NEW w \in Runners, SwapInFunc(w) PROVE TypeInv'
    <2>1. Types'
        BY <1>7 DEF SwapInFunc, TypeInv, Types, LocalsInv, Locals, Busy, PCs, State, FiberObjs
    <2>2. RunnerFrame(w)
        BY <1>7 DEF SwapInFunc, RunnerFrame, TypeInv, Types, PCs
    <2>3. Locals(w)'
        BY <1>7 DEF SwapInFunc, TypeInv, Types, Locals, Busy, Cur, FiberObjs
    <2> QED
        BY <2>1, <2>2, <2>3, FrameControl, FrameLocals DEF TypeInv
<1>8. ASSUME NEW w \in Runners, Deactivate(w) PROVE TypeInv'
    <2>1. Types'
        BY <1>8 DEF Deactivate, TypeInv, Types, LocalsInv, Locals, Busy, PCs
    <2>2. RunnerFrame(w)
        BY <1>8 DEF Deactivate, RunnerFrame, TypeInv, Types, PCs
    <2>3. Locals(w)'
        BY <1>8 DEF Deactivate, TypeInv, Types, LocalsInv, Locals, Busy, Cur
    <2> QED
        BY <2>1, <2>2, <2>3, FrameControl, FrameLocals DEF TypeInv
<1>9. ASSUME NEW w \in Runners, Requeue(w) PROVE TypeInv'
    <2>0. Entry(Cur(w), AnyThread) \in Entries
        BY <1>9 DEF Requeue, TypeInv, LocalsInv, Locals, Busy, Entry, Entries
    <2>a. m_fibers' \in Seq(Entries)
        BY <1>9, <2>0, PushList DEF Requeue, TypeInv, Types
    <2>1. Types'
        BY <1>9, <2>a DEF Requeue, TypeInv, Types, PCs, Release
    <2>2. RunnerFrame(w)
        BY <1>9 DEF Requeue, RunnerFrame, TypeInv, Types, PCs, Release
    <2>3. Locals(w)'
        BY <1>9 DEF Requeue, TypeInv, Types, LocalsInv, Locals, Busy, Cur, Release
    <2> QED
        BY <2>1, <2>2, <2>3, FrameControl, FrameLocals DEF TypeInv
<1>10. ASSUME NEW w \in Runners, HoldTask(w) PROVE TypeInv'
    <2>1. Types'
        BY <1>10 DEF HoldTask, TypeInv, Types, LocalsInv, Locals, Busy, PCs, State, Release
    <2>2. RunnerFrame(w)
        BY <1>10 DEF HoldTask, RunnerFrame, TypeInv, Types, PCs, Release
    <2>3. Locals(w)'
        BY <1>10 DEF HoldTask, TypeInv, Types, LocalsInv, Locals, Busy, Cur, Release
    <2> QED
        BY <2>1, <2>2, <2>3, FrameControl, FrameLocals DEF TypeInv
<1>11. ASSUME NEW w \in Runners, DropFiber(w) PROVE TypeInv'
    <2>1. Types'
        BY <1>11 DEF DropFiber, TypeInv, Types, LocalsInv, Locals, Busy, PCs
    <2>2. RunnerFrame(w)
        BY <1>11 DEF DropFiber, RunnerFrame, TypeInv, Types, PCs
    <2>3. Locals(w)'
        BY <1>11 DEF DropFiber, TypeInv, Types, LocalsInv, Locals, Busy, Cur
    <2> QED
        BY <2>1, <2>2, <2>3, FrameControl, FrameLocals DEF TypeInv
<1>12. ASSUME NEW w \in Runners, ResetFunc(w) PROVE TypeInv'
    <2>1. Types'
        BY <1>12 DEF ResetFunc, TypeInv, Types, LocalsInv, Locals, Busy, PCs, State
    <2>2. RunnerFrame(w)
        BY <1>12 DEF ResetFunc, RunnerFrame, TypeInv, Types, PCs
    <2>3. Locals(w)'
        BY <1>12 DEF ResetFunc, TypeInv, Types, LocalsInv, Locals, Busy, Cur
    <2> QED
        BY <2>1, <2>2, <2>3, FrameControl, FrameLocals DEF TypeInv
<1>13. ASSUME NEW w \in Runners, YieldToReady(w) PROVE TypeInv'
    <2>0. yields' \in [Tasks -> Nat]
        BY <1>13, CountYieldType DEF YieldToReady, TypeInv, Types
    <2>1. Types'
        BY <1>13, <2>0 DEF YieldToReady, TypeInv, Types, LocalsInv, Locals, Busy, PCs, State
    <2>2. RunnerFrame(w)
        BY <1>13 DEF YieldToReady, RunnerFrame, TypeInv, Types, PCs
    <2>3. Locals(w)'
        BY <1>13 DEF YieldToReady, TypeInv, Types, LocalsInv, Locals, Busy, Cur
    <2> QED
        BY <2>1, <2>2, <2>3, FrameControl, FrameLocals DEF TypeInv
<1>14. ASSUME NEW w \in Runners, YieldToHold(w) PROVE TypeInv'
    <2>0. yields' \in [Tasks -> Nat]
        BY <1>14, CountYieldType DEF YieldToHold, TypeInv, Types
    <2>1. Types'
        BY <1>14, <2>0 DEF YieldToHold, TypeInv, Types, LocalsInv, Locals, Busy, PCs, State
    <2>2. RunnerFrame(w)
        BY <1>14 DEF YieldToHold, RunnerFrame, TypeInv, Types, PCs
    <2>3. Locals(w)'
        BY <1>14 DEF YieldToHold, TypeInv, Types, LocalsInv, Locals, Busy, Cur
    <2> QED
        BY <2>1, <2>2, <2>3, FrameControl, FrameLocals DEF TypeInv
<1>15. ASSUME NEW w \in Runners, Suspend(w) PROVE TypeInv'
    <2>0. yields' \in [Tasks -> Nat]
        BY <1>15, CountYieldType DEF Suspend, TypeInv, Types
    <2>1. Types'
        BY <1>15, <2>0 DEF Suspend, TypeInv, Types, LocalsInv, Locals, Busy, PCs
    <2>2. RunnerFrame(w)
        BY <1>15 DEF Suspend, RunnerFrame, TypeInv, Types, PCs
    <2>3. Locals(w)'
        BY <1>15 DEF Suspend, TypeInv, Types, LocalsInv, Locals, Busy, Cur
    <2> QED
        BY <2>1, <2>2, <2>3, FrameControl, FrameLocals DEF TypeInv
<1>16. ASSUME NEW w \in Runners, MainFunc(w) PROVE TypeInv'
    <2>0. Cur(w) \in FiberObjs
        BY <1>16 DEF MainFunc, TypeInv, LocalsInv, Locals, Busy
    <2>a. TaskOf(Cur(w)) \in Tasks \union {Nil}
        BY <2>0 DEF TypeInv, Types, TaskOf, FiberObjs, Tasks
    <2>1. Types'
        BY <1>16, <2>a DEF MainFunc, TypeInv, Types, PCs, State
    <2>2. RunnerFrame(w)
        BY <1>16 DEF MainFunc, RunnerFrame, TypeInv, Types, PCs
    <2>3. Locals(w)'
        BY <1>16 DEF MainFunc, TypeInv, Types, LocalsInv, Locals, Busy, Cur
    <2> QED
        BY <2>1, <2>2, <2>3, FrameControl, FrameLocals DEF TypeInv
<1>17. ASSUME NEW w \in Runners, SwapOut(w) PROVE TypeInv'
    <2>1. Types'
        BY <1>17 DEF SwapOut, TypeInv, Types, LocalsInv, Locals, Busy, PCs
    <2>2. RunnerFrame(w)
        BY <1>17 DEF SwapOut, RunnerFrame, TypeInv, Types, PCs
    <2>3. Locals(w)'
        BY <1>17 DEF SwapOut, TypeInv, Types, LocalsInv, Locals, Busy, Cur
    <2> QED
        BY <2>1, <2>2, <2>3, FrameControl, FrameLocals DEF TypeInv
<1>18. CASE Start
    <2>1. Types'
        <3>1. pc' \in [Threads -> PCs]
            BY <1>18 DEF Start, TypeInv, Types, PCs
        <3>2. idle_fiber' \in [Threads -> {"INIT", "EXEC", "HOLD", "TERM"}]
            BY <1>18 DEF Start, TypeInv, Types
        <3>3. starts' = starts + 1 /\ m_threads' = Workers /\ m_stopping' = FALSE /\ caller' = "on"
            BY <1>18 DEF Start
        <3>4. m_stopping' \in BOOLEAN
            BY <3>3
        <3>5. starts' \in Nat /\ m_threads' \in {{}, Workers} /\ caller' = "on"
            BY <3>3 DEF TypeInv, Types
        <3>6. UNCHANGED <<ft, func_fiber, m_autoStop, m_rootFiber,
                          queueVars, fiberVars, taskVars>>
            BY <1>18 DEF Start
        <3> QED
            BY <3>1, <3>2, <3>4, <3>5, <3>6 DEF TypeInv, Types
    <2>2. \A w \in Workers : pc[w] \in {"none", "exit"}
        BY <1>18 DEF Start, TypeInv, ControlInv
    <2>3. ControlInv'
        BY <1>18, ThreadAssumption DEF Start, TypeInv, Types, ControlInv
    <2>4. LocalsInv'
        BY <1>18, <2>2 DEF Start, TypeInv, Types, LocalsInv, Locals, Busy, Cur
    <2> QED
        BY <2>1, <2>3, <2>4 DEF TypeInv
<1>19. CASE CallRoot
    <2>1. Types'
        BY <1>19 DEF CallRoot, TypeInv, Types, PCs
    <2>2. pc[Caller] = "none"
        BY <1>19 DEF CallRoot, TypeInv, ControlInv
    <2>3. ControlInv'
        BY <1>19, ThreadAssumption DEF CallRoot, TypeInv, Types, ControlInv
    <2>4. LocalsInv'
        BY <1>19, <2>2 DEF CallRoot, TypeInv, Types, LocalsInv, Locals, Busy, Cur
    <2> QED
        BY <2>1, <2>3, <2>4 DEF TypeInv
<1>20. CASE StartIgnored
    BY <1>20 DEF StartIgnored, TypeInv, Types, ControlInv, LocalsInv, Locals, Cur
<1>21. CASE StopBegin
    BY <1>21 DEF StopBegin, TypeInv, Types, ControlInv, LocalsInv, Locals, Cur
<1>22. CASE StopEarly
    BY <1>22 DEF StopEarly, TypeInv, Types, ControlInv, LocalsInv, Locals, Cur
<1>23. CASE StopFlag
    BY <1>23 DEF StopFlag, TypeInv, Types, ControlInv, LocalsInv, Locals, Cur
<1>24. CASE SkipRoot
    BY <1>24 DEF SkipRoot, TypeInv, Types, ControlInv, LocalsInv, Locals, Cur
<1>25. CASE CallDeadRoot
    BY <1>25 DEF CallDeadRoot, TypeInv, Types, ControlInv, LocalsInv, Locals, Cur
<1>26. CASE RootBack
    BY <1>26 DEF RootBack, TypeInv, Types, ControlInv, LocalsInv, Locals, Cur
<1>27. CASE SwapThreads
    BY <1>27 DEF SwapThreads, TypeInv, Types, ControlInv, LocalsInv, Locals, Cur
<1>28. CASE Join
    BY <1>28 DEF Join, TypeInv, Types, ControlInv, LocalsInv, Locals, Cur
<1>29. ASSUME NEW x \in FiberObjs \union Funcs, NEW thr \in Threads \union {AnyThread},
              Push(x, thr)
       PROVE  m_fibers' \in Seq(Entries)
    <2>1. Entry(x, thr) \in Entries
        BY DEF Entry, Entries
    <2> QED
        BY <1>29, <2>1, PushList DEF TypeInv, Types
<1>30. ASSUME NEW w \in Runners, NEW thr \in SwitchTargets, SwitchTo(w, thr) PROVE TypeInv'
    <2>0. yields' \in [Tasks -> Nat]
        BY <1>30, CountYieldType DEF SwitchTo, TypeInv, Types
    <2>a. Cur(w) \in FiberObjs
        BY <1>30 DEF SwitchTo, TypeInv, LocalsInv, Locals, Busy
    <2>b. m_fibers' \in Seq(Entries)
        BY <1>29, <1>30, <2>a DEF SwitchTo
    <2>1. Types'
        BY <1>30, <2>0, <2>b DEF SwitchTo, TypeInv, Types, PCs
    <2>2. RunnerFrame(w)
        BY <1>30 DEF SwitchTo, RunnerFrame, TypeInv, Types, PCs
    <2>3. Locals(w)'
        BY <1>30 DEF SwitchTo, TypeInv, Types, LocalsInv, Locals, Busy, Cur
    <2> QED
        BY <2>1, <2>2, <2>3, FrameControl, FrameLocals DEF TypeInv
<1>31. ASSUME NEW t \in Tasks, NEW thr \in Threads \union {AnyThread}, Push(t, thr),
              issued' = [issued EXCEPT ![t] = thr],
              UNCHANGED <<m_activeThreadCount, m_idleThreadCount, armed, yields,
                          finished, flagVars, fiberVars, runVars>>
       PROVE  TypeInv'
    <2>1. m_fibers' \in Seq(Entries)
        BY <1>29, <1>31 DEF Tasks, FiberObjs
    <2> QED
        BY <1>31, <2>1 DEF TypeInv, Types, ControlInv, LocalsInv, Locals, Cur
<1>32. ASSUME NEW w \in Runners, NEW t \in Tasks, NEW thr \in SpawnPins, Spawn(w, t, thr)
       PROVE  TypeInv'
    BY <1>31, <1>32 DEF Spawn
<1>33. ASSUME NEW t \in Tasks, NEW thr \in Pins, Schedule(t, thr) PROVE TypeInv'
    BY <1>31, <1>33 DEF Schedule
<1>34. ASSUME NEW s \in Tasks, NEW t \in Tasks, ScheduleBatch(s, t) PROVE TypeInv'
    <2>1. Entry(s, AnyThread) \in Entries /\ Entry(t, AnyThread) \in Entries
        BY DEF Entry, Entries, Tasks, FiberObjs
    <2>2. m_fibers' \in Seq(Entries)
        BY <1>34, <2>1, BatchList DEF ScheduleBatch, TypeInv, Types
    <2> QED
        BY <1>34, <2>2 DEF ScheduleBatch, TypeInv, Types, ControlInv, LocalsInv, Locals, Cur
<1>35. ASSUME NEW x \in FiberObjs, Wake(x) PROVE TypeInv'
    <2>1. m_fibers' \in Seq(Entries)
        BY <1>29, <1>35 DEF Wake
    <2> QED
        BY <1>35, <2>1 DEF Wake, TypeInv, Types, ControlInv, LocalsInv, Locals, Cur
<1>36. CASE UNCHANGED vars
    BY <1>36 DEF vars, TypeInv, Types, ControlInv, LocalsInv, Locals, Cur
<1> QED
    BY <1>1, <1>2, <1>3, <1>4, <1>5, <1>6, <1>7, <1>8, <1>9, <1>10, <1>11, <1>12,
       <1>13, <1>14, <1>15, <1>16, <1>17, <1>18, <1>19, <1>20, <1>21, <1>22, <1>23,
       <1>24, <1>25, <1>26, <1>27, <1>28, <1>30, <1>32, <1>33, <1>34, <1>35, <1>36
    DEF Next, RunStep, BodyStep, CallerStep, StopStep

\* Every variable of the scheduler keeps its type, for any number of
\* threads and tasks and whatever switchTo() or a doubled batch does.
LEMMA TypesHold == Spec => []Types
<1>1. TypeInv => Types
    BY DEF TypeInv
<1> QED
    BY <1>1, TypeInit, TypeStep, PTL DEF Spec

-----------------------------------------------------------------------------
(* Ownership of Fiber objects.                                             *)

\* The parts of Ownership that speak of who has a fiber.
OwnInv == OwnerInv /\ ListInv /\ FreshInv /\ StateInv /\ \A w \in Threads : pc[w] # "hold"
\* The inductive invariant of the ownership proof.
FullInv == TypeInv /\ OwnInv

\* At the start nobody has any fiber.
LEMMA OwnInit == Init => OwnInv
<1> SUFFICES ASSUME Init PROVE OwnInv
    OBVIOUS
<1>1. ListTasks = {} /\ ListDistinct
    BY DEF Init, ListTasks, ListDistinct
<1>2. OwnerInv /\ ListInv
    BY <1>1, TaskAssumption DEF Init, OwnerInv, ListInv, Refers
<1>3. FreshInv
    BY <1>1, TaskAssumption DEF Init, FreshInv, Refers
<1>4. StateInv /\ \A w \in Threads : pc[w] # "hold"
    BY DEF Init, StateInv
<1> QED
    BY <1>1, <1>2, <1>3, <1>4 DEF OwnInv

\* What the list holds depends on the list only.
LEMMA SameList == UNCHANGED m_fibers => ListTasks' = ListTasks /\ ListDistinct' = ListDistinct
    BY DEF ListTasks, ListDistinct

\* Without a second submission of a fiber, every step of the scheduler
\* preserves who owns it: one case per action.
LEMMA OwnStep ==
    ASSUME SingleSubmission, FullInv, TypeInv', [Next]_vars
    PROVE  OwnInv'
<1> USE TaskAssumption, ThreadSets
<1> USE DEF queueVars, flagVars, fiberVars, runVars, taskVars
<1>1. ASSUME NEW w \in Runners, TakeTask(w) PROVE OwnInv'
    <2>1. PICK i \in DOMAIN m_fibers :
            /\ Takable(w, m_fibers[i])
            /\ ft' = [ft EXCEPT ![w] = m_fibers[i].task]
            /\ m_fibers' = RemoveAt(m_fibers, i)
        BY <1>1 DEF TakeTask
    <2> DEFINE x == m_fibers[i].task
    <2>2. /\ ListTasks' = ListTasks \ {x} /\ x \in ListTasks /\ ListDistinct'
        BY <2>1, TakeList DEF FullInv, OwnInv, ListInv, TypeInv, Types
    <2>3. /\ ft' = [ft EXCEPT ![w] = x]
          /\ pc[w] = "scan" /\ pc' = [pc EXCEPT ![w] = "dispatch"]
          /\ UNCHANGED <<func_fiber, m_state, armed, issued>>
        BY <1>1, <2>1 DEF TakeTask
    <2>4. x \in FiberObjs => m_state[x] # "EXEC"
        BY <2>1 DEF Takable
    <2>5. ft'[w] \in FiberObjs \union Funcs
        BY <2>3 DEF FullInv, TypeInv, Types, LocalsInv, Locals
    <2> HIDE DEF x
    <2>6. x \in FiberObjs => \A v \in Threads : ~Refers(v, x)
        BY <2>2, <2>4 DEF FullInv, OwnInv, ListInv, Leaving
    <2>7. OwnerInv'
        BY <2>3, <2>6 DEF FullInv, OwnInv, TypeInv, Types, OwnerInv, Refers, FiberObjs
    <2>8. ListInv'
        BY <2>2, <2>3 DEF FullInv, OwnInv, TypeInv, Types, ListInv, Leaving, Refers, Cur,
                          LocalsInv, Locals, Busy, Stopped
    <2>9. FreshInv'
        BY <2>2, <2>3 DEF FullInv, OwnInv, TypeInv, Types, FreshInv, Refers
    <2>10. StateInv'
        BY <2>3, <2>4 DEF FullInv, OwnInv, TypeInv, Types, StateInv, Cur, Busy
    <2>11. \A v \in Threads : pc'[v] # "hold"
        BY <2>3 DEF FullInv, OwnInv, TypeInv, Types
    <2> QED
        BY <2>7, <2>8, <2>9, <2>10, <2>11 DEF OwnInv
<1>2. ASSUME NEW w \in Runners, ExitRun(w) PROVE OwnInv'
    <2>a. ListTasks' = ListTasks /\ ListDistinct' = ListDistinct
        BY <1>2, SameList DEF ExitRun
    <2>1. OwnerInv'
        BY <1>2, <2>a DEF ExitRun, FullInv, OwnInv, TypeInv, Types, OwnerInv, LocalsInv, Locals, Busy, Refers, Cur, FiberObjs
    <2>2. ListInv'
        BY <1>2, <2>a DEF ExitRun, FullInv, OwnInv, TypeInv, Types, ListInv, OwnerInv, StateInv, LocalsInv, Locals, Busy, Stopped, Leaving, Refers, Cur
    <2>3. FreshInv'
        BY <1>2, <2>a DEF ExitRun, FullInv, OwnInv, TypeInv, Types, FreshInv, OwnerInv, LocalsInv, Locals, Busy, Refers, Cur
    <2>4. StateInv'
        BY <1>2, <2>a DEF ExitRun, FullInv, OwnInv, TypeInv, Types, StateInv, OwnerInv, LocalsInv, Locals, Busy, Refers, Cur
    <2>5. \A v \in Threads : pc'[v] # "hold"
        BY <1>2 DEF ExitRun, FullInv, OwnInv, TypeInv, Types
    <2> QED
        BY <2>1, <2>2, <2>3, <2>4, <2>5 DEF OwnInv
<1>3. ASSUME NEW w \in Runners, EnterIdle(w) PROVE OwnInv'
    <2>a. ListTasks' = ListTasks /\ ListDistinct' = ListDistinct
        BY <1>3, SameList DEF EnterIdle
    <2>1. OwnerInv'
        BY <1>3, <2>a DEF EnterIdle, FullInv, OwnInv, TypeInv, Types, OwnerInv, LocalsInv, Locals, Busy, Refers, Cur, FiberObjs
    <2>2. ListInv'
        BY <1>3, <2>a DEF EnterIdle, FullInv, OwnInv, TypeInv, Types, ListInv, OwnerInv, StateInv, LocalsInv, Locals, Busy, Stopped, Leaving, Refers, Cur
    <2>3. FreshInv'
        BY <1>3, <2>a DEF EnterIdle, FullInv, OwnInv, TypeInv, Types, FreshInv, OwnerInv, LocalsInv, Locals, Busy, Refers, Cur
    <2>4. StateInv'
        BY <1>3, <2>a DEF EnterIdle, FullInv, OwnInv, TypeInv, Types, StateInv, OwnerInv, LocalsInv, Locals, Busy, Refers, Cur
    <2>5. \A v \in Threads : pc'[v] # "hold"
        BY <1>3 DEF EnterIdle, FullInv, OwnInv, TypeInv, Types
    <2> QED
        BY <2>1, <2>2, <2>3, <2>4, <2>5 DEF OwnInv
<1>4. ASSUME NEW w \in Runners, IdleCheck(w) PROVE OwnInv'
    <2>a. ListTasks' = ListTasks /\ ListDistinct' = ListDistinct
        BY <1>4, SameList DEF IdleCheck
    <2>1. OwnerInv'
        BY <1>4, <2>a DEF IdleCheck, FullInv, OwnInv, TypeInv, Types, OwnerInv, LocalsInv, Locals, Busy, Refers, Cur, FiberObjs
    <2>2. ListInv'
        BY <1>4, <2>a DEF IdleCheck, FullInv, OwnInv, TypeInv, Types, ListInv, OwnerInv, StateInv, LocalsInv, Locals, Busy, Stopped, Leaving, Refers, Cur
    <2>3. FreshInv'
        BY <1>4, <2>a DEF IdleCheck, FullInv, OwnInv, TypeInv, Types, FreshInv, OwnerInv, LocalsInv, Locals, Busy, Refers, Cur
    <2>4. StateInv'
        BY <1>4, <2>a DEF IdleCheck, FullInv, OwnInv, TypeInv, Types, StateInv, OwnerInv, LocalsInv, Locals, Busy, Refers, Cur
    <2>5. \A v \in Threads : pc'[v] # "hold"
        BY <1>4 DEF IdleCheck, FullInv, OwnInv, TypeInv, Types
    <2> QED
        BY <2>1, <2>2, <2>3, <2>4, <2>5 DEF OwnInv
<1>5. ASSUME NEW w \in Runners, SwapInFiber(w) PROVE OwnInv'
    <2>a. ListTasks' = ListTasks /\ ListDistinct' = ListDistinct
        BY <1>5, SameList DEF SwapInFiber
    <2>1. OwnerInv'
        BY <1>5, <2>a DEF SwapInFiber, FullInv, OwnInv, TypeInv, Types, OwnerInv, LocalsInv, Locals, Busy, Refers, Cur, FiberObjs
    <2>2. ListInv'
        BY <1>5, <2>a DEF SwapInFiber, FullInv, OwnInv, TypeInv, Types, ListInv, OwnerInv, StateInv, LocalsInv, Locals, Busy, Stopped, Leaving, Refers, Cur
    <2>3. FreshInv'
        BY <1>5, <2>a DEF SwapInFiber, FullInv, OwnInv, TypeInv, Types, FreshInv, OwnerInv, LocalsInv, Locals, Busy, Refers, Cur
    <2>4. StateInv'
        BY <1>5, <2>a DEF SwapInFiber, FullInv, OwnInv, TypeInv, Types, StateInv, OwnerInv, LocalsInv, Locals, Busy, Refers, Cur
    <2>5. \A v \in Threads : pc'[v] # "hold"
        BY <1>5 DEF SwapInFiber, FullInv, OwnInv, TypeInv, Types
    <2> QED
        BY <2>1, <2>2, <2>3, <2>4, <2>5 DEF OwnInv
<1>6. ASSUME NEW w \in Runners, SkipDeadFiber(w) PROVE OwnInv'
    <2>a. ListTasks' = ListTasks /\ ListDistinct' = ListDistinct
        BY <1>6, SameList DEF SkipDeadFiber
    <2>1. OwnerInv'
        BY <1>6, <2>a DEF SkipDeadFiber, FullInv, OwnInv, TypeInv, Types, OwnerInv, LocalsInv, Locals, Busy, Refers, Cur, FiberObjs
    <2>2. ListInv'
        BY <1>6, <2>a DEF SkipDeadFiber, FullInv, OwnInv, TypeInv, Types, ListInv, OwnerInv, StateInv, LocalsInv, Locals, Busy, Stopped, Leaving, Refers, Cur
    <2>3. FreshInv'
        BY <1>6, <2>a DEF SkipDeadFiber, FullInv, OwnInv, TypeInv, Types, FreshInv, OwnerInv, LocalsInv, Locals, Busy, Refers, Cur
    <2>4. StateInv'
        BY <1>6, <2>a DEF SkipDeadFiber, FullInv, OwnInv, TypeInv, Types, StateInv, OwnerInv, LocalsInv, Locals, Busy, Refers, Cur
    <2>5. \A v \in Threads : pc'[v] # "hold"
        BY <1>6 DEF SkipDeadFiber, FullInv, OwnInv, TypeInv, Types
    <2> QED
        BY <2>1, <2>2, <2>3, <2>4, <2>5 DEF OwnInv
<1>7. ASSUME NEW w \in Runners, SwapInFunc(w) PROVE OwnInv'
    <2>1. PICK x \in Pool :
            /\ IF func_fiber[w] # Nil THEN x = func_fiber[w] ELSE m_state[x] = "NONE"
            /\ func_fiber' = [func_fiber EXCEPT ![w] = x]
            /\ m_state' = [m_state EXCEPT ![x] = "EXEC"]
        BY <1>7 DEF SwapInFunc
    <2>2. /\ pc[w] = "dispatch" /\ pc' = [pc EXCEPT ![w] = "user"]
          /\ ft' = [ft EXCEPT ![w] = Nil]
          /\ UNCHANGED <<m_fibers, armed, issued>>
        BY <1>7 DEF SwapInFunc
    <2>3. ListTasks' = ListTasks /\ ListDistinct' = ListDistinct
        BY <2>2, SameList
    <2>4. x \in FiberObjs /\ x # Nil
        BY DEF FiberObjs
    <2>5. ft[w] \in Funcs
        BY <1>7 DEF SwapInFunc
    <2>6. /\ \A v \in Threads : v # w => ~Refers(v, x)
          /\ x \notin ListTasks /\ x \notin armed
        <3>1. CASE func_fiber[w] # Nil
            BY <2>1, <2>2, <2>4, <2>5, <3>1
            DEF FullInv, OwnInv, OwnerInv, ListInv, Leaving, Refers, Stopped
        <3>2. CASE func_fiber[w] = Nil
            BY <2>1, <2>4, <3>2 DEF FullInv, OwnInv, FreshInv
        <3> QED
            BY <3>1, <3>2
    <2>7. OwnerInv'
        BY <2>1, <2>2, <2>4, <2>6 DEF FullInv, OwnInv, TypeInv, Types, OwnerInv, Refers
    <2>8. ListInv'
        BY <2>1, <2>2, <2>3, <2>4, <2>6
        DEF FullInv, OwnInv, TypeInv, Types, ListInv, Leaving, Refers, Cur
    <2>9. FreshInv'
        BY <2>1, <2>2, <2>3, <2>4, <2>6
        DEF FullInv, OwnInv, TypeInv, Types, FreshInv, Refers
    <2>10. StateInv'
        BY <2>1, <2>2, <2>4, <2>6
        DEF FullInv, OwnInv, TypeInv, Types, StateInv, Refers, Cur, Busy, LocalsInv, Locals
    <2>11. \A v \in Threads : pc'[v] # "hold"
        BY <2>2 DEF FullInv, OwnInv, TypeInv, Types
    <2> QED
        BY <2>7, <2>8, <2>9, <2>10, <2>11 DEF OwnInv
<1>8. ASSUME NEW w \in Runners, Deactivate(w) PROVE OwnInv'
    <2>a. ListTasks' = ListTasks /\ ListDistinct' = ListDistinct
        BY <1>8, SameList DEF Deactivate
    <2>1. OwnerInv'
        BY <1>8, <2>a DEF Deactivate, FullInv, OwnInv, TypeInv, Types, OwnerInv, LocalsInv, Locals, Busy, Refers, Cur, FiberObjs
    <2>2. ListInv'
        BY <1>8, <2>a DEF Deactivate, FullInv, OwnInv, TypeInv, Types, ListInv, OwnerInv, StateInv, LocalsInv, Locals, Busy, Stopped, Leaving, Refers, Cur
    <2>3. FreshInv'
        BY <1>8, <2>a DEF Deactivate, FullInv, OwnInv, TypeInv, Types, FreshInv, OwnerInv, LocalsInv, Locals, Busy, Refers, Cur
    <2>4. StateInv'
        BY <1>8, <2>a DEF Deactivate, FullInv, OwnInv, TypeInv, Types, StateInv, OwnerInv, LocalsInv, Locals, Busy, Refers, Cur
    <2>5. \A v \in Threads : pc'[v] # "hold"
        BY <1>8 DEF Deactivate, FullInv, OwnInv, TypeInv, Types
    <2> QED
        BY <2>1, <2>2, <2>3, <2>4, <2>5 DEF OwnInv
<1>9. ASSUME NEW w \in Runners, Requeue(w) PROVE OwnInv'
    <2>0. Cur(w) \in FiberObjs /\ Refers(w, Cur(w)) /\ Entry(Cur(w), AnyThread) \in Entries
        BY <1>9 DEF Requeue, FullInv, TypeInv, LocalsInv, Locals, Busy, Refers, Cur, Entry, Entries
    <2>b. Cur(w) \notin ListTasks /\ Cur(w) \notin armed
        BY <1>9, <2>0 DEF Requeue, FullInv, OwnInv, ListInv, Leaving, Yielded
    <2>a. ListTasks' = ListTasks \union {Cur(w)} /\ ListDistinct'
        BY <1>9, <2>0, <2>b, PushList DEF Requeue, FullInv, OwnInv, ListInv, TypeInv, Types
    <2>1. OwnerInv'
        BY <1>9, <2>0, <2>a, <2>b DEF Requeue, Release, FullInv, OwnInv, TypeInv, Types, OwnerInv, LocalsInv, Locals, Busy, Refers, Cur, FiberObjs
    <2>2. ListInv'
        BY <1>9, <2>0, <2>a, <2>b DEF Requeue, Release, FullInv, OwnInv, TypeInv, Types, ListInv, OwnerInv, StateInv, LocalsInv, Locals, Busy, Stopped, Leaving, Refers, Cur
    <2>3. FreshInv'
        BY <1>9, <2>0, <2>a, <2>b DEF Requeue, Release, FullInv, OwnInv, TypeInv, Types, FreshInv, OwnerInv, LocalsInv, Locals, Busy, Refers, Cur
    <2>4. StateInv'
        BY <1>9, <2>0, <2>a, <2>b DEF Requeue, Release, FullInv, OwnInv, TypeInv, Types, StateInv, OwnerInv, LocalsInv, Locals, Busy, Refers, Cur
    <2>5. \A v \in Threads : pc'[v] # "hold"
        BY <1>9 DEF Requeue, FullInv, OwnInv, TypeInv, Types
    <2> QED
        BY <2>1, <2>2, <2>3, <2>4, <2>5 DEF OwnInv
<1>10. ASSUME NEW w \in Runners, HoldTask(w) PROVE OwnInv'
    <2>a. ListTasks' = ListTasks /\ ListDistinct' = ListDistinct
        BY <1>10, SameList DEF HoldTask
    <2>1. OwnerInv'
        BY <1>10, <2>a DEF HoldTask, Release, FullInv, OwnInv, TypeInv, Types, OwnerInv, LocalsInv, Locals, Busy, Refers, Cur, FiberObjs
    <2>2. ListInv'
        BY <1>10, <2>a DEF HoldTask, Release, FullInv, OwnInv, TypeInv, Types, ListInv, OwnerInv, StateInv, LocalsInv, Locals, Busy, Stopped, Leaving, Refers, Cur
    <2>3. FreshInv'
        BY <1>10, <2>a DEF HoldTask, Release, FullInv, OwnInv, TypeInv, Types, FreshInv, OwnerInv, LocalsInv, Locals, Busy, Refers, Cur
    <2>4. StateInv'
        BY <1>10, <2>a DEF HoldTask, Release, FullInv, OwnInv, TypeInv, Types, StateInv, OwnerInv, LocalsInv, Locals, Busy, Refers, Cur
    <2>5. \A v \in Threads : pc'[v] # "hold"
        BY <1>10 DEF HoldTask, FullInv, OwnInv, TypeInv, Types
    <2> QED
        BY <2>1, <2>2, <2>3, <2>4, <2>5 DEF OwnInv
<1>11. ASSUME NEW w \in Runners, DropFiber(w) PROVE OwnInv'
    <2>a. ListTasks' = ListTasks /\ ListDistinct' = ListDistinct
        BY <1>11, SameList DEF DropFiber
    <2>1. OwnerInv'
        BY <1>11, <2>a DEF DropFiber, FullInv, OwnInv, TypeInv, Types, OwnerInv, LocalsInv, Locals, Busy, Refers, Cur, FiberObjs
    <2>2. ListInv'
        BY <1>11, <2>a DEF DropFiber, FullInv, OwnInv, TypeInv, Types, ListInv, OwnerInv, StateInv, LocalsInv, Locals, Busy, Stopped, Leaving, Refers, Cur
    <2>3. FreshInv'
        BY <1>11, <2>a DEF DropFiber, FullInv, OwnInv, TypeInv, Types, FreshInv, OwnerInv, LocalsInv, Locals, Busy, Refers, Cur
    <2>4. StateInv'
        BY <1>11, <2>a DEF DropFiber, FullInv, OwnInv, TypeInv, Types, StateInv, OwnerInv, LocalsInv, Locals, Busy, Refers, Cur
    <2>5. \A v \in Threads : pc'[v] # "hold"
        BY <1>11 DEF DropFiber, FullInv, OwnInv, TypeInv, Types
    <2> QED
        BY <2>1, <2>2, <2>3, <2>4, <2>5 DEF OwnInv
<1>12. ASSUME NEW w \in Runners, ResetFunc(w) PROVE OwnInv'
    <2>a. ListTasks' = ListTasks /\ ListDistinct' = ListDistinct
        BY <1>12, SameList DEF ResetFunc
    <2>b. Refers(w, func_fiber[w]) /\ func_fiber[w] \in FiberObjs /\ Cur(w) = func_fiber[w]
        BY <1>12 DEF ResetFunc, FullInv, TypeInv, LocalsInv, Locals, Busy, Refers, Cur
    <2>c. func_fiber[w] \notin ListTasks /\ func_fiber[w] \notin armed
        BY <1>12, <2>b DEF ResetFunc, FullInv, OwnInv, ListInv, Leaving, Finished
    <2>1. OwnerInv'
        BY <1>12, <2>a DEF ResetFunc, FullInv, OwnInv, TypeInv, Types, OwnerInv, LocalsInv, Locals, Busy, Refers, Cur, FiberObjs
    <2>2. ListInv'
        BY <1>12, <2>a, <2>b, <2>c DEF ResetFunc, FullInv, OwnInv, TypeInv, Types, ListInv, OwnerInv, StateInv, LocalsInv, Locals, Busy, Stopped, Leaving, Refers, Cur
    <2>3. FreshInv'
        BY <1>12, <2>a DEF ResetFunc, FullInv, OwnInv, TypeInv, Types, FreshInv, OwnerInv, LocalsInv, Locals, Busy, Refers, Cur
    <2>4. StateInv'
        BY <1>12, <2>a DEF ResetFunc, FullInv, OwnInv, TypeInv, Types, StateInv, OwnerInv, LocalsInv, Locals, Busy, Refers, Cur
    <2>5. \A v \in Threads : pc'[v] # "hold"
        BY <1>12 DEF ResetFunc, FullInv, OwnInv, TypeInv, Types
    <2> QED
        BY <2>1, <2>2, <2>3, <2>4, <2>5 DEF OwnInv
<1>13. ASSUME NEW w \in Runners, YieldToReady(w) PROVE OwnInv'
    <2>a. ListTasks' = ListTasks /\ ListDistinct' = ListDistinct
        BY <1>13, SameList DEF YieldToReady
    <2>1. OwnerInv'
        BY <1>13, <2>a DEF YieldToReady, FullInv, OwnInv, TypeInv, Types, OwnerInv, LocalsInv, Locals, Busy, Refers, Cur, FiberObjs
    <2>2. ListInv'
        BY <1>13, <2>a DEF YieldToReady, FullInv, OwnInv, TypeInv, Types, ListInv, OwnerInv, StateInv, LocalsInv, Locals, Busy, Stopped, Leaving, Refers, Cur
    <2>3. FreshInv'
        BY <1>13, <2>a DEF YieldToReady, FullInv, OwnInv, TypeInv, Types, FreshInv, OwnerInv, LocalsInv, Locals, Busy, Refers, Cur
    <2>4. StateInv'
        BY <1>13, <2>a DEF YieldToReady, FullInv, OwnInv, TypeInv, Types, StateInv, OwnerInv, LocalsInv, Locals, Busy, Refers, Cur
    <2>5. \A v \in Threads : pc'[v] # "hold"
        BY <1>13 DEF YieldToReady, FullInv, OwnInv, TypeInv, Types
    <2> QED
        BY <2>1, <2>2, <2>3, <2>4, <2>5 DEF OwnInv
<1>14. ASSUME NEW w \in Runners, YieldToHold(w) PROVE OwnInv'
    <2>a. ListTasks' = ListTasks /\ ListDistinct' = ListDistinct
        BY <1>14, SameList DEF YieldToHold
    <2>1. OwnerInv'
        BY <1>14, <2>a DEF YieldToHold, FullInv, OwnInv, TypeInv, Types, OwnerInv, LocalsInv, Locals, Busy, Refers, Cur, FiberObjs
    <2>2. ListInv'
        BY <1>14, <2>a DEF YieldToHold, FullInv, OwnInv, TypeInv, Types, ListInv, OwnerInv, StateInv, LocalsInv, Locals, Busy, Stopped, Leaving, Refers, Cur
    <2>3. FreshInv'
        BY <1>14, <2>a DEF YieldToHold, FullInv, OwnInv, TypeInv, Types, FreshInv, OwnerInv, LocalsInv, Locals, Busy, Refers, Cur
    <2>4. StateInv'
        BY <1>14, <2>a DEF YieldToHold, FullInv, OwnInv, TypeInv, Types, StateInv, OwnerInv, LocalsInv, Locals, Busy, Refers, Cur
    <2>5. \A v \in Threads : pc'[v] # "hold"
        BY <1>14 DEF YieldToHold, FullInv, OwnInv, TypeInv, Types
    <2> QED
        BY <2>1, <2>2, <2>3, <2>4, <2>5 DEF OwnInv
<1>15. ASSUME NEW w \in Runners, Suspend(w) PROVE OwnInv'
    <2>a. ListTasks' = ListTasks /\ ListDistinct' = ListDistinct
        BY <1>15, SameList DEF Suspend
    <2>1. OwnerInv'
        BY <1>15, <2>a DEF Suspend, FullInv, OwnInv, TypeInv, Types, OwnerInv, LocalsInv, Locals, Busy, Refers, Cur, FiberObjs
    <2>2. ListInv'
        BY <1>15, <2>a DEF Suspend, FullInv, OwnInv, TypeInv, Types, ListInv, OwnerInv, StateInv, LocalsInv, Locals, Busy, Stopped, Leaving, Refers, Cur
    <2>3. FreshInv'
        BY <1>15, <2>a DEF Suspend, FullInv, OwnInv, TypeInv, Types, FreshInv, OwnerInv, LocalsInv, Locals, Busy, Refers, Cur
    <2>4. StateInv'
        BY <1>15, <2>a DEF Suspend, FullInv, OwnInv, TypeInv, Types, StateInv, OwnerInv, LocalsInv, Locals, Busy, Refers, Cur
    <2>5. \A v \in Threads : pc'[v] # "hold"
        BY <1>15 DEF Suspend, FullInv, OwnInv, TypeInv, Types
    <2> QED
        BY <2>1, <2>2, <2>3, <2>4, <2>5 DEF OwnInv
<1>16. ASSUME NEW w \in Runners, MainFunc(w) PROVE OwnInv'
    <2>0. PICK q \in Finished : m_state' = [m_state EXCEPT ![Cur(w)] = q]
        BY <1>16 DEF MainFunc, Finished
    <2>b. /\ pc[w] = "user" /\ pc' = [pc EXCEPT ![w] = "leaving"]
          /\ UNCHANGED <<ft, func_fiber, armed, issued>>
        BY <1>16 DEF MainFunc
    <2>a. ListTasks' = ListTasks /\ ListDistinct' = ListDistinct
        BY <1>16, SameList DEF MainFunc
    <2>1. OwnerInv'
        BY <2>0, <2>a, <2>b DEF Finished, FullInv, OwnInv, TypeInv, Types, OwnerInv, LocalsInv, Locals, Busy, Refers, Cur, FiberObjs
    <2>2. ListInv'
        BY <2>0, <2>a, <2>b DEF Finished, FullInv, OwnInv, TypeInv, Types, ListInv, OwnerInv, StateInv, LocalsInv, Locals, Busy, Stopped, Leaving, Refers, Cur
    <2>3. FreshInv'
        BY <2>0, <2>a, <2>b DEF Finished, FullInv, OwnInv, TypeInv, Types, FreshInv, OwnerInv, LocalsInv, Locals, Busy, Refers, Cur
    <2>4. StateInv'
        BY <2>0, <2>a, <2>b DEF Finished, FullInv, OwnInv, TypeInv, Types, StateInv, OwnerInv, LocalsInv, Locals, Busy, Refers, Cur
    <2>5. \A v \in Threads : pc'[v] # "hold"
        BY <1>16 DEF MainFunc, FullInv, OwnInv, TypeInv, Types
    <2> QED
        BY <2>1, <2>2, <2>3, <2>4, <2>5 DEF OwnInv
<1>17. ASSUME NEW w \in Runners, SwapOut(w) PROVE OwnInv'
    <2>a. ListTasks' = ListTasks /\ ListDistinct' = ListDistinct
        BY <1>17, SameList DEF SwapOut
    <2>1. OwnerInv'
        BY <1>17, <2>a DEF SwapOut, FullInv, OwnInv, TypeInv, Types, OwnerInv, LocalsInv, Locals, Busy, Refers, Cur, FiberObjs
    <2>2. ListInv'
        BY <1>17, <2>a DEF SwapOut, FullInv, OwnInv, TypeInv, Types, ListInv, OwnerInv, StateInv, LocalsInv, Locals, Busy, Stopped, Leaving, Refers, Cur
    <2>3. FreshInv'
        BY <1>17, <2>a DEF SwapOut, FullInv, OwnInv, TypeInv, Types, FreshInv, OwnerInv, LocalsInv, Locals, Busy, Refers, Cur
    <2>4. StateInv'
        BY <1>17, <2>a DEF SwapOut, FullInv, OwnInv, TypeInv, Types, StateInv, OwnerInv, LocalsInv, Locals, Busy, Refers, Cur
    <2>5. \A v \in Threads : pc'[v] # "hold"
        BY <1>17 DEF SwapOut, FullInv, OwnInv, TypeInv, Types
    <2> QED
        BY <2>1, <2>2, <2>3, <2>4, <2>5 DEF OwnInv
<1>18. ASSUME NEW t \in Tasks, NEW thr \in Threads \union {AnyThread}, Push(t, thr),
              issued[t] = Nil, issued' = [issued EXCEPT ![t] = thr],
              UNCHANGED <<armed, m_state, pc, ft, func_fiber>>
       PROVE  OwnInv'
    <2>1. t \in FiberObjs \union Funcs /\ t \notin Pool
        BY DEF Tasks, FiberObjs
    <2>2. t \notin ListTasks /\ t \notin armed /\ \A w \in Threads : ~Refers(w, t)
        BY <1>18, <2>1 DEF FullInv, OwnInv, FreshInv
    <2>3. Entry(t, thr) \in Entries
        BY <2>1 DEF Entry, Entries
    <2>4. ListTasks' = ListTasks \union {t} /\ ListDistinct'
        BY <1>18, <2>2, <2>3, PushList DEF FullInv, OwnInv, ListInv, TypeInv, Types
    <2>5. OwnerInv' /\ ListInv'
        BY <1>18, <2>2, <2>4 DEF FullInv, OwnInv, OwnerInv, ListInv, Leaving, Refers, Cur
    <2>6. thr # Nil
        BY ThreadAssumption
    <2>7. FreshInv'
        BY <1>18, <2>1, <2>4, <2>6 DEF FullInv, OwnInv, TypeInv, Types, FreshInv, Refers, Tasks, FiberObjs
    <2>8. StateInv' /\ \A v \in Threads : pc'[v] # "hold"
        BY <1>18 DEF FullInv, OwnInv, StateInv, Cur
    <2> QED
        BY <2>5, <2>7, <2>8 DEF OwnInv
<1>19. ASSUME NEW w \in Runners, NEW t \in Tasks, NEW thr \in SpawnPins, Spawn(w, t, thr)
       PROVE  OwnInv'
    BY <1>18, <1>19, BoundAssumption DEF Spawn
<1>20. ASSUME NEW t \in Tasks, NEW thr \in Pins, Schedule(t, thr) PROVE OwnInv'
    BY <1>18, <1>20, BoundAssumption DEF Schedule
<1>21. ASSUME NEW r \in Tasks, NEW t \in Tasks, ScheduleBatch(r, t) PROVE OwnInv'
    <2>1. /\ r # t /\ issued[r] = Nil /\ issued[t] = Nil
          /\ issued' = [issued EXCEPT ![r] = AnyThread, ![t] = AnyThread]
          /\ UNCHANGED <<armed, m_state, pc, ft, func_fiber>>
        BY <1>21 DEF ScheduleBatch, SingleSubmission
    <2>2. {r, t} \subseteq FiberObjs \union Funcs /\ r \notin Pool /\ t \notin Pool
        BY DEF Tasks, FiberObjs
    <2>3. \A x \in {r, t} : x \notin ListTasks /\ x \notin armed /\ \A w \in Threads : ~Refers(w, x)
        BY <2>1, <2>2 DEF FullInv, OwnInv, FreshInv
    <2>4. Entry(r, AnyThread) \in Entries /\ Entry(t, AnyThread) \in Entries
        BY <2>2 DEF Entry, Entries
    <2>5. ListTasks' = ListTasks \union {r, t} /\ ListDistinct'
        BY <1>21, <2>1, <2>3, <2>4, BatchList
        DEF ScheduleBatch, FullInv, OwnInv, ListInv, TypeInv, Types
    <2>6. OwnerInv' /\ ListInv'
        BY <2>1, <2>3, <2>5 DEF FullInv, OwnInv, OwnerInv, ListInv, Leaving, Refers, Cur
    <2>7. FreshInv'
        BY <2>1, <2>2, <2>5, ThreadAssumption
        DEF FullInv, OwnInv, TypeInv, Types, FreshInv, Refers, Tasks, FiberObjs
    <2>8. StateInv' /\ \A v \in Threads : pc'[v] # "hold"
        BY <2>1 DEF FullInv, OwnInv, StateInv, Cur
    <2> QED
        BY <2>6, <2>7, <2>8 DEF OwnInv
<1>22. ASSUME NEW x \in FiberObjs, Wake(x) PROVE OwnInv'
    <2>1. /\ x \in armed /\ armed' = armed \ {x}
          /\ UNCHANGED <<issued, m_state, pc, ft, func_fiber>>
        BY <1>22 DEF Wake
    <2>2. x \notin ListTasks
        BY <2>1 DEF FullInv, OwnInv, ListInv
    <2>3. Entry(x, AnyThread) \in Entries
        BY DEF Entry, Entries
    <2>4. ListTasks' = ListTasks \union {x} /\ ListDistinct'
        BY <1>22, <2>2, <2>3, PushList DEF Wake, FullInv, OwnInv, ListInv, TypeInv, Types
    <2>5. OwnerInv' /\ ListInv'
        BY <2>1, <2>2, <2>4 DEF FullInv, OwnInv, OwnerInv, ListInv, Leaving, Refers, Cur
    <2>6. FreshInv'
        BY <2>1, <2>4 DEF FullInv, OwnInv, FreshInv, Refers
    <2>7. StateInv' /\ \A v \in Threads : pc'[v] # "hold"
        BY <2>1 DEF FullInv, OwnInv, StateInv, Cur
    <2> QED
        BY <2>5, <2>6, <2>7 DEF OwnInv
<1>23. ASSUME UNCHANGED <<m_fibers, issued, armed, m_state, ft, func_fiber>>,
              \A w \in Threads : \/ pc'[w] = pc[w]
                                 \/ pc[w] \in {"none", "exit"} /\ pc'[w] = "scan"
       PROVE  OwnInv'
    <2>1. ListTasks' = ListTasks /\ ListDistinct' = ListDistinct
        BY <1>23, SameList
    <2>2. OwnerInv' /\ FreshInv'
        BY <1>23, <2>1 DEF FullInv, OwnInv, OwnerInv, FreshInv, Refers
    <2>3. ListInv'
        BY <1>23, <2>1 DEF FullInv, OwnInv, ListInv, Leaving, Refers, Cur, Stopped
    <2>4. StateInv' /\ \A v \in Threads : pc'[v] # "hold"
        BY <1>23 DEF FullInv, OwnInv, StateInv, Cur, Busy
    <2> QED
        BY <2>2, <2>3, <2>4 DEF OwnInv
<1>24. CASE Start
    <2>1. \A w \in Workers : pc[w] \in {"none", "exit"}
        BY <1>24 DEF Start, FullInv, TypeInv, ControlInv
    <2> QED
        BY <1>23, <1>24, <2>1 DEF Start
<1>25. CASE CallRoot
    <2>1. pc[Caller] = "none"
        BY <1>25 DEF CallRoot, FullInv, TypeInv, ControlInv
    <2> QED
        BY <1>23, <1>25, <2>1 DEF CallRoot, FullInv, TypeInv, Types
<1>26. CASE StartIgnored \/ StopBegin \/ StopEarly \/ StopFlag \/ SkipRoot \/ CallDeadRoot
            \/ RootBack \/ SwapThreads \/ Join
    BY <1>23, <1>26 DEF StartIgnored, StopBegin, StopEarly, StopFlag, SkipRoot, CallDeadRoot,
                        RootBack, SwapThreads, Join
<1>27. CASE UNCHANGED vars
    BY <1>23, <1>27 DEF vars
<1> QED
    BY <1>1, <1>2, <1>3, <1>4, <1>5, <1>6, <1>7, <1>8, <1>9, <1>10, <1>11, <1>12,
       <1>13, <1>14, <1>15, <1>16, <1>17, <1>19, <1>20, <1>21, <1>22, <1>24, <1>25,
       <1>26, <1>27
    DEF Next, RunStep, BodyStep, CallerStep, StopStep, SingleSubmission

\* Without switchTo() and doubled batches a Fiber object is never in two
\* hands, except in the wake-up window that its EXEC state covers.
THEOREM OwnershipHolds ==
    ASSUME SingleSubmission
    PROVE  Spec => []Ownership
<1>1. FullInv => Ownership
    BY DEF FullInv, TypeInv, OwnInv, Ownership
<1>2. Init => FullInv
    BY TypeInit, OwnInit DEF FullInv
<1>3. FullInv /\ [Next]_vars => FullInv'
    BY TypeStep, OwnStep DEF FullInv
<1> QED
    BY <1>1, <1>2, <1>3, PTL DEF Spec

\* What the precondition of swapIn and the assertions of fiber.cc need of the
\* invariant.
LEMMA OwnershipSafe ==
    ASSUME Types, Ownership
    PROVE  SwapInPre /\ FiberAsserts
<1> USE ThreadSets
<1>1. ASSUME NEW v \in Runners, NEW w \in Runners, v # w
      PROVE  /\ pc[w] \in OnStackPCs /\ pc[v] \in OnStackPCs => Cur(v) # Cur(w)
             /\ pc[w] = "dispatch" /\ ft[w] \in FiberObjs =>
                 /\ m_state[ft[w]] # "EXEC"
                 /\ pc[v] \in OnStackPCs => Cur(v) # ft[w]
    BY <1>1 DEF Ownership, OwnerInv, LocalsInv, Locals, StateInv, Refers, Cur, OnStackPCs, Busy
<1>2. ASSUME NEW w \in Runners
      PROVE  /\ pc[w] \in {"scan", "idle", "dispatch"} /\ func_fiber[w] # Nil =>
                    m_state[func_fiber[w]] \in Resettable
             /\ pc[w] \in {"user", "hold"} => m_state[Cur(w)] = "EXEC"
    BY DEF Ownership, StateInv, Busy, Resettable
<1> QED
    BY <1>1, <1>2 DEF SwapInPre, FiberAsserts

\* Fiber::swapIn's precondition holds at every dispatch of run(), and no
\* fiber runs on two threads.
THEOREM SwapInSafe ==
    ASSUME SingleSubmission
    PROVE  Spec => []SwapInPre
    BY OwnershipHolds, TypesHold, OwnershipSafe, PTL

\* The assertions of Fiber::reset and of the yields never fail in run().
THEOREM AssertsHold ==
    ASSUME SingleSubmission
    PROVE  Spec => []FiberAsserts
    BY OwnershipHolds, TypesHold, OwnershipSafe, PTL

-----------------------------------------------------------------------------
(* The two counters.                                                       *)

\* The runners whose program counter is in C.
At(C) == {v \in Runners : pc[v] \in C}

\* Finitely many threads execute run().
LEMMA RunnersFinite == IsFiniteSet(Runners)
    BY ThreadAssumption, FS_AddElement DEF Runners

\* One runner moves: the number of runners in C follows.
LEMMA CountMove ==
    ASSUME NEW C, NEW w \in Runners, NEW p, Types, pc' = [pc EXCEPT ![w] = p]
    PROVE  /\ Cardinality(At(C)) \in Nat
           /\ pc[w] \notin C /\ p \in C => Cardinality(At(C)') = Cardinality(At(C)) + 1
           /\ pc[w] \in C /\ p \notin C => Cardinality(At(C)') = Cardinality(At(C)) - 1
           /\ (pc[w] \in C <=> p \in C) => At(C)' = At(C)
<1>1. pc'[w] = p /\ \A v \in Runners : v # w => pc'[v] = pc[v]
    BY ThreadSets DEF Types
<1>2. IsFiniteSet(At(C)) /\ Cardinality(At(C)) \in Nat
    BY RunnersFinite, FS_Subset, FS_CardinalityType DEF At
<1>3. ASSUME pc[w] \notin C, p \in C PROVE Cardinality(At(C)') = Cardinality(At(C)) + 1
    <2>1. At(C)' = At(C) \union {w} /\ w \notin At(C)
        BY <1>1, <1>3 DEF At
    <2> QED
        BY <1>2, <2>1, FS_AddElement
<1>4. ASSUME pc[w] \in C, p \notin C PROVE Cardinality(At(C)') = Cardinality(At(C)) - 1
    <2>1. At(C)' = At(C) \ {w} /\ w \in At(C)
        BY <1>1, <1>4 DEF At
    <2> QED
        BY <1>2, <2>1, FS_RemoveElement
<1>5. ASSUME pc[w] \in C <=> p \in C PROVE At(C)' = At(C)
    BY <1>1, <1>5 DEF At
<1> QED
    BY <1>2, <1>3, <1>4, <1>5

\* CountsExact in terms of the sets of runners at a group of places.
CountInv == /\ m_activeThreadCount = Cardinality(At(Counted))
            /\ m_idleThreadCount = Cardinality(At({"idle"}))

\* Nobody is counted at the start.
LEMMA CountInit == Init => CountInv
<1> SUFFICES ASSUME Init PROVE CountInv
    OBVIOUS
<1>1. At(Counted) = {} /\ At({"idle"}) = {}
    BY ThreadSets DEF Init, At, Counted
<1> QED
    BY <1>1, FS_EmptySet DEF Init, CountInv

\* A runner enters and leaves the counted places exactly where run()
\* increments and decrements.
LEMMA CountStep == TypeInv /\ CountInv /\ [Next]_vars => CountInv'
<1> SUFFICES ASSUME TypeInv, CountInv, [Next]_vars PROVE CountInv'
    OBVIOUS
<1> USE DEF queueVars, flagVars, fiberVars, runVars, taskVars
\* A runner starts to be counted, stops to be counted, or neither.
<1>1. ASSUME NEW w \in Runners, TakeTask(w) PROVE CountInv'
    BY <1>1, CountMove DEF TakeTask, CountInv, Counted, TypeInv
<1>2. ASSUME NEW w \in Runners, SkipDeadFiber(w) \/ Deactivate(w) PROVE CountInv'
    BY <1>2, CountMove DEF SkipDeadFiber, Deactivate, CountInv, Counted, TypeInv
<1>3. ASSUME NEW w \in Runners, EnterIdle(w) PROVE CountInv'
    <2>1. /\ pc[w] = "scan" /\ pc' = [pc EXCEPT ![w] = "idle"]
          /\ m_idleThreadCount' = m_idleThreadCount + 1
          /\ UNCHANGED m_activeThreadCount
        BY <1>3 DEF EnterIdle
    <2>2. At(Counted)' = At(Counted)
        <3>1. "scan" \notin Counted /\ "idle" \notin Counted
            BY DEF Counted
        <3> QED
            BY <2>1, <3>1, CountMove DEF TypeInv
    <2>3. Cardinality(At({"idle"})') = Cardinality(At({"idle"})) + 1
        BY <2>1, CountMove DEF TypeInv
    <2> QED
        BY <2>1, <2>2, <2>3 DEF CountInv
<1>4. ASSUME NEW w \in Runners, IdleCheck(w) PROVE CountInv'
    <2>1. /\ pc[w] = "idle" /\ pc' = [pc EXCEPT ![w] = "scan"]
          /\ m_idleThreadCount' = m_idleThreadCount - 1
          /\ UNCHANGED m_activeThreadCount
        BY <1>4 DEF IdleCheck
    <2>2. At(Counted)' = At(Counted)
        <3>1. "scan" \notin Counted /\ "idle" \notin Counted
            BY DEF Counted
        <3> QED
            BY <2>1, <3>1, CountMove DEF TypeInv
    <2>3. Cardinality(At({"idle"})') = Cardinality(At({"idle"})) - 1
        <3>1. pc[w] \in {"idle"} /\ "scan" \notin {"idle"}
            BY <2>1
        <3> QED
            BY <2>1, <3>1, CountMove DEF TypeInv
    <2> QED
        BY <2>1, <2>2, <2>3 DEF CountInv
<1>5. ASSUME NEW w \in Runners, NEW p, pc' = [pc EXCEPT ![w] = p],
             UNCHANGED <<m_activeThreadCount, m_idleThreadCount>>,
             pc[w] # "idle", p # "idle", pc[w] \in Counted <=> p \in Counted
      PROVE  CountInv'
    BY <1>5, CountMove DEF CountInv, TypeInv
<1>6. ASSUME NEW w \in Runners,
             ExitRun(w) \/ SwapInFiber(w) \/ SwapInFunc(w) \/ Requeue(w) \/ HoldTask(w)
                \/ DropFiber(w) \/ ResetFunc(w) \/ YieldToReady(w) \/ YieldToHold(w)
                \/ Suspend(w) \/ MainFunc(w) \/ SwapOut(w)
      PROVE  CountInv'
    BY <1>5, <1>6 DEF ExitRun, SwapInFiber, SwapInFunc, Requeue, HoldTask, DropFiber,
        ResetFunc, YieldToReady, YieldToHold, Suspend, MainFunc, SwapOut, Counted
<1>7. ASSUME NEW w \in Runners, NEW thr \in SwitchTargets, SwitchTo(w, thr) PROVE CountInv'
    BY <1>5, <1>7 DEF SwitchTo, Counted
<1>8. ASSUME UNCHANGED <<m_activeThreadCount, m_idleThreadCount>>,
             \A w \in Threads : \/ pc'[w] = pc[w]
                                \/ pc[w] \in {"none", "exit"} /\ pc'[w] = "scan"
      PROVE  CountInv'
    <2>1. At(Counted)' = At(Counted) /\ At({"idle"})' = At({"idle"})
        BY <1>8, ThreadSets DEF At, Counted
    <2> QED
        BY <1>8, <2>1 DEF CountInv
<1>9. CASE Start
    <2>1. \A w \in Workers : pc[w] \in {"none", "exit"}
        BY <1>9 DEF Start, TypeInv, ControlInv
    <2> QED
        BY <1>8, <1>9, <2>1 DEF Start
<1>10. CASE CallRoot
    <2>1. pc[Caller] = "none"
        BY <1>10 DEF CallRoot, TypeInv, ControlInv
    <2> QED
        BY <1>8, <1>10, <2>1 DEF CallRoot, TypeInv, Types
<1>11. CASE StartIgnored \/ StopBegin \/ StopEarly \/ StopFlag \/ SkipRoot \/ CallDeadRoot
            \/ RootBack \/ SwapThreads \/ Join
    BY <1>8, <1>11 DEF StartIgnored, StopBegin, StopEarly, StopFlag, SkipRoot, CallDeadRoot,
                       RootBack, SwapThreads, Join
<1>12. ASSUME NEW t \in Tasks, NEW thr, Schedule(t, thr) PROVE CountInv'
    BY <1>8, <1>12 DEF Schedule
<1>13. ASSUME NEW w \in Runners, NEW t \in Tasks, NEW thr, Spawn(w, t, thr) PROVE CountInv'
    BY <1>8, <1>13 DEF Spawn
<1>14. ASSUME NEW r \in Tasks, NEW t \in Tasks, ScheduleBatch(r, t) PROVE CountInv'
    BY <1>8, <1>14 DEF ScheduleBatch
<1>15. ASSUME NEW x \in FiberObjs, Wake(x) PROVE CountInv'
    BY <1>8, <1>15 DEF Wake
<1>16. CASE UNCHANGED vars
    BY <1>8, <1>16 DEF vars
<1> QED
    BY <1>1, <1>2, <1>3, <1>4, <1>6, <1>7, <1>9, <1>10, <1>11, <1>12, <1>13, <1>14,
       <1>15, <1>16
    DEF Next, RunStep, BodyStep, CallerStep, StopStep

\* m_activeThreadCount, which decides when the scheduler may stop, is exact
\* on every path through run(), hence a size_t that never wraps; and so is
\* m_idleThreadCount.
THEOREM CountersExact == Spec => []CountsExact
<1>1. CountInv => CountsExact
    <2>1. At({"idle"}) = {w \in Runners : pc[w] = "idle"}
        BY DEF At
    <2> QED
        BY <2>1 DEF CountInv, CountsExact, At
<1> QED
    BY <1>1, TypeInit, TypeStep, CountInit, CountStep, PTL DEF Spec

\* Type correctness, the counters included: no path through run() decrements
\* m_activeThreadCount or m_idleThreadCount, which are size_t, below zero.
THEOREM TypeCorrect == Spec => []TypeOK
<1>1. Types /\ CountsExact => TypeOK
    <2> SUFFICES ASSUME Types, CountsExact PROVE TypeOK
        OBVIOUS
    <2>1. \A C : Cardinality(At(C)) \in Nat
        BY RunnersFinite, FS_Subset, FS_CardinalityType DEF At
    <2>2. At({"idle"}) = {w \in Runners : pc[w] = "idle"}
        BY DEF At
    <2> QED
        BY <2>1, <2>2 DEF CountsExact, At, TypeOK
<1> QED
    BY <1>1, TypesHold, CountersExact, PTL
=============================================================================
