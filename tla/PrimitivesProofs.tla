-------------------------- MODULE PrimitivesProofs --------------------------
(***************************************************************************)
(* Proofs about the components below the scheduler, the configuration and  *)
(* the log: Locks, Thread, Env and FSUtil, each a separate specification.  *)
(***************************************************************************)
EXTENDS Locks, Thread, Env, FSUtil, FiniteSetTheorems, SequenceTheorems, TLAPS

-----------------------------------------------------------------------------
(* Locks: they exclude, for every set of guards and of locks.              *)

\* The sets of holders are finite, and a guard that has the lock is in one.
LEMMA HoldersFacts ==
    ASSUME NEW l, NEW m
    PROVE  /\ IsFiniteSet(Holders(l, m))
           /\ Cardinality(Holders(l, m)) \in Nat
           /\ Cardinality(Holders(l, m)) = 0 <=> Holders(l, m) = {}
<1>1. Holders(l, m) \subseteq Guards BY DEF Holders
<1>2. IsFiniteSet(Holders(l, m)) BY <1>1, FS_Subset, LocksAssumption
<1> QED BY <1>2, FS_CardinalityType, FS_EmptySet

\* A step that changes neither the locks nor who holds which of them keeps
\* the invariant.
LEMMA SameHolders ==
    ASSUME LocksInv, LocksTypeOK', UNCHANGED <<writer, readers>>,
           \A l \in LockObjects, m \in Modes : Holders(l, m)' = Holders(l, m)
    PROVE  LocksInv'
<1> "read" \in Modes /\ "write" \in Modes BY DEF Modes
<1> QED BY DEF LocksInv

LEMMA TypeStep ==
    ASSUME LocksTypeOK, NEW g \in Guards, GuardStep(g)
    PROVE  LocksTypeOK'
<1> USE DEF LocksTypeOK, Places, Modes, GuardAt
<1>1. ASSUME NEW l \in LockObjects, NEW m \in Modes, NEW garbage \in BOOLEAN,
             GuardConstruct(g, l, m, garbage)
      PROVE  LocksTypeOK'
    BY <1>1 DEF GuardConstruct
<1>2. CASE GuardLock(g) BY <1>2 DEF GuardLock
<1>3. CASE GuardAcquire(g)
    <2>1. PICK k \in LockObjects, n \in Nat, b \in BOOLEAN :
            readers' = [readers EXCEPT ![k] = n] /\ writer' = [writer EXCEPT ![k] = b]
        <3>1. m_mutex_of[g] \in LockObjects /\ readers[m_mutex_of[g]] \in Nat OBVIOUS
        <3>2. CASE mode[g] = "read"
            <4>1. /\ readers' = [readers EXCEPT ![m_mutex_of[g]] = readers[m_mutex_of[g]] + 1]
                  /\ writer' = [writer EXCEPT ![m_mutex_of[g]] = writer[m_mutex_of[g]]]
                BY <1>3, <3>2 DEF GuardAcquire, Lock
            <4>2. writer[m_mutex_of[g]] \in BOOLEAN /\ readers[m_mutex_of[g]] + 1 \in Nat BY <3>1
            <4> QED BY <3>1, <4>1, <4>2, Zenon
        <3>3. CASE mode[g] = "write"
            <4>1. /\ readers' = [readers EXCEPT ![m_mutex_of[g]] = readers[m_mutex_of[g]]]
                  /\ writer' = [writer EXCEPT ![m_mutex_of[g]] = TRUE]
                BY <1>3, <3>3 DEF GuardAcquire, Lock
            <4> QED BY <3>1, <4>1
        <3> QED BY <3>2, <3>3
    <2>2. readers' \in [LockObjects -> Nat] BY <2>1
    <2>3. writer' \in [LockObjects -> BOOLEAN] BY <2>1
    <2> QED BY <1>3, <2>2, <2>3 DEF GuardAcquire
<1>4. CASE GuardSet(g) BY <1>4 DEF GuardSet
<1>5. ASSUME NEW destructor \in BOOLEAN, GuardUnlock(g, destructor)
      PROVE  LocksTypeOK'
    BY <1>5 DEF GuardUnlock
<1>6. CASE GuardRelease(g)
    <2>1. m_mutex_of[g] \in LockObjects /\ readers[m_mutex_of[g]] \in Nat OBVIOUS
    <2>2. readers' \in [LockObjects -> Nat] BY <1>6, <2>1 DEF GuardRelease, Unlock
    <2>3. writer' = writer \/ writer' = [writer EXCEPT ![m_mutex_of[g]] = FALSE]
        BY <1>6 DEF GuardRelease, Unlock
    <2>4. writer' \in [LockObjects -> BOOLEAN] BY <2>1, <2>3
    <2> QED BY <1>6, <2>2, <2>4 DEF GuardRelease
<1>7. CASE GuardClear(g) BY <1>7 DEF GuardClear
<1> QED BY <1>1, <1>2, <1>3, <1>4, <1>5, <1>6, <1>7 DEF GuardStep

\* A guard gets a lock: the holders are the same but for that guard.
LEMMA AcquireStep ==
    ASSUME LocksInv, NEW g \in Guards, GuardAcquire(g), LocksTypeOK'
    PROVE  LocksInv'
<1> DEFINE k == m_mutex_of[g]
<1> USE DEF LocksTypeOK, Modes
<1>1. k \in LockObjects /\ mode[g] \in Modes BY DEF LocksInv
<1>2. ~Holds(g) /\ Holds(g)' BY DEF GuardAcquire, GuardAt, Holds, LocksInv
<1>3. \A h \in Guards : h # g => (Holds(h)' <=> Holds(h))
    BY DEF GuardAcquire, GuardAt, Holds, LocksInv
<1>4. g \notin Holders(k, mode[g]) BY <1>2 DEF Holders
<1>5. \A l \in LockObjects, m \in Modes : l = k /\ m = mode[g] =>
        Holders(l, m)' = Holders(l, m) \union {g}
    BY <1>1, <1>2, <1>3 DEF Holders, GuardAcquire
<1>6. \A l \in LockObjects, m \in Modes : l # k \/ m # mode[g] =>
        Holders(l, m)' = Holders(l, m)
    BY <1>1, <1>2, <1>3 DEF Holders, GuardAcquire
<1>7. Cardinality(Holders(k, mode[g]) \union {g}) = Cardinality(Holders(k, mode[g])) + 1
    BY <1>4, HoldersFacts, FS_AddElement
<1>8. CASE mode[g] = "read"
    <2>1. ~writer[k] /\ readers' = [readers EXCEPT ![k] = @ + 1] /\ writer' = writer
        BY <1>8 DEF GuardAcquire, Lock
    <2> SUFFICES ASSUME NEW l \in LockObjects
                 PROVE  /\ readers'[l] = Cardinality(Holders(l, "read")')
                        /\ writer'[l] <=> Holders(l, "write")' # {}
                        /\ writer'[l] => readers'[l] = 0
                        /\ \A i, h \in Holders(l, "write")' : i = h
        BY DEF LocksInv
    <2>2. Holders(l, "write")' = Holders(l, "write") BY <1>6, <1>8
    <2>3. readers'[l] = Cardinality(Holders(l, "read")')
        <3>1. CASE l = k BY <3>1, <2>1, <1>1, <1>5, <1>7, <1>8 DEF LocksInv
        <3>2. CASE l # k BY <3>2, <2>1, <1>6 DEF LocksInv
        <3> QED BY <3>1, <3>2
    <2>4. writer'[l] => readers'[l] = 0 BY <2>1 DEF LocksInv
    <2> QED BY <2>1, <2>2, <2>3, <2>4 DEF LocksInv
<1>9. CASE mode[g] = "write"
    <2>1. /\ ~writer[k] /\ readers[k] = 0
          /\ writer' = [writer EXCEPT ![k] = TRUE] /\ readers' = readers
        BY <1>9 DEF GuardAcquire, Lock
    <2>2. Holders(k, "write") = {} BY <2>1, <1>1 DEF LocksInv
    <2> SUFFICES ASSUME NEW l \in LockObjects
                 PROVE  /\ readers'[l] = Cardinality(Holders(l, "read")')
                        /\ writer'[l] <=> Holders(l, "write")' # {}
                        /\ writer'[l] => readers'[l] = 0
                        /\ \A i, h \in Holders(l, "write")' : i = h
        BY DEF LocksInv
    <2>3. Holders(l, "read")' = Holders(l, "read") BY <1>6, <1>9
    <2>4. CASE l = k
        <3>1. Holders(l, "write")' = {g} BY <2>4, <2>2, <1>5, <1>9
        <3>2. writer'[l] /\ readers'[l] = 0 BY <2>4, <2>1 DEF LocksInv
        <3> QED BY <3>1, <3>2, <2>1, <2>3 DEF LocksInv
    <2>5. CASE l # k
        <3>1. Holders(l, "write")' = Holders(l, "write") BY <2>5, <1>6
        <3> QED BY <3>1, <2>5, <2>1, <2>3 DEF LocksInv
    <2> QED BY <2>4, <2>5
<1> QED BY <1>1, <1>8, <1>9

\* A guard gives its lock back, and only its own.
LEMMA ReleaseStep ==
    ASSUME LocksInv, NEW g \in Guards, GuardRelease(g), LocksTypeOK'
    PROVE  LocksInv'
<1> DEFINE k == m_mutex_of[g]
<1> USE DEF LocksTypeOK, Modes
<1>1. k \in LockObjects /\ mode[g] \in Modes BY DEF LocksInv
<1>2. Holds(g) /\ ~Holds(g)' BY DEF GuardRelease, GuardAt, Holds, LocksInv
<1>3. \A h \in Guards : h # g => (Holds(h)' <=> Holds(h))
    BY DEF GuardRelease, GuardAt, Holds, LocksInv
<1>4. g \in Holders(k, mode[g]) BY <1>2 DEF Holders
<1>5. \A l \in LockObjects, m \in Modes : l = k /\ m = mode[g] =>
        Holders(l, m)' = Holders(l, m) \ {g}
    BY <1>1, <1>2, <1>3 DEF Holders, GuardRelease
<1>6. \A l \in LockObjects, m \in Modes : l # k \/ m # mode[g] =>
        Holders(l, m)' = Holders(l, m)
    BY <1>1, <1>2, <1>3 DEF Holders, GuardRelease
<1>7. Cardinality(Holders(k, mode[g]) \ {g}) = Cardinality(Holders(k, mode[g])) - 1
    BY <1>4, HoldersFacts, FS_RemoveElement
<1>8. CASE mode[g] = "read"
    <2>1. readers[k] > 0
        BY <1>1, <1>4, <1>8, HoldersFacts DEF LocksInv
    <2>2. ~writer[k] BY <2>1, <1>1 DEF LocksInv
    <2>3. readers' = [readers EXCEPT ![k] = @ - 1] /\ writer' = writer
        BY <1>1, <2>1, <2>2 DEF GuardRelease, Unlock, LocksInv
    <2> SUFFICES ASSUME NEW l \in LockObjects
                 PROVE  /\ readers'[l] = Cardinality(Holders(l, "read")')
                        /\ writer'[l] <=> Holders(l, "write")' # {}
                        /\ writer'[l] => readers'[l] = 0
                        /\ \A i, h \in Holders(l, "write")' : i = h
        BY DEF LocksInv
    <2>4. Holders(l, "write")' = Holders(l, "write") BY <1>6, <1>8
    <2>5. readers'[l] = Cardinality(Holders(l, "read")')
        <3>1. CASE l = k BY <3>1, <2>3, <1>1, <1>5, <1>7, <1>8 DEF LocksInv
        <3>2. CASE l # k BY <3>2, <2>3, <1>6 DEF LocksInv
        <3> QED BY <3>1, <3>2
    <2>6. writer'[l] => readers'[l] = 0 BY <2>2, <2>3 DEF LocksInv
    <2> QED BY <2>3, <2>4, <2>5, <2>6 DEF LocksInv
<1>9. CASE mode[g] = "write"
    <2>1. writer[k] BY <1>1, <1>4, <1>9 DEF LocksInv
    <2>2. writer' = [writer EXCEPT ![k] = FALSE] /\ readers' = readers
        BY <2>1 DEF GuardRelease, Unlock
    <2> SUFFICES ASSUME NEW l \in LockObjects
                 PROVE  /\ readers'[l] = Cardinality(Holders(l, "read")')
                        /\ writer'[l] <=> Holders(l, "write")' # {}
                        /\ writer'[l] => readers'[l] = 0
                        /\ \A i, h \in Holders(l, "write")' : i = h
        BY DEF LocksInv
    <2>3. Holders(l, "read")' = Holders(l, "read") BY <1>6, <1>9
    <2>4. CASE l = k
        <3>1. Holders(l, "write")' = {} BY <2>4, <1>4, <1>5, <1>9 DEF LocksInv
        <3> QED BY <3>1, <2>4, <2>2, <2>3 DEF LocksInv
    <2>5. CASE l # k
        <3>1. Holders(l, "write")' = Holders(l, "write") BY <2>5, <1>6
        <3> QED BY <3>1, <2>5, <2>2, <2>3 DEF LocksInv
    <2> QED BY <2>4, <2>5
<1> QED BY <1>1, <1>8, <1>9

LEMMA LocksInvInit == LocksInit => LocksInv
<1> SUFFICES ASSUME LocksInit PROVE LocksInv OBVIOUS
<1>1. LocksTypeOK BY DEF LocksInit, LocksTypeOK, Modes, Places
<1>2. \A l, m : Holders(l, m) = {} BY DEF LocksInit, Holders, Holds
<1>3. \A l : Cardinality(Holders(l, "read")) = 0 BY <1>2, FS_EmptySet
<1> QED BY <1>1, <1>2, <1>3 DEF LocksInv, LocksInit

LEMMA LocksInvStep == LocksInv /\ [LocksNext]_lockVars => LocksInv'
<1>1. ASSUME LocksInv, NEW g \in Guards, GuardStep(g) PROVE LocksInv'
    <2>1. LocksTypeOK' BY <1>1, TypeStep DEF LocksInv
    <2>2. ASSUME NEW l \in LockObjects, NEW m \in Modes, NEW garbage \in BOOLEAN,
                 GuardConstruct(g, l, m, garbage)
          PROVE  LocksInv'
        <3>1. \A j \in LockObjects, n \in Modes : Holders(j, n)' = Holders(j, n)
            BY <1>1, <2>2 DEF GuardConstruct, GuardAt, Holders, Holds, LocksInv, LocksTypeOK
        <3> QED BY <1>1, <2>1, <2>2, <3>1, SameHolders DEF GuardConstruct
    <2>3. CASE GuardLock(g)
        <3>1. \A j \in LockObjects, n \in Modes : Holders(j, n)' = Holders(j, n)
            BY <1>1, <2>3 DEF GuardLock, GuardAt, Holders, Holds, LocksInv, LocksTypeOK
        <3> QED BY <1>1, <2>1, <2>3, <3>1, SameHolders DEF GuardLock
    <2>4. CASE GuardAcquire(g) BY <1>1, <2>1, <2>4, AcquireStep
    <2>5. CASE GuardSet(g)
        <3>1. \A j \in LockObjects, n \in Modes : Holders(j, n)' = Holders(j, n)
            BY <1>1, <2>5 DEF GuardSet, GuardAt, Holders, Holds, LocksInv, LocksTypeOK
        <3> QED BY <1>1, <2>1, <2>5, <3>1, SameHolders DEF GuardSet
    <2>6. ASSUME NEW destructor \in BOOLEAN, GuardUnlock(g, destructor)
          PROVE  LocksInv'
        <3>1. \A j \in LockObjects, n \in Modes : Holders(j, n)' = Holders(j, n)
            BY <1>1, <2>6 DEF GuardUnlock, GuardAt, Holders, Holds, LocksInv, LocksTypeOK
        <3> QED BY <1>1, <2>1, <2>6, <3>1, SameHolders DEF GuardUnlock
    <2>7. CASE GuardRelease(g) BY <1>1, <2>1, <2>7, ReleaseStep
    <2>8. CASE GuardClear(g)
        <3>1. \A j \in LockObjects, n \in Modes : Holders(j, n)' = Holders(j, n)
            BY <1>1, <2>8 DEF GuardClear, GuardAt, Holders, Holds, LocksInv, LocksTypeOK
        <3> QED BY <1>1, <2>1, <2>8, <3>1, SameHolders DEF GuardClear
    <2> QED BY <1>1, <2>2, <2>3, <2>4, <2>5, <2>6, <2>7, <2>8 DEF GuardStep
<1>2. ASSUME LocksInv, UNCHANGED lockVars PROVE LocksInv'
    <2>1. LocksTypeOK' BY <1>2 DEF lockVars, LocksInv, LocksTypeOK
    <2>2. \A l \in LockObjects, m \in Modes : Holders(l, m)' = Holders(l, m)
        BY <1>2 DEF lockVars, Holders, Holds
    <2> QED BY <1>2, <2>1, <2>2, SameHolders DEF lockVars
<1> QED BY <1>1, <1>2 DEF LocksNext

LEMMA LocksInvExclusion == LocksInv => Exclusion
<1> SUFFICES ASSUME LocksInv PROVE Exclusion OBVIOUS
<1>1. ASSUME NEW g \in Guards, NEW h \in Guards, g # h, Holds(g), Holds(h),
             m_mutex_of[g] = m_mutex_of[h]
      PROVE  mode[g] = "read" /\ mode[h] = "read"
    <2> DEFINE k == m_mutex_of[g]
    <2>1. k \in LockObjects /\ mode[g] \in Modes /\ mode[h] \in Modes
        BY DEF LocksInv, LocksTypeOK
    <2>2. g \in Holders(k, mode[g]) /\ h \in Holders(k, mode[h]) BY <1>1 DEF Holders
    <2>3. ASSUME Holders(k, "write") # {} PROVE Holders(k, "read") = {}
        BY <2>1, <2>3, HoldersFacts DEF LocksInv
    <2> QED BY <1>1, <2>1, <2>2, <2>3 DEF LocksInv, Modes
<1>2. ASSUME NEW l \in LockObjects, writer[l] \/ readers[l] > 0
      PROVE  \E g \in Guards : Holds(g) /\ m_mutex_of[g] = l
    <2>1. Holders(l, "write") # {} \/ Holders(l, "read") # {}
        BY <1>2, HoldersFacts DEF LocksInv
    <2> QED BY <2>1 DEF Holders
<1> QED BY <1>1, <1>2 DEF Exclusion

\* Two guards have the same lock only to read, and no lock stays locked
\* without a guard: for every number of guards and locks.
THEOREM LocksExclude == LocksSpec => []Exclusion
<1>1. LocksInit => LocksInv BY LocksInvInit
<1>2. LocksInv /\ [LocksNext]_lockVars => LocksInv' BY LocksInvStep
<1>3. LocksInv => Exclusion BY LocksInvExclusion
<1> QED BY <1>1, <1>2, <1>3, PTL DEF LocksSpec

-----------------------------------------------------------------------------
(* Thread: the handshake between the constructor and run(), for every set  *)
(* of threads of the scheduler and of the application.                     *)

Behind == {"task", "working", "ended"}

ThreadTypeOK ==
    /\ obj \in [Threads -> {"none", "waiting", "failed", "made", "gone"}]
    /\ m_id \in [Threads -> BOOLEAN]
    /\ m_semaphore \in [Threads -> Nat]
    /\ run \in [Threads -> {"none", "begin", "take", "notify"} \union Behind]

\* The count of the semaphore is 1 from the notify of run() to the end of the
\* wait of the constructor, and 0 otherwise.
SemaphoreInv ==
    \A t \in Threads :
        /\ obj[t] \in {"none", "failed"} => run[t] = "none" /\ m_semaphore[t] = 0
        /\ obj[t] = "waiting" => run[t] # "none"
        /\ obj[t] = "waiting" /\ run[t] \in Behind => m_semaphore[t] = 1
        /\ obj[t] = "waiting" /\ run[t] \notin Behind => m_semaphore[t] = 0
        /\ obj[t] \in {"made", "gone"} => m_semaphore[t] = 0 /\ run[t] \in Behind
        /\ run[t] \in {"take", "notify"} \union Behind => m_id[t]

ThreadInv == ThreadTypeOK /\ SemaphoreInv

LEMMA ThreadInvInit == ThreadInit => ThreadInv
BY DEF ThreadInit, ThreadInv, ThreadTypeOK, SemaphoreInv, Behind

LEMMA ThreadInvStep == ThreadInv /\ [ThreadNext]_threadVars => ThreadInv'
<1> SUFFICES ASSUME ThreadInv, [ThreadNext]_threadVars PROVE ThreadInv'
    OBVIOUS
<1> USE DEF ThreadInv, ThreadTypeOK, SemaphoreInv, Behind, startVars
<1>1. ASSUME NEW t \in Threads, RunStep(t) PROVE ThreadInv'
    <2>1. CASE RunBegin(t) BY <2>1 DEF RunBegin
    <2>2. CASE RunTake(t) BY <2>2 DEF RunTake
    <2>3. CASE RunNotify(t) BY <2>3 DEF RunNotify, Notify
    <2>4. CASE RunTask(t) BY <2>4 DEF RunTask
    <2>5. CASE RunEnd(t) BY <2>5 DEF RunEnd
    <2> QED BY <1>1, <2>1, <2>2, <2>3, <2>4, <2>5 DEF RunStep
<1>2. ASSUME NEW t \in Threads, ThreadNew(t) PROVE ThreadInv'
    BY <1>2 DEF ThreadNew
<1>3. ASSUME NEW t \in Threads, NewThrows(t) PROVE ThreadInv'
    BY <1>3 DEF NewThrows
<1>4. ASSUME NEW t \in Threads, NewReturns(t) PROVE ThreadInv'
    BY <1>4 DEF NewReturns, Wait
<1>5. ASSUME NEW t \in Threads, Join(t) \/ ThreadDelete(t) PROVE ThreadInv'
    BY <1>5 DEF Join, ThreadDelete
<1>6. ASSUME NEW t \in Sched, StartRecord(t) PROVE ThreadInv'
    BY <1>6 DEF StartRecord
<1>7. CASE StartBegin \/ StartEnd \/ StopSwap \/ StopEnd
    BY <1>7 DEF StartBegin, StartEnd, StopSwap, StopEnd
<1>8. CASE UNCHANGED threadVars BY <1>8 DEF threadVars
<1> QED BY <1>1, <1>2, <1>3, <1>4, <1>5, <1>6, <1>7, <1>8 DEF ThreadNext

\* Once the constructor has returned, run() has set m_id and is done with the
\* object, however many threads are made at once and whichever of their
\* constructors throw.
THEOREM HandshakeHolds == ThreadSpec => []Handshake
<1>1. ThreadInit => ThreadInv BY ThreadInvInit
<1>2. ThreadInv /\ [ThreadNext]_threadVars => ThreadInv' BY ThreadInvStep
<1>3. ThreadInv => Handshake BY DEF ThreadInv, SemaphoreInv, Handshake, Behind
<1> QED BY <1>1, <1>2, <1>3, PTL DEF ThreadSpec

-----------------------------------------------------------------------------
(* Env: init() reads the command line, for every set of keys and of values *)
(* and every length of the command line.                                   *)

Dashes(i, j) == \A m \in i .. j : argv[m] = LoneDash

\* The words init() has read, and the last of them that is option k.
Read == 1 .. word - 1
Latest(k, j) == argv[j] = Option(k) /\ \A n \in Read : argv[n] = Option(k) => n <= j

EnvTypeOK ==
    /\ argv \in Seq(Arguments)
    /\ word \in 1 .. Len(argv) + 1
    /\ now_key \in Keys \union {Empty}
    /\ m_args \in [Keys -> Words \union {Empty, "-"}]

\* now_key is the last word read, lone dashes apart, if that is an option.
WaitingInv ==
    /\ now_key # Empty => \E j \in Read : argv[j] = Option(now_key) /\ Dashes(j + 1, word - 1)
    /\ now_key = Empty =>
        \/ Dashes(1, word - 1)
        \/ \E j \in Read : (\E v \in Words : argv[j] = Value(v)) /\ Dashes(j + 1, word - 1)

\* Every option that has been read has what comes behind the last occurrence
\* of it, but for the one that waits.
GivenInv ==
    \A k \in Keys :
        /\ (\A j \in Read : argv[j] # Option(k)) => m_args[k] = "-"
        /\ (\E j \in Read : argv[j] = Option(k)) => \E j \in Read : Latest(k, j)
        /\ k # now_key => \A j \in Read : Latest(k, j) =>
            \E n \in j + 1 .. word - 1 :
                /\ Dashes(j + 1, n - 1)
                /\ \/ m_args[k] \in Words /\ argv[n] = Value(m_args[k])
                   \/ m_args[k] = Empty /\ \E q \in Keys : argv[n] = Option(q)

\* Every value that has been read was that of an option.
ValuesInv ==
    \A n \in Read, v \in Words : argv[n] = Value(v) =>
        \E j \in 1 .. n - 1, q \in Keys : argv[j] = Option(q) /\ Dashes(j + 1, n - 1)

EnvInv ==
    /\ EnvTypeOK
    /\ env = "init" => WaitingInv /\ GivenInv /\ ValuesInv
    /\ ArgsExact

\* The three kinds of words are told apart.
LEMMA WordKinds ==
    ASSUME NEW k, NEW v
    PROVE  /\ Option(k) # LoneDash /\ Option(k) # Value(v) /\ Value(v) # LoneDash
           /\ \A q : Option(q) = Option(k) => q = k
           /\ \A u : Value(u) = Value(v) => u = v
<1>1. DOMAIN Option(k) = {"key"} /\ DOMAIN Value(v) = {"val"} /\ DOMAIN LoneDash = {"dash"}
    BY DEF Option, Value, LoneDash
<1>2. \A q : Option(q).key = q BY DEF Option
<1>3. \A u : Value(u).val = u BY DEF Value
<1>4. Option(k) # LoneDash /\ Option(k) # Value(v) /\ Value(v) # LoneDash BY <1>1
<1> QED BY <1>2, <1>3, <1>4

LEMMA EnvInvInit == EnvInit => EnvInv
<1> SUFFICES ASSUME EnvInit PROVE EnvInv OBVIOUS
<1>1. EnvTypeOK
    <2>1. PICK n \in 0 .. MaxArgs : argv \in [1 .. n -> Arguments] BY DEF EnvInit
    <2>2. argv \in Seq(Arguments) /\ Len(argv) \in Nat BY <2>1, EnvAssumption
    <2> QED BY <2>2 DEF EnvInit, EnvTypeOK
<1>2. WaitingInv /\ GivenInv /\ ValuesInv
    BY DEF EnvInit, WaitingInv, GivenInv, ValuesInv, Read, Dashes
<1>3. ArgsExact BY DEF EnvInit, ArgsExact
<1> QED BY <1>1, <1>2, <1>3 DEF EnvInv

\* While the command line stays, so does what follows what in it.
LEMMA SameLine ==
    ASSUME argv' = argv
    PROVE  /\ \A i, j : Dashes(i, j)' <=> Dashes(i, j)
           /\ \A j, v : Follows(j, v)' <=> Follows(j, v)
BY DEF Dashes, Follows

\* init() reads an option.
LEMMA OptionStep ==
    ASSUME EnvInv, NEW k \in Keys, OptionArg(k)
    PROVE  EnvInv'
<1>1. /\ env = "init" /\ env' = env /\ argv' = argv /\ touched' = touched
      /\ word <= Len(argv) /\ argv[word] = Option(k)
      /\ now_key' = k /\ word' = word + 1
      /\ now_key # Empty => m_args' = [m_args EXCEPT ![now_key] = Empty]
      /\ now_key = Empty => m_args' = m_args
    BY DEF OptionArg, At, Add
<1>2. /\ argv \in Seq(Arguments) /\ Len(argv) \in Nat /\ word \in 1 .. Len(argv) /\ word \in Nat
      /\ now_key \in Keys \union {Empty} /\ m_args \in [Keys -> Words \union {Empty, "-"}]
      /\ k # Empty
    BY <1>1, EnvAssumption DEF EnvInv, EnvTypeOK
<1>3. WaitingInv /\ GivenInv /\ ValuesInv BY <1>1 DEF EnvInv
<1>4. Read' = Read \union {word} BY <1>1, <1>2 DEF Read
<1>5. \A i, j : Dashes(i, j)' <=> Dashes(i, j) BY <1>1, SameLine
<1>6. EnvTypeOK' BY <1>1, <1>2 DEF EnvTypeOK
<1>7. WaitingInv'
    <2>1. PICK w \in Read' : w = word BY <1>4
    <2>2. Dashes(w + 1, word - 1)' BY <1>1, <1>2, <2>1 DEF Dashes
    <2> QED BY <1>1, <1>2, <2>1, <2>2 DEF WaitingInv
<1>8. GivenInv'
    <2> SUFFICES ASSUME NEW q \in Keys
                 PROVE  /\ (\A j \in Read' : argv[j] # Option(q)) => m_args'[q] = "-"
                        /\ (\E j \in Read' : argv[j] = Option(q)) => \E j \in Read' : Latest(q, j)'
                        /\ q # k => \A j \in Read' : Latest(q, j)' =>
                            \E n \in j + 1 .. word :
                                /\ Dashes(j + 1, n - 1)
                                /\ \/ m_args'[q] \in Words /\ argv[n] = Value(m_args'[q])
                                   \/ m_args'[q] = Empty /\ \E r \in Keys : argv[n] = Option(r)
        BY <1>1, <1>2, <1>5 DEF GivenInv
    <2>1. CASE q = k
        <3>1. PICK w \in Read' : w = word BY <1>4
        <3>2. Latest(q, w)'
            BY <1>1, <1>2, <1>4, <2>1, <3>1 DEF Latest, Read
        <3> QED BY <1>1, <1>2, <2>1, <3>1, <3>2
    <2>2. CASE q # k
        <3>1. argv[word] # Option(q) BY <1>1, <2>2, WordKinds
        <3>2. \A j \in Read' : Latest(q, j)' => j \in Read /\ Latest(q, j)
            BY <1>1, <1>2, <1>4, <3>1 DEF Latest
        <3>3. \A j \in Read : Latest(q, j) => Latest(q, j)'
            BY <1>1, <1>2, <1>4, <3>1 DEF Latest
        <3>4. (\A j \in Read' : argv[j] # Option(q)) => m_args'[q] = "-"
            <4>1. ASSUME \A j \in Read' : argv[j] # Option(q) PROVE m_args'[q] = "-"
                <5>1. \A j \in Read : argv[j] # Option(q) BY <4>1, <1>4
                <5>2. m_args[q] = "-" BY <5>1, <1>3 DEF GivenInv
                <5>3. q # now_key
                    BY <5>1, <1>3, <1>2, EnvAssumption DEF WaitingInv
                <5> QED BY <5>2, <5>3, <1>1, <1>2
            <4> QED BY <4>1
        <3>5. (\E j \in Read' : argv[j] = Option(q)) => \E j \in Read' : Latest(q, j)'
            BY <1>3, <1>4, <3>1, <3>3 DEF GivenInv
        <3>6. ASSUME NEW j \in Read', Latest(q, j)'
              PROVE  \E n \in j + 1 .. word :
                        /\ Dashes(j + 1, n - 1)
                        /\ \/ m_args'[q] \in Words /\ argv[n] = Value(m_args'[q])
                           \/ m_args'[q] = Empty /\ \E r \in Keys : argv[n] = Option(r)
            <4>1. j \in Read /\ Latest(q, j) BY <3>2, <3>6
            <4>2. j \in 1 .. word - 1 BY <4>1 DEF Read
            <4>3. CASE q = now_key
                <5>1. PICK i \in Read : argv[i] = Option(q) /\ Dashes(i + 1, word - 1)
                    BY <4>3, <1>3, EnvAssumption DEF WaitingInv
                <5>2. i = j
                    <6>1. i <= j BY <4>1, <5>1 DEF Latest
                    <6>2. ~ i < j
                        <7> SUFFICES ASSUME i < j PROVE FALSE OBVIOUS
                        <7>1. j \in i + 1 .. word - 1 BY <4>2, <5>1 DEF Read
                        <7>2. argv[j] = LoneDash BY <7>1, <5>1 DEF Dashes
                        <7> QED BY <7>2, <4>1, WordKinds DEF Latest
                    <6> QED BY <6>1, <6>2, <4>2, <5>1 DEF Read
                <5>3. m_args'[q] = Empty BY <4>3, <1>1, <1>2, EnvAssumption
                <5>4. word \in j + 1 .. word BY <4>2, <1>2
                <5> QED BY <5>1, <5>2, <5>3, <5>4, <1>1
            <4>4. CASE q # now_key
                <5>1. m_args'[q] = m_args[q] BY <4>4, <1>1, <1>2
                <5>2. PICK n \in j + 1 .. word - 1 :
                        /\ Dashes(j + 1, n - 1)
                        /\ \/ m_args[q] \in Words /\ argv[n] = Value(m_args[q])
                           \/ m_args[q] = Empty /\ \E r \in Keys : argv[n] = Option(r)
                    BY <4>1, <4>4, <1>3 DEF GivenInv
                <5>3. n \in j + 1 .. word BY <4>2, <1>2
                <5> QED BY <5>1, <5>2, <5>3
            <4> QED BY <4>3, <4>4
        <3> QED BY <3>4, <3>5, <3>6
    <2> QED BY <2>1, <2>2
<1>9. ValuesInv'
    <2> SUFFICES ASSUME NEW n \in Read', NEW v \in Words, argv[n] = Value(v)
                 PROVE  \E j \in 1 .. n - 1, q \in Keys : argv[j] = Option(q) /\ Dashes(j + 1, n - 1)
        BY <1>1, <1>5 DEF ValuesInv
    <2>1. n # word BY <1>1, WordKinds
    <2> QED BY <2>1, <1>4, <1>3 DEF ValuesInv
<1>10. ArgsExact' BY <1>1 DEF ArgsExact
<1> QED BY <1>1, <1>6, <1>7, <1>8, <1>9, <1>10 DEF EnvInv

\* init() passes over a lone dash.
LEMMA DashStep ==
    ASSUME EnvInv, LoneDashArg
    PROVE  EnvInv'
<1>1. /\ env = "init" /\ UNCHANGED <<env, argv, touched, now_key, m_args>>
      /\ word <= Len(argv) /\ argv[word] = LoneDash /\ word' = word + 1
    BY DEF LoneDashArg, At
<1>2. /\ argv \in Seq(Arguments) /\ Len(argv) \in Nat /\ word \in 1 .. Len(argv) /\ word \in Nat
      /\ now_key \in Keys \union {Empty} /\ m_args \in [Keys -> Words \union {Empty, "-"}]
    BY <1>1 DEF EnvInv, EnvTypeOK
<1>3. WaitingInv /\ GivenInv /\ ValuesInv BY <1>1 DEF EnvInv
<1>4. Read' = Read \union {word} BY <1>1, <1>2 DEF Read
<1>5. \A i, j : Dashes(i, j)' <=> Dashes(i, j) BY <1>1, SameLine
<1>6. EnvTypeOK' BY <1>1, <1>2 DEF EnvTypeOK
<1>7. \A i \in Nat : Dashes(i, word - 1) => Dashes(i, word) BY <1>1, <1>2 DEF Dashes
<1>8. WaitingInv'
    <2>1. \A j \in Read : Dashes(j + 1, word - 1) => Dashes(j + 1, word' - 1)
        BY <1>1, <1>2, <1>7 DEF Read
    <2>2. \A i : Dashes(i, word' - 1) => Dashes(i, word - 1)' BY <1>1 DEF Dashes
    <2>3. Dashes(1, word - 1) => Dashes(1, word' - 1) BY <1>1, <1>2, <1>7
    <2> QED BY <1>1, <1>3, <1>4, <2>1, <2>2, <2>3 DEF WaitingInv
<1>9. GivenInv'
    <2> SUFFICES ASSUME NEW q \in Keys
                 PROVE  /\ (\A j \in Read' : argv[j] # Option(q)) => m_args[q] = "-"
                        /\ (\E j \in Read' : argv[j] = Option(q)) => \E j \in Read' : Latest(q, j)'
                        /\ q # now_key => \A j \in Read' : Latest(q, j)' =>
                            \E n \in j + 1 .. word :
                                /\ Dashes(j + 1, n - 1)
                                /\ \/ m_args[q] \in Words /\ argv[n] = Value(m_args[q])
                                   \/ m_args[q] = Empty /\ \E r \in Keys : argv[n] = Option(r)
        BY <1>1, <1>2, <1>5 DEF GivenInv
    <2>1. argv[word] # Option(q) BY <1>1, WordKinds
    <2>2. \A j \in Read' : Latest(q, j)' => j \in Read /\ Latest(q, j)
        BY <1>1, <1>2, <1>4, <2>1 DEF Latest
    <2>3. \A j \in Read : Latest(q, j) => Latest(q, j)'
        BY <1>1, <1>2, <1>4, <2>1 DEF Latest
    <2>4. (\A j \in Read' : argv[j] # Option(q)) => m_args[q] = "-"
        BY <1>3, <1>4 DEF GivenInv
    <2>5. (\E j \in Read' : argv[j] = Option(q)) => \E j \in Read' : Latest(q, j)'
        BY <1>3, <1>4, <2>1, <2>3 DEF GivenInv
    <2>6. ASSUME NEW j \in Read', Latest(q, j)', q # now_key
          PROVE  \E n \in j + 1 .. word :
                    /\ Dashes(j + 1, n - 1)
                    /\ \/ m_args[q] \in Words /\ argv[n] = Value(m_args[q])
                       \/ m_args[q] = Empty /\ \E r \in Keys : argv[n] = Option(r)
        <3>1. j \in Read /\ Latest(q, j) /\ j \in 1 .. word - 1 BY <2>2, <2>6 DEF Read
        <3>2. PICK n \in j + 1 .. word - 1 :
                /\ Dashes(j + 1, n - 1)
                /\ \/ m_args[q] \in Words /\ argv[n] = Value(m_args[q])
                   \/ m_args[q] = Empty /\ \E r \in Keys : argv[n] = Option(r)
            BY <3>1, <2>6, <1>3 DEF GivenInv
        <3>3. n \in j + 1 .. word BY <3>1, <1>2
        <3> QED BY <3>2, <3>3
    <2> QED BY <2>4, <2>5, <2>6
<1>10. ValuesInv'
    <2> SUFFICES ASSUME NEW n \in Read', NEW v \in Words, argv[n] = Value(v)
                 PROVE  \E j \in 1 .. n - 1, q \in Keys : argv[j] = Option(q) /\ Dashes(j + 1, n - 1)
        BY <1>1, <1>5 DEF ValuesInv
    <2>1. n # word BY <1>1, WordKinds
    <2> QED BY <2>1, <1>4, <1>3 DEF ValuesInv
<1>11. ArgsExact' BY <1>1 DEF ArgsExact
<1> QED BY <1>1, <1>6, <1>8, <1>9, <1>10, <1>11 DEF EnvInv

\* init() gives a value to the option that waits for one, or fails.
LEMMA ValueStep ==
    ASSUME EnvInv, NEW v \in Words, ValueArg(v)
    PROVE  EnvInv'
<1>1. /\ env = "init" /\ argv' = argv /\ touched' = touched
      /\ word <= Len(argv) /\ argv[word] = Value(v)
    BY DEF ValueArg, At
<1>2. /\ argv \in Seq(Arguments) /\ Len(argv) \in Nat /\ word \in 1 .. Len(argv) /\ word \in Nat
      /\ now_key \in Keys \union {Empty} /\ m_args \in [Keys -> Words \union {Empty, "-"}]
    BY <1>1 DEF EnvInv, EnvTypeOK
<1>3. CASE now_key = Empty
    <2>1. env' = "failed" /\ UNCHANGED <<m_args, now_key, word>> BY <1>3 DEF ValueArg
    <2>2. EnvTypeOK' BY <1>1, <1>2, <2>1 DEF EnvTypeOK
    <2>3. ArgsExact' BY <2>1 DEF ArgsExact
    <2> QED BY <2>1, <2>2, <2>3 DEF EnvInv
<1>4. CASE now_key # Empty
    <2>1. /\ m_args' = [m_args EXCEPT ![now_key] = v] /\ now_key' = Empty
          /\ word' = word + 1 /\ env' = env
        BY <1>4 DEF ValueArg, Add
    <2>2. WaitingInv /\ GivenInv /\ ValuesInv BY <1>1 DEF EnvInv
    <2>3. Read' = Read \union {word} BY <1>2, <2>1 DEF Read
    <2>4. \A i, j : Dashes(i, j)' <=> Dashes(i, j) BY <1>1, SameLine
    <2>5. EnvTypeOK'
        <3>1. m_args' \in [Keys -> Words \union {Empty, "-"}] BY <1>2, <2>1
        <3>2. word' \in 1 .. Len(argv) + 1 BY <1>2, <2>1
        <3> QED BY <1>1, <1>2, <2>1, <3>1, <3>2 DEF EnvTypeOK
    <2>6. now_key \in Keys BY <1>2, <1>4
    <2>7. PICK i \in Read : argv[i] = Option(now_key) /\ Dashes(i + 1, word - 1)
        BY <1>4, <2>2 DEF WaitingInv
    <2>8. i \in 1 .. word - 1 BY DEF Read
    <2>9. WaitingInv'
        <3>1. PICK w \in Read' : w = word BY <2>3
        <3>2. Dashes(w + 1, word - 1)' BY <1>2, <2>1, <3>1 DEF Dashes
        <3>3. argv'[w] = Value(v) BY <1>1, <3>1
        <3> QED BY <2>1, <3>1, <3>2, <3>3 DEF WaitingInv
    <2>10. GivenInv'
        <3> SUFFICES ASSUME NEW q \in Keys
                     PROVE  /\ (\A j \in Read' : argv[j] # Option(q)) => m_args'[q] = "-"
                            /\ (\E j \in Read' : argv[j] = Option(q)) => \E j \in Read' : Latest(q, j)'
                            /\ \A j \in Read' : Latest(q, j)' =>
                                \E n \in j + 1 .. word :
                                    /\ Dashes(j + 1, n - 1)
                                    /\ \/ m_args'[q] \in Words /\ argv[n] = Value(m_args'[q])
                                       \/ m_args'[q] = Empty /\ \E r \in Keys : argv[n] = Option(r)
            BY <1>1, <1>2, <2>1, <2>4 DEF GivenInv
        <3>1. argv[word] # Option(q) BY <1>1, WordKinds
        <3>2. \A j \in Read' : Latest(q, j)' => j \in Read /\ Latest(q, j)
            BY <1>1, <1>2, <2>3, <3>1 DEF Latest
        <3>3. \A j \in Read : Latest(q, j) => Latest(q, j)'
            BY <1>1, <1>2, <2>3, <3>1 DEF Latest
        <3>4. (\A j \in Read' : argv[j] # Option(q)) => m_args'[q] = "-"
            <4>1. ASSUME \A j \in Read' : argv[j] # Option(q) PROVE m_args'[q] = "-"
                <5>1. \A j \in Read : argv[j] # Option(q) BY <4>1, <2>3
                <5>2. m_args[q] = "-" BY <5>1, <2>2 DEF GivenInv
                <5>3. q # now_key BY <5>1, <2>7
                <5> QED BY <5>2, <5>3, <2>1, <1>2
            <4> QED BY <4>1
        <3>5. (\E j \in Read' : argv[j] = Option(q)) => \E j \in Read' : Latest(q, j)'
            BY <2>2, <2>3, <3>1, <3>3 DEF GivenInv
        <3>6. ASSUME NEW j \in Read', Latest(q, j)'
              PROVE  \E n \in j + 1 .. word :
                        /\ Dashes(j + 1, n - 1)
                        /\ \/ m_args'[q] \in Words /\ argv[n] = Value(m_args'[q])
                           \/ m_args'[q] = Empty /\ \E r \in Keys : argv[n] = Option(r)
            <4>1. j \in Read /\ Latest(q, j) BY <3>2, <3>6
            <4>2. j \in 1 .. word - 1 BY <4>1 DEF Read
            <4>3. CASE q = now_key
                <5>1. i = j
                    <6>1. i <= j BY <4>1, <4>3, <2>7 DEF Latest
                    <6>2. ~ i < j
                        <7> SUFFICES ASSUME i < j PROVE FALSE OBVIOUS
                        <7>1. j \in i + 1 .. word - 1 BY <4>2, <2>8
                        <7>2. argv[j] = LoneDash BY <7>1, <2>7 DEF Dashes
                        <7> QED BY <7>2, <4>1, WordKinds DEF Latest
                    <6> QED BY <6>1, <6>2, <4>2, <2>8
                <5>2. m_args'[q] = v BY <4>3, <2>1, <1>2, <2>6
                <5>3. word \in j + 1 .. word BY <4>2, <1>2
                <5> QED BY <5>1, <5>2, <5>3, <1>1, <2>7
            <4>4. CASE q # now_key
                <5>1. m_args'[q] = m_args[q] BY <4>4, <2>1, <1>2
                <5>2. PICK n \in j + 1 .. word - 1 :
                        /\ Dashes(j + 1, n - 1)
                        /\ \/ m_args[q] \in Words /\ argv[n] = Value(m_args[q])
                           \/ m_args[q] = Empty /\ \E r \in Keys : argv[n] = Option(r)
                    BY <4>1, <4>4, <2>2 DEF GivenInv
                <5>3. n \in j + 1 .. word BY <4>2, <1>2
                <5> QED BY <5>1, <5>2, <5>3
            <4> QED BY <4>3, <4>4
        <3> QED BY <3>4, <3>5, <3>6
    <2>11. ValuesInv'
        <3> SUFFICES ASSUME NEW n \in Read', NEW u \in Words, argv[n] = Value(u)
                     PROVE  \E j \in 1 .. n - 1, q \in Keys : argv[j] = Option(q) /\ Dashes(j + 1, n - 1)
            BY <1>1, <2>4 DEF ValuesInv
        <3>1. CASE n = word BY <3>1, <2>6, <2>7, <2>8
        <3>2. CASE n # word BY <3>2, <2>3, <2>2 DEF ValuesInv
        <3> QED BY <3>1, <3>2
    <2>12. ArgsExact' BY <1>1, <2>1 DEF ArgsExact
    <2> QED BY <1>1, <2>1, <2>5, <2>9, <2>10, <2>11, <2>12 DEF EnvInv
<1> QED BY <1>3, <1>4

\* init() comes to the end of the command line.
LEMMA EndStep ==
    ASSUME EnvInv, ArgsEnd
    PROVE  EnvInv'
<1>1. /\ env = "init" /\ env' = "ready" /\ UNCHANGED <<argv, word, now_key, touched>>
      /\ word > Len(argv)
      /\ now_key # Empty => m_args' = [m_args EXCEPT ![now_key] = Empty]
      /\ now_key = Empty => m_args' = m_args
    BY DEF ArgsEnd, Add
<1>2. /\ argv \in Seq(Arguments) /\ Len(argv) \in Nat /\ word = Len(argv) + 1
      /\ now_key \in Keys \union {Empty} /\ m_args \in [Keys -> Words \union {Empty, "-"}]
      /\ Empty \notin Keys
    BY <1>1, EnvAssumption DEF EnvInv, EnvTypeOK
<1>3. WaitingInv /\ GivenInv /\ ValuesInv BY <1>1 DEF EnvInv
<1>4. Read = 1 .. Len(argv) /\ word - 1 = Len(argv) BY <1>2 DEF Read
<1>5. EnvTypeOK' BY <1>1, <1>2 DEF EnvTypeOK
\* Between a word and the one that follows it there are lone dashes only.
<1>6. ASSUME NEW j \in Nat, NEW n \in j + 1 .. Len(argv), Dashes(j + 1, n - 1),
             argv[n] # LoneDash, NEW u \in Words, Follows(j, u)
      PROVE  argv[n] = Value(u)
    <2>1. PICK m \in j + 1 .. Len(argv) :
            argv[m] = Value(u) /\ \A i \in j + 1 .. m - 1 : argv[i] = LoneDash
        BY <1>6 DEF Follows
    <2>2. ~ n < m BY <1>2, <1>6, <2>1
    <2>3. ~ m < n
        <3>1. m < n => m \in j + 1 .. n - 1 BY <1>2, <2>1
        <3> QED BY <3>1, <1>6, <2>1, WordKinds DEF Dashes
    <2> QED BY <2>1, <2>2, <2>3, <1>2
<1>7. ASSUME NEW k \in Keys
      PROVE  LET O == {j \in 1 .. Len(argv) : argv[j] = Option(k)} IN
             IF O = {} THEN m_args'[k] = "-"
             ELSE LET last == CHOOSE j \in O : \A n \in O : n <= j IN
                  \/ m_args'[k] \in Words /\ Follows(last, m_args'[k])
                  \/ m_args'[k] = Empty /\ \A v \in Words : ~Follows(last, v)
    <2> DEFINE O == {j \in 1 .. Len(argv) : argv[j] = Option(k)}
    <2> DEFINE last == CHOOSE j \in O : \A n \in O : n <= j
    <2>1. CASE O = {}
        <3>1. \A j \in Read : argv[j] # Option(k) BY <2>1, <1>4
        <3>2. m_args[k] = "-" BY <3>1, <1>3 DEF GivenInv
        <3>3. k # now_key BY <3>1, <1>2, <1>3 DEF WaitingInv
        <3> QED BY <2>1, <3>2, <3>3, <1>1, <1>2
    <2>2. CASE O # {}
        <3> SUFFICES \/ m_args'[k] \in Words /\ Follows(last, m_args'[k])
                     \/ m_args'[k] = Empty /\ \A v \in Words : ~Follows(last, v)
            BY <2>2
        <3>1. PICK j \in Read : Latest(k, j) BY <2>2, <1>3, <1>4 DEF GivenInv
        <3>2. j \in O /\ \A n \in O : n <= j BY <3>1, <1>4 DEF Latest
        <3>3. last \in O /\ \A n \in O : n <= last BY <3>2
        <3>4. last = j BY <3>2, <3>3
        <3> HIDE DEF last
        <3>5. j \in Nat /\ j \in 1 .. Len(argv) BY <3>2
        <3>6. CASE k = now_key
            <4>1. m_args'[k] = Empty BY <3>6, <1>1, <1>2
            <4>2. PICK i \in Read : argv[i] = Option(k) /\ Dashes(i + 1, word - 1)
                BY <3>6, <1>2, <1>3 DEF WaitingInv
            <4>3. i <= j BY <3>1, <4>2 DEF Latest
            <4>4. ASSUME NEW v \in Words, Follows(j, v) PROVE FALSE
                <5>1. PICK n \in j + 1 .. Len(argv) : argv[n] = Value(v) BY <4>4 DEF Follows
                <5>2. n \in i + 1 .. word - 1 BY <1>4, <3>5, <4>2, <4>3
                <5>3. argv[n] = LoneDash BY <4>2, <5>2 DEF Dashes
                <5> QED BY <5>1, <5>3, WordKinds
            <4> QED BY <3>4, <4>1, <4>4
        <3>7. CASE k # now_key
            <4>1. m_args'[k] = m_args[k] BY <3>7, <1>1, <1>2
            <4>2. PICK n \in j + 1 .. Len(argv) :
                    /\ Dashes(j + 1, n - 1)
                    /\ \/ m_args[k] \in Words /\ argv[n] = Value(m_args[k])
                       \/ m_args[k] = Empty /\ \E q \in Keys : argv[n] = Option(q)
                BY <3>1, <3>7, <1>3, <1>4 DEF GivenInv
            <4>3. CASE m_args[k] \in Words /\ argv[n] = Value(m_args[k])
                <5>1. Follows(j, m_args[k]) BY <4>2, <4>3 DEF Follows, Dashes
                <5> QED BY <3>4, <4>1, <4>3, <5>1
            <4>4. CASE m_args[k] = Empty /\ \E q \in Keys : argv[n] = Option(q)
                <5>1. argv[n] # LoneDash /\ \A v \in Words : argv[n] # Value(v) BY <4>4, WordKinds
                <5>2. \A v \in Words : ~Follows(j, v) BY <1>6, <3>5, <4>2, <5>1
                <5> QED BY <3>4, <4>1, <4>4, <5>2
            <4> QED BY <4>2, <4>3, <4>4
        <3> QED BY <3>6, <3>7
    <2> QED BY <2>1, <2>2
\* A word that a value follows, and that is no lone dash, is an option.
<1>8. ASSUME NEW i \in 0 .. Len(argv), NEW v \in Words, Follows(i, v),
             i # 0 => argv[i] # LoneDash
      PROVE  i > 0 /\ \E q \in Keys : argv[i] = Option(q)
    <2>1. PICK n \in i + 1 .. Len(argv) :
            argv[n] = Value(v) /\ \A m \in i + 1 .. n - 1 : argv[m] = LoneDash
        BY <1>8 DEF Follows
    <2>2. n \in Read BY <1>2, <1>4, <2>1
    <2>3. PICK j \in 1 .. n - 1, q \in Keys : argv[j] = Option(q) /\ Dashes(j + 1, n - 1)
        BY <1>3, <2>1, <2>2 DEF ValuesInv
    <2>4. argv[j] # LoneDash BY <2>3, WordKinds
    <2>5. ~ j > i
        <3>1. j > i => j \in i + 1 .. n - 1 BY <1>2, <2>1, <2>3
        <3> QED BY <3>1, <2>1, <2>4
    <2>6. ~ j < i
        <3>1. ASSUME j < i PROVE FALSE
            <4>1. i \in j + 1 .. n - 1 /\ i \in Read BY <1>2, <1>4, <2>1, <2>3, <3>1
            <4>2. argv[i] = LoneDash BY <2>3, <4>1 DEF Dashes
            <4> QED BY <1>8, <2>3, <3>1, <4>2
        <3> QED BY <3>1
    <2> QED BY <2>3, <2>5, <2>6, <1>2
<1>9. ArgsExact'
    <2>1. \A v \in Words : ~Follows(0, v) BY <1>2, <1>8
    <2>2. \A j \in 1 .. Len(argv), u, v \in Words : argv[j] = Value(u) => ~Follows(j, v)
        BY <1>2, <1>8, WordKinds
    <2>3. \A j, v : Follows(j, v)' <=> Follows(j, v) BY <1>1, SameLine
    <2>4. \A k \in Keys : LET O == {j \in 1 .. Len(argv) : argv[j] = Option(k)} IN
            (IF O = {} THEN m_args[k] = "-"
             ELSE LET last == CHOOSE j \in O : \A n \in O : n <= j IN
                  \/ m_args[k] \in Words /\ Follows(last, m_args[k])
                  \/ m_args[k] = Empty /\ \A v \in Words : ~Follows(last, v))'
        BY <1>1, <1>7, <2>3
    <2> QED BY <1>1, <2>1, <2>2, <2>3, <2>4 DEF ArgsExact
<1> QED BY <1>1, <1>5, <1>9 DEF EnvInv

\* What the program does after init() changes only what it has touched.
LEMMA LaterStep ==
    ASSUME EnvInv, env # "init", env' \notin {"init"}, env = "failed" <=> env' = "failed",
           argv' = argv, word' = word, now_key' = now_key,
           m_args' \in [Keys -> Words \union {Empty, "-"}],
           \A k \in Keys \ touched' : k \notin touched /\ m_args'[k] = m_args[k]
    PROVE  EnvInv'
<1>1. EnvTypeOK' BY DEF EnvInv, EnvTypeOK
<1>2. \A j, v : Follows(j, v)' <=> Follows(j, v) BY SameLine
<1>3. CASE env = "failed" BY <1>1, <1>3 DEF EnvInv, ArgsExact
<1>4. CASE env # "failed"
    <2>1. argv' = argv OBVIOUS
    <2>2. ASSUME NEW k \in Keys, k \notin touched'
          PROVE  LET O == {j \in 1 .. Len(argv) : argv[j] = Option(k)} IN
                 (IF O = {} THEN m_args[k] = "-"
                  ELSE LET last == CHOOSE j \in O : \A n \in O : n <= j IN
                       \/ m_args[k] \in Words /\ Follows(last, m_args[k])
                       \/ m_args[k] = Empty /\ \A v \in Words : ~Follows(last, v))'
        <3>1. k \notin touched /\ m_args'[k] = m_args[k] BY <2>2
        <3>2. LET O == {j \in 1 .. Len(argv) : argv[j] = Option(k)} IN
              IF O = {} THEN m_args[k] = "-"
              ELSE LET last == CHOOSE j \in O : \A n \in O : n <= j IN
                   \/ m_args[k] \in Words /\ Follows(last, m_args[k])
                   \/ m_args[k] = Empty /\ \A v \in Words : ~Follows(last, v)
            BY <1>4, <3>1 DEF EnvInv, ArgsExact
        <3> DEFINE O == {j \in 1 .. Len(argv) : argv[j] = Option(k)}
        <3> DEFINE last == CHOOSE j \in O : \A n \in O : n <= j
        <3>3. O' = O BY <2>1
        <3>4. last' = last
            <4> HIDE DEF O
            <4> QED BY <3>3
        <3>5. CASE O = {} BY <3>1, <3>2, <3>3, <3>5
        <3>6. CASE O # {}
            <4>1. \/ m_args[k] \in Words /\ Follows(last, m_args[k])
                  \/ m_args[k] = Empty /\ \A v \in Words : ~Follows(last, v)
                BY <3>2, <3>6
            <4>2. (\/ m_args[k] \in Words /\ Follows(last, m_args[k])
                   \/ m_args[k] = Empty /\ \A v \in Words : ~Follows(last, v))'
                <5> HIDE DEF last
                <5> QED BY <1>2, <3>1, <3>4, <4>1
            <4> QED BY <3>3, <3>6, <4>2
        <3> QED BY <3>5, <3>6
    <2>3. \A v \in Words : ~Follows(0, v) BY <1>4 DEF EnvInv, ArgsExact
    <2>4. \A j \in 1 .. Len(argv), u, v \in Words : argv[j] = Value(u) => ~Follows(j, v)
        BY <1>4 DEF EnvInv, ArgsExact
    <2>5. ArgsExact' BY <2>1, <1>2, <2>2, <2>3, <2>4 DEF ArgsExact
    <2> QED BY <1>1, <2>5 DEF EnvInv
<1> QED BY <1>3, <1>4

LEMMA EnvInvStep == EnvInv /\ [EnvNext]_envVars => EnvInv'
<1> SUFFICES ASSUME EnvInv, [EnvNext]_envVars PROVE EnvInv'
    OBVIOUS
<1>1. m_args \in [Keys -> Words \union {Empty, "-"}] BY DEF EnvInv, EnvTypeOK
<1>2. CASE ReadlinkFails
    <2>1. EnvTypeOK' BY <1>2 DEF ReadlinkFails, EnvInv, EnvTypeOK, argVars
    <2> QED BY <1>2, <2>1 DEF ReadlinkFails, EnvInv, ArgsExact
<1>3. CASE LoneDashArg BY <1>3, DashStep
<1>4. CASE ArgsEnd BY <1>4, EndStep
<1>5. ASSUME NEW k \in Keys, OptionArg(k) PROVE EnvInv' BY <1>5, OptionStep
<1>6. ASSUME NEW v \in Words, ValueArg(v) PROVE EnvInv' BY <1>6, ValueStep
<1>7. ASSUME NEW k \in Keys, NEW add \in BOOLEAN, RemoveHelp(k, add) PROVE EnvInv'
    BY <1>1, <1>7, LaterStep DEF RemoveHelp, argVars
<1>8. ASSUME NEW k \in Keys, NEW v \in Words, ArgAdd(k, v) PROVE EnvInv'
    <2>1. /\ env = "ready" /\ env' = env /\ UNCHANGED <<argv, word, now_key>>
          /\ m_args' = [m_args EXCEPT ![k] = v] /\ touched' = touched \union {k}
        BY <1>8 DEF ArgAdd, Add
    <2>2. m_args' \in [Keys -> Words \union {Empty, "-"}] BY <1>1, <2>1
    <2> QED BY <1>1, <2>1, <2>2, LaterStep
<1>9. ASSUME NEW k \in Keys, ArgDel(k) PROVE EnvInv'
    <2>1. /\ env = "ready" /\ env' = env /\ UNCHANGED <<argv, word, now_key>>
          /\ m_args' = [m_args EXCEPT ![k] = "-"] /\ touched' = touched \union {k}
        BY <1>9 DEF ArgDel, Add
    <2>2. m_args' \in [Keys -> Words \union {Empty, "-"}] BY <1>1, <2>1
    <2> QED BY <1>1, <2>1, <2>2, LaterStep
<1>10. CASE RemoveRound \/ RemoveEnd \/ RemoveBeyond
    BY <1>1, <1>10, LaterStep DEF RemoveRound, RemoveEnd, RemoveBeyond, argVars
<1>11. CASE UNCHANGED envVars
    <2>1. UNCHANGED <<argv, word, now_key, m_args, touched, env>> BY <1>11 DEF envVars
    <2>2. CASE env # "init" BY <1>1, <2>1, <2>2, LaterStep
    <2>3. CASE env = "init"
        <3>1. EnvTypeOK' BY <2>1 DEF EnvInv, EnvTypeOK
        <3>2. (WaitingInv /\ GivenInv /\ ValuesInv)'
            BY <2>1, <2>3 DEF EnvInv, WaitingInv, GivenInv, ValuesInv, Read, Latest, Dashes
        <3>3. ArgsExact' BY <2>1, <2>3 DEF ArgsExact
        <3> QED BY <3>1, <3>2, <3>3 DEF EnvInv
    <2> QED BY <2>2, <2>3
<1> QED BY <1>2, <1>3, <1>4, <1>5, <1>6, <1>7, <1>8, <1>9, <1>10, <1>11 DEF EnvNext

\* After init() every option has the value behind its last occurrence, or the
\* empty one, and no value stands without an option: for every command line
\* over any keys and values, whatever its length.
THEOREM CommandLineRead == EnvSpec => []ArgsExact
<1>1. EnvInit => EnvInv BY EnvInvInit
<1>2. EnvInv /\ [EnvNext]_envVars => EnvInv' BY EnvInvStep
<1>3. EnvInv => ArgsExact BY DEF EnvInv
<1> QED BY <1>1, <1>2, <1>3, PTL DEF EnvSpec

-----------------------------------------------------------------------------
(* FSUtil: what Mkdir, Rm and Mv return is true of the tree, for every set *)
(* of paths, threads and calls.                                            *)

Removers == {"Rm", "Mv", "Symlink"}
Acts == [path : Paths, phase : {"lstat", "gone?", "unlink", "opendir", "readdir"},
         left : SUBSET Paths, ret : BOOLEAN]

FSSteps == {"idle", "lstat", "access", "mkdir", "open", "again", "rm", "Mv", "Symlink", "done"}

FSTypeOK ==
    /\ tree \in [Paths -> Kinds]
    /\ call \in [FSThreads -> [op : {"none", "Mkdir", "Open"} \union Removers, path : Paths, from : Paths]]
    /\ step \in [FSThreads -> FSSteps]
    /\ at \in [FSThreads -> Nat]
    /\ stack \in [FSThreads -> Seq(Acts)]
    /\ ret \in [FSThreads -> BOOLEAN]
    /\ source \in [FSThreads -> Kinds]
    /\ made \in [FSThreads -> SUBSET Paths] /\ gone \in [FSThreads -> SUBSET Paths]

\* The call a thread is in goes with the step it is at.
OpInv(t) ==
    /\ step[t] = "idle" => call[t] = NoCall
    /\ step[t] \in {"lstat", "access", "mkdir"} => call[t].op \in {"Mkdir", "Open"}
    /\ step[t] \in {"open", "again"} => call[t].op = "Open"
    /\ step[t] = "rm" => call[t].op \in Removers
    /\ step[t] = "Mv" => call[t].op = "Mv"
    /\ step[t] = "Symlink" => call[t].op = "Symlink"

\* The activations S of an Rm of path p: each is of an entry of the directory
\* of the one before.
LeftFits(a) == \A q \in a.left : q # <<>> /\ Dirname(q) = a.path
ChainAt(a, p, i) == IsPrefix(p, a.path) /\ Len(a.path) = Len(p) + i - 1 /\ LeftFits(a)
Chain(S, p) ==
    /\ Len(S) > 0 /\ S[1].path = p
    /\ \A i \in 1 .. Len(S) : ChainAt(S[i], p, i)
    /\ \A i \in 1 .. Len(S) - 1 : S[i].phase = "readdir"
ChainInv(t) == step[t] = "rm" => Chain(stack[t], call[t].path)

MkdirInv(t) ==
    Returned(t, "Mkdir", TRUE) => Exists(call[t].path) \/ call[t].path \in gone[t]

\* Nobody else removes anything or has made anything below the path of t.
Alone(t) ==
    /\ \A u \in FSThreads \ {t} : call[u].op \notin Removers
    /\ made[t] \cap Below(call[t].path) = {}

\* Something below the path of t cannot be removed.
Blocked(t) == \E p \in Below(call[t].path) : Exists(p) /\ (p \in Refused \/ tree[p] = "socket")

\* What an activation a of t knows: its path is still what lstat found, and
\* the loop of its readdir() has still to do what is in the directory, except
\* for C, what the activation above it is at.
Knows(t, a, C) ==
    /\ ~a.ret => Blocked(t)
    /\ a.phase \in {"gone?", "unlink"} => tree[a.path] \notin {"none", "dir", "socket"}
    /\ a.phase = "opendir" => tree[a.path] \in {"dir", "socket"}
    /\ a.phase = "readdir" =>
        tree[a.path] = "dir" /\ (Blocked(t) \/ \A q \in Entries(a.path) : q \in a.left \/ q \in C)
Above(S, i) == IF i < Len(S) THEN {S[i + 1].path} ELSE {}
Activated(t, i) == Knows(t, stack[t][i], Above(stack[t], i))

RmInv(t) ==
    /\ step[t] = "rm" /\ Alone(t) => \A i \in 1 .. Len(stack[t]) : Activated(t, i)
    /\ Returned(t, "Rm", FALSE) /\ Alone(t) => Blocked(t)
    /\ Returned(t, "Rm", TRUE) => ~Exists(call[t].path) \/ call[t].path \in made[t]

\* A Mv of something precious that nobody else is after.
Protected(t) ==
    /\ call[t].op = "Mv" /\ source[t] = "precious" /\ ~IsPrefix(call[t].path, call[t].from)
    /\ \A u \in FSThreads \ {t} : \A p \in Victims(u) :
        ~IsPrefix(p, call[t].from) /\ ~IsPrefix(p, call[t].path)
MvInv(t) ==
    Protected(t) =>
        IF step[t] = "done" THEN "precious" \in {tree[call[t].from], tree[call[t].path]}
        ELSE tree[call[t].from] = "precious"

FSInv ==
    /\ FSTypeOK
    /\ \A t \in FSThreads : OpInv(t) /\ ChainInv(t) /\ MkdirInv(t) /\ RmInv(t) /\ MvInv(t)

-----------------------------------------------------------------------------
(* Paths.                                                                  *)

LEMMA PathFacts ==
    ASSUME NEW p \in Paths
    PROVE  /\ Len(p) \in Nat /\ IsPrefix(p, p) /\ SubSeq(p, 1, Len(p)) = p
           /\ \A q \in Paths : p \o SubSeq(q, Len(q) + 1, Len(q)) = p
<1> DEFINE S == UNION {Range(q) : q \in Paths}
<1>1. \A q \in Paths : q \in Seq(S) BY FSAssumption
<1> HIDE DEF S
<1>2. p \in Seq(S) /\ Len(p) \in Nat BY <1>1
<1>3. SubSeq(p, 1, Len(p)) = p BY <1>2
<1>4. ASSUME NEW q \in Paths PROVE p \o SubSeq(q, Len(q) + 1, Len(q)) = p
    <2>1. q \in Seq(S) BY <1>1
    <2> QED BY <1>2, <2>1
<1> QED BY <1>2, <1>3, <1>4 DEF IsPrefix

LEMMA BeginningType ==
    ASSUME NEW S, NEW A \in Seq(S), NEW k \in 0 .. Len(A)
    PROVE  SubSeq(A, 1, k) \in Seq(S) /\ Len(SubSeq(A, 1, k)) = k
<1>1. 1 \in Int /\ k \in Int OBVIOUS
<1>2. \A i \in 1 .. k : A[i] \in S OBVIOUS
<1>3. SubSeq(A, 1, k) \in Seq(S) BY <1>1, <1>2, SubSeqProperties
<1>4. Len(SubSeq(A, 1, k)) = IF 1 <= k THEN k - 1 + 1 ELSE 0 BY <1>1, <1>2, SubSeqProperties
<1> QED BY <1>3, <1>4

LEMMA EntryBelow ==
    ASSUME NEW p \in Paths, NEW q \in Paths, q # <<>>, IsPrefix(p, Dirname(q))
    PROVE  IsPrefix(p, q) /\ Len(q) = Len(Dirname(q)) + 1
<1> DEFINE S == UNION {Range(r) : r \in Paths}
<1>1. p \in Seq(S) /\ q \in Seq(S) BY FSAssumption
<1> HIDE DEF S
<1>2. Len(q) \in Nat /\ Len(q) > 0 /\ Len(p) \in Nat BY <1>1
<1>3. Dirname(q) = SubSeq(q, 1, Len(q) - 1) BY DEF Dirname, Front
<1>4. Dirname(q) \in Seq(S) /\ Len(Dirname(q)) = Len(q) - 1
    <2>1. Len(q) - 1 \in 0 .. Len(q) BY <1>2
    <2> QED BY <1>1, <1>3, <2>1, BeginningType
<1>5. \A i \in 1 .. Len(q) - 1 : Dirname(q)[i] = q[i] BY <1>1, <1>2, <1>3
<1>6. Len(p) <= Len(q) - 1 /\ p = SubSeq(Dirname(q), 1, Len(p)) BY <1>1, <1>4 DEF IsPrefix
<1>7. \A i \in 1 .. Len(p) : p[i] = q[i] BY <1>1, <1>2, <1>4, <1>5, <1>6
<1>8. p = SubSeq(q, 1, Len(p)) BY <1>1, <1>2, <1>6, <1>7
<1> QED BY <1>1, <1>2, <1>4, <1>6, <1>8 DEF IsPrefix

LEMMA FrontFacts ==
    ASSUME NEW S, NEW A \in Seq(S), Len(A) > 0
    PROVE  /\ Front(A) \in Seq(S) /\ Len(Front(A)) = Len(A) - 1
           /\ \A i \in 1 .. Len(A) - 1 : Front(A)[i] = A[i]
           /\ Last(A) = A[Len(A)] /\ Last(A) \in S
<1>1. Len(A) \in Nat /\ Len(A) - 1 \in Nat OBVIOUS
<1>2. Front(A) = SubSeq(A, 1, Len(A) - 1) BY DEF Front
<1>3. Front(A) \in Seq(S) /\ Len(Front(A)) = Len(A) - 1
    <2>1. Len(A) - 1 \in 0 .. Len(A) BY <1>1
    <2> QED BY <1>2, <2>1, BeginningType
<1>4. \A i \in 1 .. Len(A) - 1 : Front(A)[i] = A[i] BY <1>1, <1>2
<1> QED BY <1>3, <1>4 DEF Last

-----------------------------------------------------------------------------
(* What a step does to the tree, and what it leaves alone.                 *)

\* A path is made; one that is below the path of u vanishes; u moves something.
Grows == \E p, k : ~Exists(p) /\ k \in Kinds \ {"none"} /\ tree' = [tree EXCEPT ![p] = k]
Shrinks(u) ==
    /\ call[u].op \in Removers
    /\ \E p \in Below(call[u].path) : tree' = [tree EXCEPT ![p] = "none"]
Renames(u) ==
    /\ call[u].op = "Mv"
    /\ tree' = Moved(call[u].from, call[u].path)
TreeStep(u) == tree' = tree \/ Grows \/ Shrinks(u) \/ Renames(u)

\* The histories of thread v.
Noted(v) ==
    /\ made'[v] = made[v] \union {p \in Paths : tree'[p] # "none" /\ ~Exists(p)}
    /\ gone'[v] = gone[v] \union {p \in Paths : tree'[p] = "none" /\ Exists(p)}

\* The rest of the state of thread v.
Stays(v) ==
    /\ call'[v] = call[v] /\ step'[v] = step[v] /\ stack'[v] = stack[v] /\ ret'[v] = ret[v]
    /\ source'[v] = source[v]

\* What a step of thread u means to the others.
Elsewhere(u) ==
    /\ TreeStep(u)
    /\ \A v \in FSThreads \ {u} : Noted(v) /\ Stays(v)
    /\ call'[u] = call[u] \/ call[u].op = "none"

LEMMA TreeStepType ==
    ASSUME FSTypeOK, NEW u \in FSThreads, TreeStep(u)
    PROVE  tree' \in [Paths -> Kinds]
<1>1. "none" \in Kinds BY DEF Kinds
<1>2. CASE tree' = tree \/ Grows \/ Shrinks(u) BY <1>1, <1>2 DEF FSTypeOK, Grows, Shrinks
<1>3. CASE Renames(u) BY <1>1, <1>3 DEF FSTypeOK, Renames, Moved
<1> QED BY <1>2, <1>3 DEF TreeStep

\* Being alone, or protected, was so before.
LEMMA AloneBefore ==
    ASSUME FSTypeOK, NEW u \in FSThreads, NEW v \in FSThreads \ {u}, Elsewhere(u), Alone(v)'
    PROVE  /\ Alone(v) /\ call[u].op \notin Removers
           /\ \A p \in Below(call[v].path) : tree'[p] = tree[p]
<1>1. Noted(v) /\ Stays(v) /\ TreeStep(u) BY DEF Elsewhere
<1>2. \A w \in FSThreads \ {v} : call[w].op \notin Removers
    <2>1. \A w \in FSThreads \ {v} : call'[w].op \notin Removers BY DEF Alone
    <2>2. \A w \in FSThreads \ {u} : call'[w] = call[w] BY DEF Elsewhere, Stays
    <2>3. call[u].op \notin Removers BY <2>1 DEF Elsewhere, Removers
    <2> QED BY <2>1, <2>2, <2>3
<1>3. Below(call[v].path)' = Below(call[v].path) BY <1>1 DEF Below, Stays
<1>4. made'[v] \cap Below(call[v].path) = {} BY <1>3 DEF Alone
<1>5. Alone(v) BY <1>1, <1>2, <1>4 DEF Alone, Noted
<1>6. tree' = tree \/ Grows BY <1>1, <1>2 DEF TreeStep, Shrinks, Renames, Removers
<1>7. ASSUME NEW p \in Below(call[v].path) PROVE tree'[p] = tree[p]
    <2>1. p \in Paths /\ ~(tree'[p] # "none" /\ ~Exists(p))
        BY <1>1, <1>4 DEF Noted, Below
    <2> QED BY <1>6, <2>1 DEF Grows, Exists, FSTypeOK
<1> QED BY <1>2, <1>5, <1>7

LEMMA ProtectedBefore ==
    ASSUME FSTypeOK, NEW u \in FSThreads, NEW v \in FSThreads \ {u}, Elsewhere(u), Protected(v)'
    PROVE  /\ Protected(v)
           /\ \A p \in Victims(u) : ~IsPrefix(p, call[v].from) /\ ~IsPrefix(p, call[v].path)
<1>1. Stays(v) BY DEF Elsewhere
<1>2. ASSUME NEW w \in FSThreads \ {v}, NEW p \in Victims(w)
      PROVE  ~IsPrefix(p, call[v].from) /\ ~IsPrefix(p, call[v].path)
    <2>1. call'[w] = call[w]
        <3>1. CASE w = u
            <4>1. call[w].op # "none" BY <1>2 DEF Victims
            <4> QED BY <3>1, <4>1 DEF Elsewhere
        <3>2. CASE w # u BY <3>2 DEF Elsewhere, Stays
        <3> QED BY <3>1, <3>2
    <2>2. Victims(w)' = Victims(w) BY <2>1 DEF Victims
    <2> QED BY <1>1, <1>2, <2>2 DEF Protected, Stays
<1>3. Protected(v) BY <1>1, <1>2 DEF Protected, Stays
<1> QED BY <1>2, <1>3

\* A path that is neither a victim of u nor below one stays what it is, if it
\* is something.
LEMMA Survives ==
    ASSUME FSTypeOK, NEW u \in FSThreads, TreeStep(u), NEW r \in Paths, Exists(r),
           \A p \in Victims(u) : ~IsPrefix(p, r)
    PROVE  tree'[r] = tree[r]
<1>1. CASE tree' = tree \/ Grows BY <1>1 DEF Grows, Exists, FSTypeOK
<1>2. CASE Shrinks(u)
    <2>1. PICK p \in Below(call[u].path) : tree' = [tree EXCEPT ![p] = "none"] BY <1>2 DEF Shrinks
    <2>2. call[u].path \in Victims(u) BY <1>2 DEF Shrinks, Victims, Removers
    <2>3. p # r BY <2>2 DEF Below
    <2> QED BY <2>1, <2>3 DEF FSTypeOK
<1>3. CASE Renames(u)
    <2>1. call[u].path \in Victims(u) /\ call[u].from \in Victims(u) BY <1>3 DEF Renames, Victims
    <2> QED BY <1>3, <2>1 DEF Renames, Moved
<1> QED BY <1>1, <1>2, <1>3 DEF TreeStep

\* The invariants of a thread while another one moves.
LEMMA OthersKept ==
    ASSUME FSInv, NEW u \in FSThreads, NEW v \in FSThreads \ {u}, Elsewhere(u)
    PROVE  OpInv(v)' /\ ChainInv(v)' /\ MkdirInv(v)' /\ RmInv(v)' /\ MvInv(v)'
<1>1. Noted(v) /\ Stays(v) /\ TreeStep(u) BY DEF Elsewhere
<1>2. FSTypeOK /\ tree' \in [Paths -> Kinds] BY <1>1, TreeStepType DEF FSInv
<1>3. call[v].path \in Paths /\ call[v].from \in Paths BY <1>2 DEF FSTypeOK
<1>4. OpInv(v)' BY <1>1 DEF FSInv, OpInv, Stays
<1>5. ChainInv(v)'
    <2>1. PICK S, p : S = stack[v] /\ p = call[v].path OBVIOUS
    <2>2. stack'[v] = S /\ call'[v].path = p /\ step'[v] = step[v] BY <1>1, <2>1 DEF Stays
    <2>3. step[v] = "rm" => Chain(S, p) BY <2>1 DEF FSInv, ChainInv
    <2> QED BY <2>2, <2>3 DEF ChainInv
<1>6. MkdirInv(v)'
    <2>1. MkdirInv(v) BY DEF FSInv
    <2> QED BY <1>1, <1>3, <2>1 DEF MkdirInv, Returned, Stays, Noted, Exists
<1>7. MvInv(v)'
    <2>1. SUFFICES ASSUME Protected(v)'
          PROVE  IF step[v] = "done" THEN "precious" \in {tree'[call[v].from], tree'[call[v].path]}
                 ELSE tree'[call[v].from] = "precious"
        BY <1>1 DEF MvInv, Stays
    <2>2. /\ Protected(v)
          /\ \A p \in Victims(u) : ~IsPrefix(p, call[v].from) /\ ~IsPrefix(p, call[v].path)
        BY <1>2, <2>1, ProtectedBefore
    <2>3. MvInv(v) BY DEF FSInv
    <2>4. tree[call[v].from] = "precious" => tree'[call[v].from] = "precious"
        BY <1>1, <1>2, <1>3, <2>2, Survives DEF Exists
    <2>5. tree[call[v].path] = "precious" => tree'[call[v].path] = "precious"
        BY <1>1, <1>2, <1>3, <2>2, Survives DEF Exists
    <2> QED BY <2>2, <2>3, <2>4, <2>5 DEF MvInv
<1>8. RmInv(v)'
    <2>1. Returned(v, "Rm", TRUE)' => ~Exists(call[v].path)' \/ call'[v].path \in made'[v]
        <3>1. Returned(v, "Rm", TRUE) => ~Exists(call[v].path) \/ call[v].path \in made[v]
            BY DEF FSInv, RmInv
        <3> QED BY <1>1, <1>3, <3>1 DEF Returned, Stays, Noted, Exists
    <2>2. ASSUME Alone(v)'
          PROVE  /\ step'[v] = "rm" => \A i \in 1 .. Len(stack'[v]) : Activated(v, i)'
                 /\ Returned(v, "Rm", FALSE)' => Blocked(v)'
        <3>1. Alone(v) /\ \A p \in Below(call[v].path) : tree'[p] = tree[p]
            BY <1>2, <2>2, AloneBefore
        <3>2. Below(call[v].path)' = Below(call[v].path) BY <1>1 DEF Below, Stays
        <3>3. Blocked(v)' <=> Blocked(v) BY <3>1, <3>2 DEF Blocked, Exists
        <3>4. Returned(v, "Rm", FALSE)' => Blocked(v)'
            BY <1>1, <3>1, <3>3 DEF FSInv, RmInv, Returned, Stays
        <3>5. ASSUME step[v] = "rm", NEW i \in 1 .. Len(stack[v]) PROVE Activated(v, i)'
            <4>1. PICK S, a : S = stack[v] /\ a = S[i] OBVIOUS
            <4>2. stack'[v] = S BY <1>1, <4>1 DEF Stays
            <4>3. Activated(v, i) BY <3>1, <3>5 DEF FSInv, RmInv
            <4>4. a \in Acts BY <1>2, <4>1 DEF FSTypeOK
            <4>5. IsPrefix(call[v].path, a.path) BY <3>5, <4>1 DEF FSInv, ChainInv, Chain, ChainAt
            <4>6. a.path \in Paths /\ tree'[a.path] = tree[a.path]
                BY <3>1, <4>4, <4>5 DEF Below, Acts
            <4>7. \A q \in Paths \ {<<>>} : Dirname(q) = a.path => tree'[q] = tree[q]
                BY <1>3, <3>1, <4>5, EntryBelow DEF Below
            <4>8. Entries(a.path)' = Entries(a.path) BY <4>7 DEF Entries, Exists
            <4>9. PICK C : C = Above(S, i) OBVIOUS
            <4>10. Knows(v, a, C) BY <4>1, <4>3, <4>9 DEF Activated
            <4>11. Knows(v, a, C)' BY <3>3, <4>6, <4>8, <4>10 DEF Knows
            <4> QED BY <4>1, <4>2, <4>9, <4>11 DEF Activated
        <3> QED BY <1>1, <3>4, <3>5 DEF Stays
    <2> QED BY <2>1, <2>2 DEF RmInv
<1> QED BY <1>4, <1>5, <1>6, <1>7, <1>8

-----------------------------------------------------------------------------
(* The activations of Rm.                                                  *)

\* The activations below the top, the top, and how many there are.
LEMMA ChainFacts ==
    ASSUME NEW S \in Seq(Acts), NEW p, Chain(S, p)
    PROVE  /\ Len(S) \in Nat /\ Len(S) > 0 /\ Front(S) \in Seq(Acts) /\ Len(Front(S)) = Len(S) - 1
           /\ \A i \in 1 .. Len(S) - 1 : Front(S)[i] = S[i]
           /\ Last(S) = S[Len(S)] /\ \A i \in 1 .. Len(S) : S[i] \in Acts /\ ChainAt(S[i], p, i)
           /\ \A i \in 1 .. Len(S) - 1 : S[i].phase = "readdir"
           /\ S[1].path = p
<1>1. Len(S) \in Nat /\ Len(S) > 0 BY DEF Chain
<1>2. /\ Front(S) \in Seq(Acts) /\ Len(Front(S)) = Len(S) - 1
      /\ \A i \in 1 .. Len(S) - 1 : Front(S)[i] = S[i]
      /\ Last(S) = S[Len(S)]
    BY <1>1, FrontFacts
<1>3. \A i \in 1 .. Len(S) : S[i] \in Acts BY <1>1
<1>4. /\ \A i \in 1 .. Len(S) : ChainAt(S[i], p, i)
      /\ \A i \in 1 .. Len(S) - 1 : S[i].phase = "readdir"
      /\ S[1].path = p
    BY DEF Chain
<1> QED BY <1>1, <1>2, <1>3, <1>4

\* The activation at the top changes.
LEMMA ChainTop ==
    ASSUME NEW S \in Seq(Acts), NEW p, Chain(S, p),
           NEW a \in Acts, a.path = Last(S).path, LeftFits(a)
    PROVE  \E R \in Seq(Acts) :
           /\ R = Append(Front(S), a) /\ Len(R) = Len(S) /\ R[Len(S)] = a
           /\ \A i \in 1 .. Len(S) - 1 : R[i] = S[i]
           /\ Chain(R, p)
<1> PICK n, R : n = Len(S) /\ R = Append(Front(S), a) OBVIOUS
<1>1. /\ n \in Nat /\ n > 0 /\ Last(S) = S[n] /\ S[1].path = p
      /\ \A i \in 1 .. n : ChainAt(S[i], p, i)
      /\ \A i \in 1 .. n - 1 : S[i].phase = "readdir"
    BY ChainFacts
<1>2. PICK F \in Seq(Acts) : F = Front(S) /\ Len(F) = n - 1 /\ \A i \in 1 .. n - 1 : F[i] = S[i]
    BY ChainFacts
<1>3. R \in Seq(Acts) /\ Len(R) = n /\ R[n] = a BY <1>1, <1>2
<1>4. \A i \in 1 .. n - 1 : R[i] = S[i] BY <1>1, <1>2
<1>5. ChainAt(a, p, n)
    <2>1. ChainAt(S[n], p, n) BY <1>1
    <2> QED BY <1>1, <2>1 DEF ChainAt
<1>6. \A i \in 1 .. n : i = n \/ i \in 1 .. n - 1 BY <1>1
<1>7. \A i \in 1 .. n : ChainAt(R[i], p, i) BY <1>1, <1>3, <1>4, <1>5, <1>6
<1>8. R[1].path = p
    <2>1. CASE n = 1 BY <1>1, <1>3, <2>1
    <2>2. CASE n # 1
        <3>1. 1 \in 1 .. n - 1 BY <1>1, <2>2
        <3> QED BY <1>1, <1>4, <3>1
    <2> QED BY <2>1, <2>2
<1>9. Chain(R, p) BY <1>1, <1>3, <1>4, <1>7, <1>8 DEF Chain
<1> QED BY <1>3, <1>4, <1>9

\* It returns to the one below it.
LEMMA ChainPop ==
    ASSUME NEW S \in Seq(Acts), NEW p, Chain(S, p), Len(S) > 1, NEW v \in BOOLEAN
    PROVE  \E R \in Seq(Acts) :
           /\ R = [Front(S) EXCEPT ![Len(S) - 1].ret = v] /\ Len(R) = Len(S) - 1
           /\ R[Len(S) - 1] = [S[Len(S) - 1] EXCEPT !.ret = v]
           /\ \A i \in 1 .. Len(S) - 2 : R[i] = S[i]
           /\ Chain(R, p)
<1> PICK n, R : n = Len(S) /\ R = [Front(S) EXCEPT ![n - 1].ret = v] OBVIOUS
<1>1. /\ n \in Nat /\ S[1].path = p
      /\ \A i \in 1 .. n : S[i] \in Acts /\ ChainAt(S[i], p, i)
      /\ \A i \in 1 .. n - 1 : S[i].phase = "readdir"
    BY ChainFacts
<1>2. PICK F \in Seq(Acts) : F = Front(S) /\ Len(F) = n - 1 /\ \A i \in 1 .. n - 1 : F[i] = S[i]
    BY ChainFacts
<1>3. PICK k \in Nat : k = n - 1 /\ k > 0 BY <1>1
<1>4. k \in 1 .. n /\ k \in 1 .. n - 1 /\ S[k] \in Acts /\ ChainAt(S[k], p, k) /\ S[k].phase = "readdir"
    BY <1>1, <1>3
<1>5. PICK a \in Acts : /\ a = [S[k] EXCEPT !.ret = v]
                        /\ a.path = S[k].path /\ a.left = S[k].left /\ a.phase = S[k].phase
    <2>1. PICK s \in Acts : s = S[k] BY <1>4
    <2>2. PICK a : a = [s EXCEPT !.ret = v] OBVIOUS
    <2>3. a \in Acts /\ a.path = s.path /\ a.left = s.left /\ a.phase = s.phase
        BY <2>2 DEF Acts
    <2> QED BY <2>1, <2>2, <2>3
<1>6. R = [F EXCEPT ![k] = a]
    <2>1. F[k] = S[k] BY <1>2, <1>4
    <2> QED BY <1>2, <1>3, <1>5, <2>1
<1>7. R \in Seq(Acts) /\ Len(R) = k /\ R[k] = a BY <1>2, <1>3, <1>6
<1>8. \A i \in 1 .. k - 1 : R[i] = S[i] BY <1>2, <1>3, <1>6
<1>9. ChainAt(a, p, k) BY <1>4, <1>5 DEF ChainAt, LeftFits
<1>10. \A i \in 1 .. k : (i = k \/ i \in 1 .. k - 1) /\ i \in 1 .. n BY <1>1, <1>3
<1>11. \A i \in 1 .. k : ChainAt(R[i], p, i) BY <1>1, <1>7, <1>8, <1>9, <1>10
<1>12. R[1].path = p
    <2>1. CASE k = 1 BY <1>1, <1>5, <1>7, <2>1
    <2>2. CASE k # 1
        <3>1. 1 \in 1 .. k - 1 BY <1>3, <2>2
        <3> QED BY <1>1, <1>8, <3>1
    <2> QED BY <2>1, <2>2
<1>13. \A i \in 1 .. k - 1 : R[i].phase = "readdir"
    <2>1. \A i \in 1 .. k - 1 : i \in 1 .. n - 1 BY <1>1, <1>3
    <2> QED BY <1>1, <1>8, <2>1
<1>14. Chain(R, p) BY <1>3, <1>7, <1>11, <1>12, <1>13 DEF Chain
<1>15. k - 1 = n - 2 BY <1>1, <1>3
<1> QED BY <1>3, <1>5, <1>7, <1>8, <1>14, <1>15

\* It calls Rm for an entry.
LEMMA ChainPush ==
    ASSUME NEW S \in Seq(Acts), NEW p \in Paths, Chain(S, p), Last(S).phase = "readdir",
           NEW q \in Last(S).left
    PROVE  \E R \in Seq(Acts), b \in Acts :
           /\ b = [Last(S) EXCEPT !.left = @ \ {q}]
           /\ R = Front(S) \o <<b, Activation(q)>> /\ Len(R) = Len(S) + 1
           /\ R[Len(S)] = b /\ R[Len(S) + 1] = Activation(q)
           /\ \A i \in 1 .. Len(S) - 1 : R[i] = S[i]
           /\ Chain(R, p)
           /\ b.path = Last(S).path /\ b.phase = "readdir" /\ b.left = Last(S).left \ {q}
           /\ b.ret = Last(S).ret
<1> PICK n, b, R : /\ n = Len(S) /\ b = [Last(S) EXCEPT !.left = @ \ {q}]
                   /\ R = Front(S) \o <<b, Activation(q)>>
    OBVIOUS
<1>1. /\ n \in Nat /\ n > 0 /\ S[1].path = p /\ Last(S) = S[n]
      /\ \A i \in 1 .. n : S[i] \in Acts /\ ChainAt(S[i], p, i)
      /\ \A i \in 1 .. n - 1 : S[i].phase = "readdir"
    BY ChainFacts
<1>2. PICK F \in Seq(Acts) : F = Front(S) /\ Len(F) = n - 1 /\ \A i \in 1 .. n - 1 : F[i] = S[i]
    BY ChainFacts
<1>3. Last(S) \in Acts /\ ChainAt(Last(S), p, n) BY <1>1
<1>4. /\ b \in Acts /\ b.path = Last(S).path /\ b.phase = "readdir" /\ b.left = Last(S).left \ {q}
      /\ b.ret = Last(S).ret
    BY <1>3 DEF Acts
<1>5. q \in Paths /\ q # <<>> /\ Dirname(q) = Last(S).path BY <1>3 DEF Acts, ChainAt, LeftFits
<1>6. PICK c : c = Activation(q) OBVIOUS
<1>7. c \in Acts /\ c.path = q /\ c.left = {} BY <1>5, <1>6 DEF Activation, Acts
<1>8. PICK m \in Nat : m = n - 1 BY <1>1
<1>9. R = Append(Append(F, b), c)
    <2>1. \A x, y \in Acts : F \o <<x, y>> = Append(Append(F, x), y) OBVIOUS
    <2> QED BY <1>2, <1>4, <1>6, <1>7, <2>1
<1>10. PICK G \in Seq(Acts) : /\ G = Append(F, b) /\ Len(G) = n /\ G[n] = b
                              /\ \A i \in 1 .. n - 1 : G[i] = S[i]
    <2>1. Append(F, b) \in Seq(Acts) /\ Len(Append(F, b)) = n /\ Append(F, b)[n] = b
        BY <1>1, <1>2, <1>4
    <2>2. \A i \in 1 .. n - 1 : Append(F, b)[i] = S[i] BY <1>1, <1>2, <1>4
    <2> QED BY <2>1, <2>2
<1>11. R = Append(G, c) BY <1>9, <1>10
<1>12. /\ R \in Seq(Acts) /\ Len(R) = n + 1 /\ R[n + 1] = c
       /\ \A i \in 1 .. n : R[i] = G[i]
    <2>1. Len(G) = n /\ G \in Seq(Acts) /\ c \in Acts BY <1>7, <1>10
    <2>2. \A x \in Acts : /\ Append(G, x) \in Seq(Acts) /\ Len(Append(G, x)) = Len(G) + 1
                         /\ Append(G, x)[Len(G) + 1] = x
                         /\ \A i \in 1 .. Len(G) : Append(G, x)[i] = G[i]
        OBVIOUS
    <2>3. /\ R \in Seq(Acts) /\ Len(R) = Len(G) + 1 /\ R[Len(G) + 1] = c
          /\ \A i \in 1 .. Len(G) : R[i] = G[i]
        BY <1>11, <2>1, <2>2
    <2> QED BY <2>1, <2>3
<1>13. R[n] = b /\ \A i \in 1 .. n - 1 : R[i] = S[i]
    <2>1. n \in 1 .. n /\ \A i \in 1 .. n - 1 : i \in 1 .. n BY <1>1
    <2> QED BY <1>10, <1>12, <2>1
<1>14. ChainAt(b, p, n) BY <1>3, <1>4 DEF ChainAt, LeftFits
<1>15. ChainAt(c, p, n + 1)
    <2>1. IsPrefix(p, Last(S).path) /\ Len(Last(S).path) = Len(p) + n - 1 BY <1>3 DEF ChainAt
    <2>2. Len(q) = Len(Last(S).path) + 1 /\ IsPrefix(p, q) BY <1>5, <2>1, EntryBelow
    <2>3. Len(p) \in Nat BY PathFacts
    <2>4. Len(q) = Len(p) + (n + 1) - 1 BY <1>1, <2>1, <2>2, <2>3
    <2> QED BY <1>7, <2>2, <2>4 DEF ChainAt, LeftFits
<1>16. \A i \in 1 .. n + 1 : i = n + 1 \/ i = n \/ i \in 1 .. n - 1 BY <1>1
<1>17. \A i \in 1 .. n + 1 : ChainAt(R[i], p, i)
    BY <1>1, <1>12, <1>13, <1>14, <1>15, <1>16
<1>18. R[1].path = p
    <2>1. CASE n = 1 BY <1>1, <1>4, <1>13, <2>1
    <2>2. CASE n # 1
        <3>1. 1 \in 1 .. n - 1 BY <1>1, <2>2
        <3> QED BY <1>1, <1>13, <3>1
    <2> QED BY <2>1, <2>2
<1>19. \A i \in 1 .. n : R[i].phase = "readdir"
    <2>1. \A i \in 1 .. n : i = n \/ i \in 1 .. n - 1 BY <1>1
    <2> QED BY <1>1, <1>4, <1>13, <2>1
<1>20. n + 1 > 0 /\ n + 1 - 1 = n BY <1>1
<1>21. Chain(R, p)
    <2>1. PICK k : k = n + 1 /\ k > 0 /\ k - 1 = n BY <1>20
    <2>2. Len(R) = k /\ \A i \in 1 .. k : ChainAt(R[i], p, i) BY <1>12, <1>17, <2>1
    <2> QED BY <1>18, <1>19, <2>1, <2>2 DEF Chain
<1>22. R \in Seq(Acts) /\ b \in Acts BY <1>4, <1>12
<1> USE <1>22
<1> WITNESS R \in Seq(Acts), b \in Acts
<1>24. Len(R) = Len(S) + 1 /\ R[Len(S)] = b /\ R[Len(S) + 1] = Activation(q)
    BY <1>6, <1>12, <1>13
<1>25. \A i \in 1 .. Len(S) - 1 : R[i] = S[i] BY <1>13
<1> QED BY <1>4, <1>21, <1>24, <1>25

-----------------------------------------------------------------------------
(* The steps.                                                              *)

\* A step of t that is not the beginning of a call.
Local(t) ==
    /\ call' = call /\ source' = source
    /\ step' \in [FSThreads -> FSSteps] /\ at' \in [FSThreads -> Nat]
    /\ stack' \in [FSThreads -> Seq(Acts)] /\ ret' \in [FSThreads -> BOOLEAN]
    /\ \A v \in FSThreads \ {t} : step'[v] = step[v] /\ stack'[v] = stack[v] /\ ret'[v] = ret[v]
    /\ SameTree \/ \E T : Becomes(T)
    /\ TreeStep(t)

LEMMA LocalFacts ==
    ASSUME FSTypeOK, NEW t \in FSThreads, Local(t)
    PROVE  FSTypeOK' /\ Elsewhere(t) /\ Noted(t)
<1>1. tree' \in [Paths -> Kinds] BY TreeStepType DEF Local
<1>2. /\ made' \in [FSThreads -> SUBSET Paths] /\ gone' \in [FSThreads -> SUBSET Paths]
      /\ \A v \in FSThreads : Noted(v)
    <2>1. CASE SameTree
        <3>1. tree' = tree /\ made' = made /\ gone' = gone BY <2>1 DEF SameTree
        <3>2. \A v \in FSThreads : Noted(v)
            BY <3>1 DEF Noted, Exists, FSTypeOK
        <3> QED BY <3>1, <3>2 DEF FSTypeOK
    <2>2. CASE \E T : Becomes(T)
        <3>1. PICK T : Becomes(T) BY <2>2
        <3> QED BY <3>1 DEF Becomes, Noted, FSTypeOK
    <2> QED BY <2>1, <2>2 DEF Local
<1>3. FSTypeOK' BY <1>1, <1>2 DEF FSTypeOK, Local
<1>4. \A v \in FSThreads \ {t} : Stays(v) BY DEF Local, Stays
<1> QED BY <1>2, <1>3, <1>4 DEF Elsewhere, Local

LEMMA Together ==
    ASSUME FSInv, NEW t \in FSThreads, FSTypeOK', Elsewhere(t),
           OpInv(t)', ChainInv(t)', MkdirInv(t)', RmInv(t)', MvInv(t)'
    PROVE  FSInv'
<1>1. ASSUME NEW v \in FSThreads
      PROVE  OpInv(v)' /\ ChainInv(v)' /\ MkdirInv(v)' /\ RmInv(v)' /\ MvInv(v)'
    <2>1. CASE v = t BY <2>1
    <2>2. CASE v # t BY <2>2, OthersKept
    <2> QED BY <2>1, <2>2
<1> QED BY <1>1 DEF FSInv

\* A step of Mkdir or OpenForWrite that is no return of Mkdir, or a true one.
LEMMA MakesOwn ==
    ASSUME FSInv, NEW t \in FSThreads, Local(t), call[t].op \in {"Mkdir", "Open"},
           step'[t] \in {"lstat", "access", "mkdir", "open", "again", "done"},
           call[t].op = "Mkdir" => step'[t] \notin {"open", "again"},
           step'[t] = "done" /\ call[t].op = "Mkdir" /\ ret'[t] => Exists(call[t].path)'
    PROVE  FSInv'
<1>1. call'[t] = call[t] BY DEF Local
<1>2. FSTypeOK' /\ Elsewhere(t) BY LocalFacts DEF FSInv
<1>3. OpInv(t)' BY <1>1 DEF OpInv, Removers
<1>4. ChainInv(t)' BY DEF ChainInv
<1>5. MkdirInv(t)' BY <1>1 DEF MkdirInv, Returned
<1>6. RmInv(t)' BY <1>1 DEF RmInv, Returned
<1>7. MvInv(t)' BY <1>1 DEF MvInv, Protected
<1> QED BY <1>2, <1>3, <1>4, <1>5, <1>6, <1>7, Together

LEMMA TargetPath ==
    ASSUME FSTypeOK, NEW t \in FSThreads, call[t].op = "Mkdir", at[t] = Len(Target(t))
    PROVE  Component(t) = call[t].path
<1>1. Target(t) = call[t].path /\ call[t].path \in Paths BY DEF Target, FSTypeOK
<1> QED BY <1>1, PathFacts DEF Component

LEMMA MkdirSteps ==
    ASSUME FSInv, NEW t \in FSThreads, MkdirLstat(t) \/ MkdirAccess(t)
    PROVE  FSInv'
<1>1. FSTypeOK /\ OpInv(t) BY DEF FSInv
<1>2. call[t].op \in {"Mkdir", "Open"} BY <1>1 DEF OpInv, MkdirLstat, MkdirAccess
<1>3. SameTree /\ tree' = tree /\ call' = call /\ source' = source /\ stack' = stack
    BY DEF MkdirLstat, MkdirAccess, SameTree
<1>4. /\ step' \in [FSThreads -> FSSteps] /\ \A v \in FSThreads \ {t} : step'[v] = step[v]
      /\ step'[t] \in {"access", "mkdir", "again", "done"}
      /\ call[t].op = "Mkdir" => step'[t] # "again"
    BY <1>1, <1>2 DEF FSTypeOK, FSSteps, MkdirLstat, MkdirAccess, MkdirNext, MkdirReturn, Return, Goto
<1>5. /\ ret' \in [FSThreads -> BOOLEAN] /\ \A v \in FSThreads \ {t} : ret'[v] = ret[v]
    BY <1>1 DEF FSTypeOK, MkdirLstat, MkdirAccess, MkdirNext, MkdirReturn, Return
<1>6. at' \in [FSThreads -> Nat]
    <2>1. at' = at \/ at' = [at EXCEPT ![t] = 1] \/ at' = [at EXCEPT ![t] = at[t] + 1]
        BY DEF MkdirLstat, MkdirAccess, MkdirNext
    <2>2. \A k \in Nat : [at EXCEPT ![t] = k] \in [FSThreads -> Nat] BY <1>1 DEF FSTypeOK
    <2>3. at \in [FSThreads -> Nat] /\ 1 \in Nat /\ at[t] + 1 \in Nat BY <1>1 DEF FSTypeOK
    <2> QED BY <2>1, <2>2, <2>3
<1>7. Local(t) BY <1>1, <1>3, <1>4, <1>5, <1>6 DEF Local, TreeStep, FSTypeOK
<1>8. ASSUME step'[t] = "done", call[t].op = "Mkdir" PROVE Exists(call[t].path)'
    <2>1. CASE MkdirLstat(t)
        <3>1. Exists(Target(t)) BY <1>1, <1>8, <2>1 DEF MkdirLstat, Goto, FSTypeOK
        <3> QED BY <1>3, <1>8, <3>1 DEF Exists, Target
    <2>2. CASE MkdirAccess(t)
        <3>1. Exists(Component(t)) /\ at[t] = Len(Target(t))
            BY <1>1, <1>8, <2>2 DEF MkdirAccess, MkdirNext, Goto, FSTypeOK
        <3> QED BY <1>1, <1>3, <1>8, <3>1, TargetPath DEF Exists
    <2> QED BY <2>1, <2>2
<1> QED BY <1>2, <1>4, <1>7, <1>8, MakesOwn

LEMMA MkdirMakeStep ==
    ASSUME FSInv, NEW t \in FSThreads, MkdirMake(t)
    PROVE  FSInv'
<1>1. FSTypeOK /\ OpInv(t) BY DEF FSInv
<1>2. call[t].op \in {"Mkdir", "Open"} BY <1>1 DEF OpInv, MkdirMake
<1>3. call' = call /\ source' = source /\ stack' = stack BY DEF MkdirMake
<1>4. /\ step' \in [FSThreads -> FSSteps] /\ \A v \in FSThreads \ {t} : step'[v] = step[v]
      /\ step'[t] \in {"access", "again", "done"}
      /\ call[t].op = "Mkdir" => step'[t] # "again"
    BY <1>1, <1>2 DEF FSTypeOK, FSSteps, MkdirMake, MkdirNext, MkdirReturn, Return, Goto
<1>5. /\ ret' \in [FSThreads -> BOOLEAN] /\ \A v \in FSThreads \ {t} : ret'[v] = ret[v]
    BY <1>1 DEF FSTypeOK, MkdirMake, MkdirNext, MkdirReturn, Return
<1>6. at' \in [FSThreads -> Nat]
    <2>1. at' = at \/ at' = [at EXCEPT ![t] = at[t] + 1] BY DEF MkdirMake, MkdirNext
    <2> QED BY <1>1, <2>1 DEF FSTypeOK
<1>7. CASE Creatable(Component(t))
    <2>1. Create(Component(t), "dir") /\ MkdirNext(t) BY <1>7 DEF MkdirMake
    <2>2. tree' = [tree EXCEPT ![Component(t)] = "dir"] /\ \E T : Becomes(T)
        BY <2>1 DEF Create, Becomes
    <2>3. Grows BY <1>7, <2>2 DEF Grows, Creatable, Kinds
    <2>4. Local(t) BY <1>1, <1>3, <1>4, <1>5, <1>6, <2>2, <2>3 DEF Local, TreeStep, FSTypeOK
    <2>5. ASSUME step'[t] = "done", call[t].op = "Mkdir" PROVE Exists(call[t].path)'
        <3>1. at[t] = Len(Target(t)) BY <1>1, <2>1, <2>5 DEF MkdirNext, Goto, FSTypeOK
        <3>2. Component(t) = call[t].path BY <1>1, <2>5, <3>1, TargetPath
        <3>3. call[t].path \in Paths BY <1>1 DEF FSTypeOK
        <3> QED BY <1>1, <1>3, <2>2, <3>2, <3>3 DEF Exists, FSTypeOK
    <2> QED BY <1>2, <1>4, <2>4, <2>5, MakesOwn
<1>8. CASE ~Creatable(Component(t))
    <2>1. SameTree /\ tree' = tree /\ MkdirReturn(t, FALSE) BY <1>8 DEF MkdirMake, SameTree
    <2>2. Local(t) BY <1>1, <1>3, <1>4, <1>5, <1>6, <2>1 DEF Local, TreeStep, FSTypeOK
    <2>3. call[t].op = "Mkdir" => ~ret'[t] BY <1>1, <2>1 DEF MkdirReturn, Return, FSTypeOK
    <2> QED BY <1>2, <1>4, <2>2, <2>3, MakesOwn
<1> QED BY <1>7, <1>8

LEMMA OpenStep ==
    ASSUME FSInv, NEW t \in FSThreads, OpenForWrite(t)
    PROVE  FSInv'
<1>1. FSTypeOK /\ OpInv(t) BY DEF FSInv
<1>2. call[t].op = "Open" BY <1>1 DEF OpInv, OpenForWrite
<1>3. call' = call /\ source' = source /\ stack' = stack /\ at' = at BY DEF OpenForWrite
<1>4. /\ step' \in [FSThreads -> FSSteps] /\ \A v \in FSThreads \ {t} : step'[v] = step[v]
      /\ step'[t] \in {"lstat", "done"}
    BY <1>1 DEF FSTypeOK, FSSteps, OpenForWrite, Return, Goto
<1>5. /\ ret' \in [FSThreads -> BOOLEAN] /\ \A v \in FSThreads \ {t} : ret'[v] = ret[v]
    BY <1>1 DEF FSTypeOK, OpenForWrite, Return
<1>6. (SameTree \/ \E T : Becomes(T)) /\ TreeStep(t)
    <2>1. CASE SameTree BY <2>1 DEF SameTree, TreeStep
    <2>2. CASE ~SameTree
        <3>1. ~Exists(call[t].path) /\ Create(call[t].path, "file") BY <2>2 DEF OpenForWrite
        <3>2. Grows BY <3>1 DEF Grows, Create, Becomes, Kinds
        <3> QED BY <3>1, <3>2 DEF Create, TreeStep
    <2> QED BY <2>1, <2>2
<1>7. Local(t) BY <1>1, <1>3, <1>4, <1>5, <1>6 DEF Local, FSTypeOK
<1> QED BY <1>2, <1>4, <1>7, MakesOwn

LEMMA TryAgainStep ==
    ASSUME FSInv, NEW t \in FSThreads, TryAgain(t)
    PROVE  FSInv'
<1>1. FSTypeOK BY DEF FSInv
<1>2. /\ tree' = tree /\ call' = call /\ source' = source /\ at' = at /\ stack' = stack /\ ret' = ret
      /\ call[t].op = "Open"
    BY DEF TryAgain
<1>3. step' = [step EXCEPT ![t] = "open"] BY DEF TryAgain, Goto
<1>4. made' = [made EXCEPT ![t] = {}] /\ gone' = [gone EXCEPT ![t] = {}] BY DEF TryAgain
<1>5. FSTypeOK' BY <1>1, <1>2, <1>3, <1>4 DEF FSTypeOK, FSSteps
<1>6. \A v \in FSThreads \ {t} : Noted(v) /\ Stays(v)
    BY <1>1, <1>2, <1>3, <1>4 DEF FSTypeOK, Noted, Stays, Exists
<1>7. Elsewhere(t) BY <1>2, <1>6 DEF Elsewhere, TreeStep
<1>8. step'[t] = "open" BY <1>1, <1>3 DEF FSTypeOK
<1>9. OpInv(t)' BY <1>2, <1>8 DEF OpInv
<1>10. ChainInv(t)' /\ MkdirInv(t)' /\ RmInv(t)' BY <1>8 DEF ChainInv, MkdirInv, RmInv, Returned
<1>11. MvInv(t)' BY <1>2 DEF MvInv, Protected
<1> QED BY <1>5, <1>7, <1>9, <1>10, <1>11, Together

LEMMA BeginStep ==
    ASSUME FSInv, NEW t \in FSThreads, NEW c \in FSCalls[t], Begin(t, c)
    PROVE  FSInv'
<1>1. FSTypeOK /\ OpInv(t) BY DEF FSInv
<1>2. tree' = tree /\ at' = at /\ ret' = ret BY DEF Begin
<1>3. call' = [call EXCEPT ![t] = c] /\ source' = [source EXCEPT ![t] = tree[c.from]] BY DEF Begin
<1>4. made' = [made EXCEPT ![t] = {}] /\ gone' = [gone EXCEPT ![t] = {}] BY DEF Begin
<1>5. /\ c.op \in {"Mkdir", "Open"} \union Removers /\ c.path \in Paths /\ c.from \in Paths
      /\ c = [op |-> c.op, path |-> c.path, from |-> c.from]
    BY FSAssumption DEF Removers
<1>6. call[t].op = "none" BY <1>1 DEF Begin, OpInv, NoCall
<1>7. /\ step' \in [FSThreads -> FSSteps] /\ \A v \in FSThreads \ {t} : step'[v] = step[v]
      /\ step'[t] = IF c.op = "Mkdir" THEN "lstat" ELSE IF c.op = "Open" THEN "open" ELSE "rm"
    BY <1>1 DEF Begin, Goto, FSTypeOK, FSSteps
<1>8. PICK A : A = <<Activation(c.path)>> OBVIOUS
<1>9. A \in Seq(Acts) /\ Chain(A, c.path) /\ Len(A) = 1 /\ A[1] = Activation(c.path)
    <2>1. PICK a : a = Activation(c.path) OBVIOUS
    <2>2. a \in Acts /\ a.path = c.path /\ a.left = {} BY <1>5, <2>1 DEF Activation, Acts
    <2>3. A = <<a>> BY <1>8, <2>1
    <2>4. A \in Seq(Acts) /\ Len(A) = 1 /\ A[1] = a BY <2>2, <2>3
    <2>5. ChainAt(a, c.path, 1)
        <3>1. Len(c.path) \in Nat /\ IsPrefix(c.path, c.path) BY <1>5, PathFacts
        <3> QED BY <2>2, <3>1 DEF ChainAt, LeftFits
    <2>6. \A i \in 1 .. 1 : i = 1 OBVIOUS
    <2>7. \A i \in 1 .. Len(A) : ChainAt(A[i], c.path, i) BY <2>4, <2>5, <2>6
    <2>8. \A i \in 1 .. Len(A) - 1 : FALSE BY <2>4
    <2> QED BY <2>1, <2>2, <2>4, <2>7, <2>8 DEF Chain
<1>10. /\ stack' \in [FSThreads -> Seq(Acts)] /\ \A v \in FSThreads \ {t} : stack'[v] = stack[v]
       /\ c.op \in Removers => stack'[t] = A
    BY <1>1, <1>8, <1>9 DEF Begin, FSTypeOK, Removers
<1>11. FSTypeOK'
    <2>1. tree[c.from] \in Kinds BY <1>1, <1>5 DEF FSTypeOK
    <2>2. call' \in [FSThreads -> [op : {"none", "Mkdir", "Open"} \union Removers, path : Paths, from : Paths]]
        <3>1. c \in [op : {"none", "Mkdir", "Open"} \union Removers, path : Paths, from : Paths]
            BY <1>5
        <3> QED BY <1>1, <1>3, <3>1 DEF FSTypeOK
    <2> QED BY <1>1, <1>2, <1>3, <1>4, <1>7, <1>10, <2>1, <2>2 DEF FSTypeOK
<1>12. \A v \in FSThreads \ {t} : Noted(v) /\ Stays(v)
    BY <1>1, <1>2, <1>3, <1>4, <1>7, <1>10 DEF FSTypeOK, Noted, Stays, Exists
<1>13. Elsewhere(t) BY <1>2, <1>6, <1>12 DEF Elsewhere, TreeStep
<1>14. call'[t] = c /\ source'[t] = tree[c.from] /\ made'[t] = {} BY <1>1, <1>3, <1>4 DEF FSTypeOK
<1>15. OpInv(t)' BY <1>5, <1>7, <1>14 DEF OpInv, Removers
<1>16. ChainInv(t)' BY <1>5, <1>7, <1>9, <1>10, <1>14 DEF ChainInv, Removers
<1>17. MkdirInv(t)' BY <1>7 DEF MkdirInv, Returned
<1>18. MvInv(t)' BY <1>2, <1>7, <1>14 DEF MvInv, Protected
<1>19. RmInv(t)'
    <2>1. ASSUME step'[t] = "rm", NEW i \in 1 .. Len(stack'[t]) PROVE Activated(t, i)'
        <3>1. stack'[t] = A BY <1>5, <1>7, <1>10, <2>1 DEF Removers
        <3>2. i = 1
            <4>1. Len(stack'[t]) = 1 BY <1>9, <3>1
            <4>2. i \in 1 .. 1 BY <2>1, <4>1
            <4> QED BY <4>2
        <3>3. PICK a : a = Activation(c.path) OBVIOUS
        <3>4. a.ret /\ a.phase = "lstat" BY <3>3 DEF Activation
        <3>5. stack'[t][i] = a BY <1>9, <3>1, <3>2, <3>3
        <3>6. \A C : Knows(t, a, C)' BY <3>4 DEF Knows
        <3> QED BY <3>5, <3>6 DEF Activated
    <2> QED BY <1>7, <2>1 DEF RmInv, Returned
<1> QED BY <1>11, <1>13, <1>15, <1>16, <1>17, <1>18, <1>19, Together

LEMMA SymlinkStep ==
    ASSUME FSInv, NEW t \in FSThreads, SymlinkMake(t)
    PROVE  FSInv'
<1>1. FSTypeOK /\ OpInv(t) BY DEF FSInv
<1>2. call[t].op = "Symlink" BY <1>1 DEF OpInv, SymlinkMake
<1>3. call' = call /\ source' = source /\ stack' = stack /\ at' = at BY DEF SymlinkMake
<1>4. /\ step' \in [FSThreads -> FSSteps] /\ \A v \in FSThreads \ {t} : step'[v] = step[v]
      /\ step'[t] = "done"
    BY <1>1 DEF FSTypeOK, FSSteps, SymlinkMake, Return, Goto
<1>5. /\ ret' \in [FSThreads -> BOOLEAN] /\ \A v \in FSThreads \ {t} : ret'[v] = ret[v]
    BY <1>1 DEF FSTypeOK, SymlinkMake, Return
<1>6. (SameTree \/ \E T : Becomes(T)) /\ TreeStep(t)
    <2>1. CASE SameTree BY <2>1 DEF SameTree, TreeStep
    <2>2. CASE ~SameTree
        <3>1. ~Exists(call[t].path) /\ Create(call[t].path, "link")
            BY <2>2 DEF SymlinkMake, Creatable
        <3>2. Grows BY <3>1 DEF Grows, Create, Becomes, Kinds
        <3> QED BY <3>1, <3>2 DEF Create, TreeStep
    <2> QED BY <2>1, <2>2
<1>7. Local(t) BY <1>1, <1>3, <1>4, <1>5, <1>6 DEF Local, FSTypeOK
<1>8. FSTypeOK' /\ Elsewhere(t) BY <1>1, <1>7, LocalFacts
<1>9. OpInv(t)' /\ ChainInv(t)' BY <1>4 DEF OpInv, ChainInv
<1>10. MkdirInv(t)' /\ RmInv(t)' BY <1>2, <1>3, <1>4 DEF MkdirInv, RmInv, Returned
<1>11. MvInv(t)' BY <1>2, <1>3 DEF MvInv, Protected
<1> QED BY <1>8, <1>9, <1>10, <1>11, Together

LEMMA MvStep ==
    ASSUME FSInv, NEW t \in FSThreads, MvRename(t)
    PROVE  FSInv'
<1>1. FSTypeOK /\ OpInv(t) /\ MvInv(t) BY DEF FSInv
<1>2. call[t].op = "Mv" /\ step[t] = "Mv" BY <1>1 DEF OpInv, MvRename
<1>3. call' = call /\ source' = source /\ stack' = stack /\ at' = at BY DEF MvRename
<1>4. /\ step' \in [FSThreads -> FSSteps] /\ \A v \in FSThreads \ {t} : step'[v] = step[v]
      /\ step'[t] = "done"
    BY <1>1 DEF FSTypeOK, FSSteps, MvRename, Return, Goto
<1>5. /\ ret' \in [FSThreads -> BOOLEAN] /\ \A v \in FSThreads \ {t} : ret'[v] = ret[v]
    BY <1>1 DEF FSTypeOK, MvRename, Return
<1>6. SameTree \/ Becomes(Moved(call[t].from, call[t].path)) BY DEF MvRename
<1>7. TreeStep(t) BY <1>2, <1>6 DEF SameTree, Becomes, TreeStep, Renames
<1>8. Local(t) BY <1>1, <1>3, <1>4, <1>5, <1>6, <1>7 DEF Local, FSTypeOK
<1>9. FSTypeOK' /\ Elsewhere(t) BY <1>1, <1>8, LocalFacts
<1>10. OpInv(t)' /\ ChainInv(t)' BY <1>4 DEF OpInv, ChainInv
<1>11. MkdirInv(t)' /\ RmInv(t)' BY <1>2, <1>3, <1>4 DEF MkdirInv, RmInv, Returned
<1>12. MvInv(t)'
    <2>1. SUFFICES ASSUME Protected(t)' PROVE "precious" \in {tree'[call[t].from], tree'[call[t].path]}
        BY <1>3, <1>4 DEF MvInv
    <2>2. Protected(t) BY <1>3, <2>1 DEF Protected, Victims
    <2>3. tree[call[t].from] = "precious" BY <1>1, <1>2, <2>2 DEF MvInv
    <2>4. PICK p \in Paths, q \in Paths : p = call[t].from /\ q = call[t].path BY <1>1 DEF FSTypeOK
    <2>5. CASE SameTree BY <2>3, <2>5 DEF SameTree
    <2>6. CASE Becomes(Moved(p, q))
        <3>1. tree' = Moved(p, q) BY <2>6 DEF Becomes
        <3>2. IsPrefix(q, q) /\ p \o SubSeq(q, Len(q) + 1, Len(q)) = p BY PathFacts
        <3>3. Moved(p, q)[q] = tree[p] BY <3>2 DEF Moved
        <3> QED BY <2>3, <2>4, <3>1, <3>3
    <2> QED BY <1>6, <2>4, <2>5, <2>6
<1> QED BY <1>9, <1>10, <1>11, <1>12, Together

-----------------------------------------------------------------------------
(* Rm.                                                                     *)

\* What a step of Rm keeps when the activations and its result are right.
LEMMA RmOwn ==
    ASSUME FSInv, NEW t \in FSThreads, step[t] = "rm", Local(t), tree' = tree \/ Shrinks(t),
           step'[t] \in {"rm", "done", call[t].op}, ChainInv(t)', RmInv(t)'
    PROVE  FSInv'
<1>1. FSTypeOK /\ OpInv(t) /\ MvInv(t) BY DEF FSInv
<1>2. call[t].op \in Removers BY <1>1 DEF OpInv
<1>3. call' = call /\ source' = source BY DEF Local
<1>4. FSTypeOK' /\ Elsewhere(t) BY <1>1, LocalFacts
<1>5. OpInv(t)'
    <2>1. step'[t] # "Rm" BY <1>4 DEF FSTypeOK, FSSteps
    <2> QED BY <1>2, <1>3, <2>1 DEF OpInv, Removers
<1>6. MkdirInv(t)' BY <1>2, <1>3 DEF MkdirInv, Returned, Removers
<1>7. MvInv(t)'
    <2>1. SUFFICES ASSUME Protected(t)' PROVE tree'[call[t].from] = "precious"
        BY <1>3 DEF MvInv
    <2>2. Protected(t) BY <1>3, <2>1 DEF Protected, Victims
    <2>3. tree[call[t].from] = "precious" BY <1>1, <2>2 DEF MvInv
    <2>4. CASE tree' = tree BY <2>3, <2>4
    <2>5. CASE Shrinks(t)
        <3>1. PICK p \in Below(call[t].path) : tree' = [tree EXCEPT ![p] = "none"]
            BY <2>5 DEF Shrinks
        <3>2. p # call[t].from BY <2>2 DEF Protected, Below
        <3> QED BY <1>1, <2>3, <3>1, <3>2 DEF FSTypeOK
    <2> QED BY <2>4, <2>5
<1> QED BY <1>4, <1>5, <1>6, <1>7, Together

LEMMA AloneOwn ==
    ASSUME FSTypeOK, NEW t \in FSThreads, Local(t), Alone(t)'
    PROVE  Alone(t)
<1>1. call' = call /\ Noted(t) BY LocalFacts DEF Local
<1> QED BY <1>1 DEF Alone, Below, Noted

\* Facts about the activations of t.
LEMMA RmFacts ==
    ASSUME FSInv, NEW t \in FSThreads, step[t] = "rm"
    PROVE  /\ FSTypeOK /\ stack[t] \in Seq(Acts) /\ Chain(stack[t], call[t].path)
           /\ call[t].op \in Removers /\ call[t].path \in Paths
           /\ Top(t) \in Acts /\ Top(t).path \in Below(call[t].path) /\ LeftFits(Top(t))
           /\ Alone(t) => Knows(t, Top(t), {})
<1>1. FSTypeOK /\ OpInv(t) /\ ChainInv(t) /\ RmInv(t) BY DEF FSInv
<1>2. PICK S, p : S = stack[t] /\ p = call[t].path OBVIOUS
<1>3. S \in Seq(Acts) /\ p \in Paths /\ Chain(S, p) BY <1>1, <1>2 DEF ChainInv, FSTypeOK
<1>4. PICK n \in Nat : n = Len(S) BY <1>3
<1>5. /\ n > 0 /\ Last(S) = S[n] /\ \A i \in 1 .. n : S[i] \in Acts /\ ChainAt(S[i], p, i)
    BY <1>3, <1>4, ChainFacts
<1>6. n \in 1 .. n BY <1>5
<1>7. S[n] \in Acts /\ ChainAt(S[n], p, n) BY <1>5, <1>6
<1>8. Top(t) = S[n] BY <1>2, <1>5 DEF Top
<1>9. S[n].path \in Paths BY <1>7 DEF Acts
<1>10. ASSUME Alone(t) PROVE Knows(t, S[n], {})
    <2>1. Activated(t, n) BY <1>1, <1>2, <1>4, <1>6, <1>10 DEF RmInv
    <2>2. Above(S, n) = {} BY <1>4 DEF Above
    <2> QED BY <1>2, <2>1, <2>2 DEF Activated
<1> QED BY <1>1, <1>2, <1>3, <1>7, <1>8, <1>9, <1>10 DEF OpInv, ChainAt, Below

\* The activation at the top goes on.
LEMMA RmStays ==
    ASSUME FSInv, NEW t \in FSThreads, step[t] = "rm", NEW b \in Acts, b.path = Top(t).path,
           LeftFits(b), Phase(t, b), RmStay, SameTree, UNCHANGED <<call, source, at>>,
           Alone(t) => Knows(t, b, {})
    PROVE  FSInv'
<1>1. PICK S, p : S = stack[t] /\ p = call[t].path OBVIOUS
<1>2. FSTypeOK /\ S \in Seq(Acts) /\ Chain(S, p) BY <1>1, RmFacts
<1>3. PICK n : n = Len(S) OBVIOUS
<1>4. b.path = Last(S).path BY <1>1 DEF Top
<1>5. PICK R \in Seq(Acts) :
        /\ R = Append(Front(S), b) /\ Len(R) = Len(S) /\ R[Len(S)] = b
        /\ \A i \in 1 .. Len(S) - 1 : R[i] = S[i]
        /\ Chain(R, p)
    BY <1>2, <1>4, ChainTop
<1>6. R \in Seq(Acts) /\ Len(R) = n /\ R[n] = b /\ (\A i \in 1 .. n - 1 : R[i] = S[i]) /\ Chain(R, p)
    BY <1>3, <1>5
<1>7. n \in Nat /\ n > 0 /\ Last(S) = S[n] BY <1>2, <1>3, ChainFacts
<1>8. stack' = [stack EXCEPT ![t] = R] BY <1>1, <1>5 DEF Phase
<1>9. stack'[t] = R BY <1>2, <1>8 DEF FSTypeOK
<1>10. step' = step /\ ret' = ret /\ tree' = tree /\ made' = made BY DEF RmStay, SameTree
<1>11. Local(t) BY <1>2, <1>6, <1>8, <1>10 DEF Local, FSTypeOK, TreeStep
<1>12. ChainInv(t)' BY <1>1, <1>6, <1>9 DEF ChainInv
<1>13. ASSUME Alone(t)', NEW i \in 1 .. n PROVE Activated(t, i)'
    <2>1. Alone(t) BY <1>2, <1>11, <1>13, AloneOwn
    <2>2. \A a, C : Knows(t, a, C) => Knows(t, a, C)'
        BY <1>10 DEF Knows, Blocked, Below, Entries, Exists
    <2>3. CASE i = n
        <3>1. Above(R, i) = {} BY <1>6, <1>7, <2>3 DEF Above
        <3>2. Knows(t, b, {})' BY <2>1, <2>2
        <3>3. R[i] = b BY <1>6, <2>3
        <3> QED BY <1>9, <3>1, <3>2, <3>3 DEF Activated
    <2>4. CASE i # n
        <3>1. i \in 1 .. n - 1 /\ i + 1 \in 1 .. n /\ i < n BY <1>7, <2>4
        <3>2. R[i] = S[i] BY <1>6, <3>1
        <3>3. R[i + 1].path = S[i + 1].path
            <4>1. CASE i + 1 = n BY <1>4, <1>6, <1>7, <4>1
            <4>2. CASE i + 1 # n
                <5>1. i + 1 \in 1 .. n - 1 BY <1>7, <3>1, <4>2
                <5> QED BY <1>6, <5>1
            <4> QED BY <4>1, <4>2
        <3>4. Above(R, i) = Above(S, i) BY <1>3, <1>6, <3>3 DEF Above
        <3>5. Activated(t, i)
            BY <1>1, <1>3, <2>1 DEF FSInv, RmInv
        <3>6. PICK a, C : a = S[i] /\ C = Above(S, i) OBVIOUS
        <3>7. Knows(t, a, C)' BY <1>1, <2>2, <3>5, <3>6 DEF Activated
        <3> QED BY <1>9, <3>2, <3>4, <3>6, <3>7 DEF Activated
    <2> QED BY <2>3, <2>4
<1>14. RmInv(t)' BY <1>6, <1>9, <1>10, <1>13 DEF RmInv, Returned
<1> QED BY <1>10, <1>11, <1>12, <1>14, RmOwn

\* What an activation in its loop knows after path r, not its own, is removed.
LEMMA KnowsKept ==
    ASSUME FSTypeOK, NEW t \in FSThreads, NEW a \in Acts, NEW b \in Acts, NEW C, NEW D, NEW r \in Paths,
           a.phase = "readdir", b.phase = "readdir", b.path = a.path, b.left = a.left, a.path # r,
           ~b.ret => Blocked(t)', tree' = tree \/ tree' = [tree EXCEPT ![r] = "none"],
           Blocked(t) => Blocked(t)', Knows(t, a, C),
           Blocked(t)' \/ \A q \in C : q \in D \/ tree'[q] = "none"
    PROVE  Knows(t, b, D)'
<1>1. a.path \in Paths /\ tree[a.path] = "dir" BY DEF Acts, Knows
<1>2. tree'[a.path] = "dir" BY <1>1 DEF FSTypeOK
<1>3. ASSUME ~Blocked(t)', NEW q \in Paths \ {<<>>}, tree'[q] # "none", Dirname(q) = a.path
      PROVE  q \in a.left \/ q \in D
    <2>1. tree[q] # "none" BY <1>3 DEF FSTypeOK
    <2>2. q \in Entries(a.path) BY <1>3, <2>1 DEF Entries, Exists
    <2>3. q \in a.left \/ q \in C BY <1>3, <2>2 DEF Knows
    <2> QED BY <1>3, <2>3
<1>4. Blocked(t)' \/ \A q \in Entries(b.path)' : q \in b.left \/ q \in D
    BY <1>3 DEF Entries, Exists
<1> QED BY <1>2, <1>4 DEF Knows

\* The activation at the top returns v.
LEMMA RmReturns ==
    ASSUME FSInv, NEW t \in FSThreads, step[t] = "rm", NEW v \in BOOLEAN, RmReturn(t, v),
           SameTree \/ Vanish(Top(t).path), UNCHANGED <<call, source, at>>,
           v => tree'[Top(t).path] = "none",
           Alone(t) => (Blocked(t) => Blocked(t)') /\ (~v => Blocked(t)')
    PROVE  FSInv'
<1>1. PICK S, p : S = stack[t] /\ p = call[t].path OBVIOUS
<1>2. /\ FSTypeOK /\ S \in Seq(Acts) /\ Chain(S, p) /\ p \in Paths /\ call[t].op \in Removers
      /\ Top(t) \in Acts /\ Top(t).path \in Below(p)
    BY <1>1, RmFacts
<1>3. PICK n \in Nat : n = Len(S) BY <1>2
<1>4. PICK r \in Paths : r = Top(t).path BY <1>2 DEF Acts
<1>5. /\ n > 0 /\ Last(S) = S[n] /\ S[1].path = p
      /\ \A i \in 1 .. n : S[i] \in Acts /\ ChainAt(S[i], p, i)
      /\ \A i \in 1 .. n - 1 : S[i].phase = "readdir"
    BY <1>2, <1>3, ChainFacts
<1>6. r = S[n].path BY <1>1, <1>4, <1>5 DEF Top
<1>7. tree' = tree \/ tree' = [tree EXCEPT ![r] = "none"] BY <1>4 DEF SameTree, Vanish, Becomes
<1>8. tree' = tree \/ Shrinks(t) BY <1>1, <1>2, <1>4, <1>7 DEF Shrinks
<1>9. SameTree \/ \E T : Becomes(T) BY DEF Vanish
<1>10. CASE n > 1
    <2>1. PICK R \in Seq(Acts) :
            /\ R = [Front(S) EXCEPT ![Len(S) - 1].ret = v] /\ Len(R) = Len(S) - 1
            /\ R[Len(S) - 1] = [S[Len(S) - 1] EXCEPT !.ret = v]
            /\ \A i \in 1 .. Len(S) - 2 : R[i] = S[i]
            /\ Chain(R, p)
        BY <1>2, <1>3, <1>10, ChainPop
    <2>2. PICK k \in Nat : k = n - 1 /\ k > 0 /\ n - 2 = k - 1 BY <1>10
    <2>3. Len(R) = k /\ R[k] = [S[k] EXCEPT !.ret = v] /\ \A i \in 1 .. k - 1 : R[i] = S[i]
        BY <1>3, <2>1, <2>2
    <2>4. stack' = [stack EXCEPT ![t] = R] /\ step' = step /\ ret' = ret
        BY <1>1, <1>3, <1>10, <2>1 DEF RmReturn
    <2>5. stack'[t] = R BY <1>2, <2>4 DEF FSTypeOK
    <2>6. Local(t) BY <1>2, <1>8, <1>9, <2>1, <2>4 DEF Local, FSTypeOK, TreeStep
    <2>7. ChainInv(t)' BY <1>1, <2>1, <2>5 DEF ChainInv
    <2>8. ASSUME Alone(t)', NEW i \in 1 .. k PROVE Activated(t, i)'
        <3>1. Alone(t) BY <1>2, <2>6, <2>8, AloneOwn
        <3>2. i \in 1 .. n /\ i \in 1 .. n - 1 /\ i < n BY <2>2
        <3>3. PICK a, C : a = S[i] /\ C = Above(S, i) /\ a \in Acts BY <1>5, <3>2
        <3>4. Activated(t, i) BY <1>1, <1>3, <3>1, <3>2 DEF FSInv, RmInv
        <3>5. Knows(t, a, C) BY <1>1, <3>3, <3>4 DEF Activated
        <3>6. a.phase = "readdir" BY <1>5, <3>2, <3>3
        <3>7. a.path # r
            <4>1. Len(a.path) = Len(p) + i - 1 BY <1>5, <3>2, <3>3 DEF ChainAt
            <4>2. n \in 1 .. n BY <1>5
            <4>3. Len(r) = Len(p) + n - 1 BY <1>5, <1>6, <4>2 DEF ChainAt
            <4>4. Len(p) \in Nat BY <1>2, PathFacts
            <4> QED BY <3>2, <4>1, <4>3, <4>4
        <3>8. Blocked(t) => Blocked(t)' BY <3>1
        <3>9. CASE i = k
            <4>1. PICK b : b = [a EXCEPT !.ret = v] OBVIOUS
            <4>2. b \in Acts /\ b.path = a.path /\ b.left = a.left /\ b.phase = a.phase /\ b.ret = v
                BY <3>3, <4>1 DEF Acts
            <4>3. R[i] = b BY <2>3, <3>3, <3>9, <4>1
            <4>4. Above(R, i) = {} BY <2>2, <2>3, <3>9 DEF Above
            <4>5. C = {r}
                <5>1. i + 1 = n BY <2>2, <3>9
                <5> QED BY <1>3, <1>6, <3>2, <3>3, <5>1 DEF Above
            <4>6. Blocked(t)' \/ \A q \in C : q \in {} \/ tree'[q] = "none"
                BY <1>4, <3>1, <4>5
            <4>7. ~b.ret => Blocked(t)' BY <3>1, <4>2
            <4>8. Knows(t, b, {})'
                BY <1>2, <1>7, <3>3, <3>5, <3>6, <3>7, <3>8, <4>2, <4>6, <4>7, KnowsKept
            <4> QED BY <2>5, <4>3, <4>4, <4>8 DEF Activated
        <3>10. CASE i # k
            <4>1. i \in 1 .. k - 1 /\ i + 1 \in 1 .. k /\ i < k BY <2>2, <3>10
            <4>2. R[i] = a BY <2>3, <3>3, <4>1
            <4>3. R[i + 1].path = S[i + 1].path
                <5>1. CASE i + 1 = k
                    <6>1. k \in 1 .. n BY <2>2
                    <6>2. S[k] \in Acts BY <1>5, <6>1
                    <6>3. R[k].path = S[k].path BY <2>3, <6>2 DEF Acts
                    <6> QED BY <5>1, <6>3
                <5>2. CASE i + 1 # k
                    <6>1. i + 1 \in 1 .. k - 1 BY <2>2, <4>1, <5>2
                    <6> QED BY <2>3, <6>1
                <5> QED BY <5>1, <5>2
            <4>4. Above(R, i) = C BY <1>3, <2>3, <3>2, <3>3, <4>1, <4>3 DEF Above
            <4>5. ~a.ret => Blocked(t)' BY <3>5, <3>8 DEF Knows
            <4>6. Knows(t, a, C)'
                BY <1>2, <1>7, <3>3, <3>5, <3>6, <3>7, <3>8, <4>5, KnowsKept
            <4> QED BY <2>5, <4>2, <4>4, <4>6 DEF Activated
        <3> QED BY <3>9, <3>10
    <2>9. RmInv(t)' BY <2>3, <2>4, <2>5, <2>8 DEF RmInv, Returned
    <2> QED BY <1>8, <2>4, <2>6, <2>7, <2>9, RmOwn
<1>11. CASE ~(n > 1)
    <2>1. n = 1 /\ r = p BY <1>5, <1>6, <1>11
    <2>2. /\ stack' = [stack EXCEPT ![t] = <<>>]
          /\ IF v /\ call[t].op # "Rm" THEN Goto(t, call[t].op) /\ UNCHANGED ret ELSE Return(t, v)
        BY <1>1, <1>3, <1>11 DEF RmReturn
    <2>3. /\ step' \in [FSThreads -> FSSteps] /\ \A u \in FSThreads \ {t} : step'[u] = step[u]
          /\ step'[t] \in {"done", call[t].op} /\ step'[t] # "rm"
        BY <1>2, <2>2 DEF FSTypeOK, FSSteps, Return, Goto, Removers
    <2>4. /\ ret' \in [FSThreads -> BOOLEAN] /\ \A u \in FSThreads \ {t} : ret'[u] = ret[u]
          /\ call[t].op = "Rm" => ret'[t] = v
        BY <1>2, <2>2 DEF FSTypeOK, Return
    <2>5. Local(t)
        <3>1. <<>> \in Seq(Acts) OBVIOUS
        <3>2. /\ stack' \in [FSThreads -> Seq(Acts)]
              /\ \A u \in FSThreads \ {t} : stack'[u] = stack[u]
            BY <1>2, <2>2, <3>1 DEF FSTypeOK
        <3> QED BY <1>2, <1>8, <1>9, <2>3, <2>4, <3>2 DEF Local, FSTypeOK, TreeStep
    <2>6. ChainInv(t)' BY <2>3 DEF ChainInv
    <2>7. RmInv(t)'
        <3>1. Returned(t, "Rm", FALSE)' /\ Alone(t)' => Blocked(t)'
            <4>1. Alone(t)' => Alone(t) BY <1>2, <2>5, AloneOwn
            <4> QED BY <2>4, <4>1 DEF Returned
        <3>2. Returned(t, "Rm", TRUE)' => ~Exists(call[t].path)'
            BY <1>1, <1>4, <2>1, <2>4 DEF Returned, Exists
        <3> QED BY <2>3, <3>1, <3>2 DEF RmInv
    <2> QED BY <1>8, <2>3, <2>5, <2>6, <2>7, RmOwn
<1> QED BY <1>10, <1>11

LEMMA RmReaddirStep ==
    ASSUME FSInv, NEW t \in FSThreads, RmReaddir(t)
    PROVE  FSInv'
<1>1. step[t] = "rm" /\ Top(t).phase = "readdir" BY DEF RmReaddir, In
<1>2. PICK S, p : S = stack[t] /\ p = call[t].path OBVIOUS
<1>3. /\ FSTypeOK /\ S \in Seq(Acts) /\ Chain(S, p) /\ p \in Paths
      /\ Alone(t) => Knows(t, Top(t), {})
    BY <1>1, <1>2, RmFacts
<1>4. PICK q \in Last(S).left :
        stack' = [stack EXCEPT ![t] = Front(S) \o <<[Last(S) EXCEPT !.left = @ \ {q}], Activation(q)>>]
    BY <1>2 DEF RmReaddir, Top
<1>5. Last(S).phase = "readdir" BY <1>1, <1>2 DEF Top
<1>6. PICK R \in Seq(Acts), b \in Acts :
           /\ b = [Last(S) EXCEPT !.left = @ \ {q}]
           /\ R = Front(S) \o <<b, Activation(q)>> /\ Len(R) = Len(S) + 1
           /\ R[Len(S)] = b /\ R[Len(S) + 1] = Activation(q)
           /\ \A i \in 1 .. Len(S) - 1 : R[i] = S[i]
           /\ Chain(R, p)
           /\ b.path = Last(S).path /\ b.phase = "readdir" /\ b.left = Last(S).left \ {q}
           /\ b.ret = Last(S).ret
    BY <1>3, <1>5, ChainPush
<1>7. PICK n \in Nat : n = Len(S) /\ n > 0 BY <1>3, ChainFacts
<1>8. Last(S) = S[n] BY <1>3, <1>7, ChainFacts
<1>9. PICK c : c = Activation(q) OBVIOUS
<1>10. c.path = q /\ c.phase = "lstat" /\ c.ret BY <1>9 DEF Activation
<1>11. /\ Len(R) = n + 1 /\ R[n] = b /\ R[n + 1] = c /\ \A i \in 1 .. n - 1 : R[i] = S[i]
    BY <1>6, <1>7, <1>9
<1>12. stack' = [stack EXCEPT ![t] = R] BY <1>4, <1>6
<1>13. stack'[t] = R BY <1>3, <1>12 DEF FSTypeOK
<1>14. /\ step' = step /\ ret' = ret /\ tree' = tree /\ made' = made /\ call' = call
       /\ source' = source /\ at' = at /\ SameTree
    BY DEF RmReaddir, RmStay, SameTree
<1>15. Local(t) BY <1>3, <1>6, <1>12, <1>14 DEF Local, FSTypeOK, TreeStep
<1>16. ChainInv(t)' BY <1>2, <1>6, <1>13, <1>14 DEF ChainInv
<1>17. ASSUME Alone(t)', NEW i \in 1 .. n + 1 PROVE Activated(t, i)'
    <2>1. Alone(t) BY <1>3, <1>15, <1>17, AloneOwn
    <2>2. \A a, C : Knows(t, a, C) => Knows(t, a, C)'
        BY <1>14 DEF Knows, Blocked, Below, Entries, Exists
    <2>3. CASE i = n + 1
        <3>1. \A C : Knows(t, c, C)' BY <1>10 DEF Knows
        <3> QED BY <1>11, <1>13, <2>3, <3>1 DEF Activated
    <2>4. CASE i = n
        <3>1. Knows(t, Last(S), {}) BY <1>2, <1>3, <2>1 DEF Top
        <3>2. Knows(t, b, {q}) BY <1>5, <1>6, <3>1 DEF Knows
        <3>3. Above(R, i) = {q}
            <4>1. n < Len(R) /\ R[n + 1].path = q BY <1>7, <1>10, <1>11
            <4> QED BY <2>4, <4>1 DEF Above
        <3>4. R[i] = b BY <1>11, <2>4
        <3> QED BY <1>13, <2>2, <3>2, <3>3, <3>4 DEF Activated
    <2>5. CASE i # n + 1 /\ i # n
        <3>1. i \in 1 .. n - 1 /\ i \in 1 .. n /\ i < n /\ i < n + 1 BY <2>5
        <3>2. R[i] = S[i] BY <1>11, <3>1
        <3>3. R[i + 1].path = S[i + 1].path
            <4>1. CASE i + 1 = n BY <1>6, <1>8, <1>11, <4>1
            <4>2. CASE i + 1 # n
                <5>1. i + 1 \in 1 .. n - 1 BY <3>1, <4>2
                <5> QED BY <1>11, <5>1
            <4> QED BY <4>1, <4>2
        <3>4. Above(R, i) = Above(S, i) BY <1>7, <1>11, <3>1, <3>3 DEF Above
        <3>5. Activated(t, i) BY <1>1, <1>2, <1>7, <2>1, <3>1 DEF FSInv, RmInv
        <3>6. PICK a, C : a = S[i] /\ C = Above(S, i) OBVIOUS
        <3>7. Knows(t, a, C)' BY <1>2, <2>2, <3>5, <3>6 DEF Activated
        <3> QED BY <1>13, <3>2, <3>4, <3>6, <3>7 DEF Activated
    <2> QED BY <2>3, <2>4, <2>5
<1>18. RmInv(t)' BY <1>1, <1>11, <1>13, <1>14, <1>17 DEF RmInv, Returned
<1> QED BY <1>1, <1>14, <1>15, <1>16, <1>18, RmOwn

\* As long as the tree is the same, so is what blocks t.
LEMMA BlockedSame ==
    ASSUME NEW t \in FSThreads, SameTree, call' = call
    PROVE  Blocked(t)' <=> Blocked(t)
BY DEF SameTree, Blocked, Below, Exists

\* What may be removed blocks nobody.
LEMMA BlockedStays ==
    ASSUME FSTypeOK, NEW t \in FSThreads, NEW r \in Paths, Vanish(r), call' = call,
           r \notin Refused, tree[r] # "socket", Blocked(t)
    PROVE  Blocked(t)'
<1>1. tree' = [tree EXCEPT ![r] = "none"] BY DEF Vanish, Becomes
<1>2. PICK p \in Below(call[t].path) : Exists(p) /\ (p \in Refused \/ tree[p] = "socket")
    BY DEF Blocked
<1>3. p # r /\ p \in Paths BY <1>2 DEF Below
<1>4. tree'[p] = tree[p] BY <1>1, <1>3 DEF FSTypeOK
<1>5. p \in Below(call[t].path)' BY <1>2 DEF Below
<1>6. Exists(p)' /\ (p \in Refused \/ tree'[p] = "socket") BY <1>2, <1>4 DEF Exists
<1> QED BY <1>5, <1>6 DEF Blocked

LEMMA RmLstatStep ==
    ASSUME FSInv, NEW t \in FSThreads, RmLstat(t) \/ UnlinkLstat(t)
    PROVE  FSInv'
<1>1. step[t] = "rm" /\ Top(t).phase \in {"lstat", "gone?"} BY DEF RmLstat, UnlinkLstat, In
<1>2. /\ FSTypeOK /\ Top(t) \in Acts /\ LeftFits(Top(t)) /\ Top(t).path \in Below(call[t].path)
      /\ Alone(t) => Knows(t, Top(t), {})
    BY <1>1, RmFacts
<1>3. SameTree /\ tree' = tree /\ UNCHANGED <<call, source, at>> BY DEF RmLstat, UnlinkLstat, SameTree
<1>4. Blocked(t)' <=> Blocked(t) BY <1>3, BlockedSame
<1>5. PICK a \in Acts : a = Top(t) BY <1>2
<1>6. CASE ~Exists(a.path)
    <2>1. RmReturn(t, TRUE) BY <1>5, <1>6 DEF RmLstat, UnlinkLstat
    <2>2. tree'[Top(t).path] = "none" BY <1>3, <1>5, <1>6 DEF Exists
    <2> QED BY <1>1, <1>3, <1>4, <2>1, <2>2, RmReturns
<1>7. CASE Exists(a.path)
    <2>1. PICK ph \in {"opendir", "gone?", "unlink"} :
            /\ Phase(t, [a EXCEPT !.phase = ph]) /\ RmStay
            /\ ph = "opendir" => tree[a.path] \in {"dir", "socket"}
            /\ ph = "gone?" => tree[a.path] \notin {"dir", "socket"}
            /\ ph = "unlink" => a.phase = "gone?"
        BY <1>5, <1>7 DEF RmLstat, UnlinkLstat, In
    <2>2. PICK b : b = [a EXCEPT !.phase = ph] OBVIOUS
    <2>3. b \in Acts /\ b.path = a.path /\ b.left = a.left /\ b.phase = ph /\ b.ret = a.ret
        BY <2>2 DEF Acts
    <2>4. LeftFits(b) BY <1>2, <1>5, <2>3 DEF LeftFits
    <2>5. Alone(t) => Knows(t, b, {}) BY <1>2, <1>5, <1>7, <2>1, <2>3 DEF Knows, Exists
    <2> QED BY <1>1, <1>3, <1>5, <2>1, <2>2, <2>3, <2>4, <2>5, RmStays
<1> QED BY <1>6, <1>7

LEMMA UnlinkStep ==
    ASSUME FSInv, NEW t \in FSThreads, UnlinkFile(t)
    PROVE  FSInv'
<1>1. step[t] = "rm" /\ Top(t).phase = "unlink" BY DEF UnlinkFile, In
<1>2. /\ FSTypeOK /\ Top(t) \in Acts /\ Top(t).path \in Below(call[t].path)
      /\ Alone(t) => Knows(t, Top(t), {})
    BY <1>1, RmFacts
<1>3. UNCHANGED <<call, source, at>> BY DEF UnlinkFile
<1>4. PICK r \in Paths : r = Top(t).path BY <1>2 DEF Acts
<1>5. Alone(t) => tree[r] \notin {"none", "dir", "socket"} BY <1>1, <1>2, <1>4 DEF Knows
<1>6. CASE Unlinkable(r)
    <2>1. Vanish(r) /\ RmReturn(t, TRUE) BY <1>4, <1>6 DEF UnlinkFile
    <2>2. tree'[r] = "none" BY <1>2, <2>1 DEF Vanish, Becomes, FSTypeOK
    <2>3. Alone(t) => (Blocked(t) => Blocked(t)')
        BY <1>2, <1>3, <1>5, <1>6, <2>1, BlockedStays DEF Unlinkable
    <2> QED BY <1>1, <1>3, <1>4, <2>1, <2>2, <2>3, RmReturns
<1>7. CASE ~Unlinkable(r)
    <2>1. SameTree /\ RmReturn(t, FALSE) BY <1>4, <1>7 DEF UnlinkFile
    <2>2. Blocked(t)' <=> Blocked(t) BY <1>3, <2>1, BlockedSame
    <2>3. Alone(t) => Blocked(t)
        BY <1>2, <1>4, <1>5, <1>7 DEF Unlinkable, Blocked, Exists
    <2> QED BY <1>1, <1>3, <2>1, <2>2, <2>3, RmReturns
<1> QED BY <1>6, <1>7

LEMMA RmOpendirStep ==
    ASSUME FSInv, NEW t \in FSThreads, RmOpendir(t)
    PROVE  FSInv'
<1>1. step[t] = "rm" /\ Top(t).phase = "opendir" BY DEF RmOpendir, In
<1>2. /\ FSTypeOK /\ Top(t) \in Acts /\ Top(t).path \in Below(call[t].path)
      /\ Alone(t) => Knows(t, Top(t), {})
    BY <1>1, RmFacts
<1>3. SameTree /\ UNCHANGED <<call, source, at>> BY DEF RmOpendir
<1>4. Blocked(t)' <=> Blocked(t) BY <1>3, BlockedSame
<1>5. PICK a \in Acts : a = Top(t) BY <1>2
<1>6. CASE tree[a.path] # "dir"
    <2>1. RmReturn(t, FALSE) BY <1>5, <1>6 DEF RmOpendir
    <2>2. Alone(t) => tree[a.path] = "socket" BY <1>1, <1>2, <1>5, <1>6 DEF Knows
    <2>3. Alone(t) => Blocked(t) BY <1>2, <1>5, <2>2 DEF Blocked, Exists
    <2> QED BY <1>1, <1>3, <1>4, <2>1, <2>3, RmReturns
<1>7. CASE tree[a.path] = "dir"
    <2>1. PICK E : E = Entries(a.path) OBVIOUS
    <2>2. E \subseteq Paths /\ \A q \in E : q # <<>> /\ Dirname(q) = a.path BY <2>1 DEF Entries
    <2>3. PICK b : b = [a EXCEPT !.phase = "readdir", !.left = E] OBVIOUS
    <2>4. b \in Acts /\ b.path = a.path /\ b.left = E /\ b.phase = "readdir" /\ b.ret = a.ret
        BY <2>2, <2>3 DEF Acts
    <2>5. Phase(t, b) /\ RmStay BY <1>5, <1>7, <2>1, <2>3 DEF RmOpendir
    <2>6. LeftFits(b) BY <2>2, <2>4 DEF LeftFits
    <2>7. Alone(t) => Knows(t, b, {}) BY <1>2, <1>5, <1>7, <2>1, <2>4 DEF Knows
    <2> QED BY <1>1, <1>3, <1>5, <2>4, <2>5, <2>6, <2>7, RmStays
<1> QED BY <1>6, <1>7

LEMMA RmRmdirStep ==
    ASSUME FSInv, NEW t \in FSThreads, RmRmdir(t)
    PROVE  FSInv'
<1>1. step[t] = "rm" /\ Top(t).phase = "readdir" /\ Top(t).left = {} BY DEF RmRmdir, In
<1>2. /\ FSTypeOK /\ Top(t) \in Acts /\ Top(t).path \in Below(call[t].path)
      /\ Alone(t) => Knows(t, Top(t), {})
    BY <1>1, RmFacts
<1>3. UNCHANGED <<call, source, at>> BY DEF RmRmdir
<1>4. PICK r \in Paths, v \in BOOLEAN : r = Top(t).path /\ v = Top(t).ret BY <1>2 DEF Acts
<1>5. Alone(t) => /\ tree[r] = "dir" /\ (Blocked(t) \/ Entries(r) = {})
                  /\ ~v => Blocked(t)
    BY <1>1, <1>2, <1>4 DEF Knows
<1>6. CASE Rmdirable(r)
    <2>1. Vanish(r) /\ RmReturn(t, v) BY <1>4, <1>6 DEF RmRmdir
    <2>2. tree'[r] = "none" BY <1>2, <2>1 DEF Vanish, Becomes, FSTypeOK
    <2>3. Blocked(t) => Blocked(t)'
        BY <1>2, <1>3, <1>6, <2>1, BlockedStays DEF Rmdirable
    <2>4. Alone(t) => (~v => Blocked(t)') BY <1>5, <2>3
    <2> QED BY <1>1, <1>3, <1>4, <2>1, <2>2, <2>3, <2>4, RmReturns
<1>7. CASE ~Rmdirable(r)
    <2>1. SameTree /\ RmReturn(t, FALSE) BY <1>4, <1>7 DEF RmRmdir
    <2>2. Blocked(t)' <=> Blocked(t) BY <1>3, <2>1, BlockedSame
    <2>3. ASSUME Alone(t), ~Blocked(t) PROVE FALSE
        <3>1. r \in Refused /\ tree[r] = "dir" BY <1>5, <1>7, <2>3 DEF Rmdirable
        <3> QED BY <1>2, <1>4, <2>3, <3>1 DEF Blocked, Exists
    <2> QED BY <1>1, <1>3, <2>1, <2>2, <2>3, RmReturns
<1> QED BY <1>6, <1>7

-----------------------------------------------------------------------------
LEMMA FSInvInit == FSInit => FSInv
<1> SUFFICES ASSUME FSInit PROVE FSInv OBVIOUS
<1> USE DEF FSInit
<1>1. FSTypeOK
    <2>1. tree \in [Paths -> Kinds] BY FSAssumption
    <2>2. call \in [FSThreads -> [op : {"none", "Mkdir", "Open"} \union Removers, path : Paths, from : Paths]]
        BY FSAssumption DEF NoCall
    <2>3. stack \in [FSThreads -> Seq(Acts)] OBVIOUS
    <2>4. source \in [FSThreads -> Kinds] BY DEF Kinds
    <2> QED BY <2>1, <2>2, <2>3, <2>4 DEF FSTypeOK, FSSteps
<1>2. ASSUME NEW t \in FSThreads
      PROVE  OpInv(t) /\ ChainInv(t) /\ MkdirInv(t) /\ RmInv(t) /\ MvInv(t)
    <2>1. step[t] = "idle" /\ call[t] = NoCall BY <1>2
    <2>2. call[t].op = "none" BY <2>1 DEF NoCall
    <2> QED BY <2>1, <2>2 DEF OpInv, ChainInv, MkdirInv, RmInv, MvInv, Returned, Protected
<1> QED BY <1>1, <1>2 DEF FSInv

LEMMA FSInvStep == FSInv /\ [FSNext]_fsVars => FSInv'
<1> SUFFICES ASSUME FSInv, [FSNext]_fsVars PROVE FSInv' OBVIOUS
<1>1. CASE UNCHANGED fsVars
    <2>1. /\ tree' = tree /\ call' = call /\ step' = step /\ at' = at /\ stack' = stack /\ ret' = ret
          /\ source' = source /\ made' = made /\ gone' = gone
        BY <1>1 DEF fsVars
    <2>2. FSTypeOK' BY <2>1 DEF FSInv, FSTypeOK
    <2>3. ASSUME NEW t \in FSThreads
          PROVE  OpInv(t)' /\ ChainInv(t)' /\ MkdirInv(t)' /\ RmInv(t)' /\ MvInv(t)'
        <3>1. OpInv(t)' BY <2>1 DEF FSInv, OpInv
        <3>2. ChainInv(t)' BY <2>1 DEF FSInv, ChainInv
        <3>3. MkdirInv(t)' BY <2>1 DEF FSInv, MkdirInv, Returned, Exists
        <3>4. MvInv(t)' BY <2>1 DEF FSInv, MvInv, Protected, Victims
        <3>5. RmInv(t)'
            <4>1. (Alone(t)' <=> Alone(t)) /\ (Blocked(t)' <=> Blocked(t))
                BY <2>1 DEF Alone, Blocked, Below, Exists
            <4>2. \A a, C : Knows(t, a, C)' <=> Knows(t, a, C)
                BY <2>1, <4>1 DEF Knows, Entries, Exists
            <4>3. \A i : Activated(t, i)' <=> Activated(t, i) BY <2>1, <4>2 DEF Activated
            <4> QED BY <2>1, <4>1, <4>3 DEF FSInv, RmInv, Returned, Exists
        <3> QED BY <3>1, <3>2, <3>3, <3>4, <3>5
    <2> QED BY <2>2, <2>3 DEF FSInv
<1>2. CASE FSNext
    <2>1. PICK t \in FSThreads : FSStep(t) \/ \E c \in FSCalls[t] : Begin(t, c) BY <1>2 DEF FSNext
    <2>2. CASE \E c \in FSCalls[t] : Begin(t, c) BY <2>2, BeginStep
    <2>3. CASE MkdirLstat(t) \/ MkdirAccess(t) BY <2>3, MkdirSteps
    <2>4. CASE MkdirMake(t) BY <2>4, MkdirMakeStep
    <2>5. CASE OpenForWrite(t) BY <2>5, OpenStep
    <2>6. CASE TryAgain(t) BY <2>6, TryAgainStep
    <2>7. CASE RmLstat(t) \/ UnlinkLstat(t) BY <2>7, RmLstatStep
    <2>8. CASE UnlinkFile(t) BY <2>8, UnlinkStep
    <2>9. CASE RmOpendir(t) BY <2>9, RmOpendirStep
    <2>10. CASE RmReaddir(t) BY <2>10, RmReaddirStep
    <2>11. CASE RmRmdir(t) BY <2>11, RmRmdirStep
    <2>12. CASE MvRename(t) BY <2>12, MvStep
    <2>13. CASE SymlinkMake(t) BY <2>13, SymlinkStep
    <2> QED BY <2>1, <2>2, <2>3, <2>4, <2>5, <2>6, <2>7, <2>8, <2>9, <2>10, <2>11, <2>12, <2>13
            DEF FSStep
<1> QED BY <1>1, <1>2

\* FSInv: every call is where its name allows it to be; the activations of an
\* Rm are of a path and, one by one, of entries below it; what has returned
\* is true; and what an Rm that nobody disturbs, or a Mv that nobody else
\* disturbs, has found out is still so.
LEMMA FSInvariant == FSSpec => []FSInv
<1> QED BY FSInvInit, FSInvStep, PTL DEF FSSpec

\* Mkdir of util.cc: when it returns true, the path is there or somebody
\* removed it, or a directory above it, since the call began, however many
\* threads make and remove the components of the path at the same time.
THEOREM MkdirIsTruthful == FSSpec => []MkdirMade
<1>1. FSInv => MkdirMade
    <2> SUFFICES ASSUME FSInv, NEW t \in FSThreads, Returned(t, "Mkdir", TRUE),
                        ~Exists(call[t].path)
                 PROVE  \E p \in gone[t] : IsPrefix(p, call[t].path)
        BY DEF MkdirMade
    <2>1. call[t].path \in Paths /\ call[t].path \in gone[t]
        BY DEF FSInv, FSTypeOK, MkdirInv
    <2> QED BY <2>1, PathFacts
<1> QED BY <1>1, FSInvariant, PTL

\* Rm of util.cc: when it returns true, the path is gone or was made again;
\* when it returns false, something below it cannot be removed, something
\* was made below it during the call, or another Rm, Mv or Symlink was called.
THEOREM RmIsTruthful == FSSpec => []RmTruthful
<1>1. FSInv => RmTruthful
    <2> SUFFICES ASSUME FSInv, NEW t \in FSThreads
                 PROVE  LET B == Below(call[t].path) IN
        /\ Returned(t, "Rm", TRUE) => ~Exists(call[t].path) \/ made[t] \cap B # {}
        /\ Returned(t, "Rm", FALSE) =>
            \/ \E p \in B : Exists(p) /\ (p \in Refused \/ tree[p] = "socket")
            \/ made[t] \cap B # {}
            \/ \E u \in FSThreads \ {t} : call[u].op \in {"Rm", "Mv", "Symlink"}
        BY DEF RmTruthful
    <2>1. RmInv(t) /\ call[t].path \in Paths BY DEF FSInv, FSTypeOK
    <2>2. call[t].path \in Below(call[t].path) BY <2>1, PathFacts DEF Below
    <2>3. Returned(t, "Rm", TRUE) => ~Exists(call[t].path) \/ made[t] \cap Below(call[t].path) # {}
        BY <2>1, <2>2 DEF RmInv
    <2>4. Returned(t, "Rm", FALSE) /\ Alone(t) => Blocked(t) BY <2>1 DEF RmInv
    <2> QED BY <2>3, <2>4 DEF Alone, Blocked, Removers
<1> QED BY <1>1, FSInvariant, PTL

\* Mv of util.cc: a file that is moved is at its old place or at the new one
\* at every moment, unless the target is above it or others remove it.
THEOREM MvKeepsSource == FSSpec => []MvKeeps
<1>1. FSInv => MvKeeps
    <2> SUFFICES ASSUME FSInv, NEW t \in FSThreads, Protected(t)
                 PROVE  "precious" \in {tree[call[t].from], tree[call[t].path]}
        BY DEF MvKeeps, Protected
    <2>1. MvInv(t) BY DEF FSInv
    <2> QED BY <2>1 DEF MvInv
<1> QED BY <1>1, FSInvariant, PTL
=============================================================================
