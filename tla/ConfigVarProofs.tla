--------------------------- MODULE ConfigVarProofs ---------------------------
(***************************************************************************)
(* Proofs about ConfigVar, for any number of threads, variables, values    *)
(* and listeners: what a setValue has told whom when it stores, and the    *)
(* ids of listeners.                                                       *)
(***************************************************************************)
EXTENDS ConfigVar, FiniteSetTheorems, WellFoundedInduction, NaturalsInduction, TLAPS

\* Where a thread has m_mutex of its variable locked for reading, and where
\* for writing.
Reading == {"notify", "stuck", "dangling"}
Adding == {"add", "insert", "added"}
PCs == {"idle", "write"} \union Reading \union Adding

TypeOK ==
    /\ m_val \in [Vars -> Values]
    /\ m_cbs \in [Vars -> [Ids -> Listeners \union {None}]]
    /\ readers \in [Vars -> SUBSET Threads]
    /\ writer \in [Vars -> Threads \union {None}]
    /\ s_fun_id \in Nat
    /\ pc \in [Threads -> PCs]
    /\ job \in [Threads -> [var : Vars \union {None}, arg : Values \union Listeners \union {None},
                            at : Nat]]
    /\ told \in [Threads -> SUBSET Listeners]
    /\ since \in [Threads -> SUBSET Listeners]
    /\ id \in [Listeners -> (Vars \X Nat) \union {None}]
    /\ sets \in Nat
    /\ \A t \in Threads :
        /\ pc[t] # "idle" => job[t].var \in Vars
        /\ pc[t] \in Adding => job[t].arg \in Listeners
        /\ pc[t] \in Reading \union {"write"} => job[t].arg \in Values

\* The lock of a variable and the places of the threads agree.
LockInv ==
    /\ \A x \in Vars : readers[x] # {} => writer[x] = None
    /\ \A t \in Threads :
        /\ pc[t] \in Reading => t \in readers[job[t].var]
        /\ pc[t] \in Adding => writer[job[t].var] = t
    /\ \A x \in Vars : writer[x] # None => pc[writer[x]] \in Adding /\ job[writer[x]].var = x

\* A callback that is being registered has no id yet, one thread registers
\* it, and what is in the map without an id has just been put there.
FreshInv ==
    /\ \A t \in Threads : pc[t] \in Adding => id[job[t].arg] = None
    /\ \A t, u \in Threads :
        pc[t] \in Adding /\ pc[u] \in Adding /\ job[t].arg = job[u].arg => t = u
    /\ \A x \in Vars, k \in Ids : m_cbs[x][k] # None =>
        \/ id[m_cbs[x][k]] # None
        \/ \E t \in Threads : pc[t] = "added" /\ job[t].var = x /\ job[t].arg = m_cbs[x][k]

\* What a setValue found registered when it began has its id, so it is not
\* registered again; the loop has called what it has passed.
WalkInv ==
    \A t \in Threads :
        /\ \A l \in since[t] : id[l] # None
        /\ pc[t] = "notify" => \A k \in Ids :
            LET l == m_cbs[job[t].var][k] IN k <= job[t].at /\ l \in since[t] => l \in told[t]
        /\ pc[t] \in {"dangling", "write"} => \A k \in Ids :
            LET l == m_cbs[job[t].var][k] IN l \in since[t] => l \in told[t]

SetInv == TypeOK /\ LockInv /\ FreshInv /\ WalkInv

\* Callbacks that have taken an id from the counter.
Used == {l \in Listeners : \/ id[l] # None
                           \/ \E t \in Threads : pc[t] \in {"insert", "added"} /\ job[t].arg = l}
\* The counter has not run ahead of the callbacks that used it.
FitInv ==
    /\ s_fun_id <= Cardinality(Used)
    /\ \A t \in Threads : pc[t] = "add" => job[t].at <= Cardinality(Used)
    /\ \A t \in Threads : pc[t] \in {"insert", "added"} => s_fun_id > 0

\* There is one ConfigVar of the type T, so that its lock protects the counter.
OneVar == \A x, y \in Vars : x = y

\* The ids given out so far, and the callbacks under them.
IdInv ==
    /\ \A t \in Threads : pc[t] = "add" => job[t].at = s_fun_id
    /\ \A l \in Listeners : id[l] # None =>
        /\ id[l][2] <= s_fun_id
        /\ \A t \in Threads : pc[t] \in {"insert", "added"} => id[l][2] < s_fun_id
    /\ \A x \in Vars, k \in Ids : m_cbs[x][k] # None =>
        /\ id[m_cbs[x][k]] # None => id[m_cbs[x][k]] = <<x, k>>
        /\ id[m_cbs[x][k]] = None => k = s_fun_id
    /\ \A l, m \in Listeners : id[l] # None /\ id[l] = id[m] => l = m
-----------------------------------------------------------------------------
\* The loop over a map comes to its first entry: a non-empty set of naturals
\* has a smallest element.
LEMMA SmallestNat ==
    ASSUME NEW S, S \subseteq Nat, S # {}
    PROVE  \E k \in S : \A j \in S : k <= j
<1>1. IsWellFoundedOn(OpToRel(<, Nat), Nat)
    BY NatLessThanWellFounded
<1>2. \E k \in S : \A j \in S : <<j, k>> \notin OpToRel(<, Nat)
    BY <1>1, WFMin
<1>3. \A j, k \in Nat : j < k => <<j, k>> \in OpToRel(<, Nat)
    BY DEF OpToRel
<1>4. PICK k \in S : \A j \in S : <<j, k>> \notin OpToRel(<, Nat)
    BY <1>2
<1>5. ASSUME NEW j \in S PROVE k <= j
    <2>1. j \in Nat /\ k \in Nat /\ ~(j < k)
        BY <1>3, <1>4
    <2> QED
        BY <2>1
<1> QED
    BY <1>5

\* No thread is anywhere, nothing is registered.
LEMMA SetInit == Init => SetInv
<1> SUFFICES ASSUME Init PROVE SetInv
    OBVIOUS
<1> USE ConfigVarAssumption
<1>1. TypeOK
    BY DEF Init, TypeOK, PCs, Reading, Adding, NoJob, Ids
<1>2. LockInv
    BY DEF Init, LockInv, Reading, Adding
<1>3. FreshInv
    BY DEF Init, FreshInv, Adding
<1>4. WalkInv
    BY DEF Init, WalkInv
<1> QED
    BY <1>1, <1>2, <1>3, <1>4 DEF SetInv

\* Every step of setValue, addListener, delListener and clearListener keeps
\* the types: one case per action.
LEMMA TypeStep == TypeOK /\ [Next]_vars => TypeOK'
<1> SUFFICES ASSUME TypeOK, [Next]_vars PROVE TypeOK'
    OBVIOUS
<1> USE ConfigVarAssumption DEF TypeOK, listenVars, setVars, Threads
<1>1. ASSUME NEW t \in Setters, NEW x \in Vars, NEW v \in Values, SetBegin(t, x, v) PROVE TypeOK'
    <2>1. Registered(x) \subseteq Listeners
        BY DEF Registered
    <2>2. /\ readers' \in [Vars -> SUBSET Threads] /\ since' \in [Threads -> SUBSET Listeners]
          /\ told' \in [Threads -> SUBSET Listeners] /\ sets' \in Nat
        BY <1>1, <2>1 DEF SetBegin
    <2>3. /\ pc' \in [Threads -> PCs]
          /\ job' \in [Threads -> [var : Vars \union {None}, arg : Values \union Listeners \union {None},
                                   at : Nat]]
        BY <1>1 DEF SetBegin, PCs, Reading
    <2>4. \A u \in Threads :
            /\ pc'[u] # "idle" => job'[u].var \in Vars
            /\ pc'[u] \in Adding => job'[u].arg \in Listeners
            /\ pc'[u] \in Reading \union {"write"} => job'[u].arg \in Values
        BY <1>1 DEF SetBegin, Adding
    <2> QED
        BY <1>1, <2>2, <2>3, <2>4 DEF SetBegin
<1>2. ASSUME NEW t \in Setters, Notify(t) PROVE TypeOK'
    <2>1. PICK k \in Ids :
            /\ NextId(t, k)
            /\ job' = [job EXCEPT ![t].at = k]
            /\ told' = [told EXCEPT ![t] = @ \union {m_cbs[job[t].var][k]}]
        BY <1>2 DEF Notify
    <2>2. m_cbs[job[t].var][k] \in Listeners /\ k \in Nat
        <3>1. job[t].var \in Vars
            BY <1>2 DEF Notify
        <3>2. k \in Nat
            BY DEF Ids
        <3> QED
            BY <2>1, <3>1, <3>2 DEF NextId
    <2> QED
        BY <1>2, <2>1, <2>2 DEF Notify
<1>3. ASSUME NEW t \in Setters, NotifyBlock(t) PROVE TypeOK'
    BY <1>3 DEF NotifyBlock, PCs, Reading, Adding
<1>4. ASSUME NEW t \in Setters, NotifyThrow(t) PROVE TypeOK'
    BY <1>4 DEF NotifyThrow, PCs, Reading, Adding, NoJob
<1>5. ASSUME NEW t \in Setters, NotifyEnd(t) PROVE TypeOK'
    BY <1>5 DEF NotifyEnd, PCs, Reading, Adding
<1>6. ASSUME NEW t \in Setters, DanglingEnd(t) PROVE TypeOK'
    BY <1>6 DEF DanglingEnd, PCs, Reading, Adding
<1>7. ASSUME NEW t \in Setters, SetWrite(t) PROVE TypeOK'
    BY <1>7 DEF SetWrite, PCs, Reading, Adding, NoJob
<1>8. ASSUME NEW t \in Adders, NEW x \in Vars, NEW l \in Listeners, AddLock(t, x, l) PROVE TypeOK'
    BY <1>8 DEF AddLock, PCs, Reading, Adding
<1>9. ASSUME NEW t \in Adders, AddIncrement(t) PROVE TypeOK'
    BY <1>9 DEF AddIncrement, PCs, Reading, Adding
<1>10. ASSUME NEW t \in Adders, AddInsert(t) PROVE TypeOK'
    BY <1>10 DEF AddInsert, PCs, Reading, Adding
<1>11. ASSUME NEW t \in Adders, AddReturn(t) PROVE TypeOK'
    BY <1>11 DEF AddReturn, PCs, Reading, Adding, NoJob
<1>12. ASSUME NEW t \in Adders, NEW x \in Vars, NEW k \in Ids, DelListener(t, x, k) PROVE TypeOK'
    BY <1>12 DEF DelListener
<1>13. ASSUME NEW t \in Clearers, NEW x \in Vars, ClearListener(t, x) PROVE TypeOK'
    BY <1>13 DEF ClearListener, PCs, Reading, Adding
<1>14. CASE UNCHANGED vars
    BY <1>14 DEF vars
<1> QED
    BY <1>1, <1>2, <1>3, <1>4, <1>5, <1>6, <1>7, <1>8, <1>9, <1>10, <1>11, <1>12, <1>13, <1>14
    DEF Next, SetStep, AddStep

\* Every step keeps the lock, the freshness and the walk: one case per action.
LEMMA SetStepInv == SetInv /\ [Next]_vars => SetInv'
<1> SUFFICES ASSUME SetInv, [Next]_vars PROVE SetInv'
    OBVIOUS
<1>0. TypeOK /\ TypeOK'
    BY TypeStep DEF SetInv
<1>a. Setters \subseteq Threads /\ Adders \subseteq Threads /\ Clearers \subseteq Threads
    BY DEF Threads
<1>b. None \notin Threads /\ None \notin Listeners
    BY ConfigVarAssumption
<1>c. /\ \A x \in Vars : writer[x] \in Threads \union {None} /\ writer'[x] \in Threads \union {None}
      /\ \A t \in Threads : /\ pc[t] # "idle" => job[t].var \in Vars
                            /\ pc'[t] # "idle" => job'[t].var \in Vars
    BY <1>0 DEF TypeOK
<1> USE DEF listenVars, setVars
<1>1. ASSUME NEW t \in Setters, NEW x \in Vars, NEW v \in Values, SetBegin(t, x, v) PROVE SetInv'
    <2>1. /\ pc[t] = "idle" /\ writer[x] = None /\ UNCHANGED <<m_cbs, writer, id>>
          /\ pc'[t] = "notify" /\ job'[t].var = x /\ job'[t].at = 0
          /\ since'[t] = Registered(x)
          /\ \A u \in Threads : u # t => /\ pc'[u] = pc[u] /\ job'[u] = job[u]
                                         /\ told'[u] = told[u] /\ since'[u] = since[u]
          /\ readers'[x] = readers[x] \union {t}
          /\ \A y \in Vars : y # x => readers'[y] = readers[y]
        BY <1>0, <1>1, <1>a DEF SetBegin, TypeOK
    <2>2. LockInv'
        BY <1>a, <1>b, <1>c, <2>1 DEF SetInv, LockInv, Adding, Reading
    <2>3. FreshInv'
        BY <1>a, <2>1 DEF SetInv, FreshInv, Adding
    <2>4. \A l \in Registered(x) : id[l] # None
        <3> SUFFICES ASSUME NEW k \in Ids, m_cbs[x][k] # None PROVE id[m_cbs[x][k]] # None
            BY DEF Registered
        <3>1. \A u \in Threads : pc[u] = "added" => job[u].var # x
            BY <1>b, <2>1 DEF SetInv, LockInv, Adding
        <3> QED
            BY <3>1 DEF SetInv, FreshInv
    <2>5. \A k \in Ids : ~(k <= 0)
        BY DEF Ids
    <2>6. WalkInv'
        BY <1>a, <2>1, <2>4, <2>5 DEF SetInv, WalkInv
    <2> QED
        BY <1>0, <2>2, <2>3, <2>6 DEF SetInv
<1>2. ASSUME NEW t \in Setters, Notify(t) PROVE SetInv'
    <2>1. PICK k \in Ids :
            /\ NextId(t, k)
            /\ job' = [job EXCEPT ![t].at = k]
            /\ told' = [told EXCEPT ![t] = @ \union {m_cbs[job[t].var][k]}]
        BY <1>2 DEF Notify
    <2>2. /\ pc[t] = "notify" /\ UNCHANGED <<m_cbs, readers, writer, id, pc, since>>
          /\ job'[t].var = job[t].var /\ job'[t].at = k /\ job'[t].arg = job[t].arg
          /\ told'[t] = told[t] \union {m_cbs[job[t].var][k]}
          /\ \A u \in Threads : u # t => job'[u] = job[u] /\ told'[u] = told[u]
        BY <1>0, <1>2, <1>a, <2>1 DEF Notify, TypeOK
    <2>3. LockInv'
        BY <1>b, <1>c, <2>2 DEF SetInv, LockInv
    <2>4. FreshInv'
        BY <1>a, <2>2 DEF SetInv, FreshInv, Adding
    <2>5. ASSUME NEW j \in Ids, j <= k, m_cbs[job[t].var][j] \in since[t]
          PROVE  m_cbs[job[t].var][j] \in told'[t]
        <3>1. m_cbs[job[t].var][j] # None
            BY <1>0, <1>a, <1>b, <2>5 DEF TypeOK
        <3>2. j \in Nat /\ k \in Nat /\ job[t].at \in Nat
            BY <1>0, <1>a DEF TypeOK, Ids
        <3>3. j <= job[t].at \/ j = k
            BY <2>1, <2>5, <3>1, <3>2 DEF NextId
        <3> QED
            BY <1>a, <2>2, <2>5, <3>3 DEF SetInv, WalkInv
    <2>6. WalkInv'
        BY <1>0, <1>a, <2>2, <2>5 DEF SetInv, WalkInv
    <2> QED
        BY <1>0, <2>3, <2>4, <2>6 DEF SetInv
<1>3. ASSUME NEW t \in Setters, NotifyBlock(t) PROVE SetInv'
    <2>1. /\ pc[t] = "notify" /\ pc'[t] = "stuck"
          /\ \A u \in Threads : u # t => pc'[u] = pc[u]
          /\ UNCHANGED <<m_cbs, readers, writer, job, id, told, since>>
        BY <1>0, <1>3, <1>a DEF NotifyBlock, TypeOK
    <2>2. LockInv'
        BY <1>a, <1>b, <1>c, <2>1 DEF SetInv, LockInv, Adding, Reading
    <2>3. FreshInv'
        BY <1>0, <1>a, <2>1 DEF SetInv, FreshInv, Adding
    <2>4. WalkInv'
        BY <1>0, <1>a, <2>1 DEF SetInv, WalkInv
    <2> QED
        BY <1>0, <2>2, <2>3, <2>4 DEF SetInv
<1>4. ASSUME NEW t \in Setters, NotifyThrow(t) PROVE SetInv'
    <2>1. /\ pc[t] = "notify" /\ pc'[t] = "idle" /\ job[t].var \in Vars
          /\ \A u \in Threads : u # t => pc'[u] = pc[u] /\ job'[u] = job[u]
          /\ readers'[job[t].var] = readers[job[t].var] \ {t}
          /\ \A y \in Vars : y # job[t].var => readers'[y] = readers[y]
          /\ UNCHANGED <<m_cbs, writer, id, told, since>>
        BY <1>0, <1>4, <1>a DEF NotifyThrow, TypeOK
    <2>2. LockInv'
        BY <1>a, <1>b, <1>c, <2>1 DEF SetInv, LockInv, Adding, Reading
    <2>3. FreshInv'
        BY <1>0, <1>a, <2>1 DEF SetInv, FreshInv, Adding
    <2>4. WalkInv'
        BY <1>0, <1>a, <2>1 DEF SetInv, WalkInv
    <2> QED
        BY <1>0, <2>2, <2>3, <2>4 DEF SetInv
\* The loop ends only behind the last entry.
<1>5. ASSUME NEW t \in Setters, NotifyEnd(t) PROVE SetInv'
    <2>1. /\ pc[t] = "notify" /\ pc'[t] = "write" /\ job[t].var \in Vars
          /\ \A k \in Ids : ~NextId(t, k)
          /\ \A u \in Threads : u # t => pc'[u] = pc[u]
          /\ readers'[job[t].var] = readers[job[t].var] \ {t}
          /\ \A y \in Vars : y # job[t].var => readers'[y] = readers[y]
          /\ UNCHANGED <<m_cbs, writer, id, told, since, job>>
        BY <1>0, <1>5, <1>a DEF NotifyEnd, TypeOK
    <2>2. LockInv'
        BY <1>a, <1>b, <1>c, <2>1 DEF SetInv, LockInv, Adding, Reading
    <2>3. FreshInv'
        BY <1>0, <1>a, <2>1 DEF SetInv, FreshInv, Adding
    <2>4. ASSUME NEW k \in Ids, m_cbs[job[t].var][k] # None PROVE k <= job[t].at
        <3> DEFINE S == {j \in Ids : j > job[t].at /\ m_cbs[job[t].var][j] # None}
        <3>1. job[t].at \in Nat /\ Ids \subseteq Nat
            BY <1>0, <1>a DEF TypeOK, Ids
        <3>2. S \subseteq Nat
            BY <3>1
        <3>3. CASE S # {}
            <4>1. PICK j \in S : \A i \in S : j <= i
                BY <3>2, <3>3, SmallestNat
            <4>2. NextId(t, j)
                BY <3>1, <4>1 DEF NextId
            <4> QED
                BY <2>1, <4>1, <4>2
        <3>4. CASE S = {}
            <4>1. ~(k > job[t].at)
                BY <2>4, <3>4
            <4> QED
                BY <3>1, <4>1
        <3> QED
            BY <3>3, <3>4
    <2>5. ASSUME NEW k \in Ids, m_cbs[job[t].var][k] \in since[t]
          PROVE  m_cbs[job[t].var][k] \in told[t]
        <3>1. m_cbs[job[t].var][k] # None
            BY <1>0, <1>a, <1>b, <2>5 DEF TypeOK
        <3> QED
            BY <1>a, <2>1, <2>4, <2>5, <3>1 DEF SetInv, WalkInv
    <2>6. WalkInv'
        BY <1>0, <1>a, <2>1, <2>5 DEF SetInv, WalkInv
    <2> QED
        BY <1>0, <2>2, <2>3, <2>6 DEF SetInv
<1>6. ASSUME NEW t \in Setters, DanglingEnd(t) PROVE SetInv'
    <2>1. /\ pc[t] = "dangling" /\ pc'[t] = "write" /\ job[t].var \in Vars
          /\ \A u \in Threads : u # t => pc'[u] = pc[u] /\ told'[u] = told[u]
          /\ told[t] \subseteq told'[t]
          /\ readers'[job[t].var] = readers[job[t].var] \ {t}
          /\ \A y \in Vars : y # job[t].var => readers'[y] = readers[y]
          /\ UNCHANGED <<m_cbs, writer, id, since, job>>
        BY <1>0, <1>6, <1>a DEF DanglingEnd, TypeOK
    <2>2. LockInv'
        BY <1>a, <1>b, <1>c, <2>1 DEF SetInv, LockInv, Adding, Reading
    <2>3. FreshInv'
        BY <1>0, <1>a, <2>1 DEF SetInv, FreshInv, Adding
    <2>4. WalkInv'
        BY <1>0, <1>a, <2>1 DEF SetInv, WalkInv
    <2> QED
        BY <1>0, <2>2, <2>3, <2>4 DEF SetInv
<1>7. ASSUME NEW t \in Setters, SetWrite(t) PROVE SetInv'
    <2>1. /\ pc[t] = "write" /\ pc'[t] = "idle"
          /\ \A u \in Threads : u # t => pc'[u] = pc[u] /\ job'[u] = job[u]
          /\ UNCHANGED <<m_cbs, readers, writer, id, told, since>>
        BY <1>0, <1>7, <1>a DEF SetWrite, TypeOK
    <2>2. LockInv'
        BY <1>a, <1>b, <1>c, <2>1 DEF SetInv, LockInv, Adding, Reading
    <2>3. FreshInv'
        BY <1>0, <1>a, <2>1 DEF SetInv, FreshInv, Adding
    <2>4. WalkInv'
        BY <1>0, <1>a, <2>1 DEF SetInv, WalkInv
    <2> QED
        BY <1>0, <2>2, <2>3, <2>4 DEF SetInv
<1>8. ASSUME NEW t \in Adders, NEW x \in Vars, NEW l \in Listeners, AddLock(t, x, l) PROVE SetInv'
    <2>1. /\ pc[t] = "idle" /\ pc'[t] = "add" /\ id[l] = None /\ Unlocked(x)
          /\ job'[t].var = x /\ job'[t].arg = l
          /\ \A u \in Threads : job[u].arg # l
          /\ \A u \in Threads : u # t => pc'[u] = pc[u] /\ job'[u] = job[u]
          /\ writer'[x] = t /\ \A y \in Vars : y # x => writer'[y] = writer[y]
          /\ UNCHANGED <<m_cbs, readers, id, told, since>>
        BY <1>0, <1>8, <1>a DEF AddLock, TypeOK
    <2>2. LockInv'
        BY <1>a, <1>b, <1>c, <2>1 DEF SetInv, LockInv, Adding, Reading, Unlocked
    <2>3. FreshInv'
        BY <1>0, <1>a, <2>1 DEF SetInv, FreshInv, Adding
    <2>4. WalkInv'
        BY <1>0, <1>a, <2>1 DEF SetInv, WalkInv
    <2> QED
        BY <1>0, <2>2, <2>3, <2>4 DEF SetInv
<1>9. ASSUME NEW t \in Adders, AddIncrement(t) PROVE SetInv'
    <2>1. /\ pc[t] = "add" /\ pc'[t] = "insert"
          /\ \A u \in Threads : u # t => pc'[u] = pc[u]
          /\ UNCHANGED <<m_cbs, readers, writer, id, told, since, job>>
        BY <1>0, <1>9, <1>a DEF AddIncrement, TypeOK
    <2>2. LockInv'
        BY <1>a, <1>b, <1>c, <2>1 DEF SetInv, LockInv, Adding, Reading
    <2>3. FreshInv'
        BY <1>0, <1>a, <2>1 DEF SetInv, FreshInv, Adding
    <2>4. WalkInv'
        BY <1>0, <1>a, <2>1 DEF SetInv, WalkInv
    <2> QED
        BY <1>0, <2>2, <2>3, <2>4 DEF SetInv
\* The callback that comes into the map is one no setValue saw.
<1>10. ASSUME NEW t \in Adders, AddInsert(t) PROVE SetInv'
    <2>1. /\ pc[t] = "insert" /\ pc'[t] = "added" /\ job[t].var \in Vars
          /\ \A u \in Threads : u # t => pc'[u] = pc[u]
          /\ UNCHANGED <<readers, writer, id, told, since, job>>
          /\ \A y \in Vars, k \in Ids :
                \/ m_cbs'[y][k] = m_cbs[y][k]
                \/ y = job[t].var /\ m_cbs'[y][k] = job[t].arg
        BY <1>0, <1>10, <1>a DEF AddInsert, TypeOK
    <2>2. LockInv'
        BY <1>a, <1>b, <1>c, <2>1 DEF SetInv, LockInv, Adding, Reading
    <2>3. FreshInv'
        BY <1>0, <1>a, <2>1 DEF SetInv, FreshInv, Adding
    <2>4. id[job[t].arg] = None
        BY <1>a, <2>1 DEF SetInv, FreshInv, Adding
    <2>5. \A u \in Threads : job[t].arg \notin since[u]
        BY <2>4 DEF SetInv, WalkInv
    <2>6. WalkInv'
        <3> SUFFICES ASSUME NEW u \in Threads
                     PROVE  /\ \A l \in since[u] : id[l] # None
                            /\ pc'[u] = "notify" => \A k \in Ids :
                                k <= job[u].at /\ m_cbs'[job[u].var][k] \in since[u]
                                    => m_cbs'[job[u].var][k] \in told[u]
                            /\ pc'[u] \in {"dangling", "write"} => \A k \in Ids :
                                m_cbs'[job[u].var][k] \in since[u]
                                    => m_cbs'[job[u].var][k] \in told[u]
            BY <2>1 DEF WalkInv
        <3>1. pc'[u] \in {"notify", "dangling", "write"} => pc[u] = pc'[u] /\ job[u].var \in Vars
            BY <1>0, <2>1 DEF TypeOK
        <3> QED
            BY <2>1, <2>5, <3>1 DEF SetInv, WalkInv
    <2> QED
        BY <1>0, <2>2, <2>3, <2>6 DEF SetInv
<1>11. ASSUME NEW t \in Adders, AddReturn(t) PROVE SetInv'
    <2>1. /\ pc[t] = "added" /\ pc'[t] = "idle" /\ job[t].var \in Vars /\ job[t].arg \in Listeners
          /\ \A u \in Threads : u # t => pc'[u] = pc[u] /\ job'[u] = job[u]
          /\ writer'[job[t].var] = None
          /\ \A y \in Vars : y # job[t].var => writer'[y] = writer[y]
          /\ id'[job[t].arg] # None /\ \A l \in Listeners : l # job[t].arg => id'[l] = id[l]
          /\ UNCHANGED <<m_cbs, readers, told, since>>
        <3>1. <<job[t].var, s_fun_id>> \in Vars \X Nat
            BY <1>0, <1>11, <1>a, <1>c DEF AddReturn, TypeOK
        <3>2. <<job[t].var, s_fun_id>> # None
            BY <3>1, ConfigVarAssumption
        <3> QED
            BY <1>0, <1>11, <1>a, <3>2 DEF AddReturn, TypeOK, Adding
    <2>2. LockInv'
        BY <1>a, <1>b, <1>c, <2>1 DEF SetInv, LockInv, Adding, Reading
    <2>3. FreshInv'
        <3>1. /\ \A u \in Threads : pc[u] \in Adding => job[u].arg \in Listeners
              /\ \A x \in Vars, k \in Ids : m_cbs[x][k] \in Listeners \union {None}
            BY <1>0 DEF TypeOK
        <3> QED
            BY <1>a, <2>1, <3>1 DEF SetInv, FreshInv, Adding
    <2>4. WalkInv'
        BY <1>0, <1>a, <2>1 DEF SetInv, WalkInv, TypeOK
    <2> QED
        BY <1>0, <2>2, <2>3, <2>4 DEF SetInv
<1>12. ASSUME NEW t \in Adders, NEW x \in Vars, NEW k \in Ids, DelListener(t, x, k) PROVE SetInv'
    <2>1. /\ UNCHANGED <<readers, writer, id, told, since, job, pc>>
          /\ \A y \in Vars, j \in Ids : m_cbs'[y][j] = m_cbs[y][j] \/ m_cbs'[y][j] = None
        BY <1>0, <1>12 DEF DelListener, TypeOK
    <2>2. LockInv'
        BY <2>1 DEF SetInv, LockInv
    <2>3. FreshInv'
        BY <2>1 DEF SetInv, FreshInv
    <2>4. WalkInv'
        <3>1. \A u \in Threads : /\ None \notin since[u]
                                 /\ pc[u] \in {"notify", "dangling", "write"} => job[u].var \in Vars
            BY <1>0, <1>b DEF TypeOK
        <3> QED
            BY <2>1, <3>1 DEF SetInv, WalkInv
    <2> QED
        BY <1>0, <2>2, <2>3, <2>4 DEF SetInv
\* Nothing that a setValue found registered is left.
<1>13. ASSUME NEW t \in Clearers, NEW x \in Vars, ClearListener(t, x) PROVE SetInv'
    <2>1. /\ UNCHANGED <<readers, writer, id, told, since, job>>
          /\ \A u \in Threads : pc'[u] = IF pc[u] = "notify" /\ job[u].var = x THEN "dangling" ELSE pc[u]
          /\ \A k \in Ids : m_cbs'[x][k] = None
          /\ \A y \in Vars : y # x => m_cbs'[y] = m_cbs[y]
        BY <1>0, <1>13 DEF ClearListener, TypeOK
    <2>2. LockInv'
        BY <1>0, <2>1 DEF SetInv, LockInv, Reading, Adding, TypeOK
    <2>3. FreshInv'
        BY <1>0, <2>1 DEF SetInv, FreshInv, Adding
    <2>4. WalkInv'
        <3>1. \A u \in Threads : /\ None \notin since[u]
                                 /\ pc[u] \in {"notify", "dangling", "write"} => job[u].var \in Vars
            BY <1>0, <1>b DEF TypeOK
        <3> QED
            BY <2>1, <3>1 DEF SetInv, WalkInv
    <2> QED
        BY <1>0, <2>2, <2>3, <2>4 DEF SetInv
<1>14. CASE UNCHANGED vars
    BY <1>0, <1>14 DEF vars, SetInv, LockInv, FreshInv, WalkInv
<1> QED
    BY <1>1, <1>2, <1>3, <1>4, <1>5, <1>6, <1>7, <1>8, <1>9, <1>10, <1>11, <1>12, <1>13, <1>14
    DEF Next, SetStep, AddStep

\* A setValue that is about to store has told every callback that was there
\* when it began and still is, for any number of threads, variables and
\* listeners, also where callbacks throw or clearListener runs.
THEOREM SetValueTellsAll == Spec => []ToldAll
<1>1. SetInv => ToldAll
    BY DEF SetInv, WalkInv, ToldAll, Registered, Threads
<1> QED
    BY <1>1, SetInit, SetStepInv, PTL DEF Spec

\* addListener and delListener never touch the map a setValue walks over.
THEOREM WalkUndisturbed == Spec => IterationStable
<1> DEFINE A == \A x \in Vars :
                    (\E t \in Setters : pc[t] = "notify" /\ job[t].var = x) =>
                        m_cbs'[x] \in {m_cbs[x], [k \in Ids |-> None]}
<1>1. ASSUME SetInv, [Next]_vars PROVE A
    <2> SUFFICES ASSUME NEW x \in Vars, NEW t \in Setters, pc[t] = "notify", job[t].var = x,
                        m_cbs'[x] # m_cbs[x]
                 PROVE  m_cbs'[x] = [k \in Ids |-> None]
        OBVIOUS
    <2>0. TypeOK /\ None \notin Threads
        BY <1>1, ConfigVarAssumption DEF SetInv
    <2>1. readers[x] # {} /\ writer[x] = None
        BY <1>1 DEF SetInv, LockInv, Reading, Threads
    <2>2. ASSUME NEW u \in Adders, AddInsert(u) PROVE FALSE
        <3>1. u \in Threads /\ pc[u] = "insert"
            BY <2>2 DEF AddInsert, Threads
        <3>2. job[u].var # x
            BY <1>1, <2>0, <2>1, <3>1 DEF SetInv, LockInv, Adding
        <3> QED
            BY <2>0, <2>2, <3>2 DEF AddInsert, TypeOK
    <2>3. ASSUME NEW u \in Adders, NEW y \in Vars, NEW k \in Ids, DelListener(u, y, k) PROVE FALSE
        BY <2>0, <2>1, <2>3 DEF DelListener, Unlocked, TypeOK
    <2>4. ASSUME NEW u \in Clearers, NEW y \in Vars, ClearListener(u, y)
          PROVE  m_cbs'[x] = [k \in Ids |-> None]
        BY <2>0, <2>4 DEF ClearListener, TypeOK
    <2>5. CASE UNCHANGED m_cbs
        BY <2>5
    <2> QED
        BY <1>1, <2>2, <2>3, <2>4, <2>5
        DEF Next, SetStep, AddStep, SetBegin, Notify, NotifyBlock, NotifyThrow, NotifyEnd,
            DanglingEnd, SetWrite, AddLock, AddIncrement, AddReturn, vars
<1>2. SetInv /\ [Next]_vars => [A]_vars
    BY <1>1
<1> QED
    BY <1>2, SetInit, SetStepInv, PTL DEF Spec, IterationStable

-----------------------------------------------------------------------------
(* The ids of listeners.                                                   *)

\* A set of callbacks is finite.
LEMMA UsedFinite == IsFiniteSet(Used) /\ Cardinality(Used) \in Nat
                    /\ Cardinality(Used) <= Cardinality(Listeners)
<1>1. Used \in SUBSET Listeners /\ IsFiniteSet(Listeners)
    BY ConfigVarAssumption DEF Used
<1> QED
    BY <1>1, FS_Subset, FS_CardinalityType

\* The counter is never ahead of the callbacks that took an id from it, also
\* where two variables share it: a lost increment only makes it smaller.
LEMMA FitStep == SetInv /\ SetInv' /\ FitInv /\ [Next]_vars => FitInv'
<1> SUFFICES ASSUME SetInv, SetInv', FitInv, [Next]_vars PROVE FitInv'
    OBVIOUS
<1>0. TypeOK /\ TypeOK' /\ Cardinality(Used) \in Nat
    BY UsedFinite DEF SetInv
<1>a. Setters \subseteq Threads /\ Adders \subseteq Threads /\ Clearers \subseteq Threads
    BY DEF Threads
<1> USE DEF listenVars, setVars
\* A step that takes no id.
<1>1. ASSUME UNCHANGED <<s_fun_id, id>>,
             \A u \in Threads :
                \/ pc[u] = pc'[u] /\ job[u].arg = job'[u].arg /\ (pc[u] = "add" => job'[u].at = job[u].at)
                \/ /\ pc[u] \notin {"insert", "added"} /\ pc'[u] \notin {"insert", "added"}
                   /\ pc'[u] = "add" => job'[u].at <= s_fun_id
                \/ pc[u] = "insert" /\ pc'[u] = "added" /\ job[u].arg = job'[u].arg
      PROVE  FitInv'
    <2>1. Used' = Used
        BY <1>1 DEF Used
    <2>2. ASSUME NEW u \in Threads, pc'[u] = "add" PROVE job'[u].at <= Cardinality(Used)
        <3>1. job'[u].at \in Nat /\ s_fun_id \in Nat
            BY <1>0 DEF TypeOK
        <3> QED
            BY <1>0, <1>1, <2>2, <3>1 DEF FitInv
    <2> QED
        BY <1>1, <2>1, <2>2 DEF FitInv
<1>2. ASSUME NEW t \in Setters, NEW x \in Vars, NEW v \in Values, SetBegin(t, x, v) PROVE FitInv'
    BY <1>0, <1>1, <1>2, <1>a DEF SetBegin, TypeOK
<1>3. ASSUME NEW t \in Setters, Notify(t) PROVE FitInv'
    BY <1>0, <1>1, <1>3, <1>a DEF Notify, TypeOK
<1>4. ASSUME NEW t \in Setters,
             NotifyBlock(t) \/ NotifyThrow(t) \/ NotifyEnd(t) \/ DanglingEnd(t) \/ SetWrite(t)
      PROVE  FitInv'
    BY <1>0, <1>1, <1>4, <1>a
    DEF NotifyBlock, NotifyThrow, NotifyEnd, DanglingEnd, SetWrite, TypeOK
<1>5. ASSUME NEW t \in Adders, NEW x \in Vars, NEW l \in Listeners, AddLock(t, x, l) PROVE FitInv'
    BY <1>0, <1>1, <1>5, <1>a DEF AddLock, TypeOK
<1>6. ASSUME NEW t \in Adders, AddInsert(t) PROVE FitInv'
    BY <1>0, <1>1, <1>6, <1>a DEF AddInsert, TypeOK
<1>7. ASSUME NEW t \in Adders, NEW x \in Vars, NEW k \in Ids, DelListener(t, x, k) PROVE FitInv'
    BY <1>1, <1>7 DEF DelListener
<1>8. ASSUME NEW t \in Clearers, NEW x \in Vars, ClearListener(t, x) PROVE FitInv'
    BY <1>0, <1>1, <1>8 DEF ClearListener, TypeOK
<1>9. CASE UNCHANGED vars
    BY <1>1, <1>9 DEF vars
\* The callback of the increment is counted with it.
<1>10. ASSUME NEW t \in Adders, AddIncrement(t) PROVE FitInv'
    <2>1. PICK l : l = job[t].arg
        OBVIOUS
    <2>2. /\ pc[t] = "add" /\ pc'[t] = "insert" /\ UNCHANGED <<job, id>>
          /\ \A u \in Threads : u # t => pc'[u] = pc[u]
          /\ s_fun_id' = job[t].at + 1 /\ job[t].at \in Nat /\ l \in Listeners
        BY <1>0, <1>10, <1>a, <2>1 DEF AddIncrement, TypeOK, Adding
    <2>3. Used' = Used \union {l}
        BY <1>a, <2>1, <2>2 DEF Used
    <2>4. l \notin Used
        BY <1>a, <2>1, <2>2 DEF Used, SetInv, FreshInv, Adding
    <2>5. Cardinality(Used') = Cardinality(Used) + 1
        BY <2>3, <2>4, UsedFinite, FS_AddElement
    <2>6. job[t].at <= Cardinality(Used)
        BY <1>a, <2>2 DEF FitInv
    <2>7. ASSUME NEW u \in Threads, pc'[u] = "add" PROVE job'[u].at <= Cardinality(Used')
        <3>1. job[u].at \in Nat /\ job[u].at <= Cardinality(Used)
            BY <1>0, <2>2, <2>7 DEF FitInv, TypeOK
        <3> QED
            BY <1>0, <2>2, <2>5, <3>1
    <2>8. s_fun_id' <= Cardinality(Used') /\ s_fun_id' > 0
        BY <1>0, <2>2, <2>5, <2>6
    <2> QED
        BY <2>7, <2>8 DEF FitInv
<1>11. ASSUME NEW t \in Adders, AddReturn(t) PROVE FitInv'
    <2>1. PICK l : l = job[t].arg
        OBVIOUS
    <2>2. /\ pc[t] = "added" /\ pc'[t] = "idle" /\ UNCHANGED s_fun_id /\ l \in Listeners
          /\ \A u \in Threads : u # t => pc'[u] = pc[u] /\ job'[u] = job[u]
          /\ \A m \in Listeners : m # l => id'[m] = id[m]
        BY <1>0, <1>11, <1>a, <2>1 DEF AddReturn, TypeOK, Adding
    <2>3. id'[l] # None
        <3>1. id'[l] = <<job[t].var, s_fun_id>> /\ job[t].var \in Vars /\ s_fun_id \in Nat
            BY <1>0, <1>11, <1>a, <2>1, <2>2 DEF AddReturn, TypeOK
        <3> QED
            BY <3>1, ConfigVarAssumption
    <2>4. Used' = Used
        BY <1>a, <2>1, <2>2, <2>3 DEF Used
    <2> QED
        BY <1>a, <2>2, <2>4 DEF FitInv
<1> QED
    BY <1>2, <1>3, <1>4, <1>5, <1>6, <1>7, <1>8, <1>9, <1>10, <1>11
    DEF Next, SetStep, AddStep

\* Every id that addListener puts a callback under, or returns, is one of Ids:
\* the map of the model is wide enough for any number of listeners.
THEOREM IdsFit == Spec => [](\A t \in Threads : pc[t] \in {"insert", "added"} => s_fun_id \in Ids)
<1>1. Init => FitInv
    <2> SUFFICES ASSUME Init PROVE FitInv
        OBVIOUS
    <2>1. s_fun_id <= Cardinality(Used)
        BY UsedFinite DEF Init
    <2> QED
        BY <2>1 DEF Init, FitInv
<1>2. SetInv /\ FitInv => \A t \in Threads : pc[t] \in {"insert", "added"} => s_fun_id \in Ids
    <2> SUFFICES ASSUME SetInv, FitInv, NEW t \in Threads, pc[t] \in {"insert", "added"}
                 PROVE  s_fun_id \in Ids
        OBVIOUS
    <2>1. s_fun_id \in Nat /\ s_fun_id > 0 /\ s_fun_id <= Cardinality(Used)
        BY DEF SetInv, TypeOK, FitInv
    <2>2. Cardinality(Listeners) \in Nat
        BY FS_CardinalityType, ConfigVarAssumption
    <2> QED
        BY <2>1, <2>2, UsedFinite DEF Ids
<1> QED
    BY <1>1, <1>2, SetInit, SetStepInv, FitStep, PTL DEF Spec

\* With one variable of the type, its write lock covers the counter: at most
\* one thread is inside addListener.
LEMMA OneAdder ==
    ASSUME OneVar, SetInv, NEW t \in Threads, NEW u \in Threads,
           pc[t] \in Adding, pc[u] \in Adding
    PROVE  t = u
<1>1. job[t].var \in Vars /\ job[u].var \in Vars
    BY DEF SetInv, TypeOK, Adding
<1>2. job[t].var = job[u].var
    BY <1>1 DEF OneVar
<1> QED
    BY <1>2 DEF SetInv, LockInv

\* Every step keeps the ids exact: one case per action that touches them.
LEMMA IdStep ==
    ASSUME OneVar, SetInv, SetInv', IdInv, [Next]_vars
    PROVE  IdInv'
<1>0. TypeOK /\ TypeOK'
    BY DEF SetInv
<1>a. Setters \subseteq Threads /\ Adders \subseteq Threads /\ Clearers \subseteq Threads
    BY DEF Threads
<1>b. /\ \A x \in Vars, k \in Ids : m_cbs[x][k] \in Listeners \union {None}
      /\ \A l \in Listeners : id[l] # None => id[l][1] \in Vars /\ id[l][2] \in Nat /\ id[l] = <<id[l][1], id[l][2]>>
      /\ s_fun_id \in Nat /\ None \notin Listeners
    <2>1. \A l \in Listeners : id[l] \in (Vars \X Nat) \union {None}
        BY <1>0 DEF TypeOK
    <2> QED
        BY <1>0, <2>1, ConfigVarAssumption DEF TypeOK
<1> USE DEF listenVars, setVars
\* A step that puts no callback into the map and gives no id.
<1>1. ASSUME UNCHANGED <<s_fun_id, id>>,
             \A x \in Vars, k \in Ids : m_cbs'[x][k] \in {m_cbs[x][k], None},
             \A u \in Threads :
                \/ pc[u] = pc'[u] /\ (pc[u] = "add" => job'[u].at = job[u].at)
                \/ pc'[u] \notin Adding
                \/ pc'[u] = "add" /\ job'[u].at = s_fun_id
      PROVE  IdInv'
    BY <1>1 DEF IdInv, Adding
<1>2. ASSUME NEW t \in Setters, NEW x \in Vars, NEW v \in Values, SetBegin(t, x, v) PROVE IdInv'
    BY <1>0, <1>1, <1>2, <1>a DEF SetBegin, TypeOK, Adding
<1>3. ASSUME NEW t \in Setters, Notify(t) PROVE IdInv'
    BY <1>0, <1>1, <1>3, <1>a DEF Notify, TypeOK
<1>4. ASSUME NEW t \in Setters,
             NotifyBlock(t) \/ NotifyThrow(t) \/ NotifyEnd(t) \/ DanglingEnd(t) \/ SetWrite(t)
      PROVE  IdInv'
    BY <1>0, <1>1, <1>4, <1>a
    DEF NotifyBlock, NotifyThrow, NotifyEnd, DanglingEnd, SetWrite, TypeOK, Adding
<1>5. ASSUME NEW t \in Adders, NEW x \in Vars, NEW l \in Listeners, AddLock(t, x, l) PROVE IdInv'
    BY <1>0, <1>1, <1>5, <1>a DEF AddLock, TypeOK
<1>6. ASSUME NEW t \in Adders, NEW x \in Vars, NEW k \in Ids, DelListener(t, x, k) PROVE IdInv'
    BY <1>0, <1>1, <1>6 DEF DelListener, TypeOK
<1>7. ASSUME NEW t \in Clearers, NEW x \in Vars, ClearListener(t, x) PROVE IdInv'
    BY <1>0, <1>1, <1>7 DEF ClearListener, TypeOK, Adding
<1>8. CASE UNCHANGED vars
    BY <1>1, <1>8 DEF vars
<1>9. ASSUME NEW t \in Adders, AddIncrement(t) PROVE IdInv'
    <2>1. /\ pc[t] = "add" /\ pc'[t] = "insert" /\ UNCHANGED <<m_cbs, id, job>>
          /\ \A u \in Threads : u # t => pc'[u] = pc[u]
          /\ s_fun_id' = s_fun_id + 1
        BY <1>0, <1>9, <1>a DEF AddIncrement, TypeOK, IdInv
    <2>2. \A u \in Threads : u # t => pc[u] \notin Adding
        BY <1>a, <2>1, OneAdder DEF Adding
    <2>3. \A x \in Vars, k \in Ids : m_cbs[x][k] # None => id[m_cbs[x][k]] # None
        BY <2>1, <2>2 DEF SetInv, FreshInv, Adding
    <2>4. \A l \in Listeners : id[l] # None => id[l][2] < s_fun_id'
        BY <1>b, <2>1 DEF IdInv
    <2>5. \A l \in Listeners : id[l] # None => id[l][2] <= s_fun_id'
        BY <1>b, <2>1, <2>4
    <2> QED
        BY <1>a, <2>1, <2>2, <2>3, <2>4, <2>5 DEF IdInv, Adding
\* The callback goes under the id that nobody has.
<1>10. ASSUME NEW t \in Adders, AddInsert(t) PROVE IdInv'
    <2>1. /\ pc[t] = "insert" /\ pc'[t] = "added" /\ UNCHANGED <<s_fun_id, id, job>>
          /\ \A u \in Threads : u # t => pc'[u] = pc[u]
          /\ \A y \in Vars, k \in Ids :
                \/ m_cbs'[y][k] = m_cbs[y][k]
                \/ k = s_fun_id /\ m_cbs'[y][k] = job[t].arg
        BY <1>0, <1>10, <1>a DEF AddInsert, TypeOK
    <2>2. id[job[t].arg] = None
        BY <1>a, <2>1 DEF SetInv, FreshInv, Adding
    <2> QED
        BY <1>a, <2>1, <2>2 DEF IdInv
<1>11. ASSUME NEW t \in Adders, AddReturn(t) PROVE IdInv'
    <2>1. PICK l : l = job[t].arg
        OBVIOUS
    <2>2. PICK z : z = job[t].var
        OBVIOUS
    <2>3. /\ pc[t] = "added" /\ pc'[t] = "idle" /\ UNCHANGED <<s_fun_id, m_cbs>>
          /\ l \in Listeners /\ z \in Vars
          /\ \A u \in Threads : u # t => pc'[u] = pc[u] /\ job'[u] = job[u]
          /\ id'[l] = <<z, s_fun_id>> /\ \A m \in Listeners : m # l => id'[m] = id[m]
        BY <1>0, <1>11, <1>a, <2>1, <2>2 DEF AddReturn, TypeOK, Adding
    <2>4. \A u \in Threads : pc'[u] \notin Adding
        BY <1>a, <2>3, OneAdder DEF Adding
    <2>5. id[l] = None /\ id'[l] # None
        <3>1. id[l] = None
            BY <1>a, <2>1, <2>3 DEF SetInv, FreshInv, Adding
        <3> QED
            BY <1>b, <2>3, <3>1, ConfigVarAssumption
    <2>6. \A m \in Listeners : m # l /\ id[m] # None => id[m][2] < s_fun_id
        BY <1>a, <2>3 DEF IdInv
    <2>7. \A m \in Listeners : id'[m] # None => id'[m][2] <= s_fun_id
        BY <1>b, <2>3, <2>6
    <2>8. \A x \in Vars, k \in Ids : m_cbs[x][k] # None =>
            id'[m_cbs[x][k]] # None /\ id'[m_cbs[x][k]] = <<x, k>>
        <3> SUFFICES ASSUME NEW x \in Vars, NEW k \in Ids, m_cbs[x][k] # None
                     PROVE  id'[m_cbs[x][k]] # None /\ id'[m_cbs[x][k]] = <<x, k>>
            OBVIOUS
        <3>1. CASE m_cbs[x][k] = l
            <4>1. k = s_fun_id /\ x = z
                BY <2>3, <2>5, <3>1 DEF IdInv, OneVar
            <4> QED
                BY <2>3, <2>5, <3>1, <4>1
        <3>2. CASE m_cbs[x][k] # l
            <4>1. id[m_cbs[x][k]] # None
                BY <1>a, <2>1, <2>3, <3>2, OneAdder DEF SetInv, FreshInv, Adding
            <4> QED
                BY <1>b, <2>3, <3>2, <4>1 DEF IdInv
        <3> QED
            BY <3>1, <3>2
    <2>9. ASSUME NEW m \in Listeners, NEW n \in Listeners, id'[m] # None, id'[m] = id'[n]
          PROVE  m = n
        <3>1. \A i \in Listeners : i # l /\ id[i] # None => id[i] # <<z, s_fun_id>>
            BY <1>b, <2>6
        <3> QED
            BY <2>3, <2>9, <3>1 DEF IdInv
    <2> QED
        BY <2>3, <2>4, <2>7, <2>8, <2>9 DEF IdInv, Adding
<1> QED
    BY <1>2, <1>3, <1>4, <1>5, <1>6, <1>7, <1>8, <1>9, <1>10, <1>11
    DEF Next, SetStep, AddStep

\* With one ConfigVar of its type, addListener gives every callback an id of
\* its own and stores the callback under it, whatever other threads do.
THEOREM ListenerIdsUnique ==
    ASSUME OneVar
    PROVE  Spec => []IdsUnique
<1>1. Init => IdInv
    BY DEF Init, IdInv
<1>2. IdInv => IdsUnique
    BY DEF IdInv, IdsUnique
<1>3. SetInv /\ SetInv' /\ IdInv /\ [Next]_vars => IdInv'
    BY IdStep
<1> QED
    BY <1>1, <1>2, <1>3, SetInit, SetStepInv, PTL DEF Spec

=============================================================================
