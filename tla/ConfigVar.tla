------------------------------ MODULE ConfigVar ------------------------------
(***************************************************************************)
(* ConfigVar<T> of config.h: the value, its change listeners and the       *)
(* reader-writer lock around them, used by several threads.  The ConfigVar *)
(* objects in Vars have the same T and therefore share the static counter  *)
(* inside addListener, each under its own lock.                            *)
(*                                                                         *)
(* pthread_rwlock is external: any number of readers or one writer.  The   *)
(* shared counter is a plain integer: its increment is a read and a write, *)
(* and each later use of it reads it again.                                *)
(***************************************************************************)
EXTENDS Naturals, FiniteSets

CONSTANTS
    Vars,         \* ConfigVar objects of one type T
    Values,       \* values of T
    Default,      \* the value passed to the constructor
    Setters,      \* threads that call setValue (or fromString)
    Adders,       \* threads that call addListener and delListener
    Clearers,     \* threads that call clearListener
    Listeners,    \* the callbacks they register, each once
    Removing,     \* those that call delListener on the variable themselves
    Throwing,     \* callbacks may throw
    MaxSets,      \* bound: calls of setValue that change something
    None

Threads == Setters \union Adders \union Clearers
\* Enough ids for one per listener.
Ids == 1 .. Cardinality(Listeners)

ASSUME ConfigVarAssumption ==
    /\ Default \in Values /\ Throwing \in BOOLEAN /\ MaxSets \in Nat
    /\ IsFiniteSet(Listeners) /\ Removing \subseteq Listeners
    /\ None \notin Threads \union Values \union Listeners \union Vars \union (Vars \X Nat)

VARIABLES
    m_val,        \* of each variable
    m_cbs,        \* of each variable: the callback under each id
    readers,      \* threads with m_mutex of a variable locked for reading
    writer,       \* the thread with m_mutex of a variable locked for writing
    s_fun_id,     \* the static counter of addListener
    pc,           \* where a thread is
    job,          \* its call: variable, new value or callback, place reached
    told,         \* history: the callbacks its setValue has called
    since,        \* history: callbacks registered when its setValue began
    id,           \* where a callback was registered: variable and id returned
    sets          \* history: calls of setValue that changed something

vars == <<m_val, m_cbs, readers, writer, s_fun_id, pc, job, told, since, id, sets>>
listenVars == <<s_fun_id, id>>
setVars == <<told, since, sets>>

NoJob == [var |-> None, arg |-> None, at |-> 0]
Registered(x) == {m_cbs[x][k] : k \in Ids} \ {None}
Unlocked(x) == readers[x] = {} /\ writer[x] = None

Init ==
    /\ m_val = [x \in Vars |-> Default]
    /\ m_cbs = [x \in Vars |-> [k \in Ids |-> None]]
    /\ readers = [x \in Vars |-> {}]
    /\ writer = [x \in Vars |-> None]
    /\ s_fun_id = 0
    /\ pc = [t \in Threads |-> "idle"]
    /\ job = [t \in Threads |-> NoJob]
    /\ told = [t \in Threads |-> {}]
    /\ since = [t \in Threads |-> {}]
    /\ id = [l \in Listeners |-> None]
    /\ sets = 0

-----------------------------------------------------------------------------
(* setValue.  With the current value it returns under the read lock, a     *)
(* stuttering step.                                                        *)

SetBegin(t, x, v) ==
    /\ pc[t] = "idle" /\ sets < MaxSets
    /\ writer[x] = None
    /\ v # m_val[x]
    /\ readers' = [readers EXCEPT ![x] = @ \union {t}]
    /\ pc' = [pc EXCEPT ![t] = "notify"]
    /\ job' = [job EXCEPT ![t] = [var |-> x, arg |-> v, at |-> 0]]
    /\ told' = [told EXCEPT ![t] = {}]
    /\ since' = [since EXCEPT ![t] = Registered(x)]
    /\ sets' = sets + 1
    /\ UNCHANGED <<m_val, m_cbs, writer, listenVars>>

\* The loop over m_cbs stands before entry k.
NextId(t, k) ==
    /\ m_cbs[job[t].var][k] # None
    /\ k > job[t].at
    /\ \A j \in Ids : j > job[t].at /\ m_cbs[job[t].var][j] # None => j >= k

\* A callback is called with (m_val, v).
Notify(t) ==
    /\ pc[t] = "notify"
    /\ \E k \in Ids :
        /\ NextId(t, k) /\ m_cbs[job[t].var][k] \notin Removing
        /\ job' = [job EXCEPT ![t].at = k]
        /\ told' = [told EXCEPT ![t] = @ \union {m_cbs[job[t].var][k]}]
    /\ UNCHANGED <<m_val, m_cbs, readers, writer, pc, since, sets, listenVars>>

\* A callback calls delListener, addListener or setValue on the variable whose
\* setValue called it: it waits for the write lock until its own read lock is
\* gone, which is for ever.
NotifyBlock(t) ==
    /\ pc[t] = "notify"
    /\ \E k \in Ids : NextId(t, k) /\ m_cbs[job[t].var][k] \in Removing
    /\ pc' = [pc EXCEPT ![t] = "stuck"]
    /\ UNCHANGED <<m_val, m_cbs, readers, writer, job, listenVars, setVars>>

\* Mutant of NotifyThrow: the exception passes a lock that was taken by hand.
NotifyThrowLocked(t) ==
    /\ pc[t] = "notify" /\ Throwing
    /\ \E k \in Ids : NextId(t, k)
    /\ pc' = [pc EXCEPT ![t] = "idle"]
    /\ job' = [job EXCEPT ![t] = NoJob]
    /\ UNCHANGED <<m_val, m_cbs, readers, writer, listenVars, setVars>>

\* A callback throws: the read lock is released, m_val is not written.
NotifyThrow(t) ==
    /\ pc[t] = "notify" /\ Throwing
    /\ \E k \in Ids : NextId(t, k)
    /\ readers' = [readers EXCEPT ![job[t].var] = @ \ {t}]
    /\ pc' = [pc EXCEPT ![t] = "idle"]
    /\ job' = [job EXCEPT ![t] = NoJob]
    /\ UNCHANGED <<m_val, m_cbs, writer, listenVars, setVars>>

\* Mutant of NotifyEnd: the loop ends before the last callback.
NotifyEndEarly(t) ==
    /\ pc[t] = "notify"
    /\ Cardinality({k \in Ids : k > job[t].at /\ m_cbs[job[t].var][k] # None}) <= 1
    /\ readers' = [readers EXCEPT ![job[t].var] = @ \ {t}]
    /\ pc' = [pc EXCEPT ![t] = "write"]
    /\ UNCHANGED <<m_val, m_cbs, writer, job, listenVars, setVars>>

\* The end of the loop releases the read lock.
NotifyEnd(t) ==
    /\ pc[t] = "notify"
    /\ \A k \in Ids : ~NextId(t, k)
    /\ readers' = [readers EXCEPT ![job[t].var] = @ \ {t}]
    /\ pc' = [pc EXCEPT ![t] = "write"]
    /\ UNCHANGED <<m_val, m_cbs, writer, job, listenVars, setVars>>

\* The write lock is taken for the assignment alone.
SetWrite(t) ==
    /\ pc[t] = "write"
    /\ Unlocked(job[t].var)
    /\ m_val' = [m_val EXCEPT ![job[t].var] = job[t].arg]
    /\ pc' = [pc EXCEPT ![t] = "idle"]
    /\ job' = [job EXCEPT ![t] = NoJob]
    /\ UNCHANGED <<m_cbs, readers, writer, listenVars, setVars>>

-----------------------------------------------------------------------------
(* addListener, delListener, clearListener.                                *)

\* Mutant of AddLock: a read lock instead of a write lock.
AddLockShared(t, x, l) ==
    /\ pc[t] = "idle" /\ id[l] = None
    /\ \A u \in Threads : job[u].arg # l
    /\ writer[x] = None
    /\ writer' = [writer EXCEPT ![x] = t]
    /\ pc' = [pc EXCEPT ![t] = "add"]
    /\ job' = [job EXCEPT ![t] = [var |-> x, arg |-> l, at |-> s_fun_id]]
    /\ UNCHANGED <<m_val, m_cbs, readers, listenVars, setVars>>

\* The write lock, and the read half of ++s_fun_id.
AddLock(t, x, l) ==
    /\ pc[t] = "idle" /\ id[l] = None
    /\ \A u \in Threads : job[u].arg # l
    /\ Unlocked(x)
    /\ writer' = [writer EXCEPT ![x] = t]
    /\ pc' = [pc EXCEPT ![t] = "add"]
    /\ job' = [job EXCEPT ![t] = [var |-> x, arg |-> l, at |-> s_fun_id]]
    /\ UNCHANGED <<m_val, m_cbs, readers, listenVars, setVars>>

\* The write half of ++s_fun_id.
AddIncrement(t) ==
    /\ pc[t] = "add"
    /\ s_fun_id' = job[t].at + 1
    /\ pc' = [pc EXCEPT ![t] = "insert"]
    /\ UNCHANGED <<m_val, m_cbs, readers, writer, job, id, setVars>>

\* Mutant of AddInsert: the lock ends here, and the counter is returned after it.
AddInsertUnlocked(t) ==
    /\ pc[t] = "insert"
    /\ m_cbs' = [m_cbs EXCEPT ![job[t].var][s_fun_id] = job[t].arg]
    /\ writer' = [writer EXCEPT ![job[t].var] = None]
    /\ pc' = [pc EXCEPT ![t] = "added"]
    /\ UNCHANGED <<m_val, readers, job, listenVars, setVars>>

\* m_cbs[s_fun_id] = cb
AddInsert(t) ==
    /\ pc[t] = "insert"
    /\ m_cbs' = [m_cbs EXCEPT ![job[t].var][s_fun_id] = job[t].arg]
    /\ pc' = [pc EXCEPT ![t] = "added"]
    /\ UNCHANGED <<m_val, readers, writer, job, listenVars, setVars>>

\* return s_fun_id, and the end of the write lock.
AddReturn(t) ==
    /\ pc[t] = "added"
    /\ id' = [id EXCEPT ![job[t].arg] = <<job[t].var, s_fun_id>>]
    /\ writer' = [writer EXCEPT ![job[t].var] = None]
    /\ pc' = [pc EXCEPT ![t] = "idle"]
    /\ job' = [job EXCEPT ![t] = NoJob]
    /\ UNCHANGED <<m_val, m_cbs, readers, s_fun_id, setVars>>

\* delListener with an id addListener returned; an id that is not in the
\* map changes nothing.
DelListener(t, x, k) ==
    /\ pc[t] = "idle"
    /\ \E l \in Listeners : id[l] = <<x, k>>
    /\ Unlocked(x)
    /\ m_cbs[x][k] # None
    /\ m_cbs' = [m_cbs EXCEPT ![x][k] = None]
    /\ UNCHANGED <<m_val, readers, writer, pc, job, listenVars, setVars>>

\* clearListener changes the map under a read lock: it may destroy the entry
\* the loop of a setValue stands at.
ClearListener(t, x) ==
    /\ pc[t] = "idle"
    /\ writer[x] = None
    /\ Registered(x) # {}
    /\ m_cbs' = [m_cbs EXCEPT ![x] = [k \in Ids |-> None]]
    /\ pc' = [u \in Threads |->
                IF pc[u] = "notify" /\ job[u].var = x THEN "dangling" ELSE pc[u]]
    /\ UNCHANGED <<m_val, readers, writer, job, listenVars, setVars>>

\* A loop with a destroyed iterator is undefined behaviour.  Either it ends
\* the program (no further step) or what is left in the freed nodes lets it
\* call some of the removed callbacks and come to its end.
DanglingEnd(t) ==
    /\ pc[t] = "dangling"
    /\ \E L \in SUBSET since[t] : told' = [told EXCEPT ![t] = @ \union L]
    /\ readers' = [readers EXCEPT ![job[t].var] = @ \ {t}]
    /\ pc' = [pc EXCEPT ![t] = "write"]
    /\ UNCHANGED <<m_val, m_cbs, writer, job, since, sets, listenVars>>

-----------------------------------------------------------------------------
SetStep(t) ==
    Notify(t) \/ NotifyBlock(t) \/ NotifyThrow(t) \/ NotifyEnd(t) \/ DanglingEnd(t) \/ SetWrite(t)
AddStep(t) == AddIncrement(t) \/ AddInsert(t) \/ AddReturn(t)

Next ==
    \/ \E t \in Setters : SetStep(t) \/ \E x \in Vars, v \in Values : SetBegin(t, x, v)
    \/ \E t \in Adders :
        \/ \E x \in Vars, l \in Listeners : AddLock(t, x, l)
        \/ \E x \in Vars, k \in Ids : DelListener(t, x, k)
        \/ AddStep(t)
    \/ \E t \in Clearers, x \in Vars : ClearListener(t, x)

Spec == Init /\ [][Next]_vars

\* Threads inside a call go on; a lock that stays free is given to who waits.
FairSpec ==
    /\ Spec
    /\ \A t \in Setters : WF_vars(SetStep(t))
    /\ \A t \in Adders : WF_vars(AddStep(t))

-----------------------------------------------------------------------------
(* Properties.                                                             *)

\* A setValue about to store its value has called every callback that was
\* registered when it began and still is, whatever other threads added,
\* removed, cleared or set meanwhile.
ToldAll ==
    \A t \in Setters : pc[t] = "write" =>
        since[t] \cap Registered(job[t].var) \subseteq told[t]

\* No addListener or delListener changes m_cbs of a variable while the loop
\* of a setValue walks over it, which would leave that loop with a dead
\* iterator; clearListener, which empties the map under a read lock, does.
IterationStable ==
    [][\A x \in Vars :
        (\E t \in Setters : pc[t] = "notify" /\ job[t].var = x) =>
            m_cbs'[x] \in {m_cbs[x], [k \in Ids |-> None]}]_vars

\* "The unique id of the callback, used to remove it": no two callbacks of a
\* variable were given the same id, and a callback is in the map under the
\* id that addListener returned for it.
IdsUnique ==
    /\ \A l, m \in Listeners : id[l] # None /\ id[l] = id[m] => l = m
    /\ \A x \in Vars, k \in Ids :
        LET l == m_cbs[x][k] IN l # None /\ id[l] # None => id[l] = <<x, k>>

\* setValue returns although it goes from the read lock to the write lock
\* while others do the same, and callbacks throw: the one thing that stops it
\* is a callback of the same variable that waits for its own caller (or a
\* loop whose iterator clearListener destroyed).  Calls are bounded: readers
\* that come without end are not considered.
SetReturns ==
    \A t \in Setters, x \in Vars :
        (pc[t] # "idle" /\ job[t].var = x) ~>
            \/ pc[t] = "idle"
            \/ \E u \in Setters : pc[u] \in {"stuck", "dangling"} /\ job[u].var = x
=============================================================================
