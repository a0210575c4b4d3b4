------------------------------- MODULE Locks -------------------------------
(***************************************************************************)
(* The locks of mutex.h and the guards through which the library uses      *)
(* them: ScopedLockImpl over Mutex, Spinlock and CASLock, and              *)
(* ReadScopedLockImpl and WriteScopedLockImpl over RWMutex.  A guard lives *)
(* on the stack of one thread, which may lock() and unlock() it as often   *)
(* as it likes before it is destroyed.                                     *)
(*                                                                         *)
(* The pthread locks and the atomic flag are external: a lock is a count   *)
(* of readers and a bit for a writer, and does not know who holds it.  A   *)
(* thread that waits is a step that is not enabled.                        *)
(***************************************************************************)
EXTENDS FiniteSets, Integers

CONSTANTS
    Guards,      \* guard objects, each of a thread of its own
    Mutexes,     \* objects of Mutex, Spinlock and CASLock
    RWMutexes    \* objects of RWMutex

ASSUME LocksAssumption ==
    IsFiniteSet(Guards) /\ Mutexes \cap RWMutexes = {}

LockObjects == Mutexes \union RWMutexes
Modes == {"read", "write"}

VARIABLES
    writer,      \* a lock is held for writing, or a mutex is held
    readers,     \* read locks held on it
    m_mutex_of,  \* the lock a guard refers to
    mode,        \* the kind of guard
    m_locked,    \* its flag
    guard        \* where its thread is in one of its functions

lockVars == <<writer, readers, m_mutex_of, mode, m_locked, guard>>

\* A guard that does not exist; "ready" is one inside none of its functions.
Places == {"none", "construct", "lock", "locked", "ready", "unlock", "unlocked",
           "destroy", "destroyed"}

LocksInit ==
    /\ writer = [l \in LockObjects |-> FALSE]
    /\ readers = [l \in LockObjects |-> 0]
    /\ m_mutex_of \in [Guards -> LockObjects]
    /\ mode = [g \in Guards |-> "write"]
    /\ m_locked = [g \in Guards |-> FALSE]
    /\ guard = [g \in Guards |-> "none"]

-----------------------------------------------------------------------------
(* The locks.                                                              *)

\* rdlock, wrlock, lock of a mutex, and the test-and-set of CASLock.
Lock(l, m) ==
    \/ /\ m = "read" /\ ~writer[l]
       /\ readers' = [readers EXCEPT ![l] = @ + 1]
       /\ UNCHANGED writer
    \/ /\ m = "write" /\ ~writer[l] /\ readers[l] = 0
       /\ writer' = [writer EXCEPT ![l] = TRUE]
       /\ UNCHANGED readers

\* unlock, which gives back what there is to give back.
Unlock(l) ==
    \/ /\ writer[l]
       /\ writer' = [writer EXCEPT ![l] = FALSE]
       /\ UNCHANGED readers
    \/ /\ ~writer[l]
       /\ readers' = [readers EXCEPT ![l] = IF @ > 0 THEN @ - 1 ELSE 0]
       /\ UNCHANGED writer

-----------------------------------------------------------------------------
(* The guards.                                                             *)

GuardAt(g, s) == guard' = [guard EXCEPT ![g] = s]

\* The constructor calls lock() of the mutex and leaves m_locked as it was
\* on the stack until then.
GuardConstruct(g, l, m, garbage) ==
    /\ guard[g] = "none"
    /\ l \in Mutexes => m = "write"
    /\ m_mutex_of' = [m_mutex_of EXCEPT ![g] = l]
    /\ mode' = [mode EXCEPT ![g] = m]
    /\ m_locked' = [m_locked EXCEPT ![g] = garbage]
    /\ GuardAt(g, "construct")
    /\ UNCHANGED <<writer, readers>>

\* lock() on a guard that is locked does nothing.
GuardLock(g) ==
    /\ guard[g] = "ready" /\ ~m_locked[g]
    /\ GuardAt(g, "lock")
    /\ UNCHANGED <<writer, readers, m_mutex_of, mode, m_locked>>

\* m_mutex.lock() returns ...
GuardAcquire(g) ==
    /\ guard[g] \in {"construct", "lock"}
    /\ Lock(m_mutex_of[g], mode[g])
    /\ GuardAt(g, "locked")
    /\ UNCHANGED <<m_mutex_of, mode, m_locked>>

\* ... and m_locked is set.
GuardSet(g) ==
    /\ guard[g] = "locked"
    /\ m_locked' = [m_locked EXCEPT ![g] = TRUE]
    /\ GuardAt(g, "ready")
    /\ UNCHANGED <<writer, readers, m_mutex_of, mode>>

\* Mutant of GuardUnlock: the flag is not tested.
GuardUnlockUntested(g, destructor) ==
    /\ guard[g] = "ready"
    /\ GuardAt(g, IF destructor THEN "destroy" ELSE "unlock")
    /\ UNCHANGED <<writer, readers, m_mutex_of, mode, m_locked>>

\* unlock(), by itself or in the destructor, does nothing on a guard that is
\* not locked.
GuardUnlock(g, destructor) ==
    /\ guard[g] = "ready"
    /\ m_locked[g] \/ destructor
    /\ GuardAt(g, IF m_locked[g] THEN IF destructor THEN "destroy" ELSE "unlock" ELSE "none")
    /\ UNCHANGED <<writer, readers, m_mutex_of, mode, m_locked>>

\* m_mutex.unlock() ...
GuardRelease(g) ==
    /\ guard[g] \in {"unlock", "destroy"}
    /\ Unlock(m_mutex_of[g])
    /\ GuardAt(g, IF guard[g] = "unlock" THEN "unlocked" ELSE "destroyed")
    /\ UNCHANGED <<m_mutex_of, mode, m_locked>>

\* ... and m_locked is cleared.
GuardClear(g) ==
    /\ guard[g] \in {"unlocked", "destroyed"}
    /\ m_locked' = [m_locked EXCEPT ![g] = FALSE]
    /\ GuardAt(g, IF guard[g] = "unlocked" THEN "ready" ELSE "none")
    /\ UNCHANGED <<writer, readers, m_mutex_of, mode>>

GuardStep(g) ==
    \/ \E l \in LockObjects, m \in Modes, garbage \in BOOLEAN : GuardConstruct(g, l, m, garbage)
    \/ GuardLock(g) \/ GuardAcquire(g) \/ GuardSet(g)
    \/ \E destructor \in BOOLEAN : GuardUnlock(g, destructor)
    \/ GuardRelease(g) \/ GuardClear(g)

LocksNext == \E g \in Guards : GuardStep(g)
LocksSpec == LocksInit /\ [][LocksNext]_lockVars

-----------------------------------------------------------------------------
(* Properties.                                                             *)

\* The thread of g has the lock: it is between lock() and unlock() of it.
Holds(g) ==
    \/ guard[g] \in {"locked", "unlock", "destroy"}
    \/ guard[g] = "ready" /\ m_locked[g]

\* Two guards have the same lock only if both are read guards, and a lock
\* that no guard has is free: however often its owner called lock() and
\* unlock() before the destructor, a guard gives back its own lock, once,
\* and never the one another guard has got in the meantime.
Exclusion ==
    /\ \A g, h \in Guards :
        g # h /\ Holds(g) /\ Holds(h) /\ m_mutex_of[g] = m_mutex_of[h]
            => mode[g] = "read" /\ mode[h] = "read"
    /\ \A l \in LockObjects :
        writer[l] \/ readers[l] > 0 => \E g \in Guards : Holds(g) /\ m_mutex_of[g] = l

\* What the proof of it needs: types, and what the two fields of a lock count.
LocksTypeOK ==
    /\ writer \in [LockObjects -> BOOLEAN]
    /\ readers \in [LockObjects -> Nat]
    /\ m_mutex_of \in [Guards -> LockObjects]
    /\ mode \in [Guards -> Modes]
    /\ m_locked \in [Guards -> BOOLEAN]
    /\ guard \in [Guards -> Places]

Holders(l, m) == {g \in Guards : Holds(g) /\ m_mutex_of[g] = l /\ mode[g] = m}

LocksInv ==
    /\ LocksTypeOK
    /\ \A l \in LockObjects :
        /\ readers[l] = Cardinality(Holders(l, "read"))
        /\ writer[l] <=> Holders(l, "write") # {}
        /\ writer[l] => readers[l] = 0
        /\ \A g, h \in Holders(l, "write") : g = h
=============================================================================
