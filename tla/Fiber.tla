------------------------------- MODULE Fiber -------------------------------
(***************************************************************************)
(* The fibers of one thread (fiber.cc), below the scheduler: which code    *)
(* runs, what t_fiber says runs, and whose continuation each m_ctx holds.  *)
(*                                                                         *)
(* A machine context is abstracted to the fiber whose code it continues,   *)
(* or Fresh after makecontext, or Ended once its function is done.         *)
(* swapcontext(a, b) stores the code that runs in m_ctx of a and continues *)
(* what m_ctx of b holds, whether or not a is the fiber that runs.         *)
(***************************************************************************)
EXTENDS FiberState

CONSTANTS
    Children,    \* fibers constructed with use_caller = false
    Callers,     \* fibers constructed with use_caller = true
    Main,        \* the fiber the first GetThis of the thread makes
    SchedFiber,  \* Scheduler::GetMainFiber(): Main on a worker, the root fiber
                 \* on the caller's thread, None on a thread without scheduler
    Reused,      \* fibers that are reset for another function
    Nested,      \* code inside a fiber may swapIn another fiber
    Fresh, Ended,
    None

Made == Children \union Callers
All == Made \union {Main}

ASSUME FiberAssumption ==
    /\ Main \notin Made /\ Children \cap Callers = {}
    /\ SchedFiber \in Callers \union {Main, None}
    /\ Reused \subseteq Made /\ Nested \in BOOLEAN
    /\ None \notin All
    /\ Fresh \notin All /\ Ended \notin All
    /\ Fresh # Ended /\ None \notin State \union {"never reach", "null"}

VARIABLES
    m_state,   \* of each fiber, None while there is no such object
    m_ctx,     \* the code its context continues
    entry,     \* the function makecontext gave it
    t_fiber,   \* the thread-local pointer
    running,   \* history: the fiber whose code runs
    fault      \* history: how the thread went wrong, or None

vars == <<m_state, m_ctx, entry, t_fiber, running, fault>>

\* Main exists, and so does the root fiber the scheduler's constructor made.
Init ==
    /\ m_state = [f \in All |-> IF f = Main THEN "EXEC" ELSE IF f = SchedFiber THEN "INIT" ELSE None]
    /\ m_ctx = [f \in All |-> IF f = Main THEN Main ELSE IF f = SchedFiber THEN Fresh ELSE None]
    /\ entry = [f \in All |-> IF f \in Made /\ f = SchedFiber THEN "CallerMainFunc" ELSE None]
    /\ t_fiber = Main
    /\ running = Main
    /\ fault = None

Alive(f) == m_state[f] # None

\* swapcontext(&from->m_ctx, &to->m_ctx), which saves the continuation k.
SwapContext(from, to, k) ==
    LET saved == [m_ctx EXCEPT ![from] = k] IN
    /\ m_ctx' = saved
    /\ running' = IF saved[to] \in All THEN saved[to] ELSE to
    /\ fault' = IF saved[to] = Ended THEN "never reach" ELSE None
    /\ UNCHANGED entry

-----------------------------------------------------------------------------
(* Construction, reset and destruction, by the code that runs.             *)

New(f) ==
    /\ fault = None
    /\ ~Alive(f)
    /\ m_state' = [m_state EXCEPT ![f] = "INIT"]
    /\ m_ctx' = [m_ctx EXCEPT ![f] = Fresh]
    /\ entry' = [entry EXCEPT ![f] = IF f \in Callers THEN "CallerMainFunc" ELSE "MainFunc"]
    /\ UNCHANGED <<t_fiber, running, fault>>

\* reset: whatever it was constructed with, the fiber gets MainFunc.
Reset(f) ==
    /\ fault = None
    /\ f \in Reused /\ m_state[f] \in Resettable
    /\ m_state' = [m_state EXCEPT ![f] = "INIT"]
    /\ m_ctx' = [m_ctx EXCEPT ![f] = Fresh]
    /\ entry' = [entry EXCEPT ![f] = "MainFunc"]
    /\ UNCHANGED <<t_fiber, running, fault>>

\* ~Fiber of a fiber that owns a stack; its assertion is the caller's duty.
Delete(f) ==
    /\ fault = None
    /\ f # SchedFiber /\ m_state[f] \in Resettable
    /\ m_state' = [m_state EXCEPT ![f] = None]
    /\ m_ctx' = [m_ctx EXCEPT ![f] = None]
    /\ entry' = [entry EXCEPT ![f] = None]
    /\ UNCHANGED <<t_fiber, running, fault>>

\* The end of the thread destroys Main.  Its constructor left m_stack
\* uninitialised: a value other than null takes ~Fiber into the branch of
\* the other fibers, whose assertion fails on the state EXEC.
ThreadExit ==
    /\ fault = None /\ running = Main
    /\ fault' \in {"exit", "assert in ~Fiber"}
    /\ UNCHANGED <<m_state, m_ctx, entry, t_fiber, running>>

-----------------------------------------------------------------------------
(* Switches.                                                               *)

\* call: from the thread's main fiber, as fiber.h requires.  Neither call nor
\* Scheduler::stop, which calls it, tests whether the fiber has ended.
Call(f) ==
    /\ fault = None /\ running = Main
    /\ f \in Callers /\ Alive(f)
    /\ t_fiber' = f
    /\ m_state' = [m_state EXCEPT ![f] = "EXEC"]
    /\ SwapContext(Main, f, running)

\* back: by the fiber that runs.  Its state stays EXEC.
Back(f) ==
    /\ fault = None /\ running = f
    /\ f \in Callers
    /\ t_fiber' = Main
    /\ SwapContext(f, Main, running)
    /\ UNCHANGED m_state

\* Mutant of SwapIn: the context of the thread's main fiber is saved.
SwapInMain(f) ==
    /\ fault = None /\ SchedFiber # None
    /\ running = SchedFiber \/ Nested
    /\ f \in Children \ {running} /\ m_state[f] \in {"INIT"} \union Yielded
    /\ t_fiber' = f
    /\ m_state' = [m_state EXCEPT ![f] = "EXEC"]
    /\ SwapContext(Main, f, running)

\* Mutant of SwapIn: run() does not test for TERM and EXCEPT.
SwapInEnded(f) ==
    /\ fault = None /\ SchedFiber # None
    /\ running = SchedFiber \/ Nested
    /\ f \in Children \ {running} /\ m_state[f] \in State \ {"EXEC"}
    /\ t_fiber' = f
    /\ m_state' = [m_state EXCEPT ![f] = "EXEC"]
    /\ SwapContext(SchedFiber, f, running)

\* swapIn: by the scheduling loop, which runs as SchedFiber and has tested
\* that the fiber is not executing and has not ended (scheduler.cc); or by
\* the code of a fiber where Nested allows it.
SwapIn(f) ==
    /\ fault = None /\ SchedFiber # None
    /\ running = SchedFiber \/ Nested
    /\ f \in Children \ {running} /\ m_state[f] \in {"INIT"} \union Yielded
    /\ t_fiber' = f
    /\ m_state' = [m_state EXCEPT ![f] = "EXEC"]
    /\ SwapContext(SchedFiber, f, running)

\* Mutant of SwapOut: t_fiber keeps pointing to the fiber that is left.
SwapOutThis(f, k) ==
    /\ SchedFiber # None
    /\ SwapContext(f, SchedFiber, k)
    /\ UNCHANGED t_fiber

\* swapOut, shared by the two yields, Suspend and MainFunc.  Without a scheduler it
\* reads the context of a null pointer.
SwapOut(f, k) ==
    /\ t_fiber' = SchedFiber
    /\ \/ /\ SchedFiber # None
          /\ SwapContext(f, SchedFiber, k)
       \/ /\ SchedFiber = None
          /\ fault' = "null"
          /\ UNCHANGED <<m_ctx, running, entry>>

\* YieldToReady and YieldToHold, of the fiber t_fiber points to.
Yield(s) ==
    /\ fault = None /\ running \in Made \ {SchedFiber}
    /\ m_state[t_fiber] = "EXEC"
    /\ m_state' = [m_state EXCEPT ![t_fiber] = s]
    /\ SwapOut(t_fiber, running)

\* swapOut by itself: a body that waits for an event.  The state stays EXEC.
Suspend ==
    /\ fault = None /\ running \in Made \ {SchedFiber}
    /\ SwapOut(t_fiber, running)
    /\ UNCHANGED m_state

\* run() finds a fiber that came back in state EXEC, and stores HOLD.
Hold(f) ==
    /\ fault = None /\ running = SchedFiber
    /\ f \in Children /\ m_state[f] = "EXEC"
    /\ m_state' = [m_state EXCEPT ![f] = "HOLD"]
    /\ UNCHANGED <<m_ctx, entry, t_fiber, running, fault>>

\* The function returns or throws: the end of MainFunc or CallerMainFunc.
Finish(f, s) ==
    /\ fault = None /\ running = f
    /\ m_state' = [m_state EXCEPT ![f] = s]
    /\ \/ /\ entry[f] = "MainFunc"
          /\ SwapOut(f, Ended)
       \/ /\ entry[f] = "CallerMainFunc"
          /\ t_fiber' = Main
          /\ SwapContext(f, Main, Ended)

Next ==
    \/ \E f \in Made :
        \/ New(f) \/ Reset(f) \/ Delete(f)
        \/ Call(f) \/ Back(f) \/ SwapIn(f) \/ Hold(f)
        \/ \E s \in Finished : Finish(f, s)
    \/ \E s \in Yielded : Yield(s)
    \/ Suspend
    \/ ThreadExit

Spec == Init /\ [][Next]_vars

-----------------------------------------------------------------------------
(* Properties.                                                             *)

\* GetThis "returns the current fiber": t_fiber is the fiber whose code runs,
\* after every chain of call, swapIn, yield, back and end of a function.
ThisRuns == fault = None => t_fiber = running

\* No switch loses a fiber: the context of every fiber that was left before
\* its end continues the code of that fiber, never that of another one, and
\* only an ended one has a used-up context.
ContextKept ==
    fault = None => \A f \in All \ {running} :
        /\ m_state[f] \in {"READY", "HOLD", "EXEC"} => m_ctx[f] = f
        /\ m_state[f] = "INIT" => m_ctx[f] = Fresh
        /\ m_state[f] \in Finished => m_ctx[f] = Ended

\* No switch goes through a null pointer, and the `never reach' assertion
\* behind the last swapOut of MainFunc is never reached, whatever a fiber did
\* before.  That of CallerMainFunc is: call() resumes a fiber that has ended.
SwitchesSound ==
    /\ fault # "null"
    /\ fault = "never reach" => running \in Callers

=============================================================================
