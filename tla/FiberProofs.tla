----------------------------- MODULE FiberProofs -----------------------------
(***************************************************************************)
(* Proof that the context switches of a thread are sound for any number of *)
(* fibers, when they are used the way Scheduler uses them.                 *)
(***************************************************************************)
EXTENDS Fiber, TLAPS

\* How Scheduler uses fibers on a thread: it has a scheduling fiber; only that
\* fiber swaps others in; only fibers made without use_caller are reset; and
\* next to a root fiber there are no other use_caller fibers.
Scheduled ==
    /\ SchedFiber # None
    /\ ~Nested
    /\ Reused \subseteq Children
    /\ SchedFiber = Main \/ Callers = {SchedFiber}

FiberType ==
    /\ m_state \in [All -> State \union {None}]
    /\ m_ctx \in [All -> All \union {Fresh, Ended, None}]
    /\ entry \in [All -> {"MainFunc", "CallerMainFunc", None}]
    /\ running \in All
    /\ fault \in {None, "exit", "assert in ~Fiber", "never reach"}

\* The context of f holds what the state of f says.
OwnContext(f) ==
    /\ m_state[f] \in {"READY", "HOLD", "EXEC"} => m_ctx[f] = f
    /\ m_state[f] = "INIT" => m_ctx[f] = Fresh
    /\ m_state[f] \in Finished => m_ctx[f] = Ended

\* The inductive invariant: t_fiber is exact; Main, the fiber that runs and,
\* below a child, the scheduling fiber are in EXEC, so that their contexts
\* continue themselves; and a fiber ends in the function that leads back to
\* where it is resumed from.  Only a use_caller fiber is resumed after its end.
SwitchInv ==
    /\ t_fiber = running
    /\ m_state[Main] = "EXEC" /\ m_state[running] = "EXEC"
    /\ running \in Children => m_state[SchedFiber] = "EXEC"
    /\ \A f \in All \ {running} : OwnContext(f)
    /\ \A f \in Children : m_state[f] # None => entry[f] = "MainFunc"
    /\ \A f \in Callers : m_state[f] # None => entry[f] = "CallerMainFunc"
    /\ fault = "never reach" => running \in Callers

FiberInv == FiberType /\ SwitchInv

\* The invariant holds in the initial state.
LEMMA FiberInit == ASSUME Scheduled PROVE Init => FiberInv
<1> SUFFICES ASSUME Init PROVE FiberInv
    OBVIOUS
<1> USE FiberAssumption DEF Scheduled, Init, All, Made
<1>1. FiberType
    BY DEF FiberType, State
<1>2. \A f \in All \ {running} : /\ m_state[f] \in {"INIT", None}
                                  /\ m_state[f] = "INIT" => m_ctx[f] = Fresh
    BY DEF State
<1>3. \A f \in All \ {running} : OwnContext(f)
    BY <1>2 DEF OwnContext, Finished, State
<1>4. \A f \in Callers : m_state[f] # None => entry[f] = "CallerMainFunc"
    OBVIOUS
<1> QED BY <1>1, <1>3, <1>4 DEF FiberInv, SwitchInv

\* Every step preserves the invariant: one case per operation of fiber.cc.
\* For a switch, first where it leads, then what that leaves behind.
LEMMA FiberStep == ASSUME Scheduled PROVE FiberInv /\ [Next]_vars => FiberInv'
<1> SUFFICES ASSUME FiberInv, [Next]_vars PROVE FiberInv'
    OBVIOUS
<1> USE FiberAssumption DEF Scheduled, All, Made
<1>1. ASSUME NEW f \in Made, New(f) PROVE FiberInv'
    BY <1>1 DEF New, Alive, FiberInv, FiberType, SwitchInv, OwnContext, State, Finished
<1>2. ASSUME NEW f \in Made, Reset(f) PROVE FiberInv'
    BY <1>2 DEF Reset, FiberInv, FiberType, SwitchInv, OwnContext, State, Finished, Resettable
<1>3. ASSUME NEW f \in Made, Delete(f) PROVE FiberInv'
    BY <1>3 DEF Delete, FiberInv, FiberType, SwitchInv, OwnContext, State, Finished, Resettable
<1>4. ASSUME NEW f \in Made, Call(f) PROVE FiberInv'
    <2>1. /\ running = Main /\ f \in Callers /\ m_state[f] \in State
          /\ m_ctx[f] \in {f, Fresh, Ended} /\ f # Main
        BY <1>4 DEF Call, Alive, FiberInv, FiberType, SwitchInv, OwnContext, State, Finished
    <2>2. /\ m_state' = [m_state EXCEPT ![f] = "EXEC"]
          /\ m_ctx' = [m_ctx EXCEPT ![Main] = Main]
          /\ running' = f /\ t_fiber' = f /\ entry' = entry
          /\ fault' \in {None, "never reach"}
        BY <1>4, <2>1 DEF Call, SwapContext, FiberInv, FiberType
    <2>3. FiberType'
        BY <2>1, <2>2 DEF FiberInv, FiberType, State
    <2>4. SwitchInv'
        BY <2>1, <2>2 DEF FiberInv, FiberType, SwitchInv, OwnContext, State, Finished
    <2> QED BY <2>3, <2>4 DEF FiberInv
<1>5. ASSUME NEW f \in Made, Back(f) PROVE FiberInv'
    BY <1>5 DEF Back, SwapContext, FiberInv, FiberType, SwitchInv, OwnContext, State, Finished
<1>6. ASSUME NEW f \in Made, SwapIn(f) PROVE FiberInv'
    <2>1. /\ running = SchedFiber /\ f \in Children /\ m_state[f] \in {"INIT", "READY", "HOLD"}
          /\ m_ctx[f] \in {f, Fresh} /\ f # SchedFiber /\ SchedFiber \in All
        BY <1>6 DEF SwapIn, Yielded, FiberInv, FiberType, SwitchInv, OwnContext, State, Finished
    <2>2. /\ m_state' = [m_state EXCEPT ![f] = "EXEC"]
          /\ m_ctx' = [m_ctx EXCEPT ![SchedFiber] = SchedFiber]
          /\ running' = f /\ t_fiber' = f /\ fault' = None /\ entry' = entry
        BY <1>6, <2>1 DEF SwapIn, SwapContext, FiberInv, FiberType
    <2>3. FiberType'
        BY <2>1, <2>2 DEF FiberInv, FiberType, State
    <2>4. SwitchInv'
        BY <2>1, <2>2 DEF FiberInv, FiberType, SwitchInv, OwnContext, State, Finished
    <2> QED BY <2>3, <2>4 DEF FiberInv
<1>7. ASSUME NEW f \in Made, NEW s \in Finished, Finish(f, s) PROVE FiberInv'
    <2> DEFINE home == IF f \in Children THEN SchedFiber ELSE Main
    <2>1. /\ running = f /\ f # Main /\ m_state[f] = "EXEC"
          /\ home \in All /\ home # f /\ m_state[home] = "EXEC" /\ m_ctx[home] = home
          /\ home = Main \/ home \notin Children
        BY <1>7 DEF Finish, FiberInv, FiberType, SwitchInv, OwnContext, State
    <2>2. /\ m_state' = [m_state EXCEPT ![f] = s]
          /\ m_ctx' = [m_ctx EXCEPT ![f] = Ended]
          /\ running' = home /\ t_fiber' = home /\ fault' = None /\ entry' = entry
        BY <1>7, <2>1 DEF Finish, SwapOut, SwapContext, FiberInv, FiberType, SwitchInv, State
    <2> HIDE DEF home
    <2>3. FiberType'
        BY <2>1, <2>2 DEF FiberInv, FiberType, State, Finished
    <2>4. SwitchInv'
        BY <2>1, <2>2 DEF FiberInv, FiberType, SwitchInv, OwnContext, State, Finished
    <2> QED BY <2>3, <2>4 DEF FiberInv
<1>8. ASSUME NEW s \in Yielded, Yield(s) PROVE FiberInv'
    <2>1. /\ t_fiber = running /\ running \in Made /\ running # Main /\ running # SchedFiber
          /\ SchedFiber \in All /\ m_state[SchedFiber] = "EXEC" /\ m_ctx[SchedFiber] = SchedFiber
          /\ SchedFiber = Main \/ SchedFiber \notin Children
        BY <1>8 DEF Yield, FiberInv, FiberType, SwitchInv, OwnContext, State
    <2>2. /\ m_state' = [m_state EXCEPT ![running] = s]
          /\ m_ctx' = [m_ctx EXCEPT ![running] = running]
          /\ running' = SchedFiber /\ t_fiber' = SchedFiber /\ fault' = None /\ entry' = entry
        BY <1>8, <2>1 DEF Yield, SwapOut, SwapContext, FiberInv, FiberType
    <2>3. FiberType'
        BY <2>1, <2>2 DEF FiberInv, FiberType, State, Yielded
    <2>4. SwitchInv'
        BY <2>1, <2>2 DEF FiberInv, FiberType, SwitchInv, OwnContext, State, Finished, Yielded
    <2> QED BY <2>3, <2>4 DEF FiberInv
<1>9. CASE Suspend
    <2>1. /\ t_fiber = running /\ running \in Made /\ running # Main /\ running # SchedFiber
          /\ SchedFiber \in All /\ m_state[SchedFiber] = "EXEC" /\ m_ctx[SchedFiber] = SchedFiber
          /\ SchedFiber = Main \/ SchedFiber \notin Children
        BY <1>9 DEF Suspend, FiberInv, FiberType, SwitchInv, OwnContext, State
    <2>2. /\ m_state' = m_state /\ m_ctx' = [m_ctx EXCEPT ![running] = running]
          /\ running' = SchedFiber /\ t_fiber' = SchedFiber /\ fault' = None /\ entry' = entry
        BY <1>9, <2>1 DEF Suspend, SwapOut, SwapContext, FiberInv, FiberType
    <2>3. FiberType'
        BY <2>1, <2>2 DEF FiberInv, FiberType
    <2>4. SwitchInv'
        BY <2>1, <2>2 DEF FiberInv, FiberType, SwitchInv, OwnContext, State, Finished
    <2> QED BY <2>3, <2>4 DEF FiberInv
<1>10. ASSUME NEW f \in Made, Hold(f) PROVE FiberInv'
    <2>1. f \in Children /\ f # running /\ f # Main /\ f # SchedFiber /\ m_ctx[f] = f
        BY <1>10 DEF Hold, FiberInv, FiberType, SwitchInv, OwnContext, State
    <2> QED
        BY <1>10, <2>1 DEF Hold, FiberInv, FiberType, SwitchInv, OwnContext, State, Finished
<1>11. CASE ThreadExit
    BY <1>11 DEF ThreadExit, FiberInv, FiberType, SwitchInv, OwnContext
<1>12. CASE UNCHANGED vars
    BY <1>12 DEF vars, FiberInv, FiberType, SwitchInv, OwnContext
<1> QED BY <1>1, <1>2, <1>3, <1>4, <1>5, <1>6, <1>7, <1>8, <1>9, <1>10, <1>11, <1>12 DEF Next

\* On a thread with a scheduler GetThis always returns the fiber whose code
\* runs (fiber.cc, SetThis in call, back, swapIn and swapOut), for any number
\* of fibers.
THEOREM ThisIsRunning == ASSUME Scheduled PROVE Spec => []ThisRuns
<1>1. FiberInv => ThisRuns
    BY DEF FiberInv, SwitchInv, ThisRuns
<1> QED BY <1>1, FiberInit, FiberStep, PTL DEF Spec

\* No switch of a scheduled thread overwrites the continuation of a fiber that
\* is left, so that each one is resumed where it stopped.
THEOREM ContextsKept == ASSUME Scheduled PROVE Spec => []ContextKept
<1>1. FiberInv => ContextKept
    BY DEF FiberInv, SwitchInv, OwnContext, ContextKept
<1> QED BY <1>1, FiberInit, FiberStep, PTL DEF Spec

\* On a scheduled thread swapOut finds a scheduling fiber and the assertion
\* behind the last swapOut of MainFunc is not reached; only call() on a root
\* fiber that has ended, which nothing tests, runs into the other one.
THEOREM SwitchesAreSound == ASSUME Scheduled PROVE Spec => []SwitchesSound
<1>1. FiberInv => SwitchesSound
    BY FiberAssumption DEF FiberInv, FiberType, SwitchInv, SwitchesSound
<1> QED BY <1>1, FiberInit, FiberStep, PTL DEF Spec
=============================================================================
