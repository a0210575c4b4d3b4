----------------------------- MODULE FiberState -----------------------------
(***************************************************************************)
(* The life-cycle states of a Fiber object and the groups of states that   *)
(* the assertions of fiber.cc and the branches of Scheduler::run test for. *)
(***************************************************************************)

\* Fiber::State
State == {"INIT", "HOLD", "EXEC", "TERM", "READY", "EXCEPT"}

\* The body returned or threw: swapIn would resume a finished stack.
Finished == {"TERM", "EXCEPT"}

\* States in which Scheduler::run puts a fiber that came back into the queue.
Yielded == {"READY", "HOLD"}

\* LIONET_ASSERT of Fiber::reset and of ~Fiber on a fiber that owns a stack.
Resettable == {"TERM", "EXCEPT", "INIT"}
=============================================================================
