-------------------------- MODULE LifecycleRunner --------------------------
(***************************************************************************)
(* pkg/runner/lifecycle.go: the goroutine in Run waits for its context and *)
(* stops; Stop, called by another goroutine, cancels and stops; whichever  *)
(* comes first drains, with a timeout, and runs the OnStop hook, while the *)
(* other waits for it.  Run replaces the context it was built with by one  *)
(* derived from its caller's, without a lock, so Stop may cancel the one   *)
(* Run is about to throw away.                                             *)
(***************************************************************************)
EXTENDS Naturals

VARIABLES
  state,      \* the atomic state
  replaced,   \* Run has replaced ctx and cancel
  cancelled,  \* of the contexts "built" and "run", those Stop has cancelled
  parentDone, \* the context given to Run is cancelled
  run, stop,  \* where Run and Stop are
  once,       \* the sync.Once of stop(): nobody, "run" or "stop" inside, or done
  drain       \* the goroutine that drains: "none", "draining", "drained"

runnerVars == <<state, replaced, cancelled, parentDone, run, stop, once, drain>>

RunnerInit ==
  /\ state = "new"
  /\ replaced = FALSE /\ cancelled = {} /\ parentDone = FALSE
  /\ run = "uncalled" /\ stop = "uncalled"
  /\ once = "nobody" /\ drain = "none"

(* A mutant: only the context the runner was built with is looked at. *)
ContextDone_Built == "built" \in cancelled

ContextDone == IF replaced THEN parentDone \/ "run" \in cancelled ELSE "built" \in cancelled

(* The caller's context ends: a signal, in the examples. *)
ParentCancel ==
  /\ ~parentDone
  /\ parentDone' = TRUE
  /\ UNCHANGED <<state, replaced, cancelled, run, stop, once, drain>>

-----------------------------------------------------------------------------
(* Run: the compare-and-swap, the context, then OnStart (which only logs)    *)
(* and the running state, then the wait.                                     *)
RunBegin ==
  /\ run = "uncalled"
  /\ IF state = "new"
       THEN state' = "starting" /\ run' = "starting"
       ELSE run' = "returned" /\ UNCHANGED state
  /\ UNCHANGED <<replaced, cancelled, parentDone, stop, once, drain>>

RunReplaceContext ==
  /\ run = "starting"
  /\ replaced' = TRUE
  /\ run' = "started"
  /\ UNCHANGED <<state, cancelled, parentDone, stop, once, drain>>

RunSetRunning ==
  /\ run = "started"
  /\ state' = "running"
  /\ run' = "waiting"
  /\ UNCHANGED <<replaced, cancelled, parentDone, stop, once, drain>>

RunWakes ==
  /\ run = "waiting"
  /\ ContextDone
  /\ run' = "stopping"
  /\ UNCHANGED <<state, replaced, cancelled, parentDone, stop, once, drain>>

(* Stop cancels whichever context it finds. *)
StopCancel ==
  /\ stop = "uncalled"
  /\ cancelled' = cancelled \cup {IF replaced THEN "run" ELSE "built"}
  /\ stop' = "stopping"
  /\ UNCHANGED <<state, replaced, parentDone, run, once, drain>>

-----------------------------------------------------------------------------
(* stop(), inside the Once: the drain starts in a goroutine of its own. *)
OnceEnter ==
  /\ once = "nobody"
  /\ \/ run = "stopping" /\ once' = "run"
     \/ stop = "stopping" /\ once' = "stop"
  /\ state' = "draining"
  /\ drain' = "draining"
  /\ UNCHANGED <<replaced, cancelled, parentDone, run, stop>>

(* The drain is done, or its 30 s are over; OnStop; stopped. *)
OnceLeave ==
  /\ once \in {"run", "stop"}
  /\ once' = "done"
  /\ state' = "stopped"
  /\ UNCHANGED <<replaced, cancelled, parentDone, run, stop, drain>>

StopReturns ==
  /\ once = "done"
  /\ \/ run = "stopping" /\ run' = "returned" /\ UNCHANGED stop
     \/ stop = "stopping" /\ stop' = "returned" /\ UNCHANGED run
  /\ UNCHANGED <<state, replaced, cancelled, parentDone, once, drain>>

(* The Drainer returns. *)
Drained ==
  /\ drain = "draining"
  /\ drain' = "drained"
  /\ UNCHANGED <<state, replaced, cancelled, parentDone, run, stop, once>>

RunnerStep ==
  RunReplaceContext \/ RunSetRunning \/ RunWakes \/ OnceEnter \/ OnceLeave \/ StopReturns

-----------------------------------------------------------------------------
RunnerTypeOK ==
  /\ state \in {"new", "starting", "running", "draining", "stopped"}
  /\ replaced \in BOOLEAN /\ parentDone \in BOOLEAN
  /\ cancelled \subseteq {"built", "run"}
  /\ run \in {"uncalled", "starting", "started", "waiting", "stopping", "returned"}
  /\ stop \in {"uncalled", "stopping", "returned"}
  /\ once \in {"nobody", "run", "stop", "done"}
  /\ drain \in {"none", "draining", "drained"}

(* Stop comes back, and so does Run once the runner has stopped, unless Stop *)
(* cancelled the context Run had still to replace: then Run waits on one     *)
(* that only its caller can cancel.                                          *)
EveryoneReturns ==
  /\ (stop = "stopping") ~> (stop = "returned")
  /\ (once = "done" /\ run # "uncalled") ~>
       (run = "returned" \/ (cancelled = {"built"} /\ replaced /\ ~parentDone))
=============================================================================
