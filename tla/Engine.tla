------------------------------- MODULE Engine -------------------------------
(***************************************************************************)
(* pkg/ranya/engine.go: routeTransport moves frames from the transport to  *)
(* the session of their call, which it creates on the first frame and      *)
(* removes at call_end; the drainer, run by the lifecycle runner, stops    *)
(* the transport and closes every session.  These two goroutines share the *)
(* registry, and the router shares recvCh with the transport's handlers.   *)
(***************************************************************************)
EXTENDS TwilioTransport, SessionRegistry, LifecycleRunner

CONSTANTS Router, Drainer   \* the goroutines that use the registry

ASSUME EngineAssumption == Router # Drainer /\ Workers = {Router, Drainer}

VARIABLES
  routing,  \* routeTransport: [pc, kind, call], the frame it has received
  drainer   \* the drainer's next step

engineVars == <<routing, drainer>>
vars == <<transportVars, registryVars, runnerVars, engineVars>>

NoFrameHeld == [pc |-> "receive", kind |-> "other", call |-> NoCall]

Init ==
  /\ TransportInit /\ RegistryInit /\ RunnerInit
  /\ routing = NoFrameHeld
  /\ drainer = "accepting"

-----------------------------------------------------------------------------
(* A frame without a call is skipped. *)
RouteReceive ==
  /\ routing.pc = "receive" /\ At(Router, "idle")
  /\ recvCh # <<>>
  /\ recvCh' = Tail(recvCh)
  /\ routing' = IF Head(recvCh).call = NoCall THEN routing
                ELSE [pc |-> "held", kind |-> Head(recvCh).kind, call |-> Head(recvCh).call]
  /\ UNCHANGED <<maps, connOpen, control, refused, ended, late, handler, callback, webhook,
                 events, registryVars, runnerVars, drainer>>

(* A mutant: call_end is skipped. *)
RouteCallEnd_Skips ==
  /\ routing.pc = "held" /\ routing.kind = "call_end"
  /\ routing' = NoFrameHeld
  /\ UNCHANGED <<transportVars, registryVars, runnerVars, drainer>>

RouteCallEnd ==
  /\ routing.pc = "held" /\ routing.kind = "call_end"
  /\ Remove(Router, routing.call)
  /\ routing' = NoFrameHeld
  /\ UNCHANGED <<transportVars, runnerVars, drainer>>

RouteFrame ==
  /\ routing.pc = "held" /\ routing.kind # "call_end"
  /\ Lookup(Router, routing.call)
  /\ routing' = [routing EXCEPT !.pc = "deliver"]
  /\ UNCHANGED <<transportVars, runnerVars, drainer>>

(* GetOrCreate has returned: the frame goes to the input channel of the      *)
(* session's orchestrator, without blocking, or nowhere after an error.      *)
RouteDeliver ==
  /\ routing.pc = "deliver" /\ At(Router, "idle")
  /\ routing' = NoFrameHeld
  /\ UNCHANGED <<transportVars, registryVars, runnerVars, drainer>>

RouteExit ==
  /\ routing.pc = "receive" /\ At(Router, "idle")
  /\ parentDone \/ (recvClosed /\ recvCh = <<>>)
  /\ routing' = [routing EXCEPT !.pc = "exited"]
  /\ UNCHANGED <<transportVars, registryVars, runnerVars, drainer>>

(* A goroutine inside the registry. *)
RegistryStep(w) ==
  /\ WorkerStep(w)
  /\ UNCHANGED <<transportVars, runnerVars, engineVars>>

Route == RouteReceive \/ RouteCallEnd \/ RouteFrame \/ RouteDeliver \/ RouteExit
           \/ RegistryStep(Router)

-----------------------------------------------------------------------------
(* The drainer: transport.Stop, CloseAll, then WaitForEmpty, which a timeout *)
(* ends too and whose result is ignored.                                     *)
DrainTransport ==
  /\ drain = "draining"
  /\ \/ drainer = "accepting" /\ StopAccepting /\ drainer' = "sessions"
     \/ drainer = "sessions" /\ StopSessions /\ drainer' = "channel"
     \/ drainer = "channel" /\ StopChannel /\ drainer' = "registry"
  /\ UNCHANGED <<registryVars, runnerVars, routing>>

DrainRegistry ==
  /\ drainer = "registry"
  /\ CloseAll(Drainer)
  /\ drainer' = "wait"
  /\ UNCHANGED <<transportVars, runnerVars, routing>>

DrainEnd ==
  /\ drainer = "wait" /\ At(Drainer, "idle")
  /\ Drained
  /\ drainer' = "done"
  /\ UNCHANGED <<transportVars, registryVars, routing>>

Drain == DrainTransport \/ DrainRegistry \/ DrainEnd \/ RegistryStep(Drainer)

(* Bound: connections come only while Run waits.  Its steps before that      *)
(* touch nothing a handler uses.                                             *)
Transport ==
  /\ \/ TransportNext
     \/ run = "waiting" /\ \E s \in Streams : Connect(s)
  /\ UNCHANGED <<registryVars, runnerVars, engineVars>>

(* Engine.Stop, and the end of the context given to Engine.Start. *)
Terminate ==
  /\ \/ Event("cancel") /\ ParentCancel
     \/ Event("stop") /\ StopCancel
  /\ UNCHANGED <<maps, connOpen, control, channel, handler, callback, webhook,
                 registryVars, engineVars>>

Runner ==
  /\ RunBegin \/ RunnerStep
  /\ UNCHANGED <<transportVars, registryVars, engineVars>>

Next == Transport \/ Route \/ Drain \/ Runner \/ Terminate

(* The engine's goroutines and the HTTP server's keep running; nobody has to *)
(* connect, to call a webhook, to stop the engine or to cancel its context,  *)
(* and a connection is sure to end only when we close it.  The events are    *)
(* finitely many, so no goroutine runs for ever, and one fairness condition  *)
(* on all of them is the same as one for each.                               *)
TransportRuns ==
  /\ \/ \E s \in Streams : HandlerStep(s) \/ (s \notin connOpen /\ ReadEnd(s))
     \/ CallbackStep
     \/ WebhookStep
  /\ UNCHANGED <<registryVars, runnerVars, engineVars>>

Fairness == WF_vars(TransportRuns \/ Route \/ Drain \/ Runner)

Spec == Init /\ [][Next]_vars /\ Fairness

-----------------------------------------------------------------------------
(* Types of the transport, the registry, the runner and the two loops. *)
TypeOK ==
  /\ TransportTypeOK /\ RegistryTypeOK /\ RunnerTypeOK
  /\ routing \in [pc : {"receive", "held", "deliver", "exited"}, kind : FrameKinds,
                  call : Calls \cup {NoCall}]
  /\ drainer \in {"accepting", "sessions", "channel", "registry", "wait", "done"}

(* Nothing of call c is left in the transport or on its way to the registry. *)
Quiet(c) ==
  /\ \A s \in Streams : CallOf[s] = c => HandlerAt(s, "none") \/ HandlerAt(s, "gone")
  /\ callback.call # c /\ webhook.call # c
  /\ \A i \in DOMAIN recvCh : recvCh[i].call # c
  /\ routing.call # c /\ At(Router, "idle")

(* A call that is over has no session any more, however it ended and however *)
(* often it reconnected, unless the engine is being stopped, or recvCh was   *)
(* full when a call_end of it came, or one of its frames was sent with a     *)
(* meta older than the stream's detach and created the session anew.         *)
EndedCallsAreRemoved ==
  \A c \in Calls : Quiet(c) /\ ~draining => c \notin Stored \/ c \in late \cup refused

(* A call_end that has reached recvCh removes the session, while the router  *)
(* runs: it is never stuck behind other frames or inside the registry.       *)
CallEndIsServed ==
  \A c \in Calls :
    (\E i \in DOMAIN recvCh : recvCh[i] = [kind |-> "call_end", call |-> c])
      ~> (c \notin Stored \/ parentDone)
=============================================================================
