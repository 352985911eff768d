---------------------------- MODULE Conversation ----------------------------
(***************************************************************************)
(* The LLM processor and the tool dispatcher of one call, as NewEngine     *)
(* connects them (pkg/ranya/engine.go): tool-call frames go down the       *)
(* pipeline to the dispatcher, results come back through its input.        *)
(***************************************************************************)
EXTENDS LLMConversation, ToolDispatcher

CONSTANTS
  ScopeOf(_),      \* the scope of a stream's frames: its call, as a rule
  AgentMetas,      \* bound: the agents that texts name, or NoAgent
  SystemNames,     \* bound: the system frames that come
  MaxCalls         \* bound: calls in one response

ASSUME ConversationAssumption ==
  /\ \A s \in Streams : ScopeOf(s) \in Scopes
  /\ AgentMetas \subseteq Agents \cup {NoAgent}

vars == <<llmVars, dispatcherVars>>

Init == LLMInit /\ DispatcherInit

(* A system frame, or a user's text and what the model makes of it. *)
SystemStep ==
  \E s \in Streams, note \in BOOLEAN, name \in SystemNames :
    /\ note \/ name # "other"
    /\ SystemFrame(ScopeOf(s), s, note, name)
    /\ UNCHANGED dispatcherVars

ReplyStep ==
  /\ \E s \in Streams : Confirm(s) \/ Cancel(s) \/ AskAgain(s)
  /\ UNCHANGED dispatcherVars

TextStep ==
  /\ \E s \in Streams, meta \in AgentMetas :
       \/ GenerateFails(ScopeOf(s), s, meta)
       \/ \E speaks \in BOOLEAN : Answer(ScopeOf(s), s, meta, speaks)
       \/ \E calls \in BoundedSeq(Calls, MaxCalls) : CallTools(ScopeOf(s), s, meta, calls)
  /\ UNCHANGED dispatcherVars

(* The next frame of the input, if it is a result. *)
ResultStep ==
  /\ in # <<>>
  /\ in' = Tail(in)
  /\ \E speaks \in BOOLEAN : ApplyToolResult(Head(in), ScopeOf(Head(in).stream), speaks)
  /\ UNCHANGED <<tasks, streamLock, worker, running, dispatched, started, results, lost>>

(* A tool-call frame has come down the pipeline. *)
DispatchStep ==
  /\ toDispatch # <<>>
  /\ toDispatch' = Tail(toDispatch)
  /\ Dispatch(Head(toDispatch))
  /\ UNCHANGED <<memory, activeAgent, pendingTools, pendingConfirms, called, prompted, consent, frames>>

ToolStep ==
  /\ \/ \E w \in Workers : WorkerStep(w)
     \/ \E a \in running, status \in Outcomes : ToolReturns(a, status)
  /\ UNCHANGED llmVars

Next == SystemStep \/ ReplyStep \/ TextStep \/ ResultStep \/ DispatchStep \/ ToolStep

(* Goroutines run on and timeouts expire; a tool need not return, and no     *)
(* frame has to come.  Frames, calls and attempts are finitely many, so one  *)
(* condition on all of these steps is the same as one for each.              *)
GoroutineStep == ResultStep \/ DispatchStep \/ ((\E w \in Workers : WorkerStep(w)) /\ UNCHANGED llmVars)

Spec == Init /\ [][Next]_vars /\ WF_vars(GoroutineStep)

-----------------------------------------------------------------------------
(* Types of the state of both.                                               *)
TypeOK == LLMTypeOK /\ DispatcherTypeOK

(* docs/en/tools-confirmation.md: timeout_ms prevents stuck tool calls.  A   *)
(* call that was emitted gets its result into the history, unless a full     *)
(* queue or input dropped it or the tool returned an empty text.             *)
Settled(c) ==
  \/ c \notin pendingTools
  \/ c \in lost
  \/ \E n \in DOMAIN results : results[n].id = c /\ results[n].status = "empty"

EveryCallIsAnswered == HasTimeout => \A c \in Calls : []<>Settled(c)
=============================================================================
