-------------------------- MODULE LLMConversation --------------------------
(***************************************************************************)
(* pkg/processors/llm.go: the history of messages of each scope (a call,   *)
(* or a stream whose call is not known), what a user's text, a tool's      *)
(* result and a system frame do to it, and the confirmation of risky       *)
(* tools.  One goroutine calls Process, so a frame is one action; the      *)
(* model behind the adapter may answer anything or fail.                   *)
(*                                                                         *)
(* A message is its role, what it is of and how many words it counts.      *)
(* Languages, prompts' wording and the chunks of an answer are left out.   *)
(***************************************************************************)
EXTENDS ToolCalls

CONSTANTS
  Scopes, NoHistory,
  Confirmable,           \* the calls of tools that require confirmation
  SystemPrompt,          \* the processor has a system text
  Agents, NoAgent, DefaultAgent,
  WithSystem,            \* the agents that are known and have a system text
  MaxHistory, MaxTokens, \* 0: no limit
  SystemWords, UserWords, AssistantWords, ToolWords,
  MaxFrames              \* bound: frames of users and systems

Messages == Seq([role : {"system", "user", "assistant", "call", "tool"},
                 of : {"prompt", "note", "failure", "text"} \cup Agents \cup Calls, words : Nat])

ASSUME LLMAssumption ==
  /\ NoHistory \notin Messages
  /\ Confirmable \subseteq Calls
  /\ SystemPrompt \in BOOLEAN
  /\ NoAgent \notin Agents /\ DefaultAgent \in Agents \cup {NoAgent} /\ WithSystem \subseteq Agents
  /\ MaxHistory \in Nat /\ MaxTokens \in Nat /\ MaxFrames \in Nat
  /\ {SystemWords, UserWords, AssistantWords, ToolWords} \subseteq Nat

VARIABLES
  messages,         \* messagesByScope
  lastInjected,     \* by scope: the agent whose system text came last
  activeAgent,      \* by stream
  pendingTools,     \* calls without a result
  pendingConfirms,  \* by stream: the call that waits for a confirmation
  toDispatch        \* the tool-call frames on their way to the dispatcher

VARIABLES
  called,           \* history: the calls the model has made, which never repeat
  prompted,         \* history: by stream, the call the user was asked about last
  consent,          \* history: the calls to which a user said yes when asked
  frames            \* bound

memory == <<messages, lastInjected>>
toolVars == <<pendingTools, pendingConfirms, toDispatch, called, prompted, consent>>
llmVars == <<memory, activeAgent, toolVars, frames>>

LLMInit ==
  /\ messages = [sc \in Scopes |-> NoHistory]
  /\ lastInjected = [sc \in Scopes |-> NoAgent]
  /\ activeAgent = [s \in Streams |-> NoAgent]
  /\ pendingTools = {} /\ toDispatch = <<>>
  /\ pendingConfirms = [s \in Streams |-> NoCall]
  /\ called = {} /\ consent = {}
  /\ prompted = [s \in Streams |-> NoCall]
  /\ frames = 0

-----------------------------------------------------------------------------
(* Messages and their pruning.                                               *)
Message(role, of, words) == [role |-> role, of |-> of, words |-> words]
Prompt == Message("system", "prompt", SystemWords)
Note == Message("system", "note", SystemWords)
Failure == Message("system", "failure", SystemWords)
AgentPrompt(a) == Message("system", a, SystemWords)
User == Message("user", "text", UserWords)
Assistant == Message("assistant", "text", AssistantWords)

(* What a result adds: the call, as the assistant's message, and the tool's. *)
Answered(c) == <<Message("call", c, 0), Message("tool", c, ToolWords)>>

NonSystem(msgs) == {i \in DOMAIN msgs : msgs[i].role # "system"}

(* The place of an index among others, and the index at a place. *)
Place(S, i) == Cardinality({j \in S : j <= i})
IndexAt(S, n) == CHOOSE i \in S : Place(S, i) = n

Without(msgs, dropped) ==
  LET kept == DOMAIN msgs \ dropped
  IN [n \in 1 .. Cardinality(kept) |-> msgs[IndexAt(kept, n)]]

(* The first n messages that are not the system's are dropped. *)
DropFirst(msgs, n) ==
  LET others == NonSystem(msgs) IN Without(msgs, {i \in others : Place(others, i) <= n})

Tokens(msgs) == FoldSeq(LAMBDA m, n : m.words + n, 0, msgs)

PruneByHistory(msgs) ==
  IF MaxHistory = 0 \/ Cardinality(NonSystem(msgs)) <= MaxHistory THEN msgs
  ELSE DropFirst(msgs, Cardinality(NonSystem(msgs)) - MaxHistory)

(* As few as bring the number of tokens under the limit, or all of them. *)
PruneByTokens(msgs) ==
  IF MaxTokens = 0 THEN msgs
  ELSE LET fits == {n \in 0 .. Cardinality(NonSystem(msgs)) :
                      Tokens(DropFirst(msgs, n)) <= MaxTokens
                        \/ n = Cardinality(NonSystem(msgs))}
       IN DropFirst(msgs, CHOOSE n \in fits : \A m \in fits : n <= m)

Prune[msgs \in Messages] == PruneByTokens(PruneByHistory(msgs))

(* ensureMessages *)
Ensured(msgs) == IF msgs # NoHistory THEN msgs ELSE IF SystemPrompt THEN <<Prompt>> ELSE <<>>

(* appendSystem, appendAssistant and the rest: append, then prune. *)
Appended(msgs, more) == Prune[Ensured(msgs) \o more]

Remember(sc, msgs) == messages' = [messages EXCEPT ![sc] = msgs]

-----------------------------------------------------------------------------
(* System frames.                                                            *)

(* One may carry a system message, end the call, or carry a greeting. *)
SystemFrame(sc, s, note, name) ==
  LET noted == IF note THEN Appended(messages[sc], <<Note>>) ELSE messages[sc]
  IN /\ frames < MaxFrames /\ frames' = frames + 1
     /\ Remember(sc, CASE name = "call_end" -> NoHistory
                       [] name = "greeting" -> Appended(noted, <<Assistant>>)
                       [] OTHER -> noted)
     /\ IF name = "call_end"
          THEN /\ lastInjected' = [lastInjected EXCEPT ![sc] = NoAgent]
               /\ activeAgent' = [activeAgent EXCEPT ![s] = NoAgent]
               /\ pendingConfirms' = [pendingConfirms EXCEPT ![s] = NoCall]
          ELSE UNCHANGED <<lastInjected, activeAgent, pendingConfirms>>
     /\ UNCHANGED <<pendingTools, toDispatch, called, prompted, consent>>

(* resolveAgent *)
Agent(s, meta) ==
  IF meta # NoAgent THEN meta ELSE IF activeAgent[s] # NoAgent THEN activeAgent[s] ELSE DefaultAgent

ResolveAgent(s, meta) ==
  activeAgent' = IF Agent(s, meta) = NoAgent THEN activeAgent
                 ELSE [activeAgent EXCEPT ![s] = Agent(s, meta)]

(* A mutant: a stream that fails is rolled back like a failed Generate. *)
ApplyToolResult_Pops(r, sc, speaks) ==
  LET msgs == IF r.status \in {"error", "timeout"} THEN Appended(messages[sc], <<Failure>>)
              ELSE messages[sc]
      told == Appended(msgs, Answered(r.id))
  IN /\ IF r.status = "empty"
          THEN UNCHANGED <<messages, pendingTools, activeAgent>>
          ELSE /\ Remember(sc, IF speaks THEN Appended(told, <<Assistant>>) ELSE Front(told))
               /\ pendingTools' = pendingTools \ {r.id}
               /\ ResolveAgent(r.stream, NoAgent)
     /\ UNCHANGED <<lastInjected, pendingConfirms, toDispatch, called, prompted, consent, frames>>

(* A result: a failure adds a system message; the call and its result join   *)
(* the history, whose answer may fail or be empty.  An empty result changes  *)
(* nothing: the call stays pending.                                          *)
ApplyToolResult(r, sc, speaks) ==
  LET msgs == IF r.status \in {"error", "timeout"} THEN Appended(messages[sc], <<Failure>>)
              ELSE messages[sc]
      told == Appended(msgs, Answered(r.id))
  IN /\ IF r.status = "empty"
          THEN UNCHANGED <<messages, pendingTools, activeAgent>>
          ELSE /\ Remember(sc, IF speaks THEN Appended(told, <<Assistant>>) ELSE told)
               /\ pendingTools' = pendingTools \ {r.id}
               /\ ResolveAgent(r.stream, NoAgent)
     /\ UNCHANGED <<lastInjected, pendingConfirms, toDispatch, called, prompted, consent, frames>>

-----------------------------------------------------------------------------
(* A user's text while a call waits for his confirmation.                    *)
Tasks(calls, s) == [n \in DOMAIN calls |-> [id |-> calls[n], stream |-> s]]

EmitToolCalls(calls, s) ==
  /\ pendingTools' = pendingTools \cup ToSet(calls)
  /\ toDispatch' = toDispatch \o Tasks(calls, s)

Reply(s) ==
  /\ frames < MaxFrames /\ frames' = frames + 1
  /\ pendingConfirms[s] # NoCall

Confirm(s) ==
  /\ Reply(s)
  /\ pendingConfirms' = [pendingConfirms EXCEPT ![s] = NoCall]
  /\ consent' = consent \cup {prompted[s]}
  /\ EmitToolCalls(<<pendingConfirms[s]>>, s)
  /\ UNCHANGED <<memory, activeAgent, called, prompted>>

Cancel(s) ==
  /\ Reply(s)
  /\ pendingConfirms' = [pendingConfirms EXCEPT ![s] = NoCall]
  /\ UNCHANGED <<memory, activeAgent, pendingTools, toDispatch, called, prompted, consent>>

AskAgain(s) ==
  /\ Reply(s)
  /\ prompted' = [prompted EXCEPT ![s] = pendingConfirms[s]]
  /\ UNCHANGED <<memory, activeAgent, pendingTools, pendingConfirms, toDispatch, called, consent>>

-----------------------------------------------------------------------------
(* A user's text that goes to the model.                                     *)

(* ensureAgent: an agent's system text comes before its first message. *)
Introduced(sc, a) ==
  IF a \notin WithSystem \/ lastInjected[sc] = a THEN Ensured(messages[sc])
  ELSE Append(Ensured(messages[sc]), AgentPrompt(a))

(* A mutant: the pruning is left to the answer. *)
Asked_NotPruned(sc, s, meta) == Append(Introduced(sc, Agent(s, meta)), User)

Asked(sc, s, meta) == Prune[Append(Introduced(sc, Agent(s, meta)), User)]

AskModel(sc, s, meta) ==
  /\ frames < MaxFrames /\ frames' = frames + 1
  /\ pendingConfirms[s] = NoCall
  /\ ResolveAgent(s, meta)
  /\ lastInjected' = IF Agent(s, meta) \in WithSystem
                       THEN [lastInjected EXCEPT ![sc] = Agent(s, meta)]
                       ELSE lastInjected

(* A mutant: the whole turn is taken back, with what the agent added. *)
Rollback_Two(msgs) == IF Len(msgs) <= 2 THEN <<>> ELSE SubSeq(msgs, 1, Len(msgs) - 2)

(* popLastMessage *)
Rollback(msgs) == IF msgs = <<>> THEN msgs ELSE Front(msgs)

GenerateFails(sc, s, meta) ==
  /\ AskModel(sc, s, meta)
  /\ Remember(sc, Rollback(Asked(sc, s, meta)))
  /\ UNCHANGED toolVars

(* Without tool calls the text is streamed; that may fail or bring nothing,  *)
(* and the user's message stays.                                             *)
Answer(sc, s, meta, speaks) ==
  /\ AskModel(sc, s, meta)
  /\ Remember(sc, IF speaks THEN Appended(Asked(sc, s, meta), <<Assistant>>) ELSE Asked(sc, s, meta))
  /\ UNCHANGED toolVars

(* A mutant: only the first call is checked. *)
HandleToolCalls_First(calls, s) ==
  IF Head(calls) \in Confirmable
    THEN /\ pendingConfirms' = [pendingConfirms EXCEPT ![s] = Head(calls)]
         /\ prompted' = [prompted EXCEPT ![s] = Head(calls)]
         /\ UNCHANGED <<pendingTools, toDispatch>>
    ELSE /\ EmitToolCalls(calls, s)
         /\ UNCHANGED <<pendingConfirms, prompted>>

(* The first call that requires confirmation is asked about, and the others  *)
(* are forgotten; without one, all are emitted.                              *)
HandleToolCalls(calls, s) ==
  \/ \E n \in DOMAIN calls :
       /\ calls[n] \in Confirmable
       /\ \A m \in DOMAIN calls : m < n => calls[m] \notin Confirmable
       /\ pendingConfirms' = [pendingConfirms EXCEPT ![s] = calls[n]]
       /\ prompted' = [prompted EXCEPT ![s] = calls[n]]
       /\ UNCHANGED <<pendingTools, toDispatch>>
  \/ /\ \A n \in DOMAIN calls : calls[n] \notin Confirmable
     /\ EmitToolCalls(calls, s)
     /\ UNCHANGED <<pendingConfirms, prompted>>

CallTools(sc, s, meta, calls) ==
  /\ calls # <<>> /\ ToSet(calls) \cap called = {} /\ IsInjective(calls)
  /\ AskModel(sc, s, meta)
  /\ Remember(sc, Asked(sc, s, meta))
  /\ called' = called \cup ToSet(calls)
  /\ HandleToolCalls(calls, s)
  /\ UNCHANGED consent

-----------------------------------------------------------------------------
(* Types of the processor's maps.                                            *)
LLMTypeOK ==
  /\ \A sc \in Scopes : messages[sc] # NoHistory => messages[sc] \in Messages
  /\ lastInjected \in [Scopes -> Agents \cup {NoAgent}]
  /\ activeAgent \in [Streams -> Agents \cup {NoAgent}]
  /\ pendingTools \subseteq Calls /\ called \subseteq Calls /\ consent \subseteq Calls
  /\ pendingConfirms \in [Streams -> Calls \cup {NoCall}]
  /\ prompted \in [Streams -> Calls \cup {NoCall}]
  /\ toDispatch \in Seq(Task)
  /\ frames \in 0 .. MaxFrames

History(sc) == IF messages[sc] = NoHistory THEN <<>> ELSE messages[sc]

(* max_history bounds what is kept of users, assistant and tools, whichever  *)
(* way it came and at every moment the model may be asked.                   *)
HistoryBounded ==
  MaxHistory > 0 => \A sc \in Scopes : Cardinality(NonSystem(History(sc))) <= MaxHistory

(* A model refuses a history with a call or a result alone.  Every call is   *)
(* followed by its result, and every result but one that has become the      *)
(* oldest message follows its call, through rollbacks and pruning.           *)
Paired(msgs) ==
  \A i \in DOMAIN msgs :
    /\ msgs[i].role = "call" =>
         i < Len(msgs) /\ msgs[i + 1].role = "tool" /\ msgs[i + 1].of = msgs[i].of
    /\ msgs[i].role = "tool" =>
         \/ \A j \in NonSystem(msgs) : i <= j
         \/ msgs[i - 1].role = "call" /\ msgs[i - 1].of = msgs[i].of

ToolMessagesPaired == \A sc \in Scopes : Paired(History(sc))

(* docs/en/concepts.md: confirmation is explicit.  A call of a risky tool    *)
(* leaves the processor only after a user who was asked about that very call *)
(* said yes, on whatever stream, after whatever was asked in between.        *)
ConfirmationIsExplicit ==
  \A c \in Confirmable :
    c \in pendingTools \/ (\E n \in DOMAIN toDispatch : toDispatch[n].id = c) => c \in consent

(* The comment in Process: rollback history to avoid stuck state.  What is   *)
(* taken back is a user's message; until the call ends, the n-th message of  *)
(* the system stays the n-th.                                                *)
Systems(msgs) == DOMAIN msgs \ NonSystem(msgs)

KeepsSystems(old, new) ==
  \A i \in Systems(old) : \E j \in Systems(new) :
    new[j] = old[i] /\ Place(Systems(new), j) = Place(Systems(old), i)

SystemMessagesStay ==
  [][\A sc \in Scopes : messages'[sc] # NoHistory => KeepsSystems(History(sc), messages'[sc])]_messages
=============================================================================
