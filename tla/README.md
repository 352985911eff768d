# Ranya in TLA+

Ranya is a Go library for voice agents on the telephone: a transport (Twilio)
brings frames of audio and events of a call in, a pipeline of processors turns
speech into text, text into an answer and the answer into speech, and the
transport takes the audio back out. These modules model its concurrent core as
the code in `src/pkg` is written, the `.cfg` files let TLC check it on small
instances, and the `*Proofs` modules prove the most important results for every
value of the constants. `PROJECT.json` maps every definition to the lines it
models.

## 1. The system

```
 Twilio --ws/http--> TwilioTransport --recvCh--> routeTransport --In()--+
    ^                     ^   |                        |               |
    |                     |   | draining               v               v
    +---- audio ----------+   +--- drainer ---> SessionRegistry --> Orchestrator
                                     ^                           (one per call)
                            LifecycleRunner             STT > Turn > Context > Router
                                                        > LLM > Dispatcher > TTS
```

| Component | State | Operations | Talks to | What is hard, and what makes it correct |
| --- | --- | --- | --- | --- |
| Priority queue `priority/queue.go` | two bounded lanes | TryPushHigh/Low, Pop | feeder pushes, popper polls | Pop polls one lane after the other while pushes go on. A lane never exceeds its capacity; a waiting control frame is passed by at most one other frame; the low lane should be served too (it is not). |
| Orchestrator `pipeline/orchestrator.go` | input and output channel, stage channels, one goroutine per stage | In, Out, SetSink, Start, Stop | processors, sink, queue | Bounded channels that drop or wait, Stop at any moment. Frames are neither duplicated nor lost without a trace, stay in order, and get through. |
| Session registry `pipeline/registry.go` | a sync.Map from call to session, a counter | GetOrCreate, Remove, CloseAll, WaitForEmpty | routeTransport, drainer | Two creators of one call; a loser must be stopped, never used; CloseAll against concurrent stores; the count a step behind. |
| Lifecycle runner `runner/lifecycle.go` | an atomic state, a context that Run replaces, a Once | Run, Stop | drainer, hooks | Stop before, during and after Run; a drain with a timeout; everybody returns. |
| Twilio transport `transports/twilio/transport.go` | maps stream/call/session under a mutex, recvCh, draining | ServeHTTP, status callback, TTS webhook, voice webhook, Send, Stop | engine | A call that reconnects on another stream, ended by its handler, its callback or Stop at once; sends that drop; a channel closed under its senders. The maps agree; a call that is over leaves no session; handlers end. |
| Engine `ranya/engine.go` | none of its own | routeTransport, drainer, Start, Stop | all of the above | The order of routing, drain and removal. |
| Turn management `turn/*.go`, `processors/manager.go` | state machine, barge-in, silence and end-of-turn timers, a channel of emitted frames | Process, timer callbacks | STT upstream, context processor as listener | Timer callbacks racing the frames that stop them. Every turn ends; an interruption cancels playback; reprompts are bounded. |
| Context processor `processors/context.go`, `context_buffer.go`, `aggregators` | transcript buffer, pending frames, prompts per scope | Process, OnStateChange | turn manager calls it back | Two mutexes taken in both orders. Nothing the user said is lost or handed on twice; nobody waits for a mutex he holds. |
| LLM processor `processors/llm.go` | history, agent and confirmation per scope, pending tools | Process | adapter, dispatcher, router | Errors between append and rollback, results that come late, confirmations across turns. History stays well-formed and bounded; a risky tool waits for its yes. |
| Tool dispatcher `ranya/dispatcher.go` | a queue of tasks, workers, locks per stream | Process, worker, retry, timeout | LLM through In() | Full queues lose calls and results; a timed-out tool runs on. Each call gets one answer. |
| STT and TTS processors `processors/stt_processor.go`, `tts_processor.go` | sessions per stream and language, the stream of the call, replay buffer, breaker | Process, CloseStream, CloseAll | providers | Sessions created while another goroutine closes all; retry and replay; audio after a cancel; a provider nobody reads. Nothing is spoken twice, nothing after it was silenced, nothing left open, every frame returns; a reconnect should replay what was kept (it does not). |
| Resilience `resilience`, `llm/retry.go`, `llm/circuit_breaker.go` | failure count, open until | Allow, OnSuccess, OnError, Do | the processors | A breaker opens at the threshold, for a while, and starts over only after a success. |
| Router `processors/router.go` | agent, language and turns per stream | Process | strategy, detector | Routing and detection stop when they should; a stream that ends leaves nothing behind. |
| DTMF disambiguator `processors/dtmf_disambiguator.go` | when a stream's last key was pressed | Process | context processor | Drops what the user says: only digits, only after a key. |
| Recovery, filler, limiter, normaliser, summary | little or none | Process | | Sequential rewriting of frames. |
| Metrics, observers, configuration, providers, redaction, mock transport | | | | Not modelled, see section 8. |

## 2. Modules

| Module | Models | Used by |
| --- | --- | --- |
| `PriorityQueue` | `priority/queue.go`, poll by poll | Orchestrator |
| `FrameChannel` | abstract: what a pipeline promises of the frames given to it | Orchestrator (refinement) |
| `Orchestrator` | `pipeline/orchestrator.go` | MCOrchestrator |
| `CallIds` | the calls and the absence of one | SessionRegistry, TwilioTransport |
| `SessionRegistry` | `pipeline/registry.go` | Engine, MCSessionRegistry |
| `LifecycleRunner` | `runner/lifecycle.go` | Engine |
| `TwilioTransport` | the handlers, callbacks and Stop of `transport.go` | Engine |
| `Engine` | `ranya/engine.go`: the composition of the last three with routeTransport and the drainer | MCEngine |
| `Turn` | `turn/fsm.go`, `turn/manager_impl.go`, `processors/manager.go` | MCTurn |
| `ContextBuffer` | `processors/context_buffer.go` and what `context.go` does with a turn manager | |
| `ToolCalls` | what the LLM processor and the dispatcher have in common | the two below |
| `LLMConversation` | `processors/llm.go` | Conversation |
| `ToolDispatcher` | `ranya/dispatcher.go` | Conversation |
| `Conversation` | the two as `NewEngine` connects them | MCConversation |
| `CircuitBreaker` | `resilience`: the breaker and the retry policy | SpeechSessions |
| `SpeechSessions` | what the two processors of speech do alike: the sessions of a call | the two below |
| `STTProcessor` | `processors/stt_processor.go`, with a session of `providers/deepgram` | Speech |
| `TTSProcessor` | `processors/tts_processor.go`, with a session of `providers/elevenlabs` | Speech |
| `Speech` | the two as `NewEngine` connects them, with the goroutine that closes their sessions | MCSpeech, SpeechReplay |
| `SpeechReplay` | `Speech` with a history of what retries throw away | |
| `DialogueFrames` | the frames of the modules below | all four |
| `DTMFDisambiguator` | `processors/dtmf_disambiguator.go` | Dialogue |
| `ContextProcessor` | `processors/context.go`, `aggregators/text_aggregator.go` | Dialogue |
| `Router` | `processors/router.go` | Dialogue |
| `Dialogue` | the three as a pipeline, as `examples/hvac` wires it | MCDialogue |
| `PriorityQueueProofs`, `OrchestratorProofs`, `SessionRegistryProofs`, `EngineProofs`, `TurnProofs`, `ConversationProofs`, `SpeechProofs`, `DialogueProofs` | theorems, see section 6 | each extends what it is about; `EngineProofs` uses the registry's |

`MC*` modules only give constants their values.

**Queue and orchestrator.** `high`, `low` are the lanes, `popped` the result of
Pop. `CallPop`, `PollHigh`, `PollLow` are the steps of Pop: the two selects see
the lanes at different moments. `in`, `out`, `stageCh` are the channels; `feeder`,
`working[i]`, `emitting`, `outbox[i]` the locals of the goroutines of
`startAsync`; `at`, `todo`, `next` those of the worker of `startSync`. A
processor is abstract: it returns an error or nil, the frame, a new frame, or
both in either order (`Results`). That audio is older than 500 ms (`Lag`) is a
choice. `sent`, `delivered`, `dropped`, `discarded`, `spawned` are history. A slot
is a place a frame can be (`Places`) with an index in what the place holds:
`Conservation` says that different slots hold different frames, so that no frame is
anywhere twice, and that the slots, the drops and the frames used up make up what
was accepted or created.

**Registry.** Each goroutine has a record of locals with a program counter; every
access to the sync.Map, to the counter and to a session is a step of its own.
Sessions are numbers in order of creation, `live` those that run.

**Transport, runner, engine.** One record per goroutine again. A section under
the transport's mutex is one step, a send another, the reading of a frame's meta
another still. A frame is its kind and its call: nothing else decides a route.
The maps are functions from streams and calls.

**Turn.** Process is a list of steps, `todo`, one per critical section of the
manager or of the turn processor, so that callbacks come in between. `timer` holds
every timer that exists: its kind, what its closure captured and where its
callback is. Stopping one that is armed removes it, stopping one that has fired
does nothing, and the handles (`flushTimer`, `silenceTimer`, `endOfTurnTimer`) can
be overwritten while a timer they held still runs. Durations are left out: an
armed timer may fire at any moment. Instants are numbers in order. `userTalks`,
`interrupts`, `cancelled`, `raced` are history. The listeners of the state machine
are not called here; the only one, the context buffer, has its own module. Frames
of every kind come in any order. In the pipeline that
`NewEngine` builds the LLM stands behind the turn processor, so its text and
`thinking_start` never pass it and the state never becomes SPEAKING.

**Context buffer.** Two mutexes with their owners, the stage's goroutine and those
of the turn manager. A text is a model value; the overflow is counted in texts.

**Conversation.** One goroutine calls the LLM processor's Process, so a frame is
one action, with the model's answer as a choice: an error, a text that is spoken
or not, tool calls. A message is its role, what it is of, and its words. Pruning
works on sequences as the code does, `NonSystem` are the indices it drops first.
A call id is used once, as the services behind the adapter give them. The
dispatcher's workers take, lock, start, wait and send in steps of their own;
`running` are the attempts whose tool has not returned, also those the worker has
given up. `toDispatch` is not bounded: that frames may be lost between two
stages is the subject of `Orchestrator`. A tool may end with a text, an empty
text, an error, late, or never. `called`, `prompted`, `consent`, `dispatched`,
`started`, `results`, `lost` are history. Left out: handoff frames, languages,
image parts, the frames an answer is cut into, backoff times. Streams and calls of
tools have names: a frame of no stream gets a lock of its own and no confirmation,
and a worker drops a call without an id or a name (`dispatcher.go:94`). Agents outside
`WithSystem` are unknown or have no system text and add nothing. Every stream files
under one scope here (`ScopeOf`), and `call_end` clears that one; the code clears the
stream's and the call's. `call_end` is here because the processor handles it; in `NewEngine`'s wiring routeTransport
removes the session instead of passing the frame on.

**Speech.** `STTProcessor` and `TTSProcessor` are instances over one processor
record each: `sessions` by number, `callStream` and `tracked` for the two maps
between call and streams, `replay`, `breaker`, and `task`, where Process stands
with its frame. Each section under the mutex is a step, so that `CloseAll`, which
the goroutine of `engine.go` runs when the context ends, first for the one and then
for the other, comes in between; a session is started under the mutex, and
`CloseAll` waits. A session is closed and taken out of its map in one section, so
the sessions in the map are those that are open. `got` is what a session has been
given, `out` its channel. Deepgram's audio goes through a pipe: its writer waits
for the reading goroutine, and for ever when that has ended (`Dies`), until the
session is closed (`Stuck`). ElevenLabs' two channels drop when full. Any start or
send may fail; whether the error is a rate limit, which alone counts for the
breaker, is a choice, although Deepgram's client never returns one. Pieces of
audio and texts are numbered in the order they come. `given`, `silenced`,
`closedAll`, `origin` are history. `SendAudio` is the send, the breaker's OnSuccess and
the drain of the results, whose steps only the one goroutine of Process takes. Left out: interim results, the text of results
(the processors in between take it), metrics, callers' numbers, backoff times. A
frame with a language closes the STT session of its stream unless code switching is
on. A session's results are in order, as a channel is.

**Dialogue.** A text is a sequence of numbered words, of one letter, of a key, or
long enough to stand alone (`MinLen`). `pending[s]` is what the stream's
aggregator holds; a joined text has the meta of its first part. A scope is the call
where a frame names it and the stream where it does not. A frame passes the first
two processors in one step, as they share nothing, and waits in `toRouter` for the
router. The language found, the agent chosen and the facts extracted from a text
are choices. `arrived` is everything that has left the router, in order;
properties are about this list. `ContextProcessor` is the processor as it works
without a turn manager. In `NewEngine` it always has one; then only keys and the
frames of the system take the way modelled here, and texts go to `ContextBuffer`.

## 3. Runs

| Run | Question | Result |
| --- | --- | --- |
| `orchestrator` | Does a pipeline keep its frames, their order and its promises, in both modes, with both kinds of backpressure, stopped at any moment? | holds |
| `registry` | Do concurrent GetOrCreate, Remove and CloseAll share, count and release sessions rightly? | holds |
| `engine` | Does a call that reconnects and ends in any way leave nothing behind, and does the engine stop? | holds, with the exceptions below |
| `turn` | Does every turn end, is only a real interruption cancelled, and does one silence timer run at a time? | holds |
| `barge_in` | Does speech over the agent cancel playback (`docs/en/turn-management.md`)? | violated: the second interim transcript disarms the timer |
| `buffer_deadlock` | Does a flush of the context buffer return (`thread-safe`)? | violated: it waits for its own mutex |
| `conversation` | Does the history stay bounded and well-formed, is a risky tool confirmed, and is every call answered? | holds, with the exceptions below |
| `serialize` | Do a stream's tools run in order (`docs/en/tools-confirmation.md`)? | violated: workers lock the stream after they took the call |
| `speech` | Is nothing spoken twice, out of order, or after it was silenced, are sessions closed, and does every frame return, whatever providers do? | holds, with the exceptions below |
| `replay` | Is the audio that is kept replayed on a reconnect (`stt_processor.go:121`, `docs/en/anatomy.md`)? | violated: the retry empties the buffer before it reads it |
| `dialogue` | Does what the user says reach the model once, in order and with its context, and does routing stop? | holds |
| `stop_leaks` | Do the goroutines exit after Stop (its own comment)? | violated: Pop polls for ever |

`ImplementsChannel` shows that the orchestrator implements `FrameChannel`, whose
frames are the submitted ones, pending while they are in flight.

`WaitLosesOnlyAtTheQueue` is the exact line of what `docs/en/pipeline.md:26` says of
`backpressure=wait`, that it blocks until space is available: the stages do, but a
lane of the priority queue that is full drops, in wait mode as well.

Pop polls the high lane first in every round and compares the fairness ratio only with
zero, although a comment says that the popping honours fairness
(`orchestrator.go:191`). While control frames keep coming a frame in the low lane
waits for ever. No run shows it: the frames of `orchestrator` are finitely many, and
`EveryFrameSettles` holds because the control frames end.

`EndedCallsAreRemoved` says when a session must be gone, and has three
exceptions, each a behaviour of the code: the engine is being stopped (frames
left in recvCh create sessions after the drain's CloseAll, and nobody closes
them); recvCh was full when call_end came; a frame was sent with a meta read
before its stream was detached, so that it came after call_end and created the
session anew. Attach removes the replaced stream's entry from `callSIDs`, so the
test `callStreams[callSID] == streamID` in detach never fails: `MapsAgree` holds
without it.

`SpeechIsTimed` is what makes a turn end: while the user has the floor, an
end-of-turn timer that is not stale is armed or has fired, whatever transcripts,
reconnects and late callbacks came before. `SilenceTimerIsHeld` has the exception
the code has: a callback that waits for the mutex while a frame resets or sets the
timer arms another one and overwrites the handle.

`EveryCallIsAnswered` has the exceptions of the code: a full queue or a full
input drops without a word, and an empty text is ignored. `ToolMessagesPaired`
allows a result to have lost its call when it is the oldest message, since
`pruneByHistory` drops message by message. `SystemMessagesStay` speaks of the
default without a token limit; with one, pruning can drop the message that a
failed call then wants to take back, and a system message goes instead.

What a broken STT session had been given and not transcribed is lost. Process keeps
the last chunks of a stream for a replay, 50 by default, and a retry is to give them
to the session it opens, but it calls `CloseStream` first, which deletes them with
everything else it knows of the stream (`stt_processor.go:223`, 297, 229).
`ReconnectReplaysAudio` in `replay` asks that the new session be given what the old
one had been, where the buffer holds all of it; the counterexample is a second piece
whose send fails. `NothingIsReplayed` proves of every instance that a retry sends the
one piece that failed. A buffer that outlived the close would be replayed with that
piece in it, which Process adds before it sends, so that it would be sent twice.

The exceptions of `speech` are behaviours of the code. A retry closes the stream
first, and `CloseStream` forgets which call it was of: the session it opens is not
closed when the call moves on, nor is one opened by a text that does not name its call.
A session that a late frame opens after `CloseAll` stays open
(`TeardownClosesAll`). A write into the pipe of a broken Deepgram session does not
return until `CloseAll` closes it, and the stage waits with it
(`EveryFrameReturns`). An interruption and a flush discard the audio that waits
and not the texts the session still has to speak, so `SilencedStaysSilent` asks
only for the audio; a cancel, a fallback, the end and a reconnect silence all. A
breaker whose time is over still holds its failures, and the next rate limit opens
it at once.

What `dialogue` does not say: the prompt and the shared context carry the stream
and not the call (`context.go:309`), so the LLM processor files them under the
stream's scope while texts that name their call go to the call's. The properties
follow the context processor's own scopes, a field of the frames here that the code's
do not have; that the LLM processor finds another scope is outside them. What the router learns goes downstream
only, and the context processor, upstream, does not hear of it. A call's end
clears its scope and then sends the prompt once more, before itself; a scope that
is used again gets none, which is why `TextsFindTheirContext` asks for the prompt
while the call goes on. Captions of images come without either message.

With the buffer of `buffer_deadlock` every flush that finds text blocks its
goroutine, and `NewEngine` always gives the context processor a turn manager. What
the user says then stays in the buffer. The module keeps the rest of the flush,
which no behaviour reaches.

## 4. Bounds

* Orchestrator: one control, one audio and one other frame, one frame a processor
  may create, lanes and stage channels of one, one processor. Every channel is
  full, empty and overtaken at times; a second processor adds another identical
  stage between two channels. The theorems need no bound.
* Registry: two goroutines, two calls, `MaxSessions` = 3 factory calls: a loser, a
  winner, and a session created after a removal.
* Engine: one call with two streams (a reconnect), `RecvCap` = 2 so that recvCh is
  full when it matters, `EventSets`: which of a connection per stream, a media
  message, a callback, a webhook, Engine.Stop and the end of its context may
  happen, each once. `MaxSessions` = 2. Connections come only while Run waits, as
  what Run does before touches nothing they use.

* Turn: `SomeScenarios`, sets of frames with the number that may come (3 or 4): the
  user's turn on two streams (a reconnect), the same with playback that ends, the
  agent's turn with interruptions, and the remaining kinds of frames. `MaxTimers`
  = 6 exceeds what exists at once (a step that arms a timer waits for a free number,
  `Free`, which the handles do not name either, so that a stale handle never names
  another timer); `EmitCap` = 2 so that the channel is full at
  times; `MaxAttempts` = 2, the default.
* Conversation: two streams of one call, one harmless and one risky call,
  `MaxFrames` = 3 frames of users and systems, `MaxHistory` = 3 so that a call and
  its result are split by pruning, two workers, one retry, queue and input of one
  so that both are full at times. `serialize` needs only a queue of two.
* Speech: two streams of one call (a reconnect), two languages, `LastItem` = 2 pieces
  of audio and texts at most, three sessions, `Threshold` = 2 and one retry, every
  channel and the replay buffer of one or two so that they are full at times.
  `SomeLoads` says how much comes: two pieces of audio with a system frame, or with
  the end of the context; two texts with a control; a text, a control and the end;
  and audio with a text, where fallbacks and flushes of the one reach the other.
* Dialogue: two streams, of which one names its call, three facts (a key that
  changes and one that does not), one agent, two languages, `MinLen` = 2,
  bootstrap mode with one turn, no code switching. `SomeLoads`: four frames of
  texts, keys, flushes and ends; of what is known of a call, keys and ends; of
  finals and ends; and three of finals, handoffs, images and interims.
* ContextBuffer: two texts, room for one, one listener.
* `replay` is `speech` with two pieces of audio alone and room for both in the replay
  buffer; `stop_leaks` needs one control frame.

## 5. Fairness

Goroutines are scheduled by Go, so a goroutine that can take a step takes one:
weak fairness on each loop. Nothing outside is fair: nobody has to submit a
frame, connect, call a webhook or stop the engine. After Stop has cancelled the
context, a goroutine's select may choose either way, so only the popper and Stop
itself keep an obligation (`Running` in the others' conditions). In `Engine` one
condition covers all goroutines: the events are finitely many, every goroutine's
steps after the last one are too, and so a step of each is taken in the end.
In `Turn` Process runs on, armed timers expire and callbacks run; no frame has to
come, so a barge-in timer alone has to cancel playback, and an end-of-turn timer
alone has to end a turn. In `ContextBuffer` acquiring a mutex is strongly fair.
In `Speech` Process, the next stage and the closing goroutine run on, and a Start
that has begun returns; no provider has to answer, hear or speak, and no connection
breaks or breaker cools down by obligation. The frames are finitely many and each
takes finitely many steps, so one condition serves both processors. `Dialogue` has
no fairness: it states safety only.
In `Conversation` the dispatcher's workers and the pipeline run on and timeouts
expire, and a tool need not return: everything a call leads to is finite, so one
condition is enough. The drain's 20 s and 30 s timeouts are steps that may come at any time.

## 6. Proofs

* `QueueTypeCorrect`, `QueuePassesAtMostOnce`: the inductive invariant adds to the
  claim where Pop stands, since only a poll that has seen the high lane empty may
  let a frame pass.
* `OrchestratorTypeCorrect` is inductive as it stands; each step is a step of the
  queue or leaves it alone (`QueueStep`), which carries `PipelinePassesAtMostOnce`
  over from the queue. `WaitLosesNothingBehindTheQueue` is an action property.
* `RegistryInv` = types, what each program counter says of the locals
  (`LocalsInv`), no session in two places (`OnePlaceInv`), what a CloseAll under
  way still has to visit (`FoundInv`), ownership and sharing. It is inductive, and
  gives `RegistryTypeCorrect`, `NoSessionIsLost`, `SessionsAreShared`,
  `CloseAllIsComplete`. `CountIsCorrect` adds the number of goroutines between
  the map and the counter, with the cardinality theorems of the library.
* `FlowInv` follows a tool call from the model's answer to its result: types
  (`FlowTypeOK`), who waits for a tool holds its stream's lock (`LocksInv`), the
  call that waits for a confirmation is the one asked about last (`ConsentInv`), a
  call is at one stage and at one place of it, and no id is made twice
  (`OneStage`), and a worker's attempt is later than those started of its call
  (`AttemptsInv`). `RetriesEnforced` needs the last two together: without "one
  stage" a second worker could hold the same call. It gives `DispatcherIsTyped`,
  `StreamsAreSerialized`, `NoToolWithoutConsent` and `RetriesAreEnforced`. TLC checked
  `FlowInv` on the instance of the conversation run before it was proved.
* `LLMInv` stands next to `FlowInv` (`ConversationInvariant`): every history is typed,
  no longer than `MaxHistory` allows, and pairs a tool's message with its call unless it
  is the oldest. Pruning removes messages by index, so what it leaves is described by the
  place of an index among those that stay (`Place`, `IndexAt`): `WithoutPicks`,
  `DropFirstThins` and `PruneThins` say that what is left keeps the order of what was.
  What goes are the oldest messages that are not the system's, so that a result loses its
  call only by becoming the oldest itself. This gives `ConversationTypeCorrect`,
  `HistoryIsBounded`, `ToolMessagesStayPaired` and the action property
  `SystemMessagesAreKept`; the last assumes `MaxTokens = 0`, the default, for the reason
  given in section 3.
* `ConservationInv` = types, that a goroutine takes a frame only with empty hands
  (`LocalsInv`: what it puts down overwrites nothing), which locals each mode leaves
  empty (`ModesInv`), and the ledger (`Conserved`): the places hold sequences without
  repetition and share no frame with each other or with the frames lost. `Where` maps
  each place to what it holds, and every action is one of five kinds of shift of that
  map (`StepKind`: nothing moves, a frame enters, moves on, vanishes, or is worked on);
  one lemma per action says of which kind it is. Lemmas without state say what a shift
  does to a ledger. `LedgerConserves` reads it slot by slot. It gives
  `EveryFrameIsAccountedFor`, for any number of processors.
* `PipelineIsAFrameChannel` is the refinement of `FrameChannel`. The places are ordered
  by `Rank` (the sink first, the input last; the two lanes share a rank), and a
  frame is ahead of another when its place ranks lower, or by its index in the same
  place. `OvertakingInv` says which frames may be ahead of an earlier one: none of its
  class, one at most when it is a control frame, none before it has reached a lane,
  and none of a control frame that waits while Pop is about to look at the low
  lane. A shift passes only empty places, or the other lane (`Passing`), so the one
  step that lets a frame overtake is Pop's (`SwapAhead`, `OvertakingStep`). Then a
  frame that enters is `Accept`, one that arrives is `Deliver` or
  `DeliverNew`, one that vanishes or is used up is `Lose`, and the rest stutter
  (`ChannelStep`).
* `EngineInv` = the transport's maps (`NamesInv`, `MapsAgree`), where each handler
  stands (`HandlersInv`), the registry's own invariant, the loops of the engine
  (`LoopsInv`), and, for each call, what still is on its way to remove its session
  (`CallsInv`). `EngineUsesRegistry` shows that every step of the engine is a step of
  the registry or leaves it alone, so that what is proved of the registry by itself
  holds in the engine (`EngineLosesNoSession`).
* `TurnInv` says, for each timer that exists, what its closure captured and which
  handle names it, and for the steps Process has still to take (`todo`) what they will
  arm or stop: between two critical sections a turn may have no timer yet, but only
  when one of the steps to come arms it (`WillArm`). It gives the three properties
  of `TurnProofs`.
* `SpeechInv` is the same for both processors (`ProcInv`: types, the task, no session
  twice, the call's current stream, what comes after CloseAll), with the order of texts
  (`SpokenBy`) on top: a sequence that rises and stays below the item that comes next
  can be appended to and cut, which carries `TextsAreSpokenOnce`. `ReplayInv` says that
  the buffer of the stream is empty from the moment a retry goes on until it has sent;
  `NothingIsReplayed` follows. `SilenceIsKept` is an action
  property from the same invariant.
* `DialogueInv` says that what the context processor keeps is what it has sent
  (`LedgerInv`), and that what the router keeps is what has left it (`TurnsInv`). The
  first is about `Trail`, the frames that have left the router followed by those on
  their way to it: what a text finds is settled where it is put in, long before it
  leaves. Two positions in two sequences are `Alike` when the same has been said of a
  scope before both. One is, whenever the frames that matter before the one map, in
  order, to those before the other (`Embeds`), so that the router, which puts updates in
  between and rewrites the text it passes (`Moves`), changes nothing of what texts find.
  It gives `RoutingStopsAlways` and `TextsAlwaysFindTheirContext`, in every mode and for
  any amount of frames. Of words, `HistoryInv` says that they are numbered as they were
  said and that what was dropped was said, and why it could be; `HearingInv` says of each
  stream that the words sent (`Tells`), then those that wait (`HeldOf`), are what was
  said, in order (`Follows`). Every step of the context processor appends to the trail
  what comes after all that was sent before, and the router moves texts past frames
  without words only (`TrailMoves`, `MovedTells`). This gives `TextsAlwaysArrive`.

Assumptions, all on the constants, named in the module that declares them and
evaluated by the runs: `QueueAssumption`, `OrchestratorAssumption`,
`CallAssumption`, `RegistryAssumption`, `TransportAssumption`, `EngineAssumption`,
`TurnAssumption`, `BreakerAssumption`,
`SpeechAssumption`, `CallsAssumption`, `LLMAssumption`, `DispatcherAssumption`,
`ConversationAssumption`, `ContextAssumption`, `RouterAssumption`,
`DialogueAssumption`. They say that capacities are natural numbers, that the sets of
frames are disjoint, that a name for nothing names nothing, and that a stream's history
is one of the histories and an agent named by a frame one of the agents. Each inductive invariant was checked by TLC on the
instance of its run before it was proved; of `DialogueInv` all but the types of the
channels, whose frames TLC cannot compare with each other, and `HearingInv`, which
quantifies over every set: there TLC checked the claim it gives.

Only checked by TLC: liveness under fairness, which is out of the prover's reach
(`EveryFrameSettles`, `EveryFrameReturns`, `DetachedHandlersEnd`, `EveryoneReturns`,
`CallEndIsServed`, `EveryTurnEnds`, `EveryCallIsAnswered`). Every invariant and every
action property of a passing run is a theorem. `SystemMessagesStay` is claimed, checked
and proved without a limit of tokens only.

## 7. Plan

Done: the core (queue, orchestrator, registry, runner, transport, engine), `Turn`,
`ContextBuffer`, `Conversation`, `Speech` and `Dialogue` with their parts, and proofs of
all the safety properties the passing runs check.
Next: the transport's `Send` and `session.loop`, whose send on a channel that detach
has closed panics (`transport.go:677`); nothing in the repository promises otherwise.

## 8. Not modelled

The protocols of providers (sockets and JSON of other services; what a session is to
its processor is in `Speech`), the breaker and retries inside the LLM adapters (one
call of the model, whose outcome is a choice), the recovery processor (sequential,
and wired in by applications), the transport's outgoing audio, configuration,
metrics and observers (nothing reads them back), redaction and errors (pure),
frames (values), the filler, limiter, normaliser and summary, the mock transport,
examples and scripts, but for how `examples/hvac` wires `Dialogue`. The turn
manager's channel of 32 frames, which drops, and the wiring that keeps the LLM's
frames from the turn processor are described with `Turn`; no property speaks of them.
`PROJECT.json` lists each component with its reason.
