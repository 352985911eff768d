-------------------------------- MODULE Turn --------------------------------
(***************************************************************************)
(* pkg/turn and pkg/processors/manager.go: the turn processor reads the    *)
(* frames of a call, drives the state machine of who has the floor, and    *)
(* arms three kinds of timers: barge-in (the user speaks over the agent),  *)
(* silence reprompt, and end of turn.  Their callbacks run in goroutines   *)
(* of their own, and what they emit waits in a channel until the next      *)
(* frame is processed.                                                     *)
(*                                                                         *)
(* Process is a list of steps, one per critical section, so that callbacks *)
(* come in between.  Time is abstract: an armed timer may fire at any      *)
(* moment; stopping one whose callback has started does nothing.           *)
(***************************************************************************)
EXTENDS Naturals, Sequences, SequencesExt, FiniteSets

CONSTANTS
  Streams, NoStream,
  BargeInEnabled,  \* the strategy: aggressive, or polite
  EndOfTurn,       \* an end-of-turn timeout is configured
  MaxAttempts,     \* of the silence reprompt; 0: none is configured
  EmitCap,         \* capacity of emitCh (32)
  Scenarios,       \* bound: the frames that may come, and how many of them
  MaxTimers        \* bound: timers that exist at once

States == {"IDLE", "LISTENING", "THINKING", "SPEAKING"}
FrameKinds == {"interim", "final", "speech_started", "speech_final", "flush",
               "audio_ready", "llm_text", "thinking_start", "call_end", "other"}
Timers == 1 .. MaxTimers
Steps == {"drain", "reset", "stopEndOfTurn", "listen", "speechStart", "armEndOfTurn",
          "think", "stopFlush", "speak", "agentThink", "audioComplete", "silence"}

ASSUME TurnAssumption ==
  /\ NoStream \notin Streams
  /\ BargeInEnabled \in BOOLEAN /\ EndOfTurn \in BOOLEAN
  /\ MaxAttempts \in Nat /\ EmitCap \in Nat /\ MaxTimers \in Nat
  /\ \A sc \in Scenarios : sc.may \subseteq [kind : FrameKinds, stream : Streams] /\ sc.n \in Nat

VARIABLES
  turnState,        \* stateMachine.currentState
  userSpeechStart,  \* the number of the user's last speech start, for its time
  flushTimer,       \* manager.flushTimer: a timer, or 0
  silenceTimer, repromptCount,
  endOfTurnTimer, endOfTurnStream,
  lastID,           \* the stream of the last frame
  emitCh,           \* what the turn manager and the timers have emitted
  timer,            \* every timer: [kind, start, stream, pc]
  todo,             \* the steps Process has still to take for its frame
  stream,           \* the stream of that frame
  wasSpeaking,      \* the local of OnUserSpeechStart
  scenario, frames  \* the frames that may come, and how many have

VARIABLES           \* history
  userTalks,   \* the user has begun to speak and nothing has ended his turn
  interrupts,  \* the speech starts that came while the agent was speaking
  cancelled,   \* the speech starts for which a cancel has been emitted, in order
  raced        \* a silence timer was reset or set while the callback of one was running

managerVars == <<turnState, userSpeechStart, flushTimer>>
silenceVars == <<silenceTimer, repromptCount, raced>>
endVars == <<endOfTurnTimer, endOfTurnStream>>
frameVars == <<lastID, stream, scenario, frames>>
bargeHist == <<interrupts, cancelled>>
vars == <<managerVars, silenceVars, endVars, frameVars, emitCh, timer, todo, wasSpeaking,
          userTalks, bargeHist>>

NoTimer == [kind |-> "none", start |-> 0, stream |-> NoStream, pc |-> "free"]

Init ==
  /\ turnState = "IDLE" /\ userSpeechStart = 0 /\ flushTimer = 0
  /\ silenceTimer = 0 /\ repromptCount = 0
  /\ endOfTurnTimer = 0 /\ endOfTurnStream = NoStream
  /\ lastID = NoStream /\ emitCh = <<>>
  /\ timer = [i \in Timers |-> NoTimer]
  /\ todo = <<>> /\ stream = NoStream /\ wasSpeaking = FALSE
  /\ scenario \in Scenarios /\ frames = 0
  /\ userTalks = FALSE /\ interrupts = {} /\ cancelled = <<>> /\ raced = FALSE

-----------------------------------------------------------------------------
(* Timers and the emitter.                                                   *)

(* Timer.Stop: a timer whose callback has started is not affected. *)
Stopped(i) == IF i # 0 /\ timer[i].pc = "armed" THEN [timer EXCEPT ![i] = NoTimer] ELSE timer

(* The timers nobody holds a handle of, and the one to arm next.  Bound: a   *)
(* step that arms one waits until there is one.                              *)
Free == {i \in Timers : timer[i] = NoTimer /\ i \notin {flushTimer, silenceTimer, endOfTurnTimer}}
Fresh == CHOOSE i \in Free : TRUE

(* Stop the timer a handle refers to and arm a new one. *)
Rearmed(handle, kind, start, s) ==
  [Stopped(handle) EXCEPT ![Fresh] = [kind |-> kind, start |-> start, stream |-> s, pc |-> "armed"]]

Goto(i, pc) == timer' = [timer EXCEPT ![i].pc = pc]
Done(i) == timer' = [timer EXCEPT ![i] = NoTimer]
CallbackAt(i, kind, pc) == timer[i].kind = kind /\ timer[i].pc = pc

(* A mutant: the channel has one place more. *)
Emitted_OffByOne(f) == IF Len(emitCh) <= EmitCap THEN Append(emitCh, f) ELSE emitCh

(* A full channel loses the frame. *)
Emitted(f) == IF Len(emitCh) < EmitCap THEN Append(emitCh, f) ELSE emitCh

(* transitionValid *)
MayMove(from, to) ==
  <<from, to>> \in {<<"IDLE", "LISTENING">>,
                    <<"LISTENING", "THINKING">>, <<"LISTENING", "IDLE">>,
                    <<"THINKING", "SPEAKING">>, <<"THINKING", "LISTENING">>, <<"THINKING", "IDLE">>,
                    <<"SPEAKING", "LISTENING">>, <<"SPEAKING", "IDLE">>}

(* Transition: an invalid one is an error, which the manager ignores. *)
Moved(from, to) == IF MayMove(from, to) THEN to ELSE from

-----------------------------------------------------------------------------
(* Process.                                                                  *)

SpeechStart == <<"listen", "speechStart", "armEndOfTurn">>
SpeechEnd == <<"stopEndOfTurn", "think", "stopFlush">>

Handler(kind) ==
  CASE kind = "interim" -> <<"reset">> \o SpeechStart
    [] kind = "final" -> <<"reset">> \o SpeechEnd
    [] kind = "speech_started" -> SpeechStart \o <<"reset">>
    [] kind = "speech_final" -> SpeechEnd \o <<"reset">>
    [] kind = "flush" -> <<"reset">>
    [] kind = "audio_ready" -> <<"audioComplete", "silence">>
    [] kind = "llm_text" -> <<"speak", "reset">>
    [] kind = "thinking_start" -> <<"agentThink">>
    [] kind = "call_end" -> <<"reset", "stopEndOfTurn">>
    [] OTHER -> <<>>

(* What the channel holds is drained before the frame is looked at. *)
Receive(f) ==
  /\ todo = <<>>
  /\ frames < scenario.n
  /\ frames' = frames + 1
  /\ stream' = f.stream /\ lastID' = f.stream
  /\ emitCh' = <<>>
  /\ todo' = Handler(f.kind) \o <<"drain">>
  /\ UNCHANGED <<managerVars, silenceVars, endVars, scenario, timer, wasSpeaking, userTalks, bargeHist>>

Step(s) == todo # <<>> /\ Head(todo) = s /\ todo' = Tail(todo)

(* And once more after it: all of it joins the frames Process returns. *)
Drain ==
  /\ Step("drain")
  /\ emitCh' = <<>>
  /\ UNCHANGED <<managerVars, silenceVars, endVars, frameVars, timer, wasSpeaking, userTalks, bargeHist>>

(* Whether the callback of a silence timer has begun. *)
SilenceRuns == \E i \in Timers : timer[i].kind \in {"silence", "rearm"} /\ timer[i].pc = "fired"

ResetSilence ==
  /\ Step("reset")
  /\ timer' = Stopped(silenceTimer)
  /\ silenceTimer' = 0 /\ repromptCount' = 0
  /\ raced' = (raced \/ SilenceRuns)
  /\ UNCHANGED <<managerVars, endVars, frameVars, emitCh, wasSpeaking, userTalks, bargeHist>>

StopEndOfTurn ==
  /\ Step("stopEndOfTurn")
  /\ timer' = Stopped(endOfTurnTimer)
  /\ endOfTurnTimer' = 0 /\ endOfTurnStream' = NoStream
  /\ userTalks' = FALSE
  /\ UNCHANGED <<managerVars, silenceVars, frameVars, emitCh, wasSpeaking, bargeHist>>

(* OnUserSpeechStart, up to its critical section.  Only this goroutine moves *)
(* the state out of SPEAKING, so reading and moving it is one step.          *)
Listen ==
  /\ Step("listen")
  /\ wasSpeaking' = (turnState = "SPEAKING")
  /\ turnState' = Moved(turnState, "LISTENING")
  /\ userTalks' = TRUE
  /\ UNCHANGED <<userSpeechStart, flushTimer, silenceVars, endVars, frameVars, emitCh, timer, bargeHist>>

(* A mutant: the barge-in timer is armed for every speech start. *)
StartSpeech_Always ==
  /\ Step("speechStart")
  /\ userSpeechStart' = userSpeechStart + 1
  /\ interrupts' = IF wasSpeaking THEN interrupts \cup {userSpeechStart + 1} ELSE interrupts
  /\ Free # {}
  /\ timer' = Rearmed(flushTimer, "barge_in", userSpeechStart + 1, NoStream)
  /\ flushTimer' = Fresh
  /\ wasSpeaking' = FALSE
  /\ UNCHANGED <<turnState, silenceVars, endVars, frameVars, emitCh, userTalks, cancelled>>

(* Its critical section: every speech start stops the barge-in timer, one    *)
(* that finds the agent speaking arms it again.                              *)
StartSpeech ==
  /\ Step("speechStart")
  /\ userSpeechStart' = userSpeechStart + 1
  /\ interrupts' = IF wasSpeaking THEN interrupts \cup {userSpeechStart + 1} ELSE interrupts
  /\ IF wasSpeaking /\ BargeInEnabled
       THEN /\ Free # {}
            /\ timer' = Rearmed(flushTimer, "barge_in", userSpeechStart + 1, NoStream)
            /\ flushTimer' = Fresh
       ELSE /\ timer' = Stopped(flushTimer)
            /\ UNCHANGED flushTimer
  /\ wasSpeaking' = FALSE
  /\ UNCHANGED <<turnState, silenceVars, endVars, frameVars, emitCh, userTalks, cancelled>>

(* A mutant: a timer that is set is left alone. *)
ArmEndOfTurn_Once ==
  /\ Step("armEndOfTurn")
  /\ IF EndOfTurn
       THEN /\ endOfTurnStream' = stream
            /\ IF endOfTurnTimer = 0
                 THEN Free # {} /\ timer' = Rearmed(0, "end_of_turn", 0, stream) /\ endOfTurnTimer' = Fresh
                 ELSE UNCHANGED <<timer, endOfTurnTimer>>
       ELSE UNCHANGED <<timer, endVars>>
  /\ UNCHANGED <<managerVars, silenceVars, frameVars, emitCh, wasSpeaking, userTalks, bargeHist>>

ArmEndOfTurn ==
  /\ Step("armEndOfTurn")
  /\ IF EndOfTurn
       THEN /\ Free # {}
            /\ endOfTurnStream' = stream
            /\ timer' = Rearmed(endOfTurnTimer, "end_of_turn", 0, stream)
            /\ endOfTurnTimer' = Fresh
       ELSE UNCHANGED <<timer, endVars>>
  /\ UNCHANGED <<managerVars, silenceVars, frameVars, emitCh, wasSpeaking, userTalks, bargeHist>>

(* OnUserSpeechEnd: the state, then the barge-in timer. *)
Think ==
  /\ Step("think")
  /\ turnState' = Moved(turnState, "THINKING")
  /\ UNCHANGED <<userSpeechStart, flushTimer, silenceVars, endVars, frameVars, emitCh, timer,
                 wasSpeaking, userTalks, bargeHist>>

StopFlush ==
  /\ Step("stopFlush")
  /\ timer' = Stopped(flushTimer)
  /\ UNCHANGED <<managerVars, silenceVars, endVars, frameVars, emitCh, wasSpeaking, userTalks, bargeHist>>

(* OnAgentSpeechStart; OnAgentThinkStart, by way of LISTENING from IDLE; and *)
(* OnAudioComplete.                                                          *)
AgentMoves ==
  /\ \/ Step("speak") /\ turnState' = Moved(turnState, "SPEAKING")
     \/ Step("agentThink")
        /\ turnState' = IF turnState = "IDLE" THEN "THINKING" ELSE Moved(turnState, "THINKING")
     \/ Step("audioComplete")
        /\ turnState' = IF turnState = "SPEAKING" THEN "LISTENING" ELSE turnState
  /\ UNCHANGED <<userSpeechStart, flushTimer, silenceVars, endVars, frameVars, emitCh, timer,
                 wasSpeaking, userTalks, bargeHist>>

(* A mutant: the timer before it is not stopped. *)
SilenceStarts_Again ==
  IF MaxAttempts = 0 THEN UNCHANGED <<timer, silenceTimer>>
  ELSE /\ Free # {}
       /\ timer' = Rearmed(0, "silence", 0, lastID)
       /\ silenceTimer' = Fresh

(* startSilenceTimer *)
SilenceStarts ==
  IF MaxAttempts = 0 THEN UNCHANGED <<timer, silenceTimer>>
  ELSE /\ Free # {}
       /\ timer' = Rearmed(silenceTimer, "silence", 0, lastID)
       /\ silenceTimer' = Fresh

StartSilence ==
  /\ Step("silence")
  /\ SilenceStarts
  /\ raced' = (raced \/ SilenceRuns)
  /\ UNCHANGED <<managerVars, repromptCount, endVars, frameVars, emitCh,
                 wasSpeaking, userTalks, bargeHist>>

Process ==
  Drain \/ ResetSilence \/ StopEndOfTurn \/ Listen \/ StartSpeech \/ ArmEndOfTurn \/ Think
    \/ StopFlush \/ AgentMoves \/ StartSilence

-----------------------------------------------------------------------------
(* The timers' goroutines.                                                   *)
Fire(i) ==
  /\ timer[i].pc = "armed"
  /\ Goto(i, "fired")
  /\ UNCHANGED <<managerVars, silenceVars, endVars, frameVars, emitCh, todo, wasSpeaking,
                 userTalks, bargeHist>>

(* Barge-in: the user still has the floor with the same speech, then flush   *)
(* and cancel.                                                               *)
BargeInCheck(i) ==
  /\ CallbackAt(i, "barge_in", "fired")
  /\ IF turnState = "LISTENING" /\ userSpeechStart = timer[i].start THEN Goto(i, "flush") ELSE Done(i)
  /\ UNCHANGED <<managerVars, silenceVars, endVars, frameVars, emitCh, todo, wasSpeaking,
                 userTalks, bargeHist>>

BargeInFlush(i) ==
  /\ CallbackAt(i, "barge_in", "flush")
  /\ emitCh' = Emitted("flush")
  /\ Goto(i, "cancel")
  /\ UNCHANGED <<managerVars, silenceVars, endVars, frameVars, todo, wasSpeaking, userTalks, bargeHist>>

BargeInCancel(i) ==
  /\ CallbackAt(i, "barge_in", "cancel")
  /\ emitCh' = Emitted("cancel")
  /\ cancelled' = Append(cancelled, timer[i].start)
  /\ Done(i)
  /\ UNCHANGED <<managerVars, silenceVars, endVars, frameVars, todo, wasSpeaking, userTalks, interrupts>>

(* The silence callback, all of it under p.mu: another attempt, and a timer  *)
(* that starts the silence timer again, whose handle takes the place of      *)
(* whatever it finds.                                                        *)
Reprompt(i) ==
  /\ CallbackAt(i, "silence", "fired")
  /\ IF repromptCount >= MaxAttempts
       THEN Done(i) /\ UNCHANGED <<silenceTimer, repromptCount, emitCh>>
       ELSE /\ repromptCount' = repromptCount + 1
            /\ emitCh' = Emitted("reprompt")
            /\ IF repromptCount + 1 < MaxAttempts
                 THEN /\ Free # {}
                      /\ silenceTimer' = Fresh
                      /\ timer' = [timer EXCEPT ![i] = NoTimer, ![Fresh] = [NoTimer EXCEPT
                                     !.kind = "rearm", !.pc = "armed"]]
                 ELSE Done(i) /\ UNCHANGED silenceTimer
  /\ UNCHANGED <<managerVars, raced, endVars, frameVars, todo, wasSpeaking, userTalks, bargeHist>>

SilenceAgain(i) ==
  /\ CallbackAt(i, "rearm", "fired")
  /\ Free # {}
  /\ timer' = [Rearmed(silenceTimer, "silence", 0, lastID) EXCEPT ![i] = NoTimer]
  /\ silenceTimer' = Fresh
  /\ UNCHANGED <<managerVars, repromptCount, raced, endVars, frameVars, emitCh, todo,
                 wasSpeaking, userTalks, bargeHist>>

(* End of turn: the stream, then OnUserSpeechEnd, then a flush. *)
TimeoutCheck(i) ==
  /\ CallbackAt(i, "end_of_turn", "fired")
  /\ IF endOfTurnStream = timer[i].stream
       THEN Goto(i, "think") /\ endOfTurnTimer' = 0
       ELSE Done(i) /\ UNCHANGED endOfTurnTimer
  /\ UNCHANGED <<managerVars, silenceVars, endOfTurnStream, frameVars, emitCh, todo,
                 wasSpeaking, userTalks, bargeHist>>

TimeoutThink(i) ==
  /\ CallbackAt(i, "end_of_turn", "think")
  /\ turnState' = Moved(turnState, "THINKING")
  /\ userTalks' = FALSE
  /\ Goto(i, "stop_flush")
  /\ UNCHANGED <<userSpeechStart, flushTimer, silenceVars, endVars, frameVars, emitCh, todo,
                 wasSpeaking, bargeHist>>

TimeoutStopsFlush(i) ==
  /\ CallbackAt(i, "end_of_turn", "stop_flush")
  /\ timer' = [Stopped(flushTimer) EXCEPT ![i].pc = "flush"]
  /\ UNCHANGED <<managerVars, silenceVars, endVars, frameVars, emitCh, todo, wasSpeaking,
                 userTalks, bargeHist>>

TimeoutFlush(i) ==
  /\ CallbackAt(i, "end_of_turn", "flush")
  /\ emitCh' = Emitted("speech_timeout")
  /\ Done(i)
  /\ UNCHANGED <<managerVars, silenceVars, endVars, frameVars, todo, wasSpeaking, userTalks, bargeHist>>

Callback(i) ==
  \/ Fire(i)
  \/ BargeInCheck(i) \/ BargeInFlush(i) \/ BargeInCancel(i)
  \/ Reprompt(i) \/ SilenceAgain(i)
  \/ TimeoutCheck(i) \/ TimeoutThink(i) \/ TimeoutStopsFlush(i) \/ TimeoutFlush(i)

Next ==
  \/ \E f \in scenario.may : Receive(f)
  \/ Process
  \/ \E i \in Timers : Callback(i)

(* Process runs on, timers expire and their callbacks run; no frame has to   *)
(* come.  Frames and attempts are finitely many, so one condition on all of  *)
(* these steps is the same as one for each.                                  *)
Spec == Init /\ [][Next]_vars /\ WF_vars(Process \/ \E i \in Timers : Callback(i))

-----------------------------------------------------------------------------
(* Types of the manager's and the turn processor's fields and locals.        *)
TypeOK ==
  /\ turnState \in States
  /\ userSpeechStart \in Nat /\ repromptCount \in 0 .. MaxAttempts /\ raced \in BOOLEAN
  /\ {flushTimer, silenceTimer, endOfTurnTimer} \subseteq Timers \cup {0}
  /\ {endOfTurnStream, lastID, stream} \subseteq Streams \cup {NoStream}
  /\ emitCh \in Seq({"flush", "cancel", "reprompt", "speech_timeout"}) /\ Len(emitCh) <= EmitCap
  /\ timer \in [Timers -> [kind : {"none", "barge_in", "silence", "rearm", "end_of_turn"},
                           start : Nat, stream : Streams \cup {NoStream},
                           pc : {"free", "armed", "fired", "flush", "cancel", "think", "stop_flush"}]]
  /\ todo \in Seq(Steps)
  /\ wasSpeaking \in BOOLEAN /\ userTalks \in BOOLEAN
  /\ scenario \in Scenarios /\ frames \in 0 .. scenario.n
  /\ interrupts \subseteq 1 .. userSpeechStart
  /\ cancelled \in Seq(Nat)

(* A turn the user holds always has a timer that will end it, when timeouts  *)
(* are configured: armed, or fired and not stale, through interim results,   *)
(* reconnects to another stream and callbacks that come late.                *)
WillEndTheTurn(t) ==
  /\ t.kind = "end_of_turn"
  /\ (t.pc \in {"armed", "fired"} /\ t.stream = endOfTurnStream) \/ t.pc = "think"

SpeechIsTimed ==
  EndOfTurn /\ todo = <<>> /\ userTalks /\ turnState = "LISTENING"
    => \E i \in Timers : WillEndTheTurn(timer[i])

(* There is one silence timer, and the handle that resets stop refers to it, *)
(* unless a reset or a new timer came while a callback waited for the mutex: *)
(* such a callback arms a timer that the frame it lost to has just stopped.  *)
SilenceTimerIsHeld ==
  ~raced => \A i \in Timers : timer[i].kind \in {"silence", "rearm"} => i = silenceTimer

(* A barge-in cancels playback only for a speech that began while the agent  *)
(* was speaking, and once for each.                                          *)
InterruptionsAreReal ==
  /\ ToSet(cancelled) \subseteq interrupts
  /\ Cardinality(ToSet(cancelled)) = Len(cancelled)

(* docs/en/turn-management.md, end_of_turn_timeout_ms: force turn end when   *)
(* STT is slow.  No turn the user holds lasts for ever.                      *)
UserHasTheFloor == userTalks /\ turnState = "LISTENING"

EveryTurnEnds == EndOfTurn => (UserHasTheFloor ~> ~UserHasTheFloor)

-----------------------------------------------------------------------------
(* docs/en/turn-management.md, min_barge_in_ms: how quickly speech cancels   *)
(* playback.  So a user who speaks over the agent and goes on does cancel    *)
(* it.  Each interim result is a speech start, which stops the timer of the  *)
(* one before and arms none, as the state is LISTENING already.              *)
BargeInCancels ==
  (interrupts # {} /\ UserHasTheFloor) ~> (cancelled # <<>> \/ ~UserHasTheFloor)
=============================================================================
