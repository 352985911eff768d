----------------------------- MODULE TurnProofs -----------------------------
(***************************************************************************)
(* The turn processor's promises for any frames, number of streams, timers *)
(* and attempts.  They rest on what a timer handle may refer to: the       *)
(* runtime gives a new timer a place no handle refers to, so a stale       *)
(* handle never stops a timer of another kind.                             *)
(***************************************************************************)
EXTENDS Turn, FiniteSetTheorems, SequenceTheorems, TLAPS

Handles == {flushTimer, silenceTimer, endOfTurnTimer}

(* A timer is free, or of a kind, at a place of its callback; a handle       *)
(* refers to a free one or to one of its own kind.                           *)
HandlesInv ==
  /\ \A i \in Timers :
       /\ timer[i].kind = "none" => timer[i] = NoTimer
       /\ timer[i].kind = "barge_in" => timer[i].pc \in {"armed", "fired", "flush", "cancel"}
       /\ timer[i].kind \in {"silence", "rearm"} => timer[i].pc \in {"armed", "fired"}
       /\ timer[i].kind = "end_of_turn" =>
            timer[i].pc \in {"armed", "fired", "think", "stop_flush", "flush"}
  /\ flushTimer # 0 => timer[flushTimer].kind \in {"none", "barge_in"}
  /\ silenceTimer # 0 => timer[silenceTimer].kind \in {"none", "silence", "rearm"}
  /\ endOfTurnTimer # 0 => timer[endOfTurnTimer].kind \in {"none", "end_of_turn"}

(* A barge-in timer is for a speech start of its own, which interrupted the *)
(* agent and has not cancelled anything yet.                                *)
BargeInv ==
  /\ \A i \in Timers : timer[i].kind = "barge_in" =>
       timer[i].start \in interrupts /\ timer[i].start \notin ToSet(cancelled)
  /\ \A i, j \in Timers : timer[i].kind = "barge_in" /\ timer[j].kind = "barge_in"
       /\ timer[i].start = timer[j].start => i = j

(* Process has still to arm the end-of-turn timer; and it has whenever it *)
(* has still to let the user begin.                                       *)
WillArm(steps) == \E j \in DOMAIN steps : steps[j] = "armEndOfTurn"

ArmsAfterListening(steps) ==
  \A i \in DOMAIN steps : steps[i] = "listen" =>
    \E j \in DOMAIN steps : j > i /\ steps[j] = "armEndOfTurn"

EndInv ==
  /\ ArmsAfterListening(todo)
  /\ EndOfTurn /\ userTalks => WillArm(todo) \/ \E i \in Timers : WillEndTheTurn(timer[i])

TurnInv ==
  TypeOK /\ HandlesInv /\ BargeInv /\ EndInv /\ SilenceTimerIsHeld /\ InterruptionsAreReal

-----------------------------------------------------------------------------
(* What stopping, arming and moving a timer do. *)
TimerState ==
  [kind : {"none", "barge_in", "silence", "rearm", "end_of_turn"}, start : Nat,
   stream : Streams \cup {NoStream},
   pc : {"free", "armed", "fired", "flush", "cancel", "think", "stop_flush"}]

LEMMA TimersTyped ==
  ASSUME TypeOK
  PROVE  /\ timer \in [Timers -> TimerState] /\ NoTimer \in TimerState
         /\ \A h \in Handles : h \in Timers \cup {0}
         /\ Timers \subseteq Nat \ {0}
BY TurnAssumption DEF TypeOK, TimerState, NoTimer, Handles, Timers

LEMMA FreshTimer ==
  ASSUME Free # {}
  PROVE  Fresh \in Timers /\ timer[Fresh] = NoTimer /\ Fresh \notin Handles
<1>1. Fresh \in Free
  BY DEF Fresh
<1> QED
  BY <1>1 DEF Free, Handles

Stops(h) ==
  /\ timer' \in [Timers -> TimerState]
  /\ \A i \in Timers : timer'[i] = IF i = h /\ timer[i].pc = "armed" THEN NoTimer ELSE timer[i]

LEMMA StoppedStops ==
  ASSUME TypeOK, NEW h \in Timers \cup {0}, timer' = Stopped(h)
  PROVE  Stops(h)
BY TimersTyped DEF Stopped, Stops

(* A new timer t at place n, in the step that stops h and frees i. *)
Arms(h, i, n, t) ==
  /\ timer' \in [Timers -> TimerState]
  /\ n \in Timers /\ timer[n] = NoTimer /\ n \notin Handles
  /\ timer'[n] = t
  /\ \A j \in Timers : j # n =>
       timer'[j] = IF (j = h /\ timer[j].pc = "armed") \/ j = i THEN NoTimer ELSE timer[j]

Armed(kind, start, s) == [kind |-> kind, start |-> start, stream |-> s, pc |-> "armed"]

LEMMA RearmedArms ==
  ASSUME TypeOK, NEW h \in Handles \cup {0}, Free # {},
         NEW kind \in {"barge_in", "silence", "end_of_turn"}, NEW start \in Nat,
         NEW s \in Streams \cup {NoStream}, timer' = Rearmed(h, kind, start, s)
  PROVE  Arms(h, 0, Fresh, Armed(kind, start, s))
<1> DEFINE t == Armed(kind, start, s)
<1>1. t \in TimerState
  BY DEF Armed, TimerState
<1>2. /\ Stopped(h) \in [Timers -> TimerState]
      /\ \A i \in Timers : Stopped(h)[i] = IF i = h /\ timer[i].pc = "armed" THEN NoTimer ELSE timer[i]
  BY TimersTyped DEF Stopped, Handles
<1>3. timer' = [Stopped(h) EXCEPT ![Fresh] = t]
  BY DEF Rearmed, Armed
<1>4. Fresh \in Timers /\ timer[Fresh] = NoTimer /\ Fresh \notin Handles
  BY FreshTimer
<1>5. \A j \in Timers : j # 0
  BY TimersTyped
<1> QED
  BY <1>1, <1>2, <1>3, <1>4, <1>5 DEF Arms

(* A callback moves its timer to pc, or frees it. *)
Moves(i, pc) ==
  /\ timer' \in [Timers -> TimerState]
  /\ timer'[i].pc = pc
  /\ timer'[i].kind = timer[i].kind /\ timer'[i].start = timer[i].start
  /\ timer'[i].stream = timer[i].stream
  /\ \A j \in Timers : j # i => timer'[j] = timer[j]

Frees(i) ==
  /\ timer' \in [Timers -> TimerState]
  /\ \A j \in Timers : timer'[j] = IF j = i THEN NoTimer ELSE timer[j]

LEMMA GotoMoves ==
  ASSUME TypeOK, NEW i \in Timers,
         NEW pc \in {"fired", "flush", "cancel", "think", "stop_flush"}, Goto(i, pc)
  PROVE  Moves(i, pc)
BY TimersTyped DEF Goto, Moves, TimerState

LEMMA DoneFrees ==
  ASSUME TypeOK, NEW i \in Timers, Done(i)
  PROVE  Frees(i)
BY TimersTyped DEF Done, Frees

-----------------------------------------------------------------------------
(* The sequences: what is emitted, and the steps of Process. *)
Signals == {"flush", "cancel", "reprompt", "speech_timeout"}

LEMMA EmittedTyped ==
  ASSUME TypeOK, NEW f \in Signals
  PROVE  Emitted(f) \in Seq(Signals) /\ Len(Emitted(f)) <= EmitCap
<1>1. emitCh \in Seq(Signals) /\ Len(emitCh) \in Nat /\ Len(emitCh) <= EmitCap /\ EmitCap \in Nat
  BY TurnAssumption, LenProperties DEF TypeOK, Signals
<1> QED
  BY <1>1, AppendProperties DEF Emitted

LEMMA EmptyEmits == <<>> \in Seq(Signals) /\ Len(<<>>) <= EmitCap
BY TurnAssumption, EmptySeq

LEMMA StepTakesHead ==
  ASSUME TypeOK, NEW s, Step(s)
  PROVE  /\ todo' \in Seq(Steps) /\ s \in Steps
         /\ Len(todo) \in Nat /\ Len(todo) >= 1
         /\ DOMAIN todo = 1 .. Len(todo) /\ DOMAIN todo' = 1 .. Len(todo) - 1
         /\ todo[1] = s
         /\ \A j \in DOMAIN todo' : todo'[j] = todo[j + 1]
<1>1. todo \in Seq(Steps) /\ todo # <<>> /\ Head(todo) = s /\ todo' = Tail(todo)
  BY DEF TypeOK, Step
<1> HIDE DEF Steps
<1>2. /\ s \in Steps /\ Tail(todo) \in Seq(Steps) /\ todo[1] = s
      /\ Len(Tail(todo)) = Len(todo) - 1
  BY <1>1, HeadTailProperties
<1>3. \A j \in 1 .. Len(Tail(todo)) : Tail(todo)[j] = todo[j + 1]
  BY <1>1, HeadTailProperties
<1>4. /\ Len(todo) \in Nat /\ DOMAIN todo = 1 .. Len(todo)
      /\ Len(Tail(todo)) \in Nat /\ DOMAIN Tail(todo) = 1 .. Len(Tail(todo))
  BY <1>1, <1>2, LenProperties
<1> QED
  BY <1>1, <1>2, <1>3, <1>4

(* Two lists of steps, one after the other. *)
LEMMA ArmsConcat ==
  ASSUME NEW s \in Seq(Steps), NEW t \in Seq(Steps), ArmsAfterListening(s), ArmsAfterListening(t)
  PROVE  s \o t \in Seq(Steps) /\ ArmsAfterListening(s \o t)
<1>1. /\ s \o t \in Seq(Steps) /\ Len(s \o t) = Len(s) + Len(t)
      /\ \A i \in 1 .. Len(s) + Len(t) : (s \o t)[i] = IF i <= Len(s) THEN s[i] ELSE t[i - Len(s)]
  BY ConcatProperties
<1>2. /\ Len(s) \in Nat /\ Len(t) \in Nat /\ DOMAIN s = 1 .. Len(s) /\ DOMAIN t = 1 .. Len(t)
      /\ DOMAIN (s \o t) = 1 .. Len(s) + Len(t)
  BY <1>1, LenProperties
<1>3. ASSUME NEW i \in DOMAIN (s \o t), (s \o t)[i] = "listen"
      PROVE  \E j \in DOMAIN (s \o t) : j > i /\ (s \o t)[j] = "armEndOfTurn"
  <2>1. CASE i <= Len(s)
    <3>1. i \in DOMAIN s /\ s[i] = "listen"
      BY <1>1, <1>2, <1>3, <2>1
    <3>2. PICK j \in DOMAIN s : j > i /\ s[j] = "armEndOfTurn"
      BY <3>1 DEF ArmsAfterListening
    <3>3. j \in DOMAIN (s \o t) /\ (s \o t)[j] = "armEndOfTurn"
      BY <1>1, <1>2, <3>2
    <3> QED
      BY <3>2, <3>3
  <2>2. CASE i > Len(s)
    <3>1. i - Len(s) \in DOMAIN t /\ t[i - Len(s)] = "listen"
      BY <1>1, <1>2, <1>3, <2>2
    <3>2. PICK j \in DOMAIN t : j > i - Len(s) /\ t[j] = "armEndOfTurn"
      BY <3>1 DEF ArmsAfterListening
    <3>3. j + Len(s) \in DOMAIN (s \o t) /\ (s \o t)[j + Len(s)] = "armEndOfTurn"
          /\ j + Len(s) > i
      BY <1>1, <1>2, <1>3, <3>2
    <3> QED
      BY <3>3
  <2> QED
    BY <1>2, <1>3, <2>1, <2>2
<1> QED
  BY <1>1, <1>3 DEF ArmsAfterListening

LEMMA HandlerSteps ==
  ASSUME NEW kind \in FrameKinds
  PROVE  /\ Handler(kind) \o <<"drain">> \in Seq(Steps)
         /\ ArmsAfterListening(Handler(kind) \o <<"drain">>)
<1> DEFINE Good(s) == s \in Seq(Steps) /\ ArmsAfterListening(s)
<1>1. Good(<<>>)
  BY EmptySeq DEF ArmsAfterListening
<1>2. \A s \in Steps \ {"listen"} : Good(<<s>>)
  BY DEF ArmsAfterListening
<1>3. Good(SpeechStart)
  BY DEF SpeechStart, Steps, ArmsAfterListening
<1>4. Good(SpeechEnd)
  BY DEF SpeechEnd, Steps, ArmsAfterListening
<1>5. \A s, t : Good(s) /\ Good(t) => Good(s \o t)
  BY ArmsConcat
<1>6. /\ Good(<<"audioComplete", "silence">>) /\ Good(<<"speak", "reset">>)
      /\ Good(<<"reset", "stopEndOfTurn">>)
  BY DEF Steps, ArmsAfterListening
<1>7. "reset" \in Steps \ {"listen"} /\ "drain" \in Steps \ {"listen"}
      /\ "agentThink" \in Steps \ {"listen"}
  BY DEF Steps
<1> HIDE DEF Good
<1>8. Good(<<"reset">>) /\ Good(<<"drain">>) /\ Good(<<"agentThink">>)
  BY <1>2, <1>7
<1>9. Good(<<"reset">> \o SpeechStart) /\ Good(<<"reset">> \o SpeechEnd)
      /\ Good(SpeechStart \o <<"reset">>) /\ Good(SpeechEnd \o <<"reset">>)
  BY <1>3, <1>4, <1>5, <1>8
<1>10. Good(Handler(kind))
  BY <1>1, <1>6, <1>8, <1>9 DEF Handler, FrameKinds
<1>11. Good(Handler(kind) \o <<"drain">>)
  BY <1>5, <1>8, <1>10
<1> QED
  BY <1>11 DEF Good

-----------------------------------------------------------------------------
(* What each step does to the timers, the handles and the counters. *)
Untimed == UNCHANGED <<timer, flushTimer, silenceTimer, endOfTurnTimer>>

LEMMA ReceiveEffect ==
  ASSUME TypeOK, NEW f \in scenario.may, Receive(f)
  PROVE  /\ Untimed /\ TypeOK'
         /\ ArmsAfterListening(todo')
         /\ todo = <<>>
<1>1. /\ f \in [kind : FrameKinds, stream : Streams] /\ scenario.n \in Nat
      /\ frames \in Nat /\ frames < scenario.n /\ frames' = frames + 1
  BY TurnAssumption DEF TypeOK, Receive
<1>2. /\ todo' \in Seq(Steps) /\ ArmsAfterListening(todo')
  BY <1>1, HandlerSteps DEF Receive
<1>3. emitCh' \in Seq(Signals) /\ Len(emitCh') <= EmitCap
  BY EmptyEmits DEF Receive
<1>4. TypeOK'
  BY <1>1, <1>2, <1>3
     DEF TypeOK, Receive, managerVars, silenceVars, endVars, bargeHist, Signals
<1> QED
  BY <1>2, <1>4 DEF Receive, Untimed, managerVars, silenceVars, endVars

(* The steps of Process that leave the timers alone. *)
LEMMA PlainEffect ==
  ASSUME TypeOK, Drain \/ Listen \/ Think \/ AgentMoves
  PROVE  Untimed /\ TypeOK'
<1>1. todo' \in Seq(Steps)
  BY StepTakesHead DEF Drain, Listen, Think, AgentMoves
<1>2. \A s \in States, to \in States : Moved(s, to) \in States
  BY DEF Moved
<1>3. CASE Drain
  BY <1>1, <1>3, EmptyEmits DEF Drain, TypeOK, Untimed, managerVars, silenceVars, endVars, frameVars,
                                bargeHist, Signals
<1>4. CASE Listen
  BY <1>1, <1>2, <1>4 DEF Listen, TypeOK, Untimed, silenceVars, endVars, frameVars, bargeHist, States
<1>5. CASE Think
  BY <1>1, <1>2, <1>5 DEF Think, TypeOK, Untimed, silenceVars, endVars, frameVars, bargeHist, States
<1>6. CASE AgentMoves
  <2>1. turnState' \in States
    BY <1>2, <1>6 DEF AgentMoves, TypeOK, States
  <2> QED
    BY <1>1, <1>6, <2>1 DEF AgentMoves, TypeOK, Untimed, silenceVars, endVars, frameVars, bargeHist
<1> QED
  BY <1>3, <1>4, <1>5, <1>6

LEMMA StopEffect ==
  ASSUME TypeOK, ResetSilence \/ StopEndOfTurn \/ StopFlush
  PROVE  /\ TypeOK'
         /\ ResetSilence => Stops(silenceTimer)
         /\ StopEndOfTurn => Stops(endOfTurnTimer)
         /\ StopFlush => Stops(flushTimer)
<1>1. todo' \in Seq(Steps)
  BY StepTakesHead DEF ResetSilence, StopEndOfTurn, StopFlush
<1>2. {flushTimer, silenceTimer, endOfTurnTimer} \subseteq Timers \cup {0}
  BY DEF TypeOK
<1>3. /\ ResetSilence => Stops(silenceTimer)
      /\ StopEndOfTurn => Stops(endOfTurnTimer)
      /\ StopFlush => Stops(flushTimer)
  BY <1>2, StoppedStops DEF ResetSilence, StopEndOfTurn, StopFlush
<1>4. timer' \in [Timers -> TimerState]
  BY <1>3 DEF Stops
<1>5. ASSUME ResetSilence PROVE TypeOK'
  BY <1>1, <1>4, <1>5, TurnAssumption
     DEF ResetSilence, TypeOK, TimerState, managerVars, endVars, frameVars, bargeHist
<1>6. ASSUME StopEndOfTurn PROVE TypeOK'
  BY <1>1, <1>4, <1>6
     DEF StopEndOfTurn, TypeOK, TimerState, managerVars, silenceVars, frameVars, bargeHist
<1>7. ASSUME StopFlush PROVE TypeOK'
  BY <1>1, <1>4, <1>7
     DEF StopFlush, TypeOK, TimerState, managerVars, silenceVars, endVars, frameVars, bargeHist
<1> QED
  BY <1>3, <1>5, <1>6, <1>7

(* The steps of Process that arm a timer. *)
LEMMA StartSpeechEffect ==
  ASSUME TypeOK, StartSpeech
  PROVE  /\ TypeOK'
         /\ UNCHANGED <<silenceTimer, endOfTurnTimer, endOfTurnStream, userTalks, raced, cancelled>>
         /\ \/ /\ wasSpeaking /\ interrupts' = interrupts \cup {userSpeechStart + 1}
               /\ flushTimer' = Fresh
               /\ Arms(flushTimer, 0, Fresh, Armed("barge_in", userSpeechStart + 1, NoStream))
            \/ /\ interrupts \subseteq interrupts'
               /\ flushTimer' = flushTimer /\ Stops(flushTimer)
<1>1. todo' \in Seq(Steps) /\ userSpeechStart \in Nat
  BY StepTakesHead DEF StartSpeech, TypeOK
<1>2. flushTimer \in Timers \cup {0} /\ flushTimer \in Handles
  BY DEF TypeOK, Handles
<1>3. \/ /\ wasSpeaking /\ interrupts' = interrupts \cup {userSpeechStart + 1}
         /\ flushTimer' = Fresh /\ Free # {}
         /\ Arms(flushTimer, 0, Fresh, Armed("barge_in", userSpeechStart + 1, NoStream))
      \/ /\ interrupts \subseteq interrupts'
         /\ flushTimer' = flushTimer /\ Stops(flushTimer)
  <2>1. CASE wasSpeaking /\ BargeInEnabled
    <3>1. userSpeechStart + 1 \in Nat
      BY <1>1
    <3>2. Free # {} /\ timer' = Rearmed(flushTimer, "barge_in", userSpeechStart + 1, NoStream)
      BY <2>1 DEF StartSpeech
    <3>3. Arms(flushTimer, 0, Fresh, Armed("barge_in", userSpeechStart + 1, NoStream))
      BY <1>2, <3>1, <3>2, RearmedArms
    <3> QED
      BY <2>1, <3>2, <3>3 DEF StartSpeech
  <2>2. CASE ~(wasSpeaking /\ BargeInEnabled)
    BY <1>2, <2>2, StoppedStops DEF StartSpeech
  <2> QED
    BY <2>1, <2>2
<1>4. timer' \in [Timers -> TimerState] /\ flushTimer' \in Timers \cup {0}
  BY <1>2, <1>3 DEF Arms, Stops
<1>5. interrupts' \subseteq 1 .. userSpeechStart'
  BY <1>1 DEF StartSpeech, TypeOK
<1>6. /\ userSpeechStart' = userSpeechStart + 1 /\ wasSpeaking' = FALSE
      /\ UNCHANGED <<turnState, silenceVars, endVars, frameVars, emitCh, userTalks, cancelled>>
  BY DEF StartSpeech
<1>7. TypeOK'
  <2>1. userSpeechStart' \in Nat
    BY <1>1, <1>6
  <2>3. wasSpeaking' \in BOOLEAN
    BY <1>6, Zenon
  <2>2. /\ UNCHANGED <<turnState, emitCh, userTalks, cancelled, silenceTimer, repromptCount, raced>>
        /\ UNCHANGED <<endOfTurnTimer, endOfTurnStream, lastID, stream, scenario, frames>>
    BY <1>6 DEF silenceVars, endVars, frameVars
  <2> QED
    BY <1>1, <1>4, <1>5, <2>1, <2>2, <2>3 DEF TypeOK, TimerState
<1> QED
  BY <1>3, <1>6, <1>7 DEF silenceVars, endVars

LEMMA ArmEndOfTurnEffect ==
  ASSUME TypeOK, ArmEndOfTurn
  PROVE  /\ TypeOK'
         /\ UNCHANGED <<flushTimer, silenceTimer, userTalks, raced, interrupts, cancelled>>
         /\ \/ /\ EndOfTurn /\ endOfTurnTimer' = Fresh /\ endOfTurnStream' = stream
               /\ Arms(endOfTurnTimer, 0, Fresh, Armed("end_of_turn", 0, stream))
            \/ ~EndOfTurn /\ UNCHANGED <<timer, endOfTurnTimer, endOfTurnStream>>
<1>1. /\ todo' \in Seq(Steps) /\ stream \in Streams \cup {NoStream}
      /\ endOfTurnTimer \in Handles /\ endOfTurnTimer \in Timers \cup {0}
      /\ endOfTurnStream \in Streams \cup {NoStream} /\ timer \in [Timers -> TimerState]
  BY StepTakesHead, TimersTyped DEF ArmEndOfTurn, TypeOK, Handles
<1>2. \/ /\ EndOfTurn /\ endOfTurnTimer' = Fresh /\ endOfTurnStream' = stream
         /\ Arms(endOfTurnTimer, 0, Fresh, Armed("end_of_turn", 0, stream))
      \/ ~EndOfTurn /\ UNCHANGED <<timer, endOfTurnTimer, endOfTurnStream>>
  BY <1>1, RearmedArms DEF ArmEndOfTurn, endVars
<1>3. /\ timer' \in [Timers -> TimerState] /\ endOfTurnTimer' \in Timers \cup {0}
      /\ endOfTurnStream' \in Streams \cup {NoStream}
  BY <1>1, <1>2 DEF Arms
<1>4. TypeOK'
  BY <1>1, <1>3
     DEF ArmEndOfTurn, TypeOK, TimerState, managerVars, silenceVars, frameVars, bargeHist
<1> QED
  BY <1>2, <1>4 DEF ArmEndOfTurn, managerVars, silenceVars, bargeHist

LEMMA StartSilenceEffect ==
  ASSUME TypeOK, StartSilence
  PROVE  /\ TypeOK'
         /\ UNCHANGED <<flushTimer, endOfTurnTimer, endOfTurnStream, userTalks, interrupts, cancelled>>
         /\ raced' = (raced \/ SilenceRuns)
         /\ \/ /\ silenceTimer' = Fresh
               /\ Arms(silenceTimer, 0, Fresh, Armed("silence", 0, lastID))
            \/ UNCHANGED <<timer, silenceTimer>>
<1>1. /\ todo' \in Seq(Steps) /\ lastID \in Streams \cup {NoStream}
      /\ silenceTimer \in Handles /\ silenceTimer \in Timers \cup {0}
      /\ timer \in [Timers -> TimerState]
  BY StepTakesHead, TimersTyped DEF StartSilence, TypeOK, Handles
<1>2. \/ /\ silenceTimer' = Fresh
         /\ Arms(silenceTimer, 0, Fresh, Armed("silence", 0, lastID))
      \/ UNCHANGED <<timer, silenceTimer>>
  BY <1>1, RearmedArms DEF StartSilence, SilenceStarts
<1>3. /\ timer' \in [Timers -> TimerState] /\ silenceTimer' \in Timers \cup {0}
  BY <1>1, <1>2 DEF Arms
<1>4. raced' \in BOOLEAN /\ raced' = (raced \/ SilenceRuns)
  BY DEF StartSilence
<1>5. TypeOK'
  BY <1>1, <1>3, <1>4
     DEF StartSilence, TypeOK, TimerState, managerVars, endVars, frameVars, bargeHist
<1> QED
  BY <1>2, <1>4, <1>5 DEF StartSilence, managerVars, endVars, bargeHist

-----------------------------------------------------------------------------
(* The callbacks. *)
LEMMA FireEffect ==
  ASSUME TypeOK, NEW i \in Timers, Fire(i)
  PROVE  /\ TypeOK' /\ Moves(i, "fired") /\ timer[i].pc = "armed"
         /\ UNCHANGED <<flushTimer, silenceTimer, endOfTurnTimer, endOfTurnStream, userTalks, raced,
                        todo, interrupts, cancelled>>
<1>1. Moves(i, "fired")
  BY GotoMoves DEF Fire
<1> QED
  BY <1>1 DEF Fire, Moves, TypeOK, TimerState, managerVars, silenceVars, endVars, frameVars, bargeHist

LEMMA BargeInEffect ==
  ASSUME TypeOK, NEW i \in Timers, BargeInCheck(i) \/ BargeInFlush(i) \/ BargeInCancel(i)
  PROVE  /\ TypeOK' /\ timer[i].kind = "barge_in"
         /\ UNCHANGED <<flushTimer, silenceTimer, endOfTurnTimer, endOfTurnStream, userTalks, raced,
                        todo, interrupts>>
         /\ \/ (Moves(i, "flush") \/ Moves(i, "cancel") \/ Frees(i)) /\ UNCHANGED cancelled
            \/ Frees(i) /\ cancelled' = Append(cancelled, timer[i].start)
<1>1. timer \in [Timers -> TimerState] /\ cancelled \in Seq(Nat)
  BY TimersTyped DEF TypeOK
<1>2. \/ (Moves(i, "flush") \/ Moves(i, "cancel") \/ Frees(i)) /\ UNCHANGED cancelled
      \/ Frees(i) /\ cancelled' = Append(cancelled, timer[i].start)
  BY GotoMoves, DoneFrees DEF BargeInCheck, BargeInFlush, BargeInCancel, bargeHist
<1>3. timer' \in [Timers -> TimerState] /\ cancelled' \in Seq(Nat)
  <2>1. timer[i].start \in Nat
    BY <1>1 DEF TimerState
  <2>2. cancelled' \in Seq(Nat)
    BY <1>1, <1>2, <2>1, AppendProperties
  <2> QED
    BY <1>2, <2>2 DEF Moves, Frees
<1>4. emitCh' \in Seq(Signals) /\ Len(emitCh') <= EmitCap
  BY EmittedTyped DEF BargeInCheck, BargeInFlush, BargeInCancel, TypeOK, Signals
<1>5. TypeOK'
  BY <1>3, <1>4 DEF BargeInCheck, BargeInFlush, BargeInCancel, TypeOK, TimerState, Signals,
                    managerVars, silenceVars, endVars, frameVars, bargeHist
<1> QED
  BY <1>2, <1>5 DEF BargeInCheck, BargeInFlush, BargeInCancel, CallbackAt, managerVars, silenceVars,
                    endVars, bargeHist

LEMMA SilenceEffect ==
  ASSUME TypeOK, NEW i \in Timers, Reprompt(i) \/ SilenceAgain(i)
  PROVE  /\ TypeOK' /\ timer[i].kind \in {"silence", "rearm"} /\ timer[i].pc = "fired"
         /\ UNCHANGED <<flushTimer, endOfTurnTimer, endOfTurnStream, userTalks, raced, todo,
                        interrupts, cancelled>>
         /\ \/ Frees(i) /\ silenceTimer' = silenceTimer
            \/ /\ silenceTimer' = Fresh
               /\ \/ Arms(0, i, Fresh, [NoTimer EXCEPT !.kind = "rearm", !.pc = "armed"])
                  \/ Arms(silenceTimer, i, Fresh, Armed("silence", 0, lastID))
<1>1. /\ timer \in [Timers -> TimerState] /\ repromptCount \in 0 .. MaxAttempts
      /\ silenceTimer \in Handles /\ silenceTimer \in Timers \cup {0}
      /\ lastID \in Streams \cup {NoStream} /\ MaxAttempts \in Nat
      /\ i # 0 /\ NoTimer \in TimerState
  BY TimersTyped, TurnAssumption DEF TypeOK, Handles
<1>2. timer[i].kind \in {"silence", "rearm"} /\ timer[i].pc = "fired"
  BY DEF Reprompt, SilenceAgain, CallbackAt
<1> DEFINE r == [NoTimer EXCEPT !.kind = "rearm", !.pc = "armed"]
           Again == Armed("silence", 0, lastID)
<1>3. r \in TimerState /\ Again \in TimerState
  BY <1>1 DEF TimerState, NoTimer, Armed
<1>4. ASSUME Free # {}
      PROVE  Fresh \in Timers /\ timer[Fresh] = NoTimer /\ Fresh \notin Handles /\ i # Fresh
  BY <1>2, <1>4, FreshTimer DEF NoTimer
<1>5. ASSUME Reprompt(i)
      PROVE  \/ Frees(i) /\ silenceTimer' = silenceTimer
             \/ silenceTimer' = Fresh /\ Arms(0, i, Fresh, r)
  <2>1. \/ Frees(i) /\ silenceTimer' = silenceTimer
        \/ /\ silenceTimer' = Fresh /\ Free # {}
           /\ timer' = [timer EXCEPT ![i] = NoTimer, ![Fresh] = r]
    BY <1>5, DoneFrees DEF Reprompt
  <2> HIDE DEF r
  <2>2. Free # {} /\ timer' = [timer EXCEPT ![i] = NoTimer, ![Fresh] = r] => Arms(0, i, Fresh, r)
    BY <1>1, <1>3, <1>4, TimersTyped DEF Arms
  <2> QED
    BY <2>1, <2>2
<1>6. ASSUME SilenceAgain(i)
      PROVE  silenceTimer' = Fresh /\ Arms(silenceTimer, i, Fresh, Again)
  <2>1. /\ Free # {} /\ silenceTimer' = Fresh
        /\ timer' = [Rearmed(silenceTimer, "silence", 0, lastID) EXCEPT ![i] = NoTimer]
    BY <1>6 DEF SilenceAgain
  <2>2. /\ Stopped(silenceTimer) \in [Timers -> TimerState]
        /\ \A j \in Timers : Stopped(silenceTimer)[j] =
             IF j = silenceTimer /\ timer[j].pc = "armed" THEN NoTimer ELSE timer[j]
    BY <1>1, TimersTyped DEF Stopped
  <2>3. Rearmed(silenceTimer, "silence", 0, lastID) = [Stopped(silenceTimer) EXCEPT ![Fresh] = Again]
    BY DEF Rearmed, Armed
  <2> HIDE DEF Again
  <2>4. Arms(silenceTimer, i, Fresh, Again)
    BY <1>1, <1>3, <1>4, <2>1, <2>2, <2>3 DEF Arms
  <2> QED
    BY <2>1, <2>4
<1>7. timer' \in [Timers -> TimerState] /\ silenceTimer' \in Timers \cup {0}
  BY <1>1, <1>5, <1>6 DEF Arms, Frees
<1>8. repromptCount' \in 0 .. MaxAttempts /\ emitCh' \in Seq(Signals) /\ Len(emitCh') <= EmitCap
  <2>1. emitCh' \in Seq(Signals) /\ Len(emitCh') <= EmitCap
    <3>1. Emitted("reprompt") \in Seq(Signals) /\ Len(Emitted("reprompt")) <= EmitCap
      BY EmittedTyped DEF Signals
    <3>2. emitCh' = Emitted("reprompt") \/ emitCh' = emitCh
      BY DEF Reprompt, SilenceAgain
    <3>3. emitCh \in Seq(Signals) /\ Len(emitCh) <= EmitCap
      BY DEF TypeOK, Signals
    <3> QED
      BY <3>1, <3>2, <3>3
  <2>2. repromptCount' \in 0 .. MaxAttempts
    <3>1. repromptCount \in 0 .. MaxAttempts /\ MaxAttempts \in Nat
      BY TurnAssumption DEF TypeOK
    <3>2. \/ repromptCount' = repromptCount
          \/ ~(repromptCount >= MaxAttempts) /\ repromptCount' = repromptCount + 1
      BY DEF Reprompt, SilenceAgain
    <3> QED
      BY <3>1, <3>2
  <2> QED
    BY <2>1, <2>2
<1>9. UNCHANGED <<managerVars, raced, endVars, frameVars, todo, wasSpeaking, userTalks, bargeHist>>
  BY DEF Reprompt, SilenceAgain
<1>10. TypeOK'
  BY <1>7, <1>8, <1>9 DEF TypeOK, TimerState, Signals, managerVars, endVars, frameVars, bargeHist
<1> QED
  BY <1>2, <1>5, <1>6, <1>9, <1>10 DEF managerVars, endVars, bargeHist

LEMMA TimeoutEffect ==
  ASSUME TypeOK, NEW i \in Timers,
         TimeoutCheck(i) \/ TimeoutThink(i) \/ TimeoutStopsFlush(i) \/ TimeoutFlush(i)
  PROVE  /\ TypeOK' /\ timer[i].kind = "end_of_turn"
         /\ UNCHANGED <<flushTimer, silenceTimer, endOfTurnStream, raced, todo, interrupts, cancelled>>
         /\ endOfTurnTimer' \in {endOfTurnTimer, 0}
         /\ \/ /\ UNCHANGED userTalks /\ timer[i].pc = "fired"
               /\ timer[i].stream = endOfTurnStream /\ Moves(i, "think")
            \/ /\ UNCHANGED userTalks /\ timer[i].pc = "fired"
               /\ timer[i].stream # endOfTurnStream /\ Frees(i)
            \/ ~userTalks' /\ Moves(i, "stop_flush")
            \/ /\ UNCHANGED userTalks /\ timer[i].pc = "stop_flush"
               /\ timer' = [Stopped(flushTimer) EXCEPT ![i].pc = "flush"]
               /\ timer' \in [Timers -> TimerState]
            \/ UNCHANGED userTalks /\ timer[i].pc = "flush" /\ Frees(i)
<1>1. /\ timer \in [Timers -> TimerState] /\ flushTimer \in Timers \cup {0}
      /\ Stopped(flushTimer) \in [Timers -> TimerState]
  BY TimersTyped DEF TypeOK, Stopped
<1>2. timer[i].kind = "end_of_turn"
  BY DEF TimeoutCheck, TimeoutThink, TimeoutStopsFlush, TimeoutFlush, CallbackAt
<1>3. ASSUME TimeoutCheck(i)
      PROVE  /\ UNCHANGED userTalks /\ timer[i].pc = "fired"
             /\ \/ timer[i].stream = endOfTurnStream /\ Moves(i, "think")
                \/ timer[i].stream # endOfTurnStream /\ Frees(i)
  BY <1>3, GotoMoves, DoneFrees DEF TimeoutCheck, CallbackAt
<1>4. ASSUME TimeoutThink(i)
      PROVE  ~userTalks' /\ Moves(i, "stop_flush")
  BY <1>4, GotoMoves DEF TimeoutThink
<1>5. ASSUME TimeoutStopsFlush(i)
      PROVE  /\ UNCHANGED userTalks /\ timer[i].pc = "stop_flush"
             /\ timer' = [Stopped(flushTimer) EXCEPT ![i].pc = "flush"]
             /\ timer' \in [Timers -> TimerState]
  <2>1. timer[i].pc = "stop_flush" /\ timer' = [Stopped(flushTimer) EXCEPT ![i].pc = "flush"]
        /\ UNCHANGED userTalks
    BY <1>5 DEF TimeoutStopsFlush, CallbackAt
  <2>2. PICK ts \in [Timers -> TimerState] : ts = Stopped(flushTimer)
    BY <1>1
  <2>3. [ts[i] EXCEPT !.pc = "flush"] \in TimerState
    BY <2>2 DEF TimerState
  <2>4. timer' = [ts EXCEPT ![i] = [ts[i] EXCEPT !.pc = "flush"]]
    BY <2>1, <2>2
  <2> QED
    BY <2>1, <2>2, <2>3, <2>4
<1>6. ASSUME TimeoutFlush(i)
      PROVE  UNCHANGED userTalks /\ timer[i].pc = "flush" /\ Frees(i)
  BY <1>6, DoneFrees DEF TimeoutFlush, CallbackAt
<1>7. timer' \in [Timers -> TimerState]
  BY <1>3, <1>4, <1>5, <1>6 DEF Moves, Frees
<1>8. /\ turnState' \in States /\ userTalks' \in BOOLEAN
      /\ emitCh' \in Seq(Signals) /\ Len(emitCh') <= EmitCap
      /\ endOfTurnTimer' \in {endOfTurnTimer, 0}
  BY EmittedTyped DEF TimeoutCheck, TimeoutThink, TimeoutStopsFlush, TimeoutFlush, TypeOK, Signals,
                      Moved, States, managerVars, endVars
<1>9. UNCHANGED <<userSpeechStart, flushTimer, silenceVars, endOfTurnStream, frameVars, todo,
                  wasSpeaking, bargeHist>>
  BY DEF TimeoutCheck, TimeoutThink, TimeoutStopsFlush, TimeoutFlush, managerVars, endVars
<1>10. TypeOK'
  BY <1>7, <1>8, <1>9 DEF TypeOK, TimerState, Signals, silenceVars, frameVars, bargeHist
<1> QED
  BY <1>2, <1>3, <1>4, <1>5, <1>6, <1>8, <1>9, <1>10 DEF silenceVars, bargeHist

-----------------------------------------------------------------------------
(* No timer but those that are stopped goes, and none comes. *)
Thins == \A j \in Timers : timer'[j] \in {timer[j], NoTimer}

LEMMA ThinsKeeps ==
  ASSUME TypeOK, HandlesInv, BargeInv, Thins,
         UNCHANGED <<flushTimer, endOfTurnTimer, cancelled>>, silenceTimer' \in {silenceTimer, 0},
         interrupts \subseteq interrupts'
  PROVE  HandlesInv' /\ BargeInv'
<1>1. \A h \in Handles : h # 0 => h \in Timers
  BY TimersTyped
<1>2. HandlesInv'
  BY <1>1 DEF HandlesInv, Thins, NoTimer, Handles
<1>3. BargeInv'
  BY DEF BargeInv, Thins, NoTimer
<1> QED
  BY <1>2, <1>3

(* SilenceTimerIsHeld, where no silence timer comes or is let go. *)
LEMMA ThinsKeepsSilence ==
  ASSUME SilenceTimerIsHeld, Thins, UNCHANGED silenceTimer, raced' = raced
  PROVE  SilenceTimerIsHeld'
BY DEF SilenceTimerIsHeld, Thins, NoTimer

(* A stopped timer is not an end-of-turn timer, but for its own handle's. *)
LEMMA StopsKeepsEnd ==
  ASSUME TypeOK, HandlesInv, NEW h \in {flushTimer, silenceTimer}, Stops(h), UNCHANGED endOfTurnStream,
         NEW i \in Timers, WillEndTheTurn(timer[i])
  PROVE  WillEndTheTurn(timer[i])'
<1>1. timer'[i] = timer[i]
  <2>1. h # 0 => timer[h].kind # "end_of_turn"
    BY DEF HandlesInv
  <2> QED
    BY <2>1, TimersTyped DEF Stops, WillEndTheTurn
<1> QED
  BY <1>1 DEF WillEndTheTurn

(* The steps of Process left to take, when one has been taken. *)
LEMMA StepKeepsTodo ==
  ASSUME TypeOK, NEW s, Step(s), ArmsAfterListening(todo)
  PROVE  /\ ArmsAfterListening(todo')
         /\ s # "armEndOfTurn" /\ WillArm(todo) => WillArm(todo')
         /\ s = "listen" => WillArm(todo')
<1>1. /\ Len(todo) \in Nat /\ Len(todo) >= 1
      /\ DOMAIN todo = 1 .. Len(todo) /\ DOMAIN todo' = 1 .. Len(todo) - 1
      /\ todo[1] = s
      /\ \A j \in DOMAIN todo' : todo'[j] = todo[j + 1]
  BY StepTakesHead
<1>2. \A j \in DOMAIN todo : j > 1 => j - 1 \in DOMAIN todo' /\ todo'[j - 1] = todo[j]
  BY <1>1
<1>3. ASSUME NEW i \in DOMAIN todo', todo'[i] = "listen"
      PROVE  \E j \in DOMAIN todo' : j > i /\ todo'[j] = "armEndOfTurn"
  <2>1. i + 1 \in DOMAIN todo /\ todo[i + 1] = "listen"
    BY <1>1, <1>3
  <2>2. PICK j \in DOMAIN todo : j > i + 1 /\ todo[j] = "armEndOfTurn"
    BY <2>1 DEF ArmsAfterListening
  <2>3. j - 1 \in DOMAIN todo' /\ j - 1 > i /\ todo'[j - 1] = "armEndOfTurn"
    BY <1>1, <1>2, <2>2
  <2> QED
    BY <2>3
<1>4. ASSUME s # "armEndOfTurn", WillArm(todo)
      PROVE  WillArm(todo')
  <2>1. PICK j \in DOMAIN todo : todo[j] = "armEndOfTurn"
    BY <1>4 DEF WillArm
  <2>2. j > 1
    BY <1>1, <1>4, <2>1
  <2> QED
    BY <1>2, <2>1, <2>2 DEF WillArm
<1>5. ASSUME s = "listen"
      PROVE  WillArm(todo')
  <2>1. 1 \in DOMAIN todo /\ todo[1] = "listen"
    BY <1>1, <1>5
  <2>2. PICK j \in DOMAIN todo : j > 1 /\ todo[j] = "armEndOfTurn"
    BY <2>1 DEF ArmsAfterListening
  <2> QED
    BY <1>2, <2>2 DEF WillArm
<1> QED
  BY <1>3, <1>4, <1>5 DEF ArmsAfterListening

-----------------------------------------------------------------------------
LEMMA UntimedInv ==
  ASSUME TurnInv, (\E f \in scenario.may : Receive(f)) \/ Drain \/ Listen \/ Think \/ AgentMoves
  PROVE  TurnInv'
<1> USE DEF TurnInv
<1>1. Untimed /\ TypeOK'
  BY ReceiveEffect, PlainEffect
<1>2. UNCHANGED <<raced, endOfTurnStream, interrupts, cancelled>>
  BY DEF Receive, Drain, Listen, Think, AgentMoves, silenceVars, endVars, bargeHist
<1>3. Thins
  BY <1>1 DEF Untimed, Thins
<1>4. HandlesInv' /\ BargeInv' /\ SilenceTimerIsHeld' /\ InterruptionsAreReal'
  BY <1>1, <1>2, <1>3, ThinsKeeps, ThinsKeepsSilence DEF Untimed, InterruptionsAreReal
<1>5. (\E i \in Timers : WillEndTheTurn(timer[i])) => \E i \in Timers : WillEndTheTurn(timer[i])'
  BY <1>1, <1>2 DEF Untimed, WillEndTheTurn
<1>6. EndInv'
  <2>1. ASSUME NEW f \in scenario.may, Receive(f)
        PROVE  EndInv'
    <3>1. todo = <<>> /\ ArmsAfterListening(todo') /\ userTalks' = userTalks
      BY <2>1, ReceiveEffect DEF Receive
    <3>2. ~WillArm(todo)
      BY <3>1 DEF WillArm
    <3> QED
      BY <1>5, <3>1, <3>2 DEF EndInv
  <2>2. CASE Listen
    <3>1. ArmsAfterListening(todo') /\ WillArm(todo')
      BY <2>2, StepKeepsTodo DEF Listen, EndInv
    <3> QED
      BY <3>1 DEF EndInv
  <2>3. CASE Drain \/ Think \/ AgentMoves
    <3>1. ArmsAfterListening(todo') /\ (WillArm(todo) => WillArm(todo')) /\ userTalks' = userTalks
      BY <2>3, StepKeepsTodo DEF Drain, Think, AgentMoves, EndInv
    <3> QED
      BY <1>5, <3>1 DEF EndInv
  <2> QED
    BY <2>1, <2>2, <2>3
<1> QED
  BY <1>1, <1>4, <1>6

LEMMA StopInv ==
  ASSUME TurnInv, ResetSilence \/ StopEndOfTurn \/ StopFlush
  PROVE  TurnInv'
<1> USE DEF TurnInv
<1>1. TypeOK' /\ (ResetSilence => Stops(silenceTimer)) /\ (StopEndOfTurn => Stops(endOfTurnTimer))
      /\ (StopFlush => Stops(flushTimer))
  BY StopEffect
<1>2. Thins
  BY <1>1 DEF Stops, Thins
<1>3. /\ UNCHANGED <<flushTimer, interrupts, cancelled>> /\ silenceTimer' \in {silenceTimer, 0}
      /\ ArmsAfterListening(todo') /\ (WillArm(todo) => WillArm(todo'))
  BY StepKeepsTodo DEF ResetSilence, StopEndOfTurn, StopFlush, managerVars, silenceVars, bargeHist, EndInv
<1>4. InterruptionsAreReal'
  BY <1>3 DEF InterruptionsAreReal
<1>5. CASE ResetSilence
  <2>1. /\ UNCHANGED <<endOfTurnTimer, endOfTurnStream, userTalks>>
        /\ silenceTimer' = 0 /\ raced' = (raced \/ SilenceRuns)
    BY <1>5 DEF ResetSilence, endVars
  <2>2. HandlesInv' /\ BargeInv'
    BY <1>2, <1>3, <2>1, ThinsKeeps
  <2>3. SilenceTimerIsHeld'
    <3> SUFFICES ASSUME ~raced', NEW i \in Timers, timer'[i].kind \in {"silence", "rearm"}
                 PROVE  FALSE
      BY DEF SilenceTimerIsHeld
    <3>1. timer[i] = timer'[i] /\ ~(i = silenceTimer /\ timer[i].pc = "armed")
      BY <1>1, <1>5 DEF Stops, NoTimer
    <3>2. i = silenceTimer
      BY <2>1, <3>1 DEF SilenceTimerIsHeld
    <3>3. timer[i].pc = "fired"
      BY <3>1, <3>2 DEF HandlesInv
    <3> QED
      BY <2>1, <3>1, <3>3 DEF SilenceRuns
  <2>4. EndInv'
    BY <1>1, <1>3, <1>5, <2>1, StopsKeepsEnd DEF EndInv
  <2> QED
    BY <1>1, <1>4, <2>2, <2>3, <2>4
<1>6. CASE StopEndOfTurn
  <2>1. /\ UNCHANGED <<silenceTimer, raced>> /\ ~userTalks' /\ endOfTurnTimer' = 0
    BY <1>6 DEF StopEndOfTurn, silenceVars
  <2>2. BargeInv' /\ HandlesInv'
    <3>1. \A h \in Handles : h # 0 => h \in Timers
      BY TimersTyped
    <3>2. HandlesInv'
      BY <1>2, <1>3, <2>1, <3>1 DEF HandlesInv, Thins, NoTimer, Handles
    <3> QED
      BY <1>2, <1>3, <3>2 DEF BargeInv, Thins, NoTimer
  <2>3. SilenceTimerIsHeld' /\ EndInv'
    BY <1>2, <1>3, <2>1, ThinsKeepsSilence DEF EndInv
  <2> QED
    BY <1>1, <1>4, <2>2, <2>3
<1>7. CASE StopFlush
  <2>1. UNCHANGED <<silenceTimer, raced, endOfTurnTimer, endOfTurnStream, userTalks>>
    BY <1>7 DEF StopFlush, silenceVars, endVars
  <2>2. HandlesInv' /\ BargeInv' /\ SilenceTimerIsHeld'
    BY <1>2, <1>3, <2>1, ThinsKeeps, ThinsKeepsSilence
  <2>3. EndInv'
    BY <1>1, <1>3, <1>7, <2>1, StopsKeepsEnd DEF EndInv
  <2> QED
    BY <1>1, <1>4, <2>2, <2>3
<1> QED
  BY <1>5, <1>6, <1>7

(* A speech start that interrupts the agent: no timer has its number yet. *)
LEMMA StartSpeechInv ==
  ASSUME TurnInv, StartSpeech
  PROVE  TurnInv'
<1> USE DEF TurnInv
<1> DEFINE n == userSpeechStart + 1
<1>1. /\ TypeOK' /\ userSpeechStart \in Nat
      /\ UNCHANGED <<silenceTimer, endOfTurnTimer, endOfTurnStream, userTalks, raced, cancelled>>
      /\ interrupts \subseteq interrupts'
      /\ \/ /\ interrupts' = interrupts \cup {n} /\ flushTimer' = Fresh
            /\ Arms(flushTimer, 0, Fresh, Armed("barge_in", n, NoStream))
         \/ flushTimer' = flushTimer /\ Stops(flushTimer)
  BY StartSpeechEffect DEF TypeOK
<1>2. ArmsAfterListening(todo') /\ (WillArm(todo) => WillArm(todo'))
  BY StepKeepsTodo DEF StartSpeech, EndInv
<1>3. InterruptionsAreReal'
  BY <1>1 DEF InterruptionsAreReal
<1>4. CASE flushTimer' = flushTimer /\ Stops(flushTimer)
  <2>1. Thins
    BY <1>4 DEF Stops, Thins
  <2>2. HandlesInv' /\ BargeInv' /\ SilenceTimerIsHeld'
    BY <1>1, <1>4, <2>1, ThinsKeeps, ThinsKeepsSilence
  <2>3. EndInv'
    BY <1>1, <1>2, <1>4, StopsKeepsEnd DEF EndInv
  <2> QED
    BY <1>1, <1>3, <2>2, <2>3
<1>5. CASE /\ interrupts' = interrupts \cup {n} /\ flushTimer' = Fresh
           /\ Arms(flushTimer, 0, Fresh, Armed("barge_in", n, NoStream))
  <2>1. /\ Fresh \in Timers /\ timer[Fresh] = NoTimer /\ Fresh \notin Handles
        /\ timer'[Fresh].kind = "barge_in" /\ timer'[Fresh].pc = "armed" /\ timer'[Fresh].start = n
        /\ \A j \in Timers : j # Fresh =>
             \/ timer'[j] = timer[j]
             \/ timer'[j] = NoTimer /\ j = flushTimer
    BY <1>5, TimersTyped DEF Arms, Armed
  <2>2. \A h \in Handles : h # 0 => h \in Timers
    BY TimersTyped
  <2>3. HandlesInv'
    BY <1>1, <1>5, <2>1, <2>2 DEF HandlesInv, Handles, NoTimer
  <2>4. n \notin interrupts /\ n \notin ToSet(cancelled)
    BY <1>1 DEF TypeOK, InterruptionsAreReal
  <2>5. BargeInv'
    BY <1>1, <1>5, <2>1, <2>4 DEF BargeInv, NoTimer
  <2>6. SilenceTimerIsHeld'
    BY <1>1, <2>1 DEF SilenceTimerIsHeld, NoTimer
  <2>7. EndInv'
    <3>1. ASSUME NEW i \in Timers, WillEndTheTurn(timer[i])
          PROVE  WillEndTheTurn(timer[i])'
      <4>1. timer[i].kind = "end_of_turn" /\ i # Fresh /\ i # flushTimer
        BY <2>1, <3>1, TimersTyped DEF WillEndTheTurn, HandlesInv, NoTimer
      <4>2. timer'[i] = timer[i]
        BY <2>1, <4>1
      <4> QED
        BY <1>1, <3>1, <4>2 DEF WillEndTheTurn
    <3> QED
      BY <1>1, <1>2, <3>1 DEF EndInv
  <2> QED
    BY <1>1, <1>3, <2>3, <2>5, <2>6, <2>7
<1> QED
  BY <1>1, <1>4, <1>5

LEMMA ArmEndOfTurnInv ==
  ASSUME TurnInv, ArmEndOfTurn
  PROVE  TurnInv'
<1> USE DEF TurnInv
<1>1. /\ TypeOK'
      /\ UNCHANGED <<flushTimer, silenceTimer, userTalks, raced, interrupts, cancelled>>
      /\ \/ /\ EndOfTurn /\ endOfTurnTimer' = Fresh /\ endOfTurnStream' = stream
            /\ Arms(endOfTurnTimer, 0, Fresh, Armed("end_of_turn", 0, stream))
         \/ ~EndOfTurn /\ UNCHANGED <<timer, endOfTurnTimer, endOfTurnStream>>
  BY ArmEndOfTurnEffect
<1>2. ArmsAfterListening(todo')
  BY StepKeepsTodo DEF ArmEndOfTurn, EndInv
<1>3. InterruptionsAreReal'
  BY <1>1 DEF InterruptionsAreReal
<1>4. CASE ~EndOfTurn /\ UNCHANGED <<timer, endOfTurnTimer, endOfTurnStream>>
  <2>1. Thins
    BY <1>4 DEF Thins
  <2>2. HandlesInv' /\ BargeInv' /\ SilenceTimerIsHeld'
    BY <1>1, <1>4, <2>1, ThinsKeeps, ThinsKeepsSilence
  <2> QED
    BY <1>1, <1>2, <1>3, <1>4, <2>2 DEF EndInv
<1>5. CASE /\ EndOfTurn /\ endOfTurnTimer' = Fresh /\ endOfTurnStream' = stream
           /\ Arms(endOfTurnTimer, 0, Fresh, Armed("end_of_turn", 0, stream))
  <2>1. /\ Fresh \in Timers /\ timer[Fresh] = NoTimer /\ Fresh \notin Handles
        /\ timer'[Fresh].kind = "end_of_turn" /\ timer'[Fresh].pc = "armed"
        /\ timer'[Fresh].stream = stream
        /\ \A j \in Timers : j # Fresh => timer'[j] \in {timer[j], NoTimer}
    BY <1>5, TimersTyped DEF Arms, Armed
  <2>2. \A h \in Handles : h # 0 => h \in Timers
    BY TimersTyped
  <2>3. HandlesInv'
    BY <1>1, <1>5, <2>1, <2>2 DEF HandlesInv, Handles, NoTimer
  <2>4. BargeInv'
    BY <1>1, <2>1 DEF BargeInv, NoTimer
  <2>5. SilenceTimerIsHeld'
    BY <1>1, <2>1 DEF SilenceTimerIsHeld, NoTimer
  <2>6. PICK i \in Timers : i = Fresh
    BY <2>1
  <2>7. WillEndTheTurn(timer[i])'
    BY <1>5, <2>1, <2>6 DEF WillEndTheTurn
  <2>8. EndInv'
    BY <1>2, <2>7 DEF EndInv
  <2> QED
    BY <1>1, <1>3, <2>3, <2>4, <2>5, <2>8
<1> QED
  BY <1>1, <1>4, <1>5

(* A silence timer comes, and takes the handle of the one that went. *)
LEMMA SilenceTimerComes ==
  ASSUME TypeOK, HandlesInv, BargeInv, EndInv,
         NEW h \in {0, silenceTimer}, NEW i \in Timers \cup {0}, NEW t,
         Arms(h, i, Fresh, t), t.kind \in {"silence", "rearm"}, t.pc = "armed",
         i # 0 => timer[i].kind \in {"silence", "rearm"},
         silenceTimer' = Fresh,
         UNCHANGED <<flushTimer, endOfTurnTimer, endOfTurnStream, userTalks, interrupts, cancelled>>,
         ArmsAfterListening(todo'), WillArm(todo) => WillArm(todo'),
         ~raced' => \A j \in Timers : timer[j].kind \in {"silence", "rearm"} =>
                      j = i \/ (j = h /\ timer[j].pc = "armed")
  PROVE  HandlesInv' /\ BargeInv' /\ EndInv' /\ SilenceTimerIsHeld'
<1>1. /\ Fresh \in Timers /\ timer[Fresh] = NoTimer /\ Fresh \notin Handles
      /\ timer'[Fresh] = t
      /\ \A j \in Timers : j # Fresh => timer'[j] \in {timer[j], NoTimer}
  BY DEF Arms
<1>2. \A f \in Handles : f # 0 => f \in Timers
  BY TimersTyped
<1>3. HandlesInv'
  BY <1>1, <1>2 DEF HandlesInv, Handles, NoTimer
<1>4. BargeInv'
  BY <1>1 DEF BargeInv, NoTimer
<1>5. SilenceTimerIsHeld'
  BY <1>1 DEF SilenceTimerIsHeld, Arms, NoTimer
<1>6. ASSUME NEW k \in Timers, WillEndTheTurn(timer[k])
      PROVE  WillEndTheTurn(timer[k])'
  <2>1. k # 0 /\ timer[k].kind = "end_of_turn" /\ k # Fresh /\ k # i
    BY <1>1, <1>6, TimersTyped DEF WillEndTheTurn, NoTimer
  <2>2. k # h
    BY <2>1 DEF HandlesInv
  <2>3. timer'[k] = timer[k]
    BY <2>1, <2>2 DEF Arms
  <2> QED
    BY <1>6, <2>3 DEF WillEndTheTurn
<1>7. EndInv'
  BY <1>6 DEF EndInv
<1> QED
  BY <1>3, <1>4, <1>5, <1>7

LEMMA StartSilenceInv ==
  ASSUME TurnInv, StartSilence
  PROVE  TurnInv'
<1> USE DEF TurnInv
<1>1. /\ TypeOK'
      /\ UNCHANGED <<flushTimer, endOfTurnTimer, endOfTurnStream, userTalks, interrupts, cancelled>>
      /\ raced' = (raced \/ SilenceRuns)
      /\ \/ /\ silenceTimer' = Fresh
            /\ Arms(silenceTimer, 0, Fresh, Armed("silence", 0, lastID))
         \/ UNCHANGED <<timer, silenceTimer>>
  BY StartSilenceEffect
<1>2. ArmsAfterListening(todo') /\ (WillArm(todo) => WillArm(todo'))
  BY StepKeepsTodo DEF StartSilence, EndInv
<1>3. InterruptionsAreReal'
  BY <1>1 DEF InterruptionsAreReal
<1>4. CASE /\ silenceTimer' = Fresh
           /\ Arms(silenceTimer, 0, Fresh, Armed("silence", 0, lastID))
  <2>1. ASSUME ~raced', NEW j \in Timers, timer[j].kind \in {"silence", "rearm"}
        PROVE  j = silenceTimer /\ timer[j].pc = "armed"
    BY <1>1, <2>1 DEF SilenceTimerIsHeld, SilenceRuns, HandlesInv
  <2>2. Armed("silence", 0, lastID).kind = "silence" /\ Armed("silence", 0, lastID).pc = "armed"
    BY DEF Armed
  <2> QED
    BY <1>1, <1>2, <1>3, <1>4, <2>1, <2>2, SilenceTimerComes
<1>5. CASE UNCHANGED <<timer, silenceTimer>>
  <2>1. Thins
    BY <1>5 DEF Thins
  <2>2. HandlesInv' /\ BargeInv'
    BY <1>1, <1>5, <2>1, ThinsKeeps
  <2>3. SilenceTimerIsHeld' /\ EndInv'
    BY <1>1, <1>2, <1>5 DEF SilenceTimerIsHeld, EndInv, WillEndTheTurn
  <2> QED
    BY <1>1, <1>3, <2>2, <2>3
<1> QED
  BY <1>1, <1>4, <1>5

LEMMA SilenceInv ==
  ASSUME TurnInv, NEW i \in Timers, Reprompt(i) \/ SilenceAgain(i)
  PROVE  TurnInv'
<1> USE DEF TurnInv
<1> DEFINE r == [NoTimer EXCEPT !.kind = "rearm", !.pc = "armed"]
           Again == Armed("silence", 0, lastID)
<1>1. /\ TypeOK' /\ timer[i].kind \in {"silence", "rearm"}
      /\ UNCHANGED <<flushTimer, endOfTurnTimer, endOfTurnStream, userTalks, raced, todo,
                     interrupts, cancelled>>
      /\ \/ Frees(i) /\ silenceTimer' = silenceTimer
         \/ /\ silenceTimer' = Fresh
            /\ Arms(0, i, Fresh, r) \/ Arms(silenceTimer, i, Fresh, Again)
  BY SilenceEffect
<1>2. InterruptionsAreReal' /\ ArmsAfterListening(todo') /\ (WillArm(todo) => WillArm(todo'))
  BY <1>1 DEF InterruptionsAreReal, EndInv
<1>3. ASSUME ~raced', NEW j \in Timers, timer[j].kind \in {"silence", "rearm"}
      PROVE  j = i
  BY <1>1, <1>3 DEF SilenceTimerIsHeld
<1>4. CASE Frees(i) /\ silenceTimer' = silenceTimer
  <2>1. Thins
    BY <1>4 DEF Frees, Thins
  <2>2. HandlesInv' /\ BargeInv' /\ SilenceTimerIsHeld'
    BY <1>1, <1>4, <2>1, ThinsKeeps, ThinsKeepsSilence
  <2>3. EndInv'
    BY <1>1, <1>4 DEF EndInv, Frees, WillEndTheTurn
  <2> QED
    BY <1>1, <1>2, <2>2, <2>3
<1>5. r.kind = "rearm" /\ r.pc = "armed" /\ Again.kind = "silence" /\ Again.pc = "armed"
  BY DEF NoTimer, Armed
<1> HIDE DEF r, Again
<1>6. CASE silenceTimer' = Fresh /\ Arms(0, i, Fresh, r)
  BY <1>1, <1>2, <1>3, <1>5, <1>6, SilenceTimerComes
<1>7. CASE silenceTimer' = Fresh /\ Arms(silenceTimer, i, Fresh, Again)
  BY <1>1, <1>2, <1>3, <1>5, <1>7, SilenceTimerComes
<1> QED
  BY <1>1, <1>4, <1>6, <1>7

(* A callback goes on: its timer keeps its kind. *)
LEMMA MovesKeeps ==
  ASSUME TypeOK, HandlesInv, BargeInv, SilenceTimerIsHeld, NEW i \in Timers, NEW pc, Moves(i, pc),
         timer[i].kind \in {"silence", "rearm"} => pc = "fired",
         timer[i].kind = "barge_in" => pc \in {"fired", "flush", "cancel"},
         timer[i].kind = "end_of_turn" => pc \in {"fired", "think", "stop_flush", "flush"},
         timer[i].kind # "none",
         UNCHANGED <<flushTimer, silenceTimer, raced, interrupts, cancelled>>,
         endOfTurnTimer' \in {endOfTurnTimer, 0}
  PROVE  HandlesInv' /\ BargeInv' /\ SilenceTimerIsHeld'
<1>1. /\ timer'[i].pc = pc /\ timer'[i].kind = timer[i].kind /\ timer'[i].start = timer[i].start
      /\ \A j \in Timers : j # i => timer'[j] = timer[j]
  BY DEF Moves
<1>2. \A h \in Handles : h # 0 => h \in Timers
  BY TimersTyped
<1>3. HandlesInv'
  BY <1>1, <1>2 DEF HandlesInv, Handles
<1>4. BargeInv'
  BY <1>1 DEF BargeInv
<1>5. SilenceTimerIsHeld'
  BY <1>1 DEF SilenceTimerIsHeld
<1> QED
  BY <1>3, <1>4, <1>5

LEMMA FireInv ==
  ASSUME TurnInv, NEW i \in Timers, Fire(i)
  PROVE  TurnInv'
<1> USE DEF TurnInv
<1>1. /\ TypeOK' /\ Moves(i, "fired") /\ timer[i].pc = "armed"
      /\ UNCHANGED <<flushTimer, silenceTimer, endOfTurnTimer, endOfTurnStream, userTalks, raced,
                     todo, interrupts, cancelled>>
  BY FireEffect
<1>2. timer[i].kind # "none"
  BY <1>1 DEF HandlesInv, NoTimer
<1>3. HandlesInv' /\ BargeInv' /\ SilenceTimerIsHeld'
  BY <1>1, <1>2, MovesKeeps
<1>4. ASSUME NEW k \in Timers, WillEndTheTurn(timer[k])
      PROVE  WillEndTheTurn(timer[k])'
  BY <1>1, <1>4 DEF Moves, WillEndTheTurn
<1>5. EndInv' /\ InterruptionsAreReal'
  BY <1>1, <1>4 DEF EndInv, InterruptionsAreReal
<1> QED
  BY <1>1, <1>3, <1>5

(* One more cancel, of a speech start that has none yet. *)
LEMMA CancelledOnceMore ==
  ASSUME TypeOK, InterruptionsAreReal, NEW n \in interrupts, n \notin ToSet(cancelled),
         cancelled' = Append(cancelled, n), UNCHANGED interrupts
  PROVE  InterruptionsAreReal' /\ ToSet(cancelled') = ToSet(cancelled) \cup {n}
<1>1. /\ cancelled \in Seq(Nat) /\ n \in Nat /\ userSpeechStart \in Nat
      /\ interrupts \subseteq 1 .. userSpeechStart
  BY DEF TypeOK
<1>2. /\ Len(cancelled) \in Nat /\ DOMAIN cancelled = 1 .. Len(cancelled)
      /\ cancelled' \in Seq(Nat) /\ Len(cancelled') = Len(cancelled) + 1
      /\ cancelled'[Len(cancelled) + 1] = n
      /\ \A j \in 1 .. Len(cancelled) : cancelled'[j] = cancelled[j]
  BY <1>1, AppendProperties, LenProperties
<1>3. DOMAIN cancelled' = 1 .. Len(cancelled) + 1
  BY <1>2, LenProperties
<1>4. ToSet(cancelled') = ToSet(cancelled) \cup {n}
  BY <1>2, <1>3 DEF ToSet
<1>5. IsFiniteSet(ToSet(cancelled))
  <2>1. ToSet(cancelled) \subseteq 1 .. userSpeechStart
    BY <1>1 DEF InterruptionsAreReal
  <2>2. IsFiniteSet(1 .. userSpeechStart)
    BY <1>1, FS_Interval
  <2> QED
    BY <2>1, <2>2, FS_Subset
<1>6. Cardinality(ToSet(cancelled) \cup {n}) = Cardinality(ToSet(cancelled)) + 1
  BY <1>5, FS_AddElement
<1> QED
  BY <1>2, <1>4, <1>6 DEF InterruptionsAreReal

LEMMA BargeInInv ==
  ASSUME TurnInv, NEW i \in Timers, BargeInCheck(i) \/ BargeInFlush(i) \/ BargeInCancel(i)
  PROVE  TurnInv'
<1> USE DEF TurnInv
<1>1. /\ TypeOK' /\ timer[i].kind = "barge_in"
      /\ UNCHANGED <<flushTimer, silenceTimer, endOfTurnTimer, endOfTurnStream, userTalks, raced,
                     todo, interrupts>>
      /\ \/ (Moves(i, "flush") \/ Moves(i, "cancel") \/ Frees(i)) /\ UNCHANGED cancelled
         \/ Frees(i) /\ cancelled' = Append(cancelled, timer[i].start)
  BY BargeInEffect
<1>2. \A k \in Timers : k # i => timer'[k] = timer[k]
  BY <1>1 DEF Moves, Frees
<1>3. EndInv'
  <2>1. ASSUME NEW k \in Timers, WillEndTheTurn(timer[k])
        PROVE  WillEndTheTurn(timer[k])'
    BY <1>1, <1>2, <2>1 DEF WillEndTheTurn
  <2> QED
    BY <1>1, <2>1 DEF EndInv
<1>4. CASE (Moves(i, "flush") \/ Moves(i, "cancel")) /\ UNCHANGED cancelled
  <2>1. HandlesInv' /\ BargeInv' /\ SilenceTimerIsHeld'
    BY <1>1, <1>4, MovesKeeps
  <2> QED
    BY <1>1, <1>3, <1>4, <2>1 DEF InterruptionsAreReal
<1>5. CASE Frees(i)
  <2>1. Thins
    BY <1>5 DEF Frees, Thins
  <2>2. \A h \in Handles : h # 0 => h \in Timers
    BY TimersTyped
  <2>3. HandlesInv'
    BY <1>1, <2>1, <2>2 DEF HandlesInv, Thins, NoTimer, Handles
  <2>4. SilenceTimerIsHeld'
    BY <1>1, <2>1, ThinsKeepsSilence
  <2>5. CASE UNCHANGED cancelled
    <3>1. BargeInv' /\ InterruptionsAreReal'
      BY <1>1, <2>1, <2>5, ThinsKeeps DEF InterruptionsAreReal
    <3> QED
      BY <1>1, <1>3, <2>3, <2>4, <3>1
  <2>6. CASE cancelled' = Append(cancelled, timer[i].start)
    <3>1. timer[i].start \in interrupts /\ timer[i].start \notin ToSet(cancelled)
      BY <1>1 DEF BargeInv
    <3>2. /\ InterruptionsAreReal'
          /\ ToSet(cancelled') = ToSet(cancelled) \cup {timer[i].start}
      BY <1>1, <2>6, <3>1, CancelledOnceMore
    <3>3. \A k \in Timers : timer'[k].kind = "barge_in" => k # i /\ timer'[k] = timer[k]
      BY <1>5 DEF Frees, NoTimer
    <3>4. \A k \in Timers : timer'[k].kind = "barge_in" => timer[k].start # timer[i].start
      BY <1>1, <3>3 DEF BargeInv
    <3>5. BargeInv'
      <4>1. ASSUME NEW k \in Timers, timer'[k].kind = "barge_in"
            PROVE  timer'[k].start \in interrupts' /\ timer'[k].start \notin ToSet(cancelled')
        BY <1>1, <3>2, <3>3, <3>4, <4>1 DEF BargeInv
      <4>2. ASSUME NEW k \in Timers, NEW l \in Timers, timer'[k].kind = "barge_in",
                   timer'[l].kind = "barge_in", timer'[k].start = timer'[l].start
            PROVE  k = l
        BY <3>3, <4>2 DEF BargeInv
      <4> QED
        BY <4>1, <4>2 DEF BargeInv
    <3> QED
      BY <1>1, <1>3, <2>3, <2>4, <3>2, <3>5
  <2> QED
    BY <1>1, <2>5, <2>6
<1> QED
  BY <1>1, <1>4, <1>5

LEMMA TimeoutInv ==
  ASSUME TurnInv, NEW i \in Timers,
         TimeoutCheck(i) \/ TimeoutThink(i) \/ TimeoutStopsFlush(i) \/ TimeoutFlush(i)
  PROVE  TurnInv'
<1> USE DEF TurnInv
<1>1. /\ TypeOK' /\ timer[i].kind = "end_of_turn"
      /\ UNCHANGED <<flushTimer, silenceTimer, endOfTurnStream, raced, todo, interrupts, cancelled>>
      /\ endOfTurnTimer' \in {endOfTurnTimer, 0}
  BY TimeoutEffect
<1>2. InterruptionsAreReal' /\ ArmsAfterListening(todo') /\ (WillArm(todo) => WillArm(todo'))
  BY <1>1 DEF InterruptionsAreReal, EndInv
<1>3. \A h \in Handles : h # 0 => h \in Timers
  BY TimersTyped
<1>4. CASE /\ UNCHANGED userTalks /\ timer[i].pc = "fired"
           /\ timer[i].stream = endOfTurnStream /\ Moves(i, "think")
  <2>1. HandlesInv' /\ BargeInv' /\ SilenceTimerIsHeld'
    BY <1>1, <1>4, MovesKeeps
  <2>2. WillEndTheTurn(timer[i])'
    BY <1>1, <1>4 DEF Moves, WillEndTheTurn
  <2>3. EndInv'
    BY <1>2, <2>2 DEF EndInv
  <2> QED
    BY <1>1, <1>2, <2>1, <2>3
<1>5. CASE /\ UNCHANGED userTalks /\ Frees(i)
           /\ \/ timer[i].pc = "fired" /\ timer[i].stream # endOfTurnStream
              \/ timer[i].pc = "flush"
  <2>1. Thins
    BY <1>5 DEF Frees, Thins
  <2>2. HandlesInv' /\ BargeInv' /\ SilenceTimerIsHeld'
    <3>1. HandlesInv'
      BY <1>1, <1>3, <2>1 DEF HandlesInv, Thins, NoTimer, Handles
    <3>2. BargeInv'
      BY <1>1, <2>1 DEF BargeInv, Thins, NoTimer
    <3> QED
      BY <1>1, <2>1, <3>1, <3>2, ThinsKeepsSilence
  <2>3. ASSUME NEW k \in Timers, WillEndTheTurn(timer[k])
        PROVE  WillEndTheTurn(timer[k])'
    <3>1. k # i
      BY <1>5, <2>3 DEF WillEndTheTurn
    <3>2. timer'[k] = timer[k]
      BY <1>5, <3>1 DEF Frees
    <3> QED
      BY <1>1, <2>3, <3>2 DEF WillEndTheTurn
  <2>4. EndInv'
    BY <1>2, <1>5, <2>3 DEF EndInv
  <2> QED
    BY <1>1, <1>2, <2>2, <2>4
<1>6. CASE ~userTalks' /\ Moves(i, "stop_flush")
  <2>1. HandlesInv' /\ BargeInv' /\ SilenceTimerIsHeld'
    BY <1>1, <1>6, MovesKeeps
  <2> QED
    BY <1>1, <1>2, <1>6, <2>1 DEF EndInv
<1>7. CASE /\ UNCHANGED userTalks /\ timer[i].pc = "stop_flush"
           /\ timer' = [Stopped(flushTimer) EXCEPT ![i].pc = "flush"]
           /\ timer' \in [Timers -> TimerState]
  <2>1. flushTimer # i
    BY <1>1, TimersTyped DEF HandlesInv
  <2>2. /\ Stopped(flushTimer) \in [Timers -> TimerState]
        /\ \A k \in Timers : Stopped(flushTimer)[k] =
             IF k = flushTimer /\ timer[k].pc = "armed" THEN NoTimer ELSE timer[k]
    <3>1. timer \in [Timers -> TimerState] /\ NoTimer \in TimerState
      BY TimersTyped
    <3>2. flushTimer # 0 => flushTimer \in Timers
      BY <1>3 DEF Handles
    <3>3. \A k \in Timers : k # 0
      BY TimersTyped
    <3> QED
      BY <3>1, <3>2, <3>3 DEF Stopped
  <2>3. /\ timer'[i].kind = timer[i].kind /\ timer'[i].pc = "flush"
        /\ \A k \in Timers : k # i =>
             \/ timer'[k] = timer[k]
             \/ k = flushTimer /\ timer'[k] = NoTimer
    BY <1>7, <2>1, <2>2 DEF TimerState
  <2>4. HandlesInv'
    BY <1>1, <1>3, <2>1, <2>3 DEF HandlesInv, Handles, NoTimer
  <2>5. BargeInv'
    BY <1>1, <2>3 DEF BargeInv, NoTimer
  <2>6. SilenceTimerIsHeld'
    BY <1>1, <2>3 DEF SilenceTimerIsHeld, NoTimer
  <2>7. ASSUME NEW k \in Timers, WillEndTheTurn(timer[k])
        PROVE  WillEndTheTurn(timer[k])'
    <3>1. k # i /\ k # flushTimer
      BY <1>3, <1>7, <2>7, TimersTyped DEF WillEndTheTurn, HandlesInv
    <3>2. timer'[k] = timer[k]
      BY <2>3, <3>1
    <3> QED
      BY <1>1, <2>7, <3>2 DEF WillEndTheTurn
  <2>8. EndInv'
    BY <1>2, <1>7, <2>7 DEF EndInv
  <2> QED
    BY <1>1, <1>2, <2>4, <2>5, <2>6, <2>8
<1> QED
  BY <1>4, <1>5, <1>6, <1>7, TimeoutEffect

-----------------------------------------------------------------------------
LEMMA TurnInitInv == Init => TurnInv
<1> SUFFICES ASSUME Init PROVE TurnInv
  OBVIOUS
<1> USE DEF Init
<1>1. \A i \in Timers : timer[i] = NoTimer
  OBVIOUS
<1>2. TypeOK
  <2>1. timer \in [Timers -> TimerState]
    BY DEF NoTimer, TimerState
  <2>2. emitCh \in Seq(Signals) /\ Len(emitCh) <= EmitCap /\ todo \in Seq(Steps) /\ cancelled \in Seq(Nat)
    BY EmptyEmits
  <2>3. frames \in 0 .. scenario.n /\ repromptCount \in 0 .. MaxAttempts
    BY TurnAssumption
  <2>4. turnState \in States /\ userSpeechStart \in Nat /\ interrupts \subseteq 1 .. userSpeechStart
    BY DEF States
  <2>5. raced \in BOOLEAN /\ wasSpeaking \in BOOLEAN /\ userTalks \in BOOLEAN
    BY Zenon
  <2> QED
    BY <2>1, <2>2, <2>3, <2>4, <2>5 DEF TypeOK, TimerState, Signals
<1>3. HandlesInv /\ BargeInv /\ SilenceTimerIsHeld
  BY <1>1 DEF HandlesInv, BargeInv, SilenceTimerIsHeld, NoTimer
<1>4. EndInv
  BY DEF EndInv, ArmsAfterListening
<1>5. InterruptionsAreReal
  <2>1. ToSet(cancelled) = {} /\ Len(cancelled) = 0
    BY DEF ToSet
  <2> QED
    BY <2>1, FS_EmptySet DEF InterruptionsAreReal
<1> QED
  BY <1>2, <1>3, <1>4, <1>5 DEF TurnInv

LEMMA TurnNextInv == TurnInv /\ [Next]_vars => TurnInv'
<1> SUFFICES ASSUME TurnInv, [Next]_vars PROVE TurnInv'
  OBVIOUS
<1>1. CASE UNCHANGED vars
  BY <1>1 DEF vars, managerVars, silenceVars, endVars, frameVars, bargeHist, TurnInv, TypeOK,
              HandlesInv, BargeInv, EndInv, SilenceTimerIsHeld, InterruptionsAreReal,
              WillEndTheTurn
<1>2. ASSUME NEW f \in scenario.may, Receive(f)
      PROVE  TurnInv'
  BY <1>2, UntimedInv
<1>3. CASE Process
  BY <1>3, UntimedInv, StopInv, StartSpeechInv, ArmEndOfTurnInv, StartSilenceInv DEF Process
<1>4. ASSUME NEW i \in Timers, Callback(i)
      PROVE  TurnInv'
  BY <1>4, FireInv, BargeInInv, SilenceInv, TimeoutInv DEF Callback
<1> QED
  BY <1>1, <1>2, <1>3, <1>4 DEF Next

LEMMA TurnInvariant == Spec => []TurnInv
BY TurnInitInv, TurnNextInv, PTL DEF Spec

-----------------------------------------------------------------------------
(* The fields of the manager and of the turn processor have their types, the *)
(* counts keep within the attempts configured and the channel's capacity.    *)
THEOREM TurnTypeCorrect == Spec => []TypeOK
<1>1. TurnInv => TypeOK
  BY DEF TurnInv
<1> QED
  BY <1>1, TurnInvariant, PTL

(* When Process has returned, a turn the user holds has a timer that will    *)
(* end it: every speech start re-arms the timer, and no other step stops it  *)
(* or makes it stale before the turn is over.                                *)
THEOREM TurnsAreTimed == Spec => []SpeechIsTimed
<1>1. TurnInv => SpeechIsTimed
  <2>1. todo = <<>> => ~WillArm(todo)
    BY DEF WillArm
  <2> QED
    BY <2>1 DEF TurnInv, EndInv, SpeechIsTimed
<1> QED
  BY <1>1, TurnInvariant, PTL

(* Without the race with a callback that waits for the mutex, the processor  *)
(* has one silence timer at most, and it can stop it.                        *)
THEOREM SilenceTimerStaysHeld == Spec => []SilenceTimerIsHeld
<1>1. TurnInv => SilenceTimerIsHeld
  BY DEF TurnInv
<1> QED
  BY <1>1, TurnInvariant, PTL

(* Playback is cancelled only for speech that began while the agent was      *)
(* speaking, and once for each.                                              *)
THEOREM CancelsAreForInterruptions == Spec => []InterruptionsAreReal
<1>1. TurnInv => InterruptionsAreReal
  BY DEF TurnInv
<1> QED
  BY <1>1, TurnInvariant, PTL
=============================================================================
