--------------------------- MODULE SpeechSessions ---------------------------
(***************************************************************************)
(* What pkg/processors/stt_processor.go and tts_processor.go do alike: the *)
(* provider's sessions of one call, opened when a frame needs one, closed  *)
(* when its stream is replaced, ended or retried; the stream the call is   *)
(* on; the breaker.  One goroutine calls Process, and one more, when the   *)
(* call's context ends, CloseAll: a section under the mutex is a step.     *)
(*                                                                         *)
(* A session that is closed is also taken out of the map in the same       *)
(* section, so the sessions here are those that are open.                  *)
(***************************************************************************)
EXTENDS CircuitBreaker, Sequences, SequencesExt, Functions, FiniteSets

CONSTANTS
  Streams, NoStream,
  Items,          \* pieces of audio or texts, in the order they come
  Langs,
  MaxSessions     \* bound: sessions that are ever started

VARIABLE proc     \* the processor

(* A frame: its kind, its stream, whether it names its call, its language    *)
(* and what it carries, 0 for nothing.                                       *)
SpeechFrame(kind, s, named, lang, item) ==
  [kind |-> kind, stream |-> s, named |-> named, lang |-> lang, item |-> item]

Idle == [pc |-> "idle"]

NewProcessor ==
  [sessions |-> <<>>,        \* by number, in the order they are started
   started |-> 0,
   callStream |-> NoStream,
   tracked |-> {},           \* streamCall: the streams that know their call
   replay |-> [s \in Streams |-> <<>>],
   breaker |-> NewBreaker,
   closedAll |-> FALSE,      \* history
   task |-> Idle]            \* Process: the frame, and where it stands

SpeechInit == proc = NewProcessor

task == proc.task
frame == task.frame
sessions == proc.sessions

At(pc) == task.pc = pc
Goto(p, pc) == [p EXCEPT !.task.pc = pc]
Done(p) == [p EXCEPT !.task = Idle]

Begin(f, pc) ==
  /\ At("idle")
  /\ proc' = [proc EXCEPT !.task =
       [pc |-> pc, frame |-> f, tries |-> 0, replayed |-> FALSE, prev |-> NoStream,
        session |-> 0, origin |-> "current"]]

(* The call and the stream of a frame are put together, if it names both. *)
Names(f) == f.named /\ f.stream # NoStream

-----------------------------------------------------------------------------
(* The sessions and the stream of the call.                                  *)
OfStream(p, s) == {i \in DOMAIN p.sessions : p.sessions[i].stream = s}

CloseStream(p, s) ==
  [p EXCEPT !.sessions = Restrict(@, DOMAIN @ \ OfStream(p, s)),
            !.callStream = IF s \in p.tracked /\ @ = s THEN NoStream ELSE @,
            !.tracked = @ \ {s},
            !.replay[s] = <<>>]

Tracked(p, s) ==
  Goto([p EXCEPT !.callStream = s, !.tracked = @ \cup {s}], "handle")

(* A mutant: the stream that is replaced is left alone. *)
TrackCallStream_Forgets ==
  /\ At("track")
  /\ proc' = Tracked(proc, frame.stream)

TrackCallStream ==
  /\ At("track")
  /\ proc' = IF proc.callStream \in {NoStream, frame.stream}
               THEN Tracked(proc, frame.stream)
               ELSE Goto([proc EXCEPT !.task.prev = proc.callStream], "replace")

(* The mutex is released while the replaced stream is closed. *)
ReplaceStream ==
  /\ At("replace")
  /\ proc' = Goto(CloseStream(proc, task.prev), "replaced")

TrackReplacement ==
  /\ At("replaced")
  /\ proc' = Tracked(proc, frame.stream)

StreamForCall == IF frame.stream # NoStream THEN frame.stream
                 ELSE IF frame.named THEN proc.callStream ELSE NoStream

(* The end of a frame that closes its stream, or the call's. *)
CallEnd(p) == Done(IF StreamForCall = NoStream THEN p ELSE CloseStream(p, StreamForCall))

(* A mutant: the mutex is not held while a session is started. *)
CloseAll_Unlocked ==
  proc' = [proc EXCEPT !.sessions = <<>>, !.callStream = NoStream, !.tracked = {},
                       !.replay = [s \in Streams |-> <<>>], !.closedAll = TRUE]

(* At the end of the call's context.  Start runs under the mutex. *)
CloseAll ==
  /\ ~At("starting")
  /\ proc' = [proc EXCEPT !.sessions = <<>>, !.callStream = NoStream, !.tracked = {},
                          !.replay = [s \in Streams |-> <<>>], !.closedAll = TRUE]

-----------------------------------------------------------------------------
(* getOrCreate, and the retries.                                             *)
Found == {i \in DOMAIN sessions :
            sessions[i].stream = frame.stream /\ sessions[i].lang = frame.lang}

(* History: why a session is opened that may be of another stream than the   *)
(* call's.                                                                   *)
Origin == IF proc.closedAll THEN "late"
          ELSE IF ~frame.named THEN "unnamed"
          ELSE IF task.tries > 0 THEN "retry" ELSE "current"

(* A mutant: a session is opened without looking for one. *)
GetOrCreate_Always ==
  /\ At("create")
  /\ proc' = Goto([proc EXCEPT !.task.origin = Origin], "starting")

GetOrCreate ==
  /\ At("create")
  /\ proc' = IF Found # {}
               THEN Goto([proc EXCEPT !.task.session = CHOOSE i \in Found : TRUE], "send")
               ELSE Goto([proc EXCEPT !.task.origin = Origin], "starting")

NewSession == [stream |-> frame.stream, lang |-> frame.lang, origin |-> task.origin,
               dead |-> FALSE, got |-> <<>>, out |-> <<>>]

StartReturns ==
  /\ At("starting") /\ proc.started < MaxSessions
  /\ LET n == proc.started + 1
     IN proc' = Goto([proc EXCEPT !.started = n, !.task.session = n,
                                  !.sessions = [i \in DOMAIN @ \cup {n} |->
                                    IF i = n THEN NewSession ELSE @[i]]], "send")

(* Start or a send fails: a first session that does not start is not         *)
(* retried.  The last error is the one the breaker hears of.                 *)
MayRetry == (At("send") \/ task.tries > 0) /\ TriesAgain(task.tries)

(* A mutant: the retry goes to the same session. *)
Retry_SameSession ==
  /\ At("retry")
  /\ proc' = Goto([proc EXCEPT !.task.tries = @ + 1], "create")

(* The stream is closed before every retry. *)
Retry ==
  /\ At("retry")
  /\ proc' = Goto([CloseStream(proc, frame.stream) EXCEPT !.task.tries = @ + 1], "create")

GaveUp(p, err) == Done([p EXCEPT !.breaker = OnError(@, err)])
Succeeded(p) == Done([p EXCEPT !.breaker = OnSuccess(@)])

CoolDown ==
  /\ proc.breaker.open
  /\ proc' = [proc EXCEPT !.breaker = CooledDown(@)]

(* The connection breaks; nobody is told. *)
Dies(i) ==
  /\ i \in DOMAIN sessions /\ ~sessions[i].dead
  /\ proc' = [proc EXCEPT !.sessions[i].dead = TRUE]

SessionStep == TrackCallStream \/ ReplaceStream \/ TrackReplacement \/ GetOrCreate \/ Retry

-----------------------------------------------------------------------------
SpeechTypeOK ==
  /\ proc.started \in 0 .. MaxSessions
  /\ DOMAIN sessions \subseteq 1 .. proc.started
  /\ \A i \in DOMAIN sessions :
       /\ sessions[i].stream \in Streams /\ sessions[i].lang \in Langs
       /\ sessions[i].got \in Seq(Items)
       /\ sessions[i].origin \in {"current", "late", "unnamed", "retry"}
  /\ proc.callStream \in Streams \cup {NoStream} /\ proc.tracked \subseteq Streams
  /\ proc.replay \in [Streams -> Seq(Items)]
  /\ proc.breaker \in Breaker

(* One session at most of a stream and a language. *)
OneSessionEach ==
  \A i, j \in DOMAIN sessions :
    sessions[i].stream = sessions[j].stream /\ sessions[i].lang = sessions[j].lang => i = j

(* A call that moves to another stream leaves no session behind, unless a    *)
(* retry, a frame without a call, or a frame after CloseAll opened it.       *)
StreamsAreReplaced ==
  \A i \in DOMAIN sessions :
    sessions[i].origin = "current" => sessions[i].stream = proc.callStream
=============================================================================
