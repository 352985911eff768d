---------------------------- MODULE TTSProcessor ----------------------------
(***************************************************************************)
(* pkg/processors/tts_processor.go: texts go to the session of their       *)
(* stream and language, and whatever audio the stream's sessions have made *)
(* goes down the pipeline with every frame that passes.                    *)
(*                                                                         *)
(* The provider is pkg/providers/elevenlabs/tts.go: texts wait in a        *)
(* channel, its audio in another; both drop when they are full, and a      *)
(* session that is closed or dead takes texts all the same.  Other         *)
(* providers, such as the mock, may refuse one.  That a text may also ask  *)
(* for a flush is a message to the provider and is left out.               *)
(***************************************************************************)
EXTENDS SpeechSessions

CONSTANTS WriteCap, AudioCap   \* what a session's channels hold

VARIABLES
  audio,           \* what has been handed on, by stream and language
  given,           \* history: by stream, the texts that have come
  silenced         \* history: the texts that must not be heard any more

ttsHistory == <<audio, given, silenced>>

AudioInit ==
  /\ audio = [k \in Streams \X Langs |-> <<>>]
  /\ given = [s \in Streams |-> {}]
  /\ silenced = {}

Receive(f) ==
  /\ Begin(f, IF Names(f) THEN "track" ELSE "handle")
  /\ given' = IF f.kind = "text" THEN [given EXCEPT ![f.stream] = @ \cup {f.item}] ELSE given
  /\ UNCHANGED <<audio, silenced>>

Silence(items) == silenced' = silenced \cup items

GivenTo(s) == IF s = NoStream THEN {} ELSE given[s]

-----------------------------------------------------------------------------
(* drain: every session of the frame's stream.                               *)
Drained(p, s) ==
  [p EXCEPT !.sessions = [i \in DOMAIN @ |->
     IF i \in OfStream(p, s) THEN [@[i] EXCEPT !.out = <<>>] ELSE @[i]]]

HandOn(p, s) ==
  audio' = [k \in DOMAIN audio |->
    IF \E i \in OfStream(p, s) : k = <<s, p.sessions[i].lang>>
      THEN audio[k] \o p.sessions[CHOOSE i \in OfStream(p, s) : k = <<s, p.sessions[i].lang>>].out
      ELSE audio[k]]

(* Flush throws away the audio that waits, not the texts. *)
Buffered(s) == UNION {ToSet(sessions[i].out) : i \in OfStream(proc, s)}

FlushStream ==
  /\ proc' = Done(Drained(proc, frame.stream))
  /\ Silence(Buffered(frame.stream))
  /\ UNCHANGED <<audio, given>>

-----------------------------------------------------------------------------
HandleCallEnd ==
  /\ At("handle") /\ frame.kind = "call_end"
  /\ proc' = CallEnd(proc)
  /\ Silence(GivenTo(StreamForCall))
  /\ UNCHANGED <<audio, given>>

HandleInterruption ==
  /\ At("handle") /\ frame.kind = "interruption"
  /\ FlushStream

(* An empty text is at most a message to the provider. *)
HandleEmpty ==
  /\ At("handle") /\ frame.kind = "empty"
  /\ proc' = Done(proc)
  /\ UNCHANGED ttsHistory

Closing == {"cancel", "fallback"}

(* Any other frame is an occasion to drain; a control may do more. *)
HandleOther ==
  /\ At("handle") /\ frame.kind \in Closing \cup {"flush", "other"}
  /\ HandOn(proc, frame.stream)
  /\ proc' = LET p == Drained(proc, frame.stream)
             IN IF frame.kind = "other" THEN Done(p) ELSE Goto(p, "control")
  /\ UNCHANGED <<given, silenced>>

ControlFlush == At("control") /\ frame.kind = "flush" /\ FlushStream

(* A mutant: only the session of the frame's own language is closed. *)
ControlClose_OneLanguage ==
  /\ At("control") /\ frame.kind \in Closing
  /\ proc' = Done([proc EXCEPT !.sessions = Restrict(@, {i \in DOMAIN @ :
                     @[i].stream # frame.stream \/ @[i].lang # frame.lang})])
  /\ Silence(given[frame.stream])
  /\ UNCHANGED <<audio, given>>

ControlClose ==
  /\ At("control") /\ frame.kind \in Closing
  /\ proc' = Done(CloseStream(proc, frame.stream))
  /\ Silence(given[frame.stream])
  /\ UNCHANGED <<audio, given>>

(* With the breaker open there is a fallback instead, and a drain. *)
HandleText ==
  /\ At("handle") /\ frame.kind = "text"
  /\ IF Allows(proc.breaker)
       THEN proc' = Goto(proc, "create") /\ UNCHANGED audio
       ELSE proc' = Done(Drained(proc, frame.stream)) /\ HandOn(proc, frame.stream)
  /\ UNCHANGED <<given, silenced>>

(* The session takes the text, if it is open and its channel has room. *)
Taken ==
  IF task.session \in DOMAIN sessions /\ Len(sessions[task.session].got) < WriteCap
    THEN [proc EXCEPT !.sessions[task.session].got = Append(@, frame.item)]
    ELSE proc

(* A send may fail after the text has been taken. *)
Fails(err, p) ==
  /\ At("starting") \/ At("send")
  /\ IF MayRetry
       THEN proc' = Goto(p, "retry") /\ UNCHANGED audio
       ELSE proc' = GaveUp(Drained(p, frame.stream), err) /\ HandOn(p, frame.stream)
  /\ UNCHANGED <<given, silenced>>

StartFails(err) == At("starting") /\ Fails(err, proc)
SendFails(err) == At("send") /\ (Fails(err, proc) \/ Fails(err, Taken))

Sent ==
  /\ At("send")
  /\ proc' = Succeeded(Drained(Taken, frame.stream))
  /\ HandOn(Taken, frame.stream)
  /\ UNCHANGED <<given, silenced>>

(* The stream that is replaced is closed, and the texts it was given with it. *)
Replace ==
  /\ ReplaceStream
  /\ Silence(given[task.prev])
  /\ UNCHANGED <<audio, given>>

CloseEverything ==
  /\ CloseAll
  /\ Silence((UNION {given[s] : s \in Streams})
               \ IF At("idle") THEN {} ELSE {frame.item})
  /\ UNCHANGED <<audio, given>>

(* The oldest text becomes audio, dropped by a full channel. *)
Speak(i) ==
  /\ i \in DOMAIN sessions /\ ~sessions[i].dead /\ sessions[i].got # <<>>
  /\ proc' = [proc EXCEPT !.sessions[i].got = Tail(@),
                          !.sessions[i].out =
                             IF Len(@) < AudioCap THEN Append(@, Head(sessions[i].got)) ELSE @]
  /\ UNCHANGED ttsHistory

Step ==
  \/ (TrackCallStream \/ TrackReplacement \/ GetOrCreate \/ Retry \/ StartReturns) /\ UNCHANGED ttsHistory
  \/ Replace
  \/ HandleCallEnd \/ HandleInterruption \/ HandleEmpty \/ HandleOther \/ HandleText
  \/ ControlFlush \/ ControlClose
  \/ Sent
  \/ \E err \in Errors : StartFails(err) \/ SendFails(err)
=============================================================================
