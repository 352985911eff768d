---------------------------- MODULE STTProcessor ----------------------------
(***************************************************************************)
(* pkg/processors/stt_processor.go: audio goes to the session of its       *)
(* stream, and what the session has heard by then goes down the pipeline.  *)
(* The audio is kept for a replay on the next session.  Languages choose a *)
(* factory and are left out: a frame that sets one closes the stream,      *)
(* which forgets it.  So are texts, which the processors in between take.  *)
(*                                                                         *)
(* The provider is pkg/providers/deepgram/stt.go: audio is written into a  *)
(* pipe, whose writer waits for the goroutine that streams it; when that   *)
(* has ended, the writer waits until the session is closed.                *)
(***************************************************************************)
EXTENDS SpeechSessions

CONSTANTS
  CodeSwitching,   \* or no factories by language: sessions outlive a change of it
  ReplayCap,
  NoLang,
  OutCap           \* what a session's channel of results holds

VARIABLE down      \* the frames on their way to the TTS processor

Receive(f) == Begin(f, IF f.kind = "audio" /\ Names(f) THEN "track" ELSE "handle")

Emits(fs) == down' = down \o fs
Heartbeat(s) == SpeechFrame("other", s, FALSE, NoLang, 0)
Flush(s) == SpeechFrame("flush", s, TRUE, NoLang, 0)
Fallback == SpeechFrame("fallback", frame.stream, frame.named, NoLang, 0)

(* A frame of the system passes on; it may end the call or set a language. *)
HandleSystem ==
  /\ At("handle") /\ frame.kind \in {"call_end", "language"}
  /\ proc' = IF frame.kind = "call_end" THEN CallEnd(proc)
             ELSE Done(IF CodeSwitching THEN proc ELSE CloseStream(proc, frame.stream))
  /\ Emits(<<[frame EXCEPT !.kind = IF @ = "call_end" THEN @ ELSE "other"]>>)

Remembered(chunks) ==
  LET more == Append(chunks, frame.item)
  IN SubSeq(more, IF Len(more) > ReplayCap THEN Len(more) - ReplayCap + 1 ELSE 1, Len(more))

HandleAudio ==
  /\ At("handle") /\ frame.kind = "audio"
  /\ LET p == [proc EXCEPT !.replay[frame.stream] = Remembered(@)]
     IN IF Allows(p.breaker)
          THEN proc' = Goto(p, "create") /\ UNCHANGED down
          ELSE proc' = Done(p) /\ Emits(<<Fallback>>)

(* The first session a retry opens is given the audio kept, of which the     *)
(* retry has left none: CloseStream forgets it.                              *)
Given == IF task.tries > 0 /\ ~task.replayed
           THEN Append(proc.replay[frame.stream], frame.item) ELSE <<frame.item>>

Open == task.session \in DOMAIN sessions

(* The send, OnSuccess and the drain: nobody else waits for any of them. *)
SendAudio ==
  /\ At("send") /\ Open /\ ~sessions[task.session].dead
  /\ proc' = Succeeded([proc EXCEPT !.sessions[task.session].got = @ \o Given,
                                    !.sessions[task.session].out = <<>>])
  /\ Emits(<<Heartbeat(frame.stream)>> \o sessions[task.session].out)

(* A mutant: a session that is closed does not close its pipe. *)
Fails_PipeOpen(err) ==
  /\ At("starting") \/ (At("send") /\ Open /\ ~sessions[task.session].dead)
  /\ IF MayRetry
       THEN /\ proc' = Goto([proc EXCEPT !.task.replayed = @ \/ (At("send") /\ task.tries > 0)], "retry")
            /\ UNCHANGED down
       ELSE /\ proc' = GaveUp(proc, err)
            /\ Emits(<<Fallback>>)

(* Start fails, or a write into a closed pipe, or any other provider's send. *)
Fails(err) ==
  /\ At("starting") \/ (At("send") /\ (Open => ~sessions[task.session].dead))
  /\ IF MayRetry
       THEN /\ proc' = Goto([proc EXCEPT !.task.replayed = @ \/ (At("send") /\ task.tries > 0)], "retry")
            /\ UNCHANGED down
       ELSE /\ proc' = GaveUp(proc, err)
            /\ Emits(<<Fallback>>)

(* The provider hears speech begin or end: a flush, dropped by a full channel. *)
Hears(i) ==
  /\ i \in DOMAIN sessions /\ ~sessions[i].dead
  /\ sessions[i].got # <<>> /\ Len(sessions[i].out) < OutCap
  /\ proc' = [proc EXCEPT !.sessions[i].out = Append(@, Flush(sessions[i].stream))]
  /\ UNCHANGED down

Step ==
  \/ SessionStep /\ UNCHANGED down
  \/ StartReturns /\ UNCHANGED down
  \/ HandleSystem \/ HandleAudio \/ SendAudio
  \/ \E err \in Errors : Fails(err)

(* The writer waits for a reader that has gone. *)
Stuck == At("send") /\ Open /\ sessions[task.session].dead
=============================================================================
