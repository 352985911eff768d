--------------------------- MODULE ContextBuffer ---------------------------
(***************************************************************************)
(* pkg/processors/context_buffer.go and the part of context.go that works  *)
(* with a turn manager: transcripts wait in a buffer until the turn        *)
(* manager, whose listener the buffer is, goes from listening to thinking. *)
(* A flush then calls back the context processor, which keeps the text for *)
(* its next Process.                                                       *)
(*                                                                         *)
(* Two mutexes: the buffer's and the processor's.  A section without a     *)
(* call in it is one step that needs its mutex free; a flush holds the     *)
(* buffer's over several.  sync.Mutex is not reentrant.                    *)
(***************************************************************************)
EXTENDS Naturals, Sequences

CONSTANTS
  Listeners,      \* goroutines of the turn manager: its stage, its timers
  Stage,          \* the goroutine of the context processor
  NoOne,          \* a free mutex
  Texts, NoText,
  MaxBufferSize   \* in texts

Goroutines == Listeners \cup {Stage}

VARIABLES
  bufferMu, processorMu,  \* who holds each mutex
  buffer, lastInterim,    \* ContextBuffer
  pendingFlush,           \* ContextProcessor: the flushed contents
  pc, frame,              \* where each goroutine is; the frame of the stage
  content,                \* the local of flushLocked
  unsaid, out             \* bound: each text is said once; history: what has left the stage

bufferVars == <<buffer, lastInterim>>
vars == <<bufferMu, processorMu, bufferVars, pendingFlush, pc, frame, content, unsaid, out>>

NoFrame == [kind |-> "none", text |-> NoText]
FinalOf(x) == [kind |-> "final", text |-> x]
InterimOf(x) == [kind |-> "interim", text |-> x]
FlushFrame == [kind |-> "flush", text |-> NoText]

Init ==
  /\ bufferMu = NoOne /\ processorMu = NoOne
  /\ buffer = <<>> /\ lastInterim = NoText /\ pendingFlush = <<>>
  /\ pc = [g \in Goroutines |-> "idle"]
  /\ frame = NoFrame
  /\ content = [g \in Goroutines |-> <<>>]
  /\ unsaid = Texts /\ out = <<>>

Goto(g, place) == pc' = [pc EXCEPT ![g] = place]
At(g, place) == pc[g] = place

-----------------------------------------------------------------------------
(* Process begins with the contents flushed since the last frame. *)
Process(f) ==
  /\ At(Stage, "idle")
  /\ processorMu = NoOne
  /\ f.kind = "final" => f.text \in unsaid
  /\ unsaid' = IF f.kind = "final" THEN unsaid \ {f.text} ELSE unsaid
  /\ out' = out \o pendingFlush
  /\ pendingFlush' = <<>>
  /\ frame' = f
  /\ Goto(Stage, CASE f.kind = "flush" -> "flush"
                   [] f.kind = "other" -> "idle"
                   [] OTHER -> "set_stream")
  /\ UNCHANGED <<bufferMu, processorMu, bufferVars, content>>

(* Which stream it is does not matter here, the mutex does. *)
SetStreamID ==
  /\ At(Stage, "set_stream")
  /\ bufferMu = NoOne
  /\ Goto(Stage, "add")
  /\ UNCHANGED <<bufferMu, processorMu, bufferVars, pendingFlush, frame, content, unsaid, out>>

(* A buffer that overflows is flushed with its mutex held. *)
AddTranscript ==
  /\ At(Stage, "add")
  /\ bufferMu = NoOne
  /\ IF frame.kind = "interim"
       THEN /\ lastInterim' = frame.text
            /\ Goto(Stage, "idle")
            /\ UNCHANGED <<bufferMu, buffer, content>>
       ELSE /\ buffer' = Append(buffer, frame.text)
            /\ lastInterim' = NoText
            /\ IF Len(buffer) + 1 > MaxBufferSize
                 THEN /\ bufferMu' = Stage
                      /\ content' = [content EXCEPT ![Stage] = Append(buffer, frame.text)]
                      /\ Goto(Stage, "handler")
                 ELSE /\ Goto(Stage, "idle")
                      /\ UNCHANGED <<bufferMu, content>>
  /\ UNCHANGED <<processorMu, pendingFlush, frame, unsaid, out>>

(* The turn manager goes from listening to thinking: in its stage, or in the *)
(* goroutine of the end-of-turn timer.                                       *)
OnStateChange(g) ==
  /\ g \in Listeners /\ At(g, "idle")
  /\ Goto(g, "flush")
  /\ UNCHANGED <<bufferMu, processorMu, bufferVars, pendingFlush, frame, content, unsaid, out>>

(* Without final text the last interim one is taken instead. *)
Flush(g) ==
  /\ At(g, "flush")
  /\ bufferMu = NoOne
  /\ IF buffer = <<>> /\ lastInterim = NoText
       THEN /\ Goto(g, "idle")
            /\ UNCHANGED <<bufferMu, lastInterim, content>>
       ELSE /\ bufferMu' = g
            /\ content' = [content EXCEPT ![g] = IF buffer # <<>> THEN buffer ELSE <<lastInterim>>]
            /\ lastInterim' = IF buffer # <<>> THEN lastInterim ELSE NoText
            /\ Goto(g, "handler")
  /\ UNCHANGED <<processorMu, buffer, pendingFlush, frame, unsaid, out>>

(* The flush handler: the processor's mutex, then the buffer's stream, under *)
(* the buffer's mutex.                                                       *)
HandlerLocks(g) ==
  /\ At(g, "handler")
  /\ processorMu = NoOne
  /\ processorMu' = g
  /\ Goto(g, "stream_id")
  /\ UNCHANGED <<bufferMu, bufferVars, pendingFlush, frame, content, unsaid, out>>

StreamID(g) ==
  /\ At(g, "stream_id")
  /\ bufferMu = NoOne
  /\ Goto(g, "append")
  /\ UNCHANGED <<bufferMu, processorMu, bufferVars, pendingFlush, frame, content, unsaid, out>>

HandlerAppends(g) ==
  /\ At(g, "append")
  /\ pendingFlush' = pendingFlush \o content[g]
  /\ processorMu' = NoOne
  /\ Goto(g, "clear")
  /\ UNCHANGED <<bufferMu, bufferVars, frame, content, unsaid, out>>

ClearBuffer(g) ==
  /\ At(g, "clear")
  /\ buffer' = <<>>
  /\ content' = [content EXCEPT ![g] = <<>>]
  /\ bufferMu' = NoOne
  /\ Goto(g, "idle")
  /\ UNCHANGED <<processorMu, lastInterim, pendingFlush, frame, unsaid, out>>

FlushStep(g) ==
  Flush(g) \/ HandlerLocks(g) \/ StreamID(g) \/ HandlerAppends(g) \/ ClearBuffer(g)

StageStep == SetStreamID \/ AddTranscript \/ FlushStep(Stage)

Frames == {FinalOf(x) : x \in Texts} \cup {InterimOf(x) : x \in Texts}
            \cup {FlushFrame, [kind |-> "other", text |-> NoText]}

Next ==
  \/ \E f \in Frames : Process(f)
  \/ StageStep
  \/ \E g \in Listeners : OnStateChange(g) \/ FlushStep(g)

(* Goroutines run on; strong fairness, as a mutex that becomes free again    *)
(* and again is acquired in the end.  No frame and no turn has to come.      *)
Spec ==
  /\ Init /\ [][Next]_vars
  /\ SF_vars(StageStep)
  /\ \A g \in Listeners : SF_vars(FlushStep(g))

-----------------------------------------------------------------------------
(* Flush, by its comment, flushes the buffered content (thread-safe).  So a  *)
(* goroutine that calls it comes back from it.  One that finds content does  *)
(* not: the handler it calls with the buffer's mutex held asks the buffer    *)
(* for its stream, and waits for that mutex for ever.                        *)
FlushReturns == \A g \in Goroutines : At(g, "flush") ~> At(g, "idle")
=============================================================================
