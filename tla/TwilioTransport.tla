-------------------------- MODULE TwilioTransport --------------------------
(***************************************************************************)
(* pkg/transports/twilio/transport.go: the websocket handlers, one per     *)
(* stream of a call, the status callback, the TTS webhook and Stop, all of *)
(* them goroutines of the HTTP server or the drain, around the maps under  *)
(* the transport's mutex and the channel the engine receives from.         *)
(*                                                                         *)
(* Each section under the mutex is one step, and each send.  A frame's     *)
(* meta is read in an earlier step than the one that sends the frame, and  *)
(* a stream that has been detached meanwhile no longer has a call.  Sends  *)
(* never block: a full channel loses the frame, a closed one makes the     *)
(* handler panic, which net/http recovers.  A stream sends one start (the  *)
(* Twilio protocol); a call that reconnects comes back as a new stream.    *)
(* What the pipeline sends out (Send and session.loop) is not modelled.    *)
(***************************************************************************)
EXTENDS CallIds, Naturals, Sequences, FiniteSets

CONSTANTS
  Streams, NoStream,
  CallOf,        \* the call each stream belongs to, in its start message
  RecvCap,       \* capacity of recvCh (512)
  EventSets      \* bound: the sets of events, one of which may happen

(* What may come from outside, each once: a connection for a stream, a media *)
(* or DTMF message, a status callback, a TTS webhook, Engine.Stop, and the   *)
(* end of the context given to Engine.Start.                                 *)
Events == Streams \cup {"media", "callback", "webhook", "stop", "cancel"}

ASSUME TransportAssumption ==
  /\ NoStream \notin Streams
  /\ CallOf \in [Streams -> Calls]
  /\ RecvCap \in Nat
  /\ EventSets \subseteq SUBSET Events

VARIABLES
  sessions,     \* t.sessions: the streams attached
  callSIDs,     \* t.callSIDs: the call of a stream, or NoCall
  callStreams,  \* t.callStreams: the current stream of a call, or NoStream
  connOpen,     \* the streams whose connection we have not closed
  draining,     \* t.draining
  recvCh, recvClosed,
  handler,      \* ServeHTTP, one per stream: [pc, call, old]
  callback,     \* handleStatusCallback: [pc, call, stream]
  webhook,      \* handleTTSWebhook: [pc, call, stream]
  events        \* the events that may still happen

VARIABLES       \* history
  refused,      \* calls one of whose call_end frames recvCh refused
  ended,        \* streams whose call_end has been sent
  late          \* calls with a frame sent for a stream ended or detached since

transportVars == <<sessions, callSIDs, callStreams, connOpen, draining, recvCh, recvClosed,
                   handler, callback, webhook, events, refused, ended, late>>

maps == <<sessions, callSIDs, callStreams>>
control == <<draining, recvClosed>>
channel == <<recvCh, refused, ended, late>>

(* Frames: call_start, call_end, and everything else. *)
FrameKinds == {"call_start", "call_end", "other"}

TransportInit ==
  /\ sessions = {}
  /\ callSIDs = [s \in Streams |-> NoCall]
  /\ callStreams = [c \in Calls |-> NoStream]
  /\ connOpen = {}
  /\ draining = FALSE
  /\ recvCh = <<>> /\ recvClosed = FALSE
  /\ handler = [s \in Streams |-> [pc |-> "none", call |-> NoCall, old |-> NoStream]]
  /\ callback = [pc |-> "idle", call |-> NoCall, stream |-> NoStream]
  /\ webhook = [pc |-> "idle", call |-> NoCall, stream |-> NoStream]
  /\ events \in EventSets
  /\ refused = {} /\ ended = {} /\ late = {}

HandlerAt(s, pc) == handler[s].pc = pc
Event(e) == e \in events /\ events' = events \ {e}
HandlerGoto(s, pc) == handler' = [handler EXCEPT ![s].pc = pc]

(* A mutant: one frame more than recvCh holds. *)
Send_OffByOne(kind, call, s) ==
  LET full == Len(recvCh) > RecvCap
      isEnd == kind = "call_end"
  IN  /\ ~recvClosed
      /\ recvCh' = IF full THEN recvCh ELSE Append(recvCh, [kind |-> kind, call |-> call])
      /\ refused' = IF full /\ isEnd /\ call # NoCall THEN refused \cup {call} ELSE refused
      /\ UNCHANGED <<ended, late>>

(* nonBlockingSend of a frame of stream s, unless recvCh is closed. *)
Send(kind, call, s) ==
  LET full == Len(recvCh) >= RecvCap
      isEnd == kind = "call_end"
  IN  /\ ~recvClosed
      /\ recvCh' = IF full THEN recvCh ELSE Append(recvCh, [kind |-> kind, call |-> call])
      /\ refused' = IF full /\ isEnd /\ call # NoCall THEN refused \cup {call} ELSE refused
      /\ ended' = IF isEnd THEN ended \cup {s} ELSE ended
      /\ late' = IF ~isEnd /\ call # NoCall /\ (s \in ended \/ callSIDs[s] # call)
                 THEN late \cup {call} ELSE late

-----------------------------------------------------------------------------
(* ServeHTTP: refused when draining, else upgraded to a websocket. *)
Connect(s) ==
  /\ HandlerAt(s, "none")
  /\ ~draining
  /\ Event(s)
  /\ connOpen' = connOpen \cup {s}
  /\ HandlerGoto(s, "connected")
  /\ UNCHANGED <<maps, control, channel, callback, webhook>>

(* A mutant: the replaced stream stays in the maps. *)
Attach_KeepsOld(s) ==
  LET c == CallOf[s]
      old == callStreams[c]
  IN  /\ HandlerAt(s, "connected")
      /\ sessions' = sessions \cup {s}
      /\ callSIDs' = [callSIDs EXCEPT ![s] = c]
      /\ callStreams' = [callStreams EXCEPT ![c] = s]
      /\ handler' = [handler EXCEPT ![s] =
           [@ EXCEPT !.pc = IF old \in sessions THEN "close_old" ELSE "start", !.old = old]]
      /\ UNCHANGED <<connOpen, control, channel, callback, webhook, events>>

(* The start message: attach, which moves the call to this stream. *)
Attach(s) ==
  LET c == CallOf[s]
      old == callStreams[c]
  IN  /\ HandlerAt(s, "connected")
      /\ sessions' = (sessions \ {old}) \cup {s}
      /\ callSIDs' = [t \in Streams |-> IF t = s THEN c ELSE IF t = old THEN NoCall ELSE callSIDs[t]]
      /\ callStreams' = [callStreams EXCEPT ![c] = s]
      /\ handler' = [handler EXCEPT ![s] =
           [@ EXCEPT !.pc = IF old \in sessions THEN "close_old" ELSE "start", !.old = old]]
      /\ UNCHANGED <<connOpen, control, channel, callback, webhook, events>>

(* A mutant: the replaced connection is left open. *)
CloseOld_LeavesOpen(s) ==
  /\ HandlerAt(s, "close_old")
  /\ HandlerGoto(s, "start")
  /\ UNCHANGED <<maps, connOpen, control, channel, callback, webhook, events>>

CloseOld(s) ==
  /\ HandlerAt(s, "close_old")
  /\ connOpen' = connOpen \ {handler[s].old}
  /\ HandlerGoto(s, "start")
  /\ UNCHANGED <<maps, control, channel, callback, webhook, events>>

SendStart(s) ==
  /\ HandlerAt(s, "start")
  /\ Send("call_start", CallOf[s], s)
  /\ HandlerGoto(s, IF handler[s].old = NoStream THEN "reading" ELSE "reconnect")
  /\ UNCHANGED <<maps, connOpen, control, callback, webhook, events>>

(* call_reconnect *)
SendReconnect(s) ==
  /\ HandlerAt(s, "reconnect")
  /\ Send("other", CallOf[s], s)
  /\ HandlerGoto(s, "reading")
  /\ UNCHANGED <<maps, connOpen, control, callback, webhook, events>>

(* A media or DTMF message: the meta, then the send. *)
ReadMedia(s) ==
  /\ HandlerAt(s, "reading")
  /\ s \in connOpen
  /\ Event("media")
  /\ handler' = [handler EXCEPT ![s] = [@ EXCEPT !.pc = "media", !.call = callSIDs[s]]]
  /\ UNCHANGED <<maps, connOpen, control, channel, callback, webhook>>

SendMedia(s) ==
  /\ HandlerAt(s, "media")
  /\ Send("other", handler[s].call, s)
  /\ handler' = [handler EXCEPT ![s] = [@ EXCEPT !.pc = "reading", !.call = NoCall]]
  /\ UNCHANGED <<maps, connOpen, control, callback, webhook, events>>

(* A mutant: the meta is read after detach has cleared it. *)
ReadEnd_NoCall(s) ==
  /\ HandlerAt(s, "reading")
  /\ handler' = [handler EXCEPT ![s] = [@ EXCEPT !.pc = "end", !.call = NoCall]]
  /\ UNCHANGED <<maps, connOpen, control, channel, callback, webhook, events>>

(* The stop message, or the connection is lost or closed: call_end with the *)
(* meta of that moment, then detach.                                        *)
ReadEnd(s) ==
  /\ HandlerAt(s, "reading")
  /\ handler' = [handler EXCEPT ![s] = [@ EXCEPT !.pc = "end", !.call = callSIDs[s]]]
  /\ UNCHANGED <<maps, connOpen, control, channel, callback, webhook, events>>

SendEnd(s) ==
  /\ HandlerAt(s, "end")
  /\ Send("call_end", handler[s].call, s)
  /\ HandlerGoto(s, "detach")
  /\ UNCHANGED <<maps, connOpen, control, callback, webhook, events>>

(* detach's section under the mutex.  A stream that has been replaced is not *)
(* the call's any more.                                                      *)
DetachMaps(s) ==
  LET c == callSIDs[s]
  IN  /\ sessions' = sessions \ {s}
      /\ callSIDs' = [callSIDs EXCEPT ![s] = NoCall]
      /\ callStreams' = IF c # NoCall /\ callStreams[c] = s
                        THEN [callStreams EXCEPT ![c] = NoStream] ELSE callStreams

(* The handler detaches and returns, which closes its connection. *)
Detach(s) ==
  /\ HandlerAt(s, "detach")
  /\ DetachMaps(s)
  /\ connOpen' = connOpen \ {s}
  /\ handler' = [handler EXCEPT ![s] = [@ EXCEPT !.pc = "gone", !.call = NoCall]]
  /\ UNCHANGED <<control, channel, callback, webhook, events>>

(* The connection ends before a start message. *)
HangUp(s) ==
  /\ HandlerAt(s, "connected")
  /\ connOpen' = connOpen \ {s}
  /\ HandlerGoto(s, "gone")
  /\ UNCHANGED <<maps, control, channel, callback, webhook, events>>

(* A send on the closed recvCh: net/http recovers the panic. *)
HandlerPanics(s) ==
  /\ handler[s].pc \in {"start", "reconnect", "media", "end"}
  /\ recvClosed
  /\ connOpen' = connOpen \ {s}
  /\ handler' = [handler EXCEPT ![s] = [@ EXCEPT !.pc = "gone", !.call = NoCall]]
  /\ UNCHANGED <<maps, control, channel, callback, webhook, events>>

HandlerStep(s) ==
  \/ CloseOld(s) \/ SendStart(s) \/ SendReconnect(s) \/ SendMedia(s) \/ SendEnd(s)
  \/ Detach(s) \/ HandlerPanics(s)

Handler(s) == Attach(s) \/ ReadMedia(s) \/ ReadEnd(s) \/ HangUp(s) \/ HandlerStep(s)

-----------------------------------------------------------------------------
(* handleStatusCallback, for a call that is over: streamForCall, then the    *)
(* meta, call_end, detach, and the close of its connection.                  *)
CallbackBegin(c) ==
  /\ callback.pc = "idle" /\ Event("callback")
  /\ callback' = [pc |-> IF callStreams[c] = NoStream THEN "idle" ELSE "meta",
                  call |-> NoCall, stream |-> callStreams[c]]
  /\ UNCHANGED <<maps, connOpen, control, channel, handler, webhook>>

CallbackMeta ==
  /\ callback.pc = "meta"
  /\ callback' = [callback EXCEPT !.pc = "end", !.call = callSIDs[callback.stream]]
  /\ UNCHANGED <<maps, connOpen, control, channel, handler, webhook, events>>

CallbackSend ==
  /\ callback.pc = "end"
  /\ Send("call_end", callback.call, callback.stream)
  /\ callback' = [callback EXCEPT !.pc = "detach", !.call = NoCall]
  /\ UNCHANGED <<maps, connOpen, control, handler, webhook, events>>

CallbackDetach ==
  /\ callback.pc = "detach"
  /\ DetachMaps(callback.stream)
  /\ callback' = [callback EXCEPT !.pc = IF callback.stream \in sessions THEN "close" ELSE "idle",
                                  !.stream = IF callback.stream \in sessions THEN @ ELSE NoStream]
  /\ UNCHANGED <<connOpen, control, channel, handler, webhook, events>>

CallbackClose ==
  /\ callback.pc = "close"
  /\ connOpen' = connOpen \ {callback.stream}
  /\ callback' = [callback EXCEPT !.pc = "idle", !.stream = NoStream]
  /\ UNCHANGED <<maps, control, channel, handler, webhook, events>>

CallbackPanics ==
  /\ callback.pc = "end"
  /\ recvClosed
  /\ callback' = [callback EXCEPT !.pc = "idle", !.call = NoCall, !.stream = NoStream]
  /\ UNCHANGED <<maps, connOpen, control, channel, handler, webhook, events>>

CallbackStep == CallbackMeta \/ CallbackSend \/ CallbackDetach \/ CallbackClose \/ CallbackPanics

(* handleTTSWebhook: audio_ready, with the meta of the stream it names. *)
WebhookBegin(s) ==
  /\ webhook.pc = "idle" /\ Event("webhook")
  /\ webhook' = [pc |-> "send", call |-> callSIDs[s], stream |-> s]
  /\ UNCHANGED <<maps, connOpen, control, channel, handler, callback>>

WebhookSend ==
  /\ webhook.pc = "send"
  /\ Send("other", webhook.call, webhook.stream)
  /\ webhook' = [webhook EXCEPT !.pc = "idle", !.call = NoCall, !.stream = NoStream]
  /\ UNCHANGED <<maps, connOpen, control, handler, callback, events>>

WebhookPanics ==
  /\ webhook.pc = "send"
  /\ recvClosed
  /\ webhook' = [webhook EXCEPT !.pc = "idle", !.call = NoCall, !.stream = NoStream]
  /\ UNCHANGED <<maps, connOpen, control, channel, handler, callback, events>>

WebhookStep == WebhookSend \/ WebhookPanics

-----------------------------------------------------------------------------
(* Stop, in the order its caller takes these steps. *)
StopAccepting ==
  /\ draining' = TRUE
  /\ UNCHANGED <<maps, connOpen, recvClosed, channel, handler, callback, webhook, events>>

(* The sessions go; the other maps stay. *)
StopSessions ==
  /\ connOpen' = connOpen \ sessions
  /\ sessions' = {}
  /\ UNCHANGED <<callSIDs, callStreams, control, channel, handler, callback, webhook, events>>

StopChannel ==
  /\ recvClosed' = TRUE
  /\ UNCHANGED <<maps, connOpen, draining, channel, handler, callback, webhook, events>>

TransportNext ==
  \/ \E s \in Streams : Handler(s) \/ WebhookBegin(s)
  \/ \E c \in Calls : CallbackBegin(c)
  \/ CallbackStep \/ WebhookStep

-----------------------------------------------------------------------------
TransportTypeOK ==
  /\ sessions \subseteq Streams /\ connOpen \subseteq Streams
  /\ callSIDs \in [Streams -> Calls \cup {NoCall}]
  /\ callStreams \in [Calls -> Streams \cup {NoStream}]
  /\ draining \in BOOLEAN /\ recvClosed \in BOOLEAN
  /\ recvCh \in Seq([kind : FrameKinds, call : Calls \cup {NoCall}])
  /\ Len(recvCh) <= RecvCap
  /\ handler \in [Streams ->
       [pc : {"none", "connected", "close_old", "start", "reconnect", "reading", "media",
              "end", "detach", "gone"},
        call : Calls \cup {NoCall}, old : Streams \cup {NoStream}]]
  /\ callback \in [pc : {"idle", "meta", "end", "detach", "close"}, call : Calls \cup {NoCall},
                   stream : Streams \cup {NoStream}]
  /\ webhook \in [pc : {"idle", "send"}, call : Calls \cup {NoCall},
                  stream : Streams \cup {NoStream}]
  /\ events \subseteq Events
  /\ refused \cup late \subseteq Calls /\ ended \subseteq Streams

(* The maps agree: a call's current stream is attached, is that call's, and  *)
(* is its only one, through reconnects, call ends and callbacks in any order *)
(* (attach and detach, each under the mutex, the latter possibly of a stream *)
(* the former has replaced meanwhile).                                       *)
MapsAgree ==
  ~draining => \A s \in Streams, c \in Calls :
    (callStreams[c] = s) <=> (s \in sessions /\ callSIDs[s] = c)

(* A connection whose stream is no longer attached, whether a reconnect, a   *)
(* callback or Stop took it away, ends, and its handler with it.             *)
DetachedHandlersEnd ==
  \A s \in Streams : (HandlerAt(s, "reading") /\ s \notin sessions) ~> HandlerAt(s, "gone")
=============================================================================
