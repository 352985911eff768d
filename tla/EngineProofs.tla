---------------------------- MODULE EngineProofs ----------------------------
(***************************************************************************)
(* The engine's promises for any calls, streams, connections and capacity  *)
(* of recvCh.  The invariant has one part for the transport's maps and     *)
(* goroutines, one for the phases of the drain and the router, and one for *)
(* what a call's frames in recvCh still promise the registry.              *)
(***************************************************************************)
EXTENDS Engine, SessionRegistryProofs, SequenceTheorems

(* A stream that has not started is in none of the maps; one that is in them *)
(* has the call of its start message, and whoever is about to send its       *)
(* call_end has read that call.                                              *)
HandlersInv ==
  ~draining => \A s \in Streams :
    /\ handler[s].pc \in {"none", "connected"} =>
         s \notin sessions /\ s \notin ended /\ ~(callback.pc # "idle" /\ callback.stream = s)
    /\ callSIDs[s] # NoCall =>
         /\ callSIDs[s] = CallOf[s]
         /\ handler[s].pc \notin {"none", "connected", "gone"}
         /\ handler[s].pc = "end" => handler[s].call = callSIDs[s]
         /\ callback.pc = "end" /\ callback.stream = s => callback.call = callSIDs[s]
    /\ handler[s].pc = "detach" => s \in ended
    /\ callback.pc = "detach" /\ callback.stream = s => s \in ended

NamesInv ==
  /\ callback.pc # "idle" => callback.stream \in Streams
  /\ webhook.pc = "send" => webhook.stream \in Streams
  /\ recvClosed => draining

TransportInv == TransportTypeOK /\ NamesInv /\ MapsAgree /\ HandlersInv

-----------------------------------------------------------------------------
(* The handlers, one action at a time. *)
HandlerPcs == {"none", "connected", "close_old", "start", "reconnect", "reading", "media",
               "end", "detach", "gone"}
HandlerState == [pc : HandlerPcs, call : Calls \cup {NoCall}, old : Streams \cup {NoStream}]

(* What a handler's assignments to its own locals are. *)
HandlerMoves(s, pc) ==
  /\ handler' \in [Streams -> HandlerState]
  /\ \A t \in Streams : t # s => handler'[t] = handler[t]
  /\ handler'[s].pc = pc

LEMMA GotoMoves ==
  ASSUME TransportTypeOK, NEW s \in Streams, NEW pc \in HandlerPcs, HandlerGoto(s, pc)
  PROVE  HandlerMoves(s, pc) /\ handler'[s].call = handler[s].call
BY DEF HandlerMoves, HandlerGoto, TransportTypeOK, HandlerState, HandlerPcs

LEMMA SetCallMoves ==
  ASSUME TransportTypeOK, NEW s \in Streams, NEW pc \in HandlerPcs,
         NEW c \in Calls \cup {NoCall},
         handler' = [handler EXCEPT ![s] = [@ EXCEPT !.pc = pc, !.call = c]]
  PROVE  HandlerMoves(s, pc) /\ handler'[s].call = c
<1>1. handler \in [Streams -> HandlerState]
  BY DEF TransportTypeOK, HandlerState, HandlerPcs
<1>2. PICK h \in HandlerState : h = handler[s]
  BY <1>1
<1>3. PICK k : k = [h EXCEPT !.pc = pc, !.call = c]
  OBVIOUS
<1>4. k \in HandlerState /\ k.pc = pc /\ k.call = c
  BY <1>3 DEF HandlerState
<1>5. handler' = [handler EXCEPT ![s] = k]
  BY <1>2, <1>3
<1> QED
  BY <1>1, <1>2, <1>4, <1>5 DEF HandlerMoves

LEMMA SetOldMoves ==
  ASSUME TransportTypeOK, NEW s \in Streams, NEW pc \in HandlerPcs,
         NEW old \in Streams \cup {NoStream},
         handler' = [handler EXCEPT ![s] = [@ EXCEPT !.pc = pc, !.old = old]]
  PROVE  HandlerMoves(s, pc) /\ handler'[s].call = handler[s].call
<1>1. handler \in [Streams -> HandlerState]
  BY DEF TransportTypeOK, HandlerState, HandlerPcs
<1>2. PICK h \in HandlerState : h = handler[s]
  BY <1>1
<1>3. PICK k : k = [h EXCEPT !.pc = pc, !.old = old]
  OBVIOUS
<1>4. k \in HandlerState /\ k.pc = pc /\ k.call = h.call
  BY <1>3 DEF HandlerState
<1>5. handler' = [handler EXCEPT ![s] = k]
  BY <1>2, <1>3
<1> QED
  BY <1>1, <1>2, <1>4, <1>5 DEF HandlerMoves

LEMMA SendTyped ==
  ASSUME TransportTypeOK, NEW kind \in FrameKinds, NEW c \in Calls \cup {NoCall},
         NEW s \in Streams, Send(kind, c, s)
  PROVE  /\ recvCh' \in Seq([kind : FrameKinds, call : Calls \cup {NoCall}])
         /\ Len(recvCh') <= RecvCap
         /\ refused' \cup late' \subseteq Calls
         /\ ended' = IF kind = "call_end" THEN ended \cup {s} ELSE ended
         /\ ~recvClosed
<1> DEFINE f == [kind |-> kind, call |-> c]
           F == [kind : FrameKinds, call : Calls \cup {NoCall}]
<1>1. f \in F /\ recvCh \in Seq(F) /\ Len(recvCh) <= RecvCap /\ RecvCap \in Nat
  BY TransportAssumption DEF TransportTypeOK
<1>2. recvCh' = recvCh \/ (Len(recvCh) < RecvCap /\ recvCh' = Append(recvCh, f))
  BY <1>1 DEF Send
<1>3. recvCh' \in Seq(F) /\ Len(recvCh') <= RecvCap
  <2> HIDE DEF f, F
  <2> QED
    BY <1>1, <1>2, AppendProperties, LenProperties
<1>4. refused' \cup late' \subseteq Calls
  BY DEF Send, TransportTypeOK
<1> QED
  BY <1>3, <1>4 DEF Send

(* A handler that moves on within the maps' order, the maps as they are. *)
LEMMA QuietMoveInv ==
  ASSUME TransportInv, NEW s \in Streams, NEW pc \in HandlerPcs, HandlerMoves(s, pc),
         pc \notin {"none", "connected"},
         handler[s].pc \notin {"none", "connected", "gone"},
         UNCHANGED <<maps, control, callback, webhook>>,
         connOpen' \subseteq Streams, events' \subseteq Events,
         recvCh' \in Seq([kind : FrameKinds, call : Calls \cup {NoCall}]),
         Len(recvCh') <= RecvCap, refused' \cup late' \subseteq Calls,
         ended' \in {ended, ended \cup {s}},
         pc = "gone" => draining \/ callSIDs[s] = NoCall,
         pc = "end" => handler'[s].call = callSIDs[s],
         pc = "detach" => s \in ended'
  PROVE  TransportInv'
<1> USE DEF TransportInv, maps, control
<1>1. TransportTypeOK'
  BY DEF TransportTypeOK, HandlerMoves, HandlerState, HandlerPcs
<1>2. NamesInv' /\ MapsAgree'
  BY DEF NamesInv, MapsAgree
<1>3. HandlersInv'
  <2> SUFFICES ASSUME ~draining, NEW t \in Streams
               PROVE  /\ handler'[t].pc \in {"none", "connected"} =>
                           t \notin sessions /\ t \notin ended' /\ ~(callback.pc # "idle" /\ callback.stream = t)
                      /\ callSIDs[t] # NoCall =>
                           /\ callSIDs[t] = CallOf[t]
                           /\ handler'[t].pc \notin {"none", "connected", "gone"}
                           /\ handler'[t].pc = "end" => handler'[t].call = callSIDs[t]
                           /\ callback.pc = "end" /\ callback.stream = t => callback.call = callSIDs[t]
                      /\ handler'[t].pc = "detach" => t \in ended'
                      /\ callback.pc = "detach" /\ callback.stream = t => t \in ended'
    BY DEF HandlersInv
  <2> QED
    BY DEF HandlersInv, HandlerMoves
<1> QED
  BY <1>1, <1>2, <1>3

LEMMA ConnectInv ==
  ASSUME TransportInv, NEW s \in Streams, Connect(s) \/ HangUp(s)
  PROVE  TransportInv'
<1> USE DEF TransportInv
<1>1. /\ UNCHANGED <<sessions, callSIDs, callStreams, draining, recvClosed, recvCh, refused,
                     ended, late, callback, webhook>>
      /\ connOpen' \subseteq Streams /\ events' \subseteq Events
      /\ handler[s].pc \in {"none", "connected"}
  BY DEF Connect, HangUp, maps, control, channel, Event, HandlerAt, TransportTypeOK
<1>2. PICK pc \in {"connected", "gone"} : HandlerMoves(s, pc)
  BY GotoMoves DEF Connect, HangUp, HandlerPcs
<1>3. TransportTypeOK'
  BY <1>1, <1>2 DEF TransportTypeOK, HandlerMoves, HandlerState, HandlerPcs
<1>4. NamesInv' /\ MapsAgree'
  BY <1>1 DEF NamesInv, MapsAgree
<1>5. HandlersInv'
  BY <1>1, <1>2 DEF HandlersInv, HandlerMoves
<1> QED
  BY <1>3, <1>4, <1>5

(* attach moves the call from the stream that had it, if any, to this one. *)
LEMMA AttachInv ==
  ASSUME TransportInv, NEW s \in Streams, Attach(s)
  PROVE  TransportInv'
<1> USE DEF TransportInv
<1> DEFINE c == CallOf[s]
           old == callStreams[c]
<1>1. /\ c \in Calls /\ c # NoCall /\ old \in Streams \cup {NoStream} /\ s # NoStream
      /\ callSIDs \in [Streams -> Calls \cup {NoCall}]
      /\ callStreams \in [Calls -> Streams \cup {NoStream}]
  BY TransportAssumption, CallAssumption DEF TransportTypeOK
<1>2. /\ UNCHANGED <<connOpen, draining, recvClosed, recvCh, refused, ended, late, callback,
                     webhook, events>>
      /\ handler[s].pc = "connected"
      /\ sessions' = (sessions \ {old}) \cup {s}
      /\ callSIDs' = [t \in Streams |-> IF t = s THEN c ELSE IF t = old THEN NoCall ELSE callSIDs[t]]
      /\ callStreams' = [callStreams EXCEPT ![c] = s]
  BY DEF Attach, control, channel, HandlerAt
<1>3. PICK pc \in {"close_old", "start"} : HandlerMoves(s, pc)
  <2>1. PICK pc \in {"close_old", "start"} :
          handler' = [handler EXCEPT ![s] = [@ EXCEPT !.pc = pc, !.old = old]]
    BY DEF Attach
  <2> QED
    BY <1>1, <2>1, SetOldMoves DEF HandlerPcs
<1>4. TransportTypeOK'
  <2>1. sessions' \subseteq Streams /\ callSIDs' \in [Streams -> Calls \cup {NoCall}]
        /\ callStreams' \in [Calls -> Streams \cup {NoStream}]
    BY <1>1, <1>2 DEF TransportTypeOK
  <2> QED
    BY <1>2, <1>3, <2>1 DEF TransportTypeOK, HandlerMoves, HandlerState, HandlerPcs
<1>5. NamesInv'
  BY <1>2 DEF NamesInv
<1>6. MapsAgree'
  <2> SUFFICES ASSUME ~draining, NEW t \in Streams, NEW d \in Calls
               PROVE  callStreams'[d] = t <=> t \in sessions' /\ callSIDs'[t] = d
    BY <1>2 DEF MapsAgree
  <2>1. /\ callStreams[d] = t <=> t \in sessions /\ callSIDs[t] = d
        /\ callStreams[d] = s <=> s \in sessions /\ callSIDs[s] = d
        /\ old = t <=> t \in sessions /\ callSIDs[t] = c
        /\ s \notin sessions
    BY <1>1, <1>2 DEF MapsAgree, HandlersInv
  <2>2. /\ callStreams'[d] = IF d = c THEN s ELSE callStreams[d]
        /\ callSIDs'[t] = IF t = s THEN c ELSE IF t = old THEN NoCall ELSE callSIDs[t]
    BY <1>1, <1>2
  <2>3. d # NoCall
    BY CallAssumption
  <2> QED
    BY <1>1, <1>2, <2>1, <2>2, <2>3
<1>7. HandlersInv'
  <2> SUFFICES ASSUME ~draining, NEW t \in Streams
               PROVE  /\ handler'[t].pc \in {"none", "connected"} =>
                           t \notin sessions' /\ t \notin ended /\ ~(callback.pc # "idle" /\ callback.stream = t)
                      /\ callSIDs'[t] # NoCall =>
                           /\ callSIDs'[t] = CallOf[t]
                           /\ handler'[t].pc \notin {"none", "connected", "gone"}
                           /\ handler'[t].pc = "end" => handler'[t].call = callSIDs'[t]
                           /\ callback.pc = "end" /\ callback.stream = t => callback.call = callSIDs'[t]
                      /\ handler'[t].pc = "detach" => t \in ended
                      /\ callback.pc = "detach" /\ callback.stream = t => t \in ended
    BY <1>2 DEF HandlersInv
  <2>1. CASE t = s
    BY <1>1, <1>2, <1>3, <2>1 DEF HandlersInv, HandlerMoves
  <2>2. CASE t # s
    <3>1. handler'[t] = handler[t] /\ (callSIDs'[t] # NoCall => callSIDs'[t] = callSIDs[t])
          /\ (t \in sessions' => t \in sessions)
      BY <1>2, <1>3, <2>2 DEF HandlerMoves
    <3> QED
      BY <3>1 DEF HandlersInv
  <2> QED
    BY <2>1, <2>2
<1> QED
  BY <1>4, <1>5, <1>6, <1>7

(* detach takes one stream, whose call_end has been sent, out of the maps, *)
(* and the call with it only where the call is still this stream's.        *)
LEMMA DetachMapsEffect ==
  ASSUME TransportInv, NEW s \in Streams, DetachMaps(s), UNCHANGED draining,
         draining \/ s \in ended
  PROVE  /\ sessions' = sessions \ {s}
         /\ callSIDs' \in [Streams -> Calls \cup {NoCall}]
         /\ callStreams' \in [Calls -> Streams \cup {NoStream}]
         /\ callSIDs'[s] = NoCall
         /\ \A t \in Streams : t # s => callSIDs'[t] = callSIDs[t]
         /\ MapsAgree'
<1> USE DEF TransportInv
<1> DEFINE c == callSIDs[s]
<1>1. /\ callSIDs \in [Streams -> Calls \cup {NoCall}]
      /\ callStreams \in [Calls -> Streams \cup {NoStream}]
      /\ c \in Calls \cup {NoCall} /\ NoCall \notin Calls /\ NoStream \notin Streams
  BY TransportAssumption, CallAssumption DEF TransportTypeOK
<1>2. /\ sessions' = sessions \ {s}
      /\ callSIDs' = [callSIDs EXCEPT ![s] = NoCall]
      /\ callStreams' = IF c # NoCall /\ callStreams[c] = s
                        THEN [callStreams EXCEPT ![c] = NoStream] ELSE callStreams
  BY DEF DetachMaps
<1>3. /\ callSIDs' \in [Streams -> Calls \cup {NoCall}]
      /\ callStreams' \in [Calls -> Streams \cup {NoStream}]
      /\ callSIDs'[s] = NoCall
      /\ \A t \in Streams : t # s => callSIDs'[t] = callSIDs[t]
  BY <1>1, <1>2
<1>4. MapsAgree'
  <2> SUFFICES ASSUME ~draining, NEW t \in Streams, NEW d \in Calls
               PROVE  callStreams'[d] = t <=> t \in sessions' /\ callSIDs'[t] = d
    BY DEF MapsAgree
  <2>1. /\ callStreams[d] = t <=> t \in sessions /\ callSIDs[t] = d
        /\ callStreams[d] = s <=> s \in sessions /\ callSIDs[s] = d
    BY DEF MapsAgree
  <2>2. callStreams'[d] = IF d = c /\ callStreams[d] = s THEN NoStream ELSE callStreams[d]
    BY <1>1, <1>2
  <2> QED
    BY <1>1, <1>2, <1>3, <2>1, <2>2
<1> QED
  BY <1>2, <1>3, <1>4

LEMMA DetachInv ==
  ASSUME TransportInv, NEW s \in Streams, Detach(s)
  PROVE  TransportInv'
<1> USE DEF TransportInv
<1>1. /\ UNCHANGED <<draining, recvClosed, recvCh, refused, ended, late, callback, webhook, events>>
      /\ handler[s].pc = "detach" /\ DetachMaps(s) /\ connOpen' = connOpen \ {s}
      /\ handler' = [handler EXCEPT ![s] = [@ EXCEPT !.pc = "gone", !.call = NoCall]]
  BY DEF Detach, control, channel, HandlerAt
<1>2. HandlerMoves(s, "gone")
  BY <1>1, SetCallMoves DEF HandlerPcs
<1>3. draining \/ s \in ended
  BY <1>1 DEF HandlersInv
<1>4. /\ sessions' = sessions \ {s}
      /\ callSIDs' \in [Streams -> Calls \cup {NoCall}]
      /\ callStreams' \in [Calls -> Streams \cup {NoStream}]
      /\ callSIDs'[s] = NoCall
      /\ \A t \in Streams : t # s => callSIDs'[t] = callSIDs[t]
      /\ MapsAgree'
  BY <1>1, <1>3, DetachMapsEffect
<1>5. TransportTypeOK'
  BY <1>1, <1>2, <1>4 DEF TransportTypeOK, HandlerMoves, HandlerState, HandlerPcs
<1>6. NamesInv'
  BY <1>1 DEF NamesInv
<1>7. HandlersInv'
  BY <1>1, <1>2, <1>4 DEF HandlersInv, HandlerMoves
<1> QED
  BY <1>4, <1>5, <1>6, <1>7

LEMMA HandlerStepInv ==
  ASSUME TransportInv, NEW s \in Streams, ReadMedia(s) \/ ReadEnd(s) \/ HandlerStep(s)
  PROVE  TransportInv'
<1> USE DEF TransportInv, HandlerAt
<1>1. /\ connOpen \subseteq Streams /\ events \subseteq Events /\ Len(recvCh) <= RecvCap
      /\ recvCh \in Seq([kind : FrameKinds, call : Calls \cup {NoCall}])
      /\ refused \cup late \subseteq Calls
      /\ callSIDs[s] \in Calls \cup {NoCall} /\ handler[s].call \in Calls \cup {NoCall}
      /\ CallOf[s] \in Calls \cup {NoCall} /\ NoCall \in Calls \cup {NoCall}
  BY TransportAssumption DEF TransportTypeOK
<1>2. CASE ReadMedia(s)
  <2>1. HandlerMoves(s, "media")
    BY <1>1, <1>2, SetCallMoves DEF ReadMedia, HandlerPcs
  <2>2. events' \subseteq Events
    BY <1>1, <1>2 DEF ReadMedia, Event
  <2> QED
    BY <1>1, <1>2, <2>1, <2>2, QuietMoveInv DEF ReadMedia, channel, HandlerPcs
<1>3. CASE ReadEnd(s)
  <2>1. HandlerMoves(s, "end") /\ handler'[s].call = callSIDs[s]
    BY <1>1, <1>3, SetCallMoves DEF ReadEnd, HandlerPcs
  <2> QED
    BY <1>1, <1>3, <2>1, QuietMoveInv DEF ReadEnd, channel, HandlerPcs
<1>4. CASE CloseOld(s)
  <2>1. HandlerMoves(s, "start") /\ connOpen' \subseteq Streams
    BY <1>1, <1>4, GotoMoves DEF CloseOld, HandlerPcs
  <2> QED
    BY <1>1, <1>4, <2>1, QuietMoveInv DEF CloseOld, channel, HandlerPcs
<1>5. CASE SendStart(s)
  <2>1. PICK pc \in {"reading", "reconnect"} : HandlerMoves(s, pc)
    BY <1>5, GotoMoves DEF SendStart, HandlerPcs
  <2>2. Send("call_start", CallOf[s], s) /\ "call_start" \in FrameKinds
    BY <1>5 DEF SendStart, FrameKinds
  <2> QED
    BY <1>1, <1>5, <2>1, <2>2, SendTyped, QuietMoveInv DEF SendStart, HandlerPcs
<1>6. CASE SendReconnect(s)
  <2>1. HandlerMoves(s, "reading")
    BY <1>6, GotoMoves DEF SendReconnect, HandlerPcs
  <2>2. Send("other", CallOf[s], s) /\ "other" \in FrameKinds
    BY <1>6 DEF SendReconnect, FrameKinds
  <2> QED
    BY <1>1, <1>6, <2>1, <2>2, SendTyped, QuietMoveInv DEF SendReconnect, HandlerPcs
<1>7. CASE SendMedia(s)
  <2>1. HandlerMoves(s, "reading")
    BY <1>1, <1>7, SetCallMoves DEF SendMedia, HandlerPcs
  <2>2. Send("other", handler[s].call, s) /\ "other" \in FrameKinds
    BY <1>7 DEF SendMedia, FrameKinds
  <2> QED
    BY <1>1, <1>7, <2>1, <2>2, SendTyped, QuietMoveInv DEF SendMedia, HandlerPcs
<1>8. CASE SendEnd(s)
  <2>1. HandlerMoves(s, "detach")
    BY <1>8, GotoMoves DEF SendEnd, HandlerPcs
  <2>2. Send("call_end", handler[s].call, s) /\ "call_end" \in FrameKinds
    BY <1>8 DEF SendEnd, FrameKinds
  <2>3. ended' = ended \cup {s}
    BY <1>1, <2>2, SendTyped
  <2> QED
    BY <1>1, <1>8, <2>1, <2>2, <2>3, SendTyped, QuietMoveInv DEF SendEnd, HandlerPcs
<1>9. CASE HandlerPanics(s)
  <2>1. HandlerMoves(s, "gone") /\ connOpen' \subseteq Streams
    BY <1>1, <1>9, SetCallMoves DEF HandlerPanics, HandlerPcs
  <2>2. draining
    BY <1>9 DEF HandlerPanics, NamesInv
  <2> QED
    BY <1>1, <1>9, <2>1, <2>2, QuietMoveInv DEF HandlerPanics, channel, HandlerPcs
<1> QED
  BY <1>2, <1>3, <1>4, <1>5, <1>6, <1>7, <1>8, <1>9, DetachInv DEF HandlerStep

-----------------------------------------------------------------------------
(* The status callback, the webhook, and the three steps of Stop. *)
LEMMA CallbackInv ==
  ASSUME TransportInv, CallbackStep \/ \E c \in Calls : CallbackBegin(c)
  PROVE  TransportInv'
<1> USE DEF TransportInv
<1> DEFINE s == callback.stream
<1>1. /\ callback \in [pc : {"idle", "meta", "end", "detach", "close"}, call : Calls \cup {NoCall},
                       stream : Streams \cup {NoStream}]
      /\ callSIDs \in [Streams -> Calls \cup {NoCall}]
      /\ callStreams \in [Calls -> Streams \cup {NoStream}]
      /\ connOpen \subseteq Streams /\ events \subseteq Events
      /\ callback.pc # "idle" => s \in Streams
      /\ NoStream \notin Streams
  BY TransportAssumption DEF TransportTypeOK, NamesInv
<1>2. ASSUME NEW c \in Calls, CallbackBegin(c)
      PROVE  TransportInv'
  <2>1. /\ UNCHANGED <<sessions, callSIDs, callStreams, connOpen, draining, recvClosed, recvCh,
                       refused, ended, late, handler, webhook>>
        /\ events' \subseteq Events
        /\ callback' = [pc |-> IF callStreams[c] = NoStream THEN "idle" ELSE "meta",
                        call |-> NoCall, stream |-> callStreams[c]]
    BY <1>1, <1>2 DEF CallbackBegin, maps, control, channel, Event
  <2>2. callStreams[c] \in Streams \cup {NoStream}
    BY <1>1
  <2>3. TransportTypeOK'
    BY <2>1, <2>2 DEF TransportTypeOK
  <2>4. NamesInv' /\ MapsAgree'
    BY <2>1, <2>2 DEF NamesInv, MapsAgree
  <2>5. ~draining /\ callStreams[c] # NoStream => callStreams[c] \in sessions
    BY <2>2 DEF MapsAgree
  <2>6. HandlersInv'
    BY <2>1, <2>2, <2>5 DEF HandlersInv
  <2> QED
    BY <2>3, <2>4, <2>6
<1>3. CASE CallbackMeta
  <2>1. /\ UNCHANGED <<sessions, callSIDs, callStreams, connOpen, draining, recvClosed, recvCh,
                       refused, ended, late, handler, webhook, events>>
        /\ callback.pc = "meta"
        /\ callback' = [callback EXCEPT !.pc = "end", !.call = callSIDs[s]]
    BY <1>3 DEF CallbackMeta, maps, control, channel
  <2>2. /\ callback'.pc = "end" /\ callback'.stream = s /\ callback'.call = callSIDs[s]
    BY <1>1, <2>1
  <2>3. TransportTypeOK'
    BY <1>1, <2>1 DEF TransportTypeOK
  <2>4. NamesInv' /\ MapsAgree'
    BY <1>1, <2>1, <2>2 DEF NamesInv, MapsAgree
  <2>5. HandlersInv'
    BY <2>1, <2>2 DEF HandlersInv
  <2> QED
    BY <2>3, <2>4, <2>5
<1>4. CASE CallbackSend
  <2>1. /\ UNCHANGED <<sessions, callSIDs, callStreams, connOpen, draining, recvClosed,
                       handler, webhook, events>>
        /\ callback.pc = "end" /\ Send("call_end", callback.call, s)
        /\ callback' = [callback EXCEPT !.pc = "detach", !.call = NoCall]
    BY <1>4 DEF CallbackSend, maps, control
  <2>2. /\ callback'.pc = "detach" /\ callback'.stream = s
    BY <1>1, <2>1
  <2>3. /\ recvCh' \in Seq([kind : FrameKinds, call : Calls \cup {NoCall}])
        /\ Len(recvCh') <= RecvCap
        /\ refused' \cup late' \subseteq Calls
        /\ ended' = ended \cup {s}
    BY <1>1, <2>1, SendTyped DEF FrameKinds
  <2>4. TransportTypeOK'
    BY <1>1, <2>1, <2>3 DEF TransportTypeOK
  <2>5. NamesInv' /\ MapsAgree'
    BY <1>1, <2>1, <2>2 DEF NamesInv, MapsAgree
  <2>6. HandlersInv'
    BY <2>1, <2>2, <2>3 DEF HandlersInv
  <2> QED
    BY <2>4, <2>5, <2>6
<1>5. CASE CallbackDetach
  <2>1. /\ UNCHANGED <<connOpen, draining, recvClosed, recvCh, refused, ended, late, handler,
                       webhook, events>>
        /\ callback.pc = "detach" /\ DetachMaps(s)
        /\ callback'.call = callback.call
        /\ \/ callback'.pc = "close" /\ callback'.stream = s
           \/ callback'.pc = "idle" /\ callback'.stream = NoStream
        /\ callback' \in [pc : {"idle", "meta", "end", "detach", "close"},
                          call : Calls \cup {NoCall}, stream : Streams \cup {NoStream}]
    BY <1>1, <1>5 DEF CallbackDetach, control, channel
  <2>2. /\ sessions' = sessions \ {s}
        /\ callSIDs' \in [Streams -> Calls \cup {NoCall}]
        /\ callStreams' \in [Calls -> Streams \cup {NoStream}]
        /\ callSIDs'[s] = NoCall
        /\ \A t \in Streams : t # s => callSIDs'[t] = callSIDs[t]
        /\ MapsAgree'
    <3>1. s \in Streams /\ (draining \/ s \in ended)
      BY <1>1, <2>1 DEF HandlersInv
    <3> QED
      BY <2>1, <3>1, DetachMapsEffect
  <2>3. TransportTypeOK'
    BY <1>1, <2>1, <2>2 DEF TransportTypeOK
  <2>4. NamesInv'
    BY <1>1, <2>1 DEF NamesInv
  <2>5. HandlersInv'
    BY <1>1, <2>1, <2>2 DEF HandlersInv
  <2> QED
    BY <2>2, <2>3, <2>4, <2>5
<1>6. CASE CallbackClose \/ CallbackPanics
  <2>1. /\ UNCHANGED <<sessions, callSIDs, callStreams, draining, recvClosed, recvCh, refused,
                       ended, late, handler, webhook, events>>
        /\ connOpen' \subseteq Streams
        /\ callback'.pc = "idle"
        /\ callback' \in [pc : {"idle", "meta", "end", "detach", "close"},
                          call : Calls \cup {NoCall}, stream : Streams \cup {NoStream}]
    BY <1>1, <1>6 DEF CallbackClose, CallbackPanics, maps, control, channel
  <2>2. TransportTypeOK'
    BY <2>1 DEF TransportTypeOK
  <2>3. NamesInv' /\ MapsAgree' /\ HandlersInv'
    BY <2>1 DEF NamesInv, MapsAgree, HandlersInv
  <2> QED
    BY <2>2, <2>3
<1> QED
  BY <1>2, <1>3, <1>4, <1>5, <1>6 DEF CallbackStep

LEMMA WebhookInv ==
  ASSUME TransportInv, WebhookStep \/ \E s \in Streams : WebhookBegin(s)
  PROVE  TransportInv'
<1> USE DEF TransportInv
<1>1. /\ webhook \in [pc : {"idle", "send"}, call : Calls \cup {NoCall},
                      stream : Streams \cup {NoStream}]
      /\ callSIDs \in [Streams -> Calls \cup {NoCall}]
      /\ recvCh \in Seq([kind : FrameKinds, call : Calls \cup {NoCall}])
      /\ Len(recvCh) <= RecvCap /\ refused \cup late \subseteq Calls
      /\ webhook.pc = "send" => webhook.stream \in Streams
  BY DEF TransportTypeOK, NamesInv
<1>2. /\ UNCHANGED <<sessions, callSIDs, callStreams, connOpen, draining, recvClosed, ended,
                     handler, callback>>
      /\ events' \subseteq Events
      /\ webhook' \in [pc : {"idle", "send"}, call : Calls \cup {NoCall},
                       stream : Streams \cup {NoStream}]
      /\ webhook'.pc = "send" => webhook'.stream \in Streams
      /\ recvCh' \in Seq([kind : FrameKinds, call : Calls \cup {NoCall}])
      /\ Len(recvCh') <= RecvCap /\ refused' \cup late' \subseteq Calls
  <2>1. CASE \E s \in Streams : WebhookBegin(s)
    BY <1>1, <2>1 DEF WebhookBegin, maps, control, channel, Event, TransportTypeOK
  <2>2. CASE WebhookSend
    <3>1. webhook.stream \in Streams /\ webhook.call \in Calls \cup {NoCall}
          /\ Send("other", webhook.call, webhook.stream) /\ "other" \in FrameKinds
      BY <1>1, <2>2 DEF WebhookSend, FrameKinds
    <3>2. /\ recvCh' \in Seq([kind : FrameKinds, call : Calls \cup {NoCall}])
          /\ Len(recvCh') <= RecvCap /\ refused' \cup late' \subseteq Calls /\ ended' = ended
      BY <3>1, SendTyped
    <3> QED
      BY <1>1, <2>2, <3>2 DEF WebhookSend, maps, control, TransportTypeOK
  <2>3. CASE WebhookPanics
    BY <1>1, <2>3 DEF WebhookPanics, maps, control, channel, TransportTypeOK
  <2> QED
    BY <2>1, <2>2, <2>3 DEF WebhookStep
<1>3. TransportTypeOK'
  BY <1>2 DEF TransportTypeOK
<1>4. NamesInv' /\ MapsAgree' /\ HandlersInv'
  BY <1>2 DEF NamesInv, MapsAgree, HandlersInv
<1> QED
  BY <1>3, <1>4

LEMMA StopInv ==
  ASSUME TransportInv,
         StopAccepting \/ (draining /\ StopSessions) \/ (draining /\ StopChannel)
  PROVE  TransportInv'
<1> USE DEF TransportInv
<1>1. /\ UNCHANGED <<callSIDs, callStreams, recvCh, refused, ended, late, handler, callback,
                     webhook, events>>
      /\ sessions' \subseteq sessions /\ connOpen' \subseteq connOpen
      /\ draining' = TRUE /\ recvClosed' \in BOOLEAN
  BY DEF StopAccepting, StopSessions, StopChannel, maps, control, channel, TransportTypeOK
<1>2. TransportTypeOK'
  BY <1>1 DEF TransportTypeOK
<1>3. NamesInv' /\ MapsAgree' /\ HandlersInv'
  BY <1>1 DEF NamesInv, MapsAgree, HandlersInv
<1> QED
  BY <1>2, <1>3

LEMMA TransportNextInv ==
  ASSUME TransportInv, TransportNext \/ \E s \in Streams : Connect(s)
  PROVE  TransportInv'
BY ConnectInv, AttachInv, HandlerStepInv, CallbackInv, WebhookInv DEF TransportNext, Handler

-----------------------------------------------------------------------------
(* The phases of the drain, and the router's visits to the registry. *)
LoopsInv ==
  /\ routing \in [pc : {"receive", "held", "deliver", "exited"}, kind : FrameKinds,
                  call : Calls \cup {NoCall}]
  /\ drainer \in {"accepting", "sessions", "channel", "registry", "wait", "done"}
  /\ drainer # "accepting" <=> draining
  /\ drainer \in {"accepting", "sessions", "channel", "registry"} => worker[Drainer].pc = "idle"
  /\ ~worker[Router].closing
  /\ worker[Router].pc \in {"create", "store", "add", "discard"} =>
       routing.pc = "deliver" /\ routing.call = worker[Router].call
  /\ routing.pc \in {"held", "deliver"} => routing.call \in Calls

(* The router holds a call_end of c; it holds, or is delivering, something *)
(* else of c; a call_end of c is in recvCh.                                *)
CallEndOf(c) == [kind |-> "call_end", call |-> c]
HoldsEnd(c) == routing.pc = "held" /\ routing.kind = "call_end" /\ routing.call = c
Delivers(c) == routing.pc \in {"held", "deliver"} /\ routing.call = c /\ ~HoldsEnd(c)
EndQueued(c) == \E j \in DOMAIN recvCh : recvCh[j] = CallEndOf(c)

(* Behind every frame of c a call_end of c is queued. *)
FramesEnd(c) ==
  \A i \in DOMAIN recvCh : recvCh[i].call = c =>
    \E j \in DOMAIN recvCh : j >= i /\ recvCh[j] = CallEndOf(c)

(* Until its call_end, a call has a stream in the maps that will send one;   *)
(* from then on, whatever has made or will make its session is followed by a *)
(* call_end.                                                                 *)
Attached(c) == \E s \in Streams : s \notin ended /\ callSIDs[s] = c

Settled(c) ==
  /\ FramesEnd(c)
  /\ Delivers(c) => EndQueued(c)
  /\ c \in Stored => EndQueued(c) \/ HoldsEnd(c)

CallsInv == ~draining => \A c \in Calls : c \in late \cup refused \/ Attached(c) \/ Settled(c)

EngineInv == TransportInv /\ RegistryInv /\ RunnerTypeOK /\ LoopsInv /\ CallsInv

-----------------------------------------------------------------------------
(* What one send does to the calls' frames. *)
LEMMA AppendFrames ==
  ASSUME TransportTypeOK, NEW f \in [kind : FrameKinds, call : Calls \cup {NoCall}],
         recvCh' = Append(recvCh, f)
  PROVE  /\ Len(recvCh) \in Nat
         /\ DOMAIN recvCh = 1 .. Len(recvCh)
         /\ DOMAIN recvCh' = 1 .. (Len(recvCh) + 1)
         /\ \A i \in 1 .. Len(recvCh) : recvCh'[i] = recvCh[i]
         /\ recvCh'[Len(recvCh) + 1] = f
<1> DEFINE F == [kind : FrameKinds, call : Calls \cup {NoCall}]
<1>1. recvCh \in Seq(F) /\ f \in F
  BY DEF TransportTypeOK
<1> HIDE DEF F
<1> QED
  BY <1>1, AppendProperties, LenProperties

LEMMA SendKeepsCalls ==
  ASSUME TransportInv, CallsInv, ~draining, NEW s \in Streams, NEW kind \in FrameKinds,
         NEW call \in Calls \cup {NoCall}, Send(kind, call, s),
         kind = "call_end" => callSIDs[s] \in {NoCall, call},
         UNCHANGED <<callSIDs, routing, stored>>
  PROVE  CallsInv'
<1> DEFINE f == [kind |-> kind, call |-> call]
           full == Len(recvCh) >= RecvCap
<1> SUFFICES ASSUME NEW c \in Calls
             PROVE  c \in late' \cup refused' \/ Attached(c)' \/ Settled(c)'
  BY DEF CallsInv
<1>1. /\ recvCh' = IF full THEN recvCh ELSE Append(recvCh, f)
      /\ refused' = IF full /\ kind = "call_end" /\ call # NoCall
                      THEN refused \cup {call} ELSE refused
      /\ ended' = IF kind = "call_end" THEN ended \cup {s} ELSE ended
      /\ late' = IF kind # "call_end" /\ call # NoCall /\ (s \in ended \/ callSIDs[s] # call)
                   THEN late \cup {call} ELSE late
  BY DEF Send
<1>2. c # NoCall /\ (c \in late \cup refused \/ Attached(c) \/ Settled(c))
  BY CallAssumption DEF CallsInv
<1>3. Stored' = Stored /\ (HoldsEnd(c)' <=> HoldsEnd(c)) /\ (Delivers(c)' <=> Delivers(c))
  BY DEF Stored, HoldsEnd, Delivers
<1>4. CASE c \in late \cup refused
  BY <1>1, <1>4
<1>5. CASE full /\ c # call
  <2>1. Attached(c) => Attached(c)'
    BY <1>1, <1>5, CallAssumption DEF Attached
  <2>2. Settled(c) => Settled(c)'
    BY <1>1, <1>3, <1>5 DEF Settled, FramesEnd, EndQueued
  <2> QED
    BY <1>2, <1>4, <2>1, <2>2
<1>6. CASE full /\ c = call
  <2>1. kind # "call_end" /\ Attached(c) => Attached(c)'
    BY <1>1 DEF Attached
  <2>2. kind # "call_end" /\ Settled(c) => Settled(c)'
    BY <1>1, <1>3, <1>6 DEF Settled, FramesEnd, EndQueued
  <2>3. kind = "call_end" => c \in refused'
    BY <1>1, <1>6, CallAssumption
  <2> QED
    BY <1>2, <1>4, <2>1, <2>2, <2>3
<1>7. ASSUME ~full
      PROVE  /\ Len(recvCh) \in Nat
             /\ DOMAIN recvCh = 1 .. Len(recvCh)
             /\ DOMAIN recvCh' = 1 .. (Len(recvCh) + 1)
             /\ \A i \in 1 .. Len(recvCh) : recvCh'[i] = recvCh[i]
             /\ recvCh'[Len(recvCh) + 1] = f
  <2>1. f \in [kind : FrameKinds, call : Calls \cup {NoCall}]
    OBVIOUS
  <2>2. recvCh' = Append(recvCh, f) /\ TransportTypeOK
    BY <1>1, <1>7 DEF TransportInv
  <2> HIDE DEF f
  <2> QED
    BY <2>1, <2>2, AppendFrames
<1>8. CASE ~full /\ c # call
  <2>1. Attached(c) => Attached(c)'
    BY <1>1, <1>8, CallAssumption DEF Attached
  <2>2. Settled(c) => Settled(c)'
    <3> SUFFICES ASSUME Settled(c)
                 PROVE  Settled(c)'
      OBVIOUS
    <3>1. EndQueued(c) => EndQueued(c)'
      BY <1>7, <1>8 DEF EndQueued
    <3>2. FramesEnd(c)'
      <4> SUFFICES ASSUME NEW i \in DOMAIN recvCh', recvCh'[i].call = c
                   PROVE  \E j \in DOMAIN recvCh' : j >= i /\ recvCh'[j] = CallEndOf(c)
        BY DEF FramesEnd
      <4>1. i \in DOMAIN recvCh /\ recvCh[i].call = c
        BY <1>7, <1>8
      <4>2. PICK j \in DOMAIN recvCh : j >= i /\ recvCh[j] = CallEndOf(c)
        BY <4>1 DEF Settled, FramesEnd
      <4> QED
        BY <1>7, <1>8, <4>2
    <3> QED
      BY <1>3, <3>1, <3>2 DEF Settled
  <2> QED
    BY <1>2, <1>4, <2>1, <2>2
<1>9. CASE ~full /\ c = call
  <2>1. CASE kind = "call_end"
    <3>1. recvCh'[Len(recvCh) + 1] = CallEndOf(c)
      BY <1>7, <1>9, <2>1 DEF CallEndOf
    <3>2. FramesEnd(c)' /\ EndQueued(c)'
      BY <1>7, <1>9, <3>1 DEF FramesEnd, EndQueued
    <3> QED
      BY <3>2 DEF Settled
  <2>2. CASE kind # "call_end"
    BY <1>1, <1>2, <1>9, <2>2, CallAssumption DEF Attached
  <2> QED
    BY <2>1, <2>2
<1> QED
  BY <1>5, <1>6, <1>8, <1>9

(* The steps of the transport, and of those that leave it alone. *)
LEMMA SameCallsInv ==
  ASSUME CallsInv, UNCHANGED <<draining, recvCh, refused, late, ended, callSIDs, routing, stored>>
  PROVE  CallsInv'
BY DEF CallsInv, Attached, Settled, FramesEnd, EndQueued, Delivers, HoldsEnd, Stored

LEMMA MapsKeepCalls ==
  ASSUME TransportInv, CallsInv,
         UNCHANGED <<draining, recvCh, refused, late, ended, routing, stored>>,
         ~draining => \A s \in Streams \ ended : callSIDs[s] \in Calls =>
           \E t \in Streams \ ended : callSIDs'[t] = callSIDs[s]
  PROVE  CallsInv'
<1> SUFFICES ASSUME ~draining, NEW c \in Calls
             PROVE  c \in late \cup refused \/ Attached(c)' \/ Settled(c)'
  BY DEF CallsInv
<1>1. c \in late \cup refused \/ Attached(c) \/ Settled(c)
  BY DEF CallsInv
<1>2. Attached(c) => Attached(c)'
  BY DEF Attached
<1>3. Settled(c) => Settled(c)'
  BY DEF Settled, FramesEnd, EndQueued, Delivers, HoldsEnd, Stored
<1> QED
  BY <1>1, <1>2, <1>3

LEMMA TransportCalls ==
  ASSUME TransportInv, CallsInv, UNCHANGED <<routing, stored>>,
         TransportNext \/ \E s \in Streams : Connect(s)
  PROVE  CallsInv'
<1> USE DEF TransportInv, HandlerAt
<1>1. /\ \A s \in Streams : /\ callSIDs[s] \in Calls \cup {NoCall}
                            /\ handler[s].call \in Calls \cup {NoCall}
                            /\ CallOf[s] \in Calls \cup {NoCall}
      /\ callback.call \in Calls \cup {NoCall} /\ webhook.call \in Calls \cup {NoCall}
  BY TransportAssumption DEF TransportTypeOK
<1>2. CASE draining'
  BY <1>2 DEF CallsInv
<1> SUFFICES ASSUME ~draining'
             PROVE  CallsInv'
  BY <1>2
<1>3. ~draining
  BY DEF TransportNext, Connect, Handler, HandlerStep, Attach, ReadMedia, ReadEnd, HangUp,
         CloseOld, SendStart, SendReconnect, SendMedia, SendEnd, Detach, HandlerPanics,
         CallbackBegin, CallbackStep, CallbackMeta, CallbackSend, CallbackDetach, CallbackClose,
         CallbackPanics, WebhookBegin, WebhookStep, WebhookSend, WebhookPanics, control
<1>4. ASSUME NEW s \in Streams,
             \/ Connect(s) \/ HangUp(s) \/ ReadMedia(s) \/ ReadEnd(s) \/ CloseOld(s)
             \/ HandlerPanics(s) \/ WebhookBegin(s)
      PROVE  CallsInv'
  <2>1. UNCHANGED <<draining, recvCh, refused, late, ended, callSIDs>>
    BY <1>4 DEF Connect, HangUp, ReadMedia, ReadEnd, CloseOld, HandlerPanics, WebhookBegin,
                maps, control, channel
  <2> QED
    BY <2>1, SameCallsInv
<1>5. ASSUME NEW s \in Streams, Attach(s)
      PROVE  CallsInv'
  <2> DEFINE c == CallOf[s]
             old == callStreams[c]
  <2>1. /\ UNCHANGED <<draining, recvCh, refused, late, ended>>
        /\ handler[s].pc = "connected"
        /\ callSIDs' = [t \in Streams |-> IF t = s THEN c ELSE IF t = old THEN NoCall ELSE callSIDs[t]]
    BY <1>5 DEF Attach, control, channel
  <2>2. c \in Calls /\ s \notin ended /\ callSIDs[s] = NoCall
    BY <1>3, <2>1, TransportAssumption DEF HandlersInv
  <2>3. \A t \in Streams : t = old => callSIDs[t] = c
    BY <1>3, <2>2 DEF MapsAgree
  <2>4. ASSUME NEW t \in Streams \ ended, callSIDs[t] \in Calls
        PROVE  \E u \in Streams \ ended : callSIDs'[u] = callSIDs[t]
    <3>1. CASE t = old
      <4>1. callSIDs'[s] = callSIDs[t] /\ s \in Streams \ ended
        BY <2>1, <2>2, <2>3, <3>1
      <4> QED
        BY <4>1
    <3>2. CASE t # old
      <4>1. callSIDs'[t] = callSIDs[t]
        BY <2>1, <2>2, <2>4, <3>2, CallAssumption
      <4> QED
        BY <4>1
    <3> QED
      BY <3>1, <3>2
  <2> QED
    BY <2>1, <2>4, MapsKeepCalls
<1>6. ASSUME NEW s \in Streams, DetachMaps(s), s \in ended,
             UNCHANGED <<draining, recvCh, refused, late, ended>>
      PROVE  CallsInv'
  <2>1. \A t \in Streams \ ended : callSIDs'[t] = callSIDs[t]
    BY <1>6, DetachMapsEffect
  <2> QED
    BY <1>6, <2>1, MapsKeepCalls
<1>7. ASSUME NEW s \in Streams, Detach(s)
      PROVE  CallsInv'
  BY <1>3, <1>6, <1>7 DEF Detach, HandlersInv, control, channel
<1>8. CASE CallbackDetach
  BY <1>3, <1>6, <1>8 DEF CallbackDetach, HandlersInv, NamesInv, control, channel
<1>9. ASSUME NEW s \in Streams, SendStart(s) \/ SendReconnect(s) \/ SendMedia(s)
      PROVE  CallsInv'
  <2>1. PICK kind \in {"call_start", "other"}, c \in Calls \cup {NoCall} : Send(kind, c, s)
    BY <1>1, <1>9 DEF SendStart, SendReconnect, SendMedia
  <2>2. UNCHANGED <<callSIDs, routing, stored>>
    BY <1>9 DEF SendStart, SendReconnect, SendMedia, maps
  <2> QED
    BY <1>3, <2>1, <2>2, SendKeepsCalls DEF FrameKinds
<1>10. ASSUME NEW s \in Streams, SendEnd(s)
       PROVE  CallsInv'
  <2>1. Send("call_end", handler[s].call, s) /\ UNCHANGED <<callSIDs, routing, stored>>
    BY <1>10 DEF SendEnd, maps
  <2>2. callSIDs[s] \in {NoCall, handler[s].call}
    BY <1>3, <1>10 DEF SendEnd, HandlersInv
  <2> QED
    BY <1>1, <1>3, <2>1, <2>2, SendKeepsCalls DEF FrameKinds
<1>11. CASE CallbackSend
  <2>1. /\ Send("call_end", callback.call, callback.stream) /\ UNCHANGED <<callSIDs, routing, stored>>
        /\ callback.stream \in Streams
    BY <1>11 DEF CallbackSend, NamesInv, maps
  <2>2. callSIDs[callback.stream] \in {NoCall, callback.call}
    BY <1>3, <1>11, <2>1 DEF CallbackSend, HandlersInv
  <2> QED
    BY <1>1, <1>3, <2>1, <2>2, SendKeepsCalls DEF FrameKinds
<1>12. CASE WebhookSend
  <2>1. /\ Send("other", webhook.call, webhook.stream) /\ UNCHANGED <<callSIDs, routing, stored>>
        /\ webhook.stream \in Streams
    BY <1>12 DEF WebhookSend, NamesInv, maps
  <2> QED
    BY <1>1, <1>3, <2>1, SendKeepsCalls DEF FrameKinds
<1>13. CASE WebhookPanics \/ CallbackMeta \/ CallbackClose \/ CallbackPanics
            \/ \E c \in Calls : CallbackBegin(c)
  <2>1. UNCHANGED <<draining, recvCh, refused, late, ended, callSIDs>>
    BY <1>13 DEF WebhookPanics, CallbackMeta, CallbackClose, CallbackPanics, CallbackBegin,
                 maps, control, channel
  <2> QED
    BY <2>1, SameCallsInv
<1> QED
  BY <1>4, <1>5, <1>7, <1>8, <1>9, <1>10, <1>11, <1>12, <1>13
     DEF TransportNext, Handler, HandlerStep, CallbackStep, WebhookStep

LEMMA TransportStep ==
  ASSUME EngineInv, Transport
  PROVE  EngineInv'
<1> USE DEF EngineInv
<1>1. /\ UNCHANGED <<registryVars, runnerVars, engineVars>>
      /\ TransportNext \/ \E s \in Streams : Connect(s)
  BY DEF Transport
<1>2. /\ UNCHANGED <<stored, count, created, live, worker, got, published, found>>
      /\ UNCHANGED <<routing, drainer>>
  BY <1>1 DEF registryVars, engineVars
<1>3. TransportInv' /\ CallsInv'
  BY <1>1, <1>2, TransportNextInv, TransportCalls
<1>4. RegistryInv'
  BY <1>1, RegistryNextInv
<1>5. RunnerTypeOK'
  BY <1>1 DEF runnerVars, RunnerTypeOK
<1>6. draining' = draining
  BY <1>1 DEF TransportNext, Connect, Handler, HandlerStep, Attach, ReadMedia, ReadEnd, HangUp,
         CloseOld, SendStart, SendReconnect, SendMedia, SendEnd, Detach, HandlerPanics,
         CallbackBegin, CallbackStep, CallbackMeta, CallbackSend, CallbackDetach, CallbackClose,
         CallbackPanics, WebhookBegin, WebhookStep, WebhookSend, WebhookPanics, control
<1>7. LoopsInv'
  BY <1>2, <1>6 DEF LoopsInv
<1> QED
  BY <1>3, <1>4, <1>5, <1>7

-----------------------------------------------------------------------------
(* The runner, and what ends its contexts. *)
LEMMA RunnerTypes ==
  ASSUME RunnerTypeOK,
         RunBegin \/ RunnerStep \/ ParentCancel \/ StopCancel \/ Drained
  PROVE  RunnerTypeOK'
<1>1. CASE RunBegin
  BY <1>1 DEF RunnerTypeOK, RunBegin
<1>2. CASE RunReplaceContext
  BY <1>2 DEF RunnerTypeOK, RunReplaceContext
<1>3. CASE RunSetRunning
  BY <1>3 DEF RunnerTypeOK, RunSetRunning
<1>4. CASE RunWakes
  BY <1>4 DEF RunnerTypeOK, RunWakes
<1>5. CASE OnceEnter
  BY <1>5 DEF RunnerTypeOK, OnceEnter
<1>6. CASE OnceLeave
  BY <1>6 DEF RunnerTypeOK, OnceLeave
<1>7. CASE StopReturns
  BY <1>7 DEF RunnerTypeOK, StopReturns
<1>8. CASE Drained
  BY <1>8 DEF RunnerTypeOK, Drained
<1>9. CASE ParentCancel
  BY <1>9 DEF RunnerTypeOK, ParentCancel
<1>10. CASE StopCancel
  BY <1>10 DEF RunnerTypeOK, StopCancel
<1> QED
  BY <1>1, <1>2, <1>3, <1>4, <1>5, <1>6, <1>7, <1>8, <1>9, <1>10 DEF RunnerStep

(* A step that leaves the transport, the registry and their loops alone, but *)
(* for the events still to come.                                             *)
LEMMA ElsewhereInv ==
  ASSUME EngineInv, RunnerTypeOK', UNCHANGED <<registryVars, engineVars>>, events' \subseteq Events,
         UNCHANGED <<maps, connOpen, control, channel, handler, callback, webhook>>
  PROVE  EngineInv'
<1> USE DEF EngineInv
<1>1. /\ UNCHANGED <<sessions, callSIDs, callStreams, connOpen, draining, recvClosed, recvCh,
                     refused, ended, late, handler, callback, webhook>>
      /\ UNCHANGED <<stored, count, created, live, worker, got, published, found>>
      /\ UNCHANGED <<routing, drainer>>
  BY DEF maps, control, channel, registryVars, engineVars
<1>2. TransportTypeOK'
  BY <1>1 DEF TransportInv, TransportTypeOK
<1>3. NamesInv' /\ MapsAgree' /\ HandlersInv'
  BY <1>1 DEF TransportInv, NamesInv, MapsAgree, HandlersInv
<1>4. RegistryInv'
  BY RegistryNextInv
<1>5. LoopsInv'
  BY <1>1 DEF LoopsInv
<1>6. CallsInv'
  BY <1>1, SameCallsInv
<1> QED
  BY <1>2, <1>3, <1>4, <1>5, <1>6 DEF TransportInv

LEMMA RunnerStepInv ==
  ASSUME EngineInv, Runner \/ Terminate
  PROVE  EngineInv'
<1>1. events \subseteq Events /\ RunnerTypeOK
  BY DEF EngineInv, TransportInv, TransportTypeOK
<1>2. CASE Runner
  <2>1. RunnerTypeOK'
    BY <1>1, <1>2, RunnerTypes DEF Runner
  <2> QED
    BY <1>1, <1>2, <2>1, ElsewhereInv DEF Runner, transportVars, maps, control, channel
<1>3. CASE Terminate
  <2>1. RunnerTypeOK' /\ events' \subseteq Events
    BY <1>1, <1>3, RunnerTypes DEF Terminate, Event
  <2> QED
    BY <1>3, <2>1, ElsewhereInv DEF Terminate
<1> QED
  BY <1>2, <1>3

-----------------------------------------------------------------------------
(* The drainer's steps.  Once draining, nothing is promised of the calls. *)
LEMMA DrainStep ==
  ASSUME EngineInv, DrainTransport \/ DrainRegistry \/ DrainEnd
  PROVE  EngineInv'
<1> USE DEF EngineInv
<1> USE EngineAssumption
<1>1. CASE DrainTransport
  <2>1. /\ UNCHANGED <<stored, count, created, live, worker, got, published, found>>
        /\ UNCHANGED <<routing, registryVars, runnerVars>>
    BY <1>1 DEF DrainTransport, registryVars
  <2>2. /\ draining' = TRUE
        /\ drainer' \in {"sessions", "channel", "registry"}
        /\ drainer \in {"accepting", "sessions", "channel"}
        /\ TransportInv'
    BY <1>1, StopInv DEF DrainTransport, LoopsInv, StopAccepting, StopSessions, StopChannel, control
  <2>3. RegistryInv' /\ RunnerTypeOK'
    BY <2>1, RegistryNextInv DEF runnerVars, RunnerTypeOK
  <2>4. LoopsInv' /\ CallsInv'
    BY <2>1, <2>2 DEF LoopsInv, CallsInv
  <2> QED
    BY <2>2, <2>3, <2>4
<1>2. CASE DrainRegistry
  <2>1. /\ UNCHANGED <<transportVars, runnerVars, routing>> /\ draining' = draining
        /\ drainer = "registry" /\ drainer' = "wait" /\ CloseAll(Drainer)
    BY <1>2 DEF DrainRegistry, transportVars
  <2>2. RegistryInv'
    BY <2>1, RangeBoundsInv
  <2>3. TransportInv'
    BY <2>1 DEF transportVars, TransportInv, TransportTypeOK, NamesInv, MapsAgree, HandlersInv
  <2>4. worker'[Router] = worker[Router]
    BY <2>1 DEF CloseAll, RegistryInv, RegistryTypeOK
  <2>5. LoopsInv' /\ CallsInv' /\ RunnerTypeOK'
    BY <2>1, <2>4 DEF LoopsInv, CallsInv, runnerVars, RunnerTypeOK
  <2> QED
    BY <2>2, <2>3, <2>5
<1>3. CASE DrainEnd
  <2>1. /\ UNCHANGED <<transportVars, registryVars, routing>> /\ draining' = draining
        /\ drainer = "wait" /\ drainer' = "done" /\ worker' = worker
        /\ Drained
    BY <1>3 DEF DrainEnd, transportVars, registryVars
  <2>2. RegistryInv' /\ RunnerTypeOK'
    BY <2>1, RegistryNextInv, RunnerTypes
  <2>3. TransportInv'
    BY <2>1 DEF transportVars, TransportInv, TransportTypeOK, NamesInv, MapsAgree, HandlersInv
  <2>4. LoopsInv' /\ CallsInv'
    BY <2>1 DEF LoopsInv, CallsInv
  <2> QED
    BY <2>2, <2>3, <2>4
<1> QED
  BY <1>1, <1>2, <1>3

-----------------------------------------------------------------------------
(* The router and the registry's goroutines. *)
LEMMA ReceiveInv ==
  ASSUME EngineInv, RouteReceive
  PROVE  EngineInv'
<1> USE DEF EngineInv
<1> DEFINE F == [kind : FrameKinds, call : Calls \cup {NoCall}]
           f == Head(recvCh)
<1>1. /\ UNCHANGED <<sessions, callSIDs, callStreams, connOpen, draining, recvClosed, refused,
                     ended, late, handler, callback, webhook, events, drainer>>
      /\ UNCHANGED <<stored, count, created, live, worker, got, published, found>>
      /\ UNCHANGED <<registryVars, runnerVars>>
      /\ routing.pc = "receive" /\ worker[Router].pc = "idle"
      /\ recvCh # <<>> /\ recvCh' = Tail(recvCh)
      /\ routing' = IF f.call = NoCall THEN routing
                    ELSE [pc |-> "held", kind |-> f.kind, call |-> f.call]
  BY DEF RouteReceive, maps, control, registryVars, At
<1>2. recvCh \in Seq(F) /\ Len(recvCh) <= RecvCap /\ RecvCap \in Nat
  BY TransportAssumption DEF TransportInv, TransportTypeOK
<1>3. /\ recvCh' \in Seq(F) /\ f = recvCh[1] /\ f \in F
      /\ Len(recvCh) \in Nat /\ Len(recvCh) >= 1 /\ Len(recvCh') = Len(recvCh) - 1
      /\ DOMAIN recvCh = 1 .. Len(recvCh) /\ DOMAIN recvCh' = 1 .. Len(recvCh) - 1
      /\ \A i \in DOMAIN recvCh' : recvCh'[i] = recvCh[i + 1]
  <2> HIDE DEF F, f
  <2>1. f \in F /\ Tail(recvCh) \in Seq(F) /\ f = recvCh[1]
    BY <1>1, <1>2, HeadTailProperties DEF f
  <2>2. Len(recvCh) \in Nat /\ Len(recvCh) >= 1 /\ Len(Tail(recvCh)) = Len(recvCh) - 1
    BY <1>1, <1>2, HeadTailProperties, LenProperties
  <2>3. \A i \in 1 .. Len(Tail(recvCh)) : Tail(recvCh)[i] = recvCh[i + 1]
    BY <1>1, <1>2, HeadTailProperties
  <2>4. DOMAIN recvCh = 1 .. Len(recvCh) /\ DOMAIN Tail(recvCh) = 1 .. Len(Tail(recvCh))
    BY <1>2, <2>1, LenProperties
  <2> QED
    BY <1>1, <2>1, <2>2, <2>3, <2>4
<1>4. TransportInv'
  <2>1. TransportTypeOK'
    BY <1>1, <1>2, <1>3 DEF TransportInv, TransportTypeOK
  <2>2. NamesInv' /\ MapsAgree' /\ HandlersInv'
    BY <1>1 DEF TransportInv, NamesInv, MapsAgree, HandlersInv
  <2> QED
    BY <2>1, <2>2 DEF TransportInv
<1>5. RegistryInv' /\ RunnerTypeOK'
  BY <1>1, RegistryNextInv DEF runnerVars, RunnerTypeOK
<1>6. LoopsInv'
  BY <1>1, <1>3 DEF LoopsInv
<1>7. CallsInv'
  <2> SUFFICES ASSUME ~draining, NEW c \in Calls, Settled(c)
               PROVE  Settled(c)'
    BY <1>1 DEF CallsInv, Attached
  <2>1. FramesEnd(c)'
    <3> SUFFICES ASSUME NEW i \in DOMAIN recvCh', recvCh'[i].call = c
                 PROVE  \E j \in DOMAIN recvCh' : j >= i /\ recvCh'[j] = CallEndOf(c)
      BY DEF FramesEnd
    <3>1. i + 1 \in DOMAIN recvCh /\ recvCh[i + 1].call = c
      BY <1>3
    <3>2. PICK j \in DOMAIN recvCh : j >= i + 1 /\ recvCh[j] = CallEndOf(c)
      BY <3>1 DEF Settled, FramesEnd
    <3>3. j - 1 \in DOMAIN recvCh' /\ j - 1 >= i /\ recvCh'[j - 1] = CallEndOf(c)
      BY <1>3, <3>1, <3>2
    <3> QED
      BY <3>3
  <2>2. EndQueued(c) => EndQueued(c)' \/ f = CallEndOf(c)
    <3> SUFFICES ASSUME NEW j \in DOMAIN recvCh, recvCh[j] = CallEndOf(c), f # CallEndOf(c)
                 PROVE  EndQueued(c)'
      BY DEF EndQueued
    <3>1. j - 1 \in DOMAIN recvCh' /\ recvCh'[j - 1] = CallEndOf(c)
      BY <1>3
    <3> QED
      BY <3>1 DEF EndQueued
  <2>3. f = CallEndOf(c) => HoldsEnd(c)'
    BY <1>1, CallAssumption DEF CallEndOf, HoldsEnd
  <2>4. Delivers(c)' => EndQueued(c)'
    <3> SUFFICES ASSUME Delivers(c)'
                 PROVE  EndQueued(c)'
      OBVIOUS
    <3>1. f.call = c /\ f.kind # "call_end"
      BY <1>1 DEF Delivers, HoldsEnd
    <3>2. EndQueued(c)
      BY <1>3, <3>1 DEF Settled, FramesEnd, EndQueued
    <3> QED
      BY <2>2, <3>1, <3>2 DEF CallEndOf
  <2>5. c \in Stored' => EndQueued(c)' \/ HoldsEnd(c)'
    <3>1. Stored' = Stored /\ ~HoldsEnd(c)
      BY <1>1 DEF Stored, HoldsEnd
    <3> QED
      BY <2>2, <2>3, <3>1 DEF Settled
  <2> QED
    BY <2>1, <2>4, <2>5 DEF Settled
<1> QED
  BY <1>4, <1>5, <1>6, <1>7

(* What a step of the router or the drainer leaves alone. *)
LEMMA SameTransportInv ==
  ASSUME EngineInv, UNCHANGED transportVars, UNCHANGED runnerVars
  PROVE  TransportInv' /\ RunnerTypeOK'
BY DEF EngineInv, transportVars, TransportInv, TransportTypeOK, NamesInv, MapsAgree, HandlersInv,
       runnerVars, RunnerTypeOK

(* The calls, where neither the transport nor the frame of any call changes, *)
(* and the sessions only of the call the router delivers a frame of.         *)
LEMMA SameFramesInv ==
  ASSUME CallsInv, UNCHANGED <<draining, recvCh, refused, late, ended, callSIDs>>,
         \A c \in Calls : Delivers(c)' => Delivers(c),
         \A c \in Calls : HoldsEnd(c) => HoldsEnd(c)' \/ c \notin Stored',
         \A c \in Calls : c \in Stored' => c \in Stored \/ Delivers(c)
  PROVE  CallsInv'
<1> SUFFICES ASSUME ~draining, NEW c \in Calls, Settled(c)
             PROVE  Settled(c)'
  BY DEF CallsInv, Attached
<1>1. FramesEnd(c)' /\ (EndQueued(c)' <=> EndQueued(c))
  BY DEF FramesEnd, EndQueued, Settled
<1> QED
  BY <1>1 DEF Settled

LEMMA RouteCallEndInv ==
  ASSUME EngineInv, RouteCallEnd
  PROVE  EngineInv'
<1> USE EngineAssumption DEF EngineInv
<1> DEFINE c == routing.call
<1>1. /\ UNCHANGED <<transportVars, runnerVars, drainer>>
      /\ UNCHANGED <<draining, recvCh, refused, late, ended, callSIDs>>
      /\ routing.pc = "held" /\ routing.kind = "call_end"
      /\ worker[Router].pc = "idle" /\ Delete(Router, c)
      /\ routing' = NoFrameHeld
      /\ c \in Calls /\ Router \in Workers /\ Drainer \in Workers /\ Drainer # Router
  BY DEF RouteCallEnd, Remove, At, transportVars, LoopsInv
<1>2. TransportInv' /\ RunnerTypeOK'
  BY <1>1, SameTransportInv
<1>3. RegistryInv'
  BY <1>1, DeleteInv
<1>4. /\ stored' = [stored EXCEPT ![c] = None] /\ worker \in [Workers -> WorkerState]
      /\ worker'[Router].pc \in {"idle", "stop"} /\ ~worker'[Router].closing
      /\ worker'[Drainer].pc = worker[Drainer].pc
  BY <1>1 DEF Delete, RegistryInv, RegistryTypeOK, LoopsInv, WorkerState
<1>5. LoopsInv'
  BY <1>1, <1>4 DEF LoopsInv, NoFrameHeld, FrameKinds, transportVars
<1>6. CallsInv'
  <2>1. \A d \in Calls : ~Delivers(d)' /\ (HoldsEnd(d) => d = c)
    BY <1>1 DEF Delivers, HoldsEnd, NoFrameHeld
  <2>2. Stored' = Stored \ {c}
    BY <1>4 DEF Stored, RegistryInv, RegistryTypeOK
  <2> QED
    BY <1>1, <2>1, <2>2, SameFramesInv
<1> QED
  BY <1>2, <1>3, <1>5, <1>6

LEMMA RouteFrameInv ==
  ASSUME EngineInv, RouteFrame
  PROVE  EngineInv'
<1> USE EngineAssumption DEF EngineInv
<1> DEFINE c == routing.call
<1>1. /\ UNCHANGED <<transportVars, runnerVars, drainer>>
      /\ UNCHANGED <<draining, recvCh, refused, late, ended, callSIDs>>
      /\ routing.pc = "held" /\ routing.kind # "call_end"
      /\ Lookup(Router, c)
      /\ routing' = [routing EXCEPT !.pc = "deliver"]
      /\ c \in Calls /\ Router \in Workers /\ Drainer \in Workers /\ Drainer # Router
  BY DEF RouteFrame, transportVars, LoopsInv
<1>2. TransportInv' /\ RunnerTypeOK'
  BY <1>1, SameTransportInv
<1>3. RegistryInv'
  BY <1>1, LookupInv
<1>4. /\ stored' = stored /\ worker \in [Workers -> WorkerState]
      /\ worker'[Router].pc \in {"create", "idle"} /\ ~worker'[Router].closing
      /\ worker'[Router].pc = "create" => worker'[Router].call = c
      /\ worker'[Drainer] = worker[Drainer]
  BY <1>1 DEF Lookup, At, Idle, RegistryInv, RegistryTypeOK, LoopsInv
<1>5. /\ routing \in [pc : {"receive", "held", "deliver", "exited"}, kind : FrameKinds,
                      call : Calls \cup {NoCall}]
      /\ routing'.pc = "deliver" /\ routing'.call = c
  BY <1>1 DEF LoopsInv
<1>6. LoopsInv'
  BY <1>1, <1>4, <1>5 DEF LoopsInv, transportVars
<1>7. CallsInv'
  BY <1>1, <1>4, <1>5, SameFramesInv DEF Delivers, HoldsEnd, Stored
<1> QED
  BY <1>2, <1>3, <1>6, <1>7

LEMMA RouteRestInv ==
  ASSUME EngineInv, RouteDeliver \/ RouteExit
  PROVE  EngineInv'
<1> USE EngineAssumption DEF EngineInv
<1>1. /\ UNCHANGED <<transportVars, registryVars, runnerVars, drainer>>
      /\ UNCHANGED <<draining, recvCh, refused, late, ended, callSIDs>>
      /\ UNCHANGED <<stored, worker>>
      /\ routing.pc \in {"deliver", "receive"} /\ worker[Router].pc = "idle"
      /\ routing' = NoFrameHeld \/ routing' = [routing EXCEPT !.pc = "exited"]
  BY DEF RouteDeliver, RouteExit, At, transportVars, registryVars
<1>2. TransportInv' /\ RunnerTypeOK'
  BY <1>1, SameTransportInv
<1>3. RegistryInv'
  BY <1>1, RegistryNextInv
<1>4. /\ routing' \in [pc : {"receive", "held", "deliver", "exited"}, kind : FrameKinds,
                       call : Calls \cup {NoCall}]
      /\ routing'.pc \in {"receive", "exited"}
  BY <1>1 DEF LoopsInv, NoFrameHeld, FrameKinds
<1>5. LoopsInv'
  BY <1>1, <1>4 DEF LoopsInv
<1>6. CallsInv'
  BY <1>1, <1>4, SameFramesInv DEF Delivers, HoldsEnd, Stored
<1> QED
  BY <1>2, <1>3, <1>5, <1>6

(* A goroutine in the registry moves no other. *)
LEMMA OtherWorkers ==
  ASSUME RegistryInv, NEW w \in Workers, WorkerStep(w), NEW v \in Workers, v # w
  PROVE  /\ worker'[v].pc = worker[v].pc
         /\ worker'[v].call = worker[v].call
         /\ worker'[v].closing = worker[v].closing
<1>1. worker \in [Workers -> WorkerState] /\ worker[v] \in WorkerState
  BY DEF RegistryInv, RegistryTypeOK
<1>2. CASE RangeVisit(w)
  <2>1. PICK c \in Calls : worker'[v] = [worker[v] EXCEPT !.due = @ \ {c}]
    BY <1>2 DEF RangeVisit, Delete, Stored
  <2> QED
    BY <1>1, <2>1 DEF WorkerState
<1>3. CASE FactoryFails(w) \/ Discard(w) \/ CountUp(w) \/ CountDown(w)
  BY <1>3, ReturnLocals DEF FactoryFails, Discard, CountUp, CountDown
<1>4. CASE Create(w)
  BY <1>1, <1>4 DEF Create
<1>5. CASE Store(w) \/ Loaded(w) \/ StopSession(w)
  BY <1>1, <1>5 DEF Store, Loaded, StopSession, Goto
<1>6. CASE RangeEnd(w)
  BY <1>1, <1>6 DEF RangeEnd
<1> QED
  BY <1>2, <1>3, <1>4, <1>5, <1>6
     DEF WorkerStep, GetOrCreateStep, RemoveStep, CloseAllStep

(* Inside the registry: the drainer only once draining, and the router only  *)
(* for the call of the frame it delivers, or to end what it has deleted.     *)
LEMMA RegistryStepInv ==
  ASSUME EngineInv, NEW w \in {Router, Drainer}, RegistryStep(w)
  PROVE  EngineInv'
<1> USE EngineAssumption DEF EngineInv
<1>1. /\ UNCHANGED <<transportVars, runnerVars, routing, drainer>>
      /\ UNCHANGED <<draining, recvCh, refused, late, ended, callSIDs>>
      /\ WorkerStep(w) /\ w \in Workers /\ Router # Drainer
  BY DEF RegistryStep, engineVars, transportVars
<1>2. TransportInv' /\ RunnerTypeOK'
  BY <1>1, SameTransportInv
<1>3. RegistryInv'
  BY <1>1, RegistryNextInv DEF RegistryNext
<1>4. worker[w].pc # "idle" /\ (worker[w].pc = "range" => worker[w].closing)
  BY <1>1 DEF WorkerStep, GetOrCreateStep, RemoveStep, CloseAllStep, FactoryFails, Create, Store,
              Loaded, Discard, CountUp, StopSession, CountDown, RangeVisit, RangeEnd, At,
              RegistryInv, LocalsInv
<1>5. CASE w = Drainer
  <2>1. drainer \in {"wait", "done"} /\ draining
    BY <1>4, <1>5 DEF LoopsInv
  <2>2. worker'[Router].pc = worker[Router].pc /\ worker'[Router].call = worker[Router].call
        /\ worker'[Router].closing = worker[Router].closing
    BY <1>1, <1>5, OtherWorkers
  <2>3. LoopsInv' /\ CallsInv'
    BY <1>1, <1>5, <2>1, <2>2 DEF LoopsInv, CallsInv
  <2> QED
    BY <1>2, <1>3, <2>3
<1>6. CASE w = Router
  <2>1. GetOrCreateStep(w) \/ RemoveStep(w)
    BY <1>1, <1>4, <1>6 DEF WorkerStep, CloseAllStep, RangeVisit, RangeEnd, At, LoopsInv
  <2>2. /\ worker \in [Workers -> WorkerState] /\ worker[w] \in WorkerState
        /\ stored \in [Calls -> Sessions \cup {None}]
    BY <1>1 DEF RegistryInv, RegistryTypeOK
  <2>3. /\ worker'[Drainer] = worker[Drainer] /\ ~worker'[w].closing
        /\ worker'[w].pc \in {"create", "store", "add", "discard"} =>
             /\ worker[w].pc \in {"create", "store", "add", "discard"}
             /\ worker'[w].call = worker[w].call
    <3>1. CASE Create(w) \/ Store(w) \/ Loaded(w) \/ StopSession(w)
      <4>1. /\ worker'[w].pc \in {"store", "add", "discard"} => worker[w].pc \in {"create", "store"}
            /\ worker'[w].call = worker[w].call /\ worker'[w].closing = worker[w].closing
            /\ \A v \in Workers : v # w => worker'[v] = worker[v]
        <5>1. CASE Create(w)
          BY <1>1, <2>2, <5>1 DEF Create, At, WorkerState
        <5>2. CASE Store(w)
          BY <1>1, <2>2, <5>2 DEF Store, Goto, At, WorkerState
        <5>3. CASE Loaded(w)
          BY <1>1, <2>2, <5>3 DEF Loaded, Goto, At, WorkerState
        <5>4. CASE StopSession(w)
          BY <1>1, <2>2, <5>4 DEF StopSession, Goto, At, WorkerState
        <5> QED
          BY <3>1, <5>1, <5>2, <5>3, <5>4
      <4>2. worker'[w].pc # "create"
        <5>1. CASE Create(w)
          BY <1>1, <2>2, <5>1 DEF Create, WorkerState
        <5>2. CASE Store(w)
          BY <1>1, <2>2, <5>2 DEF Store, Goto, WorkerState
        <5>3. CASE Loaded(w)
          BY <1>1, <2>2, <5>3 DEF Loaded, Goto, WorkerState
        <5>4. CASE StopSession(w)
          BY <1>1, <2>2, <5>4 DEF StopSession, Goto, WorkerState
        <5> QED
          BY <3>1, <5>1, <5>2, <5>3, <5>4
      <4> QED
        BY <1>1, <1>6, <4>1, <4>2 DEF LoopsInv
    <3>2. CASE FactoryFails(w) \/ Discard(w) \/ CountUp(w) \/ CountDown(w)
      <4>1. Return(w)
        BY <3>2 DEF FactoryFails, Discard, CountUp, CountDown
      <4>2. worker'[w].pc \in {"idle", "range"} /\ worker'[w].closing = worker[w].closing
            /\ \A v \in Workers : v # w => worker'[v] = worker[v]
        BY <1>1, <4>1, ReturnLocals
      <4> QED
        BY <1>1, <1>6, <4>2 DEF LoopsInv
    <3> QED
      BY <2>1, <3>1, <3>2 DEF GetOrCreateStep, RemoveStep
  <2>4. LoopsInv'
    BY <1>1, <1>6, <2>3 DEF LoopsInv
  <2>5. \A c \in Calls : c \in Stored' => c \in Stored \/ Delivers(c)
    <3>1. CASE Store(w)
      <4>1. routing.pc = "deliver" /\ routing.call = worker[w].call
        BY <1>6, <3>1 DEF Store, At, LoopsInv
      <4>2. \A c \in Calls : c # worker[w].call => stored'[c] = stored[c]
        BY <2>2, <3>1 DEF Store
      <4> QED
        BY <4>1, <4>2 DEF Stored, Delivers, HoldsEnd
    <3>2. CASE ~Store(w)
      <4>1. stored' = stored
        BY <2>1, <3>2 DEF GetOrCreateStep, RemoveStep, FactoryFails, Create, Loaded, Discard,
                          CountUp, StopSession, CountDown
      <4> QED
        BY <4>1 DEF Stored
    <3> QED
      BY <3>1, <3>2
  <2>6. CallsInv'
    BY <1>1, <2>5, SameFramesInv DEF Delivers, HoldsEnd
  <2> QED
    BY <1>2, <1>3, <2>4, <2>6
<1> QED
  BY <1>5, <1>6

-----------------------------------------------------------------------------
LEMMA EngineInitInv == Init => EngineInv
<1> SUFFICES ASSUME Init
             PROVE  EngineInv
  OBVIOUS
<1> USE TransportAssumption, CallAssumption, EngineAssumption DEF Init, TransportInit, RunnerInit
<1>1. TransportTypeOK
  <2>1. /\ <<>> \in Seq([kind : FrameKinds, call : Calls \cup {NoCall}])
        /\ Len(<<>>) = 0
    BY EmptySeq
  <2>2. events \subseteq Events /\ RecvCap \in Nat
    OBVIOUS
  <2>3. /\ recvCh \in Seq([kind : FrameKinds, call : Calls \cup {NoCall}])
        /\ Len(recvCh) <= RecvCap
    BY <2>1, <2>2
  <2>4. /\ handler \in [Streams -> HandlerState]
        /\ callback \in [pc : {"idle", "meta", "end", "detach", "close"},
                          call : Calls \cup {NoCall}, stream : Streams \cup {NoStream}]
        /\ webhook \in [pc : {"idle", "send"}, call : Calls \cup {NoCall},
                         stream : Streams \cup {NoStream}]
    BY DEF HandlerState, HandlerPcs
  <2> QED
    BY <2>2, <2>3, <2>4 DEF TransportTypeOK, HandlerState, HandlerPcs
<1>2. NamesInv /\ MapsAgree /\ HandlersInv
  BY DEF NamesInv, MapsAgree, HandlersInv
<1>3. RegistryInv
  BY RegistryInitInv
<1>4. RunnerTypeOK
  BY DEF RunnerTypeOK
<1>5. worker = [w \in Workers |-> Idle] /\ stored = [c \in Calls |-> None]
  BY DEF RegistryInit
<1>6. LoopsInv
  BY <1>5 DEF LoopsInv, NoFrameHeld, FrameKinds, Idle
<1>7. CallsInv
  <2>1. \A c \in Calls : Settled(c)
    <3>1. recvCh = <<>> /\ DOMAIN recvCh = {} /\ Stored = {} /\ routing.pc = "receive"
      BY <1>5 DEF Stored, NoFrameHeld
    <3> QED
      BY <3>1 DEF Settled, FramesEnd, Delivers
  <2> QED
    BY <2>1 DEF CallsInv
<1> QED
  BY <1>1, <1>2, <1>3, <1>4, <1>6, <1>7 DEF EngineInv, TransportInv

LEMMA EngineNextInv == EngineInv /\ [Next]_vars => EngineInv'
<1> SUFFICES ASSUME EngineInv, [Next]_vars
             PROVE  EngineInv'
  OBVIOUS
<1>1. CASE UNCHANGED vars
  <2>1. UNCHANGED <<transportVars, registryVars, runnerVars, engineVars>>
    BY <1>1 DEF vars
  <2>2. events' \subseteq Events /\ RunnerTypeOK'
    BY <2>1 DEF EngineInv, TransportInv, TransportTypeOK, transportVars, RunnerTypeOK, runnerVars
  <2> QED
    BY <2>1, <2>2, ElsewhereInv DEF transportVars, maps, control, channel
<1>2. CASE Route
  BY <1>2, ReceiveInv, RouteCallEndInv, RouteFrameInv, RouteRestInv, RegistryStepInv DEF Route
<1>3. CASE Drain
  BY <1>3, DrainStep, RegistryStepInv DEF Drain
<1> QED
  BY <1>1, <1>2, <1>3, TransportStep, RunnerStepInv DEF Next

LEMMA EngineAlwaysInv == Spec => []EngineInv
BY EngineInitInv, EngineNextInv, PTL DEF Spec

(* Every variable of the transport, the registry, the runner and the engine's *)
(* loops keeps its type, and recvCh its capacity.                             *)
THEOREM EngineTypeCorrect == Spec => []TypeOK
<1>1. EngineInv => TypeOK
  BY DEF EngineInv, TransportInv, RegistryInv, LoopsInv, TypeOK
<1> QED
  BY <1>1, EngineAlwaysInv, PTL

(* attach and detach (transport.go:610) keep the transport's maps consistent *)
(* whatever the handlers, the callback and the reconnects of any number of   *)
(* streams do between their steps.                                           *)
THEOREM MapsAlwaysAgree == Spec => []MapsAgree
<1>1. EngineInv => MapsAgree
  BY DEF EngineInv, TransportInv
<1> QED
  BY <1>1, EngineAlwaysInv, PTL

(* No session outlives its call: once nothing of a call is left in the       *)
(* transport, recvCh or the router (engine.go:306), the registry is without  *)
(* it, for any number of calls and of reconnects, and any capacity.          *)
THEOREM CallsEndInRegistry == Spec => []EndedCallsAreRemoved
<1>1. EngineInv => EndedCallsAreRemoved
  <2> SUFFICES ASSUME EngineInv, NEW c \in Calls, Quiet(c), ~draining, c \notin late \cup refused
               PROVE  c \notin Stored
    BY DEF EndedCallsAreRemoved
  <2>1. ~Attached(c)
    BY CallAssumption DEF EngineInv, TransportInv, HandlersInv, Attached, Quiet, HandlerAt
  <2>2. Settled(c)
    BY <2>1 DEF EngineInv, CallsInv
  <2>3. ~EndQueued(c) /\ ~HoldsEnd(c)
    BY DEF EndQueued, HoldsEnd, CallEndOf, Quiet
  <2> QED
    BY <2>2, <2>3 DEF Settled
<1> QED
  BY <1>1, EngineAlwaysInv, PTL

(* What the engine does to the registry is what SessionRegistry lets its     *)
(* goroutines do, so all that is proved of RegistrySpec holds in the engine. *)
THEOREM EngineUsesRegistry == Spec => RegistrySpec
<1>1. EngineInv /\ [Next]_vars => [RegistryNext]_registryVars
  <2> SUFFICES ASSUME EngineInv, [Next]_vars
               PROVE  [RegistryNext]_registryVars
    OBVIOUS
  <2> USE EngineAssumption
  <2>1. CASE UNCHANGED vars
    BY <2>1 DEF vars
  <2>2. CASE Transport \/ Runner \/ Terminate \/ DrainTransport \/ DrainEnd
    BY <2>2 DEF Transport, Runner, Terminate, DrainTransport, DrainEnd
  <2>3. CASE RouteReceive \/ RouteDeliver \/ RouteExit
    BY <2>3 DEF RouteReceive, RouteDeliver, RouteExit
  <2>4. CASE RouteCallEnd \/ RouteFrame
    <3>1. routing.call \in Calls
      BY <2>4 DEF EngineInv, LoopsInv, RouteCallEnd, RouteFrame
    <3> QED
      BY <2>4, <3>1 DEF RouteCallEnd, RouteFrame, RegistryNext
  <2>5. CASE DrainRegistry \/ RegistryStep(Router) \/ RegistryStep(Drainer)
    BY <2>5 DEF DrainRegistry, RegistryStep, RegistryNext
  <2> QED
    BY <2>1, <2>2, <2>3, <2>4, <2>5 DEF Next, Route, Drain
<1>2. Init => RegistryInit
  BY DEF Init
<1> QED
  BY <1>1, <1>2, EngineAlwaysInv, PTL DEF Spec, RegistrySpec

(* And so the orchestrators the engine starts are stored, held by a goroutine *)
(* about to store or stop them, or stopped, while it drains too.              *)
THEOREM EngineLosesNoSession == Spec => [](EverySessionIsOwned /\ CountMatchesSessions)
BY EngineUsesRegistry, NoSessionIsLost, CountIsCorrect, PTL
=============================================================================
