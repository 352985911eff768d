---------------------------- MODULE Orchestrator ----------------------------
(***************************************************************************)
(* pkg/pipeline/orchestrator.go: the per-call pipeline.  A feeder moves    *)
(* frames from the input channel into the priority queue.  In sync mode a  *)
(* worker pops a frame and runs it through every processor; in async mode  *)
(* (the default) a popper, one goroutine per processor and a final         *)
(* goroutine are joined by bounded stage channels.  Stop cancels the       *)
(* context, sleeps 5 ms and closes the output channel.                     *)
(*                                                                         *)
(* Goroutines interleave at every channel operation and around every call  *)
(* of Process.  A processor is abstract: for a frame it returns an error   *)
(* or nil, the frame itself, the frame with a new one beside it, or a new  *)
(* frame in its place.  Lag (audio older than 500 ms) is a choice.         *)
(*                                                                         *)
(* The feeder, the stages and the final goroutine leave their select when  *)
(* the context is cancelled: here such a goroutine just takes no further   *)
(* step, which the fairness allows no promise after Stop to rest on.  Only *)
(* the popper's exit is a step of its own, since the popper may miss it.   *)
(***************************************************************************)
EXTENDS PriorityQueue, FiniteSets, SequencesExt

CONSTANTS
  AudioFrames,  \* the frames shouldDropForLag may find too old
  Spare,        \* frames a processor may create
  NProcs,       \* number of processors
  StageBuffer,  \* capacity of a stage channel (the default is 128)
  Configs       \* the configurations to check: [async, wait, sink] records

ASSUME OrchestratorAssumption ==
  /\ AudioFrames \subseteq OtherFrames
  /\ Spare \cap (Frame \cup {NoFrame}) = {}
  /\ NProcs \in Nat
  /\ StageBuffer \in Nat \ {0}
  /\ Configs \subseteq [async : BOOLEAN, wait : BOOLEAN, sink : BOOLEAN]

AnyFrame == Frame \cup Spare
InCap == HighCap + LowCap    \* of the input and of the output channel
Stages == 1 .. NProcs

VARIABLES
  cfg,        \* Config: async, Backpressure = wait, and whether a sink is set
  in, out,    \* the input and output channels
  outClosed,  \* Stop has closed out
  ctxDone,    \* the context is cancelled
  stopPc,     \* Stop: "running", "sleeping", "stopped"
  feeder,     \* the frame the feeder has received and not pushed yet
  stageCh,    \* async: stageCh[i] feeds processor i+1, the last one the sink
  outbox,     \* async: frames goroutine i still has to push (0: the popper)
  working,    \* async: the frame processor i is working on
  emitting,   \* async: the frame the final goroutine holds
  at,         \* sync: 0 = loop top, i = processor i, NProcs + 1 = emitting
  todo, next, \* sync: frames still to handle at this stage, and its results
  popperExited, \* the goroutine that pops has returned
  panicked    \* a goroutine has sent on the closed output channel

orchVars == <<cfg, in, out, outClosed, ctxDone, stopPc, feeder>>
asyncVars == <<stageCh, outbox, working, emitting>>
syncVars == <<at, todo, next>>

VARIABLES     \* history
  sent,       \* frames accepted by the input channel, in order
  delivered,  \* frames that reached the sink or the reader of out, in order
  dropped,    \* frames recordDrop has counted
  discarded,  \* frames a processor used up, failed on, or a stop abandoned
  spawned     \* frames a processor has created

histVars == <<sent, delivered, dropped, discarded, spawned>>
vars == <<pqVars, orchVars, asyncVars, syncVars, popperExited, panicked, histVars>>

Init ==
  /\ PQInit
  /\ cfg \in Configs
  /\ in = <<>> /\ out = <<>> /\ outClosed = FALSE
  /\ ctxDone = FALSE /\ stopPc = "running"
  /\ feeder = NoFrame
  /\ stageCh = [i \in 0 .. NProcs |-> <<>>]
  /\ outbox = [i \in 0 .. NProcs |-> <<>>]
  /\ working = [i \in Stages |-> NoFrame]
  /\ emitting = NoFrame
  /\ at = 0 /\ todo = <<>> /\ next = <<>>
  /\ popperExited = FALSE /\ panicked = FALSE
  /\ sent = <<>> /\ delivered = <<>>
  /\ dropped = {} /\ discarded = {} /\ spawned = {}

-----------------------------------------------------------------------------
(* A producer (routeTransport, the tool dispatcher) sends without blocking. *)
(* A frame the full channel refuses is the producer's to lose.              *)
Submit(f) ==
  /\ f \notin ToSet(sent)
  /\ Len(in) < InCap
  /\ in' = Append(in, f)
  /\ sent' = Append(sent, f)
  /\ UNCHANGED <<pqVars, cfg, out, outClosed, ctxDone, stopPc, feeder, asyncVars,
                 syncVars, popperExited, panicked, delivered, dropped, discarded, spawned>>

(* The feeder's select: a frame from in, or the cancelled context. *)
FeederReceive ==
  /\ feeder = NoFrame
  /\ in # <<>>
  /\ feeder' = Head(in)
  /\ in' = Tail(in)
  /\ UNCHANGED <<pqVars, cfg, out, outClosed, ctxDone, stopPc, asyncVars, syncVars,
                 popperExited, panicked, histVars>>

(* A mutant: audio goes to the high lane as well. *)
FeederPush_AudioHigh ==
  /\ feeder # NoFrame
  /\ IF feeder \in ControlFrames \cup AudioFrames THEN TryPushHigh(feeder) ELSE TryPushLow(feeder)
  /\ dropped' = IF high' = high /\ low' = low THEN dropped \cup {feeder} ELSE dropped
  /\ feeder' = NoFrame
  /\ UNCHANGED <<cfg, in, out, outClosed, ctxDone, stopPc, asyncVars, syncVars,
                 popperExited, panicked, sent, delivered, discarded, spawned>>

(* Control frames go to the high lane, the rest to the low one.  A full     *)
(* lane drops the frame in either backpressure mode.                        *)
FeederPush ==
  /\ feeder # NoFrame
  /\ IF feeder \in ControlFrames THEN TryPushHigh(feeder) ELSE TryPushLow(feeder)
  /\ dropped' = IF high' = high /\ low' = low THEN dropped \cup {feeder} ELSE dropped
  /\ feeder' = NoFrame
  /\ UNCHANGED <<cfg, in, out, outClosed, ctxDone, stopPc, asyncVars, syncVars,
                 popperExited, panicked, sent, delivered, discarded, spawned>>

Feeder == FeederReceive \/ FeederPush

-----------------------------------------------------------------------------
(* The loop of the goroutine that pops: it looks at the context only before *)
(* Pop, and Pop itself never does.                                          *)
PopperIdle == popped = NoFrame /\ popPc = "idle" /\ at = 0 /\ outbox[0] = <<>>

PopperCall ==
  /\ PopperIdle /\ ~popperExited
  /\ ~ctxDone
  /\ CallPop
  /\ UNCHANGED <<orchVars, asyncVars, syncVars, popperExited, panicked, histVars>>

PopperExit ==
  /\ PopperIdle /\ ~popperExited
  /\ ctxDone
  /\ popperExited' = TRUE
  /\ UNCHANGED <<pqVars, orchVars, asyncVars, syncVars, panicked, histVars>>

PopperPoll ==
  /\ PollHigh \/ PollLow
  /\ UNCHANGED <<orchVars, asyncVars, syncVars, popperExited, panicked, histVars>>

(* shouldDropForLag on the popped frame. *)
PopperDropStale ==
  /\ popped \in AudioFrames
  /\ UsePopped
  /\ dropped' = dropped \cup {popped}
  /\ UNCHANGED <<orchVars, asyncVars, syncVars, popperExited, panicked,
                 sent, delivered, discarded, spawned>>

(* Async: hand the frame to push.  Sync: start it through the processors. *)
PopperTake ==
  /\ UsePopped
  /\ IF cfg.async
       THEN /\ outbox' = [outbox EXCEPT ![0] = <<popped>>]
            /\ UNCHANGED syncVars
       ELSE /\ at' = 1
            /\ todo' = <<popped>>
            /\ UNCHANGED <<next, outbox>>
  /\ UNCHANGED <<orchVars, stageCh, working, emitting, popperExited, panicked, histVars>>

Popper == PopperCall \/ PopperExit \/ PopperPoll \/ PopperDropStale \/ PopperTake

-----------------------------------------------------------------------------
(* What Process may return for f. *)
Results(f) ==
  {<<>>, <<f>>} \cup
  UNION {{<<s>>, <<f, s>>, <<s, f>>} : s \in Spare \ spawned}

(* The bookkeeping of one call of Process. *)
Processed(f, r) ==
  /\ spawned' = spawned \cup (ToSet(r) \cap Spare)
  /\ discarded' = IF f \in ToSet(r) THEN discarded ELSE discarded \cup {f}
  /\ UNCHANGED <<sent, delivered, dropped>>

(* Mutants of PushLoses: the drop is not counted; wait mode is ignored. *)
PushLoses_Uncounted(e, full) ==
  \/ /\ e \in AudioFrames \/ (~cfg.wait /\ full)
     /\ UNCHANGED <<dropped, discarded>>
  \/ /\ cfg.wait /\ ctxDone
     /\ discarded' = discarded \cup {e}
     /\ UNCHANGED dropped

PushLoses_NoWait(e, full) ==
  /\ e \in AudioFrames \/ full
  /\ dropped' = dropped \cup {e}
  /\ UNCHANGED discarded

(* push, when it does not send e: the frame is stale, the channel is full   *)
(* in drop mode, or the context is cancelled while wait mode waits.         *)
PushLoses(e, full) ==
  \/ /\ e \in AudioFrames \/ (~cfg.wait /\ full)
     /\ dropped' = dropped \cup {e}
     /\ UNCHANGED discarded
  \/ /\ cfg.wait /\ ctxDone
     /\ discarded' = discarded \cup {e}
     /\ UNCHANGED dropped

(* emit: to the sink, or pushed to out, where sending on the closed channel *)
(* panics whichever mode is set.                                            *)
Emit(e) ==
  \/ /\ cfg.sink
     /\ delivered' = Append(delivered, e)
     /\ UNCHANGED <<out, panicked, dropped, discarded>>
  \/ /\ ~cfg.sink /\ ~outClosed /\ Len(out) < InCap
     /\ out' = Append(out, e)
     /\ UNCHANGED <<panicked, delivered, dropped, discarded>>
  \/ /\ ~cfg.sink /\ outClosed
     /\ panicked' = TRUE
     /\ UNCHANGED <<out, delivered, dropped, discarded>>
  \/ /\ ~cfg.sink
     /\ PushLoses(e, ~outClosed /\ Len(out) >= InCap)
     /\ UNCHANGED <<out, panicked, delivered>>

(* The reader of Out(), when there is no sink. *)
ReadOut ==
  /\ out # <<>>
  /\ out' = Tail(out)
  /\ delivered' = Append(delivered, Head(out))
  /\ UNCHANGED <<pqVars, cfg, in, outClosed, ctxDone, stopPc, feeder, asyncVars, syncVars,
                 popperExited, panicked, sent, dropped, discarded, spawned>>

-----------------------------------------------------------------------------
(* startSync: the worker takes the batch of frames through one processor    *)
(* after another.  A stage that leaves nothing ends the round.              *)
SyncProcess ==
  /\ at \in Stages
  /\ \E r \in Results(Head(todo)) :
       LET results == next \o r
           stageDone == Len(todo) = 1
       IN  /\ Processed(Head(todo), r)
           /\ todo' = IF stageDone THEN results ELSE Tail(todo)
           /\ next' = IF stageDone THEN <<>> ELSE results
           /\ at' = IF ~stageDone THEN at ELSE IF results = <<>> THEN 0 ELSE at + 1
  /\ UNCHANGED <<pqVars, orchVars, asyncVars, popperExited, panicked>>

SyncEmit ==
  /\ at = NProcs + 1
  /\ Emit(Head(todo))
  /\ todo' = Tail(todo)
  /\ at' = IF Len(todo) = 1 THEN 0 ELSE at
  /\ UNCHANGED <<pqVars, cfg, in, outClosed, ctxDone, stopPc, feeder, asyncVars, next,
                 popperExited, sent, spawned>>

-----------------------------------------------------------------------------
(* startAsync: goroutine i (0 is the popper) pushes its next frame to        *)
(* stageCh[i].                                                               *)
StagePush(i) ==
  LET e == Head(outbox[i])
      full == Len(stageCh[i]) >= StageBuffer
  IN  /\ outbox[i] # <<>>
      /\ outbox' = [outbox EXCEPT ![i] = Tail(@)]
      /\ \/ /\ ~full
            /\ stageCh' = [stageCh EXCEPT ![i] = Append(@, e)]
            /\ UNCHANGED <<dropped, discarded>>
         \/ /\ PushLoses(e, full)
            /\ UNCHANGED stageCh
      /\ UNCHANGED <<pqVars, orchVars, syncVars, working, emitting, popperExited, panicked,
                     sent, delivered, spawned>>

(* The select of processor i's goroutine. *)
StageReceive(i) ==
  /\ working[i] = NoFrame /\ outbox[i] = <<>>
  /\ stageCh[i - 1] # <<>>
  /\ working' = [working EXCEPT ![i] = Head(stageCh[i - 1])]
  /\ stageCh' = [stageCh EXCEPT ![i - 1] = Tail(@)]
  /\ UNCHANGED <<pqVars, orchVars, syncVars, outbox, emitting, popperExited, panicked, histVars>>

StageProcess(i) ==
  /\ working[i] # NoFrame
  /\ \E r \in Results(working[i]) :
       /\ Processed(working[i], r)
       /\ outbox' = [outbox EXCEPT ![i] = r]
  /\ working' = [working EXCEPT ![i] = NoFrame]
  /\ UNCHANGED <<pqVars, orchVars, syncVars, stageCh, emitting, popperExited, panicked>>

(* The goroutine from the final stage channel to emit. *)
FinalReceive ==
  /\ emitting = NoFrame
  /\ stageCh[NProcs] # <<>>
  /\ emitting' = Head(stageCh[NProcs])
  /\ stageCh' = [stageCh EXCEPT ![NProcs] = Tail(@)]
  /\ UNCHANGED <<pqVars, orchVars, syncVars, outbox, working, popperExited, panicked, histVars>>

FinalEmit ==
  /\ emitting # NoFrame
  /\ Emit(emitting)
  /\ emitting' = NoFrame
  /\ UNCHANGED <<pqVars, cfg, in, outClosed, ctxDone, stopPc, feeder, syncVars,
                 stageCh, outbox, working, popperExited, sent, spawned>>

Stage(i) == StagePush(i) \/ StageReceive(i) \/ StageProcess(i)

Final == FinalReceive \/ FinalEmit

-----------------------------------------------------------------------------
(* Stop: cancel, sleep 5 ms, close(out).  The sleep orders nothing: a        *)
(* Process call may take longer.                                             *)
StopCancel ==
  /\ stopPc = "running"
  /\ ctxDone' = TRUE
  /\ stopPc' = "sleeping"
  /\ UNCHANGED <<pqVars, cfg, in, out, outClosed, feeder, asyncVars, syncVars,
                 popperExited, panicked, histVars>>

StopClose ==
  /\ stopPc = "sleeping"
  /\ outClosed' = TRUE
  /\ stopPc' = "stopped"
  /\ UNCHANGED <<pqVars, cfg, in, out, ctxDone, feeder, asyncVars, syncVars,
                 popperExited, panicked, histVars>>

Next ==
  /\ ~panicked
  /\ \/ \E f \in Frame : Submit(f)
     \/ Feeder \/ Popper
     \/ SyncProcess \/ SyncEmit
     \/ \E i \in 0 .. NProcs : StagePush(i)
     \/ \E i \in Stages : StageReceive(i) \/ StageProcess(i)
     \/ Final \/ ReadOut
     \/ StopCancel \/ StopClose

(* Until Stop every goroutine keeps running and a reader of out keeps        *)
(* reading; after it only the popper and Stop itself are bound to go on.     *)
(* Nobody has to submit a frame or to stop the pipeline.                     *)
Running == ~panicked /\ ~ctxDone

Fairness ==
  /\ WF_vars(Running /\ Feeder)
  /\ WF_vars(~panicked /\ Popper)
  /\ WF_vars(~panicked /\ (SyncProcess \/ SyncEmit))
  /\ WF_vars(~panicked /\ StagePush(0))
  /\ \A i \in Stages : WF_vars(Running /\ Stage(i))
  /\ WF_vars(Running /\ Final)
  /\ WF_vars(Running /\ ReadOut)
  /\ WF_vars(~panicked /\ StopClose)

Spec == Init /\ [][Next]_vars /\ Fairness

-----------------------------------------------------------------------------
(* Where a frame can be, from the input channel to the sink or the reader of *)
(* out, and the slots of those places that hold one.                         *)
Held(f) == IF f = NoFrame THEN <<>> ELSE <<f>>

Places ==
  ({"in", "feeder", "high", "low", "popped", "todo", "next", "emitting", "out", "delivered"} \X {0})
    \cup ({"outbox", "stageCh"} \X (0 .. NProcs)) \cup ({"working"} \X Stages)

Holds(p) ==
  CASE p[1] = "in" -> in
    [] p[1] = "feeder" -> Held(feeder)
    [] p[1] = "high" -> high
    [] p[1] = "low" -> low
    [] p[1] = "popped" -> Held(popped)
    [] p[1] = "todo" -> todo
    [] p[1] = "next" -> next
    [] p[1] = "emitting" -> Held(emitting)
    [] p[1] = "out" -> out
    [] p[1] = "delivered" -> delivered
    [] p[1] = "outbox" -> outbox[p[2]]
    [] p[1] = "stageCh" -> stageCh[p[2]]
    [] p[1] = "working" -> Held(working[p[2]])

Slots == UNION {{p} \X DOMAIN Holds(p) : p \in Places}
FrameIn(slot) == Holds(slot[1])[slot[2]]

Kept == {FrameIn(x) : x \in Slots}
InFlight == {FrameIn(x) : x \in {y \in Slots : y[1] # <<"delivered", 0>>}}

(* Types of the orchestrator's state (the channels and locals of New,        *)
(* startSync and startAsync), and their capacities.                          *)
TypeOK ==
  /\ PQTypeOK
  /\ cfg \in Configs
  /\ in \in Seq(Frame) /\ Len(in) <= InCap
  /\ out \in Seq(AnyFrame) /\ Len(out) <= InCap
  /\ outClosed \in BOOLEAN /\ ctxDone \in BOOLEAN /\ panicked \in BOOLEAN
  /\ stopPc \in {"running", "sleeping", "stopped"}
  /\ feeder \in Frame \cup {NoFrame}
  /\ stageCh \in [0 .. NProcs -> Seq(AnyFrame)]
  /\ \A i \in 0 .. NProcs : Len(stageCh[i]) <= StageBuffer
  /\ outbox \in [0 .. NProcs -> Seq(AnyFrame)]
  /\ working \in [Stages -> AnyFrame \cup {NoFrame}]
  /\ emitting \in AnyFrame \cup {NoFrame}
  /\ at \in 0 .. NProcs + 1
  /\ todo \in Seq(AnyFrame) /\ next \in Seq(AnyFrame)
  /\ (at # 0) <=> (todo # <<>>)
  /\ popperExited \in BOOLEAN

(* Every frame the pipeline accepted or created is in exactly one place: on  *)
(* its way, delivered, counted as dropped, or used up by a processor or by a *)
(* stop.  Nothing is lost without a trace and nothing is handled twice,      *)
(* through every goroutine, both modes and Stop at any moment.               *)
Conservation ==
  ~panicked =>
    /\ \A x, y \in Slots : FrameIn(x) = FrameIn(y) => x = y
    /\ dropped \cap discarded = {}
    /\ Kept \cap (dropped \cup discarded) = {}
    /\ Kept \cup dropped \cup discarded = ToSet(sent) \cup spawned

(* The pipeline is a FrameChannel: its pending frames are the submitted ones  *)
(* still in flight.                                                          *)
Channel == INSTANCE FrameChannel WITH
  accepted <- sent, pending <- InFlight \cap Frame

ImplementsChannel == Channel!ChannelInit /\ [][Channel!ChannelNext]_(Channel!channelVars)

(* In wait mode nothing but the priority queue drops a frame that is not     *)
(* stale: behind it, push waits (orchestrator.go's BackpressureWait case).   *)
(* docs/en/pipeline.md:26, "blocks until space is available", does not except *)
(* the queue, whose lanes drop in either mode.                               *)
WaitLosesOnlyAtTheQueue ==
  [][cfg.wait => dropped' \ dropped \subseteq AudioFrames \cup {feeder}]_vars

(* While nobody stops the pipeline, every accepted frame comes out of it     *)
(* again, one way or another: no stage waits for another for ever.           *)
Settled(f) == f \in ToSet(delivered) \cup dropped \cup discarded

EveryFrameSettles == \A f \in Frame : (f \in ToSet(in)) ~> (Settled(f) \/ ctxDone)

-----------------------------------------------------------------------------
(* What a comment says and the code does not do.                             *)

(* Stop's comment: the sleep lets the goroutines exit and drain.  So the one *)
(* that pops exits once the context is cancelled.  It looks at the context   *)
(* only before Pop, and Pop returns only when a frame comes.                 *)
StopEndsThePopper == ctxDone ~> (popperExited \/ panicked)
=============================================================================
