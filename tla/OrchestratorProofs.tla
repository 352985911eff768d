------------------------- MODULE OrchestratorProofs -------------------------
(***************************************************************************)
(* For any number of processors, any capacities and both modes: the        *)
(* orchestrator's type; that it drives its queue as PriorityQueue says,    *)
(* hence the queue's promise; that every frame is accounted for (at most   *)
(* one place, counted once when lost); and that between Submit and the     *)
(* sink the whole is a FrameChannel.                                       *)
(*                                                                         *)
(* The last two rest on a view of the state as a map from places to        *)
(* sequences of frames (Where): each action is one of a few kinds of shift *)
(* of that map (StepKind), and what the shifts preserve is proved of them  *)
(* and not of the twenty actions.                                          *)
(***************************************************************************)
EXTENDS Orchestrator, PriorityQueueProofs, SequenceTheorems

(* What a processor may return is a sequence of frames. *)
LEMMA ResultsType ==
  ASSUME NEW f \in AnyFrame, NEW r \in Results(f)
  PROVE  r \in Seq(AnyFrame)
<1>1. r = <<>> \/ r = <<f>> \/ \E s \in Spare : r \in {<<s>>, <<f, s>>, <<s, f>>}
  BY DEF Results
<1>2. CASE r = <<>> \/ r = <<f>>
  <2>1. <<>> \in Seq(AnyFrame) /\ <<f>> \in Seq(AnyFrame)
    OBVIOUS
  <2> QED
    BY <1>2, <2>1
<1>3. ASSUME NEW s \in Spare, r \in {<<s>>, <<f, s>>, <<s, f>>}
      PROVE  r \in Seq(AnyFrame)
  <2>1. s \in AnyFrame
    BY DEF AnyFrame
  <2>2. <<s>> \in Seq(AnyFrame) /\ <<f, s>> \in Seq(AnyFrame) /\ <<s, f>> \in Seq(AnyFrame)
    BY <2>1
  <2> QED
    BY <1>3, <2>2
<1> QED
  BY <1>1, <1>2, <1>3

(* A sequence of two or more has a tail. *)
LEMMA NonEmptyTail ==
  ASSUME NEW S, NEW s \in Seq(S), s # <<>>
  PROVE  /\ Tail(s) \in Seq(S)
         /\ Len(Tail(s)) = Len(s) - 1
         /\ (Tail(s) = <<>>) <=> (Len(s) = 1)
<1>1. Tail(s) \in Seq(S) /\ Len(Tail(s)) = Len(s) - 1 /\ Len(s) \in Nat /\ Len(s) # 0
  OBVIOUS
<1>2. (Tail(s) = <<>>) <=> (Len(Tail(s)) = 0)
  BY <1>1, EmptySeq
<1> QED
  BY <1>1, <1>2

(* The two try-pushes keep the queue's type. *)
LEMMA TryPushHighType ==
  ASSUME PQTypeOK, NEW f \in ControlFrames, TryPushHigh(f)
  PROVE  PQTypeOK'
BY QueueAssumption DEF PQTypeOK, TryPushHigh, HighFull, Frame

LEMMA TryPushLowType ==
  ASSUME PQTypeOK, NEW f \in OtherFrames, TryPushLow(f)
  PROVE  PQTypeOK'
BY QueueAssumption DEF PQTypeOK, TryPushLow, LowFull, Frame

(* So does the consumer's side of the queue. *)
LEMMA PopType ==
  ASSUME PQTypeOK, CallPop \/ UsePopped \/ PollHigh \/ PollLow \/ UNCHANGED pqVars
  PROVE  PQTypeOK'
<1> USE QueueAssumption DEF PQTypeOK, Frame
<1>1. CASE CallPop
  BY <1>1 DEF CallPop
<1>2. CASE UsePopped
  BY <1>2 DEF UsePopped
<1>3. CASE PollHigh
  <2>1. CASE high = <<>>
    BY <1>3, <2>1 DEF PollHigh
  <2>2. CASE high # <<>>
    <3>1. /\ Head(high) \in ControlFrames /\ Tail(high) \in Seq(ControlFrames)
          /\ Len(Tail(high)) = Len(high) - 1
      BY <2>2, HeadTailProperties
    <3>2. popPc' = "idle" /\ popped' = Head(high) /\ high' = Tail(high) /\ low' = low /\ passed' = 0
      BY <1>3, <2>2 DEF PollHigh
    <3>3. high' \in Seq(ControlFrames) /\ Len(high') <= HighCap
      BY <3>1, <3>2
    <3>4. popped' \in Frame
      BY <3>1, <3>2
    <3> QED
      BY <3>2, <3>3, <3>4
  <2> QED
    BY <2>1, <2>2
<1>4. CASE PollLow
  <2>1. CASE low = <<>>
    BY <1>4, <2>1 DEF PollLow
  <2>2. CASE low # <<>>
    <3>1. /\ Head(low) \in OtherFrames /\ Tail(low) \in Seq(OtherFrames)
          /\ Len(Tail(low)) = Len(low) - 1
      BY <2>2, HeadTailProperties
    <3>2. passed' \in Nat
      BY <1>4, <2>2 DEF PollLow
    <3>3. popPc' = "idle" /\ popped' = Head(low) /\ low' = Tail(low) /\ high' = high
      BY <1>4, <2>2 DEF PollLow
    <3>4. low' \in Seq(OtherFrames) /\ Len(low') <= LowCap
      BY <3>1, <3>3
    <3>5. popped' \in Frame
      BY <3>1, <3>3
    <3> QED
      BY <3>2, <3>3, <3>4, <3>5
  <2> QED
    BY <2>1, <2>2
<1>5. CASE UNCHANGED pqVars
  BY <1>5 DEF pqVars
<1> QED
  BY <1>1, <1>2, <1>3, <1>4, <1>5

(* emit changes out and panicked, and nothing else that TypeOK speaks of. *)
LEMMA EmitType ==
  ASSUME NEW e \in AnyFrame, out \in Seq(AnyFrame), Len(out) <= InCap,
         panicked \in BOOLEAN, Emit(e)
  PROVE  out' \in Seq(AnyFrame) /\ Len(out') <= InCap /\ panicked' \in BOOLEAN
<1> USE QueueAssumption DEF InCap
<1>1. CASE UNCHANGED <<out, panicked>>
  BY <1>1
<1>2. CASE out' = out /\ panicked' = TRUE
  BY <1>2
<1>3. CASE Len(out) < InCap /\ out' = Append(out, e) /\ UNCHANGED panicked
  <2>1. Len(Append(out, e)) = Len(out) + 1 /\ Append(out, e) \in Seq(AnyFrame) /\ Len(out) \in Nat
    BY LenProperties
  <2> QED
    BY <1>3, <2>1
<1> QED
  BY <1>1, <1>2, <1>3 DEF Emit

LEMMA InitType == Init => TypeOK
BY QueueAssumption, OrchestratorAssumption
   DEF Init, PQInit, TypeOK, PQTypeOK, AnyFrame, InCap, Stages, Frame

LEMMA NextType == TypeOK /\ [Next]_vars => TypeOK'
<1> SUFFICES ASSUME TypeOK, [Next]_vars
             PROVE  TypeOK'
  OBVIOUS
<1> USE QueueAssumption, OrchestratorAssumption
    DEF TypeOK, Stages, InCap, orchVars, asyncVars, syncVars, histVars
<1>1. ASSUME NEW f \in Frame, Submit(f)
      PROVE  TypeOK'
  BY <1>1, PopType DEF Submit
<1>2. CASE FeederReceive
  <2>1. Head(in) \in Frame /\ Tail(in) \in Seq(Frame) /\ Len(Tail(in)) <= Len(in)
    <3>1. in \in Seq(Frame) /\ in # <<>>
      BY <1>2 DEF FeederReceive
    <3>2. Len(in) \in Nat
      BY <3>1, LenProperties
    <3>3. Head(in) \in Frame /\ Tail(in) \in Seq(Frame) /\ Len(Tail(in)) = Len(in) - 1
      BY <3>1, HeadTailProperties
    <3> QED
      BY <3>2, <3>3
  <2>2. PQTypeOK'
    BY <1>2, PopType DEF FeederReceive
  <2> QED
    BY <1>2, <2>1, <2>2 DEF FeederReceive
<1>3. CASE FeederPush
  BY <1>3, TryPushHighType, TryPushLowType DEF FeederPush, Frame
<1>4. CASE Popper
  <2>1. PQTypeOK'
    BY <1>4, PopType
       DEF Popper, PopperCall, PopperExit, PopperPoll, PopperDropStale, PopperTake
  <2>2. CASE PopperTake
    <3>1. popped \in AnyFrame
      BY <2>2 DEF PopperTake, UsePopped, PQTypeOK, AnyFrame
    <3>2. <<popped>> \in Seq(AnyFrame) /\ <<popped>> # <<>>
      BY <3>1
    <3>3. outbox' \in [0 .. NProcs -> Seq(AnyFrame)]
      BY <2>2, <3>2 DEF PopperTake
    <3>4. at' \in 0 .. NProcs + 1 /\ todo' \in Seq(AnyFrame) /\ next' \in Seq(AnyFrame)
          /\ ((at' # 0) <=> (todo' # <<>>))
      <4>1. CASE cfg.async
        BY <2>2, <4>1 DEF PopperTake
      <4>2. CASE ~cfg.async
        <5>1. at' = 1 /\ todo' = <<popped>> /\ next' = next
          BY <2>2, <4>2 DEF PopperTake
        <5> QED
          BY <3>2, <5>1
      <4> QED
        BY <4>1, <4>2
    <3> QED
      BY <2>1, <2>2, <3>3, <3>4 DEF PopperTake
  <2>3. CASE PopperCall
    BY <2>1, <2>3 DEF PopperCall
  <2>4. CASE PopperExit
    BY <2>1, <2>4 DEF PopperExit
  <2>5. CASE PopperPoll
    BY <2>1, <2>5 DEF PopperPoll
  <2>6. CASE PopperDropStale
    BY <2>1, <2>6 DEF PopperDropStale
  <2> QED
    BY <1>4, <2>2, <2>3, <2>4, <2>5, <2>6 DEF Popper
<1>5. CASE SyncProcess
  <2>1. at \in 1 .. NProcs /\ todo # <<>> /\ Head(todo) \in AnyFrame
    BY <1>5 DEF SyncProcess
  <2>2. PICK r \in Results(Head(todo)) :
          LET results == next \o r
              stageDone == Len(todo) = 1
          IN  /\ todo' = IF stageDone THEN results ELSE Tail(todo)
              /\ next' = IF stageDone THEN <<>> ELSE results
              /\ at' = IF ~stageDone THEN at ELSE IF results = <<>> THEN 0 ELSE at + 1
    BY <1>5 DEF SyncProcess
  <2>3. next \o r \in Seq(AnyFrame)
    BY <2>1, ResultsType
  <2>4. todo' \in Seq(AnyFrame) /\ next' \in Seq(AnyFrame)
    BY <2>1, <2>2, <2>3
  <2>5. at' \in 0 .. NProcs + 1 /\ ((at' # 0) <=> (todo' # <<>>))
    <3>1. CASE Len(todo) = 1
      <4>1. at' = IF next \o r = <<>> THEN 0 ELSE at + 1
        BY <2>2, <3>1
      <4>2. todo' = next \o r
        BY <2>2, <3>1
      <4> QED
        BY <2>1, <4>1, <4>2
    <3>2. CASE Len(todo) # 1
      <4>1. at' = at /\ todo' = Tail(todo)
        BY <2>2, <3>2
      <4>2. Tail(todo) # <<>>
        BY <2>1, <3>2, NonEmptyTail
      <4> QED
        BY <2>1, <4>1, <4>2
    <3> QED
      BY <3>1, <3>2
  <2> QED
    BY <1>5, <2>4, <2>5, PopType DEF SyncProcess
<1>6. CASE SyncEmit
  <2>1. at = NProcs + 1 /\ todo # <<>> /\ Head(todo) \in AnyFrame
    BY <1>6 DEF SyncEmit
  <2>2. out' \in Seq(AnyFrame) /\ Len(out') <= InCap /\ panicked' \in BOOLEAN
    BY <1>6, <2>1, EmitType DEF SyncEmit
  <2>3. todo' \in Seq(AnyFrame) /\ at' \in 0 .. NProcs + 1 /\ ((at' # 0) <=> (todo' # <<>>))
    <3>1. todo' = Tail(todo) /\ at' = IF Len(todo) = 1 THEN 0 ELSE at
      BY <1>6 DEF SyncEmit
    <3>2. Tail(todo) \in Seq(AnyFrame) /\ ((Tail(todo) = <<>>) <=> (Len(todo) = 1))
      BY <2>1, NonEmptyTail
    <3> QED
      BY <2>1, <3>1, <3>2
  <2> QED
    BY <1>6, <2>2, <2>3, PopType DEF SyncEmit
<1>7. ASSUME NEW i \in 0 .. NProcs, StagePush(i)
      PROVE  TypeOK'
  <2>1. Head(outbox[i]) \in AnyFrame /\ Tail(outbox[i]) \in Seq(AnyFrame)
    BY <1>7 DEF StagePush
  <2>2. outbox' \in [0 .. NProcs -> Seq(AnyFrame)]
    BY <1>7, <2>1 DEF StagePush
  <2>3. stageCh' \in [0 .. NProcs -> Seq(AnyFrame)] /\ \A j \in 0 .. NProcs : Len(stageCh'[j]) <= StageBuffer
    <3>1. CASE UNCHANGED stageCh
      BY <3>1
    <3>2. CASE /\ Len(stageCh[i]) < StageBuffer
               /\ stageCh' = [stageCh EXCEPT ![i] = Append(@, Head(outbox[i]))]
      <4>1. PICK c \in Seq(AnyFrame) : c = stageCh[i]
        OBVIOUS
      <4>2. PICK f \in AnyFrame : f = Head(outbox[i])
        BY <2>1
      <4>3. PICK d : d = Append(c, f)
        OBVIOUS
      <4>4. Len(c) \in Nat /\ d \in Seq(AnyFrame) /\ Len(d) = Len(c) + 1
        BY <4>3, LenProperties
      <4>5. Len(d) <= StageBuffer
        BY <3>2, <4>1, <4>4
      <4>6. stageCh' = [stageCh EXCEPT ![i] = d]
        BY <3>2, <4>1, <4>2, <4>3
      <4> QED
        BY <4>4, <4>5, <4>6
    <3>3. \/ UNCHANGED stageCh
          \/ /\ ~(Len(stageCh[i]) >= StageBuffer)
             /\ stageCh' = [stageCh EXCEPT ![i] = Append(@, Head(outbox[i]))]
      BY <1>7, Zenon DEF StagePush
    <3>4. Len(stageCh[i]) \in Nat /\ (~(Len(stageCh[i]) >= StageBuffer) => Len(stageCh[i]) < StageBuffer)
      <4>1. PICK c \in Seq(AnyFrame) : c = stageCh[i]
        OBVIOUS
      <4>2. Len(c) \in Nat
        BY LenProperties
      <4> QED
        BY <4>1, <4>2
    <3> QED
      BY <3>1, <3>2, <3>3, <3>4, Zenon
  <2> QED
    BY <1>7, <2>2, <2>3, PopType DEF StagePush
<1>8. ASSUME NEW i \in Stages, StageReceive(i)
      PROVE  TypeOK'
  <2>1. i - 1 \in 0 .. NProcs
    OBVIOUS
  <2>2. Head(stageCh[i - 1]) \in AnyFrame /\ Tail(stageCh[i - 1]) \in Seq(AnyFrame)
        /\ Len(Tail(stageCh[i - 1])) <= StageBuffer
    <3>1. PICK c \in Seq(AnyFrame) : c = stageCh[i - 1]
      BY <2>1
    <3>2. c # <<>> /\ Len(c) <= StageBuffer
      BY <1>8, <2>1, <3>1 DEF StageReceive
    <3>3. /\ Head(c) \in AnyFrame /\ Tail(c) \in Seq(AnyFrame)
          /\ Len(Tail(c)) = Len(c) - 1 /\ Len(c) \in Nat
      BY <3>2, HeadTailProperties, LenProperties
    <3>4. Len(Tail(c)) <= StageBuffer
      BY <3>2, <3>3, OrchestratorAssumption
    <3> QED
      BY <3>1, <3>3, <3>4
  <2> QED
    BY <1>8, <2>1, <2>2, PopType DEF StageReceive
<1>9. ASSUME NEW i \in Stages, StageProcess(i)
      PROVE  TypeOK'
  <2>1. working[i] \in AnyFrame /\ i \in 0 .. NProcs
    BY <1>9 DEF StageProcess
  <2>2. PICK r \in Results(working[i]) : outbox' = [outbox EXCEPT ![i] = r]
    BY <1>9 DEF StageProcess
  <2>3. r \in Seq(AnyFrame)
    BY <2>1, ResultsType
  <2> QED
    BY <1>9, <2>1, <2>2, <2>3, PopType DEF StageProcess
<1>10. CASE FinalReceive
  <2>1. NProcs \in 0 .. NProcs
    OBVIOUS
  <2>2. Head(stageCh[NProcs]) \in AnyFrame /\ Tail(stageCh[NProcs]) \in Seq(AnyFrame)
        /\ Len(Tail(stageCh[NProcs])) <= StageBuffer
    BY <1>10, <2>1 DEF FinalReceive
  <2> QED
    BY <1>10, <2>1, <2>2, PopType DEF FinalReceive
<1>11. CASE FinalEmit
  <2>1. out' \in Seq(AnyFrame) /\ Len(out') <= InCap /\ panicked' \in BOOLEAN
    BY <1>11, EmitType DEF FinalEmit
  <2> QED
    BY <1>11, <2>1, PopType DEF FinalEmit
<1>12. CASE ReadOut
  BY <1>12, PopType DEF ReadOut
<1>13. CASE StopCancel \/ StopClose
  BY <1>13, PopType DEF StopCancel, StopClose
<1>14. CASE UNCHANGED vars
  BY <1>14, PopType DEF vars
<1> QED
  BY <1>1, <1>2, <1>3, <1>4, <1>5, <1>6, <1>7, <1>8, <1>9, <1>10, <1>11, <1>12, <1>13, <1>14
     DEF Next, Feeder, Final

(* Channels within their capacity, locals holding frames: the orchestrator   *)
(* in both modes, under any interleaving of its goroutines and Stop.         *)
THEOREM OrchestratorTypeCorrect == Spec => []TypeOK
BY InitType, NextType, PTL DEF Spec

-----------------------------------------------------------------------------
(* Every step of the pipeline is one of the queue's operations, or leaves    *)
(* the queue alone: the feeder pushes each frame to the lane of its class.   *)
LEMMA QueueStep == TypeOK /\ [Next]_vars => [PQNext]_pqVars
<1> SUFFICES ASSUME TypeOK, [Next]_vars
             PROVE  PQNext \/ UNCHANGED pqVars
  OBVIOUS
<1>1. CASE FeederPush
  <2>1. feeder \in Frame
    BY <1>1 DEF FeederPush, TypeOK
  <2> QED
    BY <1>1, <2>1 DEF FeederPush, PQNext, Push, Frame
<1>2. CASE Popper
  BY <1>2 DEF Popper, PopperCall, PopperExit, PopperPoll, PopperDropStale, PopperTake, PQNext
<1>3. CASE UNCHANGED pqVars
  BY <1>3
<1>4. FeederPush \/ Popper \/ UNCHANGED pqVars
  BY DEF Next, vars, Feeder, Final, Submit, FeederReceive, SyncProcess, SyncEmit, StagePush,
         StageReceive, StageProcess, FinalReceive, FinalEmit, ReadOut, StopCancel, StopClose
<1> QED
  BY <1>1, <1>2, <1>3, <1>4

(* Inside the pipeline too, between the feeder, the popper and a Stop at any *)
(* moment, a waiting control frame is passed by at most one other frame.     *)
THEOREM PipelinePassesAtMostOnce == Spec => []ControlPassedAtMostOnce
<1>1. Init => TypeOK /\ PQInv
  BY InitType, PQInitInv DEF Init
<1>2. TypeOK /\ PQInv /\ [Next]_vars => TypeOK' /\ PQInv'
  BY NextType, QueueStep, PQStep
<1>3. PQInv => ControlPassedAtMostOnce
  BY DEF PQInv, PassedOnceInv, ControlPassedAtMostOnce
<1> QED
  BY <1>1, <1>2, <1>3, PTL DEF Spec

-----------------------------------------------------------------------------
(* What a push behind the queue may count as dropped in wait mode: only a    *)
(* frame found stale.                                                        *)
LEMMA PushLosesWait ==
  ASSUME NEW e, NEW full \in BOOLEAN, cfg.wait, PushLoses(e, full)
  PROVE  dropped' \ dropped \subseteq AudioFrames
BY DEF PushLoses

LEMMA EmitWait ==
  ASSUME NEW e, cfg.wait, Emit(e)
  PROVE  dropped' \ dropped \subseteq AudioFrames
<1>1. (~outClosed /\ Len(out) >= InCap) \in BOOLEAN
  OBVIOUS
<1>2. UNCHANGED dropped \/ PushLoses(e, ~outClosed /\ Len(out) >= InCap)
  BY DEF Emit
<1> QED
  BY <1>1, <1>2, PushLosesWait

(* In wait mode no stage, no processor and no full channel loses a frame:    *)
(* what is dropped was stale, or was refused by the priority queue.          *)
THEOREM WaitLosesNothingBehindTheQueue == Spec => WaitLosesOnlyAtTheQueue
<1>1. ASSUME [Next]_vars, cfg.wait
      PROVE  dropped' \ dropped \subseteq AudioFrames \cup {feeder}
  <2>1. CASE FeederPush
    BY <2>1 DEF FeederPush
  <2>2. CASE PopperDropStale
    BY <2>2 DEF PopperDropStale
  <2>3. CASE SyncEmit
    BY <1>1, <2>3, EmitWait DEF SyncEmit
  <2>4. CASE FinalEmit
    BY <1>1, <2>4, EmitWait DEF FinalEmit
  <2>5. ASSUME NEW i \in 0 .. NProcs, StagePush(i)
        PROVE  dropped' \ dropped \subseteq AudioFrames
    <3>1. (Len(stageCh[i]) >= StageBuffer) \in BOOLEAN
      OBVIOUS
    <3>2. UNCHANGED dropped \/ PushLoses(Head(outbox[i]), Len(stageCh[i]) >= StageBuffer)
      BY <2>5, Zenon DEF StagePush
    <3> QED
      BY <1>1, <3>1, <3>2, PushLosesWait
  <2>6. \/ FeederPush \/ PopperDropStale \/ SyncEmit \/ FinalEmit
        \/ \E i \in 0 .. NProcs : StagePush(i)
        \/ UNCHANGED dropped
    BY <1>1 DEF Next, vars, histVars, Feeder, Popper, Final, Submit, FeederReceive,
       PopperCall, PopperExit, PopperPoll, PopperTake, SyncProcess, Processed, StageReceive,
       StageProcess, FinalReceive, ReadOut, StopCancel, StopClose
  <2> QED
    BY <2>1, <2>2, <2>3, <2>4, <2>5, <2>6
<1>2. [Next]_vars => [cfg.wait => dropped' \ dropped \subseteq AudioFrames \cup {feeder}]_vars
  BY <1>1
<1> QED
  BY <1>2, PTL DEF Spec, WaitLosesOnlyAtTheQueue

-----------------------------------------------------------------------------
(* Conservation.  A step takes frames from places and puts them elsewhere:   *)
(* a is what is accounted for, c the places, x and y the frames lost.        *)
IsDistinct(s) == \A m, k \in DOMAIN s : s[m] = s[k] => m = k

Rooms == [Places -> Seq(AnyFrame)]

Conserved(c, x, y, a) ==
  /\ c \in Rooms
  /\ \A p \in Places : IsDistinct(c[p])
  /\ \A p, q \in Places : p # q => ToSet(c[p]) \cap ToSet(c[q]) = {}
  /\ x \cap y = {}
  /\ \A p \in Places : ToSet(c[p]) \cap (x \cup y) = {}
  /\ a = (UNION {ToSet(c[p]) : p \in Places}) \cup x \cup y

LEMMA DistinctTail ==
  ASSUME NEW s \in Seq(AnyFrame), s # <<>>, IsDistinct(s)
  PROVE  /\ Head(s) \in ToSet(s) /\ Head(s) \in AnyFrame /\ Tail(s) \in Seq(AnyFrame)
         /\ IsDistinct(Tail(s)) /\ ToSet(Tail(s)) = ToSet(s) \ {Head(s)}
<1>1. /\ Head(s) \in AnyFrame /\ Tail(s) \in Seq(AnyFrame) /\ Head(s) = s[1]
      /\ Len(Tail(s)) = Len(s) - 1
      /\ \A j \in 1 .. Len(Tail(s)) : Tail(s)[j] = s[j + 1]
  BY HeadTailProperties
<1>2. /\ Len(s) \in Nat /\ Len(s) >= 1 /\ DOMAIN s = 1 .. Len(s)
      /\ DOMAIN Tail(s) = 1 .. Len(s) - 1
  BY <1>1, LenProperties, EmptySeq
<1>3. \A j \in 2 .. Len(s) : j - 1 \in DOMAIN Tail(s) /\ s[j] = Tail(s)[j - 1]
  BY <1>1, <1>2
<1>4. \A j \in DOMAIN Tail(s) : j + 1 \in DOMAIN s /\ Tail(s)[j] = s[j + 1] /\ j + 1 # 1
  BY <1>1, <1>2
<1>5. Head(s) \in ToSet(s)
  BY <1>1, <1>2 DEF ToSet
<1>6. IsDistinct(Tail(s))
  BY <1>2, <1>4 DEF IsDistinct
<1>7. ASSUME NEW f \in ToSet(Tail(s))
      PROVE  f \in ToSet(s) \ {Head(s)}
  <2>1. PICK j \in DOMAIN Tail(s) : f = Tail(s)[j]
    BY <1>7 DEF ToSet
  <2>2. 1 \in DOMAIN s /\ j + 1 \in DOMAIN s /\ f = s[j + 1] /\ j + 1 # 1
    BY <1>2, <1>4, <2>1
  <2> QED
    BY <1>1, <2>2 DEF IsDistinct, ToSet
<1>8. ASSUME NEW f \in ToSet(s) \ {Head(s)}
      PROVE  f \in ToSet(Tail(s))
  <2>1. PICK j \in DOMAIN s : f = s[j]
    BY <1>8 DEF ToSet
  <2>2. j \in 2 .. Len(s)
    BY <1>1, <1>2, <1>8, <2>1
  <2> QED
    BY <1>3, <2>1, <2>2 DEF ToSet
<1> QED
  BY <1>1, <1>5, <1>6, <1>7, <1>8

LEMMA DistinctConcat ==
  ASSUME NEW s \in Seq(AnyFrame), NEW r \in Seq(AnyFrame), IsDistinct(s), IsDistinct(r),
         ToSet(s) \cap ToSet(r) = {}
  PROVE  s \o r \in Seq(AnyFrame) /\ IsDistinct(s \o r) /\ ToSet(s \o r) = ToSet(s) \cup ToSet(r)
<1>1. /\ s \o r \in Seq(AnyFrame) /\ Len(s \o r) = Len(s) + Len(r)
      /\ \A i \in 1 .. Len(s) + Len(r) : (s \o r)[i] = IF i <= Len(s) THEN s[i] ELSE r[i - Len(s)]
  BY ConcatProperties
<1>2. /\ Len(s) \in Nat /\ Len(r) \in Nat /\ DOMAIN s = 1 .. Len(s) /\ DOMAIN r = 1 .. Len(r)
      /\ DOMAIN (s \o r) = 1 .. Len(s) + Len(r)
  BY <1>1, LenProperties
<1>3. \A i \in DOMAIN (s \o r) : \/ i \in DOMAIN s /\ (s \o r)[i] = s[i]
                                 \/ i - Len(s) \in DOMAIN r /\ (s \o r)[i] = r[i - Len(s)]
  BY <1>1, <1>2
<1>4. \A i \in DOMAIN s : i \in DOMAIN (s \o r) /\ (s \o r)[i] = s[i]
  BY <1>1, <1>2
<1>5. \A i \in DOMAIN r : i + Len(s) \in DOMAIN (s \o r) /\ (s \o r)[i + Len(s)] = r[i]
  BY <1>1, <1>2
<1>6. \A i \in DOMAIN s, j \in DOMAIN r : s[i] # r[j]
  BY DEF ToSet
<1>7. IsDistinct(s \o r)
  <2>1. ASSUME NEW i \in DOMAIN (s \o r), NEW j \in DOMAIN (s \o r), (s \o r)[i] = (s \o r)[j]
        PROVE  i = j
    <3>1. i \in Nat /\ j \in Nat
      BY <1>2
    <3>2. CASE i \in DOMAIN s /\ (s \o r)[i] = s[i]
      BY <1>3, <1>6, <2>1, <3>2 DEF IsDistinct
    <3>3. CASE i - Len(s) \in DOMAIN r /\ (s \o r)[i] = r[i - Len(s)]
      <4>1. j - Len(s) \in DOMAIN r /\ (s \o r)[j] = r[j - Len(s)]
        BY <1>3, <1>6, <2>1, <3>3
      <4>2. i - Len(s) = j - Len(s)
        BY <2>1, <3>3, <4>1 DEF IsDistinct
      <4> QED
        BY <1>2, <3>1, <4>2
    <3> QED
      BY <1>3, <3>2, <3>3
  <2> QED
    BY <2>1 DEF IsDistinct
<1>8. ToSet(s \o r) = ToSet(s) \cup ToSet(r)
  <2>1. ASSUME NEW f \in ToSet(s \o r)
        PROVE  f \in ToSet(s) \cup ToSet(r)
    <3>1. PICK i \in DOMAIN (s \o r) : f = (s \o r)[i]
      BY <2>1 DEF ToSet
    <3> QED
      BY <1>3, <3>1 DEF ToSet
  <2>2. ASSUME NEW f \in ToSet(s)
        PROVE  f \in ToSet(s \o r)
    <3>1. PICK i \in DOMAIN s : f = s[i]
      BY <2>2 DEF ToSet
    <3> QED
      BY <1>4, <3>1 DEF ToSet
  <2>3. ASSUME NEW f \in ToSet(r)
        PROVE  f \in ToSet(s \o r)
    <3>1. PICK i \in DOMAIN r : f = r[i]
      BY <2>3 DEF ToSet
    <3> QED
      BY <1>5, <3>1 DEF ToSet
  <2> QED
    BY <2>1, <2>2, <2>3
<1> QED
  BY <1>1, <1>7, <1>8

(* One place changes. *)
Puts(c, d, p, s) ==
  d \in Rooms /\ d[p] = s /\ \A q \in Places : q # p => d[q] = c[q]

LEMMA Putting ==
  ASSUME NEW c \in Rooms, NEW p \in Places, NEW s \in Seq(AnyFrame),
         NEW d, d = [c EXCEPT ![p] = s]
  PROVE  Puts(c, d, p, s)
BY DEF Puts, Rooms

LEMMA Takes ==
  ASSUME NEW c, NEW d, NEW x, NEW y, NEW a, Conserved(c, x, y, a),
         NEW p \in Places, c[p] # <<>>, Puts(c, d, p, Tail(c[p]))
  PROVE  /\ Conserved(d, x, y, a \ {Head(c[p])})
         /\ Head(c[p]) \in a /\ Head(c[p]) \in AnyFrame
<1>1. /\ c \in Rooms /\ c[p] \in Seq(AnyFrame) /\ IsDistinct(c[p]) /\ d \in Rooms
      /\ d[p] = Tail(c[p]) /\ \A q \in Places : q # p => d[q] = c[q]
  BY DEF Conserved, Rooms, Puts
<1>2. PICK f : f = Head(c[p])
  OBVIOUS
<1>3. f \in ToSet(c[p]) /\ f \in AnyFrame /\ IsDistinct(d[p]) /\ ToSet(d[p]) = ToSet(c[p]) \ {f}
  BY <1>1, <1>2, DistinctTail
<1>4. \A q \in Places : ToSet(d[q]) = ToSet(c[q]) \ {f} /\ IsDistinct(d[q])
  BY <1>1, <1>3 DEF Conserved
<1>5. \A q, r \in Places : q # r => ToSet(d[q]) \cap ToSet(d[r]) = {}
  BY <1>4 DEF Conserved
<1>6. f \in a /\ f \notin x \cup y
  BY <1>3 DEF Conserved
<1>7. a \ {f} = (UNION {ToSet(d[q]) : q \in Places}) \cup x \cup y
  <2>1. ASSUME NEW g
        PROVE  (g \in UNION {ToSet(d[q]) : q \in Places})
                 <=> (g # f /\ g \in UNION {ToSet(c[q]) : q \in Places})
    BY <1>4
  <2>2. a = (UNION {ToSet(c[q]) : q \in Places}) \cup x \cup y
    BY DEF Conserved
  <2> QED
    BY <1>6, <2>1, <2>2
<1>8. Conserved(d, x, y, a \ {f})
  BY <1>1, <1>4, <1>5, <1>7 DEF Conserved
<1> QED
  BY <1>2, <1>3, <1>6, <1>8

LEMMA PutsAll ==
  ASSUME NEW c, NEW d, NEW x, NEW y, NEW a, Conserved(c, x, y, a), NEW r \in Seq(AnyFrame),
         IsDistinct(r), ToSet(r) \cap a = {},
         NEW p \in Places, Puts(c, d, p, c[p] \o r)
  PROVE  Conserved(d, x, y, a \cup ToSet(r))
<1>1. /\ c \in Rooms /\ c[p] \in Seq(AnyFrame) /\ IsDistinct(c[p]) /\ d \in Rooms
      /\ d[p] = c[p] \o r /\ \A q \in Places : q # p => d[q] = c[q]
  BY DEF Conserved, Rooms, Puts
<1>2. \A q \in Places : ToSet(c[q]) \cap ToSet(r) = {}
  BY DEF Conserved
<1>3. IsDistinct(d[p]) /\ ToSet(d[p]) = ToSet(c[p]) \cup ToSet(r)
  BY <1>1, <1>2, DistinctConcat
<1>4. \A q \in Places : IsDistinct(d[q])
  BY <1>1, <1>3 DEF Conserved
<1>5. ASSUME NEW q \in Places, NEW t \in Places, q # t
      PROVE  ToSet(d[q]) \cap ToSet(d[t]) = {}
  BY <1>1, <1>2, <1>3, <1>5 DEF Conserved
<1>6. ASSUME NEW q \in Places
      PROVE  ToSet(d[q]) \cap (x \cup y) = {}
  <2>1. ToSet(c[q]) \cap (x \cup y) = {} /\ ToSet(r) \cap (x \cup y) = {}
    BY DEF Conserved
  <2>2. CASE q = p
    BY <1>3, <2>1, <2>2
  <2>3. CASE q # p
    BY <1>1, <2>1, <2>3
  <2> QED
    BY <2>2, <2>3
<1>7. a \cup ToSet(r) = (UNION {ToSet(d[q]) : q \in Places}) \cup x \cup y
  <2>1. \A q \in Places : ToSet(d[q]) = ToSet(c[q]) \cup (IF q = p THEN ToSet(r) ELSE {})
    BY <1>1, <1>3
  <2>2. ASSUME NEW g
        PROVE  (g \in UNION {ToSet(d[q]) : q \in Places})
                 <=> (g \in ToSet(r) \/ g \in UNION {ToSet(c[q]) : q \in Places})
    BY <2>1
  <2>3. a = (UNION {ToSet(c[q]) : q \in Places}) \cup x \cup y
    BY DEF Conserved
  <2> QED
    BY <2>2, <2>3
<1> QED
  BY <1>1, <1>4, <1>5, <1>6, <1>7 DEF Conserved

LEMMA PutsOne ==
  ASSUME NEW c, NEW d, NEW x, NEW y, NEW a, Conserved(c, x, y, a), NEW f \in AnyFrame,
         f \notin a, NEW p \in Places, Puts(c, d, p, Append(c[p], f))
  PROVE  Conserved(d, x, y, a \cup {f})
<1>1. PICK r : r = <<f>>
  OBVIOUS
<1>2. r \in Seq(AnyFrame) /\ IsDistinct(r) /\ ToSet(r) = {f}
  BY <1>1 DEF IsDistinct, ToSet
<1>3. c[p] \in Seq(AnyFrame)
  BY DEF Conserved, Rooms
<1>4. Append(c[p], f) = c[p] \o r
  BY <1>1, <1>3, AppendIsConcat
<1>5. Puts(c, d, p, c[p] \o r) /\ ToSet(r) \cap a = {}
  BY <1>2, <1>4
<1>6. Conserved(d, x, y, a \cup ToSet(r))
  BY <1>2, <1>5, PutsAll
<1> QED
  BY <1>2, <1>6

LEMMA Loses ==
  ASSUME NEW c, NEW x, NEW y, NEW a, Conserved(c, x, y, a), NEW f, f \notin a
  PROVE  Conserved(c, x \cup {f}, y, a \cup {f}) /\ Conserved(c, x, y \cup {f}, a \cup {f})
<1>1. f \notin x /\ f \notin y /\ \A p \in Places : f \notin ToSet(c[p])
  BY DEF Conserved
<1>2. \A p \in Places : ToSet(c[p]) \cap ((x \cup {f}) \cup y) = {}
  BY <1>1 DEF Conserved
<1>3. \A p \in Places : ToSet(c[p]) \cap (x \cup (y \cup {f})) = {}
  BY <1>1 DEF Conserved
<1>4. /\ a \cup {f} = (UNION {ToSet(c[p]) : p \in Places}) \cup (x \cup {f}) \cup y
      /\ a \cup {f} = (UNION {ToSet(c[p]) : p \in Places}) \cup x \cup (y \cup {f})
  BY DEF Conserved
<1>5. (x \cup {f}) \cap y = {} /\ x \cap (y \cup {f}) = {}
  BY <1>1 DEF Conserved
<1>6. /\ c \in Rooms
      /\ \A p \in Places : IsDistinct(c[p])
      /\ \A p, q \in Places : p # q => ToSet(c[p]) \cap ToSet(c[q]) = {}
  BY DEF Conserved
<1> QED
  BY <1>2, <1>3, <1>4, <1>5, <1>6 DEF Conserved

(* Two places change their contents; or they exchange them.                  *)
Elsewhere(c, d, p, q) == \A t \in Places : t # p /\ t # q => d[t] = c[t]

LEMMA Swaps ==
  ASSUME NEW c, NEW d, NEW x, NEW y, NEW a, Conserved(c, x, y, a),
         NEW p \in Places, NEW q \in Places, p # q, d \in Rooms,
         d[p] = c[q], d[q] = c[p], Elsewhere(c, d, p, q)
  PROVE  Conserved(d, x, y, a)
<1> DEFINE other(t) == IF t = p THEN q ELSE IF t = q THEN p ELSE t
<1>1. \A t \in Places : other(t) \in Places /\ other(other(t)) = t /\ d[t] = c[other(t)]
  BY DEF Elsewhere
<1>2. \A t, u \in Places : t # u => other(t) # other(u)
  OBVIOUS
<1> HIDE DEF other
<1>3. \A t \in Places : IsDistinct(d[t]) /\ ToSet(d[t]) \cap (x \cup y) = {}
  BY <1>1 DEF Conserved
<1>4. \A t, u \in Places : t # u => ToSet(d[t]) \cap ToSet(d[u]) = {}
  BY <1>1, <1>2 DEF Conserved
<1>5. ASSUME NEW g
      PROVE  (g \in UNION {ToSet(d[t]) : t \in Places}) <=> (g \in UNION {ToSet(c[t]) : t \in Places})
  BY <1>1
<1>6. a = (UNION {ToSet(d[t]) : t \in Places}) \cup x \cup y
  BY <1>5 DEF Conserved
<1> QED
  BY <1>3, <1>4, <1>6 DEF Conserved

(* The places of the pipeline and the ledger of the frames they hold.        *)
Where == [p \in Places |-> Holds(p)]

HistoryInv == sent \in Seq(Frame) /\ delivered \in Seq(AnyFrame) /\ spawned \subseteq Spare

(* A goroutine pops, receives or starts a batch only with empty hands: where *)
(* it puts a frame, there is none that it could overwrite.                   *)
LocalsInv ==
  /\ popPc # "idle" => popped = NoFrame
  /\ popped # NoFrame \/ popPc # "idle" => at = 0 /\ outbox[0] = <<>>
  /\ \A i \in Stages : working[i] # NoFrame => outbox[i] = <<>>

(* Each mode uses its own places, and emit either the sink or out.           *)
ModesInv ==
  /\ cfg.async => at = 0 /\ todo = <<>> /\ next = <<>>
  /\ ~cfg.async => /\ emitting = NoFrame
                   /\ \A i \in 0 .. NProcs : outbox[i] = <<>> /\ stageCh[i] = <<>>
                   /\ \A i \in Stages : working[i] = NoFrame
  /\ cfg.sink => out = <<>>
  /\ at \notin Stages => next = <<>>

Accounted == ToSet(sent) \cup spawned
Tracked == Conserved(Where, dropped, discarded, Accounted)
LedgerInv == ~panicked => Tracked
ConservationInv == TypeOK /\ HistoryInv /\ LocalsInv /\ ModesInv /\ LedgerInv

LEMMA HeldType ==
  ASSUME NEW f \in AnyFrame \cup {NoFrame}
  PROVE  /\ Held(f) \in Seq(AnyFrame)
         /\ f = NoFrame => Held(f) = <<>>
         /\ f # NoFrame => /\ f \in AnyFrame /\ Held(f) = <<f>> /\ Held(f) # <<>>
                           /\ Head(Held(f)) = f /\ Tail(Held(f)) = <<>>
                           /\ Append(<<>>, f) = Held(f)
<1>1. CASE f = NoFrame
  BY <1>1 DEF Held
<1>2. CASE f # NoFrame
  <2>1. f \in AnyFrame /\ Held(f) = <<f>>
    BY <1>2 DEF Held
  <2>2. <<f>> \in Seq(AnyFrame) /\ <<f>> # <<>> /\ Head(<<f>>) = f /\ Tail(<<f>>) = <<>>
        /\ Append(<<>>, f) = <<f>>
    BY <2>1
  <2> QED
    BY <1>2, <2>1, <2>2
<1> QED
  BY <1>1, <1>2

LEMMA Singles ==
  \A n \in {"in", "feeder", "high", "low", "popped", "todo", "next", "emitting", "out", "delivered"} :
    <<n, 0>> \in Places
BY DEF Places

LEMMA Staged ==
  /\ \A i \in 0 .. NProcs : <<"outbox", i>> \in Places /\ <<"stageCh", i>> \in Places
  /\ \A i \in Stages : <<"working", i>> \in Places
BY DEF Places

LEMMA PlacesAre ==
  ASSUME NEW p \in Places
  PROVE  \/ \E n \in {"in", "feeder", "high", "low", "popped", "todo", "next", "emitting", "out", "delivered"} :
              p = <<n, 0>>
         \/ \E i \in 0 .. NProcs : p = <<"outbox", i>> \/ p = <<"stageCh", i>>
         \/ \E i \in Stages : p = <<"working", i>>
BY DEF Places

LEMMA WhereIs ==
  /\ Where[<<"in", 0>>] = in /\ Where[<<"feeder", 0>>] = Held(feeder)
  /\ Where[<<"high", 0>>] = high /\ Where[<<"low", 0>>] = low
  /\ Where[<<"popped", 0>>] = Held(popped) /\ Where[<<"todo", 0>>] = todo
  /\ Where[<<"next", 0>>] = next /\ Where[<<"emitting", 0>>] = Held(emitting)
  /\ Where[<<"out", 0>>] = out /\ Where[<<"delivered", 0>>] = delivered
  /\ \A i \in 0 .. NProcs : Where[<<"outbox", i>>] = outbox[i] /\ Where[<<"stageCh", i>>] = stageCh[i]
  /\ \A i \in Stages : Where[<<"working", i>>] = Held(working[i])
BY Singles, Staged DEF Where, Holds

LEMMA WhereIsNext ==
  /\ Where'[<<"in", 0>>] = in' /\ Where'[<<"feeder", 0>>] = Held(feeder')
  /\ Where'[<<"high", 0>>] = high' /\ Where'[<<"low", 0>>] = low'
  /\ Where'[<<"popped", 0>>] = Held(popped') /\ Where'[<<"todo", 0>>] = todo'
  /\ Where'[<<"next", 0>>] = next' /\ Where'[<<"emitting", 0>>] = Held(emitting')
  /\ Where'[<<"out", 0>>] = out' /\ Where'[<<"delivered", 0>>] = delivered'
  /\ \A i \in 0 .. NProcs : Where'[<<"outbox", i>>] = outbox'[i] /\ Where'[<<"stageCh", i>>] = stageCh'[i]
  /\ \A i \in Stages : Where'[<<"working", i>>] = Held(working'[i])
BY Singles, Staged DEF Where, Holds

(* A place none of whose variables changed is as it was.                     *)
LEMMA Unmoved ==
  ASSUME NEW t \in Places,
         t = <<"in", 0>> => in' = in, t = <<"feeder", 0>> => feeder' = feeder,
         t = <<"high", 0>> => high' = high, t = <<"low", 0>> => low' = low,
         t = <<"popped", 0>> => popped' = popped, t = <<"todo", 0>> => todo' = todo,
         t = <<"next", 0>> => next' = next, t = <<"emitting", 0>> => emitting' = emitting,
         t = <<"out", 0>> => out' = out, t = <<"delivered", 0>> => delivered' = delivered,
         \A i \in 0 .. NProcs : t = <<"outbox", i>> => outbox'[i] = outbox[i],
         \A i \in 0 .. NProcs : t = <<"stageCh", i>> => stageCh'[i] = stageCh[i],
         \A i \in Stages : t = <<"working", i>> => working'[i] = working[i]
  PROVE  Where'[t] = Where[t]
<1>1. CASE \E i \in 0 .. NProcs : t = <<"outbox", i>> \/ t = <<"stageCh", i>>
  <2>1. PICK i \in 0 .. NProcs : t = <<"outbox", i>> \/ t = <<"stageCh", i>>
    BY <1>1
  <2>2. CASE t = <<"outbox", i>>
    BY <2>2, WhereIs, WhereIsNext
  <2>3. CASE t = <<"stageCh", i>>
    BY <2>3, WhereIs, WhereIsNext
  <2> QED
    BY <2>1, <2>2, <2>3
<1>2. CASE \E i \in Stages : t = <<"working", i>>
  BY <1>2, WhereIs, WhereIsNext
<1>3. CASE \E n \in {"in", "feeder", "high", "low", "popped"} : t = <<n, 0>>
  BY <1>3, WhereIs, WhereIsNext
<1>4. CASE \E n \in {"todo", "next", "emitting", "out", "delivered"} : t = <<n, 0>>
  BY <1>4, WhereIs, WhereIsNext
<1> QED
  BY <1>1, <1>2, <1>3, <1>4, PlacesAre

LEMMA InitConserved == Init => ConservationInv
<1> SUFFICES ASSUME Init
             PROVE  ConservationInv
  OBVIOUS
<1>1. TypeOK
  BY InitType
<1>2. HistoryInv /\ LocalsInv /\ ModesInv
  BY DEF Init, PQInit, HistoryInv, LocalsInv, ModesInv
<1>3. ASSUME NEW p \in Places
      PROVE  Where[p] = <<>>
  <2>1. /\ in = <<>> /\ high = <<>> /\ low = <<>> /\ todo = <<>> /\ next = <<>> /\ out = <<>>
        /\ delivered = <<>> /\ feeder = NoFrame /\ popped = NoFrame /\ emitting = NoFrame
        /\ \A i \in 0 .. NProcs : outbox[i] = <<>> /\ stageCh[i] = <<>>
        /\ \A i \in Stages : working[i] = NoFrame
    BY DEF Init, PQInit
  <2>2. Held(NoFrame) = <<>>
    BY DEF Held
  <2>3. CASE \E i \in 0 .. NProcs : p = <<"outbox", i>> \/ p = <<"stageCh", i>>
    BY <2>1, <2>3, WhereIs
  <2>4. CASE \E i \in Stages : p = <<"working", i>>
    BY <2>1, <2>2, <2>4, WhereIs
  <2>5. CASE \E n \in {"in", "feeder", "high", "low", "popped"} : p = <<n, 0>>
    BY <2>1, <2>2, <2>5, WhereIs
  <2>6. CASE \E n \in {"todo", "next", "emitting", "out", "delivered"} : p = <<n, 0>>
    BY <2>1, <2>2, <2>6, WhereIs
  <2> QED
    BY <2>3, <2>4, <2>5, <2>6, PlacesAre
<1>4. Where \in Rooms
  <2>1. \A p \in Places : Where[p] \in Seq(AnyFrame)
    <3>1. <<>> \in Seq(AnyFrame)
      OBVIOUS
    <3> QED
      BY <1>3, <3>1
  <2>2. Where = [p \in Places |-> Where[p]]
    BY DEF Where
  <2> QED
    BY <2>1, <2>2 DEF Rooms
<1>5. ToSet(<<>>) = {} /\ IsDistinct(<<>>)
  BY DEF ToSet, IsDistinct
<1>6. Accounted = {} /\ dropped = {} /\ discarded = {}
  BY <1>5 DEF Init, Accounted
<1>7. Conserved(Where, {}, {}, {})
  BY <1>3, <1>4, <1>5 DEF Conserved
<1> QED
  BY <1>1, <1>2, <1>6, <1>7 DEF ConservationInv, LedgerInv, Tracked

(* What holds of the places in a state of the invariant.                     *)
LEMMA WhereType ==
  TypeOK /\ HistoryInv => Where \in Rooms
<1> SUFFICES ASSUME TypeOK, HistoryInv
             PROVE  Where \in Rooms
  OBVIOUS
<1>1. Frame \subseteq AnyFrame /\ ControlFrames \subseteq AnyFrame /\ OtherFrames \subseteq AnyFrame
  BY DEF AnyFrame, Frame
<1>2. /\ in \in Seq(AnyFrame) /\ high \in Seq(AnyFrame) /\ low \in Seq(AnyFrame)
      /\ out \in Seq(AnyFrame) /\ todo \in Seq(AnyFrame) /\ next \in Seq(AnyFrame)
      /\ delivered \in Seq(AnyFrame)
  BY <1>1 DEF TypeOK, PQTypeOK, HistoryInv
<1>3. /\ Held(feeder) \in Seq(AnyFrame) /\ Held(popped) \in Seq(AnyFrame)
      /\ Held(emitting) \in Seq(AnyFrame)
      /\ \A i \in Stages : Held(working[i]) \in Seq(AnyFrame)
  BY <1>1, HeldType DEF TypeOK, PQTypeOK
<1>4. \A i \in 0 .. NProcs : outbox[i] \in Seq(AnyFrame) /\ stageCh[i] \in Seq(AnyFrame)
  BY DEF TypeOK
<1>5. ASSUME NEW p \in Places
      PROVE  Where[p] \in Seq(AnyFrame)
  <2>1. CASE \E i \in 0 .. NProcs : p = <<"outbox", i>> \/ p = <<"stageCh", i>>
    BY <1>4, <2>1, WhereIs
  <2>2. CASE \E i \in Stages : p = <<"working", i>>
    BY <1>3, <2>2, WhereIs
  <2>3. CASE \E n \in {"in", "feeder", "high", "low", "popped"} : p = <<n, 0>>
    BY <1>2, <1>3, <2>3, WhereIs
  <2>4. CASE \E n \in {"todo", "next", "emitting", "out", "delivered"} : p = <<n, 0>>
    BY <1>2, <1>3, <2>4, WhereIs
  <2> QED
    BY <2>1, <2>2, <2>3, <2>4, PlacesAre
<1>6. Where = [p \in Places |-> Where[p]]
  BY DEF Where
<1> QED
  BY <1>5, <1>6 DEF Rooms

LEMMA WhereTypeNext == TypeOK' /\ HistoryInv' => (Where \in Rooms)'
BY WhereType, PTL

(* The five things emit may do with a frame.                                 *)
LEMMA EmitCases ==
  ASSUME NEW e, Emit(e)
  PROVE  \/ panicked' = TRUE /\ UNCHANGED <<out, delivered>>
         \/ cfg.sink /\ delivered' = Append(delivered, e) /\ UNCHANGED <<out, panicked, dropped, discarded>>
         \/ out' = Append(out, e) /\ UNCHANGED <<delivered, panicked, dropped, discarded>>
         \/ dropped' = dropped \cup {e} /\ UNCHANGED <<out, delivered, panicked, discarded>>
         \/ discarded' = discarded \cup {e} /\ UNCHANGED <<out, delivered, panicked, dropped>>
BY Zenon DEF Emit, PushLoses

LEMMA EmitHistory ==
  ASSUME NEW e \in AnyFrame, delivered \in Seq(AnyFrame), Emit(e)
  PROVE  delivered' \in Seq(AnyFrame)
<1>1. delivered' = Append(delivered, e) \/ delivered' = delivered
  BY DEF Emit
<1> QED
  BY <1>1

LEMMA HistoryStep == TypeOK /\ HistoryInv /\ [Next]_vars => HistoryInv'
<1> SUFFICES ASSUME TypeOK, HistoryInv, [Next]_vars
             PROVE  HistoryInv'
  OBVIOUS
<1> USE DEF HistoryInv
<1>1. ASSUME NEW f \in Frame, Submit(f)
      PROVE  HistoryInv'
  BY <1>1 DEF Submit
<1>2. CASE SyncEmit
  <2>1. Head(todo) \in AnyFrame
    BY <1>2, OrchestratorAssumption DEF SyncEmit, TypeOK
  <2> QED
    BY <1>2, <2>1, EmitHistory DEF SyncEmit
<1>3. CASE FinalEmit
  <2>1. emitting \in AnyFrame
    BY <1>3 DEF FinalEmit, TypeOK
  <2> QED
    BY <1>3, <2>1, EmitHistory DEF FinalEmit
<1>4. CASE ReadOut
  <2>1. Head(out) \in AnyFrame
    BY <1>4 DEF ReadOut, TypeOK
  <2> QED
    BY <1>4, <2>1 DEF ReadOut
<1>5. CASE UNCHANGED <<sent, delivered>> /\ \E f, r : Processed(f, r)
  BY <1>5 DEF Processed
<1>6. CASE UNCHANGED <<sent, delivered, spawned>>
  BY <1>6
<1>7. \/ \E f \in Frame : Submit(f)
      \/ SyncEmit \/ FinalEmit \/ ReadOut
      \/ UNCHANGED <<sent, delivered>> /\ \E f, r : Processed(f, r)
      \/ UNCHANGED <<sent, delivered, spawned>>
  <2>1. CASE SyncProcess
    BY <2>1 DEF SyncProcess, Processed
  <2>2. CASE \E i \in Stages : StageProcess(i)
    BY <2>2 DEF StageProcess, Processed
  <2>3. CASE Feeder \/ Popper \/ StopCancel \/ StopClose \/ FinalReceive
    BY <2>3 DEF histVars, Feeder, FeederReceive, FeederPush, Popper, PopperCall, PopperExit,
       PopperPoll, PopperDropStale, PopperTake, StopCancel, StopClose, FinalReceive
  <2>4. CASE \E i \in 0 .. NProcs : StagePush(i)
    BY <2>4, Zenon DEF StagePush
  <2>5. CASE \E i \in Stages : StageReceive(i)
    BY <2>5 DEF StageReceive, histVars
  <2>6. CASE UNCHANGED vars
    BY <2>6 DEF vars, histVars
  <2> QED
    BY <2>1, <2>2, <2>3, <2>4, <2>5, <2>6, Zenon DEF Next, Final
<1> QED
  BY <1>1, <1>2, <1>3, <1>4, <1>5, <1>6, <1>7

LEMMA LocalsStep == TypeOK /\ LocalsInv /\ [Next]_vars => LocalsInv'
<1> SUFFICES ASSUME TypeOK, LocalsInv, [Next]_vars
             PROVE  LocalsInv'
  OBVIOUS
<1> USE DEF LocalsInv
<1>1. CASE Popper
  <2>1. CASE PopperCall
    BY <2>1 DEF PopperCall, PopperIdle, CallPop, orchVars, asyncVars, syncVars
  <2>2. CASE PopperPoll
    BY <2>2 DEF PopperPoll, PollHigh, PollLow, asyncVars, syncVars
  <2>3. CASE PopperExit
    BY <2>3 DEF PopperExit, pqVars, asyncVars, syncVars
  <2>4. CASE PopperDropStale
    BY <2>4 DEF PopperDropStale, UsePopped, asyncVars, syncVars
  <2>5. CASE PopperTake
    <3>1. /\ popped # NoFrame /\ popped' = NoFrame /\ popPc = "idle" /\ popPc' = "idle"
          /\ working' = working
      BY <2>5 DEF PopperTake, UsePopped
    <3>2. \A i \in Stages : outbox'[i] = outbox[i]
      <4>1. outbox' = [outbox EXCEPT ![0] = <<popped>>] \/ outbox' = outbox
        BY <2>5 DEF PopperTake
      <4>2. outbox \in [0 .. NProcs -> Seq(AnyFrame)] /\ \A i \in Stages : i \in 0 .. NProcs /\ i # 0
        BY OrchestratorAssumption DEF TypeOK, Stages
      <4> QED
        BY <4>1, <4>2
    <3> QED
      BY <3>1, <3>2
  <2> QED
    BY <1>1, <2>1, <2>2, <2>3, <2>4, <2>5 DEF Popper
<1>2. CASE SyncProcess \/ SyncEmit
  <2>1. at # 0
    BY <1>2, OrchestratorAssumption DEF SyncProcess, SyncEmit, Stages
  <2>2. UNCHANGED <<popped, popPc, outbox, working>>
    BY <1>2 DEF SyncProcess, SyncEmit, pqVars, asyncVars
  <2> QED
    BY <2>1, <2>2
<1>3. ASSUME NEW i \in 0 .. NProcs, StagePush(i)
      PROVE  LocalsInv'
  <2>1. UNCHANGED <<popped, popPc, at, working>> /\ outbox[i] # <<>>
        /\ outbox' = [outbox EXCEPT ![i] = Tail(@)]
    BY <1>3 DEF StagePush, pqVars, syncVars
  <2>2. \A j \in 0 .. NProcs : outbox[j] = <<>> => outbox'[j] = <<>>
    BY <2>1 DEF TypeOK
  <2>3. 0 \in 0 .. NProcs /\ Stages \subseteq 0 .. NProcs
    BY OrchestratorAssumption DEF Stages
  <2> QED
    BY <2>1, <2>2, <2>3
<1>4. ASSUME NEW i \in Stages, StageReceive(i)
      PROVE  LocalsInv'
  BY <1>4 DEF StageReceive, pqVars, syncVars, TypeOK
<1>5. ASSUME NEW i \in Stages, StageProcess(i)
      PROVE  LocalsInv'
  <2>1. UNCHANGED <<popped, popPc, at>> /\ working' = [working EXCEPT ![i] = NoFrame]
        /\ \E r : outbox' = [outbox EXCEPT ![i] = r]
    BY <1>5 DEF StageProcess, pqVars, syncVars
  <2>2. \A j \in 0 .. NProcs : j # i => outbox'[j] = outbox[j]
    BY <2>1 DEF TypeOK
  <2>3. working'[i] = NoFrame /\ \A j \in Stages : j # i => working'[j] = working[j]
    BY <2>1 DEF TypeOK
  <2>4. i # 0 /\ 0 \in 0 .. NProcs /\ Stages \subseteq 0 .. NProcs
    BY OrchestratorAssumption DEF Stages
  <2> QED
    BY <2>1, <2>2, <2>3, <2>4
<1>6. CASE UNCHANGED <<popped, popPc, at, outbox, working>>
  BY <1>6
<1>7. CASE FeederPush
  BY <1>7 DEF FeederPush, TryPushHigh, TryPushLow, asyncVars, syncVars
<1>8. \/ Popper \/ SyncProcess \/ SyncEmit \/ FeederPush
      \/ \E i \in 0 .. NProcs : StagePush(i)
      \/ \E i \in Stages : StageReceive(i) \/ StageProcess(i)
      \/ UNCHANGED <<popped, popPc, at, outbox, working>>
  BY DEF Next, vars, pqVars, asyncVars, syncVars, Feeder, FeederReceive, Final, FinalReceive,
     FinalEmit, ReadOut, StopCancel, StopClose, Submit
<1> QED
  BY <1>1, <1>2, <1>3, <1>4, <1>5, <1>6, <1>7, <1>8

LEMMA ModesStep == TypeOK /\ LocalsInv /\ ModesInv /\ [Next]_vars => ModesInv'
<1> SUFFICES ASSUME TypeOK, LocalsInv, ModesInv, [Next]_vars
             PROVE  ModesInv'
  OBVIOUS
<1> USE DEF ModesInv
<1>1. CASE PopperTake
  <2>1. /\ popped # NoFrame /\ UNCHANGED <<cfg, out, stageCh, working, emitting, next>>
    BY <1>1 DEF PopperTake, UsePopped, orchVars, syncVars
  <2>2. at = 0 /\ at \notin Stages
    BY <2>1 DEF LocalsInv, Stages
  <2>3. CASE cfg.async
    BY <1>1, <2>1, <2>2, <2>3 DEF PopperTake, syncVars
  <2>4. CASE ~cfg.async
    BY <1>1, <2>1, <2>2, <2>4 DEF PopperTake
  <2> QED
    BY <2>3, <2>4
<1>2. CASE SyncProcess
  <2>1. at \in Stages /\ UNCHANGED <<cfg, out, asyncVars>>
    BY <1>2 DEF SyncProcess, orchVars
  <2>2. ~cfg.async
    BY <2>1 DEF Stages
  <2>3. at' = at \/ next' = <<>>
    BY <1>2 DEF SyncProcess
  <2> QED
    BY <2>1, <2>2, <2>3 DEF asyncVars
<1>3. CASE SyncEmit
  <2>1. at = NProcs + 1 /\ UNCHANGED <<cfg, asyncVars, next>> /\ Emit(Head(todo))
    BY <1>3 DEF SyncEmit
  <2>2. at # 0 /\ at \notin Stages
    BY <2>1, OrchestratorAssumption DEF Stages
  <2>3. cfg.sink => out' = out
    BY <2>1 DEF Emit
  <2> QED
    BY <2>1, <2>2, <2>3 DEF asyncVars
<1>4. ASSUME NEW i \in 0 .. NProcs, StagePush(i)
      PROVE  ModesInv'
  <2>1. outbox[i] # <<>> /\ UNCHANGED <<cfg, out, syncVars>>
    BY <1>4 DEF StagePush, orchVars
  <2>2. cfg.async
    BY <2>1
  <2> QED
    BY <2>1, <2>2 DEF syncVars
<1>5. ASSUME NEW i \in Stages, StageReceive(i) \/ StageProcess(i)
      PROVE  ModesInv'
  <2>1. UNCHANGED <<cfg, out, syncVars>> /\ (working[i] # NoFrame \/ stageCh[i - 1] # <<>>)
    BY <1>5 DEF StageReceive, StageProcess, orchVars
  <2>2. i - 1 \in 0 .. NProcs
    BY OrchestratorAssumption DEF Stages
  <2>3. cfg.async
    BY <2>1, <2>2
  <2> QED
    BY <2>1, <2>3 DEF syncVars
<1>6. CASE Final
  <2>1. UNCHANGED <<cfg, syncVars>> /\ (emitting # NoFrame \/ stageCh[NProcs] # <<>>)
    BY <1>6 DEF Final, FinalReceive, FinalEmit, orchVars
  <2>2. NProcs \in 0 .. NProcs
    BY OrchestratorAssumption
  <2>3. cfg.async
    BY <2>1, <2>2
  <2>4. cfg.sink => out' = out
    BY <1>6 DEF Final, FinalReceive, FinalEmit, Emit, orchVars
  <2> QED
    BY <2>1, <2>3, <2>4 DEF syncVars
<1>7. CASE ReadOut
  BY <1>7 DEF ReadOut, asyncVars, syncVars
<1>8. CASE UNCHANGED <<cfg, out, asyncVars, syncVars>>
  BY <1>8 DEF asyncVars, syncVars
<1>9. \/ PopperTake \/ SyncProcess \/ SyncEmit \/ Final \/ ReadOut
      \/ \E i \in 0 .. NProcs : StagePush(i)
      \/ \E i \in Stages : StageReceive(i) \/ StageProcess(i)
      \/ UNCHANGED <<cfg, out, asyncVars, syncVars>>
  BY DEF Next, vars, orchVars, Feeder, FeederReceive, FeederPush, Popper, PopperCall, PopperExit,
     PopperPoll, PopperDropStale, StopCancel, StopClose, Submit
<1> QED
  BY <1>1, <1>2, <1>3, <1>4, <1>5, <1>6, <1>7, <1>8, <1>9

LEMMA AppendedFrame ==
  ASSUME NEW S, NEW s \in Seq(S), NEW f \in S
  PROVE  ToSet(Append(s, f)) = ToSet(s) \cup {f}
<1>1. /\ Append(s, f) \in Seq(S) /\ Len(Append(s, f)) = Len(s) + 1
      /\ \A i \in 1 .. Len(s) : Append(s, f)[i] = s[i]
      /\ Append(s, f)[Len(s) + 1] = f
  BY AppendProperties
<1>2. /\ Len(s) \in Nat /\ DOMAIN s = 1 .. Len(s) /\ DOMAIN Append(s, f) = 1 .. Len(s) + 1
  BY <1>1, LenProperties
<1>3. Len(s) + 1 \in DOMAIN Append(s, f)
  BY <1>2
<1>4. ASSUME NEW g \in ToSet(Append(s, f))
      PROVE  g \in ToSet(s) \cup {f}
  BY <1>1, <1>2, <1>4 DEF ToSet
<1>5. ASSUME NEW g \in ToSet(s)
      PROVE  g \in ToSet(Append(s, f))
  BY <1>1, <1>2, <1>5 DEF ToSet
<1>6. f \in ToSet(Append(s, f))
  BY <1>1, <1>3 DEF ToSet
<1> QED
  BY <1>4, <1>5, <1>6

(* The places from the reader or the sink back to the input.                 *)
Rank(p) ==
  CASE p[1] = "delivered" -> 0
    [] p[1] = "out" -> 1
    [] p[1] = "emitting" -> 2
    [] p[1] = "next" -> 3
    [] p[1] = "todo" -> 4
    [] p[1] = "stageCh" -> 5 + 3 * (NProcs - p[2])
    [] p[1] = "outbox" -> 6 + 3 * (NProcs - p[2])
    [] p[1] = "working" -> 7 + 3 * (NProcs - p[2])
    [] p[1] = "popped" -> 8 + 3 * NProcs
    [] p[1] \in {"high", "low"} -> 9 + 3 * NProcs
    [] p[1] = "feeder" -> 10 + 3 * NProcs
    [] p[1] = "in" -> 11 + 3 * NProcs

LEMMA RankIs ==
  /\ Rank(<<"delivered", 0>>) = 0 /\ Rank(<<"out", 0>>) = 1 /\ Rank(<<"emitting", 0>>) = 2
  /\ Rank(<<"next", 0>>) = 3 /\ Rank(<<"todo", 0>>) = 4
  /\ Rank(<<"popped", 0>>) = 8 + 3 * NProcs
  /\ Rank(<<"high", 0>>) = 9 + 3 * NProcs /\ Rank(<<"low", 0>>) = 9 + 3 * NProcs
  /\ Rank(<<"feeder", 0>>) = 10 + 3 * NProcs /\ Rank(<<"in", 0>>) = 11 + 3 * NProcs
  /\ \A i \in 0 .. NProcs : /\ Rank(<<"stageCh", i>>) = 5 + 3 * (NProcs - i)
                            /\ Rank(<<"outbox", i>>) = 6 + 3 * (NProcs - i)
  /\ \A i \in Stages : Rank(<<"working", i>>) = 7 + 3 * (NProcs - i)
<1>1. /\ Rank(<<"delivered", 0>>) = 0 /\ Rank(<<"out", 0>>) = 1 /\ Rank(<<"emitting", 0>>) = 2
      /\ Rank(<<"next", 0>>) = 3 /\ Rank(<<"todo", 0>>) = 4
  BY DEF Rank
<1>2. /\ Rank(<<"popped", 0>>) = 8 + 3 * NProcs
      /\ Rank(<<"high", 0>>) = 9 + 3 * NProcs /\ Rank(<<"low", 0>>) = 9 + 3 * NProcs
      /\ Rank(<<"feeder", 0>>) = 10 + 3 * NProcs /\ Rank(<<"in", 0>>) = 11 + 3 * NProcs
  BY DEF Rank
<1>3. \A i \in 0 .. NProcs : /\ Rank(<<"stageCh", i>>) = 5 + 3 * (NProcs - i)
                             /\ Rank(<<"outbox", i>>) = 6 + 3 * (NProcs - i)
  BY DEF Rank
<1>4. \A i \in Stages : Rank(<<"working", i>>) = 7 + 3 * (NProcs - i)
  BY DEF Rank
<1> QED
  BY <1>1, <1>2, <1>3, <1>4

LEMMA RankType ==
  ASSUME NEW p \in Places
  PROVE  Rank(p) \in Nat
<1> USE OrchestratorAssumption
<1>1. ASSUME NEW i \in 0 .. NProcs, p = <<"outbox", i>> \/ p = <<"stageCh", i>>
      PROVE  Rank(p) \in Nat
  <2>1. Rank(p) = 5 + 3 * (NProcs - i) \/ Rank(p) = 6 + 3 * (NProcs - i)
    BY <1>1, RankIs
  <2>2. NProcs - i \in Nat
    OBVIOUS
  <2> QED
    BY <2>1, <2>2
<1>2. ASSUME NEW i \in Stages, p = <<"working", i>>
      PROVE  Rank(p) \in Nat
  <2>1. Rank(p) = 7 + 3 * (NProcs - i)
    BY <1>2, RankIs
  <2>2. NProcs - i \in Nat
    BY DEF Stages
  <2> QED
    BY <2>1, <2>2
<1>3. CASE \E n \in {"in", "feeder", "high", "low", "popped"} : p = <<n, 0>>
  BY <1>3, RankIs
<1>4. CASE \E n \in {"todo", "next", "emitting", "out", "delivered"} : p = <<n, 0>>
  BY <1>4, RankIs
<1> QED
  BY <1>1, <1>2, <1>3, <1>4, PlacesAre

(* g is further on than f.                                                   *)
Ahead(c, g, f) ==
  \E p, q \in Places : \E i \in DOMAIN c[p], j \in DOMAIN c[q] :
    /\ c[p][i] = g /\ c[q][j] = f
    /\ Rank(p) < Rank(q) \/ (p = q /\ i < j)

(* The first frame of p is taken and r put behind what q holds.              *)
Shifted(c, d, p, q, r) ==
  /\ c \in Rooms /\ d \in Rooms /\ p \in Places /\ q \in Places /\ p # q
  /\ c[p] # <<>> /\ r \in Seq(AnyFrame)
  /\ d[p] = Tail(c[p]) /\ d[q] = c[q] \o r /\ Elsewhere(c, d, p, q)

(* Where each frame was before.                                              *)
LEMMA Origin ==
  ASSUME NEW c, NEW d, NEW p, NEW q, NEW r, Shifted(c, d, p, q, r), NEW t \in Places, NEW j \in DOMAIN d[t]
  PROVE  /\ j \in Nat
         /\ \/ t = p /\ j + 1 \in DOMAIN c[p] /\ d[t][j] = c[p][j + 1]
            \/ t # p /\ j \in DOMAIN c[t] /\ d[t][j] = c[t][j]
            \/ t = q /\ j > Len(c[q]) /\ j - Len(c[q]) \in DOMAIN r /\ d[t][j] = r[j - Len(c[q])]
<1>1. /\ c[p] \in Seq(AnyFrame) /\ c[q] \in Seq(AnyFrame) /\ d[t] \in Seq(AnyFrame)
      /\ r \in Seq(AnyFrame) /\ c[p] # <<>> /\ p # q
      /\ d[p] = Tail(c[p]) /\ d[q] = c[q] \o r
  BY DEF Rooms, Shifted
<1>2. j \in Nat
  BY <1>1
<1>3. CASE t = p
  <2>1. /\ Len(c[p]) \in Nat /\ DOMAIN c[p] = 1 .. Len(c[p])
        /\ Len(Tail(c[p])) = Len(c[p]) - 1 /\ Tail(c[p]) \in Seq(AnyFrame)
        /\ \A k \in 1 .. Len(Tail(c[p])) : Tail(c[p])[k] = c[p][k + 1]
    BY <1>1, HeadTailProperties, LenProperties
  <2>2. DOMAIN Tail(c[p]) = 1 .. Len(c[p]) - 1
    BY <2>1, LenProperties
  <2>3. j \in 1 .. Len(c[p]) - 1
    BY <1>1, <1>3, <2>2
  <2>4. j + 1 \in DOMAIN c[p] /\ Tail(c[p])[j] = c[p][j + 1]
    BY <2>1, <2>3
  <2> QED
    BY <1>1, <1>2, <1>3, <2>4
<1>4. CASE t = q
  <2>1. /\ Len(c[q]) \in Nat /\ Len(r) \in Nat
        /\ DOMAIN c[q] = 1 .. Len(c[q]) /\ DOMAIN r = 1 .. Len(r)
        /\ Len(c[q] \o r) = Len(c[q]) + Len(r) /\ c[q] \o r \in Seq(AnyFrame)
        /\ \A k \in 1 .. Len(c[q]) + Len(r) :
             (c[q] \o r)[k] = IF k <= Len(c[q]) THEN c[q][k] ELSE r[k - Len(c[q])]
    BY <1>1, ConcatProperties, LenProperties
  <2>2. j \in 1 .. Len(c[q]) + Len(r)
    <3>1. DOMAIN (c[q] \o r) = 1 .. Len(c[q]) + Len(r)
      BY <2>1, LenProperties
    <3> QED
      BY <1>1, <1>4, <3>1
  <2>3. CASE j <= Len(c[q])
    BY <1>1, <1>2, <1>4, <2>1, <2>2, <2>3
  <2>4. CASE j > Len(c[q])
    <3>1. d[t][j] = r[j - Len(c[q])]
      BY <1>1, <1>4, <2>1, <2>2, <2>4
    <3>2. j - Len(c[q]) \in DOMAIN r
      BY <2>1, <2>2, <2>4
    <3> QED
      BY <1>1, <1>2, <1>4, <2>4, <3>1, <3>2
  <2> QED
    BY <1>2, <2>1, <2>3, <2>4
<1>5. CASE t # p /\ t # q
  BY <1>2, <1>5 DEF Elsewhere, Shifted
<1> QED
  BY <1>3, <1>4, <1>5

(* What a step changes of who is ahead of whom: only a submitted frame that  *)
(* moves on may pass others, those between its old place and its new one.    *)
LEMMA AheadStep ==
  ASSUME NEW c, NEW d, NEW p \in Places, NEW q \in Places, NEW r, Shifted(c, d, p, q, r),
         Rank(q) < Rank(p), IsDistinct(r), ToSet(r) \cap Frame \subseteq {Head(c[p])},
         NEW g \in Frame, NEW h \in Frame, Ahead(d, g, h)
  PROVE  \/ Ahead(c, g, h)
         \/ /\ g = Head(c[p]) /\ g \in ToSet(r)
            /\ \E t \in Places : t # p /\ Rank(q) < Rank(t) /\ Rank(t) <= Rank(p) /\ h \in ToSet(c[t])
<1>0. PICK s \in Places, t \in Places :
         \E i \in DOMAIN d[s], j \in DOMAIN d[t] :
           d[s][i] = g /\ d[t][j] = h /\ (Rank(s) < Rank(t) \/ (s = t /\ i < j))
  BY DEF Ahead
<1>1. PICK i \in DOMAIN d[s], j \in DOMAIN d[t] :
        d[s][i] = g /\ d[t][j] = h /\ (Rank(s) < Rank(t) \/ (s = t /\ i < j))
  BY <1>0
<1>2. Rank(p) \in Nat /\ Rank(q) \in Nat /\ Rank(s) \in Nat /\ Rank(t) \in Nat /\ p # q
  BY RankType
<1>3. PICK f : f = Head(c[p])
  OBVIOUS
<1>4. 1 \in DOMAIN c[p] /\ c[p][1] = f
  <2>1. c[p] \in Seq(AnyFrame) /\ c[p] # <<>>
    BY DEF Shifted, Rooms
  <2> QED
    BY <1>3, <2>1, LenProperties, EmptySeq
<1>5. \A k \in DOMAIN r : r[k] \in Frame => r[k] = f
  BY <1>3 DEF ToSet
<1>6. /\ i \in Nat
      /\ \/ s = p /\ i + 1 \in DOMAIN c[p] /\ g = c[p][i + 1]
         \/ s # p /\ i \in DOMAIN c[s] /\ g = c[s][i]
         \/ s = q /\ i > Len(c[q]) /\ i - Len(c[q]) \in DOMAIN r /\ g = r[i - Len(c[q])]
  BY <1>1, <1>2, Origin
<1>7. /\ j \in Nat
      /\ \/ t = p /\ j + 1 \in DOMAIN c[p] /\ h = c[p][j + 1]
         \/ t # p /\ j \in DOMAIN c[t] /\ h = c[t][j]
         \/ t = q /\ j > Len(c[q]) /\ j - Len(c[q]) \in DOMAIN r /\ h = r[j - Len(c[q])]
  BY <1>1, <1>2, Origin
<1>8. Len(c[q]) \in Nat /\ DOMAIN c[q] = 1 .. Len(c[q]) /\ \A k \in DOMAIN c[p] : k \in Nat
  <2>1. c[p] \in Seq(AnyFrame) /\ c[q] \in Seq(AnyFrame)
    BY DEF Shifted, Rooms
  <2> QED
    BY <2>1, LenProperties
<1>9. CASE s = q /\ i > Len(c[q]) /\ i - Len(c[q]) \in DOMAIN r /\ g = r[i - Len(c[q])]
  <2>1. g = f /\ g \in ToSet(r)
    BY <1>5, <1>9 DEF ToSet
  <2>2. CASE t = p /\ j + 1 \in DOMAIN c[p] /\ h = c[p][j + 1]
    <3>1. 1 < j + 1
      <4>1. d[t] \in Seq(AnyFrame)
        BY DEF Shifted, Rooms
      <4>2. DOMAIN d[t] = 1 .. Len(d[t]) /\ Len(d[t]) \in Nat
        BY <4>1, LenProperties
      <4> QED
        BY <4>2
    <3> QED
      BY <1>4, <2>1, <2>2, <3>1 DEF Ahead
  <2>3. CASE t # p /\ j \in DOMAIN c[t] /\ h = c[t][j]
    <3>1. CASE t = q
      BY <1>1, <1>2, <1>6, <1>7, <1>8, <1>9, <2>3, <3>1
    <3>2. CASE t # q
      <4>1. Rank(q) < Rank(t)
        BY <1>1, <1>9, <3>2
      <4>2. CASE Rank(p) < Rank(t)
        BY <1>4, <2>1, <2>3, <4>2 DEF Ahead
      <4>3. CASE Rank(t) <= Rank(p)
        <5>1. h \in ToSet(c[t])
          BY <2>3 DEF ToSet
        <5> QED
          BY <1>3, <2>1, <2>3, <4>1, <4>3, <5>1
      <4> QED
        BY <1>2, <4>2, <4>3
    <3> QED
      BY <3>1, <3>2
  <2>4. CASE t = q /\ j > Len(c[q]) /\ j - Len(c[q]) \in DOMAIN r /\ h = r[j - Len(c[q])]
    <3>1. h = f
      BY <1>5, <2>4
    <3>2. i - Len(c[q]) = j - Len(c[q])
      BY <1>9, <2>1, <2>4, <3>1 DEF IsDistinct
    <3> QED
      BY <1>1, <1>2, <1>6, <1>7, <1>8, <1>9, <2>4, <3>2
  <2> QED
    BY <1>7, <2>2, <2>3, <2>4
<1>10. CASE t = q /\ j > Len(c[q]) /\ j - Len(c[q]) \in DOMAIN r /\ h = r[j - Len(c[q])]
  <2>1. h = f
    BY <1>5, <1>10
  <2>2. CASE s = p /\ i + 1 \in DOMAIN c[p] /\ g = c[p][i + 1]
    BY <1>1, <1>2, <1>10, <2>2
  <2>3. CASE s # p /\ i \in DOMAIN c[s] /\ g = c[s][i]
    <3>1. Rank(s) < Rank(p)
      BY <1>1, <1>2, <1>10
    <3> QED
      BY <1>4, <2>1, <2>3, <3>1 DEF Ahead
  <2> QED
    BY <1>6, <1>9, <2>2, <2>3
<1>11. CASE /\ s = p /\ i + 1 \in DOMAIN c[p] /\ g = c[p][i + 1]
            /\ t = p /\ j + 1 \in DOMAIN c[p] /\ h = c[p][j + 1]
  <2>1. i + 1 < j + 1
    BY <1>1, <1>2, <1>6, <1>7, <1>11
  <2> QED
    BY <1>11, <2>1 DEF Ahead
<1>12. CASE /\ s = p /\ i + 1 \in DOMAIN c[p] /\ g = c[p][i + 1]
            /\ t # p /\ j \in DOMAIN c[t] /\ h = c[t][j]
  BY <1>1, <1>12 DEF Ahead
<1>13. CASE /\ s # p /\ i \in DOMAIN c[s] /\ g = c[s][i]
            /\ t = p /\ j + 1 \in DOMAIN c[p] /\ h = c[p][j + 1]
  BY <1>1, <1>13 DEF Ahead
<1>14. CASE /\ s # p /\ i \in DOMAIN c[s] /\ g = c[s][i]
            /\ t # p /\ j \in DOMAIN c[t] /\ h = c[t][j]
  BY <1>1, <1>14 DEF Ahead
<1> QED
  BY <1>6, <1>7, <1>9, <1>10, <1>11, <1>12, <1>13, <1>14

LEMMA RankTells ==
  ASSUME NEW t \in Places
  PROVE  /\ Rank(t) = 0 => t = <<"delivered", 0>>
         /\ Rank(t) = 1 => t = <<"out", 0>>
         /\ Rank(t) = 2 => t = <<"emitting", 0>>
         /\ Rank(t) = 3 => t = <<"next", 0>>
         /\ Rank(t) = 4 => t = <<"todo", 0>>
         /\ \A i \in 0 .. NProcs : /\ Rank(t) = 5 + 3 * (NProcs - i) => t = <<"stageCh", i>>
                                   /\ Rank(t) = 6 + 3 * (NProcs - i) => t = <<"outbox", i>>
         /\ \A i \in Stages : Rank(t) = 7 + 3 * (NProcs - i) => t = <<"working", i>>
         /\ 5 <= Rank(t) /\ Rank(t) <= 7 + 3 * NProcs
              => \/ \E i \in 0 .. NProcs : t = <<"outbox", i>> \/ t = <<"stageCh", i>>
                 \/ \E i \in Stages : t = <<"working", i>>
         /\ Rank(t) = 8 + 3 * NProcs => t = <<"popped", 0>>
         /\ Rank(t) = 9 + 3 * NProcs => t = <<"high", 0>> \/ t = <<"low", 0>>
         /\ Rank(t) = 10 + 3 * NProcs => t = <<"feeder", 0>>
         /\ Rank(t) = 11 + 3 * NProcs => t = <<"in", 0>>
         /\ Rank(t) <= 11 + 3 * NProcs
<1> USE OrchestratorAssumption, RankIs DEF Stages
<1>1. CASE \E n \in {"in", "feeder", "high", "low", "popped", "todo", "next", "emitting", "out", "delivered"} :
             t = <<n, 0>>
  <2>1. CASE t = <<"in", 0>>
    BY <2>1
  <2>2. CASE t = <<"feeder", 0>>
    BY <2>2
  <2>3. CASE t = <<"high", 0>> \/ t = <<"low", 0>>
    BY <2>3
  <2>4. CASE t = <<"popped", 0>>
    BY <2>4
  <2>5. CASE t = <<"todo", 0>> \/ t = <<"next", 0>>
    BY <2>5
  <2>6. CASE t = <<"emitting", 0>> \/ t = <<"out", 0>> \/ t = <<"delivered", 0>>
    BY <2>6
  <2> QED
    BY <1>1, <2>1, <2>2, <2>3, <2>4, <2>5, <2>6
<1>2. ASSUME NEW i \in 0 .. NProcs, t = <<"stageCh", i>>
      PROVE  Rank(t) = 5 + 3 * (NProcs - i) /\ i \in Nat /\ NProcs - i \in Nat /\ NProcs - i <= NProcs
  <2>1. Rank(t) = 5 + 3 * (NProcs - i)
    BY <1>2
  <2>2. i \in Nat /\ NProcs - i \in Nat /\ NProcs - i <= NProcs
    OBVIOUS
  <2> QED
    BY <2>1, <2>2
<1>3. ASSUME NEW i \in 0 .. NProcs, t = <<"outbox", i>>
      PROVE  Rank(t) = 6 + 3 * (NProcs - i) /\ i \in Nat /\ NProcs - i \in Nat /\ NProcs - i <= NProcs
  <2>1. Rank(t) = 6 + 3 * (NProcs - i)
    BY <1>3
  <2>2. i \in Nat /\ NProcs - i \in Nat /\ NProcs - i <= NProcs
    OBVIOUS
  <2> QED
    BY <2>1, <2>2
<1>4. ASSUME NEW i \in Stages, t = <<"working", i>>
      PROVE  Rank(t) = 7 + 3 * (NProcs - i) /\ i \in Nat /\ NProcs - i \in Nat /\ NProcs - i < NProcs
  <2>1. Rank(t) = 7 + 3 * (NProcs - i)
    BY <1>4
  <2>2. i \in Nat /\ NProcs - i \in Nat /\ NProcs - i < NProcs
    OBVIOUS
  <2> QED
    BY <2>1, <2>2
<1>5. CASE \E i \in 0 .. NProcs : t = <<"stageCh", i>>
  BY <1>2, <1>5
<1>6. CASE \E i \in 0 .. NProcs : t = <<"outbox", i>>
  BY <1>3, <1>6
<1>7. CASE \E i \in Stages : t = <<"working", i>>
  BY <1>4, <1>7
<1> QED
  BY <1>1, <1>5, <1>6, <1>7, PlacesAre

(* What a step of the pipeline may do, in these terms.  Nothing:             *)
Stays == Where' = Where /\ UNCHANGED <<sent, spawned, dropped, discarded>>

(* A frame is accepted.                                                      *)
Enters(f) ==
  /\ f \in Frame /\ f \notin ToSet(sent) /\ sent' = Append(sent, f)
  /\ Where'[<<"in", 0>>] = Append(Where[<<"in", 0>>], f)
  /\ Elsewhere(Where, Where', <<"in", 0>>, <<"in", 0>>)
  /\ UNCHANGED <<spawned, dropped, discarded, popPc>>

(* A frame moves on, past places that are empty, or past a lane: Pop.        *)
Passing(p, q) ==
  \A t \in Places : t # p /\ Rank(q) < Rank(t) /\ Rank(t) <= Rank(p) =>
    \/ Where[t] = <<>>
    \/ p = <<"high", 0>> /\ t = <<"low", 0>>
    \/ p = <<"low", 0>> /\ t = <<"high", 0>> /\ popPc = "poll_low" /\ popPc' = "idle"

MovesOn(p, q) ==
  /\ Shifted(Where, Where', p, q, <<Head(Where[p])>>)
  /\ Rank(q) < Rank(p) /\ Passing(p, q)
  /\ UNCHANGED <<sent, spawned, dropped, discarded>>

(* A frame is lost: dropped, abandoned, or sent on the closed channel.       *)
Vanishes(p) ==
  /\ p # <<"delivered", 0>>
  /\ Shifted(Where, Where', p, <<"delivered", 0>>, <<>>)
  /\ UNCHANGED <<sent, spawned>>
  /\ \/ panicked'
     \/ dropped' = dropped \cup {Head(Where[p])} /\ UNCHANGED discarded
     \/ discarded' = discarded \cup {Head(Where[p])} /\ UNCHANGED dropped

(* A processor has worked on a frame.  At the end of a round of the sync     *)
(* pipeline its results become what is to be done.                           *)
WorksOn(p, q, r, d) ==
  /\ p # <<"delivered", 0>> /\ q # <<"delivered", 0>>
  /\ Shifted(Where, d, p, q, r)
  /\ Rank(q) < Rank(p) /\ Passing(p, q)
  /\ r \in Results(Head(Where[p])) /\ Processed(Head(Where[p]), r)
  /\ \/ Where' = d
     \/ /\ p = <<"todo", 0>> /\ q = <<"next", 0>>
        /\ d[p] = <<>> /\ Where'[p] = d[q] /\ Where'[q] = <<>> /\ Elsewhere(d, Where', p, q)

StepKind ==
  \/ Stays
  \/ \E f \in Frame : Enters(f)
  \/ \E p \in Places, q \in Places : MovesOn(p, q)
  \/ \E p \in Places : Vanishes(p)
  \/ \E p \in Places, q \in Places : \E r, d : WorksOn(p, q, r, d)

LEMMA MoveShifts ==
  ASSUME NEW c \in Rooms, NEW d \in Rooms, NEW p \in Places, NEW q \in Places, p # q, c[p] # <<>>,
         d[p] = Tail(c[p]), d[q] = Append(c[q], Head(c[p])), Elsewhere(c, d, p, q)
  PROVE  Shifted(c, d, p, q, <<Head(c[p])>>)
<1>1. c[p] \in Seq(AnyFrame) /\ c[q] \in Seq(AnyFrame)
  BY DEF Rooms
<1>2. Head(c[p]) \in AnyFrame
  BY <1>1
<1>3. <<Head(c[p])>> \in Seq(AnyFrame)
  BY <1>2
<1>4. Append(c[q], Head(c[p])) = c[q] \o <<Head(c[p])>>
  BY <1>1, <1>2, AppendIsConcat
<1> QED
  BY <1>3, <1>4 DEF Shifted

LEMMA LossShifts ==
  ASSUME NEW c \in Rooms, NEW d \in Rooms, NEW p \in Places, p # <<"delivered", 0>>, c[p] # <<>>,
         d[p] = Tail(c[p]), Elsewhere(c, d, p, p)
  PROVE  Shifted(c, d, p, <<"delivered", 0>>, <<>>)
<1>1. <<"delivered", 0>> \in Places
  BY Singles
<1>2. PICK q \in Places : q = <<"delivered", 0>>
  BY <1>1
<1>3. c[q] \in Seq(AnyFrame) /\ d[q] = c[q]
  BY <1>2 DEF Rooms, Elsewhere
<1>4. c[q] \o <<>> = c[q] /\ <<>> \in Seq(AnyFrame)
  BY <1>3, ConcatEmptySeq
<1>5. Elsewhere(c, d, p, q)
  BY DEF Elsewhere
<1> QED
  BY <1>2, <1>3, <1>4, <1>5 DEF Shifted

(* Between steps: what the kinds of steps are told apart by.                 *)
Settling == TypeOK /\ HistoryInv /\ LocalsInv /\ ModesInv /\ Where \in Rooms

(* A frame that moves to the next place passes no other.                     *)
LEMMA NextDoor ==
  ASSUME NEW p \in Places, NEW q \in Places, Rank(p) = Rank(q) + 1,
         \A t \in Places : Rank(t) = Rank(p) => t = p
  PROVE  Rank(q) < Rank(p) /\ Passing(p, q)
<1>1. Rank(p) \in Nat /\ Rank(q) \in Nat
  BY RankType
<1>2. ASSUME NEW t \in Places, t # p, Rank(q) < Rank(t), Rank(t) <= Rank(p)
      PROVE  FALSE
  <2>1. Rank(t) \in Nat
    BY RankType
  <2> QED
    BY <1>1, <1>2, <2>1
<1> QED
  BY <1>1, <1>2 DEF Passing

(* The moves, and the losses, of a step.                                     *)
LEMMA MoveKind ==
  ASSUME NEW p \in Places, NEW q \in Places, MovesOn(p, q)
  PROVE  StepKind
BY DEF StepKind

LEMMA LossKind ==
  ASSUME Settling, (Where \in Rooms)', NEW p \in Places, p # <<"delivered", 0>>,
         Where[p] # <<>>, Where'[p] = Tail(Where[p]), Elsewhere(Where, Where', p, p),
         UNCHANGED <<sent, spawned>>,
         \/ panicked'
         \/ dropped' = dropped \cup {Head(Where[p])} /\ UNCHANGED discarded
         \/ discarded' = discarded \cup {Head(Where[p])} /\ UNCHANGED dropped
  PROVE  StepKind
<1>1. Shifted(Where, Where', p, <<"delivered", 0>>, <<>>)
  BY LossShifts DEF Settling
<1>2. Vanishes(p)
  BY <1>1 DEF Vanishes
<1> QED
  BY <1>2 DEF StepKind

LEMMA StayKind ==
  ASSUME \A t \in Places : Where'[t] = Where[t], UNCHANGED <<sent, spawned, dropped, discarded>>
  PROVE  StepKind
<1>1. Where' = Where
  BY DEF Where
<1> QED
  BY <1>1 DEF StepKind, Stays

LEMMA SubmitKind ==
  ASSUME Settling, (Where \in Rooms)', NEW f \in Frame, Submit(f)
  PROVE  StepKind
<1>1. /\ in' = Append(in, f) /\ sent' = Append(sent, f) /\ f \notin ToSet(sent)
      /\ UNCHANGED <<dropped, discarded, spawned, delivered, popPc>>
      /\ UNCHANGED <<pqVars, out, feeder, asyncVars, syncVars>>
  BY DEF Submit, pqVars
<1>2. <<"in", 0>> \in Places /\ Where'[<<"in", 0>>] = Append(Where[<<"in", 0>>], f)
  BY <1>1, Singles, WhereIs, WhereIsNext
<1>3. ASSUME NEW t \in Places, t # <<"in", 0>>
      PROVE  Where'[t] = Where[t]
  BY <1>1, <1>3, Unmoved DEF pqVars, asyncVars, syncVars
<1>4. Enters(f)
  BY <1>1, <1>2, <1>3 DEF Enters, Elsewhere
<1> QED
  BY <1>4 DEF StepKind

(* The steps that move a frame on.                                           *)
LEMMA FeederReceiveKind ==
  ASSUME Settling, (Where \in Rooms)', FeederReceive
  PROVE  StepKind
<1>1. /\ feeder = NoFrame /\ in # <<>> /\ feeder' = Head(in) /\ in' = Tail(in)
      /\ UNCHANGED <<sent, spawned, dropped, discarded, delivered>>
      /\ UNCHANGED <<pqVars, out, asyncVars, syncVars>>
  BY DEF FeederReceive, histVars
<1>2. Head(in) \in AnyFrame /\ Head(in) # NoFrame
  BY <1>1, QueueAssumption DEF Settling, TypeOK, AnyFrame
<1>3. Held(feeder) = <<>> /\ Held(feeder') = Append(<<>>, Head(in))
  BY <1>1, <1>2, HeldType
<1>4. PICK p \in Places, q \in Places : p = <<"in", 0>> /\ q = <<"feeder", 0>>
  BY Singles
<1>5. /\ p # q /\ Where[p] # <<>> /\ Where'[p] = Tail(Where[p])
      /\ Where'[q] = Append(Where[q], Head(Where[p]))
  BY <1>1, <1>3, <1>4, WhereIs, WhereIsNext
<1>6. ASSUME NEW t \in Places, t # p, t # q
      PROVE  Where'[t] = Where[t]
  BY <1>1, <1>4, <1>6, Unmoved DEF pqVars, asyncVars, syncVars
<1>7. Elsewhere(Where, Where', p, q)
  BY <1>6 DEF Elsewhere
<1>8. Shifted(Where, Where', p, q, <<Head(Where[p])>>)
  BY <1>5, <1>7, MoveShifts DEF Settling
<1>9. Rank(p) = 11 + 3 * NProcs /\ Rank(q) = 10 + 3 * NProcs
  BY <1>4, RankIs
<1>10. Rank(p) = Rank(q) + 1 /\ \A t \in Places : Rank(t) = Rank(p) => t = p
  BY <1>4, <1>9, RankTells, OrchestratorAssumption
<1>11. MovesOn(p, q)
  BY <1>1, <1>8, <1>10, NextDoor DEF MovesOn
<1> QED
  BY <1>11, MoveKind

LEMMA FeederPushKind ==
  ASSUME Settling, (Where \in Rooms)', FeederPush
  PROVE  StepKind
<1>1. /\ feeder # NoFrame /\ feeder' = NoFrame
      /\ dropped' = IF high' = high /\ low' = low THEN dropped \cup {feeder} ELSE dropped
      /\ UNCHANGED <<sent, spawned, discarded, delivered, popped>>
      /\ UNCHANGED <<in, out, asyncVars, syncVars>>
  BY DEF FeederPush, TryPushHigh, TryPushLow
<1>2. feeder \in AnyFrame
  BY <1>1 DEF Settling, TypeOK, AnyFrame
<1>3. /\ Held(feeder) # <<>> /\ Head(Held(feeder)) = feeder
      /\ Held(feeder') = Tail(Held(feeder))
  <2>1. Held(NoFrame) = <<>>
    BY DEF Held
  <2> QED
    BY <1>1, <1>2, <2>1, HeldType
<1>4. PICK p \in Places : p = <<"feeder", 0>>
  BY Singles
<1>5. Where[p] # <<>> /\ Head(Where[p]) = feeder /\ Where'[p] = Tail(Where[p])
  BY <1>3, <1>4, WhereIs, WhereIsNext
<1>6. \/ high' = high /\ low' = low
      \/ high' = Append(high, feeder) /\ low' = low
      \/ low' = Append(low, feeder) /\ high' = high
  BY DEF FeederPush, TryPushHigh, TryPushLow
<1>7. CASE high' = high /\ low' = low
  <2>1. ASSUME NEW t \in Places, t # p
        PROVE  Where'[t] = Where[t]
    BY <1>1, <1>4, <1>7, <2>1, Unmoved DEF asyncVars, syncVars
  <2>2. Elsewhere(Where, Where', p, p)
    BY <2>1 DEF Elsewhere
  <2>3. dropped' = dropped \cup {Head(Where[p])} /\ UNCHANGED discarded /\ p # <<"delivered", 0>>
    BY <1>1, <1>4, <1>5, <1>7
  <2> QED
    BY <1>1, <1>5, <2>2, <2>3, LossKind
<1>8. ASSUME NEW q \in Places, q = <<"high", 0>> \/ q = <<"low", 0>>,
             Where'[q] = Append(Where[q], feeder), dropped' = dropped,
             q = <<"high", 0>> => low' = low, q = <<"low", 0>> => high' = high
      PROVE  StepKind
  <2>1. ASSUME NEW t \in Places, t # p, t # q
        PROVE  Where'[t] = Where[t]
    BY <1>1, <1>4, <1>8, <2>1, Unmoved DEF asyncVars, syncVars
  <2>2. Elsewhere(Where, Where', p, q) /\ p # q
    BY <1>4, <1>8, <2>1 DEF Elsewhere
  <2>3. Shifted(Where, Where', p, q, <<Head(Where[p])>>)
    BY <1>5, <1>8, <2>2, MoveShifts DEF Settling
  <2>4. Rank(p) = 10 + 3 * NProcs /\ Rank(q) = 9 + 3 * NProcs
    BY <1>4, <1>8, RankIs
  <2>5. Rank(p) = Rank(q) + 1 /\ \A t \in Places : Rank(t) = Rank(p) => t = p
    BY <1>4, <2>4, RankTells, OrchestratorAssumption
  <2>6. MovesOn(p, q)
    BY <1>1, <1>8, <2>3, <2>5, NextDoor DEF MovesOn
  <2> QED
    BY <2>6, MoveKind
<1>9. CASE high' = Append(high, feeder) /\ low' = low
  <2>1. high' # high
    BY <1>9, AppendProperties DEF Settling, TypeOK, PQTypeOK
  <2>2. PICK q \in Places : q = <<"high", 0>>
    BY Singles
  <2>3. Where'[q] = Append(Where[q], feeder) /\ q # <<"low", 0>> /\ dropped' = dropped
    BY <1>1, <1>9, <2>1, <2>2, WhereIs, WhereIsNext
  <2> QED
    BY <1>8, <1>9, <2>2, <2>3
<1>10. CASE low' = Append(low, feeder) /\ high' = high
  <2>1. low' # low
    BY <1>10, AppendProperties DEF Settling, TypeOK, PQTypeOK
  <2>2. PICK q \in Places : q = <<"low", 0>>
    BY Singles
  <2>3. Where'[q] = Append(Where[q], feeder) /\ q # <<"high", 0>> /\ dropped' = dropped
    BY <1>1, <1>10, <2>1, <2>2, WhereIs, WhereIsNext
  <2> QED
    BY <1>8, <1>10, <2>2, <2>3
<1> QED
  BY <1>6, <1>7, <1>9, <1>10

(* Pop takes the first frame of a lane.                                      *)
LEMMA PollKind ==
  ASSUME Settling, (Where \in Rooms)', PopperPoll
  PROVE  StepKind
<1>1. /\ UNCHANGED <<in, out, feeder, asyncVars, syncVars, histVars>>
      /\ popPc # "idle"
  BY DEF PopperPoll, PollHigh, PollLow, orchVars
<1>2. Held(popped) = <<>>
  BY <1>1 DEF Held, Settling, LocalsInv
<1>3. CASE UNCHANGED <<high, low, popped>>
  <2>1. \A t \in Places : Where'[t] = Where[t]
    BY <1>1, <1>3, Unmoved DEF asyncVars, syncVars, histVars
  <2> QED
    BY <1>1, <2>1, StayKind DEF histVars
<1>4. ASSUME NEW p \in Places, p = <<"high", 0>> \/ p = <<"low", 0>>,
             Where[p] # <<>>, Head(Where[p]) \in Frame, popped' = Head(Where[p]),
             Where'[p] = Tail(Where[p]),
             p = <<"high", 0>> => low' = low,
             p = <<"low", 0>> => high' = high /\ popPc = "poll_low" /\ popPc' = "idle"
      PROVE  StepKind
  <2>1. PICK q \in Places : q = <<"popped", 0>>
    BY Singles
  <2>2. Head(Where[p]) \in AnyFrame /\ Head(Where[p]) # NoFrame
    BY <1>4, QueueAssumption DEF AnyFrame, Frame
  <2>3. Held(popped') = Append(<<>>, Head(Where[p]))
    BY <1>4, <2>2, HeldType
  <2>4. Where'[q] = Append(Where[q], Head(Where[p])) /\ p # q
    BY <1>2, <1>4, <2>1, <2>3, WhereIs, WhereIsNext
  <2>5. ASSUME NEW t \in Places, t # p, t # q
        PROVE  Where'[t] = Where[t]
    BY <1>1, <1>4, <2>1, <2>5, Unmoved DEF asyncVars, syncVars, histVars
  <2>6. Elsewhere(Where, Where', p, q)
    BY <2>5 DEF Elsewhere
  <2>7. Shifted(Where, Where', p, q, <<Head(Where[p])>>)
    BY <1>4, <2>4, <2>6, MoveShifts DEF Settling
  <2>8. Rank(p) = 9 + 3 * NProcs /\ Rank(q) = 8 + 3 * NProcs
    BY <1>4, <2>1, RankIs
  <2>9. Rank(q) < Rank(p)
    BY <2>8, OrchestratorAssumption
  <2>10. Passing(p, q)
    <3>1. ASSUME NEW t \in Places, t # p, Rank(q) < Rank(t), Rank(t) <= Rank(p)
          PROVE  t = <<"high", 0>> \/ t = <<"low", 0>>
      <4>1. Rank(t) \in Nat
        BY RankType
      <4>2. Rank(t) = 9 + 3 * NProcs
        BY <2>8, <3>1, <4>1, OrchestratorAssumption
      <4> QED
        BY <4>2, RankTells
    <3> QED
      BY <1>4, <3>1 DEF Passing
  <2>11. MovesOn(p, q)
    BY <1>1, <2>7, <2>9, <2>10 DEF MovesOn, histVars
  <2> QED
    BY <2>11, MoveKind
<1>5. CASE high # <<>> /\ popped' = Head(high) /\ high' = Tail(high) /\ low' = low
  <2>1. PICK p \in Places : p = <<"high", 0>>
    BY Singles
  <2>2. Head(high) \in Frame
    BY <1>5 DEF Settling, TypeOK, PQTypeOK, Frame
  <2>3. Where[p] # <<>> /\ Where[p] = high /\ Where'[p] = Tail(Where[p]) /\ p # <<"low", 0>>
    BY <1>5, <2>1, WhereIs, WhereIsNext
  <2> QED
    BY <1>4, <1>5, <2>1, <2>2, <2>3
<1>6. CASE /\ low # <<>> /\ popped' = Head(low) /\ low' = Tail(low) /\ high' = high
           /\ popPc = "poll_low" /\ popPc' = "idle"
  <2>1. PICK p \in Places : p = <<"low", 0>>
    BY Singles
  <2>2. Head(low) \in Frame
    BY <1>6 DEF Settling, TypeOK, PQTypeOK, Frame
  <2>3. Where[p] # <<>> /\ Where[p] = low /\ Where'[p] = Tail(Where[p]) /\ p # <<"high", 0>>
    BY <1>6, <2>1, WhereIs, WhereIsNext
  <2> QED
    BY <1>4, <1>6, <2>1, <2>2, <2>3
<1> QED
  BY <1>3, <1>5, <1>6 DEF PopperPoll, PollHigh, PollLow

LEMMA PopperKind ==
  ASSUME Settling, (Where \in Rooms)', Popper
  PROVE  StepKind
<1>1. Held(NoFrame) = <<>>
  BY DEF Held
<1>2. CASE PopperCall \/ PopperExit
  <2>1. UNCHANGED <<in, out, feeder, high, low, popped, asyncVars, syncVars, histVars>>
    BY <1>2 DEF PopperCall, PopperExit, CallPop, pqVars, orchVars
  <2>2. \A t \in Places : Where'[t] = Where[t]
    BY <2>1, Unmoved DEF asyncVars, syncVars, histVars
  <2> QED
    BY <2>1, <2>2, StayKind DEF histVars
<1>3. CASE PopperPoll
  BY <1>3, PollKind
<1>4. CASE PopperDropStale \/ PopperTake
  <2>1. /\ popped # NoFrame /\ popped' = NoFrame
        /\ UNCHANGED <<in, out, feeder, high, low, stageCh, working, emitting, next>>
        /\ UNCHANGED <<sent, delivered, discarded, spawned>>
    BY <1>4 DEF PopperDropStale, PopperTake, UsePopped, orchVars, asyncVars, syncVars, histVars
  <2>2. popped \in AnyFrame /\ at = 0 /\ outbox[0] = <<>> /\ todo = <<>>
    BY <2>1 DEF Settling, TypeOK, PQTypeOK, LocalsInv, AnyFrame
  <2>3. /\ Held(popped) # <<>> /\ Head(Held(popped)) = popped /\ Held(popped') = Tail(Held(popped))
        /\ Append(<<>>, popped) = <<popped>>
    BY <1>1, <2>1, <2>2, HeldType
  <2>4. PICK p \in Places : p = <<"popped", 0>>
    BY Singles
  <2>5. /\ Where[p] # <<>> /\ Head(Where[p]) = popped /\ Where'[p] = Tail(Where[p])
        /\ Rank(p) = 8 + 3 * NProcs
    BY <2>3, <2>4, WhereIs, WhereIsNext, RankIs
  <2>6. CASE PopperDropStale
    <3>1. UNCHANGED <<outbox, todo>> /\ dropped' = dropped \cup {popped}
      BY <2>6 DEF PopperDropStale, asyncVars, syncVars
    <3>2. ASSUME NEW t \in Places, t # p
          PROVE  Where'[t] = Where[t]
      BY <2>1, <2>4, <3>1, <3>2, Unmoved
    <3>3. Elsewhere(Where, Where', p, p) /\ p # <<"delivered", 0>>
      BY <2>4, <3>2 DEF Elsewhere
    <3> QED
      BY <2>1, <2>5, <3>1, <3>3, LossKind
  <2>7. CASE PopperTake /\ cfg.async
    <3>1. todo' = todo /\ dropped' = dropped /\ outbox' = [outbox EXCEPT ![0] = <<popped>>]
      BY <2>7 DEF PopperTake, syncVars, histVars
    <3>2. 0 \in 0 .. NProcs
      BY OrchestratorAssumption
    <3>3. outbox'[0] = <<popped>> /\ \A i \in 0 .. NProcs : i # 0 => outbox'[i] = outbox[i]
      BY <3>1, <3>2 DEF Settling, TypeOK
    <3>4. PICK q \in Places : q = <<"outbox", 0>>
      BY <3>2, Staged
    <3>5. Where'[q] = Append(Where[q], Head(Where[p])) /\ p # q
      BY <2>2, <2>3, <2>4, <2>5, <3>2, <3>3, <3>4, WhereIs, WhereIsNext
    <3>6. ASSUME NEW t \in Places, t # p, t # q
          PROVE  Where'[t] = Where[t]
      BY <2>1, <2>4, <3>1, <3>3, <3>4, <3>6, Unmoved
    <3>7. Elsewhere(Where, Where', p, q)
      BY <3>6 DEF Elsewhere
    <3>8. Shifted(Where, Where', p, q, <<Head(Where[p])>>)
      BY <2>5, <3>5, <3>7, MoveShifts DEF Settling
    <3>9. Rank(q) = 6 + 3 * NProcs
      <4>1. PICK k \in 0 .. NProcs : k = 0
        BY <3>2
      <4>2. Rank(q) = 6 + 3 * (NProcs - k)
        BY <3>4, <4>1, RankIs
      <4> QED
        BY <4>1, <4>2, OrchestratorAssumption
    <3>10. ASSUME NEW t \in Places, t # p, Rank(q) < Rank(t), Rank(t) <= Rank(p)
           PROVE  FALSE
      <4>1. Rank(t) \in Nat
        BY RankType
      <4>2. Rank(t) = 7 + 3 * NProcs \/ Rank(t) = 8 + 3 * NProcs
        BY <2>5, <3>9, <3>10, <4>1, OrchestratorAssumption
      <4>3. Rank(t) = 7 + 3 * NProcs
        BY <2>4, <3>10, <4>2, RankTells
      <4>4. \/ \E i \in 0 .. NProcs : t = <<"outbox", i>> \/ t = <<"stageCh", i>>
            \/ \E i \in Stages : t = <<"working", i>>
        BY <4>3, RankTells, OrchestratorAssumption
      <4>5. ASSUME NEW i \in 0 .. NProcs, t = <<"outbox", i>> \/ t = <<"stageCh", i>>
            PROVE  FALSE
        <5>1. Rank(t) = 6 + 3 * (NProcs - i) \/ Rank(t) = 5 + 3 * (NProcs - i)
          BY <4>5, RankIs
        <5>2. i \in Nat
          OBVIOUS
        <5> QED
          BY <4>3, <5>1, <5>2, OrchestratorAssumption
      <4>6. ASSUME NEW i \in Stages, t = <<"working", i>>
            PROVE  FALSE
        <5>1. Rank(t) = 7 + 3 * (NProcs - i)
          BY <4>6, RankIs
        <5>2. i \in Nat /\ i >= 1
          BY DEF Stages
        <5> QED
          BY <4>3, <5>1, <5>2, OrchestratorAssumption
      <4> QED
        BY <4>4, <4>5, <4>6
    <3>11. Rank(q) < Rank(p) /\ Passing(p, q)
      BY <2>5, <3>9, <3>10, OrchestratorAssumption DEF Passing
    <3>12. MovesOn(p, q)
      BY <2>1, <3>1, <3>8, <3>11 DEF MovesOn
    <3> QED
      BY <3>12, MoveKind
  <2>8. CASE PopperTake /\ ~cfg.async
    <3>1. todo' = <<popped>> /\ outbox' = outbox /\ dropped' = dropped
      BY <2>8 DEF PopperTake, histVars
    <3>2. PICK q \in Places : q = <<"todo", 0>>
      BY Singles
    <3>3. Where'[q] = Append(Where[q], Head(Where[p])) /\ p # q
      BY <2>2, <2>3, <2>4, <2>5, <3>1, <3>2, WhereIs, WhereIsNext
    <3>4. ASSUME NEW t \in Places, t # p, t # q
          PROVE  Where'[t] = Where[t]
      BY <2>1, <2>4, <3>1, <3>2, <3>4, Unmoved
    <3>5. Elsewhere(Where, Where', p, q)
      BY <3>4 DEF Elsewhere
    <3>6. Shifted(Where, Where', p, q, <<Head(Where[p])>>)
      BY <2>5, <3>3, <3>5, MoveShifts DEF Settling
    <3>7. Rank(q) = 4
      BY <3>2, RankIs
    <3>8. ASSUME NEW t \in Places, t # p, Rank(q) < Rank(t), Rank(t) <= Rank(p)
          PROVE  Where[t] = <<>>
      <4>1. Rank(t) \in Nat
        BY RankType
      <4>2. Rank(t) # 8 + 3 * NProcs
        BY <2>4, <3>8, RankTells
      <4>3. 5 <= Rank(t) /\ Rank(t) <= 7 + 3 * NProcs
        BY <2>5, <3>7, <3>8, <4>1, <4>2, OrchestratorAssumption
      <4>4. \/ \E i \in 0 .. NProcs : t = <<"outbox", i>> \/ t = <<"stageCh", i>>
            \/ \E i \in Stages : t = <<"working", i>>
        BY <4>3, RankTells
      <4>5. /\ \A i \in 0 .. NProcs : outbox[i] = <<>> /\ stageCh[i] = <<>>
            /\ \A i \in Stages : Held(working[i]) = <<>>
        BY <1>1, <2>8 DEF Settling, ModesInv
      <4> QED
        BY <4>4, <4>5, WhereIs
    <3>9. Rank(q) < Rank(p) /\ Passing(p, q)
      BY <2>5, <3>7, <3>8, OrchestratorAssumption DEF Passing
    <3>10. MovesOn(p, q)
      BY <2>1, <3>1, <3>6, <3>9 DEF MovesOn
    <3> QED
      BY <3>10, MoveKind
  <2> QED
    BY <1>4, <2>6, <2>7, <2>8
<1> QED
  BY <1>2, <1>3, <1>4 DEF Popper

LEMMA ReadOutKind ==
  ASSUME Settling, (Where \in Rooms)', ReadOut
  PROVE  StepKind
<1>1. /\ out # <<>> /\ out' = Tail(out) /\ delivered' = Append(delivered, Head(out))
      /\ UNCHANGED <<sent, spawned, dropped, discarded>>
      /\ UNCHANGED <<pqVars, in, feeder, asyncVars, syncVars>>
  BY DEF ReadOut
<1>2. PICK p \in Places, q \in Places : p = <<"out", 0>> /\ q = <<"delivered", 0>>
  BY Singles
<1>3. /\ p # q /\ Where[p] # <<>> /\ Where'[p] = Tail(Where[p])
      /\ Where'[q] = Append(Where[q], Head(Where[p]))
  BY <1>1, <1>2, WhereIs, WhereIsNext
<1>4. ASSUME NEW t \in Places, t # p, t # q
      PROVE  Where'[t] = Where[t]
  BY <1>1, <1>2, <1>4, Unmoved DEF pqVars, asyncVars, syncVars
<1>5. Elsewhere(Where, Where', p, q)
  BY <1>4 DEF Elsewhere
<1>6. Shifted(Where, Where', p, q, <<Head(Where[p])>>)
  BY <1>3, <1>5, MoveShifts DEF Settling
<1>7. Rank(p) = 1 /\ Rank(q) = 0
  BY <1>2, RankIs
<1>8. Rank(p) = Rank(q) + 1 /\ \A t \in Places : Rank(t) = Rank(p) => t = p
  BY <1>2, <1>7, RankTells
<1>9. MovesOn(p, q)
  BY <1>1, <1>6, <1>8, NextDoor DEF MovesOn
<1> QED
  BY <1>9, MoveKind

(* emit, from the place p whose first frame it is given: the frame arrives,  *)
(* goes to out, or is lost.  Nothing is between p and out.                   *)
LEMMA EmitKind ==
  ASSUME Settling, (Where \in Rooms)',
         NEW p \in Places, p # <<"out", 0>>, p # <<"delivered", 0>>,
         Where[p] # <<>>, Where'[p] = Tail(Where[p]), Emit(Head(Where[p])),
         UNCHANGED <<sent, spawned>>,
         \A t \in Places : t # p /\ t # <<"out", 0>> /\ t # <<"delivered", 0>> => Where'[t] = Where[t],
         \A t \in Places : t # p /\ 1 < Rank(t) /\ Rank(t) <= Rank(p) => Where[t] = <<>>
  PROVE  StepKind
<1>1. PICK e : e = Head(Where[p])
  OBVIOUS
<1>2. /\ Where[<<"out", 0>>] = out /\ Where'[<<"out", 0>>] = out'
      /\ Where[<<"delivered", 0>>] = delivered /\ Where'[<<"delivered", 0>>] = delivered'
      /\ Rank(<<"out", 0>>) = 1 /\ Rank(<<"delivered", 0>>) = 0
  BY WhereIs, WhereIsNext, RankIs
<1>3. Rank(p) \in Nat /\ 1 < Rank(p)
  <2>1. Rank(p) \in Nat
    BY RankType
  <2>2. Rank(p) # 0 /\ Rank(p) # 1
    BY RankTells
  <2> QED
    BY <2>1, <2>2
<1>4. CASE cfg.sink /\ delivered' = Append(delivered, e) /\ UNCHANGED <<out, dropped, discarded>>
  <2>1. PICK q \in Places : q = <<"delivered", 0>>
    BY Singles
  <2>2. Elsewhere(Where, Where', p, q)
    BY <1>2, <1>4, <2>1 DEF Elsewhere
  <2>3. Shifted(Where, Where', p, q, <<Head(Where[p])>>)
    BY <1>1, <1>2, <1>4, <2>1, <2>2, MoveShifts DEF Settling
  <2>4. ASSUME NEW t \in Places, t # p, Rank(q) < Rank(t), Rank(t) <= Rank(p)
        PROVE  Where[t] = <<>>
    <3>1. Rank(t) \in Nat
      BY RankType
    <3>2. CASE Rank(t) = 1
      <4>1. t = <<"out", 0>>
        BY <3>2, RankTells
      <4> QED
        BY <1>2, <1>4, <4>1 DEF Settling, ModesInv
    <3>3. CASE Rank(t) # 1
      BY <1>2, <2>1, <2>4, <3>1, <3>3
    <3> QED
      BY <3>2, <3>3
  <2>5. Rank(q) < Rank(p) /\ Passing(p, q)
    BY <1>2, <1>3, <2>1, <2>4 DEF Passing
  <2>6. MovesOn(p, q)
    BY <1>4, <2>3, <2>5 DEF MovesOn
  <2> QED
    BY <2>6, MoveKind
<1>5. CASE out' = Append(out, e) /\ UNCHANGED <<delivered, dropped, discarded>>
  <2>1. PICK q \in Places : q = <<"out", 0>>
    BY Singles
  <2>2. Elsewhere(Where, Where', p, q)
    BY <1>2, <1>5, <2>1 DEF Elsewhere
  <2>3. Shifted(Where, Where', p, q, <<Head(Where[p])>>)
    BY <1>1, <1>2, <1>5, <2>1, <2>2, MoveShifts DEF Settling
  <2>4. Rank(q) < Rank(p) /\ Passing(p, q)
    BY <1>2, <1>3, <2>1 DEF Passing
  <2>5. MovesOn(p, q)
    BY <1>5, <2>3, <2>4 DEF MovesOn
  <2> QED
    BY <2>5, MoveKind
<1>6. CASE /\ UNCHANGED <<out, delivered>>
           /\ \/ panicked'
              \/ dropped' = dropped \cup {e} /\ discarded' = discarded
              \/ discarded' = discarded \cup {e} /\ dropped' = dropped
  <2>1. Elsewhere(Where, Where', p, p)
    BY <1>2, <1>6 DEF Elsewhere
  <2> QED
    BY <1>1, <1>6, <2>1, LossKind
<1> QED
  BY <1>1, <1>4, <1>5, <1>6, EmitCases

LEMMA SyncEmitKind ==
  ASSUME Settling, (Where \in Rooms)', SyncEmit
  PROVE  StepKind
<1>1. /\ Emit(Head(todo)) /\ todo' = Tail(todo) /\ todo # <<>>
      /\ UNCHANGED <<sent, spawned>>
      /\ UNCHANGED <<pqVars, in, feeder, asyncVars, next>>
  BY OrchestratorAssumption DEF SyncEmit, Settling, TypeOK
<1>2. PICK p \in Places : p = <<"todo", 0>>
  BY Singles
<1>3. /\ Where[p] = todo /\ Where'[p] = todo' /\ p # <<"out", 0>> /\ p # <<"delivered", 0>>
      /\ Rank(p) = 4
  BY <1>2, WhereIs, WhereIsNext, RankIs
<1>4. ASSUME NEW t \in Places, t # p, t # <<"out", 0>>, t # <<"delivered", 0>>
      PROVE  Where'[t] = Where[t]
  BY <1>1, <1>2, <1>4, Unmoved DEF pqVars, asyncVars
<1>5. ASSUME NEW t \in Places, t # p, 1 < Rank(t), Rank(t) <= Rank(p)
      PROVE  Where[t] = <<>>
  <2>1. Rank(t) \in Nat
    BY RankType
  <2>2. Rank(t) = 2 \/ Rank(t) = 3
    <3>1. Rank(t) # 4
      BY <1>2, <1>5, RankTells
    <3> QED
      BY <1>3, <1>5, <2>1, <3>1
  <2>3. t = <<"emitting", 0>> \/ t = <<"next", 0>>
    BY <2>2, RankTells
  <2>4. at # 0 /\ at \notin Stages
    BY OrchestratorAssumption DEF SyncEmit, Stages
  <2>5. next = <<>> /\ Held(emitting) = <<>>
    BY <2>4 DEF Settling, ModesInv, Held
  <2> QED
    BY <2>3, <2>5, WhereIs
<1> QED
  BY <1>1, <1>3, <1>4, <1>5, EmitKind

LEMMA FinalEmitKind ==
  ASSUME Settling, (Where \in Rooms)', FinalEmit
  PROVE  StepKind
<1>1. /\ Emit(emitting) /\ emitting # NoFrame /\ emitting' = NoFrame
      /\ UNCHANGED <<sent, spawned>>
      /\ UNCHANGED <<pqVars, in, feeder, syncVars, stageCh, outbox, working>>
  BY DEF FinalEmit
<1>2. /\ Held(emitting) # <<>> /\ Head(Held(emitting)) = emitting
      /\ Held(emitting') = Tail(Held(emitting))
  <2>1. Held(NoFrame) = <<>>
    BY DEF Held
  <2>2. emitting \in AnyFrame
    BY <1>1 DEF Settling, TypeOK
  <2> QED
    BY <1>1, <2>1, <2>2, HeldType
<1>3. PICK p \in Places : p = <<"emitting", 0>>
  BY Singles
<1>4. /\ Where[p] = Held(emitting) /\ Where'[p] = Held(emitting')
      /\ p # <<"out", 0>> /\ p # <<"delivered", 0>> /\ Rank(p) = 2
  BY <1>3, WhereIs, WhereIsNext, RankIs
<1>5. ASSUME NEW t \in Places, t # p, t # <<"out", 0>>, t # <<"delivered", 0>>
      PROVE  Where'[t] = Where[t]
  BY <1>1, <1>3, <1>5, Unmoved DEF pqVars, syncVars
<1>6. ASSUME NEW t \in Places, t # p, 1 < Rank(t), Rank(t) <= Rank(p)
      PROVE  FALSE
  <2>1. Rank(t) \in Nat
    BY RankType
  <2>2. Rank(t) = 2
    BY <1>4, <1>6, <2>1
  <2> QED
    BY <1>3, <1>6, <2>2, RankTells
<1> QED
  BY <1>1, <1>2, <1>4, <1>5, <1>6, EmitKind

LEMMA StagePushKind ==
  ASSUME Settling, (Where \in Rooms)', NEW i \in 0 .. NProcs, StagePush(i)
  PROVE  StepKind
<1>1. /\ outbox[i] # <<>> /\ outbox' = [outbox EXCEPT ![i] = Tail(@)]
      /\ UNCHANGED <<sent, spawned, delivered>>
      /\ UNCHANGED <<pqVars, in, out, feeder, syncVars, working, emitting>>
  BY DEF StagePush, orchVars
<1>2. PICK e : e = Head(outbox[i])
  OBVIOUS
<1>3. \/ stageCh' = [stageCh EXCEPT ![i] = Append(@, e)] /\ UNCHANGED <<dropped, discarded>>
      \/ UNCHANGED <<stageCh, discarded>> /\ dropped' = dropped \cup {e}
      \/ UNCHANGED <<stageCh, dropped>> /\ discarded' = discarded \cup {e}
  <2>1. \/ stageCh' = [stageCh EXCEPT ![i] = Append(@, e)] /\ UNCHANGED <<dropped, discarded>>
        \/ UNCHANGED stageCh /\ PushLoses(e, Len(stageCh[i]) >= StageBuffer)
    BY <1>2, Zenon DEF StagePush
  <2> QED
    BY <2>1, Zenon DEF PushLoses
<1>4. outbox'[i] = Tail(outbox[i]) /\ \A j \in 0 .. NProcs : j # i => outbox'[j] = outbox[j]
  BY <1>1 DEF Settling, TypeOK
<1>5. PICK p \in Places, q \in Places : p = <<"outbox", i>> /\ q = <<"stageCh", i>>
  BY Staged
<1>6. /\ Where[p] # <<>> /\ Where'[p] = Tail(Where[p]) /\ Head(Where[p]) = e
      /\ p # q /\ p # <<"delivered", 0>>
  BY <1>1, <1>2, <1>4, <1>5, WhereIs, WhereIsNext
<1>7. CASE stageCh' = [stageCh EXCEPT ![i] = Append(@, e)] /\ UNCHANGED <<dropped, discarded>>
  <2>1. stageCh'[i] = Append(stageCh[i], e) /\ \A j \in 0 .. NProcs : j # i => stageCh'[j] = stageCh[j]
    BY <1>7 DEF Settling, TypeOK
  <2>2. ASSUME NEW t \in Places, t # p, t # q
        PROVE  Where'[t] = Where[t]
    BY <1>1, <1>4, <1>5, <2>1, <2>2, Unmoved DEF pqVars, syncVars
  <2>3. Elsewhere(Where, Where', p, q)
    BY <2>2 DEF Elsewhere
  <2>4. Where'[q] = Append(Where[q], Head(Where[p]))
    BY <1>5, <1>6, <2>1, WhereIs, WhereIsNext
  <2>5. Shifted(Where, Where', p, q, <<Head(Where[p])>>)
    BY <1>6, <2>3, <2>4, MoveShifts DEF Settling
  <2>6. Rank(p) = 6 + 3 * (NProcs - i) /\ Rank(q) = 5 + 3 * (NProcs - i) /\ NProcs - i \in Int
    <3>1. Rank(p) = 6 + 3 * (NProcs - i) /\ Rank(q) = 5 + 3 * (NProcs - i)
      BY <1>5, RankIs
    <3> QED
      BY <3>1, OrchestratorAssumption
  <2>7. \A t \in Places : Rank(t) = 6 + 3 * (NProcs - i) => t = p
    BY <1>5, RankTells
  <2>8. Rank(p) = Rank(q) + 1 /\ \A t \in Places : Rank(t) = Rank(p) => t = p
    BY <2>6, <2>7
  <2>9. MovesOn(p, q)
    BY <1>1, <1>7, <2>5, <2>8, NextDoor DEF MovesOn
  <2> QED
    BY <2>9, MoveKind
<1>8. CASE /\ UNCHANGED stageCh
           /\ \/ UNCHANGED discarded /\ dropped' = dropped \cup {e}
              \/ UNCHANGED dropped /\ discarded' = discarded \cup {e}
  <2>1. ASSUME NEW t \in Places, t # p
        PROVE  Where'[t] = Where[t]
    BY <1>1, <1>4, <1>5, <1>8, <2>1, Unmoved DEF pqVars, syncVars
  <2>2. Elsewhere(Where, Where', p, p)
    BY <2>1 DEF Elsewhere
  <2> QED
    BY <1>1, <1>6, <1>8, <2>2, LossKind
<1> QED
  BY <1>3, <1>7, <1>8

LEMMA StageReceiveKind ==
  ASSUME Settling, (Where \in Rooms)', NEW i \in Stages, StageReceive(i)
  PROVE  StepKind
<1>1. /\ working[i] = NoFrame /\ stageCh[i - 1] # <<>>
      /\ working' = [working EXCEPT ![i] = Head(stageCh[i - 1])]
      /\ stageCh' = [stageCh EXCEPT ![i - 1] = Tail(@)]
      /\ UNCHANGED <<sent, spawned, delivered, dropped, discarded>>
      /\ UNCHANGED <<pqVars, in, out, feeder, syncVars, outbox, emitting>>
  BY DEF StageReceive, orchVars, histVars
<1>2. PICK k \in 0 .. NProcs : k = i - 1
  BY OrchestratorAssumption DEF Stages
<1>3. PICK e : e = Head(stageCh[k])
  OBVIOUS
<1>4. /\ stageCh[k] # <<>> /\ stageCh'[k] = Tail(stageCh[k])
      /\ \A j \in 0 .. NProcs : j # k => stageCh'[j] = stageCh[j]
  BY <1>1, <1>2 DEF Settling, TypeOK
<1>5. /\ working'[i] = e /\ \A j \in Stages : j # i => working'[j] = working[j]
      /\ e \in AnyFrame /\ e # NoFrame
  <2>1. e \in AnyFrame
    <3>1. stageCh[k] \in Seq(AnyFrame)
      BY DEF Settling, TypeOK
    <3> QED
      BY <1>3, <1>4, <3>1
  <2>2. e # NoFrame
    BY <2>1, QueueAssumption, OrchestratorAssumption DEF AnyFrame
  <2> QED
    BY <1>1, <1>2, <1>3, <2>1, <2>2 DEF Settling, TypeOK
<1>6. Held(working[i]) = <<>> /\ Held(working'[i]) = Append(<<>>, e)
  <2>1. Held(NoFrame) = <<>>
    BY DEF Held
  <2> QED
    BY <1>1, <1>5, <2>1, HeldType
<1>7. PICK p \in Places, q \in Places : p = <<"stageCh", k>> /\ q = <<"working", i>>
  BY Staged
<1>8. /\ p # q /\ Where[p] # <<>> /\ Where'[p] = Tail(Where[p])
      /\ Where'[q] = Append(Where[q], Head(Where[p]))
  BY <1>3, <1>4, <1>6, <1>7, WhereIs, WhereIsNext
<1>9. ASSUME NEW t \in Places, t # p, t # q
      PROVE  Where'[t] = Where[t]
  BY <1>1, <1>4, <1>5, <1>7, <1>9, Unmoved DEF pqVars, syncVars
<1>10. Elsewhere(Where, Where', p, q)
  BY <1>9 DEF Elsewhere
<1>11. Shifted(Where, Where', p, q, <<Head(Where[p])>>)
  BY <1>8, <1>10, MoveShifts DEF Settling
<1>12. Rank(p) = Rank(q) + 1 /\ Rank(p) = 5 + 3 * (NProcs - k)
  <2>1. Rank(p) = 5 + 3 * (NProcs - k) /\ Rank(q) = 7 + 3 * (NProcs - i)
    BY <1>7, RankIs
  <2> QED
    BY <1>2, <2>1, OrchestratorAssumption DEF Stages
<1>13. \A t \in Places : Rank(t) = Rank(p) => t = p
  <2>1. \A t \in Places : Rank(t) = 5 + 3 * (NProcs - k) => t = p
    BY <1>7, RankTells
  <2> QED
    BY <1>12, <2>1
<1>14. MovesOn(p, q)
  BY <1>1, <1>11, <1>12, <1>13, NextDoor DEF MovesOn
<1> QED
  BY <1>14, MoveKind

LEMMA FinalReceiveKind ==
  ASSUME Settling, (Where \in Rooms)', FinalReceive
  PROVE  StepKind
<1>1. /\ emitting = NoFrame /\ stageCh[NProcs] # <<>> /\ emitting' = Head(stageCh[NProcs])
      /\ stageCh' = [stageCh EXCEPT ![NProcs] = Tail(@)]
      /\ UNCHANGED <<sent, spawned, delivered, dropped, discarded>>
      /\ UNCHANGED <<pqVars, in, out, feeder, syncVars, outbox, working>>
  BY DEF FinalReceive, orchVars, histVars
<1>2. PICK k \in 0 .. NProcs : k = NProcs
  BY OrchestratorAssumption
<1>3. PICK e : e = Head(stageCh[k])
  OBVIOUS
<1>4. /\ stageCh[k] # <<>> /\ stageCh'[k] = Tail(stageCh[k])
      /\ \A j \in 0 .. NProcs : j # k => stageCh'[j] = stageCh[j]
  BY <1>1, <1>2 DEF Settling, TypeOK
<1>5. e \in AnyFrame /\ e # NoFrame /\ emitting' = e
  <2>1. e \in AnyFrame
    <3>1. stageCh[k] \in Seq(AnyFrame)
      BY DEF Settling, TypeOK
    <3> QED
      BY <1>3, <1>4, <3>1
  <2>2. e # NoFrame
    BY <2>1, QueueAssumption, OrchestratorAssumption DEF AnyFrame
  <2> QED
    BY <1>1, <1>2, <1>3, <2>1, <2>2
<1>6. Held(emitting) = <<>> /\ Held(emitting') = Append(<<>>, e)
  <2>1. Held(NoFrame) = <<>>
    BY DEF Held
  <2> QED
    BY <1>1, <1>5, <2>1, HeldType
<1>7. PICK p \in Places, q \in Places : p = <<"stageCh", k>> /\ q = <<"emitting", 0>>
  BY Singles, Staged
<1>8. /\ p # q /\ Where[p] # <<>> /\ Where'[p] = Tail(Where[p])
      /\ Where'[q] = Append(Where[q], Head(Where[p]))
  BY <1>3, <1>4, <1>6, <1>7, WhereIs, WhereIsNext
<1>9. ASSUME NEW t \in Places, t # p, t # q
      PROVE  Where'[t] = Where[t]
  BY <1>1, <1>4, <1>7, <1>9, Unmoved DEF pqVars, syncVars
<1>10. Elsewhere(Where, Where', p, q)
  BY <1>9 DEF Elsewhere
<1>11. Shifted(Where, Where', p, q, <<Head(Where[p])>>)
  BY <1>8, <1>10, MoveShifts DEF Settling
<1>12. Rank(p) = 5 /\ Rank(q) = 2
  <2>1. Rank(p) = 5 + 3 * (NProcs - k) /\ Rank(q) = 2
    BY <1>7, RankIs
  <2> QED
    BY <1>2, <2>1, OrchestratorAssumption
<1>13. ASSUME NEW t \in Places, t # p, Rank(q) < Rank(t), Rank(t) <= Rank(p)
       PROVE  Where[t] = <<>>
  <2>1. Rank(t) \in Nat
    BY RankType
  <2>2. Rank(t) # 5
    <3>1. Rank(t) = 5 + 3 * (NProcs - k) => t = p
      BY <1>7, RankTells
    <3> QED
      BY <1>2, <1>13, <3>1, OrchestratorAssumption
  <2>3. Rank(t) = 3 \/ Rank(t) = 4
    BY <1>12, <1>13, <2>1, <2>2
  <2>4. t = <<"next", 0>> \/ t = <<"todo", 0>>
    BY <2>3, RankTells
  <2>5. next = <<>> /\ todo = <<>>
    BY <1>2, <1>4 DEF Settling, ModesInv
  <2> QED
    BY <2>4, <2>5, WhereIs
<1>14. Rank(q) < Rank(p) /\ Passing(p, q)
  BY <1>12, <1>13 DEF Passing
<1>15. MovesOn(p, q)
  BY <1>1, <1>11, <1>14 DEF MovesOn
<1> QED
  BY <1>15, MoveKind

(* The steps that call Process.                                              *)
LEMMA WorkKind ==
  ASSUME NEW p \in Places, NEW q \in Places, NEW r, NEW d, WorksOn(p, q, r, d)
  PROVE  StepKind
BY DEF StepKind

LEMMA StageProcessKind ==
  ASSUME Settling, (Where \in Rooms)', NEW i \in Stages, StageProcess(i)
  PROVE  StepKind
<1>1. PICK r \in Results(working[i]) :
         Processed(working[i], r) /\ outbox' = [outbox EXCEPT ![i] = r]
  BY DEF StageProcess
<1>2. /\ working[i] # NoFrame /\ working' = [working EXCEPT ![i] = NoFrame] /\ delivered' = delivered
      /\ UNCHANGED <<pqVars, in, out, feeder, syncVars, stageCh, emitting>>
  BY DEF StageProcess, Processed, orchVars
<1>3. i \in 0 .. NProcs
  BY OrchestratorAssumption DEF Stages
<1>4. /\ outbox[i] = <<>> /\ outbox'[i] = r
      /\ \A j \in 0 .. NProcs : j # i => outbox'[j] = outbox[j]
  BY <1>1, <1>2, <1>3 DEF Settling, TypeOK, LocalsInv
<1>5. working'[i] = NoFrame /\ working[i] \in AnyFrame
      /\ \A j \in Stages : j # i => working'[j] = working[j]
  BY <1>2 DEF Settling, TypeOK
<1>6. /\ Held(working[i]) # <<>> /\ Head(Held(working[i])) = working[i]
      /\ Held(working'[i]) = Tail(Held(working[i]))
  <2>1. Held(NoFrame) = <<>>
    BY DEF Held
  <2>2. PICK f \in AnyFrame : f = working[i]
    BY <1>5
  <2>3. Held(f) # <<>> /\ Head(Held(f)) = f /\ Tail(Held(f)) = <<>>
    BY <1>2, <2>2, HeldType
  <2> QED
    BY <1>5, <2>1, <2>2, <2>3
<1>7. r \in Seq(AnyFrame) /\ <<>> \o r = r
  BY <1>1, <1>5, ResultsType, ConcatEmptySeq
<1>8. PICK p \in Places, q \in Places : p = <<"working", i>> /\ q = <<"outbox", i>>
  BY <1>3, Staged
<1>9. /\ p # q /\ p # <<"delivered", 0>> /\ q # <<"delivered", 0>>
      /\ Where[p] # <<>> /\ Head(Where[p]) = working[i]
      /\ Where'[p] = Tail(Where[p]) /\ Where'[q] = Where[q] \o r
  BY <1>3, <1>4, <1>6, <1>7, <1>8, WhereIs, WhereIsNext
<1>10. ASSUME NEW t \in Places, t # p, t # q
       PROVE  Where'[t] = Where[t]
  BY <1>2, <1>4, <1>5, <1>8, <1>10, Unmoved DEF pqVars, syncVars
<1>11. Shifted(Where, Where', p, q, r)
  BY <1>7, <1>9, <1>10 DEF Shifted, Elsewhere, Settling
<1>12. Rank(p) = Rank(q) + 1 /\ Rank(p) = 7 + 3 * (NProcs - i)
  <2>1. Rank(p) = 7 + 3 * (NProcs - i) /\ Rank(q) = 6 + 3 * (NProcs - i)
    BY <1>3, <1>8, RankIs
  <2> QED
    BY <2>1, <1>3, OrchestratorAssumption
<1>13. \A t \in Places : Rank(t) = Rank(p) => t = p
  <2>1. \A t \in Places : Rank(t) = 7 + 3 * (NProcs - i) => t = p
    BY <1>8, RankTells
  <2> QED
    BY <1>12, <2>1
<1>14. WorksOn(p, q, r, Where')
  BY <1>1, <1>9, <1>11, <1>12, <1>13, NextDoor DEF WorksOn
<1> QED
  BY <1>14, WorkKind

LEMMA SyncProcessKind ==
  ASSUME Settling, (Where \in Rooms)', SyncProcess
  PROVE  StepKind
<1>1. at \in Stages /\ todo # <<>> /\ todo \in Seq(AnyFrame) /\ next \in Seq(AnyFrame)
  BY OrchestratorAssumption DEF SyncProcess, Settling, TypeOK, Stages
<1>2. PICK r \in Results(Head(todo)) :
         /\ Processed(Head(todo), r)
         /\ todo' = IF Len(todo) = 1 THEN next \o r ELSE Tail(todo)
         /\ next' = IF Len(todo) = 1 THEN <<>> ELSE next \o r
  BY DEF SyncProcess
<1>3. UNCHANGED <<pqVars, in, out, feeder, asyncVars, delivered>>
  BY <1>2 DEF SyncProcess, Processed, orchVars
<1>4. PICK p \in Places, q \in Places : p = <<"todo", 0>> /\ q = <<"next", 0>>
  BY Singles
<1>5. /\ Where[p] = todo /\ Where'[p] = todo' /\ Where[q] = next /\ Where'[q] = next' /\ p # q
      /\ p # <<"delivered", 0>> /\ q # <<"delivered", 0>>
  BY <1>4, WhereIs, WhereIsNext
<1>6. ASSUME NEW t \in Places, t # p, t # q
      PROVE  Where'[t] = Where[t]
  BY <1>3, <1>4, <1>6, Unmoved DEF pqVars, asyncVars
<1>7. next \o r \in Seq(AnyFrame) /\ Tail(todo) \in Seq(AnyFrame) /\ r \in Seq(AnyFrame)
  BY <1>1, <1>2, ResultsType
<1>8. Rank(p) = Rank(q) + 1 /\ \A t \in Places : Rank(t) = Rank(p) => t = p
  <2>1. Rank(p) = 4 /\ Rank(q) = 3
    BY <1>4, RankIs
  <2> QED
    BY <1>4, <2>1, RankTells
<1>9. ASSUME NEW d \in Rooms, d[p] = Tail(todo), d[q] = next \o r, Elsewhere(Where, d, p, q),
             \/ Where' = d
             \/ d[p] = <<>> /\ Where'[p] = d[q] /\ Where'[q] = <<>> /\ Elsewhere(d, Where', p, q)
      PROVE  StepKind
  <2>1. Shifted(Where, d, p, q, r)
    BY <1>1, <1>5, <1>7, <1>9 DEF Shifted, Settling
  <2>2. WorksOn(p, q, r, d)
    BY <1>2, <1>4, <1>5, <1>8, <1>9, <2>1, NextDoor DEF WorksOn
  <2> QED
    BY <2>2, WorkKind
<1>10. CASE Len(todo) # 1
  <2>1. Where'[p] = Tail(todo) /\ Where'[q] = next \o r
    BY <1>2, <1>5, <1>10
  <2>2. Elsewhere(Where, Where', p, q)
    BY <1>6 DEF Elsewhere
  <2> QED
    BY <1>9, <2>1, <2>2
<1>11. CASE Len(todo) = 1
  <2>1. Tail(todo) = <<>>
    BY <1>1, <1>11, NonEmptyTail
  <2>2. PICK d : d = [t \in Places |-> IF t = p THEN Tail(todo)
                                       ELSE IF t = q THEN next \o r ELSE Where[t]]
    OBVIOUS
  <2>3. d[p] = Tail(todo) /\ d[q] = next \o r /\ Elsewhere(Where, d, p, q)
    BY <1>5, <2>2 DEF Elsewhere
  <2>4. d \in Rooms
    BY <1>7, <2>2 DEF Rooms, Settling
  <2>5. d[p] = <<>> /\ Where'[p] = d[q] /\ Where'[q] = <<>> /\ Elsewhere(d, Where', p, q)
    BY <1>2, <1>5, <1>6, <1>11, <2>1, <2>3 DEF Elsewhere
  <2> QED
    BY <1>9, <2>3, <2>4, <2>5
<1> QED
  BY <1>10, <1>11

LEMMA KindOfStep ==
  ASSUME Settling, (Where \in Rooms)', [Next]_vars
  PROVE  StepKind
<1>1. CASE StopCancel \/ StopClose \/ UNCHANGED vars
  <2>1. UNCHANGED <<pqVars, in, out, feeder, asyncVars, syncVars, histVars>>
    BY <1>1 DEF StopCancel, StopClose, vars, orchVars
  <2>2. \A t \in Places : Where'[t] = Where[t]
    BY <2>1, Unmoved DEF pqVars, asyncVars, syncVars, histVars
  <2> QED
    BY <2>1, <2>2, StayKind DEF histVars
<1>2. ASSUME NEW f \in Frame, Submit(f)
      PROVE  StepKind
  BY <1>2, SubmitKind
<1>3. CASE Feeder
  BY <1>3, FeederReceiveKind, FeederPushKind DEF Feeder
<1>4. CASE Popper
  BY <1>4, PopperKind
<1>5. CASE SyncProcess \/ SyncEmit
  BY <1>5, SyncProcessKind, SyncEmitKind
<1>6. ASSUME NEW i \in 0 .. NProcs, StagePush(i)
      PROVE  StepKind
  BY <1>6, StagePushKind
<1>7. ASSUME NEW i \in Stages, StageReceive(i) \/ StageProcess(i)
      PROVE  StepKind
  BY <1>7, StageReceiveKind, StageProcessKind
<1>8. CASE Final \/ ReadOut
  BY <1>8, FinalReceiveKind, FinalEmitKind, ReadOutKind DEF Final
<1> QED
  BY <1>1, <1>2, <1>3, <1>4, <1>5, <1>6, <1>7, <1>8 DEF Next

(* The ledger through a step of each kind.                                   *)
LEMMA ShiftConserves ==
  ASSUME NEW c, NEW d, NEW x, NEW y, NEW a, Conserved(c, x, y, a),
         NEW p, NEW q, NEW r, Shifted(c, d, p, q, r),
         IsDistinct(r), ToSet(r) \cap (a \ {Head(c[p])}) = {}
  PROVE  /\ Conserved(d, x, y, (a \ {Head(c[p])}) \cup ToSet(r))
         /\ Head(c[p]) \in a /\ Head(c[p]) \in AnyFrame
<1>1. /\ c \in Rooms /\ d \in Rooms /\ p \in Places /\ q \in Places /\ p # q
      /\ c[p] # <<>> /\ r \in Seq(AnyFrame)
      /\ d[p] = Tail(c[p]) /\ d[q] = c[q] \o r /\ Elsewhere(c, d, p, q)
  BY DEF Shifted
<1>2. Tail(c[p]) \in Seq(AnyFrame)
  BY <1>1, HeadTailProperties DEF Rooms
<1>3. PICK e : e = [c EXCEPT ![p] = Tail(c[p])]
  OBVIOUS
<1>4. Puts(c, e, p, Tail(c[p]))
  BY <1>1, <1>2, <1>3, Putting
<1>5. PICK f : f = Head(c[p])
  OBVIOUS
<1>6. Conserved(e, x, y, a \ {f}) /\ f \in a /\ f \in AnyFrame
  BY <1>1, <1>4, <1>5, Takes
<1>7. Puts(e, d, q, e[q] \o r)
  BY <1>1, <1>4 DEF Puts, Elsewhere
<1>8. Conserved(d, x, y, (a \ {f}) \cup ToSet(r))
  BY <1>1, <1>5, <1>6, <1>7, PutsAll
<1> QED
  BY <1>5, <1>6, <1>8

(* What Process returns for f: f or not, and at most one frame that is new.  *)
LEMMA ResultsAre ==
  ASSUME HistoryInv, NEW f \in AnyFrame, f \in Accounted, NEW r \in Results(f)
  PROVE  /\ r \in Seq(AnyFrame) /\ IsDistinct(r)
         /\ ToSet(r) \cap (Accounted \ {f}) = {}
         /\ Accounted \cup ToSet(r) = Accounted \cup (ToSet(r) \cap Spare)
         /\ ToSet(r) \cap Frame \subseteq {f}
<1>1. r \in Seq(AnyFrame)
  BY ResultsType
<1>2. (Spare \ spawned) \cap Accounted = {}
  <2>1. sent \in Seq(Frame)
    BY DEF HistoryInv
  <2>2. ToSet(sent) \subseteq Frame
    BY <2>1 DEF ToSet
  <2> QED
    BY <2>2, OrchestratorAssumption DEF Accounted
<1>3. IsDistinct(r) /\ ToSet(r) \subseteq {f} \cup (Spare \ spawned)
  <2>1. r \in {<<>>, <<f>>} \/ \E s \in Spare \ spawned : r \in {<<s>>, <<f, s>>, <<s, f>>}
    BY DEF Results
  <2>2. CASE r \in {<<>>, <<f>>}
    BY <2>2 DEF IsDistinct, ToSet
  <2>3. ASSUME NEW s \in Spare \ spawned, r \in {<<s>>, <<f, s>>, <<s, f>>}
        PROVE  IsDistinct(r) /\ ToSet(r) \subseteq {f} \cup (Spare \ spawned)
    <3>1. f # s
      BY <1>2
    <3>2. CASE r = <<s>>
      BY <3>2 DEF IsDistinct, ToSet
    <3>3. CASE r = <<f, s>> \/ r = <<s, f>>
      <4>1. DOMAIN r = {1, 2} /\ r[1] # r[2] /\ r[1] \in {f, s} /\ r[2] \in {f, s}
        BY <3>1, <3>3
      <4> QED
        BY <4>1 DEF IsDistinct, ToSet
    <3> QED
      BY <2>3, <3>2, <3>3
  <2> QED
    BY <2>1, <2>2, <2>3
<1>4. ToSet(r) \cap Frame \subseteq {f}
  BY <1>3, OrchestratorAssumption
<1> QED
  BY <1>1, <1>2, <1>3, <1>4

(* One call of Process: the frame at the head of p, its results put behind   *)
(* what q holds.                                                             *)
LEMMA WorkConserves ==
  ASSUME HistoryInv, Tracked, NEW p, NEW q, NEW r, NEW d, WorksOn(p, q, r, d)
  PROVE  /\ Conserved(d, dropped', discarded', Accounted')
         /\ IsDistinct(r) /\ ToSet(r) \cap Frame \subseteq {Head(Where[p])}
<1>1. PICK f : f = Head(Where[p])
  OBVIOUS
<1>2. /\ Shifted(Where, d, p, q, r) /\ r \in Results(f) /\ Processed(f, r)
      /\ p \in Places /\ Where[p] # <<>>
  BY <1>1 DEF WorksOn, Shifted
<1>3. f \in AnyFrame /\ f \in Accounted
  <2>1. Where[p] \in Seq(AnyFrame) /\ IsDistinct(Where[p])
    BY <1>2 DEF Tracked, Conserved, Rooms
  <2>2. f \in ToSet(Where[p]) /\ f \in AnyFrame
    BY <1>1, <1>2, <2>1, DistinctTail
  <2> QED
    BY <1>2, <2>2 DEF Tracked, Conserved
<1>4. /\ r \in Seq(AnyFrame) /\ IsDistinct(r) /\ ToSet(r) \cap (Accounted \ {f}) = {}
      /\ Accounted \cup ToSet(r) = Accounted \cup (ToSet(r) \cap Spare)
      /\ ToSet(r) \cap Frame \subseteq {f}
  BY <1>2, <1>3, ResultsAre
<1>5. Accounted' = Accounted \cup ToSet(r)
  BY <1>2, <1>4 DEF Processed, Accounted
<1>6. Conserved(d, dropped, discarded, (Accounted \ {f}) \cup ToSet(r))
  BY <1>1, <1>2, <1>4, ShiftConserves DEF Tracked
<1>7. dropped' = dropped /\ discarded' = IF f \in ToSet(r) THEN discarded ELSE discarded \cup {f}
  BY <1>2 DEF Processed
<1>8. CASE f \in ToSet(r)
  <2>1. (Accounted \ {f}) \cup ToSet(r) = Accounted \cup ToSet(r)
    BY <1>8
  <2> QED
    BY <1>1, <1>4, <1>5, <1>6, <1>7, <1>8, <2>1
<1>9. CASE f \notin ToSet(r)
  <2>1. Conserved(d, dropped, discarded \cup {f}, ((Accounted \ {f}) \cup ToSet(r)) \cup {f})
    BY <1>6, <1>9, Loses
  <2>2. ((Accounted \ {f}) \cup ToSet(r)) \cup {f} = Accounted \cup ToSet(r)
    BY <1>3
  <2> QED
    BY <1>1, <1>4, <1>5, <1>7, <1>9, <2>1, <2>2
<1> QED
  BY <1>8, <1>9

LEMMA TrackedStep ==
  ASSUME HistoryInv, Tracked, (Where \in Rooms)', StepKind, ~panicked'
  PROVE  Tracked'
<1>1. CASE Stays
  BY <1>1 DEF Stays, Tracked, Accounted
<1>2. ASSUME NEW f \in Frame, Enters(f)
      PROVE  Tracked'
  <2>1. /\ f \notin ToSet(sent) /\ sent' = Append(sent, f)
        /\ UNCHANGED <<spawned, dropped, discarded>>
    BY <1>2 DEF Enters
  <2>2. <<"in", 0>> \in Places
    BY Singles
  <2>3. Puts(Where, Where', <<"in", 0>>, Append(Where[<<"in", 0>>], f))
    BY <1>2 DEF Puts, Enters, Elsewhere
  <2>4. f \in AnyFrame /\ f \notin Accounted
    BY <2>1, OrchestratorAssumption DEF AnyFrame, Accounted, HistoryInv
  <2>5. Accounted' = Accounted \cup {f}
    <3>1. ToSet(sent') = ToSet(sent) \cup {f}
      BY <2>1, AppendedFrame DEF HistoryInv
    <3> QED
      BY <2>1, <3>1 DEF Accounted
  <2>6. Conserved(Where', dropped, discarded, Accounted \cup {f})
    BY <2>2, <2>3, <2>4, PutsOne DEF Tracked
  <2> QED
    BY <2>1, <2>5, <2>6 DEF Tracked
<1>3. ASSUME NEW p \in Places, NEW q \in Places, MovesOn(p, q)
      PROVE  Tracked'
  <2>1. PICK f : f = Head(Where[p])
    OBVIOUS
  <2>2. Shifted(Where, Where', p, q, <<f>>) /\ UNCHANGED <<sent, spawned, dropped, discarded>>
    BY <1>3, <2>1 DEF MovesOn
  <2>3. IsDistinct(<<f>>) /\ ToSet(<<f>>) = {f}
    BY DEF IsDistinct, ToSet
  <2>4. Conserved(Where', dropped, discarded, (Accounted \ {f}) \cup {f}) /\ f \in Accounted
    BY <2>1, <2>2, <2>3, ShiftConserves DEF Tracked
  <2>5. (Accounted \ {f}) \cup {f} = Accounted /\ Accounted' = Accounted
    BY <2>2, <2>4 DEF Accounted
  <2> QED
    BY <2>2, <2>4, <2>5 DEF Tracked
<1>4. ASSUME NEW p \in Places, Vanishes(p)
      PROVE  Tracked'
  <2>1. PICK f : f = Head(Where[p])
    OBVIOUS
  <2>2. /\ Shifted(Where, Where', p, <<"delivered", 0>>, <<>>) /\ UNCHANGED <<sent, spawned>>
        /\ \/ dropped' = dropped \cup {f} /\ UNCHANGED discarded
           \/ discarded' = discarded \cup {f} /\ UNCHANGED dropped
    BY <1>4, <2>1 DEF Vanishes
  <2>3. IsDistinct(<<>>) /\ ToSet(<<>>) = {}
    BY DEF IsDistinct, ToSet
  <2>4. Conserved(Where', dropped, discarded, (Accounted \ {f}) \cup {}) /\ f \in Accounted
    BY <2>1, <2>2, <2>3, ShiftConserves DEF Tracked
  <2>5. (Accounted \ {f}) \cup {} = Accounted \ {f} /\ Accounted' = Accounted
    BY <2>2 DEF Accounted
  <2>6. /\ Conserved(Where', dropped \cup {f}, discarded, (Accounted \ {f}) \cup {f})
        /\ Conserved(Where', dropped, discarded \cup {f}, (Accounted \ {f}) \cup {f})
    BY <2>4, <2>5, Loses
  <2>7. (Accounted \ {f}) \cup {f} = Accounted
    BY <2>4
  <2> QED
    BY <2>2, <2>5, <2>6, <2>7 DEF Tracked
<1>5. ASSUME NEW p, NEW q, NEW r, NEW d, WorksOn(p, q, r, d)
      PROVE  Tracked'
  <2>1. Conserved(d, dropped', discarded', Accounted')
    BY <1>5, WorkConserves
  <2>2. CASE Where' = d
    BY <2>1, <2>2 DEF Tracked
  <2>3. CASE /\ p \in Places /\ q \in Places /\ p # q /\ d[p] = <<>>
             /\ Where'[p] = d[q] /\ Where'[q] = <<>> /\ Elsewhere(d, Where', p, q)
    BY <2>1, <2>3, Swaps DEF Tracked
  <2> QED
    BY <1>5, <2>2, <2>3 DEF WorksOn, Shifted
<1> QED
  BY <1>1, <1>2, <1>3, <1>4, <1>5 DEF StepKind

LEMMA ConservationStep ==
  ASSUME ConservationInv, [Next]_vars
  PROVE  ConservationInv'
<1>1. TypeOK' /\ HistoryInv' /\ LocalsInv' /\ ModesInv'
  BY NextType, HistoryStep, LocalsStep, ModesStep DEF ConservationInv
<1>2. ASSUME ~panicked'
      PROVE  Tracked'
  <2>1. ~panicked
    BY <1>2 DEF Next, vars
  <2>2. HistoryInv /\ Tracked /\ Settling /\ (Where \in Rooms)'
    BY <1>1, <2>1, WhereTypeNext DEF ConservationInv, LedgerInv, Settling, Tracked, Conserved
  <2> QED
    BY <1>2, <2>2, KindOfStep, TrackedStep
<1> QED
  BY <1>1, <1>2 DEF ConservationInv, LedgerInv

(* The ledger, read slot by slot.                                            *)
LEMMA LedgerConserves == TypeOK /\ HistoryInv /\ LedgerInv => Conservation
<1> SUFFICES ASSUME TypeOK, HistoryInv, LedgerInv, ~panicked
             PROVE  /\ \A x, y \in Slots : FrameIn(x) = FrameIn(y) => x = y
                    /\ dropped \cap discarded = {}
                    /\ Kept \cap (dropped \cup discarded) = {}
                    /\ Kept \cup dropped \cup discarded = ToSet(sent) \cup spawned
  BY DEF Conservation
<1>1. Conserved(Where, dropped, discarded, Accounted)
  BY DEF LedgerInv, Tracked
<1>2. \A p \in Places : Where[p] = Holds(p)
  BY DEF Where
<1>3. \A x \in Slots : /\ x[1] \in Places /\ x[2] \in DOMAIN Where[x[1]] /\ x = <<x[1], x[2]>>
                       /\ FrameIn(x) = Where[x[1]][x[2]] /\ FrameIn(x) \in ToSet(Where[x[1]])
  BY <1>2 DEF Slots, FrameIn, ToSet
<1>4. \A p \in Places : \A k \in DOMAIN Where[p] :
        <<p, k>> \in Slots /\ FrameIn(<<p, k>>) = Where[p][k]
  BY <1>2 DEF Slots, FrameIn
<1>5. ASSUME NEW x \in Slots, NEW y \in Slots, FrameIn(x) = FrameIn(y)
      PROVE  x = y
  <2>1. x[1] = y[1]
    BY <1>1, <1>3, <1>5 DEF Conserved
  <2>2. x[2] = y[2]
    BY <1>1, <1>3, <1>5, <2>1 DEF Conserved, IsDistinct
  <2> QED
    BY <1>3, <2>1, <2>2
<1>6. Kept = UNION {ToSet(Where[p]) : p \in Places}
  <2>1. ASSUME NEW f \in Kept
        PROVE  f \in UNION {ToSet(Where[p]) : p \in Places}
    BY <1>3 DEF Kept
  <2>2. ASSUME NEW p \in Places, NEW f \in ToSet(Where[p])
        PROVE  f \in Kept
    <3>1. PICK k \in DOMAIN Where[p] : f = Where[p][k]
      BY DEF ToSet
    <3> QED
      BY <1>4, <3>1 DEF Kept
  <2> QED
    BY <2>1, <2>2
<1> QED
  BY <1>1, <1>5, <1>6 DEF Conserved, Accounted

LEMMA ConservationInvariant == Spec => []ConservationInv
BY InitConserved, ConservationStep, PTL DEF Spec

(* No frame is lost without a trace or handled twice, in either mode, with   *)
(* any number of processors and any capacities, and a Stop at any moment: a  *)
(* frame that was accepted or created is in exactly one slot of one place,   *)
(* or has been counted as dropped, or was used up.                           *)
THEOREM EveryFrameIsAccountedFor == Spec => []Conservation
<1>1. ConservationInv => Conservation
  BY LedgerConserves DEF ConservationInv
<1> QED
  BY ConservationInvariant, <1>1, PTL

-----------------------------------------------------------------------------
(* Order.  g has overtaken f: it was accepted after f and is further on, or  *)
(* delivered before it.                                                      *)
Overtook(g, f) == Ahead(Where, g, f) /\ Channel!Before(f, g)

(* A frame is overtaken only by frames of the other class, and a control     *)
(* frame by one at most; none before it reaches a lane, and no control frame *)
(* that still waits in its lane while Pop is about to look at the other.     *)
OvertakingInv ==
  /\ \A f, g \in Frame : Overtook(g, f) => ~Channel!SameClass(f, g)
  /\ \A f \in ControlFrames : \A g, h \in Frame : Overtook(g, f) /\ Overtook(h, f) => g = h
  /\ \A f, g \in Frame : Overtook(g, f) => f \notin ToSet(in) \cup ToSet(Held(feeder))
  /\ popPc = "poll_low" => \A f \in ToSet(high), g \in Frame : ~Overtook(g, f)

LEMMA InitOvertaking == Init => OvertakingInv
<1> SUFFICES ASSUME Init
             PROVE  OvertakingInv
  OBVIOUS
<1>1. \A f, g : ~Channel!Before(f, g)
  BY DEF Init, Channel!Before
<1> QED
  BY <1>1 DEF OvertakingInv, Overtook

LEMMA BeforeSent ==
  ASSUME HistoryInv, NEW f, NEW g, Channel!Before(f, g)
  PROVE  f \in ToSet(sent)
<1>1. PICK j \in DOMAIN sent : \E i \in 1 .. j - 1 : sent[i] = f
  BY DEF Channel!Before
<1>2. PICK i \in 1 .. j - 1 : sent[i] = f
  BY <1>1
<1>3. DOMAIN sent = 1 .. Len(sent) /\ Len(sent) \in Nat
  BY LenProperties DEF HistoryInv
<1>4. i \in DOMAIN sent
  BY <1>3
<1> QED
  BY <1>2, <1>4 DEF ToSet

(* The frame that enters overtakes none, and none overtakes it.              *)
LEMMA EntersOvertakes ==
  ASSUME HistoryInv, Tracked, (Where \in Rooms)', NEW e \in Frame, Enters(e),
         NEW g \in Frame, NEW h \in Frame, Overtook(g, h)'
  PROVE  Overtook(g, h)
<1>1. /\ e \notin ToSet(sent) /\ sent' = Append(sent, e) /\ sent \in Seq(Frame)
      /\ Where \in Rooms /\ Where' \in Rooms
  BY DEF Enters, HistoryInv, Tracked, Conserved
<1>2. /\ Len(sent) \in Nat /\ DOMAIN sent = 1 .. Len(sent) /\ DOMAIN sent' = 1 .. Len(sent) + 1
      /\ \A i \in 1 .. Len(sent) : sent'[i] = sent[i]
      /\ sent'[Len(sent) + 1] = e
  BY <1>1, AppendProperties, LenProperties
<1>3. PICK k \in Places : k = <<"in", 0>>
  BY Singles
<1>4. /\ Where'[k] = Append(Where[k], e) /\ \A t \in Places : t # k => Where'[t] = Where[t]
      /\ Where[k] \in Seq(AnyFrame) /\ e \in AnyFrame
  BY <1>1, <1>3 DEF Enters, Elsewhere, Rooms, AnyFrame
<1>5. /\ Len(Where[k]) \in Nat /\ DOMAIN Where[k] = 1 .. Len(Where[k])
      /\ DOMAIN Where'[k] = 1 .. Len(Where[k]) + 1
      /\ \A i \in 1 .. Len(Where[k]) : Where'[k][i] = Where[k][i]
      /\ Where'[k][Len(Where[k]) + 1] = e
  BY <1>4, AppendProperties, LenProperties
<1>6. ASSUME NEW t \in Places, NEW i \in DOMAIN Where'[t]
      PROVE  \/ t = k /\ i = Len(Where[k]) + 1 /\ Where'[t][i] = e
             \/ i \in DOMAIN Where[t] /\ Where'[t][i] = Where[t][i]
  BY <1>4, <1>5
<1>7. \A t \in Places : \A i \in DOMAIN Where[t] : Where[t][i] # e
  <2>1. e \notin Accounted
    BY <1>1, OrchestratorAssumption DEF Accounted, HistoryInv
  <2> QED
    BY <2>1 DEF Tracked, Conserved, ToSet
<1>8. PICK n \in DOMAIN sent' : \E m \in 1 .. n - 1 : sent'[m] = h /\ sent'[n] = g
  BY DEF Overtook, Channel!Before
<1>9. PICK m \in 1 .. n - 1 : sent'[m] = h /\ sent'[n] = g
  BY <1>8
<1>10. m \in 1 .. Len(sent) /\ n \in 1 .. Len(sent) + 1 /\ m < n
  BY <1>2
<1>11. h # e /\ sent[m] = h
  BY <1>1, <1>2, <1>9, <1>10 DEF ToSet
<1>12. PICK s \in Places, t \in Places :
         \E i \in DOMAIN Where'[s], j \in DOMAIN Where'[t] :
           Where'[s][i] = g /\ Where'[t][j] = h /\ (Rank(s) < Rank(t) \/ (s = t /\ i < j))
  BY DEF Overtook, Ahead
<1>13. PICK i \in DOMAIN Where'[s], j \in DOMAIN Where'[t] :
         Where'[s][i] = g /\ Where'[t][j] = h /\ (Rank(s) < Rank(t) \/ (s = t /\ i < j))
  BY <1>12
<1>14. j \in DOMAIN Where[t] /\ Where[t][j] = h
  BY <1>6, <1>11, <1>13
<1>15. ~(s = k /\ i = Len(Where[k]) + 1)
  <2> SUFFICES ASSUME s = k, i = Len(Where[k]) + 1
               PROVE  FALSE
    OBVIOUS
  <2>1. ~(Rank(k) < Rank(t))
    <3>1. Rank(k) = 11 + 3 * NProcs /\ Rank(t) <= 11 + 3 * NProcs /\ Rank(t) \in Nat
      BY <1>3, RankIs, RankTells, RankType
    <3> QED
      BY <3>1, OrchestratorAssumption
  <2>2. t = k /\ Len(Where[k]) + 1 < j
    BY <1>13, <2>1
  <2> QED
    BY <1>5, <1>14, <2>2
<1>16. i \in DOMAIN Where[s] /\ Where[s][i] = g
  BY <1>6, <1>13, <1>15
<1>17. Ahead(Where, g, h)
  BY <1>13, <1>14, <1>16 DEF Ahead
<1>18. n \in DOMAIN sent /\ sent[n] = g
  <2>1. n # Len(sent) + 1
    BY <1>2, <1>7, <1>9, <1>16
  <2> QED
    BY <1>2, <1>9, <1>10, <2>1
<1>19. Channel!Before(h, g)
  BY <1>9, <1>11, <1>18 DEF Channel!Before
<1> QED
  BY <1>17, <1>19 DEF Overtook

(* What Pop lets pass: a waiting control frame passes the other lane; one    *)
(* other frame passes the high lane, which was empty when Pop looked.        *)
Vaults(g, h) ==
  \/ g \in ToSet(high) /\ h \in ToSet(low)
  \/ low # <<>> /\ g = Head(low) /\ h \in ToSet(high) /\ popPc = "poll_low" /\ popPc' = "idle"

LEMMA PassingVaults ==
  ASSUME NEW p \in Places, NEW q \in Places, NEW t \in Places, Where[p] # <<>>, Where[p] \in Seq(AnyFrame),
         Passing(p, q), t # p, Rank(q) < Rank(t), Rank(t) <= Rank(p), NEW h \in ToSet(Where[t])
  PROVE  Vaults(Head(Where[p]), h)
<1>1. Where[t] # <<>>
  BY DEF ToSet
<1>2. \/ p = <<"high", 0>> /\ t = <<"low", 0>>
      \/ p = <<"low", 0>> /\ t = <<"high", 0>> /\ popPc = "poll_low" /\ popPc' = "idle"
  BY <1>1 DEF Passing
<1>3. Head(Where[p]) \in ToSet(Where[p])
  <2>1. 1 \in DOMAIN Where[p] /\ Where[p][1] = Head(Where[p])
    BY LenProperties, EmptySeq
  <2> QED
    BY <2>1 DEF ToSet
<1> QED
  BY <1>2, <1>3, WhereIs DEF Vaults

(* The swap at the end of a round of the sync pipeline keeps the order.      *)
LEMMA SwapAhead ==
  ASSUME NEW c, NEW d, NEW p \in Places, NEW q \in Places, p = <<"todo", 0>>, q = <<"next", 0>>,
         c[p] = <<>>, d[p] = c[q], d[q] = <<>>, Elsewhere(c, d, p, q),
         NEW g, NEW h, Ahead(d, g, h)
  PROVE  Ahead(c, g, h)
<1>1. Rank(p) = 4 /\ Rank(q) = 3 /\ p # q
  BY RankIs
<1>2. \A t \in Places : Rank(t) \in Nat /\ (Rank(t) = 4 => t = p) /\ (Rank(t) = 3 => t = q)
  BY RankType, RankTells
<1>3. PICK s \in Places, t \in Places :
        \E i \in DOMAIN d[s], j \in DOMAIN d[t] :
          d[s][i] = g /\ d[t][j] = h /\ (Rank(s) < Rank(t) \/ (s = t /\ i < j))
  BY DEF Ahead
<1>4. PICK i \in DOMAIN d[s], j \in DOMAIN d[t] :
        d[s][i] = g /\ d[t][j] = h /\ (Rank(s) < Rank(t) \/ (s = t /\ i < j))
  BY <1>3
<1>5. s # q /\ t # q
  BY <1>4
<1>6. PICK u \in Places, v \in Places : u = (IF s = p THEN q ELSE s) /\ v = (IF t = p THEN q ELSE t)
  OBVIOUS
<1>7. c[u] = d[s] /\ c[v] = d[t]
  BY <1>5, <1>6 DEF Elsewhere
<1>8. Rank(u) < Rank(v) \/ (u = v /\ i < j)
  <2>1. CASE s = p /\ t = p
    BY <1>1, <1>4, <1>6, <2>1
  <2>2. CASE s = p /\ t # p
    BY <1>1, <1>2, <1>4, <1>6, <2>2
  <2>3. CASE s # p /\ t = p
    <3>1. Rank(s) < 4 /\ Rank(s) # 3
      BY <1>1, <1>2, <1>4, <1>5, <2>3
    <3> QED
      BY <1>1, <1>2, <1>6, <2>3, <3>1
  <2>4. CASE s # p /\ t # p
    BY <1>4, <1>6, <2>4
  <2> QED
    BY <2>1, <2>2, <2>3, <2>4
<1> QED
  BY <1>4, <1>7, <1>8 DEF Ahead

LEMMA OvertookStep ==
  ASSUME HistoryInv, Tracked, (Where \in Rooms)', StepKind,
         NEW g \in Frame, NEW h \in Frame, Overtook(g, h)'
  PROVE  Channel!Before(h, g) /\ (Overtook(g, h) \/ Vaults(g, h))
<1>1. CASE Stays
  BY <1>1 DEF Stays, Overtook, Channel!Before
<1>2. ASSUME NEW f \in Frame, Enters(f)
      PROVE  Overtook(g, h)
  BY <1>2, EntersOvertakes
<1>3. ASSUME NEW p \in Places, NEW q \in Places, NEW r, NEW d, Shifted(Where, d, p, q, r),
             Rank(q) < Rank(p), r = <<>> \/ Passing(p, q),
             IsDistinct(r), ToSet(r) \cap Frame \subseteq {Head(Where[p])},
             Ahead(d, g, h), sent' = sent
      PROVE  Channel!Before(h, g) /\ (Overtook(g, h) \/ Vaults(g, h))
  <2>1. Channel!Before(h, g)
    BY <1>3 DEF Overtook, Channel!Before
  <2>2. \/ Ahead(Where, g, h)
        \/ /\ g = Head(Where[p]) /\ g \in ToSet(r)
           /\ \E t \in Places : t # p /\ Rank(q) < Rank(t) /\ Rank(t) <= Rank(p) /\ h \in ToSet(Where[t])
    BY <1>3, AheadStep
  <2>3. CASE Ahead(Where, g, h)
    BY <2>1, <2>3 DEF Overtook
  <2>4. CASE /\ g = Head(Where[p]) /\ g \in ToSet(r)
             /\ \E t \in Places : t # p /\ Rank(q) < Rank(t) /\ Rank(t) <= Rank(p) /\ h \in ToSet(Where[t])
    <3>1. r # <<>>
      BY <2>4 DEF ToSet
    <3>2. PICK t \in Places : t # p /\ Rank(q) < Rank(t) /\ Rank(t) <= Rank(p) /\ h \in ToSet(Where[t])
      BY <2>4
    <3>3. Where[p] # <<>> /\ Where[p] \in Seq(AnyFrame)
      BY <1>3 DEF Shifted, Rooms
    <3> QED
      BY <1>3, <2>1, <2>4, <3>1, <3>2, <3>3, PassingVaults
  <2> QED
    BY <2>2, <2>3, <2>4
<1>4. ASSUME NEW p \in Places, NEW q \in Places, MovesOn(p, q)
      PROVE  Channel!Before(h, g) /\ (Overtook(g, h) \/ Vaults(g, h))
  <2>1. PICK r : r = <<Head(Where[p])>>
    OBVIOUS
  <2>2. IsDistinct(r) /\ ToSet(r) = {Head(Where[p])}
    BY <2>1 DEF IsDistinct, ToSet
  <2>3. Ahead(Where', g, h)
    BY DEF Overtook
  <2> QED
    BY <1>3, <1>4, <2>1, <2>2, <2>3 DEF MovesOn
<1>5. ASSUME NEW p \in Places, Vanishes(p)
      PROVE  Channel!Before(h, g) /\ (Overtook(g, h) \/ Vaults(g, h))
  <2>1. PICK q \in Places : q = <<"delivered", 0>>
    BY Singles
  <2>2. Rank(q) < Rank(p)
    <3>1. Rank(q) = 0 /\ Rank(p) \in Nat /\ Rank(p) # 0
      BY <1>5, <2>1, RankIs, RankType, RankTells DEF Vanishes
    <3> QED
      BY <3>1
  <2>3. IsDistinct(<<>>) /\ ToSet(<<>>) = {}
    BY DEF IsDistinct, ToSet
  <2>4. Ahead(Where', g, h)
    BY DEF Overtook
  <2> QED
    BY <1>3, <1>5, <2>1, <2>2, <2>3, <2>4 DEF Vanishes
<1>6. ASSUME NEW p \in Places, NEW q \in Places, NEW r, NEW d, WorksOn(p, q, r, d)
      PROVE  Channel!Before(h, g) /\ (Overtook(g, h) \/ Vaults(g, h))
  <2>1. IsDistinct(r) /\ ToSet(r) \cap Frame \subseteq {Head(Where[p])}
    BY <1>6, WorkConserves
  <2>2. Ahead(Where', g, h)
    BY DEF Overtook
  <2>3. Ahead(d, g, h)
    <3>1. CASE Where' = d
      BY <2>2, <3>1
    <3>2. CASE /\ p = <<"todo", 0>> /\ q = <<"next", 0>>
               /\ d[p] = <<>> /\ Where'[p] = d[q] /\ Where'[q] = <<>> /\ Elsewhere(d, Where', p, q)
      BY <2>2, <3>2, SwapAhead
    <3> QED
      BY <1>6, <3>1, <3>2 DEF WorksOn
  <2>4. sent' = sent
    BY <1>6 DEF WorksOn, Processed
  <2> QED
    BY <1>3, <1>6, <2>1, <2>3, <2>4 DEF WorksOn
<1>7. Overtook(g, h) => Channel!Before(h, g)
  BY DEF Overtook
<1> QED
  BY <1>1, <1>2, <1>4, <1>5, <1>6, <1>7 DEF StepKind

LEMMA TailFrames ==
  ASSUME NEW S, NEW s \in Seq(S), s # <<>>
  PROVE  Head(s) \in ToSet(s) /\ ToSet(Tail(s)) \subseteq ToSet(s)
<1>1. /\ Head(s) = s[1] /\ Len(Tail(s)) = Len(s) - 1 /\ Tail(s) \in Seq(S)
      /\ \A j \in 1 .. Len(Tail(s)) : Tail(s)[j] = s[j + 1]
  BY HeadTailProperties
<1>2. /\ Len(s) \in Nat /\ Len(s) >= 1 /\ DOMAIN s = 1 .. Len(s)
      /\ DOMAIN Tail(s) = 1 .. Len(s) - 1
  BY <1>1, LenProperties, EmptySeq
<1>3. \A j \in DOMAIN Tail(s) : j + 1 \in DOMAIN s /\ Tail(s)[j] = s[j + 1]
  BY <1>1, <1>2
<1> QED
  BY <1>1, <1>2, <1>3 DEF ToSet

(* Frames come to the feeder from outside, to the high lane from the feeder. *)
LEMMA Upstream ==
  ASSUME TypeOK, HistoryInv, [Next]_vars
  PROVE  /\ \A f \in ToSet(in') \cup ToSet(Held(feeder')) :
              f \in ToSet(in) \cup ToSet(Held(feeder)) \/ f \notin ToSet(sent)
         /\ ToSet(high') \subseteq ToSet(high) \cup ToSet(Held(feeder))
         /\ popPc' = "poll_low" => popPc = "poll_low" \/ high' = <<>>
<1> USE DEF TypeOK, PQTypeOK
<1>0. ToSet(<<>>) = {} /\ Held(NoFrame) = <<>>
  BY DEF ToSet, Held
<1>1. CASE \E f \in Frame : Submit(f)
  <2>1. PICK f \in Frame : f \notin ToSet(sent) /\ in' = Append(in, f) /\ UNCHANGED <<feeder, pqVars>>
    BY <1>1 DEF Submit
  <2>2. ToSet(in') = ToSet(in) \cup {f}
    BY <2>1, AppendedFrame
  <2> QED
    BY <2>1, <2>2 DEF pqVars
<1>2. CASE FeederReceive
  <2>1. in # <<>> /\ in' = Tail(in) /\ feeder' = Head(in) /\ UNCHANGED <<high, popPc>>
    BY <1>2 DEF FeederReceive, pqVars
  <2>2. Head(in) \in ToSet(in) /\ ToSet(Tail(in)) \subseteq ToSet(in)
    BY <2>1, TailFrames
  <2>3. ToSet(Held(feeder')) \subseteq {Head(in)}
    BY <2>1 DEF Held, ToSet
  <2> QED
    BY <2>1, <2>2, <2>3
<1>3. CASE FeederPush
  <2>1. /\ feeder # NoFrame /\ feeder' = NoFrame /\ in' = in /\ popPc' = popPc
        /\ high' = high \/ (feeder \in ControlFrames /\ high' = Append(high, feeder))
    BY <1>3 DEF FeederPush, TryPushHigh, TryPushLow
  <2>2. feeder \in ToSet(Held(feeder))
    BY <2>1 DEF Held, ToSet
  <2>3. CASE high' = high
    BY <1>0, <2>1, <2>3
  <2>4. CASE feeder \in ControlFrames /\ high' = Append(high, feeder)
    <3>1. ToSet(high') = ToSet(high) \cup {feeder}
      BY <2>4, AppendedFrame
    <3> QED
      BY <1>0, <2>1, <2>2, <3>1
  <2> QED
    BY <2>1, <2>3, <2>4
<1>4. CASE PopperPoll
  <2>1. /\ UNCHANGED <<in, feeder>>
        /\ high' = high \/ (high # <<>> /\ high' = Tail(high))
        /\ popPc' = "poll_low" => high' = <<>>
    BY <1>4 DEF PopperPoll, PollHigh, PollLow, orchVars
  <2>2. high # <<>> => ToSet(Tail(high)) \subseteq ToSet(high)
    BY TailFrames
  <2> QED
    BY <2>1, <2>2
<1>5. CASE UNCHANGED <<in, feeder, high>> /\ (popPc' = popPc \/ popPc' = "poll_high")
  BY <1>5
<1>6. \/ \E f \in Frame : Submit(f)
      \/ Feeder \/ PopperPoll
      \/ UNCHANGED <<in, feeder, high>> /\ (popPc' = popPc \/ popPc' = "poll_high")
  BY DEF Next, vars, pqVars, orchVars, Popper, PopperCall, PopperExit, PopperDropStale, PopperTake,
     CallPop, UsePopped, SyncProcess, SyncEmit, StagePush, StageReceive, StageProcess, Final,
     FinalReceive, FinalEmit, ReadOut, StopCancel, StopClose
<1> QED
  BY <1>1, <1>2, <1>3, <1>4, <1>5, <1>6 DEF Feeder

LEMMA OvertakingStep ==
  ASSUME Settling, Tracked, (Where \in Rooms)', TypeOK', StepKind, [Next]_vars, OvertakingInv
  PROVE  OvertakingInv'
<1>1. ASSUME NEW f \in Frame, NEW g \in Frame, Overtook(g, f)'
      PROVE  Channel!Before(f, g) /\ (Overtook(g, f) \/ Vaults(g, f))
  BY <1>1, OvertookStep DEF Settling
<1>2. /\ ToSet(high) \subseteq ControlFrames /\ ToSet(low) \subseteq OtherFrames
      /\ ToSet(high') \subseteq ControlFrames
      /\ ControlFrames \cap OtherFrames = {} /\ ControlFrames \subseteq Frame
  <2>1. /\ high \in Seq(ControlFrames) /\ low \in Seq(OtherFrames) /\ high' \in Seq(ControlFrames)
    BY DEF Settling, TypeOK, PQTypeOK
  <2> QED
    BY <2>1, QueueAssumption DEF ToSet, Frame
<1>3. ASSUME NEW f \in Frame, NEW g \in Frame, Vaults(g, f)
      PROVE  /\ ~Channel!SameClass(f, g)
             /\ f \in ControlFrames => /\ g = Head(low) /\ f \in ToSet(high)
                                       /\ popPc = "poll_low" /\ popPc' = "idle"
             /\ f \in ToSet(high) \cup ToSet(low)
  <2>1. low # <<>> => Head(low) \in ToSet(low)
    BY TailFrames DEF Settling, TypeOK, PQTypeOK
  <2> QED
    BY <1>2, <1>3, <2>1 DEF Vaults, Channel!SameClass
<1>4. ASSUME NEW f \in Frame, NEW g \in Frame, Overtook(g, f)'
      PROVE  (~Channel!SameClass(f, g))'
  <2>1. ~Channel!SameClass(f, g)
    BY <1>1, <1>3, <1>4 DEF OvertakingInv
  <2> QED
    BY <2>1 DEF Channel!SameClass
<1>5. ASSUME NEW f \in ControlFrames, NEW g \in Frame, NEW h \in Frame, Overtook(g, f)', Overtook(h, f)'
      PROVE  g = h
  <2>1. f \in Frame
    BY <1>2
  <2>2. (Overtook(g, f) \/ Vaults(g, f)) /\ (Overtook(h, f) \/ Vaults(h, f))
    BY <1>1, <1>5, <2>1
  <2>3. CASE Overtook(g, f) /\ Overtook(h, f)
    BY <2>3 DEF OvertakingInv
  <2>4. CASE Vaults(g, f) \/ Vaults(h, f)
    <3>1. popPc = "poll_low" /\ f \in ToSet(high)
      BY <1>3, <2>1, <2>4
    <3>2. ~Overtook(g, f) /\ ~Overtook(h, f)
      BY <3>1 DEF OvertakingInv
    <3> QED
      BY <1>3, <2>1, <2>2, <3>2
  <2> QED
    BY <2>2, <2>3, <2>4
<1>6. ASSUME NEW f \in Frame, NEW g \in Frame, Overtook(g, f)'
      PROVE  f \notin ToSet(in') \cup ToSet(Held(feeder'))
  <2> SUFFICES ASSUME f \in ToSet(in') \cup ToSet(Held(feeder'))
               PROVE  FALSE
    OBVIOUS
  <2>1. Channel!Before(f, g) /\ (Overtook(g, f) \/ Vaults(g, f))
    BY <1>1, <1>6
  <2>2. f \in ToSet(sent)
    BY <2>1, BeforeSent DEF Settling
  <2>3. f \in ToSet(in) \cup ToSet(Held(feeder))
    BY <2>2, Upstream DEF Settling
  <2>4. Vaults(g, f)
    BY <2>1, <2>3 DEF OvertakingInv
  <2>5. f \in ToSet(high) \cup ToSet(low)
    BY <1>3, <2>4
  <2>6. PICK s \in {<<"in", 0>>, <<"feeder", 0>>}, t \in {<<"high", 0>>, <<"low", 0>>} :
          f \in ToSet(Where[s]) /\ f \in ToSet(Where[t])
    BY <2>3, <2>5, WhereIs
  <2>7. s \in Places /\ t \in Places /\ s # t
    BY Singles
  <2> QED
    BY <2>6, <2>7 DEF Tracked, Conserved
<1>7. ASSUME popPc' = "poll_low", NEW f \in ToSet(high'), NEW g \in Frame, Overtook(g, f)'
      PROVE  FALSE
  <2>1. f \in ControlFrames /\ f \in Frame /\ high' # <<>>
    BY <1>2 DEF ToSet
  <2>2. popPc = "poll_low" /\ f \in ToSet(high) \cup ToSet(Held(feeder))
    BY <1>7, <2>1, Upstream DEF Settling
  <2>3. Overtook(g, f) \/ Vaults(g, f)
    BY <1>1, <1>7, <2>1
  <2>4. ~Vaults(g, f)
    BY <1>3, <1>7, <2>1
  <2> QED
    BY <2>1, <2>2, <2>3, <2>4 DEF OvertakingInv
<1> QED
  BY <1>4, <1>5, <1>6, <1>7 DEF OvertakingInv

(* The channel.  Its pending frames are those in a place before delivered.   *)
Underway(c) == UNION {ToSet(c[t]) : t \in Places \ {<<"delivered", 0>>}}

LEMMA InFlightIs == InFlight = Underway(Where)
<1>1. \A p \in Places : Where[p] = Holds(p)
  BY DEF Where
<1>2. ASSUME NEW f \in InFlight
      PROVE  f \in Underway(Where)
  <2>1. PICK x \in Slots : x[1] # <<"delivered", 0>> /\ f = FrameIn(x)
    BY <1>2 DEF InFlight
  <2>2. x[1] \in Places /\ x[2] \in DOMAIN Where[x[1]] /\ f = Where[x[1]][x[2]]
    BY <1>1, <2>1 DEF Slots, FrameIn
  <2> QED
    BY <2>1, <2>2 DEF Underway, ToSet
<1>3. ASSUME NEW f \in Underway(Where)
      PROVE  f \in InFlight
  <2>1. PICK t \in Places : t # <<"delivered", 0>> /\ f \in ToSet(Where[t])
    BY <1>3 DEF Underway
  <2>2. PICK k \in DOMAIN Where[t] : f = Where[t][k]
    BY <2>1 DEF ToSet
  <2>3. PICK x : x = <<t, k>>
    OBVIOUS
  <2>4. x \in Slots /\ x[1] # <<"delivered", 0>> /\ FrameIn(x) = f
    BY <1>1, <2>1, <2>2, <2>3 DEF Slots, FrameIn
  <2> QED
    BY <2>4 DEF InFlight
<1> QED
  BY <1>2, <1>3

LEMMA InFlightNext == InFlight' = Underway(Where')
<1>1. TRUE => InFlight = Underway(Where)
  BY InFlightIs
<1>2. (InFlight = Underway(Where))'
  BY <1>1, PTL
<1> QED
  BY <1>2 DEF Underway

LEMMA ConcatFrames ==
  ASSUME NEW S, NEW s \in Seq(S), NEW r \in Seq(S)
  PROVE  ToSet(s \o r) = ToSet(s) \cup ToSet(r)
<1>1. /\ s \o r \in Seq(S) /\ Len(s \o r) = Len(s) + Len(r)
      /\ \A i \in 1 .. Len(s) + Len(r) : (s \o r)[i] = IF i <= Len(s) THEN s[i] ELSE r[i - Len(s)]
  BY ConcatProperties
<1>2. /\ Len(s) \in Nat /\ Len(r) \in Nat /\ DOMAIN s = 1 .. Len(s) /\ DOMAIN r = 1 .. Len(r)
      /\ DOMAIN (s \o r) = 1 .. Len(s) + Len(r)
  BY <1>1, LenProperties
<1>3. \A i \in DOMAIN (s \o r) : \/ i \in DOMAIN s /\ (s \o r)[i] = s[i]
                                 \/ i - Len(s) \in DOMAIN r /\ (s \o r)[i] = r[i - Len(s)]
  BY <1>1, <1>2
<1>4. \A i \in DOMAIN s : i \in DOMAIN (s \o r) /\ (s \o r)[i] = s[i]
  BY <1>1, <1>2
<1>5. \A i \in DOMAIN r : i + Len(s) \in DOMAIN (s \o r) /\ (s \o r)[i + Len(s)] = r[i]
  BY <1>1, <1>2
<1>6. ASSUME NEW f \in ToSet(s \o r)
      PROVE  f \in ToSet(s) \cup ToSet(r)
  <2>1. PICK i \in DOMAIN (s \o r) : f = (s \o r)[i]
    BY <1>6 DEF ToSet
  <2> QED
    BY <1>3, <2>1 DEF ToSet
<1>7. ASSUME NEW f \in ToSet(s)
      PROVE  f \in ToSet(s \o r)
  <2>1. PICK i \in DOMAIN s : f = s[i]
    BY <1>7 DEF ToSet
  <2> QED
    BY <1>4, <2>1 DEF ToSet
<1>8. ASSUME NEW f \in ToSet(r)
      PROVE  f \in ToSet(s \o r)
  <2>1. PICK i \in DOMAIN r : f = r[i]
    BY <1>8 DEF ToSet
  <2> QED
    BY <1>5, <2>1 DEF ToSet
<1> QED
  BY <1>6, <1>7, <1>8

(* What a step takes from the pending frames, and adds to them.              *)
LEMMA ShiftUnderway ==
  ASSUME NEW c, NEW d, NEW x, NEW y, NEW a, Conserved(c, x, y, a),
         NEW p, NEW q, NEW r, Shifted(c, d, p, q, r), p # <<"delivered", 0>>
  PROVE  /\ q # <<"delivered", 0>> => Underway(d) = (Underway(c) \ {Head(c[p])}) \cup ToSet(r)
         /\ q = <<"delivered", 0>> => Underway(d) = Underway(c) \ {Head(c[p])}
         /\ Head(c[p]) \in Underway(c) /\ Head(c[p]) \in AnyFrame
         /\ \A t \in Places : t # p => Head(c[p]) \notin ToSet(c[t])
<1>1. /\ c \in Rooms /\ p \in Places /\ q \in Places /\ p # q /\ c[p] # <<>> /\ r \in Seq(AnyFrame)
      /\ d[p] = Tail(c[p]) /\ d[q] = c[q] \o r
      /\ \A t \in Places : t # p /\ t # q => d[t] = c[t]
  BY DEF Shifted, Elsewhere
<1>2. c[p] \in Seq(AnyFrame) /\ c[q] \in Seq(AnyFrame) /\ IsDistinct(c[p])
  BY <1>1 DEF Rooms, Conserved
<1>3. PICK f : f = Head(c[p])
  OBVIOUS
<1>4. f \in ToSet(c[p]) /\ f \in AnyFrame /\ ToSet(d[p]) = ToSet(c[p]) \ {f}
  BY <1>1, <1>2, <1>3, DistinctTail
<1>5. \A t \in Places : t # p => f \notin ToSet(c[t])
  BY <1>1, <1>4 DEF Conserved
<1>6. ToSet(d[q]) = ToSet(c[q]) \cup ToSet(r)
  BY <1>1, <1>2, ConcatFrames
<1>7. \A t \in Places : t # q => ToSet(d[t]) = ToSet(c[t]) \ {f}
  BY <1>1, <1>4, <1>5
<1>8. ToSet(d[q]) = (ToSet(c[q]) \ {f}) \cup ToSet(r)
  BY <1>1, <1>5, <1>6
<1>9. ASSUME NEW g
      PROVE  /\ q # <<"delivered", 0>> =>
                  ((g \in Underway(d)) <=> (g \in (Underway(c) \ {f}) \cup ToSet(r)))
             /\ q = <<"delivered", 0>> => ((g \in Underway(d)) <=> (g \in Underway(c) \ {f}))
  <2>1. PICK z : z = <<"delivered", 0>>
    OBVIOUS
  <2>2. CASE q = z
    <3>1. \A t \in Places : t # z => ((g \in ToSet(d[t])) <=> (g \in ToSet(c[t]) /\ g # f))
      BY <1>7, <2>2
    <3>2. (\E t \in Places : t # z /\ g \in ToSet(d[t]))
          <=> (g # f /\ \E t \in Places : t # z /\ g \in ToSet(c[t]))
      BY <3>1
    <3>3. (g \in Underway(d)) <=> (g \in Underway(c) \ {f})
      BY <2>1, <3>2 DEF Underway
    <3> QED
      BY <2>1, <2>2, <3>3
  <2>3. CASE q # z
    <3>1. \A t \in Places : t # z /\ t # q => ((g \in ToSet(d[t])) <=> (g \in ToSet(c[t]) /\ g # f))
      BY <1>7
    <3>2. (g \in ToSet(d[q])) <=> ((g \in ToSet(c[q]) /\ g # f) \/ g \in ToSet(r))
      BY <1>8
    <3>3. (\E t \in Places : t # z /\ g \in ToSet(d[t]))
          <=> ((g # f /\ \E t \in Places : t # z /\ g \in ToSet(c[t])) \/ g \in ToSet(r))
      BY <1>1, <2>3, <3>1, <3>2
    <3>4. (g \in Underway(d)) <=> (g \in (Underway(c) \ {f}) \cup ToSet(r))
      BY <2>1, <3>3 DEF Underway
    <3> QED
      BY <2>1, <2>3, <3>4
  <2> QED
    BY <2>2, <2>3
<1>10. f \in Underway(c)
  BY <1>1, <1>4 DEF Underway
<1> QED
  BY <1>3, <1>4, <1>5, <1>9, <1>10

(* The same, for a shift of the places themselves that delivers nothing.     *)
LEMMA ShiftKeeps ==
  ASSUME NEW d, Tracked, NEW p, NEW q, NEW r, Shifted(Where, d, p, q, r),
         p # <<"delivered", 0>>, q # <<"delivered", 0>>
  PROVE  /\ Underway(d) = (Underway(Where) \ {Head(Where[p])}) \cup ToSet(r)
         /\ Head(Where[p]) \in Underway(Where)
<1>1. PICK c : c = Where
  OBVIOUS
<1>2. Conserved(c, dropped, discarded, Accounted) /\ Shifted(c, d, p, q, r)
  BY <1>1 DEF Tracked
<1>3. q # <<"delivered", 0>> => Underway(d) = (Underway(c) \ {Head(c[p])}) \cup ToSet(r)
  BY <1>2, ShiftUnderway
<1>4. Head(c[p]) \in Underway(c)
  BY <1>2, ShiftUnderway
<1> QED
  BY <1>1, <1>3, <1>4

(* A frame that arrives is one more delivered, and has overtaken only what   *)
(* the order allows.                                                         *)
LEMMA ArrivalDelivers ==
  ASSUME Settling, Tracked, OvertakingInv', NEW p \in Places, NEW q \in Places,
         MovesOn(p, q), q = <<"delivered", 0>>
  PROVE  Channel!ChannelNext
<1>1. PICK e : e = Head(Where[p])
  OBVIOUS
<1>2. /\ Shifted(Where, Where', p, q, <<e>>) /\ p # q /\ UNCHANGED sent
      /\ Where[q] = delivered /\ Where'[q] = delivered'
  BY <1>1, WhereIs, WhereIsNext DEF MovesOn, Shifted
<1>3. /\ Underway(Where') = Underway(Where) \ {e} /\ e \in Underway(Where) /\ e \in AnyFrame
      /\ e \notin ToSet(delivered)
  BY <1>1, <1>2, ShiftUnderway DEF Tracked
<1>4. delivered \in Seq(AnyFrame) /\ delivered' = Append(delivered, e)
  <2>1. delivered \in Seq(AnyFrame)
    BY DEF Settling, HistoryInv
  <2>2. delivered' = delivered \o <<e>>
    BY <1>2 DEF Shifted
  <2> QED
    BY <1>3, <2>1, <2>2, AppendIsConcat
<1>5. ToSet(delivered') = ToSet(delivered) \cup {e}
  BY <1>3, <1>4, AppendedFrame
<1>6. (InFlight \cap Frame)' = (InFlight \cap Frame) \ {e}
  BY <1>3, InFlightIs, InFlightNext
<1>7. CASE e \in Spare
  <2>1. e \notin Frame
    BY <1>7, OrchestratorAssumption
  <2>2. (InFlight \cap Frame)' = InFlight \cap Frame
    BY <1>6, <2>1
  <2>3. Channel!DeliverNew(e)
    BY <1>2, <1>3, <1>4, <2>2 DEF Channel!DeliverNew, Channel!ToSet, ToSet
  <2> QED
    BY <1>7, <2>3 DEF Channel!ChannelNext
<1>8. CASE e \in Frame
  <2>1. ASSUME NEW f \in ToSet(delivered') \cap Frame, NEW g \in (InFlight \cap Frame)', Channel!Before(g, f)
        PROVE  Overtook(f, g)'
    <3>1. PICK t \in Places : t # q /\ g \in ToSet(Where'[t])
      BY InFlightNext DEF Underway
    <3>2. Rank(q) = 0 /\ Rank(t) # 0 /\ Rank(t) \in Nat
      BY <3>1, RankIs, RankTells, RankType
    <3>3. Rank(q) < Rank(t)
      BY <3>2
    <3>4. PICK j \in DOMAIN Where'[t] : Where'[t][j] = g
      BY <3>1 DEF ToSet
    <3>5. PICK i \in DOMAIN Where'[q] : Where'[q][i] = f
      BY <1>2, <2>1 DEF ToSet
    <3>6. Ahead(Where', f, g)
      BY <3>3, <3>4, <3>5 DEF Ahead
    <3>7. Channel!Before(g, f)'
      BY <1>2, <2>1 DEF Channel!Before
    <3> QED
      BY <3>6, <3>7 DEF Overtook
  <2>2. e \in ToSet(delivered') \cap Frame
    BY <1>5, <1>8
  <2>3. ASSUME NEW g \in (InFlight \cap Frame)', Channel!Before(g, e)
        PROVE  ~Channel!SameClass(e, g)
    <3>1. Overtook(e, g)' /\ g \in Frame
      BY <2>1, <2>2, <2>3
    <3> QED
      BY <1>8, <3>1 DEF OvertakingInv, Channel!SameClass
  <2>4. ASSUME NEW c \in (InFlight \cap Frame)' \cap ControlFrames, Channel!Before(c, e), Channel!Overtaken(c)
        PROVE  FALSE
    <3>1. PICK f \in ToSet(delivered) \cap OtherFrames : Channel!Before(c, f)
      BY <2>4 DEF Channel!Overtaken, Channel!ToSet, ToSet
    <3>2. f \in ToSet(delivered') \cap Frame
      BY <1>5, <3>1 DEF Frame
    <3>3. Overtook(f, c)' /\ Overtook(e, c)'
      BY <2>1, <2>2, <2>4, <3>1, <3>2
    <3>4. f = e
      BY <1>8, <2>4, <3>2, <3>3 DEF OvertakingInv
    <3> QED
      BY <1>3, <3>1, <3>4
  <2>5. e \in InFlight \cap Frame
    BY <1>3, <1>8, InFlightIs
  <2>6. Channel!Deliver(e)
    BY <1>2, <1>4, <1>6, <2>3, <2>4, <2>5 DEF Channel!Deliver
  <2> QED
    BY <1>8, <2>6 DEF Channel!ChannelNext, Frame
<1> QED
  BY <1>3, <1>7, <1>8 DEF AnyFrame

(* A step that takes e from the pending frames at most, and delivers none.   *)
LEMMA QuietStep ==
  ASSUME NEW e, e \in InFlight, UNCHANGED <<sent, delivered>>,
         \/ (InFlight \cap Frame)' = InFlight \cap Frame
         \/ (InFlight \cap Frame)' = (InFlight \cap Frame) \ {e}
  PROVE  Channel!ChannelNext \/ UNCHANGED Channel!channelVars
<1>1. CASE (InFlight \cap Frame)' = InFlight \cap Frame
  BY <1>1 DEF Channel!channelVars
<1>2. CASE (InFlight \cap Frame)' = (InFlight \cap Frame) \ {e} /\ e \in Frame
  <2>1. Channel!Lose(e)
    BY <1>2 DEF Channel!Lose
  <2> QED
    BY <1>2, <2>1 DEF Channel!ChannelNext, Frame
<1>3. CASE (InFlight \cap Frame)' = (InFlight \cap Frame) \ {e} /\ e \notin Frame
  <2>1. (InFlight \cap Frame)' = InFlight \cap Frame
    BY <1>3
  <2> QED
    BY <2>1 DEF Channel!channelVars
<1> QED
  BY <1>1, <1>2, <1>3

LEMMA ChannelStep ==
  ASSUME Settling, Tracked, StepKind, OvertakingInv'
  PROVE  Channel!ChannelNext \/ UNCHANGED Channel!channelVars
<1>0. Where[<<"delivered", 0>>] = delivered /\ Where'[<<"delivered", 0>>] = delivered'
  BY WhereIs, WhereIsNext
<1>1. CASE Stays
  <2>1. InFlight' = InFlight /\ delivered' = delivered /\ sent' = sent
    BY <1>0, <1>1, InFlightIs, InFlightNext DEF Stays
  <2> QED
    BY <2>1 DEF Channel!channelVars
<1>2. ASSUME NEW f \in Frame, Enters(f)
      PROVE  Channel!ChannelNext
  <2>1. PICK k \in Places : k = <<"in", 0>>
    BY Singles
  <2>2. /\ f \notin ToSet(sent) /\ sent' = Append(sent, f) /\ Where'[k] = Append(Where[k], f)
        /\ \A t \in Places : t # k => Where'[t] = Where[t]
    BY <1>2, <2>1 DEF Enters, Elsewhere
  <2>3. delivered' = delivered /\ k # <<"delivered", 0>>
    BY <1>0, <2>1, <2>2, Singles
  <2>4. ToSet(Where'[k]) = ToSet(Where[k]) \cup {f}
    <3>1. Where[k] \in Seq(AnyFrame) /\ f \in AnyFrame
      BY DEF Settling, Rooms, AnyFrame
    <3> QED
      BY <2>2, <3>1, AppendedFrame
  <2>5. Underway(Where') = Underway(Where) \cup {f}
    <3>1. ASSUME NEW g
          PROVE  (g \in Underway(Where')) <=> (g \in Underway(Where) \cup {f})
      BY <2>2, <2>3, <2>4 DEF Underway
    <3> QED
      BY <3>1
  <2>6. (InFlight \cap Frame)' = (InFlight \cap Frame) \cup {f}
    BY <2>5, InFlightIs, InFlightNext
  <2>7. Channel!Accept(f)
    BY <2>2, <2>3, <2>6 DEF Channel!Accept, Channel!ToSet, ToSet
  <2> QED
    BY <2>7 DEF Channel!ChannelNext, Frame
<1>3. ASSUME NEW p \in Places, NEW q \in Places, MovesOn(p, q)
      PROVE  Channel!ChannelNext \/ UNCHANGED Channel!channelVars
  <2>1. CASE q = <<"delivered", 0>>
    BY <1>3, <2>1, ArrivalDelivers
  <2>2. CASE q # <<"delivered", 0>>
    <3>1. PICK e : e = Head(Where[p])
      OBVIOUS
    <3>2. p # <<"delivered", 0>>
      <4>1. Rank(q) \in Nat /\ Rank(q) < Rank(p) /\ Rank(<<"delivered", 0>>) = 0
        BY <1>3, RankType, RankIs DEF MovesOn
      <4> QED
        BY <4>1
    <3>3. Shifted(Where, Where', p, q, <<e>>) /\ sent' = sent
      BY <1>3, <3>1 DEF MovesOn
    <3>4. Underway(Where') = (Underway(Where) \ {e}) \cup ToSet(<<e>>) /\ e \in Underway(Where)
      BY <2>2, <3>1, <3>2, <3>3, ShiftKeeps
    <3>5. ToSet(<<e>>) = {e}
      BY DEF ToSet
    <3>6. InFlight' = InFlight
      BY <3>4, <3>5, InFlightIs, InFlightNext
    <3>7. delivered' = delivered
      BY <1>0, <2>2, <3>2, <3>3, Singles DEF Shifted, Elsewhere
    <3> QED
      BY <3>3, <3>6, <3>7 DEF Channel!channelVars
  <2> QED
    BY <2>1, <2>2
<1>4. ASSUME NEW p \in Places, Vanishes(p)
      PROVE  Channel!ChannelNext \/ UNCHANGED Channel!channelVars
  <2>1. PICK e : e = Head(Where[p])
    OBVIOUS
  <2>2. /\ Shifted(Where, Where', p, <<"delivered", 0>>, <<>>) /\ p # <<"delivered", 0>> /\ sent' = sent
    BY <1>4 DEF Vanishes
  <2>3. Underway(Where') = Underway(Where) \ {e} /\ e \in Underway(Where)
    BY <2>1, <2>2, ShiftUnderway DEF Tracked
  <2>4. (InFlight \cap Frame)' = (InFlight \cap Frame) \ {e} /\ e \in InFlight
    BY <2>3, InFlightIs, InFlightNext
  <2>5. delivered' = delivered
    <3>1. delivered' = delivered \o <<>> /\ delivered \in Seq(AnyFrame)
      BY <1>0, <2>2 DEF Shifted, Settling, HistoryInv
    <3> QED
      BY <3>1, ConcatEmptySeq
  <2> QED
    BY <2>2, <2>4, <2>5, QuietStep
<1>5. ASSUME NEW p, NEW q, NEW r, NEW d, WorksOn(p, q, r, d)
      PROVE  Channel!ChannelNext \/ UNCHANGED Channel!channelVars
  <2>1. PICK e : e = Head(Where[p])
    OBVIOUS
  <2>2. /\ Shifted(Where, d, p, q, r) /\ p # <<"delivered", 0>> /\ q # <<"delivered", 0>>
        /\ sent' = sent /\ p \in Places /\ q \in Places
    BY <1>5 DEF WorksOn, Shifted, Processed
  <2>3. Underway(d) = (Underway(Where) \ {e}) \cup ToSet(r) /\ e \in Underway(Where)
    BY <2>1, <2>2, ShiftKeeps
  <2>4. ToSet(r) \cap Frame \subseteq {e}
    BY <1>5, <2>1, WorkConserves DEF Settling
  <2>5. \/ Where' = d
        \/ Where'[p] = d[q] /\ Where'[q] = d[p] /\ Elsewhere(d, Where', p, q)
    BY <1>5 DEF WorksOn
  <2>6. Underway(Where') = Underway(d) /\ delivered' = delivered
    <3>1. d[<<"delivered", 0>>] = delivered
      BY <1>0, <2>2, Singles DEF Shifted, Elsewhere
    <3>2. CASE Where' = d
      BY <1>0, <3>1, <3>2
    <3>3. CASE Where'[p] = d[q] /\ Where'[q] = d[p] /\ Elsewhere(d, Where', p, q)
      <4>1. ASSUME NEW g
            PROVE  (g \in Underway(Where')) <=> (g \in Underway(d))
        <5>1. \A t \in Places : t # p /\ t # q => ToSet(Where'[t]) = ToSet(d[t])
          BY <3>3 DEF Elsewhere
        <5>2. ToSet(Where'[p]) = ToSet(d[q]) /\ ToSet(Where'[q]) = ToSet(d[p])
          BY <3>3
        <5>3. ASSUME g \in Underway(Where')
              PROVE  g \in Underway(d)
          BY <2>2, <5>1, <5>2, <5>3 DEF Underway
        <5>4. ASSUME g \in Underway(d)
              PROVE  g \in Underway(Where')
          BY <2>2, <5>1, <5>2, <5>4 DEF Underway
        <5> QED
          BY <5>3, <5>4
      <4>2. delivered' = delivered
        BY <1>0, <2>2, <3>1, <3>3, Singles DEF Elsewhere
      <4> QED
        BY <4>1, <4>2
    <3> QED
      BY <2>5, <3>2, <3>3
  <2>7. InFlight' = (InFlight \ {e}) \cup ToSet(r) /\ e \in InFlight
    BY <2>3, <2>6, InFlightIs, InFlightNext
  <2>8. \/ (InFlight \cap Frame)' = InFlight \cap Frame
        \/ (InFlight \cap Frame)' = (InFlight \cap Frame) \ {e}
    <3>1. (InFlight \cap Frame)' = ((InFlight \cap Frame) \ {e}) \cup (ToSet(r) \cap Frame)
      BY <2>7
    <3>2. CASE e \in ToSet(r) \cap Frame
      BY <2>4, <2>7, <3>1, <3>2
    <3>3. CASE e \notin ToSet(r) \cap Frame
      BY <2>4, <3>1, <3>3
    <3> QED
      BY <3>2, <3>3
  <2> QED
    BY <2>2, <2>6, <2>7, <2>8, QuietStep
<1> QED
  BY <1>1, <1>2, <1>3, <1>4, <1>5 DEF StepKind

PipelineInv == ConservationInv /\ (~panicked => OvertakingInv)

LEMMA PipelineStep ==
  ASSUME PipelineInv, [Next]_vars
  PROVE  PipelineInv' /\ [Channel!ChannelNext]_(Channel!channelVars)
<1>1. ConservationInv /\ ConservationInv'
  BY ConservationStep DEF PipelineInv
<1>2. Settling /\ (Where \in Rooms)' /\ TypeOK'
  BY <1>1, WhereType, WhereTypeNext DEF ConservationInv, Settling
<1>3. CASE panicked
  <2>1. UNCHANGED vars
    BY <1>3 DEF Next
  <2>2. UNCHANGED <<pqVars, in, out, feeder, asyncVars, syncVars, histVars, panicked>>
    BY <2>1 DEF vars, orchVars
  <2>3. \A t \in Places : Where'[t] = Where[t]
    BY <2>2, Unmoved DEF pqVars, asyncVars, syncVars, histVars
  <2>4. Where' = Where
    BY <2>3 DEF Where
  <2>5. InFlight' = InFlight
    BY <2>4, InFlightIs, InFlightNext
  <2>6. UNCHANGED Channel!channelVars
    BY <2>2, <2>5 DEF Channel!channelVars, histVars
  <2> QED
    BY <1>1, <1>3, <2>2, <2>6 DEF PipelineInv
<1>4. CASE ~panicked
  <2>1. Tracked /\ OvertakingInv
    BY <1>1, <1>4 DEF PipelineInv, ConservationInv, LedgerInv
  <2>2. StepKind
    BY <1>2, KindOfStep
  <2>3. OvertakingInv'
    BY <1>2, <2>1, <2>2, OvertakingStep
  <2>4. Channel!ChannelNext \/ UNCHANGED Channel!channelVars
    BY <1>2, <2>1, <2>2, <2>3, ChannelStep
  <2> QED
    BY <1>1, <2>3, <2>4 DEF PipelineInv
<1> QED
  BY <1>3, <1>4

LEMMA InitChannel == Init => PipelineInv /\ Channel!ChannelInit
<1> SUFFICES ASSUME Init
             PROVE  PipelineInv /\ Channel!ChannelInit
  OBVIOUS
<1>1. PipelineInv
  BY InitConserved, InitOvertaking DEF PipelineInv
<1>2. sent = <<>> /\ delivered = <<>> /\ spawned = {} /\ ~panicked
  BY DEF Init
<1>3. Accounted = {}
  <2>1. ToSet(<<>>) = {}
    BY DEF ToSet
  <2> QED
    BY <1>2, <2>1 DEF Accounted
<1>4. Underway(Where) = {}
  BY <1>1, <1>2, <1>3 DEF PipelineInv, ConservationInv, LedgerInv, Tracked, Conserved, Underway
<1> QED
  BY <1>1, <1>2, <1>4, InFlightIs DEF Channel!ChannelInit

(* Whatever its mode, capacities and number of processors, and through a     *)
(* Stop at any moment, the pipeline is a channel that may lose frames, never *)
(* delivers one twice, keeps each class in order, and lets at most one later *)
(* frame reach the sink before a control frame: Pop's two selects, taken     *)
(* across all the goroutines between the feeder and the sink.                *)
THEOREM PipelineIsAFrameChannel == Spec => ImplementsChannel
<1>1. Init => PipelineInv /\ Channel!ChannelInit
  BY InitChannel
<1>2. PipelineInv /\ [Next]_vars => PipelineInv' /\ [Channel!ChannelNext]_(Channel!channelVars)
  BY PipelineStep
<1> QED
  BY <1>1, <1>2, PTL DEF Spec, ImplementsChannel
=============================================================================
