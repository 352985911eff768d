------------------------ MODULE PriorityQueueProofs ------------------------
(***************************************************************************)
(* The queue's type and its priority promise, for any frames and any       *)
(* capacities.                                                             *)
(***************************************************************************)
EXTENDS PriorityQueue, SequenceTheorems, TLAPS

(* Why a control frame is passed at most once: once it has been, Pop has     *)
(* returned, the frame still waits, and the next poll is of its lane.        *)
PassedOnceInv ==
  passed # 0 => /\ passed = 1
                /\ high # <<>>
                /\ popPc # "poll_low"

PQInv == PQTypeOK /\ PassedOnceInv

(* The inductive step, by the operation of queue.go that is taken. *)
LEMMA PQStep == PQInv /\ [PQNext]_pqVars => PQInv'
<1> SUFFICES ASSUME PQInv, [PQNext]_pqVars
             PROVE  PQInv'
  OBVIOUS
<1> USE QueueAssumption DEF PQInv, PQTypeOK, PassedOnceInv, Frame
<1>1. CASE Push
  <2>1. ASSUME NEW f \in ControlFrames, TryPushHigh(f)
        PROVE  PQInv'
    BY <2>1 DEF TryPushHigh, HighFull
  <2>2. ASSUME NEW f \in OtherFrames, TryPushLow(f)
        PROVE  PQInv'
    BY <2>2 DEF TryPushLow, LowFull
  <2> QED
    BY <1>1, <2>1, <2>2 DEF Push
<1>2. CASE CallPop
  BY <1>2 DEF CallPop
<1>3. CASE UsePopped
  BY <1>3 DEF UsePopped
<1>4. CASE PollHigh
  <2>1. CASE high = <<>>
    BY <1>4, <2>1 DEF PollHigh
  <2>2. CASE high # <<>>
    <3>1. /\ Head(high) \in ControlFrames /\ Tail(high) \in Seq(ControlFrames)
          /\ Len(Tail(high)) = Len(high) - 1
      BY <2>2, HeadTailProperties
    <3>2. popPc' = "idle" /\ popped' = Head(high) /\ high' = Tail(high) /\ low' = low /\ passed' = 0
      BY <1>4, <2>2 DEF PollHigh
    <3>3. PQTypeOK'
      BY <3>1, <3>2
    <3> QED
      BY <3>2, <3>3
  <2> QED
    BY <2>1, <2>2
<1>5. CASE PollLow
  <2>1. CASE low = <<>>
    BY <1>5, <2>1 DEF PollLow
  <2>2. CASE low # <<>>
    <3>1. /\ Head(low) \in OtherFrames /\ Tail(low) \in Seq(OtherFrames)
          /\ Len(Tail(low)) = Len(low) - 1
      BY <2>2, HeadTailProperties
    <3>2. /\ popPc' = "idle" /\ popped' = Head(low) /\ low' = Tail(low) /\ high' = high
          /\ passed' \in {0, 1} /\ (passed' # 0 => high # <<>>)
      BY <1>5, <2>2 DEF PollLow
    <3>3. PQTypeOK'
      BY <3>1, <3>2
    <3> QED
      BY <3>2, <3>3
  <2> QED
    BY <2>1, <2>2
<1>6. CASE UNCHANGED pqVars
  BY <1>6 DEF pqVars
<1> QED
  BY <1>1, <1>2, <1>3, <1>4, <1>5, <1>6 DEF PQNext

LEMMA PQInitInv == PQInit => PQInv
BY QueueAssumption DEF PQInit, PQInv, PQTypeOK, PassedOnceInv, Frame

(* Each lane of queue.go holds frames of its own class, within its capacity. *)
THEOREM QueueTypeCorrect == PQSpec => []PQTypeOK
<1>1. PQInv => PQTypeOK
  BY DEF PQInv
<1> QED
  BY <1>1, PQInitInv, PQStep, PTL DEF PQSpec

(* Pop lets at most one other frame pass a waiting control frame, although   *)
(* it polls the two lanes in two steps and pushes land between them.         *)
THEOREM QueuePassesAtMostOnce == PQSpec => []ControlPassedAtMostOnce
<1>1. PQInv => ControlPassedAtMostOnce
  BY DEF PQInv, PassedOnceInv, ControlPassedAtMostOnce
<1> QED
  BY <1>1, PQInitInv, PQStep, PTL DEF PQSpec
=============================================================================
