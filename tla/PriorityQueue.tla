--------------------------- MODULE PriorityQueue ---------------------------
(***************************************************************************)
(* pkg/priority/queue.go: two bounded lanes, a high one for control        *)
(* frames and a low one for everything else, pushed without blocking by    *)
(* the feeder and popped by one goroutine.                                 *)
(*                                                                         *)
(* TryPushHigh, TryPushLow and each select of Pop are atomic (one channel  *)
(* operation).  Pop as a whole is not: it polls the high lane, then the    *)
(* low lane, then sleeps a millisecond and starts again, and a push may    *)
(* land between any two polls.  The Stats counters are left out: nothing   *)
(* in the program reads them.                                              *)
(***************************************************************************)
EXTENDS Naturals, Sequences

CONSTANTS
  ControlFrames,  \* frames whose Kind() is KindControl
  OtherFrames,    \* audio, text, system and image frames
  HighCap,        \* capacity of the high lane
  LowCap,         \* capacity of the low lane
  NoFrame         \* no frame: Pop has not returned

Frame == ControlFrames \cup OtherFrames

(* A lane of capacity 0 is legal: every try-push on it fails. *)
ASSUME QueueAssumption ==
  /\ HighCap \in Nat
  /\ LowCap \in Nat
  /\ ControlFrames \cap OtherFrames = {}
  /\ NoFrame \notin Frame

VARIABLES
  high, low,  \* the two lanes, oldest frame first
  popPc,      \* the caller of Pop: "idle" outside it, or about to poll a lane
  popped,     \* the frame Pop has returned and its caller has not used yet
  passed      \* history: low pops since the head of the high lane was pushed

pqVars == <<high, low, popPc, popped, passed>>

PQInit ==
  /\ high = <<>>
  /\ low = <<>>
  /\ popPc = "idle"
  /\ popped = NoFrame
  /\ passed = 0

-----------------------------------------------------------------------------
(* TryPushHigh and TryPushLow: they fail when the lane is full. *)
HighFull == Len(high) >= HighCap

LowFull_OffByOne == Len(low) > LowCap

LowFull == Len(low) >= LowCap

TryPushHigh(f) ==
  /\ high' = IF HighFull THEN high ELSE Append(high, f)
  /\ UNCHANGED <<low, popPc, popped, passed>>

TryPushLow(f) ==
  /\ low' = IF LowFull THEN low ELSE Append(low, f)
  /\ UNCHANGED <<high, popPc, popped, passed>>

(* The consumer calls Pop. *)
CallPop ==
  /\ popPc = "idle"
  /\ popped = NoFrame
  /\ popPc' = "poll_high"
  /\ UNCHANGED <<high, low, popped, passed>>

(* The consumer is done with the frame Pop returned. *)
UsePopped ==
  /\ popped # NoFrame
  /\ popped' = NoFrame
  /\ UNCHANGED <<high, low, popPc, passed>>

(* Mutants of PollHigh: the low lane may be polled although a control frame *)
(* waits; the low lane is never polled.                                     *)
PollHigh_MayPollLow ==
  /\ popPc = "poll_high"
  /\ \/ /\ high # <<>>
        /\ popped' = Head(high)
        /\ high' = Tail(high)
        /\ popPc' = "idle"
        /\ passed' = 0
     \/ /\ popPc' = "poll_low"
        /\ UNCHANGED <<high, popped, passed>>
  /\ UNCHANGED low

PollHigh_Only ==
  /\ popPc = "poll_high"
  /\ high # <<>>
  /\ popped' = Head(high)
  /\ high' = Tail(high)
  /\ popPc' = "idle"
  /\ passed' = 0
  /\ UNCHANGED low

(* The first select of the loop. *)
PollHigh ==
  /\ popPc = "poll_high"
  /\ \/ /\ high # <<>>
        /\ popped' = Head(high)
        /\ high' = Tail(high)
        /\ popPc' = "idle"
        /\ passed' = 0
     \/ /\ high = <<>>
        /\ popPc' = "poll_low"
        /\ UNCHANGED <<high, popped, passed>>
  /\ UNCHANGED low

(* The second select: the configured ratio is only compared with zero, and *)
(* New never leaves it there, so the low lane is polled in every round.    *)
PollLow ==
  /\ popPc = "poll_low"
  /\ \/ /\ low # <<>>
        /\ popped' = Head(low)
        /\ low' = Tail(low)
        /\ popPc' = "idle"
        /\ passed' = IF high = <<>> THEN 0 ELSE passed + 1
     \/ /\ low = <<>>
        /\ popPc' = "poll_high"
        /\ UNCHANGED <<low, popped, passed>>
  /\ UNCHANGED high

-----------------------------------------------------------------------------
(* The queue by itself, between an arbitrary producer and a consumer that  *)
(* comes back for another frame.                                           *)
Push ==
  \/ \E f \in ControlFrames : TryPushHigh(f)
  \/ \E f \in OtherFrames : TryPushLow(f)

PQNext == Push \/ CallPop \/ UsePopped \/ PollHigh \/ PollLow

PQSpec == PQInit /\ [][PQNext]_pqVars

-----------------------------------------------------------------------------
(* Type of the queue: the lanes hold frames of their own class within their *)
(* capacity (queue.go keeps them in separate channels).                     *)
PQTypeOK ==
  /\ high \in Seq(ControlFrames) /\ Len(high) <= HighCap
  /\ low \in Seq(OtherFrames) /\ Len(low) <= LowCap
  /\ popPc \in {"idle", "poll_high", "poll_low"}
  /\ popped \in Frame \cup {NoFrame}
  /\ passed \in Nat

(* A waiting control frame is passed by at most one other frame: the one    *)
(* whose poll of the low lane was already decided when the control frame    *)
(* arrived.  This is all the priority Pop gives, since it is not atomic.    *)
ControlPassedAtMostOnce == passed <= 1
=============================================================================
