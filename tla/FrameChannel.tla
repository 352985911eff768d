---------------------------- MODULE FrameChannel ----------------------------
(***************************************************************************)
(* What a call's pipeline promises of the frames submitted to it, whatever *)
(* its mode, buffers and processors: a channel that may lose frames, never *)
(* delivers one twice, keeps each class (control, other) in order, and     *)
(* lets at most one later frame overtake a control frame.  Frames the      *)
(* processors create are delivered at any time.                            *)
(***************************************************************************)
EXTENDS Naturals, Sequences, SequencesExt

CONSTANTS ControlFrames, OtherFrames, Spare

VARIABLES
  accepted,  \* every frame accepted, in order
  pending,   \* those neither delivered nor lost
  delivered  \* everything delivered, in order

channelVars == <<accepted, pending, delivered>>

ChannelInit == accepted = <<>> /\ pending = {} /\ delivered = <<>>

(* f was accepted before g. *)
Before(f, g) == \E j \in DOMAIN accepted : \E i \in 1 .. j - 1 : accepted[i] = f /\ accepted[j] = g

SameClass(f, g) == (f \in ControlFrames) <=> (g \in ControlFrames)

Overtaken(c) == \E f \in ToSet(delivered) \cap OtherFrames : Before(c, f)

Accept(f) ==
  /\ accepted' = Append(accepted, f)
  /\ f \notin ToSet(accepted)
  /\ pending' = pending \cup {f}
  /\ UNCHANGED delivered

(* The class of f keeps its order, and the control frames f overtakes have   *)
(* not been overtaken before.                                                *)
Deliver(f) ==
  /\ delivered' = Append(delivered, f)
  /\ f \in pending
  /\ pending' = pending \ {f}
  /\ \A g \in pending' : Before(g, f) => ~SameClass(f, g)
  /\ \A c \in pending' \cap ControlFrames : Before(c, f) => ~Overtaken(c)
  /\ UNCHANGED accepted

Lose(f) ==
  /\ UNCHANGED <<accepted, delivered>>
  /\ f \in pending
  /\ pending' = pending \ {f}

DeliverNew(s) ==
  /\ delivered' = Append(delivered, s)
  /\ s \notin ToSet(delivered)
  /\ UNCHANGED <<accepted, pending>>

ChannelNext ==
  \/ \E f \in ControlFrames \cup OtherFrames : Accept(f) \/ Deliver(f) \/ Lose(f)
  \/ \E s \in Spare : DeliverNew(s)

ChannelSpec == ChannelInit /\ [][ChannelNext]_channelVars
=============================================================================
