----------------------------- MODULE MCDialogue -----------------------------
(* Dialogue for TLC: what is known of a call, and what comes. *)
EXTENDS Dialogue

SomeFacts == [key : {"customer", "channel"}, value : {1}] \cup {[key |-> "customer", value |-> 2]}

Load(kinds, count) == [kinds |-> kinds, count |-> count]

(* Texts that wait, are flushed and are cut off; what is known of a call     *)
(* that changes, ends and comes again; and the agents of a stream.           *)
SomeLoads ==
  {Load({"final", "dtmf", "flush", "call_end"}, 4),
   Load({"call_start", "call_end", "bootstrap", "dtmf"}, 4),
   Load({"final", "call_end"}, 4),
   Load({"final", "handoff", "image", "interim"}, 3)}
=============================================================================
