------------------------------ MODULE MCEngine ------------------------------
(* Engine for TLC: one call, which may reconnect once. *)
EXTENDS Engine

OneCall == [s \in Streams |-> CHOOSE c \in Calls : TRUE]

AStream == CHOOSE s \in Streams : TRUE

(* A reconnect beside a callback; one stream with all of the transport's     *)
(* events; one stream and every way to stop the engine.                      *)
SomeEvents ==
  {Streams \cup {"callback"}, {AStream, "media", "callback", "webhook"},
   {AStream, "stop", "cancel"}}
=============================================================================
