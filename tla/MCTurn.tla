------------------------------- MODULE MCTurn -------------------------------
(* Turn for TLC: the frames that come. *)
EXTENDS Turn

AStream == CHOOSE s \in Streams : TRUE

Frames(kinds) == [kind : kinds, stream : {AStream}]
Interims == [kind : {"interim"}, stream : Streams]

(* The user's turn: resumed on another stream, ended by the speech service,  *)
(* by a timeout or with the call; then with silence as well; the agent's     *)
(* turn and its interruption; silence after it; what else comes.             *)
SomeScenarios ==
  {[may |-> Frames({"final", "call_end"}) \cup Interims, n |-> 4],
   [may |-> Frames({"final", "audio_ready", "call_end"}) \cup Interims, n |-> 3],
   [may |-> Frames({"thinking_start", "llm_text", "interim"}), n |-> 4],
   [may |-> Frames({"thinking_start", "llm_text", "interim", "audio_ready"}), n |-> 3],
   [may |-> Frames({"speech_started", "speech_final", "llm_text", "flush", "other"}), n |-> 4]}

(* The frames of a barge-in. *)
BargeIn == {[may |-> Frames({"thinking_start", "llm_text", "interim"}), n |-> 4]}
=============================================================================
