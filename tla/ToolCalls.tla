----------------------------- MODULE ToolCalls -----------------------------
(* What the LLM processor and the tool dispatcher have in common: the calls  *)
(* a model makes of tools, by their ids, and the streams they are made on.   *)
EXTENDS Naturals, Sequences, SequencesExt, FiniteSets

CONSTANTS Calls, NoCall, Streams

ASSUME CallsAssumption == NoCall \notin Calls

(* The metadata of a tool-call frame that decides anything here. *)
Task == [id : Calls, stream : Streams]

(* How a tool ends: with a text, with an empty one, with an error; a timeout *)
(* is the dispatcher's.                                                      *)
Outcomes == {"ok", "empty", "error"}
Result == [id : Calls, stream : Streams, status : Outcomes \cup {"timeout"}]
=============================================================================
