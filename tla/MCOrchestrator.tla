--------------------------- MODULE MCOrchestrator ---------------------------
(* Orchestrator for TLC: the configurations the run starts in. *)
EXTENDS Orchestrator

Config(async, wait, sink) == [async |-> async, wait |-> wait, sink |-> sink]

(* Both modes with both kinds of backpressure: async as the engine runs it,  *)
(* with a sink, and sync with a reader of Out().                             *)
AllConfigs ==
  {Config(TRUE, FALSE, TRUE), Config(TRUE, TRUE, TRUE),
   Config(FALSE, FALSE, FALSE), Config(FALSE, TRUE, FALSE)}
=============================================================================
