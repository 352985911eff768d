------------------------------ MODULE CallIds ------------------------------
(* The calls, which the transport and the session registry both name. *)
CONSTANTS
  Calls,   \* call SIDs
  NoCall   \* the empty call SID

ASSUME CallAssumption == NoCall \notin Calls
=============================================================================
