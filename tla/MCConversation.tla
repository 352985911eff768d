--------------------------- MODULE MCConversation ---------------------------
(* Conversation for TLC: all streams are of one call. *)
EXTENDS Conversation

OneScope(s) == CHOOSE sc \in Scopes : TRUE
=============================================================================
