------------------------------ MODULE MCSpeech ------------------------------
(* Speech for TLC: how much comes. *)
EXTENDS Speech

Load(a, y, t, c, e) == [audio |-> a, system |-> y, texts |-> t, controls |-> c, ends |-> e]

(* Audio that is retried, moved and ended; texts and the controls that       *)
(* silence them; an outage of the one seen by the other; and the end of the  *)
(* call's context in the middle of each.                                     *)
SomeLoads == {Load(2, 1, 0, 0, 0), Load(2, 0, 0, 0, 1), Load(0, 0, 2, 1, 0),
              Load(0, 0, 1, 1, 1), Load(1, 0, 1, 0, 0)}
=============================================================================
