------------------------- MODULE MCSessionRegistry -------------------------
(* SessionRegistry for TLC: the goroutines and the calls are alike. *)
EXTENDS SessionRegistry, TLC

Symmetry == Permutations(Calls) \cup Permutations(Workers)
=============================================================================
