--------------------------- MODULE CircuitBreaker ---------------------------
(***************************************************************************)
(* pkg/resilience: what the processors of speech do about a provider that  *)
(* fails.  A breaker counts the answers that say the rate is exceeded; at  *)
(* the threshold it opens for a while.  When it lets requests through      *)
(* again it has not forgotten them: one more such answer opens it at once, *)
(* and only a success makes it start over.  A retry policy tries again so  *)
(* many times.                                                             *)
(***************************************************************************)
EXTENDS Naturals

CONSTANTS Threshold, MaxRetries

ASSUME BreakerAssumption ==
  Threshold \in Nat \ {0} /\ MaxRetries \in Nat \ {0}

Errors == {"rate", "other"}

(* Failures beyond the threshold make no difference. *)
Breaker == [failures : 0 .. Threshold, open : BOOLEAN]
NewBreaker == [failures |-> 0, open |-> FALSE]

Allows(b) == ~b.open

OnSuccess(b) == NewBreaker

OnError(b, err) ==
  IF err # "rate" THEN b
  ELSE IF b.failures + 1 < Threshold THEN [b EXCEPT !.failures = @ + 1]
  ELSE [failures |-> Threshold, open |-> TRUE]

(* openUntil has passed. *)
CooledDown(b) == [b EXCEPT !.open = FALSE]

(* A function that is tried once, and has failed so many times before, is    *)
(* tried again.                                                              *)
TriesAgain(n) == n <= MaxRetries
=============================================================================
