------------------------- MODULE DTMFDisambiguator -------------------------
(* pkg/processors/dtmf_disambiguator.go, with PreferDTMF: digits spoken soon *)
(* after a key was pressed are dropped.  How soon is a choice.               *)
EXTENDS DialogueFrames

VARIABLE lastDT    \* the streams with a key pressed

DisambiguatorInit == lastDT = {}

KeyPressed(s) == lastDT' = lastDT \cup {s}

(* A mutant: the key of any stream counts. *)
MayDrop_AnyStream(s) == lastDT # {}

(* A final text of digits alone. *)
MayDrop(s) == s \in lastDT

ForgetKeys(s) == lastDT' = lastDT \ {s}
=============================================================================
