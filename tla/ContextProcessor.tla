-------------------------- MODULE ContextProcessor --------------------------
(***************************************************************************)
(* pkg/processors/context.go without a turn manager, and the aggregator of *)
(* pkg/aggregators/text_aggregator.go it keeps for each stream: the base   *)
(* prompt and the shared context are put before a scope's texts, and a     *)
(* text too short to stand alone waits for more.                           *)
(*                                                                         *)
(* A text is a sequence of words.  Every text that gets here is final, so  *)
(* the length alone decides, and a text that waits is always too short for *)
(* the timeout of the aggregator, which asks for the same length.          *)
(***************************************************************************)
EXTENDS DialogueFrames

CONSTANTS
  Facts,             \* what global_ keys of a frame's meta say: key and value
  NoFact, Nothing,
  HasPrompt,         \* a base prompt is configured
  MinLen             \* what a text that leaves the aggregator has at least

ASSUME ContextAssumption ==
  /\ Call \notin Streams /\ HasPrompt \in BOOLEAN /\ MinLen \in Nat \ {0}
  /\ NoFact \notin Facts /\ \A known \in SUBSET Facts : Nothing # known

VARIABLES
  pending,           \* by stream: the texts in its aggregator
  injected,          \* the scopes that have had the prompt
  global,            \* by scope: the facts it knows
  globalHash,        \* by scope: the facts last told
  toRouter           \* the channel to the next stage

contextVars == <<pending, injected, global, globalHash, toRouter>>

ContextInit ==
  /\ pending = [s \in Streams |-> <<>>]
  /\ injected = {}
  /\ global = [c \in Scopes |-> {}]
  /\ globalHash = [c \in Scopes |-> Nothing]
  /\ toRouter = <<>>

-----------------------------------------------------------------------------
(* A word of one letter, or one that is long enough alone. *)
Letters(ts) ==
  LET short == {i \in DOMAIN ts : ts[i].words[1].kind = "short"}
  IN Cardinality(short) + MinLen * Cardinality(DOMAIN ts \ short)

(* What was said in one piece or more, with the meta of the first. *)
Joined(ts) == [ts[1] EXCEPT !.words = [i \in DOMAIN ts |-> ts[i].words[1]]]

Emit(fs) == toRouter' = toRouter \o fs

(* Both messages name the stream and not the call; which scope they are for *)
(* is kept here for the properties.                                         *)
BasePrompt(s, scope, had) ==
  IF HasPrompt /\ scope \notin had THEN <<Frame("prompt", s, scope, NoFact)>> ELSE <<>>

GlobalMessage(s, scope) ==
  IF global[scope] # {} /\ global[scope] # globalHash[scope]
    THEN <<Frame("shared", s, scope, global[scope])>> ELSE <<>>

(* What comes before a text of this meta. *)
Introduction(t) == BasePrompt(t.stream, t.scope, injected) \o GlobalMessage(t.stream, t.scope)

Introduced(t) ==
  /\ injected' = IF HasPrompt THEN injected \cup {t.scope} ELSE injected
  /\ globalHash' = IF global[t.scope] = {} THEN globalHash
                   ELSE [globalHash EXCEPT ![t.scope] = global[t.scope]]

-----------------------------------------------------------------------------
(* A mutant: a key that is known keeps its value too. *)
Learned_KeepsOld(known, fact) == IF fact = NoFact THEN known ELSE known \cup {fact}

(* updateGlobal: a fact replaces the one with its key. *)
Learned(known, fact) ==
  IF fact = NoFact THEN known ELSE {old \in known : old.key # fact.key} \cup {fact}

(* clearScope *)
ClearScope(scope) ==
  /\ global' = [global EXCEPT ![scope] = {}]
  /\ globalHash' = [globalHash EXCEPT ![scope] = Nothing]

(* A system frame, also one that only passes.  The one that ends the call    *)
(* clears the scope and is the first of the cleared scope, so that the       *)
(* prompt comes again, before it.                                            *)
ContextSystem(f) ==
  LET had == IF f.kind = "call_end" THEN injected \ {f.scope} ELSE injected
  IN /\ IF f.kind = "call_end"
          THEN /\ ClearScope(f.scope)
               /\ pending' = [pending EXCEPT ![f.stream] = <<>>]
          ELSE /\ global' = [global EXCEPT ![f.scope] = Learned(@, f.about)]
               /\ UNCHANGED <<globalHash, pending>>
     /\ injected' = IF HasPrompt THEN had \cup {f.scope} ELSE had
     /\ Emit(BasePrompt(f.stream, f.scope, had) \o <<f>>)

(* A final text goes through the aggregator; a key pressed is a text, too,   *)
(* followed by its control frame.                                            *)
ContextText(t, after) ==
  LET ts == Append(pending[t.stream], t)
  IN /\ Introduced(t)
     /\ IF Letters(ts) >= MinLen
          THEN /\ pending' = [pending EXCEPT ![t.stream] = <<>>]
               /\ Emit(Introduction(t) \o <<Joined(ts)>> \o after)
          ELSE /\ pending' = [pending EXCEPT ![t.stream] = ts]
               /\ Emit(Introduction(t) \o after)
     /\ UNCHANGED global

(* A mutant: what is flushed stays in the aggregator. *)
Flushed_Stays(s) == pending' = pending

(* FlushFrame *)
Flushed(s) == pending' = [pending EXCEPT ![s] = <<>>]

(* A flush lets out what waits, however short. *)
ContextFlush(f) ==
  LET ts == pending[f.stream]
  IN /\ IF ts = <<>>
          THEN Emit(<<f>>) /\ UNCHANGED <<pending, injected, globalHash>>
          ELSE /\ Flushed(f.stream)
               /\ Introduced(Joined(ts))
               /\ Emit(Introduction(Joined(ts)) \o <<Joined(ts)>> \o <<f>>)
     /\ UNCHANGED global

(* Interim texts end here; an image becomes a text of its caption at once,   *)
(* without the messages that come before other texts.                        *)
ContextPasses(f) ==
  /\ Emit(CASE f.kind = "interim" -> <<>>
            [] f.kind = "image" -> <<TextFrame("image", f.stream, f.scope, <<>>)>>
            [] OTHER -> <<f>>)
  /\ UNCHANGED <<pending, injected, global, globalHash>>
=============================================================================
