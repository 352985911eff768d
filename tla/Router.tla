------------------------------- MODULE Router -------------------------------
(***************************************************************************)
(* pkg/processors/router.go: the agent, the language and the turns of each *)
(* stream.  What the strategy and the detector make of a text is a choice. *)
(***************************************************************************)
EXTENDS DialogueFrames

CONSTANTS
  Agents, NoAgent,
  Langs, NoLang,
  Mode, MaxTurns,    \* "off", "bootstrap" for so many turns, or "full"
  CodeSwitching

ASSUME RouterAssumption ==
  /\ NoAgent \notin Agents /\ NoLang \notin Langs
  /\ Mode \in {"off", "bootstrap", "full"} /\ MaxTurns \in Nat \ {0}
  /\ CodeSwitching \in BOOLEAN

VARIABLES
  active, langActive, turnCount,  \* by stream
  arrived                         \* what has left the router

routerState == <<active, langActive, turnCount>>
routerVars == <<routerState, arrived>>

RouterInit ==
  /\ active = [s \in Streams |-> NoAgent]
  /\ langActive = [s \in Streams |-> NoLang]
  /\ turnCount = [s \in Streams |-> 0]
  /\ arrived = <<>>

Arrive(fs) == arrived' = arrived \o fs

Update(f, about) == [kind |-> "update", stream |-> f.stream, about |-> about]

-----------------------------------------------------------------------------
(* No text carries a language before it gets here. *)
HasLanguage(s) == langActive[s] # NoLang

(* A mutant: one turn more than configured. *)
ShouldRoute_OffByOne(s) ==
  CASE Mode = "off" -> FALSE
    [] Mode = "bootstrap" -> turnCount[s] <= MaxTurns
    [] OTHER -> TRUE

ShouldRoute(s) ==
  CASE Mode = "off" -> FALSE
    [] Mode = "bootstrap" -> turnCount[s] < MaxTurns
    [] OTHER -> TRUE

(* The user's text: its language first, then its agent.  Both are announced  *)
(* before it.  The detector is asked as long as detection goes on, and may   *)
(* be unsure; the strategy may know no agent.                                *)
RouteSpeech(t, lang, agent, tells) ==
  LET s == t.stream
      new == lang # NoLang /\ lang # langActive[s]
      chosen == IF agent = NoAgent THEN active[s] ELSE agent
  IN /\ lang # NoLang => CodeSwitching \/ ~HasLanguage(s)
     /\ agent # NoAgent \/ tells => ShouldRoute(s)
     /\ langActive' = IF new THEN [langActive EXCEPT ![s] = lang] ELSE langActive
     /\ active' = [active EXCEPT ![s] = chosen]
     /\ turnCount' = IF ShouldRoute(s) THEN [turnCount EXCEPT ![s] = @ + 1] ELSE turnCount
     /\ Arrive((IF new THEN <<Update(t, lang)>> ELSE <<>>)
                 \o (IF tells THEN <<Update(t, NoLang)>> ELSE <<>>)
                 \o <<Routed(t, chosen, lang, ShouldRoute(s))>>)

(* Any other text is only given the agent of its stream. *)
RouteText(t) ==
  /\ Arrive(<<Routed(t, active[t.stream], NoLang, FALSE)>>)
  /\ UNCHANGED routerState

(* A handoff sets the agent, and says so before it goes on. *)
Handoff(f) ==
  /\ active' = [active EXCEPT ![f.stream] = f.about]
  /\ Arrive(<<Update(f, f.about)>> \o <<f>>)
  /\ UNCHANGED <<langActive, turnCount>>

ResetStream(f) ==
  /\ active' = [active EXCEPT ![f.stream] = NoAgent]
  /\ langActive' = [langActive EXCEPT ![f.stream] = NoLang]
  /\ turnCount' = [turnCount EXCEPT ![f.stream] = 0]
  /\ Arrive(<<f>>)

RouterPasses(f) == Arrive(<<f>>) /\ UNCHANGED routerState
=============================================================================
