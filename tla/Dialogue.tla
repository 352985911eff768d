------------------------------ MODULE Dialogue ------------------------------
(***************************************************************************)
(* The DTMF disambiguator, the context processor and the router as one     *)
(* pipeline (examples/hvac wires it so): what the user says and keys in,   *)
(* and what the call tells, on its way to the model.  The first two share  *)
(* no state, so a frame passes both in one step; the router takes it from  *)
(* a channel (not bounded here; Orchestrator is about those).              *)
(***************************************************************************)
EXTENDS DTMFDisambiguator, ContextProcessor, Router

CONSTANTS
  Nameless,          \* the streams whose frames do not name their call
  Scenarios          \* bound: which frames come, and how many of them

ASSUME DialogueAssumption == Nameless \subseteq Streams

VARIABLES
  scenario,          \* bound
  said,              \* history: by stream, the words given to the pipeline
  cut, shadowed      \* history: the words a call's end found waiting; those a key shadowed

history == <<said, cut, shadowed>>
vars == <<lastDT, contextVars, routerVars, scenario, history>>

Init ==
  /\ DisambiguatorInit /\ ContextInit /\ RouterInit
  /\ scenario \in Scenarios
  /\ said = [s \in Streams |-> <<>>]
  /\ cut = {} /\ shadowed = {}

-----------------------------------------------------------------------------
ScopeOf(s) == IF s \in Nameless THEN s ELSE Call

(* Words are numbered, so that no two are the same.  A short one is a single *)
(* letter or digit, which the aggregator holds back.                         *)
Word(s, kind) == [stream |-> s, n |-> Len(said[s]) + 1, kind |-> kind]

Comes(kind) ==
  /\ kind \in scenario.kinds /\ scenario.count > 0
  /\ scenario' = [scenario EXCEPT !.count = @ - 1]

Say(source, s, kind, after) ==
  /\ said' = [said EXCEPT ![s] = Append(@, Word(s, kind))]
  /\ ContextText(TextFrame(source, s, ScopeOf(s), <<Word(s, kind)>>), after)
  /\ UNCHANGED <<cut, shadowed>>

(* Frames of the transport and of the STT name the call if they can; those   *)
(* that processors make themselves do not.                                   *)
Start(s) ==
  /\ Comes("call_start")
  /\ \E fact \in Facts \cup {NoFact} : ContextSystem(Frame("call_start", s, ScopeOf(s), fact))
  /\ UNCHANGED <<lastDT, history>>

End(s) ==
  /\ Comes("call_end")
  /\ cut' = cut \cup {pending[s][i].words[1] : i \in DOMAIN pending[s]}
  /\ ContextSystem(Frame("call_end", s, ScopeOf(s), NoFact))
  /\ ForgetKeys(s)
  /\ UNCHANGED <<said, shadowed>>

Bootstrap(s) ==
  /\ Comes("bootstrap")
  /\ \E fact \in Facts : ContextSystem(Frame("bootstrap", s, s, fact))
  /\ UNCHANGED <<lastDT, history>>

Final(s) ==
  /\ Comes("final")
  /\ \E kind \in {"short", "long"} : Say("stt", s, kind, <<>>)
  /\ UNCHANGED lastDT

(* A text of digits alone, of any length. *)
Digits(s) ==
  /\ Comes("final")
  /\ MayDrop(s)
  /\ \E kind \in {"short", "long"} :
       /\ said' = [said EXCEPT ![s] = Append(@, Word(s, kind))]
       /\ shadowed' = shadowed \cup {Word(s, kind)}
  /\ UNCHANGED <<lastDT, contextVars, cut>>

Press(s) ==
  /\ Comes("dtmf")
  /\ KeyPressed(s)
  /\ Say("dtmf", s, "key", <<Frame("dtmf", s, ScopeOf(s), NoFact)>>)

Flush(s) ==
  /\ Comes("flush")
  /\ ContextFlush(Frame("flush", s, ScopeOf(s), NoFact))
  /\ UNCHANGED <<lastDT, history>>

Pass(s) ==
  /\ \/ \E kind \in {"interim", "image"} : Comes(kind) /\ ContextPasses(Frame(kind, s, s, NoFact))
     \/ /\ Comes("handoff")
        /\ \E a \in Agents : ContextPasses(Frame("handoff", s, s, a))
  /\ UNCHANGED <<lastDT, history>>

ContextStep ==
  /\ \E s \in Streams :
       Start(s) \/ End(s) \/ Bootstrap(s)
         \/ Final(s) \/ Digits(s) \/ Press(s) \/ Flush(s) \/ Pass(s)
  /\ UNCHANGED routerVars

-----------------------------------------------------------------------------
Receive == toRouter # <<>> /\ toRouter' = Tail(toRouter)

Speech(f) == f.kind = "text" /\ f.source = "stt"

RouterStep ==
  /\ Receive
  /\ LET f == Head(toRouter)
     IN \/ /\ Speech(f)
           /\ \E lang \in Langs \cup {NoLang}, agent \in Agents \cup {NoAgent}, tells \in BOOLEAN :
                RouteSpeech(f, lang, agent, tells)
        \/ f.kind = "text" /\ ~Speech(f) /\ RouteText(f)
        \/ f.kind = "handoff" /\ Handoff(f)
        \/ f.kind = "call_end" /\ ResetStream(f)
        \/ f.kind \notin {"text", "handoff", "call_end"} /\ RouterPasses(f)
  /\ UNCHANGED <<pending, injected, global, globalHash, lastDT, scenario, history>>

Next == ContextStep \/ RouterStep

Spec == Init /\ [][Next]_vars

-----------------------------------------------------------------------------
(* On the way to the model: what has passed the router, then what has not. *)
Trail == arrived \o toRouter

(* In a sequence of frames c: the texts of a stream, the words in them, and   *)
(* whether these come as they were numbered, none twice.                     *)
TextsFrom(c, s) == {i \in DOMAIN c : c[i].kind = "text" /\ c[i].stream = s}

Heard(c, s) == UNION {ToSet(c[i].words) : i \in TextsFrom(c, s)}

InOrder(c, s) ==
  \A i, j \in TextsFrom(c, s) :
    \A k \in DOMAIN c[i].words, l \in DOMAIN c[j].words :
      i < j \/ (i = j /\ k < l) => c[i].words[k].n < c[j].words[l].n

(* What the user says and keys in reaches the model once and in order,       *)
(* whatever is joined, flushed or held back (text_aggregator.go): it has     *)
(* arrived, is on its way, or waits; only a text too short to stand alone    *)
(* that still waits when the call ends is dropped, and digits spoken when    *)
(* the stream's user had pressed a key before.                               *)
TextsArriveOnceInOrder ==
  /\ \A s \in Streams :
       LET sent == Trail \o pending[s]
       IN Heard(sent, s) = ToSet(said[s]) \ (cut \cup shadowed) /\ InOrder(sent, s)
  /\ \A w \in cut : w.kind = "short"
  /\ \A w \in shadowed : \E n \in 1 .. w.n : said[w.stream][n].kind = "key"

(* In a sequence of frames c: the ends of a call before frame i, and the      *)
(* frames of some kinds since the last of them.                              *)
Before(c, i) == {j \in DOMAIN c : j < i}

EndsAt(c, scope, i) == {j \in Before(c, i) : c[j].kind = "call_end" /\ c[j].scope = scope}

SinceEnd(c, kinds, scope, i) ==
  {j \in Before(c, i) : /\ c[j].kind \in kinds /\ c[j].scope = scope
                        /\ \A e \in EndsAt(c, scope, i) : e < j}

(* The facts told of a scope by the system frames before i, the last of each *)
(* key, since the call last ended.                                           *)
FactsAt(c, scope, i) ==
  LET news == {j \in SinceEnd(c, {"call_start", "bootstrap"}, scope, i) : c[j].about # NoFact}
  IN {c[j].about : j \in {k \in news : \A l \in news : l > k => c[l].about.key # c[k].about.key}}

(* What the model was last told of it. *)
ToldAt(c, scope, i) ==
  LET told == SinceEnd(c, {"shared"}, scope, i)
  IN IF told = {} THEN {} ELSE c[Max(told)].about

FindsItsContext(c, i) ==
  LET scope == c[i].scope
  IN /\ HasPrompt /\ EndsAt(c, scope, i) = {} => Cardinality(SinceEnd(c, {"prompt"}, scope, i)) = 1
     /\ ToldAt(c, scope, i) = FactsAt(c, scope, i)

(* A text finds its context (buildBasePrompt, buildGlobalMessage): while the *)
(* call goes on the prompt has come before it, once for its scope, and the   *)
(* shared context that was told last is what the frames before it say, no    *)
(* older and of no earlier call.  Captions of images come without.           *)
TextsFindTheirContext ==
  \A i \in DOMAIN arrived :
    arrived[i].kind = "text" /\ arrived[i].source # "image" => FindsItsContext(arrived, i)

TextsSinceEnd(s) ==
  LET ends == {j \in DOMAIN arrived : arrived[j].kind = "call_end" /\ arrived[j].stream = s}
  IN {i \in DOMAIN arrived : /\ arrived[i].kind = "text" /\ arrived[i].stream = s
                             /\ \A e \in ends : e < i}

(* docs/en/routing.md: bootstrap routes the first turns only, and without    *)
(* code switching detection stops after the first language.  So since a      *)
(* stream's last end at most MaxTurns of its texts are routed, and one       *)
(* language at most is found in them.                                        *)
RoutingStops ==
  \A s \in Streams :
    LET texts == TextsSinceEnd(s)
    IN /\ Mode = "bootstrap" => Cardinality({i \in texts : arrived[i].routed}) <= MaxTurns
       /\ Mode = "off" => \A i \in texts : ~arrived[i].routed
       /\ ~CodeSwitching => Cardinality({i \in texts : arrived[i].lang # NoLang}) <= 1
=============================================================================
