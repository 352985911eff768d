------------------------------- MODULE Speech -------------------------------
(***************************************************************************)
(* The two processors of speech of one call as NewEngine connects them     *)
(* (pkg/ranya/engine.go): what the STT processor emits passes the stages   *)
(* in between and comes to the TTS processor, among the answers of the     *)
(* model and the controls of the turn; and when the call's context ends,   *)
(* another goroutine closes the sessions of the one, then of the other.    *)
(***************************************************************************)
EXTENDS CircuitBreaker, Sequences, SequencesExt, Functions, FiniteSets

CONSTANTS
  Streams, NoStream, Langs, NoLang, MaxSessions,
  CodeSwitching, ReplayCap, OutCap, WriteCap, AudioCap,
  Controls,     \* bound: the frames besides texts that come to TTS
  LastItem,     \* bound: the pieces of audio, and the texts, that come
  Scenarios     \* bound: how much of each comes

(* They are numbered in the order they come. *)
Items == 1 .. LastItem

ASSUME SpeechAssumption ==
  /\ NoStream \notin Streams /\ NoLang \in Langs
  /\ LastItem \in Nat /\ MaxSessions \in Nat
  /\ {ReplayCap, OutCap, WriteCap, AudioCap} \subseteq Nat /\ CodeSwitching \in BOOLEAN
  /\ Controls \subseteq {"interruption", "flush", "cancel", "fallback", "call_end", "empty", "other"}
  /\ Scenarios \subseteq [audio : 0 .. LastItem, system : Nat, texts : 0 .. LastItem,
                         controls : Nat, ends : 0 .. 1]

VARIABLES
  stt, tts,                   \* the processors
  down,                       \* from the one to the other
  audio, given, silenced,     \* what TTS has handed on, and its history
  teardown,                   \* whose CloseAll is next, if the context has ended
  left                        \* bound: what may still come

STT == INSTANCE STTProcessor WITH proc <- stt
TTS == INSTANCE TTSProcessor WITH proc <- tts

ttsVars == <<tts, audio, given, silenced>>
vars == <<stt, ttsVars, down, teardown, left>>

Init ==
  /\ STT!SpeechInit /\ TTS!SpeechInit /\ TTS!AudioInit
  /\ down = <<>>
  /\ teardown = "running"
  /\ left \in Scenarios

-----------------------------------------------------------------------------
(* The numbers of the pieces of audio, and of the texts, that come.          *)
Use(what) == left[what] > 0 /\ left' = [left EXCEPT ![what] = @ - 1]

Item(what) == LastItem + 1 - left[what]

AudioComes ==
  \E s \in Streams :
    /\ Use("audio")
    /\ STT!Receive(STT!SpeechFrame("audio", s, TRUE, NoLang, Item("audio")))
    /\ UNCHANGED <<ttsVars, down, teardown>>

SystemFrameComes ==
  /\ Use("system")
  /\ \/ \E s \in Streams \cup {NoStream} : STT!Receive(STT!SpeechFrame("call_end", s, TRUE, NoLang, 0))
     \/ \E s \in Streams : STT!Receive(STT!SpeechFrame("language", s, TRUE, NoLang, 0))
  /\ UNCHANGED <<ttsVars, down, teardown>>

(* An answer of the model, which may have lost the name of the call. *)
TextComes ==
  \E s \in Streams, lang \in Langs, named \in BOOLEAN :
    /\ Use("texts")
    /\ TTS!Receive(TTS!SpeechFrame("text", s, named, lang, Item("texts")))
    /\ UNCHANGED <<stt, down, teardown>>

ControlComes ==
  \E s \in Streams, kind \in Controls :
    /\ Use("controls")
    /\ TTS!Receive(TTS!SpeechFrame(kind, s, TRUE, NoLang, 0))
    /\ UNCHANGED <<stt, down, teardown>>

FramePasses ==
  /\ down # <<>>
  /\ TTS!Receive(Head(down))
  /\ down' = Tail(down)
  /\ UNCHANGED <<stt, teardown, left>>

-----------------------------------------------------------------------------
ContextEnds ==
  /\ teardown = "running" /\ Use("ends")
  /\ teardown' = "stt"
  /\ UNCHANGED <<stt, ttsVars, down>>

CloseSTT ==
  /\ teardown = "stt"
  /\ STT!CloseAll
  /\ teardown' = "tts"
  /\ UNCHANGED <<ttsVars, down, left>>

CloseTTS ==
  /\ teardown = "tts"
  /\ TTS!CloseEverything
  /\ teardown' = "done"
  /\ UNCHANGED <<stt, down, left>>

STTStep == STT!Step /\ UNCHANGED <<ttsVars, teardown, left>>
TTSStep == TTS!Step /\ UNCHANGED <<stt, down, teardown, left>>

(* The providers, and the time a breaker is open. *)
STTProvider ==
  \/ STT!CoolDown /\ UNCHANGED <<ttsVars, down, teardown, left>>
  \/ \E i \in DOMAIN stt.sessions :
       /\ STT!Hears(i) \/ (STT!Dies(i) /\ UNCHANGED down)
       /\ UNCHANGED <<ttsVars, teardown, left>>

TTSProvider ==
  /\ \/ TTS!CoolDown /\ UNCHANGED <<audio, given, silenced>>
     \/ \E i \in DOMAIN tts.sessions :
          TTS!Speak(i) \/ (TTS!Dies(i) /\ UNCHANGED <<audio, given, silenced>>)
  /\ UNCHANGED <<stt, down, teardown, left>>

GoroutineStep == STTStep \/ TTSStep \/ FramePasses \/ CloseSTT \/ CloseTTS

Next ==
  \/ AudioComes \/ SystemFrameComes \/ TextComes \/ ControlComes
  \/ ContextEnds
  \/ STTProvider \/ TTSProvider
  \/ GoroutineStep

(* Goroutines run on, and a Start that has begun returns.  Frames, and the   *)
(* steps of each, are finitely many, so one condition serves for all.        *)
Spec == Init /\ [][Next]_vars /\ WF_vars(GoroutineStep)

-----------------------------------------------------------------------------
(* Types of both processors, which hold one session at most of each key.     *)
TypeOK ==
  /\ STT!SpeechTypeOK /\ TTS!SpeechTypeOK
  /\ STT!OneSessionEach /\ TTS!OneSessionEach
  /\ silenced \subseteq Items /\ given \in [Streams -> SUBSET Items]
  /\ teardown \in {"running", "stt", "tts", "done"}

(* trackCallStream: a call that moves to another stream leaves no session of *)
(* the old one behind, in either processor.  Exceptions, each a behaviour of *)
(* the code: a retry closes the stream and with that forgets the call's, so  *)
(* a session it opens is not found; nor is one opened by a frame that does   *)
(* not name its call, or after CloseAll.                                     *)
ReplacedStreamsAreClosed == STT!StreamsAreReplaced /\ TTS!StreamsAreReplaced

(* engine.go: when the call's context ends, every session is closed.  What   *)
(* is open after that was opened after that: CloseAll waits for a Start.     *)
TeardownClosesAll ==
  /\ teardown \in {"tts", "done"} => \A i \in DOMAIN stt.sessions : stt.sessions[i].origin = "late"
  /\ teardown = "done" => \A i \in DOMAIN tts.sessions : tts.sessions[i].origin = "late"

(* A text is heard once, after those that came before it in its language,    *)
(* whatever sends fail after they were taken and are tried again.            *)
SpokenOnceInOrder ==
  /\ \A k \in DOMAIN audio : \A m, n \in DOMAIN audio[k] : m < n => audio[k][m] < audio[k][n]
  /\ \A j, k \in DOMAIN audio : j # k => ToSet(audio[j]) \cap ToSet(audio[k]) = {}

(* A cancel, a fallback, the end of the call or its move to another stream   *)
(* silence every text that came before, in every language; an interruption   *)
(* or a flush the audio that was waiting.                                    *)
SilencedStaysSilent ==
  [][\A k \in DOMAIN audio : \A n \in DOMAIN audio'[k] \ DOMAIN audio[k] :
       audio'[k][n] \notin silenced]_audio

(* Process returns: a frame does not hold up its pipeline.  The exception is *)
(* a frame that waits for a reader that has gone, until CloseAll frees it.   *)
EveryFrameReturns ==
  /\ []<>(tts.task.pc = "idle")
  /\ []<>(\/ stt.task.pc = "idle"
          \/ STT!Stuck /\ (teardown = "running" \/ stt.sessions[stt.task.session].origin = "late"))
=============================================================================
