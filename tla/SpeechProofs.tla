---------------------------- MODULE SpeechProofs ----------------------------
(***************************************************************************)
(* The promises of the two processors of speech for any streams, languages,*)
(* capacities and amounts of speech.  What both do alike is stated of a    *)
(* processor p, and then of stt and of tts.                                *)
(***************************************************************************)
EXTENDS Speech, SequenceTheorems, FiniteSetTheorems, TLAPS

(* Types: frames, the frame Process is busy with, sessions and what they     *)
(* make: frames in the one processor, texts in the other.                    *)
Origins == {"current", "late", "unnamed", "retry"}

Frames == [kind : {"audio", "text", "call_end", "language", "other", "flush", "fallback",
                   "interruption", "cancel", "empty"},
           stream : Streams \cup {NoStream}, named : BOOLEAN, lang : Langs, item : Items \cup {0}]

FrameOK(f) ==
  /\ f \in Frames
  /\ f.kind \in {"audio", "text"} => f.stream \in Streams /\ f.item \in Items
  /\ f.kind \in {"cancel", "fallback"} => f.stream \in Streams

Signals == {f \in Frames : FrameOK(f) /\ f.kind \in {"call_end", "other", "flush", "fallback"}}

Places == {"track", "replace", "replaced", "handle", "control", "create", "starting", "send", "retry"}

Tasks == [pc : Places,
          frame : Frames, tries : Nat, replayed : BOOLEAN, prev : Streams \cup {NoStream},
          session : Nat, origin : Origins]

Sessions(Out) == [stream : Streams, lang : Langs, origin : Origins, dead : BOOLEAN,
                  got : Seq(Items), out : Seq(Out)]

SessionMaps(Out) == UNION {[D -> Sessions(Out)] : D \in SUBSET Nat}

Procs(Out) ==
  [sessions : SessionMaps(Out), started : Nat, callStream : Streams \cup {NoStream},
   tracked : SUBSET Streams, replay : [Streams -> Seq(Items)], breaker : Breaker,
   closedAll : BOOLEAN, task : Tasks \cup {STT!Idle}]

(* Process knows what it is at; the session it sends to, while it is open,   *)
(* is its frame's.                                                           *)
KeyOf(x) == <<x.stream, x.lang>>

TaskInv(p) == LET t == p.task IN t.pc # "idle" =>
  /\ FrameOK(t.frame)
  /\ t.pc \in {"track", "replace", "replaced"} => t.frame.named /\ t.frame.stream \in Streams
  /\ t.pc \in {"track", "replace", "replaced", "handle", "control"} => t.tries = 0
  /\ t.pc = "replace" => t.prev \in Streams /\ t.prev # t.frame.stream
  /\ t.pc \in {"create", "starting", "send", "retry"} => t.frame.kind \in {"audio", "text"}
  /\ t.session <= p.started
  /\ t.session \in DOMAIN p.sessions => KeyOf(p.sessions[t.session]) = KeyOf(t.frame)

(* One session at most of a stream and a language, and none of those that is *)
(* being started.                                                            *)
UniqueInv(p) ==
  /\ DOMAIN p.sessions \subseteq 1 .. p.started /\ p.started <= MaxSessions
  /\ \A i, j \in DOMAIN p.sessions : KeyOf(p.sessions[i]) = KeyOf(p.sessions[j]) => i = j
  /\ p.task.pc = "starting" =>
       \A i \in DOMAIN p.sessions : KeyOf(p.sessions[i]) # KeyOf(p.task.frame)

(* A session that was opened for the call's stream is of that stream: the    *)
(* frame that opens one is, from when its stream became the call's.          *)
CurrentInv(p) == LET t == p.task IN
  /\ \A i \in DOMAIN p.sessions : p.sessions[i].origin = "current" =>
       /\ p.sessions[i].stream = p.callStream
       /\ t.pc = "replace" => p.sessions[i].stream = t.prev
       /\ t.pc # "replaced"
  /\ t.pc \in {"handle", "create"} /\ t.frame.kind \in {"audio", "text"} /\ t.frame.named
       /\ t.tries = 0 /\ ~p.closedAll => p.callStream = t.frame.stream
  /\ t.pc = "starting" /\ t.origin = "current" => p.callStream = t.frame.stream

(* After CloseAll, what is open was opened after it. *)
LateInv(p) ==
  p.closedAll =>
    /\ \A i \in DOMAIN p.sessions : p.sessions[i].origin = "late"
    /\ p.task.pc = "starting" => p.task.origin = "late"

ProcInv(p) == TaskInv(p) /\ UniqueInv(p) /\ CurrentInv(p) /\ LateInv(p)

TypesInv ==
  /\ stt \in Procs(Signals) /\ tts \in Procs(Items)
  /\ down \in Seq(Signals)
  /\ audio \in [Streams \X Langs -> Seq(Items)]
  /\ given \in [Streams -> SUBSET Items] /\ silenced \in SUBSET Items
  /\ teardown \in {"running", "stt", "tts", "done"}
  /\ left \in [audio : 0 .. LastItem, system : Nat, texts : 0 .. LastItem, controls : Nat, ends : Nat]

TeardownInv ==
  /\ teardown \in {"tts", "done"} => stt.closedAll
  /\ teardown = "done" => tts.closedAll

-----------------------------------------------------------------------------
(* The STT processor is never busy with a text, and a retry finds no audio    *)
(* kept for a replay.                                                        *)
ReplayInv(p) ==
  /\ p.task.pc # "idle" => p.task.frame.kind # "text"
  /\ p.task.pc \in {"create", "starting", "send"} /\ p.task.tries > 0 =>
       p.replay[p.task.frame.stream] = <<>>

(* Texts, or audio made of them, in the order they came. *)
Rising(s) == \A m, k \in DOMAIN s : m < k => s[m] < s[k]

(* The texts a session holds, as such or as audio; and below, p the TTS      *)
(* processor, h what it has handed on, g the texts that have come to each    *)
(* stream, z those that are silenced, n the next that comes.                 *)
Held(x) == ToSet(x.out) \cup ToSet(x.got)

(* Texts keep their order from the session's queue to its audio and to what  *)
(* is handed on, and none is in two places.                                  *)
OrderBy(p, h) ==
  /\ \A k \in DOMAIN h : Rising(h[k])
  /\ \A j, k \in DOMAIN h : j # k => ToSet(h[j]) \cap ToSet(h[k]) = {}
  /\ \A i \in DOMAIN p.sessions : LET x == p.sessions[i] IN
       /\ Rising(x.out) /\ Rising(x.got)
       /\ \A a \in ToSet(x.out), b \in ToSet(x.got) : a < b
       /\ \A a \in ToSet(h[KeyOf(x)]), b \in Held(x) : a < b
       /\ \A k \in DOMAIN h : Held(x) \cap ToSet(h[k]) = {}
  /\ \A i, j \in DOMAIN p.sessions : i # j => Held(p.sessions[i]) \cap Held(p.sessions[j]) = {}

(* The text Process is busy with comes after all others: nobody holds it     *)
(* yet, but the session to which sending it failed, until that is closed.    *)
Busy(p) == p.task.pc # "idle" /\ p.task.frame.kind = "text"

Fresh(p, h, n) ==
  /\ \A k \in DOMAIN h : \A a \in ToSet(h[k]) : a < n
  /\ \A i \in DOMAIN p.sessions : \A a \in Held(p.sessions[i]) :
       a < n \/ (/\ p.task.pc = "retry" /\ a = n
                 /\ p.sessions[i].stream = p.task.frame.stream)

TextBy(p, h, g, n) ==
  /\ \A k \in DOMAIN h : \A a \in ToSet(h[k]) : a < n
  /\ \A i \in DOMAIN p.sessions : \A a \in Held(p.sessions[i]) : a < n
  /\ \A s \in Streams : \A a \in g[s] : a < n
  /\ Busy(p) => p.task.frame.item < n /\ Fresh(p, h, p.task.frame.item)
  /\ p.task.pc # "idle" => p.task.frame.kind # "audio"

(* What is silenced is not held by any session, nor about to be.             *)
SilenceBy(p, g, z, n) ==
  /\ \A s, t \in Streams : s # t => g[s] \cap g[t] = {}
  /\ \A a \in z : a < n
  /\ \A i \in DOMAIN p.sessions :
       Held(p.sessions[i]) \subseteq g[p.sessions[i].stream] /\ Held(p.sessions[i]) \cap z = {}
  /\ Busy(p) => p.task.frame.item \in g[p.task.frame.stream] \ z

SpokenBy(p, h, g, z, n) == OrderBy(p, h) /\ TextBy(p, h, g, n) /\ SilenceBy(p, g, z, n)

SpeechInv ==
  /\ TypesInv /\ ProcInv(stt) /\ ProcInv(tts) /\ TeardownInv
  /\ ReplayInv(stt)
  /\ SpokenBy(tts, audio, given, silenced, Item("texts"))

-----------------------------------------------------------------------------
(* Sequences that rise, and what is in them. *)
LEMMA SeqFacts ==
  ASSUME NEW S, NEW s \in Seq(S)
  PROVE  /\ Len(s) \in Nat /\ DOMAIN s = 1 .. Len(s)
         /\ \A m \in DOMAIN s : s[m] \in S
         /\ ToSet(s) = {s[m] : m \in DOMAIN s} /\ ToSet(s) \subseteq S
BY LenProperties DEF ToSet

LEMMA EmptyFacts ==
  /\ ToSet(<<>>) = {} /\ Rising(<<>>) /\ \A S : <<>> \in Seq(S)
BY EmptySeq DEF ToSet, Rising

LEMMA ItemsNat ==
  ASSUME NEW s \in Seq(Items)
  PROVE  s \in Seq(Nat) /\ ToSet(s) \subseteq Items /\ Items \subseteq Nat
<1>1. Items \subseteq Nat
  BY SpeechAssumption DEF Items
<1>2. s \in Seq(Nat)
  BY <1>1, SeqMonotonic
<1> QED
  BY <1>1, <1>2, SeqFacts

LEMMA AppendRises ==
  ASSUME NEW s \in Seq(Nat), NEW n \in Nat
  PROVE  /\ ToSet(Append(s, n)) = ToSet(s) \cup {n}
         /\ Rising(s) /\ (\A a \in ToSet(s) : a < n) => Rising(Append(s, n))
<1>1. /\ Append(s, n) \in Seq(Nat) /\ Len(Append(s, n)) = Len(s) + 1
      /\ \A m \in 1 .. Len(s) : Append(s, n)[m] = s[m]
      /\ Append(s, n)[Len(s) + 1] = n
  BY AppendProperties
<1>2. /\ Len(s) \in Nat /\ DOMAIN s = 1 .. Len(s) /\ DOMAIN Append(s, n) = 1 .. Len(s) + 1
  BY <1>1, LenProperties
<1>3. ToSet(Append(s, n)) = ToSet(s) \cup {n}
  BY <1>1, <1>2 DEF ToSet
<1>4. ASSUME Rising(s), \A a \in ToSet(s) : a < n
      PROVE  Rising(Append(s, n))
  <2>1. \A m \in 1 .. Len(s) : s[m] < n
    BY <1>2, <1>4 DEF ToSet
  <2> QED
    BY <1>1, <1>2, <1>4, <2>1 DEF Rising
<1> QED
  BY <1>3, <1>4

LEMMA TailRises ==
  ASSUME NEW s \in Seq(Nat), s # <<>>
  PROVE  /\ Head(s) \in Nat /\ Tail(s) \in Seq(Nat)
         /\ ToSet(s) = {Head(s)} \cup ToSet(Tail(s))
         /\ Rising(s) => Rising(Tail(s)) /\ \A a \in ToSet(Tail(s)) : Head(s) < a
<1>1. /\ Head(s) \in Nat /\ Tail(s) \in Seq(Nat) /\ Head(s) = s[1]
      /\ Len(Tail(s)) = Len(s) - 1
      /\ \A j \in 1 .. Len(Tail(s)) : Tail(s)[j] = s[j + 1]
  BY HeadTailProperties
<1>2. /\ Len(s) \in Nat /\ Len(s) >= 1 /\ DOMAIN s = 1 .. Len(s)
      /\ DOMAIN Tail(s) = 1 .. Len(s) - 1
  BY <1>1, LenProperties
<1>3. \A j \in 2 .. Len(s) : j - 1 \in DOMAIN Tail(s) /\ s[j] = Tail(s)[j - 1]
  BY <1>1, <1>2
<1>4. ToSet(s) = {Head(s)} \cup ToSet(Tail(s))
  <2>1. ASSUME NEW m \in DOMAIN s
        PROVE  s[m] \in {Head(s)} \cup ToSet(Tail(s))
    <3>1. m = 1 \/ m \in 2 .. Len(s)
      BY <1>2
    <3>2. CASE m = 1
      BY <1>1, <3>2
    <3>3. CASE m \in 2 .. Len(s)
      BY <1>3, <3>3 DEF ToSet
    <3> QED
      BY <3>1, <3>2, <3>3
  <2>2. Head(s) \in ToSet(s) /\ \A a \in ToSet(Tail(s)) : a \in ToSet(s)
    <3>1. 1 \in DOMAIN s /\ \A j \in DOMAIN Tail(s) : j + 1 \in DOMAIN s /\ Tail(s)[j] = s[j + 1]
      BY <1>1, <1>2
    <3> QED
      BY <1>1, <3>1 DEF ToSet
  <2> QED
    BY <2>1, <2>2 DEF ToSet
<1>5. ASSUME Rising(s)
      PROVE  Rising(Tail(s)) /\ \A a \in ToSet(Tail(s)) : Head(s) < a
  <2>1. \A j \in DOMAIN Tail(s) : j + 1 \in DOMAIN s /\ Tail(s)[j] = s[j + 1] /\ 1 < j + 1
    BY <1>1, <1>2
  <2>2. ASSUME NEW j \in DOMAIN Tail(s)
        PROVE  Head(s) < Tail(s)[j]
    <3>1. s[1] < s[j + 1]
      BY <1>2, <1>5, <2>1 DEF Rising
    <3> QED
      BY <1>1, <2>1, <3>1
  <2>3. ASSUME NEW j \in DOMAIN Tail(s), NEW k \in DOMAIN Tail(s), j < k
        PROVE  Tail(s)[j] < Tail(s)[k]
    <3>1. j + 1 < k + 1
      BY <1>2, <2>3
    <3>2. s[j + 1] < s[k + 1]
      BY <1>5, <2>1, <3>1 DEF Rising
    <3> QED
      BY <2>1, <3>2
  <2> QED
    BY <2>2, <2>3 DEF ToSet, Rising
<1> QED
  BY <1>1, <1>4, <1>5

LEMMA ConcatRises ==
  ASSUME NEW s \in Seq(Nat), NEW t \in Seq(Nat)
  PROVE  /\ s \o t \in Seq(Nat)
         /\ ToSet(s \o t) = ToSet(s) \cup ToSet(t)
         /\ Rising(s) /\ Rising(t) /\ (\A a \in ToSet(s), b \in ToSet(t) : a < b) => Rising(s \o t)
<1>1. /\ s \o t \in Seq(Nat) /\ Len(s \o t) = Len(s) + Len(t)
      /\ \A i \in 1 .. Len(s) + Len(t) : (s \o t)[i] = IF i <= Len(s) THEN s[i] ELSE t[i - Len(s)]
  BY ConcatProperties
<1>2. /\ Len(s) \in Nat /\ Len(t) \in Nat /\ DOMAIN s = 1 .. Len(s) /\ DOMAIN t = 1 .. Len(t)
      /\ DOMAIN (s \o t) = 1 .. Len(s) + Len(t)
  BY <1>1, LenProperties
<1>3. ToSet(s \o t) = ToSet(s) \cup ToSet(t)
  <2>1. ASSUME NEW j \in DOMAIN (s \o t)
        PROVE  (s \o t)[j] \in ToSet(s) \cup ToSet(t)
    <3>1. CASE j <= Len(s)
      <4>1. j \in DOMAIN s /\ (s \o t)[j] = s[j]
        BY <1>1, <1>2, <3>1
      <4> QED
        BY <4>1 DEF ToSet
    <3>2. CASE j > Len(s)
      <4>1. j - Len(s) \in DOMAIN t /\ (s \o t)[j] = t[j - Len(s)]
        BY <1>1, <1>2, <3>2
      <4> QED
        BY <4>1 DEF ToSet
    <3> QED
      BY <1>2, <3>1, <3>2
  <2>2. \A a \in ToSet(s) : a \in ToSet(s \o t)
    <3>1. \A j \in DOMAIN s : j \in DOMAIN (s \o t) /\ (s \o t)[j] = s[j]
      BY <1>1, <1>2
    <3> QED
      BY <3>1 DEF ToSet
  <2>3. ASSUME NEW j \in DOMAIN t
        PROVE  j + Len(s) \in DOMAIN (s \o t) /\ (s \o t)[j + Len(s)] = t[j]
    <3>1. /\ j + Len(s) \in 1 .. Len(s) + Len(t) /\ ~(j + Len(s) <= Len(s))
          /\ (j + Len(s)) - Len(s) = j
      BY <1>2
    <3> QED
      BY <1>1, <1>2, <3>1
  <2>4. \A a \in ToSet(t) : a \in ToSet(s \o t)
    BY <2>3 DEF ToSet
  <2>5. \A a \in ToSet(s \o t) : a \in ToSet(s) \cup ToSet(t)
    BY <2>1 DEF ToSet
  <2> QED
    BY <2>2, <2>4, <2>5
<1>4. ASSUME Rising(s), Rising(t), \A a \in ToSet(s), b \in ToSet(t) : a < b
      PROVE  Rising(s \o t)
  <2>1. \A m \in 1 .. Len(s), n \in 1 .. Len(t) : s[m] < t[n]
    BY <1>2, <1>4 DEF ToSet
  <2> QED
    BY <1>1, <1>2, <1>4, <2>1 DEF Rising
<1> QED
  BY <1>1, <1>3, <1>4

-----------------------------------------------------------------------------
(* A processor's sessions, and the operators that change it. *)
LEMMA Maps ==
  ASSUME NEW Out, NEW f \in SessionMaps(Out)
  PROVE  /\ DOMAIN f \in SUBSET Nat /\ f = [i \in DOMAIN f |-> f[i]]
         /\ \A i \in DOMAIN f : f[i] \in Sessions(Out)
BY DEF SessionMaps

LEMMA IsMap ==
  ASSUME NEW Out, NEW D \in SUBSET Nat, NEW f \in [D -> Sessions(Out)]
  PROVE  f \in SessionMaps(Out)
BY DEF SessionMaps

(* What is left of the sessions when those of stream s are closed. *)
Without(p, s) ==
  [i \in {j \in DOMAIN p.sessions : p.sessions[j].stream # s} |-> p.sessions[i]]

LEMMA WithoutIsMap ==
  ASSUME NEW Out, NEW p \in Procs(Out), NEW s
  PROVE  Without(p, s) \in SessionMaps(Out)
<1>1. p.sessions \in SessionMaps(Out)
  BY DEF Procs
<1> DEFINE D == {j \in DOMAIN p.sessions : p.sessions[j].stream # s}
<1>2. D \in SUBSET Nat /\ Without(p, s) \in [D -> Sessions(Out)]
  BY <1>1, Maps DEF Without
<1> QED
  BY <1>2, IsMap

LEMMA CloseStreamIs ==
  ASSUME NEW Out, NEW p \in Procs(Out), NEW s
  PROVE  /\ STT!CloseStream(p, s) \in Procs(Out)
         /\ TTS!CloseStream(p, s) = STT!CloseStream(p, s)
         /\ STT!CloseStream(p, s).sessions = Without(p, s)
         /\ STT!CloseStream(p, s).callStream = p.callStream \/ p.callStream = s
         /\ STT!CloseStream(p, s).started = p.started
         /\ STT!CloseStream(p, s).closedAll = p.closedAll
         /\ STT!CloseStream(p, s).task = p.task
         /\ s \in Streams => STT!CloseStream(p, s).replay[s] = <<>>
<1> DEFINE q == STT!CloseStream(p, s)
           cs == IF s \in p.tracked /\ p.callStream = s THEN NoStream ELSE p.callStream
           rp == [p.replay EXCEPT ![s] = <<>>]
<1>1. {i \in DOMAIN p.sessions : p.sessions[i].stream # s} = DOMAIN p.sessions \ STT!OfStream(p, s)
  BY DEF STT!OfStream
<1>2. Without(p, s) = STT!Restrict(p.sessions, DOMAIN p.sessions \ STT!OfStream(p, s))
  BY <1>1 DEF Without, STT!Restrict
<1>3. TTS!CloseStream(p, s) = q
  BY DEF STT!CloseStream, TTS!CloseStream, STT!Restrict, TTS!Restrict, STT!OfStream, TTS!OfStream
<1> DEFINE w == Without(p, s)
<1> HIDE DEF w
<1>5. rp \in [Streams -> Seq(Items)]
  BY EmptyFacts DEF Procs
<1>6. Without(p, s) \in SessionMaps(Out) /\ cs \in Streams \cup {NoStream}
  BY WithoutIsMap DEF Procs
<1>7. w = Without(p, s) /\ w = STT!Restrict(p.sessions, DOMAIN p.sessions \ STT!OfStream(p, s))
  BY <1>2 DEF w
<1>8. w \in SessionMaps(Out)
  BY <1>6, <1>7
<1>9. q \in Procs(Out)
  BY <1>5, <1>6, <1>7, <1>8 DEF Procs, STT!CloseStream
<1>10. /\ q.sessions = w /\ q.started = p.started /\ q.callStream = cs /\ q.replay = rp
       /\ q.closedAll = p.closedAll /\ q.task = p.task
  BY <1>7 DEF Procs, STT!CloseStream
<1>11. s \in Streams => rp[s] = <<>>
  BY DEF Procs
<1> QED
  BY <1>3, <1>7, <1>9, <1>10, <1>11

(* What the processor knows of its call is the same. *)
Same(p, q) ==
  /\ q.started = p.started /\ q.callStream = p.callStream /\ q.closedAll = p.closedAll

(* Process goes on with its frame, at pc. *)
GoesOn(t, u, pc) ==
  /\ u \in Tasks /\ u.pc = pc
  /\ u.frame = t.frame /\ u.tries = t.tries /\ u.prev = t.prev
  /\ u.session = t.session /\ u.origin = t.origin

LEMMA GotoIs ==
  ASSUME NEW Out, NEW p \in Procs(Out), p.task \in Tasks, NEW pc \in Places
  PROVE  LET q == STT!Goto(p, pc) IN
         /\ TTS!Goto(p, pc) = q
         /\ q \in Procs(Out) /\ Same(p, q)
         /\ q.sessions = p.sessions /\ q.replay = p.replay
         /\ GoesOn(p.task, q.task, pc)
BY DEF STT!Goto, TTS!Goto, Procs, Same, GoesOn, Tasks

LEMMA DoneIs ==
  ASSUME NEW Out, NEW p \in Procs(Out)
  PROVE  LET q == STT!Done(p) IN
         /\ TTS!Done(p) = q
         /\ q \in Procs(Out) /\ Same(p, q)
         /\ q.sessions = p.sessions /\ q.replay = p.replay
         /\ q.task = STT!Idle
BY DEF STT!Done, TTS!Done, Procs, Same, STT!Idle, TTS!Idle

LEMMA BreakerTyped ==
  ASSUME NEW b \in Breaker
  PROVE  /\ CooledDown(b) \in Breaker /\ OnSuccess(b) \in Breaker
         /\ \A err : OnError(b, err) \in Breaker
<1>1. Threshold \in Nat /\ b.failures \in Nat /\ 0 \in 0 .. Threshold /\ Threshold \in 0 .. Threshold
  BY BreakerAssumption DEF Breaker
<1>2. CooledDown(b) \in Breaker /\ OnSuccess(b) \in Breaker
  BY <1>1 DEF Breaker, CooledDown, OnSuccess, NewBreaker
<1>3. ASSUME NEW err
      PROVE  OnError(b, err) \in Breaker
  <2>1. CASE b.failures + 1 < Threshold
    <3>1. b.failures + 1 \in 0 .. Threshold
      BY <1>1, <2>1
    <3> QED
      BY <2>1, <3>1 DEF Breaker, OnError
  <2>2. CASE ~(b.failures + 1 < Threshold)
    <3>1. [failures |-> Threshold, open |-> TRUE] \in Breaker
      BY <1>1 DEF Breaker
    <3> QED
      BY <2>2, <3>1 DEF OnError
  <2> QED
    BY <2>1, <2>2
<1> QED
  BY <1>2, <1>3

LEMMA EndsIs ==
  ASSUME NEW Out, NEW p \in Procs(Out), NEW err, NEW q,
         \/ q = STT!GaveUp(p, err) \/ q = TTS!GaveUp(p, err)
         \/ q = STT!Succeeded(p) \/ q = TTS!Succeeded(p)
  PROVE  /\ q \in Procs(Out) /\ Same(p, q)
         /\ q.sessions = p.sessions /\ q.replay = p.replay
         /\ q.task = STT!Idle
<1> DEFINE r(b) == [p EXCEPT !.breaker = b]
<1>1. \A b \in Breaker : r(b) \in Procs(Out) /\ Same(p, r(b)) /\ r(b).sessions = p.sessions
                         /\ r(b).replay = p.replay
  BY DEF Procs, Same
<1>2. /\ STT!OnError(p.breaker, err) \in Breaker /\ TTS!OnError(p.breaker, err) \in Breaker
      /\ STT!OnSuccess(p.breaker) \in Breaker /\ TTS!OnSuccess(p.breaker) \in Breaker
  BY BreakerTyped DEF Procs, STT!OnError, TTS!OnError, STT!OnSuccess, TTS!OnSuccess, OnError,
                      OnSuccess, STT!NewBreaker, TTS!NewBreaker, NewBreaker
<1> HIDE DEF r
<1>3. \A b \in Breaker : LET u == STT!Done(r(b)) IN
        /\ u = TTS!Done(r(b)) /\ u \in Procs(Out) /\ Same(p, u)
        /\ u.sessions = p.sessions /\ u.replay = p.replay /\ u.task = STT!Idle
  BY <1>1, DoneIs DEF Same
<1>4. /\ STT!GaveUp(p, err) = STT!Done(r(STT!OnError(p.breaker, err)))
      /\ TTS!GaveUp(p, err) = TTS!Done(r(TTS!OnError(p.breaker, err)))
      /\ STT!Succeeded(p) = STT!Done(r(STT!OnSuccess(p.breaker)))
      /\ TTS!Succeeded(p) = TTS!Done(r(TTS!OnSuccess(p.breaker)))
  BY DEF STT!GaveUp, TTS!GaveUp, STT!Succeeded, TTS!Succeeded, r
<1> QED
  BY <1>2, <1>3, <1>4

-----------------------------------------------------------------------------
(* Steps that open no session: those that are left are what they were. *)
Thins(p, q) ==
  /\ DOMAIN q.sessions \subseteq DOMAIN p.sessions
  /\ \A i \in DOMAIN q.sessions :
       /\ q.sessions[i].stream = p.sessions[i].stream /\ q.sessions[i].lang = p.sessions[i].lang
       /\ q.sessions[i].origin = p.sessions[i].origin

NoCurrent(q) == \A i \in DOMAIN q.sessions : q.sessions[i].origin # "current"

LEMMA ProcessReturns ==
  ASSUME NEW p, NEW q, ProcInv(p), Thins(p, q), q.task = STT!Idle,
         q.started = p.started, q.closedAll = p.closedAll,
         q.callStream = p.callStream \/ NoCurrent(q)
  PROVE  ProcInv(q)
<1>1. q.task.pc = "idle"
  BY DEF STT!Idle
<1>2. TaskInv(q)
  BY <1>1 DEF TaskInv
<1>3. UniqueInv(q)
  BY <1>1 DEF ProcInv, UniqueInv, Thins, KeyOf
<1>4. CurrentInv(q)
  BY <1>1 DEF ProcInv, CurrentInv, Thins, NoCurrent
<1>5. LateInv(q)
  BY <1>1 DEF ProcInv, LateInv, Thins
<1> QED
  BY <1>2, <1>3, <1>4, <1>5 DEF ProcInv

LEMMA ProcessStays ==
  ASSUME NEW p, NEW q, ProcInv(p), Thins(p, q), q.task = p.task, Same(p, q)
  PROVE  ProcInv(q)
<1>1. TaskInv(q)
  BY DEF ProcInv, TaskInv, Thins, Same, KeyOf
<1>2. UniqueInv(q)
  BY DEF ProcInv, UniqueInv, Thins, KeyOf, Same
<1>3. CurrentInv(q)
  BY DEF ProcInv, CurrentInv, Thins, Same
<1>4. LateInv(q)
  BY DEF ProcInv, LateInv, Thins, Same
<1> QED
  BY <1>1, <1>2, <1>3, <1>4 DEF ProcInv

LEMMA ProcessGoesOn ==
  ASSUME NEW p, NEW q, NEW pc, ProcInv(p), Thins(p, q), Same(p, q), GoesOn(p.task, q.task, pc),
         \/ pc = "control" /\ p.task.pc = "handle"
         \/ pc = "create" /\ p.task.pc = "handle" /\ p.task.frame.kind \in {"audio", "text"}
         \/ pc = "retry" /\ p.task.pc \in {"starting", "send"}
  PROVE  ProcInv(q)
<1>1. TaskInv(q)
  BY DEF ProcInv, TaskInv, Thins, Same, KeyOf, GoesOn
<1>2. UniqueInv(q)
  BY DEF ProcInv, UniqueInv, Thins, KeyOf, Same, GoesOn
<1>3. CurrentInv(q)
  BY DEF ProcInv, CurrentInv, Thins, Same, GoesOn
<1>4. LateInv(q)
  BY DEF ProcInv, LateInv, Thins, Same, GoesOn
<1> QED
  BY <1>1, <1>2, <1>3, <1>4 DEF ProcInv

(* Closing a stream that may be the call's. *)
(* The sessions of a stream are gone, the others as they were. *)
ClosesStream(p, q, s) ==
  /\ Thins(p, q) /\ q.started = p.started /\ q.closedAll = p.closedAll
  /\ q.callStream = p.callStream \/ NoCurrent(q)
  /\ \A i \in DOMAIN q.sessions : q.sessions[i].stream # s
  /\ \A i \in DOMAIN q.sessions : i \in DOMAIN p.sessions /\ q.sessions[i] = p.sessions[i]

LEMMA CloseStreamThins ==
  ASSUME NEW Out, NEW p \in Procs(Out), NEW s, CurrentInv(p)
  PROVE  ClosesStream(p, STT!CloseStream(p, s), s)
<1>1. PICK c : c = STT!CloseStream(p, s)
  OBVIOUS
<1>2. /\ c.sessions = Without(p, s) /\ c.started = p.started /\ c.closedAll = p.closedAll
      /\ c.callStream = p.callStream \/ p.callStream = s
  BY <1>1, CloseStreamIs
<1>3. /\ \A i \in DOMAIN c.sessions : i \in DOMAIN p.sessions /\ c.sessions[i] = p.sessions[i]
      /\ \A i \in DOMAIN c.sessions : c.sessions[i].stream # s
  BY <1>2 DEF Without
<1>4. Thins(p, c)
  BY <1>3 DEF Thins
<1>5. c.callStream = p.callStream \/ NoCurrent(c)
  BY <1>2, <1>3 DEF NoCurrent, CurrentInv
<1> QED
  BY <1>1, <1>2, <1>3, <1>4, <1>5 DEF ClosesStream

-----------------------------------------------------------------------------
(* The shared steps of Process, each of a processor p that becomes q. *)
LEMMA BeginKeeps ==
  ASSUME NEW p, NEW q, NEW f, ProcInv(p), p.task.pc = "idle", FrameOK(f),
         q.sessions = p.sessions, Same(p, q), p.started \in Nat,
         q.task.frame = f, q.task.tries = 0, q.task.session = 0,
         \/ q.task.pc = "track" /\ f.named /\ f.stream \in Streams
         \/ /\ q.task.pc = "handle"
            /\ f.kind \in {"audio", "text"} => ~f.named
  PROVE  ProcInv(q)
<1>1. /\ DOMAIN q.sessions \subseteq 1 .. q.started /\ q.started \in Nat
      /\ q.started <= MaxSessions
  BY DEF ProcInv, UniqueInv, Same
<1>2. TaskInv(q)
  BY <1>1 DEF TaskInv
<1>3. UniqueInv(q)
  BY <1>1 DEF ProcInv, UniqueInv
<1>4. CurrentInv(q) /\ LateInv(q)
  BY DEF ProcInv, CurrentInv, LateInv, Same
<1> QED
  BY <1>2, <1>3, <1>4 DEF ProcInv

(* The frame's stream becomes the call's. *)
LEMMA TrackedKeeps ==
  ASSUME NEW p, NEW q, ProcInv(p),
         \/ p.task.pc = "track" /\ p.callStream \in {NoStream, p.task.frame.stream}
         \/ p.task.pc = "replaced",
         \A i \in DOMAIN p.sessions : p.sessions[i].stream \in Streams,
         q.sessions = p.sessions, q.started = p.started, q.closedAll = p.closedAll,
         q.callStream = p.task.frame.stream, GoesOn(p.task, q.task, "handle")
  PROVE  ProcInv(q)
<1>1. TaskInv(q) /\ UniqueInv(q) /\ LateInv(q)
  BY DEF ProcInv, TaskInv, UniqueInv, LateInv, GoesOn
<1>2. \A i \in DOMAIN q.sessions : q.sessions[i].origin = "current" =>
        q.sessions[i].stream = q.callStream
  BY SpeechAssumption DEF ProcInv, CurrentInv
<1>3. CurrentInv(q)
  BY <1>2 DEF ProcInv, CurrentInv, GoesOn
<1> QED
  BY <1>1, <1>3 DEF ProcInv

LEMMA ToReplaceKeeps ==
  ASSUME NEW p, NEW q, ProcInv(p), p.task.pc = "track",
         p.callStream \in Streams \ {p.task.frame.stream},
         q.sessions = p.sessions, Same(p, q),
         q.task.pc = "replace", q.task.prev = p.callStream,
         q.task.frame = p.task.frame, q.task.tries = p.task.tries, q.task.session = p.task.session
  PROVE  ProcInv(q)
BY DEF ProcInv, TaskInv, UniqueInv, CurrentInv, LateInv, Same

LEMMA ReplaceKeeps ==
  ASSUME NEW p, NEW q, ProcInv(p), p.task.pc = "replace", Thins(p, q),
         \A i \in DOMAIN q.sessions : q.sessions[i].stream # p.task.prev,
         q.started = p.started, q.closedAll = p.closedAll, GoesOn(p.task, q.task, "replaced")
  PROVE  ProcInv(q)
<1>1. NoCurrent(q)
  BY DEF ProcInv, CurrentInv, Thins, NoCurrent
<1>2. TaskInv(q) /\ UniqueInv(q)
  BY DEF ProcInv, TaskInv, UniqueInv, Thins, GoesOn, KeyOf
<1>3. CurrentInv(q) /\ LateInv(q)
  BY <1>1 DEF ProcInv, CurrentInv, LateInv, Thins, GoesOn, NoCurrent
<1> QED
  BY <1>2, <1>3 DEF ProcInv

(* A session is found, *)
LEMMA FoundKeeps ==
  ASSUME NEW p, NEW q, ProcInv(p), p.task.pc = "create", q.sessions = p.sessions, Same(p, q),
         q.task.pc = "send", q.task.frame = p.task.frame, q.task.tries = p.task.tries,
         p.started \in Nat,
         q.task.session \in DOMAIN p.sessions,
         KeyOf(p.sessions[q.task.session]) = KeyOf(p.task.frame)
  PROVE  ProcInv(q)
<1>1. q.task.session <= q.started
  BY DEF ProcInv, UniqueInv, Same
<1> QED
  BY <1>1 DEF ProcInv, TaskInv, UniqueInv, CurrentInv, LateInv, Same

(* or there is none, and one is started: of the call's stream, if the frame  *)
(* names its call and comes in time. *)
LEMMA ToStartKeeps ==
  ASSUME NEW p, NEW q, ProcInv(p), p.task.pc = "create", q.sessions = p.sessions, Same(p, q),
         \A i \in DOMAIN p.sessions : KeyOf(p.sessions[i]) # KeyOf(p.task.frame),
         q.task.pc = "starting", q.task.frame = p.task.frame, q.task.tries = p.task.tries,
         q.task.session = p.task.session, p.task.tries \in Nat,
         q.task.origin = IF p.closedAll THEN "late"
                         ELSE IF ~p.task.frame.named THEN "unnamed"
                         ELSE IF p.task.tries > 0 THEN "retry" ELSE "current"
  PROVE  ProcInv(q)
<1>1. TaskInv(q) /\ UniqueInv(q)
  BY DEF ProcInv, TaskInv, UniqueInv, Same
<1>2. LateInv(q)
  BY DEF ProcInv, LateInv, Same
<1>3. q.task.origin = "current" => ~p.closedAll /\ p.task.frame.named /\ p.task.tries = 0
  OBVIOUS
<1>4. CurrentInv(q)
  BY <1>3 DEF ProcInv, TaskInv, CurrentInv, Same
<1> QED
  BY <1>1, <1>2, <1>4 DEF ProcInv

LEMMA StartKeeps ==
  ASSUME NEW p, NEW q, ProcInv(p), p.task.pc = "starting", p.started \in Nat,
         p.started < MaxSessions,
         q.started = p.started + 1, q.callStream = p.callStream, q.closedAll = p.closedAll,
         DOMAIN q.sessions = DOMAIN p.sessions \cup {q.started},
         \A i \in DOMAIN p.sessions : q.sessions[i] = p.sessions[i],
         KeyOf(q.sessions[q.started]) = KeyOf(p.task.frame),
         q.sessions[q.started].stream = p.task.frame.stream,
         q.sessions[q.started].origin = p.task.origin,
         q.task.pc = "send", q.task.frame = p.task.frame, q.task.tries = p.task.tries,
         q.task.session = q.started
  PROVE  ProcInv(q)
<1>1. DOMAIN p.sessions \subseteq 1 .. p.started /\ q.started \notin DOMAIN p.sessions
  BY DEF ProcInv, UniqueInv
<1>2. TaskInv(q)
  BY DEF ProcInv, TaskInv
<1>3. UniqueInv(q)
  <2>1. DOMAIN q.sessions \subseteq 1 .. q.started /\ q.started <= MaxSessions
    BY <1>1, SpeechAssumption
  <2>2. \A i \in DOMAIN p.sessions : KeyOf(q.sessions[i]) # KeyOf(p.task.frame)
    BY DEF ProcInv, UniqueInv
  <2>3. ASSUME NEW i \in DOMAIN q.sessions, NEW j \in DOMAIN q.sessions,
               KeyOf(q.sessions[i]) = KeyOf(q.sessions[j])
        PROVE  i = j
    <3>1. CASE i \in DOMAIN p.sessions /\ j \in DOMAIN p.sessions
      BY <2>3, <3>1 DEF ProcInv, UniqueInv
    <3> QED
      BY <2>2, <2>3, <3>1
  <2> QED
    BY <2>1, <2>3 DEF UniqueInv
<1>4. CurrentInv(q)
  BY DEF ProcInv, CurrentInv
<1>5. LateInv(q)
  BY DEF ProcInv, LateInv
<1> QED
  BY <1>2, <1>3, <1>4, <1>5 DEF ProcInv

(* A retry closes the frame's stream first. *)
LEMMA RetryKeeps ==
  ASSUME NEW p, NEW q, ProcInv(p), p.task.pc = "retry", p.task.tries \in Nat, Thins(p, q),
         q.started = p.started, q.closedAll = p.closedAll,
         q.callStream = p.callStream \/ NoCurrent(q),
         q.task.pc = "create", q.task.frame = p.task.frame, q.task.tries = p.task.tries + 1,
         q.task.session = p.task.session
  PROVE  ProcInv(q)
<1>1. TaskInv(q) /\ UniqueInv(q)
  BY DEF ProcInv, TaskInv, UniqueInv, Thins, KeyOf
<1>2. CurrentInv(q) /\ LateInv(q)
  BY DEF ProcInv, CurrentInv, LateInv, Thins, NoCurrent
<1> QED
  BY <1>1, <1>2 DEF ProcInv

-----------------------------------------------------------------------------
(* What those steps do to the sessions and to the frame: sessions are kept,  *)
(* all or some, or a new one joins them.                                     *)
Keeps(p, q) == \A i \in DOMAIN q.sessions :
  /\ i \in DOMAIN p.sessions
  /\ q.sessions[i].stream = p.sessions[i].stream /\ q.sessions[i].lang = p.sessions[i].lang
  /\ q.sessions[i].got = p.sessions[i].got /\ q.sessions[i].out = p.sessions[i].out

Opens(p, q, n) ==
  /\ n \notin DOMAIN p.sessions /\ DOMAIN q.sessions = DOMAIN p.sessions \cup {n}
  /\ \A i \in DOMAIN p.sessions : q.sessions[i] = p.sessions[i]
  /\ q.sessions[n].got = <<>> /\ q.sessions[n].out = <<>>
  /\ KeyOf(q.sessions[n]) = KeyOf(p.task.frame)
  /\ q.sessions[n].stream = p.task.frame.stream

SharedStep(p, q) ==
  /\ p.task.pc # "idle" /\ q.task.pc # "idle" /\ q.task.frame = p.task.frame
  /\ \/ /\ p.task.pc \in {"track", "replace", "replaced"}
        /\ q.task.pc \in {"replace", "replaced", "handle"} /\ Keeps(p, q)
     \/ /\ p.task.pc = "create" /\ q.task.pc \in {"send", "starting"} /\ Keeps(p, q)
        /\ q.task.tries = p.task.tries /\ q.replay = p.replay
     \/ /\ p.task.pc = "starting" /\ q.task.pc = "send" /\ Opens(p, q, q.started)
        /\ q.task.tries = p.task.tries /\ q.replay = p.replay
     \/ /\ p.task.pc = "retry" /\ q.task.pc = "create" /\ Keeps(p, q)
        /\ q.replay[p.task.frame.stream] = <<>>
        /\ \A i \in DOMAIN q.sessions : q.sessions[i].stream # p.task.frame.stream

Steps(Out, p, q) ==
  q \in Procs(Out) /\ ProcInv(q) /\ q.closedAll = p.closedAll /\ SharedStep(p, q)

LEMMA TaskTyped ==
  ASSUME NEW Out, NEW p \in Procs(Out), p.task.pc # "idle"
  PROVE  p.task \in Tasks
BY DEF Procs, STT!Idle

LEMMA SessionsTyped ==
  ASSUME NEW Out, NEW p \in Procs(Out)
  PROVE  /\ DOMAIN p.sessions \subseteq Nat /\ p.sessions = [i \in DOMAIN p.sessions |-> p.sessions[i]]
         /\ \A i \in DOMAIN p.sessions : p.sessions[i] \in Sessions(Out)
BY Maps DEF Procs

LEMMA TrackCallStreamSteps ==
  ASSUME NEW Out, NEW p \in Procs(Out), ProcInv(p), p.task.pc = "track",
         NEW q, q = IF p.callStream \in {NoStream, p.task.frame.stream}
                      THEN STT!Tracked(p, p.task.frame.stream)
                      ELSE STT!Goto([p EXCEPT !.task.prev = p.callStream], "replace")
  PROVE  Steps(Out, p, q)
<1>1. p.task \in Tasks /\ \A i \in DOMAIN p.sessions : p.sessions[i].stream \in Streams
  BY TaskTyped, SessionsTyped DEF Sessions
<1>2. p.task.frame.stream \in Streams
  BY DEF ProcInv, TaskInv
<1>3. CASE p.callStream \in {NoStream, p.task.frame.stream}
  <2>1. /\ q \in Procs(Out) /\ q.sessions = p.sessions /\ q.started = p.started
        /\ q.closedAll = p.closedAll /\ q.callStream = p.task.frame.stream
        /\ GoesOn(p.task, q.task, "handle")
    BY <1>1, <1>2, <1>3 DEF STT!Tracked, STT!Goto, Procs, Tasks, Places, GoesOn
  <2>2. ProcInv(q)
    BY <1>1, <1>3, <2>1, TrackedKeeps
  <2> QED
    BY <2>1, <2>2 DEF Steps, SharedStep, Keeps, GoesOn, Same
<1>4. CASE p.callStream \notin {NoStream, p.task.frame.stream}
  <2>1. /\ q \in Procs(Out) /\ q.sessions = p.sessions /\ Same(p, q)
        /\ q.task.pc = "replace" /\ q.task.prev = p.callStream /\ q.task.frame = p.task.frame
        /\ q.task.tries = p.task.tries /\ q.task.session = p.task.session
        /\ p.callStream \in Streams \ {p.task.frame.stream}
    BY <1>1, <1>4 DEF STT!Goto, Procs, Tasks, Places, Same
  <2>2. ProcInv(q)
    BY <2>1, ToReplaceKeeps
  <2> QED
    BY <2>1, <2>2 DEF Steps, SharedStep, Keeps, Same
<1> QED
  BY <1>3, <1>4

LEMMA ReplaceStreamSteps ==
  ASSUME NEW Out, NEW p \in Procs(Out), ProcInv(p), p.task.pc = "replace",
         NEW q, q = STT!Goto(STT!CloseStream(p, p.task.prev), "replaced")
  PROVE  Steps(Out, p, q)
<1>1. PICK c : c = STT!CloseStream(p, p.task.prev)
  OBVIOUS
<1>2. /\ c \in Procs(Out) /\ c.task = p.task /\ Thins(p, c)
      /\ c.started = p.started /\ c.closedAll = p.closedAll
      /\ \A i \in DOMAIN c.sessions : c.sessions[i].stream # p.task.prev
      /\ \A i \in DOMAIN c.sessions : i \in DOMAIN p.sessions /\ c.sessions[i] = p.sessions[i]
  <2>1. c \in Procs(Out) /\ c.task = p.task
    BY <1>1, CloseStreamIs
  <2>2. ClosesStream(p, c, p.task.prev)
    BY <1>1, CloseStreamThins DEF ProcInv
  <2> QED
    BY <2>1, <2>2 DEF ClosesStream
<1>3. p.task \in Tasks /\ "replaced" \in Places
  BY TaskTyped DEF Places
<1>4. /\ q \in Procs(Out) /\ Same(c, q) /\ q.sessions = c.sessions
      /\ GoesOn(c.task, q.task, "replaced")
  BY <1>1, <1>2, <1>3, GotoIs
<1>5. ProcInv(q)
  BY <1>2, <1>4, ReplaceKeeps DEF Same, Thins
<1> QED
  BY <1>2, <1>4, <1>5 DEF Steps, SharedStep, Keeps, GoesOn, Same

LEMMA TrackReplacementSteps ==
  ASSUME NEW Out, NEW p \in Procs(Out), ProcInv(p), p.task.pc = "replaced",
         NEW q, q = STT!Tracked(p, p.task.frame.stream)
  PROVE  Steps(Out, p, q)
<1>1. p.task \in Tasks /\ \A i \in DOMAIN p.sessions : p.sessions[i].stream \in Streams
  BY TaskTyped, SessionsTyped DEF Sessions
<1>2. p.task.frame.stream \in Streams
  BY DEF ProcInv, TaskInv
<1>3. /\ q \in Procs(Out) /\ q.sessions = p.sessions /\ q.started = p.started
      /\ q.closedAll = p.closedAll /\ q.callStream = p.task.frame.stream
      /\ GoesOn(p.task, q.task, "handle")
  BY <1>1, <1>2 DEF STT!Tracked, STT!Goto, Procs, Tasks, Places, GoesOn
<1>4. ProcInv(q)
  BY <1>1, <1>3, TrackedKeeps
<1> QED
  BY <1>3, <1>4 DEF Steps, SharedStep, Keeps, GoesOn, Same

(* The pieces of the steps that open a session. *)
SetTask(p, t) == [p EXCEPT !.task = t]
FoundBy(p) == {i \in DOMAIN p.sessions : p.sessions[i].stream = p.task.frame.stream
                                         /\ p.sessions[i].lang = p.task.frame.lang}
OriginOf(p) == IF p.closedAll THEN "late"
               ELSE IF ~p.task.frame.named THEN "unnamed"
               ELSE IF p.task.tries > 0 THEN "retry" ELSE "current"
Opened(p) == [stream |-> p.task.frame.stream, lang |-> p.task.frame.lang,
              origin |-> p.task.origin, dead |-> FALSE, got |-> <<>>, out |-> <<>>]
OneMore(p, n) == [i \in DOMAIN p.sessions \cup {n} |-> IF i = n THEN Opened(p) ELSE p.sessions[i]]

LEMMA SetTaskIs ==
  ASSUME NEW Out, NEW p \in Procs(Out), NEW t \in Tasks
  PROVE  LET q == SetTask(p, t) IN
         /\ q \in Procs(Out) /\ Same(p, q) /\ q.sessions = p.sessions /\ q.replay = p.replay
         /\ q.task = t
BY DEF SetTask, Procs, Same

(* A step that changes what Process is at, and where. *)
LEMMA GotoTask ==
  ASSUME NEW Out, NEW p \in Procs(Out), NEW t, NEW pc
  PROVE  STT!Goto([p EXCEPT !.task = t], pc) = SetTask(p, [t EXCEPT !.pc = pc])
<1>1. PICK q : q = [p EXCEPT !.task = t]
  OBVIOUS
<1>2. q.task = t /\ \A u : [q EXCEPT !.task = u] = [p EXCEPT !.task = u]
  BY <1>1 DEF Procs
<1>3. STT!Goto(q, pc) = [q EXCEPT !.task = [t EXCEPT !.pc = pc]]
  BY <1>2 DEF STT!Goto
<1> QED
  BY <1>1, <1>2, <1>3 DEF SetTask

LEMMA GotoSession ==
  ASSUME NEW Out, NEW p \in Procs(Out), NEW pc, NEW n
  PROVE  STT!Goto([p EXCEPT !.task.session = n], pc) = SetTask(p, [p.task EXCEPT !.session = n, !.pc = pc])
<1>1. STT!Goto([p EXCEPT !.task = [p.task EXCEPT !.session = n]], pc)
        = SetTask(p, [[p.task EXCEPT !.session = n] EXCEPT !.pc = pc])
  BY GotoTask
<1> QED
  BY <1>1

LEMMA GotoOrigin ==
  ASSUME NEW Out, NEW p \in Procs(Out), NEW pc, NEW n
  PROVE  STT!Goto([p EXCEPT !.task.origin = n], pc) = SetTask(p, [p.task EXCEPT !.origin = n, !.pc = pc])
<1>1. STT!Goto([p EXCEPT !.task = [p.task EXCEPT !.origin = n]], pc)
        = SetTask(p, [[p.task EXCEPT !.origin = n] EXCEPT !.pc = pc])
  BY GotoTask
<1> QED
  BY <1>1

LEMMA GotoTries ==
  ASSUME NEW Out, NEW p \in Procs(Out), NEW pc, NEW n
  PROVE  STT!Goto([p EXCEPT !.task.tries = n], pc) = SetTask(p, [p.task EXCEPT !.tries = n, !.pc = pc])
<1>1. STT!Goto([p EXCEPT !.task = [p.task EXCEPT !.tries = n]], pc)
        = SetTask(p, [[p.task EXCEPT !.tries = n] EXCEPT !.pc = pc])
  BY GotoTask
<1> QED
  BY <1>1

LEMMA FoundSteps ==
  ASSUME NEW Out, NEW p \in Procs(Out), ProcInv(p), p.task.pc = "create",
         FoundBy(p) # {},
         NEW q, q = SetTask(p, [p.task EXCEPT !.session = CHOOSE i \in FoundBy(p) : TRUE, !.pc = "send"])
  PROVE  Steps(Out, p, q)
<1>1. /\ p.task \in Tasks /\ p.started \in Nat /\ DOMAIN p.sessions \subseteq Nat
  BY TaskTyped, SessionsTyped DEF Procs
<1>2. PICK n : n = CHOOSE i \in FoundBy(p) : TRUE
  OBVIOUS
<1>3. n \in FoundBy(p)
  BY <1>2
<1>4. n \in Nat /\ n \in DOMAIN p.sessions /\ KeyOf(p.sessions[n]) = KeyOf(p.task.frame)
  BY <1>1, <1>3 DEF KeyOf, FoundBy
<1>5. PICK t : t = [p.task EXCEPT !.session = n, !.pc = "send"]
  OBVIOUS
<1>6. /\ t \in Tasks /\ t.pc = "send" /\ t.frame = p.task.frame /\ t.tries = p.task.tries
      /\ t.session = n
  BY <1>1, <1>4, <1>5 DEF Tasks, Places
<1>7. q = SetTask(p, t)
  BY <1>2, <1>5
<1>8. /\ q \in Procs(Out) /\ Same(p, q) /\ q.sessions = p.sessions /\ q.replay = p.replay
      /\ q.task = t
  BY <1>6, <1>7, SetTaskIs
<1>9. ProcInv(q)
  BY <1>1, <1>4, <1>6, <1>8, FoundKeeps
<1> QED
  BY <1>6, <1>8, <1>9 DEF Steps, SharedStep, Keeps, Same

LEMMA ToStartSteps ==
  ASSUME NEW Out, NEW p \in Procs(Out), ProcInv(p), p.task.pc = "create",
         FoundBy(p) = {},
         NEW q, q = SetTask(p, [p.task EXCEPT !.origin = OriginOf(p), !.pc = "starting"])
  PROVE  Steps(Out, p, q)
<1>1. p.task \in Tasks /\ p.task.tries \in Nat
  BY TaskTyped DEF Tasks
<1>2. OriginOf(p) \in Origins
  BY DEF OriginOf, Origins
<1>3. PICK t : t = [p.task EXCEPT !.origin = OriginOf(p), !.pc = "starting"]
  OBVIOUS
<1>4. /\ t \in Tasks /\ t.pc = "starting" /\ t.frame = p.task.frame /\ t.tries = p.task.tries
      /\ t.session = p.task.session /\ t.origin = OriginOf(p)
  BY <1>1, <1>2, <1>3 DEF Tasks, Places
<1>5. /\ q \in Procs(Out) /\ Same(p, q) /\ q.sessions = p.sessions /\ q.replay = p.replay
      /\ q.task = t
  BY <1>3, <1>4, SetTaskIs
<1>6. \A i \in DOMAIN p.sessions : KeyOf(p.sessions[i]) # KeyOf(p.task.frame)
  BY DEF FoundBy, KeyOf
<1>7. ProcInv(q)
  BY <1>1, <1>4, <1>5, <1>6, ToStartKeeps DEF OriginOf
<1> QED
  BY <1>4, <1>5, <1>7 DEF Steps, SharedStep, Keeps, Same

LEMMA StartReturnsSteps ==
  ASSUME NEW Out, NEW p \in Procs(Out), ProcInv(p), p.task.pc = "starting",
         p.started < MaxSessions, NEW n, n = p.started + 1,
         NEW q, q = SetTask([p EXCEPT !.started = n, !.sessions = OneMore(p, n)],
                            [p.task EXCEPT !.session = n, !.pc = "send"])
  PROVE  Steps(Out, p, q)
<1>1. /\ p.task \in Tasks /\ p.started \in Nat /\ n \in Nat
      /\ DOMAIN p.sessions \subseteq Nat
      /\ \A i \in DOMAIN p.sessions : p.sessions[i] \in Sessions(Out)
  <2>1. p.task \in Tasks
    BY TaskTyped
  <2>2. p.started \in Nat
    BY DEF Procs
  <2>3. n \in Nat
    BY <2>2
  <2>4. /\ DOMAIN p.sessions \subseteq Nat
        /\ \A i \in DOMAIN p.sessions : p.sessions[i] \in Sessions(Out)
    BY SessionsTyped
  <2> QED
    BY <2>1, <2>2, <2>3, <2>4
<1>2. p.task.frame.stream \in Streams
  BY DEF ProcInv, TaskInv, FrameOK
<1>3. /\ Opened(p) \in Sessions(Out) /\ KeyOf(Opened(p)) = KeyOf(p.task.frame)
      /\ Opened(p).got = <<>> /\ Opened(p).out = <<>> /\ Opened(p).origin = p.task.origin
      /\ Opened(p).stream = p.task.frame.stream
  BY <1>1, <1>2, EmptyFacts DEF Opened, Sessions, Tasks, Frames, KeyOf
<1>4. PICK m : m = OneMore(p, n)
  OBVIOUS
<1>5. n \notin DOMAIN p.sessions
  BY <1>1 DEF ProcInv, UniqueInv
<1>6. /\ DOMAIN m = DOMAIN p.sessions \cup {n} /\ m[n] = Opened(p)
      /\ \A i \in DOMAIN p.sessions : m[i] = p.sessions[i]
      /\ m = [i \in DOMAIN m |-> m[i]]
  BY <1>4, <1>5 DEF OneMore
<1>7. m \in SessionMaps(Out)
  <2>1. m \in [DOMAIN p.sessions \cup {n} -> Sessions(Out)] /\ DOMAIN p.sessions \cup {n} \in SUBSET Nat
    BY <1>1, <1>3, <1>6
  <2> QED
    BY <2>1, IsMap
<1>8. PICK t : t = [p.task EXCEPT !.session = n, !.pc = "send"]
  OBVIOUS
<1>9. /\ t \in Tasks /\ t.pc = "send" /\ t.frame = p.task.frame /\ t.tries = p.task.tries
      /\ t.session = n
  BY <1>1, <1>8 DEF Tasks, Places
<1>10. PICK r : r = [p EXCEPT !.started = n, !.sessions = m]
  OBVIOUS
<1>11. /\ r \in Procs(Out) /\ r.sessions = m /\ r.replay = p.replay
       /\ r.started = n /\ r.callStream = p.callStream /\ r.closedAll = p.closedAll
  BY <1>1, <1>7, <1>10 DEF Procs
<1>12. q = SetTask(r, t)
  BY <1>4, <1>8, <1>10
<1>13. /\ q \in Procs(Out) /\ Same(r, q) /\ q.sessions = m /\ q.replay = p.replay /\ q.task = t
  BY <1>9, <1>11, <1>12, SetTaskIs
<1>14. ProcInv(q)
  BY <1>1, <1>3, <1>6, <1>9, <1>11, <1>13, StartKeeps DEF Same
<1> QED
  <2>1. Opens(p, q, n)
    BY <1>3, <1>5, <1>6, <1>13 DEF Opens
  <2>2. SharedStep(p, q)
    BY <1>9, <1>11, <1>13, <2>1 DEF SharedStep, Same
  <2> QED
    BY <1>11, <1>13, <1>14, <2>2 DEF Steps, Same

LEMMA RetrySteps ==
  ASSUME NEW Out, NEW p \in Procs(Out), ProcInv(p), p.task.pc = "retry",
         NEW q, q = SetTask(STT!CloseStream(p, p.task.frame.stream),
                            [p.task EXCEPT !.tries = @ + 1, !.pc = "create"])
  PROVE  Steps(Out, p, q)
<1>1. PICK c : c = STT!CloseStream(p, p.task.frame.stream)
  OBVIOUS
<1>2. p.task.frame.stream \in Streams
  BY DEF ProcInv, TaskInv, FrameOK
<1>3. /\ c \in Procs(Out) /\ Thins(p, c)
      /\ c.started = p.started /\ c.closedAll = p.closedAll
      /\ c.callStream = p.callStream \/ NoCurrent(c)
      /\ \A i \in DOMAIN c.sessions : c.sessions[i].stream # p.task.frame.stream
      /\ \A i \in DOMAIN c.sessions : i \in DOMAIN p.sessions /\ c.sessions[i] = p.sessions[i]
      /\ c.replay[p.task.frame.stream] = <<>>
  <2>1. c \in Procs(Out) /\ c.replay[p.task.frame.stream] = <<>>
    BY <1>1, <1>2, CloseStreamIs
  <2>2. CurrentInv(p)
    BY DEF ProcInv
  <2>3. ClosesStream(p, c, p.task.frame.stream)
    BY <1>1, <2>2, CloseStreamThins
  <2> QED
    BY <2>1, <2>3 DEF ClosesStream
<1>4. p.task \in Tasks
  BY TaskTyped
<1>5. PICK k : k = p.task.tries + 1
  OBVIOUS
<1>6. p.task.tries \in Nat /\ k \in Nat
  BY <1>4, <1>5 DEF Tasks
<1>7. PICK t : t = [p.task EXCEPT !.tries = k, !.pc = "create"]
  OBVIOUS
<1>8. /\ t \in Tasks /\ t.pc = "create" /\ t.frame = p.task.frame /\ t.tries = k
      /\ t.session = p.task.session
  BY <1>4, <1>6, <1>7 DEF Tasks, Places
<1>9. /\ q \in Procs(Out) /\ Same(c, q) /\ q.sessions = c.sessions /\ q.replay = c.replay
      /\ q.task = t
  <2>1. q = SetTask(c, t)
    BY <1>1, <1>5, <1>7
  <2> QED
    BY <1>3, <1>8, <2>1, SetTaskIs
<1>10. ProcInv(q)
  <2>1. Thins(p, q) /\ (q.callStream = p.callStream \/ NoCurrent(q))
    <3>1. PICK m : m = c.sessions /\ m = q.sessions
      BY <1>9
    <3>2. Thins(p, c)
      BY <1>3
    <3>3. Thins(p, q)
      BY <3>1, <3>2 DEF Thins
    <3>4. NoCurrent(c) => NoCurrent(q)
      BY <3>1 DEF NoCurrent
    <3> QED
      BY <1>3, <1>9, <3>3, <3>4 DEF Same
  <2>2. q.started = p.started /\ q.closedAll = p.closedAll
    BY <1>3, <1>9 DEF Same
  <2>3. /\ q.task.pc = "create" /\ q.task.frame = p.task.frame
        /\ q.task.tries = p.task.tries + 1 /\ q.task.session = p.task.session
    BY <1>5, <1>8, <1>9
  <2> QED
    BY <1>6, <2>1, <2>2, <2>3, RetryKeeps
<1> QED
  BY <1>3, <1>8, <1>9, <1>10 DEF Steps, SharedStep, Keeps, Same

(* Both processors take these steps. *)
LEMMA SttSteps ==
  ASSUME stt \in Procs(Signals), ProcInv(stt), STT!SessionStep \/ STT!StartReturns
  PROVE  Steps(Signals, stt, stt')
<1> USE DEF STT!At, STT!task, STT!frame, STT!sessions
<1>1. CASE STT!TrackCallStream
  BY <1>1, TrackCallStreamSteps DEF STT!TrackCallStream
<1>2. CASE STT!ReplaceStream
  BY <1>2, ReplaceStreamSteps DEF STT!ReplaceStream
<1>3. CASE STT!TrackReplacement
  BY <1>3, TrackReplacementSteps DEF STT!TrackReplacement
<1>4. CASE STT!GetOrCreate
  <2>1. stt.task \in Tasks /\ STT!Found = FoundBy(stt) /\ STT!Origin = OriginOf(stt)
    BY <1>4, TaskTyped DEF STT!GetOrCreate, STT!Found, FoundBy, STT!Origin, OriginOf
  <2>2. CASE FoundBy(stt) # {}
    <3>1. PICK n : n = CHOOSE i \in FoundBy(stt) : TRUE
      OBVIOUS
    <3>2. stt' = STT!Goto([stt EXCEPT !.task.session = n], "send") /\ stt.task.pc = "create"
      BY <1>4, <2>1, <2>2, <3>1 DEF STT!GetOrCreate
    <3>3. stt' = SetTask(stt, [stt.task EXCEPT !.session = n, !.pc = "send"])
      BY <3>2, GotoSession
    <3> QED
      BY <2>2, <3>1, <3>2, <3>3, FoundSteps
  <2>3. CASE FoundBy(stt) = {}
    <3>1. PICK n : n = OriginOf(stt)
      OBVIOUS
    <3>2. stt' = STT!Goto([stt EXCEPT !.task.origin = n], "starting") /\ stt.task.pc = "create"
      BY <1>4, <2>1, <2>3, <3>1 DEF STT!GetOrCreate
    <3>3. stt' = SetTask(stt, [stt.task EXCEPT !.origin = n, !.pc = "starting"])
      BY <3>2, GotoOrigin
    <3> QED
      BY <2>3, <3>1, <3>2, <3>3, ToStartSteps
  <2> QED
    BY <2>2, <2>3
<1>5. CASE STT!Retry
  <2>1. PICK c : c = STT!CloseStream(stt, stt.task.frame.stream)
    OBVIOUS
  <2>2. c \in Procs(Signals) /\ c.task = stt.task /\ c.task \in Tasks
    BY <1>5, <2>1, CloseStreamIs, TaskTyped DEF STT!Retry
  <2>3. PICK k : k = stt.task.tries + 1
    OBVIOUS
  <2>4. stt' = STT!Goto([c EXCEPT !.task.tries = k], "create") /\ stt.task.pc = "retry"
    BY <1>5, <2>1, <2>2, <2>3 DEF STT!Retry
  <2>5. stt' = SetTask(c, [c.task EXCEPT !.tries = k, !.pc = "create"])
    BY <2>2, <2>4, GotoTries
  <2>6. stt' = SetTask(c, [stt.task EXCEPT !.tries = k, !.pc = "create"])
    BY <2>2, <2>5
  <2> QED
    BY <2>1, <2>3, <2>4, <2>6, RetrySteps
<1>6. CASE STT!StartReturns
  <2>1. PICK n : n = stt.started + 1
    OBVIOUS
  <2>2. stt.task \in Tasks /\ n \in Nat /\ stt.started \in Nat
    BY <1>6, <2>1, TaskTyped DEF STT!StartReturns, Procs
  <2>3. STT!NewSession = Opened(stt)
    BY DEF STT!NewSession, Opened
  <2>4. stt' = STT!Goto([stt EXCEPT !.started = n, !.task.session = n,
                                    !.sessions = OneMore(stt, n)], "send")
    BY <1>6, <2>1, <2>3 DEF STT!StartReturns, OneMore
  <2>5. stt' = SetTask([stt EXCEPT !.started = n, !.sessions = OneMore(stt, n)],
                       [stt.task EXCEPT !.session = n, !.pc = "send"])
    BY <2>2, <2>4 DEF STT!Goto, SetTask, Procs
  <2> QED
    BY <1>6, <2>1, <2>5, StartReturnsSteps DEF STT!StartReturns
<1> QED
  BY <1>1, <1>2, <1>3, <1>4, <1>5, <1>6 DEF STT!SessionStep

(* The operators of the two are the same. *)
LEMMA SameOperators ==
  ASSUME NEW p, NEW pc, NEW s
  PROVE  /\ TTS!Goto(p, pc) = STT!Goto(p, pc) /\ TTS!Done(p) = STT!Done(p)
         /\ TTS!CloseStream(p, s) = STT!CloseStream(p, s)
         /\ TTS!Tracked(p, s) = STT!Tracked(p, s)
BY DEF STT!Goto, TTS!Goto, STT!Done, TTS!Done, STT!Idle, TTS!Idle, STT!Tracked, TTS!Tracked,
       STT!CloseStream, TTS!CloseStream, STT!Restrict, TTS!Restrict, STT!OfStream, TTS!OfStream

LEMMA TtsSteps ==
  ASSUME tts \in Procs(Items), ProcInv(tts), TTS!SessionStep \/ TTS!StartReturns
  PROVE  Steps(Items, tts, tts')
<1> USE DEF TTS!At, TTS!task, TTS!frame, TTS!sessions
<1>1. CASE TTS!TrackCallStream
  BY <1>1, SameOperators, TrackCallStreamSteps DEF TTS!TrackCallStream
<1>2. CASE TTS!ReplaceStream
  BY <1>2, SameOperators, ReplaceStreamSteps DEF TTS!ReplaceStream
<1>3. CASE TTS!TrackReplacement
  BY <1>3, SameOperators, TrackReplacementSteps DEF TTS!TrackReplacement
<1>4. CASE TTS!GetOrCreate
  <2>1. tts.task \in Tasks /\ TTS!Found = FoundBy(tts) /\ TTS!Origin = OriginOf(tts)
    BY <1>4, TaskTyped DEF TTS!GetOrCreate, TTS!Found, FoundBy, TTS!Origin, OriginOf
  <2>2. CASE FoundBy(tts) # {}
    <3>1. PICK n : n = CHOOSE i \in FoundBy(tts) : TRUE
      OBVIOUS
    <3>2. tts' = STT!Goto([tts EXCEPT !.task.session = n], "send") /\ tts.task.pc = "create"
      BY <1>4, <2>1, <2>2, <3>1, SameOperators DEF TTS!GetOrCreate
    <3>3. tts' = SetTask(tts, [tts.task EXCEPT !.session = n, !.pc = "send"])
      BY <3>2, GotoSession
    <3> QED
      BY <2>2, <3>1, <3>2, <3>3, FoundSteps
  <2>3. CASE FoundBy(tts) = {}
    <3>1. PICK n : n = OriginOf(tts)
      OBVIOUS
    <3>2. tts' = STT!Goto([tts EXCEPT !.task.origin = n], "starting") /\ tts.task.pc = "create"
      BY <1>4, <2>1, <2>3, <3>1, SameOperators DEF TTS!GetOrCreate
    <3>3. tts' = SetTask(tts, [tts.task EXCEPT !.origin = n, !.pc = "starting"])
      BY <3>2, GotoOrigin
    <3> QED
      BY <2>3, <3>1, <3>2, <3>3, ToStartSteps
  <2> QED
    BY <2>2, <2>3
<1>5. CASE TTS!Retry
  <2>1. PICK c : c = STT!CloseStream(tts, tts.task.frame.stream)
    OBVIOUS
  <2>2. c \in Procs(Items) /\ c.task = tts.task /\ c.task \in Tasks
    BY <1>5, <2>1, CloseStreamIs, TaskTyped DEF TTS!Retry
  <2>3. PICK k : k = tts.task.tries + 1
    OBVIOUS
  <2>4. tts' = STT!Goto([c EXCEPT !.task.tries = k], "create") /\ tts.task.pc = "retry"
    BY <1>5, <2>1, <2>2, <2>3, SameOperators DEF TTS!Retry
  <2>5. tts' = SetTask(c, [c.task EXCEPT !.tries = k, !.pc = "create"])
    BY <2>2, <2>4, GotoTries
  <2>6. tts' = SetTask(c, [tts.task EXCEPT !.tries = k, !.pc = "create"])
    BY <2>2, <2>5
  <2> QED
    BY <2>1, <2>3, <2>4, <2>6, RetrySteps
<1>6. CASE TTS!StartReturns
  <2>1. PICK n : n = tts.started + 1
    OBVIOUS
  <2>2. tts.task \in Tasks /\ n \in Nat /\ tts.started \in Nat
    BY <1>6, <2>1, TaskTyped DEF TTS!StartReturns, Procs
  <2>3. TTS!NewSession = Opened(tts)
    BY DEF TTS!NewSession, Opened
  <2>4. tts' = TTS!Goto([tts EXCEPT !.started = n, !.task.session = n,
                                    !.sessions = OneMore(tts, n)], "send")
    BY <1>6, <2>1, <2>3 DEF TTS!StartReturns, OneMore
  <2>5. tts' = SetTask([tts EXCEPT !.started = n, !.sessions = OneMore(tts, n)],
                       [tts.task EXCEPT !.session = n, !.pc = "send"])
    BY <2>2, <2>4 DEF TTS!Goto, SetTask, Procs
  <2> QED
    BY <1>6, <2>1, <2>5, StartReturnsSteps DEF TTS!StartReturns
<1> QED
  BY <1>1, <1>2, <1>3, <1>4, <1>5, <1>6 DEF TTS!SessionStep

-----------------------------------------------------------------------------
(* The other steps of a processor: a frame comes, *)
LEMMA BeginSteps ==
  ASSUME NEW Out, NEW p \in Procs(Out), ProcInv(p), p.task.pc = "idle",
         NEW f, FrameOK(f), NEW pc,
         \/ pc = "track" /\ f.named /\ f.stream \in Streams
         \/ pc = "handle" /\ (f.kind \in {"audio", "text"} => ~f.named),
         NEW q, q = SetTask(p,
           [pc |-> pc, frame |-> f, tries |-> 0, replayed |-> FALSE, prev |-> NoStream,
            session |-> 0, origin |-> "current"])
  PROVE  /\ q \in Procs(Out) /\ ProcInv(q) /\ q.sessions = p.sessions /\ q.replay = p.replay
         /\ q.closedAll = p.closedAll
         /\ q.task.pc = pc /\ q.task.frame = f /\ q.task.tries = 0
<1>1. PICK t : t = [pc |-> pc, frame |-> f, tries |-> 0, replayed |-> FALSE, prev |-> NoStream,
                    session |-> 0, origin |-> "current"]
  OBVIOUS
<1>2. /\ t \in Tasks /\ t.pc = pc /\ t.frame = f /\ t.tries = 0 /\ t.session = 0
  BY <1>1 DEF Tasks, Places, Origins, FrameOK
<1>3. q = SetTask(p, t)
  BY <1>1
<1>4. /\ q \in Procs(Out) /\ Same(p, q) /\ q.sessions = p.sessions /\ q.replay = p.replay
      /\ q.task = t
  BY <1>2, <1>3, SetTaskIs
<1>5. p.started \in Nat
  BY DEF Procs
<1>6. ProcInv(q)
  BY <1>2, <1>4, <1>5, BeginKeeps
<1> QED
  BY <1>2, <1>4, <1>6 DEF Same

(* Process goes on or returns. *)
LEMMA GoesOnSteps ==
  ASSUME NEW Out, NEW p \in Procs(Out), ProcInv(p), NEW pc,
         \/ pc = "control" /\ p.task.pc = "handle"
         \/ pc = "create" /\ p.task.pc = "handle" /\ p.task.frame.kind \in {"audio", "text"}
         \/ pc = "retry" /\ p.task.pc \in {"starting", "send"},
         NEW q, q = STT!Goto(p, pc)
  PROVE  /\ q \in Procs(Out) /\ ProcInv(q) /\ q.sessions = p.sessions /\ q.replay = p.replay
         /\ q.closedAll = p.closedAll
         /\ q.task.pc = pc /\ q.task.frame = p.task.frame /\ q.task.tries = p.task.tries
<1>1. p.task \in Tasks /\ pc \in Places
  BY TaskTyped DEF Places
<1>2. /\ q \in Procs(Out) /\ Same(p, q)
      /\ q.sessions = p.sessions /\ q.replay = p.replay /\ GoesOn(p.task, q.task, pc)
  BY <1>1, GotoIs
<1>3. Thins(p, q)
  BY <1>2 DEF Thins
<1>4. ProcInv(q)
  BY <1>2, <1>3, ProcessGoesOn
<1> QED
  BY <1>2, <1>4 DEF Same, GoesOn

Returns(Out, p, q) ==
  /\ q \in Procs(Out) /\ ProcInv(q) /\ q.closedAll = p.closedAll /\ q.task.pc = "idle"

LEMMA ReturnSteps ==
  ASSUME NEW Out, NEW p \in Procs(Out), ProcInv(p),
         NEW q, q \in Procs(Out), Same(p, q), q.sessions = p.sessions, q.task = STT!Idle
  PROVE  Returns(Out, p, q)
<1>1. Thins(p, q)
  BY DEF Thins
<1>2. ProcInv(q)
  BY <1>1, ProcessReturns DEF Same
<1> QED
  BY <1>2 DEF Returns, Same, STT!Idle

LEMMA DoneSteps ==
  ASSUME NEW Out, NEW p \in Procs(Out), ProcInv(p), NEW q, q = STT!Done(p)
  PROVE  Returns(Out, p, q) /\ q.sessions = p.sessions
BY DoneIs, ReturnSteps

LEMMA CloseSteps ==
  ASSUME NEW Out, NEW p \in Procs(Out), ProcInv(p), NEW s,
         NEW q, q = STT!Done(STT!CloseStream(p, s))
  PROVE  /\ Returns(Out, p, q) /\ Keeps(p, q)
         /\ \A i \in DOMAIN q.sessions : q.sessions[i].stream # s
<1>1. PICK c : c = STT!CloseStream(p, s)
  OBVIOUS
<1>2. /\ c \in Procs(Out) /\ Thins(p, c) /\ c.started = p.started /\ c.closedAll = p.closedAll
      /\ c.callStream = p.callStream \/ NoCurrent(c)
      /\ \A i \in DOMAIN c.sessions : c.sessions[i].stream # s
      /\ \A i \in DOMAIN c.sessions : i \in DOMAIN p.sessions /\ c.sessions[i] = p.sessions[i]
  <2>1. c \in Procs(Out)
    BY <1>1, CloseStreamIs
  <2>2. ClosesStream(p, c, s)
    BY <1>1, CloseStreamThins DEF ProcInv
  <2> QED
    BY <2>1, <2>2 DEF ClosesStream
<1>3. /\ q \in Procs(Out) /\ Same(c, q) /\ q.sessions = c.sessions /\ q.task = STT!Idle
  BY <1>1, <1>2, DoneIs
<1>4. ProcInv(q)
  BY <1>2, <1>3, ProcessReturns DEF Same, Thins, NoCurrent
<1> QED
  BY <1>2, <1>3, <1>4 DEF Returns, Keeps, Same, STT!Idle

(* All sessions are closed. *)
LEMMA NoSessions ==
  ASSUME NEW Out
  PROVE  DOMAIN <<>> = {} /\ <<>> \in SessionMaps(Out)
<1>1. DOMAIN <<>> = {} /\ <<>> \in [{} -> Sessions(Out)]
  OBVIOUS
<1> QED
  BY <1>1, IsMap

Cleared(Out, p, q) ==
  \E e \in SessionMaps(Out), r \in [Streams -> Seq(Items)] :
    /\ DOMAIN e = {} /\ \A s \in Streams : r[s] = <<>>
    /\ q = [p EXCEPT !.sessions = e, !.callStream = NoStream, !.tracked = {},
                     !.replay = r, !.closedAll = TRUE]

(* Everything is closed, and Process is where it was. *)
AllClosed(Out, p, q) ==
  /\ q \in Procs(Out) /\ ProcInv(q) /\ q.closedAll = TRUE
  /\ q.task = p.task /\ DOMAIN q.sessions = {}
  /\ \A s \in Streams : q.replay[s] = <<>>

LEMMA CloseAllSteps ==
  ASSUME NEW Out, NEW p \in Procs(Out), ProcInv(p), p.task.pc # "starting",
         NEW q, Cleared(Out, p, q)
  PROVE  AllClosed(Out, p, q)
<1>1. PICK e \in SessionMaps(Out), r \in [Streams -> Seq(Items)] :
        /\ DOMAIN e = {} /\ \A s \in Streams : r[s] = <<>>
        /\ q = [p EXCEPT !.sessions = e, !.callStream = NoStream, !.tracked = {},
                         !.replay = r, !.closedAll = TRUE]
  BY DEF Cleared
<1>2. /\ q \in Procs(Out) /\ q.sessions = e /\ q.replay = r /\ q.closedAll /\ q.task = p.task
      /\ q.started = p.started
  BY <1>1 DEF Procs
<1>3. DOMAIN q.sessions = {}
  BY <1>1, <1>2
<1>4. ProcInv(q)
  BY <1>2, <1>3 DEF ProcInv, TaskInv, UniqueInv, CurrentInv, LateInv
<1> QED
  BY <1>1, <1>2, <1>3, <1>4 DEF AllClosed

LEMMA CloseAllClears ==
  /\ STT!CloseAll => Cleared(Signals, stt, stt')
  /\ TTS!CloseAll => Cleared(Items, tts, tts')
<1>1. PICK e : e = <<>>
  OBVIOUS
<1>2. PICK r : r = [s \in Streams |-> <<>>]
  OBVIOUS
<1>3. /\ e \in SessionMaps(Signals) /\ e \in SessionMaps(Items) /\ DOMAIN e = {}
      /\ r \in [Streams -> Seq(Items)] /\ \A s \in Streams : r[s] = <<>>
  BY <1>1, <1>2, NoSessions, EmptyFacts
<1>4. ASSUME STT!CloseAll
      PROVE  stt' = [stt EXCEPT !.sessions = e, !.callStream = NoStream, !.tracked = {},
                                !.replay = r, !.closedAll = TRUE]
  BY <1>1, <1>2, <1>4 DEF STT!CloseAll
<1>5. ASSUME TTS!CloseAll
      PROVE  tts' = [tts EXCEPT !.sessions = e, !.callStream = NoStream, !.tracked = {},
                                !.replay = r, !.closedAll = TRUE]
  BY <1>1, <1>2, <1>5 DEF TTS!CloseAll
<1> QED
  BY <1>3, <1>4, <1>5 DEF Cleared

(* A session changes, *)
Sets(p, q, i, x) ==
  /\ DOMAIN q.sessions = DOMAIN p.sessions /\ q.sessions[i] = x
  /\ \A j \in DOMAIN p.sessions : j # i => q.sessions[j] = p.sessions[j]

LEMMA SessionSteps ==
  ASSUME NEW Out, NEW p \in Procs(Out), ProcInv(p), NEW i \in DOMAIN p.sessions,
         NEW x \in Sessions(Out), x.stream = p.sessions[i].stream,
         x.lang = p.sessions[i].lang, x.origin = p.sessions[i].origin,
         NEW q, q = [p EXCEPT !.sessions = [p.sessions EXCEPT ![i] = x]]
  PROVE  /\ q \in Procs(Out) /\ ProcInv(q) /\ Sets(p, q, i, x)
         /\ q.closedAll = p.closedAll /\ q.task = p.task /\ q.replay = p.replay
<1>1. PICK m : m = [p.sessions EXCEPT ![i] = x]
  OBVIOUS
<1>2. /\ DOMAIN p.sessions \subseteq Nat /\ p.sessions = [j \in DOMAIN p.sessions |-> p.sessions[j]]
      /\ \A j \in DOMAIN p.sessions : p.sessions[j] \in Sessions(Out)
  BY SessionsTyped
<1>3. /\ DOMAIN m = DOMAIN p.sessions /\ m[i] = x /\ m \in [DOMAIN p.sessions -> Sessions(Out)]
      /\ \A j \in DOMAIN p.sessions : j # i => m[j] = p.sessions[j]
  BY <1>1, <1>2
<1>4. m \in SessionMaps(Out)
  BY <1>2, <1>3, IsMap
<1>5. /\ q \in Procs(Out) /\ q.sessions = m /\ Same(p, q) /\ q.task = p.task /\ q.replay = p.replay
  BY <1>1, <1>4 DEF Procs, Same
<1>6. Thins(p, q)
  BY <1>3, <1>5 DEF Thins
<1>7. ProcInv(q)
  BY <1>5, <1>6, ProcessStays
<1> QED
  BY <1>3, <1>5, <1>7 DEF Sets, Same

(* or the breaker. *)
LEMMA CoolDownSteps ==
  ASSUME NEW Out, NEW p \in Procs(Out), ProcInv(p),
         NEW q, q = [p EXCEPT !.breaker = CooledDown(@)]
  PROVE  /\ q \in Procs(Out) /\ ProcInv(q) /\ q.sessions = p.sessions
         /\ q.closedAll = p.closedAll /\ q.task = p.task /\ q.replay = p.replay
<1>1. PICK b : b = CooledDown(p.breaker)
  OBVIOUS
<1>2. b \in Breaker
  BY <1>1, BreakerTyped DEF Procs
<1>3. q = [p EXCEPT !.breaker = b]
  BY <1>1
<1>4. /\ q \in Procs(Out) /\ q.sessions = p.sessions /\ Same(p, q) /\ q.task = p.task
      /\ q.replay = p.replay
  BY <1>2, <1>3 DEF Procs, Same
<1>5. Thins(p, q)
  BY <1>4 DEF Thins
<1> QED
  BY <1>4, <1>5, ProcessStays DEF Same

-----------------------------------------------------------------------------
(* What the steps of the STT processor do to the audio kept for a replay. *)
LEMMA ReplayKeeps ==
  ASSUME NEW p, NEW q, ReplayInv(p),
         \/ q.task.pc = "idle"
         \/ /\ p.task.pc # "idle" /\ q.task.frame = p.task.frame
            /\ q.task.pc \in {"create", "starting", "send"} /\ q.task.tries > 0 =>
                 q.replay[q.task.frame.stream] = <<>>
  PROVE  ReplayInv(q)
BY DEF ReplayInv

LEMMA RetryOpens ==
  ASSUME NEW p, NEW q, ReplayInv(p),
         p.task.pc = "starting", q.task.pc = "send", q.task.frame = p.task.frame,
         q.task.tries = p.task.tries, q.replay = p.replay
  PROVE  ReplayInv(q)
BY DEF ReplayInv

LEMMA SharedReplay ==
  ASSUME NEW p, NEW q, ReplayInv(p), TaskInv(p), SharedStep(p, q), TaskInv(q),
         q.task.tries \in Nat
  PROVE  ReplayInv(q)
<1>1. CASE p.task.pc \in {"track", "replace", "replaced"}
  <2>1. Keeps(p, q) /\ q.task.pc \in {"replace", "replaced", "handle"}
    BY <1>1 DEF SharedStep
  <2> QED
    BY <1>1, <2>1, ReplayKeeps DEF SharedStep
<1>2. CASE p.task.pc = "create"
  <2>1. Keeps(p, q) /\ q.task.tries = p.task.tries /\ q.replay = p.replay
        /\ q.task.frame = p.task.frame
    BY <1>2 DEF SharedStep
  <2>2. q.task.tries > 0 => q.replay[q.task.frame.stream] = <<>>
    BY <1>2, <2>1 DEF ReplayInv
  <2> QED
    BY <1>2, <2>1, <2>2, ReplayKeeps
<1>3. CASE p.task.pc = "starting"
  BY <1>3, RetryOpens DEF SharedStep
<1>4. CASE p.task.pc = "retry"
  <2>1. Keeps(p, q) /\ q.replay[p.task.frame.stream] = <<>> /\ q.task.frame = p.task.frame
    BY <1>4 DEF SharedStep
  <2> QED
    BY <1>4, <2>1, ReplayKeeps
<1> QED
  BY <1>1, <1>2, <1>3, <1>4 DEF SharedStep

(* Frames that go down are typed. *)
LEMMA FramesGoDown ==
  ASSUME NEW d \in Seq(Signals), NEW f \in Signals, NEW out \in Seq(Signals)
  PROVE  d \o <<f>> \in Seq(Signals) /\ d \o (<<f>> \o out) \in Seq(Signals)
<1>1. <<f>> \in Seq(Signals)
  OBVIOUS
<1>2. <<f>> \o out \in Seq(Signals)
  BY <1>1, ConcatProperties
<1> QED
  BY <1>1, <1>2, ConcatProperties

(* After a step of the STT processor. *)
SttOK(p, q, d) ==
  /\ q \in Procs(Signals) /\ ProcInv(q) /\ q.closedAll = p.closedAll
  /\ d \in Seq(Signals) /\ ReplayInv(q)

LEMMA SttSharedOK ==
  ASSUME TypesInv, ProcInv(stt), ReplayInv(stt),
         STT!SessionStep \/ STT!StartReturns, UNCHANGED down
  PROVE  SttOK(stt, stt', down')
<1>1. stt \in Procs(Signals) /\ down \in Seq(Signals)
  BY DEF TypesInv
<1>2. Steps(Signals, stt, stt')
  BY <1>1, SttSteps
<1>3. stt' \in Procs(Signals) /\ TaskInv(stt') /\ TaskInv(stt) /\ SharedStep(stt, stt')
  BY <1>2 DEF Steps, ProcInv
<1>4. stt'.task \in Tasks
  BY <1>3, TaskTyped DEF SharedStep
<1>5. ReplayInv(stt')
  BY <1>3, <1>4, SharedReplay DEF Tasks
<1> QED
  BY <1>1, <1>2, <1>5 DEF SttOK, Steps

LEMMA HandleSystemOK ==
  ASSUME TypesInv, ProcInv(stt), ReplayInv(stt), STT!HandleSystem
  PROVE  SttOK(stt, stt', down')
<1> USE DEF STT!At, STT!task, STT!frame, STT!sessions
<1>1. /\ stt \in Procs(Signals) /\ down \in Seq(Signals) /\ stt.task.pc = "handle"
      /\ stt.task \in Tasks /\ FrameOK(stt.task.frame) /\ stt.task.frame \in Frames
      /\ stt.task.frame.kind \in {"call_end", "language"}
  BY TaskTyped DEF TypesInv, STT!HandleSystem, ProcInv, TaskInv, Tasks
<1>2. Returns(Signals, stt, stt') /\ Keeps(stt, stt')
  <2>1. \/ stt' = STT!Done(stt)
        \/ \E s : stt' = STT!Done(STT!CloseStream(stt, s))
    BY DEF STT!HandleSystem, STT!CallEnd
  <2>2. CASE stt' = STT!Done(stt)
    BY <1>1, <2>2, DoneSteps DEF Keeps
  <2>3. ASSUME NEW s, stt' = STT!Done(STT!CloseStream(stt, s))
        PROVE  Returns(Signals, stt, stt') /\ Keeps(stt, stt')
    BY <1>1, <2>3, CloseSteps
  <2> QED
    BY <2>1, <2>2, <2>3
<1>3. ReplayInv(stt')
  BY <1>2, ReplayKeeps DEF Returns
<1>4. PICK f : f = [stt.task.frame EXCEPT !.kind = IF @ = "call_end" THEN @ ELSE "other"]
  OBVIOUS
<1>5. f \in Signals
  <2>1. f \in Frames /\ f.kind \in {"call_end", "other"}
    BY <1>1, <1>4 DEF Frames
  <2> QED
    BY <2>1 DEF Signals, FrameOK
<1>6. down' = down \o <<f>>
  BY <1>4 DEF STT!HandleSystem, STT!Emits
<1>7. down' \in Seq(Signals)
  BY <1>1, <1>5, <1>6, FramesGoDown, EmptyFacts
<1> QED
  BY <1>2, <1>3, <1>7 DEF SttOK, Returns

LEMMA RememberedTyped ==
  ASSUME NEW chunks \in Seq(Items), stt.task.frame.item \in Items
  PROVE  STT!Remembered(chunks) \in Seq(Items)
<1>1. PICK more : more = Append(chunks, stt.task.frame.item)
  OBVIOUS
<1>2. more \in Seq(Items) /\ Len(more) \in Nat /\ \A i \in 1 .. Len(more) : more[i] \in Items
  BY <1>1, AppendProperties, LenProperties
<1>3. PICK m : m = IF Len(more) > ReplayCap THEN Len(more) - ReplayCap + 1 ELSE 1
  OBVIOUS
<1>4. m \in Int /\ m >= 1
  BY <1>2, <1>3, SpeechAssumption
<1>5. SubSeq(more, m, Len(more)) \in Seq(Items)
  BY <1>2, <1>4, SubSeqProperties
<1> QED
  BY <1>1, <1>3, <1>5 DEF STT!Remembered, STT!frame, STT!task

FallbackOf(f) == [kind |-> "fallback", stream |-> f.stream, named |-> f.named,
                  lang |-> NoLang, item |-> 0]

LEMMA FallbackTyped ==
  ASSUME NEW f, FrameOK(f), f.stream \in Streams
  PROVE  FallbackOf(f) \in Signals
BY SpeechAssumption DEF FallbackOf, Signals, FrameOK, Frames

LEMMA HandleAudioOK ==
  ASSUME TypesInv, ProcInv(stt), ReplayInv(stt), STT!HandleAudio
  PROVE  SttOK(stt, stt', down')
<1> USE DEF STT!At, STT!task, STT!frame, STT!sessions
<1>1. /\ stt \in Procs(Signals) /\ down \in Seq(Signals) /\ stt.task.pc = "handle"
      /\ stt.task \in Tasks /\ FrameOK(stt.task.frame) /\ stt.task.frame \in Frames
      /\ stt.task.frame.kind = "audio" /\ stt.task.tries = 0
      /\ stt.task.frame.stream \in Streams /\ stt.task.frame.item \in Items
  BY TaskTyped DEF TypesInv, STT!HandleAudio, ProcInv, TaskInv, Tasks, FrameOK
<1>2. PICK r : r = [stt.replay EXCEPT ![stt.task.frame.stream] = STT!Remembered(@)]
  OBVIOUS
<1>3. r \in [Streams -> Seq(Items)]
  BY <1>1, <1>2, RememberedTyped DEF Procs
<1>4. PICK p : p = [stt EXCEPT !.replay = r]
  OBVIOUS
<1>5. /\ p \in Procs(Signals) /\ Same(stt, p) /\ p.sessions = stt.sessions /\ p.task = stt.task
  BY <1>1, <1>3, <1>4 DEF Procs, Same
<1>6. ProcInv(p)
  <2>1. Thins(stt, p)
    BY <1>5 DEF Thins
  <2> QED
    BY <1>5, <2>1, ProcessStays
<1>7. \/ stt' = STT!Goto(p, "create") /\ down' = down
      \/ stt' = STT!Done(p) /\ down' = down \o <<FallbackOf(stt.task.frame)>>
  BY <1>2, <1>4 DEF STT!HandleAudio, STT!Emits, STT!Fallback, STT!SpeechFrame, FallbackOf
<1>8. CASE stt' = STT!Goto(p, "create") /\ down' = down
  <2>1. /\ stt' \in Procs(Signals) /\ ProcInv(stt') /\ stt'.sessions = p.sessions
        /\ stt'.closedAll = p.closedAll
        /\ stt'.task.pc = "create" /\ stt'.task.frame = p.task.frame
        /\ stt'.task.tries = p.task.tries
    BY <1>1, <1>5, <1>6, <1>8, GoesOnSteps
  <2>2. Keeps(stt, stt')
    BY <1>5, <2>1 DEF Keeps
  <2>3. ReplayInv(stt')
    BY <1>1, <1>5, <2>1, <2>2, ReplayKeeps
  <2> QED
    BY <1>1, <1>5, <1>8, <2>1, <2>3 DEF SttOK, Same
<1>9. CASE stt' = STT!Done(p) /\ down' = down \o <<FallbackOf(stt.task.frame)>>
  <2>1. Returns(Signals, p, stt') /\ stt'.sessions = p.sessions
    BY <1>5, <1>6, <1>9, DoneSteps
  <2>2. ReplayInv(stt')
    BY <1>5, <2>1, ReplayKeeps DEF Keeps, Returns
  <2>3. down' \in Seq(Signals)
    BY <1>1, <1>9, FallbackTyped, FramesGoDown, EmptyFacts
  <2> QED
    BY <1>5, <2>1, <2>2, <2>3 DEF SttOK, Returns, Same
<1> QED
  BY <1>7, <1>8, <1>9

LEMMA SttFailsOK ==
  ASSUME TypesInv, ProcInv(stt), ReplayInv(stt), NEW err, STT!Fails(err)
  PROVE  SttOK(stt, stt', down')
<1> USE DEF STT!At, STT!task, STT!frame, STT!sessions
<1>1. /\ stt \in Procs(Signals) /\ down \in Seq(Signals) /\ stt.task.pc \in {"starting", "send"}
      /\ stt.task \in Tasks /\ FrameOK(stt.task.frame)
      /\ stt.task.frame.stream \in Streams
  BY TaskTyped DEF TypesInv, STT!Fails, ProcInv, TaskInv, FrameOK
<1>2. CASE STT!MayRetry
  <2>1. PICK b : b = (stt.task.replayed \/ (stt.task.pc = "send" /\ stt.task.tries > 0))
    OBVIOUS
  <2>2. b \in BOOLEAN
    BY <2>1
  <2>3. PICK t : t = [stt.task EXCEPT !.replayed = b]
    OBVIOUS
  <2>4. /\ t \in Tasks /\ t.pc = stt.task.pc /\ t.frame = stt.task.frame
        /\ t.tries = stt.task.tries /\ t.prev = stt.task.prev
        /\ t.session = stt.task.session /\ t.origin = stt.task.origin
    BY <1>1, <2>2, <2>3 DEF Tasks
  <2>5. PICK p : p = SetTask(stt, t)
    OBVIOUS
  <2>6. /\ p \in Procs(Signals) /\ Same(stt, p) /\ p.sessions = stt.sessions /\ p.task = t
    BY <1>1, <2>4, <2>5, SetTaskIs
  <2>7. stt' = STT!Goto(p, "retry") /\ down' = down
    <3>1. p = [stt EXCEPT !.task.replayed =
                            stt.task.replayed \/ (stt.task.pc = "send" /\ stt.task.tries > 0)]
      BY <1>1, <2>1, <2>3, <2>5 DEF SetTask
    <3> QED
      BY <1>2, <3>1 DEF STT!Fails
  <2>8. p.task \in Tasks /\ "retry" \in Places
    BY <2>4, <2>6 DEF Places
  <2>9. /\ stt' \in Procs(Signals) /\ Same(p, stt') /\ stt'.sessions = p.sessions
        /\ GoesOn(p.task, stt'.task, "retry")
    BY <2>6, <2>7, <2>8, GotoIs
  <2>10. Thins(stt, stt') /\ Keeps(stt, stt') /\ Same(stt, stt')
         /\ GoesOn(stt.task, stt'.task, "retry")
    BY <2>4, <2>6, <2>9 DEF Thins, Keeps, Same, GoesOn
  <2>11. ProcInv(stt')
    BY <1>1, <2>10, ProcessGoesOn
  <2>12. ReplayInv(stt')
    BY <1>1, <2>10, ReplayKeeps DEF GoesOn
  <2> QED
    BY <1>1, <2>7, <2>9, <2>10, <2>11, <2>12 DEF SttOK, Same
<1>3. CASE ~STT!MayRetry
  <2>1. stt' = STT!GaveUp(stt, err) /\ down' = down \o <<FallbackOf(stt.task.frame)>>
    BY <1>3 DEF STT!Fails, STT!Emits, STT!Fallback, STT!SpeechFrame, FallbackOf
  <2>2. /\ stt' \in Procs(Signals) /\ Same(stt, stt') /\ stt'.sessions = stt.sessions
        /\ stt'.task = STT!Idle
    BY <1>1, <2>1, EndsIs
  <2>3. Returns(Signals, stt, stt')
    BY <1>1, <2>2, ReturnSteps
  <2>4. ReplayInv(stt')
    BY <2>2, <2>3, ReplayKeeps DEF Keeps, Returns
  <2>5. down' \in Seq(Signals)
    BY <1>1, <2>1, FallbackTyped, FramesGoDown, EmptyFacts
  <2> QED
    BY <2>3, <2>4, <2>5 DEF SttOK, Returns
<1> QED
  BY <1>2, <1>3

(* Whatever was kept, a session is given the piece at hand alone. *)
LEMMA SendAudioOK ==
  ASSUME TypesInv, ProcInv(stt), ReplayInv(stt), STT!SendAudio
  PROVE  SttOK(stt, stt', down')
<1> USE DEF STT!At, STT!task, STT!frame, STT!sessions
<1>1. PICK i : i = stt.task.session
  OBVIOUS
<1>2. /\ stt \in Procs(Signals) /\ down \in Seq(Signals) /\ stt.task.pc = "send"
      /\ stt.task \in Tasks /\ FrameOK(stt.task.frame) /\ i \in DOMAIN stt.sessions
      /\ stt.task.frame.kind = "audio"
      /\ stt.task.frame.stream \in Streams /\ stt.task.frame.item \in Items
  <2>1. stt \in Procs(Signals) /\ down \in Seq(Signals) /\ stt.task.pc = "send"
    BY DEF TypesInv, STT!SendAudio
  <2>2. stt.task \in Tasks /\ FrameOK(stt.task.frame) /\ i \in DOMAIN stt.sessions
    BY <1>1, <2>1, TaskTyped DEF STT!SendAudio, STT!Open, ProcInv, TaskInv
  <2>3. stt.task.frame.kind = "audio"
    BY <2>1 DEF ProcInv, TaskInv, ReplayInv
  <2> QED
    BY <2>1, <2>2, <2>3 DEF FrameOK
<1>3. stt.sessions[i] \in Sessions(Signals)
  BY <1>2, SessionsTyped
<1>4. PICK e : e = stt.task.frame.item
  OBVIOUS
<1>5. STT!Given = <<e>>
  <2>1. CASE stt.task.tries > 0 /\ ~stt.task.replayed
    <3>1. stt.replay[stt.task.frame.stream] = <<>>
      BY <1>2, <2>1 DEF ReplayInv
    <3> QED
      BY <1>4, <2>1, <3>1 DEF STT!Given
  <2>2. CASE ~(stt.task.tries > 0 /\ ~stt.task.replayed)
    BY <1>4, <2>2 DEF STT!Given
  <2> QED
    BY <2>1, <2>2
<1>6. PICK g : g = stt.sessions[i].got \o <<e>>
  OBVIOUS
<1>7. g \in Seq(Items)
  <2>1. <<e>> \in Seq(Items) /\ stt.sessions[i].got \in Seq(Items)
    BY <1>2, <1>3, <1>4 DEF Sessions
  <2> QED
    BY <1>6, <2>1, ConcatProperties
<1>8. PICK x : x = [stt.sessions[i] EXCEPT !.got = g]
  OBVIOUS
<1>9. PICK a : a = [stt EXCEPT !.sessions = [stt.sessions EXCEPT ![i] = x]]
  OBVIOUS
<1>10. /\ x \in Sessions(Signals) /\ x.stream = stt.sessions[i].stream
       /\ x.lang = stt.sessions[i].lang /\ x.origin = stt.sessions[i].origin
       /\ x.got = g
  BY <1>3, <1>7, <1>8 DEF Sessions
<1>11. /\ a \in Procs(Signals) /\ ProcInv(a) /\ Sets(stt, a, i, x)
       /\ a.closedAll = stt.closedAll /\ a.task = stt.task
  BY <1>2, <1>9, <1>10, SessionSteps
<1>12. PICK y : y = [x EXCEPT !.out = <<>>]
  OBVIOUS
<1>13. PICK b : b = [a EXCEPT !.sessions = [a.sessions EXCEPT ![i] = y]]
  OBVIOUS
<1>14. /\ y \in Sessions(Signals) /\ y.stream = x.stream
       /\ y.lang = x.lang /\ y.origin = x.origin /\ y.got = g
  BY <1>10, <1>12, EmptyFacts DEF Sessions
<1>15. i \in DOMAIN a.sessions /\ a.sessions[i] = x
  BY <1>2, <1>11 DEF Sets
<1>16. /\ b \in Procs(Signals) /\ ProcInv(b) /\ Sets(a, b, i, y)
       /\ b.closedAll = a.closedAll
  BY <1>11, <1>13, <1>14, <1>15, SessionSteps
<1>17. stt' = STT!Succeeded(b)
  <2>1. b = [[stt EXCEPT !.sessions[i].got = g] EXCEPT !.sessions[i].out = <<>>]
    BY <1>8, <1>9, <1>12, <1>13, <1>15
  <2> QED
    BY <1>1, <1>5, <1>6, <2>1 DEF STT!SendAudio
<1>18. /\ stt' \in Procs(Signals) /\ Same(b, stt') /\ stt'.sessions = b.sessions
       /\ stt'.task = STT!Idle
  BY <1>16, <1>17, EndsIs
<1>19. Returns(Signals, b, stt')
  BY <1>16, <1>18, ReturnSteps
<1>20. ReplayInv(stt')
  BY <1>18 DEF ReplayInv, STT!Idle
<1>21. down' \in Seq(Signals)
  <2>1. PICK f : f = STT!Heartbeat(stt.task.frame.stream)
    OBVIOUS
  <2>2. f \in Signals
    BY <1>2, <2>1, SpeechAssumption
    DEF STT!Heartbeat, STT!SpeechFrame, Signals, Frames, FrameOK
  <2>3. stt.sessions[i].out \in Seq(Signals)
    BY <1>3 DEF Sessions
  <2>4. down' = down \o (<<f>> \o stt.sessions[i].out)
    BY <1>1, <2>1 DEF STT!SendAudio, STT!Emits
  <2> QED
    BY <1>2, <2>2, <2>3, <2>4, FramesGoDown
<1> QED
  BY <1>11, <1>16, <1>19, <1>20, <1>21 DEF SttOK, Returns

LEMMA ReplayStays ==
  ASSUME NEW p, NEW q, ReplayInv(p), q.task = p.task, q.replay = p.replay
  PROVE  ReplayInv(q)
BY DEF ReplayInv

LEMMA HearsOK ==
  ASSUME TypesInv, ProcInv(stt), ReplayInv(stt),
         NEW i \in DOMAIN stt.sessions, STT!Hears(i)
  PROVE  SttOK(stt, stt', down')
<1> USE DEF STT!sessions
<1>1. stt \in Procs(Signals) /\ down \in Seq(Signals) /\ down' = down
  BY DEF TypesInv, STT!Hears
<1>2. stt.sessions[i] \in Sessions(Signals)
  BY <1>1, SessionsTyped
<1>3. PICK f : f = STT!Flush(stt.sessions[i].stream)
  OBVIOUS
<1>4. f \in Signals
  BY <1>2, <1>3, SpeechAssumption
  DEF STT!Flush, STT!SpeechFrame, Sessions, Signals, Frames, FrameOK
<1>5. PICK o : o = Append(stt.sessions[i].out, f)
  OBVIOUS
<1>6. o \in Seq(Signals)
  BY <1>2, <1>4, <1>5, AppendProperties DEF Sessions
<1>7. PICK x : x = [stt.sessions[i] EXCEPT !.out = o]
  OBVIOUS
<1>8. /\ x \in Sessions(Signals) /\ x.stream = stt.sessions[i].stream
      /\ x.lang = stt.sessions[i].lang /\ x.origin = stt.sessions[i].origin
      /\ x.got = stt.sessions[i].got
  BY <1>2, <1>6, <1>7 DEF Sessions
<1>9. stt' = [stt EXCEPT !.sessions = [stt.sessions EXCEPT ![i] = x]]
  BY <1>3, <1>5, <1>7 DEF STT!Hears
<1>10. /\ stt' \in Procs(Signals) /\ ProcInv(stt') /\ Sets(stt, stt', i, x)
       /\ stt'.closedAll = stt.closedAll /\ stt'.task = stt.task /\ stt'.replay = stt.replay
  BY <1>1, <1>8, <1>9, SessionSteps
<1>11. ReplayInv(stt')
  BY <1>8, <1>10, ReplayStays DEF Sets
<1> QED
  BY <1>1, <1>10, <1>11 DEF SttOK

(* A session that dies is not changed otherwise. *)
Died(p, q) ==
  /\ DOMAIN q.sessions = DOMAIN p.sessions
  /\ \A i \in DOMAIN p.sessions :
       /\ q.sessions[i].stream = p.sessions[i].stream /\ q.sessions[i].lang = p.sessions[i].lang
       /\ q.sessions[i].got = p.sessions[i].got /\ q.sessions[i].out = p.sessions[i].out

LEMMA DeadSession ==
  ASSUME NEW Out, NEW x \in Sessions(Out), NEW y, y = [x EXCEPT !.dead = TRUE]
  PROVE  /\ y \in Sessions(Out) /\ y.stream = x.stream /\ y.lang = x.lang
         /\ y.origin = x.origin /\ y.got = x.got /\ y.out = x.out
BY DEF Sessions

LEMMA DiesSteps ==
  ASSUME NEW Out, NEW p \in Procs(Out), ProcInv(p), NEW i \in DOMAIN p.sessions,
         NEW x \in Sessions(Out), x.stream = p.sessions[i].stream,
         x.lang = p.sessions[i].lang, x.origin = p.sessions[i].origin,
         x.got = p.sessions[i].got, x.out = p.sessions[i].out,
         NEW q, q = [p EXCEPT !.sessions = [p.sessions EXCEPT ![i] = x]]
  PROVE  /\ q \in Procs(Out) /\ ProcInv(q) /\ Died(p, q)
         /\ q.closedAll = p.closedAll /\ q.task = p.task /\ q.replay = p.replay
<1>1. /\ q \in Procs(Out) /\ ProcInv(q) /\ Sets(p, q, i, x)
      /\ q.closedAll = p.closedAll /\ q.task = p.task /\ q.replay = p.replay
  BY SessionSteps
<1> QED
  BY <1>1 DEF Sets, Died

LEMMA SttProviderOK ==
  ASSUME TypesInv, ProcInv(stt), ReplayInv(stt), STTProvider
  PROVE  SttOK(stt, stt', down')
<1>1. stt \in Procs(Signals) /\ down \in Seq(Signals)
  BY DEF TypesInv
<1>2. CASE STT!CoolDown /\ UNCHANGED down
  <2>1. stt' = [stt EXCEPT !.breaker = CooledDown(@)]
    BY <1>2 DEF STT!CoolDown, STT!CooledDown, CooledDown
  <2>2. /\ stt' \in Procs(Signals) /\ ProcInv(stt') /\ stt'.sessions = stt.sessions
        /\ stt'.closedAll = stt.closedAll /\ stt'.task = stt.task /\ stt'.replay = stt.replay
    BY <1>1, <2>1, CoolDownSteps
  <2>3. ReplayInv(stt')
    BY <2>2, ReplayStays
  <2> QED
    BY <1>1, <1>2, <2>2, <2>3 DEF SttOK
<1>3. ASSUME NEW i \in DOMAIN stt.sessions, STT!Dies(i), UNCHANGED down
      PROVE  SttOK(stt, stt', down')
  <2>1. PICK x : x = [stt.sessions[i] EXCEPT !.dead = TRUE]
    OBVIOUS
  <2>2. stt' = [stt EXCEPT !.sessions = [stt.sessions EXCEPT ![i] = x]]
    BY <1>3, <2>1 DEF STT!Dies
  <2>3. stt.sessions[i] \in Sessions(Signals)
    BY <1>1, SessionsTyped
  <2>4. /\ x \in Sessions(Signals) /\ x.stream = stt.sessions[i].stream
        /\ x.lang = stt.sessions[i].lang /\ x.origin = stt.sessions[i].origin
        /\ x.got = stt.sessions[i].got /\ x.out = stt.sessions[i].out
    BY <2>1, <2>3, DeadSession
  <2>5. /\ stt' \in Procs(Signals) /\ ProcInv(stt') /\ Died(stt, stt')
        /\ stt'.closedAll = stt.closedAll /\ stt'.task = stt.task /\ stt'.replay = stt.replay
    BY <1>1, <2>2, <2>4, DiesSteps
  <2>6. ReplayInv(stt')
    BY <2>5, ReplayStays DEF Died
  <2> QED
    BY <1>1, <1>3, <2>5, <2>6 DEF SttOK
<1> QED
  BY <1>2, <1>3, HearsOK DEF STTProvider

(* A frame comes. *)
LEMMA SttReceives ==
  ASSUME TypesInv, ProcInv(stt), ReplayInv(stt), NEW f, FrameOK(f),
         f.kind # "text", STT!Receive(f)
  PROVE  /\ stt' \in Procs(Signals) /\ ProcInv(stt') /\ stt'.closedAll = stt.closedAll
         /\ ReplayInv(stt')
<1>1. stt \in Procs(Signals) /\ stt.task.pc = "idle"
  BY DEF TypesInv, STT!Receive, STT!Begin, STT!At, STT!task
<1>2. PICK pc : pc = IF f.kind = "audio" /\ STT!Names(f) THEN "track" ELSE "handle"
  OBVIOUS
<1>3. \/ pc = "track" /\ f.named /\ f.stream \in Streams
      \/ pc = "handle" /\ (f.kind \in {"audio", "text"} => ~f.named)
  BY <1>2, SpeechAssumption DEF FrameOK, STT!Names
<1>4. stt' = SetTask(stt,
        [pc |-> pc, frame |-> f, tries |-> 0, replayed |-> FALSE, prev |-> NoStream,
         session |-> 0, origin |-> "current"])
  BY <1>2 DEF STT!Receive, STT!Begin, SetTask
<1>5. /\ stt' \in Procs(Signals) /\ ProcInv(stt') /\ stt'.sessions = stt.sessions
      /\ stt'.closedAll = stt.closedAll
      /\ stt'.task.pc = pc /\ stt'.task.frame = f /\ stt'.task.tries = 0
  BY <1>1, <1>3, <1>4, BeginSteps
<1>6. ReplayInv(stt')
  BY <1>3, <1>5 DEF ReplayInv
<1> QED
  BY <1>5, <1>6

-----------------------------------------------------------------------------
(* What the steps of the TTS processor do to the texts: some sessions are    *)
(* left as they are, and texts may be silenced that nobody holds any more.   *)
Continues(p, q) ==
  \/ q.task.pc = "idle"
  \/ /\ p.task.pc # "idle" /\ q.task.frame = p.task.frame
     /\ p.task.pc = "retry" => \/ q.task.pc = "retry"
                               \/ \A i \in DOMAIN q.sessions :
                                    q.sessions[i].stream # p.task.frame.stream

Silences(q, z, w, n) ==
  \A a \in w \ z : /\ a < n /\ \A i \in DOMAIN q.sessions : a \notin Held(q.sessions[i])
                   /\ Busy(q) => a # q.task.frame.item

LEMMA SpokenKeeps ==
  ASSUME NEW p, NEW q, NEW h, NEW g, NEW z, NEW w, NEW n, SpokenBy(p, h, g, z, n), Keeps(p, q),
         Continues(p, q), Silences(q, z, w, n)
  PROVE  SpokenBy(q, h, g, w, n)
<1>1. \A i \in DOMAIN q.sessions :
        /\ i \in DOMAIN p.sessions /\ KeyOf(q.sessions[i]) = KeyOf(p.sessions[i])
        /\ q.sessions[i].stream = p.sessions[i].stream
        /\ q.sessions[i].got = p.sessions[i].got /\ q.sessions[i].out = p.sessions[i].out
        /\ Held(q.sessions[i]) = Held(p.sessions[i])
  BY DEF Keeps, KeyOf, Held
<1>2. OrderBy(q, h)
  <2>1. \A i \in DOMAIN q.sessions : LET x == q.sessions[i] IN
          /\ Rising(x.out) /\ Rising(x.got)
          /\ \A a \in ToSet(x.out), b \in ToSet(x.got) : a < b
          /\ \A a \in ToSet(h[KeyOf(x)]), b \in Held(x) : a < b
          /\ \A k \in DOMAIN h : Held(x) \cap ToSet(h[k]) = {}
    BY <1>1 DEF SpokenBy, OrderBy
  <2>2. \A i, j \in DOMAIN q.sessions :
          i # j => Held(q.sessions[i]) \cap Held(q.sessions[j]) = {}
    BY <1>1 DEF SpokenBy, OrderBy
  <2> QED
    BY <2>1, <2>2 DEF SpokenBy, OrderBy
<1>3. TextBy(q, h, g, n)
  <2>1. CASE q.task.pc = "idle"
    BY <1>1, <2>1 DEF SpokenBy, TextBy, Busy
  <2>2. CASE q.task.pc # "idle"
    <3>1. p.task.pc # "idle" /\ q.task.frame = p.task.frame
      BY <2>2 DEF Continues
    <3>2. ASSUME Busy(p)
          PROVE  Fresh(q, h, q.task.frame.item)
      BY <1>1, <2>2, <3>1, <3>2 DEF SpokenBy, TextBy, Fresh, Continues
    <3> QED
      BY <1>1, <3>1, <3>2 DEF SpokenBy, TextBy, Busy
  <2> QED
    BY <2>1, <2>2
<1>4. SilenceBy(q, g, w, n)
  <2>1. \A a \in w : a < n
    BY DEF SpokenBy, SilenceBy, Silences
  <2>2. \A i \in DOMAIN q.sessions :
          Held(q.sessions[i]) \subseteq g[q.sessions[i].stream] /\ Held(q.sessions[i]) \cap w = {}
    BY <1>1 DEF SpokenBy, SilenceBy, Silences
  <2>3. ASSUME Busy(q)
        PROVE  q.task.frame.item \in g[q.task.frame.stream] \ w
    BY <2>3 DEF SpokenBy, SilenceBy, Silences, Busy, Continues
  <2> QED
    BY <2>1, <2>2, <2>3 DEF SpokenBy, SilenceBy
<1> QED
  BY <1>2, <1>3, <1>4 DEF SpokenBy

(* A session joins them that holds nothing. *)
LEMMA SpokenOpens ==
  ASSUME NEW p, NEW q, NEW h, NEW g, NEW z, NEW n, SpokenBy(p, h, g, z, n),
         NEW m, Opens(p, q, m), p.task.pc = "starting", q.task.pc = "send",
         q.task.frame = p.task.frame
  PROVE  SpokenBy(q, h, g, z, n)
<1>1. ToSet(<<>>) = {} /\ Rising(<<>>)
  BY EmptyFacts
<1>2. Held(q.sessions[m]) = {} /\ q.sessions[m].got = <<>> /\ q.sessions[m].out = <<>>
  BY <1>1 DEF Opens, Held
<1>3. /\ DOMAIN q.sessions = DOMAIN p.sessions \cup {m}
      /\ \A i \in DOMAIN p.sessions : q.sessions[i] = p.sessions[i]
  BY DEF Opens
<1>4. OrderBy(q, h)
  <2>1. \A i \in DOMAIN q.sessions : LET x == q.sessions[i] IN
          /\ Rising(x.out) /\ Rising(x.got)
          /\ \A a \in ToSet(x.out), b \in ToSet(x.got) : a < b
          /\ \A a \in ToSet(h[KeyOf(x)]), b \in Held(x) : a < b
          /\ \A k \in DOMAIN h : Held(x) \cap ToSet(h[k]) = {}
    BY <1>1, <1>2, <1>3 DEF SpokenBy, OrderBy
  <2>2. \A i, j \in DOMAIN q.sessions :
          i # j => Held(q.sessions[i]) \cap Held(q.sessions[j]) = {}
    BY <1>2, <1>3 DEF SpokenBy, OrderBy
  <2> QED
    BY <2>1, <2>2 DEF SpokenBy, OrderBy
<1>5. TextBy(q, h, g, n)
  BY <1>2, <1>3 DEF SpokenBy, TextBy, Fresh, Busy
<1>6. SilenceBy(q, g, z, n)
  BY <1>2, <1>3 DEF SpokenBy, SilenceBy, Busy
<1> QED
  BY <1>4, <1>5, <1>6 DEF SpokenBy

LEMMA SharedSpoken ==
  ASSUME NEW p, NEW q, NEW h, NEW g, NEW z, NEW n, SpokenBy(p, h, g, z, n), SharedStep(p, q),
         NEW w, Silences(q, z, w, n), p.task.pc = "starting" => w = z
  PROVE  SpokenBy(q, h, g, w, n)
<1>1. CASE p.task.pc \in {"track", "replace", "replaced", "create", "retry"}
  <2>1. Keeps(p, q)
    BY <1>1 DEF SharedStep
  <2>2. Continues(p, q)
    BY <1>1 DEF SharedStep, Continues
  <2> QED
    BY <2>1, <2>2, SpokenKeeps
<1>2. CASE p.task.pc = "starting"
  <2>1. Opens(p, q, q.started) /\ q.task.pc = "send" /\ q.task.frame = p.task.frame
    BY <1>2 DEF SharedStep
  <2> QED
    BY <1>2, <2>1, SpokenOpens
<1> QED
  BY <1>1, <1>2 DEF SharedStep

(* What is held and what was handed on are numbers. *)
LEMMA HeldTyped ==
  ASSUME NEW p \in Procs(Items), NEW i \in DOMAIN p.sessions
  PROVE  /\ p.sessions[i] \in Sessions(Items) /\ Held(p.sessions[i]) \subseteq Nat
         /\ p.sessions[i].out \in Seq(Nat) /\ p.sessions[i].got \in Seq(Nat)
<1>1. p.sessions[i] \in Sessions(Items)
  BY SessionsTyped
<1>2. p.sessions[i].out \in Seq(Items) /\ p.sessions[i].got \in Seq(Items)
  BY <1>1 DEF Sessions
<1>3. /\ p.sessions[i].out \in Seq(Nat) /\ p.sessions[i].got \in Seq(Nat)
      /\ ToSet(p.sessions[i].out) \subseteq Nat /\ ToSet(p.sessions[i].got) \subseteq Nat
  BY <1>2, ItemsNat
<1> QED
  BY <1>1, <1>3 DEF Held

Told == [Streams \X Langs -> Seq(Items)]

LEMMA ToldTyped ==
  ASSUME NEW h \in Told, NEW k \in DOMAIN h
  PROVE  h[k] \in Seq(Nat) /\ ToSet(h[k]) \subseteq Nat
<1>1. h[k] \in Seq(Items)
  BY DEF Told
<1> QED
  BY <1>1, ItemsNat

(* The session takes the text Process is busy with. *)
LEMMA SpokenTaken ==
  ASSUME NEW p \in Procs(Items), NEW q, NEW h \in Told, NEW g, NEW z, NEW n,
         SpokenBy(p, h, g, z, n), p.task.pc = "send", Busy(p),
         p.task.frame.item \in Nat, KeyOf(p.task.frame) \in DOMAIN h,
         NEW i \in DOMAIN p.sessions, KeyOf(p.sessions[i]) = KeyOf(p.task.frame),
         p.sessions[i].stream = p.task.frame.stream,
         NEW x, Sets(p, q, i, x), KeyOf(x) = KeyOf(p.sessions[i]),
         x.stream = p.sessions[i].stream, x.out = p.sessions[i].out,
         x.got = Append(p.sessions[i].got, p.task.frame.item),
         q.task.pc = "idle" \/ (q.task.pc = "retry" /\ q.task.frame = p.task.frame)
  PROVE  SpokenBy(q, h, g, z, n)
<1>1. PICK y : y = p.sessions[i]
  OBVIOUS
<1>2. PICK e : e = p.task.frame.item
  OBVIOUS
<1>3. /\ y.out \in Seq(Nat) /\ y.got \in Seq(Nat) /\ Held(y) \subseteq Nat /\ e \in Nat
      /\ ToSet(y.got) \subseteq Held(y) /\ ToSet(y.out) \subseteq Held(y)
  BY <1>1, <1>2, HeldTyped DEF Held
<1>4. Fresh(p, h, e) /\ e < n
  BY <1>2 DEF SpokenBy, TextBy
<1>5. /\ \A j \in DOMAIN p.sessions : \A a \in Held(p.sessions[j]) : a < e /\ a # e
      /\ \A k \in DOMAIN h : \A a \in ToSet(h[k]) : a < e /\ a # e
  <2>1. ASSUME NEW j \in DOMAIN p.sessions, NEW a \in Held(p.sessions[j])
        PROVE  a < e /\ a # e
    <3>1. a \in Nat
      BY HeldTyped
    <3>2. a < e
      BY <1>4 DEF Fresh
    <3> QED
      BY <1>3, <3>1, <3>2
  <2>2. ASSUME NEW k \in DOMAIN h, NEW a \in ToSet(h[k])
        PROVE  a < e /\ a # e
    <3>1. a \in Nat
      BY ToldTyped
    <3>2. a < e
      BY <1>4 DEF Fresh
    <3> QED
      BY <1>3, <3>1, <3>2
  <2> QED
    BY <2>1, <2>2
<1>6. /\ Rising(y.out) /\ Rising(y.got)
      /\ \A a \in ToSet(y.out), b \in ToSet(y.got) : a < b
      /\ \A a \in ToSet(h[KeyOf(y)]), b \in Held(y) : a < b
      /\ \A k \in DOMAIN h : Held(y) \cap ToSet(h[k]) = {}
  BY <1>1 DEF SpokenBy, OrderBy
<1>7. /\ x.out = y.out /\ x.got = Append(y.got, e) /\ KeyOf(x) = KeyOf(y)
      /\ KeyOf(y) \in DOMAIN h /\ x.stream = p.task.frame.stream
  BY <1>1, <1>2
<1>8. ToSet(x.got) = ToSet(y.got) \cup {e} /\ Rising(x.got)
  <2>1. \A a \in ToSet(y.got) : a < e
    BY <1>1, <1>3, <1>5
  <2> QED
    BY <1>3, <1>6, <1>7, <2>1, AppendRises
<1>9. Held(x) = Held(y) \cup {e}
  BY <1>7, <1>8 DEF Held
<1>10. /\ DOMAIN q.sessions = DOMAIN p.sessions /\ q.sessions[i] = x
       /\ \A j \in DOMAIN p.sessions : j # i => q.sessions[j] = p.sessions[j]
  BY DEF Sets
<1>11. OrderBy(q, h)
  <2>1. /\ Rising(x.out) /\ Rising(x.got)
        /\ \A a \in ToSet(x.out), b \in ToSet(x.got) : a < b
    BY <1>1, <1>3, <1>5, <1>6, <1>7, <1>8
  <2>2. /\ \A a \in ToSet(h[KeyOf(x)]), b \in Held(x) : a < b
        /\ \A k \in DOMAIN h : Held(x) \cap ToSet(h[k]) = {}
    BY <1>5, <1>6, <1>7, <1>9
  <2>3. \A j \in DOMAIN p.sessions : j # i => Held(x) \cap Held(p.sessions[j]) = {}
    BY <1>1, <1>5, <1>9 DEF SpokenBy, OrderBy
  <2>4. \A j \in DOMAIN q.sessions : LET u == q.sessions[j] IN
          /\ Rising(u.out) /\ Rising(u.got)
          /\ \A a \in ToSet(u.out), b \in ToSet(u.got) : a < b
          /\ \A a \in ToSet(h[KeyOf(u)]), b \in Held(u) : a < b
          /\ \A k \in DOMAIN h : Held(u) \cap ToSet(h[k]) = {}
    BY <1>10, <2>1, <2>2 DEF SpokenBy, OrderBy
  <2>5. \A j, k \in DOMAIN q.sessions :
          j # k => Held(q.sessions[j]) \cap Held(q.sessions[k]) = {}
    BY <1>10, <2>3 DEF SpokenBy, OrderBy
  <2> QED
    BY <2>4, <2>5 DEF SpokenBy, OrderBy
<1>12. TextBy(q, h, g, n)
  <2>1. \A j \in DOMAIN q.sessions : \A a \in Held(q.sessions[j]) : a < n
    BY <1>1, <1>4, <1>9, <1>10 DEF SpokenBy, TextBy
  <2>2. ASSUME q.task.pc = "retry", q.task.frame = p.task.frame
        PROVE  Fresh(q, h, e)
    <3>1. \A j \in DOMAIN q.sessions : \A a \in Held(q.sessions[j]) :
            a < e \/ (a = e /\ q.sessions[j].stream = p.task.frame.stream)
      BY <1>1, <1>5, <1>7, <1>9, <1>10
    <3> QED
      BY <1>5, <2>2, <3>1 DEF Fresh
  <2> QED
    BY <1>2, <2>1, <2>2 DEF SpokenBy, TextBy, Busy
<1>13. SilenceBy(q, g, z, n)
  <2>1. e \in g[p.task.frame.stream] \ z
    BY <1>2 DEF SpokenBy, SilenceBy
  <2>2. Held(x) \subseteq g[x.stream] /\ Held(x) \cap z = {}
    <3>1. Held(y) \subseteq g[y.stream] /\ Held(y) \cap z = {} /\ y.stream = p.task.frame.stream
      BY <1>1 DEF SpokenBy, SilenceBy
    <3> QED
      BY <1>7, <1>9, <2>1, <3>1
  <2>3. \A j \in DOMAIN q.sessions :
          Held(q.sessions[j]) \subseteq g[q.sessions[j].stream] /\ Held(q.sessions[j]) \cap z = {}
    BY <1>10, <2>2 DEF SpokenBy, SilenceBy
  <2> QED
    BY <1>2, <2>1, <2>3 DEF SpokenBy, SilenceBy, Busy
<1> QED
  BY <1>11, <1>12, <1>13 DEF SpokenBy

(* The oldest text of a session becomes audio, or is dropped. *)
LEMMA SpokenAloud ==
  ASSUME NEW p \in Procs(Items), NEW q, NEW h, NEW g, NEW z, NEW n,
         SpokenBy(p, h, g, z, n),
         NEW i \in DOMAIN p.sessions, p.sessions[i].got # <<>>,
         NEW x, Sets(p, q, i, x), KeyOf(x) = KeyOf(p.sessions[i]),
         x.stream = p.sessions[i].stream, x.got = Tail(p.sessions[i].got),
         \/ x.out = p.sessions[i].out
         \/ x.out = Append(p.sessions[i].out, Head(p.sessions[i].got)),
         q.task = p.task
  PROVE  SpokenBy(q, h, g, z, n)
<1>1. PICK y : y = p.sessions[i]
  OBVIOUS
<1>2. PICK e : e = Head(y.got)
  OBVIOUS
<1>3. /\ y.out \in Seq(Nat) /\ y.got \in Seq(Nat) /\ y.got # <<>> /\ Held(y) \subseteq Nat
  BY <1>1, HeldTyped
<1>4. /\ Rising(y.out) /\ Rising(y.got)
      /\ \A a \in ToSet(y.out), b \in ToSet(y.got) : a < b
      /\ \A a \in ToSet(h[KeyOf(y)]), b \in Held(y) : a < b
      /\ \A k \in DOMAIN h : Held(y) \cap ToSet(h[k]) = {}
  BY <1>1 DEF SpokenBy, OrderBy
<1>5. /\ e \in Nat /\ ToSet(y.got) = {e} \cup ToSet(x.got) /\ Rising(x.got)
      /\ \A a \in ToSet(x.got) : e < a
  <2>1. PICK r \in Seq(Nat) : r = y.got /\ r # <<>> /\ Rising(r)
    BY <1>3, <1>4
  <2>2. e = Head(r) /\ x.got = Tail(r)
    BY <1>1, <1>2, <2>1
  <2>3. /\ Head(r) \in Nat /\ ToSet(r) = {Head(r)} \cup ToSet(Tail(r)) /\ Rising(Tail(r))
        /\ \A a \in ToSet(Tail(r)) : Head(r) < a
    BY <2>1, TailRises
  <2> QED
    BY <2>1, <2>2, <2>3
<1>6. \/ x.out = y.out
      \/ ToSet(x.out) = ToSet(y.out) \cup {e} /\ Rising(x.out)
  <2>1. \A a \in ToSet(y.out) : a < e
    BY <1>4, <1>5
  <2>2. /\ ToSet(Append(y.out, e)) = ToSet(y.out) \cup {e}
        /\ Rising(y.out) /\ (\A a \in ToSet(y.out) : a < e) => Rising(Append(y.out, e))
    BY <1>3, <1>5, AppendRises
  <2>3. x.out = y.out \/ x.out = Append(y.out, e)
    BY <1>1, <1>2
  <2> QED
    BY <1>4, <2>1, <2>2, <2>3
<1>7. /\ Rising(x.out) /\ Rising(x.got)
      /\ \A a \in ToSet(x.out), b \in ToSet(x.got) : a < b
      /\ Held(x) \subseteq Held(y) /\ KeyOf(x) = KeyOf(y) /\ x.stream = y.stream
  BY <1>1, <1>4, <1>5, <1>6 DEF Held
<1>8. /\ DOMAIN q.sessions = DOMAIN p.sessions /\ q.sessions[i] = x
      /\ \A j \in DOMAIN p.sessions : j # i => q.sessions[j] = p.sessions[j]
  BY DEF Sets
<1>9. \A j \in DOMAIN q.sessions :
        /\ Held(q.sessions[j]) \subseteq Held(p.sessions[j])
        /\ q.sessions[j].stream = p.sessions[j].stream
  BY <1>1, <1>7, <1>8
<1>10. OrderBy(q, h)
  <2>1. \A j \in DOMAIN q.sessions : LET u == q.sessions[j] IN
          /\ Rising(u.out) /\ Rising(u.got)
          /\ \A a \in ToSet(u.out), b \in ToSet(u.got) : a < b
          /\ \A a \in ToSet(h[KeyOf(u)]), b \in Held(u) : a < b
          /\ \A k \in DOMAIN h : Held(u) \cap ToSet(h[k]) = {}
    BY <1>4, <1>7, <1>8 DEF SpokenBy, OrderBy
  <2>2. \A j, k \in DOMAIN q.sessions :
          j # k => Held(q.sessions[j]) \cap Held(q.sessions[k]) = {}
    BY <1>8, <1>9 DEF SpokenBy, OrderBy
  <2> QED
    BY <2>1, <2>2 DEF SpokenBy, OrderBy
<1>11. TextBy(q, h, g, n)
  <2>1. TextBy(p, h, g, n)
    BY DEF SpokenBy
  <2>2. \A j \in DOMAIN q.sessions : \A a \in Held(q.sessions[j]) : a < n
    BY <1>8, <1>9, <2>1 DEF TextBy
  <2>3. ASSUME NEW m, Fresh(p, h, m)
        PROVE  Fresh(q, h, m)
    BY <1>8, <1>9, <2>3 DEF Fresh
  <2>4. Busy(q) => q.task.frame.item < n /\ Fresh(q, h, q.task.frame.item)
    BY <2>1, <2>3 DEF TextBy, Busy
  <2> QED
    BY <2>1, <2>2, <2>4 DEF TextBy
<1>12. SilenceBy(q, g, z, n)
  BY <1>8, <1>9 DEF SpokenBy, SilenceBy, Busy
<1> QED
  BY <1>10, <1>11, <1>12 DEF SpokenBy

(* The audio of a stream's sessions is taken from them, and handed on or     *)
(* thrown away. *)
Drains(p, q, s) ==
  /\ DOMAIN q.sessions = DOMAIN p.sessions
  /\ \A i \in DOMAIN p.sessions : LET x == p.sessions[i] IN
       /\ q.sessions[i].stream = x.stream /\ q.sessions[i].lang = x.lang
       /\ q.sessions[i].origin = x.origin /\ q.sessions[i].got = x.got
       /\ q.sessions[i].out = IF x.stream = s THEN <<>> ELSE x.out

HandsOn(p, h, f, s) ==
  /\ DOMAIN f = DOMAIN h
  /\ \A k \in DOMAIN h :
       \/ f[k] = h[k]
       \/ \E i \in DOMAIN p.sessions : /\ p.sessions[i].stream = s /\ KeyOf(p.sessions[i]) = k
                                       /\ f[k] = h[k] \o p.sessions[i].out

LEMMA DrainedHeld ==
  ASSUME NEW p, NEW q, NEW s, Drains(p, q, s)
  PROVE  \A i \in DOMAIN p.sessions :
           /\ ToSet(q.sessions[i].out) \subseteq ToSet(p.sessions[i].out)
           /\ Held(q.sessions[i]) \subseteq Held(p.sessions[i])
           /\ p.sessions[i].stream = s => Held(q.sessions[i]) = ToSet(p.sessions[i].got)
           /\ KeyOf(q.sessions[i]) = KeyOf(p.sessions[i])
BY EmptyFacts DEF Drains, Held, KeyOf

LEMMA DrainedKeepsOrder ==
  ASSUME NEW p, NEW q, NEW s, Drains(p, q, s), NEW h, OrderBy(p, h)
  PROVE  OrderBy(q, h)
<1>1. DOMAIN q.sessions = DOMAIN p.sessions
  BY DEF Drains
<1>2. ASSUME NEW i \in DOMAIN p.sessions, NEW x, x = q.sessions[i]
      PROVE  /\ Rising(x.out) /\ Rising(x.got)
             /\ \A a \in ToSet(x.out), b \in ToSet(x.got) : a < b
             /\ \A a \in ToSet(h[KeyOf(x)]), b \in Held(x) : a < b
             /\ \A k \in DOMAIN h : Held(x) \cap ToSet(h[k]) = {}
  <2>1. PICK y : y = p.sessions[i]
    OBVIOUS
  <2>2. /\ Rising(y.out) /\ Rising(y.got)
        /\ \A a \in ToSet(y.out), b \in ToSet(y.got) : a < b
        /\ \A a \in ToSet(h[KeyOf(y)]), b \in Held(y) : a < b
        /\ \A k \in DOMAIN h : Held(y) \cap ToSet(h[k]) = {}
    BY <2>1 DEF OrderBy
  <2>3. /\ x.got = y.got /\ (x.out = <<>> \/ x.out = y.out)
        /\ ToSet(x.out) \subseteq ToSet(y.out) /\ Held(x) \subseteq Held(y)
        /\ KeyOf(x) = KeyOf(y)
    <3>1. x.got = y.got /\ (x.out = <<>> \/ x.out = y.out)
      BY <1>2, <2>1 DEF Drains
    <3>2. /\ ToSet(x.out) \subseteq ToSet(y.out) /\ Held(x) \subseteq Held(y)
          /\ KeyOf(x) = KeyOf(y)
      BY <1>2, <2>1, DrainedHeld
    <3> QED
      BY <3>1, <3>2
  <2> QED
    BY <2>2, <2>3, EmptyFacts
<1>3. \A i, j \in DOMAIN p.sessions : i # j => Held(q.sessions[i]) \cap Held(q.sessions[j]) = {}
  BY DrainedHeld DEF OrderBy
<1> QED
  BY <1>1, <1>2, <1>3 DEF OrderBy

(* Audio that is handed on was held by the session of its key. *)
Comes(p, h, f, s) ==
  \A k \in DOMAIN h :
    \/ f[k] = h[k]
    \/ \E i \in DOMAIN p.sessions :
         /\ p.sessions[i].stream = s /\ KeyOf(p.sessions[i]) = k
         /\ f[k] = h[k] \o p.sessions[i].out
         /\ ToSet(f[k]) = ToSet(h[k]) \cup ToSet(p.sessions[i].out)

LEMMA HandsOnTyped ==
  ASSUME NEW p \in Procs(Items), NEW h \in Told, NEW f, NEW s, HandsOn(p, h, f, s),
         f = [k \in DOMAIN f |-> f[k]]
  PROVE  f \in Told /\ Comes(p, h, f, s)
<1>1. ASSUME NEW k \in DOMAIN h, NEW i \in DOMAIN p.sessions,
             f[k] = h[k] \o p.sessions[i].out
      PROVE  /\ f[k] \in Seq(Items)
             /\ ToSet(f[k]) = ToSet(h[k]) \cup ToSet(p.sessions[i].out)
  <2>1. h[k] \in Seq(Items) /\ p.sessions[i].out \in Seq(Items)
    BY SessionsTyped DEF Told, Sessions
  <2>2. f[k] \in Seq(Items)
    BY <1>1, <2>1, ConcatProperties
  <2>3. h[k] \in Seq(Nat) /\ p.sessions[i].out \in Seq(Nat)
    BY <2>1, ItemsNat
  <2>4. ToSet(f[k]) = ToSet(h[k]) \cup ToSet(p.sessions[i].out)
    BY <1>1, <2>3, ConcatRises
  <2> QED
    BY <2>2, <2>4
<1>2. DOMAIN f = Streams \X Langs /\ DOMAIN h = Streams \X Langs
  BY DEF HandsOn, Told
<1>3. \A k \in DOMAIN f : f[k] \in Seq(Items)
  BY <1>1, <1>2 DEF HandsOn, Told
<1>4. f \in Told
  BY <1>2, <1>3 DEF Told
<1> QED
  BY <1>1, <1>4 DEF HandsOn, Comes

LEMMA SpokenHandsOn ==
  ASSUME NEW p \in Procs(Items), NEW q, NEW h \in Told, NEW f, NEW s, NEW g, NEW z, NEW n,
         SpokenBy(p, h, g, z, n), UniqueInv(p), Drains(p, q, s), HandsOn(p, h, f, s),
         f = [k \in DOMAIN f |-> f[k]],
         q.task.pc # "idle" => q.task.frame.kind \notin {"audio", "text"}
  PROVE  f \in Told /\ SpokenBy(q, f, g, z, n)
<1>1. f \in Told /\ Comes(p, h, f, s) /\ DOMAIN f = DOMAIN h
  <2>1. f \in Told /\ Comes(p, h, f, s)
    BY HandsOnTyped
  <2>2. DOMAIN f = DOMAIN h
    BY DEF HandsOn
  <2> QED
    BY <2>1, <2>2
<1>2. OrderBy(p, h)
  BY DEF SpokenBy
<1>3. OrderBy(q, h)
  BY <1>2, DrainedKeepsOrder
<1>4. /\ DOMAIN q.sessions = DOMAIN p.sessions
      /\ \A i \in DOMAIN p.sessions :
           /\ ToSet(q.sessions[i].out) \subseteq ToSet(p.sessions[i].out)
           /\ Held(q.sessions[i]) \subseteq Held(p.sessions[i])
           /\ p.sessions[i].stream = s => Held(q.sessions[i]) = ToSet(p.sessions[i].got)
           /\ KeyOf(q.sessions[i]) = KeyOf(p.sessions[i])
           /\ q.sessions[i].stream = p.sessions[i].stream
           /\ ToSet(p.sessions[i].out) \subseteq Held(p.sessions[i])
  <2>1. \A i \in DOMAIN p.sessions :
           /\ ToSet(q.sessions[i].out) \subseteq ToSet(p.sessions[i].out)
           /\ Held(q.sessions[i]) \subseteq Held(p.sessions[i])
           /\ p.sessions[i].stream = s => Held(q.sessions[i]) = ToSet(p.sessions[i].got)
           /\ KeyOf(q.sessions[i]) = KeyOf(p.sessions[i])
    BY DrainedHeld
  <2>2. /\ DOMAIN q.sessions = DOMAIN p.sessions
        /\ \A i \in DOMAIN p.sessions : q.sessions[i].stream = p.sessions[i].stream
    BY DEF Drains
  <2>3. \A i \in DOMAIN p.sessions : ToSet(p.sessions[i].out) \subseteq Held(p.sessions[i])
    BY DEF Held
  <2> QED
    BY <2>1, <2>2, <2>3
<1>5. ASSUME NEW k \in DOMAIN h
      PROVE  Rising(f[k])
  <2>1. CASE f[k] = h[k]
    BY <1>2, <2>1 DEF OrderBy
  <2>2. ASSUME NEW i \in DOMAIN p.sessions, KeyOf(p.sessions[i]) = k,
               f[k] = h[k] \o p.sessions[i].out
        PROVE  Rising(f[k])
    <3>1. /\ Rising(h[k]) /\ Rising(p.sessions[i].out)
          /\ \A a \in ToSet(h[k]), b \in Held(p.sessions[i]) : a < b
      BY <1>2, <2>2 DEF OrderBy
    <3>2. h[k] \in Seq(Nat) /\ p.sessions[i].out \in Seq(Nat)
      BY ToldTyped, HeldTyped
    <3>3. \A a \in ToSet(h[k]), b \in ToSet(p.sessions[i].out) : a < b
      BY <1>4, <3>1
    <3> QED
      BY <2>2, <3>1, <3>2, <3>3, ConcatRises
  <2> QED
    BY <1>1, <2>1, <2>2 DEF Comes
<1>6. ASSUME NEW k \in DOMAIN h, NEW a \in ToSet(f[k])
      PROVE  \/ a \in ToSet(h[k])
             \/ \E i \in DOMAIN p.sessions : /\ p.sessions[i].stream = s
                                             /\ KeyOf(p.sessions[i]) = k
                                             /\ a \in ToSet(p.sessions[i].out)
  BY <1>1 DEF Comes
<1>7. ASSUME NEW j \in DOMAIN h, NEW k \in DOMAIN h, j # k, NEW a \in ToSet(f[j])
      PROVE  a \notin ToSet(f[k])
  <2>1. \A i \in DOMAIN p.sessions : \A l \in DOMAIN h :
          Held(p.sessions[i]) \cap ToSet(h[l]) = {}
    BY <1>2 DEF OrderBy
  <2>2. \A i, l \in DOMAIN p.sessions :
          KeyOf(p.sessions[i]) # KeyOf(p.sessions[l]) =>
            Held(p.sessions[i]) \cap Held(p.sessions[l]) = {}
    BY <1>2 DEF OrderBy
  <2>3. ToSet(h[j]) \cap ToSet(h[k]) = {}
    BY <1>2, <1>7 DEF OrderBy
  <2>4. CASE a \in ToSet(h[j])
    BY <1>4, <1>6, <2>1, <2>3, <2>4
  <2>5. ASSUME NEW i \in DOMAIN p.sessions, KeyOf(p.sessions[i]) = j,
               a \in ToSet(p.sessions[i].out)
        PROVE  a \notin ToSet(f[k])
    <3>1. a \in Held(p.sessions[i])
      BY <1>4, <2>5
    <3>2. a \notin ToSet(h[k])
      BY <2>1, <3>1
    <3>3. \A l \in DOMAIN p.sessions :
            KeyOf(p.sessions[l]) = k => a \notin ToSet(p.sessions[l].out)
      BY <1>4, <1>7, <2>2, <2>5, <3>1
    <3> QED
      BY <1>6, <3>2, <3>3
  <2> QED
    BY <1>6, <1>7, <2>4, <2>5
<1>8. ASSUME NEW i \in DOMAIN p.sessions, NEW b \in Held(q.sessions[i]),
             NEW k \in DOMAIN h, NEW a \in ToSet(f[k])
      PROVE  a # b /\ (k = KeyOf(q.sessions[i]) => a < b)
  <2>1. b \in Held(p.sessions[i]) /\ Held(p.sessions[i]) \subseteq Nat
    BY <1>4, HeldTyped
  <2>2. CASE a \in ToSet(h[k])
    BY <1>2, <1>4, <2>1, <2>2 DEF OrderBy
  <2>3. ASSUME NEW l \in DOMAIN p.sessions, p.sessions[l].stream = s,
               KeyOf(p.sessions[l]) = k, a \in ToSet(p.sessions[l].out)
        PROVE  a # b /\ (k = KeyOf(q.sessions[i]) => a < b)
    <3>1. CASE l = i
      <4>1. b \in ToSet(p.sessions[i].got)
        BY <1>4, <2>3, <3>1
      <4>2. a < b
        BY <1>2, <2>3, <3>1, <4>1 DEF OrderBy
      <4>3. a \in Nat /\ b \in Nat
        BY <1>4, <2>1, <2>3, <3>1
      <4> QED
        BY <4>2, <4>3
    <3>2. CASE l # i
      <4>1. KeyOf(p.sessions[l]) # KeyOf(p.sessions[i])
        BY <3>2 DEF UniqueInv
      <4>2. Held(p.sessions[l]) \cap Held(p.sessions[i]) = {} /\ a \in Held(p.sessions[l])
        BY <1>2, <1>4, <2>3, <3>2 DEF OrderBy
      <4> QED
        BY <1>4, <2>1, <2>3, <4>1, <4>2
    <3> QED
      BY <3>1, <3>2
  <2> QED
    BY <1>6, <1>8, <2>2, <2>3
<1>9. OrderBy(q, f)
  <2>1. \A i \in DOMAIN q.sessions : LET x == q.sessions[i] IN
          /\ Rising(x.out) /\ Rising(x.got)
          /\ \A a \in ToSet(x.out), b \in ToSet(x.got) : a < b
    BY <1>3 DEF OrderBy
  <2>2. \A i, j \in DOMAIN q.sessions :
          i # j => Held(q.sessions[i]) \cap Held(q.sessions[j]) = {}
    BY <1>3 DEF OrderBy
  <2>3. \A i \in DOMAIN q.sessions : KeyOf(q.sessions[i]) \in DOMAIN h
    <3>1. \A i \in DOMAIN p.sessions : KeyOf(p.sessions[i]) \in DOMAIN h
      BY SessionsTyped DEF Sessions, Told, KeyOf
    <3> QED
      BY <1>4, <3>1
  <2>4. \A i \in DOMAIN q.sessions : LET x == q.sessions[i] IN
          /\ \A a \in ToSet(f[KeyOf(x)]), b \in Held(x) : a < b
          /\ \A k \in DOMAIN h : Held(x) \cap ToSet(f[k]) = {}
    BY <1>4, <1>8, <2>3
  <2> QED
    BY <1>1, <1>5, <1>7, <2>1, <2>2, <2>4 DEF OrderBy
<1>10. TextBy(q, f, g, n)
  <2>1. \A k \in DOMAIN f : \A a \in ToSet(f[k]) : a < n
    BY <1>1, <1>4, <1>6 DEF SpokenBy, TextBy
  <2> QED
    BY <1>4, <2>1 DEF SpokenBy, TextBy, Busy
<1>11. SilenceBy(q, g, z, n)
  BY <1>4 DEF SpokenBy, SilenceBy, Busy
<1> QED
  BY <1>1, <1>9, <1>10, <1>11 DEF SpokenBy

LEMMA SpokenFlushes ==
  ASSUME NEW p \in Procs(Items), NEW q, NEW h, NEW s, NEW g, NEW z, NEW w, NEW n,
         SpokenBy(p, h, g, z, n), Drains(p, q, s), q.task.pc = "idle",
         \A a \in w \ z : \E i \in DOMAIN p.sessions :
           p.sessions[i].stream = s /\ a \in ToSet(p.sessions[i].out)
  PROVE  SpokenBy(q, h, g, w, n)
<1>1. \A i \in DOMAIN p.sessions :
           /\ Held(q.sessions[i]) \subseteq Held(p.sessions[i])
           /\ p.sessions[i].stream = s => Held(q.sessions[i]) = ToSet(p.sessions[i].got)
  BY DrainedHeld
<1>2. /\ DOMAIN q.sessions = DOMAIN p.sessions
      /\ \A i \in DOMAIN p.sessions : q.sessions[i].stream = p.sessions[i].stream
  BY DEF Drains
<1>3. OrderBy(p, h) /\ OrderBy(q, h)
  BY DrainedKeepsOrder DEF SpokenBy
<1>4. TextBy(q, h, g, n)
  BY <1>1, <1>2 DEF SpokenBy, TextBy, Busy
<1>5. ASSUME NEW a \in w \ z
      PROVE  a < n /\ \A i \in DOMAIN p.sessions : a \notin Held(q.sessions[i])
  <2>1. PICK l \in DOMAIN p.sessions : p.sessions[l].stream = s /\ a \in ToSet(p.sessions[l].out)
    BY <1>5
  <2>2. a \in Held(p.sessions[l]) /\ a \in Nat
    BY <2>1, HeldTyped DEF Held
  <2>3. a < n
    BY <2>2 DEF SpokenBy, TextBy
  <2>4. ASSUME NEW i \in DOMAIN p.sessions
        PROVE  a \notin Held(q.sessions[i])
    <3>1. CASE i = l
      <4>1. \A b \in ToSet(p.sessions[l].got) : a < b
        BY <1>3, <2>1 DEF OrderBy
      <4> QED
        BY <1>1, <2>1, <2>2, <3>1, <4>1
    <3>2. CASE i # l
      <4>1. Held(p.sessions[i]) \cap Held(p.sessions[l]) = {}
        BY <1>3, <3>2 DEF OrderBy
      <4> QED
        BY <1>1, <2>2, <4>1
    <3> QED
      BY <3>1, <3>2
  <2> QED
    BY <2>3, <2>4
<1>6. SilenceBy(q, g, w, n)
  BY <1>1, <1>2, <1>5 DEF SpokenBy, SilenceBy, Busy
<1> QED
  BY <1>3, <1>4, <1>6 DEF SpokenBy

(* The TTS processor's operators do this. *)
LEMMA DrainedIs ==
  ASSUME NEW p \in Procs(Items), ProcInv(p), NEW s, NEW q, q = TTS!Drained(p, s)
  PROVE  /\ q \in Procs(Items) /\ ProcInv(q) /\ Drains(p, q, s)
         /\ q.closedAll = p.closedAll /\ q.task = p.task
<1>1. PICK m : m = [i \in DOMAIN p.sessions |->
                      IF i \in TTS!OfStream(p, s) THEN [p.sessions[i] EXCEPT !.out = <<>>]
                      ELSE p.sessions[i]]
  OBVIOUS
<1>2. /\ DOMAIN p.sessions \subseteq Nat
      /\ \A i \in DOMAIN p.sessions : p.sessions[i] \in Sessions(Items)
  BY SessionsTyped
<1>3. ASSUME NEW i \in DOMAIN p.sessions
      PROVE  LET x == p.sessions[i] IN
             /\ m[i] \in Sessions(Items)
             /\ m[i].stream = x.stream /\ m[i].lang = x.lang /\ m[i].origin = x.origin
             /\ m[i].got = x.got /\ m[i].out = IF x.stream = s THEN <<>> ELSE x.out
  BY <1>1, <1>2, EmptyFacts DEF Sessions, TTS!OfStream
<1>4. DOMAIN m = DOMAIN p.sessions /\ m = [i \in DOMAIN m |-> m[i]]
  BY <1>1
<1>5. m \in SessionMaps(Items)
  <2>1. m \in [DOMAIN p.sessions -> Sessions(Items)]
    BY <1>3, <1>4
  <2> QED
    BY <1>2, <2>1, IsMap
<1>6. q = [p EXCEPT !.sessions = m]
  BY <1>1 DEF TTS!Drained
<1>7. /\ q \in Procs(Items) /\ q.sessions = m /\ Same(p, q) /\ q.task = p.task
  BY <1>5, <1>6 DEF Procs, Same
<1>8. Drains(p, q, s)
  BY <1>3, <1>4, <1>7 DEF Drains
<1>9. Thins(p, q)
  BY <1>8 DEF Thins, Drains
<1>10. ProcInv(q)
  BY <1>7, <1>9, ProcessStays
<1> QED
  BY <1>7, <1>8, <1>10 DEF Same

LEMMA HandOnIs ==
  ASSUME NEW p, NEW s, audio \in Told, TTS!HandOn(p, s)
  PROVE  HandsOn(p, audio, audio', s) /\ audio' = [k \in DOMAIN audio' |-> audio'[k]]
<1>1. /\ DOMAIN audio' = DOMAIN audio /\ audio' = [k \in DOMAIN audio' |-> audio'[k]]
  BY DEF TTS!HandOn
<1>2. ASSUME NEW k \in DOMAIN audio
      PROVE  \/ audio'[k] = audio[k]
             \/ \E i \in DOMAIN p.sessions : /\ p.sessions[i].stream = s /\ KeyOf(p.sessions[i]) = k
                                             /\ audio'[k] = audio[k] \o p.sessions[i].out
  <2>1. CASE \E i \in TTS!OfStream(p, s) : k = <<s, p.sessions[i].lang>>
    <3>1. PICK i : i = CHOOSE j \in TTS!OfStream(p, s) : k = <<s, p.sessions[j].lang>>
      OBVIOUS
    <3>2. i \in TTS!OfStream(p, s) /\ k = <<s, p.sessions[i].lang>>
      BY <2>1, <3>1
    <3>3. audio'[k] = audio[k] \o p.sessions[i].out
      BY <2>1, <3>1 DEF TTS!HandOn
    <3> QED
      BY <3>2, <3>3 DEF TTS!OfStream, KeyOf
  <2>2. CASE ~\E i \in TTS!OfStream(p, s) : k = <<s, p.sessions[i].lang>>
    BY <2>2 DEF TTS!HandOn
  <2> QED
    BY <2>1, <2>2
<1> QED
  BY <1>1, <1>2 DEF HandsOn

(* After a step of the TTS processor: n is the next text, f what has been    *)
(* handed on and w what is silenced.                                         *)
Unsilenced(f) ==
  \A k \in DOMAIN audio : \A m \in DOMAIN f[k] \ DOMAIN audio[k] : f[k][m] \notin silenced

TtsOK(q, f, g, w, n) ==
  /\ q \in Procs(Items) /\ ProcInv(q) /\ q.closedAll = tts.closedAll
  /\ f \in Told /\ w \in SUBSET Items /\ SpokenBy(q, f, g, w, n) /\ Unsilenced(f)

(* What is handed on was held by a session. *)
LEMMA HandsOnUnsilenced ==
  ASSUME NEW p, NEW s, HandsOn(p, audio, audio', s), tts \in Procs(Items), audio \in Told,
         NEW h, NEW g, NEW n, SpokenBy(tts, h, g, silenced, n),
         \A i \in DOMAIN p.sessions :
           i \in DOMAIN tts.sessions /\ p.sessions[i].out = tts.sessions[i].out
  PROVE  Unsilenced(audio')
<1>1. ASSUME NEW k \in DOMAIN audio, NEW m \in DOMAIN audio'[k] \ DOMAIN audio[k]
      PROVE  audio'[k][m] \notin silenced
  <2>1. CASE audio'[k] = audio[k]
    BY <1>1, <2>1
  <2>2. ASSUME NEW i \in DOMAIN p.sessions, audio'[k] = audio[k] \o p.sessions[i].out
        PROVE  audio'[k][m] \notin silenced
    <3>1. PICK a : a = audio[k]
      OBVIOUS
    <3>2. PICK o : o = tts.sessions[i].out
      OBVIOUS
    <3>3. i \in DOMAIN tts.sessions /\ audio'[k] = a \o o
      BY <2>2, <3>1, <3>2
    <3>4. a \in Seq(Nat) /\ o \in Seq(Nat)
      BY <3>1, <3>2, <3>3, ToldTyped, HeldTyped
    <3>5. /\ Len(a \o o) = Len(a) + Len(o) /\ a \o o \in Seq(Nat)
          /\ \A j \in 1 .. Len(a) + Len(o) : (a \o o)[j] = IF j <= Len(a) THEN a[j] ELSE o[j - Len(a)]
      BY <3>4, ConcatProperties
    <3>6. /\ Len(a) \in Nat /\ Len(o) \in Nat /\ DOMAIN a = 1 .. Len(a) /\ DOMAIN o = 1 .. Len(o)
          /\ DOMAIN (a \o o) = 1 .. Len(a) + Len(o)
      BY <3>4, <3>5, LenProperties
    <3>7. m \in 1 .. Len(a) + Len(o) /\ m \notin 1 .. Len(a)
      BY <1>1, <3>1, <3>3, <3>6
    <3>8. m - Len(a) \in DOMAIN o /\ (a \o o)[m] = o[m - Len(a)]
      BY <3>5, <3>6, <3>7
    <3>9. o[m - Len(a)] \in Held(tts.sessions[i])
      BY <3>2, <3>8 DEF Held, ToSet
    <3>10. Held(tts.sessions[i]) \cap silenced = {}
      BY <3>3 DEF SpokenBy, SilenceBy
    <3> QED
      BY <3>3, <3>8, <3>9, <3>10
  <2> QED
    BY <1>1, <2>1, <2>2 DEF HandsOn
<1> QED
  BY <1>1 DEF Unsilenced

(* Process may end its text with a processor p: it is what tts is, or has    *)
(* taken the text.                                                           *)
MayEnd(p, n) ==
  /\ p \in Procs(Items) /\ ProcInv(p) /\ p.task = tts.task /\ p.closedAll = tts.closedAll
  /\ \A i \in DOMAIN p.sessions :
       i \in DOMAIN tts.sessions /\ p.sessions[i].out = tts.sessions[i].out
  /\ \A q : /\ q.sessions = p.sessions
            /\ q.task.pc = "idle" \/ (q.task.pc = "retry" /\ q.task.frame = tts.task.frame)
            => SpokenBy(q, audio, given, silenced, n)

LEMMA TtsMayEnd ==
  ASSUME TypesInv, ProcInv(tts), NEW n, SpokenBy(tts, audio, given, silenced, n),
         tts.task.pc \in {"handle", "starting", "send"}
  PROVE  MayEnd(tts, n)
<1>1. tts \in Procs(Items)
  BY DEF TypesInv
<1>2. ASSUME NEW q, q.sessions = tts.sessions,
             q.task.pc = "idle" \/ (q.task.pc = "retry" /\ q.task.frame = tts.task.frame)
      PROVE  SpokenBy(q, audio, given, silenced, n)
  <2>1. Keeps(tts, q) /\ Silences(q, silenced, silenced, n)
    BY <1>2 DEF Keeps, Silences
  <2>2. Continues(tts, q)
    BY <1>2 DEF Continues
  <2> QED
    BY <2>1, <2>2, SpokenKeeps
<1> QED
  BY <1>1, <1>2 DEF MayEnd

LEMMA SendingText ==
  ASSUME TypesInv, ProcInv(tts), NEW n, SpokenBy(tts, audio, given, silenced, n),
         tts.task.pc \in {"create", "starting", "send", "retry"}
  PROVE  /\ tts \in Procs(Items) /\ audio \in Told /\ tts.task \in Tasks
         /\ Busy(tts) /\ tts.task.frame.item \in Items /\ tts.task.frame.stream \in Streams
         /\ tts.task.frame.item \in Nat /\ KeyOf(tts.task.frame) \in DOMAIN audio
         /\ FrameOK(tts.task.frame)
<1>1. tts \in Procs(Items) /\ audio \in Told
  BY DEF TypesInv, Told
<1>2. tts.task \in Tasks /\ FrameOK(tts.task.frame) /\ tts.task.frame.kind = "text"
  BY <1>1, TaskTyped DEF ProcInv, TaskInv, SpokenBy, TextBy
<1>3. tts.task.frame.item \in Items /\ tts.task.frame.stream \in Streams
  BY <1>2 DEF FrameOK
<1>4. tts.task.frame.item \in Nat
  BY <1>3, SpeechAssumption DEF Items
<1>5. KeyOf(tts.task.frame) \in DOMAIN audio
  BY <1>1, <1>2, <1>3 DEF FrameOK, Frames, KeyOf, Told
<1> QED
  BY <1>1, <1>2, <1>3, <1>4, <1>5 DEF Busy

LEMMA TakenMayEnd ==
  ASSUME TypesInv, ProcInv(tts), NEW n, SpokenBy(tts, audio, given, silenced, n),
         tts.task.pc = "send"
  PROVE  MayEnd(TTS!Taken, n)
<1> USE DEF TTS!task, TTS!frame, TTS!sessions
<1>1. /\ tts \in Procs(Items) /\ audio \in Told
      /\ Busy(tts) /\ tts.task.frame.item \in Items /\ tts.task.frame.item \in Nat
      /\ KeyOf(tts.task.frame) \in DOMAIN audio
  BY SendingText
<1>2. PICK i : i = tts.task.session
  OBVIOUS
<1>3. CASE ~(i \in DOMAIN tts.sessions /\ Len(tts.sessions[i].got) < WriteCap)
  <2>1. TTS!Taken = tts
    BY <1>2, <1>3 DEF TTS!Taken
  <2> QED
    BY <2>1, TtsMayEnd
<1>4. CASE i \in DOMAIN tts.sessions /\ Len(tts.sessions[i].got) < WriteCap
  <2>1. PICK y : y = tts.sessions[i]
    OBVIOUS
  <2>2. y \in Sessions(Items)
    BY <1>1, <1>4, <2>1, SessionsTyped
  <2>3. PICK x : x = [y EXCEPT !.got = Append(@, tts.task.frame.item)]
    OBVIOUS
  <2>4. Append(y.got, tts.task.frame.item) \in Seq(Items)
    BY <1>1, <2>2, AppendProperties DEF Sessions
  <2>5. /\ x \in Sessions(Items) /\ x.stream = y.stream /\ x.lang = y.lang
        /\ x.origin = y.origin /\ x.out = y.out
        /\ x.got = Append(y.got, tts.task.frame.item)
    BY <2>2, <2>3, <2>4 DEF Sessions
  <2>6. PICK p : p = [tts EXCEPT !.sessions = [tts.sessions EXCEPT ![i] = x]]
    OBVIOUS
  <2>7. TTS!Taken = p
    BY <1>2, <1>4, <2>1, <2>3, <2>6 DEF TTS!Taken
  <2>8. /\ p \in Procs(Items) /\ ProcInv(p) /\ Sets(tts, p, i, x)
        /\ p.closedAll = tts.closedAll /\ p.task = tts.task
    BY <1>1, <1>4, <2>1, <2>5, <2>6, SessionSteps
  <2>9. KeyOf(x) = KeyOf(y) /\ KeyOf(y) = KeyOf(tts.task.frame)
    BY <1>2, <1>4, <2>1, <2>5 DEF KeyOf, ProcInv, TaskInv
  <2>10. y.stream = tts.task.frame.stream
    BY <2>9 DEF KeyOf
  <2>11. ASSUME NEW q, q.sessions = p.sessions,
                q.task.pc = "idle" \/ (q.task.pc = "retry" /\ q.task.frame = tts.task.frame)
         PROVE  SpokenBy(q, audio, given, silenced, n)
    <3>1. Sets(tts, q, i, x)
      BY <2>8, <2>11 DEF Sets
    <3> QED
      BY <1>1, <1>4, <2>1, <2>5, <2>9, <2>10, <2>11, <3>1, SpokenTaken
  <2>12. \A j \in DOMAIN p.sessions :
           j \in DOMAIN tts.sessions /\ p.sessions[j].out = tts.sessions[j].out
    BY <2>1, <2>5, <2>8 DEF Sets
  <2> QED
    BY <2>7, <2>8, <2>11, <2>12 DEF MayEnd
<1> QED
  BY <1>3, <1>4

(* Process returns and hands on the audio of the frame's stream. *)
LEMMA EndsDraining ==
  ASSUME TypesInv, NEW n, SpokenBy(tts, audio, given, silenced, n),
         NEW p, MayEnd(p, n), NEW s, TTS!HandOn(p, s),
         NEW r, r = TTS!Drained(p, s),
         NEW q, q \in Procs(Items), Same(r, q), q.sessions = r.sessions, q.task = STT!Idle
  PROVE  TtsOK(q, audio', given, silenced, n)
<1>1. /\ p \in Procs(Items) /\ ProcInv(p) /\ p.closedAll = tts.closedAll
      /\ tts \in Procs(Items) /\ audio \in Told /\ silenced \in SUBSET Items
  BY DEF MayEnd, TypesInv, Told
<1>2. r \in Procs(Items) /\ ProcInv(r) /\ Drains(p, r, s) /\ r.closedAll = p.closedAll
  BY <1>1, DrainedIs
<1>3. Returns(Items, r, q)
  BY <1>2, ReturnSteps
<1>4. PICK m : m = STT!Done(p)
  OBVIOUS
<1>5. m \in Procs(Items) /\ ProcInv(m) /\ m.sessions = p.sessions /\ m.task.pc = "idle"
  BY <1>1, <1>4, DoneSteps DEF Returns
<1>6. SpokenBy(m, audio, given, silenced, n)
  BY <1>5 DEF MayEnd
<1>7. HandsOn(p, audio, audio', s) /\ audio' = [k \in DOMAIN audio' |-> audio'[k]]
  BY <1>1, HandOnIs
<1>8. Drains(m, q, s) /\ HandsOn(m, audio, audio', s) /\ UniqueInv(m)
  <2>1. UniqueInv(m)
    BY <1>5 DEF ProcInv
  <2>2. PICK x : x = m.sessions /\ x = p.sessions
    BY <1>5
  <2>3. Drains(m, q, s)
    BY <1>2, <2>2 DEF Drains
  <2>4. HandsOn(m, audio, audio', s)
    BY <1>7, <2>2 DEF HandsOn
  <2> QED
    BY <2>1, <2>3, <2>4
<1>9. audio' \in Told /\ SpokenBy(q, audio', given, silenced, n)
  BY <1>1, <1>3, <1>5, <1>6, <1>7, <1>8, SpokenHandsOn DEF Returns
<1>10. Unsilenced(audio')
  BY <1>1, <1>7, HandsOnUnsilenced DEF MayEnd
<1> QED
  BY <1>1, <1>2, <1>3, <1>9, <1>10 DEF TtsOK, Returns

LEMMA EndsIdle ==
  ASSUME NEW p \in Procs(Items), NEW err, NEW q,
         q = TTS!GaveUp(p, err) \/ q = TTS!Succeeded(p) \/ q = TTS!Done(p)
  PROVE  q \in Procs(Items) /\ Same(p, q) /\ q.sessions = p.sessions /\ q.task = STT!Idle
BY EndsIs, DoneIs

LEMMA NothingHandedOn ==
  ASSUME TypesInv, UNCHANGED audio
  PROVE  audio' \in Told /\ Unsilenced(audio')
BY DEF TypesInv, Told, Unsilenced

LEMMA TtsFailsOK ==
  ASSUME TypesInv, ProcInv(tts), NEW n, SpokenBy(tts, audio, given, silenced, n),
         NEW p, MayEnd(p, n), NEW err, TTS!Fails(err, p)
  PROVE  TtsOK(tts', audio', given, silenced, n) /\ UNCHANGED <<given, silenced>>
<1> USE DEF TTS!At, TTS!task, TTS!frame, TTS!sessions
<1>1. /\ p \in Procs(Items) /\ ProcInv(p) /\ p.closedAll = tts.closedAll
      /\ tts.task.pc \in {"starting", "send"} /\ p.task = tts.task /\ UNCHANGED <<given, silenced>>
      /\ silenced \in SUBSET Items
  BY DEF MayEnd, TTS!Fails, TypesInv
<1>2. CASE TTS!MayRetry
  <2>1. tts' = STT!Goto(p, "retry") /\ UNCHANGED audio
    BY <1>2, SameOperators DEF TTS!Fails
  <2>2. /\ tts' \in Procs(Items) /\ ProcInv(tts') /\ tts'.sessions = p.sessions
        /\ tts'.closedAll = p.closedAll
        /\ tts'.task.pc = "retry" /\ tts'.task.frame = p.task.frame
    BY <1>1, <2>1, GoesOnSteps
  <2>3. SpokenBy(tts', audio, given, silenced, n)
    BY <1>1, <2>2 DEF MayEnd
  <2> QED
    BY <1>1, <2>1, <2>2, <2>3, NothingHandedOn DEF TtsOK
<1>3. CASE ~TTS!MayRetry
  <2>1. PICK r : r = TTS!Drained(p, tts.task.frame.stream)
    OBVIOUS
  <2>2. tts' = TTS!GaveUp(r, err) /\ TTS!HandOn(p, tts.task.frame.stream)
    BY <1>3, <2>1 DEF TTS!Fails
  <2>3. r \in Procs(Items)
    BY <1>1, <2>1, DrainedIs
  <2>4. tts' \in Procs(Items) /\ Same(r, tts') /\ tts'.sessions = r.sessions /\ tts'.task = STT!Idle
    BY <2>2, <2>3, EndsIdle
  <2> QED
    BY <1>1, <2>1, <2>2, <2>4, EndsDraining
<1> QED
  BY <1>2, <1>3

LEMMA SentOK ==
  ASSUME TypesInv, ProcInv(tts), NEW n, SpokenBy(tts, audio, given, silenced, n), TTS!Sent
  PROVE  TtsOK(tts', audio', given, silenced, n) /\ UNCHANGED <<given, silenced>>
<1> USE DEF TTS!At, TTS!task, TTS!frame, TTS!sessions
<1>1. tts.task.pc = "send" /\ UNCHANGED <<given, silenced>>
  BY DEF TTS!Sent
<1>2. PICK p : p = TTS!Taken
  OBVIOUS
<1>3. MayEnd(p, n)
  BY <1>1, <1>2, TakenMayEnd
<1>4. PICK r : r = TTS!Drained(p, tts.task.frame.stream)
  OBVIOUS
<1>5. tts' = TTS!Succeeded(r) /\ TTS!HandOn(p, tts.task.frame.stream)
  BY <1>2, <1>4 DEF TTS!Sent
<1>6. r \in Procs(Items)
  BY <1>3, <1>4, DrainedIs DEF MayEnd
<1>7. tts' \in Procs(Items) /\ Same(r, tts') /\ tts'.sessions = r.sessions /\ tts'.task = STT!Idle
  BY <1>5, <1>6, EndsIdle
<1> QED
  BY <1>1, <1>3, <1>4, <1>5, <1>7, EndsDraining

LEMMA HandleTextOK ==
  ASSUME TypesInv, ProcInv(tts), NEW n, SpokenBy(tts, audio, given, silenced, n), TTS!HandleText
  PROVE  TtsOK(tts', audio', given, silenced, n) /\ UNCHANGED <<given, silenced>>
<1> USE DEF TTS!At, TTS!task, TTS!frame, TTS!sessions
<1>1. /\ tts.task.pc = "handle" /\ tts.task.frame.kind = "text" /\ UNCHANGED <<given, silenced>>
      /\ tts \in Procs(Items) /\ silenced \in SUBSET Items
  BY DEF TTS!HandleText, TypesInv
<1>2. CASE TTS!Allows(tts.breaker)
  <2>1. tts' = STT!Goto(tts, "create") /\ UNCHANGED audio
    BY <1>2, SameOperators DEF TTS!HandleText
  <2>2. /\ tts' \in Procs(Items) /\ ProcInv(tts') /\ tts'.sessions = tts.sessions
        /\ tts'.closedAll = tts.closedAll
        /\ tts'.task.pc = "create" /\ tts'.task.frame = tts.task.frame
    BY <1>1, <2>1, GoesOnSteps
  <2>3. /\ Keeps(tts, tts') /\ Continues(tts, tts') /\ Silences(tts', silenced, silenced, n)
    BY <1>1, <2>2 DEF Keeps, Continues, Silences
  <2>4. SpokenBy(tts', audio, given, silenced, n)
    BY <2>3, SpokenKeeps
  <2> QED
    BY <1>1, <2>1, <2>2, <2>4, NothingHandedOn DEF TtsOK
<1>3. CASE ~TTS!Allows(tts.breaker)
  <2>1. PICK r : r = TTS!Drained(tts, tts.task.frame.stream)
    OBVIOUS
  <2>2. tts' = TTS!Done(r) /\ TTS!HandOn(tts, tts.task.frame.stream)
    BY <1>3, <2>1 DEF TTS!HandleText
  <2>3. r \in Procs(Items)
    BY <1>1, <2>1, DrainedIs
  <2>4. tts' \in Procs(Items) /\ Same(r, tts') /\ tts'.sessions = r.sessions /\ tts'.task = STT!Idle
    BY <2>2, <2>3, EndsIdle
  <2>5. MayEnd(tts, n)
    BY <1>1, TtsMayEnd
  <2> QED
    BY <1>1, <2>1, <2>2, <2>4, <2>5, EndsDraining
<1> QED
  BY <1>2, <1>3

LEMMA HandleOtherOK ==
  ASSUME TypesInv, ProcInv(tts), NEW n, SpokenBy(tts, audio, given, silenced, n), TTS!HandleOther
  PROVE  TtsOK(tts', audio', given, silenced, n) /\ UNCHANGED <<given, silenced>>
<1> USE DEF TTS!At, TTS!task, TTS!frame, TTS!sessions
<1>1. /\ tts.task.pc = "handle" /\ tts.task.frame.kind \notin {"text", "audio"}
      /\ UNCHANGED <<given, silenced>>
      /\ tts \in Procs(Items) /\ silenced \in SUBSET Items /\ audio \in Told
      /\ TTS!HandOn(tts, tts.task.frame.stream)
  BY DEF TTS!HandleOther, TTS!Closing, TypesInv, Told
<1>2. PICK r : r = TTS!Drained(tts, tts.task.frame.stream)
  OBVIOUS
<1>3. /\ r \in Procs(Items) /\ ProcInv(r) /\ Drains(tts, r, tts.task.frame.stream)
      /\ r.closedAll = tts.closedAll /\ r.task = tts.task
  BY <1>1, <1>2, DrainedIs
<1>4. CASE tts' = TTS!Done(r)
  <2>1. tts' \in Procs(Items) /\ Same(r, tts') /\ tts'.sessions = r.sessions /\ tts'.task = STT!Idle
    BY <1>3, <1>4, EndsIdle
  <2>2. MayEnd(tts, n)
    BY <1>1, TtsMayEnd
  <2> QED
    BY <1>1, <1>2, <2>1, <2>2, EndsDraining
<1>5. CASE tts' = TTS!Goto(r, "control")
  <2>1. tts' = STT!Goto(r, "control")
    BY <1>5, SameOperators
  <2>2. /\ tts' \in Procs(Items) /\ ProcInv(tts') /\ tts'.sessions = r.sessions
        /\ tts'.closedAll = r.closedAll /\ tts'.task.frame = tts.task.frame
    BY <1>1, <1>3, <2>1, GoesOnSteps
  <2>3. /\ HandsOn(tts, audio, audio', tts.task.frame.stream)
        /\ audio' = [k \in DOMAIN audio' |-> audio'[k]]
    BY <1>1, HandOnIs
  <2>4. Drains(tts, tts', tts.task.frame.stream) /\ UniqueInv(tts)
    BY <1>3, <2>2 DEF Drains, ProcInv
  <2>5. audio' \in Told /\ SpokenBy(tts', audio', given, silenced, n)
    BY <1>1, <2>2, <2>3, <2>4, SpokenHandsOn
  <2>6. Unsilenced(audio')
    BY <1>1, <2>3, HandsOnUnsilenced
  <2> QED
    BY <1>1, <1>3, <2>2, <2>5, <2>6 DEF TtsOK
<1> QED
  BY <1>2, <1>4, <1>5 DEF TTS!HandleOther

LEMMA FlushStreamOK ==
  ASSUME TypesInv, ProcInv(tts), NEW n, SpokenBy(tts, audio, given, silenced, n), TTS!FlushStream
  PROVE  TtsOK(tts', audio', given, silenced', n) /\ UNCHANGED given
<1> USE DEF TTS!At, TTS!task, TTS!frame, TTS!sessions
<1>1. /\ tts \in Procs(Items) /\ silenced \in SUBSET Items /\ UNCHANGED <<audio, given>>
  BY DEF TTS!FlushStream, TypesInv
<1>2. PICK s : s = tts.task.frame.stream
  OBVIOUS
<1>3. PICK r : r = TTS!Drained(tts, s)
  OBVIOUS
<1>4. /\ r \in Procs(Items) /\ ProcInv(r) /\ Drains(tts, r, s) /\ r.closedAll = tts.closedAll
  BY <1>1, <1>3, DrainedIs
<1>5. tts' = TTS!Done(r)
  BY <1>2, <1>3 DEF TTS!FlushStream
<1>6. tts' \in Procs(Items) /\ Same(r, tts') /\ tts'.sessions = r.sessions /\ tts'.task = STT!Idle
  BY <1>4, <1>5, EndsIdle
<1>7. Returns(Items, r, tts')
  BY <1>4, <1>6, ReturnSteps
<1>8. Drains(tts, tts', s)
  BY <1>4, <1>6 DEF Drains
<1>9. silenced' = silenced \cup TTS!Buffered(s)
  BY <1>2 DEF TTS!FlushStream, TTS!Silence
<1>10. \A a \in silenced' \ silenced : \E i \in DOMAIN tts.sessions :
         tts.sessions[i].stream = s /\ a \in ToSet(tts.sessions[i].out)
  <2>1. ASSUME NEW a \in TTS!Buffered(s)
        PROVE  \E i \in DOMAIN tts.sessions :
                 tts.sessions[i].stream = s /\ a \in ToSet(tts.sessions[i].out)
    <3>1. PICK i \in TTS!OfStream(tts, s) : a \in ToSet(tts.sessions[i].out)
      BY <2>1 DEF TTS!Buffered, TTS!ToSet, ToSet
    <3> QED
      BY <3>1 DEF TTS!OfStream
  <2> QED
    BY <1>9, <2>1
<1>11. SpokenBy(tts', audio, given, silenced', n)
  BY <1>1, <1>7, <1>8, <1>10, SpokenFlushes DEF Returns
<1>12. silenced' \in SUBSET Items
  <2>1. \A i \in DOMAIN tts.sessions : ToSet(tts.sessions[i].out) \subseteq Items
    BY <1>1, SessionsTyped, ItemsNat DEF Sessions
  <2> QED
    BY <1>1, <1>10, <2>1
<1> QED
  BY <1>1, <1>4, <1>7, <1>11, <1>12, NothingHandedOn DEF TtsOK, Returns

(* Streams are closed, and the texts they were given silenced. *)
LEMMA ClosesOK ==
  ASSUME TypesInv, ProcInv(tts), NEW n, SpokenBy(tts, audio, given, silenced, n),
         NEW s \in Streams, tts' = STT!Done(STT!CloseStream(tts, s)),
         TTS!Silence(given[s]), UNCHANGED <<audio, given>>
  PROVE  TtsOK(tts', audio', given, silenced', n)
<1>1. tts \in Procs(Items) /\ silenced \in SUBSET Items /\ given[s] \subseteq Items
  BY DEF TypesInv
<1>2. /\ Returns(Items, tts, tts') /\ Keeps(tts, tts')
      /\ \A i \in DOMAIN tts'.sessions : tts'.sessions[i].stream # s
  BY <1>1, CloseSteps
<1>3. silenced' = silenced \cup given[s]
  BY DEF TTS!Silence
<1>4. Silences(tts', silenced, silenced', n)
  <2>1. ASSUME NEW a \in given[s]
        PROVE  a < n /\ \A i \in DOMAIN tts'.sessions : a \notin Held(tts'.sessions[i])
    <3>1. a < n
      BY <2>1 DEF SpokenBy, TextBy
    <3>2. ASSUME NEW i \in DOMAIN tts'.sessions
          PROVE  a \notin Held(tts'.sessions[i])
      <4>1. /\ i \in DOMAIN tts.sessions /\ tts.sessions[i].stream # s
            /\ Held(tts'.sessions[i]) = Held(tts.sessions[i])
        BY <1>2 DEF Keeps, Held
      <4>2. Held(tts.sessions[i]) \subseteq given[tts.sessions[i].stream]
        BY <4>1 DEF SpokenBy, SilenceBy
      <4>3. tts.sessions[i].stream \in Streams
        BY <1>1, <4>1, SessionsTyped DEF Sessions
      <4>4. given[tts.sessions[i].stream] \cap given[s] = {}
        BY <4>1, <4>3 DEF SpokenBy, SilenceBy
      <4> QED
        BY <2>1, <4>1, <4>2, <4>4
    <3> QED
      BY <3>1, <3>2
  <2> QED
    BY <1>2, <1>3, <2>1 DEF Silences, Returns, Busy
<1>5. Continues(tts, tts')
  BY <1>2 DEF Continues, Returns
<1>6. SpokenBy(tts', audio, given, silenced', n)
  BY <1>2, <1>4, <1>5, SpokenKeeps
<1> QED
  BY <1>1, <1>2, <1>3, <1>6, NothingHandedOn DEF TtsOK, Returns

(* Process returns, and nothing is done. *)
LEMMA JustReturnsOK ==
  ASSUME TypesInv, ProcInv(tts), NEW n, SpokenBy(tts, audio, given, silenced, n),
         tts' = STT!Done(tts), silenced' = silenced, UNCHANGED <<audio, given>>
  PROVE  TtsOK(tts', audio', given, silenced', n)
<1>1. tts \in Procs(Items) /\ silenced \in SUBSET Items
  BY DEF TypesInv
<1>2. Returns(Items, tts, tts') /\ tts'.sessions = tts.sessions
  BY <1>1, DoneSteps
<1>3. Keeps(tts, tts') /\ Continues(tts, tts') /\ Silences(tts', silenced, silenced, n)
  BY <1>2 DEF Keeps, Continues, Silences, Returns
<1>4. SpokenBy(tts', audio, given, silenced, n)
  BY <1>3, SpokenKeeps
<1> QED
  BY <1>1, <1>2, <1>4, NothingHandedOn DEF TtsOK, Returns

LEMMA HandleCallEndOK ==
  ASSUME TypesInv, ProcInv(tts), NEW n, SpokenBy(tts, audio, given, silenced, n),
         TTS!HandleCallEnd
  PROVE  TtsOK(tts', audio', given, silenced', n) /\ UNCHANGED given
<1> USE DEF TTS!At, TTS!task, TTS!frame, TTS!sessions
<1>1. PICK s : s = TTS!StreamForCall
  OBVIOUS
<1>2. s \in Streams \cup {NoStream}
  <2>1. tts.task \in Tasks /\ tts \in Procs(Items)
    BY TaskTyped DEF TTS!HandleCallEnd, TypesInv
  <2> QED
    BY <1>1, <2>1 DEF TTS!StreamForCall, Tasks, Frames, Procs
<1>3. CASE s = NoStream
  <2>1. tts' = STT!Done(tts) /\ UNCHANGED <<audio, given>>
    BY <1>1, <1>3, SameOperators DEF TTS!HandleCallEnd, TTS!CallEnd
  <2>2. silenced' = silenced
    BY <1>1, <1>3 DEF TTS!HandleCallEnd, TTS!Silence, TTS!GivenTo
  <2> QED
    BY <2>1, <2>2, JustReturnsOK
<1>4. CASE s # NoStream
  <2>1. /\ tts' = STT!Done(STT!CloseStream(tts, s)) /\ UNCHANGED <<audio, given>>
        /\ TTS!Silence(given[s])
    BY <1>1, <1>4, SameOperators DEF TTS!HandleCallEnd, TTS!CallEnd, TTS!GivenTo
  <2>2. s \in Streams
    BY <1>2, <1>4
  <2> QED
    BY <2>1, <2>2, ClosesOK
<1> QED
  BY <1>3, <1>4

LEMMA ControlCloseOK ==
  ASSUME TypesInv, ProcInv(tts), NEW n, SpokenBy(tts, audio, given, silenced, n),
         TTS!ControlClose
  PROVE  TtsOK(tts', audio', given, silenced', n) /\ UNCHANGED given
<1> USE DEF TTS!At, TTS!task, TTS!frame, TTS!sessions
<1>1. PICK s : s = tts.task.frame.stream
  OBVIOUS
<1>2. s \in Streams
  BY <1>1 DEF TTS!ControlClose, TTS!Closing, ProcInv, TaskInv, FrameOK
<1>3. /\ tts' = STT!Done(STT!CloseStream(tts, s)) /\ UNCHANGED <<audio, given>>
      /\ TTS!Silence(given[s])
  BY <1>1, SameOperators DEF TTS!ControlClose
<1> QED
  BY <1>2, <1>3, ClosesOK

LEMMA HandleEmptyOK ==
  ASSUME TypesInv, ProcInv(tts), NEW n, SpokenBy(tts, audio, given, silenced, n),
         TTS!HandleEmpty
  PROVE  TtsOK(tts', audio', given, silenced', n) /\ UNCHANGED given
<1>1. tts' = STT!Done(tts) /\ UNCHANGED <<audio, given, silenced>>
  BY SameOperators DEF TTS!HandleEmpty, TTS!ttsHistory
<1> QED
  BY <1>1, JustReturnsOK

(* The shared steps, and the stream that is replaced. *)
LEMMA TtsSharedOK ==
  ASSUME TypesInv, ProcInv(tts), NEW n, SpokenBy(tts, audio, given, silenced, n),
         TTS!SessionStep \/ TTS!StartReturns, UNCHANGED audio, silenced' \in SUBSET Items,
         Silences(tts', silenced, silenced', n), tts.task.pc = "starting" => silenced' = silenced
  PROVE  TtsOK(tts', audio', given, silenced', n)
<1>1. tts \in Procs(Items)
  BY DEF TypesInv
<1>2. Steps(Items, tts, tts')
  BY <1>1, TtsSteps
<1>3. SpokenBy(tts', audio, given, silenced', n)
  BY <1>2, SharedSpoken DEF Steps
<1> QED
  BY <1>2, <1>3, NothingHandedOn DEF TtsOK, Steps

LEMMA ReplaceOK ==
  ASSUME TypesInv, ProcInv(tts), NEW n, SpokenBy(tts, audio, given, silenced, n), TTS!Replace
  PROVE  TtsOK(tts', audio', given, silenced', n) /\ UNCHANGED given
<1> USE DEF TTS!At, TTS!task, TTS!frame, TTS!sessions
<1>1. PICK s : s = tts.task.prev
  OBVIOUS
<1>2. /\ tts \in Procs(Items) /\ TTS!ReplaceStream /\ tts.task.pc = "replace"
      /\ s \in Streams /\ s # tts.task.frame.stream /\ tts.task.frame.stream \in Streams
      /\ silenced' = silenced \cup given[s] /\ given[s] \subseteq Items
      /\ UNCHANGED <<audio, given>> /\ silenced \in SUBSET Items
  <2>1. /\ tts \in Procs(Items) /\ TTS!ReplaceStream /\ tts.task.pc = "replace"
        /\ silenced \in SUBSET Items /\ UNCHANGED <<audio, given>>
        /\ silenced' = silenced \cup given[s]
    BY <1>1 DEF TTS!Replace, TTS!ReplaceStream, TypesInv, TTS!Silence
  <2>2. s \in Streams /\ s # tts.task.frame.stream /\ tts.task.frame.stream \in Streams
    BY <1>1, <2>1 DEF ProcInv, TaskInv
  <2> QED
    BY <2>1, <2>2 DEF TypesInv
<1>3. PICK c : c = STT!CloseStream(tts, s)
  OBVIOUS
<1>4. /\ c \in Procs(Items) /\ c.task = tts.task
      /\ \A i \in DOMAIN c.sessions : c.sessions[i].stream # s
      /\ \A i \in DOMAIN c.sessions : i \in DOMAIN tts.sessions /\ c.sessions[i] = tts.sessions[i]
  <2>1. c \in Procs(Items) /\ c.task = tts.task
    BY <1>2, <1>3, CloseStreamIs
  <2>2. ClosesStream(tts, c, s)
    BY <1>2, <1>3, CloseStreamThins DEF ProcInv
  <2> QED
    BY <2>1, <2>2 DEF ClosesStream
<1>5. tts' = STT!Goto(c, "replaced")
  BY <1>1, <1>3, <1>2, SameOperators DEF TTS!ReplaceStream
<1>6. tts'.sessions = c.sessions /\ tts'.task.frame = tts.task.frame
  <2>1. c.task \in Tasks /\ "replaced" \in Places
    BY <1>2, <1>4, TaskTyped DEF Places
  <2>2. tts'.sessions = c.sessions /\ GoesOn(c.task, tts'.task, "replaced")
    BY <1>4, <1>5, <2>1, GotoIs
  <2> QED
    BY <1>4, <2>2 DEF GoesOn
<1>7. Silences(tts', silenced, silenced', n)
  <2>1. ASSUME NEW a \in given[s]
        PROVE  /\ a < n /\ \A i \in DOMAIN tts'.sessions : a \notin Held(tts'.sessions[i])
               /\ Busy(tts') => a # tts'.task.frame.item
    <3>1. a < n
      BY <1>2, <2>1 DEF SpokenBy, TextBy
    <3>2. ASSUME NEW i \in DOMAIN tts'.sessions
          PROVE  a \notin Held(tts'.sessions[i])
      <4>1. /\ i \in DOMAIN tts.sessions /\ tts.sessions[i].stream # s
            /\ tts'.sessions[i] = tts.sessions[i]
        BY <1>4, <1>6
      <4>2. Held(tts.sessions[i]) \subseteq given[tts.sessions[i].stream]
        BY <4>1 DEF SpokenBy, SilenceBy
      <4>3. tts.sessions[i].stream \in Streams
        BY <1>2, <4>1, SessionsTyped DEF Sessions
      <4>4. given[tts.sessions[i].stream] \cap given[s] = {}
        BY <1>2, <4>1, <4>3 DEF SpokenBy, SilenceBy
      <4> QED
        BY <2>1, <4>1, <4>2, <4>4
    <3>3. ASSUME tts.task.frame.kind = "text"
          PROVE  a # tts.task.frame.item
      <4>1. tts.task.frame.item \in given[tts.task.frame.stream]
        BY <1>2, <3>3 DEF SpokenBy, SilenceBy, Busy
      <4>2. given[tts.task.frame.stream] \cap given[s] = {}
        BY <1>2 DEF SpokenBy, SilenceBy
      <4> QED
        BY <2>1, <4>1, <4>2
    <3> QED
      BY <1>6, <3>1, <3>2, <3>3 DEF Busy
  <2> QED
    BY <1>2, <2>1 DEF Silences
<1> QED
  BY <1>2, <1>7, TtsSharedOK DEF TTS!SessionStep

(* The end of the call's context. *)
LEMMA CloseEverythingOK ==
  ASSUME TypesInv, ProcInv(tts), NEW n, SpokenBy(tts, audio, given, silenced, n),
         TTS!CloseEverything
  PROVE  /\ tts' \in Procs(Items) /\ ProcInv(tts') /\ tts'.closedAll
         /\ audio' \in Told /\ silenced' \in SUBSET Items /\ UNCHANGED given
         /\ SpokenBy(tts', audio', given, silenced', n) /\ Unsilenced(audio')
<1> USE DEF TTS!At, TTS!task, TTS!frame, TTS!sessions
<1>1. /\ tts \in Procs(Items) /\ silenced \in SUBSET Items /\ UNCHANGED <<audio, given>>
      /\ tts.task.pc # "starting" /\ \A s \in Streams : given[s] \subseteq Items
  BY DEF TTS!CloseEverything, TTS!CloseAll, TypesInv
<1>2. Cleared(Items, tts, tts')
  BY CloseAllClears DEF TTS!CloseEverything
<1>3. /\ tts' \in Procs(Items) /\ ProcInv(tts') /\ tts'.closedAll = TRUE
      /\ tts'.task = tts.task /\ DOMAIN tts'.sessions = {}
  <2>1. AllClosed(Items, tts, tts')
    BY <1>1, <1>2, CloseAllSteps
  <2> QED
    BY <2>1 DEF AllClosed
<1>4. silenced' = silenced \cup ((UNION {given[s] : s \in Streams})
                                 \ IF tts.task.pc = "idle" THEN {} ELSE {tts.task.frame.item})
  BY DEF TTS!CloseEverything, TTS!Silence
<1>5. Silences(tts', silenced, silenced', n)
  <2>1. \A a \in silenced' \ silenced : a < n
    BY <1>4 DEF SpokenBy, TextBy
  <2>2. \A a \in silenced' \ silenced : Busy(tts') => a # tts'.task.frame.item
    <3>1. ASSUME NEW a \in silenced' \ silenced, tts.task.pc # "idle"
          PROVE  a # tts.task.frame.item
      BY <1>4, <3>1
    <3> QED
      BY <1>3, <3>1 DEF Busy
  <2> QED
    BY <1>3, <2>1, <2>2 DEF Silences
<1>6. Keeps(tts, tts') /\ Continues(tts, tts')
  BY <1>3 DEF Keeps, Continues
<1>7. SpokenBy(tts', audio, given, silenced', n)
  BY <1>5, <1>6, SpokenKeeps
<1>8. silenced' \in SUBSET Items
  BY <1>1, <1>4
<1> QED
  BY <1>1, <1>3, <1>7, <1>8, NothingHandedOn

LEMMA SpeakOK ==
  ASSUME TypesInv, ProcInv(tts), NEW n, SpokenBy(tts, audio, given, silenced, n),
         NEW i, TTS!Speak(i)
  PROVE  TtsOK(tts', audio', given, silenced, n) /\ UNCHANGED <<given, silenced>>
<1> USE DEF TTS!sessions
<1>1. /\ tts \in Procs(Items) /\ silenced \in SUBSET Items /\ UNCHANGED <<audio, given, silenced>>
      /\ i \in DOMAIN tts.sessions /\ tts.sessions[i].got # <<>>
  BY DEF TTS!Speak, TTS!ttsHistory, TypesInv
<1>2. PICK y : y = tts.sessions[i]
  OBVIOUS
<1>3. y \in Sessions(Items) /\ y.got \in Seq(Items) /\ y.out \in Seq(Items) /\ y.got # <<>>
  BY <1>1, <1>2, SessionsTyped DEF Sessions
<1>4. PICK t : t = Tail(y.got)
  OBVIOUS
<1>5. PICK o : o = IF Len(y.out) < AudioCap THEN Append(y.out, Head(y.got)) ELSE y.out
  OBVIOUS
<1>6. t \in Seq(Items) /\ o \in Seq(Items)
  <2>1. t \in Seq(Items) /\ Head(y.got) \in Items
    BY <1>3, <1>4, HeadTailProperties
  <2>2. Append(y.out, Head(y.got)) \in Seq(Items)
    BY <1>3, <2>1, AppendProperties
  <2> QED
    BY <1>3, <1>5, <2>1, <2>2
<1>7. PICK x : x = [y EXCEPT !.got = t]
  OBVIOUS
<1>8. PICK a : a = [tts EXCEPT !.sessions = [tts.sessions EXCEPT ![i] = x]]
  OBVIOUS
<1>9. /\ x \in Sessions(Items) /\ x.stream = y.stream /\ x.lang = y.lang
      /\ x.origin = y.origin /\ x.got = t /\ x.out = y.out
  BY <1>3, <1>6, <1>7 DEF Sessions
<1>10. /\ a \in Procs(Items) /\ ProcInv(a) /\ Sets(tts, a, i, x)
       /\ a.closedAll = tts.closedAll /\ a.task = tts.task
  BY <1>1, <1>2, <1>8, <1>9, SessionSteps
<1>11. PICK u : u = [x EXCEPT !.out = o]
  OBVIOUS
<1>12. /\ u \in Sessions(Items) /\ u.stream = x.stream /\ u.lang = x.lang
       /\ u.origin = x.origin /\ u.got = t /\ u.out = o
  BY <1>6, <1>9, <1>11 DEF Sessions
<1>13. i \in DOMAIN a.sessions /\ a.sessions[i] = x
  BY <1>1, <1>10 DEF Sets
<1>14. tts' = [a EXCEPT !.sessions = [a.sessions EXCEPT ![i] = u]]
  <2>1. tts' = [[tts EXCEPT !.sessions[i].got = t] EXCEPT !.sessions[i].out = o]
    BY <1>1, <1>2, <1>3, <1>4, <1>5, <1>8, <1>7, <1>13 DEF TTS!Speak
  <2> QED
    BY <1>2, <1>7, <1>8, <1>11, <1>13, <2>1
<1>15. /\ tts' \in Procs(Items) /\ ProcInv(tts') /\ Sets(a, tts', i, u)
       /\ tts'.closedAll = a.closedAll /\ tts'.task = a.task
  BY <1>10, <1>12, <1>13, <1>14, SessionSteps
<1>16. Sets(tts, tts', i, u) /\ tts'.task = tts.task
  BY <1>10, <1>15 DEF Sets
<1>17. KeyOf(u) = KeyOf(y) /\ u.stream = y.stream /\ u.got = Tail(y.got)
       /\ (u.out = y.out \/ u.out = Append(y.out, Head(y.got)))
  BY <1>4, <1>5, <1>9, <1>12 DEF KeyOf
<1>18. SpokenBy(tts', audio, given, silenced, n)
  BY <1>1, <1>2, <1>16, <1>17, SpokenAloud
<1> QED
  BY <1>1, <1>10, <1>15, <1>18, NothingHandedOn DEF TtsOK

LEMMA TtsProviderOK ==
  ASSUME TypesInv, ProcInv(tts), NEW n, SpokenBy(tts, audio, given, silenced, n), TTSProvider
  PROVE  TtsOK(tts', audio', given, silenced', n) /\ UNCHANGED given
<1>1. tts \in Procs(Items) /\ silenced \in SUBSET Items
  BY DEF TypesInv
<1>2. CASE TTS!CoolDown /\ UNCHANGED <<audio, given, silenced>>
  <2>1. tts' = [tts EXCEPT !.breaker = CooledDown(@)]
    BY <1>2 DEF TTS!CoolDown, TTS!CooledDown, CooledDown
  <2>2. /\ tts' \in Procs(Items) /\ ProcInv(tts') /\ tts'.sessions = tts.sessions
        /\ tts'.closedAll = tts.closedAll /\ tts'.task = tts.task
    BY <1>1, <2>1, CoolDownSteps
  <2>3. Keeps(tts, tts') /\ Continues(tts, tts') /\ Silences(tts', silenced, silenced, n)
    BY <2>2 DEF Keeps, Continues, Silences
  <2>4. SpokenBy(tts', audio, given, silenced, n)
    BY <2>3, SpokenKeeps
  <2> QED
    BY <1>1, <1>2, <2>2, <2>4, NothingHandedOn DEF TtsOK
<1>3. ASSUME NEW i \in DOMAIN tts.sessions, TTS!Dies(i), UNCHANGED <<audio, given, silenced>>
      PROVE  TtsOK(tts', audio', given, silenced', n) /\ UNCHANGED given
  <2>1. PICK x : x = [tts.sessions[i] EXCEPT !.dead = TRUE]
    OBVIOUS
  <2>2. tts' = [tts EXCEPT !.sessions = [tts.sessions EXCEPT ![i] = x]]
    BY <1>3, <2>1 DEF TTS!Dies
  <2>3. tts.sessions[i] \in Sessions(Items)
    BY <1>1, SessionsTyped
  <2>4. /\ x \in Sessions(Items) /\ x.stream = tts.sessions[i].stream
        /\ x.lang = tts.sessions[i].lang /\ x.origin = tts.sessions[i].origin
        /\ x.got = tts.sessions[i].got /\ x.out = tts.sessions[i].out
    BY <2>1, <2>3, DeadSession
  <2>5. /\ tts' \in Procs(Items) /\ ProcInv(tts') /\ Died(tts, tts')
        /\ tts'.closedAll = tts.closedAll /\ tts'.task = tts.task
    BY <1>1, <2>2, <2>4, DiesSteps
  <2>6. Keeps(tts, tts') /\ Continues(tts, tts') /\ Silences(tts', silenced, silenced, n)
    BY <2>5 DEF Died, Keeps, Continues, Silences
  <2>7. SpokenBy(tts', audio, given, silenced, n)
    BY <2>6, SpokenKeeps
  <2> QED
    BY <1>1, <1>3, <2>5, <2>7, NothingHandedOn DEF TtsOK
<1>4. ASSUME NEW i, TTS!Speak(i)
      PROVE  TtsOK(tts', audio', given, silenced', n) /\ UNCHANGED given
  BY <1>4, SpeakOK
<1> QED
  BY <1>2, <1>3, <1>4 DEF TTSProvider

(* Every step of Process. *)
LEMMA TtsStepOK ==
  ASSUME TypesInv, ProcInv(tts), NEW n, SpokenBy(tts, audio, given, silenced, n), TTS!Step
  PROVE  TtsOK(tts', audio', given, silenced', n) /\ UNCHANGED given
<1> USE DEF TTS!At, TTS!task, TTS!frame
<1>1. silenced \in SUBSET Items
  BY DEF TypesInv
<1>2. CASE /\ TTS!TrackCallStream \/ TTS!TrackReplacement \/ TTS!GetOrCreate \/ TTS!Retry
              \/ TTS!StartReturns
           /\ UNCHANGED <<audio, given, silenced>>
  <2>1. Silences(tts', silenced, silenced', n)
    BY <1>2 DEF Silences
  <2>2. TTS!SessionStep \/ TTS!StartReturns
    BY <1>2 DEF TTS!SessionStep
  <2> QED
    BY <1>1, <1>2, <2>1, <2>2, TtsSharedOK
<1>3. CASE TTS!Replace
  BY <1>3, ReplaceOK
<1>4. CASE TTS!HandleCallEnd
  BY <1>4, HandleCallEndOK
<1>5. CASE TTS!HandleInterruption \/ TTS!ControlFlush
  BY <1>5, FlushStreamOK DEF TTS!HandleInterruption, TTS!ControlFlush
<1>6. CASE TTS!HandleEmpty
  BY <1>6, HandleEmptyOK
<1>7. CASE TTS!HandleOther
  BY <1>7, HandleOtherOK
<1>8. CASE TTS!HandleText
  BY <1>8, HandleTextOK
<1>9. CASE TTS!ControlClose
  BY <1>9, ControlCloseOK
<1>10. CASE TTS!Sent
  BY <1>10, SentOK
<1>11. ASSUME NEW err, TTS!StartFails(err)
       PROVE  TtsOK(tts', audio', given, silenced', n) /\ UNCHANGED given
  <2>1. tts.task.pc = "starting" /\ TTS!Fails(err, tts)
    BY <1>11 DEF TTS!StartFails
  <2>2. MayEnd(tts, n)
    BY <2>1, TtsMayEnd
  <2> QED
    BY <2>1, <2>2, TtsFailsOK
<1>12. ASSUME NEW err, TTS!SendFails(err)
       PROVE  TtsOK(tts', audio', given, silenced', n) /\ UNCHANGED given
  <2>1. tts.task.pc = "send" /\ (TTS!Fails(err, tts) \/ TTS!Fails(err, TTS!Taken))
    BY <1>12 DEF TTS!SendFails
  <2>2. MayEnd(tts, n) /\ MayEnd(TTS!Taken, n)
    BY <2>1, TtsMayEnd, TakenMayEnd
  <2>3. PICK p : p = TTS!Taken
    OBVIOUS
  <2>4. CASE TTS!Fails(err, tts)
    BY <2>2, <2>4, TtsFailsOK
  <2>5. CASE TTS!Fails(err, p)
    BY <2>2, <2>3, <2>5, TtsFailsOK
  <2> QED
    BY <2>1, <2>3, <2>4, <2>5
<1> QED
  BY <1>2, <1>3, <1>4, <1>5, <1>6, <1>7, <1>8, <1>9, <1>10, <1>11, <1>12
  DEF TTS!Step, TTS!ttsHistory

(* A frame comes: a text is the next. *)
LEMMA TtsReceives ==
  ASSUME TypesInv, ProcInv(tts), NEW n \in Nat, SpokenBy(tts, audio, given, silenced, n),
         NEW f, FrameOK(f), f.kind # "audio", TTS!Receive(f),
         NEW m, IF f.kind = "text" THEN f.item = n /\ m = n + 1 ELSE m = n
  PROVE  /\ TtsOK(tts', audio', given', silenced', m)
         /\ given' \in [Streams -> SUBSET Items]
<1> USE DEF TTS!At, TTS!task
<1>1. /\ tts \in Procs(Items) /\ tts.task.pc = "idle" /\ given \in [Streams -> SUBSET Items]
      /\ silenced \in SUBSET Items
  BY DEF TypesInv, TTS!Receive, TTS!Begin
<1>2. PICK pc : pc = IF TTS!Names(f) THEN "track" ELSE "handle"
  OBVIOUS
<1>3. \/ pc = "track" /\ f.named /\ f.stream \in Streams
      \/ pc = "handle" /\ (f.kind \in {"audio", "text"} => ~f.named)
  BY <1>2, SpeechAssumption DEF FrameOK, Frames, TTS!Names
<1>4. tts' = SetTask(tts,
        [pc |-> pc, frame |-> f, tries |-> 0, replayed |-> FALSE, prev |-> NoStream,
         session |-> 0, origin |-> "current"])
  BY <1>2 DEF TTS!Receive, TTS!Begin, SetTask
<1>5. /\ tts' \in Procs(Items) /\ ProcInv(tts') /\ tts'.sessions = tts.sessions
      /\ tts'.closedAll = tts.closedAll
      /\ tts'.task.pc = pc /\ tts'.task.frame = f /\ tts'.task.tries = 0
  BY <1>1, <1>3, <1>4, BeginSteps
<1>6. UNCHANGED <<audio, silenced>>
  BY DEF TTS!Receive
<1>7. audio' \in Told /\ Unsilenced(audio')
  BY <1>6, NothingHandedOn
<1>8. CASE f.kind # "text"
  <2>1. given' = given /\ m = n
    BY <1>8 DEF TTS!Receive
  <2>2. OrderBy(tts', audio)
    BY <1>5 DEF SpokenBy, OrderBy
  <2>3. TextBy(tts', audio, given, n)
    BY <1>3, <1>5, <1>8 DEF SpokenBy, TextBy, Busy
  <2>4. SilenceBy(tts', given, silenced, n)
    BY <1>5, <1>8 DEF SpokenBy, SilenceBy, Busy
  <2> QED
    BY <1>1, <1>5, <1>6, <1>7, <2>1, <2>2, <2>3, <2>4 DEF TtsOK, SpokenBy
<1>9. CASE f.kind = "text"
  <2>1. /\ f.item = n /\ m = n + 1 /\ n \in Items /\ f.stream \in Streams
        /\ given' = [given EXCEPT ![f.stream] = @ \cup {n}]
    BY <1>9 DEF TTS!Receive, FrameOK
  <2>2. given' \in [Streams -> SUBSET Items]
    BY <1>1, <2>1
  <2>3. \A s \in Streams : \/ given'[s] = given[s]
                           \/ s = f.stream /\ given'[s] = given[s] \cup {n}
    BY <1>1, <2>1
  <2>13. given'[f.stream] = given[f.stream] \cup {n}
    BY <1>1, <2>1
  <2>4. audio \in Told
    BY DEF TypesInv, Told
  <2>5. ASSUME NEW a \in Nat, a < n
        PROVE  a < m
    BY <2>1, <2>5
  <2>6. OrderBy(tts', audio)
    BY <1>5 DEF SpokenBy, OrderBy
  <2>7. /\ \A k \in DOMAIN audio : \A a \in ToSet(audio[k]) : a < n /\ a < m
        /\ \A i \in DOMAIN tts.sessions : \A a \in Held(tts.sessions[i]) : a < n /\ a < m
    <3>1. ASSUME NEW k \in DOMAIN audio, NEW a \in ToSet(audio[k])
          PROVE  a < n /\ a < m
      <4>1. a \in Nat
        BY <2>4, <3>1, ToldTyped
      <4>2. a < n
        BY <3>1 DEF SpokenBy, TextBy
      <4> QED
        BY <2>5, <4>1, <4>2
    <3>2. ASSUME NEW i \in DOMAIN tts.sessions, NEW a \in Held(tts.sessions[i])
          PROVE  a < n /\ a < m
      <4>1. a \in Nat
        BY <1>1, <3>2, HeldTyped
      <4>2. a < n
        BY <3>2 DEF SpokenBy, TextBy
      <4> QED
        BY <2>5, <4>1, <4>2
    <3> QED
      BY <3>1, <3>2
  <2>8. Items \subseteq Nat /\ \A s \in Streams : given[s] \subseteq Items
    BY <1>1, SpeechAssumption DEF Items
  <2>9. ASSUME NEW s \in Streams, NEW a \in given'[s]
        PROVE  a < m
    <3>1. a = n \/ a \in given[s]
      BY <2>3, <2>9
    <3>2. CASE a = n
      BY <2>1, <3>2
    <3>3. CASE a \in given[s]
      <4>1. a < n /\ a \in Nat
        BY <2>8, <2>9, <3>3 DEF SpokenBy, TextBy
      <4> QED
        BY <2>5, <4>1
    <3> QED
      BY <3>1, <3>2, <3>3
  <2>10. TextBy(tts', audio, given', m)
    <3>1. Fresh(tts', audio, n)
      BY <1>5, <2>7 DEF Fresh
    <3>2. n < m /\ f.kind # "audio"
      BY <2>1
    <3> QED
      BY <1>5, <2>1, <2>7, <2>9, <3>1, <3>2 DEF TextBy
  <2>11. /\ n \notin silenced /\ \A s \in Streams : n \notin given[s]
         /\ \A a \in silenced : a < m
    <3>1. \A a \in silenced : a \in Nat /\ a < n
      BY <1>1, <2>8 DEF SpokenBy, SilenceBy
    <3>2. \A s \in Streams : \A a \in given[s] : a < n
      BY DEF SpokenBy, TextBy
    <3>3. ~(n < n)
      OBVIOUS
    <3> QED
      BY <2>5, <3>1, <3>2, <3>3
  <2>12. SilenceBy(tts', given', silenced, m)
    <3>1. \A s, t \in Streams : s # t => given[s] \cap given[t] = {}
      BY DEF SpokenBy, SilenceBy
    <3>2. ASSUME NEW s \in Streams, NEW t \in Streams, s # t
          PROVE  given'[s] \cap given'[t] = {}
      <4>1. given[s] \cap given[t] = {} /\ n \notin given[s] /\ n \notin given[t]
        BY <2>11, <3>1, <3>2
      <4>2. CASE s = f.stream
        BY <2>3, <3>2, <4>1, <4>2
      <4>3. CASE s # f.stream
        BY <2>3, <3>2, <4>1, <4>3
      <4> QED
        BY <4>2, <4>3
    <3>3. \A i \in DOMAIN tts'.sessions :
            /\ Held(tts'.sessions[i]) \subseteq given'[tts'.sessions[i].stream]
            /\ Held(tts'.sessions[i]) \cap silenced = {}
      <4>1. ASSUME NEW i \in DOMAIN tts.sessions
            PROVE  /\ Held(tts.sessions[i]) \subseteq given'[tts.sessions[i].stream]
                   /\ Held(tts.sessions[i]) \cap silenced = {}
        <5>1. tts.sessions[i].stream \in Streams
          BY <1>1, <4>1, SessionsTyped DEF Sessions
        <5>2. /\ Held(tts.sessions[i]) \subseteq given[tts.sessions[i].stream]
              /\ Held(tts.sessions[i]) \cap silenced = {}
          BY <4>1 DEF SpokenBy, SilenceBy
        <5> QED
          BY <2>3, <5>1, <5>2
      <4> QED
        BY <1>5, <4>1
    <3>4. n \in given'[f.stream] \ silenced
      BY <2>11, <2>13
    <3> QED
      BY <1>5, <2>1, <2>11, <3>2, <3>3, <3>4 DEF SilenceBy
  <2> QED
    BY <1>1, <1>5, <1>6, <1>7, <2>2, <2>6, <2>10, <2>12 DEF TtsOK, SpokenBy
<1> QED
  BY <1>8, <1>9

-----------------------------------------------------------------------------
(* What both processors do together. *)
LEMMA SttStepOK ==
  ASSUME TypesInv, ProcInv(stt), ReplayInv(stt), STT!Step
  PROVE  SttOK(stt, stt', down')
<1>1. ASSUME NEW err, STT!Fails(err)
      PROVE  SttOK(stt, stt', down')
  BY <1>1, SttFailsOK
<1> QED
  BY <1>1, SttSharedOK, HandleSystemOK, HandleAudioOK, SendAudioOK DEF STT!Step

LEMMA CloseSttOK ==
  ASSUME TypesInv, ProcInv(stt), ReplayInv(stt), STT!CloseAll
  PROVE  /\ stt' \in Procs(Signals) /\ ProcInv(stt') /\ stt'.closedAll = TRUE
         /\ ReplayInv(stt')
<1>1. stt \in Procs(Signals) /\ stt.task.pc # "starting" /\ Cleared(Signals, stt, stt')
  BY CloseAllClears DEF TypesInv, STT!CloseAll, STT!At, STT!task
<1>2. /\ stt' \in Procs(Signals) /\ ProcInv(stt') /\ stt'.closedAll = TRUE
      /\ stt'.task = stt.task /\ DOMAIN stt'.sessions = {}
      /\ \A s \in Streams : stt'.replay[s] = <<>>
  <2>1. AllClosed(Signals, stt, stt')
    BY <1>1, CloseAllSteps
  <2> QED
    BY <2>1 DEF AllClosed
<1>3. stt.task.pc # "idle" /\ stt.task.frame.kind = "audio" => stt.task.frame.stream \in Streams
  BY DEF ProcInv, TaskInv, FrameOK
<1>4. stt.task.pc \in {"create", "starting", "send"} =>
        stt.task.frame.stream \in Streams
  BY <1>3 DEF ReplayInv, ProcInv, TaskInv
<1>5. ReplayInv(stt')
  BY <1>2, <1>4 DEF ReplayInv
<1> QED
  BY <1>2, <1>5

(* The numbers of what comes. *)
LEMMA ItemIs ==
  ASSUME TypesInv, NEW what \in {"audio", "texts"}
  PROVE  /\ Item(what) \in Nat
         /\ Use(what) => Item(what) \in Items /\ Item(what)' = Item(what) + 1
<1>1. left[what] \in 0 .. LastItem /\ LastItem \in Nat
  BY SpeechAssumption DEF TypesInv
<1>2. Item(what) \in Nat
  BY <1>1 DEF Item
<1>3. ASSUME Use(what)
      PROVE  Item(what) \in Items /\ Item(what)' = Item(what) + 1
  <2>1. PICK k : k = left[what]
    OBVIOUS
  <2>2. k > 0 /\ left'[what] = k - 1
    BY <1>3, <2>1 DEF Use, TypesInv
  <2>3. LastItem + 1 - k \in 1 .. LastItem /\ LastItem + 1 - (k - 1) = (LastItem + 1 - k) + 1
    BY <1>1, <2>1, <2>2
  <2> QED
    BY <2>1, <2>2, <2>3 DEF Item, Items
<1> QED
  BY <1>2, <1>3

LEMMA LeftIs ==
  ASSUME TypesInv, NEW what, Use(what)
  PROVE  /\ left' \in [audio : 0 .. LastItem, system : Nat, texts : 0 .. LastItem,
                       controls : Nat, ends : Nat]
         /\ \A w \in {"audio", "texts"} : w # what => Item(w)' = Item(w)
<1>1. /\ left \in [audio : 0 .. LastItem, system : Nat, texts : 0 .. LastItem,
                   controls : Nat, ends : Nat]
      /\ left[what] > 0 /\ left' = [left EXCEPT ![what] = @ - 1]
  BY DEF TypesInv, Use
<1>2. \A w \in {"audio", "texts"} : w # what => left'[w] = left[w]
  BY <1>1
<1>3. \A k \in Nat : k > 0 => k - 1 \in Nat
  OBVIOUS
<1>4. \A k \in 0 .. LastItem : k > 0 => k - 1 \in 0 .. LastItem
  BY SpeechAssumption
<1>5. left' \in [audio : 0 .. LastItem, system : Nat, texts : 0 .. LastItem,
                controls : Nat, ends : Nat]
  BY <1>1, <1>3, <1>4
<1> QED
  BY <1>2, <1>5 DEF Item

(* A step of the one processor leaves the other alone. *)
LEMMA SttMoves ==
  ASSUME SpeechInv, SttOK(stt, stt', down'), UNCHANGED <<ttsVars, teardown, left>>
  PROVE  SpeechInv' /\ Unsilenced(audio')
<1>1. Item("audio")' = Item("audio") /\ Item("texts")' = Item("texts")
  BY DEF Item
<1>2. TypesInv'
  BY DEF SpeechInv, TypesInv, SttOK, ttsVars
<1>3. ProcInv(stt)' /\ ProcInv(tts)' /\ TeardownInv'
  BY DEF SpeechInv, TeardownInv, SttOK, ttsVars
<1>4. ReplayInv(stt')
  BY <1>1 DEF SttOK
<1>5. SpokenBy(tts', audio', given', silenced', Item("texts")')
  BY <1>1 DEF SpeechInv, ttsVars
<1>6. Unsilenced(audio')
  BY NothingHandedOn DEF SpeechInv, ttsVars
<1> QED
  BY <1>2, <1>3, <1>4, <1>5, <1>6 DEF SpeechInv

LEMMA TtsMoves ==
  ASSUME SpeechInv, TtsOK(tts', audio', given', silenced', Item("texts")'),
         given' \in [Streams -> SUBSET Items], down' \in Seq(Signals),
         Item("audio")' = Item("audio"), UNCHANGED <<stt, teardown>>,
         left' \in [audio : 0 .. LastItem, system : Nat, texts : 0 .. LastItem,
                    controls : Nat, ends : Nat]
  PROVE  SpeechInv' /\ Unsilenced(audio')
<1>1. TypesInv'
  BY DEF SpeechInv, TypesInv, TtsOK, Told
<1>2. ProcInv(stt)' /\ ProcInv(tts)' /\ TeardownInv'
  BY DEF SpeechInv, TeardownInv, TtsOK
<1>3. ReplayInv(stt')
  BY DEF SpeechInv
<1>4. SpokenBy(tts', audio', given', silenced', Item("texts")')
  BY DEF TtsOK
<1> QED
  BY <1>1, <1>2, <1>3, <1>4 DEF SpeechInv, TtsOK

LEMMA SpeechInitial == Init => SpeechInv
<1> SUFFICES ASSUME Init
             PROVE  SpeechInv
  OBVIOUS
<1>1. PICK e : e = <<>>
  OBVIOUS
<1>2. PICK r : r = [s \in Streams |-> <<>>]
  OBVIOUS
<1>3. PICK b : b = NewBreaker
  OBVIOUS
<1>4. PICK i : i = STT!Idle
  OBVIOUS
<1>5. PICK p : p = [sessions |-> e, started |-> 0, callStream |-> NoStream, tracked |-> {},
                    replay |-> r, breaker |-> b, closedAll |-> FALSE, task |-> i]
  OBVIOUS
<1>6. stt = p /\ tts = p
  <2>1. stt = STT!NewProcessor /\ tts = TTS!NewProcessor
    BY <1>1 DEF Init, STT!SpeechInit, TTS!SpeechInit
  <2>2. b = STT!NewBreaker /\ b = TTS!NewBreaker /\ i = TTS!Idle
    BY <1>3, <1>4 DEF STT!NewBreaker, TTS!NewBreaker, NewBreaker, STT!Idle, TTS!Idle
  <2>3. STT!NewProcessor = p
    BY <1>1, <1>2, <1>4, <1>5, <2>2 DEF STT!NewProcessor
  <2>4. TTS!NewProcessor = p
    BY <1>1, <1>2, <1>5, <2>2 DEF TTS!NewProcessor
  <2> QED
    BY <2>1, <2>3, <2>4
<1>7. /\ e \in SessionMaps(Signals) /\ e \in SessionMaps(Items) /\ DOMAIN e = {}
      /\ r \in [Streams -> Seq(Items)] /\ i.pc = "idle" /\ i \in Tasks \cup {STT!Idle}
  BY <1>1, <1>2, <1>4, NoSessions, EmptyFacts DEF STT!Idle
<1>8. b \in Breaker
  BY <1>3, BreakerAssumption DEF NewBreaker, Breaker
<1>9. p \in Procs(Signals) /\ p \in Procs(Items)
  BY <1>5, <1>7, <1>8 DEF Procs
<1>10. p.task.pc = "idle" /\ DOMAIN p.sessions = {} /\ p.started = 0 /\ ~p.closedAll
  BY <1>5, <1>7
<1>11. ProcInv(p)
  BY <1>10, SpeechAssumption DEF ProcInv, TaskInv, UniqueInv, CurrentInv, LateInv
<1>12. ReplayInv(p)
  BY <1>10 DEF ReplayInv
<1>13. /\ audio = [k \in Streams \X Langs |-> <<>>] /\ given = [s \in Streams |-> {}]
       /\ silenced = {} /\ down = <<>> /\ teardown = "running" /\ left \in Scenarios
  BY DEF Init, TTS!AudioInit
<1>14. /\ \A k \in DOMAIN audio : audio[k] = <<>> /\ ToSet(audio[k]) = {} /\ Rising(audio[k])
       /\ audio \in Told /\ given \in [Streams -> SUBSET Items]
       /\ \A s \in Streams : given[s] = {}
  BY <1>13, EmptyFacts DEF Told
<1>15. SpokenBy(p, audio, given, silenced, Item("texts"))
  BY <1>10, <1>13, <1>14 DEF SpokenBy, OrderBy, TextBy, SilenceBy, Busy
<1>16. TypesInv
  <2>1. left \in [audio : 0 .. LastItem, system : Nat, texts : 0 .. LastItem,
                  controls : Nat, ends : Nat]
    BY <1>13, SpeechAssumption
  <2>2. down \in Seq(Signals)
    BY <1>13, EmptyFacts
  <2> QED
    BY <1>6, <1>9, <1>13, <1>14, <2>1, <2>2 DEF TypesInv, Told
<1> QED
  BY <1>6, <1>11, <1>12, <1>13, <1>15, <1>16 DEF SpeechInv, TeardownInv

LEMMA SpeechNext ==
  ASSUME SpeechInv, Next
  PROVE  SpeechInv' /\ Unsilenced(audio')
<1>1. /\ TypesInv /\ ProcInv(stt) /\ ProcInv(tts) /\ TeardownInv
      /\ ReplayInv(stt) /\ SpokenBy(tts, audio, given, silenced, Item("texts"))
      /\ Item("audio") \in Nat /\ Item("texts") \in Nat
  BY ItemIs DEF SpeechInv
<1>2. /\ left \in [audio : 0 .. LastItem, system : Nat, texts : 0 .. LastItem,
                   controls : Nat, ends : Nat]
      /\ given \in [Streams -> SUBSET Items] /\ down \in Seq(Signals)
  BY <1>1 DEF TypesInv
<1>3. UNCHANGED audio => Unsilenced(audio')
  BY <1>1, NothingHandedOn
<1>4. CASE AudioComes
  <2>1. PICK s \in Streams :
          /\ Use("audio") /\ STT!Receive(STT!SpeechFrame("audio", s, TRUE, NoLang, Item("audio")))
          /\ UNCHANGED <<ttsVars, down, teardown>>
    BY <1>4 DEF AudioComes
  <2>2. /\ Item("audio") \in Items /\ Item("audio")' = Item("audio") + 1
        /\ Item("texts")' = Item("texts")
        /\ left' \in [audio : 0 .. LastItem, system : Nat, texts : 0 .. LastItem,
                      controls : Nat, ends : Nat]
    BY <1>1, <2>1, ItemIs, LeftIs
  <2>3. PICK f : f = STT!SpeechFrame("audio", s, TRUE, NoLang, Item("audio"))
    OBVIOUS
  <2>4. FrameOK(f) /\ f.kind = "audio" /\ f.item = Item("audio")
    BY <2>2, <2>3, SpeechAssumption DEF STT!SpeechFrame, FrameOK, Frames
  <2>5. STT!Receive(f)
    BY <2>1, <2>3
  <2>9. /\ stt' \in Procs(Signals) /\ ProcInv(stt') /\ stt'.closedAll = stt.closedAll
        /\ ReplayInv(stt')
    BY <1>1, <2>4, <2>5, SttReceives
  <2>7. TypesInv'
    BY <1>1, <2>1, <2>2, <2>9 DEF TypesInv, ttsVars
  <2>8. SpokenBy(tts', audio', given', silenced', Item("texts")')
    BY <1>1, <2>1, <2>2 DEF ttsVars
  <2> QED
    BY <1>1, <1>3, <2>1, <2>2, <2>7, <2>8, <2>9 DEF SpeechInv, TeardownInv, ttsVars
<1>5. CASE SystemFrameComes
  <2>1. PICK s \in Streams \cup {NoStream}, kind \in {"call_end", "language"} :
          STT!Receive(STT!SpeechFrame(kind, s, TRUE, NoLang, 0))
    BY <1>5 DEF SystemFrameComes
  <2>2. Use("system") /\ UNCHANGED <<ttsVars, down, teardown>>
    BY <1>5 DEF SystemFrameComes
  <2>3. /\ Item("audio")' = Item("audio") /\ Item("texts")' = Item("texts")
        /\ left' \in [audio : 0 .. LastItem, system : Nat, texts : 0 .. LastItem,
                      controls : Nat, ends : Nat]
    BY <1>1, <2>2, LeftIs
  <2>4. PICK f : f = STT!SpeechFrame(kind, s, TRUE, NoLang, 0)
    OBVIOUS
  <2>5. FrameOK(f) /\ f.kind \notin {"audio", "text"}
    BY <2>4, SpeechAssumption DEF STT!SpeechFrame, FrameOK, Frames
  <2>6. STT!Receive(f)
    BY <2>1, <2>4
  <2>8. /\ stt' \in Procs(Signals) /\ ProcInv(stt') /\ stt'.closedAll = stt.closedAll
        /\ ReplayInv(stt')
    BY <1>1, <2>5, <2>6, SttReceives
  <2>9. TypesInv'
    BY <1>1, <2>2, <2>3, <2>8 DEF TypesInv, ttsVars
  <2>10. SpokenBy(tts', audio', given', silenced', Item("texts")')
    BY <1>1, <2>2, <2>3 DEF ttsVars
  <2> QED
    BY <1>1, <1>3, <2>2, <2>3, <2>8, <2>9, <2>10 DEF SpeechInv, TeardownInv, ttsVars
<1>6. CASE TextComes
  <2>1. PICK s \in Streams, lang \in Langs, named \in BOOLEAN :
          /\ Use("texts")
          /\ TTS!Receive(TTS!SpeechFrame("text", s, named, lang, Item("texts")))
          /\ UNCHANGED <<stt, down, teardown>>
    BY <1>6 DEF TextComes
  <2>2. /\ Item("texts") \in Items /\ Item("texts")' = Item("texts") + 1
        /\ Item("audio")' = Item("audio")
        /\ left' \in [audio : 0 .. LastItem, system : Nat, texts : 0 .. LastItem,
                      controls : Nat, ends : Nat]
    BY <1>1, <2>1, ItemIs, LeftIs
  <2>3. PICK f : f = TTS!SpeechFrame("text", s, named, lang, Item("texts"))
    OBVIOUS
  <2>4. FrameOK(f) /\ f.kind = "text" /\ f.item = Item("texts")
    BY <2>2, <2>3 DEF TTS!SpeechFrame, FrameOK, Frames
  <2>5. TTS!Receive(f)
    BY <2>1, <2>3
  <2>6. PICK m : m = Item("texts") + 1
    OBVIOUS
  <2>7. TtsOK(tts', audio', given', silenced', m) /\ given' \in [Streams -> SUBSET Items]
    BY <1>1, <2>4, <2>5, <2>6, TtsReceives
  <2> QED
    BY <1>2, <2>1, <2>2, <2>6, <2>7, TtsMoves
<1>7. ASSUME NEW f, FrameOK(f), f.kind \notin {"audio", "text"}, TTS!Receive(f)
      PROVE  /\ TtsOK(tts', audio', given', silenced', Item("texts"))
             /\ given' \in [Streams -> SUBSET Items]
  <2>1. PICK n : n = Item("texts")
    OBVIOUS
  <2> QED
    BY <1>1, <1>7, <2>1, TtsReceives
<1>8. CASE ControlComes
  <2>1. PICK s \in Streams, kind \in Controls :
          /\ Use("controls")
          /\ TTS!Receive(TTS!SpeechFrame(kind, s, TRUE, NoLang, 0))
          /\ UNCHANGED <<stt, down, teardown>>
    BY <1>8 DEF ControlComes
  <2>2. /\ Item("audio")' = Item("audio") /\ Item("texts")' = Item("texts")
        /\ left' \in [audio : 0 .. LastItem, system : Nat, texts : 0 .. LastItem,
                      controls : Nat, ends : Nat]
    BY <1>1, <2>1, LeftIs
  <2>3. PICK f : f = TTS!SpeechFrame(kind, s, TRUE, NoLang, 0)
    OBVIOUS
  <2>4. FrameOK(f) /\ f.kind \notin {"audio", "text"}
    BY <2>3, SpeechAssumption DEF TTS!SpeechFrame, FrameOK, Frames
  <2>5. /\ TtsOK(tts', audio', given', silenced', Item("texts"))
        /\ given' \in [Streams -> SUBSET Items]
    BY <1>7, <2>1, <2>3, <2>4
  <2> QED
    BY <1>2, <2>1, <2>2, <2>5, TtsMoves
<1>9. UNCHANGED left => Item("audio")' = Item("audio") /\ Item("texts")' = Item("texts")
  BY DEF Item
<1>10. CASE FramePasses
  <2>1. /\ down # <<>> /\ TTS!Receive(Head(down)) /\ down' = Tail(down)
        /\ UNCHANGED <<stt, teardown, left>>
    BY <1>10 DEF FramePasses
  <2>2. PICK f : f = Head(down)
    OBVIOUS
  <2>3. f \in Signals /\ down' \in Seq(Signals)
    BY <1>2, <2>1, <2>2, HeadTailProperties
  <2>4. FrameOK(f) /\ f.kind \notin {"audio", "text"}
    BY <2>3 DEF Signals
  <2>5. /\ TtsOK(tts', audio', given', silenced', Item("texts"))
        /\ given' \in [Streams -> SUBSET Items]
    BY <1>7, <2>1, <2>2, <2>4
  <2> QED
    BY <1>2, <1>9, <2>1, <2>3, <2>5, TtsMoves
<1>11. CASE ContextEnds
  <2>1. /\ teardown = "running" /\ Use("ends") /\ teardown' = "stt"
        /\ UNCHANGED <<stt, ttsVars, down>>
    BY <1>11 DEF ContextEnds
  <2>2. /\ Item("audio")' = Item("audio") /\ Item("texts")' = Item("texts")
        /\ left' \in [audio : 0 .. LastItem, system : Nat, texts : 0 .. LastItem,
                      controls : Nat, ends : Nat]
    BY <1>1, <2>1, LeftIs
  <2>3. TypesInv' /\ TeardownInv'
    BY <1>1, <2>1, <2>2 DEF TypesInv, TeardownInv, ttsVars
  <2>4. /\ ReplayInv(stt')
        /\ SpokenBy(tts', audio', given', silenced', Item("texts")')
    BY <1>1, <2>1, <2>2 DEF ttsVars
  <2> QED
    BY <1>1, <1>3, <2>1, <2>3, <2>4 DEF SpeechInv, ttsVars
<1>12. CASE CloseSTT
  <2>1. /\ STT!CloseAll /\ teardown' = "tts" /\ teardown = "stt"
        /\ UNCHANGED <<ttsVars, down, left>>
    BY <1>12 DEF CloseSTT
  <2>3. /\ stt' \in Procs(Signals) /\ ProcInv(stt') /\ stt'.closedAll = TRUE
        /\ ReplayInv(stt')
    BY <1>1, <2>1, CloseSttOK
  <2>4. TypesInv' /\ TeardownInv'
    BY <1>1, <2>1, <2>3 DEF TypesInv, TeardownInv, ttsVars
  <2>5. /\ ReplayInv(stt')
        /\ SpokenBy(tts', audio', given', silenced', Item("texts")')
    BY <1>1, <1>9, <2>1, <2>3 DEF ttsVars
  <2> QED
    BY <1>1, <1>3, <2>1, <2>3, <2>4, <2>5 DEF SpeechInv, ttsVars
<1>13. CASE CloseTTS
  <2>1. /\ TTS!CloseEverything /\ teardown' = "done" /\ teardown = "tts"
        /\ UNCHANGED <<stt, down, left>>
    BY <1>13 DEF CloseTTS
  <2>2. PICK n : n = Item("texts")
    OBVIOUS
  <2>3. /\ tts' \in Procs(Items) /\ ProcInv(tts') /\ tts'.closedAll
        /\ audio' \in Told /\ silenced' \in SUBSET Items /\ UNCHANGED given
        /\ SpokenBy(tts', audio', given, silenced', n) /\ Unsilenced(audio')
    BY <1>1, <2>1, <2>2, CloseEverythingOK
  <2>4. TypesInv' /\ TeardownInv'
    BY <1>1, <2>1, <2>3 DEF TypesInv, TeardownInv, Told
  <2>5. /\ ReplayInv(stt')
        /\ SpokenBy(tts', audio', given', silenced', Item("texts")')
    BY <1>1, <1>9, <2>1, <2>2, <2>3
  <2> QED
    BY <1>1, <2>1, <2>3, <2>4, <2>5 DEF SpeechInv
<1>14. CASE STTStep \/ STTProvider
  <2>2. UNCHANGED <<ttsVars, teardown, left>> /\ (STT!Step \/ STTProvider)
    BY <1>14 DEF STTStep, STTProvider
  <2>3. SttOK(stt, stt', down')
    BY <1>1, <2>2, SttStepOK, SttProviderOK
  <2> QED
    BY <2>2, <2>3, SttMoves
<1>15. CASE TTSStep \/ TTSProvider
  <2>1. PICK n : n = Item("texts")
    OBVIOUS
  <2>2. UNCHANGED <<stt, down, teardown, left>> /\ (TTS!Step \/ TTSProvider)
    BY <1>15 DEF TTSStep, TTSProvider
  <2>3. TtsOK(tts', audio', given, silenced', n) /\ UNCHANGED given
    BY <1>1, <2>1, <2>2, TtsStepOK, TtsProviderOK
  <2>4. TtsOK(tts', audio', given', silenced', Item("texts")')
    BY <1>9, <2>1, <2>2, <2>3
  <2> QED
    BY <1>2, <1>9, <2>2, <2>3, <2>4, TtsMoves
<1> QED
  BY <1>4, <1>5, <1>6, <1>8, <1>10, <1>11, <1>12, <1>13, <1>14, <1>15 DEF Next, GoroutineStep

LEMMA SpeechStutters ==
  ASSUME SpeechInv, UNCHANGED vars
  PROVE  SpeechInv'
<1>1. TypesInv' /\ TeardownInv' /\ ProcInv(stt') /\ ProcInv(tts')
  BY DEF SpeechInv, TypesInv, TeardownInv, vars, ttsVars
<1>2. ReplayInv(stt')
  BY DEF SpeechInv, vars, Item
<1>3. SpokenBy(tts', audio', given', silenced', Item("texts")')
  BY DEF SpeechInv, vars, ttsVars, Item
<1> QED
  BY <1>1, <1>2, <1>3 DEF SpeechInv

LEMMA SpeechInvariant == Spec => []SpeechInv
<1>1. Init => SpeechInv
  BY SpeechInitial
<1>2. SpeechInv /\ [Next]_vars => SpeechInv'
  BY SpeechNext, SpeechStutters
<1> QED
  BY <1>1, <1>2, PTL DEF Spec

-----------------------------------------------------------------------------
(* SpeechTypeOK and OneSessionEach of both processors: whatever frames come  *)
(* and whatever fails, a stream has one session at most of a language.       *)
THEOREM SpeechTypeCorrect == Spec => []TypeOK
<1>1. ASSUME SpeechInv
      PROVE  TypeOK
  <2>1. /\ stt \in Procs(Signals) /\ tts \in Procs(Items) /\ UniqueInv(stt) /\ UniqueInv(tts)
        /\ silenced \subseteq Items /\ given \in [Streams -> SUBSET Items]
        /\ teardown \in {"running", "stt", "tts", "done"}
    BY <1>1 DEF SpeechInv, TypesInv, ProcInv
  <2>2. STT!Breaker = Breaker /\ TTS!Breaker = Breaker
    BY DEF STT!Breaker, TTS!Breaker, Breaker
  <2>3. STT!SpeechTypeOK
    <3>1. \A i \in DOMAIN stt.sessions : stt.sessions[i] \in Sessions(Signals)
      BY <2>1, SessionsTyped
    <3> QED
      BY <2>1, <2>2, <3>1, SpeechAssumption
      DEF STT!SpeechTypeOK, STT!sessions, Procs, UniqueInv, Sessions, Origins
  <2>4. TTS!SpeechTypeOK
    <3>1. \A i \in DOMAIN tts.sessions : tts.sessions[i] \in Sessions(Items)
      BY <2>1, SessionsTyped
    <3> QED
      BY <2>1, <2>2, <3>1, SpeechAssumption
      DEF TTS!SpeechTypeOK, TTS!sessions, Procs, UniqueInv, Sessions, Origins
  <2>5. STT!OneSessionEach /\ TTS!OneSessionEach
    BY <2>1 DEF UniqueInv, STT!OneSessionEach, TTS!OneSessionEach, KeyOf, STT!sessions, TTS!sessions
  <2> QED
    BY <2>1, <2>3, <2>4, <2>5 DEF TypeOK
<1> QED
  BY <1>1, SpeechInvariant, PTL

(* trackCallStream: a call that has moved to another stream has left no      *)
(* session of the old one behind, in either processor.                       *)
THEOREM StreamsDoNotLinger == Spec => []ReplacedStreamsAreClosed
<1>1. SpeechInv => ReplacedStreamsAreClosed
  BY DEF SpeechInv, ProcInv, CurrentInv, ReplacedStreamsAreClosed, STT!StreamsAreReplaced,
         TTS!StreamsAreReplaced, STT!sessions, TTS!sessions
<1> QED
  BY <1>1, SpeechInvariant, PTL

(* engine.go, the end of a call's context: whatever either processor was in  *)
(* the middle of, no session that was opened before CloseAll outlives it.    *)
THEOREM TeardownIsComplete == Spec => []TeardownClosesAll
<1>1. SpeechInv => TeardownClosesAll
  BY DEF SpeechInv, ProcInv, LateInv, TeardownInv, TeardownClosesAll
<1> QED
  BY <1>1, SpeechInvariant, PTL

(* stt_processor.go:223: whatever the replay buffer may hold and however     *)
(* often a send is tried again, nothing is ever replayed: CloseStream has    *)
(* forgotten it, and a session that a retry opened is given the piece alone  *)
(* that failed.                                                              *)
THEOREM NothingIsReplayed ==
  Spec => [](stt.task.pc = "send" /\ stt.task.tries > 0 => STT!Given = <<stt.task.frame.item>>)
<1>1. ASSUME SpeechInv, stt.task.pc = "send", stt.task.tries > 0
      PROVE  STT!Given = <<stt.task.frame.item>>
  <2>1. PICK e : e = stt.task.frame.item
    OBVIOUS
  <2>2. stt.replay[stt.task.frame.stream] = <<>>
    BY <1>1 DEF SpeechInv, ReplayInv
  <2> QED
    BY <2>1, <2>2 DEF STT!Given, STT!task, STT!frame
<1>2. SpeechInv => (stt.task.pc = "send" /\ stt.task.tries > 0 => STT!Given = <<stt.task.frame.item>>)
  BY <1>1
<1> QED
  BY <1>2, SpeechInvariant, PTL

(* Texts that were sent twice, to sessions that failed or were replaced, are *)
(* handed on as audio once, and in order in each language.                   *)
THEOREM TextsAreSpokenOnce == Spec => []SpokenOnceInOrder
<1>1. SpeechInv => SpokenOnceInOrder
  BY DEF SpeechInv, SpokenBy, OrderBy, Rising, SpokenOnceInOrder
<1> QED
  BY <1>1, SpeechInvariant, PTL

(* After a cancel, an interruption, a flush or a replacement, none of what   *)
(* had come before is handed on as audio.                                    *)
THEOREM SilenceIsKept == Spec => SilencedStaysSilent
<1>1. ASSUME SpeechInv, [Next]_vars, audio' # audio
      PROVE  \A k \in DOMAIN audio : \A n \in DOMAIN audio'[k] \ DOMAIN audio[k] :
               audio'[k][n] \notin silenced
  <2>1. Next
    BY <1>1 DEF vars, ttsVars
  <2> QED
    BY <1>1, <2>1, SpeechNext DEF Unsilenced
<1>2. SpeechInv /\ [Next]_vars =>
        [\A k \in DOMAIN audio : \A n \in DOMAIN audio'[k] \ DOMAIN audio[k] :
           audio'[k][n] \notin silenced]_audio
  BY <1>1
<1> QED
  BY <1>2, SpeechInvariant, PTL DEF Spec, SilencedStaysSilent
=============================================================================
