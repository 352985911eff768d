------------------------- MODULE ConversationProofs -------------------------
(***************************************************************************)
(* What holds of tool calls from the model's answer to the tool's result,  *)
(* for any number of calls, streams, workers and retries.                  *)
(***************************************************************************)
EXTENDS Conversation, SequenceTheorems, FiniteSetTheorems, TLAPS

(* The state that a call passes through; the history of messages is left.  *)
flowVars == <<pendingTools, pendingConfirms, toDispatch, called, prompted, consent,
              dispatcherVars>>

Started == [id : Calls, stream : Streams, attempt : 1 .. Retries + 1]

Busy == {w \in Workers : worker[w].pc # "idle"}

FlowTypeOK ==
  /\ DispatcherTypeOK
  /\ called \subseteq Calls
  /\ pendingConfirms \in [Streams -> Calls \cup {NoCall}]
  /\ prompted \in [Streams -> Calls \cup {NoCall}]
  /\ toDispatch \in Seq(Task)
  /\ started \in Seq(Started)
  /\ \A w \in Busy :
       worker[w].id \in Calls /\ worker[w].stream \in Streams /\ worker[w].attempt >= 1

(* Who waits for a tool has its stream's lock. *)
LocksInv ==
  SerializeByStream =>
    \A w \in Workers : worker[w].pc \in {"call", "wait"} => streamLock[worker[w].stream] = w

(* A call that waits for a confirmation is the one the user was asked about. *)
ConsentInv ==
  /\ \A s \in Streams : pendingConfirms[s] # NoCall => prompted[s] = pendingConfirms[s]
  /\ ConfirmationIsExplicit

(* The stages of a call: asked about, sent down the pipeline, queued, taken  *)
(* by a worker, ended with a result.                                         *)
Ids(s) == {s[n].id : n \in DOMAIN s}
Unique(s) == \A m, n \in DOMAIN s : s[m].id = s[n].id => m = n
AskedIds == {pendingConfirms[s] : s \in Streams} \ {NoCall}
BusyIds == {worker[w].id : w \in Busy}

(* A call is at one stage, at one place of it, and is never made again. *)
OneStage ==
  /\ \A s, t \in Streams : pendingConfirms[s] = pendingConfirms[t] /\ pendingConfirms[s] # NoCall
                             => s = t
  /\ Unique(toDispatch) /\ Unique(tasks) /\ Unique(results)
  /\ \A v, w \in Busy : worker[v].id = worker[w].id => v = w
  /\ AskedIds \cap Ids(toDispatch) = {} /\ AskedIds \cap Ids(tasks) = {}
  /\ AskedIds \cap BusyIds = {} /\ AskedIds \cap Ids(results) = {}
  /\ Ids(toDispatch) \cap Ids(tasks) = {} /\ Ids(toDispatch) \cap BusyIds = {}
  /\ Ids(toDispatch) \cap Ids(results) = {}
  /\ Ids(tasks) \cap BusyIds = {} /\ Ids(tasks) \cap Ids(results) = {}
  /\ BusyIds \cap Ids(results) = {}
  /\ Ids(started) \cap (AskedIds \cup Ids(toDispatch) \cup Ids(tasks)) = {}
  /\ AskedIds \cup Ids(toDispatch) \cup Ids(tasks) \cup BusyIds \cup Ids(results) \cup Ids(started)
       \subseteq called

(* The attempts of a call are numbered upwards, and a worker's is the next.  *)
AttemptsInv ==
  /\ \A i, j \in DOMAIN started :
       i < j /\ started[i].id = started[j].id => started[i].attempt < started[j].attempt
  /\ \A w \in Busy, i \in DOMAIN started :
       started[i].id = worker[w].id =>
         \/ started[i].attempt < worker[w].attempt
         \/ worker[w].pc \in {"wait", "send"} /\ started[i].attempt = worker[w].attempt

FlowInv == FlowTypeOK /\ LocksInv /\ ConsentInv /\ OneStage /\ AttemptsInv

-----------------------------------------------------------------------------
(* The ids in a queue, as it grows and shrinks. *)
LEMMA AppendIds ==
  ASSUME NEW S, NEW s \in Seq(S), NEW e \in S
  PROVE  /\ Ids(Append(s, e)) = Ids(s) \cup {e.id}
         /\ Unique(s) /\ e.id \notin Ids(s) => Unique(Append(s, e))
<1>1. /\ Len(s) \in Nat /\ DOMAIN s = 1 .. Len(s)
      /\ DOMAIN Append(s, e) = 1 .. Len(s) + 1
      /\ \A n \in 1 .. Len(s) : Append(s, e)[n] = s[n]
      /\ Append(s, e)[Len(s) + 1] = e
  BY AppendProperties, LenProperties
<1>2. 1 .. Len(s) + 1 = (1 .. Len(s)) \cup {Len(s) + 1}
  BY <1>1
<1>3. Ids(Append(s, e)) = Ids(s) \cup {e.id}
  BY <1>1, <1>2 DEF Ids
<1>4. Unique(s) /\ e.id \notin Ids(s) => Unique(Append(s, e))
  BY <1>1, <1>2 DEF Ids, Unique
<1> QED
  BY <1>3, <1>4

LEMMA TailIds ==
  ASSUME NEW S, NEW s \in Seq(S), s # <<>>, Unique(s)
  PROVE  /\ Ids(Tail(s)) = Ids(s) \ {Head(s).id}
         /\ Head(s).id \in Ids(s)
         /\ Unique(Tail(s))
<1>1. /\ Len(s) \in Nat \ {0} /\ DOMAIN s = 1 .. Len(s) /\ Head(s) = s[1]
      /\ DOMAIN Tail(s) = 1 .. Len(s) - 1
      /\ \A n \in 1 .. Len(s) - 1 : Tail(s)[n] = s[n + 1]
  BY HeadTailProperties, LenProperties, EmptySeq
<1>2. Head(s).id \in Ids(s)
  BY <1>1 DEF Ids
<1>3. Unique(Tail(s))
  <2>1. \A n \in 1 .. Len(s) - 1 : n + 1 \in 1 .. Len(s)
    BY <1>1
  <2> QED
    BY <1>1, <2>1 DEF Unique
<1>4. ASSUME NEW c \in Ids(Tail(s))
      PROVE  c \in Ids(s) \ {Head(s).id}
  <2>1. PICK n \in 1 .. Len(s) - 1 : c = s[n + 1].id
    BY <1>1, <1>4 DEF Ids
  <2>2. n + 1 \in 1 .. Len(s) /\ n + 1 # 1
    BY <1>1
  <2> QED
    BY <1>1, <2>1, <2>2 DEF Ids, Unique
<1>5. ASSUME NEW c \in Ids(s) \ {Head(s).id}
      PROVE  c \in Ids(Tail(s))
  <2>1. PICK n \in 1 .. Len(s) : c = s[n].id /\ n # 1
    BY <1>1, <1>5 DEF Ids
  <2>2. n - 1 \in 1 .. Len(s) - 1 /\ (n - 1) + 1 = n
    BY <1>1, <2>1
  <2>3. Tail(s)[n - 1] = s[n]
    BY <1>1, <2>2
  <2> QED
    BY <1>1, <2>1, <2>2, <2>3 DEF Ids
<1> QED
  BY <1>2, <1>3, <1>4, <1>5

LEMMA ConcatIds ==
  ASSUME NEW S, NEW s \in Seq(S), NEW t \in Seq(S)
  PROVE  /\ Ids(s \o t) = Ids(s) \cup Ids(t)
         /\ Unique(s) /\ Unique(t) /\ Ids(s) \cap Ids(t) = {} => Unique(s \o t)
<1>1. /\ Len(s) \in Nat /\ DOMAIN s = 1 .. Len(s)
      /\ Len(t) \in Nat /\ DOMAIN t = 1 .. Len(t)
      /\ DOMAIN (s \o t) = 1 .. Len(s) + Len(t)
      /\ \A n \in 1 .. Len(s) : (s \o t)[n] = s[n]
      /\ \A n \in 1 .. Len(t) : (s \o t)[Len(s) + n] = t[n]
  BY ConcatProperties, LenProperties
<1>2. \A n \in DOMAIN (s \o t) :
        \/ n \in 1 .. Len(s)
        \/ n - Len(s) \in 1 .. Len(t) /\ (s \o t)[n] = t[n - Len(s)]
  BY <1>1
<1>3. /\ \A n \in 1 .. Len(s) : n \in DOMAIN (s \o t)
      /\ \A n \in 1 .. Len(t) : Len(s) + n \in DOMAIN (s \o t)
  BY <1>1
<1>4. Ids(s \o t) \subseteq Ids(s) \cup Ids(t)
  BY <1>1, <1>2 DEF Ids
<1>5. Ids(s) \cup Ids(t) \subseteq Ids(s \o t)
  <2>1. \A n \in 1 .. Len(s) : s[n].id \in Ids(s \o t)
    BY <1>1, <1>3 DEF Ids
  <2>2. \A n \in 1 .. Len(t) : t[n].id \in Ids(s \o t)
    BY <1>1, <1>3 DEF Ids
  <2> QED
    BY <1>1, <2>1, <2>2 DEF Ids
<1>6. ASSUME Unique(s), Unique(t), Ids(s) \cap Ids(t) = {}
      PROVE  Unique(s \o t)
  <2> SUFFICES ASSUME NEW m \in DOMAIN (s \o t), NEW n \in DOMAIN (s \o t),
                      (s \o t)[m].id = (s \o t)[n].id
               PROVE  m = n
    BY DEF Unique
  <2>1. \A i \in 1 .. Len(s), j \in 1 .. Len(t) : s[i].id # t[j].id
    BY <1>1, <1>6 DEF Ids
  <2>2. CASE m \in 1 .. Len(s) /\ n \in 1 .. Len(s)
    BY <1>1, <1>6, <2>2 DEF Unique
  <2>3. CASE m \in 1 .. Len(s) /\ n \notin 1 .. Len(s)
    BY <1>1, <1>2, <2>1, <2>3
  <2>4. CASE m \notin 1 .. Len(s) /\ n \in 1 .. Len(s)
    BY <1>1, <1>2, <2>1, <2>4
  <2>5. CASE m \notin 1 .. Len(s) /\ n \notin 1 .. Len(s)
    <3>1. m - Len(s) = n - Len(s)
      BY <1>1, <1>2, <1>6, <2>5 DEF Unique
    <3> QED
      BY <1>1, <3>1
  <2> QED
    BY <2>2, <2>3, <2>4, <2>5
<1> QED
  BY <1>4, <1>5, <1>6

(* The frames of calls that are different. *)
LEMMA TasksIds ==
  ASSUME NEW calls \in Seq(Calls), NEW s \in Streams, IsInjective(calls)
  PROVE  /\ Tasks(calls, s) \in Seq(Task)
         /\ Ids(Tasks(calls, s)) = ToSet(calls)
         /\ Unique(Tasks(calls, s))
<1>1. Len(calls) \in Nat /\ DOMAIN calls = 1 .. Len(calls)
      /\ \A n \in 1 .. Len(calls) : calls[n] \in Calls
  BY LenProperties
<1>2. Tasks(calls, s) \in Seq(Task)
  BY <1>1, IsASeq DEF Tasks, Task
<1>3. /\ DOMAIN Tasks(calls, s) = DOMAIN calls
      /\ \A n \in DOMAIN calls : Tasks(calls, s)[n].id = calls[n]
  BY DEF Tasks
<1>4. Ids(Tasks(calls, s)) = ToSet(calls)
  BY <1>3 DEF Ids, ToSet
<1>5. Unique(Tasks(calls, s))
  BY <1>3 DEF Unique, IsInjective
<1> QED
  BY <1>2, <1>4, <1>5

-----------------------------------------------------------------------------
LEMMA FlowInit == Init => FlowInv
<1> SUFFICES ASSUME Init
             PROVE  FlowInv
  OBVIOUS
<1> USE CallsAssumption, LLMAssumption, DispatcherAssumption
        DEF Init, LLMInit, DispatcherInit
<1>1. /\ Busy = {} /\ BusyIds = {} /\ AskedIds = {}
      /\ Ids(toDispatch) = {} /\ Ids(tasks) = {} /\ Ids(results) = {} /\ Ids(started) = {}
  BY DEF Busy, BusyIds, AskedIds, Ids, Idle
<1>2. FlowTypeOK
  BY <1>1 DEF FlowTypeOK, DispatcherTypeOK, Idle, Outcomes
<1>3. LocksInv
  BY DEF LocksInv, Idle
<1>4. ConsentInv
  BY DEF ConsentInv, ConfirmationIsExplicit
<1>5. OneStage
  BY <1>1 DEF OneStage, Unique
<1>6. AttemptsInv
  BY <1>1 DEF AttemptsInv
<1> QED
  BY <1>2, <1>3, <1>4, <1>5, <1>6 DEF FlowInv

(* What the invariant says of a dispatcher that a step leaves alone. *)
LEMMA DispatcherSame ==
  ASSUME FlowInv, UNCHANGED dispatcherVars
  PROVE  /\ DispatcherTypeOK' /\ LocksInv' /\ AttemptsInv'
         /\ Busy' = Busy /\ BusyIds' = BusyIds
         /\ tasks' = tasks /\ worker' = worker /\ started' = started /\ results' = results
<1>1. /\ tasks' = tasks /\ in' = in /\ streamLock' = streamLock /\ worker' = worker
      /\ running' = running /\ started' = started /\ results' = results /\ lost' = lost
  BY DEF dispatcherVars
<1>2. Busy' = Busy /\ BusyIds' = BusyIds
  BY <1>1 DEF Busy, BusyIds
<1>3. DispatcherTypeOK'
  BY <1>1 DEF FlowInv, FlowTypeOK, DispatcherTypeOK
<1>4. LocksInv' /\ AttemptsInv'
  BY <1>1, <1>2 DEF FlowInv, LocksInv, AttemptsInv
<1> QED
  BY <1>1, <1>2, <1>3, <1>4

(* Steps that leave the flow alone: the model answers, or fails to. *)
LEMMA SameFlow ==
  ASSUME FlowInv, UNCHANGED flowVars
  PROVE  FlowInv'
<1>1. /\ UNCHANGED dispatcherVars
      /\ UNCHANGED <<pendingTools, pendingConfirms, toDispatch, called, prompted, consent>>
  BY DEF flowVars
<1>2. /\ DispatcherTypeOK' /\ LocksInv' /\ AttemptsInv' /\ Busy' = Busy /\ BusyIds' = BusyIds
      /\ tasks' = tasks /\ worker' = worker /\ started' = started /\ results' = results
  BY <1>1, DispatcherSame
<1>3. FlowTypeOK'
  BY <1>1, <1>2 DEF FlowInv, FlowTypeOK
<1>4. ConsentInv'
  BY <1>1 DEF FlowInv, ConsentInv, ConfirmationIsExplicit
<1>5. OneStage'
  BY <1>1, <1>2 DEF FlowInv, OneStage, AskedIds
<1> QED
  BY <1>2, <1>3, <1>4, <1>5 DEF FlowInv

(* The end of a call and a user's no: the call that waited is forgotten. *)
LEMMA ForgetInv ==
  ASSUME FlowInv, NEW s \in Streams,
         pendingConfirms' = [pendingConfirms EXCEPT ![s] = NoCall],
         UNCHANGED <<pendingTools, toDispatch, called, prompted, consent, dispatcherVars>>
  PROVE  FlowInv'
<1>1. UNCHANGED dispatcherVars
  OBVIOUS
<1>2. /\ DispatcherTypeOK' /\ LocksInv' /\ AttemptsInv' /\ Busy' = Busy /\ BusyIds' = BusyIds
      /\ tasks' = tasks /\ worker' = worker /\ started' = started /\ results' = results
  BY <1>1, DispatcherSame
<1>3. /\ pendingConfirms' \in [Streams -> Calls \cup {NoCall}]
      /\ \A t \in Streams : pendingConfirms'[t] \in {pendingConfirms[t], NoCall}
  BY DEF FlowInv, FlowTypeOK
<1>4. FlowTypeOK'
  BY <1>2, <1>3 DEF FlowInv, FlowTypeOK
<1>5. ConsentInv'
  BY <1>3 DEF FlowInv, ConsentInv, ConfirmationIsExplicit
<1>6. AskedIds' \subseteq AskedIds
  BY <1>3 DEF AskedIds
<1>7. OneStage'
  BY <1>2, <1>3, <1>6 DEF FlowInv, OneStage
<1> QED
  BY <1>2, <1>4, <1>5, <1>7 DEF FlowInv

LEMMA SystemFrameInv ==
  ASSUME FlowInv, SystemStep
  PROVE  FlowInv'
<1>1. PICK s \in Streams, note \in BOOLEAN, name \in SystemNames :
        SystemFrame(ScopeOf(s), s, note, name) /\ UNCHANGED dispatcherVars
  BY DEF SystemStep
<1>2. CASE name = "call_end"
  BY <1>1, <1>2, ForgetInv DEF SystemFrame
<1>3. CASE name # "call_end"
  <2>1. UNCHANGED flowVars
    BY <1>1, <1>3 DEF SystemFrame, flowVars
  <2> QED
    BY <2>1, SameFlow
<1> QED
  BY <1>2, <1>3

(* A yes sends the call on that the user was asked about. *)
LEMMA ConfirmInv ==
  ASSUME FlowInv, NEW s \in Streams, Confirm(s), UNCHANGED dispatcherVars
  PROVE  FlowInv'
<1> DEFINE c == pendingConfirms[s]
           t == [id |-> c, stream |-> s]
<1>1. /\ DispatcherTypeOK' /\ LocksInv' /\ AttemptsInv' /\ Busy' = Busy /\ BusyIds' = BusyIds
      /\ tasks' = tasks /\ worker' = worker /\ started' = started /\ results' = results
  BY DispatcherSame
<1>2. c \in Calls /\ c # NoCall /\ t \in Task /\ prompted[s] = c
  BY DEF Confirm, Reply, FlowInv, FlowTypeOK, ConsentInv, Task
<1>3. /\ pendingConfirms' = [pendingConfirms EXCEPT ![s] = NoCall]
      /\ consent' = consent \cup {c}
      /\ called' = called /\ prompted' = prompted
      /\ EmitToolCalls(<<c>>, s)
  BY <1>2 DEF Confirm
<1>4. /\ pendingConfirms' \in [Streams -> Calls \cup {NoCall}]
      /\ pendingConfirms'[s] = NoCall
      /\ \A r \in Streams : r # s => pendingConfirms'[r] = pendingConfirms[r]
  BY <1>3 DEF FlowInv, FlowTypeOK
<1>5. <<c>> \in Seq(Calls) /\ IsInjective(<<c>>) /\ ToSet(<<c>>) = {c}
  BY <1>2 DEF IsInjective, ToSet
<1>6. /\ Tasks(<<c>>, s) \in Seq(Task) /\ Ids(Tasks(<<c>>, s)) = {c}
      /\ Unique(Tasks(<<c>>, s))
  BY <1>5, TasksIds
<1>7. toDispatch \in Seq(Task) /\ Unique(toDispatch) /\ c \notin Ids(toDispatch)
  BY <1>2 DEF FlowInv, FlowTypeOK, OneStage, AskedIds
<1>8. /\ toDispatch' = toDispatch \o Tasks(<<c>>, s)
      /\ pendingTools' = pendingTools \cup {c}
  BY <1>3, <1>5 DEF EmitToolCalls
<1>9. /\ toDispatch' \in Seq(Task) /\ Ids(toDispatch') = Ids(toDispatch) \cup {c}
      /\ Unique(toDispatch')
  <2>1. PICK a \in Seq(Task) : a = toDispatch
    BY <1>7
  <2>2. PICK b \in Seq(Task) : b = Tasks(<<c>>, s)
    BY <1>6
  <2>3. Unique(a) /\ Unique(b) /\ Ids(b) = {c} /\ c \notin Ids(a)
    BY <1>6, <1>7, <2>1, <2>2
  <2>4. a \o b \in Seq(Task)
    BY ConcatProperties
  <2>5. Ids(a \o b) = Ids(a) \cup {c} /\ Unique(a \o b)
    BY <2>3, ConcatIds
  <2> QED
    BY <1>8, <2>1, <2>2, <2>4, <2>5
<1>10. FlowTypeOK'
  BY <1>1, <1>3, <1>4, <1>9 DEF FlowInv, FlowTypeOK
<1>11. ConsentInv'
  <2>1. \A d : d \in Ids(toDispatch) <=> \E n \in DOMAIN toDispatch : toDispatch[n].id = d
    BY DEF Ids
  <2>2. \A d : d \in Ids(toDispatch') <=> \E n \in DOMAIN toDispatch' : toDispatch'[n].id = d
    BY DEF Ids
  <2>3. \A d \in Confirmable : d \in pendingTools \/ d \in Ids(toDispatch) => d \in consent
    BY <2>1 DEF FlowInv, ConsentInv, ConfirmationIsExplicit
  <2>4. \A d \in Confirmable : d \in pendingTools' \/ d \in Ids(toDispatch') => d \in consent'
    BY <1>3, <1>8, <1>9, <2>3
  <2>5. ConfirmationIsExplicit'
    BY <2>2, <2>4 DEF ConfirmationIsExplicit
  <2>6. \A r \in Streams : pendingConfirms'[r] # NoCall => prompted'[r] = pendingConfirms'[r]
    BY <1>3, <1>4 DEF FlowInv, ConsentInv
  <2> QED
    BY <2>5, <2>6 DEF ConsentInv
<1>12. /\ AskedIds' \subseteq AskedIds /\ c \in AskedIds /\ c \notin AskedIds'
  BY <1>2, <1>4 DEF AskedIds, FlowInv, OneStage
<1>13. OneStage'
  BY <1>1, <1>3, <1>4, <1>9, <1>12 DEF FlowInv, OneStage
<1> QED
  BY <1>1, <1>10, <1>11, <1>13 DEF FlowInv

LEMMA AskAgainInv ==
  ASSUME FlowInv, NEW s \in Streams, AskAgain(s), UNCHANGED dispatcherVars
  PROVE  FlowInv'
<1>1. /\ prompted' = [prompted EXCEPT ![s] = pendingConfirms[s]]
      /\ UNCHANGED <<pendingTools, pendingConfirms, toDispatch, called, consent>>
      /\ prompted[s] = pendingConfirms[s]
  BY DEF AskAgain, Reply, FlowInv, ConsentInv
<1>2. UNCHANGED flowVars
  BY <1>1 DEF flowVars, FlowInv, FlowTypeOK
<1> QED
  BY <1>2, SameFlow

(* The calls of a response, which were never made before. *)
LEMMA CallToolsInv ==
  ASSUME FlowInv, UNCHANGED dispatcherVars, NEW s \in Streams, NEW sc, NEW meta,
         NEW calls \in Seq(Calls), CallTools(sc, s, meta, calls)
  PROVE  FlowInv'
<1>1. /\ DispatcherTypeOK' /\ LocksInv' /\ AttemptsInv' /\ Busy' = Busy /\ BusyIds' = BusyIds
      /\ tasks' = tasks /\ worker' = worker /\ started' = started /\ results' = results
  BY DispatcherSame
<1>2. /\ ToSet(calls) \cap called = {} /\ IsInjective(calls)
      /\ called' = called \cup ToSet(calls) /\ consent' = consent
      /\ pendingConfirms[s] = NoCall
      /\ HandleToolCalls(calls, s)
  BY DEF CallTools, AskModel
<1>3. /\ DOMAIN calls = 1 .. Len(calls) /\ ToSet(calls) \subseteq Calls
      /\ \A n \in DOMAIN calls : calls[n] \in ToSet(calls)
  BY LenProperties DEF ToSet
<1>4. called' \subseteq Calls
  BY <1>2, <1>3 DEF FlowInv, FlowTypeOK
<1>5. ASSUME NEW n \in DOMAIN calls,
             pendingConfirms' = [pendingConfirms EXCEPT ![s] = calls[n]],
             prompted' = [prompted EXCEPT ![s] = calls[n]],
             UNCHANGED <<pendingTools, toDispatch>>
      PROVE  FlowInv'
  <2>1. calls[n] \in Calls /\ calls[n] \in ToSet(calls) /\ calls[n] \notin called
    BY <1>2, <1>3
  <2>2. /\ pendingConfirms' \in [Streams -> Calls \cup {NoCall}]
        /\ prompted' \in [Streams -> Calls \cup {NoCall}]
        /\ pendingConfirms'[s] = calls[n] /\ prompted'[s] = calls[n]
        /\ \A r \in Streams : r # s => pendingConfirms'[r] = pendingConfirms[r]
                                         /\ prompted'[r] = prompted[r]
    BY <1>5, <2>1 DEF FlowInv, FlowTypeOK
  <2>3. FlowTypeOK'
    BY <1>1, <1>4, <1>5, <2>2 DEF FlowInv, FlowTypeOK
  <2>4. ConsentInv'
    BY <1>2, <1>5, <2>2 DEF FlowInv, ConsentInv, ConfirmationIsExplicit
  <2>5. AskedIds' \subseteq AskedIds \cup {calls[n]}
    BY <2>2 DEF AskedIds
  <2>6. \A r \in Streams : pendingConfirms[r] # calls[n]
    BY <2>1, CallsAssumption DEF FlowInv, OneStage, AskedIds
  <2>7. OneStage'
    <3>1. \A q, r \in Streams : pendingConfirms'[q] = pendingConfirms'[r]
                                  /\ pendingConfirms'[q] # NoCall => q = r
      BY <2>2, <2>6 DEF FlowInv, OneStage
    <3> QED
      BY <1>1, <1>2, <1>5, <2>1, <2>5, <3>1 DEF FlowInv, OneStage
  <2> QED
    BY <1>1, <2>3, <2>4, <2>7 DEF FlowInv
<1>6. ASSUME \A n \in DOMAIN calls : calls[n] \notin Confirmable,
             EmitToolCalls(calls, s),
             UNCHANGED <<pendingConfirms, prompted>>
      PROVE  FlowInv'
  <2>1. /\ Tasks(calls, s) \in Seq(Task) /\ Ids(Tasks(calls, s)) = ToSet(calls)
        /\ Unique(Tasks(calls, s))
    BY <1>2, TasksIds
  <2>2. /\ toDispatch' = toDispatch \o Tasks(calls, s)
        /\ pendingTools' = pendingTools \cup ToSet(calls)
    BY <1>6 DEF EmitToolCalls
  <2>3. /\ toDispatch \in Seq(Task) /\ Unique(toDispatch)
        /\ Ids(toDispatch) \subseteq called
    BY DEF FlowInv, FlowTypeOK, OneStage
  <2>4. /\ toDispatch' \in Seq(Task) /\ Ids(toDispatch') = Ids(toDispatch) \cup ToSet(calls)
        /\ Unique(toDispatch')
    BY <1>2, <2>1, <2>2, <2>3, ConcatIds, ConcatProperties
  <2>5. FlowTypeOK'
    BY <1>1, <1>4, <1>6, <2>4 DEF FlowInv, FlowTypeOK
  <2>6. ConsentInv'
    <3>1. \A d : d \in Ids(toDispatch) <=> \E n \in DOMAIN toDispatch : toDispatch[n].id = d
      BY DEF Ids
    <3>2. \A d : d \in Ids(toDispatch') <=> \E n \in DOMAIN toDispatch' : toDispatch'[n].id = d
      BY DEF Ids
    <3>3. \A d \in Confirmable : d \in pendingTools \/ d \in Ids(toDispatch) => d \in consent
      BY <3>1 DEF FlowInv, ConsentInv, ConfirmationIsExplicit
    <3>4. \A d \in Confirmable : d \notin ToSet(calls)
      BY <1>6 DEF ToSet
    <3>5. \A d \in Confirmable : d \in pendingTools' \/ d \in Ids(toDispatch') => d \in consent'
      BY <1>2, <2>2, <2>4, <3>3, <3>4
    <3>6. ConfirmationIsExplicit'
      BY <3>2, <3>5 DEF ConfirmationIsExplicit
    <3> QED
      BY <1>6, <3>6 DEF FlowInv, ConsentInv
  <2>7. AskedIds' = AskedIds
    BY <1>6 DEF AskedIds
  <2>8. OneStage'
    BY <1>1, <1>2, <1>6, <2>4, <2>7 DEF FlowInv, OneStage
  <2> QED
    BY <1>1, <2>5, <2>6, <2>8 DEF FlowInv
<1> QED
  BY <1>2, <1>5, <1>6 DEF HandleToolCalls

LEMMA TextInv ==
  ASSUME FlowInv, TextStep
  PROVE  FlowInv'
<1>1. PICK s \in Streams, meta \in AgentMetas :
        \/ GenerateFails(ScopeOf(s), s, meta)
        \/ \E speaks \in BOOLEAN : Answer(ScopeOf(s), s, meta, speaks)
        \/ \E calls \in BoundedSeq(Calls, MaxCalls) : CallTools(ScopeOf(s), s, meta, calls)
  BY DEF TextStep
<1>2. UNCHANGED dispatcherVars
  BY DEF TextStep
<1>3. CASE \/ GenerateFails(ScopeOf(s), s, meta)
           \/ \E speaks \in BOOLEAN : Answer(ScopeOf(s), s, meta, speaks)
  <2>1. UNCHANGED flowVars
    BY <1>2, <1>3 DEF GenerateFails, Answer, toolVars, flowVars
  <2> QED
    BY <2>1, SameFlow
<1>4. ASSUME NEW calls \in BoundedSeq(Calls, MaxCalls),
             CallTools(ScopeOf(s), s, meta, calls)
      PROVE  FlowInv'
  <2>1. calls \in Seq(Calls)
    BY <1>4, SeqDef DEF BoundedSeq, SeqOf
  <2> QED
    BY <1>2, <1>4, <2>1, CallToolsInv
<1> QED
  BY <1>1, <1>3, <1>4

LEMMA ReplyInv ==
  ASSUME FlowInv, ReplyStep
  PROVE  FlowInv'
<1>1. PICK s \in Streams : Confirm(s) \/ Cancel(s) \/ AskAgain(s)
  BY DEF ReplyStep
<1>2. UNCHANGED dispatcherVars
  BY DEF ReplyStep
<1>3. CASE Confirm(s)
  BY <1>2, <1>3, ConfirmInv
<1>4. CASE Cancel(s)
  BY <1>2, <1>4, ForgetInv DEF Cancel
<1>5. CASE AskAgain(s)
  BY <1>2, <1>5, AskAgainInv
<1> QED
  BY <1>1, <1>3, <1>4, <1>5

-----------------------------------------------------------------------------
(* Steps of the dispatcher leave what the LLM processor keeps of a call.     *)
LEMMA LLMSame ==
  ASSUME FlowInv,
         UNCHANGED <<pendingTools, pendingConfirms, toDispatch, called, prompted, consent>>
  PROVE  ConsentInv' /\ AskedIds' = AskedIds
  BY DEF FlowInv, ConsentInv, ConfirmationIsExplicit, AskedIds

(* A result was sent to the input and is in results: its call is done. *)
LEMMA ResultInv ==
  ASSUME FlowInv, ResultStep
  PROVE  FlowInv'
<1>1. /\ in # <<>> /\ in' = Tail(in) /\ pendingTools' \subseteq pendingTools
      /\ UNCHANGED <<pendingConfirms, toDispatch, called, prompted, consent>>
      /\ UNCHANGED <<tasks, streamLock, worker, running, dispatched, started, results, lost>>
  BY DEF ResultStep, ApplyToolResult
<1>2. Busy' = Busy /\ BusyIds' = BusyIds /\ AskedIds' = AskedIds
  BY <1>1 DEF Busy, BusyIds, AskedIds
<1>3. in' \in Seq(Result) /\ Len(in') <= InCap
  BY <1>1, HeadTailProperties, LenProperties, DispatcherAssumption
     DEF FlowInv, FlowTypeOK, DispatcherTypeOK
<1>4. FlowTypeOK'
  BY <1>1, <1>2, <1>3 DEF FlowInv, FlowTypeOK, DispatcherTypeOK
<1>5. LocksInv' /\ AttemptsInv'
  BY <1>1, <1>2 DEF FlowInv, LocksInv, AttemptsInv
<1>6. ConsentInv'
  BY <1>1 DEF FlowInv, ConsentInv, ConfirmationIsExplicit
<1>7. OneStage'
  BY <1>1, <1>2 DEF FlowInv, OneStage
<1> QED
  BY <1>4, <1>5, <1>6, <1>7 DEF FlowInv

(* A frame reaches the dispatcher, which queues its call or drops it. *)
LEMMA DispatchInv ==
  ASSUME FlowInv, DispatchStep
  PROVE  FlowInv'
<1> DEFINE t == Head(toDispatch)
<1>1. /\ toDispatch # <<>> /\ toDispatch' = Tail(toDispatch)
      /\ UNCHANGED <<pendingTools, pendingConfirms, called, prompted, consent>>
      /\ UNCHANGED <<in, streamLock, worker, running, started, results>>
      /\ \/ Len(tasks) < TaskCap /\ tasks' = Append(tasks, t) /\ lost' = lost
         \/ tasks' = tasks /\ lost' = lost \cup {t.id}
  BY DEF DispatchStep, Dispatch
<1>2. /\ toDispatch \in Seq(Task) /\ Unique(toDispatch)
      /\ tasks \in Seq(Task) /\ Unique(tasks) /\ Len(tasks) <= TaskCap
      /\ Ids(toDispatch) \cap Ids(tasks) = {}
  BY DEF FlowInv, FlowTypeOK, DispatcherTypeOK, OneStage
<1>3. /\ t \in Task /\ t.id \in Calls /\ t.id \in Ids(toDispatch)
      /\ toDispatch' \in Seq(Task) /\ Unique(toDispatch')
      /\ Ids(toDispatch') = Ids(toDispatch) \ {t.id}
  <2>1. t \in Task /\ toDispatch' \in Seq(Task)
    BY <1>1, <1>2, HeadTailProperties
  <2>2. /\ t.id \in Ids(toDispatch) /\ Unique(toDispatch')
        /\ Ids(toDispatch') = Ids(toDispatch) \ {t.id}
    BY <1>1, <1>2, TailIds
  <2> QED
    BY <2>1, <2>2 DEF Task
<1>4. /\ tasks' \in Seq(Task) /\ Len(tasks') <= TaskCap /\ Unique(tasks')
      /\ Ids(tasks') \subseteq Ids(tasks) \cup {t.id}
  <2>1. CASE Len(tasks) < TaskCap /\ tasks' = Append(tasks, t)
    BY <1>2, <1>3, <2>1, AppendProperties, AppendIds, LenProperties, DispatcherAssumption
  <2>2. CASE tasks' = tasks
    BY <1>2, <2>2
  <2> QED
    BY <1>1, <2>1, <2>2
<1>5. Busy' = Busy /\ BusyIds' = BusyIds /\ AskedIds' = AskedIds
  BY <1>1 DEF Busy, BusyIds, AskedIds
<1>6. lost' \subseteq Calls
  BY <1>1, <1>3 DEF FlowInv, FlowTypeOK, DispatcherTypeOK
<1>7. FlowTypeOK'
  BY <1>1, <1>3, <1>4, <1>5, <1>6 DEF FlowInv, FlowTypeOK, DispatcherTypeOK
<1>8. LocksInv' /\ AttemptsInv'
  BY <1>1, <1>5 DEF FlowInv, LocksInv, AttemptsInv
<1>9. ConsentInv'
  <2>1. \A d : d \in Ids(toDispatch) <=> \E n \in DOMAIN toDispatch : toDispatch[n].id = d
    BY DEF Ids
  <2>2. \A d : d \in Ids(toDispatch') <=> \E n \in DOMAIN toDispatch' : toDispatch'[n].id = d
    BY DEF Ids
  <2> QED
    BY <1>1, <1>3, <2>1, <2>2 DEF FlowInv, ConsentInv, ConfirmationIsExplicit
<1>10. OneStage'
  BY <1>1, <1>3, <1>4, <1>5 DEF FlowInv, OneStage
<1> QED
  BY <1>7, <1>8, <1>9, <1>10 DEF FlowInv

(* A worker's locals, which one worker's step changes. *)
WorkerState == [pc : {"idle", "lock", "call", "wait", "send"}, id : Calls \cup {NoCall},
                stream : Streams \cup {NoCall}, attempt : 0 .. Retries + 1,
                status : Outcomes \cup {"timeout"}]

LEMMA TakeInv ==
  ASSUME FlowInv, NEW w \in Workers, Take(w), UNCHANGED llmVars
  PROVE  FlowInv'
<1> DEFINE t == Head(tasks)
<1>1. UNCHANGED <<pendingTools, pendingConfirms, toDispatch, called, prompted, consent>>
  BY DEF llmVars, toolVars
<1>2. ConsentInv' /\ AskedIds' = AskedIds
  BY <1>1, LLMSame
<1>3. /\ worker[w].pc = "idle" /\ tasks # <<>> /\ tasks' = Tail(tasks)
      /\ UNCHANGED <<in, streamLock, running, started, results, lost>>
  BY DEF Take
<1>4. /\ tasks \in Seq(Task) /\ Unique(tasks) /\ Len(tasks) <= TaskCap
      /\ worker \in [Workers -> WorkerState]
  BY DEF FlowInv, FlowTypeOK, DispatcherTypeOK, OneStage, WorkerState
<1>5. /\ t \in Task /\ t.id \in Calls /\ t.stream \in Streams /\ t.id \in Ids(tasks)
      /\ tasks' \in Seq(Task) /\ Len(tasks') <= TaskCap /\ Unique(tasks')
      /\ Ids(tasks') = Ids(tasks) \ {t.id}
  <2>1. /\ t \in Task /\ tasks' \in Seq(Task) /\ Len(tasks') = Len(tasks) - 1
        /\ Len(tasks) \in Nat
    BY <1>3, <1>4, HeadTailProperties, LenProperties
  <2>2. /\ t.id \in Ids(tasks) /\ Unique(tasks')
        /\ Ids(tasks') = Ids(tasks) \ {t.id}
    BY <1>3, <1>4, TailIds
  <2>3. Len(tasks') <= TaskCap
    BY <1>4, <2>1, DispatcherAssumption
  <2> QED
    BY <2>1, <2>2, <2>3 DEF Task
<1>6. /\ worker' \in [Workers -> WorkerState]
      /\ worker'[w].pc = (IF SerializeByStream THEN "lock" ELSE "call")
      /\ worker'[w].id = t.id /\ worker'[w].stream = t.stream /\ worker'[w].attempt = 1
      /\ \A v \in Workers : v # w => worker'[v] = worker[v]
  BY <1>4, <1>5, DispatcherAssumption DEF Take, WorkerState, Outcomes
<1>7. Busy' = Busy \cup {w} /\ w \notin Busy
  BY <1>3, <1>6 DEF Busy
<1>8. BusyIds' = BusyIds \cup {t.id}
  BY <1>6, <1>7 DEF BusyIds, Busy
<1>9. FlowTypeOK'
  <2>1. DispatcherTypeOK'
    BY <1>3, <1>5, <1>6 DEF FlowInv, FlowTypeOK, DispatcherTypeOK, WorkerState
  <2>2. \A v \in Busy' :
          worker'[v].id \in Calls /\ worker'[v].stream \in Streams /\ worker'[v].attempt >= 1
    BY <1>5, <1>6, <1>7 DEF FlowInv, FlowTypeOK, Busy
  <2> QED
    BY <1>1, <1>3, <2>1, <2>2 DEF FlowInv, FlowTypeOK
<1>10. LocksInv'
  BY <1>3, <1>6 DEF FlowInv, LocksInv
<1>11. t.id \notin Ids(started) /\ t.id \notin BusyIds
  BY <1>5 DEF FlowInv, OneStage
<1>12. AttemptsInv'
  <2>1. \A i \in DOMAIN started : started[i].id # t.id
    BY <1>11 DEF Ids
  <2> QED
    BY <1>3, <1>6, <1>7, <2>1 DEF FlowInv, AttemptsInv, Busy
<1>13. OneStage'
  <2>1. \A u, v \in Busy' : worker'[u].id = worker'[v].id => u = v
    BY <1>6, <1>7, <1>11 DEF FlowInv, OneStage, BusyIds, Busy
  <2> QED
    BY <1>1, <1>2, <1>3, <1>5, <1>8, <2>1 DEF FlowInv, OneStage
<1> QED
  BY <1>2, <1>9, <1>10, <1>12, <1>13 DEF FlowInv

(* A step of a worker that keeps its call. *)
LEMMA StageSame ==
  ASSUME FlowInv, UNCHANGED llmVars, UNCHANGED <<tasks, results>>,
         Busy' = Busy, \A v \in Workers : worker'[v].id = worker[v].id,
         Ids(started') \subseteq Ids(started) \cup BusyIds
  PROVE  ConsentInv' /\ OneStage'
<1>1. UNCHANGED <<pendingTools, pendingConfirms, toDispatch, called, prompted, consent>>
  BY DEF llmVars, toolVars
<1>2. ConsentInv' /\ AskedIds' = AskedIds
  BY <1>1, LLMSame
<1>3. BusyIds' = BusyIds
  BY DEF BusyIds, Busy
<1>4. \A u, v \in Busy' : worker'[u].id = worker'[v].id => u = v
  BY DEF FlowInv, OneStage, Busy
<1>5. OneStage'
  BY <1>1, <1>2, <1>3, <1>4 DEF FlowInv, OneStage
<1> QED
  BY <1>2, <1>5

LEMMA LockInv ==
  ASSUME FlowInv, NEW w \in Workers, Lock(w), UNCHANGED llmVars
  PROVE  FlowInv'
<1>1. /\ worker[w].pc = "lock" /\ streamLock[worker[w].stream] = NoWorker
      /\ streamLock' = [streamLock EXCEPT ![worker[w].stream] = w]
      /\ worker' = [worker EXCEPT ![w].pc = "call"]
      /\ UNCHANGED <<tasks, in, running, started, results, lost>>
  BY DEF Lock
<1>2. /\ worker \in [Workers -> WorkerState] /\ worker[w].stream \in Streams
      /\ streamLock \in [Streams -> Workers \cup {NoWorker}]
  BY <1>1 DEF FlowInv, FlowTypeOK, DispatcherTypeOK, WorkerState, Busy
<1>3. /\ worker' \in [Workers -> WorkerState]
      /\ \A v \in Workers :
           /\ worker'[v].id = worker[v].id /\ worker'[v].stream = worker[v].stream
           /\ worker'[v].attempt = worker[v].attempt
           /\ v # w => worker'[v].pc = worker[v].pc
      /\ worker'[w].pc = "call"
  BY <1>1, <1>2 DEF WorkerState
<1>4. Busy' = Busy
  BY <1>1, <1>3 DEF Busy
<1>5. ConsentInv' /\ OneStage'
  BY <1>1, <1>3, <1>4, StageSame
<1>6. FlowTypeOK'
  <2>1. DispatcherTypeOK'
    BY <1>1, <1>2, <1>3 DEF FlowInv, FlowTypeOK, DispatcherTypeOK, WorkerState
  <2> QED
    BY <1>1, <1>3, <1>4, <2>1 DEF FlowInv, FlowTypeOK, llmVars, toolVars, Busy
<1>7. LocksInv'
  BY <1>1, <1>2, <1>3, DispatcherAssumption DEF FlowInv, LocksInv
<1>8. AttemptsInv'
  BY <1>1, <1>3, <1>4 DEF FlowInv, AttemptsInv, Busy
<1> QED
  BY <1>5, <1>6, <1>7, <1>8 DEF FlowInv

LEMMA StartToolInv ==
  ASSUME FlowInv, NEW w \in Workers, StartTool(w), UNCHANGED llmVars
  PROVE  FlowInv'
<1> DEFINE a == Attempt(w)
<1>1. /\ worker[w].pc = "call" /\ running' = running \cup {a}
      /\ started' = Append(started, a)
      /\ worker' = [worker EXCEPT ![w].pc = "wait"]
      /\ UNCHANGED <<tasks, in, streamLock, results, lost>>
  BY DEF StartTool
<1>2. /\ worker \in [Workers -> WorkerState] /\ w \in Busy
      /\ worker[w].id \in Calls /\ worker[w].stream \in Streams
      /\ worker[w].attempt \in 1 .. Retries + 1
  BY <1>1, DispatcherAssumption DEF FlowInv, FlowTypeOK, DispatcherTypeOK, WorkerState, Busy
<1>3. /\ worker' \in [Workers -> WorkerState]
      /\ \A v \in Workers :
           /\ worker'[v].id = worker[v].id /\ worker'[v].stream = worker[v].stream
           /\ worker'[v].attempt = worker[v].attempt
           /\ v # w => worker'[v].pc = worker[v].pc
      /\ worker'[w].pc = "wait"
  BY <1>1, <1>2 DEF WorkerState
<1>4. Busy' = Busy
  BY <1>1, <1>3 DEF Busy
<1>5. a \in Started /\ a.id = worker[w].id /\ a.attempt = worker[w].attempt
  BY <1>2 DEF Started, Attempt
<1>6. started \in Seq(Started)
  BY DEF FlowInv, FlowTypeOK
<1>7. /\ started' \in Seq(Started) /\ Ids(started') = Ids(started) \cup {worker[w].id}
      /\ Len(started) \in Nat /\ DOMAIN started = 1 .. Len(started)
      /\ DOMAIN started' = 1 .. Len(started) + 1
      /\ \A n \in 1 .. Len(started) : started'[n] = started[n]
      /\ started'[Len(started) + 1] = a
  BY <1>1, <1>5, <1>6, AppendProperties, AppendIds, LenProperties
<1>8. ConsentInv' /\ OneStage'
  <2>1. worker[w].id \in BusyIds
    BY <1>2 DEF BusyIds
  <2> QED
    BY <1>1, <1>3, <1>4, <1>7, <2>1, StageSame
<1>9. FlowTypeOK'
  <2>1. DispatcherTypeOK'
    BY <1>1, <1>3, <1>5 DEF FlowInv, FlowTypeOK, DispatcherTypeOK, WorkerState, Started
  <2> QED
    BY <1>1, <1>3, <1>4, <1>7, <2>1 DEF FlowInv, FlowTypeOK, llmVars, toolVars, Busy
<1>10. LocksInv'
  BY <1>1, <1>3 DEF FlowInv, LocksInv
<1>11. AttemptsInv'
  <2>1. \A n \in DOMAIN started' : n \in DOMAIN started \/ n = Len(started) + 1
    BY <1>7
  <2>2. \A i \in DOMAIN started :
          started[i].id = worker[w].id => started[i].attempt < worker[w].attempt
    BY <1>1, <1>2 DEF FlowInv, AttemptsInv
  <2>3. \A i, j \in DOMAIN started' :
          i < j /\ started'[i].id = started'[j].id => started'[i].attempt < started'[j].attempt
    BY <1>5, <1>7, <2>1, <2>2 DEF FlowInv, AttemptsInv
  <2>4. \A v \in Busy : worker[v].id = worker[w].id => v = w
    BY <1>2 DEF FlowInv, OneStage
  <2>5. ASSUME NEW v \in Busy', NEW i \in DOMAIN started', started'[i].id = worker'[v].id
        PROVE  \/ started'[i].attempt < worker'[v].attempt
               \/ worker'[v].pc \in {"wait", "send"} /\ started'[i].attempt = worker'[v].attempt
    <3>1. CASE i = Len(started) + 1
      BY <1>3, <1>4, <1>5, <1>7, <2>4, <2>5, <3>1 DEF Busy
    <3>2. CASE i \in DOMAIN started
      BY <1>3, <1>4, <1>7, <2>2, <2>5, <3>2 DEF FlowInv, AttemptsInv, Busy
    <3> QED
      BY <2>1, <3>1, <3>2
  <2> QED
    BY <2>3, <2>5 DEF AttemptsInv
<1> QED
  BY <1>8, <1>9, <1>10, <1>11 DEF FlowInv

LEMMA AttemptsAreCounted ==
  ASSUME FlowInv
  PROVE  \A i \in DOMAIN started : started[i].attempt \in 1 .. Retries + 1
<1>1. started \in Seq(Started)
  BY DEF FlowInv, FlowTypeOK
<1>2. DOMAIN started = 1 .. Len(started) /\ \A i \in 1 .. Len(started) : started[i] \in Started
  BY <1>1, LenProperties, ElementOfSeq
<1> QED
  BY <1>2 DEF Started

(* An attempt ends: it is repeated, or the stream is unlocked. *)
LEMMA EndedInv ==
  ASSUME FlowInv, NEW w \in Workers, NEW status \in Outcomes \cup {"timeout"},
         worker[w].pc = "wait", Ended(w, status), running' \subseteq running,
         UNCHANGED <<tasks, in, dispatched, started, results, lost>>, UNCHANGED llmVars
  PROVE  FlowInv'
<1>1. /\ worker \in [Workers -> WorkerState] /\ w \in Busy
      /\ worker[w].stream \in Streams /\ worker[w].attempt \in 1 .. Retries + 1
      /\ streamLock \in [Streams -> Workers \cup {NoWorker}]
  BY DispatcherAssumption DEF FlowInv, FlowTypeOK, DispatcherTypeOK, WorkerState, Busy
<1>2. /\ worker' \in [Workers -> WorkerState]
      /\ \A v \in Workers :
           /\ worker'[v].id = worker[v].id /\ worker'[v].stream = worker[v].stream
           /\ v # w => worker'[v] = worker[v]
      /\ \/ /\ worker'[w].pc = "call" /\ worker'[w].attempt = worker[w].attempt + 1
            /\ streamLock' = streamLock
         \/ /\ worker'[w].pc = "send" /\ worker'[w].attempt = worker[w].attempt
            /\ streamLock' = Unlocked(w)
  <2>1. CASE /\ worker[w].attempt < Retries + 1
             /\ worker' = [worker EXCEPT ![w].pc = "call", ![w].attempt = @ + 1]
             /\ UNCHANGED streamLock
    BY <1>1, <2>1, DispatcherAssumption DEF WorkerState
  <2>2. CASE /\ worker' = [worker EXCEPT ![w].pc = "send", ![w].status = status]
             /\ streamLock' = Unlocked(w)
    BY <1>1, <2>2 DEF WorkerState
  <2> QED
    BY <2>1, <2>2 DEF Ended
<1>3. Busy' = Busy
  BY <1>2 DEF Busy
<1>4. ConsentInv' /\ OneStage'
  BY <1>2, <1>3, StageSame
<1>5. streamLock' \in [Streams -> Workers \cup {NoWorker}]
  BY <1>1, <1>2 DEF Unlocked
<1>6. FlowTypeOK'
  <2>1. DispatcherTypeOK'
    BY <1>2, <1>5 DEF FlowInv, FlowTypeOK, DispatcherTypeOK, WorkerState
  <2>2. \A v \in Busy' :
          worker'[v].id \in Calls /\ worker'[v].stream \in Streams /\ worker'[v].attempt >= 1
    BY <1>1, <1>2, <1>3 DEF FlowInv, FlowTypeOK, Busy
  <2> QED
    BY <2>1, <2>2 DEF FlowInv, FlowTypeOK, llmVars, toolVars
<1>7. LocksInv'
  <2> SUFFICES ASSUME SerializeByStream, NEW v \in Workers, worker'[v].pc \in {"call", "wait"}
               PROVE  streamLock'[worker'[v].stream] = v
    BY DEF LocksInv
  <2>1. streamLock[worker[w].stream] = w
    BY DEF FlowInv, LocksInv
  <2>2. CASE streamLock' = streamLock
    BY <1>2, <2>1, <2>2 DEF FlowInv, LocksInv
  <2>3. CASE worker'[w].pc = "send" /\ streamLock' = Unlocked(w)
    <3>1. v # w /\ streamLock[worker[v].stream] = v
      BY <1>2, <2>3 DEF FlowInv, LocksInv
    <3>2. worker[v].stream # worker[w].stream
      BY <2>1, <3>1
    <3>3. worker[v].stream \in Streams
      BY <1>2, <3>1 DEF FlowInv, FlowTypeOK, Busy
    <3> QED
      BY <1>1, <1>2, <2>3, <3>1, <3>2, <3>3 DEF Unlocked
  <2> QED
    BY <1>2, <2>2, <2>3
<1>8. AttemptsInv'
  <2>1. \A i \in DOMAIN started : started[i].attempt \in 1 .. Retries + 1
    BY AttemptsAreCounted
  <2>2. \A i \in DOMAIN started :
          started[i].id = worker[w].id => started[i].attempt <= worker[w].attempt
    BY <1>1, <2>1, DispatcherAssumption DEF FlowInv, AttemptsInv
  <2>3. ASSUME NEW v \in Busy, NEW i \in DOMAIN started, started[i].id = worker'[v].id
        PROVE  \/ started[i].attempt < worker'[v].attempt
               \/ worker'[v].pc \in {"wait", "send"} /\ started[i].attempt = worker'[v].attempt
    <3>1. CASE v # w
      BY <1>2, <2>3, <3>1 DEF FlowInv, AttemptsInv, Busy
    <3>2. CASE v = w
      BY <1>1, <1>2, <2>1, <2>2, <2>3, <3>2, DispatcherAssumption
    <3> QED
      BY <3>1, <3>2
  <2> QED
    BY <1>3, <2>3 DEF FlowInv, AttemptsInv
<1> QED
  BY <1>4, <1>6, <1>7, <1>8 DEF FlowInv

LEMMA SendResultInv ==
  ASSUME FlowInv, NEW w \in Workers, SendResult(w), UNCHANGED llmVars
  PROVE  FlowInv'
<1> DEFINE r == [id |-> worker[w].id, stream |-> worker[w].stream, status |-> worker[w].status]
<1>1. /\ worker[w].pc = "send" /\ results' = Append(results, r)
      /\ worker' = [worker EXCEPT ![w] = Idle]
      /\ \/ Len(in) < InCap /\ in' = Append(in, r) /\ lost' = lost
         \/ in' = in /\ lost' = lost \cup {r.id}
      /\ UNCHANGED <<tasks, streamLock, running, started>>
  BY DEF SendResult
<1>2. UNCHANGED <<pendingTools, pendingConfirms, toDispatch, called, prompted, consent>>
  BY DEF llmVars, toolVars
<1>3. ConsentInv' /\ AskedIds' = AskedIds
  BY <1>2, LLMSame
<1>4. /\ worker \in [Workers -> WorkerState] /\ w \in Busy
      /\ worker[w].id \in Calls /\ worker[w].stream \in Streams
  BY <1>1 DEF FlowInv, FlowTypeOK, DispatcherTypeOK, WorkerState, Busy
<1>5. r \in Result /\ r.id = worker[w].id /\ worker[w].id \in BusyIds
  BY <1>4 DEF Result, WorkerState, BusyIds
<1>6. /\ results \in Seq(Result) /\ Unique(results) /\ worker[w].id \notin Ids(results)
      /\ in \in Seq(Result) /\ Len(in) <= InCap
  BY <1>5 DEF FlowInv, FlowTypeOK, DispatcherTypeOK, OneStage
<1>7. /\ results' \in Seq(Result) /\ Unique(results')
      /\ Ids(results') = Ids(results) \cup {worker[w].id}
  BY <1>1, <1>5, <1>6, AppendProperties, AppendIds
<1>8. /\ in' \in Seq(Result) /\ Len(in') <= InCap
      /\ lost' \subseteq Calls
  <2>1. Append(in, r) \in Seq(Result) /\ Len(Append(in, r)) = Len(in) + 1 /\ Len(in) \in Nat
    BY <1>5, <1>6, AppendProperties, LenProperties
  <2>2. in' \in Seq(Result) /\ Len(in') <= InCap
    <3>1. CASE Len(in) < InCap /\ in' = Append(in, r)
      <4> HIDE DEF r
      <4> QED
        BY <2>1, <3>1, DispatcherAssumption
    <3>2. CASE in' = in
      BY <1>6, <3>2
    <3> QED
      BY <1>1, <3>1, <3>2
  <2>3. lost' \subseteq Calls
    BY <1>1, <1>4, <1>5 DEF FlowInv, FlowTypeOK, DispatcherTypeOK
  <2> QED
    BY <2>2, <2>3
<1>9. /\ worker' \in [Workers -> WorkerState] /\ worker'[w].pc = "idle"
      /\ \A v \in Workers : v # w => worker'[v] = worker[v]
  BY <1>1, <1>4, DispatcherAssumption DEF WorkerState, Idle, Outcomes
<1>10. Busy' = Busy \ {w}
  BY <1>9 DEF Busy
<1>11. BusyIds' = BusyIds \ {worker[w].id}
  BY <1>4, <1>9, <1>10 DEF BusyIds, Busy, FlowInv, OneStage
<1>12. FlowTypeOK'
  <2>1. DispatcherTypeOK'
    BY <1>1, <1>7, <1>8, <1>9 DEF FlowInv, FlowTypeOK, DispatcherTypeOK, WorkerState
  <2>2. \A v \in Busy' :
          worker'[v].id \in Calls /\ worker'[v].stream \in Streams /\ worker'[v].attempt >= 1
    BY <1>9, <1>10 DEF FlowInv, FlowTypeOK, Busy
  <2> QED
    BY <1>1, <1>2, <2>1, <2>2 DEF FlowInv, FlowTypeOK
<1>13. LocksInv'
  BY <1>1, <1>9 DEF FlowInv, LocksInv
<1>14. AttemptsInv'
  BY <1>1, <1>9, <1>10 DEF FlowInv, AttemptsInv, Busy
<1>15. OneStage'
  <2>1. \A u, v \in Busy' : worker'[u].id = worker'[v].id => u = v
    BY <1>9, <1>10 DEF FlowInv, OneStage, Busy
  <2> QED
    BY <1>1, <1>2, <1>3, <1>5, <1>7, <1>11, <2>1 DEF FlowInv, OneStage
<1> QED
  BY <1>3, <1>12, <1>13, <1>14, <1>15 DEF FlowInv

(* HandleTool returns to nobody: the attempt had timed out. *)
LEMMA LateReturnInv ==
  ASSUME FlowInv, running' \subseteq running, UNCHANGED <<worker, streamLock>>,
         UNCHANGED <<tasks, in, dispatched, started, results, lost>>, UNCHANGED llmVars
  PROVE  FlowInv'
<1>1. Busy' = Busy
  BY DEF Busy
<1>2. ConsentInv' /\ OneStage'
  BY <1>1, StageSame
<1>3. FlowTypeOK'
  BY <1>1 DEF FlowInv, FlowTypeOK, DispatcherTypeOK, llmVars, toolVars
<1>4. LocksInv' /\ AttemptsInv'
  BY <1>1 DEF FlowInv, LocksInv, AttemptsInv
<1> QED
  BY <1>2, <1>3, <1>4 DEF FlowInv

LEMMA ToolInv ==
  ASSUME FlowInv, ToolStep
  PROVE  FlowInv'
<1>1. UNCHANGED llmVars
  BY DEF ToolStep
<1>2. ASSUME NEW w \in Workers, WorkerStep(w)
      PROVE  FlowInv'
  <2>1. CASE Take(w)
    BY <1>1, <2>1, TakeInv
  <2>2. CASE Lock(w)
    BY <1>1, <2>2, LockInv
  <2>3. CASE StartTool(w)
    BY <1>1, <2>3, StartToolInv
  <2>4. CASE Timeout(w)
    BY <1>1, <2>4, EndedInv DEF Timeout
  <2>5. CASE SendResult(w)
    BY <1>1, <2>5, SendResultInv
  <2> QED
    BY <1>2, <2>1, <2>2, <2>3, <2>4, <2>5 DEF WorkerStep
<1>3. ASSUME NEW a \in running, NEW status \in Outcomes, ToolReturns(a, status)
      PROVE  FlowInv'
  <2>1. running' \subseteq running /\ UNCHANGED <<tasks, in, dispatched, started, results, lost>>
    BY <1>3 DEF ToolReturns
  <2>2. ASSUME NEW w \in Workers, worker[w].pc = "wait", Ended(w, status)
        PROVE  FlowInv'
    BY <1>1, <2>1, <2>2, EndedInv
  <2>3. CASE UNCHANGED <<worker, streamLock>>
    BY <1>1, <2>1, <2>3, LateReturnInv
  <2> QED
    BY <1>3, <2>2, <2>3 DEF ToolReturns
<1> QED
  BY <1>2, <1>3 DEF ToolStep

-----------------------------------------------------------------------------
LEMMA FlowNext == FlowInv /\ [Next]_vars => FlowInv'
<1> SUFFICES ASSUME FlowInv, [Next]_vars
             PROVE  FlowInv'
  OBVIOUS
<1>1. CASE SystemStep
  BY <1>1, SystemFrameInv
<1>2. CASE ReplyStep
  BY <1>2, ReplyInv
<1>3. CASE TextStep
  BY <1>3, TextInv
<1>4. CASE ResultStep
  BY <1>4, ResultInv
<1>5. CASE DispatchStep
  BY <1>5, DispatchInv
<1>6. CASE ToolStep
  BY <1>6, ToolInv
<1>7. CASE UNCHANGED vars
  <2>1. UNCHANGED flowVars
    BY <1>7 DEF vars, llmVars, toolVars, flowVars
  <2> QED
    BY <2>1, SameFlow
<1> QED
  BY <1>1, <1>2, <1>3, <1>4, <1>5, <1>6, <1>7 DEF Next

LEMMA FlowInvariant == Spec => []FlowInv
  BY FlowInit, FlowNext, PTL DEF Spec

-----------------------------------------------------------------------------
(* The fields of the dispatcher and its workers' locals have their types,    *)
(* and neither its queue nor the input exceeds its capacity.                 *)
THEOREM DispatcherIsTyped == Spec => []DispatcherTypeOK
<1>1. FlowInv => DispatcherTypeOK
  BY DEF FlowInv, FlowTypeOK
<1> QED
  BY <1>1, FlowInvariant, PTL

(* However many workers there are, two tools of a stream are never awaited   *)
(* at once when it is serialized, through retries and timeouts.              *)
THEOREM StreamsAreSerialized == Spec => []StreamSerialized
<1>1. FlowInv => StreamSerialized
  BY DEF FlowInv, LocksInv, StreamSerialized, Awaited, Attempt
<1> QED
  BY <1>1, FlowInvariant, PTL

(* A risky tool's call leaves the processor only with a user's consent to    *)
(* that very call, for any number of streams and calls in a response.        *)
THEOREM NoToolWithoutConsent == Spec => []ConfirmationIsExplicit
<1>1. FlowInv => ConfirmationIsExplicit
  BY DEF FlowInv, ConsentInv
<1> QED
  BY <1>1, FlowInvariant, PTL

(* A call has at most Retries + 1 attempts, one after the other, none after  *)
(* its result, and one result, for any number of workers and retries.        *)
THEOREM RetriesAreEnforced == Spec => []RetriesEnforced
<1>1. ASSUME FlowInv
      PROVE  RetriesEnforced
  <2>1. \A i \in DOMAIN started : started[i].attempt \in 1 .. Retries + 1
    BY <1>1, AttemptsAreCounted
  <2>2. Unique(results) /\ BusyIds \cap Ids(results) = {}
    BY <1>1 DEF FlowInv, OneStage
  <2>3. \A i \in DOMAIN results :
          ~ \E w \in Workers : worker[w].pc # "idle" /\ worker[w].id = results[i].id
    BY <2>2 DEF BusyIds, Busy, Ids
  <2> QED
    BY <1>1, <2>1, <2>2, <2>3 DEF FlowInv, AttemptsInv, Unique, RetriesEnforced
<1> QED
  BY <1>1, FlowInvariant, PTL

-----------------------------------------------------------------------------
(* Places in a finite set of numbers.                                        *)

LEMMA PlaceGrows ==
  ASSUME NEW S \in SUBSET Nat, IsFiniteSet(S)
  PROVE  /\ \A i \in S : Place(S, i) \in 1 .. Cardinality(S)
         /\ \A i, j \in S : i < j => Place(S, i) < Place(S, j)
<1>1. ASSUME NEW i \in S
      PROVE  /\ IsFiniteSet({j \in S : j <= i})
             /\ Place(S, i) \in 1 .. Cardinality(S)
  <2> DEFINE T == {j \in S : j <= i}
  <2>1. T \in SUBSET S /\ i \in T
    BY <1>1
  <2>2. IsFiniteSet(T) /\ Cardinality(T) <= Cardinality(S)
    BY <2>1, FS_Subset
  <2>3. Cardinality(T) \in Nat /\ Cardinality(S) \in Nat /\ Cardinality(T) # 0
    BY <2>1, <2>2, FS_CardinalityType, FS_EmptySet
  <2> QED
    BY <2>2, <2>3 DEF Place
<1>2. ASSUME NEW i \in S, NEW j \in S, i < j
      PROVE  Place(S, i) < Place(S, j)
  <2> DEFINE T == {m \in S : m <= i}
             U == {m \in S : m <= j}
  <2>1. T \in SUBSET U /\ j \in U /\ j \notin T
    <3>1. \A m \in S : m <= i => m <= j
      BY <1>2
    <3>2. j <= j /\ ~ (j <= i)
      BY <1>2
    <3> QED
      BY <3>1, <3>2
  <2>2. IsFiniteSet(U)
    BY <1>1
  <2>3. Cardinality(T) <= Cardinality(U) /\ Cardinality(T) # Cardinality(U)
    <3> HIDE DEF T, U
    <3> QED
      BY <2>1, <2>2, FS_Subset
  <2>4. Cardinality(T) \in Nat /\ Cardinality(U) \in Nat
    BY <1>1, FS_CardinalityType
  <2> QED
    BY <2>3, <2>4 DEF Place
<1> QED
  BY <1>1, <1>2

(* Every place is one index's, and the index at it is that one. *)
LEMMA IndexAtPlace ==
  ASSUME NEW S \in SUBSET Nat, IsFiniteSet(S)
  PROVE  /\ \A n \in 1 .. Cardinality(S) : IndexAt(S, n) \in S /\ Place(S, IndexAt(S, n)) = n
         /\ \A i \in S : IndexAt(S, Place(S, i)) = i
         /\ \A m, n \in 1 .. Cardinality(S) : m < n => IndexAt(S, m) < IndexAt(S, n)
<1> DEFINE N == 1 .. Cardinality(S)
           f == [i \in S |-> Place(S, i)]
<1>1. Cardinality(S) \in Nat
  BY FS_CardinalityType
<1>2. IsFiniteSet(N) /\ Cardinality(N) = Cardinality(S)
  BY <1>1, FS_Interval
<1>3. \A i, j \in S : Place(S, i) = Place(S, j) => i = j
  <2>1. \A i, j \in S : i < j \/ j < i \/ i = j
    OBVIOUS
  <2>2. \A i \in S : Place(S, i) \in Nat
    BY <1>1, PlaceGrows
  <2> QED
    BY <2>1, <2>2, PlaceGrows
<1>4. f \in Injection(S, N)
  BY <1>3, PlaceGrows DEF Injection, IsInjective
<1>5. f \in Surjection(S, N)
  BY <1>2, <1>4, FS_Injection
<1>6. \A n \in N : \E i \in S : Place(S, i) = n
  BY <1>5 DEF Surjection
<1>7. \A n \in N : IndexAt(S, n) \in S /\ Place(S, IndexAt(S, n)) = n
  BY <1>6 DEF IndexAt
<1>8. \A i \in S : IndexAt(S, Place(S, i)) = i
  BY <1>3, <1>7, PlaceGrows
<1>9. ASSUME NEW m \in N, NEW n \in N, m < n
      PROVE  IndexAt(S, m) < IndexAt(S, n)
  <2>1. PICK i \in S : i = IndexAt(S, m) /\ Place(S, i) = m
    BY <1>7
  <2>2. PICK j \in S : j = IndexAt(S, n) /\ Place(S, j) = n
    BY <1>7
  <2>3. ~ (j < i) /\ i # j
    BY <1>9, <2>1, <2>2, PlaceGrows
  <2> QED
    BY <2>1, <2>2, <2>3
<1> QED
  BY <1>7, <1>8, <1>9

(* A finite set of numbers that has a member has a least one. *)
LEMMA LeastOf ==
  ASSUME NEW S \in SUBSET Nat, IsFiniteSet(S), S # {}
  PROVE  \E n \in S : \A m \in S : n <= m
<1>1. Cardinality(S) \in Nat /\ Cardinality(S) # 0
  BY FS_CardinalityType, FS_EmptySet
<1>2. 1 \in 1 .. Cardinality(S)
  BY <1>1
<1>3. PICK n \in S : Place(S, n) = 1
  BY <1>2, IndexAtPlace
<1>4. \A m \in S : ~ (m < n)
  BY <1>1, <1>3, PlaceGrows
<1> QED
  BY <1>4

(* As many indices have the first n places as there are places. *)
LEMMA FirstPlaces ==
  ASSUME NEW S \in SUBSET Nat, IsFiniteSet(S), NEW n \in 0 .. Cardinality(S)
  PROVE  LET rest == S \ {i \in S : Place(S, i) <= n}
         IN  IsFiniteSet(rest) /\ Cardinality(rest) <= Cardinality(S) - n
<1> DEFINE T == {i \in S : Place(S, i) <= n}
           f == [m \in 1 .. n |-> IndexAt(S, m)]
<1>1. Cardinality(S) \in Nat
  BY FS_CardinalityType
<1>2. T \in SUBSET S /\ IsFiniteSet(T) /\ Cardinality(T) \in Nat
  BY FS_Subset, FS_CardinalityType
<1>3. \A m \in 1 .. n : m \in 1 .. Cardinality(S) /\ m <= n
  BY <1>1
<1>4. \A m \in 1 .. n : IndexAt(S, m) \in T
  BY <1>3, IndexAtPlace
<1>5. \A l, m \in 1 .. n : IndexAt(S, l) = IndexAt(S, m) => l = m
  BY <1>3, IndexAtPlace
<1>6. f \in Injection(1 .. n, T)
  BY <1>4, <1>5 DEF Injection, IsInjective
<1>7. Cardinality(1 .. n) <= Cardinality(T)
  BY <1>2, <1>6, FS_Injection
<1>8. Cardinality(1 .. n) = n
  BY <1>1, FS_Interval
<1>9. IsFiniteSet(S \ T) /\ Cardinality(S \ T) = Cardinality(S) - Cardinality(S \cap T)
  BY <1>2, FS_Difference
<1>10. Cardinality(S \cap T) = Cardinality(T)
  <2>1. S \cap T = T
    OBVIOUS
  <2> QED
    BY <2>1
<1> HIDE DEF T
<1>11. Cardinality(S \ T) <= Cardinality(S) - n
  BY <1>1, <1>2, <1>7, <1>8, <1>9, <1>10
<1> QED
  BY <1>9, <1>11 DEF T
-----------------------------------------------------------------------------
(* What pruning makes of a history.                                          *)

(* w has, in their order, the messages of msgs whose indices k picks. *)
Picks(w, msgs, kept, k) ==
  /\ k \in [DOMAIN w -> kept]
  /\ \A m, n \in DOMAIN w : m < n => k[m] < k[n]
  /\ \A i \in kept : \E n \in DOMAIN w : k[n] = i
  /\ \A n \in DOMAIN w : w[n] = msgs[k[n]]

LEMMA Indices ==
  ASSUME NEW M, NEW msgs \in Seq(M)
  PROVE  /\ Len(msgs) \in Nat /\ DOMAIN msgs = 1 .. Len(msgs)
         /\ DOMAIN msgs \in SUBSET Nat
         /\ \A S \in SUBSET DOMAIN msgs : S \in SUBSET Nat /\ IsFiniteSet(S)
<1>1. Len(msgs) \in Nat /\ DOMAIN msgs = 1 .. Len(msgs)
  BY LenProperties
<1>2. IsFiniteSet(DOMAIN msgs)
  BY <1>1, FS_Interval
<1> QED
  BY <1>1, <1>2, FS_Subset

LEMMA WithoutPicks ==
  ASSUME NEW M, NEW msgs \in Seq(M), NEW dropped
  PROVE  LET w == Without(msgs, dropped)
         IN  w \in Seq(M) /\ \E k : Picks(w, msgs, DOMAIN msgs \ dropped, k)
<1> DEFINE w == Without(msgs, dropped)
           kept == DOMAIN msgs \ dropped
           size == Cardinality(kept)
           k == [n \in 1 .. size |-> IndexAt(kept, n)]
<1>1. /\ kept \in SUBSET DOMAIN msgs /\ kept \in SUBSET Nat /\ IsFiniteSet(kept)
      /\ DOMAIN msgs = 1 .. Len(msgs)
  BY Indices
<1>2. size \in Nat
  BY <1>1, FS_CardinalityType
<1>3. \A n \in 1 .. size : IndexAt(kept, n) \in kept
  BY <1>1, IndexAtPlace
<1>4. w = [n \in 1 .. size |-> msgs[IndexAt(kept, n)]]
  BY DEF Without
<1>5. \A n \in 1 .. size : msgs[IndexAt(kept, n)] \in M
  BY <1>1, <1>3, ElementOfSeq
<1>6. w \in Seq(M)
  <2>1. w \in [1 .. size -> M]
    BY <1>4, <1>5
  <2> HIDE DEF w, size
  <2> QED
    BY <1>2, <2>1, SeqDef
<1>7. DOMAIN w = 1 .. size
  BY <1>4
<1>8. k \in [DOMAIN w -> kept]
  BY <1>3, <1>7
<1>9. \A m, n \in DOMAIN w : m < n => k[m] < k[n]
  BY <1>1, <1>7, IndexAtPlace
<1>10. \A i \in kept : \E n \in DOMAIN w : k[n] = i
  <2> SUFFICES ASSUME NEW i \in kept
               PROVE  \E n \in DOMAIN w : k[n] = i
    OBVIOUS
  <2>1. Place(kept, i) \in 1 .. size /\ IndexAt(kept, Place(kept, i)) = i
    BY <1>1, PlaceGrows, IndexAtPlace
  <2> QED
    BY <1>7, <2>1
<1>11. \A n \in DOMAIN w : w[n] = msgs[k[n]]
  BY <1>4, <1>7
<1>12. Picks(w, msgs, kept, k)
  BY <1>8, <1>9, <1>10, <1>11 DEF Picks
<1> QED
  BY <1>6, <1>12

(* Neighbours that are kept stay neighbours. *)
LEMMA Neighbours ==
  ASSUME NEW M, NEW w \in Seq(M), NEW msgs \in Seq(M), NEW kept \in SUBSET DOMAIN msgs, NEW k,
         Picks(w, msgs, kept, k), NEW m \in DOMAIN w, NEW n \in DOMAIN w, k[n] = k[m] + 1
  PROVE  n = m + 1
<1>1. /\ DOMAIN w = 1 .. Len(w) /\ Len(w) \in Nat
      /\ \A l \in DOMAIN w : k[l] \in Nat
  BY Indices DEF Picks
<1>2. ~ (n < m) /\ n # m
  BY <1>1 DEF Picks
<1>3. ASSUME m + 1 < n
      PROVE  FALSE
  <2>1. m + 1 \in DOMAIN w
    BY <1>1, <1>3
  <2>2. k[m] < k[m + 1] /\ k[m + 1] < k[n]
    BY <1>1, <1>3, <2>1 DEF Picks
  <2> QED
    BY <1>1, <2>1, <2>2
<1> QED
  BY <1>1, <1>2, <1>3

(* An initial part of what is not the system's. *)
Oldest(msgs, dropped) ==
  /\ dropped \subseteq NonSystem(msgs)
  /\ \A i \in dropped, j \in NonSystem(msgs) : j < i => j \in dropped

LEMMA PicksPaired ==
  ASSUME NEW M, NEW w \in Seq(M), NEW msgs \in Seq(M), NEW dropped, NEW k,
         Oldest(msgs, dropped), Picks(w, msgs, DOMAIN msgs \ dropped, k), Paired(msgs)
  PROVE  Paired(w)
<1> DEFINE kept == DOMAIN msgs \ dropped
<1>1. /\ DOMAIN w = 1 .. Len(w) /\ Len(w) \in Nat
      /\ DOMAIN msgs = 1 .. Len(msgs) /\ Len(msgs) \in Nat
  BY Indices
<1>2. \A n \in DOMAIN w : k[n] \in DOMAIN msgs /\ k[n] \notin dropped /\ w[n] = msgs[k[n]]
  BY DEF Picks
<1>3. \A i \in DOMAIN msgs : i \notin dropped => \E n \in DOMAIN w : k[n] = i
  BY DEF Picks
<1>4. \A m, n \in DOMAIN w : k[n] = k[m] + 1 => n = m + 1
  BY Neighbours
<1> SUFFICES ASSUME NEW n \in DOMAIN w
             PROVE  /\ w[n].role = "call" =>
                         n < Len(w) /\ w[n + 1].role = "tool" /\ w[n + 1].of = w[n].of
                    /\ w[n].role = "tool" =>
                         \/ \A m \in NonSystem(w) : n <= m
                         \/ w[n - 1].role = "call" /\ w[n - 1].of = w[n].of
  BY DEF Paired
<1>5. PICK i \in DOMAIN msgs : i = k[n] /\ i \notin dropped /\ w[n] = msgs[i]
  BY <1>2
<1>6. ASSUME w[n].role = "call"
      PROVE  n < Len(w) /\ w[n + 1].role = "tool" /\ w[n + 1].of = w[n].of
  <2>1. i < Len(msgs) /\ msgs[i + 1].role = "tool" /\ msgs[i + 1].of = msgs[i].of
    BY <1>5, <1>6 DEF Paired
  <2>2. i + 1 \in DOMAIN msgs /\ i < i + 1 /\ i \in NonSystem(msgs)
    BY <1>1, <1>5, <1>6, <2>1 DEF NonSystem
  <2>3. i + 1 \notin dropped
    BY <1>5, <2>2 DEF Oldest
  <2>4. PICK m \in DOMAIN w : k[m] = i + 1
    BY <1>3, <2>2, <2>3
  <2>5. m = n + 1 /\ w[m] = msgs[i + 1]
    BY <1>2, <1>4, <1>5, <2>4
  <2> QED
    BY <1>1, <1>5, <2>1, <2>5
<1>7. ASSUME w[n].role = "tool"
      PROVE  \/ \A m \in NonSystem(w) : n <= m
             \/ w[n - 1].role = "call" /\ w[n - 1].of = w[n].of
  <2>1. \/ \A j \in NonSystem(msgs) : i <= j
        \/ msgs[i - 1].role = "call" /\ msgs[i - 1].of = msgs[i].of
    BY <1>5, <1>7 DEF Paired
  <2>2. ASSUME \A j \in NonSystem(msgs) : j \notin dropped => i <= j
        PROVE  \A m \in NonSystem(w) : n <= m
    <3> SUFFICES ASSUME NEW m \in NonSystem(w), m < n
                 PROVE  FALSE
      BY <1>1 DEF NonSystem
    <3>1. m \in DOMAIN w /\ w[m].role # "system"
      BY DEF NonSystem
    <3>2. k[m] \in NonSystem(msgs) /\ k[m] \notin dropped
      BY <1>2, <3>1 DEF NonSystem
    <3>3. k[m] < i
      BY <1>5, <3>1 DEF Picks
    <3> QED
      BY <1>1, <1>2, <1>5, <2>2, <3>1, <3>2, <3>3
  <2>3. CASE i # 1 /\ msgs[i - 1].role = "call" /\ msgs[i - 1].of = msgs[i].of
    <3>1. i - 1 \in DOMAIN msgs /\ (i - 1) + 1 = i /\ i - 1 \in NonSystem(msgs)
      BY <1>1, <2>3 DEF NonSystem
    <3>2. CASE i - 1 \in dropped
      <4>1. \A j \in NonSystem(msgs) : j \notin dropped => ~ (j < i - 1) /\ j # i - 1 /\ j \in Nat
        BY <1>1, <3>2 DEF Oldest, NonSystem
      <4>2. \A j \in NonSystem(msgs) : j \notin dropped => i <= j
        BY <1>1, <4>1
      <4> QED
        BY <2>2, <4>2
    <3>3. CASE i - 1 \notin dropped
      <4>1. PICK m \in DOMAIN w : k[m] = i - 1
        BY <3>1, <3>3, <1>3
      <4>2. n = m + 1 /\ w[m] = msgs[i - 1]
        BY <1>2, <1>4, <1>5, <3>1, <4>1
      <4>3. m = n - 1
        BY <1>1, <4>2
      <4> QED
        BY <1>5, <2>3, <4>2, <4>3
    <3> QED
      BY <3>2, <3>3
  <2>4. CASE i = 1
    BY <1>1, <2>2, <2>4 DEF NonSystem
  <2> QED
    BY <2>1, <2>2, <2>3, <2>4
<1> QED
  BY <1>6, <1>7

(* Nothing is added to what is not the system's. *)
LEMMA PicksFewer ==
  ASSUME NEW M, NEW w \in Seq(M), NEW msgs \in Seq(M), NEW dropped, NEW k,
         Picks(w, msgs, DOMAIN msgs \ dropped, k)
  PROVE  Cardinality(NonSystem(w)) <= Cardinality(NonSystem(msgs) \ dropped)
<1> DEFINE S == NonSystem(w)
           T == NonSystem(msgs) \ dropped
           f == [n \in S |-> k[n]]
<1>1. S \in SUBSET DOMAIN w /\ T \in SUBSET DOMAIN msgs
  BY DEF NonSystem
<1>2. IsFiniteSet(T)
  BY <1>1, Indices
<1>3. \A n \in S : k[n] \in T
  BY <1>1 DEF Picks, NonSystem
<1>4. \A m, n \in S : k[m] = k[n] => m = n
  <2>1. \A m, n \in S : m < n \/ n < m \/ m = n
    BY <1>1, Indices
  <2>2. \A m \in S : k[m] \in Nat
    BY <1>1, <1>3, Indices
  <2> QED
    BY <1>1, <2>1, <2>2 DEF Picks
<1>5. f \in Injection(S, T)
  BY <1>3, <1>4 DEF Injection, IsInjective
<1> HIDE DEF S, T, f
<1>6. Cardinality(S) <= Cardinality(T)
  BY <1>2, <1>5, FS_Injection
<1> QED
  BY <1>6 DEF S, T

(* The n-th of the system's messages stays the n-th. *)
LEMMA PicksSystems ==
  ASSUME NEW M, NEW w \in Seq(M), NEW msgs \in Seq(M), NEW dropped, NEW k,
         dropped \subseteq NonSystem(msgs), Picks(w, msgs, DOMAIN msgs \ dropped, k)
  PROVE  KeepsSystems(msgs, w)
<1> SUFFICES ASSUME NEW i \in Systems(msgs)
             PROVE  \E n \in Systems(w) :
                      w[n] = msgs[i] /\ Place(Systems(w), n) = Place(Systems(msgs), i)
  BY DEF KeepsSystems
<1>1. PICK n \in DOMAIN w : k[n] = i
  BY DEF Picks, Systems
<1>2. w[n] = msgs[i] /\ n \in Systems(w)
  BY <1>1 DEF Picks, Systems, NonSystem
<1> DEFINE S == {m \in Systems(w) : m <= n}
           T == {j \in Systems(msgs) : j <= i}
           f == [m \in S |-> k[m]]
<1>3. /\ \A m \in DOMAIN w : m \in Nat /\ k[m] \in Nat
      /\ Systems(w) \in SUBSET DOMAIN w /\ Systems(msgs) \in SUBSET DOMAIN msgs
  BY Indices DEF Picks, Systems
<1>4. \A m \in DOMAIN w : m \in Systems(w) <=> k[m] \in Systems(msgs)
  BY DEF Picks, Systems, NonSystem
<1>5. \A l, m \in DOMAIN w : k[l] <= k[m] <=> l <= m
  <2> SUFFICES ASSUME NEW l \in DOMAIN w, NEW m \in DOMAIN w
               PROVE  k[l] <= k[m] <=> l <= m
    OBVIOUS
  <2>1. l \in Nat /\ m \in Nat /\ k[l] \in Nat /\ k[m] \in Nat
    BY <1>3
  <2>2. (l < m => k[l] < k[m]) /\ (m < l => k[m] < k[l])
    BY DEF Picks
  <2> QED
    BY <2>1, <2>2
<1>6. \A m \in S : k[m] \in T
  BY <1>1, <1>3, <1>4, <1>5
<1>7. \A l, m \in S : k[l] = k[m] => l = m
  BY <1>3, <1>5
<1>8. \A j \in T : \E m \in S : k[m] = j
  <2> SUFFICES ASSUME NEW j \in T
               PROVE  \E m \in S : k[m] = j
    OBVIOUS
  <2>1. j \in DOMAIN msgs \ dropped
    BY DEF Systems
  <2>2. PICK m \in DOMAIN w : k[m] = j
    BY <2>1 DEF Picks
  <2> QED
    BY <1>1, <1>3, <1>4, <1>5, <2>2
<1>9. f \in Bijection(S, T)
  BY <1>6, <1>7, <1>8 DEF Bijection, Injection, Surjection, IsInjective
<1>10. IsFiniteSet(S)
  BY <1>3, Indices
<1>11. Cardinality(S) = Cardinality(T)
  <2> HIDE DEF S, T, f
  <2> QED
    BY <1>9, <1>10, FS_Bijection DEF ExistsBijection
<1> QED
  BY <1>2, <1>11 DEF Place
-----------------------------------------------------------------------------
(* How a history changes.                                                    *)

Bounded(msgs) == MaxHistory > 0 => Cardinality(NonSystem(msgs)) <= MaxHistory

UserLast(msgs) == Len(msgs) \in DOMAIN msgs /\ msgs[Len(msgs)].role = "user"

(* No call or result is last among what a rollback may take. *)
Tame(msgs) == UserLast(msgs) \/ NonSystem(msgs) = {}

(* A history of which messages that are not the system's have been dropped.  *)
Thinned(msgs, w) ==
  /\ w \in Messages
  /\ Paired(msgs) => Paired(w)
  /\ Tame(msgs) => Tame(w)
  /\ KeepsSystems(msgs, w)
  /\ Cardinality(NonSystem(w)) <= Cardinality(NonSystem(msgs))

LEMMA KeepsSystemsAgain ==
  ASSUME NEW a, NEW b, NEW c, KeepsSystems(a, b), KeepsSystems(b, c)
  PROVE  KeepsSystems(a, c)
<1> SUFFICES ASSUME NEW i \in Systems(a)
             PROVE  \E l \in Systems(c) :
                      c[l] = a[i] /\ Place(Systems(c), l) = Place(Systems(a), i)
  BY DEF KeepsSystems
<1>1. PICK j \in Systems(b) : b[j] = a[i] /\ Place(Systems(b), j) = Place(Systems(a), i)
  BY DEF KeepsSystems
<1>2. PICK l \in Systems(c) : c[l] = b[j] /\ Place(Systems(c), l) = Place(Systems(b), j)
  BY DEF KeepsSystems
<1> QED
  BY <1>1, <1>2

LEMMA SizeOf ==
  ASSUME NEW msgs \in Messages
  PROVE  IsFiniteSet(NonSystem(msgs)) /\ Cardinality(NonSystem(msgs)) \in Nat
<1>1. NonSystem(msgs) \in SUBSET DOMAIN msgs
  BY DEF NonSystem
<1>2. IsFiniteSet(NonSystem(msgs))
  BY <1>1, Indices DEF Messages
<1> QED
  BY <1>2, FS_CardinalityType

LEMMA ThinnedAgain ==
  ASSUME NEW a \in Messages, NEW b, NEW c, Thinned(a, b), Thinned(b, c)
  PROVE  Thinned(a, c)
<1>1. KeepsSystems(a, c)
  BY KeepsSystemsAgain DEF Thinned
<1>2. b \in Messages /\ c \in Messages
  BY DEF Thinned
<1>3. Cardinality(NonSystem(c)) <= Cardinality(NonSystem(a))
  <2>1. PICK l \in Nat : l = Cardinality(NonSystem(a))
    BY SizeOf
  <2>2. PICK m \in Nat : m = Cardinality(NonSystem(b))
    BY <1>2, SizeOf
  <2>3. PICK n \in Nat : n = Cardinality(NonSystem(c))
    BY <1>2, SizeOf
  <2>4. m <= l /\ n <= m
    BY <2>1, <2>2, <2>3 DEF Thinned
  <2>5. n <= l
    BY <2>4
  <2> QED
    BY <2>1, <2>3, <2>5
<1> QED
  BY <1>1, <1>2, <1>3 DEF Thinned

LEMMA ThinnedSelf ==
  ASSUME NEW msgs \in Messages
  PROVE  Thinned(msgs, msgs)
<1>1. KeepsSystems(msgs, msgs)
  BY DEF KeepsSystems
<1>2. Cardinality(NonSystem(msgs)) <= Cardinality(NonSystem(msgs))
  BY SizeOf
<1> QED
  BY <1>1, <1>2 DEF Thinned

LEMMA DropFirstThins ==
  ASSUME NEW msgs \in Messages, NEW n \in 0 .. Cardinality(NonSystem(msgs))
  PROVE  LET w == DropFirst(msgs, n)
         IN  /\ Thinned(msgs, w)
             /\ Cardinality(NonSystem(w)) <= Cardinality(NonSystem(msgs)) - n
             /\ n < Cardinality(NonSystem(msgs)) /\ UserLast(msgs) => UserLast(w)
<1> DEFINE S == NonSystem(msgs)
           dropped == {i \in S : Place(S, i) <= n}
           w == DropFirst(msgs, n)
           kept == DOMAIN msgs \ dropped
<1>1. PICK M : M = [role : {"system", "user", "assistant", "call", "tool"},
                    of : {"prompt", "note", "failure", "text"} \cup Agents \cup Calls, words : Nat]
  OBVIOUS
<1>2. msgs \in Seq(M) /\ Messages = Seq(M)
  BY <1>1 DEF Messages
<1>3. w = Without(msgs, dropped)
  BY DEF DropFirst
<1>4. w \in Seq(M) /\ \E k : Picks(w, msgs, kept, k)
  BY <1>2, <1>3, WithoutPicks
<1>5. PICK k : Picks(w, msgs, kept, k)
  BY <1>4
<1>6. S \in SUBSET DOMAIN msgs /\ S \in SUBSET Nat /\ IsFiniteSet(S) /\ Cardinality(S) \in Nat
  <2>1. S \in SUBSET DOMAIN msgs
    BY DEF NonSystem
  <2> QED
    BY <1>2, <2>1, Indices, FS_CardinalityType
<1>7. \A i \in S : Place(S, i) \in 1 .. Cardinality(S)
  BY <1>6, PlaceGrows
<1>8. Oldest(msgs, dropped)
  <2>1. ASSUME NEW i \in dropped, NEW j \in S, j < i
        PROVE  j \in dropped
    <3>1. Place(S, j) < Place(S, i) /\ Place(S, i) <= n
      BY <1>6, <2>1, PlaceGrows
    <3>2. Place(S, j) \in Nat /\ Place(S, i) \in Nat
      BY <1>6, <1>7
    <3> QED
      BY <1>6, <3>1, <3>2
  <2> QED
    BY <2>1 DEF Oldest
<1>9. Cardinality(S \ dropped) <= Cardinality(S) - n
  BY <1>6, FirstPlaces
<1> HIDE DEF dropped, w, S
<1>10. Cardinality(NonSystem(w)) <= Cardinality(S \ dropped)
  BY <1>2, <1>4, <1>5, PicksFewer DEF S
<1>11. Paired(msgs) => Paired(w)
  BY <1>2, <1>4, <1>5, <1>8, PicksPaired
<1>12. KeepsSystems(msgs, w)
  BY <1>2, <1>4, <1>5, <1>8, PicksSystems DEF Oldest
<1>13. /\ IsFiniteSet(S \ dropped) /\ Cardinality(S \ dropped) \in Nat
       /\ Cardinality(NonSystem(w)) \in Nat /\ w \in Messages
  BY <1>2, <1>4, <1>6, SizeOf, FS_Difference, FS_CardinalityType
<1>14. /\ Cardinality(NonSystem(w)) <= Cardinality(S)
       /\ Cardinality(NonSystem(w)) <= Cardinality(S) - n
  BY <1>6, <1>9, <1>10, <1>13
<1>15. ASSUME UserLast(msgs), Len(msgs) \notin dropped
       PROVE  UserLast(w)
  <2>1. /\ DOMAIN w = 1 .. Len(w) /\ Len(w) \in Nat
        /\ DOMAIN msgs = 1 .. Len(msgs) /\ Len(msgs) \in Nat
    BY <1>2, <1>4, Indices
  <2>2. Len(msgs) \in kept
    BY <1>15 DEF UserLast
  <2>3. PICK m \in DOMAIN w : k[m] = Len(msgs)
    BY <1>5, <2>2 DEF Picks
  <2>4. k[Len(w)] \in kept
    BY <1>5, <2>1, <2>3 DEF Picks
  <2>5. ~ (m < Len(w))
    <3>1. m < Len(w) => k[m] < k[Len(w)]
      BY <1>5, <2>1, <2>3 DEF Picks
    <3> QED
      BY <2>1, <2>3, <2>4, <3>1
  <2>6. m = Len(w)
    BY <2>1, <2>3, <2>5
  <2>7. w[m] = msgs[Len(msgs)]
    BY <1>5, <2>3 DEF Picks
  <2> QED
    BY <1>15, <2>3, <2>6, <2>7 DEF UserLast
<1>16. ASSUME UserLast(msgs), n < Cardinality(S)
       PROVE  UserLast(w)
  <2>1. /\ DOMAIN msgs = 1 .. Len(msgs) /\ Len(msgs) \in Nat
        /\ Len(msgs) \in S
    BY <1>2, <1>16, Indices DEF UserLast, S, NonSystem
  <2>2. {j \in S : j <= Len(msgs)} = S
    BY <1>6, <2>1
  <2>3. Place(S, Len(msgs)) = Cardinality(S)
    BY <2>2 DEF Place
  <2>4. Len(msgs) \notin dropped
    BY <1>6, <1>16, <2>3 DEF dropped
  <2> QED
    BY <1>15, <1>16, <2>4
<1>17. ASSUME Tame(msgs)
       PROVE  Tame(w)
  <2>1. CASE UserLast(msgs) /\ Len(msgs) \notin dropped
    BY <1>15, <2>1 DEF Tame
  <2>2. CASE S \ dropped = {}
    <3>1. Cardinality(NonSystem(w)) = 0
      BY <1>10, <1>13, <2>2, FS_EmptySet
    <3> QED
      BY <1>13, <3>1, SizeOf, FS_EmptySet DEF Tame
  <2>3. CASE Len(msgs) \in dropped
    <3>1. DOMAIN msgs = 1 .. Len(msgs) /\ Len(msgs) \in Nat
      BY <1>2, Indices
    <3>2. \A j \in S : j \in Nat /\ (j < Len(msgs) \/ j = Len(msgs))
      BY <1>6, <3>1
    <3>3. \A j \in S : j \in dropped
      BY <1>8, <2>3, <3>2 DEF Oldest, S
    <3> QED
      BY <2>2, <3>3
  <2>4. CASE S = {}
    BY <2>2, <2>4
  <2> QED
    BY <1>17, <2>1, <2>3, <2>4 DEF Tame, S
<1>18. Thinned(msgs, w)
  BY <1>11, <1>12, <1>13, <1>14, <1>17 DEF Thinned, S
<1> QED
  BY <1>14, <1>16, <1>18 DEF w, S

(* As many are dropped as are too many, or as few tokens ask for. *)
LEMMA PruneThins ==
  ASSUME NEW msgs \in Messages
  PROVE  /\ Thinned(msgs, Prune[msgs]) /\ Bounded(Prune[msgs])
         /\ MaxTokens = 0 /\ UserLast(msgs) => UserLast(Prune[msgs])
<1> DEFINE size == Cardinality(NonSystem(msgs))
           p == PruneByHistory(msgs)
<1>1. size \in Nat /\ MaxHistory \in Nat /\ MaxTokens \in Nat
  BY SizeOf, LLMAssumption
<1>2. Thinned(msgs, p) /\ Bounded(p) /\ (UserLast(msgs) => UserLast(p))
  <2>1. CASE MaxHistory = 0 \/ size <= MaxHistory
    <3>1. p = msgs /\ Bounded(msgs)
      BY <1>1, <2>1 DEF PruneByHistory, Bounded
    <3> QED
      BY <3>1, ThinnedSelf
  <2>2. CASE ~ (MaxHistory = 0 \/ size <= MaxHistory)
    <3>1. p = DropFirst(msgs, size - MaxHistory)
      BY <2>2 DEF PruneByHistory
    <3>2. PICK n \in 0 .. size : n = size - MaxHistory /\ n < size
      BY <1>1, <2>2
    <3>3. p = DropFirst(msgs, n)
      BY <3>1, <3>2
    <3> HIDE DEF p
    <3>4. /\ Thinned(msgs, p) /\ Cardinality(NonSystem(p)) <= size - n
          /\ UserLast(msgs) => UserLast(p)
      BY <3>2, <3>3, DropFirstThins
    <3>5. size - n = MaxHistory
      BY <1>1, <3>2
    <3> QED
      BY <3>4, <3>5 DEF Bounded
  <2> QED
    BY <2>1, <2>2
<1> HIDE DEF p
<1>3. p \in Messages
  BY <1>2 DEF Thinned
<1>4. CASE MaxTokens = 0
  BY <1>2, <1>4 DEF Prune, PruneByTokens, p
<1>5. CASE MaxTokens # 0
  <2> DEFINE last == Cardinality(NonSystem(p))
             fits == {n \in 0 .. last : Tokens(DropFirst(p, n)) <= MaxTokens \/ n = last}
  <2>1. last \in Nat
    BY <1>3, SizeOf
  <2>2. last \in fits /\ fits \in SUBSET (0 .. last) /\ fits \in SUBSET Nat
    BY <2>1
  <2> HIDE DEF fits
  <2>3. IsFiniteSet(fits)
    <3>1. PICK r : r = 0 .. last
      OBVIOUS
    <3>2. IsFiniteSet(r)
      BY <2>1, <3>1, FS_Interval
    <3>3. fits \in SUBSET r
      BY <2>2, <3>1
    <3> QED
      BY <3>2, <3>3, FS_Subset
  <2>4. \E n \in fits : \A m \in fits : n <= m
    BY <2>2, <2>3, LeastOf
  <2>5. PICK n \in fits : n = CHOOSE l \in fits : \A m \in fits : l <= m
    BY <2>4
  <2>6. Prune[msgs] = DropFirst(p, n)
    <3>1. Prune[msgs] = PruneByTokens(p)
      BY DEF Prune, p
    <3>2. PruneByTokens(p) = DropFirst(p, CHOOSE l \in fits : \A m \in fits : l <= m)
      BY <1>5, Zenon DEF PruneByTokens, fits
    <3> QED
      BY <2>5, <3>1, <3>2
  <2>7. n \in 0 .. last
    BY <2>2
  <2>8. PICK w : w = DropFirst(p, n)
    OBVIOUS
  <2>9. Thinned(p, w)
    BY <1>3, <2>7, <2>8, DropFirstThins
  <2>10. Thinned(msgs, w)
    BY <1>2, <2>9, ThinnedAgain
  <2>11. Bounded(w)
    <3>1. Cardinality(NonSystem(w)) <= last /\ Cardinality(NonSystem(w)) \in Nat
      BY <2>9, SizeOf DEF Thinned
    <3> QED
      BY <1>1, <1>2, <2>1, <3>1 DEF Bounded
  <2> QED
    BY <1>5, <2>6, <2>8, <2>10, <2>11
<1> QED
  BY <1>4, <1>5
-----------------------------------------------------------------------------
(* What is added: no call without its result, no result without its call.   *)
Whole(more) ==
  \A n \in DOMAIN more :
    /\ more[n].role = "call" =>
         n < Len(more) /\ more[n + 1].role = "tool" /\ more[n + 1].of = more[n].of
    /\ more[n].role = "tool" =>
         n # 1 /\ more[n - 1].role = "call" /\ more[n - 1].of = more[n].of

Grown(msgs, w, more) ==
  /\ w \in Messages /\ Len(w) = Len(msgs) + Len(more)
  /\ \A i \in DOMAIN msgs : w[i] = msgs[i]
  /\ \A n \in DOMAIN more : w[Len(msgs) + n] = more[n]

LEMMA MessagesAre ==
  ASSUME NEW msgs \in Messages
  PROVE  Len(msgs) \in Nat /\ DOMAIN msgs = 1 .. Len(msgs)
BY LenProperties DEF Messages

LEMMA ConcatGrows ==
  ASSUME NEW msgs \in Messages, NEW more \in Messages
  PROVE  Grown(msgs, msgs \o more, more)
BY MessagesAre, ConcatProperties DEF Grown, Messages

LEMMA AppendGrows ==
  ASSUME NEW msgs \in Messages, NEW m, <<m>> \in Messages
  PROVE  Grown(msgs, Append(msgs, m), <<m>>)
<1>1. PICK M : M = [role : {"system", "user", "assistant", "call", "tool"},
                    of : {"prompt", "note", "failure", "text"} \cup Agents \cup Calls, words : Nat]
  OBVIOUS
<1>2. msgs \in Seq(M) /\ Messages = Seq(M) /\ <<m>> \in Seq(M)
  BY <1>1 DEF Messages
<1>3. m \in M /\ Len(<<m>>) = 1 /\ DOMAIN <<m>> = {1} /\ <<m>>[1] = m
  <2>1. Len(<<m>>) = 1 /\ <<m>>[1] = m /\ DOMAIN <<m>> = 1 .. 1
    OBVIOUS
  <2>2. 1 \in 1 .. Len(<<m>>)
    BY <2>1
  <2>3. <<m>>[1] \in M
    BY <1>2, <2>2, ElementOfSeq
  <2> QED
    BY <2>1, <2>3
<1>4. /\ Append(msgs, m) \in Seq(M) /\ Len(Append(msgs, m)) = Len(msgs) + 1
      /\ \A i \in 1 .. Len(msgs) : Append(msgs, m)[i] = msgs[i]
      /\ Append(msgs, m)[Len(msgs) + 1] = m
  BY <1>2, <1>3, AppendProperties
<1> QED
  BY <1>2, <1>3, <1>4, MessagesAre DEF Grown

LEMMA GrownPaired ==
  ASSUME NEW msgs \in Messages, NEW w, NEW more \in Messages,
         Grown(msgs, w, more), Paired(msgs), Whole(more)
  PROVE  Paired(w)
<1>1. /\ DOMAIN w = 1 .. Len(w) /\ Len(w) \in Nat
      /\ DOMAIN msgs = 1 .. Len(msgs) /\ Len(msgs) \in Nat
      /\ DOMAIN more = 1 .. Len(more) /\ Len(more) \in Nat
      /\ Len(w) = Len(msgs) + Len(more)
  BY MessagesAre DEF Grown
<1> SUFFICES ASSUME NEW i \in DOMAIN w
             PROVE  /\ w[i].role = "call" =>
                         i < Len(w) /\ w[i + 1].role = "tool" /\ w[i + 1].of = w[i].of
                    /\ w[i].role = "tool" =>
                         \/ \A j \in NonSystem(w) : i <= j
                         \/ w[i - 1].role = "call" /\ w[i - 1].of = w[i].of
  BY DEF Paired
<1>2. CASE i \in DOMAIN msgs
  <2>1. w[i] = msgs[i]
    BY <1>2 DEF Grown
  <2>2. ASSUME w[i].role = "call"
        PROVE  i < Len(w) /\ w[i + 1].role = "tool" /\ w[i + 1].of = w[i].of
    <3>1. i < Len(msgs) /\ msgs[i + 1].role = "tool" /\ msgs[i + 1].of = msgs[i].of
      BY <1>2, <2>1, <2>2 DEF Paired
    <3>2. i + 1 \in DOMAIN msgs
      BY <1>1, <1>2, <3>1
    <3>3. w[i + 1] = msgs[i + 1]
      BY <3>2 DEF Grown
    <3> QED
      BY <1>1, <1>2, <2>1, <3>1, <3>3
  <2>3. ASSUME w[i].role = "tool"
        PROVE  \/ \A j \in NonSystem(w) : i <= j
               \/ w[i - 1].role = "call" /\ w[i - 1].of = w[i].of
    <3>1. \/ \A j \in NonSystem(msgs) : i <= j
          \/ msgs[i - 1].role = "call" /\ msgs[i - 1].of = msgs[i].of
      BY <1>2, <2>1, <2>3 DEF Paired
    <3>2. CASE \A j \in NonSystem(msgs) : i <= j
      <4>1. ASSUME NEW j \in NonSystem(w)
            PROVE  i <= j
        <5>1. j \in DOMAIN w /\ w[j].role # "system"
          BY DEF NonSystem
        <5>2. CASE j \in DOMAIN msgs
          BY <3>2, <5>1, <5>2 DEF NonSystem, Grown
        <5>3. CASE j \notin DOMAIN msgs
          BY <1>1, <1>2, <5>1, <5>3
        <5> QED
          BY <5>2, <5>3
      <4> QED
        BY <4>1
    <3>3. CASE i = 1
      BY <1>1, <3>3 DEF NonSystem
    <3>4. CASE i # 1 /\ msgs[i - 1].role = "call" /\ msgs[i - 1].of = msgs[i].of
      <4>1. i - 1 \in DOMAIN msgs
        BY <1>1, <1>2, <3>4
      <4>2. w[i - 1] = msgs[i - 1]
        BY <4>1 DEF Grown
      <4> QED
        BY <2>1, <3>4, <4>2
    <3> QED
      BY <3>1, <3>2, <3>3, <3>4
  <2> QED
    BY <2>2, <2>3
<1>3. CASE i \notin DOMAIN msgs
  <2>1. PICK n \in DOMAIN more : i = Len(msgs) + n
    <3>1. i - Len(msgs) \in DOMAIN more /\ i = Len(msgs) + (i - Len(msgs))
      BY <1>1, <1>3
    <3> QED
      BY <3>1
  <2>2. w[i] = more[n]
    BY <2>1 DEF Grown
  <2>3. ASSUME w[i].role = "call"
        PROVE  i < Len(w) /\ w[i + 1].role = "tool" /\ w[i + 1].of = w[i].of
    <3>1. n < Len(more) /\ more[n + 1].role = "tool" /\ more[n + 1].of = more[n].of
      BY <2>2, <2>3 DEF Whole
    <3>2. PICK l \in DOMAIN more : l = n + 1
      BY <1>1, <3>1
    <3>3. w[Len(msgs) + l] = more[l]
      BY DEF Grown
    <3>4. Len(msgs) + l = i + 1 /\ i < Len(w)
      BY <1>1, <2>1, <3>1, <3>2
    <3> QED
      BY <2>2, <3>1, <3>2, <3>3, <3>4
  <2>4. ASSUME w[i].role = "tool"
        PROVE  w[i - 1].role = "call" /\ w[i - 1].of = w[i].of
    <3>1. n # 1 /\ more[n - 1].role = "call" /\ more[n - 1].of = more[n].of
      BY <2>2, <2>4 DEF Whole
    <3>2. PICK l \in DOMAIN more : l = n - 1
      BY <1>1, <3>1
    <3>3. w[Len(msgs) + l] = more[l]
      BY DEF Grown
    <3>4. Len(msgs) + l = i - 1
      BY <1>1, <2>1, <3>2
    <3> QED
      BY <2>2, <3>1, <3>2, <3>3, <3>4
  <2> QED
    BY <2>3, <2>4
<1> QED
  BY <1>2, <1>3

LEMMA GrownKeeps ==
  ASSUME NEW msgs \in Messages, NEW w, NEW more \in Messages, Grown(msgs, w, more)
  PROVE  KeepsSystems(msgs, w)
<1>1. /\ DOMAIN w = 1 .. Len(w) /\ Len(w) \in Nat
      /\ DOMAIN msgs = 1 .. Len(msgs) /\ Len(msgs) \in Nat
      /\ DOMAIN more = 1 .. Len(more) /\ Len(more) \in Nat
      /\ Len(w) = Len(msgs) + Len(more)
  BY MessagesAre DEF Grown
<1> SUFFICES ASSUME NEW i \in Systems(msgs)
             PROVE  i \in Systems(w) /\ w[i] = msgs[i]
                    /\ Place(Systems(w), i) = Place(Systems(msgs), i)
  BY DEF KeepsSystems
<1>2. i \in DOMAIN msgs
  BY DEF Systems
<1>3. \A j \in DOMAIN msgs : j \in DOMAIN w /\ w[j] = msgs[j]
  BY <1>1 DEF Grown
<1>4. \A j \in DOMAIN msgs : j \in Systems(w) <=> j \in Systems(msgs)
  BY <1>3 DEF Systems, NonSystem
<1>5. \A j \in DOMAIN w : j <= i => j \in DOMAIN msgs
  BY <1>1, <1>2
<1>6. \A j : j \in Systems(w) /\ j <= i <=> j \in Systems(msgs) /\ j <= i
  <2>1. \A j \in Systems(w) : j \in DOMAIN w
    BY DEF Systems
  <2>2. \A j \in Systems(msgs) : j \in DOMAIN msgs
    BY DEF Systems
  <2> QED
    BY <1>4, <1>5, <2>1, <2>2
<1>7. {j \in Systems(w) : j <= i} = {j \in Systems(msgs) : j <= i}
  BY <1>6
<1> QED
  BY <1>2, <1>3, <1>4, <1>7 DEF Place

-----------------------------------------------------------------------------
(* What the processor keeps of a scope.                                      *)

Good(msgs) == msgs \in Messages /\ Paired(msgs) /\ Bounded(msgs)

Held(m) == m = NoHistory \/ Good(m)

Known(m) == IF m = NoHistory THEN <<>> ELSE m

Follows(m, w) == Good(w) /\ KeepsSystems(Known(m), w)

LEMMA NothingIsLost == \A w : KeepsSystems(<<>>, w)
<1>1. Systems(<<>>) = {}
  BY DEF Systems
<1> QED
  BY <1>1 DEF KeepsSystems

LEMMA FollowsAgain ==
  ASSUME NEW m, NEW w, NEW x, Follows(m, w), Follows(w, x)
  PROVE  Follows(m, x)
<1>1. Known(w) = w
  BY LLMAssumption DEF Known, Follows, Good
<1> QED
  BY <1>1, KeepsSystemsAgain DEF Follows

(* The messages that are added. *)
LEMMA AddedMessages ==
  /\ <<Prompt>> \in Messages /\ Whole(<<Prompt>>)
  /\ <<Note>> \in Messages /\ Whole(<<Note>>)
  /\ <<Failure>> \in Messages /\ Whole(<<Failure>>)
  /\ <<User>> \in Messages /\ Whole(<<User>>)
  /\ <<Assistant>> \in Messages /\ Whole(<<Assistant>>)
  /\ \A a \in Agents : <<AgentPrompt(a)>> \in Messages /\ Whole(<<AgentPrompt(a)>>)
  /\ \A c \in Calls : Answered(c) \in Messages /\ Whole(Answered(c))
<1>1. PICK M : M = [role : {"system", "user", "assistant", "call", "tool"},
                    of : {"prompt", "note", "failure", "text"} \cup Agents \cup Calls, words : Nat]
  OBVIOUS
<1>2. ASSUME NEW m \in M, m.role \notin {"call", "tool"}
      PROVE  <<m>> \in Messages /\ Whole(<<m>>)
  <2>1. <<m>> \in Seq(M) /\ \A n \in DOMAIN <<m>> : <<m>>[n] = m
    OBVIOUS
  <2> QED
    BY <1>1, <1>2, <2>1 DEF Messages, Whole
<1>3. /\ Prompt \in M /\ Note \in M /\ Failure \in M /\ User \in M /\ Assistant \in M
      /\ \A a \in Agents : AgentPrompt(a) \in M
      /\ \A c \in Calls : Message("call", c, 0) \in M /\ Message("tool", c, ToolWords) \in M
  BY <1>1, LLMAssumption
  DEF Message, Prompt, Note, Failure, User, Assistant, AgentPrompt
<1>4. /\ Prompt.role = "system" /\ Note.role = "system" /\ Failure.role = "system"
      /\ User.role = "user" /\ Assistant.role = "assistant"
      /\ \A a \in Agents : AgentPrompt(a).role = "system"
  BY DEF Message, Prompt, Note, Failure, User, Assistant, AgentPrompt
<1>5. ASSUME NEW c \in Calls
      PROVE  Answered(c) \in Messages /\ Whole(Answered(c))
  <2>1. PICK m \in M : m = Message("call", c, 0)
    BY <1>3
  <2>2. PICK t \in M : t = Message("tool", c, ToolWords)
    BY <1>3
  <2>3. m.role = "call" /\ t.role = "tool" /\ m.of = c /\ t.of = c
    BY <2>1, <2>2 DEF Message
  <2>4. Answered(c) = <<m, t>>
    BY <2>1, <2>2 DEF Answered
  <2>5. /\ <<m, t>> \in Seq(M) /\ Len(<<m, t>>) = 2 /\ DOMAIN <<m, t>> = 1 .. 2
        /\ <<m, t>>[1] = m /\ <<m, t>>[2] = t
    OBVIOUS
  <2>6. Whole(<<m, t>>)
    <3>1. \A n \in 1 .. 2 : n = 1 \/ n = 2
      OBVIOUS
    <3> QED
      BY <2>3, <2>5, <3>1 DEF Whole
  <2> QED
    BY <1>1, <2>4, <2>5, <2>6 DEF Messages
<1> QED
  BY <1>2, <1>3, <1>4, <1>5

LEMMA EnsuredIs ==
  ASSUME NEW m, Held(m)
  PROVE  Ensured(m) \in Messages /\ Paired(Ensured(m)) /\ KeepsSystems(Known(m), Ensured(m))
<1>1. CASE m # NoHistory
  <2>1. Ensured(m) = m /\ Known(m) = m /\ Good(m)
    BY <1>1 DEF Ensured, Known, Held
  <2> QED
    BY <2>1, ThinnedSelf DEF Good, Thinned
<1>2. CASE m = NoHistory
  <2>1. Known(m) = <<>> /\ KeepsSystems(<<>>, Ensured(m))
    BY <1>2, NothingIsLost DEF Known
  <2>2. Ensured(m) = <<Prompt>> \/ Ensured(m) = <<>>
    BY <1>2 DEF Ensured
  <2>3. <<Prompt>> \in Messages /\ Paired(<<Prompt>>)
    <3>1. \A n \in DOMAIN <<Prompt>> : <<Prompt>>[n].role = "system"
      BY DEF Prompt, Message
    <3> QED
      BY <3>1, AddedMessages DEF Paired
  <2>4. <<>> \in Messages /\ Paired(<<>>)
    BY DEF Messages, Paired
  <2> QED
    BY <2>1, <2>2, <2>3, <2>4
<1> QED
  BY <1>1, <1>2

LEMMA AppendedFollows ==
  ASSUME NEW m, Held(m), NEW more \in Messages, Whole(more)
  PROVE  Follows(m, Appended(m, more))
<1>1. PICK e : e = Ensured(m)
  OBVIOUS
<1>2. e \in Messages /\ Paired(e) /\ KeepsSystems(Known(m), e)
  BY <1>1, EnsuredIs
<1>3. PICK w : w = e \o more
  OBVIOUS
<1>4. Grown(e, w, more) /\ w \in Messages
  BY <1>2, <1>3, ConcatGrows DEF Grown
<1>5. Paired(w) /\ KeepsSystems(e, w)
  BY <1>2, <1>4, GrownPaired, GrownKeeps
<1>6. PICK p : p = Prune[w]
  OBVIOUS
<1>7. Thinned(w, p) /\ Bounded(p)
  BY <1>4, <1>6, PruneThins
<1>8. Good(p) /\ KeepsSystems(w, p)
  BY <1>5, <1>7 DEF Good, Thinned
<1>9. KeepsSystems(e, p)
  BY <1>5, <1>8, KeepsSystemsAgain
<1>10. KeepsSystems(Known(m), p)
  BY <1>2, <1>9, KeepsSystemsAgain
<1>11. p = Appended(m, more)
  BY <1>1, <1>3, <1>6 DEF Appended
<1> QED
  BY <1>8, <1>10, <1>11 DEF Follows

LEMMA AskedFollows ==
  ASSUME NEW sc, NEW s, NEW meta, Held(messages[sc]), Agent(s, meta) \in Agents \cup {NoAgent}
  PROVE  /\ Follows(messages[sc], Asked(sc, s, meta))
         /\ Tame(Asked(sc, s, meta))
         /\ MaxTokens = 0 => UserLast(Asked(sc, s, meta))
<1>1. PICK a \in Agents \cup {NoAgent} : a = Agent(s, meta)
  OBVIOUS
<1>2. PICK m : m = messages[sc]
  OBVIOUS
<1>3. PICK e : e = Ensured(m)
  OBVIOUS
<1>4. e \in Messages /\ Paired(e) /\ KeepsSystems(Known(m), e)
  BY <1>2, <1>3, EnsuredIs
<1>5. PICK i : i = Introduced(sc, a)
  OBVIOUS
<1>6. i \in Messages /\ Paired(i) /\ KeepsSystems(e, i)
  <2>1. CASE i = e
    BY <1>4, <2>1, ThinnedSelf DEF Thinned
  <2>2. CASE a \in Agents /\ i = Append(e, AgentPrompt(a))
    <3>1. PICK p : p = AgentPrompt(a)
      OBVIOUS
    <3>2. <<p>> \in Messages /\ Whole(<<p>>)
      BY <2>2, <3>1, AddedMessages
    <3>3. Grown(e, i, <<p>>) /\ i \in Messages
      BY <1>4, <2>2, <3>1, <3>2, AppendGrows DEF Grown
    <3> QED
      BY <1>4, <3>2, <3>3, GrownPaired, GrownKeeps
  <2>3. i = e \/ (a \in Agents /\ i = Append(e, AgentPrompt(a)))
    <3>1. e = Ensured(messages[sc])
      BY <1>2, <1>3
    <3>2. CASE a \notin WithSystem \/ lastInjected[sc] = a
      BY <1>5, <3>1, <3>2 DEF Introduced
    <3>3. CASE ~ (a \notin WithSystem \/ lastInjected[sc] = a)
      BY <1>5, <3>1, <3>3, LLMAssumption DEF Introduced
    <3> QED
      BY <3>2, <3>3
  <2> QED
    BY <2>1, <2>2, <2>3
<1>7. PICK u : u = User
  OBVIOUS
<1>8. <<u>> \in Messages /\ Whole(<<u>>) /\ u.role = "user"
  BY <1>7, AddedMessages DEF User, Message
<1>9. PICK w : w = Append(i, u)
  OBVIOUS
<1>10. Grown(i, w, <<u>>) /\ w \in Messages
  BY <1>6, <1>8, <1>9, AppendGrows DEF Grown
<1>11. Paired(w) /\ KeepsSystems(i, w)
  BY <1>6, <1>8, <1>10, GrownPaired, GrownKeeps
<1>12. UserLast(w)
  <2>1. Len(<<u>>) = 1 /\ 1 \in DOMAIN <<u>> /\ <<u>>[1] = u
    OBVIOUS
  <2>2. Len(w) = Len(i) + 1 /\ w[Len(i) + 1] = u
    BY <1>10, <2>1 DEF Grown
  <2>3. Len(w) \in DOMAIN w
    BY <1>6, <1>10, <2>2, MessagesAre
  <2> QED
    BY <1>8, <2>2, <2>3 DEF UserLast
<1>13. PICK p : p = Prune[w]
  OBVIOUS
<1>14. Thinned(w, p) /\ Bounded(p) /\ (MaxTokens = 0 => UserLast(p))
  BY <1>10, <1>12, <1>13, PruneThins
<1>15. Good(p) /\ KeepsSystems(w, p) /\ Tame(p)
  BY <1>11, <1>12, <1>14 DEF Good, Thinned, Tame
<1>16. KeepsSystems(i, p)
  BY <1>11, <1>15, KeepsSystemsAgain
<1>17. KeepsSystems(e, p)
  BY <1>6, <1>16, KeepsSystemsAgain
<1>18. KeepsSystems(Known(m), p)
  BY <1>4, <1>17, KeepsSystemsAgain
<1>19. p = Asked(sc, s, meta)
  BY <1>1, <1>5, <1>7, <1>9, <1>13 DEF Asked
<1> QED
  BY <1>2, <1>14, <1>15, <1>18, <1>19 DEF Follows

(* A rollback takes a user's message, or a system's when no other is left.  *)
LEMMA RollbackIs ==
  ASSUME NEW w, Good(w), Tame(w)
  PROVE  Good(Rollback(w)) /\ (UserLast(w) => KeepsSystems(w, Rollback(w)))
<1>1. PICK f : f = Rollback(w)
  OBVIOUS
<1>2. CASE w = <<>>
  BY <1>1, <1>2, NothingIsLost DEF Rollback
<1>3. CASE w # <<>>
  <2>1. w \in Messages /\ DOMAIN w = 1 .. Len(w) /\ Len(w) \in Nat
    BY MessagesAre DEF Good
  <2>2. Len(w) # 0
    BY <1>3, <2>1, EmptySeq DEF Messages
  <2>3. f = SubSeq(w, 1, Len(w) - 1)
    BY <1>1, <1>3 DEF Rollback, Front
  <2>4. /\ f \in Messages /\ Len(f) = Len(w) - 1 /\ DOMAIN f = 1 .. Len(w) - 1
        /\ \A i \in DOMAIN f : i \in DOMAIN w /\ f[i] = w[i]
    <3>1. Len(w) - 1 \in Nat /\ Len(w) - 1 <= Len(w) /\ \A i \in 1 .. Len(w) - 1 : i \in 1 .. Len(w)
      BY <2>1, <2>2
    <3>2. PICK n \in Nat : n = Len(w) - 1
      BY <3>1
    <3>3. f = SubSeq(w, 1, n) /\ n <= Len(w)
      BY <2>3, <3>1, <3>2
    <3>4. f \in Messages /\ Len(f) = n /\ \A i \in 1 .. n : f[i] = w[i]
      <4>1. PICK M : M = [role : {"system", "user", "assistant", "call", "tool"},
                          of : {"prompt", "note", "failure", "text"} \cup Agents \cup Calls,
                          words : Nat]
        OBVIOUS
      <4>2. w \in Seq(M) /\ Messages = Seq(M)
        BY <2>1, <4>1 DEF Messages
      <4>3. \A i \in 1 .. n : w[i] \in M
        BY <2>1, <3>1, <3>2, <4>2, ElementOfSeq
      <4>4. /\ f \in Seq(M) /\ Len(f) = IF 1 <= n THEN n - 1 + 1 ELSE 0
            /\ \A i \in 1 .. n - 1 + 1 : f[i] = w[1 + i - 1]
        BY <3>3, <4>3, SubSeqProperties
      <4>5. n - 1 + 1 = n /\ \A i \in 1 .. n : 1 + i - 1 = i
        OBVIOUS
      <4> QED
        BY <4>2, <4>4, <4>5
    <3> QED
      BY <2>1, <3>1, <3>2, <3>4, MessagesAre
  <2>5. NonSystem(f) \in SUBSET NonSystem(w)
    BY <2>4 DEF NonSystem
  <2>6. Bounded(f)
    <3>1. IsFiniteSet(NonSystem(w)) /\ Cardinality(NonSystem(w)) \in Nat
      BY <2>1, SizeOf
    <3>2. Cardinality(NonSystem(f)) \in Nat
      BY <2>4, SizeOf
    <3>3. Cardinality(NonSystem(f)) <= Cardinality(NonSystem(w))
      BY <2>5, <3>1, FS_Subset
    <3> QED
      BY <3>1, <3>2, <3>3, LLMAssumption DEF Bounded, Good
  <2>7. Paired(f)
    <3> SUFFICES ASSUME NEW i \in DOMAIN f
                 PROVE  /\ f[i].role = "call" =>
                             i < Len(f) /\ f[i + 1].role = "tool" /\ f[i + 1].of = f[i].of
                        /\ f[i].role = "tool" =>
                             \/ \A j \in NonSystem(f) : i <= j
                             \/ f[i - 1].role = "call" /\ f[i - 1].of = f[i].of
      BY DEF Paired
    <3>1. i \in DOMAIN w /\ f[i] = w[i] /\ Paired(w)
      BY <2>4 DEF Good
    <3>2. ASSUME f[i].role = "call"
          PROVE  i < Len(f) /\ f[i + 1].role = "tool" /\ f[i + 1].of = f[i].of
      <4>1. i < Len(w) /\ w[i + 1].role = "tool" /\ w[i + 1].of = w[i].of
        BY <3>1, <3>2 DEF Paired
      <4>2. i \in NonSystem(w)
        BY <3>1, <3>2 DEF NonSystem
      <4>3. w[Len(w)].role = "user"
        BY <4>2 DEF Tame, UserLast
      <4>4. i + 1 # Len(w)
        BY <4>1, <4>3
      <4>5. i + 1 \in DOMAIN f /\ i < Len(f)
        BY <2>1, <2>4, <4>1, <4>4
      <4> QED
        BY <2>4, <3>1, <4>1, <4>5
    <3>3. ASSUME f[i].role = "tool"
          PROVE  \/ \A j \in NonSystem(f) : i <= j
                 \/ f[i - 1].role = "call" /\ f[i - 1].of = f[i].of
      <4>1. \/ \A j \in NonSystem(w) : i <= j
            \/ w[i - 1].role = "call" /\ w[i - 1].of = w[i].of
        BY <3>1, <3>3 DEF Paired
      <4>2. CASE i = 1
        BY <2>1, <2>4, <4>2 DEF NonSystem
      <4>3. CASE i # 1
        <5>1. i - 1 \in DOMAIN f
          BY <2>1, <2>4, <4>3
        <5>2. f[i - 1] = w[i - 1]
          BY <2>4, <5>1
        <5> QED
          BY <2>5, <3>1, <4>1, <5>2
      <4> QED
        BY <4>2, <4>3
    <3> QED
      BY <3>2, <3>3
  <2>8. ASSUME UserLast(w)
        PROVE  KeepsSystems(w, f)
    <3> SUFFICES ASSUME NEW i \in Systems(w)
                 PROVE  i \in Systems(f) /\ f[i] = w[i]
                        /\ Place(Systems(f), i) = Place(Systems(w), i)
      BY DEF KeepsSystems
    <3>1. \A j \in Systems(w) : j \in DOMAIN w /\ j # Len(w) /\ w[j].role = "system"
      BY <2>8 DEF Systems, NonSystem, UserLast
    <3>2. \A j \in Systems(w) : j \in DOMAIN f
      BY <2>1, <2>4, <3>1
    <3>3. Systems(f) = Systems(w)
      BY <2>4, <3>1, <3>2 DEF Systems, NonSystem
    <3> QED
      BY <2>4, <3>2, <3>3
  <2> QED
    BY <1>1, <2>4, <2>6, <2>7, <2>8 DEF Good
<1> QED
  BY <1>2, <1>3

-----------------------------------------------------------------------------
(* Steps, and what they do to every scope's history.                         *)

LLMInv ==
  /\ messages = [sc \in Scopes |-> messages[sc]]
  /\ \A sc \in Scopes : Held(messages[sc])
  /\ lastInjected \in [Scopes -> Agents \cup {NoAgent}]
  /\ activeAgent \in [Streams -> Agents \cup {NoAgent}]
  /\ pendingTools \subseteq Calls /\ consent \subseteq Calls
  /\ frames \in 0 .. MaxFrames

(* Without a limit of tokens, what a history is replaced by keeps the        *)
(* system's messages.                                                        *)
Changes(m, w) ==
  /\ Held(w)
  /\ MaxTokens = 0 /\ w # NoHistory => KeepsSystems(Known(m), w)

MemoryStep ==
  /\ messages' = [sc \in Scopes |-> messages'[sc]]
  /\ \A sc \in Scopes : Changes(messages[sc], messages'[sc])

LEMMA FollowsChanges ==
  ASSUME NEW m, NEW w, Follows(m, w)
  PROVE  Held(w) /\ Changes(m, w)
BY DEF Follows, Held, Changes

LEMMA CallEnds == \A m : Changes(m, NoHistory)
BY DEF Changes, Held

LEMMA SameChanges ==
  ASSUME NEW m, Held(m)
  PROVE  Changes(m, m)
<1>1. CASE m = NoHistory
  BY <1>1 DEF Changes
<1>2. CASE m # NoHistory
  <2>1. m \in Messages /\ Known(m) = m
    BY <1>2 DEF Held, Good, Known
  <2> QED
    BY <2>1, ThinnedSelf DEF Changes, Thinned
<1> QED
  BY <1>1, <1>2

LEMMA RememberStep ==
  ASSUME LLMInv, NEW sc \in Scopes, NEW w, Changes(messages[sc], w), Remember(sc, w)
  PROVE  MemoryStep
<1>1. messages' = [messages EXCEPT ![sc] = w]
  BY DEF Remember
<1>2. /\ messages'[sc] = w /\ messages' = [a \in Scopes |-> messages'[a]]
      /\ \A a \in Scopes : a # sc => messages'[a] = messages[a]
  BY <1>1 DEF LLMInv
<1>3. \A a \in Scopes : a # sc => Changes(messages[a], messages'[a])
  BY <1>2, SameChanges DEF LLMInv
<1> QED
  BY <1>2, <1>3 DEF MemoryStep

LEMMA SameMemory ==
  ASSUME LLMInv, messages' = messages
  PROVE  MemoryStep
BY SameChanges DEF LLMInv, MemoryStep

(* A step that changes histories in this way keeps the invariant, if the     *)
(* maps of agents and calls keep their types.                                *)
LEMMA LLMKept ==
  ASSUME MemoryStep, frames' \in 0 .. MaxFrames,
         lastInjected' \in [Scopes -> Agents \cup {NoAgent}],
         activeAgent' \in [Streams -> Agents \cup {NoAgent}],
         pendingTools' \subseteq Calls, consent' \subseteq Calls
  PROVE  LLMInv'
BY DEF MemoryStep, LLMInv, Changes

LEMMA FrameCounted ==
  ASSUME LLMInv, frames < MaxFrames, frames' = frames + 1
  PROVE  frames' \in 0 .. MaxFrames
BY LLMAssumption DEF LLMInv

LEMMA SystemFrameStep ==
  ASSUME FlowInv, LLMInv, SystemStep
  PROVE  MemoryStep /\ LLMInv'
<1>1. PICK s \in Streams, note \in BOOLEAN, name \in SystemNames :
        SystemFrame(ScopeOf(s), s, note, name)
  BY DEF SystemStep
<1>2. PICK sc \in Scopes : sc = ScopeOf(s)
  BY ConversationAssumption
<1>3. PICK m : m = messages[sc]
  OBVIOUS
<1>4. Held(m)
  BY <1>3 DEF LLMInv
<1>5. PICK noted : noted = IF note THEN Appended(m, <<Note>>) ELSE m
  OBVIOUS
<1>6. PICK w : w = CASE name = "call_end" -> NoHistory
                     [] name = "greeting" -> Appended(noted, <<Assistant>>)
                     [] OTHER -> noted
  OBVIOUS
<1>7. Remember(sc, w)
  BY <1>1, <1>2, <1>3, <1>5, <1>6 DEF SystemFrame
<1>8. ASSUME note
      PROVE  Changes(m, w)
  <2>1. noted = Appended(m, <<Note>>)
    BY <1>5, <1>8
  <2>2. Follows(m, noted)
    BY <1>4, <2>1, AddedMessages, AppendedFollows
  <2>3. Held(noted) /\ Changes(m, noted)
    BY <2>2, FollowsChanges
  <2>4. PICK x : x = Appended(noted, <<Assistant>>)
    OBVIOUS
  <2>5. Follows(noted, x)
    BY <2>3, <2>4, AddedMessages, AppendedFollows
  <2>6. Changes(m, x)
    BY <2>2, <2>5, FollowsAgain, FollowsChanges
  <2>7. w = NoHistory \/ w = x \/ w = noted
    BY <1>6, <2>4
  <2> QED
    BY <2>3, <2>6, <2>7, CallEnds
<1>9. ASSUME ~ note
      PROVE  Changes(m, w)
  <2>1. noted = m
    BY <1>5, <1>9
  <2>2. PICK x : x = Appended(m, <<Assistant>>)
    OBVIOUS
  <2>3. Changes(m, x)
    BY <1>4, <2>2, AddedMessages, AppendedFollows, FollowsChanges
  <2>4. w = NoHistory \/ w = x \/ w = m
    BY <1>6, <2>1, <2>2
  <2>5. Changes(m, m)
    BY <1>4, SameChanges
  <2> QED
    BY <2>3, <2>4, <2>5, CallEnds
<1>10. Changes(m, w)
  BY <1>8, <1>9
<1>11. MemoryStep
  BY <1>3, <1>7, <1>10, RememberStep
<1>12. frames' \in 0 .. MaxFrames
  BY <1>1, FrameCounted DEF SystemFrame
<1>13. /\ lastInjected' = lastInjected \/ lastInjected' = [lastInjected EXCEPT ![sc] = NoAgent]
       /\ activeAgent' = activeAgent \/ activeAgent' = [activeAgent EXCEPT ![s] = NoAgent]
       /\ pendingTools' = pendingTools /\ consent' = consent
  BY <1>1, <1>2 DEF SystemFrame
<1>14. /\ lastInjected' \in [Scopes -> Agents \cup {NoAgent}]
       /\ activeAgent' \in [Streams -> Agents \cup {NoAgent}]
       /\ pendingTools' \subseteq Calls /\ consent' \subseteq Calls
  BY <1>13 DEF LLMInv
<1> QED
  BY <1>11, <1>12, <1>14, LLMKept

LEMMA ReplyMemoryStep ==
  ASSUME FlowInv, LLMInv, ReplyStep
  PROVE  MemoryStep /\ LLMInv'
<1>1. PICK s \in Streams : Confirm(s) \/ Cancel(s) \/ AskAgain(s)
  BY DEF ReplyStep
<1>2. Reply(s) /\ UNCHANGED memory /\ UNCHANGED activeAgent
  BY <1>1 DEF Confirm, Cancel, AskAgain
<1>3. MemoryStep
  BY <1>2, SameMemory DEF memory
<1>4. frames' \in 0 .. MaxFrames
  BY <1>2, FrameCounted DEF Reply
<1>5. pendingConfirms[s] \in Calls /\ prompted[s] \in Calls
  <2>1. pendingConfirms[s] \in Calls \cup {NoCall} /\ pendingConfirms[s] # NoCall
    BY <1>2 DEF Reply, FlowInv, FlowTypeOK
  <2>2. prompted[s] = pendingConfirms[s]
    BY <2>1 DEF FlowInv, ConsentInv
  <2> QED
    BY <2>1, <2>2
<1>6. pendingTools' \subseteq Calls /\ consent' \subseteq Calls
  <2>1. CASE Confirm(s)
    <3>1. /\ consent' = consent \cup {prompted[s]}
          /\ pendingTools' = pendingTools \cup ToSet(<<pendingConfirms[s]>>)
      BY <2>1 DEF Confirm, EmitToolCalls
    <3>2. ToSet(<<pendingConfirms[s]>>) = {pendingConfirms[s]}
      BY DEF ToSet
    <3> QED
      BY <1>5, <3>1, <3>2 DEF LLMInv
  <2>2. CASE Cancel(s) \/ AskAgain(s)
    BY <2>2 DEF Cancel, AskAgain, LLMInv
  <2> QED
    BY <1>1, <2>1, <2>2
<1>7. /\ lastInjected' \in [Scopes -> Agents \cup {NoAgent}]
      /\ activeAgent' \in [Streams -> Agents \cup {NoAgent}]
  BY <1>2 DEF memory, LLMInv
<1> QED
  BY <1>3, <1>4, <1>6, <1>7, LLMKept

(* The agents that are resolved are agents. *)
LEMMA AgentResolved ==
  ASSUME LLMInv, NEW s \in Streams, NEW meta \in Agents \cup {NoAgent}, ResolveAgent(s, meta)
  PROVE  /\ Agent(s, meta) \in Agents \cup {NoAgent}
         /\ activeAgent' \in [Streams -> Agents \cup {NoAgent}]
<1>1. activeAgent[s] \in Agents \cup {NoAgent} /\ DefaultAgent \in Agents \cup {NoAgent}
  BY LLMAssumption DEF LLMInv
<1>2. PICK a : a = Agent(s, meta)
  OBVIOUS
<1>3. a = meta \/ a = activeAgent[s] \/ a = DefaultAgent
  BY <1>2 DEF Agent
<1>4. a \in Agents \cup {NoAgent}
  BY <1>1, <1>3
<1>5. activeAgent' = activeAgent \/ activeAgent' = [activeAgent EXCEPT ![s] = a]
  BY <1>2 DEF ResolveAgent
<1> QED
  BY <1>2, <1>4, <1>5 DEF LLMInv

LEMMA AskModelStep ==
  ASSUME LLMInv, NEW sc \in Scopes, NEW s \in Streams, NEW meta \in Agents \cup {NoAgent},
         AskModel(sc, s, meta)
  PROVE  /\ Agent(s, meta) \in Agents \cup {NoAgent}
         /\ activeAgent' \in [Streams -> Agents \cup {NoAgent}]
         /\ lastInjected' \in [Scopes -> Agents \cup {NoAgent}]
         /\ frames' \in 0 .. MaxFrames
<1>1. /\ Agent(s, meta) \in Agents \cup {NoAgent}
      /\ activeAgent' \in [Streams -> Agents \cup {NoAgent}]
  BY AgentResolved DEF AskModel
<1>2. frames' \in 0 .. MaxFrames
  BY FrameCounted DEF AskModel
<1>3. PICK a \in Agents \cup {NoAgent} : a = Agent(s, meta)
  BY <1>1
<1>4. lastInjected' = lastInjected \/ lastInjected' = [lastInjected EXCEPT ![sc] = a]
  BY <1>3 DEF AskModel
<1> QED
  BY <1>1, <1>2, <1>4 DEF LLMInv

LEMMA TextMemoryStep ==
  ASSUME FlowInv, LLMInv, TextStep
  PROVE  MemoryStep /\ LLMInv'
<1>1. PICK s \in Streams, meta \in AgentMetas :
        \/ GenerateFails(ScopeOf(s), s, meta)
        \/ \E speaks \in BOOLEAN : Answer(ScopeOf(s), s, meta, speaks)
        \/ \E calls \in BoundedSeq(Calls, MaxCalls) : CallTools(ScopeOf(s), s, meta, calls)
  BY DEF TextStep
<1>2. PICK sc \in Scopes : sc = ScopeOf(s)
  BY ConversationAssumption
<1>3. meta \in Agents \cup {NoAgent}
  BY ConversationAssumption
<1>4. AskModel(sc, s, meta)
  BY <1>1, <1>2 DEF GenerateFails, Answer, CallTools
<1>5. /\ Agent(s, meta) \in Agents \cup {NoAgent}
      /\ activeAgent' \in [Streams -> Agents \cup {NoAgent}]
      /\ lastInjected' \in [Scopes -> Agents \cup {NoAgent}]
      /\ frames' \in 0 .. MaxFrames
  BY <1>3, <1>4, AskModelStep
<1>6. PICK m : m = messages[sc]
  OBVIOUS
<1>7. PICK q : q = Asked(sc, s, meta)
  OBVIOUS
<1>8. Held(m) /\ Follows(m, q) /\ Tame(q) /\ (MaxTokens = 0 => UserLast(q))
  BY <1>5, <1>6, <1>7, AskedFollows DEF LLMInv
<1>9. Changes(m, q) /\ Held(q) /\ Good(q)
  BY <1>8, FollowsChanges DEF Follows
<1>10. MemoryStep
  <2>1. CASE GenerateFails(sc, s, meta)
    <3>1. PICK f : f = Rollback(q)
      OBVIOUS
    <3>2. Remember(sc, f)
      BY <1>7, <2>1, <3>1 DEF GenerateFails
    <3>3. Good(f) /\ (MaxTokens = 0 => KeepsSystems(q, f))
      BY <1>8, <1>9, <3>1, RollbackIs
    <3>4. MaxTokens = 0 => KeepsSystems(Known(m), f)
      BY <1>8, <3>3, KeepsSystemsAgain DEF Follows
    <3>5. Changes(m, f)
      BY <3>3, <3>4 DEF Changes, Held
    <3> QED
      BY <1>6, <3>2, <3>5, RememberStep
  <2>2. ASSUME NEW speaks \in BOOLEAN, Answer(sc, s, meta, speaks)
        PROVE  MemoryStep
    <3>1. PICK x : x = Appended(q, <<Assistant>>)
      OBVIOUS
    <3>2. Follows(q, x)
      BY <1>9, <3>1, AddedMessages, AppendedFollows
    <3>3. Changes(m, x)
      BY <1>8, <3>2, FollowsAgain, FollowsChanges
    <3>4. Remember(sc, x) \/ Remember(sc, q)
      BY <1>7, <2>2, <3>1 DEF Answer
    <3> QED
      BY <1>6, <1>9, <3>3, <3>4, RememberStep
  <2>3. CASE Remember(sc, q)
    BY <1>6, <1>9, <2>3, RememberStep
  <2> QED
    BY <1>1, <1>2, <1>7, <2>1, <2>2, <2>3 DEF CallTools
<1>11. pendingTools' \subseteq Calls /\ consent' \subseteq Calls
  <2>1. CASE UNCHANGED toolVars
    BY <2>1 DEF toolVars, LLMInv
  <2>2. ASSUME NEW calls \in BoundedSeq(Calls, MaxCalls), CallTools(sc, s, meta, calls)
        PROVE  pendingTools' \subseteq Calls /\ consent' \subseteq Calls
    <3>1. calls \in Seq(Calls)
      BY <2>2, SeqDef DEF BoundedSeq, SeqOf
    <3>2. ToSet(calls) \subseteq Calls
      BY <3>1, LenProperties DEF ToSet
    <3>3. pendingTools' = pendingTools \/ pendingTools' = pendingTools \cup ToSet(calls)
      BY <2>2 DEF CallTools, HandleToolCalls, EmitToolCalls
    <3>4. consent' = consent
      BY <2>2 DEF CallTools
    <3> QED
      BY <3>2, <3>3, <3>4 DEF LLMInv
  <2> QED
    BY <1>1, <1>2, <2>1, <2>2 DEF GenerateFails, Answer
<1> QED
  BY <1>5, <1>10, <1>11, LLMKept

LEMMA ResultMemoryStep ==
  ASSUME FlowInv, LLMInv, ResultStep
  PROVE  MemoryStep /\ LLMInv'
<1>1. PICK r \in Result : r = Head(in)
  <2>1. in \in Seq(Result) /\ in # <<>>
    BY DEF FlowInv, FlowTypeOK, DispatcherTypeOK, ResultStep
  <2> QED
    BY <2>1, HeadTailProperties
<1>2. r.id \in Calls /\ r.stream \in Streams
  BY DEF Result
<1>3. PICK sc \in Scopes : sc = ScopeOf(r.stream)
  BY <1>2, ConversationAssumption
<1>4. PICK speaks \in BOOLEAN : ApplyToolResult(r, sc, speaks)
  BY <1>1, <1>3 DEF ResultStep
<1>5. UNCHANGED <<lastInjected, consent, frames>>
  BY <1>4 DEF ApplyToolResult
<1>6. CASE r.status = "empty"
  <2>1. UNCHANGED <<messages, pendingTools, activeAgent>>
    BY <1>4, <1>6 DEF ApplyToolResult
  <2>2. MemoryStep
    BY <2>1, SameMemory
  <2> QED
    BY <1>5, <2>1, <2>2, LLMKept DEF LLMInv
<1>7. CASE r.status # "empty"
  <2>1. PICK m : m = messages[sc]
    OBVIOUS
  <2>2. Held(m)
    BY <2>1 DEF LLMInv
  <2>3. PICK n : n = IF r.status \in {"error", "timeout"} THEN Appended(m, <<Failure>>) ELSE m
    OBVIOUS
  <2>4. PICK told : told = Appended(n, Answered(r.id))
    OBVIOUS
  <2>5. PICK x : x = Appended(told, <<Assistant>>)
    OBVIOUS
  <2>6. Follows(m, told)
    <3>1. <<Failure>> \in Messages /\ Whole(<<Failure>>)
      BY AddedMessages
    <3>2. Answered(r.id) \in Messages /\ Whole(Answered(r.id))
      BY <1>2, AddedMessages
    <3>3. CASE n = m
      BY <2>2, <2>4, <3>2, <3>3, AppendedFollows
    <3>4. CASE n = Appended(m, <<Failure>>)
      <4>1. Follows(m, n)
        BY <2>2, <3>1, <3>4, AppendedFollows
      <4>2. Held(n)
        BY <4>1, FollowsChanges
      <4>3. Follows(n, told)
        BY <2>4, <3>2, <4>2, AppendedFollows
      <4> QED
        BY <4>1, <4>3, FollowsAgain
    <3> QED
      BY <2>3, <3>3, <3>4
  <2>7. Changes(m, told) /\ Held(told)
    BY <2>6, FollowsChanges
  <2>8. Follows(told, x)
    BY <2>5, <2>7, AddedMessages, AppendedFollows
  <2>9. Changes(m, x)
    BY <2>6, <2>8, FollowsAgain, FollowsChanges
  <2>10. /\ Remember(sc, x) \/ Remember(sc, told)
         /\ pendingTools' = pendingTools \ {r.id}
         /\ ResolveAgent(r.stream, NoAgent)
    BY <1>4, <1>7, <2>1, <2>3, <2>4, <2>5 DEF ApplyToolResult
  <2>11. MemoryStep
    BY <2>1, <2>7, <2>9, <2>10, RememberStep
  <2>12. activeAgent' \in [Streams -> Agents \cup {NoAgent}]
    BY <1>2, <2>10, AgentResolved
  <2> QED
    BY <1>5, <2>10, <2>11, <2>12, LLMKept DEF LLMInv
<1> QED
  BY <1>6, <1>7

LEMMA MemoryInit == Init => LLMInv
<1> SUFFICES ASSUME Init
             PROVE  LLMInv
  OBVIOUS
<1>1. \A sc \in Scopes : Held(messages[sc])
  BY DEF Init, LLMInit, Held
<1> QED
  BY <1>1, LLMAssumption DEF Init, LLMInit, LLMInv

LEMMA LLMNext ==
  ASSUME FlowInv, LLMInv, [Next]_vars
  PROVE  MemoryStep /\ LLMInv'
<1>1. CASE SystemStep
  BY <1>1, SystemFrameStep
<1>2. CASE ReplyStep
  BY <1>2, ReplyMemoryStep
<1>3. CASE TextStep
  BY <1>3, TextMemoryStep
<1>4. CASE ResultStep
  BY <1>4, ResultMemoryStep
<1>5. CASE UNCHANGED <<memory, activeAgent, pendingTools, consent, frames>>
  <2>1. MemoryStep
    BY <1>5, SameMemory DEF memory
  <2> QED
    BY <1>5, <2>1, LLMKept DEF memory, LLMInv
<1>6. CASE DispatchStep
  BY <1>5, <1>6 DEF DispatchStep
<1>7. CASE ToolStep
  BY <1>5, <1>7 DEF ToolStep, llmVars, toolVars
<1>8. CASE UNCHANGED vars
  BY <1>5, <1>8 DEF vars, llmVars, toolVars
<1> QED
  BY <1>1, <1>2, <1>3, <1>4, <1>6, <1>7, <1>8 DEF Next

LEMMA ConversationInvariant == Spec => [](FlowInv /\ LLMInv)
<1>1. FlowInv /\ LLMInv /\ [Next]_vars => FlowInv' /\ LLMInv'
  BY FlowNext, LLMNext
<1> QED
  BY <1>1, FlowInit, MemoryInit, PTL DEF Spec

LEMMA HistoryIsKnown == \A sc : History(sc) = Known(messages[sc])
BY DEF History, Known

-----------------------------------------------------------------------------
(* The maps of the processor, the histories in them and the dispatcher's     *)
(* fields have their types, for any agents, calls and limits.                *)
THEOREM ConversationTypeCorrect == Spec => []TypeOK
<1>1. ASSUME FlowInv, LLMInv
      PROVE  TypeOK
  <2>1. \A sc \in Scopes : messages[sc] # NoHistory => messages[sc] \in Messages
    BY <1>1 DEF LLMInv, Held, Good
  <2>2. LLMTypeOK
    BY <1>1, <2>1 DEF LLMTypeOK, LLMInv, FlowInv, FlowTypeOK
  <2> QED
    BY <1>1, <2>2 DEF TypeOK, FlowInv, FlowTypeOK
<1> QED
  BY <1>1, ConversationInvariant, PTL

(* Whatever is appended, rolled back or pruned, no more than max_history     *)
(* messages of users, assistants and tools are ever kept.                    *)
THEOREM HistoryIsBounded == Spec => []HistoryBounded
<1>1. ASSUME LLMInv
      PROVE  HistoryBounded
  <2>1. ASSUME NEW sc \in Scopes, MaxHistory > 0
        PROVE  Cardinality(NonSystem(History(sc))) <= MaxHistory
    <3>1. CASE messages[sc] = NoHistory
      <4>1. NonSystem(<<>>) = {}
        BY DEF NonSystem
      <4> QED
        <5>1. Cardinality(NonSystem(History(sc))) = 0
          BY <3>1, <4>1, FS_EmptySet DEF History
        <5> QED
          BY <5>1, LLMAssumption
    <3>2. CASE messages[sc] # NoHistory
      BY <1>1, <2>1, <3>2 DEF LLMInv, Held, Good, Bounded, History
    <3> QED
      BY <3>1, <3>2
  <2> QED
    BY <2>1 DEF HistoryBounded
<1> QED
  BY <1>1, ConversationInvariant, PTL

(* The model is never given a call without its result, nor a result without  *)
(* its call, except the oldest message: pruning takes the oldest first, and  *)
(* a rollback takes no message of a tool.                                    *)
THEOREM ToolMessagesStayPaired == Spec => []ToolMessagesPaired
<1>1. ASSUME LLMInv
      PROVE  ToolMessagesPaired
  <2>1. ASSUME NEW sc \in Scopes
        PROVE  Paired(History(sc))
    <3>1. CASE messages[sc] = NoHistory
      BY <3>1 DEF History, Paired
    <3>2. CASE messages[sc] # NoHistory
      BY <1>1, <3>2 DEF LLMInv, Held, Good, History
    <3> QED
      BY <3>1, <3>2
  <2> QED
    BY <2>1 DEF ToolMessagesPaired
<1> QED
  BY <1>1, ConversationInvariant, PTL

(* Without a limit of tokens, a rollback takes back no more than the user's  *)
(* message: until the call ends, the system's messages stay as they are.     *)
THEOREM SystemMessagesAreKept ==
  ASSUME MaxTokens = 0
  PROVE  Spec => SystemMessagesStay
<1>1. ASSUME FlowInv, LLMInv, [Next]_vars
      PROVE  [\A sc \in Scopes : messages'[sc] # NoHistory =>
                KeepsSystems(History(sc), messages'[sc])]_messages
  <2>1. \A sc \in Scopes : Changes(messages[sc], messages'[sc])
    BY <1>1, LLMNext DEF MemoryStep
  <2> QED
    BY <2>1, HistoryIsKnown DEF Changes
<1> QED
  BY <1>1, ConversationInvariant, PTL DEF Spec, SystemMessagesStay
=============================================================================
