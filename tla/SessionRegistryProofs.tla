----------------------- MODULE SessionRegistryProofs -----------------------
(***************************************************************************)
(* The registry's promises for any number of goroutines and calls.         *)
(***************************************************************************)
EXTENDS SessionRegistry, FiniteSetTheorems, TLAPS

(* Where each operation keeps its session, and when it is inside CloseAll. *)
LocalsInv ==
  \A w \in Workers :
    /\ worker[w].pc \in {"create", "store", "add", "discard", "stop", "subtract"} =>
         worker[w].call \in Calls
    /\ worker[w].pc \in {"store", "discard", "stop"} => worker[w].sess \in 1 .. created
    /\ worker[w].closing => worker[w].pc \in {"range", "stop", "subtract"}
    /\ worker[w].pc = "range" => worker[w].closing

(* A session is in one place: stored for one call, or held by one goroutine. *)
OnePlaceInv ==
  /\ \A c \in Calls : stored[c] # None => stored[c] \in published
  /\ \A c, d \in Calls : stored[c] = stored[d] /\ stored[c] # None => c = d
  /\ \A v, w \in Holding : worker[v].sess = worker[w].sess => v = w
  /\ \A w \in Holding, c \in Calls : worker[w].sess # stored[c]
  /\ \A w \in Workers : At(w, "store") => worker[w].sess \notin published
  /\ published \subseteq 1 .. created

(* What CloseAll has still to remove of the sessions it found, it will visit. *)
FoundInv ==
  \A w \in Workers :
    /\ found[w] \subseteq published
    /\ \A c \in Calls : stored[c] \in found[w] /\ stored[c] # None =>
         worker[w].closing /\ c \in worker[w].due

RegistryInv ==
  /\ RegistryTypeOK /\ LocalsInv /\ OnePlaceInv /\ FoundInv
  /\ EverySessionIsOwned /\ ReturnsTheSharedSession

LEMMA RegistryInitInv == RegistryInit => RegistryInv
<1> SUFFICES ASSUME RegistryInit
             PROVE  RegistryInv
  OBVIOUS
<1> USE RegistryAssumption, CallAssumption DEF RegistryInit
<1>1. RegistryTypeOK
  BY DEF RegistryTypeOK, WorkerState, Idle, Sessions, None
<1>2. Holding = {} /\ Stored = {}
  BY DEF Holding, Stored, At, Idle
<1>3. LocalsInv
  BY DEF LocalsInv, Idle
<1>4. OnePlaceInv /\ FoundInv /\ EverySessionIsOwned /\ ReturnsTheSharedSession
  BY <1>2 DEF OnePlaceInv, FoundInv, EverySessionIsOwned, ReturnsTheSharedSession,
              StoredSessions, At, Idle
<1> QED
  BY <1>1, <1>3, <1>4 DEF RegistryInv

-----------------------------------------------------------------------------
(* GetOrCreate keeps the invariant, step by step. *)
LEMMA LookupInv ==
  ASSUME RegistryInv, NEW w \in Workers, NEW c \in Calls, Lookup(w, c)
  PROVE  RegistryInv'
<1> USE DEF RegistryInv, At
<1>1. /\ UNCHANGED <<stored, count, created, live, published, found>>
      /\ got' = [got EXCEPT ![w] = stored[c]]
      /\ worker[w].pc = "idle"
  BY DEF Lookup
<1>2. /\ worker' \in [Workers -> WorkerState]
      /\ \A v \in Workers : v # w => worker'[v] = worker[v]
      /\ worker'[w].pc \in {"idle", "create"}
      /\ worker'[w].pc = "create" => worker'[w].call \in Calls
      /\ worker'[w].closing = FALSE
  BY DEF Lookup, Idle, RegistryTypeOK, WorkerState, None, LocalsInv
<1>3. stored' = stored /\ created' = created /\ live' = live /\ published' = published
      /\ found' = found /\ Holding' = Holding /\ StoredSessions' = StoredSessions
  BY <1>1, <1>2 DEF Holding, StoredSessions, Stored
<1>4. RegistryTypeOK'
  BY <1>1, <1>2 DEF RegistryTypeOK
<1>5. LocalsInv'
  BY <1>1, <1>2 DEF LocalsInv
<1>6. OnePlaceInv'
  BY <1>1, <1>2, <1>3 DEF OnePlaceInv, Holding
<1>7. FoundInv'
  BY <1>1, <1>2 DEF FoundInv, LocalsInv
<1>8. EverySessionIsOwned'
  BY <1>1, <1>2, <1>3 DEF EverySessionIsOwned, Holding
<1>9. ReturnsTheSharedSession'
  BY <1>1 DEF ReturnsTheSharedSession, OnePlaceInv, RegistryTypeOK
<1> QED
  BY <1>4, <1>5, <1>6, <1>7, <1>8, <1>9

(* What Return does to a goroutine that is not stopping at the moment. *)
LEMMA ReturnLocals ==
  ASSUME RegistryInv, NEW w \in Workers, Return(w)
  PROVE  /\ worker' \in [Workers -> WorkerState]
         /\ \A v \in Workers : v # w => worker'[v] = worker[v]
         /\ worker'[w].pc \in {"idle", "range"}
         /\ worker'[w].pc = "range" <=> worker[w].closing
         /\ worker'[w].closing = worker[w].closing
         /\ worker'[w].due = worker[w].due
         /\ Holding' = Holding \ {w}
         /\ Adding' = Adding \ {w}
         /\ Removing' = Removing \ {w}
<1>1. /\ worker' \in [Workers -> WorkerState]
      /\ \A v \in Workers : v # w => worker'[v] = worker[v]
      /\ worker'[w].pc \in {"idle", "range"}
      /\ worker'[w].pc = "range" <=> worker[w].closing
      /\ worker'[w].closing = worker[w].closing
      /\ worker'[w].due = worker[w].due
  <2> DEFINE r == [worker[w] EXCEPT !.pc = IF worker[w].closing THEN "range" ELSE "idle",
                                    !.call = NoCall, !.sess = None]
  <2>1. worker' = [worker EXCEPT ![w] = r] /\ worker \in [Workers -> WorkerState]
    BY DEF Return, RegistryInv, RegistryTypeOK
  <2>2. worker[w] \in WorkerState
    BY <2>1
  <2>3. /\ r \in WorkerState
        /\ r.pc = IF worker[w].closing THEN "range" ELSE "idle"
        /\ r.closing = worker[w].closing /\ r.due = worker[w].due
    BY <2>2 DEF WorkerState, None
  <2>4. worker'[w] = r /\ \A v \in Workers : v # w => worker'[v] = worker[v]
    BY <2>1
  <2>5. worker' \in [Workers -> WorkerState]
    BY <2>1, <2>3
  <2> HIDE DEF r
  <2> QED
    BY <2>3, <2>4, <2>5
<1> QED
  BY <1>1 DEF Holding, Adding, Removing, At

(* The end of an operation that leaves the map alone, holding no session any *)
(* more: the one it held, if any, has been stopped.                          *)
LEMMA ReturnInv ==
  ASSUME RegistryInv, NEW w \in Workers, Return(w),
         UNCHANGED <<stored, created, got, published, found>>, count' \in Int,
         live' = live \ {worker[w].sess : v \in {w} \cap Holding}
  PROVE  RegistryInv'
<1> USE DEF RegistryInv, At
<1>1. /\ worker' \in [Workers -> WorkerState]
      /\ \A v \in Workers : v # w => worker'[v] = worker[v]
      /\ worker'[w].pc \in {"idle", "range"}
      /\ worker'[w].pc = "range" <=> worker[w].closing
      /\ worker'[w].closing = worker[w].closing
      /\ worker'[w].due = worker[w].due
      /\ Holding' = Holding \ {w}
  BY ReturnLocals
<1>2. Stored' = Stored /\ StoredSessions' = StoredSessions
  BY DEF Stored, StoredSessions
<1>3. RegistryTypeOK'
  BY <1>1 DEF RegistryTypeOK
<1>4. LocalsInv'
  BY <1>1 DEF LocalsInv
<1>5. OnePlaceInv'
  BY <1>1 DEF OnePlaceInv, Holding
<1>6. FoundInv'
  BY <1>1 DEF FoundInv
<1>7. EverySessionIsOwned'
  <2>1. \A v \in Holding' : worker'[v] = worker[v] /\ v \in Holding
    BY <1>1 DEF Holding
  <2>2. CASE w \in Holding
    <3>1. worker[w].sess \notin StoredSessions
      BY <2>2 DEF OnePlaceInv, StoredSessions, Stored
    <3>2. live' = live \ {worker[w].sess}
      BY <2>2
    <3> QED
      BY <1>1, <1>2, <2>1, <2>2, <3>1, <3>2 DEF EverySessionIsOwned, OnePlaceInv
  <2>3. CASE w \notin Holding
    <3>1. Holding' = Holding /\ live' = live
      BY <1>1, <2>3
    <3> QED
      BY <1>2, <2>1, <3>1 DEF EverySessionIsOwned
  <2> QED
    BY <2>2, <2>3
<1>8. ReturnsTheSharedSession'
  BY DEF ReturnsTheSharedSession
<1> QED
  BY <1>3, <1>4, <1>5, <1>6, <1>7, <1>8

LEMMA CreateInv ==
  ASSUME RegistryInv, NEW w \in Workers, Create(w)
  PROVE  RegistryInv'
<1> USE DEF RegistryInv, At
<1>1. /\ UNCHANGED <<stored, count, got, published, found>>
      /\ created' = created + 1 /\ created' \in 0 .. MaxSessions /\ created \in Nat
      /\ live' = live \cup {created'}
      /\ worker[w].pc = "create"
  BY RegistryAssumption DEF Create, RegistryTypeOK
<1>2. /\ worker' \in [Workers -> WorkerState]
      /\ \A v \in Workers : v # w => worker'[v] = worker[v]
      /\ worker'[w].pc = "store" /\ worker'[w].sess = created'
      /\ worker'[w].call = worker[w].call
      /\ worker'[w].closing = worker[w].closing
      /\ worker'[w].due = worker[w].due
  <2> DEFINE r == [worker[w] EXCEPT !.pc = "store", !.sess = created']
  <2>1. worker' = [worker EXCEPT ![w] = r] /\ worker \in [Workers -> WorkerState]
    BY DEF Create, RegistryTypeOK
  <2>2. worker[w] \in WorkerState /\ created' \in Sessions
    BY <1>1, <2>1, RegistryAssumption DEF Sessions
  <2>3. /\ r \in WorkerState
        /\ r.pc = "store" /\ r.sess = created' /\ r.call = worker[w].call
        /\ r.closing = worker[w].closing /\ r.due = worker[w].due
    BY <2>2 DEF WorkerState
  <2>4. worker'[w] = r /\ \A v \in Workers : v # w => worker'[v] = worker[v]
    BY <2>1
  <2>5. worker' \in [Workers -> WorkerState]
    BY <2>1, <2>3
  <2> HIDE DEF r
  <2> QED
    BY <2>3, <2>4, <2>5
<1>3. Holding' = Holding \cup {w} /\ w \notin Holding /\ StoredSessions' = StoredSessions
  BY <1>1, <1>2 DEF Holding, StoredSessions, Stored
<1>4. RegistryTypeOK'
  BY <1>1, <1>2 DEF RegistryTypeOK
<1>5. LocalsInv'
  BY <1>1, <1>2 DEF LocalsInv
<1>6. OnePlaceInv'
  <2>1. created' \notin published /\ created' # None
    BY <1>1 DEF OnePlaceInv, None
  <2>2. \A v \in Holding : worker[v].sess # created' /\ worker'[v] = worker[v]
    BY <1>1, <1>2, <1>3 DEF Holding, LocalsInv
  <2>3. \A c \in Calls : stored[c] # created'
    BY <2>1 DEF OnePlaceInv
  <2> QED
    BY <1>1, <1>2, <1>3, <2>1, <2>2, <2>3 DEF OnePlaceInv
<1>7. FoundInv'
  BY <1>1, <1>2 DEF FoundInv
<1>8. EverySessionIsOwned'
  <2>1. {worker'[v].sess : v \in Holding'} = {worker[v].sess : v \in Holding} \cup {created'}
    <3>1. \A v \in Holding : v \in Workers /\ v # w
      BY <1>3 DEF Holding
    <3> QED
      BY <1>2, <1>3, <3>1
  <2> QED
    BY <1>1, <1>3, <2>1 DEF EverySessionIsOwned
<1>9. ReturnsTheSharedSession'
  BY <1>1 DEF ReturnsTheSharedSession
<1> QED
  BY <1>4, <1>5, <1>6, <1>7, <1>8, <1>9

LEMMA StoreInv ==
  ASSUME RegistryInv, NEW w \in Workers, Store(w)
  PROVE  RegistryInv'
<1> USE DEF RegistryInv, At
<1> DEFINE c == worker[w].call
           s == worker[w].sess
<1>1. /\ UNCHANGED <<count, created, live, found>>
      /\ got' = [got EXCEPT ![w] = s]
      /\ stored[c] = None /\ stored' = [stored EXCEPT ![c] = s]
      /\ published' = published \cup {s}
      /\ worker[w].pc = "store" /\ w \in Holding
      /\ c \in Calls /\ s \in 1 .. created /\ s # None /\ s \in Sessions
  <2>1. /\ worker[w].pc = "store" /\ created \in 0 .. MaxSessions
    BY DEF Store, RegistryTypeOK
  <2>2. c \in Calls /\ s \in 1 .. created
    BY <2>1 DEF LocalsInv
  <2>3. s # None /\ s \in Sessions
    BY <2>1, <2>2, RegistryAssumption DEF None, Sessions
  <2> QED
    BY <2>1, <2>2, <2>3 DEF Store, Holding
<1>2. /\ worker' \in [Workers -> WorkerState]
      /\ \A v \in Workers : v # w => worker'[v] = worker[v]
      /\ worker'[w].pc = "add" /\ worker'[w].call = c
      /\ worker'[w].closing = worker[w].closing
      /\ worker'[w].due = worker[w].due
  BY <1>1 DEF Store, Goto, RegistryTypeOK, WorkerState
<1>3. Holding' = Holding \ {w}
  BY <1>1, <1>2 DEF Holding
<1>4. RegistryTypeOK'
  BY <1>1, <1>2 DEF RegistryTypeOK
<1>5. LocalsInv'
  BY <1>1, <1>2 DEF LocalsInv
<1>6. OnePlaceInv'
  <2>1. \A v \in Holding' : v \in Holding /\ v # w /\ worker'[v] = worker[v]
    BY <1>2, <1>3 DEF Holding
  <2>2. \A v \in Workers : worker'[v].pc = "store" => v \in Holding'
    BY <1>2 DEF Holding
  <2>3. \A v \in Holding' : worker'[v].sess # s
    BY <1>1, <2>1 DEF OnePlaceInv
  <2> QED
    <3>1. \A d \in Calls : stored'[d] = IF d = c THEN s ELSE stored[d]
      BY <1>1 DEF RegistryTypeOK
    <3>2. \A d \in Calls : stored[d] # s
      BY <1>1 DEF OnePlaceInv
    <3>3. \A d \in Calls : stored'[d] # None => stored'[d] \in published'
      BY <1>1, <3>1 DEF OnePlaceInv
    <3>4. \A d, e \in Calls : stored'[d] = stored'[e] /\ stored'[d] # None => d = e
      BY <1>1, <3>1, <3>2 DEF OnePlaceInv
    <3>5. \A u, v \in Holding' : worker'[u].sess = worker'[v].sess => u = v
      BY <2>1 DEF OnePlaceInv
    <3>6. \A v \in Holding', d \in Calls : worker'[v].sess # stored'[d]
      BY <2>1, <2>3, <3>1 DEF OnePlaceInv
    <3>7. \A v \in Workers : worker'[v].pc = "store" => worker'[v].sess \notin published'
      BY <1>1, <1>2, <2>1, <2>2, <2>3 DEF OnePlaceInv
    <3>8. published' \subseteq 1 .. created'
      BY <1>1 DEF OnePlaceInv
    <3> QED
      BY <3>3, <3>4, <3>5, <3>6, <3>7, <3>8 DEF OnePlaceInv
<1>7. FoundInv'
  <2>1. \A v \in Workers : s \notin found[v]
    BY <1>1 DEF FoundInv, OnePlaceInv
  <2> QED
    BY <1>1, <1>2, <2>1 DEF FoundInv, RegistryTypeOK
<1>8. EverySessionIsOwned'
  <2>1. StoredSessions' = StoredSessions \cup {s}
    BY <1>1 DEF StoredSessions, Stored, RegistryTypeOK
  <2>2. {worker'[v].sess : v \in Holding'} \cup {s} = {worker[v].sess : v \in Holding}
    BY <1>1, <1>2, <1>3 DEF Holding
  <2> QED
    BY <1>1, <2>1, <2>2 DEF EverySessionIsOwned
<1>9. ReturnsTheSharedSession'
  BY <1>1 DEF ReturnsTheSharedSession, RegistryTypeOK
<1> QED
  BY <1>4, <1>5, <1>6, <1>7, <1>8, <1>9

LEMMA LoadedInv ==
  ASSUME RegistryInv, NEW w \in Workers, Loaded(w)
  PROVE  RegistryInv'
<1> USE DEF RegistryInv, At
<1> DEFINE c == worker[w].call
<1>1. /\ UNCHANGED <<stored, count, created, live, published, found>>
      /\ got' = [got EXCEPT ![w] = stored[c]]
      /\ worker[w].pc = "store" /\ c \in Calls /\ stored[c] # None
  BY DEF Loaded, LocalsInv
<1>2. /\ worker' \in [Workers -> WorkerState]
      /\ \A v \in Workers : v # w => worker'[v] = worker[v]
      /\ worker'[w].pc = "discard" /\ worker'[w].call = c
      /\ worker'[w].sess = worker[w].sess
      /\ worker'[w].closing = worker[w].closing
      /\ worker'[w].due = worker[w].due
  BY <1>1 DEF Loaded, Goto, RegistryTypeOK, WorkerState
<1>3. Holding' = Holding /\ StoredSessions' = StoredSessions
      /\ \A v \in Workers : worker'[v].sess = worker[v].sess
  BY <1>1, <1>2 DEF Holding, StoredSessions, Stored
<1>4. RegistryTypeOK'
  BY <1>1, <1>2 DEF RegistryTypeOK
<1>5. LocalsInv'
  BY <1>1, <1>2 DEF LocalsInv
<1>6. OnePlaceInv'
  BY <1>1, <1>2, <1>3 DEF OnePlaceInv, Holding
<1>7. FoundInv'
  BY <1>1, <1>2 DEF FoundInv
<1>8. EverySessionIsOwned'
  BY <1>1, <1>3 DEF EverySessionIsOwned, Holding
<1>9. ReturnsTheSharedSession'
  BY <1>1 DEF ReturnsTheSharedSession, OnePlaceInv, RegistryTypeOK
<1> QED
  BY <1>4, <1>5, <1>6, <1>7, <1>8, <1>9

LEMMA GetOrCreateInv ==
  ASSUME RegistryInv, NEW w \in Workers, GetOrCreateStep(w)
  PROVE  RegistryInv'
<1> USE DEF RegistryInv
<1>1. count \in Int /\ count + 1 \in Int
  BY DEF RegistryTypeOK
<1>2. CASE FactoryFails(w)
  BY <1>1, <1>2, ReturnInv DEF FactoryFails, Holding, At
<1>3. CASE Discard(w)
  BY <1>1, <1>3, ReturnInv DEF Discard, Holding, At
<1>4. CASE CountUp(w)
  BY <1>1, <1>4, ReturnInv DEF CountUp, Holding, At
<1> QED
  BY <1>2, <1>3, <1>4, CreateInv, StoreInv, LoadedInv DEF GetOrCreateStep

-----------------------------------------------------------------------------
(* Remove and CloseAll keep it too. *)
LEMMA DeleteInv ==
  ASSUME RegistryInv, NEW w \in Workers, NEW c \in Calls, Delete(w, c),
         worker[w].pc \in {"idle", "range"}
  PROVE  RegistryInv'
<1> USE DEF RegistryInv, At
<1>1. /\ UNCHANGED <<count, created, live, got, published, found>>
      /\ stored' = [stored EXCEPT ![c] = None]
      /\ stored \in [Calls -> Sessions \cup {None}]
      /\ worker \in [Workers -> WorkerState]
      /\ w \notin Holding
  BY DEF Delete, RegistryTypeOK, Holding
<1>2. CASE stored[c] = None
  <2>1. /\ stored' = stored
        /\ worker' = [v \in Workers |-> [worker[v] EXCEPT !.due = @ \ {c}]]
    BY <1>1, <1>2 DEF Delete
  <2>2. /\ worker' \in [Workers -> WorkerState]
        /\ \A v \in Workers :
             /\ worker'[v].pc = worker[v].pc /\ worker'[v].call = worker[v].call
             /\ worker'[v].sess = worker[v].sess /\ worker'[v].closing = worker[v].closing
             /\ worker'[v].due = worker[v].due \ {c}
    <3>1. SUFFICES ASSUME NEW v \in Workers
                   PROVE  /\ worker'[v] \in WorkerState
                          /\ worker'[v].pc = worker[v].pc /\ worker'[v].call = worker[v].call
                          /\ worker'[v].sess = worker[v].sess
                          /\ worker'[v].closing = worker[v].closing
                          /\ worker'[v].due = worker[v].due \ {c}
      BY <2>1
    <3>2. worker[v] \in WorkerState /\ worker'[v] = [worker[v] EXCEPT !.due = @ \ {c}]
      BY <1>1, <2>1
    <3> QED
      BY <3>2 DEF WorkerState
  <2>3. Holding' = Holding /\ StoredSessions' = StoredSessions
    BY <2>1, <2>2 DEF Holding, StoredSessions, Stored
  <2>4. RegistryTypeOK'
    BY <1>1, <2>1, <2>2 DEF RegistryTypeOK
  <2>5. LocalsInv'
    BY <1>1, <2>2 DEF LocalsInv
  <2>6. OnePlaceInv'
    <3>1. \A v \in Holding : v \in Workers /\ worker'[v].sess = worker[v].sess
      BY <2>2 DEF Holding
    <3>2. \A u, v \in Holding' : worker'[u].sess = worker'[v].sess => u = v
      BY <2>3, <3>1 DEF OnePlaceInv
    <3>3. \A v \in Holding', d \in Calls : worker'[v].sess # stored'[d]
      BY <2>1, <2>3, <3>1 DEF OnePlaceInv
    <3>4. \A v \in Workers : worker'[v].pc = "store" => worker'[v].sess \notin published'
      BY <1>1, <2>2 DEF OnePlaceInv
    <3> QED
      BY <1>1, <2>1, <3>2, <3>3, <3>4 DEF OnePlaceInv
  <2>7. FoundInv'
    <3>1. \A v \in Workers, d \in Calls : stored'[d] \in found'[v] /\ stored'[d] # None =>
            worker[v].closing /\ d \in worker[v].due /\ d # c
      BY <1>1, <1>2, <2>1 DEF FoundInv
    <3> QED
      BY <1>1, <2>2, <3>1 DEF FoundInv
  <2>8. EverySessionIsOwned'
    BY <1>1, <2>2, <2>3 DEF EverySessionIsOwned, Holding
  <2> QED
    BY <1>1, <2>4, <2>5, <2>6, <2>7, <2>8 DEF ReturnsTheSharedSession
<1>3. CASE stored[c] # None
  <2>1. /\ worker' \in [Workers -> WorkerState]
        /\ \A v \in Workers : v # w =>
             /\ worker'[v].pc = worker[v].pc /\ worker'[v].call = worker[v].call
             /\ worker'[v].sess = worker[v].sess /\ worker'[v].closing = worker[v].closing
             /\ worker'[v].due = worker[v].due \ {c}
        /\ worker'[w].pc = "stop" /\ worker'[w].call = c /\ worker'[w].sess = stored[c]
        /\ worker'[w].closing = worker[w].closing
        /\ worker'[w].due = worker[w].due \ {c}
    <3>1. \A v \in Workers : worker[v] \in WorkerState
      BY <1>1
    <3>2. stored[c] \in Sessions \cup {None}
      BY <1>1
    <3>3. worker' = [v \in Workers |->
             IF v # w THEN [worker[v] EXCEPT !.due = @ \ {c}]
             ELSE [worker[v] EXCEPT !.pc = "stop", !.call = c, !.sess = stored[c],
                                    !.due = @ \ {c}, !.left = @ \ {c}]]
      BY <1>3 DEF Delete
    <3>4. ASSUME NEW v \in Workers, v # w
          PROVE  /\ worker'[v] \in WorkerState
                 /\ worker'[v].pc = worker[v].pc /\ worker'[v].call = worker[v].call
                 /\ worker'[v].sess = worker[v].sess
                 /\ worker'[v].closing = worker[v].closing
                 /\ worker'[v].due = worker[v].due \ {c}
      <4>1. worker[v] \in WorkerState /\ worker'[v] = [worker[v] EXCEPT !.due = @ \ {c}]
        BY <3>1, <3>3, <3>4
      <4> QED
        BY <4>1 DEF WorkerState
    <3>5. /\ worker'[w] \in WorkerState
          /\ worker'[w].pc = "stop" /\ worker'[w].call = c /\ worker'[w].sess = stored[c]
          /\ worker'[w].closing = worker[w].closing
          /\ worker'[w].due = worker[w].due \ {c}
      <4>1. /\ worker[w] \in WorkerState
            /\ worker'[w] = [worker[w] EXCEPT !.pc = "stop", !.call = c, !.sess = stored[c],
                                              !.due = @ \ {c}, !.left = @ \ {c}]
        BY <3>1, <3>3
      <4>2. PICK x \in WorkerState : x = worker[w]
        BY <4>1
      <4>3. PICK y : y = [x EXCEPT !.pc = "stop", !.call = c, !.sess = stored[c],
                                   !.due = x.due \ {c}, !.left = x.left \ {c}]
        OBVIOUS
      <4>4. /\ y \in WorkerState /\ y.pc = "stop" /\ y.call = c /\ y.sess = stored[c]
            /\ y.closing = x.closing /\ y.due = x.due \ {c}
        BY <3>2, <4>3 DEF WorkerState
      <4>5. worker'[w] = y
        BY <4>1, <4>2, <4>3
      <4> QED
        BY <4>2, <4>4, <4>5
    <3>6. DOMAIN worker' = Workers /\ \A v \in Workers : worker'[v] \in WorkerState
      BY <3>3, <3>4, <3>5
    <3>7. worker' \in [Workers -> WorkerState]
      BY <3>3, <3>6
    <3> QED
      BY <3>4, <3>5, <3>7
  <2>2. Holding' = Holding \cup {w}
    BY <2>1 DEF Holding
  <2>3. stored[c] \in published /\ published \subseteq 1 .. created
    BY <1>3 DEF OnePlaceInv
  <2>4. RegistryTypeOK'
    BY <1>1, <2>1 DEF RegistryTypeOK
  <2>5. LocalsInv'
    BY <1>1, <2>1, <2>3 DEF LocalsInv
  <2>6. OnePlaceInv'
    <3>1. \A d \in Calls : stored'[d] # None => d # c /\ stored'[d] = stored[d]
      BY <1>1
    <3>2. \A v \in Holding : v # w /\ worker'[v].sess = worker[v].sess
      BY <1>1, <2>1 DEF Holding
    <3>3. \A v \in Holding : worker[v].sess # None
      BY DEF Holding, LocalsInv, None
    <3>4. \A v \in Workers : worker'[v].pc = "store" => worker[v].pc = "store" /\ v # w
      BY <2>1
    <3>5. \A v, u \in Holding' : worker'[v].sess = worker'[u].sess => v = u
      BY <1>3, <2>1, <2>2, <3>2 DEF OnePlaceInv
    <3>6. \A v \in Holding', d \in Calls : worker'[v].sess # stored'[d]
      BY <1>1, <1>3, <2>1, <2>2, <3>1, <3>2, <3>3 DEF OnePlaceInv
    <3> QED
      BY <1>1, <2>1, <3>1, <3>4, <3>5, <3>6 DEF OnePlaceInv
  <2>7. FoundInv'
    BY <1>1, <2>1 DEF FoundInv
  <2>8. EverySessionIsOwned'
    <3>1. StoredSessions = StoredSessions' \cup {stored[c]}
      BY <1>1, <1>3 DEF StoredSessions, Stored, None
    <3>2. {worker'[v].sess : v \in Holding'} = {worker[v].sess : v \in Holding} \cup {stored[c]}
      BY <1>1, <2>1, <2>2 DEF Holding
    <3> QED
      BY <1>1, <3>1, <3>2 DEF EverySessionIsOwned
  <2> QED
    BY <1>1, <2>4, <2>5, <2>6, <2>7, <2>8 DEF ReturnsTheSharedSession
<1> QED
  BY <1>2, <1>3

LEMMA StopSessionInv ==
  ASSUME RegistryInv, NEW w \in Workers, StopSession(w)
  PROVE  RegistryInv'
<1> USE DEF RegistryInv, At
<1>1. /\ UNCHANGED <<stored, count, created, got, published, found>>
      /\ live' = live \ {worker[w].sess}
      /\ worker[w].pc = "stop" /\ w \in Holding
      /\ worker' = [worker EXCEPT ![w].pc = "subtract"]
      /\ worker \in [Workers -> WorkerState]
  BY DEF StopSession, Goto, Holding, RegistryTypeOK
<1>2. /\ worker' \in [Workers -> WorkerState]
      /\ \A v \in Workers : v # w => worker'[v] = worker[v]
      /\ worker'[w].pc = "subtract" /\ worker'[w].call = worker[w].call
      /\ worker'[w].closing = worker[w].closing
      /\ worker'[w].due = worker[w].due
  BY <1>1 DEF WorkerState
<1>3. Holding' = Holding \ {w} /\ StoredSessions' = StoredSessions
  BY <1>1, <1>2 DEF Holding, StoredSessions, Stored
<1>4. \A v \in Holding' : v \in Holding /\ v # w /\ worker'[v] = worker[v]
  BY <1>2, <1>3 DEF Holding
<1>5. RegistryTypeOK'
  BY <1>1, <1>2 DEF RegistryTypeOK
<1>6. LocalsInv'
  BY <1>1, <1>2 DEF LocalsInv
<1>7. OnePlaceInv'
  <2>1. \A u, v \in Holding' : worker'[u].sess = worker'[v].sess => u = v
    BY <1>4 DEF OnePlaceInv
  <2>2. \A v \in Holding', d \in Calls : worker'[v].sess # stored'[d]
    BY <1>1, <1>4 DEF OnePlaceInv
  <2>3. \A v \in Workers : worker'[v].pc = "store" => worker'[v].sess \notin published'
    BY <1>1, <1>2 DEF OnePlaceInv
  <2> QED
    BY <1>1, <2>1, <2>2, <2>3 DEF OnePlaceInv
<1>8. FoundInv'
  BY <1>1, <1>2 DEF FoundInv
<1>9. EverySessionIsOwned'
  <2>1. worker[w].sess \notin StoredSessions
    BY <1>1 DEF OnePlaceInv, StoredSessions, Stored
  <2>2. \A v \in Holding : v # w => worker[v].sess # worker[w].sess
    BY <1>1 DEF OnePlaceInv
  <2>3. {worker'[v].sess : v \in Holding'} = {worker[v].sess : v \in Holding} \ {worker[w].sess}
    BY <1>3, <1>4, <2>2
  <2> QED
    BY <1>1, <1>3, <2>1, <2>3 DEF EverySessionIsOwned
<1> QED
  BY <1>1, <1>5, <1>6, <1>7, <1>8, <1>9 DEF ReturnsTheSharedSession

LEMMA RemoveStepInv ==
  ASSUME RegistryInv, NEW w \in Workers, RemoveStep(w)
  PROVE  RegistryInv'
<1>1. CASE CountDown(w)
  <2>1. count - 1 \in Int
    BY DEF RegistryInv, RegistryTypeOK
  <2> QED
    BY <1>1, <2>1, ReturnInv DEF CountDown, Holding, At
<1> QED
  BY <1>1, StopSessionInv DEF RemoveStep

(* A goroutine that enters or leaves CloseAll holds nothing. *)
LEMMA RangeBoundsInv ==
  ASSUME RegistryInv, NEW w \in Workers, CloseAll(w) \/ RangeEnd(w)
  PROVE  RegistryInv'
<1> USE DEF RegistryInv, At
<1>1. /\ UNCHANGED <<stored, count, created, live, got, published>>
      /\ worker[w].pc \in {"idle", "range"}
      /\ worker \in [Workers -> WorkerState] /\ found \in [Workers -> SUBSET Sessions]
  BY DEF CloseAll, RangeEnd, RegistryTypeOK
<1>2. StoredSessions \subseteq published /\ StoredSessions' = StoredSessions
  BY <1>1 DEF OnePlaceInv, StoredSessions, Stored
<1>3. /\ worker' \in [Workers -> WorkerState]
      /\ \A v \in Workers : v # w => worker'[v] = worker[v]
      /\ worker'[w].pc \in {"idle", "range"}
      /\ worker'[w].closing <=> worker'[w].pc = "range"
  <2>1. ASSUME NEW r \in WorkerState, worker' = [worker EXCEPT ![w] = r],
               r.pc \in {"idle", "range"}, r.closing <=> r.pc = "range"
        PROVE  <1>3
    BY <1>1, <2>1
  <2>2. Idle \in WorkerState /\ Idle.pc = "idle" /\ Idle.closing = FALSE
    BY DEF Idle, WorkerState, None
  <2>3. CASE RangeEnd(w)
    BY <2>1, <2>2, <2>3 DEF RangeEnd
  <2>4. CASE CloseAll(w)
    <3> DEFINE r == [Idle EXCEPT !.pc = "range", !.closing = TRUE,
                                 !.due = Stored, !.left = Calls]
    <3>1. r \in WorkerState /\ r.pc = "range" /\ r.closing = TRUE
      BY DEF Idle, WorkerState, Stored, None
    <3>2. worker' = [worker EXCEPT ![w] = r]
      BY <2>4 DEF CloseAll
    <3> QED
      BY <2>1, <3>1, <3>2
  <2> QED
    BY <2>3, <2>4
<1>4. /\ found' \in [Workers -> SUBSET Sessions]
      /\ \A v \in Workers : v # w => found'[v] = found[v]
  BY <1>1, <1>2 DEF CloseAll, RangeEnd, RegistryTypeOK
<1>5. Holding' = Holding /\ \A v \in Holding : v \in Workers /\ worker'[v] = worker[v]
  BY <1>1, <1>3 DEF Holding
<1>6. RegistryTypeOK'
  BY <1>1, <1>3, <1>4 DEF RegistryTypeOK
<1>7. LocalsInv'
  BY <1>1, <1>3 DEF LocalsInv
<1>8. OnePlaceInv'
  <2>1. \A u, v \in Holding' : worker'[u].sess = worker'[v].sess => u = v
    BY <1>5 DEF OnePlaceInv
  <2>2. \A v \in Holding', d \in Calls : worker'[v].sess # stored'[d]
    BY <1>1, <1>5 DEF OnePlaceInv
  <2>3. \A v \in Workers : worker'[v].pc = "store" => worker'[v].sess \notin published'
    BY <1>1, <1>3 DEF OnePlaceInv
  <2> QED
    BY <1>1, <2>1, <2>2, <2>3 DEF OnePlaceInv
<1>9. FoundInv'
  <2>1. CASE CloseAll(w)
    <3>1. found'[w] = StoredSessions /\ worker'[w].closing /\ worker'[w].due = Stored
      BY <1>1, <2>1 DEF CloseAll, Idle
    <3>2. \A c \in Calls : stored[c] # None => c \in Stored
      BY DEF Stored
    <3> QED
      BY <1>1, <1>2, <1>3, <1>4, <3>1, <3>2 DEF FoundInv
  <2>2. CASE RangeEnd(w)
    <3>1. found' = found /\ worker[w].due = {}
      BY <2>2 DEF RangeEnd
    <3> QED
      BY <1>1, <1>3, <3>1 DEF FoundInv
  <2> QED
    BY <2>1, <2>2
<1>10. EverySessionIsOwned'
  BY <1>1, <1>2, <1>5 DEF EverySessionIsOwned
<1> QED
  BY <1>1, <1>6, <1>7, <1>8, <1>9, <1>10 DEF ReturnsTheSharedSession

LEMMA RegistryNextInv == RegistryInv /\ [RegistryNext]_registryVars => RegistryInv'
<1> SUFFICES ASSUME RegistryInv, [RegistryNext]_registryVars
             PROVE  RegistryInv'
  OBVIOUS
<1>1. CASE UNCHANGED registryVars
  BY <1>1 DEF registryVars, RegistryInv, RegistryTypeOK, LocalsInv, OnePlaceInv, FoundInv,
              EverySessionIsOwned, ReturnsTheSharedSession, Holding, StoredSessions, Stored, At
<1>2. ASSUME NEW w \in Workers, NEW c \in Calls, Remove(w, c)
      PROVE  RegistryInv'
  BY <1>2, DeleteInv DEF Remove, At
<1>3. ASSUME NEW w \in Workers, RangeVisit(w)
      PROVE  RegistryInv'
  BY <1>3, DeleteInv DEF RangeVisit, Stored, At
<1> QED
  BY <1>1, <1>2, <1>3, LookupInv, GetOrCreateInv, RemoveStepInv, RangeBoundsInv
     DEF RegistryNext, WorkerStep, CloseAllStep

LEMMA RegistryAlwaysInv == RegistrySpec => []RegistryInv
<1> QED
  BY RegistryInitInv, RegistryNextInv, PTL DEF RegistrySpec

-----------------------------------------------------------------------------
(* Every variable and every local of a method keeps its type. *)
THEOREM RegistryTypeCorrect == RegistrySpec => []RegistryTypeOK
<1>1. RegistryInv => RegistryTypeOK
  BY DEF RegistryInv
<1> QED
  BY <1>1, RegistryAlwaysInv, PTL

(* No orchestrator leaks: GetOrCreate, Remove and CloseAll (registry.go:33), *)
(* whatever their interleaving, stop or store every session the factory made. *)
THEOREM NoSessionIsLost == RegistrySpec => []EverySessionIsOwned
<1>1. RegistryInv => EverySessionIsOwned
  BY DEF RegistryInv
<1> QED
  BY <1>1, RegistryAlwaysInv, PTL

(* GetOrCreate never hands out the session that lost LoadOrStore's race. *)
THEOREM SessionsAreShared == RegistrySpec => []ReturnsTheSharedSession
<1>1. RegistryInv => ReturnsTheSharedSession
  BY DEF RegistryInv
<1> QED
  BY <1>1, RegistryAlwaysInv, PTL

(* When CloseAll returns, none of the sessions it found is stored. *)
THEOREM CloseAllIsComplete == RegistrySpec => []CloseAllRemovesWhatItFound
<1>1. RegistryInv => CloseAllRemovesWhatItFound
  <2> SUFFICES ASSUME RegistryInv, NEW w \in Workers, ~worker[w].closing
               PROVE  found[w] \cap StoredSessions = {}
    BY DEF CloseAllRemovesWhatItFound
  <2> QED
    BY DEF RegistryInv, FoundInv, StoredSessions, Stored
<1> QED
  BY <1>1, RegistryAlwaysInv, PTL

-----------------------------------------------------------------------------
(* The count.  A step changes the place of one goroutine, w, in its method:  *)
(* what that does to the numbers CountMatchesSessions adds up.               *)
OnlyStepOf(w) == \A v \in Workers : v # w => worker'[v].pc = worker[v].pc

LEMMA StepNumbers ==
  ASSUME NEW w \in Workers, OnlyStepOf(w)
  PROVE  /\ Cardinality(Adding) \in Nat /\ Cardinality(Removing) \in Nat
         /\ Cardinality(Adding') = Cardinality(Adding)
              + (IF worker'[w].pc = "add" THEN 1 ELSE 0) - (IF worker[w].pc = "add" THEN 1 ELSE 0)
         /\ Cardinality(Removing') = Cardinality(Removing)
              + (IF worker'[w].pc \in {"stop", "subtract"} THEN 1 ELSE 0)
              - (IF worker[w].pc \in {"stop", "subtract"} THEN 1 ELSE 0)
<1>1. /\ IsFiniteSet(Adding) /\ IsFiniteSet(Removing)
      /\ Cardinality(Adding) \in Nat /\ Cardinality(Removing) \in Nat
  <2>1. Adding \in SUBSET Workers /\ Removing \in SUBSET Workers
    BY DEF Adding, Removing
  <2> QED
    BY <2>1, RegistryAssumption, FS_Subset, FS_CardinalityType
<1>2. /\ w \in Adding <=> worker[w].pc = "add"
      /\ w \in Removing <=> worker[w].pc \in {"stop", "subtract"}
  BY DEF Adding, Removing, At
<1>3. /\ Adding' = IF worker'[w].pc = "add" THEN Adding \cup {w} ELSE Adding \ {w}
      /\ Removing' = IF worker'[w].pc \in {"stop", "subtract"}
                       THEN Removing \cup {w} ELSE Removing \ {w}
  BY DEF OnlyStepOf, Adding, Removing, At
<1>4. /\ Cardinality(Adding \cup {w}) = IF w \in Adding THEN Cardinality(Adding)
                                                         ELSE Cardinality(Adding) + 1
      /\ Cardinality(Adding \ {w}) = IF w \in Adding THEN Cardinality(Adding) - 1
                                                      ELSE Cardinality(Adding)
      /\ Cardinality(Removing \cup {w}) = IF w \in Removing THEN Cardinality(Removing)
                                                             ELSE Cardinality(Removing) + 1
      /\ Cardinality(Removing \ {w}) = IF w \in Removing THEN Cardinality(Removing) - 1
                                                          ELSE Cardinality(Removing)
  BY <1>1, FS_AddElement, FS_RemoveElement
<1>5. Cardinality(Adding') = Cardinality(Adding)
        + (IF worker'[w].pc = "add" THEN 1 ELSE 0) - (IF worker[w].pc = "add" THEN 1 ELSE 0)
  BY <1>1, <1>2, <1>3, <1>4
<1>6. Cardinality(Removing') = Cardinality(Removing)
        + (IF worker'[w].pc \in {"stop", "subtract"} THEN 1 ELSE 0)
        - (IF worker[w].pc \in {"stop", "subtract"} THEN 1 ELSE 0)
  BY <1>1, <1>2, <1>3, <1>4
<1> QED
  BY <1>1, <1>5, <1>6

(* Storing under a free call adds one to the stored; deleting takes one off. *)
LEMMA StoredNumbers ==
  ASSUME RegistryTypeOK, NEW c \in Calls, NEW s, stored' = [stored EXCEPT ![c] = s]
  PROVE  /\ Cardinality(Stored) \in Nat
         /\ Cardinality(Stored') = Cardinality(Stored)
              + (IF s # None THEN 1 ELSE 0) - (IF stored[c] # None THEN 1 ELSE 0)
<1>1. IsFiniteSet(Stored) /\ Cardinality(Stored) \in Nat
  <2>1. Stored \in SUBSET Calls
    BY DEF Stored
  <2> QED
    BY <2>1, RegistryAssumption, FS_Subset, FS_CardinalityType
<1>2. c \in Stored <=> stored[c] # None
  BY DEF Stored
<1>3. Stored' = IF s # None THEN Stored \cup {c} ELSE Stored \ {c}
  BY DEF Stored, RegistryTypeOK
<1>4. /\ Cardinality(Stored \cup {c}) = IF c \in Stored THEN Cardinality(Stored)
                                                         ELSE Cardinality(Stored) + 1
      /\ Cardinality(Stored \ {c}) = IF c \in Stored THEN Cardinality(Stored) - 1
                                                      ELSE Cardinality(Stored)
  BY <1>1, FS_AddElement, FS_RemoveElement
<1> QED
  BY <1>1, <1>2, <1>3, <1>4

LEMMA CountStep ==
  ASSUME RegistryInv, CountMatchesSessions, [RegistryNext]_registryVars
  PROVE  CountMatchesSessions'
<1> USE DEF RegistryInv, At
<1>1. count \in Int /\ worker \in [Workers -> WorkerState]
  BY DEF RegistryTypeOK
<1>2. CASE UNCHANGED registryVars
  BY <1>2 DEF registryVars, CountMatchesSessions, Adding, Removing, Stored
<1>3. ASSUME NEW w \in Workers, OnlyStepOf(w), UNCHANGED stored,
             count' = count + (IF worker[w].pc = "add" THEN 1 ELSE 0)
                            - (IF worker[w].pc = "subtract" THEN 1 ELSE 0),
             worker'[w].pc # "add",
             worker'[w].pc \in {"stop", "subtract"} <=> worker[w].pc = "stop"
      PROVE  CountMatchesSessions'
  <2>1. Stored' = Stored /\ Cardinality(Stored) \in Nat
    <3>1. Stored \in SUBSET Calls
      BY DEF Stored
    <3> QED
      BY <1>3, <3>1, RegistryAssumption, FS_Subset, FS_CardinalityType DEF Stored
  <2> QED
    BY <1>1, <1>3, <2>1, StepNumbers DEF CountMatchesSessions
<1>4. ASSUME NEW w \in Workers,
             (\E c \in Calls : Lookup(w, c)) \/ FactoryFails(w) \/ Create(w) \/ Loaded(w)
             \/ Discard(w) \/ CountUp(w) \/ StopSession(w) \/ CountDown(w)
             \/ CloseAll(w) \/ RangeEnd(w)
      PROVE  CountMatchesSessions'
  <2>1. CASE FactoryFails(w) \/ Discard(w) \/ CountUp(w) \/ CountDown(w)
    BY <1>1, <1>3, <2>1, ReturnLocals
       DEF FactoryFails, Discard, CountUp, CountDown, OnlyStepOf
  <2>2. CASE (\E c \in Calls : Lookup(w, c)) \/ Create(w) \/ Loaded(w)
             \/ StopSession(w) \/ CloseAll(w) \/ RangeEnd(w)
    <3>1. worker[w] \in WorkerState
      BY <1>1
    <3>2. /\ OnlyStepOf(w) /\ UNCHANGED stored /\ count' = count
          /\ worker[w].pc \notin {"add", "subtract"}
      BY <1>1, <2>2 DEF Lookup, Create, Loaded, StopSession, CloseAll, RangeEnd, Goto, OnlyStepOf
    <3>3. CASE (\E c \in Calls : Lookup(w, c)) \/ Create(w) \/ Loaded(w)
      <4>1. worker[w].pc # "stop" /\ worker'[w].pc \in {"idle", "create", "store", "discard"}
        <5>1. CASE \E c \in Calls : Lookup(w, c)
          BY <1>1, <5>1 DEF Lookup, Idle
        <5>2. CASE Create(w)
          BY <1>1, <3>1, <5>2 DEF Create, WorkerState
        <5>3. CASE Loaded(w)
          BY <1>1, <3>1, <5>3 DEF Loaded, Goto, WorkerState
        <5> QED
          BY <3>3, <5>1, <5>2, <5>3
      <4> QED
        BY <1>1, <1>3, <3>2, <4>1
    <3>4. CASE CloseAll(w) \/ RangeEnd(w)
      <4>1. worker[w].pc # "stop" /\ worker'[w].pc \in {"idle", "range"}
        <5>1. CASE CloseAll(w)
          <6> DEFINE r == [Idle EXCEPT !.pc = "range", !.closing = TRUE,
                                       !.due = Stored, !.left = Calls]
          <6>1. r.pc = "range"
            BY DEF Idle
          <6>2. worker[w].pc = "idle" /\ worker'[w] = r
            BY <1>1, <5>1 DEF CloseAll
          <6> QED
            BY <6>1, <6>2
        <5>2. CASE RangeEnd(w)
          BY <1>1, <5>2 DEF RangeEnd, Idle
        <5> QED
          BY <3>4, <5>1, <5>2
      <4> QED
        BY <1>1, <1>3, <3>2, <4>1
    <3>5. CASE StopSession(w)
      <4>1. worker[w].pc = "stop" /\ worker'[w].pc = "subtract"
        BY <1>1, <3>1, <3>5 DEF StopSession, Goto, WorkerState
      <4> QED
        BY <1>1, <1>3, <3>2, <4>1
    <3> QED
      BY <2>2, <3>3, <3>4, <3>5
  <2> QED
    BY <1>4, <2>1, <2>2
<1>5. ASSUME NEW w \in Workers, Store(w)
      PROVE  CountMatchesSessions'
  <2>1. /\ OnlyStepOf(w) /\ worker[w].pc = "store" /\ worker'[w].pc = "add"
        /\ count' = count
    BY <1>1, <1>5 DEF Store, Goto, OnlyStepOf, WorkerState
  <2> DEFINE c == worker[w].call
             s == worker[w].sess
  <2>2. c \in Calls /\ stored[c] = None /\ s # None /\ stored' = [stored EXCEPT ![c] = s]
    BY <1>5, <2>1 DEF Store, LocalsInv, None
  <2>3. /\ Cardinality(Stored) \in Nat
        /\ Cardinality(Stored') = Cardinality(Stored) + 1
    <3>1. RegistryTypeOK
      OBVIOUS
    <3>2. ASSUME NEW d \in Calls, NEW t, stored' = [stored EXCEPT ![d] = t],
                 t # None, stored[d] = None
          PROVE  /\ Cardinality(Stored) \in Nat
                 /\ Cardinality(Stored') = Cardinality(Stored) + 1
      <4>1. /\ Cardinality(Stored) \in Nat
            /\ Cardinality(Stored') = Cardinality(Stored)
                 + (IF t # None THEN 1 ELSE 0) - (IF stored[d] # None THEN 1 ELSE 0)
        <5> HIDE DEF RegistryInv
        <5> QED
          BY <3>1, <3>2, StoredNumbers, Zenon
      <4> QED
        BY <3>2, <4>1
    <3> QED
      BY <2>2, <3>2
  <2>4. /\ Cardinality(Adding) \in Nat /\ Cardinality(Removing) \in Nat
        /\ Cardinality(Adding') = Cardinality(Adding) + 1
        /\ Cardinality(Removing') = Cardinality(Removing)
    BY <2>1, StepNumbers
  <2> QED
    BY <1>1, <2>1, <2>3, <2>4 DEF CountMatchesSessions
<1>6. ASSUME NEW w \in Workers, NEW c \in Calls, Delete(w, c),
             worker[w].pc \in {"idle", "range"}
      PROVE  CountMatchesSessions'
  <2>1. /\ \A v \in Workers : worker[v] \in WorkerState
        /\ count' = count /\ stored' = [stored EXCEPT ![c] = None]
    BY <1>1, <1>6 DEF Delete
  <2>2. OnlyStepOf(w)
    BY <1>6, <2>1 DEF Delete, OnlyStepOf, WorkerState
  <2>3. worker'[w].pc = IF stored[c] = None THEN worker[w].pc ELSE "stop"
    BY <1>6, <2>1 DEF Delete, WorkerState
  <2> DEFINE n == IF stored[c] = None THEN 0 ELSE 1
  <2>4. /\ Cardinality(Stored) \in Nat
        /\ Cardinality(Stored') = Cardinality(Stored) - n
    <3>1. /\ Cardinality(Stored) \in Nat
          /\ Cardinality(Stored') = Cardinality(Stored)
               + (IF None # None THEN 1 ELSE 0) - (IF stored[c] # None THEN 1 ELSE 0)
      BY <2>1, StoredNumbers
    <3> QED
      BY <3>1
  <2>5. /\ Cardinality(Adding) \in Nat /\ Cardinality(Removing) \in Nat
        /\ Cardinality(Adding') = Cardinality(Adding)
        /\ Cardinality(Removing') = Cardinality(Removing) + n
    BY <1>6, <2>2, <2>3, StepNumbers
  <2> QED
    BY <1>1, <2>1, <2>4, <2>5 DEF CountMatchesSessions
<1>7. ASSUME NEW w \in Workers, WorkerStep(w) \/ CloseAll(w)
      PROVE  CountMatchesSessions'
  <2> QED
    BY <1>4, <1>5, <1>6, <1>7 DEF WorkerStep, GetOrCreateStep, RemoveStep, CloseAllStep,
                                        RangeVisit, Stored
<1> QED
  BY <1>2, <1>4, <1>6, <1>7 DEF RegistryNext, Remove

(* The number WaitForEmpty (registry.go:111) waits to be zero is the number  *)
(* of stored sessions, up to the goroutines between the map and the count.   *)
THEOREM CountIsCorrect == RegistrySpec => []CountMatchesSessions
<1>1. RegistryInit => CountMatchesSessions
  <2> SUFFICES ASSUME RegistryInit
               PROVE  CountMatchesSessions
    OBVIOUS
  <2>1. Adding = {} /\ Removing = {} /\ Stored = {} /\ count = 0
    BY DEF RegistryInit, Adding, Removing, Stored, At, Idle
  <2> QED
    BY <2>1, FS_EmptySet DEF CountMatchesSessions
<1> QED
  BY <1>1, CountStep, RegistryAlwaysInv, PTL DEF RegistrySpec
=============================================================================
