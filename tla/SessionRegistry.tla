-------------------------- MODULE SessionRegistry --------------------------
(***************************************************************************)
(* pkg/pipeline/registry.go: the sessions of the calls in progress, in a   *)
(* sync.Map, with an atomic count kept beside it.  GetOrCreate, Remove and *)
(* CloseAll are called by several goroutines and take no lock: each        *)
(* operation on the map, on the count and on an orchestrator is a step of  *)
(* its own.                                                                *)
(*                                                                         *)
(* A session is the number of its orchestrator, counted from 1 in the      *)
(* order they are started.  The factory may fail; Start of the             *)
(* orchestrator never does.  SetDraining only stores a flag nothing reads. *)
(***************************************************************************)
EXTENDS CallIds, Integers, FiniteSets

CONSTANTS
  Workers,      \* the goroutines that use the registry
  MaxSessions   \* bound: sessions created in a behaviour

ASSUME RegistryAssumption ==
  /\ MaxSessions \in Nat
  /\ IsFiniteSet(Calls) /\ IsFiniteSet(Workers)

Sessions == 1 .. MaxSessions
None == 0

VARIABLES
  stored,     \* the sync.Map: the session of each call, or None
  count,      \* the atomic count
  created,    \* how many orchestrators have been started
  live,       \* the orchestrators started and not stopped
  worker,     \* what each goroutine is doing, a WorkerState
  got,        \* the session the goroutine's last GetOrCreate returned
  published,  \* history: the sessions that have been stored
  found       \* history: the sessions stored when CloseAll was last called

registryVars == <<stored, count, created, live, worker, got, published, found>>

(* closing: inside CloseAll, whose Range must visit the calls in due and may *)
(* visit those in left.                                                      *)
WorkerState ==
  [pc : {"idle", "create", "store", "add", "discard", "stop", "subtract", "range"},
   call : Calls \cup {NoCall}, sess : Sessions \cup {None},
   closing : BOOLEAN, due : SUBSET Calls, left : SUBSET Calls]

Idle == [pc |-> "idle", call |-> NoCall, sess |-> None,
         closing |-> FALSE, due |-> {}, left |-> {}]

RegistryInit ==
  /\ stored = [c \in Calls |-> None]
  /\ count = 0 /\ created = 0
  /\ live = {}
  /\ worker = [w \in Workers |-> Idle]
  /\ got = [w \in Workers |-> None]
  /\ published = {}
  /\ found = [w \in Workers |-> {}]

Stored == {c \in Calls : stored[c] # None}
StoredSessions == {stored[c] : c \in Stored}
At(w, pc) == worker[w].pc = pc
Goto(w, pc) == worker' = [worker EXCEPT ![w].pc = pc]

(* The end of GetOrCreate or Remove; the latter may be called by CloseAll. *)
Return(w) ==
  worker' = [worker EXCEPT ![w] = [@ EXCEPT !.pc = IF worker[w].closing THEN "range" ELSE "idle",
                                            !.call = NoCall, !.sess = None]]

-----------------------------------------------------------------------------
(* GetOrCreate(c): Load, then the factory and Start, then LoadOrStore. *)
Lookup(w, c) ==
  /\ At(w, "idle")
  /\ got' = [got EXCEPT ![w] = stored[c]]
  /\ worker' = IF stored[c] # None THEN worker
               ELSE [worker EXCEPT ![w] = [Idle EXCEPT !.pc = "create", !.call = c]]
  /\ UNCHANGED <<stored, count, created, live, published, found>>

(* A mutant: the error is dropped, and the session that is not there stored. *)
FactoryFails_Stored(w) ==
  /\ At(w, "create")
  /\ Goto(w, "store")
  /\ UNCHANGED <<stored, count, created, live, got, published, found>>

FactoryFails(w) ==
  /\ At(w, "create")
  /\ Return(w)
  /\ UNCHANGED <<stored, count, created, live, got, published, found>>

Create(w) ==
  /\ At(w, "create")
  /\ created < MaxSessions
  /\ created' = created + 1
  /\ live' = live \cup {created'}
  /\ worker' = [worker EXCEPT ![w] = [@ EXCEPT !.pc = "store", !.sess = created']]
  /\ UNCHANGED <<stored, count, got, published, found>>

(* LoadOrStore on an empty place, and on a taken one. *)
Store(w) ==
  LET c == worker[w].call
  IN  /\ At(w, "store")
      /\ stored[c] = None
      /\ stored' = [stored EXCEPT ![c] = worker[w].sess]
      /\ got' = [got EXCEPT ![w] = worker[w].sess]
      /\ published' = published \cup {worker[w].sess}
      /\ Goto(w, "add")
      /\ UNCHANGED <<count, created, live, found>>

(* Mutants of Loaded: without the early return; returning the caller's own. *)
Loaded_NoReturn(w) ==
  LET c == worker[w].call
  IN  /\ At(w, "store")
      /\ stored[c] # None
      /\ got' = [got EXCEPT ![w] = stored[c]]
      /\ live' = live \ {worker[w].sess}
      /\ Goto(w, "add")
      /\ UNCHANGED <<stored, count, created, published, found>>

Loaded_Own(w) ==
  LET c == worker[w].call
  IN  /\ At(w, "store")
      /\ stored[c] # None
      /\ got' = [got EXCEPT ![w] = worker[w].sess]
      /\ Goto(w, "discard")
      /\ UNCHANGED <<stored, count, created, live, published, found>>

Loaded(w) ==
  LET c == worker[w].call
  IN  /\ At(w, "store")
      /\ stored[c] # None
      /\ got' = [got EXCEPT ![w] = stored[c]]
      /\ Goto(w, "discard")
      /\ UNCHANGED <<stored, count, created, live, published, found>>

(* A mutant: the orchestrator is not stopped. *)
Discard_KeepsRunning(w) ==
  /\ At(w, "discard")
  /\ Return(w)
  /\ UNCHANGED <<stored, count, created, live, got, published, found>>

(* The session stored first is the one to use: stop the other. *)
Discard(w) ==
  /\ At(w, "discard")
  /\ live' = live \ {worker[w].sess}
  /\ Return(w)
  /\ UNCHANGED <<stored, count, created, got, published, found>>

CountUp(w) ==
  /\ At(w, "add")
  /\ count' = count + 1
  /\ Return(w)
  /\ UNCHANGED <<stored, created, live, got, published, found>>

GetOrCreateStep(w) ==
  FactoryFails(w) \/ Create(w) \/ Store(w) \/ Loaded(w) \/ Discard(w) \/ CountUp(w)

-----------------------------------------------------------------------------
(* Remove(c): LoadAndDelete, then cancel and Stop, then the count.  A call   *)
(* deleted while a Range runs is one that Range need not see any more.       *)
Delete(w, c) ==
  /\ stored' = [stored EXCEPT ![c] = None]
  /\ worker' = [v \in Workers |->
       IF v # w \/ stored[c] = None
         THEN [worker[v] EXCEPT !.due = @ \ {c}]
         ELSE [worker[v] EXCEPT !.pc = "stop", !.call = c, !.sess = stored[c],
                                !.due = @ \ {c}, !.left = @ \ {c}]]
  /\ UNCHANGED <<count, created, live, got, published, found>>

Remove(w, c) == At(w, "idle") /\ Delete(w, c)

StopSession(w) ==
  /\ At(w, "stop")
  /\ live' = live \ {worker[w].sess}
  /\ Goto(w, "subtract")
  /\ UNCHANGED <<stored, count, created, got, published, found>>

CountDown(w) ==
  /\ At(w, "subtract")
  /\ count' = count - 1
  /\ Return(w)
  /\ UNCHANGED <<stored, created, live, got, published, found>>

RemoveStep(w) == StopSession(w) \/ CountDown(w)

-----------------------------------------------------------------------------
(* CloseAll: Range over the map, Remove for each key.  sync.Map's Range      *)
(* visits a key at most once, surely if it stays stored from the beginning   *)
(* to the end, possibly if it is stored or deleted meanwhile.                *)
CloseAll(w) ==
  /\ At(w, "idle")
  /\ worker' = [worker EXCEPT ![w] = [Idle EXCEPT !.pc = "range", !.closing = TRUE,
                                                  !.due = Stored, !.left = Calls]]
  /\ found' = [found EXCEPT ![w] = StoredSessions]
  /\ UNCHANGED <<stored, count, created, live, got, published>>

RangeVisit(w) ==
  /\ At(w, "range")
  /\ \E c \in worker[w].left \cap Stored : Delete(w, c)

(* A mutant: Range stops before it has seen every key. *)
RangeEnd_Early(w) ==
  /\ At(w, "range")
  /\ worker' = [worker EXCEPT ![w] = Idle]
  /\ UNCHANGED <<stored, count, created, live, got, published, found>>

RangeEnd(w) ==
  /\ At(w, "range")
  /\ worker[w].due = {}
  /\ worker' = [worker EXCEPT ![w] = Idle]
  /\ UNCHANGED <<stored, count, created, live, got, published, found>>

CloseAllStep(w) == RangeVisit(w) \/ RangeEnd(w)

-----------------------------------------------------------------------------
(* The registry by itself, among goroutines that call it at will. *)
WorkerStep(w) == GetOrCreateStep(w) \/ RemoveStep(w) \/ CloseAllStep(w)

RegistryNext ==
  \E w \in Workers :
    \/ \E c \in Calls : Lookup(w, c) \/ Remove(w, c)
    \/ CloseAll(w)
    \/ WorkerStep(w)

RegistrySpec == RegistryInit /\ [][RegistryNext]_registryVars

-----------------------------------------------------------------------------
(* Types of the registry and of the locals of its methods. *)
RegistryTypeOK ==
  /\ stored \in [Calls -> Sessions \cup {None}]
  /\ count \in Int
  /\ created \in 0 .. MaxSessions
  /\ live \subseteq 1 .. created
  /\ worker \in [Workers -> WorkerState]
  /\ got \in [Workers -> Sessions \cup {None}]
  /\ published \subseteq Sessions
  /\ found \in [Workers -> SUBSET Sessions]

(* The count WaitForEmpty reads is the number of stored sessions, but for    *)
(* the goroutines that have changed the map and not yet the count.           *)
Adding == {w \in Workers : At(w, "add")}
Removing == {w \in Workers : At(w, "stop") \/ At(w, "subtract")}

CountMatchesSessions ==
  count + Cardinality(Adding) = Cardinality(Stored) + Cardinality(Removing)

(* No orchestrator is leaked: one that runs is stored, or a goroutine is     *)
(* about to store it or to stop it; and a stored one runs.                   *)
Holding == {w \in Workers : At(w, "store") \/ At(w, "discard") \/ At(w, "stop")}

EverySessionIsOwned == live = StoredSessions \cup {worker[w].sess : w \in Holding}

(* GetOrCreate returns a session every caller shares, never one of its own   *)
(* that lost the race to be stored.                                          *)
ReturnsTheSharedSession == \A w \in Workers : got[w] \in published \cup {None}

(* CloseAll leaves none of the sessions it found, whoever removed them and   *)
(* whatever was stored meanwhile.                                            *)
CloseAllRemovesWhatItFound ==
  \A w \in Workers : worker[w].closing \/ found[w] \cap StoredSessions = {}
=============================================================================
