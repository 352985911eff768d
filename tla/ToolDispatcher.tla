--------------------------- MODULE ToolDispatcher ---------------------------
(***************************************************************************)
(* pkg/ranya/dispatcher.go: a bounded queue of tool calls, workers that    *)
(* take them, retry them and give up on them after a timeout, a lock for   *)
(* each stream, and the result that goes back to the input of the pipeline *)
(* if there is room.                                                       *)
(***************************************************************************)
EXTENDS ToolCalls

CONSTANTS
  Workers, NoWorker,
  TaskCap,            \* capacity of tasks (64)
  InCap,              \* capacity of the pipeline's input
  Retries,
  HasTimeout,         \* a timeout is configured
  SerializeByStream

ASSUME DispatcherAssumption ==
  /\ NoWorker \notin Workers
  /\ TaskCap \in Nat /\ InCap \in Nat /\ Retries \in Nat
  /\ HasTimeout \in BOOLEAN /\ SerializeByStream \in BOOLEAN

VARIABLES
  tasks, in,
  streamLock,   \* streamLocks: who holds the lock of each stream
  worker,       \* the locals of each worker
  running       \* the attempts whose HandleTool has not returned

VARIABLES       \* history
  dispatched,   \* the calls accepted, in order
  started,      \* the attempts started, in order
  results,      \* the results sent or lost
  lost          \* the calls that a full queue or a full input has dropped

dispatcherVars == <<tasks, in, streamLock, worker, running, dispatched, started, results, lost>>

Idle == [pc |-> "idle", id |-> NoCall, stream |-> NoCall, attempt |-> 0, status |-> "ok"]

DispatcherInit ==
  /\ tasks = <<>> /\ in = <<>>
  /\ streamLock = [s \in Streams |-> NoWorker]
  /\ worker = [w \in Workers |-> Idle]
  /\ running = {}
  /\ dispatched = <<>> /\ started = <<>> /\ results = <<>> /\ lost = {}

Attempt(w) == [id |-> worker[w].id, stream |-> worker[w].stream, attempt |-> worker[w].attempt]
Awaited(a) == \E w \in Workers : worker[w].pc = "wait" /\ Attempt(w) = a

(* A mutant: the queue holds one call more. *)
Dispatch_OneMore(t) ==
  /\ IF Len(tasks) <= TaskCap
       THEN /\ tasks' = Append(tasks, t)
            /\ dispatched' = Append(dispatched, t)
            /\ UNCHANGED lost
       ELSE /\ lost' = lost \cup {t.id}
            /\ UNCHANGED <<tasks, dispatched>>
  /\ UNCHANGED <<in, streamLock, worker, running, started, results>>

(* Process, for a tool call. *)
Dispatch(t) ==
  /\ IF Len(tasks) < TaskCap
       THEN /\ tasks' = Append(tasks, t)
            /\ dispatched' = Append(dispatched, t)
            /\ UNCHANGED lost
       ELSE /\ lost' = lost \cup {t.id}
            /\ UNCHANGED <<tasks, dispatched>>
  /\ UNCHANGED <<in, streamLock, worker, running, started, results>>

Take(w) ==
  /\ worker[w].pc = "idle" /\ tasks # <<>>
  /\ tasks' = Tail(tasks)
  /\ worker' = [worker EXCEPT ![w] =
       [pc |-> IF SerializeByStream THEN "lock" ELSE "call", id |-> Head(tasks).id,
        stream |-> Head(tasks).stream, attempt |-> 1, status |-> "ok"]]
  /\ UNCHANGED <<in, streamLock, running, dispatched, started, results, lost>>

(* A mutant: the stream is not locked. *)
Lock_None(w) ==
  /\ worker[w].pc = "lock"
  /\ worker' = [worker EXCEPT ![w].pc = "call"]
  /\ UNCHANGED <<tasks, in, streamLock, running, dispatched, started, results, lost>>

Lock(w) ==
  /\ worker[w].pc = "lock"
  /\ streamLock[worker[w].stream] = NoWorker
  /\ streamLock' = [streamLock EXCEPT ![worker[w].stream] = w]
  /\ worker' = [worker EXCEPT ![w].pc = "call"]
  /\ UNCHANGED <<tasks, in, running, dispatched, started, results, lost>>

(* callWithTimeout starts the tool, in a goroutine if there is a timeout. *)
StartTool(w) ==
  /\ worker[w].pc = "call"
  /\ running' = running \cup {Attempt(w)}
  /\ started' = Append(started, Attempt(w))
  /\ worker' = [worker EXCEPT ![w].pc = "wait"]
  /\ UNCHANGED <<tasks, in, streamLock, dispatched, results, lost>>

(* A mutant: the return after a retry leaves the stream locked. *)
Unlocked_NotAfterRetry(w) ==
  IF SerializeByStream /\ worker[w].attempt = 1
    THEN [streamLock EXCEPT ![worker[w].stream] = NoWorker] ELSE streamLock

Unlocked(w) ==
  IF SerializeByStream THEN [streamLock EXCEPT ![worker[w].stream] = NoWorker] ELSE streamLock

(* A mutant: the first attempt is not counted. *)
Ended_OffByOne(w, status) ==
  IF status \in {"error", "timeout"} /\ worker[w].attempt <= Retries + 1
    THEN /\ worker' = [worker EXCEPT ![w].pc = "call", ![w].attempt = @ + 1]
         /\ UNCHANGED streamLock
    ELSE /\ worker' = [worker EXCEPT ![w].pc = "send", ![w].status = status]
         /\ streamLock' = Unlocked(w)

(* callWithRetry: a failed attempt is repeated, with the stream locked. *)
Ended(w, status) ==
  IF status \in {"error", "timeout"} /\ worker[w].attempt < Retries + 1
    THEN /\ worker' = [worker EXCEPT ![w].pc = "call", ![w].attempt = @ + 1]
         /\ UNCHANGED streamLock
    ELSE /\ worker' = [worker EXCEPT ![w].pc = "send", ![w].status = status]
         /\ streamLock' = Unlocked(w)

(* HandleTool returns.  A result that comes after the timeout goes into a    *)
(* channel nobody reads.                                                     *)
ToolReturns(a, status) ==
  /\ running' = running \ {a}
  /\ \/ \E w \in Workers :
          /\ worker[w].pc = "wait" /\ Attempt(w) = a
          /\ Ended(w, status)
     \/ /\ ~Awaited(a)
        /\ UNCHANGED <<worker, streamLock>>
  /\ UNCHANGED <<tasks, in, dispatched, started, results, lost>>

Timeout(w) ==
  /\ HasTimeout /\ worker[w].pc = "wait"
  /\ Ended(w, "timeout")
  /\ UNCHANGED <<tasks, in, running, dispatched, started, results, lost>>

SendResult(w) ==
  /\ worker[w].pc = "send"
  /\ LET r == [id |-> worker[w].id, stream |-> worker[w].stream, status |-> worker[w].status]
     IN /\ results' = Append(results, r)
        /\ IF Len(in) < InCap
             THEN in' = Append(in, r) /\ UNCHANGED lost
             ELSE lost' = lost \cup {r.id} /\ UNCHANGED in
  /\ worker' = [worker EXCEPT ![w] = Idle]
  /\ UNCHANGED <<tasks, streamLock, running, dispatched, started>>

WorkerStep(w) == Take(w) \/ Lock(w) \/ StartTool(w) \/ Timeout(w) \/ SendResult(w)

-----------------------------------------------------------------------------
(* Types of the dispatcher's fields and of its workers' locals.              *)
DispatcherTypeOK ==
  /\ tasks \in Seq(Task) /\ Len(tasks) <= TaskCap
  /\ in \in Seq(Result) /\ Len(in) <= InCap
  /\ streamLock \in [Streams -> Workers \cup {NoWorker}]
  /\ worker \in [Workers -> [pc : {"idle", "lock", "call", "wait", "send"},
                             id : Calls \cup {NoCall}, stream : Streams \cup {NoCall},
                             attempt : 0 .. Retries + 1, status : Outcomes \cup {"timeout"}]]
  /\ running \subseteq [id : Calls, stream : Streams, attempt : 1 .. Retries + 1]
  /\ results \in Seq(Result) /\ lost \subseteq Calls

(* serialize_by_stream: of a stream's tools at most one is waited for at a   *)
(* time, through retries and timeouts; others run only beyond their timeout. *)
StreamSerialized ==
  SerializeByStream =>
    \A a, b \in running : Awaited(a) /\ Awaited(b) /\ a.stream = b.stream => a = b

(* docs/en/concepts.md: retries and timeouts are enforced.  A tool is tried  *)
(* at most once more than there are retries, each time as the attempt after  *)
(* the last, not again after its result was sent, and a call has one result, *)
(* whatever comes late.                                                      *)
RetriesEnforced ==
  /\ \A i, j \in DOMAIN started :
       i < j /\ started[i].id = started[j].id => started[i].attempt < started[j].attempt
  /\ \A i \in DOMAIN started : started[i].attempt \in 1 .. Retries + 1
  /\ \A i, j \in DOMAIN results : results[i].id = results[j].id => i = j
  /\ \A i \in DOMAIN results :
       ~ \E w \in Workers : worker[w].pc # "idle" /\ worker[w].id = results[i].id

(* docs/en/tools-confirmation.md: serialize_by_stream avoids out-of-order    *)
(* tool execution.  So a stream's tools start in the order of their calls.   *)
(* Two workers that took two calls may lock the stream the other way round.  *)
StartedInOrder ==
  SerializeByStream =>
    \A i, j \in DOMAIN started :
      i < j /\ started[i].stream = started[j].stream =>
        \E m, n \in DOMAIN dispatched :
          m <= n /\ dispatched[m].id = started[i].id /\ dispatched[n].id = started[j].id
=============================================================================
