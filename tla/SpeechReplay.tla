---------------------------- MODULE SpeechReplay ----------------------------
(***************************************************************************)
(* Speech with a history of what retries throw away: of each stream, what  *)
(* the session that a retry has closed last had been given.                *)
(***************************************************************************)
EXTENDS Speech

VARIABLE broken

HistoryInit == Init /\ broken = [s \in Streams |-> <<>>]

(* The first retry of a frame closes the session that failed, the others the *)
(* ones that the retries opened.                                             *)
Retries == stt.task.pc = "retry" /\ stt'.task.pc = "create"

GivenBefore ==
  LET failed == STT!OfStream(stt, stt.task.frame.stream)
  IN IF failed = {} THEN <<>> ELSE stt.sessions[CHOOSE i \in failed : TRUE].got

HistoryNext ==
  /\ Next
  /\ broken' = IF Retries /\ stt.task.tries = 0
                 THEN [broken EXCEPT ![stt.task.frame.stream] = GivenBefore]
                 ELSE broken

HistorySpec == HistoryInit /\ [][HistoryNext]_<<vars, broken>>

(* stt_processor.go:121: SetReplayBuffer configures how many recent audio    *)
(* chunks to replay on reconnect.  So when a session has failed and a retry  *)
(* has opened another, the new one is given what the old one had been given, *)
(* as long as the buffer holds everything that came.                         *)
ReconnectReplaysAudio ==
  \A i \in DOMAIN stt.sessions :
    LET session == stt.sessions[i]
    IN session.origin = "retry" /\ session.got # <<>> /\ ReplayCap >= LastItem
         => ToSet(broken[session.stream]) \subseteq ToSet(session.got)

(* Bound: two pieces of audio. *)
TwoPieces == {[audio |-> 2, system |-> 0, texts |-> 0, controls |-> 0, ends |-> 0]}
=============================================================================
