--------------------------- MODULE DialogueFrames ---------------------------
(* The frames ContextProcessor and Router exchange (pkg/frames/frame.go): the *)
(* kind, the stream, the scope that the meta gives, and what it is about.    *)
EXTENDS Naturals, SequencesExt

CONSTANTS
  Streams,
  Call               \* the call they are all of: the scope of frames that name it

Scopes == Streams \cup {Call}

Frame(kind, s, scope, about) == [kind |-> kind, stream |-> s, scope |-> scope, about |-> about]

(* A text is a sequence of words. *)
TextFrame(source, s, scope, words) ==
  [kind |-> "text", stream |-> s, scope |-> scope, source |-> source, words |-> words]

(* As it leaves the router: with its agent, and what the router made of it. *)
Routed(t, agent, lang, routed) ==
  [kind |-> "text", stream |-> t.stream, scope |-> t.scope, source |-> t.source,
   words |-> t.words, agent |-> agent, lang |-> lang, routed |-> routed]
=============================================================================
