--------------------------- MODULE DialogueProofs ---------------------------
(***************************************************************************)
(* What the model is given, for any streams, facts, agents and languages,  *)
(* in every mode of the router and with any amount of frames: routing      *)
(* stops, a text finds its context, and every word arrives once, in order. *)
(***************************************************************************)
EXTENDS Dialogue, SequenceTheorems, FiniteSetTheorems, TLAPS

-----------------------------------------------------------------------------
(* Sequences: one more frame, and the greatest of some positions.            *)
LEMMA OneMore ==
  ASSUME NEW S, NEW c \in Seq(S), NEW g \in S, NEW d, d = Append(c, g)
  PROVE  /\ Len(c) \in Nat /\ DOMAIN c = 1 .. Len(c)
         /\ d \in Seq(S) /\ Len(d) = Len(c) + 1 /\ DOMAIN d = 1 .. Len(c) + 1
         /\ d[Len(c) + 1] = g
         /\ \A j \in 1 .. Len(c) : d[j] = c[j]
<1>1. Len(c) \in Nat /\ DOMAIN c = 1 .. Len(c)
  BY LenProperties
<1>2. d \in Seq(S) /\ Len(d) = Len(c) + 1 /\ d[Len(c) + 1] = g /\ \A j \in 1 .. Len(c) : d[j] = c[j]
  OBVIOUS
<1>3. DOMAIN d = 1 .. Len(c) + 1
  BY <1>2, LenProperties
<1> QED
  BY <1>1, <1>2, <1>3

LEMMA MaxIs ==
  ASSUME NEW T \in SUBSET Nat, NEW m \in T, \A x \in T : m >= x
  PROVE  Max(T) = m
<1>1. \A y \in T : (\A x \in T : y >= x) => y = m
  OBVIOUS
<1> QED
  BY <1>1 DEF Max

-----------------------------------------------------------------------------
(* The shared context told last, or none; as a relation, since Max is a      *)
(* choice, and whether there is one to choose has to be known first.         *)
ToldIs(c, scope, i, a) ==
  LET told == SinceEnd(c, {"shared"}, scope, i)
  IN \/ told = {} /\ a = {}
     \/ \E m \in told : (\A x \in told : m >= x) /\ a = c[m].about

LEMMA ToldIsTold ==
  ASSUME NEW c, NEW scope, NEW i, NEW a, ToldIs(c, scope, i, a), DOMAIN c \subseteq Nat
  PROVE  ToldAt(c, scope, i) = a
<1>1. PICK told : told = SinceEnd(c, {"shared"}, scope, i)
  OBVIOUS
<1>2. told \in SUBSET Nat
  BY <1>1 DEF SinceEnd, Before
<1>3. CASE told = {} /\ a = {}
  BY <1>1, <1>3 DEF ToldAt
<1>4. CASE told # {}
  <2>1. PICK m \in told : (\A x \in told : m >= x) /\ a = c[m].about
    BY <1>1, <1>4 DEF ToldIs
  <2>2. Max(told) = m
    BY <1>2, <2>1, MaxIs
  <2> QED
    BY <1>1, <1>4, <2>1, <2>2 DEF ToldAt
<1> QED
  BY <1>1, <1>3, <1>4 DEF ToldIs

(* What the properties say of a position: whether the call has ended before  *)
(* it, whether the prompt has come, the facts, and what was told of them.    *)
IsPrompted(c, scope, i) ==
  LET prompts == SinceEnd(c, {"prompt"}, scope, i)
  IN \E p \in prompts : prompts = {p}
IsUnprompted(c, scope, i) == SinceEnd(c, {"prompt"}, scope, i) = {}

Alike(c, i, d, k, scope) ==
  /\ EndsAt(c, scope, i) = {} <=> EndsAt(d, scope, k) = {}
  /\ IsPrompted(c, scope, i) <=> IsPrompted(d, scope, k)
  /\ IsUnprompted(c, scope, i) <=> IsUnprompted(d, scope, k)
  /\ FactsAt(c, scope, i) = FactsAt(d, scope, k)
  /\ \A a : ToldIs(c, scope, i, a) <=> ToldIs(d, scope, k, a)

(* They only depend on some frames of the scope and their order: e maps those *)
(* of c before i to those of d before k.                                     *)
ContextKinds == {"prompt", "shared", "call_start", "bootstrap", "call_end"}

Relevant(f, scope) == f.kind \in ContextKinds /\ f.scope = scope

Embeds(c, i, d, k, scope, e) ==
  /\ \A j \in Before(c, i) : Relevant(c[j], scope) => e[j] \in Before(d, k) /\ d[e[j]] = c[j]
  /\ \A m \in Before(d, k) : Relevant(d[m], scope) =>
       \E j \in Before(c, i) : Relevant(c[j], scope) /\ e[j] = m
  /\ \A j, l \in Before(c, i) : j < l <=> e[j] < e[l]
  /\ \A j, l \in Before(c, i) : j >= l <=> e[j] >= e[l]
  /\ \A j, l \in Before(c, i) : j = l <=> e[j] = e[l]

LEMMA EmbeddedSince ==
  ASSUME NEW c, NEW i, NEW d, NEW k, NEW scope, NEW e, Embeds(c, i, d, k, scope, e),
         NEW K \in SUBSET ContextKinds
  PROVE  /\ SinceEnd(c, K, scope, i) \subseteq Before(c, i)
         /\ SinceEnd(d, K, scope, k) = {e[j] : j \in SinceEnd(c, K, scope, i)}
         /\ \A j \in SinceEnd(c, K, scope, i) : d[e[j]] = c[j]
         /\ EndsAt(c, scope, i) = {} <=> EndsAt(d, scope, k) = {}
<1>1. /\ \A j \in EndsAt(c, scope, i) : j \in Before(c, i) /\ Relevant(c[j], scope)
      /\ \A m \in EndsAt(d, scope, k) : m \in Before(d, k) /\ Relevant(d[m], scope)
  BY DEF EndsAt, Relevant, ContextKinds
<1>2. /\ \A j \in SinceEnd(c, K, scope, i) : j \in Before(c, i) /\ Relevant(c[j], scope)
      /\ \A m \in SinceEnd(d, K, scope, k) : m \in Before(d, k) /\ Relevant(d[m], scope)
  BY DEF SinceEnd, Relevant
<1>3. /\ \A j \in EndsAt(c, scope, i) : e[j] \in EndsAt(d, scope, k)
      /\ \A m \in EndsAt(d, scope, k) : \E j \in EndsAt(c, scope, i) : e[j] = m
  BY <1>1 DEF Embeds, EndsAt
<1>4. ASSUME NEW j \in SinceEnd(c, K, scope, i)
      PROVE  e[j] \in SinceEnd(d, K, scope, k) /\ d[e[j]] = c[j]
  <2>1. j \in Before(c, i) /\ e[j] \in Before(d, k) /\ d[e[j]] = c[j]
    BY <1>2 DEF Embeds
  <2>2. c[j].kind \in K /\ c[j].scope = scope /\ \A x \in EndsAt(c, scope, i) : x < j
    BY DEF SinceEnd
  <2>3. ASSUME NEW y \in EndsAt(d, scope, k)
        PROVE  y < e[j]
    <3>1. PICK x \in EndsAt(c, scope, i) : e[x] = y
      BY <1>3
    <3>2. x < j /\ x \in Before(c, i)
      BY <1>1, <2>2
    <3> QED
      BY <2>1, <3>1, <3>2 DEF Embeds
  <2> QED
    BY <2>1, <2>2, <2>3 DEF SinceEnd
<1>5. ASSUME NEW m \in SinceEnd(d, K, scope, k)
      PROVE  \E j \in SinceEnd(c, K, scope, i) : e[j] = m
  <2>1. PICK j \in Before(c, i) : Relevant(c[j], scope) /\ e[j] = m
    BY <1>2 DEF Embeds
  <2>2. d[m] = c[j]
    BY <2>1 DEF Embeds
  <2>3. d[m].kind \in K /\ d[m].scope = scope /\ \A y \in EndsAt(d, scope, k) : y < m
    BY DEF SinceEnd
  <2>4. \A x \in EndsAt(c, scope, i) : x < j
    BY <1>1, <1>3, <2>1, <2>3 DEF Embeds
  <2>5. j \in SinceEnd(c, K, scope, i)
    BY <2>1, <2>2, <2>3, <2>4 DEF SinceEnd
  <2> QED
    BY <2>1, <2>5
<1> QED
  BY <1>2, <1>3, <1>4, <1>5

News == {"call_start", "bootstrap"}

FollowedBy(c, Q, d, R, e) ==
  /\ R = {e[j] : j \in Q} /\ \A j \in Q : d[e[j]] = c[j]
  /\ \A j, l \in Q : j < l <=> e[j] < e[l]

LEMMA FactsFollow ==
  ASSUME NEW c, NEW i, NEW d, NEW k, NEW scope, NEW e,
         FollowedBy(c, SinceEnd(c, News, scope, i), d, SinceEnd(d, News, scope, k), e)
  PROVE  FactsAt(c, scope, i) = FactsAt(d, scope, k)
<1>1. PICK Q : Q = SinceEnd(c, News, scope, i)
  OBVIOUS
<1>2. PICK R : R = SinceEnd(d, News, scope, k)
  OBVIOUS
<1>3. /\ R = {e[j] : j \in Q} /\ \A j \in Q : d[e[j]] = c[j]
      /\ \A j, l \in Q : j < l <=> e[j] < e[l]
  BY <1>1, <1>2 DEF FollowedBy
<1>4. PICK news : news = {j \in Q : c[j].about # NoFact}
  OBVIOUS
<1>5. PICK mews : mews = {m \in R : d[m].about # NoFact}
  OBVIOUS
<1>6. mews = {e[j] : j \in news} /\ \A j \in news : d[e[j]] = c[j]
  BY <1>3, <1>4, <1>5
<1>7. \A j, l \in news : j < l <=> e[j] < e[l]
  BY <1>3, <1>4
<1>8. \A j, l \in news : j > l <=> e[j] > e[l]
  BY <1>7
<1>9. PICK last : last = {x \in news : \A l \in news : l > x => c[l].about.key # c[x].about.key}
  OBVIOUS
<1>10. PICK mast : mast = {x \in mews : \A l \in mews : l > x => d[l].about.key # d[x].about.key}
  OBVIOUS
<1>11. \A x \in news : x \in last <=> e[x] \in mast
  BY <1>6, <1>8, <1>9, <1>10
<1>12. {c[j].about : j \in last} = {d[m].about : m \in mast}
  BY <1>6, <1>9, <1>10, <1>11
<1>13. FactsAt(c, scope, i) = {c[j].about : j \in last}
  BY <1>1, <1>4, <1>9 DEF FactsAt, News
<1>14. FactsAt(d, scope, k) = {d[m].about : m \in mast}
  BY <1>2, <1>5, <1>10 DEF FactsAt, News
<1> QED
  BY <1>12, <1>13, <1>14

LEMMA EmbeddedFacts ==
  ASSUME NEW c, NEW i, NEW d, NEW k, NEW scope, NEW e, Embeds(c, i, d, k, scope, e)
  PROVE  FactsAt(c, scope, i) = FactsAt(d, scope, k)
<1>1. PICK Q : Q = SinceEnd(c, News, scope, i)
  OBVIOUS
<1>2. PICK R : R = SinceEnd(d, News, scope, k)
  OBVIOUS
<1>3. News \in SUBSET ContextKinds
  BY DEF ContextKinds, News
<1>4. Q \subseteq Before(c, i) /\ R = {e[j] : j \in Q} /\ \A j \in Q : d[e[j]] = c[j]
  BY <1>1, <1>2, <1>3, EmbeddedSince
<1>5. \A j, l \in Q : j < l <=> e[j] < e[l]
  BY <1>4 DEF Embeds
<1>6. FollowedBy(c, Q, d, R, e)
  BY <1>4, <1>5 DEF FollowedBy
<1> QED
  BY <1>1, <1>2, <1>6, FactsFollow

LEMMA EmbeddedAlike ==
  ASSUME NEW c, NEW i, NEW d, NEW k, NEW scope, NEW e, Embeds(c, i, d, k, scope, e)
  PROVE  Alike(c, i, d, k, scope)
<1>1. ASSUME NEW K \in SUBSET ContextKinds
      PROVE  /\ SinceEnd(c, K, scope, i) \subseteq Before(c, i)
             /\ SinceEnd(d, K, scope, k) = {e[j] : j \in SinceEnd(c, K, scope, i)}
             /\ \A j \in SinceEnd(c, K, scope, i) : d[e[j]] = c[j]
             /\ EndsAt(c, scope, i) = {} <=> EndsAt(d, scope, k) = {}
  BY EmbeddedSince
<1>2. {"prompt"} \in SUBSET ContextKinds /\ {"shared"} \in SUBSET ContextKinds
  BY DEF ContextKinds
<1>3. /\ IsPrompted(c, scope, i) <=> IsPrompted(d, scope, k)
      /\ IsUnprompted(c, scope, i) <=> IsUnprompted(d, scope, k)
  <2>1. PICK Q : Q = SinceEnd(c, {"prompt"}, scope, i)
    OBVIOUS
  <2>2. PICK R : R = SinceEnd(d, {"prompt"}, scope, k)
    OBVIOUS
  <2>3. R = {e[j] : j \in Q} /\ \A j, l \in Q : j = l <=> e[j] = e[l]
    BY <1>1, <1>2, <2>1, <2>2 DEF Embeds
  <2>4. Q = {} <=> R = {}
    BY <2>3
  <2>5. ASSUME NEW p, Q = {p}
        PROVE  R = {e[p]}
    BY <2>3, <2>5
  <2>6. ASSUME NEW p, R = {p}
        PROVE  \E q : Q = {q}
    <3>1. PICK q \in Q : e[q] = p
      BY <2>3, <2>6
    <3>2. \A j \in Q : j = q
      BY <2>3, <2>6, <3>1
    <3>3. Q = {q}
      BY <3>1, <3>2
    <3> QED
      BY <3>3
  <2> QED
    BY <2>1, <2>2, <2>4, <2>5, <2>6 DEF IsPrompted, IsUnprompted
<1>4. ASSUME NEW a
      PROVE  ToldIs(c, scope, i, a) <=> ToldIs(d, scope, k, a)
  <2>1. PICK Q : Q = SinceEnd(c, {"shared"}, scope, i)
    OBVIOUS
  <2>2. PICK R : R = SinceEnd(d, {"shared"}, scope, k)
    OBVIOUS
  <2>3. R = {e[j] : j \in Q} /\ \A j, l \in Q : j >= l <=> e[j] >= e[l]
    BY <1>1, <1>2, <2>1, <2>2 DEF Embeds
  <2>4. \A j \in Q : d[e[j]] = c[j]
    BY <1>1, <1>2, <2>1
  <2>5. (\E m \in Q : (\A x \in Q : m >= x) /\ a = c[m].about)
          <=> (\E m \in R : (\A x \in R : m >= x) /\ a = d[m].about)
    BY <2>3, <2>4
  <2>6. Q = {} <=> R = {}
    BY <2>3
  <2> QED
    BY <2>1, <2>2, <2>5, <2>6 DEF ToldIs
<1> QED
  BY <1>1, <1>2, <1>3, <1>4, EmbeddedFacts DEF Alike

-----------------------------------------------------------------------------
(* One frame more.                                                           *)
Grows(c, g, d) == \E S : c \in Seq(S) /\ g \in S /\ d = Append(c, g)

LEMMA GrowsBy ==
  ASSUME NEW c, NEW g, NEW d, Grows(c, g, d)
  PROVE  /\ Len(c) \in Nat /\ DOMAIN c = 1 .. Len(c)
         /\ Len(d) = Len(c) + 1 /\ DOMAIN d = 1 .. Len(c) + 1
         /\ d[Len(c) + 1] = g
         /\ \A j \in 1 .. Len(c) : d[j] = c[j]
BY OneMore DEF Grows

LEMMA PrefixIsAlike ==
  ASSUME NEW c, NEW g, NEW d, Grows(c, g, d), NEW i \in 1 .. Len(c) + 1, NEW scope
  PROVE  Alike(c, i, d, i, scope)
<1>1. PICK e : e = [j \in Before(c, i) |-> j]
  OBVIOUS
<1>2. Before(c, i) = Before(d, i) /\ \A j \in Before(c, i) : j \in Nat /\ e[j] = j /\ d[j] = c[j]
  BY <1>1, GrowsBy DEF Before
<1>3. Embeds(c, i, d, i, scope, e)
  BY <1>2 DEF Embeds
<1> QED
  BY <1>3, EmbeddedAlike

(* The position behind all of c.                                             *)
Behind(c) == Len(c) + 1

LEMMA BehindGrows ==
  ASSUME NEW c, NEW g, NEW d, Grows(c, g, d)
  PROVE  /\ Before(c, Behind(c)) = DOMAIN c /\ Before(d, Behind(d)) = DOMAIN c \cup {Len(d)}
         /\ Len(d) \in Nat /\ Len(d) \notin DOMAIN c /\ d[Len(d)] = g
         /\ \A j \in DOMAIN c : j \in Nat /\ j < Len(d) /\ d[j] = c[j]
<1>1. PICK n : n = Len(c)
  OBVIOUS
<1>2. /\ n \in Nat /\ DOMAIN c = 1 .. n /\ Len(d) = n + 1 /\ DOMAIN d = 1 .. n + 1
      /\ d[n + 1] = g /\ \A j \in 1 .. n : d[j] = c[j]
  BY <1>1, GrowsBy
<1>3. Behind(c) = n + 1 /\ Behind(d) = n + 2
  BY <1>1, <1>2 DEF Behind
<1>4. Before(c, n + 1) = 1 .. n /\ Before(d, n + 2) = 1 .. n + 1
  BY <1>2 DEF Before
<1>5. 1 .. n + 1 = (1 .. n) \cup {n + 1}
  BY <1>2
<1>6. n + 1 \in Nat /\ \A j \in 1 .. n : j \in Nat /\ j < n + 1
  BY <1>2
<1> QED
  BY <1>2, <1>3, <1>4, <1>5, <1>6

LEMMA IrrelevantIsAlike ==
  ASSUME NEW c, NEW g, NEW d, Grows(c, g, d), NEW scope, ~Relevant(g, scope)
  PROVE  Alike(c, Behind(c), d, Behind(d), scope)
<1>1. PICK e : e = [j \in DOMAIN c |-> j]
  OBVIOUS
<1>2. /\ Before(c, Behind(c)) = DOMAIN c /\ Before(d, Behind(d)) = DOMAIN c \cup {Len(d)}
      /\ d[Len(d)] = g /\ \A j \in DOMAIN c : e[j] = j /\ d[j] = c[j]
  BY <1>1, BehindGrows
<1>3. Embeds(c, Behind(c), d, Behind(d), scope, e)
  BY <1>2 DEF Embeds
<1> QED
  BY <1>3, EmbeddedAlike

(* The end of a call comes behind everything of its scope.                   *)
LEMMA AfterTheEnd ==
  ASSUME NEW c, NEW g, NEW d, Grows(c, g, d), g.kind = "call_end", NEW K
  PROVE  SinceEnd(d, K, g.scope, Behind(d)) = {} /\ EndsAt(d, g.scope, Behind(d)) # {}
<1>1. /\ Before(d, Behind(d)) = DOMAIN c \cup {Len(d)} /\ d[Len(d)] = g
      /\ Len(d) \in Nat /\ \A j \in DOMAIN c : j \in Nat /\ j < Len(d)
  BY BehindGrows
<1>2. Len(d) \in EndsAt(d, g.scope, Behind(d))
  BY <1>1 DEF EndsAt
<1>3. ASSUME NEW j \in SinceEnd(d, K, g.scope, Behind(d))
      PROVE  FALSE
  <2>1. j \in DOMAIN c \cup {Len(d)} /\ Len(d) < j
    BY <1>1, <1>2, <1>3 DEF SinceEnd
  <2> QED
    BY <1>1, <2>1
<1> QED
  BY <1>2, <1>3

(* Any other frame ends nothing, and is one more of its scope's since.       *)
LEMMA EndsNext ==
  ASSUME NEW c, NEW g, NEW d, Grows(c, g, d), g.kind # "call_end", NEW scope
  PROVE  EndsAt(d, scope, Behind(d)) = EndsAt(c, scope, Behind(c))
BY BehindGrows DEF EndsAt

LEMMA SinceNext ==
  ASSUME NEW c, NEW g, NEW d, Grows(c, g, d), g.kind # "call_end", NEW scope, NEW K
  PROVE  /\ g.kind \in K /\ g.scope = scope =>
              SinceEnd(d, K, scope, Behind(d)) = SinceEnd(c, K, scope, Behind(c)) \cup {Len(d)}
         /\ ~(g.kind \in K /\ g.scope = scope) =>
              SinceEnd(d, K, scope, Behind(d)) = SinceEnd(c, K, scope, Behind(c))
<1>1. /\ Before(c, Behind(c)) = DOMAIN c /\ Before(d, Behind(d)) = DOMAIN c \cup {Len(d)}
      /\ Len(d) \notin DOMAIN c /\ d[Len(d)] = g
      /\ \A j \in DOMAIN c : j < Len(d) /\ d[j] = c[j]
  BY BehindGrows
<1>2. PICK E : E = EndsAt(c, scope, Behind(c))
  OBVIOUS
<1>3. EndsAt(d, scope, Behind(d)) = E /\ E \subseteq DOMAIN c
  BY <1>1, <1>2, EndsNext DEF EndsAt
<1>4. PICK C : C = SinceEnd(c, K, scope, Behind(c))
  OBVIOUS
<1>5. PICK D : D = SinceEnd(d, K, scope, Behind(d))
  OBVIOUS
<1>6. \A j : j \in C <=> /\ j \in DOMAIN c /\ c[j].kind \in K /\ c[j].scope = scope
                         /\ \A e \in E : e < j
  BY <1>1, <1>2, <1>4 DEF SinceEnd
<1>7. \A j : j \in D <=> /\ j \in DOMAIN c \cup {Len(d)} /\ d[j].kind \in K /\ d[j].scope = scope
                         /\ \A e \in E : e < j
  BY <1>1, <1>3, <1>5 DEF SinceEnd
<1>8. \A j \in DOMAIN c : j \in D <=> j \in C
  BY <1>1, <1>6, <1>7
<1>9. Len(d) \in D <=> g.kind \in K /\ g.scope = scope
  BY <1>1, <1>3, <1>7
<1>10. C \subseteq DOMAIN c /\ D \subseteq DOMAIN c \cup {Len(d)}
  BY <1>6, <1>7
<1>11. CASE g.kind \in K /\ g.scope = scope
  <2>1. D = C \cup {Len(d)}
    BY <1>8, <1>9, <1>10, <1>11
  <2> QED
    BY <1>4, <1>5, <1>11, <2>1
<1>12. CASE ~(g.kind \in K /\ g.scope = scope)
  <2>1. D = C
    BY <1>8, <1>9, <1>10, <1>12
  <2> QED
    BY <1>4, <1>5, <1>12, <2>1
<1> QED
  BY <1>11, <1>12

-----------------------------------------------------------------------------
(* The ledger of a scope at the end of c: the facts it has, those told last, *)
(* and whether its prompt has come.                                          *)
Ledger(c, scope, known, told, had) ==
  LET end == Behind(c)
  IN /\ FactsAt(c, scope, end) = known
     /\ IF told = Nothing THEN ToldIs(c, scope, end, {}) ELSE ToldIs(c, scope, end, told)
     /\ known = {} => told = Nothing
     /\ HasPrompt /\ EndsAt(c, scope, end) = {} =>
          IF had THEN IsPrompted(c, scope, end) ELSE IsUnprompted(c, scope, end)

(* Every text has found its context. *)
Contexted(c, i) ==
  LET scope == c[i].scope
  IN /\ HasPrompt /\ EndsAt(c, scope, i) = {} => IsPrompted(c, scope, i)
     /\ ToldIs(c, scope, i, FactsAt(c, scope, i))

NeedsContext(f) == f.kind = "text" /\ f.source # "image"

AllContexted(c) == \A i \in DOMAIN c : NeedsContext(c[i]) => Contexted(c, i)

LEMMA ContextIsFound ==
  ASSUME NEW S, NEW c \in Seq(S), NEW i \in DOMAIN c, Contexted(c, i)
  PROVE  FindsItsContext(c, i)
<1>1. PICK scope : scope = c[i].scope
  OBVIOUS
<1>2. DOMAIN c \subseteq Nat
  BY LenProperties
<1>3. ToldAt(c, scope, i) = FactsAt(c, scope, i)
  BY <1>1, <1>2, ToldIsTold DEF Contexted
<1>4. ASSUME HasPrompt /\ EndsAt(c, scope, i) = {}
      PROVE  Cardinality(SinceEnd(c, {"prompt"}, scope, i)) = 1
  <2>1. PICK p : SinceEnd(c, {"prompt"}, scope, i) = {p}
    BY <1>1, <1>4 DEF Contexted, IsPrompted
  <2> QED
    BY <2>1, FS_Singleton
<1> QED
  BY <1>1, <1>3, <1>4 DEF FindsItsContext

LEMMA AlikeContexted ==
  ASSUME NEW c, NEW i, NEW d, NEW k, Alike(c, i, d, k, c[i].scope), d[k].scope = c[i].scope,
         Contexted(c, i)
  PROVE  Contexted(d, k)
BY DEF Alike, Contexted

LEMMA AlikeLedger ==
  ASSUME NEW c, NEW d, NEW scope, Alike(c, Behind(c), d, Behind(d), scope),
         NEW known, NEW told, NEW had, Ledger(c, scope, known, told, had)
  PROVE  Ledger(d, scope, known, told, had)
BY DEF Alike, Ledger

(* A frame behind c leaves its texts alone, and needs no context itself      *)
(* unless it is a text.                                                      *)
LEMMA ContextKept ==
  ASSUME NEW c, NEW g, NEW d, Grows(c, g, d), AllContexted(c),
         NeedsContext(g) => Contexted(d, Len(c) + 1)
  PROVE  AllContexted(d)
<1>1. /\ Len(c) \in Nat /\ DOMAIN c = 1 .. Len(c) /\ DOMAIN d = 1 .. Len(c) + 1 /\ d[Len(c) + 1] = g
      /\ \A j \in 1 .. Len(c) : d[j] = c[j]
  BY GrowsBy
<1>2. ASSUME NEW i \in 1 .. Len(c), NeedsContext(d[i])
      PROVE  Contexted(d, i)
  <2>1. d[i] = c[i] /\ i \in DOMAIN c /\ i \in 1 .. Len(c) + 1
    BY <1>1
  <2>2. Contexted(c, i)
    BY <1>2, <2>1 DEF AllContexted
  <2>3. Alike(c, i, d, i, c[i].scope)
    BY <2>1, PrefixIsAlike
  <2> QED
    BY <2>1, <2>2, <2>3, AlikeContexted
<1>3. \A i \in DOMAIN d : i \in 1 .. Len(c) \/ i = Len(c) + 1
  BY <1>1
<1> QED
  BY <1>1, <1>2, <1>3 DEF AllContexted

(* A text finds its context when the ledger says that the prompt has come    *)
(* and that all that is known has been told.                                 *)
LEMMA TextIsContexted ==
  ASSUME NEW c, NEW g, NEW d, Grows(c, g, d), NEW known, NEW told, NEW had,
         Ledger(c, g.scope, known, told, had), HasPrompt => had,
         known = {} \/ told = known, known # Nothing
  PROVE  Contexted(d, Len(c) + 1)
<1>1. Len(c) \in Nat /\ d[Len(c) + 1] = g /\ Len(c) + 1 \in 1 .. Len(c) + 1
  BY GrowsBy
<1>2. PICK i : i = Len(c) + 1 /\ i = Behind(c)
  BY DEF Behind
<1>3. Alike(c, i, d, i, g.scope)
  BY <1>1, <1>2, PrefixIsAlike
<1>4. /\ FactsAt(c, g.scope, i) = known
      /\ ToldIs(c, g.scope, i, known)
      /\ HasPrompt /\ EndsAt(c, g.scope, i) = {} => IsPrompted(c, g.scope, i)
  BY <1>2 DEF Ledger
<1> QED
  BY <1>1, <1>2, <1>3, <1>4 DEF Contexted, Alike

-----------------------------------------------------------------------------
(* What each kind of frame does to the ledger of a scope.                    *)
LEMMA LedgerPasses ==
  ASSUME NEW c, NEW g, NEW d, Grows(c, g, d), NEW scope, ~Relevant(g, scope),
         NEW known, NEW told, NEW had, Ledger(c, scope, known, told, had)
  PROVE  Ledger(d, scope, known, told, had)
BY IrrelevantIsAlike, AlikeLedger

LEMMA FactsNext ==
  ASSUME NEW c, NEW g, NEW d, Grows(c, g, d), NEW scope, g.kind # "call_end", g.kind \notin News
  PROVE  FactsAt(d, scope, Behind(d)) = FactsAt(c, scope, Behind(c))
<1>1. PICK Q : Q = SinceEnd(c, News, scope, Behind(c))
  OBVIOUS
<1>2. Q = SinceEnd(d, News, scope, Behind(d))
  BY <1>1, SinceNext
<1>3. PICK e : e = [j \in Q |-> j]
  OBVIOUS
<1>4. \A j \in Q : e[j] = j /\ d[j] = c[j]
  <2>1. Q \subseteq DOMAIN c
    BY <1>1, BehindGrows DEF SinceEnd
  <2> QED
    BY <1>3, <2>1, BehindGrows
<1>5. Q = {e[j] : j \in Q}
  BY <1>4
<1>6. (\A j \in Q : d[e[j]] = c[j]) /\ \A j, l \in Q : j < l <=> e[j] < e[l]
  BY <1>4
<1>7. FollowedBy(c, Q, d, Q, e)
  BY <1>5, <1>6 DEF FollowedBy
<1>8. FollowedBy(c, SinceEnd(c, News, scope, Behind(c)), d, SinceEnd(d, News, scope, Behind(d)), e)
  BY <1>1, <1>2, <1>7, Zenon
<1> QED
  BY <1>8, FactsFollow

LEMMA ToldNext ==
  ASSUME NEW c, NEW g, NEW d, Grows(c, g, d), NEW scope, g.kind # "call_end", g.kind # "shared"
  PROVE  \A a : ToldIs(c, scope, Behind(c), a) <=> ToldIs(d, scope, Behind(d), a)
<1>1. PICK Q : Q = SinceEnd(c, {"shared"}, scope, Behind(c))
  OBVIOUS
<1>2. Q = SinceEnd(d, {"shared"}, scope, Behind(d))
  <2>1. g.kind \notin {"shared"}
    OBVIOUS
  <2> QED
    BY <1>1, <2>1, SinceNext
<1>3. \A j \in Q : d[j] = c[j]
  <2>1. Q \subseteq DOMAIN c
    BY <1>1, BehindGrows DEF SinceEnd
  <2> QED
    BY <2>1, BehindGrows
<1> QED
  BY <1>1, <1>2, <1>3 DEF ToldIs

LEMMA LedgerPrompted ==
  ASSUME NEW c, NEW g, NEW d, Grows(c, g, d), g.kind = "prompt",
         NEW known, NEW told, Ledger(c, g.scope, known, told, FALSE)
  PROVE  Ledger(d, g.scope, known, told, TRUE)
<1>1. g.kind # "call_end" /\ g.kind \notin News /\ g.kind # "shared" /\ g.kind \in {"prompt"}
  BY DEF News
<1>2. EndsAt(d, g.scope, Behind(d)) = EndsAt(c, g.scope, Behind(c))
  BY <1>1, EndsNext
<1>3. SinceEnd(d, {"prompt"}, g.scope, Behind(d)) =
        SinceEnd(c, {"prompt"}, g.scope, Behind(c)) \cup {Len(d)}
  BY <1>1, SinceNext
<1>4. FactsAt(d, g.scope, Behind(d)) = FactsAt(c, g.scope, Behind(c))
  BY <1>1, FactsNext
<1>5. \A a : ToldIs(c, g.scope, Behind(c), a) <=> ToldIs(d, g.scope, Behind(d), a)
  BY <1>1, ToldNext
<1>6. ASSUME HasPrompt, EndsAt(d, g.scope, Behind(d)) = {}
      PROVE  IsPrompted(d, g.scope, Behind(d))
  <2>1. SinceEnd(c, {"prompt"}, g.scope, Behind(c)) = {}
    BY <1>2, <1>6 DEF Ledger, IsUnprompted
  <2>2. SinceEnd(d, {"prompt"}, g.scope, Behind(d)) = {Len(d)}
    BY <1>3, <2>1
  <2> QED
    BY <2>2 DEF IsPrompted
<1> QED
  BY <1>4, <1>5, <1>6 DEF Ledger

LEMMA LedgerTells ==
  ASSUME NEW c, NEW g, NEW d, Grows(c, g, d), g.kind = "shared",
         NEW known, NEW told, NEW had, Ledger(c, g.scope, known, told, had),
         g.about = known, known # {}, known # Nothing
  PROVE  Ledger(d, g.scope, known, known, had)
<1>1. /\ g.kind # "call_end" /\ g.kind \notin News /\ g.kind \notin {"prompt"}
      /\ g.kind \in {"shared"}
  BY DEF News
<1>2. EndsAt(d, g.scope, Behind(d)) = EndsAt(c, g.scope, Behind(c))
  BY <1>1, EndsNext
<1>3. SinceEnd(d, {"prompt"}, g.scope, Behind(d)) = SinceEnd(c, {"prompt"}, g.scope, Behind(c))
  BY <1>1, SinceNext
<1>4. FactsAt(d, g.scope, Behind(d)) = FactsAt(c, g.scope, Behind(c))
  BY <1>1, FactsNext
<1>5. ToldIs(d, g.scope, Behind(d), known)
  <2>1. PICK Q : Q = SinceEnd(c, {"shared"}, g.scope, Behind(c))
    OBVIOUS
  <2>2. SinceEnd(d, {"shared"}, g.scope, Behind(d)) = Q \cup {Len(d)}
    BY <1>1, <2>1, SinceNext
  <2>3. Q \subseteq DOMAIN c
    BY <2>1, BehindGrows DEF SinceEnd
  <2>4. \A j \in Q \cup {Len(d)} : Len(d) >= j
    BY <2>3, BehindGrows
  <2>5. d[Len(d)].about = known
    BY BehindGrows
  <2> QED
    BY <2>2, <2>4, <2>5 DEF ToldIs
<1>6. (IsPrompted(c, g.scope, Behind(c)) <=> IsPrompted(d, g.scope, Behind(d)))
      /\ (IsUnprompted(c, g.scope, Behind(c)) <=> IsUnprompted(d, g.scope, Behind(d)))
  BY <1>3 DEF IsPrompted, IsUnprompted
<1> QED
  BY <1>2, <1>4, <1>5, <1>6 DEF Ledger

(* What is learned at the end of c.                                          *)
LEMMA FactsLearned ==
  ASSUME NEW c, NEW g, NEW d, Grows(c, g, d), g.kind \in News
  PROVE  FactsAt(d, g.scope, Behind(d)) = Learned(FactsAt(c, g.scope, Behind(c)), g.about)
<1>1. PICK n : n = Len(d)
  OBVIOUS
<1>2. n \in Nat /\ d[n] = g
  BY <1>1, BehindGrows
<1>3. PICK Q : Q = SinceEnd(c, News, g.scope, Behind(c))
  OBVIOUS
<1>4. SinceEnd(d, News, g.scope, Behind(d)) = Q \cup {n}
  BY <1>1, <1>3, SinceNext DEF News
<1>5. \A j \in Q : j \in Nat /\ j < n /\ d[j] = c[j]
  <2>1. Q \subseteq DOMAIN c
    BY <1>3, BehindGrows DEF SinceEnd
  <2> QED
    BY <1>1, <2>1, BehindGrows
<1>6. PICK news : news = {j \in Q : c[j].about # NoFact}
  OBVIOUS
<1>7. PICK last : last = {x \in news : \A l \in news : l > x => c[l].about.key # c[x].about.key}
  OBVIOUS
<1>8. FactsAt(c, g.scope, Behind(c)) = {c[j].about : j \in last}
  BY <1>3, <1>6, <1>7 DEF FactsAt, News
<1>9. PICK mews : mews = {j \in Q \cup {n} : d[j].about # NoFact}
  OBVIOUS
<1>10. PICK mast : mast = {x \in mews : \A l \in mews : l > x => d[l].about.key # d[x].about.key}
  OBVIOUS
<1>11. FactsAt(d, g.scope, Behind(d)) = {d[j].about : j \in mast}
  BY <1>4, <1>9, <1>10 DEF FactsAt, News
<1>12. CASE g.about = NoFact
  <2>1. mews = news /\ \A j \in news : d[j] = c[j]
    BY <1>2, <1>5, <1>6, <1>9, <1>12
  <2>2. mast = last
    BY <1>7, <1>10, <2>1
  <2>3. {d[j].about : j \in mast} = {c[j].about : j \in last}
    BY <1>7, <2>1, <2>2
  <2> QED
    BY <1>8, <1>11, <1>12, <2>3 DEF Learned
<1>13. CASE g.about # NoFact
  <2>1. mews = news \cup {n} /\ \A j \in news : d[j] = c[j] /\ j \in Nat /\ j < n
    BY <1>2, <1>5, <1>6, <1>9, <1>13
  <2>2. n \in mast
    BY <1>2, <1>10, <2>1
  <2>3. ASSUME NEW x \in news
        PROVE  x \in mast <=> x \in last /\ g.about.key # c[x].about.key
    <3>1. x \in mast <=> \A l \in mews : l > x => d[l].about.key # d[x].about.key
      BY <1>10, <2>1
    <3>2. n > x /\ d[n] = g /\ d[x] = c[x] /\ n \in mews
      BY <1>2, <2>1
    <3>3. x \in last <=> \A l \in news : l > x => c[l].about.key # c[x].about.key
      BY <1>7
    <3>4. ASSUME x \in mast
          PROVE  x \in last /\ g.about.key # c[x].about.key
      <4>1. g.about.key # c[x].about.key
        BY <3>1, <3>2, <3>4
      <4>2. ASSUME NEW l \in news, l > x
            PROVE  c[l].about.key # c[x].about.key
        <5>1. l \in mews /\ d[l] = c[l]
          BY <2>1
        <5> QED
          BY <3>1, <3>2, <3>4, <4>2, <5>1
      <4> QED
        BY <3>3, <4>1, <4>2
    <3>5. ASSUME x \in last, g.about.key # c[x].about.key
          PROVE  x \in mast
      <4>1. ASSUME NEW l \in mews, l > x
            PROVE  d[l].about.key # d[x].about.key
        <5>1. CASE l = n
          BY <3>2, <3>5, <5>1
        <5>2. CASE l \in news
          <6>1. d[l] = c[l]
            BY <2>1, <5>2
          <6> QED
            BY <3>2, <3>3, <3>5, <4>1, <5>2, <6>1
        <5> QED
          BY <2>1, <5>1, <5>2
      <4> QED
        BY <3>1, <4>1
    <3> QED
      BY <3>4, <3>5
  <2>4. ASSUME NEW x \in mast
        PROVE  \/ d[x].about = g.about
               \/ x \in last /\ d[x].about = c[x].about /\ c[x].about.key # g.about.key
    <3>1. x \in news \/ x = n
      BY <1>10, <2>1
    <3> QED
      BY <1>2, <2>1, <2>3, <3>1
  <2>5. ASSUME NEW x \in last, c[x].about.key # g.about.key
        PROVE  x \in mast /\ d[x].about = c[x].about
    <3>1. x \in news
      BY <1>7
    <3> QED
      BY <2>1, <2>3, <2>5, <3>1
  <2>6. {d[j].about : j \in mast} =
          {old \in {c[j].about : j \in last} : old.key # g.about.key} \cup {g.about}
    <3>1. PICK old : old = {a \in {c[j].about : j \in last} : a.key # g.about.key}
      OBVIOUS
    <3>2. ASSUME NEW x \in mast
          PROVE  d[x].about \in old \cup {g.about}
      BY <2>4, <3>1
    <3>3. ASSUME NEW a \in old
          PROVE  \E x \in mast : d[x].about = a
      <4>1. PICK x \in last : c[x].about = a /\ a.key # g.about.key
        BY <3>1
      <4> QED
        BY <2>5, <4>1
    <3>4. \E x \in mast : d[x].about = g.about
      BY <1>2, <2>2
    <3>5. {d[j].about : j \in mast} = old \cup {g.about}
      BY <3>2, <3>3, <3>4
    <3> QED
      BY <3>1, <3>5
  <2> QED
    BY <1>8, <1>11, <1>13, <2>6 DEF Learned
<1> QED
  BY <1>12, <1>13

LEMMA LedgerLearns ==
  ASSUME NEW c, NEW g, NEW d, Grows(c, g, d), g.kind \in News,
         NEW known, NEW told, NEW had, Ledger(c, g.scope, known, told, had)
  PROVE  Ledger(d, g.scope, Learned(known, g.about), told, had)
<1>1. g.kind # "call_end" /\ g.kind # "shared" /\ g.kind \notin {"prompt"}
  BY DEF News
<1>2. EndsAt(d, g.scope, Behind(d)) = EndsAt(c, g.scope, Behind(c))
  BY <1>1, EndsNext
<1>3. SinceEnd(d, {"prompt"}, g.scope, Behind(d)) = SinceEnd(c, {"prompt"}, g.scope, Behind(c))
  BY <1>1, SinceNext
<1>4. \A a : ToldIs(c, g.scope, Behind(c), a) <=> ToldIs(d, g.scope, Behind(d), a)
  BY <1>1, ToldNext
<1>5. FactsAt(d, g.scope, Behind(d)) = Learned(FactsAt(c, g.scope, Behind(c)), g.about)
  BY FactsLearned
<1>6. Learned(known, g.about) = {} => known = {}
  BY DEF Learned
<1>7. (IsPrompted(c, g.scope, Behind(c)) <=> IsPrompted(d, g.scope, Behind(d)))
      /\ (IsUnprompted(c, g.scope, Behind(c)) <=> IsUnprompted(d, g.scope, Behind(d)))
  BY <1>3 DEF IsPrompted, IsUnprompted
<1> QED
  BY <1>2, <1>4, <1>5, <1>6, <1>7 DEF Ledger

(* The end of a call clears the ledger, whatever it was.                     *)
LEMMA LedgerEnds ==
  ASSUME NEW c, NEW g, NEW d, Grows(c, g, d), g.kind = "call_end", NEW had
  PROVE  Ledger(d, g.scope, {}, Nothing, had)
<1>1. SinceEnd(d, News, g.scope, Behind(d)) = {} /\ EndsAt(d, g.scope, Behind(d)) # {}
  BY AfterTheEnd
<1>2. SinceEnd(d, {"shared"}, g.scope, Behind(d)) = {}
  BY AfterTheEnd
<1>3. FactsAt(d, g.scope, Behind(d)) = {}
  BY <1>1 DEF FactsAt, News
<1>4. ToldIs(d, g.scope, Behind(d), {})
  BY <1>2 DEF ToldIs
<1> QED
  BY <1>1, <1>3, <1>4 DEF Ledger

-----------------------------------------------------------------------------
(* Types: the frames that wait for the router, and those that have left it.  *)
Spoken == [stream : Streams, n : Nat, kind : {"short", "long", "key"}]

Abouts == Facts \cup {NoFact} \cup (SUBSET Facts)

Texts ==
  [kind : {"text"}, stream : Streams, scope : Scopes, source : {"stt", "dtmf", "image"},
   words : Seq(Spoken)]

Plain ==
  [kind : {"call_start", "call_end", "bootstrap", "dtmf", "flush", "prompt", "shared"},
   stream : Streams, scope : Scopes, about : Abouts]

RoutedTexts ==
  [kind : {"text"}, stream : Streams, scope : Scopes, source : {"stt", "dtmf", "image"},
   words : Seq(Spoken), agent : Agents \cup {NoAgent}, lang : Langs \cup {NoLang}, routed : BOOLEAN]

Updates == [kind : {"update"}, stream : Streams, about : Agents \cup Langs \cup {NoLang}]

Handoffs == [kind : {"handoff"}, stream : Streams, scope : Scopes, about : Agents]

Waiting == Texts \cup Plain \cup Handoffs
AnyFrame == Waiting \cup RoutedTexts \cup Updates

(* A text that waits in the aggregator of s names its stream and scope.      *)
IsHeld(t, s) == t.stream = s /\ t.scope = ScopeOf(s) /\ t.words # <<>>

ContextType ==
  /\ pending \in [Streams -> Seq(Texts)]
  /\ \A s \in Streams : \A i \in DOMAIN pending[s] : IsHeld(pending[s][i], s)
  /\ injected \subseteq Scopes
  /\ global \in [Scopes -> SUBSET Facts]
  /\ globalHash \in [Scopes -> (SUBSET Facts) \cup {Nothing}]
  /\ toRouter \in Seq(Waiting)

RouterType ==
  /\ active \in [Streams -> Agents \cup {NoAgent}]
  /\ langActive \in [Streams -> Langs \cup {NoLang}]
  /\ turnCount \in [Streams -> Nat]
  /\ arrived \in Seq(AnyFrame)

LEMMA FrameType ==
  ASSUME NEW s \in Streams, NEW scope \in Scopes, NEW about \in Abouts,
         NEW kind \in {"call_start", "call_end", "bootstrap", "dtmf", "flush", "prompt", "shared"},
         NEW f, f = Frame(kind, s, scope, about)
  PROVE  f \in Plain /\ f \in Waiting /\ f.kind = kind /\ f.stream = s /\ f.scope = scope /\ f.about = about
BY DEF Frame, Plain, Waiting

LEMMA HandoffType ==
  ASSUME NEW s \in Streams, NEW scope \in Scopes, NEW a \in Agents, NEW f, f = Frame("handoff", s, scope, a)
  PROVE  f \in Waiting /\ f.kind = "handoff"
BY DEF Frame, Handoffs, Waiting

LEMMA TextType ==
  ASSUME NEW s \in Streams, NEW scope \in Scopes, NEW source \in {"stt", "dtmf", "image"},
         NEW words \in Seq(Spoken), NEW t, t = TextFrame(source, s, scope, words)
  PROVE  /\ t \in Texts /\ t \in Waiting /\ t.kind = "text" /\ t.stream = s /\ t.scope = scope
         /\ t.source = source /\ t.words = words
BY DEF TextFrame, Texts, Waiting

LEMMA ScopeType == \A s \in Streams : s \in Scopes /\ ScopeOf(s) \in Scopes
BY DEF Scopes, ScopeOf

LEMMA JoinedType ==
  ASSUME NEW s \in Streams, NEW ts \in Seq(Texts), ts # <<>>, \A i \in DOMAIN ts : IsHeld(ts[i], s),
         NEW j, j = Joined(ts)
  PROVE  j \in Texts /\ j \in Waiting /\ j.kind = "text" /\ j.stream = s /\ j.scope = ScopeOf(s)
<1>1. Len(ts) \in Nat /\ DOMAIN ts = 1 .. Len(ts) /\ Len(ts) # 0
  BY LenProperties, EmptySeq
<1>2. 1 \in DOMAIN ts /\ ts[1] \in Texts
  BY <1>1, ElementOfSeq
<1>3. PICK w : w = [i \in DOMAIN ts |-> ts[i].words[1]]
  OBVIOUS
<1>4. w \in Seq(Spoken)
  <2>1. ASSUME NEW i \in 1 .. Len(ts)
        PROVE  ts[i].words[1] \in Spoken
    <3>1. ts[i] \in Texts /\ ts[i].words # <<>>
      BY <1>1, ElementOfSeq DEF IsHeld
    <3>2. PICK v : v = ts[i].words
      OBVIOUS
    <3>3. v \in Seq(Spoken) /\ v # <<>>
      BY <3>1, <3>2 DEF Texts
    <3>4. v[1] \in Spoken
      BY <3>3, EmptySeq, ElementOfSeq
    <3> QED
      BY <3>2, <3>4
  <2>2. w \in [1 .. Len(ts) -> Spoken]
    BY <1>1, <1>3, <2>1
  <2> QED
    BY <1>1, <2>2, SeqDef
<1>5. j = [ts[1] EXCEPT !.words = w]
  BY <1>3 DEF Joined
<1>6. ts[1].stream = s /\ ts[1].scope = ScopeOf(s)
  BY <1>2 DEF IsHeld
<1> QED
  BY <1>2, <1>4, <1>5, <1>6 DEF Texts, Waiting

-----------------------------------------------------------------------------
(* The ledger of every scope, at the end of what has been sent so far.       *)
Knows(c, inj, glo, hash) ==
  /\ c \in Seq(AnyFrame) /\ AllContexted(c)
  /\ \A scope \in Scopes : Ledger(c, scope, glo[scope], hash[scope], scope \in inj)

LEMMA AppendGrows ==
  ASSUME NEW c \in Seq(AnyFrame), NEW g \in AnyFrame
  PROVE  Grows(c, g, c \o <<g>>) /\ c \o <<g>> \in Seq(AnyFrame)
<1>1. c \o <<g>> = Append(c, g)
  BY AppendIsConcat
<1>2. Append(c, g) \in Seq(AnyFrame)
  OBVIOUS
<1> QED
  BY <1>1, <1>2 DEF Grows

LEMMA KnowsOther ==
  ASSUME NEW c, NEW inj, NEW glo, NEW hash, Knows(c, inj, glo, hash), NEW g \in AnyFrame,
         g.kind \notin ContextKinds, ~NeedsContext(g)
  PROVE  Knows(c \o <<g>>, inj, glo, hash)
<1>1. PICK d : d = c \o <<g>>
  OBVIOUS
<1>2. Grows(c, g, d) /\ d \in Seq(AnyFrame)
  BY <1>1, AppendGrows DEF Knows
<1>3. AllContexted(d)
  BY <1>2, ContextKept DEF Knows
<1>4. \A scope : ~Relevant(g, scope)
  BY DEF Relevant
<1>5. ASSUME NEW scope \in Scopes
      PROVE  Ledger(d, scope, glo[scope], hash[scope], scope \in inj)
  BY <1>2, <1>4, LedgerPasses DEF Knows
<1> QED
  BY <1>1, <1>2, <1>3, <1>5 DEF Knows

LEMMA KnowsText ==
  ASSUME NEW c, NEW inj, NEW glo, NEW hash, Knows(c, inj, glo, hash), NEW g \in AnyFrame,
         g.kind = "text", g.scope \in Scopes, HasPrompt => g.scope \in inj,
         glo[g.scope] = {} \/ hash[g.scope] = glo[g.scope], glo[g.scope] # Nothing
  PROVE  Knows(c \o <<g>>, inj, glo, hash)
<1>1. PICK d : d = c \o <<g>>
  OBVIOUS
<1>2. Grows(c, g, d) /\ d \in Seq(AnyFrame)
  BY <1>1, AppendGrows DEF Knows
<1>3. AllContexted(d)
  <2>1. PICK known : known = glo[g.scope]
    OBVIOUS
  <2>2. PICK told : told = hash[g.scope]
    OBVIOUS
  <2>3. PICK had : had = (g.scope \in inj)
    OBVIOUS
  <2>4. Ledger(c, g.scope, known, told, had)
    BY <2>1, <2>2, <2>3 DEF Knows
  <2>5. Contexted(d, Len(c) + 1)
    BY <1>2, <2>1, <2>2, <2>3, <2>4, TextIsContexted
  <2> QED
    BY <1>2, <2>5, ContextKept DEF Knows
<1>4. \A scope : ~Relevant(g, scope)
  BY DEF Relevant, ContextKinds
<1>5. ASSUME NEW scope \in Scopes
      PROVE  Ledger(d, scope, glo[scope], hash[scope], scope \in inj)
  BY <1>2, <1>4, LedgerPasses DEF Knows
<1> QED
  BY <1>1, <1>2, <1>3, <1>5 DEF Knows

(* The prompt, when the configuration has one and the scope has not.         *)
Prompted(inj, scope) == IF HasPrompt THEN inj \cup {scope} ELSE inj

LEMMA KnowsPrompt ==
  ASSUME NEW c, NEW inj, NEW glo, NEW hash, Knows(c, inj, glo, hash), NEW s \in Streams, NEW scope \in Scopes
  PROVE  /\ Knows(c \o BasePrompt(s, scope, inj), Prompted(inj, scope), glo, hash)
         /\ BasePrompt(s, scope, inj) \in Seq(Waiting)
<1>1. PICK x : x = BasePrompt(s, scope, inj)
  OBVIOUS
<1>2. PICK now : now = Prompted(inj, scope)
  OBVIOUS
<1>3. Knows(c \o x, now, glo, hash) /\ x \in Seq(Waiting)
  <2>1. CASE ~(HasPrompt /\ scope \notin inj)
    <3>1. x = <<>> /\ now = inj
      BY <1>1, <1>2, <2>1 DEF BasePrompt, Prompted
    <3>2. x \in Seq(Waiting)
      BY <3>1
    <3>3. c \o x = c
      BY <3>1, ConcatEmptySeq DEF Knows
    <3> QED
      BY <3>1, <3>2, <3>3
  <2>2. CASE HasPrompt /\ scope \notin inj
    <3>1. PICK g : g = Frame("prompt", s, scope, NoFact)
      OBVIOUS
    <3>2. x = <<g>> /\ now = inj \cup {scope}
      BY <1>1, <1>2, <2>2, <3>1 DEF BasePrompt, Prompted
    <3>3. NoFact \in Abouts
      BY DEF Abouts
    <3>4. g \in Waiting /\ g.kind = "prompt" /\ g.scope = scope
      BY <3>1, <3>3, FrameType
    <3>5. g \in AnyFrame /\ x \in Seq(Waiting)
      BY <3>2, <3>4 DEF AnyFrame
    <3>6. PICK d : d = c \o x
      OBVIOUS
    <3>7. Grows(c, g, d) /\ d \in Seq(AnyFrame)
      BY <3>2, <3>5, <3>6, AppendGrows DEF Knows
    <3>8. AllContexted(d)
      BY <3>4, <3>7, ContextKept DEF Knows, NeedsContext
    <3>9. ASSUME NEW other \in Scopes, other # scope
          PROVE  Ledger(d, other, glo[other], hash[other], other \in now)
      <4>1. ~Relevant(g, other)
        BY <3>4, <3>9 DEF Relevant
      <4>2. (other \in now) = (other \in inj)
        BY <3>2, <3>9
      <4> QED
        BY <3>7, <4>1, <4>2, LedgerPasses DEF Knows
    <3>10. Ledger(d, scope, glo[scope], hash[scope], scope \in now)
      <4>1. (scope \in inj) = FALSE
        BY <2>2
      <4>2. PICK known : known = glo[scope]
        OBVIOUS
      <4>3. PICK told : told = hash[scope]
        OBVIOUS
      <4>4. Ledger(c, g.scope, known, told, FALSE)
        BY <2>2, <3>4, <4>1, <4>2, <4>3 DEF Knows
      <4>5. Ledger(d, g.scope, known, told, TRUE)
        BY <3>4, <3>7, <4>4, LedgerPrompted
      <4>6. (scope \in now) = TRUE
        BY <3>2
      <4> QED
        BY <3>4, <4>2, <4>3, <4>5, <4>6
    <3> QED
      BY <3>5, <3>6, <3>7, <3>8, <3>9, <3>10 DEF Knows
  <2> QED
    BY <2>1, <2>2
<1> QED
  BY <1>1, <1>2, <1>3

(* The shared context, when it is not what was told last.                    *)
Told(scope) ==
  IF global[scope] = {} THEN globalHash ELSE [globalHash EXCEPT ![scope] = global[scope]]

LEMMA KnowsShared ==
  ASSUME ContextType, NEW c, NEW inj, Knows(c, inj, global, globalHash),
         NEW s \in Streams, NEW scope \in Scopes
  PROVE  /\ Knows(c \o GlobalMessage(s, scope), inj, global, Told(scope))
         /\ GlobalMessage(s, scope) \in Seq(Waiting)
         /\ global[scope] = {} \/ Told(scope)[scope] = global[scope]
<1>1. PICK x : x = GlobalMessage(s, scope)
  OBVIOUS
<1>2. PICK now : now = Told(scope)
  OBVIOUS
<1>3. global[scope] \in SUBSET Facts /\ global[scope] # Nothing
  BY ContextAssumption DEF ContextType
<1>4. /\ global[scope] = {} => now = globalHash
      /\ global[scope] # {} => /\ now[scope] = global[scope]
                               /\ \A other \in Scopes : other # scope => now[other] = globalHash[other]
  BY <1>2 DEF ContextType, Told
<1>5. ASSUME Knows(c \o x, inj, global, now), x \in Seq(Waiting)
      PROVE  /\ Knows(c \o GlobalMessage(s, scope), inj, global, Told(scope))
             /\ GlobalMessage(s, scope) \in Seq(Waiting)
             /\ global[scope] = {} \/ Told(scope)[scope] = global[scope]
  BY <1>1, <1>2, <1>4, <1>5
<1>6. CASE global[scope] = {} \/ global[scope] = globalHash[scope]
  <2>1. x = <<>>
    BY <1>1, <1>6 DEF GlobalMessage
  <2>2. x \in Seq(Waiting) /\ c \o x = c
    BY <2>1, ConcatEmptySeq DEF Knows
  <2>3. \A other \in Scopes : now[other] = globalHash[other]
    BY <1>4, <1>6
  <2> QED
    BY <1>5, <2>2, <2>3 DEF Knows
<1>7. CASE global[scope] # {} /\ global[scope] # globalHash[scope]
  <2>1. PICK g : g = Frame("shared", s, scope, global[scope])
    OBVIOUS
  <2>2. x = <<g>>
    BY <1>1, <1>7, <2>1 DEF GlobalMessage
  <2>3. global[scope] \in Abouts
    BY <1>3 DEF Abouts
  <2>4. g \in Waiting /\ g.kind = "shared" /\ g.scope = scope /\ g.about = global[scope]
    BY <2>1, <2>3, FrameType
  <2>5. g \in AnyFrame /\ x \in Seq(Waiting)
    BY <2>2, <2>4 DEF AnyFrame
  <2>6. PICK d : d = c \o x
    OBVIOUS
  <2>7. Grows(c, g, d) /\ d \in Seq(AnyFrame)
    BY <2>2, <2>5, <2>6, AppendGrows DEF Knows
  <2>8. AllContexted(d)
    BY <2>4, <2>7, ContextKept DEF Knows, NeedsContext
  <2>9. ASSUME NEW other \in Scopes, other # scope
        PROVE  Ledger(d, other, global[other], now[other], other \in inj)
    <3>1. ~Relevant(g, other)
      BY <2>4, <2>9 DEF Relevant
    <3>2. now[other] = globalHash[other]
      BY <1>4, <1>7, <2>9
    <3>3. Ledger(c, other, global[other], globalHash[other], other \in inj)
      BY DEF Knows
    <3> QED
      BY <2>7, <3>1, <3>2, <3>3, LedgerPasses
  <2>10. Ledger(d, scope, global[scope], now[scope], scope \in inj)
    <3>1. PICK had : had = (scope \in inj)
      OBVIOUS
    <3>2. PICK known : known = global[scope]
      OBVIOUS
    <3>3. PICK told : told = globalHash[scope]
      OBVIOUS
    <3>4. Ledger(c, g.scope, known, told, had) /\ g.about = known /\ known # {} /\ known # Nothing
      BY <1>3, <1>7, <2>4, <3>1, <3>2, <3>3 DEF Knows
    <3>5. Ledger(d, g.scope, known, known, had)
      BY <2>4, <2>7, <3>4, LedgerTells
    <3> QED
      BY <1>4, <1>7, <2>4, <3>1, <3>2, <3>5
  <2> QED
    BY <1>5, <2>5, <2>6, <2>7, <2>8, <2>9, <2>10 DEF Knows
<1> QED
  BY <1>6, <1>7

(* A system frame with news.                                                 *)
LEMMA KnowsNews ==
  ASSUME NEW c, NEW inj, NEW glo, NEW hash, Knows(c, inj, glo, hash), NEW g \in AnyFrame,
         g.kind \in News, g.scope \in Scopes,
         NEW now, now[g.scope] = Learned(glo[g.scope], g.about),
         \A other \in Scopes : other # g.scope => now[other] = glo[other]
  PROVE  Knows(c \o <<g>>, inj, now, hash)
<1>1. PICK d : d = c \o <<g>>
  OBVIOUS
<1>2. Grows(c, g, d) /\ d \in Seq(AnyFrame)
  BY <1>1, AppendGrows DEF Knows
<1>3. AllContexted(d)
  BY <1>2, ContextKept DEF Knows, NeedsContext, News
<1>4. ASSUME NEW other \in Scopes, other # g.scope
      PROVE  Ledger(d, other, now[other], hash[other], other \in inj)
  <2>1. ~Relevant(g, other)
    BY <1>4 DEF Relevant
  <2>2. Ledger(c, other, now[other], hash[other], other \in inj)
    BY <1>4 DEF Knows
  <2> QED
    BY <1>2, <2>1, <2>2, LedgerPasses
<1>5. Ledger(d, g.scope, now[g.scope], hash[g.scope], g.scope \in inj)
  <2>1. PICK had : had = (g.scope \in inj)
    OBVIOUS
  <2>2. PICK known : known = glo[g.scope]
    OBVIOUS
  <2>3. PICK told : told = hash[g.scope]
    OBVIOUS
  <2>4. Ledger(c, g.scope, known, told, had)
    BY <2>1, <2>2, <2>3 DEF Knows
  <2>5. Ledger(d, g.scope, Learned(known, g.about), told, had)
    BY <1>2, <2>4, LedgerLearns
  <2> QED
    BY <2>1, <2>2, <2>3, <2>5
<1> QED
  BY <1>1, <1>2, <1>3, <1>4, <1>5 DEF Knows

(* The end of a call, behind the prompt of the cleared scope.                *)
Cleared(scope, inj, glo, hash, now, nglo, nhash) ==
  /\ nglo[scope] = {} /\ nhash[scope] = Nothing
  /\ \A other \in Scopes : other # scope =>
       /\ other \in now <=> other \in inj
       /\ nglo[other] = glo[other] /\ nhash[other] = hash[other]

LEMMA KnowsEnd ==
  ASSUME NEW c, NEW inj, NEW glo, NEW hash, Knows(c, inj, glo, hash), NEW g \in AnyFrame,
         g.kind = "call_end", g.stream \in Streams, g.scope \in Scopes,
         NEW now, NEW nglo, NEW nhash, Cleared(g.scope, inj, glo, hash, now, nglo, nhash)
  PROVE  /\ Knows((c \o BasePrompt(g.stream, g.scope, inj \ {g.scope})) \o <<g>>, now, nglo, nhash)
         /\ BasePrompt(g.stream, g.scope, inj \ {g.scope}) \in Seq(Waiting)
<1>1. PICK x : x = BasePrompt(g.stream, g.scope, inj \ {g.scope})
  OBVIOUS
<1>2. /\ nglo[g.scope] = {} /\ nhash[g.scope] = Nothing
      /\ \A other \in Scopes : other # g.scope =>
           /\ other \in now <=> other \in inj
           /\ nglo[other] = glo[other] /\ nhash[other] = hash[other]
  BY DEF Cleared
<1>3. PICK d : d = c \o x
  OBVIOUS
<1>4. /\ d \in Seq(AnyFrame) /\ x \in Seq(Waiting) /\ AllContexted(d)
      /\ \A other \in Scopes : other # g.scope =>
           Ledger(d, other, glo[other], hash[other], other \in inj)
  <2>1. CASE HasPrompt
    <3>1. PICK p : p = Frame("prompt", g.stream, g.scope, NoFact)
      OBVIOUS
    <3>2. x = <<p>>
      BY <1>1, <2>1, <3>1 DEF BasePrompt
    <3>3. p \in Waiting /\ p.kind = "prompt" /\ p.scope = g.scope
      <4>1. NoFact \in Abouts
        BY DEF Abouts
      <4> QED
        BY <3>1, <4>1, FrameType
    <3>4. p \in AnyFrame /\ x \in Seq(Waiting)
      <4>1. <<p>> \in Seq(Waiting)
        BY <3>3
      <4> QED
        BY <3>2, <3>3, <4>1 DEF AnyFrame
    <3>5. Grows(c, p, d) /\ d \in Seq(AnyFrame)
      BY <1>3, <3>2, <3>4, AppendGrows DEF Knows
    <3>6. AllContexted(d)
      BY <3>3, <3>5, ContextKept DEF Knows, NeedsContext
    <3>7. ASSUME NEW other \in Scopes, other # g.scope
          PROVE  Ledger(d, other, glo[other], hash[other], other \in inj)
      <4>1. ~Relevant(p, other)
        BY <3>3, <3>7 DEF Relevant
      <4> QED
        BY <3>5, <4>1, LedgerPasses DEF Knows
    <3> QED
      BY <3>4, <3>5, <3>6, <3>7
  <2>2. CASE ~HasPrompt
    <3>1. x = <<>>
      BY <1>1, <2>2 DEF BasePrompt
    <3>2. x \in Seq(Waiting) /\ d = c
      <4>1. <<>> \in Seq(Waiting)
        OBVIOUS
      <4>2. c \o <<>> = c
        BY ConcatEmptySeq DEF Knows
      <4> QED
        BY <1>3, <3>1, <4>1, <4>2
    <3> QED
      BY <3>2 DEF Knows
  <2> QED
    BY <2>1, <2>2
<1>5. PICK b : b = d \o <<g>>
  OBVIOUS
<1>6. Grows(d, g, b) /\ b \in Seq(AnyFrame)
  BY <1>4, <1>5, AppendGrows
<1>7. AllContexted(b)
  BY <1>4, <1>6, ContextKept DEF NeedsContext
<1>8. ASSUME NEW other \in Scopes, other # g.scope
      PROVE  Ledger(b, other, nglo[other], nhash[other], other \in now)
  <2>1. ~Relevant(g, other)
    BY <1>8 DEF Relevant
  <2>2. (other \in now) = (other \in inj) /\ nglo[other] = glo[other] /\ nhash[other] = hash[other]
    BY <1>2, <1>8
  <2>3. Ledger(d, other, nglo[other], nhash[other], other \in now)
    BY <1>4, <1>8, <2>2
  <2> QED
    BY <1>6, <2>1, <2>3, LedgerPasses
<1>9. Ledger(b, g.scope, nglo[g.scope], nhash[g.scope], g.scope \in now)
  BY <1>2, <1>6, LedgerEnds
<1> QED
  BY <1>1, <1>3, <1>4, <1>5, <1>6, <1>7, <1>8, <1>9 DEF Knows

-----------------------------------------------------------------------------
(* The context processor: each of its handlers keeps its types and the       *)
(* ledger of what it has sent.                                               *)
LedgerInv == Knows(Trail, injected, global, globalHash)

LEMMA ConcatTwo ==
  ASSUME NEW S, NEW c \in Seq(S), NEW x \in Seq(S), NEW y \in Seq(S)
  PROVE  x \o y \in Seq(S) /\ c \o x \in Seq(S) /\ c \o (x \o y) = (c \o x) \o y
<1>1. x \o y \in Seq(S)
  BY ConcatProperties
<1>2. c \o x \in Seq(S)
  BY ConcatProperties
<1>3. (c \o x) \o y = c \o (x \o y)
  BY ConcatAssociative
<1> QED
  BY <1>1, <1>2, <1>3

LEMMA TrailGrows ==
  ASSUME ContextType, RouterType, UNCHANGED arrived, NEW fs \in Seq(Waiting), Emit(fs)
  PROVE  Trail' = Trail \o fs /\ toRouter' \in Seq(Waiting) /\ Trail \in Seq(AnyFrame)
<1>1. Waiting \subseteq AnyFrame
  BY DEF AnyFrame
<1>2. toRouter \in Seq(Waiting) /\ toRouter' = toRouter \o fs /\ arrived \in Seq(AnyFrame)
  BY DEF ContextType, RouterType, Emit
<1>3. toRouter' \in Seq(Waiting)
  BY <1>2, ConcatProperties
<1>4. toRouter \in Seq(AnyFrame) /\ fs \in Seq(AnyFrame)
  <2>1. Seq(Waiting) \subseteq Seq(AnyFrame)
    BY <1>1, SeqMonotonic
  <2> QED
    BY <1>2, <2>1
<1>5. arrived \o (toRouter \o fs) = (arrived \o toRouter) \o fs
  <2>1. PICK S : S = AnyFrame
    OBVIOUS
  <2>2. PICK c \in Seq(S) : c = arrived
    BY <1>2, <2>1
  <2>3. PICK x \in Seq(S) : x = toRouter
    BY <1>4, <2>1
  <2>4. PICK y \in Seq(S) : y = fs
    BY <1>4, <2>1
  <2>5. c \o (x \o y) = (c \o x) \o y
    BY ConcatTwo
  <2> QED
    BY <2>2, <2>3, <2>4, <2>5
<1>6. arrived \o toRouter \in Seq(AnyFrame)
  BY <1>2, <1>4, ConcatProperties
<1> QED
  BY <1>2, <1>3, <1>5, <1>6 DEF Trail

Then(x, y) == x \o y

LEMMA ThenIsAssociative ==
  ASSUME NEW S
  PROVE  \A x, y \in Seq(S) : Then(x, y) \in Seq(S) /\ \A z \in Seq(S) : Then(x, Then(y, z)) = Then(Then(x, y), z)
BY ConcatTwo DEF Then

LEMMA ConcatThree ==
  ASSUME NEW S, NEW c \in Seq(S), NEW x \in Seq(S), NEW y \in Seq(S), NEW w \in Seq(S)
  PROVE  Then(c, Then(Then(x, y), w)) = Then(Then(Then(c, x), y), w)
<1>1. Then(x, y) \in Seq(S) /\ Then(c, Then(x, y)) = Then(Then(c, x), y)
  BY ThenIsAssociative
<1>2. Then(c, Then(Then(x, y), w)) = Then(Then(c, Then(x, y)), w)
  BY <1>1, ThenIsAssociative
<1> QED
  BY <1>1, <1>2

LEMMA ConcatFour ==
  ASSUME NEW S, NEW c \in Seq(S), NEW x \in Seq(S), NEW y \in Seq(S), NEW z \in Seq(S), NEW w \in Seq(S)
  PROVE  Then(c, Then(Then(Then(x, y), z), w)) = Then(Then(Then(Then(c, x), y), z), w)
<1>1. Then(x, y) \in Seq(S) /\ Then(c, Then(x, y)) = Then(Then(c, x), y)
  BY ThenIsAssociative
<1>2. /\ Then(Then(x, y), z) \in Seq(S)
      /\ Then(c, Then(Then(x, y), z)) = Then(Then(c, Then(x, y)), z)
  BY <1>1, ThenIsAssociative
<1>3. Then(c, Then(Then(Then(x, y), z), w)) = Then(Then(c, Then(Then(x, y), z)), w)
  BY <1>2, ThenIsAssociative
<1> QED
  BY <1>1, <1>2, <1>3

LEMMA SingleFrame ==
  ASSUME NEW f \in Waiting
  PROVE  <<f>> \in Seq(Waiting) /\ f \in AnyFrame
BY DEF AnyFrame

LEMMA WaitingSeq ==
  ASSUME NEW x \in Seq(Waiting)
  PROVE  x \in Seq(AnyFrame)
<1>1. Waiting \subseteq AnyFrame
  BY DEF AnyFrame
<1> QED
  BY <1>1, SeqMonotonic

LEMMA SystemStep ==
  ASSUME ContextType, RouterType, LedgerInv, UNCHANGED arrived,
         NEW f \in Waiting, f.kind \in News \cup {"call_end"}, f.stream \in Streams, f.scope \in Scopes,
         f.about \in Facts \cup {NoFact}, ContextSystem(f)
  PROVE  ContextType' /\ LedgerInv'
<1>1. PICK had : had = IF f.kind = "call_end" THEN injected \ {f.scope} ELSE injected
  OBVIOUS
<1>2. PICK x : x = BasePrompt(f.stream, f.scope, had)
  OBVIOUS
<1>3. injected' = (IF HasPrompt THEN had \cup {f.scope} ELSE had) /\ Emit(x \o <<f>>)
  BY <1>1, <1>2 DEF ContextSystem
<1>4. injected' \subseteq Scopes
  BY <1>1, <1>3 DEF ContextType
<1>5. CASE f.kind = "call_end"
  <2>1. /\ global' = [global EXCEPT ![f.scope] = {}] /\ globalHash' = [globalHash EXCEPT ![f.scope] = Nothing]
        /\ pending' = [pending EXCEPT ![f.stream] = <<>>]
    BY <1>5 DEF ContextSystem, ClearScope
  <2>2. had = injected \ {f.scope}
    BY <1>1, <1>5
  <2>3. \A other \in Scopes : other # f.scope => (other \in injected' <=> other \in injected)
    BY <1>3, <2>2
  <2>4. /\ global'[f.scope] = {} /\ globalHash'[f.scope] = Nothing
        /\ \A other \in Scopes : other # f.scope =>
             global'[other] = global[other] /\ globalHash'[other] = globalHash[other]
    BY <2>1 DEF ContextType
  <2>5. Cleared(f.scope, injected, global, globalHash, injected', global', globalHash')
    BY <2>3, <2>4 DEF Cleared
  <2>6. f \in AnyFrame
    BY SingleFrame
  <2>7. Knows((Trail \o x) \o <<f>>, injected', global', globalHash') /\ x \in Seq(Waiting)
    BY <1>2, <1>5, <2>2, <2>6, <2>5, KnowsEnd DEF LedgerInv
  <2>8. <<f>> \in Seq(Waiting)
    BY SingleFrame
  <2>9. x \o <<f>> \in Seq(Waiting)
    BY <2>7, <2>8, ConcatProperties
  <2>10. Trail' = Trail \o (x \o <<f>>) /\ toRouter' \in Seq(Waiting) /\ Trail \in Seq(AnyFrame)
    BY <1>3, <2>9, TrailGrows
  <2>11. Trail' = (Trail \o x) \o <<f>>
    BY <2>7, <2>8, <2>10, WaitingSeq, ConcatTwo
  <2>12. /\ pending' \in [Streams -> Seq(Texts)]
         /\ \A s \in Streams : \A i \in DOMAIN pending'[s] : IsHeld(pending'[s][i], s)
    <3>1. <<>> \in Seq(Texts) /\ DOMAIN <<>> = {}
      OBVIOUS
    <3>2. \A s \in Streams : pending'[s] = <<>> \/ pending'[s] = pending[s]
      BY <2>1 DEF ContextType
    <3> QED
      BY <2>1, <3>1, <3>2 DEF ContextType
  <2>13. global' \in [Scopes -> SUBSET Facts] /\ globalHash' \in [Scopes -> (SUBSET Facts) \cup {Nothing}]
    BY <2>1 DEF ContextType
  <2> QED
    BY <1>4, <2>7, <2>10, <2>11, <2>12, <2>13 DEF ContextType, LedgerInv
<1>6. CASE f.kind # "call_end"
  <2>1. /\ global' = [global EXCEPT ![f.scope] = Learned(@, f.about)]
        /\ UNCHANGED <<globalHash, pending>> /\ f.kind \in News
    BY <1>6 DEF ContextSystem
  <2>2. had = injected
    BY <1>1, <1>6
  <2>3. injected' = Prompted(injected, f.scope)
    BY <1>3, <2>2 DEF Prompted
  <2>4. Knows(Trail \o x, injected', global, globalHash) /\ x \in Seq(Waiting)
    BY <1>2, <2>2, <2>3, KnowsPrompt DEF LedgerInv
  <2>5. /\ global'[f.scope] = Learned(global[f.scope], f.about)
        /\ \A other \in Scopes : other # f.scope => global'[other] = global[other]
    BY <2>1 DEF ContextType
  <2>6. f \in AnyFrame /\ <<f>> \in Seq(Waiting)
    BY SingleFrame
  <2>7. Knows((Trail \o x) \o <<f>>, injected', global', globalHash)
    BY <2>1, <2>4, <2>5, <2>6, KnowsNews
  <2>8. x \o <<f>> \in Seq(Waiting)
    BY <2>4, <2>6, ConcatProperties
  <2>9. Trail' = Trail \o (x \o <<f>>) /\ toRouter' \in Seq(Waiting) /\ Trail \in Seq(AnyFrame)
    BY <1>3, <2>8, TrailGrows
  <2>10. Trail' = (Trail \o x) \o <<f>>
    BY <2>4, <2>6, <2>9, WaitingSeq, ConcatTwo
  <2>11. global' \in [Scopes -> SUBSET Facts]
    <3>1. Learned(global[f.scope], f.about) \in SUBSET Facts
      BY DEF Learned, ContextType
    <3> QED
      BY <2>1, <3>1 DEF ContextType
  <2> QED
    BY <1>4, <2>1, <2>7, <2>9, <2>10, <2>11 DEF ContextType, LedgerInv
<1> QED
  BY <1>5, <1>6


-----------------------------------------------------------------------------
(* What comes before a text, the text, and what comes after it.              *)
LEMMA IntroducedStep ==
  ASSUME ContextType, LedgerInv, NEW t, t.stream \in Streams, t.scope \in Scopes, Introduced(t), UNCHANGED global
  PROVE  /\ Knows((Trail \o BasePrompt(t.stream, t.scope, injected)) \o GlobalMessage(t.stream, t.scope),
                  injected', global', globalHash')
         /\ BasePrompt(t.stream, t.scope, injected) \in Seq(Waiting)
         /\ GlobalMessage(t.stream, t.scope) \in Seq(Waiting)
         /\ injected' \subseteq Scopes /\ globalHash' \in [Scopes -> (SUBSET Facts) \cup {Nothing}]
         /\ HasPrompt => t.scope \in injected'
         /\ global'[t.scope] = {} \/ globalHash'[t.scope] = global'[t.scope]
         /\ global'[t.scope] # Nothing
<1>1. PICK scope \in Scopes : scope = t.scope
  OBVIOUS
<1>2. PICK x : x = BasePrompt(t.stream, scope, injected)
  OBVIOUS
<1>3. PICK y : y = GlobalMessage(t.stream, scope)
  OBVIOUS
<1>4. injected' = Prompted(injected, scope) /\ globalHash' = Told(scope) /\ global' = global
  BY <1>1 DEF Introduced, Prompted, Told
<1>5. Knows(Trail \o x, injected', global, globalHash) /\ x \in Seq(Waiting)
  BY <1>2, <1>4, KnowsPrompt DEF LedgerInv
<1>6. /\ Knows((Trail \o x) \o y, injected', global, globalHash') /\ y \in Seq(Waiting)
      /\ global[scope] = {} \/ globalHash'[scope] = global[scope]
  BY <1>3, <1>4, <1>5, KnowsShared
<1>7. injected' \subseteq Scopes /\ (HasPrompt => scope \in injected')
  BY <1>4 DEF Prompted, ContextType
<1>8. globalHash' \in [Scopes -> (SUBSET Facts) \cup {Nothing}]
  BY <1>4 DEF Told, ContextType
<1>9. global[scope] # Nothing
  BY ContextAssumption DEF ContextType
<1> QED
  BY <1>1, <1>2, <1>3, <1>4, <1>5, <1>6, <1>7, <1>8, <1>9

(* What comes after a text: nothing, or its control frame. *)
Control(after) == after = <<>> \/ \E f \in Plain : f.kind \in {"dtmf", "flush"} /\ after = <<f>>

LEMMA KnowsControl ==
  ASSUME NEW c, NEW inj, NEW glo, NEW hash, Knows(c, inj, glo, hash), NEW after, Control(after)
  PROVE  Knows(c \o after, inj, glo, hash) /\ after \in Seq(Waiting)
<1>1. CASE after = <<>>
  <2>1. c \in Seq(AnyFrame)
    BY DEF Knows
  <2>2. c \o after = c
    BY <1>1, <2>1, ConcatEmptySeq
  <2>3. after \in Seq(Waiting)
    BY <1>1, EmptySeq
  <2> QED
    BY <2>2, <2>3
<1>2. ASSUME NEW f \in Plain, f.kind \in {"dtmf", "flush"}, after = <<f>>
      PROVE  Knows(c \o after, inj, glo, hash) /\ after \in Seq(Waiting)
  <2>1. f \in Waiting /\ f \in AnyFrame
    BY DEF Waiting, AnyFrame
  <2>2. f.kind \notin ContextKinds /\ ~NeedsContext(f)
    BY <1>2 DEF ContextKinds, NeedsContext
  <2>3. Knows(c \o <<f>>, inj, glo, hash)
    BY <2>1, <2>2, KnowsOther
  <2> QED
    BY <1>2, <2>1, <2>3, SingleFrame
<1> QED
  BY <1>1, <1>2 DEF Control

LEMMA PendingStep ==
  ASSUME ContextType, NEW s \in Streams, NEW ts \in Seq(Texts), \A i \in DOMAIN ts : IsHeld(ts[i], s),
         pending' = [pending EXCEPT ![s] = ts] \/ pending' = [pending EXCEPT ![s] = <<>>]
  PROVE  /\ pending' \in [Streams -> Seq(Texts)]
         /\ \A r \in Streams : \A i \in DOMAIN pending'[r] : IsHeld(pending'[r][i], r)
<1>1. <<>> \in Seq(Texts) /\ DOMAIN <<>> = {}
  OBVIOUS
<1>2. /\ pending' \in [Streams -> Seq(Texts)]
      /\ \A r \in Streams : r # s => pending'[r] = pending[r]
      /\ pending'[s] = ts \/ pending'[s] = <<>>
  BY <1>1 DEF ContextType
<1> QED
  BY <1>1, <1>2 DEF ContextType

LEMMA OneMoreHeld ==
  ASSUME ContextType, NEW s \in Streams, NEW t \in Texts, IsHeld(t, s)
  PROVE  /\ Append(pending[s], t) \in Seq(Texts) /\ Append(pending[s], t) # <<>>
         /\ \A i \in DOMAIN Append(pending[s], t) : IsHeld(Append(pending[s], t)[i], s)
<1>1. PICK c \in Seq(Texts) : c = pending[s]
  BY DEF ContextType
<1>2. PICK d : d = Append(c, t)
  OBVIOUS
<1>3. /\ Len(c) \in Nat /\ DOMAIN c = 1 .. Len(c)
      /\ d \in Seq(Texts) /\ Len(d) = Len(c) + 1 /\ DOMAIN d = 1 .. Len(c) + 1
      /\ d[Len(c) + 1] = t
      /\ \A j \in 1 .. Len(c) : d[j] = c[j]
  BY <1>2, OneMore
<1>4. \A j \in 1 .. Len(c) : IsHeld(c[j], s)
  BY <1>1, <1>3 DEF ContextType
<1>5. ASSUME NEW i \in DOMAIN d PROVE IsHeld(d[i], s)
  <2>1. i \in 1 .. Len(c) \/ i = Len(c) + 1
    BY <1>3
  <2> QED
    BY <1>3, <1>4, <2>1
<1>6. d # <<>>
  BY <1>3, EmptySeq
<1> QED
  BY <1>1, <1>2, <1>3, <1>5, <1>6

(* A text that is let out, and one that is held back. *)
LEMMA TextGoesOut ==
  ASSUME ContextType, RouterType, LedgerInv, UNCHANGED arrived, UNCHANGED global,
         NEW t, t.stream \in Streams, t.scope \in Scopes, Introduced(t),
         NEW j \in Waiting, j.kind = "text", j.scope = t.scope, NEW after, Control(after),
         Emit((Introduction(t) \o <<j>>) \o after)
  PROVE  LedgerInv' /\ toRouter' \in Seq(Waiting)
<1>1. PICK x : x = BasePrompt(t.stream, t.scope, injected)
  OBVIOUS
<1>2. PICK y : y = GlobalMessage(t.stream, t.scope)
  OBVIOUS
<1>3. PICK c : c = Trail
  OBVIOUS
<1>4. /\ Knows((c \o x) \o y, injected', global', globalHash')
      /\ x \in Seq(Waiting) /\ y \in Seq(Waiting)
      /\ HasPrompt => t.scope \in injected'
      /\ global'[t.scope] = {} \/ globalHash'[t.scope] = global'[t.scope]
      /\ global'[t.scope] # Nothing
  BY <1>1, <1>2, <1>3, IntroducedStep
<1>5. Introduction(t) = x \o y
  BY <1>1, <1>2 DEF Introduction
<1>6. <<j>> \in Seq(Waiting) /\ j \in AnyFrame
  BY SingleFrame
<1>7. Knows(((c \o x) \o y) \o <<j>>, injected', global', globalHash')
  <2>1. PICK d : d = (c \o x) \o y
    OBVIOUS
  <2>2. Knows(d, injected', global', globalHash')
    BY <1>4, <2>1
  <2>3. Knows(d \o <<j>>, injected', global', globalHash')
    BY <1>4, <1>6, <2>2, KnowsText
  <2> QED
    BY <2>1, <2>3
<1>8. after \in Seq(Waiting) /\ Knows((((c \o x) \o y) \o <<j>>) \o after, injected', global', globalHash')
  BY <1>7, KnowsControl
<1>9. ((x \o y) \o <<j>>) \o after \in Seq(Waiting)
  <2>1. (x \o y) \in Seq(Waiting)
    BY <1>4, ConcatProperties
  <2>2. (x \o y) \o <<j>> \in Seq(Waiting)
    BY <1>6, <2>1, ConcatProperties
  <2> QED
    BY <1>8, <2>2, ConcatProperties
<1>10. /\ Trail' = c \o (((x \o y) \o <<j>>) \o after)
       /\ toRouter' \in Seq(Waiting) /\ c \in Seq(AnyFrame)
  BY <1>3, <1>5, <1>9, TrailGrows
<1>11. x \in Seq(AnyFrame) /\ y \in Seq(AnyFrame) /\ <<j>> \in Seq(AnyFrame) /\ after \in Seq(AnyFrame)
  BY <1>4, <1>6, <1>8, WaitingSeq
<1>12. Then(c, Then(Then(Then(x, y), <<j>>), after)) = Then(Then(Then(Then(c, x), y), <<j>>), after)
  <2>1. PICK z \in Seq(AnyFrame) : z = <<j>>
    BY <1>11
  <2>2. Then(c, Then(Then(Then(x, y), z), after)) = Then(Then(Then(Then(c, x), y), z), after)
    BY <1>10, <1>11, ConcatFour
  <2> QED
    BY <2>1, <2>2
<1>13. c \o (((x \o y) \o <<j>>) \o after) = (((c \o x) \o y) \o <<j>>) \o after
  BY <1>12 DEF Then
<1> QED
  BY <1>8, <1>10, <1>13 DEF LedgerInv

LEMMA TextWaits ==
  ASSUME ContextType, RouterType, LedgerInv, UNCHANGED arrived, UNCHANGED global,
         NEW t, t.stream \in Streams, t.scope \in Scopes, Introduced(t), NEW after, Control(after),
         Emit(Introduction(t) \o after)
  PROVE  LedgerInv' /\ toRouter' \in Seq(Waiting)
<1>1. PICK x : x = BasePrompt(t.stream, t.scope, injected)
  OBVIOUS
<1>2. PICK y : y = GlobalMessage(t.stream, t.scope)
  OBVIOUS
<1>3. PICK c : c = Trail
  OBVIOUS
<1>4. /\ Knows((c \o x) \o y, injected', global', globalHash')
      /\ x \in Seq(Waiting) /\ y \in Seq(Waiting)
  BY <1>1, <1>2, <1>3, IntroducedStep
<1>5. Introduction(t) = x \o y
  BY <1>1, <1>2 DEF Introduction
<1>6. after \in Seq(Waiting) /\ Knows(((c \o x) \o y) \o after, injected', global', globalHash')
  BY <1>4, KnowsControl
<1>7. (x \o y) \o after \in Seq(Waiting)
  <2>1. (x \o y) \in Seq(Waiting)
    BY <1>4, ConcatProperties
  <2> QED
    BY <1>6, <2>1, ConcatProperties
<1>8. /\ Trail' = c \o ((x \o y) \o after)
      /\ toRouter' \in Seq(Waiting) /\ c \in Seq(AnyFrame)
  BY <1>3, <1>5, <1>7, TrailGrows
<1>9. x \in Seq(AnyFrame) /\ y \in Seq(AnyFrame) /\ after \in Seq(AnyFrame)
  BY <1>4, <1>6, WaitingSeq
<1>10. Then(c, Then(Then(x, y), after)) = Then(Then(Then(c, x), y), after)
  BY <1>8, <1>9, ConcatThree
<1>11. c \o ((x \o y) \o after) = ((c \o x) \o y) \o after
  BY <1>10 DEF Then
<1> QED
  BY <1>6, <1>8, <1>11 DEF LedgerInv

LEMMA TextStep ==
  ASSUME ContextType, RouterType, LedgerInv, UNCHANGED arrived,
         NEW s \in Streams, NEW t \in Texts, IsHeld(t, s), NEW after, Control(after), ContextText(t, after)
  PROVE  ContextType' /\ LedgerInv'
<1>1. PICK ts : ts = Append(pending[s], t)
  OBVIOUS
<1>2. ts \in Seq(Texts) /\ ts # <<>> /\ \A i \in DOMAIN ts : IsHeld(ts[i], s)
  BY <1>1, OneMoreHeld
<1>3. t.stream = s /\ t.scope = ScopeOf(s) /\ t.scope \in Scopes
  BY ScopeType DEF IsHeld
<1>4. /\ Introduced(t) /\ UNCHANGED global
      /\ \/ pending' = [pending EXCEPT ![s] = <<>>] /\ Emit((Introduction(t) \o <<Joined(ts)>>) \o after)
         \/ pending' = [pending EXCEPT ![s] = ts] /\ Emit(Introduction(t) \o after)
  BY <1>1, <1>3 DEF ContextText
<1>5. LedgerInv' /\ toRouter' \in Seq(Waiting)
  <2>1. CASE Emit((Introduction(t) \o <<Joined(ts)>>) \o after)
    <3>1. PICK j : j = Joined(ts)
      OBVIOUS
    <3>2. j \in Waiting /\ j.kind = "text" /\ j.scope = t.scope
      BY <1>2, <1>3, <3>1, JoinedType
    <3>3. Emit((Introduction(t) \o <<j>>) \o after)
      BY <2>1, <3>1
    <3> QED
      BY <1>3, <1>4, <3>2, <3>3, TextGoesOut
  <2>2. CASE Emit(Introduction(t) \o after)
    BY <1>3, <1>4, <2>2, TextWaits
  <2> QED
    BY <1>4, <2>1, <2>2
<1>6. injected' \subseteq Scopes /\ globalHash' \in [Scopes -> (SUBSET Facts) \cup {Nothing}]
  BY <1>3, <1>4, IntroducedStep
<1>7. /\ pending' \in [Streams -> Seq(Texts)]
      /\ \A r \in Streams : \A i \in DOMAIN pending'[r] : IsHeld(pending'[r][i], r)
  BY <1>2, <1>4, PendingStep
<1>8. global' \in [Scopes -> SUBSET Facts]
  BY <1>4 DEF ContextType
<1> QED
  BY <1>5, <1>6, <1>7, <1>8 DEF ContextType

LEMMA FlushStep ==
  ASSUME ContextType, RouterType, LedgerInv, UNCHANGED arrived,
         NEW s \in Streams, NEW f \in Plain, f.kind = "flush", f.stream = s, ContextFlush(f)
  PROVE  ContextType' /\ LedgerInv'
<1>1. PICK ts \in Seq(Texts) : ts = pending[s]
  BY DEF ContextType
<1>2. \A i \in DOMAIN ts : IsHeld(ts[i], s)
  BY <1>1 DEF ContextType
<1>3. f \in Waiting /\ f \in AnyFrame /\ <<f>> \in Seq(Waiting) /\ UNCHANGED global
  BY SingleFrame DEF Waiting, ContextFlush
<1>4. CASE ts = <<>>
  <2>1. Emit(<<f>>) /\ UNCHANGED <<pending, injected, globalHash>>
    BY <1>1, <1>4 DEF ContextFlush
  <2>2. f.kind \notin ContextKinds /\ ~NeedsContext(f)
    BY DEF ContextKinds, NeedsContext
  <2>3. Knows(Trail \o <<f>>, injected', global', globalHash')
    BY <1>3, <2>1, <2>2, KnowsOther DEF LedgerInv
  <2>4. Trail' = Trail \o <<f>> /\ toRouter' \in Seq(Waiting)
    BY <1>3, <2>1, TrailGrows
  <2>5. LedgerInv'
    BY <2>3, <2>4 DEF LedgerInv
  <2> QED
    BY <1>3, <2>1, <2>4, <2>5 DEF ContextType
<1>5. CASE ts # <<>>
  <2>1. PICK j : j = Joined(ts)
    OBVIOUS
  <2>2. j \in Texts /\ j \in Waiting /\ j.kind = "text" /\ j.stream = s /\ j.scope = ScopeOf(s)
    BY <1>2, <1>5, <2>1, JoinedType
  <2>3. /\ pending' = [pending EXCEPT ![s] = <<>>]
        /\ Introduced(j) /\ Emit((Introduction(j) \o <<j>>) \o <<f>>)
    BY <1>1, <1>5, <2>1 DEF ContextFlush, Flushed
  <2>4. j.scope \in Scopes /\ j.stream \in Streams
    BY <2>2, ScopeType
  <2>5. Control(<<f>>)
    BY DEF Control
  <2>6. LedgerInv' /\ toRouter' \in Seq(Waiting)
    BY <1>3, <2>2, <2>3, <2>4, <2>5, TextGoesOut
  <2>7. injected' \subseteq Scopes /\ globalHash' \in [Scopes -> (SUBSET Facts) \cup {Nothing}]
    BY <1>3, <2>3, <2>4, IntroducedStep
  <2>8. /\ pending' \in [Streams -> Seq(Texts)]
         /\ \A r \in Streams : \A i \in DOMAIN pending'[r] : IsHeld(pending'[r][i], r)
    BY <1>2, <2>3, PendingStep
  <2> QED
    BY <1>3, <2>6, <2>7, <2>8 DEF ContextType
<1> QED
  BY <1>4, <1>5

LEMMA PassStep ==
  ASSUME ContextType, RouterType, LedgerInv, UNCHANGED arrived,
         NEW fs \in Seq(Waiting), fs = <<>> \/ \E g \in Waiting : fs = <<g>> /\ g.kind \notin ContextKinds /\ ~NeedsContext(g),
         Emit(fs), UNCHANGED <<pending, injected, global, globalHash>>
  PROVE  ContextType' /\ LedgerInv'
<1>1. Trail' = Trail \o fs /\ toRouter' \in Seq(Waiting) /\ Trail \in Seq(AnyFrame)
  BY TrailGrows
<1>2. Knows(Trail \o fs, injected, global, globalHash)
  <2>1. CASE fs = <<>>
    <3>1. Trail \o fs = Trail
      BY <1>1, <2>1, ConcatEmptySeq
    <3> QED
      BY <3>1 DEF LedgerInv
  <2>2. ASSUME NEW g \in Waiting, fs = <<g>>, g.kind \notin ContextKinds, ~NeedsContext(g)
        PROVE  Knows(Trail \o fs, injected, global, globalHash)
    <3>1. g \in AnyFrame
      BY SingleFrame
    <3>2. Knows(Trail \o <<g>>, injected, global, globalHash)
      BY <2>2, <3>1, KnowsOther DEF LedgerInv
    <3> QED
      BY <2>2, <3>2
  <2> QED
    BY <2>1, <2>2
<1> QED
  BY <1>1, <1>2 DEF LedgerInv, ContextType

-----------------------------------------------------------------------------
SaidType == said \in [Streams -> Seq(Spoken)]

LEMMA SaySteps ==
  ASSUME ContextType, RouterType, SaidType, LedgerInv, UNCHANGED arrived,
         NEW s \in Streams, NEW source \in {"stt", "dtmf"}, NEW kind \in {"short", "long", "key"},
         NEW after, Control(after), Say(source, s, kind, after)
  PROVE  ContextType' /\ LedgerInv' /\ SaidType'
<1>1. PICK w : w = Word(s, kind)
  OBVIOUS
<1>2. w \in Spoken
  <2>1. Len(said[s]) \in Nat
    BY LenProperties DEF SaidType
  <2> QED
    BY <1>1, <2>1 DEF Word, Spoken
<1>3. PICK ws \in Seq(Spoken) : ws = <<w>>
  <2>1. <<w>> \in Seq(Spoken)
    BY <1>2
  <2> QED
    BY <2>1
<1>4. PICK scope \in Scopes : scope = ScopeOf(s)
  BY ScopeType
<1>5. PICK t : t = TextFrame(source, s, scope, ws)
  OBVIOUS
<1>6. t \in Texts /\ t.stream = s /\ t.scope = scope /\ t.words = ws
  BY <1>5, TextType
<1>7. ws # <<>>
  BY <1>3
<1>8. IsHeld(t, s) /\ ContextText(t, after)
  BY <1>1, <1>3, <1>4, <1>5, <1>6, <1>7 DEF IsHeld, Say
<1>9. SaidType'
  <2>1. Append(said[s], w) \in Seq(Spoken)
    BY <1>2 DEF SaidType
  <2> QED
    BY <1>1, <2>1 DEF Say, SaidType
<1> QED
  BY <1>6, <1>8, <1>9, TextStep

SystemKinds == {"call_start", "call_end", "bootstrap"}

LEMMA SystemFrameStep ==
  ASSUME ContextType, RouterType, LedgerInv, UNCHANGED arrived,
         NEW s \in Streams, NEW scope \in Scopes, NEW kind \in SystemKinds, NEW about \in Facts \cup {NoFact},
         ContextSystem(Frame(kind, s, scope, about))
  PROVE  ContextType' /\ LedgerInv'
<1>1. PICK f : f = Frame(kind, s, scope, about)
  OBVIOUS
<1>2. about \in Abouts
  BY DEF Abouts
<1>3. f \in Waiting /\ f.kind = kind /\ f.stream = s /\ f.scope = scope /\ f.about = about
  BY <1>1, <1>2, FrameType DEF SystemKinds
<1>4. f.kind \in News \cup {"call_end"} /\ ContextSystem(f)
  BY <1>1, <1>3 DEF News, SystemKinds
<1> QED
  BY <1>3, <1>4, SystemStep

LEMMA ContextStepKeeps ==
  ASSUME ContextType, RouterType, SaidType, LedgerInv, ContextStep
  PROVE  ContextType' /\ RouterType' /\ SaidType' /\ LedgerInv'
<1>1. UNCHANGED routerVars
  BY DEF ContextStep
<1>2. UNCHANGED arrived /\ RouterType'
  BY <1>1 DEF routerVars, routerState, RouterType
<1>3. PICK s \in Streams :
        Start(s) \/ End(s) \/ Bootstrap(s)
          \/ Final(s) \/ Digits(s) \/ Press(s) \/ Flush(s) \/ Pass(s)
  BY DEF ContextStep
<1>4. PICK scope \in Scopes : scope = ScopeOf(s)
  BY ScopeType
<1>5. CASE Start(s)
  <2>1. PICK fact \in Facts \cup {NoFact} : ContextSystem(Frame("call_start", s, scope, fact))
    BY <1>4, <1>5 DEF Start
  <2>2. "call_start" \in SystemKinds /\ UNCHANGED said
    BY <1>5 DEF SystemKinds, Start, history
  <2> QED
    BY <1>2, <2>1, <2>2, SystemFrameStep DEF SaidType
<1>6. CASE End(s)
  <2>1. ContextSystem(Frame("call_end", s, scope, NoFact)) /\ UNCHANGED said
    BY <1>4, <1>6 DEF End
  <2>2. "call_end" \in SystemKinds /\ NoFact \in Facts \cup {NoFact}
    BY DEF SystemKinds
  <2> QED
    BY <1>2, <2>1, <2>2, SystemFrameStep DEF SaidType
<1>7. CASE Bootstrap(s)
  <2>1. PICK fact \in Facts \cup {NoFact} : ContextSystem(Frame("bootstrap", s, s, fact))
    BY <1>7 DEF Bootstrap
  <2>2. "bootstrap" \in SystemKinds /\ s \in Scopes /\ UNCHANGED said
    BY <1>7, ScopeType DEF SystemKinds, Bootstrap, history
  <2> QED
    BY <1>2, <2>1, <2>2, SystemFrameStep DEF SaidType
<1>8. CASE Final(s)
  <2>1. PICK kind \in {"short", "long"} : Say("stt", s, kind, <<>>)
    BY <1>8 DEF Final
  <2>2. Control(<<>>) /\ "stt" \in {"stt", "dtmf"} /\ kind \in {"short", "long", "key"}
    BY DEF Control
  <2> QED
    BY <1>2, <2>1, <2>2, SaySteps
<1>9. CASE Digits(s)
  <2>1. PICK kind \in {"short", "long"} :
          UNCHANGED contextVars /\ said' = [said EXCEPT ![s] = Append(@, Word(s, kind))]
    BY <1>9 DEF Digits
  <2>2. Word(s, kind) \in Spoken
    <3>1. Len(said[s]) \in Nat
      BY LenProperties DEF SaidType
    <3> QED
      BY <3>1 DEF Word, Spoken
  <2>3. Append(said[s], Word(s, kind)) \in Seq(Spoken)
    BY <2>2 DEF SaidType
  <2>4. SaidType'
    BY <2>1, <2>3 DEF SaidType
  <2>5. Trail' = Trail
    BY <1>2, <2>1 DEF Trail, contextVars
  <2> QED
    BY <1>2, <2>1, <2>4, <2>5 DEF ContextType, LedgerInv, contextVars
<1>10. CASE Press(s)
  <2>1. PICK f : f = Frame("dtmf", s, scope, NoFact)
    OBVIOUS
  <2>2. NoFact \in Abouts
    BY DEF Abouts
  <2>3. f \in Plain /\ f.kind = "dtmf"
    BY <2>1, <2>2, FrameType
  <2>4. Control(<<f>>)
    BY <2>3 DEF Control
  <2>5. PICK after : after = <<f>>
    OBVIOUS
  <2>6. Say("dtmf", s, "key", after) /\ Control(after)
    BY <1>4, <1>10, <2>1, <2>4, <2>5 DEF Press
  <2>7. "dtmf" \in {"stt", "dtmf"} /\ "key" \in {"short", "long", "key"}
    OBVIOUS
  <2> QED
    BY <1>2, <2>6, <2>7, SaySteps
<1>11. CASE Flush(s)
  <2>1. PICK f : f = Frame("flush", s, scope, NoFact)
    OBVIOUS
  <2>2. NoFact \in Abouts
    BY DEF Abouts
  <2>3. f \in Plain /\ f.kind = "flush" /\ f.stream = s
    BY <2>1, <2>2, FrameType
  <2>4. ContextFlush(f) /\ UNCHANGED said
    BY <1>4, <1>11, <2>1 DEF Flush, history
  <2> QED
    BY <1>2, <2>3, <2>4, FlushStep DEF SaidType
<1>12. CASE Pass(s)
  <2>1. UNCHANGED said
    BY <1>12 DEF Pass, history
  <2>2. s \in Scopes
    BY ScopeType
  <2>3. CASE \E a \in Agents : ContextPasses(Frame("handoff", s, s, a))
    <3>1. PICK a \in Agents : ContextPasses(Frame("handoff", s, s, a))
      BY <2>3
    <3>2. PICK f : f = Frame("handoff", s, s, a)
      OBVIOUS
    <3>3. f \in Waiting /\ f.kind = "handoff"
      BY <2>2, <3>2, HandoffType
    <3>4. PICK fs \in Seq(Waiting) : fs = <<f>>
      BY <3>3, SingleFrame
    <3>5. Emit(fs) /\ UNCHANGED <<pending, injected, global, globalHash>>
      BY <3>1, <3>2, <3>3, <3>4 DEF ContextPasses
    <3>6. f.kind \notin ContextKinds /\ ~NeedsContext(f)
      BY <3>3 DEF ContextKinds, NeedsContext
    <3> QED
      BY <1>2, <2>1, <3>3, <3>4, <3>5, <3>6, PassStep DEF SaidType
  <2>4. CASE ContextPasses(Frame("image", s, s, NoFact))
    <3>1. PICK ws \in Seq(Spoken) : ws = <<>>
      BY EmptySeq
    <3>2. PICK f : f = TextFrame("image", s, s, ws)
      OBVIOUS
    <3>3. f \in Waiting /\ f.kind = "text" /\ f.source = "image"
      BY <2>2, <3>2, TextType
    <3>4. PICK fs \in Seq(Waiting) : fs = <<f>>
      BY <3>3, SingleFrame
    <3>5. Emit(fs) /\ UNCHANGED <<pending, injected, global, globalHash>>
      BY <2>4, <3>1, <3>2, <3>4 DEF ContextPasses, Frame
    <3>6. f.kind \notin ContextKinds /\ ~NeedsContext(f)
      BY <3>3 DEF ContextKinds, NeedsContext
    <3> QED
      BY <1>2, <2>1, <3>3, <3>4, <3>5, <3>6, PassStep DEF SaidType
  <2>5. CASE ContextPasses(Frame("interim", s, s, NoFact))
    <3>1. PICK fs \in Seq(Waiting) : fs = <<>>
      BY EmptySeq
    <3>2. Emit(fs) /\ UNCHANGED <<pending, injected, global, globalHash>>
      BY <2>5, <3>1 DEF ContextPasses, Frame
    <3> QED
      BY <1>2, <2>1, <3>1, <3>2, PassStep DEF SaidType
  <2> QED
    BY <1>12, <2>3, <2>4, <2>5 DEF Pass
<1> QED
  BY <1>3, <1>5, <1>6, <1>7, <1>8, <1>9, <1>10, <1>11, <1>12

-----------------------------------------------------------------------------
(* The router: a frame is replaced by what it makes of it, behind updates.   *)
Replaces(h, g) ==
  /\ g.kind = h.kind /\ g.scope = h.scope
  /\ h.kind = "text" => g.source = h.source /\ g.stream = h.stream /\ g.words = h.words
  /\ h.kind # "text" => g = h

(* d is c with m updates before frame n + 1, and that one replaced. *)
Moves(c, d, n, m) ==
  /\ Len(c) \in Nat /\ n \in Nat /\ m \in Nat /\ n < Len(c)
  /\ DOMAIN c = 1 .. Len(c) /\ Len(d) = Len(c) + m /\ DOMAIN d = 1 .. Len(c) + m
  /\ \A j \in 1 .. n : d[j] = c[j]
  /\ \A j \in n + 1 .. n + m : d[j].kind = "update"
  /\ Replaces(c[n + 1], d[n + m + 1])
  /\ \A j \in n + 2 .. Len(c) : d[j + m] = c[j]

Moved(c, n, m) == [j \in 1 .. Len(c) + 1 |-> IF j <= n THEN j ELSE j + m]

LEMMA MovedAlike ==
  ASSUME NEW c, NEW d, NEW n, NEW m, Moves(c, d, n, m), NEW i \in 1 .. Len(c) + 1, NEW scope
  PROVE  Alike(c, i, d, Moved(c, n, m)[i], scope)
<1>1. PICK e : e = Moved(c, n, m)
  OBVIOUS
<1>2. PICK len \in Nat : len = Len(c)
  <2>1. Len(c) \in Nat
    BY Zenon DEF Moves
  <2> QED
    BY <2>1
<1>3. n \in Nat /\ m \in Nat /\ n < len /\ DOMAIN c = 1 .. len /\ DOMAIN d = 1 .. len + m
  BY <1>2 DEF Moves
<1>4. \A j \in 1 .. len + 1 : /\ j <= n => e[j] = j
                              /\ j > n => e[j] = j + m
  BY <1>1, <1>2, <1>3 DEF Moved
<1>5. PICK k : k = e[i]
  OBVIOUS
<1>6. i \in 1 .. len + 1 /\ (i <= n => k = i) /\ (i > n => k = i + m)
  BY <1>2, <1>3, <1>4, <1>5
<1>7. \A j \in Before(c, i) : j \in 1 .. len /\ j < i
  BY <1>3 DEF Before
<1>8. \A j \in Before(c, i) : e[j] \in Before(d, k)
  BY <1>3, <1>4, <1>6, <1>7 DEF Before
<1>9. ASSUME NEW j \in Before(c, i), NEW l \in Before(c, i)
      PROVE  (j < l <=> e[j] < e[l]) /\ (j >= l <=> e[j] >= e[l]) /\ (j = l <=> e[j] = e[l])
  <2>1. j \in Nat /\ l \in Nat /\ j \in 1 .. len + 1 /\ l \in 1 .. len + 1
    BY <1>3, <1>7
  <2>2. (j <= n => e[j] = j) /\ (j > n => e[j] = j + m)
    BY <1>4, <2>1
  <2>3. (l <= n => e[l] = l) /\ (l > n => e[l] = l + m)
    BY <1>4, <2>1
  <2> QED
    BY <1>3, <2>1, <2>2, <2>3
<1>10. ASSUME NEW j \in Before(c, i), Relevant(c[j], scope)
       PROVE  d[e[j]] = c[j]
  <2>1. CASE j <= n
    BY <1>2, <1>3, <1>4, <1>7, <2>1 DEF Moves
  <2>2. CASE j = n + 1
    <3>1. c[j].kind # "text"
      BY <1>10 DEF Relevant, ContextKinds
    <3>2. e[j] = n + m + 1
      BY <1>3, <1>4, <1>7, <2>2
    <3> QED
      BY <2>2, <3>1, <3>2 DEF Moves, Replaces
  <2>3. CASE j > n + 1
    <3>1. j \in n + 2 .. len /\ e[j] = j + m
      BY <1>3, <1>4, <1>7, <2>3
    <3> QED
      BY <1>2, <3>1 DEF Moves
  <2> QED
    BY <1>3, <1>7, <2>1, <2>2, <2>3
<1>11. ASSUME NEW p \in Before(d, k), Relevant(d[p], scope)
       PROVE  \E j \in Before(c, i) : Relevant(c[j], scope) /\ e[j] = p
  <2>1. p \in 1 .. len + m /\ p < k
    BY <1>3 DEF Before
  <2>2. p \notin n + 1 .. n + m
    BY <1>11 DEF Moves, Relevant, ContextKinds
  <2>3. CASE p <= n
    <3>1. p \in Before(c, i) /\ e[p] = p
      BY <1>3, <1>4, <1>6, <2>1, <2>3 DEF Before
    <3>2. d[p] = c[p]
      BY <1>3, <2>1, <2>3 DEF Moves
    <3> QED
      BY <1>11, <3>1, <3>2
  <2>4. CASE p = n + m + 1
    <3>1. n + 1 \in Before(c, i) /\ e[n + 1] = p
      BY <1>3, <1>4, <1>6, <2>1, <2>4 DEF Before
    <3>2. d[p].kind # "text" /\ Replaces(c[n + 1], d[p])
      BY <1>11, <2>4 DEF Relevant, ContextKinds, Moves
    <3>3. d[p] = c[n + 1]
      BY <3>2 DEF Replaces
    <3> QED
      BY <1>11, <3>1, <3>3
  <2>5. CASE p > n + m + 1
    <3>1. p - m \in Before(c, i) /\ e[p - m] = p /\ p - m \in n + 2 .. len /\ (p - m) + m = p
      BY <1>3, <1>4, <1>6, <2>1, <2>5 DEF Before
    <3>2. d[p] = c[p - m]
      BY <1>2, <3>1 DEF Moves
    <3> QED
      BY <1>11, <3>1, <3>2
  <2> QED
    BY <1>3, <2>1, <2>2, <2>3, <2>4, <2>5
<1>12. Embeds(c, i, d, k, scope, e)
  BY <1>8, <1>9, <1>10, <1>11 DEF Embeds
<1> QED
  BY <1>1, <1>5, <1>12, EmbeddedAlike

LEMMA KnowsMoved ==
  ASSUME NEW c, NEW d \in Seq(AnyFrame), NEW n, NEW m, Moves(c, d, n, m),
         NEW inj, NEW glo, NEW hash, Knows(c, inj, glo, hash)
  PROVE  Knows(d, inj, glo, hash)
<1>1. PICK e : e = Moved(c, n, m)
  OBVIOUS
<1>2. PICK len \in Nat : len = Len(c)
  <2>1. Len(c) \in Nat
    BY Zenon DEF Moves
  <2> QED
    BY <2>1
<1>3. /\ n \in Nat /\ m \in Nat /\ n < len /\ DOMAIN c = 1 .. len /\ DOMAIN d = 1 .. len + m
      /\ Len(d) = len + m
  BY <1>2 DEF Moves
<1>4. \A j \in 1 .. len + 1 : /\ j <= n => e[j] = j
                              /\ j > n => e[j] = j + m
  BY <1>1, <1>2, <1>3 DEF Moved
<1>5. \A j \in 1 .. len + 1 : \A scope : Alike(c, j, d, e[j], scope)
  BY <1>1, <1>2, MovedAlike
<1>6. ASSUME NEW scope \in Scopes
      PROVE  Ledger(d, scope, glo[scope], hash[scope], scope \in inj)
  <2>1. e[len + 1] = Len(d) + 1 /\ len + 1 \in 1 .. len + 1
    BY <1>3, <1>4
  <2>2. Alike(c, Behind(c), d, Behind(d), scope)
    <3>1. Alike(c, len + 1, d, e[len + 1], scope)
      BY <1>5, <2>1
    <3>2. Behind(c) = len + 1 /\ Behind(d) = e[len + 1]
      BY <1>2, <2>1 DEF Behind
    <3> QED
      BY <3>1, <3>2
  <2>3. PICK had : had = (scope \in inj)
    OBVIOUS
  <2>4. Ledger(c, scope, glo[scope], hash[scope], had)
    BY <2>3 DEF Knows
  <2>5. Ledger(d, scope, glo[scope], hash[scope], had)
    BY <2>2, <2>4, AlikeLedger
  <2> QED
    BY <2>3, <2>5
<1>7. ASSUME NEW p \in DOMAIN d, NeedsContext(d[p])
      PROVE  Contexted(d, p)
  <2>1. p \in 1 .. len + m /\ p \notin n + 1 .. n + m
    BY <1>3, <1>7 DEF Moves, NeedsContext
  <2>2. PICK j \in 1 .. len : /\ e[j] = p
                              /\ \/ j # n + 1 /\ d[p] = c[j]
                                 \/ j = n + 1 /\ Replaces(c[j], d[p])
    <3>1. CASE p <= n
      BY <1>3, <1>4, <2>1, <3>1 DEF Moves
    <3>2. CASE p = n + m + 1
      <4>1. e[n + 1] = p /\ n + 1 \in 1 .. len /\ Replaces(c[n + 1], d[p])
        BY <1>3, <1>4, <3>2 DEF Moves
      <4> QED
        BY <4>1
    <3>3. CASE p > n + m + 1
      <4>1. p - m \in 1 .. len /\ p - m # n + 1 /\ e[p - m] = p /\ p - m \in n + 2 .. len /\ (p - m) + m = p
        BY <1>3, <1>4, <2>1, <3>3
      <4>2. d[p] = c[p - m]
        BY <1>2, <4>1 DEF Moves
      <4> QED
        BY <4>1, <4>2
    <3> QED
      BY <1>3, <2>1, <3>1, <3>2, <3>3
  <2>3. NeedsContext(c[j]) /\ d[p].scope = c[j].scope
    BY <1>7, <2>2 DEF Replaces, NeedsContext
  <2>4. Contexted(c, j)
    BY <1>3, <2>3 DEF Knows, AllContexted
  <2>5. Alike(c, j, d, p, c[j].scope)
    BY <1>3, <1>5, <2>2
  <2> QED
    BY <2>3, <2>4, <2>5, AlikeContexted
<1> QED
  BY <1>6, <1>7 DEF Knows, AllContexted

LEMMA TakenMoves ==
  ASSUME NEW c \in Seq(AnyFrame), NEW q \in Seq(AnyFrame), q # <<>>,
         NEW u \in Seq(AnyFrame), \A j \in 1 .. Len(u) : u[j].kind = "update",
         NEW g \in AnyFrame, Replaces(Head(q), g)
  PROVE  /\ Moves(c \o q, ((c \o u) \o <<g>>) \o Tail(q), Len(c), Len(u))
         /\ ((c \o u) \o <<g>>) \o Tail(q) \in Seq(AnyFrame)
<1>1. PICK n \in Nat : n = Len(c)
  BY LenProperties
<1>2. PICK m \in Nat : m = Len(u)
  BY LenProperties
<1>3. PICK l \in Nat : l = Len(q) /\ l > 0
  BY LenProperties, EmptySeq
<1>4. PICK r \in Seq(AnyFrame) : r = Tail(q)
  BY HeadTailProperties
<1>5. Len(r) = l - 1 /\ \A j \in 1 .. l - 1 : r[j] = q[j + 1]
  BY <1>3, <1>4, HeadTailProperties
<1>6. Head(q) = q[1]
  OBVIOUS
<1>7. PICK a \in Seq(AnyFrame) : a = c \o q
  BY ConcatProperties
<1>8. /\ Len(a) = n + l /\ DOMAIN a = 1 .. n + l
      /\ \A j \in 1 .. n : a[j] = c[j]
      /\ \A j \in n + 1 .. n + l : a[j] = q[j - n]
  <2>1. \A j \in 1 .. n + l : a[j] = IF j <= n THEN c[j] ELSE q[j - n]
    BY <1>1, <1>3, <1>7, ConcatProperties
  <2>2. \A j \in 1 .. n : a[j] = c[j]
    BY <1>3, <2>1
  <2>3. \A j \in n + 1 .. n + l : a[j] = q[j - n]
    BY <1>3, <2>1
  <2> QED
    BY <1>1, <1>3, <1>7, <2>2, <2>3, ConcatProperties, LenProperties
<1>9. PICK b \in Seq(AnyFrame) : b = c \o u
  BY ConcatProperties
<1>10. /\ Len(b) = n + m
       /\ \A j \in 1 .. n : b[j] = c[j]
       /\ \A j \in n + 1 .. n + m : b[j] = u[j - n]
  <2>1. \A j \in 1 .. n + m : b[j] = IF j <= n THEN c[j] ELSE u[j - n]
    BY <1>1, <1>2, <1>9, ConcatProperties
  <2>2. \A j \in 1 .. n : b[j] = c[j]
    BY <2>1
  <2>3. \A j \in n + 1 .. n + m : b[j] = u[j - n]
    BY <2>1
  <2> QED
    BY <1>1, <1>2, <1>9, <2>2, <2>3, ConcatProperties
<1>11. PICK s \in Seq(AnyFrame) : s = b \o <<g>>
  BY AppendGrows
<1>12. Len(s) = n + m + 1 /\ s[n + m + 1] = g /\ \A j \in 1 .. n + m : s[j] = b[j]
  <2>1. Grows(b, g, s)
    BY <1>11, AppendGrows
  <2>2. PICK p : p = Len(b)
    OBVIOUS
  <2>3. Len(s) = p + 1 /\ s[p + 1] = g /\ \A j \in 1 .. p : s[j] = b[j]
    BY <2>1, <2>2, GrowsBy
  <2> QED
    BY <1>10, <2>2, <2>3
<1>13. PICK d \in Seq(AnyFrame) : d = s \o r
  BY ConcatProperties
<1>14. /\ Len(d) = (n + m + 1) + (l - 1) /\ DOMAIN d = 1 .. Len(d)
       /\ \A j \in 1 .. (n + m + 1) + (l - 1) :
            d[j] = IF j <= n + m + 1 THEN s[j] ELSE r[j - (n + m + 1)]
  <2>1. PICK p : p = Len(s)
    OBVIOUS
  <2>2. PICK t : t = Len(r)
    OBVIOUS
  <2>3. /\ Len(d) = p + t /\ DOMAIN d = 1 .. Len(d)
        /\ \A j \in 1 .. p + t : d[j] = IF j <= p THEN s[j] ELSE r[j - p]
    BY <1>13, <2>1, <2>2, ConcatProperties, LenProperties
  <2> QED
    BY <1>5, <1>12, <2>1, <2>2, <2>3
<1>15. Len(d) = n + l + m /\ DOMAIN d = 1 .. n + l + m
  BY <1>14
<1>16. /\ \A j \in 1 .. n + m + 1 : d[j] = s[j]
       /\ \A j \in n + m + 2 .. n + m + l : d[j] = r[j - (n + m + 1)]
  <2>1. \A j \in 1 .. n + m + 1 : d[j] = s[j]
    BY <1>3, <1>14
  <2>2. \A j \in n + m + 2 .. n + m + l : d[j] = r[j - (n + m + 1)]
    BY <1>3, <1>14
  <2> QED
    BY <2>1, <2>2
<1>17. \A j \in 1 .. n : d[j] = a[j]
  <2>1. TAKE j \in 1 .. n
  <2>2. j \in 1 .. n + m + 1 /\ j \in 1 .. n + m
    OBVIOUS
  <2> QED
    BY <1>8, <1>10, <1>12, <1>16, <2>2
<1>18. \A j \in n + 1 .. n + m : d[j].kind = "update"
  <2>1. TAKE j \in n + 1 .. n + m
  <2>2. j \in 1 .. n + m + 1 /\ j \in 1 .. n + m /\ j - n \in 1 .. m
    OBVIOUS
  <2>3. d[j] = s[j] /\ s[j] = b[j] /\ b[j] = u[j - n]
    BY <1>10, <1>12, <1>16, <2>2
  <2> QED
    BY <1>2, <2>2, <2>3
<1>19. Replaces(a[n + 1], d[n + m + 1])
  <2>1. n + 1 \in n + 1 .. n + l /\ (n + 1) - n = 1 /\ n + m + 1 \in 1 .. n + m + 1
    BY <1>3
  <2>2. a[n + 1] = q[1]
    BY <1>8, <2>1
  <2>3. d[n + m + 1] = g
    BY <1>12, <1>16, <2>1
  <2> QED
    BY <1>6, <2>2, <2>3
<1>20. \A j \in n + 2 .. n + l : d[j + m] = a[j]
  <2>1. TAKE j \in n + 2 .. n + l
  <2>2. /\ j + m \in n + m + 2 .. n + m + l /\ (j + m) - (n + m + 1) = j - n - 1
        /\ j - n - 1 \in 1 .. l - 1 /\ (j - n - 1) + 1 = j - n /\ j \in n + 1 .. n + l
    BY <1>3
  <2>3. d[j + m] = r[j - n - 1]
    BY <1>16, <2>2
  <2>4. r[j - n - 1] = q[j - n]
    BY <1>5, <2>2
  <2>5. a[j] = q[j - n]
    BY <1>8, <2>2
  <2> QED
    BY <2>3, <2>4, <2>5
<1>21. Moves(a, d, n, m)
  BY <1>3, <1>8, <1>15, <1>17, <1>18, <1>19, <1>20 DEF Moves
<1> QED
  BY <1>1, <1>2, <1>4, <1>7, <1>9, <1>11, <1>13, <1>21

-----------------------------------------------------------------------------
(* The texts of a stream since its call last ended, and what the router      *)
(* keeps of them.                                                            *)
TextsOf(c, s) ==
  LET ends == {j \in DOMAIN c : c[j].kind = "call_end" /\ c[j].stream = s}
  IN {i \in DOMAIN c : /\ c[i].kind = "text" /\ c[i].stream = s
                       /\ \A e \in ends : e < i}

RoutedOf(c, s) == {i \in TextsOf(c, s) : c[i].routed}
SpokenIn(c, s) == {i \in TextsOf(c, s) : c[i].lang # NoLang}

Turns(c, s, turns, lang) ==
  /\ Cardinality(RoutedOf(c, s)) = turns
  /\ Mode = "bootstrap" => turns <= MaxTurns
  /\ Mode = "off" => RoutedOf(c, s) = {}
  /\ ~CodeSwitching => IF lang = NoLang THEN SpokenIn(c, s) = {} ELSE Cardinality(SpokenIn(c, s)) <= 1

LEMMA TextsNext ==
  ASSUME NEW c, NEW g, NEW d, Grows(c, g, d), NEW s
  PROVE  /\ TextsOf(c, s) \subseteq 1 .. Len(c) /\ Len(c) \in Nat
         /\ \A j \in 1 .. Len(c) : d[j] = c[j]
         /\ d[Len(c) + 1] = g
         /\ g.kind = "call_end" /\ g.stream = s => TextsOf(d, s) = {}
         /\ g.kind = "text" /\ g.stream = s => TextsOf(d, s) = TextsOf(c, s) \cup {Len(c) + 1}
         /\ g.stream # s \/ g.kind \notin {"call_end", "text"} => TextsOf(d, s) = TextsOf(c, s)
<1>1. PICK n \in Nat : n = Len(c)
  BY GrowsBy
<1>2. /\ DOMAIN c = 1 .. n /\ DOMAIN d = 1 .. n + 1 /\ d[n + 1] = g
      /\ \A j \in 1 .. n : d[j] = c[j]
  BY <1>1, GrowsBy
<1>3. TextsOf(c, s) \subseteq 1 .. n
  BY <1>2 DEF TextsOf
<1>4. CASE g.kind = "call_end" /\ g.stream = s
  <2>1. n + 1 \in {j \in DOMAIN d : d[j].kind = "call_end" /\ d[j].stream = s}
    BY <1>2, <1>4
  <2>2. \A i \in DOMAIN d : ~(n + 1 < i)
    BY <1>2
  <2>3. TextsOf(d, s) = {}
    BY <2>1, <2>2 DEF TextsOf
  <2> QED
    BY <1>1, <1>2, <1>3, <1>4, <2>3
<1>5. CASE ~(g.kind = "call_end" /\ g.stream = s)
  <2>1. {j \in DOMAIN d : d[j].kind = "call_end" /\ d[j].stream = s} =
          {j \in DOMAIN c : c[j].kind = "call_end" /\ c[j].stream = s}
    BY <1>2, <1>5
  <2>2. PICK E : E = {j \in DOMAIN c : c[j].kind = "call_end" /\ c[j].stream = s}
    OBVIOUS
  <2>3. /\ TextsOf(c, s) = {i \in DOMAIN c : c[i].kind = "text" /\ c[i].stream = s /\ \A e \in E : e < i}
        /\ TextsOf(d, s) = {i \in DOMAIN d : d[i].kind = "text" /\ d[i].stream = s /\ \A e \in E : e < i}
    BY <2>1, <2>2 DEF TextsOf
  <2>4. \A e \in E : e < n + 1
    BY <1>2, <2>2
  <2>5. g.kind = "text" /\ g.stream = s => TextsOf(d, s) = TextsOf(c, s) \cup {n + 1}
    BY <1>2, <2>3, <2>4
  <2>6. g.stream # s \/ g.kind \notin {"call_end", "text"} => TextsOf(d, s) = TextsOf(c, s)
    BY <1>2, <1>5, <2>3
  <2> QED
    BY <1>1, <1>2, <1>3, <1>5, <2>5, <2>6
<1> QED
  BY <1>4, <1>5

LEMMA TurnsKept ==
  ASSUME NEW c, NEW g, NEW d, Grows(c, g, d), NEW s, g.stream # s \/ g.kind \notin {"call_end", "text"},
         NEW turns, NEW lang, Turns(c, s, turns, lang)
  PROVE  Turns(d, s, turns, lang)
<1>1. TextsOf(d, s) = TextsOf(c, s) /\ \A j \in TextsOf(c, s) : d[j] = c[j]
  BY TextsNext
<1>2. RoutedOf(d, s) = RoutedOf(c, s) /\ SpokenIn(d, s) = SpokenIn(c, s)
  BY <1>1 DEF RoutedOf, SpokenIn
<1> QED
  BY <1>2 DEF Turns

LEMMA TurnsEnd ==
  ASSUME NEW c, NEW g, NEW d, Grows(c, g, d), NEW s, g.stream = s, g.kind = "call_end"
  PROVE  Turns(d, s, 0, NoLang)
<1>1. TextsOf(d, s) = {}
  BY TextsNext
<1>2. RoutedOf(d, s) = {} /\ SpokenIn(d, s) = {}
  BY <1>1 DEF RoutedOf, SpokenIn
<1>3. Cardinality(RoutedOf(d, s)) = 0
  BY <1>2, FS_EmptySet
<1>4. 0 <= MaxTurns
  BY RouterAssumption
<1> QED
  BY <1>2, <1>3, <1>4 DEF Turns

(* A text is routed only as long as its stream has turns left, and found in a *)
(* language only as long as detection goes on.                                *)
Advances(g, turns, lang, nturns, nlang) ==
  /\ IF g.routed THEN /\ nturns = turns + 1 /\ Mode # "off"
                      /\ Mode = "bootstrap" => turns < MaxTurns
     ELSE nturns = turns
  /\ IF g.lang # NoLang THEN nlang = g.lang /\ (CodeSwitching \/ lang = NoLang)
     ELSE nlang = lang

LEMMA OneMoreOf ==
  ASSUME NEW n \in Nat, NEW T \in SUBSET (1 .. n)
  PROVE  IsFiniteSet(T) /\ Cardinality(T) \in Nat /\ Cardinality(T \cup {n + 1}) = Cardinality(T) + 1
<1>1. IsFiniteSet(1 .. n)
  BY FS_Interval
<1>2. IsFiniteSet(T)
  BY <1>1, FS_Subset
<1>3. n + 1 \notin T
  OBVIOUS
<1> QED
  BY <1>2, <1>3, FS_AddElement, FS_CardinalityType

LEMMA TurnsText ==
  ASSUME NEW c, NEW g, NEW d, Grows(c, g, d), NEW s, g.stream = s, g.kind = "text", g.routed \in BOOLEAN,
         NEW turns \in Nat, NEW lang, NEW nturns, NEW nlang, Turns(c, s, turns, lang),
         Advances(g, turns, lang, nturns, nlang)
  PROVE  Turns(d, s, nturns, nlang)
<1>1. PICK n \in Nat : n = Len(c)
  BY GrowsBy
<1>2. /\ TextsOf(d, s) = TextsOf(c, s) \cup {n + 1} /\ TextsOf(c, s) \subseteq 1 .. n
      /\ d[n + 1] = g /\ \A j \in 1 .. n : d[j] = c[j]
  <2>1. /\ TextsOf(c, s) \subseteq 1 .. Len(c) /\ d[Len(c) + 1] = g
        /\ \A j \in 1 .. Len(c) : d[j] = c[j]
    BY TextsNext
  <2>2. TextsOf(d, s) = TextsOf(c, s) \cup {Len(c) + 1}
    BY TextsNext
  <2> QED
    BY <1>1, <2>1, <2>2
<1>3. RoutedOf(c, s) \in SUBSET (1 .. n) /\ SpokenIn(c, s) \in SUBSET (1 .. n)
  BY <1>2 DEF RoutedOf, SpokenIn
<1>4. /\ g.routed => RoutedOf(d, s) = RoutedOf(c, s) \cup {n + 1}
      /\ ~g.routed => RoutedOf(d, s) = RoutedOf(c, s)
  BY <1>2, Zenon DEF RoutedOf
<1>5. /\ g.lang # NoLang => SpokenIn(d, s) = SpokenIn(c, s) \cup {n + 1}
      /\ g.lang = NoLang => SpokenIn(d, s) = SpokenIn(c, s)
  BY <1>2 DEF SpokenIn
<1>6. /\ Cardinality(RoutedOf(c, s)) = turns
      /\ Mode = "bootstrap" => turns <= MaxTurns
      /\ Mode = "off" => RoutedOf(c, s) = {}
  BY DEF Turns
<1>7. /\ Cardinality(RoutedOf(d, s)) = nturns
      /\ Mode = "bootstrap" => nturns <= MaxTurns
      /\ Mode = "off" => RoutedOf(d, s) = {}
  <2>1. CASE g.routed
    <3>1. nturns = turns + 1 /\ Mode # "off" /\ (Mode = "bootstrap" => turns < MaxTurns)
      BY <2>1 DEF Advances
    <3>2. Cardinality(RoutedOf(c, s) \cup {n + 1}) = Cardinality(RoutedOf(c, s)) + 1
      BY <1>3, OneMoreOf
    <3>3. Cardinality(RoutedOf(d, s)) = nturns
      BY <1>4, <1>6, <2>1, <3>1, <3>2
    <3>4. Mode = "bootstrap" => nturns <= MaxTurns
      BY <3>1, RouterAssumption
    <3> QED
      BY <3>1, <3>3, <3>4
  <2>2. CASE ~g.routed
    <3>1. nturns = turns
      BY <2>2 DEF Advances
    <3> QED
      BY <1>4, <1>6, <2>2, <3>1
  <2> QED
    BY <2>1, <2>2
<1>8. ~CodeSwitching => IF nlang = NoLang THEN SpokenIn(d, s) = {} ELSE Cardinality(SpokenIn(d, s)) <= 1
  <2>1. SUFFICES ASSUME ~CodeSwitching
                 PROVE  IF nlang = NoLang THEN SpokenIn(d, s) = {} ELSE Cardinality(SpokenIn(d, s)) <= 1
    OBVIOUS
  <2>2. IF lang = NoLang THEN SpokenIn(c, s) = {} ELSE Cardinality(SpokenIn(c, s)) <= 1
    BY <2>1 DEF Turns
  <2>3. CASE g.lang # NoLang
    <3>1. nlang = g.lang /\ lang = NoLang
      BY <2>1, <2>3 DEF Advances
    <3>2. SpokenIn(c, s) = {} /\ SpokenIn(d, s) = SpokenIn(c, s) \cup {n + 1}
      BY <1>5, <2>2, <2>3, <3>1
    <3>3. Cardinality(SpokenIn(c, s) \cup {n + 1}) = Cardinality(SpokenIn(c, s)) + 1
      BY <1>3, OneMoreOf
    <3>4. Cardinality(SpokenIn(d, s)) = 1
      BY <3>2, <3>3, FS_EmptySet
    <3> QED
      BY <2>3, <3>1, <3>4
  <2>4. CASE g.lang = NoLang
    <3>1. nlang = lang
      BY <2>4 DEF Advances
    <3> QED
      BY <1>5, <2>2, <2>4, <3>1
  <2> QED
    BY <2>3, <2>4
<1> QED
  BY <1>7, <1>8 DEF Turns

-----------------------------------------------------------------------------
TurnsInv == \A s \in Streams : Turns(arrived, s, turnCount[s], langActive[s])

LEMMA TurnsGiveRoutingStops ==
  ASSUME RouterType, TurnsInv
  PROVE  RoutingStops
<1>1. SUFFICES ASSUME NEW s \in Streams
               PROVE  /\ Mode = "bootstrap" => Cardinality({i \in TextsSinceEnd(s) : arrived[i].routed}) <= MaxTurns
                      /\ Mode = "off" => \A i \in TextsSinceEnd(s) : ~arrived[i].routed
                      /\ ~CodeSwitching => Cardinality({i \in TextsSinceEnd(s) : arrived[i].lang # NoLang}) <= 1
  BY DEF RoutingStops
<1>2. TextsSinceEnd(s) = TextsOf(arrived, s)
  BY DEF TextsSinceEnd, TextsOf
<1>3. /\ {i \in TextsSinceEnd(s) : arrived[i].routed} = RoutedOf(arrived, s)
      /\ {i \in TextsSinceEnd(s) : arrived[i].lang # NoLang} = SpokenIn(arrived, s)
  BY <1>2, Zenon DEF RoutedOf, SpokenIn
<1>4. Turns(arrived, s, turnCount[s], langActive[s])
  BY DEF TurnsInv
<1>5. Mode = "bootstrap" => Cardinality(RoutedOf(arrived, s)) <= MaxTurns
  BY <1>4 DEF Turns
<1>6. Mode = "off" => RoutedOf(arrived, s) = {}
  BY <1>4 DEF Turns
<1>7. ~CodeSwitching => Cardinality(SpokenIn(arrived, s)) <= 1
  <2>1. Cardinality({}) = 0
    BY FS_EmptySet
  <2> QED
    BY <1>4, <2>1 DEF Turns
<1>8. Mode = "off" => \A i \in TextsSinceEnd(s) : ~arrived[i].routed
  BY <1>3, <1>6, Zenon
<1> QED
  BY <1>3, <1>5, <1>7, <1>8

(* An update, or none. *)
IsUpdate(x) == x = <<>> \/ \E g \in Updates : x = <<g>>

LEMMA TurnsUpdate ==
  ASSUME NEW c \in Seq(AnyFrame), NEW x, IsUpdate(x),
         NEW s, NEW turns, NEW lang, Turns(c, s, turns, lang)
  PROVE  Turns(c \o x, s, turns, lang)
<1>1. CASE x = <<>>
  <2>1. c \o x = c
    BY <1>1, ConcatEmptySeq
  <2> QED
    BY <2>1
<1>2. ASSUME NEW g \in Updates, x = <<g>>
      PROVE  Turns(c \o x, s, turns, lang)
  <2>1. g \in AnyFrame /\ g.kind \notin {"call_end", "text"}
    BY DEF AnyFrame, Updates
  <2>2. Grows(c, g, c \o <<g>>)
    BY <2>1, AppendGrows
  <2>3. Turns(c \o <<g>>, s, turns, lang)
    BY <2>1, <2>2, TurnsKept
  <2> QED
    BY <1>2, <2>3
<1> QED
  BY <1>1, <1>2 DEF IsUpdate

-----------------------------------------------------------------------------
(* What a step of the router does: at most two updates, then the frame it    *)
(* makes of the one it has taken; and what it keeps of the frame's stream.   *)
Advanced(g) ==
  /\ \A s \in Streams : s # g.stream => turnCount'[s] = turnCount[s] /\ langActive'[s] = langActive[s]
  /\ g.kind = "call_end" => turnCount'[g.stream] = 0 /\ langActive'[g.stream] = NoLang
  /\ g.kind = "text" =>
       /\ g.routed \in BOOLEAN
       /\ Advances(g, turnCount[g.stream], langActive[g.stream], turnCount'[g.stream], langActive'[g.stream])
  /\ g.kind \notin {"call_end", "text"} =>
       turnCount'[g.stream] = turnCount[g.stream] /\ langActive'[g.stream] = langActive[g.stream]

Outcome(x, y, g) ==
  /\ IsUpdate(x) /\ IsUpdate(y) /\ g \in AnyFrame /\ g.stream \in Streams
  /\ Replaces(Head(toRouter), g)
  /\ arrived' = ((arrived \o x) \o y) \o <<g>>
  /\ Advanced(g)

LEMMA UpdateSeq ==
  ASSUME NEW x, IsUpdate(x)
  PROVE  x \in Seq(AnyFrame) /\ \A j \in 1 .. Len(x) : x[j].kind = "update"
<1>1. CASE x = <<>>
  <2>1. <<>> \in Seq(AnyFrame) /\ Len(<<>>) = 0
    BY EmptySeq
  <2> QED
    BY <1>1, <2>1
<1>2. ASSUME NEW g \in Updates, x = <<g>>
      PROVE  x \in Seq(AnyFrame) /\ \A j \in 1 .. Len(x) : x[j].kind = "update"
  <2>1. g \in AnyFrame /\ g.kind = "update"
    BY DEF AnyFrame, Updates
  <2>2. <<g>> \in Seq(AnyFrame)
    BY <2>1
  <2>3. Len(<<g>>) = 1 /\ <<g>>[1] = g
    OBVIOUS
  <2> QED
    BY <1>2, <2>1, <2>2, <2>3
<1> QED
  BY <1>1, <1>2 DEF IsUpdate

LEMMA OnlyFrame ==
  ASSUME NEW c \in Seq(AnyFrame), NEW g \in AnyFrame
  PROVE  c \o <<g>> = ((c \o <<>>) \o <<>>) \o <<g>>
<1>1. c \o <<>> = c
  BY ConcatEmptySeq
<1> QED
  BY <1>1

LEMMA TakenFrame ==
  ASSUME ContextType, toRouter # <<>>
  PROVE  Head(toRouter) \in Waiting /\ Tail(toRouter) \in Seq(Waiting)
BY HeadTailProperties DEF ContextType

LEMMA SpeechIsRouted ==
  ASSUME RouterType, NEW t \in Texts, t = Head(toRouter), NEW lang \in Langs \cup {NoLang},
         NEW agent \in Agents \cup {NoAgent}, NEW tells \in BOOLEAN, RouteSpeech(t, lang, agent, tells)
  PROVE  RouterType' /\ \E x, y, g : Outcome(x, y, g)
<1>1. PICK s \in Streams : s = t.stream
  BY DEF Texts
<1>2. PICK new \in BOOLEAN : new = (lang # NoLang /\ lang # langActive[s])
  OBVIOUS
<1>3. PICK chosen \in Agents \cup {NoAgent} : chosen = IF agent = NoAgent THEN active[s] ELSE agent
  BY DEF RouterType
<1>4. PICK should \in BOOLEAN : should = ShouldRoute(s)
  <2>1. ShouldRoute(s) \in BOOLEAN
    <3>1. Mode = "off" => ShouldRoute(s) = FALSE
      BY DEF ShouldRoute
    <3>2. Mode = "bootstrap" => ShouldRoute(s) = (turnCount[s] < MaxTurns)
      BY DEF ShouldRoute
    <3>3. Mode = "full" => ShouldRoute(s) = TRUE
      BY DEF ShouldRoute
    <3>4. (turnCount[s] < MaxTurns) \in BOOLEAN
      OBVIOUS
    <3> QED
      BY <3>1, <3>2, <3>3, <3>4, RouterAssumption, Zenon
  <2> QED
    BY <2>1
<1>5. PICK x : x = IF new THEN <<Update(t, lang)>> ELSE <<>>
  OBVIOUS
<1>6. PICK y : y = IF tells THEN <<Update(t, NoLang)>> ELSE <<>>
  OBVIOUS
<1>7. PICK g : g = Routed(t, chosen, lang, should)
  OBVIOUS
<1>8. /\ lang # NoLang => CodeSwitching \/ langActive[s] = NoLang
      /\ langActive' = (IF new THEN [langActive EXCEPT ![s] = lang] ELSE langActive)
      /\ active' = [active EXCEPT ![s] = chosen]
      /\ turnCount' = (IF should THEN [turnCount EXCEPT ![s] = @ + 1] ELSE turnCount)
      /\ arrived' = arrived \o ((x \o y) \o <<g>>)
  BY <1>1, <1>2, <1>3, <1>4, <1>5, <1>6, <1>7 DEF RouteSpeech, Arrive, HasLanguage
<1>9. IsUpdate(x)
  <2>1. Update(t, lang) \in Updates
    BY <1>1 DEF Update, Updates
  <2> QED
    BY <1>5, <2>1 DEF IsUpdate
<1>10. IsUpdate(y)
  <2>1. Update(t, NoLang) \in Updates
    BY <1>1 DEF Update, Updates
  <2> QED
    BY <1>6, <2>1 DEF IsUpdate
<1>11. /\ g \in RoutedTexts /\ g \in AnyFrame /\ g.kind = "text" /\ g.stream = s /\ g.scope = t.scope
       /\ g.source = t.source /\ g.words = t.words /\ g.routed = should /\ g.lang = lang /\ t.kind = "text"
  BY <1>1, <1>7 DEF Routed, RoutedTexts, Texts, AnyFrame
<1>12. Replaces(Head(toRouter), g)
  BY <1>1, <1>11 DEF Replaces
<1>13. PICK z \in Seq(AnyFrame) : z = <<g>>
  <2>1. <<g>> \in Seq(AnyFrame)
    BY <1>11
  <2> QED
    BY <2>1
<1>14. x \in Seq(AnyFrame) /\ y \in Seq(AnyFrame) /\ arrived \in Seq(AnyFrame)
  BY <1>9, <1>10, UpdateSeq DEF RouterType
<1>15. arrived' = ((arrived \o x) \o y) \o <<g>>
  <2>1. Then(arrived, Then(Then(x, y), z)) = Then(Then(Then(arrived, x), y), z)
    BY <1>14, ConcatThree
  <2>2. arrived \o ((x \o y) \o z) = ((arrived \o x) \o y) \o z
    BY <2>1 DEF Then
  <2> QED
    BY <1>8, <1>13, <2>2
<1>16. arrived' \in Seq(AnyFrame)
  <2>1. arrived \o x \in Seq(AnyFrame)
    BY <1>14, ConcatProperties
  <2>2. (arrived \o x) \o y \in Seq(AnyFrame)
    BY <1>14, <2>1, ConcatProperties
  <2> QED
    BY <1>11, <1>15, <2>2, AppendGrows
<1>17. /\ turnCount' \in [Streams -> Nat] /\ langActive' \in [Streams -> Langs \cup {NoLang}]
       /\ active' \in [Streams -> Agents \cup {NoAgent}]
       /\ \A r \in Streams : r # s => turnCount'[r] = turnCount[r] /\ langActive'[r] = langActive[r]
       /\ turnCount'[s] = (IF should THEN turnCount[s] + 1 ELSE turnCount[s])
       /\ langActive'[s] = (IF new THEN lang ELSE langActive[s])
  BY <1>8 DEF RouterType
<1>18. Advances(g, turnCount[s], langActive[s], turnCount'[s], langActive'[s])
  <2>1. /\ should => /\ turnCount'[s] = turnCount[s] + 1 /\ Mode # "off"
                     /\ Mode = "bootstrap" => turnCount[s] < MaxTurns
        /\ ~should => turnCount'[s] = turnCount[s]
    BY <1>4, <1>17, RouterAssumption DEF ShouldRoute
  <2>2. /\ lang # NoLang => langActive'[s] = lang /\ (CodeSwitching \/ langActive[s] = NoLang)
        /\ lang = NoLang => langActive'[s] = langActive[s]
    BY <1>2, <1>8, <1>17
  <2> QED
    BY <1>11, <2>1, <2>2 DEF Advances
<1>19. Advanced(g)
  BY <1>11, <1>17, <1>18 DEF Advanced
<1>20. Outcome(x, y, g)
  BY <1>9, <1>10, <1>11, <1>12, <1>15, <1>19 DEF Outcome
<1> QED
  BY <1>16, <1>17, <1>20 DEF RouterType

LEMMA OtherFrame ==
  ASSUME RouterType, NEW h \in Waiting, h = Head(toRouter), NEW g \in AnyFrame, g.stream \in Streams,
         Replaces(h, g), Advanced(g), arrived' = arrived \o <<g>>
  PROVE  arrived' \in Seq(AnyFrame) /\ \E x, y, f : Outcome(x, y, f)
<1>1. arrived' = ((arrived \o <<>>) \o <<>>) \o <<g>>
  BY OnlyFrame DEF RouterType
<1>2. PICK x : x = <<>>
  OBVIOUS
<1>3. IsUpdate(x)
  BY <1>2 DEF IsUpdate
<1>4. Outcome(x, x, g)
  BY <1>1, <1>2, <1>3 DEF Outcome
<1>5. arrived' \in Seq(AnyFrame)
  BY AppendGrows DEF RouterType
<1> QED
  BY <1>4, <1>5

LEMMA RouterMakes ==
  ASSUME ContextType, RouterType, RouterStep
  PROVE  /\ RouterType' /\ \E x, y, g : Outcome(x, y, g)
         /\ toRouter # <<>> /\ toRouter' = Tail(toRouter)
         /\ UNCHANGED <<pending, injected, global, globalHash, said>>
<1>1. /\ toRouter # <<>> /\ toRouter' = Tail(toRouter)
      /\ UNCHANGED <<pending, injected, global, globalHash, said>>
  BY DEF RouterStep, Receive, history
<1>2. PICK h \in Waiting : h = Head(toRouter)
  BY <1>1, TakenFrame
<1>3. h \in AnyFrame /\ h.stream \in Streams /\ (h.kind = "text" => h \in Texts)
  BY DEF AnyFrame, Waiting, Texts, Plain, Handoffs
<1>4. CASE Speech(h)
  <2>1. PICK lang \in Langs \cup {NoLang}, agent \in Agents \cup {NoAgent}, tells \in BOOLEAN :
          RouteSpeech(h, lang, agent, tells)
    BY <1>2, <1>4 DEF RouterStep, Speech
  <2>2. h \in Texts
    BY <1>3, <1>4 DEF Speech
  <2> QED
    BY <1>1, <1>2, <2>1, <2>2, SpeechIsRouted
<1>5. CASE h.kind = "text" /\ ~Speech(h)
  <2>1. RouteText(h)
    BY <1>2, <1>5 DEF RouterStep
  <2>2. PICK s \in Streams : s = h.stream
    BY <1>3
  <2>3. PICK agent \in Agents \cup {NoAgent} : agent = active[s]
    BY DEF RouterType
  <2>4. PICK g : g = Routed(h, agent, NoLang, FALSE)
    OBVIOUS
  <2>5. arrived' = arrived \o <<g>> /\ UNCHANGED <<active, langActive, turnCount>>
    BY <2>1, <2>2, <2>3, <2>4 DEF RouteText, Arrive, routerState
  <2>6. h \in Texts
    BY <1>3, <1>5
  <2>7. g \in RoutedTexts /\ g.kind = "text" /\ g.stream = s /\ g.scope = h.scope
    BY <2>2, <2>4, <2>6 DEF Routed, RoutedTexts, Texts
  <2>8. /\ g.source = h.source /\ g.words = h.words
        /\ g.lang = NoLang /\ g.routed = FALSE /\ g \in AnyFrame
    BY <2>4, <2>7 DEF Routed, AnyFrame
  <2>9. Replaces(h, g)
    BY <1>5, <2>2, <2>7, <2>8 DEF Replaces
  <2>10. Advances(g, turnCount[s], langActive[s], turnCount'[s], langActive'[s])
    BY <2>5, <2>8 DEF Advances
  <2>11. Advanced(g)
    BY <2>5, <2>7, <2>8, <2>10 DEF Advanced
  <2>12. arrived' \in Seq(AnyFrame) /\ \E x, y, f : Outcome(x, y, f)
    BY <1>2, <2>5, <2>7, <2>8, <2>9, <2>11, OtherFrame
  <2> QED
    BY <1>1, <2>5, <2>12 DEF RouterType
<1>6. CASE h.kind = "handoff"
  <2>1. Handoff(h)
    BY <1>2, <1>6 DEF RouterStep, Speech
  <2>2. PICK x : x = <<Update(h, h.about)>>
    OBVIOUS
  <2>3. /\ UNCHANGED <<langActive, turnCount>> /\ active' = [active EXCEPT ![h.stream] = h.about]
        /\ arrived' = arrived \o (x \o <<h>>)
    BY <2>1, <2>2 DEF Handoff, Arrive
  <2>4. h.about \in Agents
    BY <1>6 DEF Waiting, Texts, Plain, Handoffs
  <2>5. IsUpdate(x)
    <3>1. Update(h, h.about) \in Updates
      BY <1>3, <2>4 DEF Update, Updates
    <3> QED
      BY <2>2, <3>1 DEF IsUpdate
  <2>6. PICK z \in Seq(AnyFrame) : z = <<h>>
    <3>1. <<h>> \in Seq(AnyFrame)
      BY <1>3
    <3> QED
      BY <3>1
  <2>7. x \in Seq(AnyFrame) /\ arrived \in Seq(AnyFrame)
    BY <2>5, UpdateSeq DEF RouterType
  <2>8. arrived \o (x \o z) = (arrived \o x) \o z /\ arrived \o x \in Seq(AnyFrame)
    BY <2>7, ConcatTwo
  <2>9. arrived' = (arrived \o x) \o <<h>>
    BY <2>3, <2>6, <2>8
  <2>10. PICK y : y = <<>>
    OBVIOUS
  <2>11. (arrived \o x) \o y = arrived \o x
    BY <2>8, <2>10, ConcatEmptySeq
  <2>12. Replaces(h, h)
    BY DEF Replaces
  <2>13. Advanced(h)
    BY <1>6, <2>3 DEF Advanced
  <2>14. IsUpdate(y)
    BY <2>10 DEF IsUpdate
  <2>15. Outcome(x, y, h)
    BY <1>2, <1>3, <2>5, <2>9, <2>11, <2>12, <2>13, <2>14 DEF Outcome
  <2>16. arrived' \in Seq(AnyFrame)
    BY <1>3, <2>8, <2>9, AppendGrows
  <2> QED
    BY <1>1, <1>3, <2>3, <2>4, <2>15, <2>16 DEF RouterType
<1>7. CASE h.kind = "call_end"
  <2>1. ResetStream(h)
    BY <1>2, <1>7 DEF RouterStep, Speech
  <2>2. /\ active' = [active EXCEPT ![h.stream] = NoAgent]
        /\ langActive' = [langActive EXCEPT ![h.stream] = NoLang]
        /\ turnCount' = [turnCount EXCEPT ![h.stream] = 0]
        /\ arrived' = arrived \o <<h>>
    BY <2>1 DEF ResetStream, Arrive
  <2>3. Replaces(h, h)
    BY DEF Replaces
  <2>4. Advanced(h)
    BY <1>3, <1>7, <2>2 DEF Advanced, RouterType
  <2>5. arrived' \in Seq(AnyFrame) /\ \E x, y, f : Outcome(x, y, f)
    BY <1>2, <1>3, <2>2, <2>3, <2>4, OtherFrame
  <2>6. 0 \in Nat
    OBVIOUS
  <2> QED
    BY <1>1, <2>2, <2>5, <2>6 DEF RouterType
<1>8. CASE h.kind \notin {"text", "handoff", "call_end"}
  <2>1. RouterPasses(h)
    BY <1>2, <1>8 DEF RouterStep, Speech
  <2>2. UNCHANGED <<active, langActive, turnCount>> /\ arrived' = arrived \o <<h>>
    BY <2>1 DEF RouterPasses, Arrive, routerState
  <2>3. Replaces(h, h)
    BY DEF Replaces
  <2>4. Advanced(h)
    BY <1>8, <2>2 DEF Advanced
  <2>5. arrived' \in Seq(AnyFrame) /\ \E x, y, f : Outcome(x, y, f)
    BY <1>2, <1>3, <2>2, <2>3, <2>4, OtherFrame
  <2> QED
    BY <1>1, <2>2, <2>5 DEF RouterType
<1> QED
  BY <1>4, <1>5, <1>6, <1>7, <1>8

(* The trail moves as the router takes a frame: updates come before it. *)
LEMMA TrailMoves ==
  ASSUME ContextType, RouterType, RouterStep
  PROVE  Trail' \in Seq(AnyFrame) /\ \E n, m : Moves(Trail, Trail', n, m)
<1>1. toRouter # <<>> /\ toRouter' = Tail(toRouter)
  BY RouterMakes
<1>2. PICK x, y, g : Outcome(x, y, g)
  BY RouterMakes
<1>3. /\ g \in AnyFrame /\ Replaces(Head(toRouter), g)
      /\ arrived' = ((arrived \o x) \o y) \o <<g>>
      /\ IsUpdate(x) /\ IsUpdate(y)
  BY <1>2 DEF Outcome
<1>4. x \in Seq(AnyFrame) /\ y \in Seq(AnyFrame) /\ arrived \in Seq(AnyFrame) /\ toRouter \in Seq(AnyFrame)
  BY <1>3, UpdateSeq, WaitingSeq DEF RouterType, ContextType
<1>5. PICK u \in Seq(AnyFrame) : u = x \o y
  BY <1>4, ConcatProperties
<1>6. \A j \in 1 .. Len(u) : u[j].kind = "update"
  <2>1. PICK n \in Nat : n = Len(x)
    BY <1>4, LenProperties
  <2>2. PICK m \in Nat : m = Len(y)
    BY <1>4, LenProperties
  <2>3. Len(u) = n + m /\ \A j \in 1 .. n + m : u[j] = IF j <= n THEN x[j] ELSE y[j - n]
    BY <1>4, <1>5, <2>1, <2>2, ConcatProperties
  <2>4. (\A j \in 1 .. n : x[j].kind = "update") /\ (\A j \in 1 .. m : y[j].kind = "update")
    BY <1>3, <2>1, <2>2, UpdateSeq
  <2>5. ASSUME NEW j \in 1 .. n + m
        PROVE  u[j].kind = "update"
    <3>1. CASE j <= n
      BY <2>3, <2>4, <3>1
    <3>2. CASE j > n
      <4>1. u[j] = y[j - n] /\ j - n \in 1 .. m
        BY <2>3, <3>2
      <4> QED
        BY <2>4, <4>1
    <3> QED
      BY <3>1, <3>2
  <2> QED
    BY <2>3, <2>5
<1>7. (arrived \o x) \o y = arrived \o u
  <2>1. Then(arrived, Then(x, y)) = Then(Then(arrived, x), y)
    BY <1>4, ThenIsAssociative
  <2> QED
    BY <1>5, <2>1 DEF Then
<1>8. PICK c : c = Trail
  OBVIOUS
<1>9. PICK d : d = Trail'
  OBVIOUS
<1>10. /\ c = arrived \o toRouter
      /\ d = ((arrived \o u) \o <<g>>) \o Tail(toRouter)
  BY <1>1, <1>3, <1>7, <1>8, <1>9 DEF Trail
<1>11. PICK n, m : Moves(c, d, n, m)
  BY <1>1, <1>3, <1>4, <1>6, <1>10, TakenMoves
<1>12. d \in Seq(AnyFrame)
  BY <1>1, <1>3, <1>4, <1>6, <1>10, TakenMoves
<1> QED
  BY <1>8, <1>9, <1>11, <1>12

LEMMA RouterStepKeeps ==
  ASSUME ContextType, RouterType, SaidType, LedgerInv, TurnsInv, RouterStep
  PROVE  ContextType' /\ RouterType' /\ SaidType' /\ LedgerInv' /\ TurnsInv'
<1>1. /\ RouterType' /\ toRouter # <<>> /\ toRouter' = Tail(toRouter)
      /\ UNCHANGED <<pending, injected, global, globalHash, said>>
  BY RouterMakes
<1>2. PICK x, y, g : Outcome(x, y, g)
  BY RouterMakes
<1>3. /\ g \in AnyFrame /\ g.stream \in Streams /\ Replaces(Head(toRouter), g)
      /\ arrived' = ((arrived \o x) \o y) \o <<g>> /\ Advanced(g)
      /\ IsUpdate(x) /\ IsUpdate(y)
  BY <1>2 DEF Outcome
<1>4. x \in Seq(AnyFrame) /\ y \in Seq(AnyFrame) /\ arrived \in Seq(AnyFrame) /\ toRouter \in Seq(AnyFrame)
  BY <1>3, UpdateSeq, WaitingSeq DEF RouterType, ContextType
<1>5. toRouter' \in Seq(Waiting)
  BY <1>1, TakenFrame
<1>6. ContextType' /\ SaidType'
  BY <1>1, <1>5 DEF ContextType, SaidType
<1>7. LedgerInv'
  <2>1. PICK c : c = Trail
    OBVIOUS
  <2>2. PICK d : d = Trail'
    OBVIOUS
  <2>3. d \in Seq(AnyFrame) /\ \E n, m : Moves(c, d, n, m)
    BY <2>1, <2>2, TrailMoves
  <2>4. Knows(c, injected, global, globalHash)
    BY <2>1 DEF LedgerInv
  <2>5. Knows(d, injected, global, globalHash)
    BY <2>3, <2>4, KnowsMoved
  <2> QED
    BY <1>1, <2>2, <2>5 DEF LedgerInv
<1>8. TurnsInv'
  <2>1. ASSUME NEW s \in Streams
        PROVE  Turns(arrived', s, turnCount'[s], langActive'[s])
    <3>1. PICK turns \in Nat : turns = turnCount[s]
      BY DEF RouterType
    <3>2. PICK lang : lang = langActive[s]
      OBVIOUS
    <3>3. Turns(arrived, s, turns, lang)
      BY <3>1, <3>2 DEF TurnsInv
    <3>4. PICK a \in Seq(AnyFrame) : a = arrived \o x
      BY <1>4, ConcatProperties
    <3>5. Turns(a, s, turns, lang)
      BY <1>3, <1>4, <3>3, <3>4, TurnsUpdate
    <3>6. PICK b \in Seq(AnyFrame) : b = a \o y
      BY <1>4, ConcatProperties
    <3>7. Turns(b, s, turns, lang)
      BY <1>3, <1>4, <3>5, <3>6, TurnsUpdate
    <3>8. PICK d : d = arrived'
      OBVIOUS
    <3>9. Grows(b, g, d)
      BY <1>3, <3>4, <3>6, <3>8, AppendGrows
    <3>10. CASE g.stream # s \/ g.kind \notin {"call_end", "text"}
      <4>1. turnCount'[s] = turns /\ langActive'[s] = lang
        BY <1>3, <3>1, <3>2, <3>10 DEF Advanced
      <4>2. Turns(d, s, turns, lang)
        BY <3>7, <3>9, <3>10, TurnsKept
      <4> QED
        BY <3>8, <4>1, <4>2
    <3>11. CASE g.stream = s /\ g.kind = "call_end"
      <4>1. turnCount'[s] = 0 /\ langActive'[s] = NoLang
        BY <1>3, <3>11 DEF Advanced
      <4>2. Turns(d, s, 0, NoLang)
        BY <3>9, <3>11, TurnsEnd
      <4> QED
        BY <3>8, <4>1, <4>2
    <3>12. CASE g.stream = s /\ g.kind = "text"
      <4>1. PICK nturns : nturns = turnCount'[s]
        OBVIOUS
      <4>2. PICK nlang : nlang = langActive'[s]
        OBVIOUS
      <4>3. g.routed \in BOOLEAN /\ Advances(g, turns, lang, nturns, nlang)
        BY <1>3, <3>1, <3>2, <3>12, <4>1, <4>2 DEF Advanced
      <4>4. Turns(d, s, nturns, nlang)
        BY <3>7, <3>9, <3>12, <4>3, TurnsText
      <4> QED
        BY <3>8, <4>1, <4>2, <4>4
    <3> QED
      BY <3>10, <3>11, <3>12
  <2> QED
    BY <2>1 DEF TurnsInv
<1> QED
  BY <1>1, <1>6, <1>7, <1>8

-----------------------------------------------------------------------------
(* The words in a sequence of frames: A is the set of those of stream s, and *)
(* they come in order.                                                       *)
Tells(c, s, A) == Heard(c, s) = A /\ InOrder(c, s)

Below(A, B) == \A a \in A, b \in B : a.n < b.n

LEMMA HeardIs ==
  ASSUME NEW c, NEW s, NEW w
  PROVE  w \in Heard(c, s) <=>
           \E i \in TextsFrom(c, s) : \E k \in DOMAIN c[i].words : c[i].words[k] = w
BY DEF Heard, ToSet

(* The words of one sequence of frames are those of another when its texts   *)
(* are, in order and with the same words, the texts of the other.            *)
LEMMA WordsMove ==
  ASSUME NEW c, NEW d, NEW s, NEW A, Tells(c, s, A), NEW e,
         \A j \in TextsFrom(c, s) : e[j] \in TextsFrom(d, s) /\ d[e[j]].words = c[j].words,
         \A p \in TextsFrom(d, s) : \E j \in TextsFrom(c, s) : e[j] = p,
         \A j, l \in TextsFrom(c, s) : (e[j] < e[l] => j < l) /\ (e[j] = e[l] => j = l)
  PROVE  Tells(d, s, A)
<1>1. Heard(d, s) = Heard(c, s)
  <2>1. ASSUME NEW w, w \in Heard(c, s)
        PROVE  w \in Heard(d, s)
    <3>1. PICK i \in TextsFrom(c, s) : \E k \in DOMAIN c[i].words : c[i].words[k] = w
      BY <2>1, HeardIs
    <3>2. e[i] \in TextsFrom(d, s) /\ d[e[i]].words = c[i].words
      OBVIOUS
    <3> QED
      BY <3>1, <3>2, HeardIs
  <2>2. ASSUME NEW w, w \in Heard(d, s)
        PROVE  w \in Heard(c, s)
    <3>1. PICK p \in TextsFrom(d, s) : \E k \in DOMAIN d[p].words : d[p].words[k] = w
      BY <2>2, HeardIs
    <3>2. PICK i \in TextsFrom(c, s) : e[i] = p
      OBVIOUS
    <3>3. d[p].words = c[i].words
      BY <3>2
    <3> QED
      BY <3>1, <3>3, HeardIs
  <2> QED
    BY <2>1, <2>2
<1>2. InOrder(d, s)
  <2>1. SUFFICES ASSUME NEW p \in TextsFrom(d, s), NEW q \in TextsFrom(d, s),
                        NEW k \in DOMAIN d[p].words, NEW l \in DOMAIN d[q].words,
                        p < q \/ (p = q /\ k < l)
                 PROVE  d[p].words[k].n < d[q].words[l].n
    BY DEF InOrder
  <2>2. PICK i \in TextsFrom(c, s) : e[i] = p
    OBVIOUS
  <2>3. PICK j \in TextsFrom(c, s) : e[j] = q
    OBVIOUS
  <2>4. d[p].words = c[i].words /\ d[q].words = c[j].words
    BY <2>2, <2>3
  <2>5. i < j \/ (i = j /\ k < l)
    BY <2>1, <2>2, <2>3
  <2>6. InOrder(c, s)
    BY DEF Tells
  <2>7. c[i].words[k].n < c[j].words[l].n
    BY <2>4, <2>5, <2>6 DEF InOrder
  <2> QED
    BY <2>4, <2>7
<1> QED
  BY <1>1, <1>2 DEF Tells

(* d is c and then q, and n the length of c, as far as texts of s go.        *)
Splits(d, c, q, s, n) ==
  /\ n \in Nat
  /\ \A i \in TextsFrom(c, s) : i \in 1 .. n /\ i \in TextsFrom(d, s) /\ d[i] = c[i]
  /\ \A i \in TextsFrom(q, s) : i \in Nat /\ i > 0 /\ n + i \in TextsFrom(d, s) /\ d[n + i] = q[i]
  /\ \A p \in TextsFrom(d, s) : p \in TextsFrom(c, s) \/ \E i \in TextsFrom(q, s) : p = n + i

LEMMA Offset ==
  ASSUME NEW n \in Nat, NEW l \in Nat, NEW i \in 1 .. l
  PROVE  i \in Nat /\ i > 0 /\ n + i \in 1 .. n + l /\ ~(n + i <= n) /\ (n + i) - n = i
OBVIOUS

LEMMA TextsOfBoth ==
  ASSUME NEW c \in Seq(AnyFrame), NEW q \in Seq(AnyFrame), NEW s, NEW d, d = c \o q,
         NEW n, n = Len(c)
  PROVE  Splits(d, c, q, s, n)
<1>1. PICK l \in Nat : l = Len(q)
  BY LenProperties
<1>2. n \in Nat /\ DOMAIN c = 1 .. n /\ DOMAIN q = 1 .. l
  BY <1>1, LenProperties
<1>3. /\ DOMAIN d = 1 .. n + l
      /\ \A j \in 1 .. n + l : d[j] = IF j <= n THEN c[j] ELSE q[j - n]
  <2>1. d \in Seq(AnyFrame) /\ Len(d) = n + l
    BY <1>1, ConcatProperties
  <2> QED
    BY <1>1, <2>1, ConcatProperties, LenProperties
<1>4. ASSUME NEW i \in TextsFrom(c, s)
      PROVE  i \in 1 .. n /\ i \in TextsFrom(d, s) /\ d[i] = c[i]
  <2>1. i \in 1 .. n /\ i \in 1 .. n + l /\ c[i].kind = "text" /\ c[i].stream = s
    BY <1>1, <1>2 DEF TextsFrom
  <2>2. d[i] = c[i]
    BY <1>3, <2>1
  <2> QED
    BY <1>3, <2>1, <2>2 DEF TextsFrom
<1>5. ASSUME NEW i \in TextsFrom(q, s)
      PROVE  i \in Nat /\ i > 0 /\ n + i \in TextsFrom(d, s) /\ d[n + i] = q[i]
  <2>1. i \in 1 .. l /\ n + i \in 1 .. n + l /\ q[i].kind = "text" /\ q[i].stream = s
    BY <1>1, <1>2, Offset DEF TextsFrom
  <2>2. i \in Nat /\ i > 0 /\ ~(n + i <= n) /\ (n + i) - n = i
    BY <1>1, <1>2, <2>1, Offset
  <2>3. d[n + i] = q[i]
    BY <1>3, <2>1, <2>2
  <2> QED
    BY <1>3, <2>1, <2>2, <2>3 DEF TextsFrom
<1>6. ASSUME NEW p \in TextsFrom(d, s)
      PROVE  p \in TextsFrom(c, s) \/ \E i \in TextsFrom(q, s) : p = n + i
  <2>1. p \in 1 .. n + l /\ d[p].kind = "text" /\ d[p].stream = s
    BY <1>3 DEF TextsFrom
  <2>2. CASE p <= n
    <3>1. p \in 1 .. n /\ d[p] = c[p]
      BY <1>2, <1>3, <2>1, <2>2
    <3> QED
      BY <1>2, <2>1, <3>1 DEF TextsFrom
  <2>3. CASE ~(p <= n)
    <3>1. p - n \in 1 .. l /\ p = n + (p - n) /\ d[p] = q[p - n]
      BY <1>1, <1>2, <1>3, <2>1, <2>3
    <3>2. p - n \in TextsFrom(q, s)
      BY <1>2, <2>1, <3>1 DEF TextsFrom
    <3> QED
      BY <3>1, <3>2
  <2> QED
    BY <2>2, <2>3
<1> QED
  BY <1>2, <1>4, <1>5, <1>6 DEF Splits

(* Two sequences of frames, one behind the other. *)
LEMMA TellsBoth ==
  ASSUME NEW c \in Seq(AnyFrame), NEW q \in Seq(AnyFrame), NEW s, NEW A, NEW B,
         Tells(c, s, A), Tells(q, s, B), Below(A, B)
  PROVE  Tells(c \o q, s, A \cup B)
<1>1. PICK d : d = c \o q
  OBVIOUS
<1>2. PICK n : n = Len(c)
  OBVIOUS
<1>3. Splits(d, c, q, s, n)
  BY <1>1, <1>2, TextsOfBoth
<1>4. /\ n \in Nat
      /\ \A i \in TextsFrom(c, s) : i \in 1 .. n /\ i \in TextsFrom(d, s) /\ d[i] = c[i]
      /\ \A i \in TextsFrom(q, s) : i \in Nat /\ i > 0 /\ n + i \in TextsFrom(d, s) /\ d[n + i] = q[i]
      /\ \A p \in TextsFrom(d, s) : p \in TextsFrom(c, s) \/ \E i \in TextsFrom(q, s) : p = n + i
  BY <1>3 DEF Splits
<1>5. /\ Heard(c, s) = A /\ InOrder(c, s)
      /\ Heard(q, s) = B /\ InOrder(q, s)
  BY DEF Tells
<1>6. Heard(d, s) = A \cup B
  <2>1. ASSUME NEW w, w \in Heard(d, s)
        PROVE  w \in A \cup B
    <3>1. PICK p \in TextsFrom(d, s) : \E k \in DOMAIN d[p].words : d[p].words[k] = w
      BY <2>1, HeardIs
    <3>2. CASE p \in TextsFrom(c, s)
      <4>1. d[p] = c[p]
        BY <1>4, <3>2
      <4>2. w \in Heard(c, s)
        BY <3>1, <3>2, <4>1, HeardIs
      <4> QED
        BY <1>5, <4>2
    <3>3. ASSUME NEW i \in TextsFrom(q, s), p = n + i
          PROVE  w \in A \cup B
      <4>1. d[p] = q[i]
        BY <1>4, <3>3
      <4>2. w \in Heard(q, s)
        BY <3>1, <4>1, HeardIs
      <4> QED
        BY <1>5, <4>2
    <3> QED
      BY <1>4, <3>2, <3>3
  <2>2. ASSUME NEW w, w \in Heard(c, s)
        PROVE  w \in Heard(d, s)
    <3>1. PICK i \in TextsFrom(c, s) : \E k \in DOMAIN c[i].words : c[i].words[k] = w
      BY <2>2, HeardIs
    <3>2. i \in TextsFrom(d, s) /\ d[i] = c[i]
      BY <1>4
    <3> QED
      BY <3>1, <3>2, HeardIs
  <2>3. ASSUME NEW w, w \in Heard(q, s)
        PROVE  w \in Heard(d, s)
    <3>1. PICK i \in TextsFrom(q, s) : \E k \in DOMAIN q[i].words : q[i].words[k] = w
      BY <2>3, HeardIs
    <3>2. PICK p \in TextsFrom(d, s) : d[p] = q[i]
      BY <1>4
    <3> QED
      BY <3>1, <3>2, HeardIs
  <2> QED
    BY <1>5, <2>1, <2>2, <2>3
<1>7. InOrder(d, s)
  <2>1. SUFFICES ASSUME NEW p \in TextsFrom(d, s), NEW r \in TextsFrom(d, s),
                        NEW k \in DOMAIN d[p].words, NEW l \in DOMAIN d[r].words,
                        p < r \/ (p = r /\ k < l)
                 PROVE  d[p].words[k].n < d[r].words[l].n
    BY DEF InOrder
  <2>2. CASE p \in TextsFrom(c, s) /\ r \in TextsFrom(c, s)
    <3>1. d[p] = c[p] /\ d[r] = c[r]
      BY <1>4, <2>2
    <3> QED
      BY <1>5, <2>1, <2>2, <3>1 DEF InOrder
  <2>3. ASSUME NEW j \in TextsFrom(q, s), r = n + j, p \in TextsFrom(c, s)
        PROVE  d[p].words[k].n < d[r].words[l].n
    <3>1. d[p] = c[p] /\ d[r] = q[j]
      BY <1>4, <2>3
    <3>2. c[p].words[k] \in A
      BY <1>5, <2>3, <3>1, HeardIs
    <3>3. q[j].words[l] \in B
      BY <1>5, <3>1, HeardIs
    <3> QED
      BY <3>1, <3>2, <3>3 DEF Below
  <2>4. ASSUME NEW i \in TextsFrom(q, s), p = n + i, r \in TextsFrom(c, s)
        PROVE  FALSE
    <3>1. r \in 1 .. n /\ i \in Nat /\ i > 0
      BY <1>4, <2>4
    <3> QED
      BY <1>4, <2>1, <2>4, <3>1
  <2>5. ASSUME NEW i \in TextsFrom(q, s), p = n + i, NEW j \in TextsFrom(q, s), r = n + j
        PROVE  d[p].words[k].n < d[r].words[l].n
    <3>1. d[p] = q[i] /\ d[r] = q[j] /\ i \in Nat /\ j \in Nat
      BY <1>4, <2>5
    <3>2. i < j \/ (i = j /\ k < l)
      BY <1>4, <2>1, <2>5, <3>1
    <3> QED
      BY <1>5, <3>1, <3>2 DEF InOrder
  <2> QED
    BY <1>4, <2>2, <2>3, <2>4, <2>5
<1> QED
  BY <1>1, <1>6, <1>7 DEF Tells

(* Frames without a word of s, and one text of it. *)
LEMMA TellsNothing ==
  ASSUME NEW s, NEW c, TextsFrom(c, s) = {} \/ \A i \in DOMAIN c : c[i].words = <<>>
  PROVE  Tells(c, s, {})
<1>1. \A i \in TextsFrom(c, s) : c[i].words = <<>>
  BY DEF TextsFrom
<1>2. \A i \in TextsFrom(c, s) : DOMAIN c[i].words = {}
  BY <1>1
<1>3. Heard(c, s) = {}
  BY <1>2, HeardIs
<1>4. InOrder(c, s)
  BY <1>2 DEF InOrder
<1> QED
  BY <1>3, <1>4 DEF Tells

Silent(g, s) == g.kind # "text" \/ g.stream # s \/ g.words = <<>>

LEMMA SilentTells ==
  ASSUME NEW s
  PROVE  /\ Tells(<<>>, s, {})
         /\ \A g : Silent(g, s) => Tells(<<g>>, s, {})
<1>1. Tells(<<>>, s, {})
  <2>1. DOMAIN <<>> = {}
    OBVIOUS
  <2>2. TextsFrom(<<>>, s) = {}
    BY <2>1 DEF TextsFrom
  <2> QED
    BY <2>2, TellsNothing
<1>2. ASSUME NEW g, Silent(g, s)
      PROVE  Tells(<<g>>, s, {})
  <2>1. PICK c : c = <<g>>
    OBVIOUS
  <2>2. DOMAIN c = {1} /\ c[1] = g
    BY <2>1
  <2>3. CASE g.words = <<>>
    BY <2>1, <2>2, <2>3, TellsNothing
  <2>4. CASE g.kind # "text" \/ g.stream # s
    <3>1. TextsFrom(c, s) = {}
      BY <2>2, <2>4 DEF TextsFrom
    <3> QED
      BY <2>1, <3>1, TellsNothing
  <2> QED
    BY <1>2, <2>3, <2>4 DEF Silent
<1> QED
  BY <1>1, <1>2

LEMMA TextTells ==
  ASSUME NEW s, NEW g, g.kind = "text", g.stream = s,
         \A k, l \in DOMAIN g.words : k < l => g.words[k].n < g.words[l].n
  PROVE  Tells(<<g>>, s, ToSet(g.words))
<1>1. PICK c : c = <<g>>
  OBVIOUS
<1>2. DOMAIN c = {1} /\ c[1] = g
  BY <1>1
<1>3. TextsFrom(c, s) = {1}
  BY <1>2 DEF TextsFrom
<1>4. Heard(c, s) = ToSet(g.words)
  BY <1>2, <1>3 DEF Heard
<1>5. InOrder(c, s)
  BY <1>2, <1>3 DEF InOrder
<1> QED
  BY <1>1, <1>4, <1>5 DEF Tells

(* The router keeps the words of a text, and where it stands among the texts. *)
LEMMA MovedTells ==
  ASSUME NEW c, NEW d, NEW n, NEW m, Moves(c, d, n, m), NEW s, NEW A, Tells(c, s, A)
  PROVE  Tells(d, s, A)
<1>1. PICK len \in Nat : len = Len(c)
  <2>1. Len(c) \in Nat
    BY Zenon DEF Moves
  <2> QED
    BY <2>1
<1>2. n \in Nat /\ m \in Nat /\ n < len /\ DOMAIN c = 1 .. len /\ DOMAIN d = 1 .. len + m
  BY <1>1 DEF Moves
<1>3. PICK e : e = [j \in 1 .. len |-> IF j <= n THEN j ELSE j + m]
  OBVIOUS
<1>4. \A j \in 1 .. len : (j <= n => e[j] = j) /\ (j > n => e[j] = j + m)
  BY <1>2, <1>3
<1>5. ASSUME NEW j \in TextsFrom(c, s)
      PROVE  e[j] \in TextsFrom(d, s) /\ d[e[j]].words = c[j].words
  <2>1. j \in 1 .. len /\ c[j].kind = "text" /\ c[j].stream = s
    BY <1>2 DEF TextsFrom
  <2>2. CASE j <= n
    <3>1. e[j] = j /\ d[j] = c[j] /\ j \in 1 .. len + m
      BY <1>1, <1>2, <1>4, <2>1, <2>2 DEF Moves
    <3> QED
      BY <1>2, <2>1, <3>1 DEF TextsFrom
  <2>3. CASE j = n + 1
    <3>1. e[j] = n + m + 1 /\ n + m + 1 \in 1 .. len + m
      BY <1>2, <1>4, <2>1, <2>3
    <3>2. Replaces(c[n + 1], d[n + m + 1])
      BY DEF Moves
    <3>3. d[n + m + 1].kind = "text" /\ d[n + m + 1].stream = s /\ d[n + m + 1].words = c[j].words
      BY <2>1, <2>3, <3>2 DEF Replaces
    <3> QED
      BY <1>2, <3>1, <3>3 DEF TextsFrom
  <2>4. CASE j > n + 1
    <3>1. j \in n + 2 .. len /\ e[j] = j + m /\ j + m \in 1 .. len + m
      BY <1>2, <1>4, <2>1, <2>4
    <3>2. d[j + m] = c[j]
      BY <1>1, <3>1 DEF Moves
    <3> QED
      BY <1>2, <2>1, <3>1, <3>2 DEF TextsFrom
  <2> QED
    BY <1>2, <2>1, <2>2, <2>3, <2>4
<1>6. ASSUME NEW p \in TextsFrom(d, s)
      PROVE  \E j \in TextsFrom(c, s) : e[j] = p
  <2>1. p \in 1 .. len + m /\ d[p].kind = "text" /\ d[p].stream = s
    BY <1>2 DEF TextsFrom
  <2>2. p \notin n + 1 .. n + m
    BY <2>1 DEF Moves
  <2>3. CASE p <= n
    <3>1. p \in 1 .. len /\ e[p] = p /\ d[p] = c[p]
      BY <1>2, <1>4, <2>1, <2>3 DEF Moves
    <3>2. p \in TextsFrom(c, s)
      BY <1>2, <2>1, <3>1 DEF TextsFrom
    <3> QED
      BY <3>1, <3>2
  <2>4. CASE p = n + m + 1
    <3>1. n + 1 \in 1 .. len /\ e[n + 1] = p
      BY <1>2, <1>4, <2>4
    <3>2. Replaces(c[n + 1], d[p])
      BY <2>4 DEF Moves
    <3>3. c[n + 1].kind = "text" /\ c[n + 1].stream = s
      BY <2>1, <3>2 DEF Replaces
    <3>4. n + 1 \in TextsFrom(c, s)
      BY <1>2, <3>1, <3>3 DEF TextsFrom
    <3> QED
      BY <3>1, <3>4
  <2>5. CASE p > n + m + 1
    <3>1. PICK j \in n + 2 .. len : p = j + m
      <4>1. p - m \in n + 2 .. len /\ p = (p - m) + m
        BY <1>2, <2>1, <2>5
      <4> QED
        BY <4>1
    <3>2. j \in 1 .. len /\ e[j] = p /\ d[p] = c[j]
      BY <1>1, <1>2, <1>4, <3>1 DEF Moves
    <3>3. j \in TextsFrom(c, s)
      BY <1>2, <2>1, <3>2 DEF TextsFrom
    <3> QED
      BY <3>2, <3>3
  <2> QED
    BY <1>2, <2>1, <2>2, <2>3, <2>4, <2>5
<1>7. ASSUME NEW j \in TextsFrom(c, s), NEW l \in TextsFrom(c, s)
      PROVE  (e[j] < e[l] => j < l) /\ (e[j] = e[l] => j = l)
  <2>1. j \in 1 .. len /\ l \in 1 .. len
    BY <1>2 DEF TextsFrom
  <2>2. (j <= n => e[j] = j) /\ (j > n => e[j] = j + m)
    BY <1>4, <2>1
  <2>3. (l <= n => e[l] = l) /\ (l > n => e[l] = l + m)
    BY <1>4, <2>1
  <2> QED
    BY <1>2, <2>1, <2>2, <2>3
<1> QED
  BY <1>5, <1>6, <1>7, WordsMove

-----------------------------------------------------------------------------
(* What waits in an aggregator: single words of its stream, in order, and    *)
(* all of them behind those that have been sent.                             *)
HeldOf(ts) == {ts[i].words[1] : i \in DOMAIN ts}

Lined(ts, s) ==
  /\ \A i \in DOMAIN ts : ts[i].kind = "text" /\ ts[i].stream = s /\ \E w : ts[i].words = <<w>>
  /\ \A i, j \in DOMAIN ts : i < j => ts[i].words[1].n < ts[j].words[1].n

(* What has been sent in c and what waits in ts are the words W of s. *)
Follows(c, ts, s, W) ==
  /\ W \subseteq Spoken /\ Lined(ts, s)
  /\ \E A : Tells(c, s, A) /\ Below(A, HeldOf(ts)) /\ W = A \cup HeldOf(ts)

LEMMA NothingHeld ==
  ASSUME NEW s
  PROVE  HeldOf(<<>>) = {} /\ Lined(<<>>, s)
<1>1. DOMAIN <<>> = {}
  OBVIOUS
<1> QED
  BY <1>1 DEF HeldOf, Lined

LEMMA HeldTells ==
  ASSUME NEW s, NEW ts, Lined(ts, s)
  PROVE  Tells(ts, s, HeldOf(ts))
<1>1. TextsFrom(ts, s) = DOMAIN ts
  BY DEF TextsFrom, Lined
<1>2. \A i \in DOMAIN ts : DOMAIN ts[i].words = {1}
  <2>1. \A w : DOMAIN <<w>> = {1}
    OBVIOUS
  <2> QED
    BY <2>1 DEF Lined
<1>3. ASSUME NEW w
      PROVE  w \in Heard(ts, s) <=> w \in HeldOf(ts)
  <2>1. w \in Heard(ts, s) <=> \E i \in DOMAIN ts : \E k \in {1} : ts[i].words[k] = w
    BY <1>1, <1>2, HeardIs
  <2> QED
    BY <2>1 DEF HeldOf
<1>4. InOrder(ts, s)
  <2>1. SUFFICES ASSUME NEW i \in DOMAIN ts, NEW j \in DOMAIN ts, NEW k \in {1}, NEW l \in {1},
                        i < j \/ (i = j /\ k < l)
                 PROVE  ts[i].words[k].n < ts[j].words[l].n
    BY <1>1, <1>2 DEF InOrder
  <2>2. i < j
    BY <2>1
  <2> QED
    BY <2>2 DEF Lined
<1> QED
  BY <1>3, <1>4 DEF Tells

(* Everything sent and waiting, in order. *)
LEMMA FollowsInOrder ==
  ASSUME NEW c \in Seq(AnyFrame), NEW ts \in Seq(AnyFrame), NEW s, NEW W, Follows(c, ts, s, W)
  PROVE  Heard(c \o ts, s) = W /\ InOrder(c \o ts, s)
<1>1. PICK A : Tells(c, s, A) /\ Below(A, HeldOf(ts)) /\ W = A \cup HeldOf(ts)
  BY DEF Follows
<1>2. Tells(ts, s, HeldOf(ts))
  BY HeldTells DEF Follows
<1>3. Tells(c \o ts, s, W)
  BY <1>1, <1>2, TellsBoth
<1> QED
  BY <1>3 DEF Tells

LEMMA FollowsSilence ==
  ASSUME NEW c \in Seq(AnyFrame), NEW fs \in Seq(AnyFrame), NEW ts, NEW s, NEW W,
         Follows(c, ts, s, W), Tells(fs, s, {})
  PROVE  Follows(c \o fs, ts, s, W)
<1>1. PICK A : Tells(c, s, A) /\ Below(A, HeldOf(ts)) /\ W = A \cup HeldOf(ts)
  BY DEF Follows
<1>2. Below(A, {}) /\ A \cup {} = A
  BY DEF Below
<1>3. Tells(c \o fs, s, A)
  BY <1>1, <1>2, TellsBoth
<1> QED
  BY <1>1, <1>3 DEF Follows

LEMMA FollowsOut ==
  ASSUME NEW c \in Seq(AnyFrame), NEW fs \in Seq(AnyFrame), NEW ts, NEW s, NEW W,
         Follows(c, ts, s, W), Tells(fs, s, HeldOf(ts))
  PROVE  Follows(c \o fs, <<>>, s, W)
<1>1. PICK A : Tells(c, s, A) /\ Below(A, HeldOf(ts)) /\ W = A \cup HeldOf(ts)
  BY DEF Follows
<1>2. Tells(c \o fs, s, W)
  BY <1>1, TellsBoth
<1>3. Below(W, {}) /\ W \cup {} = W
  BY DEF Below
<1>4. W \subseteq Spoken
  BY DEF Follows
<1> QED
  BY <1>2, <1>3, <1>4, NothingHeld DEF Follows

LEMMA FollowsCut ==
  ASSUME NEW c, NEW ts, NEW s, NEW W, Follows(c, ts, s, W)
  PROVE  Follows(c, <<>>, s, W \ HeldOf(ts))
<1>1. PICK A : Tells(c, s, A) /\ Below(A, HeldOf(ts)) /\ W = A \cup HeldOf(ts)
  BY DEF Follows
<1>2. W \subseteq Spoken
  BY DEF Follows
<1>3. \A a \in A : a \notin HeldOf(ts)
  <2>1. \A a \in A : a.n \in Nat
    BY <1>1, <1>2 DEF Spoken
  <2>2. \A a \in A : ~(a.n < a.n)
    BY <2>1
  <2> QED
    BY <1>1, <2>2 DEF Below
<1>4. W \ HeldOf(ts) = A
  BY <1>1, <1>3
<1>5. Below(A, {}) /\ A \cup {} = A
  BY DEF Below
<1> QED
  BY <1>1, <1>2, <1>4, <1>5, NothingHeld DEF Follows

LEMMA FollowsMore ==
  ASSUME NEW c, NEW ts \in Seq(Texts), NEW s, NEW W, Follows(c, ts, s, W),
         NEW t \in Texts, t.kind = "text", t.stream = s, NEW w \in Spoken, t.words = <<w>>,
         \A v \in W : v.n < w.n
  PROVE  Follows(c, Append(ts, t), s, W \cup {w}) /\ HeldOf(Append(ts, t)) = HeldOf(ts) \cup {w}
<1>1. PICK d : d = Append(ts, t)
  OBVIOUS
<1>2. PICK n : n = Len(ts)
  OBVIOUS
<1>3. /\ n \in Nat /\ DOMAIN ts = 1 .. n /\ DOMAIN d = 1 .. n + 1
      /\ d[n + 1] = t /\ \A j \in 1 .. n : d[j] = ts[j]
  BY <1>1, <1>2, OneMore
<1>4. DOMAIN d = (1 .. n) \cup {n + 1} /\ \A j \in 1 .. n : ~(n + 1 < j) /\ n + 1 # j /\ ~(n + 1 < n + 1)
  BY <1>3
<1>5. PICK A : Tells(c, s, A) /\ Below(A, HeldOf(ts)) /\ W = A \cup HeldOf(ts)
  BY DEF Follows
<1>6. t.words[1] = w
  OBVIOUS
<1>7. HeldOf(d) = HeldOf(ts) \cup {w}
  <2>1. ASSUME NEW v, v \in HeldOf(d)
        PROVE  v \in HeldOf(ts) \cup {w}
    <3>1. PICK i \in DOMAIN d : d[i].words[1] = v
      BY <2>1 DEF HeldOf
    <3>2. CASE i \in 1 .. n
      BY <1>3, <3>1, <3>2 DEF HeldOf
    <3>3. CASE i = n + 1
      BY <1>3, <1>6, <3>1, <3>3
    <3> QED
      BY <1>4, <3>2, <3>3
  <2>2. ASSUME NEW v, v \in HeldOf(ts)
        PROVE  v \in HeldOf(d)
    <3>1. PICK i \in 1 .. n : ts[i].words[1] = v
      BY <1>3, <2>2 DEF HeldOf
    <3>2. i \in DOMAIN d /\ d[i] = ts[i]
      BY <1>3, <1>4
    <3> QED
      BY <3>1, <3>2 DEF HeldOf
  <2>3. w \in HeldOf(d)
    BY <1>3, <1>4, <1>6 DEF HeldOf
  <2> QED
    BY <2>1, <2>2, <2>3
<1>8. Lined(d, s)
  <2>1. \A i \in 1 .. n : ts[i].words[1] \in W
    BY <1>3, <1>5 DEF HeldOf
  <2>2. ASSUME NEW i \in DOMAIN d
        PROVE  d[i].kind = "text" /\ d[i].stream = s /\ \E v : d[i].words = <<v>>
    <3>1. CASE i \in 1 .. n
      BY <1>3, <3>1 DEF Lined, Follows
    <3>2. CASE i = n + 1
      BY <1>3, <3>2
    <3> QED
      BY <1>4, <3>1, <3>2
  <2>3. ASSUME NEW i \in DOMAIN d, NEW j \in DOMAIN d, i < j
        PROVE  d[i].words[1].n < d[j].words[1].n
    <3>1. CASE i \in 1 .. n /\ j \in 1 .. n
      <4>1. ts[i].words[1].n < ts[j].words[1].n
        BY <1>3, <2>3, <3>1 DEF Lined, Follows
      <4> QED
        BY <1>3, <3>1, <4>1
    <3>2. CASE i \in 1 .. n /\ j = n + 1
      <4>1. d[i] = ts[i] /\ d[j] = t
        BY <1>3, <3>2
      <4> QED
        BY <1>6, <2>1, <3>2, <4>1
    <3>3. i \in (1 .. n) \cup {n + 1} /\ j \in (1 .. n) \cup {n + 1}
      BY <1>4, <2>3
    <3>4. i # n + 1
      <4>1. n \in Nat /\ j \in 1 .. n + 1 /\ i < j
        BY <1>3, <2>3
      <4> QED
        BY <4>1
    <3> QED
      BY <3>1, <3>2, <3>3, <3>4
  <2> QED
    BY <2>2, <2>3 DEF Lined
<1>9. Below(A, HeldOf(d))
  BY <1>5, <1>7 DEF Below
<1>10. W \cup {w} \subseteq Spoken /\ W \cup {w} = A \cup HeldOf(d)
  BY <1>5, <1>7 DEF Follows
<1> QED
  BY <1>1, <1>5, <1>7, <1>8, <1>9, <1>10 DEF Follows

(* Texts that waited leave as one. *)
LEMMA JoinedTells ==
  ASSUME NEW s \in Streams, NEW ts \in Seq(Texts), ts # <<>>, \A i \in DOMAIN ts : IsHeld(ts[i], s),
         Lined(ts, s), NEW j, j = Joined(ts)
  PROVE  Tells(<<j>>, s, HeldOf(ts)) /\ \A r : r # s => Tells(<<j>>, r, {})
<1>1. j.kind = "text" /\ j.stream = s
  BY JoinedType
<1>2. PICK v : v = [i \in DOMAIN ts |-> ts[i].words[1]]
  OBVIOUS
<1>3. j.words = v
  <2>1. 1 \in DOMAIN ts /\ ts[1] \in Texts
    <3>1. Len(ts) \in Nat /\ DOMAIN ts = 1 .. Len(ts) /\ Len(ts) # 0
      BY LenProperties, EmptySeq
    <3>2. 1 \in DOMAIN ts
      BY <3>1
    <3> QED
      BY <3>1, <3>2, ElementOfSeq
  <2>2. j = [ts[1] EXCEPT !.words = v]
    BY <1>2 DEF Joined
  <2> QED
    BY <2>1, <2>2 DEF Texts
<1>4. ToSet(v) = HeldOf(ts)
  BY <1>2 DEF ToSet, HeldOf
<1>5. \A k, l \in DOMAIN v : k < l => v[k].n < v[l].n
  BY <1>2 DEF Lined
<1>6. Tells(<<j>>, s, HeldOf(ts))
  BY <1>1, <1>3, <1>4, <1>5, TextTells
<1>7. \A r : r # s => Silent(j, r)
  BY <1>1 DEF Silent
<1> QED
  BY <1>6, <1>7, SilentTells

-----------------------------------------------------------------------------
(* What was said: numbered; what was cut off or shadowed was said, and why   *)
(* it was dropped.                                                           *)
Kept(s) == ToSet(said[s]) \ (cut \cup shadowed)

SaidBefore(w) == w.stream \in Streams /\ w.n \in DOMAIN said[w.stream] /\ said[w.stream][w.n] = w

NumberedInv == \A s \in Streams : \A n \in DOMAIN said[s] : said[s][n].n = n /\ said[s][n].stream = s

DroppedInv ==
  /\ \A w \in cut : SaidBefore(w) /\ w.kind = "short"
  /\ \A w \in shadowed : SaidBefore(w) /\ \E n \in 1 .. w.n : said[w.stream][n].kind = "key"

KeysInv == \A s \in Streams \cap lastDT : \E n \in DOMAIN said[s] : said[s][n].kind = "key"

HistoryInv == NumberedInv /\ DroppedInv /\ KeysInv

(* The user of s says w. *)
Adds(s, w) ==
  /\ w \in Spoken /\ w.stream = s
  /\ \A r \in Streams : r # s => said'[r] = said[r]
  /\ \E m \in Nat : /\ w.n = m + 1 /\ DOMAIN said[s] = 1 .. m /\ DOMAIN said'[s] = 1 .. m + 1
                    /\ said'[s][m + 1] = w /\ \A n \in 1 .. m : said'[s][n] = said[s][n]

LEMMA SaidGrows ==
  ASSUME SaidType, NEW s \in Streams, NEW kind \in {"short", "long", "key"},
         NEW w, w = Word(s, kind), said' = [said EXCEPT ![s] = Append(@, w)]
  PROVE  Adds(s, w) /\ w.kind = kind
<1>1. PICK c \in Seq(Spoken) : c = said[s]
  BY DEF SaidType
<1>2. PICK m : m = Len(c)
  OBVIOUS
<1>3. w.n = m + 1 /\ w.stream = s /\ w.kind = kind /\ w = [stream |-> s, n |-> m + 1, kind |-> kind]
  BY <1>1, <1>2 DEF Word
<1>4. m \in Nat
  BY <1>2, LenProperties
<1>5. w \in Spoken
  BY <1>3, <1>4 DEF Spoken
<1>6. PICK d : d = Append(c, w)
  OBVIOUS
<1>7. /\ DOMAIN c = 1 .. m /\ DOMAIN d = 1 .. m + 1 /\ d[m + 1] = w
      /\ \A j \in 1 .. m : d[j] = c[j]
  BY <1>2, <1>5, <1>6, OneMore
<1>8. said'[s] = d /\ \A r \in Streams : r # s => said'[r] = said[r]
  BY <1>1, <1>6 DEF SaidType
<1> QED
  BY <1>1, <1>3, <1>4, <1>5, <1>7, <1>8 DEF Adds

LEMMA SaidStays ==
  ASSUME NEW s \in Streams, NEW w, Adds(s, w), NEW v, SaidBefore(v)
  PROVE  SaidBefore(v)' /\ v # w
<1>1. PICK m \in Nat :
        /\ w.n = m + 1 /\ DOMAIN said[s] = 1 .. m /\ DOMAIN said'[s] = 1 .. m + 1
        /\ said'[s][m + 1] = w /\ \A n \in 1 .. m : said'[s][n] = said[s][n]
  BY DEF Adds
<1>2. PICK r \in Streams : r = v.stream
  BY DEF SaidBefore
<1>3. PICK k : k = v.n
  OBVIOUS
<1>4. k \in DOMAIN said[r] /\ said[r][k] = v
  BY <1>2, <1>3 DEF SaidBefore
<1>5. CASE r = s
  <2>1. k \in 1 .. m /\ k \in 1 .. m + 1 /\ k # m + 1
    BY <1>1, <1>4, <1>5
  <2>2. said'[s][k] = v
    BY <1>1, <1>4, <1>5, <2>1
  <2> QED
    BY <1>1, <1>2, <1>3, <1>5, <2>1, <2>2 DEF SaidBefore
<1>6. CASE r # s
  <2>1. said'[r] = said[r] /\ w.stream = s
    BY <1>6 DEF Adds
  <2> QED
    BY <1>2, <1>3, <1>4, <1>6, <2>1 DEF SaidBefore
<1> QED
  BY <1>5, <1>6

LEMMA KeysStay ==
  ASSUME NEW s \in Streams, NEW w, Adds(s, w), NEW r \in Streams, NEW n \in DOMAIN said[r]
  PROVE  n \in DOMAIN said'[r] /\ said'[r][n] = said[r][n] /\ (r = s => n \in Nat /\ n > 0 /\ n <= w.n)
<1>1. CASE r # s
  BY <1>1 DEF Adds
<1>2. CASE r = s
  <2>1. PICK m \in Nat :
        /\ w.n = m + 1 /\ DOMAIN said[s] = 1 .. m /\ DOMAIN said'[s] = 1 .. m + 1
        /\ said'[s][m + 1] = w /\ \A k \in 1 .. m : said'[s][k] = said[s][k]
    BY DEF Adds
  <2>2. n \in 1 .. m /\ n \in 1 .. m + 1 /\ n \in Nat /\ n > 0 /\ n <= m + 1
    BY <1>2, <2>1
  <2> QED
    BY <1>2, <2>1, <2>2
<1> QED
  BY <1>1, <1>2

(* A word more, which a key may shadow. *)
LEMMA HistoryGrows ==
  ASSUME HistoryInv, NEW s \in Streams, NEW w, Adds(s, w), UNCHANGED cut,
         shadowed' = shadowed \/ (s \in lastDT /\ shadowed' = shadowed \cup {w}),
         lastDT' = lastDT \/ (w.kind = "key" /\ lastDT' = lastDT \cup {s})
  PROVE  HistoryInv'
<1>1. PICK m \in Nat :
        /\ w.n = m + 1 /\ DOMAIN said[s] = 1 .. m /\ DOMAIN said'[s] = 1 .. m + 1
        /\ said'[s][m + 1] = w /\ \A n \in 1 .. m : said'[s][n] = said[s][n]
  BY DEF Adds
<1>2. w.stream = s /\ m + 1 \in DOMAIN said'[s] /\ SaidBefore(w)'
  BY <1>1 DEF Adds, SaidBefore
<1>3. NumberedInv'
  <2>1. ASSUME NEW r \in Streams, NEW n \in DOMAIN said'[r]
        PROVE  said'[r][n].n = n /\ said'[r][n].stream = r
    <3>1. CASE r # s
      <4>1. said'[r] = said[r]
        BY <3>1 DEF Adds
      <4> QED
        BY <4>1 DEF HistoryInv, NumberedInv
    <3>2. CASE r = s /\ n = m + 1
      BY <1>1, <1>2, <3>2
    <3>3. CASE r = s /\ n # m + 1
      <4>1. n \in 1 .. m
        BY <1>1, <3>3
      <4>2. said'[r][n] = said[s][n] /\ n \in DOMAIN said[s]
        BY <1>1, <3>3, <4>1
      <4> QED
        BY <3>3, <4>2 DEF HistoryInv, NumberedInv
    <3> QED
      BY <3>1, <3>2, <3>3
  <2> QED
    BY <2>1 DEF NumberedInv
<1>4. \A v \in cut' : SaidBefore(v)' /\ v.kind = "short"
  BY SaidStays DEF HistoryInv, DroppedInv
<1>5. ASSUME NEW v \in shadowed'
      PROVE  SaidBefore(v)' /\ \E n \in 1 .. v.n : said'[v.stream][n].kind = "key"
  <2>1. CASE v \in shadowed
    <3>1. SaidBefore(v) /\ SaidBefore(v)'
      BY <2>1, SaidStays DEF HistoryInv, DroppedInv
    <3>2. PICK n \in 1 .. v.n : said[v.stream][n].kind = "key"
      BY <2>1 DEF HistoryInv, DroppedInv
    <3>3. v.stream \in Streams /\ v.n \in DOMAIN said[v.stream]
      BY <3>1 DEF SaidBefore
    <3>4. CASE v.stream # s
      <4>1. said'[v.stream] = said[v.stream]
        BY <3>3, <3>4 DEF Adds
      <4> QED
        BY <3>1, <3>2, <4>1
    <3>5. CASE v.stream = s
      <4>1. v.n \in 1 .. m
        BY <1>1, <3>3, <3>5
      <4>2. n \in 1 .. m
        BY <3>2, <4>1
      <4>3. said'[s][n] = said[s][n]
        BY <1>1, <4>2
      <4> QED
        BY <3>1, <3>2, <3>5, <4>3
    <3> QED
      BY <3>4, <3>5
  <2>2. CASE v = w /\ s \in lastDT
    <3>1. PICK n \in DOMAIN said[s] : said[s][n].kind = "key"
      BY <2>2 DEF HistoryInv, KeysInv
    <3>2. n \in 1 .. m /\ n \in 1 .. m + 1 /\ said'[s][n] = said[s][n]
      BY <1>1, <3>1
    <3> QED
      BY <1>1, <1>2, <2>2, <3>1, <3>2
  <2> QED
    BY <2>1, <2>2
<1>6. KeysInv'
  <2>1. ASSUME NEW r \in Streams, r \in lastDT'
        PROVE  \E n \in DOMAIN said'[r] : said'[r][n].kind = "key"
    <3>1. CASE r \in lastDT
      <4>1. PICK n \in DOMAIN said[r] : said[r][n].kind = "key"
        BY <3>1 DEF HistoryInv, KeysInv
      <4>2. n \in DOMAIN said'[r] /\ said'[r][n] = said[r][n]
        BY KeysStay
      <4> QED
        BY <4>1, <4>2
    <3>2. CASE r \notin lastDT
      <4>1. r = s /\ w.kind = "key"
        BY <2>1, <3>2
      <4> QED
        BY <1>1, <1>2, <4>1
    <3> QED
      BY <3>1, <3>2
  <2> QED
    BY <2>1 DEF KeysInv
<1> QED
  BY <1>3, <1>4, <1>5, <1>6 DEF HistoryInv, DroppedInv

(* The words a call's end finds waiting. *)
LEMMA HistoryEnds ==
  ASSUME HistoryInv, NEW s \in Streams, NEW H, H \subseteq ToSet(said[s]), \A v \in H : v.kind = "short",
         cut' = cut \cup H, UNCHANGED <<said, shadowed>>, lastDT' \subseteq lastDT
  PROVE  HistoryInv'
<1>1. ASSUME NEW v \in H
      PROVE  SaidBefore(v)
  <2>1. PICK n \in DOMAIN said[s] : said[s][n] = v
    BY DEF ToSet
  <2>2. v.n = n /\ v.stream = s
    BY <2>1 DEF HistoryInv, NumberedInv
  <2> QED
    BY <2>1, <2>2 DEF SaidBefore
<1>2. \A v : SaidBefore(v)' <=> SaidBefore(v)
  BY DEF SaidBefore
<1>3. NumberedInv' /\ KeysInv'
  BY DEF HistoryInv, NumberedInv, KeysInv
<1>4. DroppedInv'
  BY <1>1, <1>2 DEF HistoryInv, DroppedInv
<1> QED
  BY <1>3, <1>4 DEF HistoryInv

LEMMA SaidToSet ==
  ASSUME NEW s \in Streams, NEW w, Adds(s, w), HistoryInv
  PROVE  /\ ToSet(said'[s]) = ToSet(said[s]) \cup {w}
         /\ \A v \in ToSet(said[s]) : v.n < w.n
         /\ \A r \in Streams : r # s => ToSet(said'[r]) = ToSet(said[r]) /\ w \notin ToSet(said[r])
<1>1. PICK m \in Nat :
        /\ w.n = m + 1 /\ DOMAIN said[s] = 1 .. m /\ DOMAIN said'[s] = 1 .. m + 1
        /\ said'[s][m + 1] = w /\ \A n \in 1 .. m : said'[s][n] = said[s][n]
  BY DEF Adds
<1>2. 1 .. m + 1 = (1 .. m) \cup {m + 1}
  OBVIOUS
<1>3. ToSet(said'[s]) = ToSet(said[s]) \cup {w}
  BY <1>1, <1>2 DEF ToSet
<1>4. ASSUME NEW v \in ToSet(said[s])
      PROVE  v.n < w.n
  <2>1. PICK n \in 1 .. m : said[s][n] = v
    BY <1>1 DEF ToSet
  <2>2. v.n = n
    BY <1>1, <2>1 DEF HistoryInv, NumberedInv
  <2> QED
    BY <1>1, <2>1, <2>2
<1>5. ASSUME NEW r \in Streams, r # s
      PROVE  ToSet(said'[r]) = ToSet(said[r]) /\ w \notin ToSet(said[r])
  <2>1. said'[r] = said[r] /\ w.stream = s
    BY <1>5 DEF Adds
  <2>2. \A v \in ToSet(said[r]) : v.stream = r
    BY DEF ToSet, HistoryInv, NumberedInv
  <2> QED
    BY <1>5, <2>1, <2>2
<1> QED
  BY <1>3, <1>4, <1>5

LEMMA KeptGrows ==
  ASSUME HistoryInv, NEW s \in Streams, NEW w, Adds(s, w), UNCHANGED <<cut, shadowed>>
  PROVE  /\ Kept(s)' = Kept(s) \cup {w} /\ \A v \in Kept(s) : v.n < w.n
         /\ \A r \in Streams : r # s => Kept(r)' = Kept(r)
<1>1. w \notin cut \cup shadowed
  BY SaidStays DEF HistoryInv, DroppedInv
<1> QED
  BY <1>1, SaidToSet DEF Kept

LEMMA KeptShadowed ==
  ASSUME HistoryInv, NEW s \in Streams, NEW w, Adds(s, w), UNCHANGED cut, shadowed' = shadowed \cup {w}
  PROVE  \A r \in Streams : Kept(r)' = Kept(r)
<1>1. w \notin ToSet(said[s])
  <2>1. w.n \in Nat
    BY DEF Adds, Spoken
  <2>2. ~(w.n < w.n)
    BY <2>1
  <2> QED
    BY <2>2, SaidToSet
<1> QED
  BY <1>1, SaidToSet DEF Kept

LEMMA KeptEnds ==
  ASSUME HistoryInv, NEW s \in Streams, NEW H, H \subseteq ToSet(said[s]),
         cut' = cut \cup H, UNCHANGED <<said, shadowed>>
  PROVE  Kept(s)' = Kept(s) \ H /\ \A r \in Streams : r # s => Kept(r)' = Kept(r)
<1>1. ASSUME NEW r \in Streams, r # s
      PROVE  \A v \in H : v \notin ToSet(said[r])
  <2>1. \A v \in ToSet(said[r]) : v.stream = r
    BY DEF ToSet, HistoryInv, NumberedInv
  <2>2. \A v \in ToSet(said[s]) : v.stream = s
    BY DEF ToSet, HistoryInv, NumberedInv
  <2> QED
    BY <1>1, <2>1, <2>2
<1>2. Kept(s)' = Kept(s) \ H
  BY DEF Kept
<1>3. ASSUME NEW r \in Streams, r # s
      PROVE  Kept(r)' = Kept(r)
  BY <1>1, <1>3 DEF Kept
<1> QED
  BY <1>2, <1>3

-----------------------------------------------------------------------------
(* What is sent and what waits, in each stream. *)
AllShort(ts) == \A v \in HeldOf(ts) : v.kind = "short"

Hears(s) == Follows(Trail, pending[s], s, Kept(s)) /\ AllShort(pending[s])

HearingInv == \A s \in Streams : Hears(s)

(* Frames to the router without a word in them. *)
Wordless(fs) == fs \in Seq(Waiting) /\ \A r : Tells(fs, r, {})

LEMMA WordlessBoth ==
  ASSUME NEW x, NEW y, Wordless(x), Wordless(y)
  PROVE  Wordless(x \o y)
<1>1. x \in Seq(Waiting) /\ y \in Seq(Waiting) /\ x \in Seq(AnyFrame) /\ y \in Seq(AnyFrame)
  BY WaitingSeq DEF Wordless
<1>2. x \o y \in Seq(Waiting)
  BY <1>1, ConcatProperties
<1>3. Below({}, {}) /\ {} \cup {} = {}
  BY DEF Below
<1>4. ASSUME NEW r
      PROVE  Tells(x \o y, r, {})
  <2>1. Tells(x, r, {}) /\ Tells(y, r, {})
    BY DEF Wordless
  <2>2. Tells(x \o y, r, {} \cup {})
    BY <1>1, <1>3, <2>1, TellsBoth
  <2> QED
    BY <1>3, <2>2
<1> QED
  BY <1>2, <1>4 DEF Wordless

LEMMA WordlessFrame ==
  /\ Wordless(<<>>)
  /\ \A g \in Waiting : g.kind # "text" \/ g.words = <<>> => Wordless(<<g>>)
<1>1. Wordless(<<>>)
  BY SilentTells, EmptySeq DEF Wordless
<1>2. ASSUME NEW g \in Waiting, g.kind # "text" \/ g.words = <<>>
      PROVE  Wordless(<<g>>)
  <2>1. \A r : Silent(g, r)
    BY <1>2 DEF Silent
  <2>2. <<g>> \in Seq(Waiting)
    BY SingleFrame
  <2> QED
    BY <2>1, <2>2, SilentTells DEF Wordless
<1> QED
  BY <1>1, <1>2

LEMMA PromptIsWordless ==
  ASSUME NEW s \in Streams, NEW scope \in Scopes, NEW had
  PROVE  Wordless(BasePrompt(s, scope, had))
<1>1. PICK g : g = Frame("prompt", s, scope, NoFact)
  OBVIOUS
<1>2. NoFact \in Abouts
  BY DEF Abouts
<1>3. g \in Waiting /\ g.kind = "prompt"
  BY <1>1, <1>2, FrameType
<1>4. Wordless(<<g>>)
  BY <1>3, WordlessFrame
<1> QED
  BY <1>1, <1>4, WordlessFrame DEF BasePrompt

LEMMA SharedIsWordless ==
  ASSUME ContextType, NEW s \in Streams, NEW scope \in Scopes
  PROVE  Wordless(GlobalMessage(s, scope))
<1>1. PICK known \in Abouts : known = global[scope]
  BY DEF Abouts, ContextType
<1>2. PICK g : g = Frame("shared", s, scope, known)
  OBVIOUS
<1>3. g \in Waiting /\ g.kind = "shared"
  BY <1>2, FrameType
<1>4. Wordless(<<g>>)
  BY <1>3, WordlessFrame
<1> QED
  BY <1>1, <1>2, <1>4, WordlessFrame DEF GlobalMessage

LEMMA IntroductionIsWordless ==
  ASSUME ContextType, NEW t, t.stream \in Streams, t.scope \in Scopes
  PROVE  Wordless(Introduction(t))
BY PromptIsWordless, SharedIsWordless, WordlessBoth DEF Introduction

LEMMA ControlIsWordless ==
  ASSUME NEW after, Control(after)
  PROVE  Wordless(after)
<1>1. \A f \in Plain : f \in Waiting /\ f.kind # "text"
  BY DEF Plain, Waiting
<1> QED
  BY <1>1, WordlessFrame DEF Control

(* Nothing said, nothing sent: the trail only grows by other frames.         *)
LEMMA HearsOther ==
  ASSUME ContextType, RouterType, UNCHANGED arrived, NEW fs \in Seq(Waiting), Emit(fs),
         NEW s \in Streams, Hears(s), Tells(fs, s, {}), pending'[s] = pending[s], Kept(s)' = Kept(s)
  PROVE  Hears(s)'
<1>1. Trail' = Trail \o fs /\ Trail \in Seq(AnyFrame)
  BY TrailGrows
<1>2. fs \in Seq(AnyFrame)
  BY WaitingSeq
<1>3. PICK c \in Seq(AnyFrame) : c = Trail
  BY <1>1
<1>4. Follows(c \o fs, pending[s], s, Kept(s))
  BY <1>2, <1>3, FollowsSilence DEF Hears
<1> QED
  BY <1>1, <1>3, <1>4 DEF Hears

LEMMA QuietStep ==
  ASSUME ContextType, RouterType, HearingInv, UNCHANGED arrived, NEW fs, Wordless(fs), Emit(fs),
         UNCHANGED pending, \A r \in Streams : Kept(r)' = Kept(r)
  PROVE  HearingInv'
BY HearsOther DEF HearingInv, Wordless

LEMMA KeptStays ==
  ASSUME UNCHANGED <<said, cut, shadowed>>
  PROVE  \A r \in Streams : Kept(r)' = Kept(r)
BY DEF Kept

(* What waits is let out as one text.  W is what has been said by now. *)
LEMMA OutStep ==
  ASSUME ContextType, RouterType, HearingInv, UNCHANGED arrived,
         NEW s \in Streams, NEW ts \in Seq(Texts), ts # <<>>, \A i \in DOMAIN ts : IsHeld(ts[i], s),
         Follows(Trail, ts, s, Kept(s)'), NEW t, t.stream \in Streams, t.scope \in Scopes,
         NEW after, Control(after), Emit((Introduction(t) \o <<Joined(ts)>>) \o after),
         pending' = [pending EXCEPT ![s] = <<>>], \A r \in Streams : r # s => Kept(r)' = Kept(r)
  PROVE  HearingInv'
<1>1. PICK j : j = Joined(ts)
  OBVIOUS
<1>2. PICK x : x = Introduction(t)
  OBVIOUS
<1>3. Wordless(x) /\ Wordless(after) /\ j \in Waiting
  BY <1>1, <1>2, IntroductionIsWordless, ControlIsWordless, JoinedType
<1>4. /\ x \in Seq(Waiting) /\ after \in Seq(Waiting)
      /\ \A r : Tells(x, r, {}) /\ Tells(after, r, {})
  BY <1>3 DEF Wordless
<1>5. PICK y \in Seq(Waiting) : y = <<j>>
  BY <1>3, SingleFrame
<1>6. Tells(y, s, HeldOf(ts)) /\ \A r : r # s => Tells(y, r, {})
  BY <1>1, <1>5, JoinedTells DEF Follows
<1>7. PICK xy \in Seq(Waiting) : xy = x \o y
  BY <1>4, ConcatProperties
<1>8. PICK fs \in Seq(Waiting) : fs = xy \o after
  BY <1>4, ConcatProperties
<1>9. Emit(fs)
  BY <1>1, <1>2, <1>5, <1>7, <1>8
<1>10. /\ x \in Seq(AnyFrame) /\ y \in Seq(AnyFrame) /\ xy \in Seq(AnyFrame)
       /\ after \in Seq(AnyFrame) /\ fs \in Seq(AnyFrame)
  BY <1>4, WaitingSeq
<1>11. \A A : Below({}, A) /\ Below(A, {}) /\ {} \cup A = A /\ A \cup {} = A
  BY DEF Below
<1>12. ASSUME NEW r, NEW A, Tells(y, r, A)
       PROVE  Tells(fs, r, A)
  <2>1. Tells(x, r, {}) /\ Tells(after, r, {})
    BY <1>4
  <2>2. Tells(x \o y, r, {} \cup A)
    BY <1>10, <1>11, <1>12, <2>1, TellsBoth
  <2>3. Tells(xy, r, A)
    BY <1>7, <1>11, <2>2
  <2>4. Tells(xy \o after, r, A \cup {})
    BY <1>10, <1>11, <2>1, <2>3, TellsBoth
  <2> QED
    BY <1>8, <1>11, <2>4
<1>13. Hears(s)'
  <2>1. Trail' = Trail \o fs /\ Trail \in Seq(AnyFrame)
    BY <1>9, TrailGrows
  <2>2. PICK c \in Seq(AnyFrame) : c = Trail
    BY <2>1
  <2>3. PICK W : W = Kept(s)'
    OBVIOUS
  <2>4. Follows(c \o fs, <<>>, s, W)
    BY <1>6, <1>10, <1>12, <2>2, <2>3, FollowsOut
  <2>5. pending'[s] = <<>> /\ AllShort(<<>>)
    BY NothingHeld DEF ContextType, AllShort
  <2> QED
    BY <2>1, <2>2, <2>3, <2>4, <2>5 DEF Hears
<1>14. ASSUME NEW r \in Streams, r # s
       PROVE  Hears(r)'
  <2>1. pending'[r] = pending[r] /\ Kept(r)' = Kept(r) /\ Hears(r) /\ Tells(fs, r, {})
    BY <1>6, <1>12, <1>14 DEF HearingInv, ContextType
  <2> QED
    BY <1>9, <2>1, HearsOther
<1> QED
  BY <1>13, <1>14 DEF HearingInv

(* Less than MinLen letters: no word that could stand alone. *)
LEMMA FewLetters ==
  ASSUME NEW ts \in Seq(Texts), ~(Letters(ts) >= MinLen)
  PROVE  AllShort(ts)
<1>1. PICK short : short = {i \in DOMAIN ts : ts[i].words[1].kind = "short"}
  OBVIOUS
<1>2. PICK long : long = DOMAIN ts \ short
  OBVIOUS
<1>3. IsFiniteSet(DOMAIN ts)
  <2>1. Len(ts) \in Nat /\ DOMAIN ts = 1 .. Len(ts)
    BY LenProperties
  <2>2. 1 \in Int /\ Len(ts) \in Int
    BY <2>1
  <2> QED
    BY <2>1, <2>2, FS_Interval
<1>4. IsFiniteSet(short) /\ IsFiniteSet(long)
  <2>1. short \subseteq DOMAIN ts /\ long \subseteq DOMAIN ts
    BY <1>1, <1>2
  <2>2. PICK D : D = DOMAIN ts
    OBVIOUS
  <2> QED
    BY <1>3, <2>1, <2>2, FS_Subset
<1>5. PICK a \in Nat : a = Cardinality(short)
  BY <1>4, FS_CardinalityType
<1>6. PICK b \in Nat : b = Cardinality(long)
  BY <1>4, FS_CardinalityType
<1>7. PICK m \in Nat : m = MinLen
  BY ContextAssumption
<1>8. Letters(ts) = a + m * b
  BY <1>1, <1>2, <1>5, <1>6, <1>7 DEF Letters
<1>9. b = 0
  <2>1. ~(a + m * b >= m)
    BY <1>7, <1>8
  <2>2. \A k \in Nat : k > 0 => m * k >= m
    OBVIOUS
  <2>3. m * b \in Nat
    OBVIOUS
  <2> QED
    BY <2>1, <2>2, <2>3
<1>10. long = {}
  BY <1>4, <1>6, <1>9, FS_EmptySet
<1>11. \A i \in DOMAIN ts : ts[i].words[1].kind = "short"
  BY <1>1, <1>2, <1>10
<1> QED
  BY <1>11 DEF AllShort, HeldOf

-----------------------------------------------------------------------------
(* What each step of the context processor makes of the words.               *)
LEMMA SystemEmits ==
  ASSUME NEW f \in Waiting, f.kind # "text", f.stream \in Streams, f.scope \in Scopes, ContextSystem(f)
  PROVE  \E fs : Wordless(fs) /\ Emit(fs)
<1>1. PICK had : had = IF f.kind = "call_end" THEN injected \ {f.scope} ELSE injected
  OBVIOUS
<1>2. PICK x : x = BasePrompt(f.stream, f.scope, had)
  OBVIOUS
<1>3. Emit(x \o <<f>>)
  BY <1>1, <1>2 DEF ContextSystem
<1>4. Wordless(x) /\ Wordless(<<f>>)
  BY <1>2, PromptIsWordless, WordlessFrame
<1> QED
  BY <1>3, <1>4, WordlessBoth

LEMMA SystemHears ==
  ASSUME ContextType, RouterType, HistoryInv, HearingInv, UNCHANGED arrived,
         NEW s \in Streams, NEW scope \in Scopes, NEW kind \in {"call_start", "bootstrap"},
         NEW about \in Facts \cup {NoFact},
         ContextSystem(Frame(kind, s, scope, about)), UNCHANGED <<said, cut, shadowed, lastDT>>
  PROVE  HistoryInv' /\ HearingInv'
<1>1. PICK f : f = Frame(kind, s, scope, about)
  OBVIOUS
<1>2. about \in Abouts
  BY DEF Abouts
<1>3. f \in Waiting /\ f.kind = kind /\ f.stream = s /\ f.scope = scope
  BY <1>1, <1>2, FrameType
<1>4. f.kind # "text" /\ f.kind # "call_end"
  BY <1>3
<1>5. UNCHANGED pending
  BY <1>1, <1>4 DEF ContextSystem
<1>6. PICK fs : Wordless(fs) /\ Emit(fs)
  BY <1>1, <1>3, <1>4, SystemEmits
<1>7. HearingInv'
  BY <1>5, <1>6, QuietStep, KeptStays
<1>8. HistoryInv'
  BY DEF HistoryInv, NumberedInv, DroppedInv, KeysInv, SaidBefore
<1> QED
  BY <1>7, <1>8

LEMMA EndHears ==
  ASSUME ContextType, RouterType, HistoryInv, HearingInv, UNCHANGED arrived, NEW s \in Streams, End(s)
  PROVE  HistoryInv' /\ HearingInv'
<1>1. PICK scope \in Scopes : scope = ScopeOf(s)
  BY ScopeType
<1>2. PICK f : f = Frame("call_end", s, scope, NoFact)
  OBVIOUS
<1>3. NoFact \in Abouts
  BY DEF Abouts
<1>4. f \in Waiting /\ f.kind = "call_end" /\ f.stream = s /\ f.scope = scope
  BY <1>2, <1>3, FrameType
<1>5. PICK H : H = HeldOf(pending[s])
  OBVIOUS
<1>6. /\ cut' = cut \cup H /\ UNCHANGED <<said, shadowed>>
      /\ lastDT' \subseteq lastDT /\ ContextSystem(f)
  BY <1>1, <1>2, <1>5 DEF End, ForgetKeys, HeldOf
<1>7. pending' = [pending EXCEPT ![s] = <<>>]
  BY <1>4, <1>6 DEF ContextSystem
<1>8. Follows(Trail, pending[s], s, Kept(s)) /\ AllShort(pending[s])
  BY DEF HearingInv, Hears
<1>9. H \subseteq Kept(s) /\ H \subseteq ToSet(said[s]) /\ \A v \in H : v.kind = "short"
  BY <1>5, <1>8 DEF Follows, Kept, AllShort
<1>10. HistoryInv'
  BY <1>6, <1>9, HistoryEnds
<1>11. Kept(s)' = Kept(s) \ H /\ \A r \in Streams : r # s => Kept(r)' = Kept(r)
  BY <1>6, <1>9, KeptEnds
<1>12. PICK fs : Wordless(fs) /\ Emit(fs)
  BY <1>4, <1>6, SystemEmits
<1>13. fs \in Seq(Waiting) /\ \A r : Tells(fs, r, {})
  BY <1>12 DEF Wordless
<1>14. Hears(s)'
  <2>1. Trail' = Trail \o fs /\ Trail \in Seq(AnyFrame) /\ fs \in Seq(AnyFrame)
    BY <1>12, <1>13, TrailGrows, WaitingSeq
  <2>2. PICK c \in Seq(AnyFrame) : c = Trail
    BY <2>1
  <2>3. PICK W : W = Kept(s) \ H
    OBVIOUS
  <2>4. Follows(c, <<>>, s, W)
    BY <1>5, <1>8, <2>2, <2>3, FollowsCut
  <2>5. Follows(c \o fs, <<>>, s, W)
    BY <1>13, <2>1, <2>4, FollowsSilence
  <2>6. pending'[s] = <<>> /\ AllShort(<<>>)
    BY <1>7, NothingHeld DEF ContextType, AllShort
  <2> QED
    BY <1>11, <2>1, <2>2, <2>3, <2>5, <2>6 DEF Hears
<1>15. ASSUME NEW r \in Streams, r # s
       PROVE  Hears(r)'
  <2>1. pending'[r] = pending[r] /\ Hears(r)
    BY <1>7, <1>15 DEF HearingInv, ContextType
  <2> QED
    BY <1>11, <1>12, <1>13, <1>15, <2>1, HearsOther
<1> QED
  BY <1>10, <1>14, <1>15 DEF HearingInv

LEMMA SayHears ==
  ASSUME ContextType, RouterType, SaidType, HistoryInv, HearingInv, UNCHANGED arrived,
         NEW s \in Streams, NEW source \in {"stt", "dtmf"}, NEW kind \in {"short", "long", "key"},
         NEW after, Control(after), Say(source, s, kind, after),
         lastDT' = lastDT \/ (kind = "key" /\ lastDT' = lastDT \cup {s})
  PROVE  HistoryInv' /\ HearingInv'
<1>1. PICK w : w = Word(s, kind)
  OBVIOUS
<1>2. Adds(s, w) /\ w.kind = kind
  BY <1>1, SaidGrows DEF Say
<1>3. w \in Spoken /\ UNCHANGED <<cut, shadowed>>
  BY <1>2 DEF Adds, Say
<1>4. HistoryInv'
  BY <1>2, <1>3, HistoryGrows
<1>5. /\ Kept(s)' = Kept(s) \cup {w} /\ \A v \in Kept(s) : v.n < w.n
      /\ \A r \in Streams : r # s => Kept(r)' = Kept(r)
  BY <1>2, <1>3, KeptGrows
<1>6. PICK ws \in Seq(Spoken) : ws = <<w>>
  <2>1. <<w>> \in Seq(Spoken)
    BY <1>3
  <2> QED
    BY <2>1
<1>7. PICK scope \in Scopes : scope = ScopeOf(s)
  BY ScopeType
<1>8. PICK t : t = TextFrame(source, s, scope, ws)
  OBVIOUS
<1>9. t \in Texts /\ t.kind = "text" /\ t.stream = s /\ t.scope = scope /\ t.words = ws
  BY <1>8, TextType
<1>10. IsHeld(t, s) /\ ContextText(t, after)
  <2>1. ws # <<>>
    BY <1>6
  <2> QED
    BY <1>1, <1>6, <1>7, <1>8, <1>9, <2>1 DEF IsHeld, Say
<1>11. PICK ts : ts = Append(pending[s], t)
  OBVIOUS
<1>12. ts \in Seq(Texts) /\ ts # <<>> /\ \A i \in DOMAIN ts : IsHeld(ts[i], s)
  BY <1>9, <1>10, <1>11, OneMoreHeld
<1>13. Follows(Trail, pending[s], s, Kept(s)) /\ pending[s] \in Seq(Texts)
  BY DEF HearingInv, Hears, ContextType
<1>14. Follows(Trail, ts, s, Kept(s)')
  <2>1. PICK q \in Seq(Texts) : q = pending[s]
    BY <1>13
  <2>2. PICK c : c = Trail
    OBVIOUS
  <2>3. PICK W : W = Kept(s)
    OBVIOUS
  <2>4. Follows(c, q, s, W) /\ \A v \in W : v.n < w.n
    BY <1>5, <1>13, <2>1, <2>2, <2>3
  <2>5. t \in Texts /\ t.kind = "text" /\ t.stream = s /\ w \in Spoken /\ t.words = <<w>>
    BY <1>3, <1>6, <1>9
  <2>6. Follows(c, Append(q, t), s, W \cup {w})
    BY <2>4, <2>5, FollowsMore
  <2> QED
    BY <1>5, <1>11, <2>1, <2>2, <2>3, <2>6
<1>15. \/ /\ pending' = [pending EXCEPT ![s] = <<>>]
          /\ Emit((Introduction(t) \o <<Joined(ts)>>) \o after)
       \/ /\ ~(Letters(ts) >= MinLen) /\ pending' = [pending EXCEPT ![s] = ts]
          /\ Emit(Introduction(t) \o after)
  BY <1>9, <1>10, <1>11 DEF ContextText
<1>16. CASE /\ pending' = [pending EXCEPT ![s] = <<>>]
            /\ Emit((Introduction(t) \o <<Joined(ts)>>) \o after)
  <2>1. HearingInv'
    BY <1>5, <1>9, <1>12, <1>14, <1>16, OutStep
  <2> QED
    BY <1>4, <2>1
<1>17. CASE /\ ~(Letters(ts) >= MinLen) /\ pending' = [pending EXCEPT ![s] = ts]
            /\ Emit(Introduction(t) \o after)
  <2>1. PICK fs : fs = Introduction(t) \o after
    OBVIOUS
  <2>2. Wordless(fs)
    BY <1>9, <2>1, IntroductionIsWordless, ControlIsWordless, WordlessBoth
  <2>3. Emit(fs) /\ fs \in Seq(Waiting) /\ fs \in Seq(AnyFrame) /\ \A r : Tells(fs, r, {})
    BY <1>17, <2>1, <2>2, WaitingSeq DEF Wordless
  <2>4. Trail' = Trail \o fs /\ Trail \in Seq(AnyFrame)
    BY <2>3, TrailGrows
  <2>5. PICK c \in Seq(AnyFrame) : c = Trail
    BY <2>4
  <2>6. PICK W : W = Kept(s)'
    OBVIOUS
  <2>7. Follows(c \o fs, ts, s, W)
    BY <1>14, <2>3, <2>5, <2>6, FollowsSilence
  <2>8. pending'[s] = ts /\ AllShort(ts)
    BY <1>12, <1>17, FewLetters DEF ContextType
  <2>9. Hears(s)'
    BY <2>4, <2>5, <2>6, <2>7, <2>8 DEF Hears
  <2>10. ASSUME NEW r \in Streams, r # s
         PROVE  Hears(r)'
    <3>1. pending'[r] = pending[r] /\ Hears(r)
      BY <1>17, <2>10 DEF HearingInv, ContextType
    <3> QED
      BY <1>5, <2>3, <2>10, <3>1, HearsOther
  <2> QED
    BY <1>4, <2>9, <2>10 DEF HearingInv
<1> QED
  BY <1>15, <1>16, <1>17

LEMMA DigitsHear ==
  ASSUME ContextType, RouterType, SaidType, HistoryInv, HearingInv, UNCHANGED arrived,
         NEW s \in Streams, Digits(s)
  PROVE  HistoryInv' /\ HearingInv'
<1>1. PICK kind \in {"short", "long"} :
        /\ said' = [said EXCEPT ![s] = Append(@, Word(s, kind))]
        /\ shadowed' = shadowed \cup {Word(s, kind)}
  BY DEF Digits
<1>2. PICK w : w = Word(s, kind)
  OBVIOUS
<1>3. /\ s \in lastDT /\ said' = [said EXCEPT ![s] = Append(@, w)] /\ shadowed' = shadowed \cup {w}
      /\ UNCHANGED <<lastDT, cut, pending, toRouter>>
  BY <1>1, <1>2 DEF Digits, MayDrop, contextVars
<1>4. Adds(s, w)
  <2>1. kind \in {"short", "long", "key"}
    OBVIOUS
  <2> QED
    BY <1>3, <1>2, <2>1, SaidGrows
<1>5. HistoryInv'
  BY <1>3, <1>4, HistoryGrows
<1>6. \A r \in Streams : Kept(r)' = Kept(r)
  BY <1>3, <1>4, KeptShadowed
<1>7. Trail' = Trail
  BY <1>3 DEF Trail
<1> QED
  BY <1>3, <1>5, <1>6, <1>7 DEF HearingInv, Hears

LEMMA FlushHears ==
  ASSUME ContextType, RouterType, HistoryInv, HearingInv, UNCHANGED arrived,
         NEW s \in Streams, NEW f \in Plain, f.kind = "flush", f.stream = s, ContextFlush(f),
         UNCHANGED <<said, cut, shadowed>>
  PROVE  HearingInv'
<1>1. PICK ts \in Seq(Texts) : ts = pending[s]
  BY DEF ContextType
<1>2. (\A i \in DOMAIN ts : IsHeld(ts[i], s)) /\ \A r \in Streams : Kept(r)' = Kept(r)
  BY <1>1, KeptStays DEF ContextType
<1>3. f \in Waiting /\ f.kind # "text"
  BY DEF Waiting
<1>4. CASE ts = <<>>
  <2>1. Emit(<<f>>) /\ UNCHANGED pending
    BY <1>1, <1>4 DEF ContextFlush
  <2>2. Wordless(<<f>>)
    BY <1>3, WordlessFrame
  <2> QED
    BY <1>2, <2>1, <2>2, QuietStep
<1>5. CASE ts # <<>>
  <2>1. PICK j : j = Joined(ts)
    OBVIOUS
  <2>2. j.stream \in Streams /\ j.scope \in Scopes
    BY <1>2, <1>5, <2>1, JoinedType, ScopeType
  <2>3. /\ pending' = [pending EXCEPT ![s] = <<>>]
        /\ Emit((Introduction(j) \o <<Joined(ts)>>) \o <<f>>)
    BY <1>1, <1>5, <2>1 DEF ContextFlush, Flushed
  <2>4. Control(<<f>>)
    BY DEF Control
  <2>5. Follows(Trail, ts, s, Kept(s)')
    BY <1>1, <1>2 DEF HearingInv, Hears
  <2> QED
    BY <1>2, <1>5, <2>2, <2>3, <2>4, <2>5, OutStep
<1> QED
  BY <1>4, <1>5

LEMMA PassHears ==
  ASSUME ContextType, RouterType, HearingInv, UNCHANGED arrived, NEW s \in Streams, Pass(s)
  PROVE  HearingInv'
<1>1. s \in Scopes /\ UNCHANGED <<said, cut, shadowed>>
  BY ScopeType DEF Pass, history
<1>2. PICK f : ContextPasses(f) /\ \/ f = Frame("interim", s, s, NoFact)
                                   \/ f = Frame("image", s, s, NoFact)
                                   \/ \E a \in Agents : f = Frame("handoff", s, s, a)
  BY DEF Pass
<1>3. UNCHANGED pending
  BY <1>2 DEF ContextPasses
<1>4. PICK fs : Wordless(fs) /\ Emit(fs)
  <2>1. CASE f = Frame("interim", s, s, NoFact)
    <3>1. Emit(<<>>)
      BY <1>2, <2>1 DEF ContextPasses, Frame
    <3> QED
      BY <3>1, WordlessFrame
  <2>2. CASE f = Frame("image", s, s, NoFact)
    <3>1. PICK ws \in Seq(Spoken) : ws = <<>>
      BY EmptySeq
    <3>2. PICK g : g = TextFrame("image", s, s, ws)
      OBVIOUS
    <3>3. g \in Waiting /\ g.words = ws
      BY <1>1, <3>2, TextType
    <3>4. Emit(<<g>>)
      BY <1>2, <2>2, <3>1, <3>2 DEF ContextPasses, Frame
    <3> QED
      BY <3>1, <3>3, <3>4, WordlessFrame
  <2>3. ASSUME NEW a \in Agents, f = Frame("handoff", s, s, a)
        PROVE  \E fs : Wordless(fs) /\ Emit(fs)
    <3>1. f \in Waiting /\ f.kind = "handoff"
      BY <1>1, <2>3, HandoffType
    <3>2. Emit(<<f>>)
      BY <1>2, <3>1 DEF ContextPasses
    <3> QED
      BY <3>1, <3>2, WordlessFrame
  <2> QED
    BY <1>2, <2>1, <2>2, <2>3
<1> QED
  BY <1>1, <1>3, <1>4, QuietStep, KeptStays

LEMMA ContextStepHears ==
  ASSUME ContextType, RouterType, SaidType, HistoryInv, HearingInv, ContextStep
  PROVE  HistoryInv' /\ HearingInv'
<1>1. UNCHANGED arrived
  BY DEF ContextStep, routerVars
<1>2. PICK s \in Streams :
        Start(s) \/ End(s) \/ Bootstrap(s)
          \/ Final(s) \/ Digits(s) \/ Press(s) \/ Flush(s) \/ Pass(s)
  BY DEF ContextStep
<1>3. PICK scope \in Scopes : scope = ScopeOf(s)
  BY ScopeType
<1>4. CASE Start(s)
  <2>1. PICK fact \in Facts \cup {NoFact} : ContextSystem(Frame("call_start", s, scope, fact))
    BY <1>3, <1>4 DEF Start
  <2>2. UNCHANGED <<said, cut, shadowed, lastDT>> /\ "call_start" \in {"call_start", "bootstrap"}
    BY <1>4 DEF Start, history
  <2> QED
    BY <1>1, <2>1, <2>2, SystemHears
<1>5. CASE End(s)
  BY <1>1, <1>5, EndHears
<1>6. CASE Bootstrap(s)
  <2>1. PICK fact \in Facts \cup {NoFact} : ContextSystem(Frame("bootstrap", s, s, fact))
    BY <1>6 DEF Bootstrap
  <2>2. /\ UNCHANGED <<said, cut, shadowed, lastDT>> /\ s \in Scopes
        /\ "bootstrap" \in {"call_start", "bootstrap"}
    BY <1>6, ScopeType DEF Bootstrap, history
  <2> QED
    BY <1>1, <2>1, <2>2, SystemHears
<1>7. CASE Final(s)
  <2>1. PICK kind \in {"short", "long"} : Say("stt", s, kind, <<>>)
    BY <1>7 DEF Final
  <2>2. /\ Control(<<>>) /\ "stt" \in {"stt", "dtmf"} /\ kind \in {"short", "long", "key"}
        /\ lastDT' = lastDT
    BY <1>7 DEF Control, Final
  <2> QED
    BY <1>1, <2>1, <2>2, SayHears
<1>8. CASE Digits(s)
  BY <1>1, <1>8, DigitsHear
<1>9. CASE Press(s)
  <2>1. PICK f : f = Frame("dtmf", s, scope, NoFact)
    OBVIOUS
  <2>2. NoFact \in Abouts
    BY DEF Abouts
  <2>3. f \in Plain /\ f.kind = "dtmf"
    BY <2>1, <2>2, FrameType
  <2>4. PICK after : after = <<f>>
    OBVIOUS
  <2>5. Say("dtmf", s, "key", after) /\ Control(after) /\ lastDT' = lastDT \cup {s}
    BY <1>3, <1>9, <2>1, <2>3, <2>4 DEF Press, KeyPressed, Control
  <2>6. "dtmf" \in {"stt", "dtmf"} /\ "key" \in {"short", "long", "key"}
    OBVIOUS
  <2> QED
    BY <1>1, <2>5, <2>6, SayHears
<1>10. CASE Flush(s)
  <2>1. PICK f : f = Frame("flush", s, scope, NoFact)
    OBVIOUS
  <2>2. NoFact \in Abouts
    BY DEF Abouts
  <2>3. f \in Plain /\ f.kind = "flush" /\ f.stream = s
    BY <2>1, <2>2, FrameType
  <2>4. ContextFlush(f) /\ UNCHANGED <<said, cut, shadowed, lastDT>>
    BY <1>3, <1>10, <2>1 DEF Flush, history
  <2>5. HearingInv'
    BY <1>1, <2>3, <2>4, FlushHears
  <2>6. HistoryInv'
    BY <2>4 DEF HistoryInv, NumberedInv, DroppedInv, KeysInv, SaidBefore
  <2> QED
    BY <2>5, <2>6
<1>11. CASE Pass(s)
  <2>1. UNCHANGED <<said, cut, shadowed, lastDT>>
    BY <1>11 DEF Pass, history
  <2>2. HistoryInv'
    BY <2>1 DEF HistoryInv, NumberedInv, DroppedInv, KeysInv, SaidBefore
  <2> QED
    BY <1>1, <1>11, <2>2, PassHears
<1> QED
  BY <1>2, <1>4, <1>5, <1>6, <1>7, <1>8, <1>9, <1>10, <1>11

(* A step of the router. *)
LEMMA RouterStepHears ==
  ASSUME ContextType, RouterType, HistoryInv, HearingInv, RouterStep
  PROVE  HistoryInv' /\ HearingInv'
<1>1. UNCHANGED <<said, cut, shadowed, lastDT, pending>>
  BY DEF RouterStep, history
<1>2. HistoryInv'
  BY <1>1 DEF HistoryInv, NumberedInv, DroppedInv, KeysInv, SaidBefore
<1>3. PICK n, m : Moves(Trail, Trail', n, m)
  BY TrailMoves
<1>4. ASSUME NEW s \in Streams
      PROVE  Hears(s)'
  <2>1. Follows(Trail, pending[s], s, Kept(s)) /\ AllShort(pending[s])
    BY DEF HearingInv, Hears
  <2>2. Follows(Trail', pending[s], s, Kept(s))
    BY <1>3, <2>1, MovedTells DEF Follows
  <2>3. Kept(s)' = Kept(s)
    BY <1>1, KeptStays
  <2> QED
    BY <1>1, <2>1, <2>2, <2>3 DEF Hears
<1> QED
  BY <1>2, <1>4 DEF HearingInv

-----------------------------------------------------------------------------
DialogueInv ==
  /\ ContextType /\ RouterType /\ SaidType
  /\ LedgerInv                          \* what the context processor keeps is what it has sent
  /\ TurnsInv                           \* what the router keeps is what has left it
  /\ HistoryInv /\ HearingInv           \* what was said is sent or waits, in order

LEMMA NothingYet ==
  /\ Knows(<<>>, {}, [c \in Scopes |-> {}], [c \in Scopes |-> Nothing])
  /\ \A s \in Streams : Turns(<<>>, s, 0, NoLang)
<1>1. PICK e \in Seq(AnyFrame) : e = <<>>
  BY EmptySeq
<1>2. DOMAIN e = {} /\ Len(e) = 0
  BY <1>1
<1>3. ASSUME NEW scope
      PROVE  Ledger(e, scope, {}, Nothing, FALSE)
  <2>1. Before(e, Behind(e)) = {}
    BY <1>2 DEF Before
  <2>2. \A K : SinceEnd(e, K, scope, Behind(e)) = {}
    BY <2>1 DEF SinceEnd
  <2>3. FactsAt(e, scope, Behind(e)) = {}
    BY <2>2 DEF FactsAt
  <2>4. ToldIs(e, scope, Behind(e), {}) /\ IsUnprompted(e, scope, Behind(e))
    BY <2>2 DEF ToldIs, IsUnprompted
  <2> QED
    BY <2>3, <2>4 DEF Ledger
<1>4. AllContexted(e)
  BY <1>2 DEF AllContexted
<1>5. Knows(e, {}, [c \in Scopes |-> {}], [c \in Scopes |-> Nothing])
  <2>1. ASSUME NEW scope \in Scopes
        PROVE  Ledger(e, scope, [c \in Scopes |-> {}][scope], [c \in Scopes |-> Nothing][scope], scope \in {})
    <3>1. /\ [c \in Scopes |-> {}][scope] = {} /\ [c \in Scopes |-> Nothing][scope] = Nothing
          /\ (scope \in {}) = FALSE
      OBVIOUS
    <3> QED
      BY <1>3, <3>1
  <2> QED
    BY <1>4, <2>1 DEF Knows
<1>6. ASSUME NEW s \in Streams
      PROVE  Turns(e, s, 0, NoLang)
  <2>1. TextsOf(e, s) = {}
    BY <1>2 DEF TextsOf
  <2>2. RoutedOf(e, s) = {} /\ SpokenIn(e, s) = {}
    BY <2>1 DEF RoutedOf, SpokenIn
  <2>3. Cardinality(RoutedOf(e, s)) = 0 /\ 0 <= MaxTurns
    BY <2>2, FS_EmptySet, RouterAssumption
  <2> QED
    BY <2>2, <2>3 DEF Turns
<1> QED
  BY <1>1, <1>5, <1>6

LEMMA DialogueStarts == Init => DialogueInv
<1>1. SUFFICES ASSUME Init
               PROVE  DialogueInv
  OBVIOUS
<1>2. /\ pending = [s \in Streams |-> <<>>] /\ injected = {} /\ global = [c \in Scopes |-> {}]
      /\ globalHash = [c \in Scopes |-> Nothing] /\ toRouter = <<>> /\ arrived = <<>>
      /\ active = [s \in Streams |-> NoAgent] /\ langActive = [s \in Streams |-> NoLang]
      /\ turnCount = [s \in Streams |-> 0] /\ said = [s \in Streams |-> <<>>]
  BY <1>1 DEF Init, ContextInit, RouterInit
<1>3. <<>> \in Seq(Texts) /\ <<>> \in Seq(Waiting) /\ <<>> \in Seq(AnyFrame) /\ <<>> \in Seq(Spoken) /\ DOMAIN <<>> = {}
  BY EmptySeq
<1>4. ContextType
  BY <1>2, <1>3 DEF ContextType
<1>5. RouterType /\ SaidType
  BY <1>2, <1>3 DEF RouterType, SaidType
<1>6. Trail = <<>>
  BY <1>2, <1>3, ConcatEmptySeq DEF Trail
<1>7. LedgerInv
  BY <1>2, <1>6, NothingYet DEF LedgerInv
<1>8. TurnsInv
  BY <1>2, NothingYet DEF TurnsInv
<1>9. HistoryInv
  <2>1. said = [s \in Streams |-> <<>>] /\ cut = {} /\ shadowed = {} /\ lastDT = {}
    BY <1>1 DEF Init, DisambiguatorInit
  <2>2. \A s \in Streams : DOMAIN said[s] = {}
    BY <1>3, <2>1
  <2> QED
    BY <2>1, <2>2 DEF HistoryInv, NumberedInv, DroppedInv, KeysInv
<1>10. HearingInv
  <2>1. ASSUME NEW s \in Streams
        PROVE  Hears(s)
    <3>1. said[s] = <<>> /\ pending[s] = <<>>
      BY <1>2
    <3>2. Kept(s) = {}
      BY <1>3, <3>1 DEF Kept, ToSet
    <3>3. Tells(<<>>, s, {}) /\ HeldOf(<<>>) = {} /\ Lined(<<>>, s) /\ Below({}, {})
      BY SilentTells, NothingHeld DEF Below
    <3>4. Follows(<<>>, <<>>, s, {})
      BY <3>3 DEF Follows
    <3>5. AllShort(<<>>)
      BY <3>3 DEF AllShort
    <3> QED
      BY <1>6, <3>1, <3>2, <3>4, <3>5 DEF Hears
  <2> QED
    BY <2>1 DEF HearingInv
<1> QED
  BY <1>4, <1>5, <1>7, <1>8, <1>9, <1>10 DEF DialogueInv

LEMMA DialogueIsInductive == DialogueInv /\ [Next]_vars => DialogueInv'
<1>1. SUFFICES ASSUME DialogueInv, [Next]_vars
               PROVE  DialogueInv'
  OBVIOUS
<1>2. ContextType /\ RouterType /\ SaidType /\ LedgerInv /\ TurnsInv /\ HistoryInv /\ HearingInv
  BY <1>1 DEF DialogueInv
<1>3. CASE ContextStep
  <2>1. ContextType' /\ RouterType' /\ SaidType' /\ LedgerInv'
    BY <1>2, <1>3, ContextStepKeeps
  <2>2. UNCHANGED <<arrived, turnCount, langActive>>
    BY <1>3 DEF ContextStep, routerVars, routerState
  <2>3. TurnsInv'
    BY <1>2, <2>2 DEF TurnsInv
  <2>4. HistoryInv' /\ HearingInv'
    BY <1>2, <1>3, ContextStepHears
  <2> QED
    BY <2>1, <2>3, <2>4 DEF DialogueInv
<1>4. CASE RouterStep
  <2>1. ContextType' /\ RouterType' /\ SaidType' /\ LedgerInv' /\ TurnsInv'
    BY <1>2, <1>4, RouterStepKeeps
  <2>2. HistoryInv' /\ HearingInv'
    BY <1>2, <1>4, RouterStepHears
  <2> QED
    BY <2>1, <2>2 DEF DialogueInv
<1>5. CASE UNCHANGED vars
  <2>1. /\ UNCHANGED <<pending, injected, global, globalHash, toRouter>>
        /\ UNCHANGED <<active, langActive, turnCount, arrived, said, cut, shadowed, lastDT>>
    BY <1>5 DEF vars, contextVars, routerVars, routerState, history
  <2>2. Trail' = Trail
    BY <2>1 DEF Trail
  <2>3. ContextType' /\ RouterType' /\ SaidType' /\ LedgerInv' /\ TurnsInv'
    BY <1>2, <2>1, <2>2 DEF ContextType, RouterType, SaidType, LedgerInv, TurnsInv
  <2>4. HistoryInv'
    BY <1>2, <2>1 DEF HistoryInv, NumberedInv, DroppedInv, KeysInv, SaidBefore
  <2>5. HearingInv'
    BY <1>2, <2>1, <2>2 DEF HearingInv, Hears, Kept
  <2> QED
    BY <2>3, <2>4, <2>5 DEF DialogueInv
<1> QED
  BY <1>1, <1>3, <1>4, <1>5 DEF Next

LEMMA DialogueIsInvariant == Spec => []DialogueInv
BY DialogueStarts, DialogueIsInductive, PTL DEF Spec

(* docs/en/routing.md (RouterProcessor, Mode): in bootstrap mode at most      *)
(* MaxTurns texts of a stream are routed between two ends of its call, in    *)
(* mode "off" none, and without code switching one language at most is found *)
(* in them.                                                                  *)
THEOREM RoutingStopsAlways == Spec => []RoutingStops
<1>1. DialogueInv => RoutingStops
  BY TurnsGiveRoutingStops DEF DialogueInv
<1> QED
  BY <1>1, DialogueIsInvariant, PTL

(* What has left the router is the beginning of the trail.                   *)
LEMMA ArrivedIsAlike ==
  ASSUME NEW c \in Seq(AnyFrame), NEW q \in Seq(AnyFrame), NEW i \in DOMAIN c, NEW scope
  PROVE  Alike(c \o q, i, c, i, scope) /\ (c \o q)[i] = c[i] /\ i \in DOMAIN (c \o q)
<1>1. PICK n \in Nat : n = Len(c)
  BY LenProperties
<1>2. PICK l \in Nat : l = Len(q)
  BY LenProperties
<1>3. PICK d \in Seq(AnyFrame) : d = c \o q
  BY ConcatProperties
<1>4. /\ DOMAIN d = 1 .. n + l /\ DOMAIN c = 1 .. n
      /\ \A j \in 1 .. n : d[j] = c[j]
  <2>1. \A j \in 1 .. n + l : d[j] = IF j <= n THEN c[j] ELSE q[j - n]
    BY <1>1, <1>2, <1>3, ConcatProperties
  <2>2. DOMAIN d = 1 .. n + l /\ DOMAIN c = 1 .. n
    BY <1>1, <1>2, <1>3, ConcatProperties, LenProperties
  <2> QED
    BY <2>1, <2>2
<1>5. PICK e : e = [j \in 1 .. n |-> j]
  OBVIOUS
<1>6. Before(d, i) = Before(c, i) /\ Before(c, i) \subseteq 1 .. n /\ \A j \in 1 .. n : e[j] = j
  BY <1>4, <1>5 DEF Before
<1>7. Embeds(d, i, c, i, scope, e)
  BY <1>4, <1>6 DEF Embeds
<1>8. Alike(d, i, c, i, scope)
  BY <1>7, EmbeddedAlike
<1>9. d[i] = c[i] /\ i \in DOMAIN d
  BY <1>4
<1> QED
  BY <1>3, <1>8, <1>9

LEMMA LedgerGivesContext ==
  ASSUME ContextType, RouterType, LedgerInv
  PROVE  TextsFindTheirContext
<1>1. SUFFICES ASSUME NEW i \in DOMAIN arrived, arrived[i].kind = "text", arrived[i].source # "image"
               PROVE  FindsItsContext(arrived, i)
  BY DEF TextsFindTheirContext
<1>2. PICK c \in Seq(AnyFrame) : c = arrived
  BY DEF RouterType
<1>3. PICK q \in Seq(AnyFrame) : q = toRouter
  BY WaitingSeq DEF ContextType
<1>4. PICK d : d = c \o q
  OBVIOUS
<1>5. PICK scope : scope = c[i].scope
  OBVIOUS
<1>6. Alike(d, i, c, i, scope) /\ d[i] = c[i] /\ i \in DOMAIN d
  BY <1>2, <1>4, ArrivedIsAlike
<1>7. AllContexted(d)
  BY <1>2, <1>3, <1>4 DEF LedgerInv, Knows, Trail
<1>8. Contexted(d, i)
  BY <1>1, <1>2, <1>6, <1>7 DEF AllContexted, NeedsContext
<1>9. Contexted(c, i)
  BY <1>5, <1>6, <1>8, AlikeContexted
<1> QED
  BY <1>1, <1>2, <1>9, ContextIsFound

(* A text that leaves the router finds the prompt of its scope before it,    *)
(* once, while no call of the scope has ended, and what was told last of the *)
(* shared context is what the frames before it say: whatever waited in the   *)
(* aggregator, and whatever the other streams of the call have sent          *)
(* (context.go: buildBasePrompt, buildGlobalMessage).                        *)
THEOREM TextsAlwaysFindTheirContext == Spec => []TextsFindTheirContext
<1>1. DialogueInv => TextsFindTheirContext
  BY LedgerGivesContext DEF DialogueInv
<1> QED
  BY <1>1, DialogueIsInvariant, PTL

(* What the user says and keys in reaches the model once and in order: it    *)
(* has arrived, is on its way, or waits in the aggregator, whatever is       *)
(* joined, held back, flushed or announced before it; what does not arrive   *)
(* was too short to stand alone when the call ended, or was spoken after a   *)
(* key of its stream (text_aggregator.go, dtmf_disambiguator.go).            *)
THEOREM TextsAlwaysArrive == Spec => []TextsArriveOnceInOrder
<1>1. ASSUME DialogueInv
      PROVE  TextsArriveOnceInOrder
  <2>1. ASSUME NEW s \in Streams
        PROVE  /\ Heard(Trail \o pending[s], s) = ToSet(said[s]) \ (cut \cup shadowed)
               /\ InOrder(Trail \o pending[s], s)
    <3>1. PICK c \in Seq(AnyFrame) : c = Trail
      BY <1>1 DEF DialogueInv, LedgerInv, Knows
    <3>2. PICK ts \in Seq(AnyFrame) : ts = pending[s]
      <4>1. Texts \subseteq AnyFrame /\ pending[s] \in Seq(Texts)
        BY <1>1 DEF AnyFrame, Waiting, DialogueInv, ContextType
      <4> QED
        BY <4>1, SeqMonotonic
    <3>3. PICK W : W = Kept(s)
      OBVIOUS
    <3>4. Follows(c, ts, s, W)
      BY <1>1, <3>1, <3>2, <3>3 DEF DialogueInv, HearingInv, Hears
    <3>5. Heard(c \o ts, s) = W /\ InOrder(c \o ts, s)
      BY <3>4, FollowsInOrder
    <3> QED
      BY <3>1, <3>2, <3>3, <3>5 DEF Kept
  <2> QED
    BY <1>1, <2>1 DEF TextsArriveOnceInOrder, DialogueInv, HistoryInv, DroppedInv
<1> QED
  BY <1>1, DialogueIsInvariant, PTL
=============================================================================
