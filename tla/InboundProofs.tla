--------------------------- MODULE InboundProofs ---------------------------
(***************************************************************************)
(* The fast backend is the reference, for every line of any length, every   *)
(* limit and whatever the lines before have left in the shared buffer.  The *)
(* reference takes the grammar a section at a time and the fast tokenizer a *)
(* byte at a time, so the bridge is what the reference makes of the rest of *)
(* the line from the middle of a token on: one operator per mode of the     *)
(* fast tokenizer (Rest).  What a run has written, and the rest that its    *)
(* mode stands for, are the reference's tokens of the whole line; every     *)
(* byte carries that over (Agrees), and the buffer never runs out of room.  *)
(* The recursive functions are unfolded by induction over sets of numbers.  *)
(***************************************************************************)
EXTENDS Inbound, FiniteSetTheorems, SequenceTheorems, WellFoundedInduction, TLAPS

-----------------------------------------------------------------------------
(* Spans.                                                                   *)

\* A set of numbers has a least one: the numbers are well-founded.
LEMMA LeastNat == ASSUME NEW T, T \subseteq Nat, T # {} PROVE \E x \in T : \A y \in T : x <= y
<1> DEFINE R == {ss \in Nat \X Nat : ss[1] < ss[2]}
<1>1. IsWellFoundedOn(R, Nat)
  BY NatLessThanWellFounded DEF OpToRel
<1>2. \E x \in T : \A y \in T : ~ (<<y, x>> \in R)
  <2> HIDE DEF R
  <2> QED BY <1>1, WFMin
<1>3. PICK x \in T : \A y \in T : ~ (<<y, x>> \in R)
  BY <1>2
<1>4. ASSUME NEW y \in T PROVE x <= y
  <2>1. x \in Nat /\ y \in Nat /\ ~ (<<y, x>> \in R)
    BY <1>3
  <2>2. ~ (y < x)
    BY <2>1
  <2> QED BY <2>1, <2>2
<1> QED BY <1>4

\* Induction, over a set: what holds of 0 and is passed on holds of every number.
LEMMA Induction == ASSUME NEW S, 0 \in S, \A n \in Nat : n \in S => n + 1 \in S PROVE \A n \in Nat : n \in S
<1> DEFINE T == Nat \ S
<1>1. SUFFICES ASSUME T # {} PROVE FALSE
  OBVIOUS
<1>2. PICK x \in T : \A y \in T : x <= y
  BY <1>1, LeastNat
<1>3. x # 0 /\ x - 1 \in Nat /\ x - 1 \notin T
  BY <1>2
<1> QED BY <1>2, <1>3

\* The first of some positions is one of them, or behind the line, and before all others.
LEMMA FirstIs ==
  ASSUME NEW t, Len(t) \in Nat, NEW p \in Nat, NEW stops, stops \subseteq p..Len(t), p <= Len(t) + 1
  PROVE  /\ FirstOf(t, stops) \in p..(Len(t) + 1)
         /\ FirstOf(t, stops) <= Len(t) => FirstOf(t, stops) \in stops
         /\ \A i \in stops : FirstOf(t, stops) <= i
<1> DEFINE e == FirstOf(t, stops)
<1>1. CASE stops = {}
  <2>1. e = Len(t) + 1
    BY <1>1 DEF FirstOf
  <2>2. e \in p..(Len(t) + 1)
    BY <2>1
  <2>3. ~(e <= Len(t))
    BY <2>1
  <2> HIDE DEF e
  <2>4. \A i \in stops : e <= i
    BY <1>1
  <2> QED BY <2>2, <2>3, <2>4 DEF e
<1>2. CASE stops # {}
  <2>1. stops \subseteq Nat
    OBVIOUS
  <2>2. \E i \in stops : \A j \in stops : i <= j
    BY <1>2, <2>1, LeastNat
  <2>3. Min(stops) \in stops /\ \A j \in stops : Min(stops) <= j
    BY <2>2 DEF Min
  <2>4. e = Min(stops)
    BY <1>2 DEF FirstOf
  <2> HIDE DEF e
  <2>5. e \in stops /\ \A j \in stops : e <= j
    BY <2>3, <2>4
  <2>6. e \in p..(Len(t) + 1)
    BY <2>5
  <2> QED BY <2>5, <2>6 DEF e
<1> HIDE DEF e
<1>3. stops = {} \/ stops # {}
  OBVIOUS
<1> QED BY <1>1, <1>2, <1>3 DEF e

\* A span ends at a stop or with the line, and has no stop in it.
LEMMA SpanIs ==
  ASSUME NEW t, Len(t) \in Nat, NEW Stops, NEW p \in 1..(Len(t) + 1)
  PROVE  /\ Span(t, p, Stops) \in p..(Len(t) + 1)
         /\ Span(t, p, Stops) <= Len(t) => t[Span(t, p, Stops)] \in Stops
         /\ \A i \in p..(Span(t, p, Stops) - 1) : t[i] \notin Stops
<1> DEFINE stops == {i \in p..Len(t) : t[i] \in Stops}
           s     == FirstOf(t, stops)
<1>1. stops \subseteq p..Len(t) /\ p \in Nat /\ p <= Len(t) + 1
  OBVIOUS
<1>2. s \in p..(Len(t) + 1) /\ (s <= Len(t) => s \in stops) /\ \A i \in stops : s <= i
  <2> HIDE DEF stops
  <2> QED BY <1>1, FirstIs
<1>3. Span(t, p, Stops) = s
  BY DEF Span
<1> HIDE DEF s
<1> QED BY <1>2, <1>3

\* A span ends at the first stop.
LEMMA SpanAt ==
  ASSUME NEW t, Len(t) \in Nat, NEW Stops, NEW p \in 1..(Len(t) + 1), NEW e \in p..(Len(t) + 1),
         e <= Len(t) => t[e] \in Stops, \A i \in p..(e - 1) : t[i] \notin Stops
  PROVE  Span(t, p, Stops) = e
<1> DEFINE s == Span(t, p, Stops)
<1>1. /\ s \in p..(Len(t) + 1)
      /\ s <= Len(t) => t[s] \in Stops
      /\ \A i \in p..(s - 1) : t[i] \notin Stops
  BY SpanIs
<1> HIDE DEF s
<1>2. ~(s < e) /\ ~(e < s)
  BY <1>1
<1> QED BY <1>1, <1>2 DEF s

\* A span that is taken apart a byte at a time.
LEMMA SpanStep ==
  ASSUME NEW t, Len(t) \in Nat, NEW Stops, NEW p \in 1..(Len(t) + 1)
  PROVE  /\ p <= Len(t) /\ t[p] \in Stops => Span(t, p, Stops) = p
         /\ p <= Len(t) /\ t[p] \notin Stops => Span(t, p, Stops) = Span(t, p + 1, Stops) /\ Span(t, p, Stops) > p
         /\ p = Len(t) + 1 => Span(t, p, Stops) = p
<1>1. ASSUME p <= Len(t), t[p] \in Stops PROVE Span(t, p, Stops) = p
  BY <1>1, SpanAt
<1>2. ASSUME p <= Len(t), t[p] \notin Stops
      PROVE Span(t, p, Stops) = Span(t, p + 1, Stops) /\ Span(t, p, Stops) > p
  <2> DEFINE s == Span(t, p + 1, Stops)
  <2>1. /\ s \in (p + 1)..(Len(t) + 1)
        /\ s <= Len(t) => t[s] \in Stops
        /\ \A i \in (p + 1)..(s - 1) : t[i] \notin Stops
    <3>1. p + 1 \in 1..(Len(t) + 1)
      BY <1>2
    <3> QED BY <3>1, SpanIs
  <2> HIDE DEF s
  <2>2. Span(t, p, Stops) = s
    BY <1>2, <2>1, SpanAt
  <2> QED BY <2>1, <2>2 DEF s
<1>3. ASSUME p = Len(t) + 1 PROVE Span(t, p, Stops) = p
  BY <1>3, SpanAt
<1> QED BY <1>1, <1>2, <1>3

\* Spaces is the span of what is no stop.
Others(t) == {t[i] : i \in 1..Len(t)} \ {Space}

\* The bytes of the line that are no space are the stops of a run of spaces.
LEMMA OtherIs ==
  ASSUME NEW t, Len(t) \in Nat, NEW i \in 1..Len(t)
  PROVE  t[i] # Space <=> t[i] \in Others(t)
  BY DEF Others

\* So a run of spaces is a span.
LEMMA SpacesAre ==
  ASSUME NEW t, Len(t) \in Nat, NEW p \in 1..(Len(t) + 1)
  PROVE  Spaces(t, p) = Span(t, p, Others(t))
<1>1. {i \in p..Len(t) : t[i] # Space} = {i \in p..Len(t) : t[i] \in Others(t)}
  BY OtherIs
<1> QED BY <1>1 DEF Spaces, Span

\* And is taken apart a byte at a time.
LEMMA SpacesStep ==
  ASSUME NEW t, Len(t) \in Nat, NEW p \in 1..(Len(t) + 1)
  PROVE  /\ Spaces(t, p) \in p..(Len(t) + 1)
         /\ Spaces(t, p) <= Len(t) => t[Spaces(t, p)] # Space
         /\ p <= Len(t) /\ t[p] # Space => Spaces(t, p) = p
         /\ p <= Len(t) /\ t[p] = Space => Spaces(t, p) = Spaces(t, p + 1) /\ Spaces(t, p) > p
         /\ p = Len(t) + 1 => Spaces(t, p) = p
<1> DEFINE O == Others(t)
           q == Spaces(t, p)
<1>1. q = Span(t, p, O) /\ q \in p..(Len(t) + 1) /\ (q <= Len(t) => t[q] \in O)
  BY SpacesAre, SpanIs
<1>2. q <= Len(t) => t[q] # Space
  BY <1>1, OtherIs
<1>3. ASSUME p <= Len(t), t[p] # Space PROVE q = p
  <2>1. t[p] \in O
    BY <1>3, OtherIs
  <2> HIDE DEF O
  <2> QED BY <1>1, <1>3, <2>1, SpanStep
<1>4. ASSUME p <= Len(t), t[p] = Space PROVE q = Spaces(t, p + 1) /\ q > p
  <2>1. t[p] \notin O
    BY <1>4, OtherIs
  <2>2. p + 1 \in 1..(Len(t) + 1)
    BY <1>4
  <2>3. Spaces(t, p + 1) = Span(t, p + 1, O)
    BY <2>2, SpacesAre
  <2> HIDE DEF O
  <2> QED BY <1>1, <1>4, <2>1, <2>3, SpanStep
<1>5. p = Len(t) + 1 => q = p
  BY <1>1
<1> QED BY <1>1, <1>2, <1>3, <1>4, <1>5

-----------------------------------------------------------------------------
(* The reference: what it makes of the rest of a line, by what it is in the middle of. *)

\* What the reference makes of the line from p on, in the middle of a token that began at f.
LeadRest(t, lim, p) ==
  LET q   == Spaces(t, p)
      far == q + lim.tagData
  IN  IF q > Len(t) THEN Eof(q)
      ELSE IF t[q] # "@" THEN Rfc1459(t, lim, q)
      ELSE IF lim.tagData = 0 THEN Throw("tagDataLimit", q)
      ELSE Then(t, One("TagsStart", q, q + 1), q + 1, TagList(t, lim, far)[q + 1][0])

TagRest(t, lim, far, p, n) ==
  Then(t, <<>>, p, Far(far, p, TagList(t, lim, far)[p][n]))

ClientRest(t, lim, far, p, n) ==
  Far(far, p, Then(t, <<>>, p, KeyAt(t, lim, far, TagList(t, lim, far), p, n)))

TagsGapRest(t, lim, far, f, p) ==
  LET g == Spaces(t, p)
  IN  IF far + 1 <= Len(t) /\ far < g
      THEN One("Separator", f, far + 1) \o Throw("tagDataLimit", far + 1)
      ELSE Then(t, One("Separator", f, g), g, Rfc1459(t, lim, g))

PrefixGapRest(t, lim, f, p) ==
  LET g == Spaces(t, p) IN Then(t, One("Separator", f, g), g, CommandAt(t, lim, g))

NameRest(t, lim, f, p) ==
  LET e == Span(t, p, NameStops) IN Then(t, Unless("PrefixName", f, e), e, UserAt(t, lim, e))

UserRest(t, lim, f, p) ==
  LET e == Span(t, p, UserStops) IN Then(t, Unless("PrefixUser", f, e), e, HostAt(t, lim, e))

HostRest(t, lim, f, p) ==
  LET e == Span(t, p, {Space}) IN Then(t, Unless("PrefixHost", f, e), e, PrefixGapRest(t, lim, e, e))

GapRest(t, lim, f, p, n) ==
  LET g == Spaces(t, p) IN Then(t, One("Separator", f, g), g, Parameters(t, lim)[g][n])

CommandRest(t, lim, f, p) ==
  LET e == Span(t, p, {Space}) IN Then(t, One("Command", f, e), e, GapRest(t, lim, e, e, 0))

MiddleRest(t, lim, f, p, n) ==
  LET e == Span(t, p, {Space}) IN Then(t, One("MiddleParameter", f, e), e, GapRest(t, lim, e, e, n))

Types == {"TagsStart", "TagClientKeyStart", "TagKey", "TagValueStart", "TagValue", "TagSeparator",
          "Separator", "PrefixStart", "PrefixName", "PrefixUserStart", "PrefixUser",
          "PrefixHostStart", "PrefixHost", "Command", "MiddleParameter", "TrailingParameterStart",
          "TrailingParameter", "EOF"} \cup Limits

AnyTokens == Seq(Types \X Nat \X Nat)

\* A token is a type and two positions.
LEMMA TokIs ==
  ASSUME NEW type \in Types, NEW p \in Nat, NEW q \in Nat
  PROVE  Tok(type, p, q) \in Types \X Nat \X Nat
  BY DEF Tok

\* And is a sequence of tokens.
LEMMA OneToken ==
  ASSUME NEW type \in Types, NEW p \in Nat, NEW q \in Nat
  PROVE  One(type, p, q) \in AnyTokens
  BY TokIs DEF AnyTokens, One

\* So are the end of the line, an error, and a token that may be left out.
LEMMA Simple ==
  ASSUME NEW p \in Nat
  PROVE  /\ Eof(p) \in AnyTokens
         /\ \A l \in Limits : Throw(l, p) \in AnyTokens
         /\ \A type \in Types, e \in Nat : Unless(type, p, e) \in AnyTokens
<1>1. Eof(p) \in AnyTokens
  BY OneToken DEF Eof, Types
<1>2. ASSUME NEW l \in Limits PROVE Throw(l, p) \in AnyTokens
  BY OneToken DEF Throw, Types
<1>3. ASSUME NEW type \in Types, NEW e \in Nat PROVE Unless(type, p, e) \in AnyTokens
  <2>1. <<>> \in AnyTokens
    BY DEF AnyTokens
  <2> QED BY OneToken, <2>1 DEF Unless
<1> QED BY <1>1, <1>2, <1>3

\* And what is put together of parts.
LEMMA ThenIs ==
  ASSUME NEW t, Len(t) \in Nat, NEW tokens \in AnyTokens, NEW p \in Nat, NEW R,
         p <= Len(t) => R \in AnyTokens
  PROVE  Then(t, tokens, p, R) \in AnyTokens
<1>1. CASE p > Len(t)
  <2>1. Then(t, tokens, p, R) = tokens \o Eof(p)
    BY <1>1 DEF Then
  <2> QED BY <2>1, Simple DEF AnyTokens
<1>2. CASE ~(p > Len(t))
  <2>1. Then(t, tokens, p, R) = tokens \o R
    BY <1>2 DEF Then
  <2> QED BY <1>2, <2>1 DEF AnyTokens
<1> QED BY <1>1, <1>2

-----------------------------------------------------------------------------
(* The recursive functions are what their definitions say.                 *)

ParamsFrom(t, lim, k, f) == f = [p \in k..Len(t) |-> [n \in Nat |-> ParameterAt(t, lim, f, p, n)]]

\* A parameter asks only for what lies behind it.
LEMMA ParameterLocal ==
  ASSUME NEW t, Len(t) \in Nat, NEW lim, NEW p \in 1..Len(t), NEW f, NEW g, NEW n \in Nat,
         \A q \in (p + 1)..Len(t) : f[q] = g[q]
  PROVE  ParameterAt(t, lim, f, p, n) = ParameterAt(t, lim, g, p, n)
<1> DEFINE e == Span(t, p, {Space})
           h == Spaces(t, e)
<1>1. e \in p..(Len(t) + 1) /\ (e <= Len(t) => t[e] = Space)
  BY SpanIs
<1>2. h \in e..(Len(t) + 1) /\ (e <= Len(t) => h > e)
  <2> HIDE DEF e
  <2> QED BY <1>1, SpacesStep
<1>3. e <= Len(t) /\ h <= Len(t) => f[h] = g[h]
  <2> HIDE DEF e, h
  <2> QED BY <1>1, <1>2
<1> DEFINE F == One("Separator", e, h) \o (IF h > Len(t) THEN Eof(h) ELSE f[h][n + 1])
           G == One("Separator", e, h) \o (IF h > Len(t) THEN Eof(h) ELSE g[h][n + 1])
<1>4. ~(e > Len(t)) => F = G
  <2>1. ~(e > Len(t)) =>
          (IF h > Len(t) THEN Eof(h) ELSE f[h][n + 1]) = (IF h > Len(t) THEN Eof(h) ELSE g[h][n + 1])
    <3> HIDE DEF e, h
    <3> QED BY <1>1, <1>2, <1>3
  <2> HIDE DEF e, h
  <2> QED BY <2>1
<1>5. (IF e > Len(t) THEN Eof(e) ELSE F) = (IF e > Len(t) THEN Eof(e) ELSE G)
  <2> HIDE DEF e, h, F, G
  <2> QED BY <1>4
<1> QED BY <1>5 DEF ParameterAt, Then

\* The parameters of the line exist: each is made of those behind it.
LEMMA ParametersAre ==
  ASSUME NEW t, Len(t) \in Nat, NEW lim, NEW p \in 1..Len(t), NEW n \in Nat
  PROVE  Parameters(t, lim)[p][n] = ParameterAt(t, lim, Parameters(t, lim), p, n)
<1> DEFINE e == Len(t) + 1
           K == {k \in Nat : k <= Len(t) => \E f : ParamsFrom(t, lim, e - k, f)}
<1>1. 0 \in K
  <2> DEFINE f == <<>>
  <2>1. e..Len(t) = {}
    OBVIOUS
  <2>2. ParamsFrom(t, lim, e, f)
    BY <2>1 DEF ParamsFrom
  <2> QED BY <2>2
<1>2. ASSUME NEW k \in Nat, k \in K PROVE k + 1 \in K
  <2>1. SUFFICES ASSUME k + 1 <= Len(t) PROVE \E f : ParamsFrom(t, lim, e - (k + 1), f)
    OBVIOUS
  <2>2. PICK f : ParamsFrom(t, lim, e - k, f)
    BY <1>2, <2>1
  <2> DEFINE m == e - (k + 1)
             g == [q \in m..Len(t) |-> [j \in Nat |-> ParameterAt(t, lim, f, q, j)]]
  <2>3. m \in 1..Len(t) /\ e - k = m + 1
    BY <2>1
  <2>4. f = [q \in (m + 1)..Len(t) |-> [j \in Nat |-> ParameterAt(t, lim, f, q, j)]]
    BY <2>2, <2>3 DEF ParamsFrom
  <2>5. \A q \in (m + 1)..Len(t) : f[q] = g[q]
    <3> HIDE DEF m
    <3> QED BY <2>3, <2>4
  <2> HIDE DEF m
  <2>6. ASSUME NEW q \in m..Len(t), NEW j \in Nat
        PROVE  ParameterAt(t, lim, f, q, j) = ParameterAt(t, lim, g, q, j)
    <3>1. q \in 1..Len(t) /\ \A i \in (q + 1)..Len(t) : i \in (m + 1)..Len(t)
      BY <2>3
    <3> HIDE DEF g
    <3> QED BY <2>5, <3>1, ParameterLocal
  <2>7. g = [q \in m..Len(t) |-> [j \in Nat |-> ParameterAt(t, lim, g, q, j)]]
    <3> DEFINE h == g
    <3>1. g = [q \in m..Len(t) |-> [j \in Nat |-> ParameterAt(t, lim, h, q, j)]]
      <4> HIDE DEF h
      <4>1. \A q \in m..Len(t) : \A j \in Nat : ParameterAt(t, lim, f, q, j) = ParameterAt(t, lim, h, q, j)
        BY <2>6 DEF h
      <4> QED BY <4>1
    <3> QED BY <3>1
  <2>8. ParamsFrom(t, lim, m, g)
    <3> HIDE DEF g
    <3> QED BY <2>7 DEF ParamsFrom
  <2> QED BY <2>8 DEF m
<1>3. \A k \in Nat : k \in K
  <2> HIDE DEF K
  <2> QED BY <1>1, <1>2, Induction
<1>4. \E f : ParamsFrom(t, lim, 1, f)
  <2>1. Len(t) \in K
    BY <1>3
  <2>2. \E f : ParamsFrom(t, lim, e - Len(t), f)
    BY <2>1
  <2>3. e - Len(t) = 1
    OBVIOUS
  <2> QED BY <2>2, <2>3
<1>5. ParamsFrom(t, lim, 1, Parameters(t, lim))
  BY <1>4 DEF Parameters, ParamsFrom
<1> DEFINE P == Parameters(t, lim)
<1>6. P = [q \in 1..Len(t) |-> [j \in Nat |-> ParameterAt(t, lim, P, q, j)]]
  BY <1>5 DEF ParamsFrom
<1>7. P[p] = [j \in Nat |-> ParameterAt(t, lim, P, p, j)]
  <2> HIDE DEF P
  <2> QED BY <1>6
<1> HIDE DEF P
<1>8. P[p][n] = ParameterAt(t, lim, P, p, n)
  BY <1>7
<1> QED BY <1>8 DEF P

\* From the end of the line to its beginning.
LEMMA Descent ==
  ASSUME NEW N \in Nat, NEW S, \A p \in 1..N : (\A q \in (p + 1)..N : q \in S) => p \in S
  PROVE  \A p \in 1..N : p \in S
<1> DEFINE K == {k \in Nat : \A q \in 1..N : q >= N + 1 - k => q \in S}
<1>1. 0 \in K
  OBVIOUS
<1>2. ASSUME NEW k \in Nat, k \in K PROVE k + 1 \in K
  <2>1. SUFFICES ASSUME NEW p \in 1..N, p >= N + 1 - (k + 1) PROVE p \in S
    OBVIOUS
  <2>2. \A q \in (p + 1)..N : q \in S
    BY <1>2, <2>1
  <2> QED BY <2>2
<1>3. \A k \in Nat : k \in K
  <2> HIDE DEF K
  <2> QED BY <1>1, <1>2, Induction
<1>4. N \in K
  BY <1>3
<1> QED BY <1>4

\* A trailing parameter is tokens.
LEMMA TrailingTyped ==
  ASSUME NEW t, Len(t) \in Nat, NEW f \in Nat
  PROVE  Trailing(t, f) \in AnyTokens
<1>1. One("TrailingParameter", f, Len(t) + 1) \in AnyTokens
  BY OneToken DEF Types
<1>2. Eof(Len(t) + 1) \in AnyTokens
  BY Simple
<1> QED BY <1>1, <1>2 DEF Trailing, AnyTokens

\* A parameter is tokens, when those behind it are.
LEMMA ParameterTyped ==
  ASSUME NEW t, Len(t) \in Nat, NEW lim, NEW p \in 1..Len(t), NEW f, NEW n \in Nat,
         \A q \in (p + 1)..Len(t) : f[q][n + 1] \in AnyTokens
  PROVE  ParameterAt(t, lim, f, p, n) \in AnyTokens
<1> DEFINE e == Span(t, p, {Space})
           h == Spaces(t, e)
<1>1. e \in p..(Len(t) + 1) /\ (e <= Len(t) => t[e] = Space)
  BY SpanIs
<1>2. h \in e..(Len(t) + 1) /\ (e <= Len(t) => h > e)
  <2> HIDE DEF e
  <2> QED BY <1>1, SpacesStep
<1> DEFINE F == Then(t, One("Separator", e, h), h, f[h][n + 1])
           G == Then(t, One("MiddleParameter", p, e), e, F)
           C == One("TrailingParameterStart", p, p + 1) \o Trailing(t, p + 1)
<1>3. e <= Len(t) => F \in AnyTokens
  <2> HIDE DEF e, h
  <2>1. One("Separator", e, h) \in AnyTokens
    BY <1>1, <1>2, OneToken DEF Types
  <2> QED BY <1>1, <1>2, <2>1, ThenIs
<1>4. G \in AnyTokens
  <2> HIDE DEF e, F
  <2>1. One("MiddleParameter", p, e) \in AnyTokens
    BY <1>1, OneToken DEF Types
  <2> QED BY <1>1, <1>3, <2>1, ThenIs
<1>5. C \in AnyTokens
  <2>1. One("TrailingParameterStart", p, p + 1) \in AnyTokens
    BY OneToken DEF Types
  <2>2. Trailing(t, p + 1) \in AnyTokens
    BY TrailingTyped
  <2> QED BY <2>1, <2>2 DEF AnyTokens
<1>6. Throw("paramCountLimit", p) \in AnyTokens
  BY Simple DEF Limits
<1> HIDE DEF G, C
<1>7. ParameterAt(t, lim, f, p, n) \in {Throw("paramCountLimit", p), C, G}
  BY DEF ParameterAt, G, C
<1> QED BY <1>4, <1>5, <1>6, <1>7

\* All parameters are.
LEMMA ParametersTyped ==
  ASSUME NEW t, Len(t) \in Nat, NEW lim, NEW p \in 1..Len(t), NEW n \in Nat
  PROVE  Parameters(t, lim)[p][n] \in AnyTokens
<1> DEFINE P == Parameters(t, lim)
           S == {q \in 1..Len(t) : \A k \in Nat : P[q][k] \in AnyTokens}
<1>1. ASSUME NEW q \in 1..Len(t), \A r \in (q + 1)..Len(t) : r \in S PROVE q \in S
  <2>1. SUFFICES ASSUME NEW k \in Nat PROVE P[q][k] \in AnyTokens
    OBVIOUS
  <2>2. \A r \in (q + 1)..Len(t) : P[r][k + 1] \in AnyTokens
    BY <1>1
  <2>3. P[q][k] = ParameterAt(t, lim, P, q, k)
    BY ParametersAre
  <2> HIDE DEF P
  <2> QED BY <2>2, <2>3, ParameterTyped
<1>2. \A q \in 1..Len(t) : q \in S
  <2> HIDE DEF S
  <2> QED BY <1>1, Descent
<1> QED BY <1>2

\* So is the command and what follows it.
LEMMA CommandTyped ==
  ASSUME NEW t, Len(t) \in Nat, NEW lim, NEW p \in 1..Len(t)
  PROVE  CommandAt(t, lim, p) \in AnyTokens
<1> DEFINE e == Span(t, p, {Space})
           h == Spaces(t, e)
<1>1. e \in p..(Len(t) + 1)
  BY SpanIs
<1>2. h \in e..(Len(t) + 1)
  <2> HIDE DEF e
  <2> QED BY <1>1, SpacesStep
<1> DEFINE F == Then(t, One("Separator", e, h), h, Parameters(t, lim)[h][0])
<1>3. F \in AnyTokens
  <2> HIDE DEF e, h
  <2>1. One("Separator", e, h) \in AnyTokens
    BY <1>1, <1>2, OneToken DEF Types
  <2>2. h <= Len(t) => Parameters(t, lim)[h][0] \in AnyTokens
    BY <1>1, <1>2, ParametersTyped
  <2> QED BY <1>1, <1>2, <2>1, <2>2, ThenIs
<1>4. Then(t, One("Command", p, e), e, F) \in AnyTokens
  <2> HIDE DEF e, F
  <2>1. One("Command", p, e) \in AnyTokens
    BY <1>1, OneToken DEF Types
  <2> QED BY <1>1, <1>3, <2>1, ThenIs
<1> QED BY <1>4 DEF CommandAt

\* So is what follows the prefix.
LEMMA PrefixGapTyped ==
  ASSUME NEW t, Len(t) \in Nat, NEW lim, NEW p \in 1..(Len(t) + 1), NEW f \in Nat
  PROVE  PrefixGapRest(t, lim, f, p) \in AnyTokens
<1> DEFINE h == Spaces(t, p)
<1>1. h \in p..(Len(t) + 1)
  BY SpacesStep
<1>2. Then(t, One("Separator", f, h), h, CommandAt(t, lim, h)) \in AnyTokens
  <2> HIDE DEF h
  <2>1. One("Separator", f, h) \in AnyTokens
    BY <1>1, OneToken DEF Types
  <2>2. h <= Len(t) => CommandAt(t, lim, h) \in AnyTokens
    BY <1>1, CommandTyped
  <2> QED BY <1>1, <2>1, <2>2, ThenIs
<1> QED BY <1>2 DEF PrefixGapRest

\* So is the rest of a host.
LEMMA HostRestTyped ==
  ASSUME NEW t, Len(t) \in Nat, NEW lim, NEW p \in 1..(Len(t) + 1), NEW f \in Nat
  PROVE  HostRest(t, lim, f, p) \in AnyTokens
<1> DEFINE e == Span(t, p, {Space})
<1>1. e \in p..(Len(t) + 1)
  BY SpanIs
<1>2. Then(t, Unless("PrefixHost", f, e), e, PrefixGapRest(t, lim, e, e)) \in AnyTokens
  <2> HIDE DEF e
  <2>1. Unless("PrefixHost", f, e) \in AnyTokens
    BY <1>1, Simple DEF Types
  <2>2. e <= Len(t) => PrefixGapRest(t, lim, e, e) \in AnyTokens
    BY <1>1, PrefixGapTyped
  <2> QED BY <1>1, <2>1, <2>2, ThenIs
<1> QED BY <1>2 DEF HostRest

\* A marker and what follows it.
LEMMA MarkTyped ==
  ASSUME NEW t, Len(t) \in Nat, NEW p \in 1..Len(t), NEW type \in Types, NEW R,
         p < Len(t) => R \in AnyTokens
  PROVE  Then(t, One(type, p, p + 1), p + 1, R) \in AnyTokens
<1>1. One(type, p, p + 1) \in AnyTokens
  BY OneToken
<1> QED BY <1>1, ThenIs

\* A host is its mark and the rest, or what follows the prefix.
LEMMA HostIs ==
  ASSUME NEW t, NEW lim, NEW p
  PROVE  HostAt(t, lim, p) =
           IF t[p] # "@" THEN PrefixGapRest(t, lim, p, p)
           ELSE Then(t, One("PrefixHostStart", p, p + 1), p + 1, HostRest(t, lim, p + 1, p + 1))
  BY DEF HostAt, PrefixGapRest, HostRest

\* A host is tokens.
LEMMA HostTyped ==
  ASSUME NEW t, Len(t) \in Nat, NEW lim, NEW p \in 1..Len(t)
  PROVE  HostAt(t, lim, p) \in AnyTokens
<1> DEFINE M == Then(t, One("PrefixHostStart", p, p + 1), p + 1, HostRest(t, lim, p + 1, p + 1))
<1>1. PrefixGapRest(t, lim, p, p) \in AnyTokens
  BY PrefixGapTyped
<1>2. M \in AnyTokens
  <2>1. p < Len(t) => HostRest(t, lim, p + 1, p + 1) \in AnyTokens
    BY HostRestTyped
  <2> QED BY <2>1, MarkTyped DEF Types
<1> HIDE DEF M
<1>3. HostAt(t, lim, p) \in {PrefixGapRest(t, lim, p, p), M}
  BY HostIs DEF M
<1> QED BY <1>1, <1>2, <1>3

\* So is the rest of a user name.
LEMMA UserRestTyped ==
  ASSUME NEW t, Len(t) \in Nat, NEW lim, NEW p \in 1..(Len(t) + 1), NEW f \in Nat
  PROVE  UserRest(t, lim, f, p) \in AnyTokens
<1> DEFINE e == Span(t, p, UserStops)
<1>1. e \in p..(Len(t) + 1)
  BY SpanIs
<1>2. Then(t, Unless("PrefixUser", f, e), e, HostAt(t, lim, e)) \in AnyTokens
  <2> HIDE DEF e
  <2>1. Unless("PrefixUser", f, e) \in AnyTokens
    BY <1>1, Simple DEF Types
  <2>2. e <= Len(t) => HostAt(t, lim, e) \in AnyTokens
    BY <1>1, HostTyped
  <2> QED BY <1>1, <2>1, <2>2, ThenIs
<1> QED BY <1>2 DEF UserRest

\* A user name is its mark and the rest, or a host.
LEMMA UserIs ==
  ASSUME NEW t, NEW lim, NEW p
  PROVE  UserAt(t, lim, p) =
           IF t[p] # "!" THEN HostAt(t, lim, p)
           ELSE Then(t, One("PrefixUserStart", p, p + 1), p + 1, UserRest(t, lim, p + 1, p + 1))
  BY DEF UserAt, UserRest

\* A user name is tokens.
LEMMA UserTyped ==
  ASSUME NEW t, Len(t) \in Nat, NEW lim, NEW p \in 1..Len(t)
  PROVE  UserAt(t, lim, p) \in AnyTokens
<1> DEFINE M == Then(t, One("PrefixUserStart", p, p + 1), p + 1, UserRest(t, lim, p + 1, p + 1))
<1>1. HostAt(t, lim, p) \in AnyTokens
  BY HostTyped
<1>2. M \in AnyTokens
  <2>1. p < Len(t) => UserRest(t, lim, p + 1, p + 1) \in AnyTokens
    BY UserRestTyped
  <2> QED BY <2>1, MarkTyped DEF Types
<1> HIDE DEF M
<1>3. UserAt(t, lim, p) \in {HostAt(t, lim, p), M}
  BY UserIs DEF M
<1> QED BY <1>1, <1>2, <1>3

\* So is the rest of a name.
LEMMA NameRestTyped ==
  ASSUME NEW t, Len(t) \in Nat, NEW lim, NEW p \in 1..(Len(t) + 1), NEW f \in Nat
  PROVE  NameRest(t, lim, f, p) \in AnyTokens
<1> DEFINE e == Span(t, p, NameStops)
<1>1. e \in p..(Len(t) + 1)
  BY SpanIs
<1>2. Then(t, Unless("PrefixName", f, e), e, UserAt(t, lim, e)) \in AnyTokens
  <2> HIDE DEF e
  <2>1. Unless("PrefixName", f, e) \in AnyTokens
    BY <1>1, Simple DEF Types
  <2>2. e <= Len(t) => UserAt(t, lim, e) \in AnyTokens
    BY <1>1, UserTyped
  <2> QED BY <1>1, <2>1, <2>2, ThenIs
<1> QED BY <1>2 DEF NameRest

\* The portion of RFC 1459 is an error, a prefix or a command.
LEMMA RfcIs ==
  ASSUME NEW t, NEW lim, NEW p
  PROVE  Rfc1459(t, lim, p) =
           IF Len(t) + 1 - p > lim.rfc1459Data THEN Throw("rfc1459DataLimit", p)
           ELSE IF t[p] # ":" THEN CommandAt(t, lim, p)
           ELSE Then(t, One("PrefixStart", p, p + 1), p + 1, NameRest(t, lim, p + 1, p + 1))
  BY DEF Rfc1459, NameRest

\* It is tokens.
LEMMA RfcTyped ==
  ASSUME NEW t, Len(t) \in Nat, NEW lim, NEW p \in 1..Len(t)
  PROVE  Rfc1459(t, lim, p) \in AnyTokens
<1> DEFINE M == Then(t, One("PrefixStart", p, p + 1), p + 1, NameRest(t, lim, p + 1, p + 1))
<1>1. CommandAt(t, lim, p) \in AnyTokens
  BY CommandTyped
<1>2. M \in AnyTokens
  <2>1. p < Len(t) => NameRest(t, lim, p + 1, p + 1) \in AnyTokens
    BY NameRestTyped
  <2> QED BY <2>1, MarkTyped DEF Types
<1>3. Throw("rfc1459DataLimit", p) \in AnyTokens
  BY Simple DEF Limits
<1> HIDE DEF M
<1>4. Rfc1459(t, lim, p) \in {Throw("rfc1459DataLimit", p), CommandAt(t, lim, p), M}
  BY RfcIs DEF M
<1> QED BY <1>1, <1>2, <1>3, <1>4

-----------------------------------------------------------------------------
(* Tags.                                                                    *)

\* What is behind the limit of the tags is an error, and what is not is itself.
LEMMA FarIs ==
  ASSUME NEW far \in Nat, NEW q \in Nat, NEW R
  PROVE  /\ q > far => Far(far, q, R) = Throw("tagDataLimit", far + 1)
         /\ ~(q > far) => Far(far, q, R) = R
         /\ R \in AnyTokens => Far(far, q, R) \in AnyTokens
<1>1. q > far => Far(far, q, R) = Throw("tagDataLimit", far + 1)
  BY DEF Far
<1>2. ~(q > far) => Far(far, q, R) = R
  BY DEF Far
<1>3. Throw("tagDataLimit", far + 1) \in AnyTokens
  BY Simple DEF Limits
<1> QED BY <1>1, <1>2, <1>3

\* The end of the tags is the run of spaces that begins there.
LEMMA TagsEndIs ==
  ASSUME NEW t, NEW lim, NEW far, NEW p
  PROVE  TagsEnd(t, lim, far, p) = TagsGapRest(t, lim, far, p, p)
  BY DEF TagsEnd, TagsGapRest

\* It is tokens.
LEMMA TagsGapTyped ==
  ASSUME NEW t, Len(t) \in Nat, NEW lim, NEW far \in Nat, NEW p \in 1..(Len(t) + 1), NEW f \in Nat
  PROVE  TagsGapRest(t, lim, far, f, p) \in AnyTokens
<1> DEFINE h == Spaces(t, p)
           A == One("Separator", f, far + 1) \o Throw("tagDataLimit", far + 1)
           B == Then(t, One("Separator", f, h), h, Rfc1459(t, lim, h))
<1>1. h \in p..(Len(t) + 1)
  BY SpacesStep
<1>2. A \in AnyTokens
  <2>1. One("Separator", f, far + 1) \in AnyTokens
    BY OneToken DEF Types
  <2>2. Throw("tagDataLimit", far + 1) \in AnyTokens
    BY Simple DEF Limits
  <2> QED BY <2>1, <2>2 DEF AnyTokens
<1>3. B \in AnyTokens
  <2> HIDE DEF h
  <2>1. One("Separator", f, h) \in AnyTokens
    BY <1>1, OneToken DEF Types
  <2>2. h <= Len(t) => Rfc1459(t, lim, h) \in AnyTokens
    BY <1>1, RfcTyped
  <2> QED BY <1>1, <2>1, <2>2, ThenIs
<1>4. TagsGapRest(t, lim, far, f, p) \in {A, B}
  <2> HIDE DEF A, B
  <2> QED BY DEF TagsGapRest, A, B
<1> HIDE DEF A, B
<1> QED BY <1>2, <1>3, <1>4

\* A tag at p looks up what is behind it, and that is known for all positions there.
LEMMA TagEndsTyped ==
  ASSUME NEW t, Len(t) \in Nat, NEW lim, NEW far \in Nat, NEW f, NEW n \in Nat, NEW q \in 1..Len(t),
         \A r \in (q + 1)..Len(t) : f[r][n + 1] \in AnyTokens
  PROVE  TagEnds(t, lim, far, f, q, n) \in AnyTokens
<1> DEFINE A == TagsEnd(t, lim, far, q)
           B == Then(t, One("TagSeparator", q, q + 1), q + 1, Far(far, q + 1, f[q + 1][n + 1]))
<1>1. A \in AnyTokens
  BY TagsEndIs, TagsGapTyped
<1>2. B \in AnyTokens
  <2>1. q < Len(t) => Far(far, q + 1, f[q + 1][n + 1]) \in AnyTokens
    BY FarIs
  <2> QED BY <2>1, MarkTyped DEF Types
<1> HIDE DEF A, B
<1>3. TagEnds(t, lim, far, f, q, n) \in {A, B}
  BY DEF TagEnds, A, B
<1> QED BY <1>1, <1>2, <1>3

ValueEnds(t, lim, far, f, b, p, n) ==
  LET e == Span(t, p, ValueStops)
  IN  Far(far, e, Then(t, One("TagValue", b, e), e, TagEnds(t, lim, far, f, e, n)))

\* So is the rest of a value, when the tags behind it are.
LEMMA ValueEndsTyped ==
  ASSUME NEW t, Len(t) \in Nat, NEW lim, NEW far \in Nat, NEW f, NEW n \in Nat, NEW b \in Nat,
         NEW q \in 1..(Len(t) + 1),
         \A r \in (q + 1)..Len(t) : f[r][n + 1] \in AnyTokens
  PROVE  ValueEnds(t, lim, far, f, b, q, n) \in AnyTokens
<1> DEFINE e == Span(t, q, ValueStops)
<1>1. e \in q..(Len(t) + 1)
  BY SpanIs
<1>2. Far(far, e, Then(t, One("TagValue", b, e), e, TagEnds(t, lim, far, f, e, n))) \in AnyTokens
  <2> HIDE DEF e
  <2>1. One("TagValue", b, e) \in AnyTokens
    <3>1. "TagValue" \in Types
      BY DEF Types
    <3>2. e \in Nat
      BY <1>1
    <3> QED BY <3>1, <3>2, OneToken
  <2>2. e <= Len(t) => TagEnds(t, lim, far, f, e, n) \in AnyTokens
    <3>1. e <= Len(t) => e \in 1..Len(t) /\ \A r \in (e + 1)..Len(t) : f[r][n + 1] \in AnyTokens
      BY <1>1
    <3> QED BY <3>1, TagEndsTyped
  <2>3. Then(t, One("TagValue", b, e), e, TagEnds(t, lim, far, f, e, n)) \in AnyTokens
    BY <1>1, <2>1, <2>2, ThenIs
  <2> QED BY <1>1, <2>3, FarIs
<1> QED BY <1>2 DEF ValueEnds

\* A value is what is in the middle of one that has just begun.
LEMMA ValueIs ==
  ASSUME NEW t, NEW lim, NEW far, NEW f, NEW q, NEW n
  PROVE  ValueAt(t, lim, far, f, q, n) = ValueEnds(t, lim, far, f, q, q, n)
  BY DEF ValueAt, ValueEnds

\* A marker in the tags, and what follows it.
LEMMA FarMarkTyped ==
  ASSUME NEW t, Len(t) \in Nat, NEW far \in Nat, NEW p \in 1..Len(t), NEW type \in Types, NEW R \in AnyTokens
  PROVE  One(type, p, p + 1) \o Far(far, p + 1, R) \in AnyTokens
<1>1. One(type, p, p + 1) \in AnyTokens
  BY OneToken
<1>2. Far(far, p + 1, R) \in AnyTokens
  BY FarIs
<1> QED BY <1>1, <1>2 DEF AnyTokens

\* What follows a key is tokens.
LEMMA KeyEndsTyped ==
  ASSUME NEW t, Len(t) \in Nat, NEW lim, NEW far \in Nat, NEW f, NEW n \in Nat, NEW q \in 1..Len(t),
         \A r \in (q + 1)..Len(t) : f[r][n + 1] \in AnyTokens
  PROVE  KeyEnds(t, lim, far, f, q, n) \in AnyTokens
<1> DEFINE A == One("TagValueStart", q, q + 1) \o Far(far, q + 1, ValueAt(t, lim, far, f, q + 1, n))
           B == TagEnds(t, lim, far, f, q, n)
<1>1. A \in AnyTokens
  <2>1. ValueAt(t, lim, far, f, q + 1, n) \in AnyTokens
    BY ValueIs, ValueEndsTyped
  <2> QED BY <2>1, FarMarkTyped DEF Types
<1>2. B \in AnyTokens
  BY TagEndsTyped
<1> HIDE DEF A, B
<1>3. KeyEnds(t, lim, far, f, q, n) \in {A, B}
  BY DEF KeyEnds, A, B
<1> QED BY <1>1, <1>2, <1>3

ToKeyEnds(t, lim, far, f, b, p, n) ==
  LET e == Span(t, p, KeyStops)
  IN  Far(far, e, Then(t, One("TagKey", b, e), e, KeyEnds(t, lim, far, f, e, n)))

\* So is the rest of a key.
LEMMA ToKeyEndsTyped ==
  ASSUME NEW t, Len(t) \in Nat, NEW lim, NEW far \in Nat, NEW f, NEW n \in Nat, NEW b \in Nat,
         NEW q \in 1..(Len(t) + 1),
         \A r \in (q + 1)..Len(t) : f[r][n + 1] \in AnyTokens
  PROVE  ToKeyEnds(t, lim, far, f, b, q, n) \in AnyTokens
<1> DEFINE e == Span(t, q, KeyStops)
<1>1. e \in q..(Len(t) + 1)
  BY SpanIs
<1>2. Far(far, e, Then(t, One("TagKey", b, e), e, KeyEnds(t, lim, far, f, e, n))) \in AnyTokens
  <2> HIDE DEF e
  <2>1. One("TagKey", b, e) \in AnyTokens
    <3>1. "TagKey" \in Types
      BY DEF Types
    <3>2. e \in Nat
      BY <1>1
    <3> QED BY <3>1, <3>2, OneToken
  <2>2. e <= Len(t) => KeyEnds(t, lim, far, f, e, n) \in AnyTokens
    <3>1. e <= Len(t) => e \in 1..Len(t) /\ \A r \in (e + 1)..Len(t) : f[r][n + 1] \in AnyTokens
      BY <1>1
    <3> QED BY <3>1, KeyEndsTyped
  <2>3. Then(t, One("TagKey", b, e), e, KeyEnds(t, lim, far, f, e, n)) \in AnyTokens
    BY <1>1, <2>1, <2>2, ThenIs
  <2> QED BY <1>1, <2>3, FarIs
<1> QED BY <1>2 DEF ToKeyEnds

\* A key is empty, or is what is in the middle of one that has just begun.
LEMMA KeyIs ==
  ASSUME NEW t, Len(t) \in Nat, NEW lim, NEW far, NEW f, NEW q \in 1..Len(t), NEW n
  PROVE  KeyAt(t, lim, far, f, q, n) = IF t[q] \in KeyStops THEN KeyEnds(t, lim, far, f, q, n)
                                       ELSE ToKeyEnds(t, lim, far, f, q, q, n)
<1>1. Span(t, q, KeyStops) = q <=> t[q] \in KeyStops
  BY SpanStep
<1>2. Span(t, q, KeyStops) = q => Span(t, q, KeyStops) = q
  OBVIOUS
<1> QED BY <1>1 DEF KeyAt, ToKeyEnds

\* A key is tokens, when the tags behind it are.
LEMMA KeyTyped ==
  ASSUME NEW t, Len(t) \in Nat, NEW lim, NEW far \in Nat, NEW f, NEW n \in Nat, NEW q \in 1..Len(t),
         \A r \in (q + 1)..Len(t) : f[r][n + 1] \in AnyTokens
  PROVE  KeyAt(t, lim, far, f, q, n) \in AnyTokens
<1>1. KeyEnds(t, lim, far, f, q, n) \in AnyTokens
  BY KeyEndsTyped
<1>2. ToKeyEnds(t, lim, far, f, q, q, n) \in AnyTokens
  BY ToKeyEndsTyped
<1>3. KeyAt(t, lim, far, f, q, n) \in {KeyEnds(t, lim, far, f, q, n), ToKeyEnds(t, lim, far, f, q, q, n)}
  BY KeyIs
<1> QED BY <1>1, <1>2, <1>3

\* So is a tag.
LEMMA TagTyped ==
  ASSUME NEW t, Len(t) \in Nat, NEW lim, NEW far \in Nat, NEW f, NEW n \in Nat, NEW q \in 1..Len(t),
         \A r \in (q + 1)..Len(t) : f[r][n + 1] \in AnyTokens
  PROVE  TagAt(t, lim, far, f, q, n) \in AnyTokens
<1> DEFINE A == Throw("tagCountLimit", q)
           B == One("TagClientKeyStart", q, q + 1)
                  \o Far(far, q + 1, Then(t, <<>>, q + 1, KeyAt(t, lim, far, f, q + 1, n)))
           C == KeyAt(t, lim, far, f, q, n)
<1>1. A \in AnyTokens
  BY Simple DEF Limits
<1>2. B \in AnyTokens
  <2>1. q < Len(t) => KeyAt(t, lim, far, f, q + 1, n) \in AnyTokens
    BY KeyTyped
  <2>2. <<>> \in AnyTokens
    BY DEF AnyTokens
  <2>3. Then(t, <<>>, q + 1, KeyAt(t, lim, far, f, q + 1, n)) \in AnyTokens
    BY <2>1, <2>2, ThenIs
  <2> QED BY <2>3, FarMarkTyped DEF Types
<1>3. C \in AnyTokens
  BY KeyTyped
<1> HIDE DEF A, B, C
<1>4. TagAt(t, lim, far, f, q, n) \in {A, B, C}
  BY DEF TagAt, A, B, C
<1> QED BY <1>1, <1>2, <1>3, <1>4

\* The end of a tag asks only for the tags behind it.
LEMMA TagEndsLocal ==
  ASSUME NEW t, Len(t) \in Nat, NEW lim, NEW far \in Nat, NEW n \in Nat, NEW f, NEW g, NEW q \in 1..Len(t),
         \A r \in (q + 1)..Len(t) : f[r] = g[r]
  PROVE  TagEnds(t, lim, far, f, q, n) = TagEnds(t, lim, far, g, q, n)
<1> DEFINE F == f[q + 1][n + 1]
           G == g[q + 1][n + 1]
<1>1. ~(q + 1 > Len(t)) => F = G
  <2>1. ~(q + 1 > Len(t)) => f[q + 1] = g[q + 1]
    OBVIOUS
  <2> QED BY <2>1
<1> HIDE DEF F, G
<1>2. ~(q + 1 > Len(t)) => Far(far, q + 1, F) = Far(far, q + 1, G)
  BY <1>1
<1>3. Then(t, One("TagSeparator", q, q + 1), q + 1, Far(far, q + 1, F))
        = Then(t, One("TagSeparator", q, q + 1), q + 1, Far(far, q + 1, G))
  BY <1>2 DEF Then
<1> QED BY <1>3 DEF TagEnds, F, G

\* So does a value.
LEMMA ValueEndsLocal ==
  ASSUME NEW t, Len(t) \in Nat, NEW lim, NEW far \in Nat, NEW n \in Nat, NEW f, NEW g, NEW b,
         NEW q \in 1..(Len(t) + 1),
         \A r \in (q + 1)..Len(t) : f[r] = g[r]
  PROVE  ValueEnds(t, lim, far, f, b, q, n) = ValueEnds(t, lim, far, g, b, q, n)
<1> DEFINE e == Span(t, q, ValueStops)
           F == TagEnds(t, lim, far, f, e, n)
           G == TagEnds(t, lim, far, g, e, n)
<1>1. e \in q..(Len(t) + 1)
  BY SpanIs
<1>2. ~(e > Len(t)) => F = G
  <2> HIDE DEF e
  <2>1. ~(e > Len(t)) => e \in 1..Len(t) /\ \A r \in (e + 1)..Len(t) : r \in (q + 1)..Len(t)
    BY <1>1
  <2> QED BY <2>1, TagEndsLocal
<1> HIDE DEF F, G
<1>3. Then(t, One("TagValue", b, e), e, F) = Then(t, One("TagValue", b, e), e, G)
  <2> HIDE DEF e
  <2> QED BY <1>2 DEF Then
<1> QED BY <1>3 DEF ValueEnds, F, G

\* So does what follows a key.
LEMMA KeyEndsLocal ==
  ASSUME NEW t, Len(t) \in Nat, NEW lim, NEW far \in Nat, NEW n \in Nat, NEW f, NEW g, NEW q \in 1..Len(t),
         \A r \in (q + 1)..Len(t) : f[r] = g[r]
  PROVE  KeyEnds(t, lim, far, f, q, n) = KeyEnds(t, lim, far, g, q, n)
<1>1. ValueAt(t, lim, far, f, q + 1, n) = ValueAt(t, lim, far, g, q + 1, n)
  <2>1. q + 1 \in 1..(Len(t) + 1) /\ \A r \in ((q + 1) + 1)..Len(t) : f[r] = g[r]
    OBVIOUS
  <2>2. ValueEnds(t, lim, far, f, q + 1, q + 1, n) = ValueEnds(t, lim, far, g, q + 1, q + 1, n)
    BY <2>1, ValueEndsLocal
  <2> QED BY <2>2, ValueIs
<1>2. TagEnds(t, lim, far, f, q, n) = TagEnds(t, lim, far, g, q, n)
  BY TagEndsLocal
<1> QED BY <1>1, <1>2 DEF KeyEnds

\* So does the rest of a key.
LEMMA ToKeyEndsLocal ==
  ASSUME NEW t, Len(t) \in Nat, NEW lim, NEW far \in Nat, NEW n \in Nat, NEW f, NEW g, NEW b,
         NEW q \in 1..(Len(t) + 1),
         \A r \in (q + 1)..Len(t) : f[r] = g[r]
  PROVE  ToKeyEnds(t, lim, far, f, b, q, n) = ToKeyEnds(t, lim, far, g, b, q, n)
<1> DEFINE e == Span(t, q, KeyStops)
           F == KeyEnds(t, lim, far, f, e, n)
           G == KeyEnds(t, lim, far, g, e, n)
<1>1. e \in q..(Len(t) + 1)
  BY SpanIs
<1>2. ~(e > Len(t)) => F = G
  <2> HIDE DEF e
  <2>1. ~(e > Len(t)) => e \in 1..Len(t) /\ \A r \in (e + 1)..Len(t) : r \in (q + 1)..Len(t)
    BY <1>1
  <2> QED BY <2>1, KeyEndsLocal
<1> HIDE DEF F, G
<1>3. Then(t, One("TagKey", b, e), e, F) = Then(t, One("TagKey", b, e), e, G)
  <2> HIDE DEF e
  <2> QED BY <1>2 DEF Then
<1> QED BY <1>3 DEF ToKeyEnds, F, G

\* So does a key.
LEMMA KeyLocal ==
  ASSUME NEW t, Len(t) \in Nat, NEW lim, NEW far \in Nat, NEW n \in Nat, NEW f, NEW g, NEW q \in 1..Len(t),
         \A r \in (q + 1)..Len(t) : f[r] = g[r]
  PROVE  KeyAt(t, lim, far, f, q, n) = KeyAt(t, lim, far, g, q, n)
<1>1. KeyEnds(t, lim, far, f, q, n) = KeyEnds(t, lim, far, g, q, n)
  BY KeyEndsLocal
<1>2. ToKeyEnds(t, lim, far, f, q, q, n) = ToKeyEnds(t, lim, far, g, q, q, n)
  BY ToKeyEndsLocal
<1> QED BY <1>1, <1>2, KeyIs

\* So does a tag.
LEMMA TagLocal ==
  ASSUME NEW t, Len(t) \in Nat, NEW lim, NEW far \in Nat, NEW n \in Nat, NEW f, NEW g, NEW q \in 1..Len(t),
         \A r \in (q + 1)..Len(t) : f[r] = g[r]
  PROVE  TagAt(t, lim, far, f, q, n) = TagAt(t, lim, far, g, q, n)
<1>1. KeyAt(t, lim, far, f, q, n) = KeyAt(t, lim, far, g, q, n)
  BY KeyLocal
<1> DEFINE F == KeyAt(t, lim, far, f, q + 1, n)
           G == KeyAt(t, lim, far, g, q + 1, n)
<1>2. ~(q + 1 > Len(t)) => F = G
  <2>1. ~(q + 1 > Len(t)) => q + 1 \in 1..Len(t) /\ \A r \in ((q + 1) + 1)..Len(t) : r \in (q + 1)..Len(t)
    OBVIOUS
  <2> QED BY <2>1, KeyLocal
<1> HIDE DEF F, G
<1>3. Then(t, <<>>, q + 1, F) = Then(t, <<>>, q + 1, G)
  BY <1>2 DEF Then
<1> QED BY <1>1, <1>3 DEF TagAt, F, G

TagsFrom(t, lim, far, k, f) == f = [p \in k..Len(t) |-> [n \in Nat |-> TagAt(t, lim, far, f, p, n)]]

\* The tags of the line exist: each is made of those behind it.
LEMMA TagsAre ==
  ASSUME NEW t, Len(t) \in Nat, NEW lim, NEW far \in Nat, NEW p \in 1..Len(t), NEW n \in Nat
  PROVE  TagList(t, lim, far)[p][n] = TagAt(t, lim, far, TagList(t, lim, far), p, n)
<1> DEFINE e == Len(t) + 1
           K == {k \in Nat : k <= Len(t) => \E f : TagsFrom(t, lim, far, e - k, f)}
<1>1. 0 \in K
  <2> DEFINE f == <<>>
  <2>1. e..Len(t) = {}
    OBVIOUS
  <2>2. TagsFrom(t, lim, far, e, f)
    BY <2>1 DEF TagsFrom
  <2> QED BY <2>2
<1>2. ASSUME NEW k \in Nat, k \in K PROVE k + 1 \in K
  <2>1. SUFFICES ASSUME k + 1 <= Len(t) PROVE \E f : TagsFrom(t, lim, far, e - (k + 1), f)
    OBVIOUS
  <2>2. PICK f : TagsFrom(t, lim, far, e - k, f)
    BY <1>2, <2>1
  <2> DEFINE m == e - (k + 1)
             g == [q \in m..Len(t) |-> [j \in Nat |-> TagAt(t, lim, far, f, q, j)]]
  <2>3. m \in 1..Len(t) /\ e - k = m + 1
    BY <2>1
  <2>4. f = [q \in (m + 1)..Len(t) |-> [j \in Nat |-> TagAt(t, lim, far, f, q, j)]]
    BY <2>2, <2>3 DEF TagsFrom
  <2>5. \A q \in (m + 1)..Len(t) : f[q] = g[q]
    <3> HIDE DEF m
    <3> QED BY <2>3, <2>4
  <2> HIDE DEF m
  <2>6. ASSUME NEW q \in m..Len(t), NEW j \in Nat
        PROVE  TagAt(t, lim, far, f, q, j) = TagAt(t, lim, far, g, q, j)
    <3>1. q \in 1..Len(t) /\ \A i \in (q + 1)..Len(t) : i \in (m + 1)..Len(t)
      BY <2>3
    <3> HIDE DEF g
    <3> QED BY <2>5, <3>1, TagLocal
  <2>7. g = [q \in m..Len(t) |-> [j \in Nat |-> TagAt(t, lim, far, g, q, j)]]
    <3> DEFINE h == g
    <3>1. g = [q \in m..Len(t) |-> [j \in Nat |-> TagAt(t, lim, far, h, q, j)]]
      <4> HIDE DEF h
      <4>1. \A q \in m..Len(t) : \A j \in Nat : TagAt(t, lim, far, f, q, j) = TagAt(t, lim, far, h, q, j)
        BY <2>6 DEF h
      <4> QED BY <4>1
    <3> QED BY <3>1
  <2>8. TagsFrom(t, lim, far, m, g)
    <3> HIDE DEF g
    <3> QED BY <2>7 DEF TagsFrom
  <2> QED BY <2>8 DEF m
<1>3. \A k \in Nat : k \in K
  <2> HIDE DEF K
  <2> QED BY <1>1, <1>2, Induction
<1>4. \E f : TagsFrom(t, lim, far, 1, f)
  <2>1. Len(t) \in K
    BY <1>3
  <2>2. \E f : TagsFrom(t, lim, far, e - Len(t), f)
    BY <2>1
  <2>3. e - Len(t) = 1
    OBVIOUS
  <2> QED BY <2>2, <2>3
<1>5. TagsFrom(t, lim, far, 1, TagList(t, lim, far))
  BY <1>4 DEF TagList, TagsFrom
<1> DEFINE P == TagList(t, lim, far)
<1>6. P = [q \in 1..Len(t) |-> [j \in Nat |-> TagAt(t, lim, far, P, q, j)]]
  BY <1>5 DEF TagsFrom
<1>7. P[p] = [j \in Nat |-> TagAt(t, lim, far, P, p, j)]
  <2> HIDE DEF P
  <2> QED BY <1>6
<1> HIDE DEF P
<1>8. P[p][n] = TagAt(t, lim, far, P, p, n)
  BY <1>7
<1> QED BY <1>8 DEF P

\* They are tokens.
LEMMA TagsTyped ==
  ASSUME NEW t, Len(t) \in Nat, NEW lim, NEW far \in Nat, NEW p \in 1..Len(t), NEW n \in Nat
  PROVE  TagList(t, lim, far)[p][n] \in AnyTokens
<1> DEFINE P == TagList(t, lim, far)
           S == {q \in 1..Len(t) : \A k \in Nat : P[q][k] \in AnyTokens}
<1>1. ASSUME NEW q \in 1..Len(t), \A r \in (q + 1)..Len(t) : r \in S PROVE q \in S
  <2>1. SUFFICES ASSUME NEW k \in Nat PROVE P[q][k] \in AnyTokens
    OBVIOUS
  <2>2. \A r \in (q + 1)..Len(t) : P[r][k + 1] \in AnyTokens
    BY <1>1
  <2>3. P[q][k] = TagAt(t, lim, far, P, q, k)
    BY TagsAre
  <2> HIDE DEF P
  <2> QED BY <2>2, <2>3, TagTyped
<1>2. \A q \in 1..Len(t) : q \in S
  <2> HIDE DEF S
  <2> QED BY <1>1, Descent
<1> QED BY <1>2

Rest(t, lim, mode, f, n, far, p) ==
  CASE mode = "lead"      -> LeadRest(t, lim, p)
    [] mode = "tag"       -> TagRest(t, lim, far, p, n)
    [] mode = "client"    -> ClientRest(t, lim, far, p, n)
    [] mode = "key"       -> ToKeyEnds(t, lim, far, TagList(t, lim, far), f, p, n)
    [] mode = "value"     -> ValueEnds(t, lim, far, TagList(t, lim, far), f, p, n)
    [] mode = "tagsGap"   -> TagsGapRest(t, lim, far, f, p)
    [] mode = "name"      -> NameRest(t, lim, f, p)
    [] mode = "user"      -> UserRest(t, lim, f, p)
    [] mode = "host"      -> HostRest(t, lim, f, p)
    [] mode = "prefixGap" -> PrefixGapRest(t, lim, f, p)
    [] mode = "command"   -> CommandRest(t, lim, f, p)
    [] mode = "gap"       -> GapRest(t, lim, f, p, n)
    [] mode = "middle"    -> MiddleRest(t, lim, f, p, n)
    [] mode = "trailing"  -> Trailing(t, f)

Modes == {"lead", "tag", "client", "key", "value", "tagsGap", "name", "user", "host", "prefixGap",
          "command", "gap", "middle", "trailing"}

\* The delimiters are different bytes.
LEMMA BytesApart ==
  /\ Space # Semicolon
  /\ \A b \in {":", "@", "!", "+", "="} : b # Space /\ b # Semicolon
<1>1. Space # Semicolon
  BY Zenon DEF Space, Semicolon
<1>2. ":" # Space /\ "@" # Space /\ "!" # Space /\ "+" # Space /\ "=" # Space
  BY Zenon DEF Space
<1>3. ":" # Semicolon /\ "@" # Semicolon /\ "!" # Semicolon /\ "+" # Semicolon /\ "=" # Semicolon
  BY Zenon DEF Semicolon
<1> QED BY <1>1, <1>2, <1>3

\* The rest of leading spaces is tokens.
LEMMA LeadTyped ==
  ASSUME NEW t, Len(t) \in Nat, NEW lim, lim.tagData \in Nat, NEW p \in 1..(Len(t) + 1)
  PROVE  LeadRest(t, lim, p) \in AnyTokens
<1> DEFINE q   == Spaces(t, p)
           far == q + lim.tagData
           M   == Then(t, One("TagsStart", q, q + 1), q + 1, TagList(t, lim, far)[q + 1][0])
<1>1. q \in p..(Len(t) + 1)
  BY SpacesStep
<1>2. Eof(q) \in AnyTokens
  BY <1>1, Simple
<1>3. q <= Len(t) => Rfc1459(t, lim, q) \in AnyTokens
  <2> HIDE DEF q
  <2> QED BY <1>1, RfcTyped
<1>4. Throw("tagDataLimit", q) \in AnyTokens
  BY <1>1, Simple DEF Limits
<1>5. q <= Len(t) => M \in AnyTokens
  <2>1. far \in Nat
    BY <1>1
  <2> HIDE DEF q, far
  <2>2. q < Len(t) => TagList(t, lim, far)[q + 1][0] \in AnyTokens
    BY <1>1, <2>1, TagsTyped
  <2>3. "TagsStart" \in Types
    BY DEF Types
  <2>4. q <= Len(t) => q \in 1..Len(t)
    BY <1>1
  <2> HIDE DEF M
  <2> QED BY <2>2, <2>3, <2>4, MarkTyped DEF M
<1>6. LeadRest(t, lim, p) = IF q > Len(t) THEN Eof(q)
                            ELSE IF t[q] # "@" THEN Rfc1459(t, lim, q)
                            ELSE IF lim.tagData = 0 THEN Throw("tagDataLimit", q) ELSE M
  BY DEF LeadRest
<1> HIDE DEF q, M
<1> QED BY <1>1, <1>2, <1>3, <1>4, <1>5, <1>6

\* So is what follows the mark of the tags, or one between two tags.
LEMMA TagRestTyped ==
  ASSUME NEW t, Len(t) \in Nat, NEW lim, NEW far \in Nat, NEW p \in 1..(Len(t) + 1), NEW n \in Nat
  PROVE  TagRest(t, lim, far, p, n) \in AnyTokens
<1>1. p <= Len(t) => Far(far, p, TagList(t, lim, far)[p][n]) \in AnyTokens
  BY TagsTyped, FarIs
<1>2. <<>> \in AnyTokens
  BY DEF AnyTokens
<1> QED BY <1>1, <1>2, ThenIs DEF TagRest

\* So is what follows the mark of a client's tag.
LEMMA ClientTyped ==
  ASSUME NEW t, Len(t) \in Nat, NEW lim, NEW far \in Nat, NEW p \in 1..(Len(t) + 1), NEW n \in Nat
  PROVE  ClientRest(t, lim, far, p, n) \in AnyTokens
<1> DEFINE T == TagList(t, lim, far)
<1>1. p <= Len(t) => KeyAt(t, lim, far, T, p, n) \in AnyTokens
  <2>1. \A r \in (p + 1)..Len(t) : T[r][n + 1] \in AnyTokens
    BY TagsTyped
  <2> HIDE DEF T
  <2> QED BY <2>1, KeyTyped
<1>2. <<>> \in AnyTokens
  BY DEF AnyTokens
<1>3. Then(t, <<>>, p, KeyAt(t, lim, far, T, p, n)) \in AnyTokens
  BY <1>1, <1>2, ThenIs
<1> QED BY <1>3, FarIs DEF ClientRest

\* So is the rest of spaces before a parameter.
LEMMA GapTyped ==
  ASSUME NEW t, Len(t) \in Nat, NEW lim, NEW f \in Nat, NEW p \in 1..(Len(t) + 1), NEW n \in Nat
  PROVE  GapRest(t, lim, f, p, n) \in AnyTokens
<1> DEFINE g == Spaces(t, p)
<1>1. g \in p..(Len(t) + 1)
  BY SpacesStep
<1>2. Then(t, One("Separator", f, g), g, Parameters(t, lim)[g][n]) \in AnyTokens
  <2> HIDE DEF g
  <2>1. g <= Len(t) => Parameters(t, lim)[g][n] \in AnyTokens
    BY <1>1, ParametersTyped
  <2>2. One("Separator", f, g) \in AnyTokens
    BY <1>1, OneToken DEF Types
  <2> QED BY <1>1, <2>1, <2>2, ThenIs
<1> QED BY <1>2 DEF GapRest

\* So is the rest of a command and of a parameter.
LEMMA WordTyped ==
  ASSUME NEW t, Len(t) \in Nat, NEW lim, NEW f \in Nat, NEW p \in 1..(Len(t) + 1), NEW n \in Nat
  PROVE  /\ CommandRest(t, lim, f, p) \in AnyTokens
         /\ MiddleRest(t, lim, f, p, n) \in AnyTokens
<1> DEFINE e == Span(t, p, {Space})
<1>1. e \in p..(Len(t) + 1)
  BY SpanIs
<1>2. \A k \in Nat : GapRest(t, lim, e, e, k) \in AnyTokens
  <2> HIDE DEF e
  <2> QED BY <1>1, GapTyped
<1>3. \A type \in Types, k \in Nat : Then(t, One(type, f, e), e, GapRest(t, lim, e, e, k)) \in AnyTokens
  <2> HIDE DEF e
  <2>1. \A type \in Types : One(type, f, e) \in AnyTokens
    BY <1>1, OneToken
  <2> QED BY <1>1, <1>2, <2>1, ThenIs
<1>4. {"Command", "MiddleParameter"} \subseteq Types
  BY DEF Types
<1> QED BY <1>3, <1>4 DEF CommandRest, MiddleRest

\* So is the rest in every mode.
LEMMA RestTyped ==
  ASSUME NEW t, Len(t) \in Nat, NEW lim, lim.tagData \in Nat, NEW mode \in Modes, NEW f \in Nat, NEW n \in Nat,
         NEW far \in Nat, NEW p \in 1..(Len(t) + 1)
  PROVE  Rest(t, lim, mode, f, n, far, p) \in AnyTokens
<1> DEFINE T == TagList(t, lim, far)
<1>1. \A r \in (p + 1)..Len(t) : T[r][n + 1] \in AnyTokens
  BY TagsTyped
<1>2. ToKeyEnds(t, lim, far, T, f, p, n) \in AnyTokens
  <2> HIDE DEF T
  <2> QED BY <1>1, ToKeyEndsTyped
<1>3. ValueEnds(t, lim, far, T, f, p, n) \in AnyTokens
  <2> HIDE DEF T
  <2> QED BY <1>1, ValueEndsTyped
<1>4. CASE mode \in {"lead", "tag", "client", "key", "value", "tagsGap"}
  BY <1>2, <1>3, <1>4, LeadTyped, TagRestTyped, ClientTyped, TagsGapTyped DEF Rest
<1>5. CASE mode \in {"name", "user", "host", "prefixGap"}
  BY <1>5, NameRestTyped, UserRestTyped, HostRestTyped, PrefixGapTyped DEF Rest
<1>6. CASE mode \in {"command", "gap", "middle", "trailing"}
  BY <1>6, WordTyped, GapTyped, TrailingTyped DEF Rest
<1> QED BY <1>4, <1>5, <1>6 DEF Modes

-----------------------------------------------------------------------------
(* What a byte is to the reference.                                         *)

\* An empty sequence of tokens adds nothing.
LEMMA Glue ==
  ASSUME NEW a \in AnyTokens
  PROVE  <<>> \o a = a /\ a \o <<>> = a /\ <<>> \in AnyTokens
<1> DEFINE S == Types \X Nat \X Nat
<1>1. AnyTokens = Seq(S)
  BY DEF AnyTokens
<1> HIDE DEF S
<1> QED BY <1>1, ConcatEmptySeq

\* Tokens and tokens are tokens.
LEMMA Joins ==
  ASSUME NEW a \in AnyTokens, NEW b \in AnyTokens
  PROVE  a \o b \in AnyTokens
<1> DEFINE S == Types \X Nat \X Nat
<1>1. AnyTokens = Seq(S)
  BY DEF AnyTokens
<1> HIDE DEF S
<1> QED BY <1>1

\* It does not matter in which order parts are put together.
LEMMA Regroups ==
  ASSUME NEW a \in AnyTokens, NEW b \in AnyTokens, NEW c \in AnyTokens
  PROVE  (a \o b) \o c = a \o (b \o c)
<1> DEFINE S == Types \X Nat \X Nat
<1>1. AnyTokens = Seq(S)
  BY DEF AnyTokens
<1> HIDE DEF S
<1> QED BY <1>1, ConcatAssociative

\* A marker at p, and what comes after it even if the line ends there.
LEMMA MarkOn ==
  ASSUME NEW t, Len(t) \in Nat, NEW p \in 1..Len(t), NEW k, NEW R, p = Len(t) => R = Eof(p + 1)
  PROVE  \A q : q = p + 1 => Then(t, k, q, R) = k \o R
<1> TAKE q
<1> HAVE q = p + 1
<1>1. Then(t, k, q, R) = k \o (IF q > Len(t) THEN Eof(q) ELSE R)
  BY DEF Then
<1>2. (IF q > Len(t) THEN Eof(q) ELSE R) = R
  OBVIOUS
<1> QED BY <1>1, <1>2

\* Before the end of the line, what follows follows.
LEMMA ThenIn ==
  ASSUME NEW t, Len(t) \in Nat, NEW p \in 1..Len(t), NEW tokens, NEW R
  PROVE  Then(t, tokens, p, R) = tokens \o R
<1>1. ~(p > Len(t))
  OBVIOUS
<1> QED BY <1>1 DEF Then

\* Spaces behind the prefix: one more, or the command.
LEMMA PrefixGapStep ==
  ASSUME NEW t, Len(t) \in Nat, NEW lim, NEW p \in 1..Len(t), NEW f
  PROVE  /\ t[p] = Space => PrefixGapRest(t, lim, f, p) = PrefixGapRest(t, lim, f, p + 1)
         /\ t[p] # Space => PrefixGapRest(t, lim, f, p) = One("Separator", f, p) \o CommandAt(t, lim, p)
<1>1. ASSUME t[p] = Space PROVE PrefixGapRest(t, lim, f, p) = PrefixGapRest(t, lim, f, p + 1)
  BY <1>1, SpacesStep DEF PrefixGapRest
<1>2. ASSUME t[p] # Space PROVE PrefixGapRest(t, lim, f, p) = One("Separator", f, p) \o CommandAt(t, lim, p)
  <2>1. Spaces(t, p) = p
    BY <1>2, SpacesStep
  <2>3. PrefixGapRest(t, lim, f, p) = Then(t, One("Separator", f, p), p, CommandAt(t, lim, p))
    BY <2>1 DEF PrefixGapRest
  <2> QED BY <2>3, ThenIn, Zenon
<1> QED BY <1>1, <1>2

\* A token that may be left out is, when it is empty.
LEMMA UnlessEmpty == ASSUME NEW type, NEW p \in Nat PROVE Unless(type, p, p) = <<>>
  BY DEF Unless

\* At the end of the line.
\* p is the position behind the line.
AtEnd(t, p) == p = Len(t) + 1

\* Behind the line there is nothing more to span.
LEMMA BehindLine ==
  ASSUME NEW t, Len(t) \in Nat, NEW p, AtEnd(t, p)
  PROVE  /\ Spaces(t, p) = p /\ \A S : Span(t, p, S) = p
         /\ \A k, R : Then(t, k, p, R) = k \o Eof(p)
<1>1. p > Len(t) /\ p = Len(t) + 1 /\ p \in 1..(Len(t) + 1)
  BY DEF AtEnd
<1>2. Spaces(t, p) = p /\ \A S : Span(t, p, S) = p
  BY <1>1, SpacesStep, SpanStep
<1>3. \A k, R : Then(t, k, p, R) = k \o Eof(p)
  BY <1>1 DEF Then
<1> QED BY <1>2, <1>3

\* A part that may be empty, at the end of the line.
EndsIn(type, f, p) == Unless(type, f, p) \o Eof(p)

\* The line ends in a host.
LEMMA HostEnd ==
  ASSUME NEW t, Len(t) \in Nat, NEW lim, NEW f, NEW p, AtEnd(t, p)
  PROVE  HostRest(t, lim, f, p) = EndsIn("PrefixHost", f, p)
<1> DEFINE R == PrefixGapRest(t, lim, p, p)
           k == Unless("PrefixHost", f, p)
<1>1. HostRest(t, lim, f, p) = Then(t, k, p, R)
  BY BehindLine DEF HostRest
<1> HIDE DEF R
<1> QED BY <1>1, BehindLine DEF EndsIn

\* The line ends in a user name.
LEMMA UserEnd ==
  ASSUME NEW t, Len(t) \in Nat, NEW lim, NEW f, NEW p, AtEnd(t, p)
  PROVE  UserRest(t, lim, f, p) = EndsIn("PrefixUser", f, p)
BY BehindLine DEF UserRest, EndsIn

\* The line ends in a name.
LEMMA NameEnd ==
  ASSUME NEW t, Len(t) \in Nat, NEW lim, NEW f, NEW p, AtEnd(t, p)
  PROVE  NameRest(t, lim, f, p) = EndsIn("PrefixName", f, p)
BY BehindLine DEF NameRest, EndsIn

\* The line ends behind the mark of a name, a user name or a host.
LEMMA EmptyEnd ==
  ASSUME NEW t, Len(t) \in Nat, NEW lim, NEW p, AtEnd(t, p)
  PROVE  /\ HostRest(t, lim, p, p) = Eof(p)
         /\ UserRest(t, lim, p, p) = Eof(p)
         /\ NameRest(t, lim, p, p) = Eof(p)
<1>1. p \in Nat /\ Eof(p) \in AnyTokens
  BY Simple DEF AtEnd
<1>2. \A type : Unless(type, p, p) \o Eof(p) = Eof(p)
  <2>1. \A type : Unless(type, p, p) = <<>>
    BY <1>1, UnlessEmpty
  <2>2. <<>> \o Eof(p) = Eof(p)
    BY <1>1, Glue
  <2> QED BY <2>1, <2>2, Zenon
<1>3. HostRest(t, lim, p, p) = Eof(p)
  <2>1. HostRest(t, lim, p, p) = EndsIn("PrefixHost", p, p)
    BY <1>1, HostEnd
  <2> QED BY <1>2, <2>1, Zenon DEF EndsIn
<1>4. UserRest(t, lim, p, p) = Eof(p)
  <2>1. UserRest(t, lim, p, p) = EndsIn("PrefixUser", p, p)
    BY <1>1, UserEnd
  <2> QED BY <1>2, <2>1, Zenon DEF EndsIn
<1>5. NameRest(t, lim, p, p) = Eof(p)
  <2>1. NameRest(t, lim, p, p) = EndsIn("PrefixName", p, p)
    BY <1>1, NameEnd
  <2> QED BY <1>2, <2>1, Zenon DEF EndsIn
<1> QED BY <1>3, <1>4, <1>5

\* One more byte of a host, or its end.
LEMMA HostStep ==
  ASSUME NEW t, Len(t) \in Nat, NEW lim, NEW p \in 1..Len(t), NEW f \in Nat
  PROVE  /\ t[p] # Space => HostRest(t, lim, f, p) = HostRest(t, lim, f, p + 1)
         /\ t[p] = Space => HostRest(t, lim, f, p) = Unless("PrefixHost", f, p) \o PrefixGapRest(t, lim, p, p + 1)
<1>1. ASSUME t[p] # Space PROVE HostRest(t, lim, f, p) = HostRest(t, lim, f, p + 1)
  <2>1. Span(t, p, {Space}) = Span(t, p + 1, {Space})
    BY <1>1, SpanStep
  <2> QED BY <2>1 DEF HostRest
<1>2. ASSUME t[p] = Space
      PROVE  HostRest(t, lim, f, p) = Unless("PrefixHost", f, p) \o PrefixGapRest(t, lim, p, p + 1)
  <2>1. Span(t, p, {Space}) = p
    BY <1>2, SpanStep
  <2>2. Unless("PrefixHost", f, p) \in AnyTokens
    BY Simple DEF Types
  <2>3. HostRest(t, lim, f, p) = Then(t, Unless("PrefixHost", f, p), p, PrefixGapRest(t, lim, p, p))
    BY <2>1 DEF HostRest
  <2>4. PrefixGapRest(t, lim, p, p) = PrefixGapRest(t, lim, p, p + 1)
    BY <1>2, PrefixGapStep, Zenon
  <2> QED BY <2>3, <2>4, ThenIn, Zenon
<1> QED BY <1>1, <1>2

\* A space or the mark of a host.
LEMMA HostAtStep ==
  ASSUME NEW t, Len(t) \in Nat, NEW lim, NEW p \in 1..Len(t)
  PROVE  /\ t[p] = Space => HostAt(t, lim, p) = PrefixGapRest(t, lim, p, p + 1)
         /\ t[p] = "@" => HostAt(t, lim, p) = One("PrefixHostStart", p, p + 1) \o HostRest(t, lim, p + 1, p + 1)
<1>1. ASSUME t[p] = Space PROVE HostAt(t, lim, p) = PrefixGapRest(t, lim, p, p + 1)
  <2>1. t[p] # "@"
    BY <1>1, BytesApart
  <2>2. PrefixGapRest(t, lim, p, p) = PrefixGapRest(t, lim, p, p + 1)
    BY <1>1, PrefixGapStep, Zenon
  <2> QED BY <2>1, <2>2, HostIs, Zenon
<1>2. ASSUME t[p] = "@"
      PROVE  HostAt(t, lim, p) = One("PrefixHostStart", p, p + 1) \o HostRest(t, lim, p + 1, p + 1)
  <2>1. p = Len(t) => HostRest(t, lim, p + 1, p + 1) = Eof(p + 1)
    <3> DEFINE e == p + 1
    <3>1. p = Len(t) => AtEnd(t, e)
      BY DEF AtEnd
    <3> HIDE DEF e
    <3>2. p = Len(t) => HostRest(t, lim, e, e) = Eof(e)
      BY <3>1, EmptyEnd
    <3> QED BY <3>2 DEF e
  <2> DEFINE k == One("PrefixHostStart", p, p + 1)
             R == HostRest(t, lim, p + 1, p + 1)
  <2>2. HostAt(t, lim, p) = Then(t, k, p + 1, R)
    BY <1>2, HostIs
  <2>4. p = Len(t) => R = Eof(p + 1)
    BY <2>1
  <2> HIDE DEF k, R
  <2>3. Then(t, k, p + 1, R) = k \o R
    BY <2>4, MarkOn, Zenon
  <2> QED BY <2>2, <2>3 DEF k, R
<1> QED BY <1>1, <1>2

\* One more byte of a user name.
LEMMA UserOn ==
  ASSUME NEW t, Len(t) \in Nat, NEW lim, NEW p \in 1..Len(t), NEW f, t[p] \notin UserStops
  PROVE  \A q : q = p + 1 => UserRest(t, lim, f, p) = UserRest(t, lim, f, q)
<1>1. Span(t, p, UserStops) = Span(t, p + 1, UserStops)
  BY SpanStep
<1> QED BY <1>1 DEF UserRest

\* The end of a user name.
LEMMA UserTo ==
  ASSUME NEW t, Len(t) \in Nat, NEW lim, NEW p \in 1..Len(t), NEW f, t[p] \in UserStops
  PROVE  UserRest(t, lim, f, p) = Unless("PrefixUser", f, p) \o HostAt(t, lim, p)
<1>1. Span(t, p, UserStops) = p
  BY SpanStep
<1>2. UserRest(t, lim, f, p) = Then(t, Unless("PrefixUser", f, p), p, HostAt(t, lim, p))
  BY <1>1 DEF UserRest
<1> QED BY <1>2, ThenIn, Zenon

\* One more byte of a name.
LEMMA NameOn ==
  ASSUME NEW t, Len(t) \in Nat, NEW lim, NEW p \in 1..Len(t), NEW f, t[p] \notin NameStops
  PROVE  \A q : q = p + 1 => NameRest(t, lim, f, p) = NameRest(t, lim, f, q)
<1>1. Span(t, p, NameStops) = Span(t, p + 1, NameStops)
  BY SpanStep
<1> QED BY <1>1 DEF NameRest

\* The end of a name.
LEMMA NameTo ==
  ASSUME NEW t, Len(t) \in Nat, NEW lim, NEW p \in 1..Len(t), NEW f, t[p] \in NameStops
  PROVE  NameRest(t, lim, f, p) = Unless("PrefixName", f, p) \o UserAt(t, lim, p)
<1>1. Span(t, p, NameStops) = p
  BY SpanStep
<1>2. NameRest(t, lim, f, p) = Then(t, Unless("PrefixName", f, p), p, UserAt(t, lim, p))
  BY <1>1 DEF NameRest
<1> QED BY <1>2, ThenIn, Zenon

\* No user name, or its mark.
LEMMA UserAtStep ==
  ASSUME NEW t, Len(t) \in Nat, NEW lim, NEW p \in 1..Len(t)
  PROVE  /\ t[p] = Space \/ t[p] = "@" => UserAt(t, lim, p) = HostAt(t, lim, p)
         /\ t[p] = "!" => UserAt(t, lim, p) = One("PrefixUserStart", p, p + 1) \o UserRest(t, lim, p + 1, p + 1)
<1>1. t[p] = Space \/ t[p] = "@" => UserAt(t, lim, p) = HostAt(t, lim, p)
  BY BytesApart, UserIs
<1>2. ASSUME t[p] = "!"
      PROVE  UserAt(t, lim, p) = One("PrefixUserStart", p, p + 1) \o UserRest(t, lim, p + 1, p + 1)
  <2>1. p = Len(t) => UserRest(t, lim, p + 1, p + 1) = Eof(p + 1)
    <3> DEFINE e == p + 1
    <3>1. p = Len(t) => AtEnd(t, e)
      BY DEF AtEnd
    <3> HIDE DEF e
    <3>2. p = Len(t) => UserRest(t, lim, e, e) = Eof(e)
      BY <3>1, EmptyEnd
    <3> QED BY <3>2 DEF e
  <2> DEFINE k == One("PrefixUserStart", p, p + 1)
             R == UserRest(t, lim, p + 1, p + 1)
  <2>2. UserAt(t, lim, p) = Then(t, k, p + 1, R)
    BY <1>2, UserIs
  <2>3. p = Len(t) => R = Eof(p + 1)
    BY <2>1
  <2> HIDE DEF k, R
  <2>4. Then(t, k, p + 1, R) = k \o R
    BY <2>3, MarkOn, Zenon
  <2> QED BY <2>2, <2>4 DEF k, R
<1> QED BY <1>1, <1>2

\* One more byte of a command, or its end.
LEMMA CommandStep ==
  ASSUME NEW t, Len(t) \in Nat, NEW lim, NEW p \in 1..Len(t), NEW f
  PROVE  /\ t[p] # Space => CommandRest(t, lim, f, p) = CommandRest(t, lim, f, p + 1)
         /\ t[p] = Space => CommandRest(t, lim, f, p) = One("Command", f, p) \o GapRest(t, lim, p, p + 1, 0)
<1>1. ASSUME t[p] # Space PROVE CommandRest(t, lim, f, p) = CommandRest(t, lim, f, p + 1)
  <2>1. Span(t, p, {Space}) = Span(t, p + 1, {Space})
    BY <1>1, SpanStep
  <2> QED BY <2>1 DEF CommandRest
<1>2. ASSUME t[p] = Space
      PROVE  CommandRest(t, lim, f, p) = One("Command", f, p) \o GapRest(t, lim, p, p + 1, 0)
  <2>1. Span(t, p, {Space}) = p /\ Spaces(t, p) = Spaces(t, p + 1)
    BY <1>2, SpanStep, SpacesStep
  <2>2. GapRest(t, lim, p, p, 0) = GapRest(t, lim, p, p + 1, 0)
    BY <2>1 DEF GapRest
  <2>3. CommandRest(t, lim, f, p) = Then(t, One("Command", f, p), p, GapRest(t, lim, p, p, 0))
    BY <2>1 DEF CommandRest
  <2> QED BY <2>2, <2>3, ThenIn, Zenon
<1> QED BY <1>1, <1>2

\* One more byte of a parameter.
LEMMA MiddleOn ==
  ASSUME NEW t, Len(t) \in Nat, NEW lim, NEW p \in 1..Len(t), NEW f, NEW n, t[p] # Space
  PROVE  \A q : q = p + 1 => MiddleRest(t, lim, f, p, n) = MiddleRest(t, lim, f, q, n)
<1>1. Span(t, p, {Space}) = Span(t, p + 1, {Space})
  BY SpanStep
<1> QED BY <1>1 DEF MiddleRest

\* The end of a parameter.
LEMMA MiddleTo ==
  ASSUME NEW t, Len(t) \in Nat, NEW lim, NEW p \in 1..Len(t), NEW f, NEW n, t[p] = Space
  PROVE  \A q : q = p + 1 =>
           MiddleRest(t, lim, f, p, n) = One("MiddleParameter", f, p) \o GapRest(t, lim, p, q, n)
<1> SUFFICES ASSUME NEW q, q = p + 1
             PROVE  MiddleRest(t, lim, f, p, n) = One("MiddleParameter", f, p) \o GapRest(t, lim, p, q, n)
  OBVIOUS
<1>1. Span(t, p, {Space}) = p /\ Spaces(t, p) = Spaces(t, p + 1)
  BY SpanStep, SpacesStep
<1>2. GapRest(t, lim, p, p, n) = GapRest(t, lim, p, q, n)
  BY <1>1 DEF GapRest
<1>3. MiddleRest(t, lim, f, p, n) = Then(t, One("MiddleParameter", f, p), p, GapRest(t, lim, p, p, n))
  BY <1>1 DEF MiddleRest
<1> QED BY <1>2, <1>3, ThenIn, Zenon

\* A command that has just begun.
LEMMA CommandIs ==
  ASSUME NEW t, Len(t) \in Nat, NEW lim, NEW p \in 1..Len(t)
  PROVE  t[p] # Space => CommandAt(t, lim, p) = CommandRest(t, lim, p, p + 1)
<1>1. CommandAt(t, lim, p) = CommandRest(t, lim, p, p)
  BY DEF CommandAt, CommandRest, GapRest
<1> QED BY <1>1, CommandStep

\* One more space before a parameter.
LEMMA GapOn ==
  ASSUME NEW t, Len(t) \in Nat, NEW lim, NEW p \in 1..Len(t), NEW f, NEW n, t[p] = Space
  PROVE  \A q : q = p + 1 => GapRest(t, lim, f, p, n) = GapRest(t, lim, f, q, n)
BY SpacesStep DEF GapRest

\* The last of them.
LEMMA GapTo ==
  ASSUME NEW t, Len(t) \in Nat, NEW lim, NEW p \in 1..Len(t), NEW f, NEW n, t[p] # Space
  PROVE  GapRest(t, lim, f, p, n) = One("Separator", f, p) \o Parameters(t, lim)[p][n]
<1>1. Spaces(t, p) = p
  BY SpacesStep
<1>2. GapRest(t, lim, f, p, n) = Then(t, One("Separator", f, p), p, Parameters(t, lim)[p][n])
  BY <1>1 DEF GapRest
<1> QED BY <1>2, ThenIn, Zenon

\* The first byte of a parameter: one too many, a trailing one, or one in the middle.
LEMMA ParameterStep ==
  ASSUME NEW t, Len(t) \in Nat, NEW lim, NEW p \in 1..Len(t), NEW n \in Nat, t[p] # Space
  PROVE  Parameters(t, lim)[p][n] =
           IF n >= lim.params THEN Throw("paramCountLimit", p)
           ELSE IF t[p] = ":" THEN One("TrailingParameterStart", p, p + 1) \o Trailing(t, p + 1)
           ELSE MiddleRest(t, lim, p, p + 1, n + 1)
<1> DEFINE P == Parameters(t, lim)
<1>3. P[p][n] = ParameterAt(t, lim, P, p, n)
  BY ParametersAre
<1>4. MiddleRest(t, lim, p, p, n + 1) =
        LET e == Span(t, p, {Space})
            g == Spaces(t, e)
        IN  Then(t, One("MiddleParameter", p, e), e, Then(t, One("Separator", e, g), g, P[g][n + 1]))
  BY DEF MiddleRest, GapRest
<1> HIDE DEF P
<1>6. P[p][n] = IF n >= lim.params THEN Throw("paramCountLimit", p)
                ELSE IF t[p] = ":" THEN One("TrailingParameterStart", p, p + 1) \o Trailing(t, p + 1)
                ELSE MiddleRest(t, lim, p, p, n + 1)
  BY <1>3, <1>4 DEF ParameterAt
<1>7. MiddleRest(t, lim, p, p, n + 1) = MiddleRest(t, lim, p, p + 1, n + 1)
  <2> DEFINE m == n + 1
             q == p + 1
  <2>1. q = p + 1
    OBVIOUS
  <2> HIDE DEF m, q
  <2>2. MiddleRest(t, lim, p, p, m) = MiddleRest(t, lim, p, q, m)
    BY <2>1, MiddleOn
  <2> QED BY <2>2 DEF m, q
<1>8. P[p][n] = IF n >= lim.params THEN Throw("paramCountLimit", p)
                ELSE IF t[p] = ":" THEN One("TrailingParameterStart", p, p + 1) \o Trailing(t, p + 1)
                ELSE MiddleRest(t, lim, p, p + 1, n + 1)
  BY <1>6, <1>7
<1> QED BY <1>8 DEF P

\* The first byte of the portion of RFC 1459.
LEMMA RfcStep ==
  ASSUME NEW t, Len(t) \in Nat, NEW lim, NEW p \in 1..Len(t), t[p] # Space
  PROVE  Rfc1459(t, lim, p) =
           IF Len(t) + 1 - p > lim.rfc1459Data THEN Throw("rfc1459DataLimit", p)
           ELSE IF t[p] = ":" THEN One("PrefixStart", p, p + 1) \o NameRest(t, lim, p + 1, p + 1)
           ELSE CommandRest(t, lim, p, p + 1)
<1> DEFINE k == One("PrefixStart", p, p + 1)
           q == p + 1
           R == NameRest(t, lim, q, q)
<1>1. Rfc1459(t, lim, p) =
        IF Len(t) + 1 - p > lim.rfc1459Data THEN Throw("rfc1459DataLimit", p)
        ELSE IF t[p] # ":" THEN CommandAt(t, lim, p) ELSE Then(t, k, q, R)
  BY RfcIs
<1>2. CommandAt(t, lim, p) = CommandRest(t, lim, p, q)
  BY CommandIs
<1>3. p = Len(t) => R = Eof(q)
  <2>1. p = Len(t) => AtEnd(t, q)
    BY DEF AtEnd
  <2> HIDE DEF q
  <2> QED BY <2>1, EmptyEnd
<1>4. q = p + 1
  OBVIOUS
<1> HIDE DEF k, q, R
<1>5. Then(t, k, q, R) = k \o R
  BY <1>3, <1>4, MarkOn, ZenonT(60)
<1> QED BY <1>1, <1>2, <1>5 DEF k, q, R

\* One more leading space, or the first byte that is none.
LEMMA LeadStep ==
  ASSUME NEW t, Len(t) \in Nat, NEW lim, lim.tagData \in Nat, NEW p \in 1..Len(t)
  PROVE  /\ t[p] = Space => LeadRest(t, lim, p) = LeadRest(t, lim, p + 1)
         /\ t[p] # Space =>
              LeadRest(t, lim, p) =
                IF t[p] # "@" THEN Rfc1459(t, lim, p)
                ELSE IF lim.tagData = 0 THEN Throw("tagDataLimit", p)
                ELSE One("TagsStart", p, p + 1) \o TagRest(t, lim, p + lim.tagData, p + 1, 0)
<1>1. ASSUME t[p] = Space PROVE LeadRest(t, lim, p) = LeadRest(t, lim, p + 1)
  <2>1. Spaces(t, p) = Spaces(t, p + 1)
    BY <1>1, SpacesStep
  <2> QED BY <2>1 DEF LeadRest
<1>2. ASSUME t[p] # Space
      PROVE  LeadRest(t, lim, p) =
                IF t[p] # "@" THEN Rfc1459(t, lim, p)
                ELSE IF lim.tagData = 0 THEN Throw("tagDataLimit", p)
                ELSE One("TagsStart", p, p + 1) \o TagRest(t, lim, p + lim.tagData, p + 1, 0)
  <2>1. Spaces(t, p) = p /\ ~(p > Len(t))
    BY <1>2, SpacesStep
  <2> DEFINE k   == One("TagsStart", p, p + 1)
             q   == p + 1
             far == p + lim.tagData
             R   == TagRest(t, lim, far, q, 0)
             Q   == TagList(t, lim, far)[q][0]
  <2>2. LeadRest(t, lim, p) =
          IF t[p] # "@" THEN Rfc1459(t, lim, p)
          ELSE IF lim.tagData = 0 THEN Throw("tagDataLimit", p)
          ELSE Then(t, k, q, Q)
    BY <2>1 DEF LeadRest
  <2>3. q = p + 1 /\ far \in Nat /\ (lim.tagData # 0 => ~(q > far))
    OBVIOUS
  <2>4. ASSUME lim.tagData # 0 PROVE Then(t, k, q, Q) = k \o R
    <3> HIDE DEF k, q, far
    <3>1. q <= Len(t) => Q \in AnyTokens
      BY <2>3, TagsTyped
    <3>2. R = Then(t, <<>>, q, Far(far, q, Q))
      BY DEF TagRest
    <3> HIDE DEF R, Q
    <3>3. R = <<>> \o (IF q > Len(t) THEN Eof(q) ELSE Q)
      BY <2>3, <2>4, <3>2 DEF Then, Far
    <3>4. (IF q > Len(t) THEN Eof(q) ELSE Q) \in AnyTokens
      BY <2>3, <3>1, Simple
    <3>5. R = (IF q > Len(t) THEN Eof(q) ELSE Q)
      BY <3>3, <3>4, Glue
    <3> QED BY <3>5 DEF Then
  <2> HIDE DEF k, q, far, R, Q
  <2> QED BY <2>2, <2>4 DEF k, q, far, R
<1> QED BY <1>1, <1>2

\* The byte behind a tag: the end of the tags, or of this one.
LEMMA TagEndsStep ==
  ASSUME NEW t, Len(t) \in Nat, NEW lim, NEW far \in Nat, NEW n \in Nat, NEW p \in 1..Len(t)
  PROVE  TagEnds(t, lim, far, TagList(t, lim, far), p, n) =
           IF t[p] = Space THEN TagsGapRest(t, lim, far, p, p + 1)
           ELSE One("TagSeparator", p, p + 1) \o TagRest(t, lim, far, p + 1, n + 1)
<1> DEFINE T == TagList(t, lim, far)
           k == One("TagSeparator", p, p + 1)
           q == p + 1
           m == n + 1
           Q == Far(far, q, T[q][m])
           R == TagRest(t, lim, far, q, m)
<1>1. TagEnds(t, lim, far, T, p, n) = IF t[p] = Space THEN TagsGapRest(t, lim, far, p, p) ELSE Then(t, k, q, Q)
  BY TagsEndIs DEF TagEnds
<1>2. ASSUME t[p] = Space PROVE TagsGapRest(t, lim, far, p, p) = TagsGapRest(t, lim, far, p, q)
  <2>1. Spaces(t, p) = Spaces(t, p + 1)
    BY <1>2, SpacesStep
  <2> QED BY <2>1 DEF TagsGapRest
<1>3. q = p + 1 /\ m \in Nat
  OBVIOUS
<1>4. Then(t, k, q, Q) = k \o R
  <2> HIDE DEF k, q, m
  <2>1. q <= Len(t) => T[q][m] \in AnyTokens
    BY <1>3, TagsTyped
  <2>2. q <= Len(t) => Q \in AnyTokens
    BY <1>3, <2>1, FarIs
  <2>3. R = Then(t, <<>>, q, Q)
    BY DEF TagRest
  <2> HIDE DEF R, Q
  <2>4. R = <<>> \o (IF q > Len(t) THEN Eof(q) ELSE Q)
    BY <2>3 DEF Then
  <2>5. (IF q > Len(t) THEN Eof(q) ELSE Q) \in AnyTokens
    BY <1>3, <2>2, Simple
  <2>6. R = (IF q > Len(t) THEN Eof(q) ELSE Q)
    BY <2>4, <2>5, Glue
  <2> QED BY <2>6 DEF Then
<1> HIDE DEF T, k, q, m, Q, R
<1> QED BY <1>1, <1>2, <1>4 DEF T, k, q, m, R

\* What lies behind the tags' last byte is one error, wherever it begins.
LEMMA FarAbsorbs ==
  ASSUME NEW t, Len(t) \in Nat, NEW lim, NEW far \in Nat, NEW f, NEW b, NEW n, NEW q \in 1..(Len(t) + 1)
  PROVE  /\ Far(far, q, ValueEnds(t, lim, far, f, b, q, n)) = ValueEnds(t, lim, far, f, b, q, n)
         /\ q > far => /\ ValueEnds(t, lim, far, f, b, q, n) = Throw("tagDataLimit", far + 1)
                       /\ ToKeyEnds(t, lim, far, f, b, q, n) = Throw("tagDataLimit", far + 1)
<1> DEFINE V == ValueEnds(t, lim, far, f, b, q, n)
           K == ToKeyEnds(t, lim, far, f, b, q, n)
           F == Throw("tagDataLimit", far + 1)
<1>1. q > far => V = F
  <2> DEFINE e == Span(t, q, ValueStops)
             Q == Then(t, One("TagValue", b, e), e, TagEnds(t, lim, far, f, e, n))
  <2>1. e \in q..(Len(t) + 1)
    BY SpanIs
  <2>2. V = Far(far, e, Q)
    BY DEF ValueEnds
  <2> HIDE DEF e, Q, V
  <2> QED BY <2>1, <2>2 DEF Far
<1>2. q > far => K = F
  <2> DEFINE e == Span(t, q, KeyStops)
             Q == Then(t, One("TagKey", b, e), e, KeyEnds(t, lim, far, f, e, n))
  <2>1. e \in q..(Len(t) + 1)
    BY SpanIs
  <2>2. K = Far(far, e, Q)
    BY DEF ToKeyEnds
  <2> HIDE DEF e, Q, K
  <2> QED BY <2>1, <2>2 DEF Far
<1> HIDE DEF V, K, F
<1>3. Far(far, q, V) = V
  BY <1>1 DEF Far, F
<1> QED BY <1>1, <1>2, <1>3 DEF V, K, F

\* The byte behind a key.
LEMMA KeyEndsStep ==
  ASSUME NEW t, Len(t) \in Nat, NEW lim, NEW far \in Nat, NEW n \in Nat, NEW p \in 1..Len(t)
  PROVE  KeyEnds(t, lim, far, TagList(t, lim, far), p, n) =
           IF t[p] = "=" THEN One("TagValueStart", p, p + 1)
                                \o ValueEnds(t, lim, far, TagList(t, lim, far), p + 1, p + 1, n)
           ELSE IF t[p] = Space THEN TagsGapRest(t, lim, far, p, p + 1)
           ELSE One("TagSeparator", p, p + 1) \o TagRest(t, lim, far, p + 1, n + 1)
<1> DEFINE T == TagList(t, lim, far)
           k == One("TagValueStart", p, p + 1)
           q == p + 1
           V == ValueEnds(t, lim, far, T, q, q, n)
           E == TagEnds(t, lim, far, T, p, n)
<1>1. KeyEnds(t, lim, far, T, p, n) = IF t[p] = "=" THEN k \o Far(far, q, ValueAt(t, lim, far, T, q, n)) ELSE E
  BY DEF KeyEnds
<1>2. ValueAt(t, lim, far, T, q, n) = V
  BY ValueIs
<1>3. q \in 1..(Len(t) + 1)
  OBVIOUS
<1>4. Far(far, q, V) = V
  <2> HIDE DEF q, T
  <2> QED BY <1>3, FarAbsorbs
<1>5. E = IF t[p] = Space THEN TagsGapRest(t, lim, far, p, p + 1)
          ELSE One("TagSeparator", p, p + 1) \o TagRest(t, lim, far, p + 1, n + 1)
  BY TagEndsStep
<1> DEFINE X == IF t[p] = Space THEN TagsGapRest(t, lim, far, p, p + 1)
                ELSE One("TagSeparator", p, p + 1) \o TagRest(t, lim, far, p + 1, n + 1)
<1> HIDE DEF T, k, q, V, E
<1>6. KeyEnds(t, lim, far, T, p, n) = IF t[p] = "=" THEN k \o V ELSE X
  BY <1>1, <1>2, <1>4, <1>5
<1> QED BY <1>6 DEF T, k, q, V

\* One more byte of a value, or its end.
LEMMA ValueStep ==
  ASSUME NEW t, Len(t) \in Nat, NEW lim, NEW far \in Nat, NEW b, NEW n \in Nat, NEW p \in 1..Len(t), p <= far
  PROVE  LET T == TagList(t, lim, far)
         IN  ValueEnds(t, lim, far, T, b, p, n) =
               IF t[p] \notin ValueStops THEN ValueEnds(t, lim, far, T, b, p + 1, n)
               ELSE One("TagValue", b, p) \o TagEnds(t, lim, far, T, p, n)
<1> DEFINE T == TagList(t, lim, far)
           E == TagEnds(t, lim, far, T, p, n)
           k == One("TagValue", b, p)
<1>2. ASSUME t[p] \notin ValueStops PROVE ValueEnds(t, lim, far, T, b, p, n) = ValueEnds(t, lim, far, T, b, p + 1, n)
  <2>1. Span(t, p, ValueStops) = Span(t, p + 1, ValueStops)
    BY <1>2, SpanStep
  <2> HIDE DEF T
  <2> QED BY <2>1 DEF ValueEnds
<1>3. ASSUME t[p] \in ValueStops PROVE ValueEnds(t, lim, far, T, b, p, n) = k \o E
  <2>1. Span(t, p, ValueStops) = p /\ ~(p > far)
    BY <1>3, SpanStep
  <2> HIDE DEF T
  <2>2. ValueEnds(t, lim, far, T, b, p, n) = Far(far, p, Then(t, k, p, E))
    BY <2>1 DEF ValueEnds
  <2> HIDE DEF E, k
  <2>3. Far(far, p, Then(t, k, p, E)) = Then(t, k, p, E)
    BY <2>1 DEF Far
  <2> QED BY <2>2, <2>3, ThenIn
<1>4. ValueEnds(t, lim, far, T, b, p, n) = IF t[p] \notin ValueStops THEN ValueEnds(t, lim, far, T, b, p + 1, n)
                                           ELSE k \o E
  <2> HIDE DEF T, E, k
  <2> QED BY <1>2, <1>3
<1> QED BY <1>4

KeyGoesOn(t, lim, far, T, b, p, n) ==
  ToKeyEnds(t, lim, far, T, b, p, n) =
    IF t[p] \notin KeyStops THEN ToKeyEnds(t, lim, far, T, b, p + 1, n)
    ELSE One("TagKey", b, p) \o KeyEnds(t, lim, far, T, p, n)

\* One more byte of a key, or its end.
LEMMA KeyStep ==
  ASSUME NEW t, Len(t) \in Nat, NEW lim, NEW far \in Nat, NEW T, NEW b, NEW n \in Nat,
         NEW p \in 1..Len(t), p <= far
  PROVE  KeyGoesOn(t, lim, far, T, b, p, n)
<1> DEFINE E == KeyEnds(t, lim, far, T, p, n)
           k == One("TagKey", b, p)
<1>2. ASSUME t[p] \notin KeyStops PROVE ToKeyEnds(t, lim, far, T, b, p, n) = ToKeyEnds(t, lim, far, T, b, p + 1, n)
  <2>1. Span(t, p, KeyStops) = Span(t, p + 1, KeyStops)
    BY <1>2, SpanStep
  <2> QED BY <2>1 DEF ToKeyEnds
<1>3. ASSUME t[p] \in KeyStops PROVE ToKeyEnds(t, lim, far, T, b, p, n) = k \o E
  <2>1. Span(t, p, KeyStops) = p /\ ~(p > far)
    BY <1>3, SpanStep
  <2>2. ToKeyEnds(t, lim, far, T, b, p, n) = Far(far, p, Then(t, k, p, E))
    BY <2>1 DEF ToKeyEnds
  <2> HIDE DEF E, k
  <2>3. Far(far, p, Then(t, k, p, E)) = Then(t, k, p, E)
    BY <2>1 DEF Far
  <2> QED BY <2>2, <2>3, ThenIn
<1>4. ToKeyEnds(t, lim, far, T, b, p, n) = IF t[p] \notin KeyStops THEN ToKeyEnds(t, lim, far, T, b, p + 1, n)
                                           ELSE k \o E
  <2> HIDE DEF E, k
  <2> QED BY <1>2, <1>3
<1> QED BY <1>4, Zenon DEF KeyGoesOn

\* The first byte of a key, if it has one.
LEMMA KeyAtStep ==
  ASSUME NEW t, Len(t) \in Nat, NEW lim, NEW far \in Nat, NEW n \in Nat, NEW p \in 1..Len(t), p <= far
  PROVE  LET T == TagList(t, lim, far)
         IN  KeyAt(t, lim, far, T, p, n) =
               IF t[p] \in KeyStops THEN KeyEnds(t, lim, far, T, p, n)
               ELSE ToKeyEnds(t, lim, far, T, p, p + 1, n)
<1> DEFINE T == TagList(t, lim, far)
           E == KeyEnds(t, lim, far, T, p, n)
           K == ToKeyEnds(t, lim, far, T, p, p + 1, n)
<1>1. KeyAt(t, lim, far, T, p, n) = IF t[p] \in KeyStops THEN E ELSE ToKeyEnds(t, lim, far, T, p, p, n)
  <2> HIDE DEF T
  <2> QED BY KeyIs
<1>2. ToKeyEnds(t, lim, far, T, p, p, n) = IF t[p] \notin KeyStops THEN K ELSE One("TagKey", p, p) \o E
  <2> HIDE DEF T
  <2>1. KeyGoesOn(t, lim, far, T, p, p, n)
    BY KeyStep
  <2> QED BY <2>1, Zenon DEF KeyGoesOn
<1>3. KeyAt(t, lim, far, T, p, n) = IF t[p] \in KeyStops THEN E ELSE K
  <2> HIDE DEF T, E, K
  <2> QED BY <1>1, <1>2
<1> QED BY <1>3

\* Nothing between two parts of the tags.
LEMMA JustThen ==
  ASSUME NEW t, Len(t) \in Nat, NEW p \in 1..Len(t), NEW R \in AnyTokens
  PROVE  Then(t, <<>>, p, R) = R
<1>1. Then(t, <<>>, p, R) = <<>> \o R
  BY ThenIn
<1> QED BY <1>1, Glue

\* The byte behind the mark of a client's tag.
LEMMA ClientStep ==
  ASSUME NEW t, Len(t) \in Nat, NEW lim, NEW far \in Nat, NEW n \in Nat, NEW p \in 1..Len(t)
  PROVE  LET T == TagList(t, lim, far)
         IN  ClientRest(t, lim, far, p, n) =
               IF p > far THEN Throw("tagDataLimit", far + 1)
               ELSE IF t[p] \in KeyStops THEN KeyEnds(t, lim, far, T, p, n)
               ELSE ToKeyEnds(t, lim, far, T, p, p + 1, n)
<1> DEFINE T == TagList(t, lim, far)
           A == KeyAt(t, lim, far, T, p, n)
           E == KeyEnds(t, lim, far, T, p, n)
           K == ToKeyEnds(t, lim, far, T, p, p + 1, n)
<1>1. ClientRest(t, lim, far, p, n) = Far(far, p, Then(t, <<>>, p, A))
  BY DEF ClientRest
<1>2. A \in AnyTokens
  <2>1. \A r \in (p + 1)..Len(t) : T[r][n + 1] \in AnyTokens
    BY TagsTyped
  <2> HIDE DEF T
  <2> QED BY <2>1, KeyTyped
<1>3. p <= far => A = IF t[p] \in KeyStops THEN E ELSE K
  BY KeyAtStep
<1> HIDE DEF A
<1>4. Then(t, <<>>, p, A) = A
  BY <1>2, JustThen
<1>5. ClientRest(t, lim, far, p, n) = IF p > far THEN Throw("tagDataLimit", far + 1) ELSE A
  BY <1>1, <1>4 DEF Far
<1> HIDE DEF T, E, K
<1>6. ClientRest(t, lim, far, p, n) = IF p > far THEN Throw("tagDataLimit", far + 1)
                                      ELSE IF t[p] \in KeyStops THEN E ELSE K
  BY <1>3, <1>5
<1> QED BY <1>6 DEF T, E, K

\* The first byte of a tag.
LEMMA TagStep ==
  ASSUME NEW t, Len(t) \in Nat, NEW lim, NEW far \in Nat, NEW n \in Nat, NEW p \in 1..Len(t)
  PROVE  LET T == TagList(t, lim, far)
         IN  TagRest(t, lim, far, p, n) =
               IF p > far THEN Throw("tagDataLimit", far + 1)
               ELSE IF n >= lim.tagCount THEN Throw("tagCountLimit", p)
               ELSE IF t[p] = "+" THEN One("TagClientKeyStart", p, p + 1) \o ClientRest(t, lim, far, p + 1, n)
               ELSE IF t[p] \in KeyStops THEN KeyEnds(t, lim, far, T, p, n)
               ELSE ToKeyEnds(t, lim, far, T, p, p + 1, n)
<1> DEFINE T == TagList(t, lim, far)
           A == KeyAt(t, lim, far, T, p, n)
           E == KeyEnds(t, lim, far, T, p, n)
           K == ToKeyEnds(t, lim, far, T, p, p + 1, n)
           C == One("TagClientKeyStart", p, p + 1) \o ClientRest(t, lim, far, p + 1, n)
           X == T[p][n]
<1>1. TagRest(t, lim, far, p, n) = Then(t, <<>>, p, Far(far, p, X))
  BY DEF TagRest
<1>2. X = IF n >= lim.tagCount THEN Throw("tagCountLimit", p) ELSE IF t[p] = "+" THEN C ELSE A
  <2>1. X = TagAt(t, lim, far, T, p, n)
    BY TagsAre
  <2>2. C = One("TagClientKeyStart", p, p + 1)
              \o Far(far, p + 1, Then(t, <<>>, p + 1, KeyAt(t, lim, far, T, p + 1, n)))
    BY DEF ClientRest
  <2> HIDE DEF T, X, C
  <2> QED BY <2>1, <2>2 DEF TagAt
<1>3. p <= far => A = IF t[p] \in KeyStops THEN E ELSE K
  BY KeyAtStep
<1>4. Far(far, p, X) \in AnyTokens
  BY TagsTyped, FarIs
<1> HIDE DEF X
<1>5. TagRest(t, lim, far, p, n) = Far(far, p, X)
  BY <1>1, <1>4, JustThen
<1>6. TagRest(t, lim, far, p, n) = IF p > far THEN Throw("tagDataLimit", far + 1) ELSE X
  BY <1>5 DEF Far
<1> HIDE DEF T, A, E, K, C
<1>7. TagRest(t, lim, far, p, n) =
        IF p > far THEN Throw("tagDataLimit", far + 1)
        ELSE IF n >= lim.tagCount THEN Throw("tagCountLimit", p)
        ELSE IF t[p] = "+" THEN C ELSE IF t[p] \in KeyStops THEN E ELSE K
  BY <1>2, <1>3, <1>6
<1> QED BY <1>7 DEF T, E, K, C

-----------------------------------------------------------------------------
(* The end of the line.                                                     *)

\* p is at most the first position of the tags that is too far.
Near(far, p) == p <= far + 1

\* The ends of the tags.
LEMMA FarEnd ==
  ASSUME NEW t, Len(t) \in Nat, NEW far \in Nat, NEW p \in Nat, AtEnd(t, p), Near(far, p), NEW R
  PROVE  Far(far, p, R) = IF p > far THEN Throw("tagDataLimit", p) ELSE R
<1>1. p > far => p = far + 1
  BY DEF Near
<1> QED BY <1>1 DEF Far

\* The line ends where a tag might begin.
LEMMA TagEnd ==
  ASSUME NEW t, Len(t) \in Nat, NEW lim, NEW far, NEW n, NEW p, AtEnd(t, p)
  PROVE  TagRest(t, lim, far, p, n) = Eof(p)
<1>1. <<>> \o Eof(p) = Eof(p)
  BY Simple, Glue DEF AtEnd
<1>2. \A k, R : Then(t, k, p, R) = k \o Eof(p)
  BY BehindLine
<1> QED BY <1>1, <1>2 DEF TagRest

\* The line ends behind the mark of a client's tag.
LEMMA ClientEnd ==
  ASSUME NEW t, Len(t) \in Nat, NEW lim, NEW far \in Nat, NEW n, NEW p \in Nat, AtEnd(t, p), Near(far, p)
  PROVE  ClientRest(t, lim, far, p, n) = IF p > far THEN Throw("tagDataLimit", p) ELSE Eof(p)
<1>1. <<>> \o Eof(p) = Eof(p)
  BY Simple, Glue DEF AtEnd
<1>2. \A k, R : Then(t, k, p, R) = k \o Eof(p)
  BY BehindLine
<1>3. \A R : Far(far, p, R) = IF p > far THEN Throw("tagDataLimit", p) ELSE R
  BY FarEnd
<1> QED BY <1>1, <1>2, <1>3 DEF ClientRest

\* A last token, and the end of the line.
Ends(type, f, p) == One(type, f, p) \o Eof(p)

\* The line ends in a key.
LEMMA KeyEnd ==
  ASSUME NEW t, Len(t) \in Nat, NEW lim, NEW far \in Nat, NEW T, NEW n, NEW f, NEW p \in Nat, AtEnd(t, p), Near(far, p)
  PROVE  ToKeyEnds(t, lim, far, T, f, p, n) =
           IF p > far THEN Throw("tagDataLimit", p) ELSE Ends("TagKey", f, p)
<1> DEFINE k == One("TagKey", f, p)
           Q == KeyEnds(t, lim, far, T, p, n)
<1>1. ToKeyEnds(t, lim, far, T, f, p, n) = Far(far, p, Then(t, k, p, Q))
  BY BehindLine DEF ToKeyEnds
<1> HIDE DEF k, Q
<1>2. Then(t, k, p, Q) = k \o Eof(p)
  BY BehindLine
<1>3. ToKeyEnds(t, lim, far, T, f, p, n) = IF p > far THEN Throw("tagDataLimit", p) ELSE k \o Eof(p)
  <2>1. \A R : Far(far, p, R) = IF p > far THEN Throw("tagDataLimit", p) ELSE R
    BY FarEnd
  <2> QED BY <1>1, <1>2, <2>1
<1> QED BY <1>3, Zenon DEF k, Ends

\* The line ends in a value.
LEMMA ValueEnd ==
  ASSUME NEW t, Len(t) \in Nat, NEW lim, NEW far \in Nat, NEW T, NEW n, NEW f, NEW p \in Nat, AtEnd(t, p), Near(far, p)
  PROVE  ValueEnds(t, lim, far, T, f, p, n) =
           IF p > far THEN Throw("tagDataLimit", p) ELSE Ends("TagValue", f, p)
<1> DEFINE k == One("TagValue", f, p)
           Q == TagEnds(t, lim, far, T, p, n)
<1>1. ValueEnds(t, lim, far, T, f, p, n) = Far(far, p, Then(t, k, p, Q))
  BY BehindLine DEF ValueEnds
<1> HIDE DEF k, Q
<1>2. Then(t, k, p, Q) = k \o Eof(p)
  BY BehindLine
<1>3. ValueEnds(t, lim, far, T, f, p, n) = IF p > far THEN Throw("tagDataLimit", p) ELSE k \o Eof(p)
  <2>1. \A R : Far(far, p, R) = IF p > far THEN Throw("tagDataLimit", p) ELSE R
    BY FarEnd
  <2> QED BY <1>1, <1>2, <2>1
<1> QED BY <1>3, Zenon DEF k, Ends

\* The line ends in the spaces behind the tags.
LEMMA TagsGapEnd ==
  ASSUME NEW t, Len(t) \in Nat, NEW lim, NEW far \in Nat, NEW f, NEW p \in Nat, AtEnd(t, p), Near(far, p)
  PROVE  TagsGapRest(t, lim, far, f, p) = Ends("Separator", f, p)
<1>1. ~(far + 1 <= Len(t))
  BY DEF AtEnd, Near
<1> QED BY <1>1, BehindLine DEF TagsGapRest, Ends

\* The line ends in the spaces behind the prefix.
LEMMA PrefixGapEnd ==
  ASSUME NEW t, Len(t) \in Nat, NEW lim, NEW f, NEW p, AtEnd(t, p)
  PROVE  PrefixGapRest(t, lim, f, p) = Ends("Separator", f, p)
BY BehindLine DEF PrefixGapRest, Ends

\* The line ends in the command.
LEMMA CommandEnd ==
  ASSUME NEW t, Len(t) \in Nat, NEW lim, NEW f, NEW p, AtEnd(t, p)
  PROVE  CommandRest(t, lim, f, p) = Ends("Command", f, p)
BY BehindLine DEF CommandRest, Ends

\* The line ends in spaces before a parameter.
LEMMA GapEnd ==
  ASSUME NEW t, Len(t) \in Nat, NEW lim, NEW n, NEW f, NEW p, AtEnd(t, p)
  PROVE  GapRest(t, lim, f, p, n) = Ends("Separator", f, p)
BY BehindLine DEF GapRest, Ends

\* The line ends in a parameter.
LEMMA MiddleEnd ==
  ASSUME NEW t, Len(t) \in Nat, NEW lim, NEW n, NEW f, NEW p, AtEnd(t, p)
  PROVE  MiddleRest(t, lim, f, p, n) = Ends("MiddleParameter", f, p)
BY BehindLine DEF MiddleRest, Ends

\* The line ends in a trailing parameter.
LEMMA TrailingEnd ==
  ASSUME NEW t, NEW f, NEW p, AtEnd(t, p)
  PROVE  Trailing(t, f) = Ends("TrailingParameter", f, p)
BY DEF Trailing, AtEnd, Ends

-----------------------------------------------------------------------------
(* The machine.                                                             *)

Machine == [mode : Modes \cup {"thrown"}, from : Nat, n : Nat, far : Nat, j : Nat, error : AnyTokens,
            scratch : [room : Nat, triples : AnyTokens]]

\* What it has written so far.
Out(r) == SubSeq(r.scratch.triples, 1, r.j)

\* A run of which all that was written is there.
Kept(r) == r \in Machine /\ r.j <= Len(r.scratch.triples)

\* r has written toks, at most k of them, and is s.
Wrote(r, s, toks, k) ==
  /\ Kept(s) /\ s.j <= r.j + k /\ s.scratch.room = r.scratch.room
  /\ toks \in AnyTokens /\ Out(s) = Out(r) \o toks

\* What a run has written is tokens, as many as it has counted.
LEMMA OutIs ==
  ASSUME NEW r, Kept(r)
  PROVE  Out(r) \in AnyTokens /\ Len(Out(r)) = r.j
<1> DEFINE S == Types \X Nat \X Nat
           u == r.scratch.triples
<1>1. AnyTokens = Seq(S)
  BY DEF AnyTokens
<1> HIDE DEF S
<1>2. u \in Seq(S) /\ r.j \in Nat /\ r.j <= Len(u)
  BY <1>1 DEF Kept, Machine
<1>3. SubSeq(u, 1, r.j) \in Seq(S) /\ Len(SubSeq(u, 1, r.j)) = r.j
  <2> HIDE DEF u
  <2> QED BY <1>2
<1> QED BY <1>1, <1>3 DEF Out

\* Appending and overwriting.
LEMMA Written ==
  ASSUME NEW S, NEW u \in Seq(S), NEW k \in Nat, k <= Len(u), NEW x \in S
  PROVE  /\ k + 1 > Len(u) => /\ Append(u, x) \in Seq(S) /\ k + 1 <= Len(Append(u, x))
                              /\ SubSeq(Append(u, x), 1, k + 1) = SubSeq(u, 1, k) \o <<x>>
         /\ ~(k + 1 > Len(u)) => /\ [u EXCEPT ![k + 1] = x] \in Seq(S) /\ k + 1 <= Len([u EXCEPT ![k + 1] = x])
                                 /\ SubSeq([u EXCEPT ![k + 1] = x], 1, k + 1) = SubSeq(u, 1, k) \o <<x>>
<1> DEFINE a == SubSeq(u, 1, k)
           b == a \o <<x>>
<1>1. a \in Seq(S) /\ Len(a) = k /\ \A i \in 1..k : a[i] = u[i]
  OBVIOUS
<1>2. b \in Seq(S) /\ Len(b) = k + 1 /\ (\A i \in 1..k : b[i] = u[i]) /\ b[k + 1] = x
  <2> HIDE DEF a
  <2> QED BY <1>1
<1> HIDE DEF b
<1>3. ASSUME k + 1 > Len(u)
      PROVE  /\ Append(u, x) \in Seq(S) /\ k + 1 <= Len(Append(u, x))
             /\ SubSeq(Append(u, x), 1, k + 1) = b
  <2> DEFINE v == Append(u, x)
             w == SubSeq(v, 1, k + 1)
  <2>1. v \in Seq(S) /\ Len(v) = k + 1 /\ (\A i \in 1..k : v[i] = u[i]) /\ v[k + 1] = x
    BY <1>3
  <2> HIDE DEF v
  <2>2. w \in Seq(S) /\ Len(w) = k + 1 /\ \A i \in 1..(k + 1) : w[i] = v[i]
    BY <2>1
  <2> HIDE DEF w
  <2>3. \A i \in 1..(k + 1) : w[i] = b[i]
    BY <1>2, <2>1, <2>2
  <2>4. w = b
    BY <1>2, <2>2, <2>3, SeqEqual
  <2> QED BY <2>1, <2>4 DEF v, w
<1>4. ASSUME ~(k + 1 > Len(u))
      PROVE  /\ [u EXCEPT ![k + 1] = x] \in Seq(S) /\ k + 1 <= Len([u EXCEPT ![k + 1] = x])
             /\ SubSeq([u EXCEPT ![k + 1] = x], 1, k + 1) = b
  <2> DEFINE v == [u EXCEPT ![k + 1] = x]
             w == SubSeq(v, 1, k + 1)
  <2>1. v \in Seq(S) /\ Len(v) = Len(u) /\ (\A i \in 1..k : v[i] = u[i]) /\ v[k + 1] = x
    BY <1>4, ExceptSeq
  <2> HIDE DEF v
  <2>2. w \in Seq(S) /\ Len(w) = k + 1 /\ \A i \in 1..(k + 1) : w[i] = v[i]
    BY <1>4, <2>1
  <2> HIDE DEF w
  <2>3. \A i \in 1..(k + 1) : w[i] = b[i]
    BY <1>2, <2>1, <2>2
  <2>4. w = b
    BY <1>2, <2>2, <2>3, SeqEqual
  <2> QED BY <1>4, <2>1, <2>4 DEF v, w
<1> QED BY <1>3, <1>4 DEF b

\* A run with another count and another buffer is a run.
LEMMA Rewritten ==
  ASSUME NEW r \in Machine, NEW k \in Nat, NEW c \in [room : Nat, triples : AnyTokens]
  PROVE  LET s == [r EXCEPT !.j = k, !.scratch = c]
         IN  /\ s.mode = r.mode /\ s.from = r.from /\ s.n = r.n /\ s.error = r.error /\ s.far = r.far
             /\ s.j = k /\ s.scratch = c /\ s \in Machine
  BY DEF Machine

\* Emit writes one token where there is room, and nothing else: no byte of it is lost.
LEMMA EmitDoes ==
  ASSUME NEW r, Kept(r), r.j + 1 <= r.scratch.room, NEW type \in Types, NEW from \in Nat, NEW to \in Nat
  PROVE  LET s == Emit(r, type, from, to)
         IN  /\ Wrote(r, s, One(type, from, to), 1)
             /\ s.mode = r.mode /\ s.from = r.from /\ s.n = r.n /\ s.far = r.far /\ s.error = r.error
<1> DEFINE S == Types \X Nat \X Nat
           u == r.scratch.triples
           x == Tok(type, from, to)
           s == Emit(r, type, from, to)
           v == IF r.j + 1 > Len(u) THEN Append(u, x) ELSE [u EXCEPT ![r.j + 1] = x]
<1>1. AnyTokens = Seq(S) /\ x \in S /\ One(type, from, to) \in AnyTokens /\ One(type, from, to) = <<x>>
  BY OneToken, TokIs DEF AnyTokens, One
<1> HIDE DEF S, x
<1>2. r \in Machine /\ r.j \in Nat /\ r.j <= Len(u) /\ u \in Seq(S) /\ r.scratch \in [room : Nat, triples : AnyTokens]
  BY <1>1 DEF Kept, Machine
<1>3. v \in Seq(S) /\ r.j + 1 <= Len(v) /\ SubSeq(v, 1, r.j + 1) = SubSeq(u, 1, r.j) \o <<x>>
  <2> DEFINE k == r.j
  <2>1. k \in Nat /\ k <= Len(u) /\ u \in Seq(S)
    BY <1>2
  <2> HIDE DEF u, k
  <2> QED BY <1>1, <2>1, Written, ZenonT(60) DEF k
<1>4. s = [r EXCEPT !.j = r.j + 1, !.scratch = [r.scratch EXCEPT !.triples = v]]
  <2>1. ~(r.j + 1 > r.scratch.room)
    BY <1>2
  <2>2. Stored(r.scratch, r.j + 1, x) = [r.scratch EXCEPT !.triples = v]
    BY <2>1 DEF Stored
  <2> HIDE DEF v
  <2> QED BY <2>2 DEF Emit, x
<1> HIDE DEF v
<1>5. /\ s.mode = r.mode /\ s.from = r.from /\ s.n = r.n /\ s.error = r.error /\ s.far = r.far
      /\ s.j = r.j + 1 /\ s.scratch.triples = v /\ s.scratch.room = r.scratch.room /\ s \in Machine
  <2> DEFINE c == [r.scratch EXCEPT !.triples = v]
             C == [room : Nat, triples : AnyTokens]
  <2>1. c \in C /\ c.triples = v /\ c.room = r.scratch.room
    BY <1>1, <1>2, <1>3
  <2>2. s = [r EXCEPT !.j = r.j + 1, !.scratch = c]
    BY <1>4
  <2> DEFINE k == r.j + 1
             w == [r EXCEPT !.j = k, !.scratch = c]
  <2>3. k \in Nat
    BY <1>2
  <2> HIDE DEF s, c, k
  <2>4. /\ w.mode = r.mode /\ w.from = r.from /\ w.n = r.n /\ w.error = r.error /\ w.far = r.far
        /\ w.j = k /\ w.scratch = c /\ w \in Machine
    BY <1>2, <2>1, <2>3, Rewritten
  <2>5. s = w
    BY <2>2 DEF k
  <2> HIDE DEF w
  <2> QED BY <2>1, <2>4, <2>5 DEF k
<1> HIDE DEF s, u
<1>6. Out(s) = Out(r) \o One(type, from, to)
  BY <1>1, <1>3, <1>5 DEF Out, u
<1>7. Wrote(r, s, One(type, from, to), 1)
  BY <1>1, <1>2, <1>3, <1>5, <1>6 DEF Wrote, Kept
<1> QED BY <1>5, <1>7 DEF s

\* Enter writes nothing.
LEMMA EnterDoes ==
  ASSUME NEW r, Kept(r), NEW mode \in Modes \cup {"thrown"}, NEW from \in Nat
  PROVE  LET s == Enter(r, mode, from)
         IN  /\ Wrote(r, s, <<>>, 0)
             /\ s.mode = mode /\ s.from = from /\ s.n = r.n /\ s.far = r.far /\ s.error = r.error
<1> DEFINE s == Enter(r, mode, from)
<1>1. s = [r EXCEPT !.mode = mode, !.from = from] /\ r \in Machine
  BY DEF Enter, Kept
<1> HIDE DEF s
<1>2. /\ s.mode = mode /\ s.from = from /\ s.n = r.n /\ s.error = r.error /\ s.far = r.far
      /\ s.j = r.j /\ s.scratch = r.scratch /\ s \in Machine /\ r.j \in Nat
  BY <1>1 DEF Machine
<1>3. Out(s) = Out(r) \o <<>> /\ <<>> \in AnyTokens
  <2>1. Out(s) = Out(r)
    BY <1>2 DEF Out
  <2> QED BY <2>1, OutIs, Glue
<1>4. Wrote(r, s, <<>>, 0)
  BY <1>2, <1>3 DEF Wrote, Kept
<1> QED BY <1>2, <1>4 DEF s

\* Counting a tag or a parameter writes nothing.
LEMMA CountDoes ==
  ASSUME NEW r, Kept(r), NEW m \in Nat
  PROVE  LET s == [r EXCEPT !.n = m]
         IN  /\ Wrote(r, s, <<>>, 0)
             /\ s.mode = r.mode /\ s.from = r.from /\ s.n = m /\ s.far = r.far /\ s.error = r.error
<1> DEFINE s == [r EXCEPT !.n = m]
<1>1. s = [r EXCEPT !.n = m] /\ r \in Machine
  BY DEF Kept
<1> HIDE DEF s
<1>2. /\ s.mode = r.mode /\ s.from = r.from /\ s.n = m /\ s.error = r.error /\ s.far = r.far
      /\ s.j = r.j /\ s.scratch = r.scratch /\ s \in Machine /\ r.j \in Nat
  BY <1>1 DEF Machine
<1>3. Out(s) = Out(r) \o <<>> /\ <<>> \in AnyTokens
  <2>1. Out(s) = Out(r)
    BY <1>2 DEF Out
  <2> QED BY <2>1, OutIs, Glue
<1>4. Wrote(r, s, <<>>, 0)
  BY <1>2, <1>3 DEF Wrote, Kept
<1> QED BY <1>2, <1>4 DEF s

\* Nor does finding out where the tags must end.
LEMMA FarDoes ==
  ASSUME NEW r, Kept(r), NEW m \in Nat
  PROVE  LET s == [r EXCEPT !.far = m]
         IN  /\ Wrote(r, s, <<>>, 0)
             /\ s.mode = r.mode /\ s.from = r.from /\ s.n = r.n /\ s.far = m /\ s.error = r.error
<1> DEFINE s == [r EXCEPT !.far = m]
<1>1. s = [r EXCEPT !.far = m] /\ r \in Machine
  BY DEF Kept
<1> HIDE DEF s
<1>2. /\ s.mode = r.mode /\ s.from = r.from /\ s.n = r.n /\ s.error = r.error /\ s.far = m
      /\ s.j = r.j /\ s.scratch = r.scratch /\ s \in Machine /\ r.j \in Nat
  BY <1>1 DEF Machine
<1>3. Out(s) = Out(r) \o <<>> /\ <<>> \in AnyTokens
  <2>1. Out(s) = Out(r)
    BY <1>2 DEF Out
  <2> QED BY <2>1, OutIs, Glue
<1>4. Wrote(r, s, <<>>, 0)
  BY <1>2, <1>3 DEF Wrote, Kept
<1> QED BY <1>2, <1>4 DEF s

\* What is written in two steps is written.
LEMMA Compose ==
  ASSUME NEW r, NEW s, NEW u, NEW a, NEW b, NEW k \in Nat, NEW m \in Nat,
         Kept(r), Wrote(r, s, a, k), Wrote(s, u, b, m)
  PROVE  Wrote(r, u, a \o b, k + m)
<1>1. Out(r) \in AnyTokens /\ a \in AnyTokens /\ b \in AnyTokens
  BY OutIs DEF Wrote
<1>2. Out(u) = Out(r) \o (a \o b) /\ a \o b \in AnyTokens
  <2>1. Out(s) = Out(r) \o a /\ Out(u) = Out(s) \o b
    BY DEF Wrote
  <2>2. (Out(r) \o a) \o b = Out(r) \o (a \o b) /\ a \o b \in AnyTokens
    <3> DEFINE o == Out(r)
    <3>0. o \in AnyTokens
      BY <1>1
    <3> HIDE DEF o
    <3>1. (o \o a) \o b = o \o (a \o b) /\ a \o b \in AnyTokens
      BY <1>1, <3>0, Joins, Regroups
    <3> QED BY <3>1 DEF o
  <2> QED BY <2>1, <2>2
<1>3. r.j \in Nat /\ s.j \in Nat /\ u.j \in Nat
  BY DEF Wrote, Kept, Machine
<1> QED BY <1>2, <1>3 DEF Wrote

Close(r, p) ==
  IF r.mode \notin DOMAIN Content \/ (r.mode \in {"name", "user", "host"} /\ p = r.from) THEN <<>>
  ELSE One(Content[r.mode], r.from, p)

\* The token that each mode is in the middle of.
LEMMA ContentIs ==
  /\ DOMAIN Content = {"key", "value", "tagsGap", "name", "user", "host", "prefixGap", "command", "gap",
                       "middle", "trailing"}
  /\ Content["key"] = "TagKey" /\ Content["value"] = "TagValue" /\ Content["tagsGap"] = "Separator"
  /\ Content["name"] = "PrefixName" /\ Content["user"] = "PrefixUser" /\ Content["host"] = "PrefixHost"
  /\ Content["prefixGap"] = "Separator" /\ Content["command"] = "Command" /\ Content["gap"] = "Separator"
  /\ Content["middle"] = "MiddleParameter" /\ Content["trailing"] = "TrailingParameter"
  BY DEF Content

\* They are types of tokens.
LEMMA ContentTyped == \A m \in DOMAIN Content : Content[m] \in Types
<1> DEFINE C == Content
<1>1. /\ DOMAIN C = {"key", "value", "tagsGap", "name", "user", "host", "prefixGap", "command", "gap",
                       "middle", "trailing"}
      /\ C["key"] = "TagKey" /\ C["value"] = "TagValue" /\ C["tagsGap"] = "Separator"
      /\ C["name"] = "PrefixName" /\ C["user"] = "PrefixUser" /\ C["host"] = "PrefixHost"
      /\ C["prefixGap"] = "Separator" /\ C["command"] = "Command" /\ C["gap"] = "Separator"
      /\ C["middle"] = "MiddleParameter" /\ C["trailing"] = "TrailingParameter"
  BY ContentIs
<1> HIDE DEF C
<1>2. \A m \in DOMAIN C : C[m] \in Types
  BY <1>1 DEF Types
<1> QED BY <1>2 DEF C

\* Closed writes the token that the mode was in the middle of.
LEMMA ClosedDoes ==
  ASSUME NEW r, Kept(r), r.j + 1 <= r.scratch.room, NEW p \in Nat
  PROVE  LET s == Closed(r, p)
         IN  /\ Wrote(r, s, Close(r, p), 1)
             /\ s.mode = r.mode /\ s.from = r.from /\ s.n = r.n /\ s.far = r.far /\ s.error = r.error
<1> DEFINE s == Closed(r, p)
           c == r.mode \notin DOMAIN Content \/ (r.mode \in {"name", "user", "host"} /\ p = r.from)
<1>1. CASE c
  <2>1. s = r /\ Close(r, p) = <<>>
    BY <1>1 DEF Closed, Close
  <2>2. Out(r) = Out(r) \o <<>> /\ <<>> \in AnyTokens
    BY OutIs, Glue
  <2>3. r.j \in Nat
    BY DEF Kept, Machine
  <2> HIDE DEF s
  <2>4. Wrote(r, s, Close(r, p), 1)
    BY <2>1, <2>2, <2>3 DEF Wrote
  <2> QED BY <2>1, <2>4 DEF s
<1>2. CASE ~c
  <2> DEFINE type == Content[r.mode]
             f    == r.from
  <2>1. s = Emit(r, type, f, p) /\ Close(r, p) = One(type, f, p)
    BY <1>2 DEF Closed, Close
  <2>2. type \in Types /\ f \in Nat
    BY <1>2, ContentTyped DEF Kept, Machine
  <2> HIDE DEF type, f, s
  <2>3. /\ Wrote(r, s, One(type, f, p), 1)
        /\ s.mode = r.mode /\ s.from = r.from /\ s.n = r.n /\ s.far = r.far /\ s.error = r.error
    BY <2>1, <2>2, EmitDoes
  <2> QED BY <2>1, <2>3 DEF s
<1> HIDE DEF c
<1> QED BY <1>1, <1>2

\* Mark writes one mark, and goes on behind it.
LEMMA MarkDoes ==
  ASSUME NEW r, Kept(r), r.j + 1 <= r.scratch.room, NEW type \in Types, NEW p \in Nat, NEW mode \in Modes
  PROVE  LET s == Mark(r, type, p, mode)
         IN  /\ Wrote(r, s, One(type, p, p + 1), 1)
             /\ s.mode = mode /\ s.from = p + 1 /\ s.n = r.n /\ s.far = r.far /\ s.error = r.error
<1> DEFINE q == p + 1
           k == One(type, p, q)
           u == Emit(r, type, p, q)
           s == Enter(u, mode, q)
<1>1. q \in Nat
  OBVIOUS
<1>2. Mark(r, type, p, mode) = s
  BY DEF Mark
<1> HIDE DEF q
<1>3. /\ Wrote(r, u, k, 1)
      /\ u.mode = r.mode /\ u.from = r.from /\ u.n = r.n /\ u.far = r.far /\ u.error = r.error
  BY <1>1, EmitDoes
<1> HIDE DEF u, k
<1>4. Kept(u) /\ k \in AnyTokens
  BY <1>3 DEF Wrote
<1>5. /\ Wrote(u, s, <<>>, 0)
      /\ s.mode = mode /\ s.from = q /\ s.n = u.n /\ s.far = u.far /\ s.error = u.error
  BY <1>1, <1>4, EnterDoes
<1> HIDE DEF s
<1>6. Wrote(r, s, k \o <<>>, 1 + 0)
  BY <1>3, <1>5, Compose
<1>7. Wrote(r, s, k, 1)
  <2>1. k \o <<>> = k
    BY <1>4, Glue
  <2> QED BY <1>6, <2>1
<1> QED BY <1>2, <1>3, <1>5, <1>7 DEF q, k

\* Fails writes nothing, and has thrown.
LEMMA FailsDoes ==
  ASSUME NEW r, Kept(r), NEW l \in Limits, NEW q \in Nat
  PROVE  LET s == Fails(r, l, q)
         IN  Wrote(r, s, <<>>, 0) /\ s.mode = "thrown" /\ s.from = q /\ s.error = Throw(l, q)
<1> DEFINE e == Throw(l, q)
           s == Fails(r, l, q)
<1>1. e \in AnyTokens
  BY Simple
<1>2. s = [[r EXCEPT !.error = e] EXCEPT !.mode = "thrown", !.from = q] /\ r \in Machine
  BY DEF Fails, Enter, Kept
<1> HIDE DEF s, e
<1>3. /\ s.mode = "thrown" /\ s.from = q /\ s.error = e
      /\ s.j = r.j /\ s.scratch = r.scratch /\ s \in Machine /\ r.j \in Nat
  BY <1>1, <1>2 DEF Machine
<1>4. Out(s) = Out(r) \o <<>> /\ <<>> \in AnyTokens
  <2>1. Out(s) = Out(r)
    BY <1>3 DEF Out
  <2> QED BY <2>1, OutIs, Glue
<1>5. Wrote(r, s, <<>>, 0)
  BY <1>3, <1>4 DEF Wrote, Kept
<1> QED BY <1>3, <1>5 DEF s, e

\* What a run that is at p has before it, if it is right about the line so far.
Ahead(t, lim, s, p) ==
  IF s.mode = "thrown" THEN s.error ELSE Rest(t, lim, s.mode, s.from, s.n, s.far, p)

\* Where it has counted nothing yet.
Uncounted == {"lead", "name", "user", "host", "prefixGap", "command"}

\* What a run that is at p has in its registers.
Fit(s, p) ==
  /\ Kept(s) /\ s.from <= p
  /\ s.mode \in TagModes => p <= s.far + 1
  /\ s.mode \in Uncounted => s.n = 0
  /\ IF s.mode = "thrown" THEN \E l \in Limits, q \in Nat : s.error = Throw(l, q) ELSE s.error = <<>>

\* r, which has X before it, has written the part of X that s has no more before it.
Carries(t, lim, r, s, X, p, k) ==
  Fit(s, p) /\ Ahead(t, lim, s, p) \in AnyTokens
    /\ \E toks : Wrote(r, s, toks, k) /\ X = toks \o Ahead(t, lim, s, p)

Line(t, lim) == Len(t) \in Nat /\ lim.tagData \in Nat

\* What was written before a run carried on is a part of what it had before it.
LEMMA CarriesOn ==
  ASSUME NEW t, NEW lim, NEW r, NEW u, NEW s, NEW a, NEW k \in Nat, NEW m \in Nat, NEW X, NEW p,
         Kept(r), Wrote(r, u, a, k), Carries(t, lim, u, s, X, p, m)
  PROVE  Carries(t, lim, r, s, a \o X, p, k + m)
<1> DEFINE A == Ahead(t, lim, s, p)
<1>1. Fit(s, p) /\ A \in AnyTokens
  BY DEF Carries
<1>2. PICK b : Wrote(u, s, b, m) /\ X = b \o A
  BY DEF Carries
<1> HIDE DEF A
<1>3. Wrote(r, s, a \o b, k + m)
  BY <1>2, Compose
<1>4. a \o X = (a \o b) \o A
  <2>1. a \in AnyTokens /\ b \in AnyTokens
    BY <1>2 DEF Wrote
  <2> QED BY <1>1, <1>2, <2>1, Regroups
<1> QED BY <1>1, <1>3, <1>4 DEF Carries, A

\* A bound on what is written may be wider.
LEMMA CarriesMore ==
  ASSUME NEW t, NEW lim, NEW r, NEW s, NEW k \in Nat, NEW m \in Nat, NEW X, NEW p,
         Kept(r), k <= m, Carries(t, lim, r, s, X, p, k)
  PROVE  Carries(t, lim, r, s, X, p, m) /\ X \in AnyTokens
<1> DEFINE A == Ahead(t, lim, s, p)
<1>1. Fit(s, p) /\ A \in AnyTokens
  BY DEF Carries
<1>2. PICK b : Wrote(r, s, b, k) /\ X = b \o A
  BY DEF Carries
<1> HIDE DEF A
<1>3. r.j \in Nat /\ s.j \in Nat
  BY <1>1 DEF Fit, Kept, Machine
<1>4. Wrote(r, s, b, m) /\ b \in AnyTokens
  BY <1>2, <1>3 DEF Wrote
<1>5. X \in AnyTokens
  BY <1>1, <1>2, <1>4, Joins
<1> QED BY <1>1, <1>2, <1>4, <1>5 DEF Carries, A

\* What writes nothing.
LEMMA CarriesPlain ==
  ASSUME NEW t, NEW lim, NEW r, NEW u, NEW s, NEW m \in Nat, NEW X, NEW p,
         Kept(r), Wrote(r, u, <<>>, 0), Carries(t, lim, u, s, X, p, m)
  PROVE  Carries(t, lim, r, s, X, p, m)
<1>1. Carries(t, lim, r, s, <<>> \o X, p, 0 + m)
  BY CarriesOn
<1>2. X \in AnyTokens
  <2>1. Kept(u)
    BY DEF Wrote
  <2> QED BY <2>1, CarriesMore
<1>3. <<>> \o X = X /\ 0 + m = m
  BY <1>2, Glue
<1> QED BY <1>1, <1>3

\* A run that does nothing at p has the rest before it.
LEMMA CarriesSelf ==
  ASSUME NEW t, NEW lim, Line(t, lim), NEW s, NEW p \in 1..(Len(t) + 1), Fit(s, p)
  PROVE  Carries(t, lim, s, s, Ahead(t, lim, s, p), p, 0)
<1> DEFINE A == Ahead(t, lim, s, p)
<1>1. /\ s.mode \in Modes \cup {"thrown"} /\ s.from \in Nat /\ s.n \in Nat /\ s.far \in Nat /\ s.error \in AnyTokens
      /\ s.j \in Nat
  BY DEF Fit, Kept, Machine
<1>2. A \in AnyTokens
  <2>1. s.mode # "thrown" => Rest(t, lim, s.mode, s.from, s.n, s.far, p) \in AnyTokens
    BY <1>1, RestTyped DEF Line
  <2> QED BY <1>1, <2>1 DEF Ahead
<1>3. Wrote(s, s, <<>>, 0)
  <2>1. Out(s) = Out(s) \o <<>> /\ <<>> \in AnyTokens /\ Kept(s)
    BY OutIs, Glue DEF Fit
  <2> QED BY <1>1, <2>1 DEF Wrote
<1>4. A = <<>> \o A
  <2> HIDE DEF A
  <2> QED BY <1>2, Glue
<1> HIDE DEF A
<1> QED BY <1>2, <1>3, <1>4 DEF Carries, A

\* s is r but for what it has written, and has the rest before it.
LEMMA CarriesTo ==
  ASSUME NEW t, NEW lim, Line(t, lim), NEW r, NEW s, NEW toks, NEW k \in Nat, NEW p \in 1..(Len(t) + 1),
         Kept(r), Wrote(r, s, toks, k), Fit(s, p)
  PROVE  Carries(t, lim, r, s, toks \o Ahead(t, lim, s, p), p, k)
<1>1. Carries(t, lim, s, s, Ahead(t, lim, s, p), p, 0)
  BY CarriesSelf
<1>2. Carries(t, lim, r, s, toks \o Ahead(t, lim, s, p), p, k + 0)
  BY <1>1, CarriesOn
<1> QED BY <1>2

\* Entering a mode carries over the rest in that mode.
LEMMA EnterCarries ==
  ASSUME NEW t, NEW lim, Line(t, lim), NEW r, Kept(r), r.error = <<>>,
         NEW mode \in Modes, NEW from \in Nat, NEW p \in 1..(Len(t) + 1), from <= p,
         mode \in TagModes => p <= r.far + 1,
         mode \in Uncounted => r.n = 0
  PROVE  Carries(t, lim, r, Enter(r, mode, from), Rest(t, lim, mode, from, r.n, r.far, p), p, 0)
<1> DEFINE s == Enter(r, mode, from)
           A == Ahead(t, lim, s, p)
<1>1. /\ Wrote(r, s, <<>>, 0)
      /\ s.mode = mode /\ s.from = from /\ s.n = r.n /\ s.far = r.far /\ s.error = r.error
  BY EnterDoes
<1> HIDE DEF s
<1>2. mode # "thrown"
  BY DEF Modes
<1>3. Fit(s, p)
  BY <1>1, <1>2 DEF Fit, Wrote
<1>4. A = Rest(t, lim, mode, from, r.n, r.far, p)
  BY <1>1, <1>2 DEF Ahead
<1>5. Carries(t, lim, s, s, A, p, 0)
  BY <1>3, CarriesSelf
<1> HIDE DEF A
<1>6. Carries(t, lim, r, s, A, p, 0)
  BY <1>1, <1>5, CarriesPlain
<1> QED BY <1>4, <1>6 DEF s

\* A mark carries over itself and the rest behind it.
LEMMA MarkCarries ==
  ASSUME NEW t, NEW lim, Line(t, lim), NEW r, Kept(r), r.j + 1 <= r.scratch.room, r.error = <<>>,
         NEW type \in Types, NEW mode \in Modes, NEW p \in 1..Len(t),
         mode \in TagModes => p <= r.far,
         mode \in Uncounted => r.n = 0
  PROVE  Carries(t, lim, r, Mark(r, type, p, mode),
                 One(type, p, p + 1) \o Rest(t, lim, mode, p + 1, r.n, r.far, p + 1), p + 1, 1)
<1> DEFINE s == Mark(r, type, p, mode)
           q == p + 1
           A == Ahead(t, lim, s, q)
           k == One(type, p, q)
<1>0. q \in 1..(Len(t) + 1) /\ q \in Nat /\ p \in Nat /\ (p <= r.far => q <= r.far + 1)
  <2>1. r.far \in Nat
    BY DEF Kept, Machine
  <2>2. Len(t) \in Nat
    BY DEF Line
  <2> QED BY <2>1, <2>2
<1>1. /\ Wrote(r, s, k, 1)
      /\ s.mode = mode /\ s.from = q /\ s.n = r.n /\ s.far = r.far /\ s.error = r.error
  BY <1>0, MarkDoes
<1> HIDE DEF s, k
<1>2. mode # "thrown"
  BY DEF Modes
<1>3. Fit(s, q)
  <2> HIDE DEF q
  <2> QED BY <1>0, <1>1, <1>2 DEF Fit, Wrote
<1>4. A = Rest(t, lim, mode, q, r.n, r.far, q)
  BY <1>1, <1>2 DEF Ahead
<1> HIDE DEF q
<1>5. Carries(t, lim, r, s, k \o A, q, 1)
  BY <1>0, <1>1, <1>3, CarriesTo
<1> HIDE DEF A
<1> QED BY <1>4, <1>5 DEF s, k, q

\* An error is all that is left.
LEMMA FailsCarries ==
  ASSUME NEW t, NEW lim, NEW r, Kept(r), NEW l \in Limits, NEW q \in Nat, NEW p, q <= p
  PROVE  Carries(t, lim, r, Fails(r, l, q), Throw(l, q), p, 0)
<1> DEFINE s == Fails(r, l, q)
           e == Throw(l, q)
<1>1. Wrote(r, s, <<>>, 0) /\ s.mode = "thrown" /\ s.from = q /\ s.error = e
  BY FailsDoes
<1>2. e \in AnyTokens
  BY Simple
<1> HIDE DEF s
<1>3. Fit(s, p)
  <2>1. ~("thrown" \in TagModes) /\ ~("thrown" \in Uncounted)
    BY DEF TagModes, Uncounted
  <2> QED BY <1>1, <2>1 DEF Fit, Wrote
<1> HIDE DEF e
<1>4. Ahead(t, lim, s, p) = e /\ e = <<>> \o e
  BY <1>1, <1>2, Glue DEF Ahead
<1> QED BY <1>1, <1>2, <1>3, <1>4 DEF Carries, s, e

\* What ends a part of the line, and then marks or enters the next, with its content.
LEMMA ClosedCarries ==
  ASSUME NEW t, NEW lim, NEW r, Kept(r), r.j + 1 <= r.scratch.room, NEW q \in Nat, NEW s, NEW X, NEW p,
         NEW m \in Nat, Carries(t, lim, Closed(r, q), s, X, p, m)
  PROVE  Carries(t, lim, r, s, Close(r, q) \o X, p, m + 1)
<1>1. Wrote(r, Closed(r, q), Close(r, q), 1)
  BY ClosedDoes
<1>2. Carries(t, lim, r, s, Close(r, q) \o X, p, 1 + m)
  BY <1>1, CarriesOn
<1> QED BY <1>2

\* A run that writes nothing and stays what it is.
LEMMA StaysCarries ==
  ASSUME NEW t, NEW lim, Line(t, lim), NEW r, NEW p \in 1..Len(t), Fit(r, p), NEW k \in Nat,
         r.mode \in TagModes => p <= r.far
  PROVE  Carries(t, lim, r, r, Ahead(t, lim, r, p + 1), p + 1, k)
<1> DEFINE q == p + 1
<1>1. q \in 1..(Len(t) + 1) /\ r.far \in Nat /\ r.from \in Nat
  BY DEF Line, Fit, Kept, Machine
<1>2. Fit(r, q)
  BY <1>1 DEF Fit
<1> HIDE DEF q
<1>3. Carries(t, lim, r, r, Ahead(t, lim, r, q), q, 0)
  BY <1>1, <1>2, CarriesSelf
<1>4. Carries(t, lim, r, r, Ahead(t, lim, r, q), q, k)
  <2>1. Kept(r) /\ 0 <= k
    BY DEF Fit
  <2> QED BY <1>3, <2>1, CarriesMore
<1> QED BY <1>4 DEF q

\* The first byte of the portion of RFC 1459 carries it over.
LEMMA BeginsCarries ==
  ASSUME NEW t, NEW lim, Line(t, lim), NEW r, Kept(r), r.j + 1 <= r.scratch.room, r.error = <<>>,
         NEW p \in 1..Len(t), t[p] # Space
  PROVE  Carries(t, lim, r, BeginsRfc(r, lim, t[p], p, Len(t) + 1 - p), Rfc1459(t, lim, p), p + 1, 1)
<1> DEFINE u == [r EXCEPT !.n = 0]
           s == BeginsRfc(r, lim, t[p], p, Len(t) + 1 - p)
           X == Rfc1459(t, lim, p)
           q == p + 1
<1>1. Len(t) \in Nat /\ q \in 1..(Len(t) + 1) /\ p \in Nat /\ q = p + 1 /\ p <= q
  BY DEF Line
<1>2. /\ Wrote(r, u, <<>>, 0) /\ Kept(u)
      /\ u.n = 0 /\ u.far = r.far /\ u.error = <<>> /\ u.j + 1 <= u.scratch.room
  <2>1. Wrote(r, u, <<>>, 0) /\ u.n = 0 /\ u.far = r.far /\ u.error = <<>>
    BY CountDoes
  <2>2. Kept(u) /\ u.j \in Nat /\ r.j \in Nat /\ u.j <= r.j + 0 /\ u.scratch.room = r.scratch.room /\ r.scratch.room \in Nat
    BY <2>1 DEF Wrote, Kept, Machine
  <2> HIDE DEF u
  <2> QED BY <2>1, <2>2
<1> HIDE DEF u
<1>3. CASE Len(t) + 1 - p > lim.rfc1459Data
  <2>1. s = Fails(r, "rfc1459DataLimit", p)
    BY <1>3 DEF BeginsRfc
  <2>2. X = Throw("rfc1459DataLimit", p)
    BY <1>1, <1>3, RfcStep
  <2> HIDE DEF s, X, q
  <2>3. Carries(t, lim, r, s, X, q, 0)
    BY <1>1, <2>1, <2>2, FailsCarries DEF Limits
  <2>4. Carries(t, lim, r, s, X, q, 1)
    BY <2>3, CarriesMore
  <2> QED BY <2>4 DEF s, X, q
<1>4. CASE ~(Len(t) + 1 - p > lim.rfc1459Data) /\ t[p] = ":"
  <2>1. s = Mark(u, "PrefixStart", p, "name")
    BY <1>4 DEF BeginsRfc, u
  <2>2. X = One("PrefixStart", p, q) \o NameRest(t, lim, q, q)
    BY <1>1, <1>4, RfcStep
  <2>3. Carries(t, lim, u, Mark(u, "PrefixStart", p, "name"),
                One("PrefixStart", p, p + 1) \o Rest(t, lim, "name", p + 1, u.n, u.far, p + 1), p + 1, 1)
    <3>1. "PrefixStart" \in Types /\ "name" \in Modes /\ "name" \notin TagModes
      BY DEF Types, Modes, TagModes
    <3> QED BY <1>2, <3>1, MarkCarries
  <2>4. Rest(t, lim, "name", q, u.n, u.far, q) = NameRest(t, lim, q, q)
    BY DEF Rest
  <2>5. Carries(t, lim, u, s, X, q, 1)
    BY <2>1, <2>2, <2>3, <2>4
  <2> HIDE DEF s, X, q
  <2>6. Carries(t, lim, r, s, X, q, 1)
    BY <1>2, <2>5, CarriesPlain
  <2> QED BY <2>6 DEF s, X, q
<1>5. CASE ~(Len(t) + 1 - p > lim.rfc1459Data) /\ t[p] # ":"
  <2>1. s = Enter(u, "command", p)
    BY <1>5 DEF BeginsRfc, u
  <2>2. X = CommandRest(t, lim, p, q)
    BY <1>1, <1>5, RfcStep
  <2> HIDE DEF q
  <2>3. Carries(t, lim, u, Enter(u, "command", p), Rest(t, lim, "command", p, u.n, u.far, q), q, 0)
    <3>1. "command" \in Modes /\ "command" \notin TagModes
      BY DEF Modes, TagModes
    <3> QED BY <1>1, <1>2, <3>1, EnterCarries
  <2>4. Rest(t, lim, "command", p, u.n, u.far, q) = CommandRest(t, lim, p, q)
    BY DEF Rest
  <2>5. Carries(t, lim, u, s, X, q, 0)
    BY <2>1, <2>2, <2>3, <2>4
  <2> HIDE DEF s, X
  <2>6. Carries(t, lim, r, s, X, q, 0)
    BY <1>2, <2>5, CarriesPlain
  <2>7. Carries(t, lim, r, s, X, q, 1)
    BY <2>6, CarriesMore
  <2> QED BY <2>7 DEF s, X, q
<1> QED BY <1>3, <1>4, <1>5

\* So does a byte of the leading spaces, or the first that is none.
LEMMA LeadCarries ==
  ASSUME NEW t, NEW lim, Line(t, lim), NEW r, NEW p \in 1..Len(t), Fit(r, p), r.mode = "lead",
         r.j + 1 <= r.scratch.room
  PROVE  Carries(t, lim, r, LeadByte(r, lim, t[p], p, Len(t) + 1 - p), LeadRest(t, lim, p), p + 1, 1)
<1> DEFINE s == LeadByte(r, lim, t[p], p, Len(t) + 1 - p)
           X == LeadRest(t, lim, p)
           q == p + 1
<1>1. Len(t) \in Nat /\ q \in 1..(Len(t) + 1) /\ p \in Nat /\ q = p + 1 /\ p <= q /\ lim.tagData \in Nat
  BY DEF Line
<1>2. Kept(r) /\ r.error = <<>> /\ "lead" \notin TagModes
  BY DEF Fit, TagModes
<1>3. CASE t[p] = Space
  <2>1. s = r
    BY <1>3 DEF LeadByte
  <2>2. X = LeadRest(t, lim, q)
    BY <1>1, <1>3, LeadStep
  <2>3. Ahead(t, lim, r, q) = LeadRest(t, lim, q)
    BY DEF Ahead, Rest
  <2>4. Carries(t, lim, r, r, Ahead(t, lim, r, q), q, 1)
    BY <1>2, StaysCarries
  <2> QED BY <2>1, <2>2, <2>3, <2>4
<1>4. CASE t[p] # Space /\ t[p] # "@"
  <2>1. s = BeginsRfc(r, lim, t[p], p, Len(t) + 1 - p)
    BY <1>4 DEF LeadByte
  <2>2. X = Rfc1459(t, lim, p)
    BY <1>1, <1>4, LeadStep
  <2> QED BY <1>2, <1>4, <2>1, <2>2, BeginsCarries
<1>5. CASE t[p] # Space /\ t[p] = "@" /\ lim.tagData = 0
  <2>1. s = Fails(r, "tagDataLimit", p)
    BY <1>5 DEF LeadByte
  <2>2. X = Throw("tagDataLimit", p)
    BY <1>1, <1>5, LeadStep
  <2> HIDE DEF s, X, q
  <2>3. Carries(t, lim, r, s, X, q, 0)
    BY <1>1, <1>2, <2>1, <2>2, FailsCarries DEF Limits
  <2>4. Carries(t, lim, r, s, X, q, 1)
    BY <1>2, <2>3, CarriesMore
  <2> QED BY <2>4 DEF s, X, q
<1>6. CASE t[p] # Space /\ t[p] = "@" /\ lim.tagData # 0
  <2> DEFINE far == p + lim.tagData
             u   == [r EXCEPT !.far = far]
  <2>1. s = Mark(u, "TagsStart", p, "tag") /\ far \in Nat /\ p <= far
    BY <1>1, <1>6 DEF LeadByte
  <2>2. X = One("TagsStart", p, q) \o TagRest(t, lim, far, q, 0)
    BY <1>1, <1>6, LeadStep
  <2> HIDE DEF far
  <2>3. /\ Wrote(r, u, <<>>, 0)
        /\ u.n = r.n /\ u.far = far /\ u.error = r.error
    BY <1>2, <2>1, FarDoes
  <2> HIDE DEF u
  <2>4. Kept(u) /\ u.j + 1 <= u.scratch.room /\ u.error = <<>> /\ u.n = 0
    <3>1. Kept(u) /\ u.j \in Nat /\ r.j \in Nat /\ u.j <= r.j + 0 /\ u.scratch.room = r.scratch.room /\ r.scratch.room \in Nat
      BY <1>2, <2>3 DEF Wrote, Kept, Machine
    <3>2. r.n = 0
      BY DEF Fit, Uncounted
    <3> QED BY <1>2, <2>3, <3>1, <3>2
  <2>5. Carries(t, lim, u, Mark(u, "TagsStart", p, "tag"),
                One("TagsStart", p, p + 1) \o Rest(t, lim, "tag", p + 1, u.n, u.far, p + 1), p + 1, 1)
    <3>1. "TagsStart" \in Types /\ "tag" \in Modes /\ "tag" \notin Uncounted
      BY DEF Types, Modes, Uncounted
    <3> QED BY <2>1, <2>3, <2>4, <3>1, MarkCarries
  <2>6. Rest(t, lim, "tag", q, u.n, u.far, q) = TagRest(t, lim, far, q, 0)
    BY <2>3, <2>4 DEF Rest
  <2>7. Carries(t, lim, u, s, X, q, 1)
    BY <2>1, <2>2, <2>5, <2>6
  <2> HIDE DEF s, X, q
  <2>8. Carries(t, lim, r, s, X, q, 1)
    BY <1>2, <2>3, <2>7, CarriesPlain
  <2> QED BY <2>8 DEF s, X, q
<1> QED BY <1>3, <1>4, <1>5, <1>6

\* So does the byte that ends a tag.
LEMMA EndsTagCarries ==
  ASSUME NEW t, NEW lim, Line(t, lim), NEW r, Kept(r), r.j + 1 <= r.scratch.room, r.error = <<>>,
         NEW p \in 1..Len(t), p <= r.far, t[p] = Space \/ t[p] = Semicolon
  PROVE  Carries(t, lim, r, EndsTag(r, t[p], p), TagEnds(t, lim, r.far, TagList(t, lim, r.far), p, r.n), p + 1, 1)
<1> DEFINE m == r.n + 1
           u == [r EXCEPT !.n = m]
           s == EndsTag(r, t[p], p)
           X == TagEnds(t, lim, r.far, TagList(t, lim, r.far), p, r.n)
           q == p + 1
<1>1. /\ Len(t) \in Nat /\ q \in 1..(Len(t) + 1) /\ p \in Nat /\ q = p + 1 /\ p <= q
      /\ r.n \in Nat /\ m \in Nat /\ r.far \in Nat /\ q <= r.far + 1
  BY DEF Line, Kept, Machine
<1>2. X = IF t[p] = Space THEN TagsGapRest(t, lim, r.far, p, q)
          ELSE One("TagSeparator", p, q) \o TagRest(t, lim, r.far, q, m)
  <2> DEFINE far == r.far
             n   == r.n
  <2>1. far \in Nat /\ n \in Nat
    BY <1>1
  <2> HIDE DEF far, n
  <2>2. TagEnds(t, lim, far, TagList(t, lim, far), p, n) =
          IF t[p] = Space THEN TagsGapRest(t, lim, far, p, p + 1)
          ELSE One("TagSeparator", p, p + 1) \o TagRest(t, lim, far, p + 1, n + 1)
    BY <1>1, <2>1, TagEndsStep, ZenonT(60)
  <2> QED BY <2>2 DEF far, n
<1>3. s = IF t[p] = Semicolon THEN Mark(u, "TagSeparator", p, "tag") ELSE Enter(u, "tagsGap", p)
  BY DEF EndsTag
<1> HIDE DEF m
<1>4. /\ Wrote(r, u, <<>>, 0) /\ Kept(u)
      /\ u.n = m /\ u.far = r.far /\ u.error = <<>> /\ u.j + 1 <= u.scratch.room
  <2>1. Wrote(r, u, <<>>, 0) /\ u.n = m /\ u.far = r.far /\ u.error = <<>>
    BY <1>1, CountDoes
  <2>2. Kept(u) /\ u.j \in Nat /\ r.j \in Nat /\ u.j <= r.j + 0 /\ u.scratch.room = r.scratch.room /\ r.scratch.room \in Nat
    BY <2>1 DEF Wrote, Kept, Machine
  <2> HIDE DEF u
  <2> QED BY <2>1, <2>2
<1> HIDE DEF u
<1>5. CASE t[p] = Space
  <2>1. s = Enter(u, "tagsGap", p) /\ X = TagsGapRest(t, lim, r.far, p, q)
    BY <1>2, <1>3, <1>5, BytesApart
  <2> HIDE DEF q
  <2>2. Carries(t, lim, u, Enter(u, "tagsGap", p), Rest(t, lim, "tagsGap", p, u.n, u.far, q), q, 0)
    <3>1. "tagsGap" \in Modes /\ "tagsGap" \notin Uncounted
      BY DEF Modes, Uncounted
    <3> QED BY <1>1, <1>4, <3>1, EnterCarries
  <2>3. Rest(t, lim, "tagsGap", p, u.n, u.far, q) = TagsGapRest(t, lim, r.far, p, q)
    BY <1>4 DEF Rest
  <2>4. Carries(t, lim, u, s, X, q, 0)
    BY <2>1, <2>2, <2>3
  <2> HIDE DEF s, X
  <2>5. Carries(t, lim, r, s, X, q, 0)
    BY <1>4, <2>4, CarriesPlain
  <2>6. Carries(t, lim, r, s, X, q, 1)
    BY <2>5, CarriesMore
  <2> QED BY <2>6 DEF s, X, q
<1>6. CASE t[p] = Semicolon
  <2>1. s = Mark(u, "TagSeparator", p, "tag") /\ X = One("TagSeparator", p, q) \o TagRest(t, lim, r.far, q, m)
    BY <1>2, <1>3, <1>6, BytesApart
  <2>2. Carries(t, lim, u, Mark(u, "TagSeparator", p, "tag"),
                One("TagSeparator", p, p + 1) \o Rest(t, lim, "tag", p + 1, u.n, u.far, p + 1), p + 1, 1)
    <3>1. "TagSeparator" \in Types /\ "tag" \in Modes /\ "tag" \notin Uncounted
      BY DEF Types, Modes, Uncounted
    <3> QED BY <1>4, <3>1, MarkCarries
  <2>3. Rest(t, lim, "tag", q, u.n, u.far, q) = TagRest(t, lim, r.far, q, m)
    BY <1>4 DEF Rest
  <2>4. Carries(t, lim, u, s, X, q, 1)
    BY <2>1, <2>2, <2>3
  <2> HIDE DEF s, X, q
  <2>5. Carries(t, lim, r, s, X, q, 1)
    BY <1>4, <2>4, CarriesPlain
  <2> QED BY <2>5 DEF s, X, q
<1> QED BY <1>5, <1>6

\* So does the byte behind a key.
LEMMA AfterKeyCarries ==
  ASSUME NEW t, NEW lim, Line(t, lim), NEW r, Kept(r), r.j + 1 <= r.scratch.room, r.error = <<>>,
         NEW p \in 1..Len(t), p <= r.far, t[p] \in KeyStops
  PROVE  Carries(t, lim, r, AfterKey(r, t[p], p), KeyEnds(t, lim, r.far, TagList(t, lim, r.far), p, r.n), p + 1, 1)
<1> DEFINE s == AfterKey(r, t[p], p)
           T == TagList(t, lim, r.far)
           X == KeyEnds(t, lim, r.far, T, p, r.n)
           q == p + 1
<1>1. /\ Len(t) \in Nat /\ r.n \in Nat /\ r.far \in Nat
  BY DEF Line, Kept, Machine
<1>2. CASE t[p] = "="
  <2>1. s = Mark(r, "TagValueStart", p, "value")
    BY <1>2 DEF AfterKey
  <2>2. X = One("TagValueStart", p, q) \o ValueEnds(t, lim, r.far, T, q, q, r.n)
    BY <1>1, <1>2, KeyEndsStep, ZenonT(60)
  <2>3. Carries(t, lim, r, Mark(r, "TagValueStart", p, "value"),
                One("TagValueStart", p, p + 1) \o Rest(t, lim, "value", p + 1, r.n, r.far, p + 1), p + 1, 1)
    <3>1. "TagValueStart" \in Types /\ "value" \in Modes /\ "value" \notin Uncounted
      BY DEF Types, Modes, Uncounted
    <3> QED BY <3>1, MarkCarries
  <2>4. Rest(t, lim, "value", q, r.n, r.far, q) = ValueEnds(t, lim, r.far, T, q, q, r.n)
    BY DEF Rest
  <2> QED BY <2>1, <2>2, <2>3, <2>4
<1>3. CASE t[p] # "="
  <2>1. s = EndsTag(r, t[p], p)
    BY <1>3 DEF AfterKey
  <2>2. X = TagEnds(t, lim, r.far, T, p, r.n)
    BY <1>3 DEF KeyEnds
  <2>3. t[p] = Space \/ t[p] = Semicolon
    BY <1>3 DEF KeyStops
  <2>4. Carries(t, lim, r, EndsTag(r, t[p], p), TagEnds(t, lim, r.far, T, p, r.n), q, 1)
    BY <2>3, EndsTagCarries
  <2> HIDE DEF s, X, T, q
  <2>5. Carries(t, lim, r, s, X, q, 1)
    BY <2>1, <2>2, <2>4
  <2> QED BY <2>5 DEF s, X, T, q
<1> QED BY <1>2, <1>3

\* What closing the token of a run changes.
LEMMA ClosedIs ==
  ASSUME NEW r, Kept(r), r.j + 2 <= r.scratch.room, NEW p \in Nat
  PROVE  LET u == Closed(r, p)
         IN  /\ Kept(u) /\ u.j + 1 <= u.scratch.room
             /\ u.mode = r.mode /\ u.from = r.from /\ u.n = r.n /\ u.far = r.far /\ u.error = r.error
<1> DEFINE u == Closed(r, p)
<1>1. r.j \in Nat /\ r.scratch.room \in Nat /\ r.j + 1 <= r.scratch.room
  BY DEF Kept, Machine
<1>2. /\ Wrote(r, u, Close(r, p), 1)
      /\ u.mode = r.mode /\ u.from = r.from /\ u.n = r.n /\ u.far = r.far /\ u.error = r.error
  BY <1>1, ClosedDoes
<1> HIDE DEF u
<1>3. Kept(u) /\ u.j \in Nat /\ u.j <= r.j + 1 /\ u.scratch.room = r.scratch.room
  BY <1>2 DEF Wrote, Kept, Machine
<1>4. u.j + 1 <= u.scratch.room
  BY <1>1, <1>3
<1> QED BY <1>2, <1>3, <1>4 DEF u

\* A byte of the tags that is too far, behind any mode but the space after them.
LEMMA FarCarries ==
  ASSUME NEW t, NEW lim, Line(t, lim), NEW r, NEW p \in 1..Len(t), Fit(r, p), r.mode \in TagModes \ {"tagsGap"},
         p > r.far
  PROVE  Carries(t, lim, r, Fails(r, "tagDataLimit", p), Rest(t, lim, r.mode, r.from, r.n, r.far, p), p + 1, 0)
<1> DEFINE X == Rest(t, lim, r.mode, r.from, r.n, r.far, p)
           T == TagList(t, lim, r.far)
           q == p + 1
<1>1. /\ Len(t) \in Nat /\ r.n \in Nat /\ r.far \in Nat /\ r.from \in Nat /\ Kept(r) /\ p \in Nat /\ p <= q
      /\ p \in 1..(Len(t) + 1)
  BY DEF Line, Fit, Kept, Machine
<1>2. p = r.far + 1
  <2>1. r.mode \in TagModes
    OBVIOUS
  <2> QED BY <1>1, <2>1 DEF Fit
<1>3. X = Throw("tagDataLimit", r.far + 1)
  <2>1. r.mode \in {"tag", "client", "key", "value"}
    BY DEF TagModes
  <2>2. CASE r.mode = "tag"
    <3>1. X = TagRest(t, lim, r.far, p, r.n)
      BY <2>2 DEF Rest
    <3> QED BY <1>1, <3>1, TagStep, ZenonT(60)
  <2>3. CASE r.mode = "client"
    <3>1. X = ClientRest(t, lim, r.far, p, r.n)
      BY <2>3 DEF Rest
    <3> QED BY <1>1, <3>1, ClientStep, ZenonT(60)
  <2>4. CASE r.mode \in {"key", "value"}
    <3>1. X \in {ToKeyEnds(t, lim, r.far, T, r.from, p, r.n), ValueEnds(t, lim, r.far, T, r.from, p, r.n)}
      BY <2>4 DEF Rest
    <3> HIDE DEF T, X
    <3> QED BY <1>1, <3>1, FarAbsorbs
  <2> QED BY <2>1, <2>2, <2>3, <2>4
<1> HIDE DEF X, q
<1>4. X = Throw("tagDataLimit", p)
  BY <1>2, <1>3
<1>5. Carries(t, lim, r, Fails(r, "tagDataLimit", p), Throw("tagDataLimit", p), q, 0)
  BY <1>1, FailsCarries DEF Limits
<1> QED BY <1>4, <1>5 DEF X, q

\* What the token is that Closed writes.
LEMMA CloseIs ==
  ASSUME NEW r, NEW p
  PROVE  /\ r.mode = "key" => Close(r, p) = One("TagKey", r.from, p)
         /\ r.mode = "value" => Close(r, p) = One("TagValue", r.from, p)
         /\ r.mode \in {"tagsGap", "prefixGap", "gap"} => Close(r, p) = One("Separator", r.from, p)
         /\ r.mode = "command" => Close(r, p) = One("Command", r.from, p)
         /\ r.mode = "middle" => Close(r, p) = One("MiddleParameter", r.from, p)
         /\ r.mode = "trailing" => Close(r, p) = One("TrailingParameter", r.from, p)
         /\ r.mode \in {"lead", "tag", "client"} => Close(r, p) = <<>>
  BY ContentIs DEF Close

\* In a prefix, it is left out when it is empty.
LEMMA CloseUnless ==
  ASSUME NEW r, NEW p \in Nat, r.from \in Nat, r.from <= p
  PROVE  /\ r.mode = "name" => Close(r, p) = Unless("PrefixName", r.from, p)
         /\ r.mode = "user" => Close(r, p) = Unless("PrefixUser", r.from, p)
         /\ r.mode = "host" => Close(r, p) = Unless("PrefixHost", r.from, p)
<1> DEFINE f == r.from
           m == r.mode
<1>1. p = f <=> ~(p > f)
  OBVIOUS
<1>2. \A k : Unless(k, f, p) = IF p = f THEN <<>> ELSE One(k, f, p)
  BY <1>1 DEF Unless
<1>3. m \in {"name", "user", "host"} => Close(r, p) = IF p = f THEN <<>> ELSE One(Content[m], f, p)
  BY ContentIs DEF Close
<1>4. m = "name" => Close(r, p) = Unless("PrefixName", f, p)
  BY <1>2, <1>3, ContentIs
<1>5. m = "user" => Close(r, p) = Unless("PrefixUser", f, p)
  BY <1>2, <1>3, ContentIs
<1>6. m = "host" => Close(r, p) = Unless("PrefixHost", f, p)
  BY <1>2, <1>3, ContentIs
<1> QED BY <1>4, <1>5, <1>6

\* What is known of a run in the line.
Runs(t, lim, r, p) == Line(t, lim) /\ p \in 1..Len(t) /\ Fit(r, p) /\ r.j + 2 <= r.scratch.room

\* What is known of a run, part by part.
LEMMA RunsIs ==
  ASSUME NEW t, NEW lim, NEW r, NEW p, Runs(t, lim, r, p)
  PROVE  /\ Len(t) \in Nat /\ lim.tagData \in Nat /\ p \in 1..Len(t) /\ p \in Nat /\ p \in 1..(Len(t) + 1)
         /\ Kept(r) /\ r.from \in Nat /\ r.n \in Nat /\ r.far \in Nat /\ r.j \in Nat /\ r.from <= p
         /\ r.j + 1 <= r.scratch.room
         /\ r.mode \in Modes \cup {"thrown"}
         /\ r.mode \in TagModes => p <= r.far + 1
         /\ r.mode \in Modes => r.error = <<>>
         /\ r.mode \in Uncounted => r.n = 0
<1>1. Len(t) \in Nat /\ lim.tagData \in Nat /\ p \in 1..Len(t) /\ Kept(r)
  BY DEF Runs, Line, Fit
<1>2. /\ r.from \in Nat /\ r.n \in Nat /\ r.far \in Nat /\ r.j \in Nat /\ r.mode \in Modes \cup {"thrown"}
      /\ r.scratch.room \in Nat
  BY <1>1 DEF Kept, Machine
<1>3. r.from <= p /\ r.j + 2 <= r.scratch.room
  BY DEF Runs, Fit
<1>4. "thrown" \notin Modes
  BY DEF Modes
<1>5. r.mode \in TagModes => p <= r.far + 1
  BY DEF Runs, Fit
<1>6. r.mode \in Modes => r.error = <<>>
  BY <1>4 DEF Runs, Fit
<1>7. r.mode \in Uncounted => r.n = 0
  BY DEF Runs, Fit
<1> QED BY <1>1, <1>2, <1>3, <1>5, <1>6, <1>7

\* The byte that closes the token of a run: what follows is known of the closed run.
LEMMA ClosesCarries ==
  ASSUME NEW t, NEW lim, NEW r, NEW p, Runs(t, lim, r, p), NEW s, NEW X, NEW q, NEW k \in {0, 1},
         Carries(t, lim, Closed(r, p), s, X, q, k)
  PROVE  Carries(t, lim, r, s, Close(r, p) \o X, q, 2)
<1>1. Kept(r) /\ r.j + 1 <= r.scratch.room /\ p \in Nat
  BY RunsIs
<1>2. Carries(t, lim, r, s, Close(r, p) \o X, q, k + 1)
  BY <1>1, ClosedCarries
<1> QED BY <1>1, <1>2, CarriesMore

\* The last space behind the tags, before their limit.
LEMMA TagsGapTo ==
  ASSUME NEW t, Len(t) \in Nat, NEW lim, NEW far \in Nat, NEW f, NEW p \in 1..Len(t), t[p] # Space, p <= far
  PROVE  TagsGapRest(t, lim, far, f, p) = One("Separator", f, p) \o Rfc1459(t, lim, p)
<1>1. Spaces(t, p) = p /\ ~(far < p)
  BY SpacesStep
<1>2. TagsGapRest(t, lim, far, f, p) = Then(t, One("Separator", f, p), p, Rfc1459(t, lim, p))
  BY <1>1 DEF TagsGapRest
<1> QED BY <1>2, ThenIn

\* One more space behind the tags.
LEMMA TagsGapOn ==
  ASSUME NEW t, Len(t) \in Nat, NEW lim, NEW far, NEW f, NEW p \in 1..Len(t), t[p] = Space
  PROVE  \A q : q = p + 1 => TagsGapRest(t, lim, far, f, p) = TagsGapRest(t, lim, far, f, q)
<1>1. Spaces(t, p) = Spaces(t, p + 1)
  BY SpacesStep
<1> QED BY <1>1 DEF TagsGapRest

\* A byte in the spaces behind the tags is carried over.
LEMMA TagsGapCarries ==
  ASSUME NEW t, NEW lim, NEW r, NEW p, Runs(t, lim, r, p), r.mode = "tagsGap"
  PROVE  Carries(t, lim, r, TagByte(r, lim, t[p], p, Len(t) + 1 - p), Ahead(t, lim, r, p), p + 1, 2)
<1> DEFINE s == TagByte(r, lim, t[p], p, Len(t) + 1 - p)
           u == Closed(r, p)
           X == TagsGapRest(t, lim, r.far, r.from, p)
           q == p + 1
<1>1. Ahead(t, lim, r, p) = X
  BY DEF Ahead, Rest
<1>2. /\ Len(t) \in Nat /\ lim.tagData \in Nat /\ p \in 1..Len(t) /\ p \in Nat /\ p \in 1..(Len(t) + 1)
      /\ Kept(r) /\ r.from \in Nat /\ r.n \in Nat /\ r.far \in Nat /\ r.error = <<>> /\ p <= r.far + 1 /\ p <= q
  BY RunsIs DEF TagModes, Modes
<1>3. /\ Kept(u) /\ u.j + 1 <= u.scratch.room /\ u.error = <<>>
      /\ Close(r, p) = One("Separator", r.from, p)
  BY <1>2, ClosedIs, CloseIs DEF Runs
<1>4. s = IF p > r.far THEN Fails(u, "tagDataLimit", p)
          ELSE IF t[p] = Space THEN r ELSE BeginsRfc(u, lim, t[p], p, Len(t) + 1 - p)
  BY <1>2 DEF TagByte
<1>8. /\ t[p] = Space => X = TagsGapRest(t, lim, r.far, r.from, p + 1)
      /\ t[p] # Space /\ p <= r.far => X = One("Separator", r.from, p) \o Rfc1459(t, lim, p)
      /\ p > r.far /\ p <= r.far + 1 => X = One("Separator", r.from, p) \o Throw("tagDataLimit", p)
  <2> DEFINE far == r.far
             f   == r.from
             c   == p + 1
  <2>1. far \in Nat /\ Len(t) \in Nat /\ p \in 1..Len(t) /\ (p <= r.far <=> p <= far) /\ (p <= r.far + 1 <=> p <= far + 1) /\ (p > r.far <=> p > far) /\ c = p + 1
    BY <1>2
  <2> HIDE DEF far, f, c
  <2>2. ASSUME t[p] = Space PROVE TagsGapRest(t, lim, far, f, p) = TagsGapRest(t, lim, far, f, c)
    BY <2>1, <2>2, TagsGapOn
  <2>3. ASSUME t[p] # Space, p <= far PROVE TagsGapRest(t, lim, far, f, p) = One("Separator", f, p) \o Rfc1459(t, lim, p)
    BY <2>1, <2>3, TagsGapTo
  <2>4. ASSUME p > far, p <= far + 1
        PROVE TagsGapRest(t, lim, far, f, p) = One("Separator", f, p) \o Throw("tagDataLimit", p)
    <3>1. far + 1 <= Len(t) /\ far < Spaces(t, p)
      <4>1. Spaces(t, p) \in p..(Len(t) + 1)
        BY <1>2, SpacesStep
      <4> QED BY <2>1, <2>4, <4>1
    <3>2. TagsGapRest(t, lim, far, f, p) = One("Separator", f, far + 1) \o Throw("tagDataLimit", far + 1)
      BY <3>1 DEF TagsGapRest
    <3>3. p = far + 1
      BY <2>1, <2>4
    <3> QED BY <3>3, <3>2
  <2>5. t[p] = Space => TagsGapRest(t, lim, r.far, r.from, p) = TagsGapRest(t, lim, r.far, r.from, p + 1)
    BY <2>2 DEF far, f, c
  <2>6. t[p] # Space /\ p <= r.far => TagsGapRest(t, lim, r.far, r.from, p) = One("Separator", r.from, p) \o Rfc1459(t, lim, p)
    BY <2>3 DEF far, f
  <2>7. p > r.far /\ p <= r.far + 1 => TagsGapRest(t, lim, r.far, r.from, p) = One("Separator", r.from, p) \o Throw("tagDataLimit", p)
    BY <2>4 DEF far, f
  <2> HIDE DEF far, f, c
  <2> QED BY <2>5, <2>6, <2>7, Zenon
<1>5. CASE p > r.far
  <2>1. X = Close(r, p) \o Throw("tagDataLimit", p)
    BY <1>2, <1>3, <1>5, <1>8
  <2>2. Carries(t, lim, u, Fails(u, "tagDataLimit", p), Throw("tagDataLimit", p), q, 0)
    BY <1>2, <1>3, FailsCarries DEF Limits
  <2>3. s = Fails(u, "tagDataLimit", p)
    BY <1>4, <1>5
  <2> HIDE DEF s, X, q
  <2>4. Carries(t, lim, r, s, X, q, 2)
    BY <2>1, <2>2, <2>3, ClosesCarries
  <2> QED BY <1>1, <2>4 DEF s, X, q
<1>6. CASE ~(p > r.far) /\ t[p] = Space
  <2>1. X = TagsGapRest(t, lim, r.far, r.from, q)
    BY <1>6, <1>8
  <2>2. Ahead(t, lim, r, q) = TagsGapRest(t, lim, r.far, r.from, q)
    BY DEF Ahead, Rest
  <2>3. Carries(t, lim, r, r, Ahead(t, lim, r, q), q, 2)
    BY <1>2, <1>6, StaysCarries DEF Runs
  <2>4. s = r
    BY <1>4, <1>6
  <2> QED BY <1>1, <2>1, <2>2, <2>3, <2>4
<1>7. CASE ~(p > r.far) /\ t[p] # Space
  <2>1. X = Close(r, p) \o Rfc1459(t, lim, p)
    <3>1. p <= r.far
      BY <1>2, <1>7
    <3> QED BY <1>3, <1>7, <1>8, <3>1
  <2>2. Carries(t, lim, u, BeginsRfc(u, lim, t[p], p, Len(t) + 1 - p), Rfc1459(t, lim, p), q, 1)
    <3>1. Line(t, lim)
      BY DEF Runs
    <3> HIDE DEF u
    <3> QED BY <1>2, <1>3, <1>7, <3>1, BeginsCarries
  <2>3. s = BeginsRfc(u, lim, t[p], p, Len(t) + 1 - p)
    BY <1>4, <1>7
  <2> HIDE DEF s, X, q
  <2>4. Carries(t, lim, r, s, X, q, 2)
    BY <2>1, <2>2, <2>3, ClosesCarries
  <2> QED BY <1>1, <2>4 DEF s, X, q
<1> QED BY <1>5, <1>6, <1>7

\* So is a byte of the tags behind their limit: both throw.
LEMMA PastCarries ==
  ASSUME NEW t, NEW lim, NEW r, NEW p, Runs(t, lim, r, p), r.mode \in TagModes \ {"tagsGap"}, p > r.far
  PROVE  Carries(t, lim, r, TagByte(r, lim, t[p], p, Len(t) + 1 - p), Ahead(t, lim, r, p), p + 1, 2)
<1> DEFINE s == TagByte(r, lim, t[p], p, Len(t) + 1 - p)
           X == Ahead(t, lim, r, p)
           q == p + 1
<1>0. p \in Nat /\ r.far \in Nat
  BY RunsIs
<1>1. Line(t, lim) /\ p \in 1..Len(t) /\ Fit(r, p) /\ Kept(r)
  BY DEF Runs, Fit
<1>2. s = Fails(r, "tagDataLimit", p)
  BY <1>0 DEF TagByte, TagModes
<1>3. X = Rest(t, lim, r.mode, r.from, r.n, r.far, p)
  BY DEF Ahead, TagModes
<1>4. Carries(t, lim, r, Fails(r, "tagDataLimit", p), Rest(t, lim, r.mode, r.from, r.n, r.far, p), q, 0)
  BY <1>1, FarCarries
<1> HIDE DEF s, X, q
<1>5. Carries(t, lim, r, s, X, q, 0)
  BY <1>2, <1>3, <1>4
<1>6. Carries(t, lim, r, s, X, q, 2)
  BY <1>1, <1>5, CarriesMore
<1> QED BY <1>6 DEF s, X, q

\* What is at hand of a run in the tags.
LEMMA InTags ==
  ASSUME NEW t, NEW lim, NEW r, NEW p, Runs(t, lim, r, p), r.mode \in TagModes
  PROVE  /\ Line(t, lim) /\ Len(t) \in Nat /\ p \in 1..Len(t) /\ p \in Nat
         /\ p + 1 \in 1..(Len(t) + 1) /\ p <= p + 1 /\ p + 1 \in Nat
         /\ p <= r.far => p + 1 <= r.far + 1
         /\ Kept(r) /\ Fit(r, p) /\ r.error = <<>>
         /\ r.from \in Nat /\ r.n \in Nat /\ r.far \in Nat /\ r.j + 1 <= r.scratch.room
<1>1. /\ Len(t) \in Nat /\ p \in 1..Len(t) /\ Kept(r) /\ r.from \in Nat /\ r.n \in Nat /\ r.far \in Nat
      /\ r.j + 1 <= r.scratch.room /\ r.error = <<>>
  BY RunsIs DEF TagModes, Modes
<1>2. Line(t, lim) /\ Fit(r, p)
  BY DEF Runs
<1>3. p \in Nat /\ p + 1 \in 1..(Len(t) + 1) /\ p <= p + 1 /\ p + 1 \in Nat /\ (p <= r.far => p + 1 <= r.far + 1)
  BY <1>1
<1> QED BY <1>1, <1>2, <1>3

\* So is the first byte of a tag.
LEMMA TagCarries ==
  ASSUME NEW t, NEW lim, NEW r, NEW p, Runs(t, lim, r, p), r.mode = "tag", p <= r.far
  PROVE  Carries(t, lim, r, TagByte(r, lim, t[p], p, Len(t) + 1 - p), Ahead(t, lim, r, p), p + 1, 2)
<1> DEFINE s   == TagByte(r, lim, t[p], p, Len(t) + 1 - p)
           n   == r.n
           far == r.far
           T   == TagList(t, lim, far)
           X   == TagRest(t, lim, far, p, n)
           q   == p + 1
<1>1. Ahead(t, lim, r, p) = X
  BY DEF Ahead, Rest
<1>2. /\ Line(t, lim) /\ Len(t) \in Nat /\ p \in 1..Len(t) /\ p \in Nat /\ q \in 1..(Len(t) + 1) /\ p <= q /\ q = p + 1
      /\ q <= far + 1 /\ Kept(r) /\ r.error = <<>> /\ n \in Nat /\ far \in Nat /\ r.j + 1 <= r.scratch.room
      /\ ~(p > far)
  BY InTags DEF TagModes
<1>3. s = IF n >= lim.tagCount THEN Fails(r, "tagCountLimit", p)
          ELSE IF t[p] = "+" THEN Mark(r, "TagClientKeyStart", p, "client")
          ELSE IF t[p] \in KeyStops THEN AfterKey(r, t[p], p) ELSE Enter(r, "key", p)
  BY <1>2 DEF TagByte
<1>10. p <= far
  OBVIOUS
<1> HIDE DEF s, n, far, T, X
<1>4. X = IF n >= lim.tagCount THEN Throw("tagCountLimit", p)
          ELSE IF t[p] = "+" THEN One("TagClientKeyStart", p, q) \o ClientRest(t, lim, far, q, n)
          ELSE IF t[p] \in KeyStops THEN KeyEnds(t, lim, far, T, p, n)
          ELSE ToKeyEnds(t, lim, far, T, p, q, n)
  <2>1. Len(t) \in Nat /\ far \in Nat /\ n \in Nat /\ p \in 1..Len(t)
    BY <1>2
  <2>2. TagRest(t, lim, far, p, n) =
          IF p > far THEN Throw("tagDataLimit", far + 1)
          ELSE IF n >= lim.tagCount THEN Throw("tagCountLimit", p)
          ELSE IF t[p] = "+" THEN One("TagClientKeyStart", p, p + 1) \o ClientRest(t, lim, far, p + 1, n)
          ELSE IF t[p] \in KeyStops THEN KeyEnds(t, lim, far, TagList(t, lim, far), p, n)
          ELSE ToKeyEnds(t, lim, far, TagList(t, lim, far), p, p + 1, n)
    BY <2>1, TagStep, ZenonT(60)
  <2> QED BY <1>2, <2>2 DEF X, T
<1>5. ASSUME n >= lim.tagCount
      PROVE  Carries(t, lim, r, s, X, q, 2)
  <2>1. Carries(t, lim, r, Fails(r, "tagCountLimit", p), Throw("tagCountLimit", p), q, 0)
    BY <1>2, FailsCarries DEF Limits
  <2> HIDE DEF q
  <2>2. Carries(t, lim, r, s, X, q, 0)
    BY <1>3, <1>4, <1>5, <2>1
  <2> QED BY <1>2, <2>2, CarriesMore
<1>6. ASSUME ~(n >= lim.tagCount) /\ t[p] = "+"
      PROVE  Carries(t, lim, r, s, X, q, 2)
  <2>1. Carries(t, lim, r, Mark(r, "TagClientKeyStart", p, "client"),
                One("TagClientKeyStart", p, q) \o Rest(t, lim, "client", q, n, far, q), q, 1)
    BY <1>2, <1>10, MarkCarries DEF Types, Modes, Uncounted, n, far
  <2>2. Rest(t, lim, "client", q, n, far, q) = ClientRest(t, lim, far, q, n)
    BY DEF Rest
  <2> HIDE DEF q
  <2>3. Carries(t, lim, r, s, X, q, 1)
    BY <1>3, <1>4, <1>6, <2>1, <2>2
  <2> QED BY <1>2, <2>3, CarriesMore
<1>7. ASSUME ~(n >= lim.tagCount) /\ t[p] # "+" /\ t[p] \in KeyStops
      PROVE  Carries(t, lim, r, s, X, q, 2)
  <2>1. Carries(t, lim, r, AfterKey(r, t[p], p), KeyEnds(t, lim, far, T, p, n), q, 1)
    BY <1>2, <1>7, <1>10, AfterKeyCarries DEF n, far, T
  <2> HIDE DEF q
  <2>3. Carries(t, lim, r, s, X, q, 1)
    BY <1>3, <1>4, <1>7, <2>1
  <2> QED BY <1>2, <2>3, CarriesMore
<1>8. ASSUME ~(n >= lim.tagCount) /\ t[p] # "+" /\ t[p] \notin KeyStops
      PROVE  Carries(t, lim, r, s, X, q, 2)
  <2>1. Carries(t, lim, r, Enter(r, "key", p), Rest(t, lim, "key", p, n, far, q), q, 0)
    BY <1>2, <1>10, EnterCarries DEF Modes, Uncounted, n, far
  <2>2. Rest(t, lim, "key", p, n, far, q) = ToKeyEnds(t, lim, far, T, p, q, n)
    BY DEF Rest, T
  <2> HIDE DEF q
  <2>3. Carries(t, lim, r, s, X, q, 0)
    BY <1>3, <1>4, <1>8, <2>1, <2>2
  <2> QED BY <1>2, <2>3, CarriesMore
<1>9. Carries(t, lim, r, s, X, q, 2)
  BY <1>5, <1>6, <1>7, <1>8
<1> QED BY <1>1, <1>9 DEF s

\* So is the byte behind the mark of a client's tag.
LEMMA ClientCarries ==
  ASSUME NEW t, NEW lim, NEW r, NEW p, Runs(t, lim, r, p), r.mode = "client", p <= r.far
  PROVE  Carries(t, lim, r, TagByte(r, lim, t[p], p, Len(t) + 1 - p), Ahead(t, lim, r, p), p + 1, 2)
<1> DEFINE s   == TagByte(r, lim, t[p], p, Len(t) + 1 - p)
           n   == r.n
           far == r.far
           T   == TagList(t, lim, far)
           X   == ClientRest(t, lim, far, p, n)
           q   == p + 1
<1>1. Ahead(t, lim, r, p) = X
  BY DEF Ahead, Rest
<1>2. /\ Line(t, lim) /\ Len(t) \in Nat /\ p \in 1..Len(t) /\ p \in Nat /\ q \in 1..(Len(t) + 1) /\ p <= q /\ q = p + 1
      /\ q <= far + 1 /\ Kept(r) /\ r.error = <<>> /\ n \in Nat /\ far \in Nat /\ r.j + 1 <= r.scratch.room
      /\ ~(p > far)
  BY InTags DEF TagModes
<1>3. s = IF t[p] \in KeyStops THEN AfterKey(r, t[p], p) ELSE Enter(r, "key", p)
  BY <1>2 DEF TagByte
<1>10. p <= far
  OBVIOUS
<1> HIDE DEF s, n, far, T, X
<1>4. X = IF t[p] \in KeyStops THEN KeyEnds(t, lim, far, T, p, n) ELSE ToKeyEnds(t, lim, far, T, p, q, n)
  <2>1. Len(t) \in Nat /\ far \in Nat /\ n \in Nat /\ p \in 1..Len(t)
    BY <1>2
  <2>2. ClientRest(t, lim, far, p, n) =
          IF p > far THEN Throw("tagDataLimit", far + 1)
          ELSE IF t[p] \in KeyStops THEN KeyEnds(t, lim, far, TagList(t, lim, far), p, n)
          ELSE ToKeyEnds(t, lim, far, TagList(t, lim, far), p, p + 1, n)
    BY <2>1, ClientStep, Zenon
  <2> QED BY <1>2, <2>2 DEF X, T
<1>7. ASSUME t[p] \in KeyStops
      PROVE  Carries(t, lim, r, s, X, q, 2)
  <2>1. Carries(t, lim, r, AfterKey(r, t[p], p), KeyEnds(t, lim, far, T, p, n), q, 1)
    BY <1>2, <1>7, <1>10, AfterKeyCarries DEF n, far, T
  <2> HIDE DEF q
  <2>3. Carries(t, lim, r, s, X, q, 1)
    BY <1>3, <1>4, <1>7, <2>1
  <2> QED BY <1>2, <2>3, CarriesMore
<1>8. ASSUME t[p] \notin KeyStops
      PROVE  Carries(t, lim, r, s, X, q, 2)
  <2>1. Carries(t, lim, r, Enter(r, "key", p), Rest(t, lim, "key", p, n, far, q), q, 0)
    BY <1>2, <1>10, EnterCarries DEF Modes, Uncounted, n, far
  <2>2. Rest(t, lim, "key", p, n, far, q) = ToKeyEnds(t, lim, far, T, p, q, n)
    BY DEF Rest, T
  <2> HIDE DEF q
  <2>3. Carries(t, lim, r, s, X, q, 0)
    BY <1>3, <1>4, <1>8, <2>1, <2>2
  <2> QED BY <1>2, <2>3, CarriesMore
<1>9. Carries(t, lim, r, s, X, q, 2)
  BY <1>7, <1>8
<1> QED BY <1>1, <1>9 DEF s

\* So is a byte of a key.
LEMMA KeyCarries ==
  ASSUME NEW t, NEW lim, NEW r, NEW p, Runs(t, lim, r, p), r.mode = "key", p <= r.far
  PROVE  Carries(t, lim, r, TagByte(r, lim, t[p], p, Len(t) + 1 - p), Ahead(t, lim, r, p), p + 1, 2)
<1> DEFINE s   == TagByte(r, lim, t[p], p, Len(t) + 1 - p)
           u   == Closed(r, p)
           n   == r.n
           f   == r.from
           far == r.far
           T   == TagList(t, lim, far)
           X   == ToKeyEnds(t, lim, far, T, f, p, n)
           q   == p + 1
<1>1. Ahead(t, lim, r, p) = X /\ Ahead(t, lim, r, q) = ToKeyEnds(t, lim, far, T, f, q, n)
  BY DEF Ahead, Rest
<1>2. /\ Line(t, lim) /\ Len(t) \in Nat /\ p \in 1..Len(t) /\ p \in Nat /\ q \in 1..(Len(t) + 1) /\ q = p + 1
      /\ Kept(r) /\ Fit(r, p) /\ n \in Nat /\ far \in Nat /\ f \in Nat /\ p <= far /\ r.error = <<>>
  BY InTags DEF TagModes
<1>3. s = IF t[p] \in KeyStops THEN AfterKey(u, t[p], p) ELSE r
  BY <1>2 DEF TagByte
<1>5. /\ Kept(u) /\ u.j + 1 <= u.scratch.room /\ u.error = <<>> /\ u.n = n /\ u.far = far
      /\ Close(r, p) = One("TagKey", f, p)
  BY <1>2, ClosedIs, CloseIs DEF Runs
<1> HIDE DEF s, n, far, T, X, f
<1>4. X = IF t[p] \notin KeyStops THEN ToKeyEnds(t, lim, far, T, f, q, n)
          ELSE One("TagKey", f, p) \o KeyEnds(t, lim, far, T, p, n)
  <2>1. KeyGoesOn(t, lim, far, T, f, p, n)
    BY <1>2, KeyStep
  <2> QED BY <1>2, <2>1, Zenon DEF KeyGoesOn, X
<1>7. ASSUME t[p] \in KeyStops
      PROVE  Carries(t, lim, r, s, X, q, 2)
  <2>1. Carries(t, lim, u, AfterKey(u, t[p], p), KeyEnds(t, lim, far, T, p, n), q, 1)
    <3> HIDE DEF u
    <3> QED BY <1>2, <1>5, <1>7, AfterKeyCarries DEF T
  <2> HIDE DEF q
  <2>2. Carries(t, lim, u, s, KeyEnds(t, lim, far, T, p, n), q, 1)
    BY <1>3, <1>7, <2>1
  <2>3. X = Close(r, p) \o KeyEnds(t, lim, far, T, p, n)
    BY <1>4, <1>5, <1>7
  <2> HIDE DEF u
  <2>4. Carries(t, lim, r, s, Close(r, p) \o KeyEnds(t, lim, far, T, p, n), q, 2)
    BY <2>2, ClosesCarries DEF u
  <2> QED BY <2>3, <2>4
<1>8. ASSUME t[p] \notin KeyStops
      PROVE  Carries(t, lim, r, s, X, q, 2)
  <2>1. Carries(t, lim, r, r, Ahead(t, lim, r, q), q, 2)
    BY <1>2, StaysCarries DEF far
  <2> HIDE DEF q
  <2> QED BY <1>1, <1>3, <1>4, <1>8, <2>1
<1>9. Carries(t, lim, r, s, X, q, 2)
  BY <1>7, <1>8
<1> QED BY <1>1, <1>9 DEF s

\* So is a byte of a value.
LEMMA ValueCarries ==
  ASSUME NEW t, NEW lim, NEW r, NEW p, Runs(t, lim, r, p), r.mode = "value", p <= r.far
  PROVE  Carries(t, lim, r, TagByte(r, lim, t[p], p, Len(t) + 1 - p), Ahead(t, lim, r, p), p + 1, 2)
<1> DEFINE s   == TagByte(r, lim, t[p], p, Len(t) + 1 - p)
           u   == Closed(r, p)
           n   == r.n
           f   == r.from
           far == r.far
           T   == TagList(t, lim, far)
           X   == ValueEnds(t, lim, far, T, f, p, n)
           q   == p + 1
<1>1. Ahead(t, lim, r, p) = X /\ Ahead(t, lim, r, q) = ValueEnds(t, lim, far, T, f, q, n)
  BY DEF Ahead, Rest
<1>2. /\ Line(t, lim) /\ Len(t) \in Nat /\ p \in 1..Len(t) /\ p \in Nat /\ q \in 1..(Len(t) + 1) /\ q = p + 1
      /\ Kept(r) /\ Fit(r, p) /\ n \in Nat /\ far \in Nat /\ f \in Nat /\ p <= far /\ r.error = <<>>
  BY InTags DEF TagModes
<1>3. s = IF t[p] \in ValueStops THEN EndsTag(u, t[p], p) ELSE r
  BY <1>2 DEF TagByte
<1>5. /\ Kept(u) /\ u.j + 1 <= u.scratch.room /\ u.error = <<>> /\ u.n = n /\ u.far = far
      /\ Close(r, p) = One("TagValue", f, p)
  BY <1>2, ClosedIs, CloseIs DEF Runs
<1> HIDE DEF s, n, far, T, X, f
<1>4. X = IF t[p] \notin ValueStops THEN ValueEnds(t, lim, far, T, f, q, n)
          ELSE One("TagValue", f, p) \o TagEnds(t, lim, far, T, p, n)
  <2>1. Len(t) \in Nat /\ far \in Nat /\ n \in Nat /\ p \in 1..Len(t) /\ p <= far
    BY <1>2
  <2>2. ValueEnds(t, lim, far, TagList(t, lim, far), f, p, n) =
          IF t[p] \notin ValueStops THEN ValueEnds(t, lim, far, TagList(t, lim, far), f, p + 1, n)
          ELSE One("TagValue", f, p) \o TagEnds(t, lim, far, TagList(t, lim, far), p, n)
    BY <2>1, ValueStep, ZenonT(60)
  <2> QED BY <2>2 DEF X, T
<1>7. ASSUME t[p] \in ValueStops
      PROVE  Carries(t, lim, r, s, X, q, 2)
  <2>1. Carries(t, lim, u, EndsTag(u, t[p], p), TagEnds(t, lim, far, T, p, n), q, 1)
    <3> HIDE DEF u
    <3> QED BY <1>2, <1>5, <1>7, EndsTagCarries DEF T, ValueStops
  <2> HIDE DEF q
  <2>2. Carries(t, lim, u, s, TagEnds(t, lim, far, T, p, n), q, 1)
    BY <1>3, <1>7, <2>1
  <2>3. X = Close(r, p) \o TagEnds(t, lim, far, T, p, n)
    BY <1>4, <1>5, <1>7
  <2> HIDE DEF u
  <2>4. Carries(t, lim, r, s, Close(r, p) \o TagEnds(t, lim, far, T, p, n), q, 2)
    BY <2>2, ClosesCarries DEF u
  <2> QED BY <2>3, <2>4
<1>8. ASSUME t[p] \notin ValueStops
      PROVE  Carries(t, lim, r, s, X, q, 2)
  <2>1. Carries(t, lim, r, r, Ahead(t, lim, r, q), q, 2)
    BY <1>2, StaysCarries DEF far
  <2> HIDE DEF q
  <2> QED BY <1>1, <1>3, <1>4, <1>8, <2>1
<1>9. Carries(t, lim, r, s, X, q, 2)
  BY <1>7, <1>8
<1> QED BY <1>1, <1>9 DEF s

\* The modes behind the tags.
RfcModes == Modes \ (TagModes \cup {"lead"})

\* What is at hand of a run there.
LEMMA InRfc ==
  ASSUME NEW t, NEW lim, NEW r, NEW p, Runs(t, lim, r, p), r.mode \in RfcModes
  PROVE  /\ Line(t, lim) /\ Len(t) \in Nat /\ p \in 1..Len(t) /\ p \in Nat
         /\ p + 1 \in 1..(Len(t) + 1) /\ p <= p + 1 /\ p + 1 \in Nat
         /\ Kept(r) /\ Fit(r, p) /\ r.error = <<>> /\ r.mode \in Modes /\ r.mode \notin TagModes
         /\ r.from \in Nat /\ r.n \in Nat /\ r.from <= p
         /\ r.mode \in Uncounted => r.n = 0
<1>1. /\ Len(t) \in Nat /\ p \in 1..Len(t) /\ Kept(r) /\ r.from \in Nat /\ r.n \in Nat
      /\ r.error = <<>> /\ r.from <= p /\ (r.mode \in Uncounted => r.n = 0)
  BY RunsIs DEF RfcModes
<1>2. Line(t, lim) /\ Fit(r, p)
  BY DEF Runs
<1>3. p \in Nat /\ p + 1 \in 1..(Len(t) + 1) /\ p <= p + 1 /\ p + 1 \in Nat
  BY <1>1
<1>4. r.mode \in Modes /\ r.mode \notin TagModes
  BY DEF RfcModes
<1> QED BY <1>1, <1>2, <1>3, <1>4

\* A byte that ends one token and is in the next mode.
LEMMA LeaveCarries ==
  ASSUME NEW t, NEW lim, NEW r, NEW p, Runs(t, lim, r, p), r.mode \in RfcModes,
         NEW mode \in RfcModes, mode \in Uncounted => r.n = 0
  PROVE  Carries(t, lim, r, Enter(Closed(r, p), mode, p),
                 Close(r, p) \o Rest(t, lim, mode, p, r.n, r.far, p + 1), p + 1, 2)
<1> DEFINE u == Closed(r, p)
           q == p + 1
<1>1. /\ Line(t, lim) /\ p \in Nat /\ q \in 1..(Len(t) + 1) /\ p <= q /\ Kept(r) /\ r.error = <<>>
      /\ mode \in Modes /\ mode \notin TagModes
  BY InRfc DEF RfcModes
<1>2. Kept(u) /\ u.error = <<>> /\ u.n = r.n /\ u.far = r.far
  BY <1>1, ClosedIs DEF Runs
<1> HIDE DEF u, q
<1>3. Carries(t, lim, u, Enter(u, mode, p), Rest(t, lim, mode, p, u.n, u.far, q), q, 0)
  BY <1>1, <1>2, EnterCarries
<1>4. Carries(t, lim, u, Enter(u, mode, p), Rest(t, lim, mode, p, r.n, r.far, q), q, 0)
  BY <1>2, <1>3
<1>5. Carries(t, lim, r, Enter(u, mode, p), Close(r, p) \o Rest(t, lim, mode, p, r.n, r.far, q), q, 2)
  BY <1>4, ClosesCarries DEF u
<1> QED BY <1>5 DEF u, q

\* A byte that ends one token and is one.
LEMMA MoveCarries ==
  ASSUME NEW t, NEW lim, NEW r, NEW p, Runs(t, lim, r, p), r.mode \in RfcModes,
         NEW type \in Types, NEW mode \in RfcModes, mode \in Uncounted => r.n = 0
  PROVE  Carries(t, lim, r, Mark(Closed(r, p), type, p, mode),
                 Close(r, p) \o (One(type, p, p + 1) \o Rest(t, lim, mode, p + 1, r.n, r.far, p + 1)), p + 1, 2)
<1> DEFINE u == Closed(r, p)
           q == p + 1
<1>1. /\ Line(t, lim) /\ p \in Nat /\ p \in 1..Len(t) /\ mode \in Modes /\ mode \notin TagModes /\ q = p + 1
  BY InRfc DEF RfcModes
<1>2. Kept(u) /\ u.error = <<>> /\ u.n = r.n /\ u.far = r.far /\ u.j + 1 <= u.scratch.room
  BY <1>1, InRfc, ClosedIs DEF Runs
<1> HIDE DEF u
<1>3. Carries(t, lim, u, Mark(u, type, p, mode),
              One(type, p, q) \o Rest(t, lim, mode, q, u.n, u.far, q), q, 1)
  BY <1>1, <1>2, MarkCarries
<1> HIDE DEF q
<1>4. Carries(t, lim, u, Mark(u, type, p, mode),
              One(type, p, q) \o Rest(t, lim, mode, q, r.n, r.far, q), q, 1)
  BY <1>2, <1>3
<1>5. Carries(t, lim, r, Mark(u, type, p, mode),
              Close(r, p) \o (One(type, p, q) \o Rest(t, lim, mode, q, r.n, r.far, q)), q, 2)
  BY <1>4, ClosesCarries DEF u
<1> QED BY <1>5 DEF u, q

\* A byte that changes nothing is carried over, when the rest is as before.
LEMMA OnCarries ==
  ASSUME NEW t, NEW lim, NEW r, NEW p, Runs(t, lim, r, p), r.mode \in RfcModes
  PROVE  Carries(t, lim, r, r, Rest(t, lim, r.mode, r.from, r.n, r.far, p + 1), p + 1, 2)
<1>1. Carries(t, lim, r, r, Ahead(t, lim, r, p + 1), p + 1, 2)
  BY InRfc, StaysCarries
<1>2. r.mode # "thrown"
  BY DEF RfcModes, Modes
<1>3. Ahead(t, lim, r, p + 1) = Rest(t, lim, r.mode, r.from, r.n, r.far, p + 1)
  BY <1>2 DEF Ahead
<1> QED BY <1>1, <1>3

\* A byte of the command is carried over.
LEMMA CommandCarries ==
  ASSUME NEW t, NEW lim, NEW r, NEW p, Runs(t, lim, r, p), r.mode = "command"
  PROVE  Carries(t, lim, r, RfcByte(r, lim, t[p], p), Ahead(t, lim, r, p), p + 1, 2)
<1> DEFINE f   == r.from
           far == r.far
           s   == RfcByte(r, lim, t[p], p)
           X   == CommandRest(t, lim, f, p)
           q   == p + 1
<1>1. r.mode \in RfcModes /\ Len(t) \in Nat /\ p \in 1..Len(t) /\ r.n = 0
  BY InRfc DEF RfcModes, Modes, TagModes, Uncounted
<1>2. Ahead(t, lim, r, p) = X
  BY DEF Ahead, Rest
<1>3. s = IF t[p] = Space THEN Enter(Closed(r, p), "gap", p) ELSE r
  BY DEF RfcByte
<1>4. /\ t[p] # Space => X = CommandRest(t, lim, f, q)
      /\ t[p] = Space => X = One("Command", f, p) \o GapRest(t, lim, p, q, 0)
  BY <1>1, CommandStep, ZenonT(60)
<1>5. Close(r, p) = One("Command", f, p)
  BY CloseIs
<1>6. /\ Rest(t, lim, "command", f, 0, far, q) = CommandRest(t, lim, f, q)
      /\ Rest(t, lim, "gap", p, 0, far, q) = GapRest(t, lim, p, q, 0)
  BY DEF Rest
<1>7. ASSUME t[p] = Space PROVE Carries(t, lim, r, s, X, q, 2)
  <2>1. Carries(t, lim, r, Enter(Closed(r, p), "gap", p), Close(r, p) \o Rest(t, lim, "gap", p, r.n, far, q), q, 2)
    BY <1>1, LeaveCarries DEF RfcModes, Modes, TagModes, Uncounted
  <2> HIDE DEF s, X, q, f, far
  <2> QED BY <1>1, <1>3, <1>4, <1>5, <1>6, <1>7, <2>1
<1>8. ASSUME t[p] # Space PROVE Carries(t, lim, r, s, X, q, 2)
  <2>1. Carries(t, lim, r, r, Rest(t, lim, r.mode, f, r.n, far, q), q, 2)
    BY <1>1, OnCarries
  <2> HIDE DEF s, X, q, f, far
  <2> QED BY <1>1, <1>3, <1>4, <1>6, <1>8, <2>1
<1> HIDE DEF s, X, q
<1>9. Carries(t, lim, r, s, X, q, 2)
  BY <1>7, <1>8
<1> QED BY <1>2, <1>9 DEF s, q

\* So is a byte of a parameter.
LEMMA MiddleCarries ==
  ASSUME NEW t, NEW lim, NEW r, NEW p, Runs(t, lim, r, p), r.mode = "middle"
  PROVE  Carries(t, lim, r, RfcByte(r, lim, t[p], p), Ahead(t, lim, r, p), p + 1, 2)
<1> DEFINE f   == r.from
           n   == r.n
           far == r.far
           s   == RfcByte(r, lim, t[p], p)
           X   == MiddleRest(t, lim, f, p, n)
           q   == p + 1
<1>1. r.mode \in RfcModes /\ Len(t) \in Nat /\ p \in 1..Len(t)
  BY InRfc DEF RfcModes, Modes, TagModes
<1>2. Ahead(t, lim, r, p) = X
  BY DEF Ahead, Rest
<1>3. s = IF t[p] = Space THEN Enter(Closed(r, p), "gap", p) ELSE r
  BY DEF RfcByte
<1>4. /\ t[p] # Space => X = MiddleRest(t, lim, f, q, n)
      /\ t[p] = Space => X = One("MiddleParameter", f, p) \o GapRest(t, lim, p, q, n)
  <2>1. q = p + 1
    OBVIOUS
  <2> HIDE DEF f, n, q
  <2>2. t[p] # Space => X = MiddleRest(t, lim, f, q, n)
    BY <1>1, <2>1, MiddleOn
  <2>3. t[p] = Space => X = One("MiddleParameter", f, p) \o GapRest(t, lim, p, q, n)
    BY <1>1, <2>1, MiddleTo
  <2> HIDE DEF X
  <2> QED BY <2>2, <2>3
<1>5. Close(r, p) = One("MiddleParameter", f, p)
  BY CloseIs
<1>6. /\ Rest(t, lim, "middle", f, n, far, q) = MiddleRest(t, lim, f, q, n)
      /\ Rest(t, lim, "gap", p, n, far, q) = GapRest(t, lim, p, q, n)
  BY DEF Rest
<1>7. ASSUME t[p] = Space PROVE Carries(t, lim, r, s, X, q, 2)
  <2>1. Carries(t, lim, r, Enter(Closed(r, p), "gap", p), Close(r, p) \o Rest(t, lim, "gap", p, n, far, q), q, 2)
    BY <1>1, LeaveCarries DEF RfcModes, Modes, TagModes, Uncounted
  <2> HIDE DEF s, X, q, f, n, far
  <2> QED BY <1>3, <1>4, <1>5, <1>6, <1>7, <2>1
<1>8. ASSUME t[p] # Space PROVE Carries(t, lim, r, s, X, q, 2)
  <2>1. Carries(t, lim, r, r, Rest(t, lim, r.mode, f, n, far, q), q, 2)
    BY <1>1, OnCarries
  <2> HIDE DEF s, X, q, f, n, far
  <2> QED BY <1>3, <1>4, <1>6, <1>8, <2>1
<1> HIDE DEF s, X, q
<1>9. Carries(t, lim, r, s, X, q, 2)
  BY <1>7, <1>8
<1> QED BY <1>2, <1>9 DEF s, q

\* So is a byte in the spaces behind the prefix.
LEMMA PrefixGapCarries ==
  ASSUME NEW t, NEW lim, NEW r, NEW p, Runs(t, lim, r, p), r.mode = "prefixGap"
  PROVE  Carries(t, lim, r, RfcByte(r, lim, t[p], p), Ahead(t, lim, r, p), p + 1, 2)
<1> DEFINE f   == r.from
           far == r.far
           s   == RfcByte(r, lim, t[p], p)
           X   == PrefixGapRest(t, lim, f, p)
           q   == p + 1
<1>1. r.mode \in RfcModes /\ Len(t) \in Nat /\ p \in 1..Len(t) /\ r.n = 0
  BY InRfc DEF RfcModes, Modes, TagModes, Uncounted
<1>2. Ahead(t, lim, r, p) = X
  BY DEF Ahead, Rest
<1>3. s = IF t[p] = Space THEN r ELSE Enter(Closed(r, p), "command", p)
  BY DEF RfcByte
<1>4. /\ t[p] = Space => X = PrefixGapRest(t, lim, f, q)
      /\ t[p] # Space => X = One("Separator", f, p) \o CommandRest(t, lim, p, q)
  <2>1. /\ t[p] = Space => X = PrefixGapRest(t, lim, f, q)
        /\ t[p] # Space => X = One("Separator", f, p) \o CommandAt(t, lim, p)
    BY <1>1, PrefixGapStep, Zenon
  <2>2. t[p] # Space => CommandAt(t, lim, p) = CommandRest(t, lim, p, q)
    BY <1>1, CommandIs, Zenon
  <2> HIDE DEF X, f, q
  <2> QED BY <2>1, <2>2
<1>5. Close(r, p) = One("Separator", f, p)
  BY CloseIs
<1>6. /\ Rest(t, lim, "prefixGap", f, 0, far, q) = PrefixGapRest(t, lim, f, q)
      /\ Rest(t, lim, "command", p, 0, far, q) = CommandRest(t, lim, p, q)
  BY DEF Rest
<1>7. ASSUME t[p] # Space PROVE Carries(t, lim, r, s, X, q, 2)
  <2>1. Carries(t, lim, r, Enter(Closed(r, p), "command", p), Close(r, p) \o Rest(t, lim, "command", p, r.n, far, q), q, 2)
    BY <1>1, LeaveCarries DEF RfcModes, Modes, TagModes, Uncounted
  <2> HIDE DEF s, X, q, f, far
  <2> QED BY <1>1, <1>3, <1>4, <1>5, <1>6, <1>7, <2>1
<1>8. ASSUME t[p] = Space PROVE Carries(t, lim, r, s, X, q, 2)
  <2>1. Carries(t, lim, r, r, Rest(t, lim, r.mode, f, r.n, far, q), q, 2)
    BY <1>1, OnCarries
  <2> HIDE DEF s, X, q, f, far
  <2> QED BY <1>1, <1>3, <1>4, <1>6, <1>8, <2>1
<1> HIDE DEF s, X, q
<1>9. Carries(t, lim, r, s, X, q, 2)
  BY <1>7, <1>8
<1> QED BY <1>2, <1>9 DEF s, q

\* So is a byte of a trailing parameter.
LEMMA TrailingCarries ==
  ASSUME NEW t, NEW lim, NEW r, NEW p, Runs(t, lim, r, p), r.mode = "trailing"
  PROVE  Carries(t, lim, r, RfcByte(r, lim, t[p], p), Ahead(t, lim, r, p), p + 1, 2)
<1> DEFINE f == r.from
           s == RfcByte(r, lim, t[p], p)
           X == Trailing(t, f)
           q == p + 1
<1>1. r.mode \in RfcModes
  BY DEF RfcModes, Modes, TagModes
<1>2. Ahead(t, lim, r, p) = X
  BY DEF Ahead, Rest
<1>3. s = r
  BY DEF RfcByte
<1>4. Carries(t, lim, r, r, Rest(t, lim, r.mode, f, r.n, r.far, q), q, 2)
  BY <1>1, OnCarries
<1>5. Rest(t, lim, r.mode, f, r.n, r.far, q) = X
  BY DEF Rest
<1> HIDE DEF s, X, q, f
<1>9. Carries(t, lim, r, s, X, q, 2)
  BY <1>3, <1>4, <1>5
<1> QED BY <1>2, <1>9 DEF s, q

\* So is a byte in the spaces before a parameter.
LEMMA GapCarries ==
  ASSUME NEW t, NEW lim, NEW r, NEW p, Runs(t, lim, r, p), r.mode = "gap"
  PROVE  Carries(t, lim, r, RfcByte(r, lim, t[p], p), Ahead(t, lim, r, p), p + 1, 2)
<1> DEFINE f   == r.from
           n   == r.n
           m   == n + 1
           far == r.far
           u   == Closed(r, p)
           v   == [u EXCEPT !.n = @ + 1]
           s   == RfcByte(r, lim, t[p], p)
           X   == GapRest(t, lim, f, p, n)
           q   == p + 1
           S   == One("Separator", f, p)
<1>1. /\ r.mode \in RfcModes /\ Line(t, lim) /\ Len(t) \in Nat /\ p \in 1..Len(t) /\ p \in Nat /\ f \in Nat /\ n \in Nat
      /\ q \in 1..(Len(t) + 1) /\ p <= q /\ q = p + 1 /\ Kept(r)
  BY InRfc DEF RfcModes, Modes, TagModes, Uncounted
<1>2. Ahead(t, lim, r, p) = X
  BY DEF Ahead, Rest
<1>3. s = IF t[p] = Space THEN r
          ELSE IF n >= lim.params THEN Fails(u, "paramCountLimit", p)
          ELSE IF t[p] = ":" THEN Mark(v, "TrailingParameterStart", p, "trailing")
          ELSE Enter(v, "middle", p)
  BY DEF RfcByte
<1>4. /\ t[p] = Space => X = GapRest(t, lim, f, q, n)
      /\ t[p] # Space => X = S \o
           (IF n >= lim.params THEN Throw("paramCountLimit", p)
            ELSE IF t[p] = ":" THEN One("TrailingParameterStart", p, q) \o Trailing(t, q)
            ELSE MiddleRest(t, lim, p, q, m))
  <2> HIDE DEF f, n
  <2>1. /\ t[p] = Space => X = GapRest(t, lim, f, q, n)
        /\ t[p] # Space => X = One("Separator", f, p) \o Parameters(t, lim)[p][n]
    <3>1. q = p + 1
      OBVIOUS
    <3> HIDE DEF q
    <3>2. t[p] = Space => X = GapRest(t, lim, f, q, n)
      BY <1>1, <3>1, GapOn
    <3>3. t[p] # Space => X = One("Separator", f, p) \o Parameters(t, lim)[p][n]
      BY <1>1, GapTo
    <3> HIDE DEF X
    <3> QED BY <3>2, <3>3
  <2>2. t[p] # Space => Parameters(t, lim)[p][n] =
           IF n >= lim.params THEN Throw("paramCountLimit", p)
           ELSE IF t[p] = ":" THEN One("TrailingParameterStart", p, p + 1) \o Trailing(t, p + 1)
           ELSE MiddleRest(t, lim, p, p + 1, n + 1)
    BY <1>1, ParameterStep, Zenon
  <2> HIDE DEF X
  <2> QED BY <2>1, <2>2
<1>5. Close(r, p) = S
  BY CloseIs
<1>6. /\ Kept(u) /\ u.error = <<>> /\ u.n = n /\ u.far = far /\ u.j + 1 <= u.scratch.room
  BY <1>1, ClosedIs, InRfc DEF Runs
<1> HIDE DEF u, f
<1>7. /\ Wrote(u, v, <<>>, 0) /\ Kept(v) /\ v.error = <<>> /\ v.n = m /\ v.far = far
      /\ v.j + 1 <= v.scratch.room
  <2>1. m \in Nat /\ u.n + 1 = m
    BY <1>1, <1>6
  <2>2. v = [u EXCEPT !.n = m]
    BY <2>1
  <2> DEFINE w == [u EXCEPT !.n = m]
  <2> HIDE DEF m, v
  <2>3. Wrote(u, w, <<>>, 0) /\ w.n = m /\ w.far = u.far /\ w.error = u.error
    BY <1>6, <2>1, CountDoes
  <2> HIDE DEF w
  <2>4. Kept(w) /\ w.j + 1 <= w.scratch.room
    <3>1. u.j \in Nat /\ w.j \in Nat /\ u.scratch.room \in Nat
      BY <1>6, <2>3 DEF Wrote, Kept, Machine
    <3> QED BY <1>6, <2>3, <3>1 DEF Wrote
  <2>5. v = w
    BY <2>2 DEF w
  <2> QED BY <1>6, <2>3, <2>4, <2>5
<1> HIDE DEF v, s, X, S, m, n, far
<1>8. ASSUME t[p] = Space PROVE Carries(t, lim, r, s, X, q, 2)
  <2>1. Carries(t, lim, r, r, Rest(t, lim, r.mode, f, n, far, q), q, 2)
    BY <1>1, OnCarries DEF f, n, far
  <2>2. Rest(t, lim, r.mode, f, n, far, q) = GapRest(t, lim, f, q, n)
    BY DEF Rest
  <2> HIDE DEF q
  <2> QED BY <1>3, <1>4, <1>8, <2>1, <2>2
<1>9. ASSUME t[p] # Space, n >= lim.params PROVE Carries(t, lim, r, s, X, q, 2)
  <2>1. Carries(t, lim, u, Fails(u, "paramCountLimit", p), Throw("paramCountLimit", p), q, 0)
    BY <1>1, <1>6, FailsCarries DEF Limits
  <2> HIDE DEF q
  <2>2. Carries(t, lim, u, s, Throw("paramCountLimit", p), q, 0)
    BY <1>3, <1>9, <2>1
  <2>3. Carries(t, lim, r, s, Close(r, p) \o Throw("paramCountLimit", p), q, 2)
    BY <2>2, ClosesCarries DEF u
  <2> QED BY <1>4, <1>5, <1>9, <2>3
<1>10. ASSUME t[p] # Space, ~(n >= lim.params), t[p] = ":" PROVE Carries(t, lim, r, s, X, q, 2)
  <2>1. Carries(t, lim, v, Mark(v, "TrailingParameterStart", p, "trailing"),
                One("TrailingParameterStart", p, q) \o Rest(t, lim, "trailing", q, v.n, v.far, q), q, 1)
    BY <1>1, <1>7, MarkCarries DEF Modes, TagModes, Uncounted, Types
  <2>2. Rest(t, lim, "trailing", q, v.n, v.far, q) = Trailing(t, q)
    BY DEF Rest
  <2> HIDE DEF q
  <2> DEFINE A == One("TrailingParameterStart", p, q) \o Trailing(t, q)
  <2>3. Carries(t, lim, v, s, A, q, 1)
    BY <1>3, <1>10, <2>1, <2>2
  <2>4. X = S \o A
    BY <1>4, <1>10
  <2> HIDE DEF A
  <2>5. Carries(t, lim, u, s, A, q, 1)
    BY <1>6, <1>7, <2>3, CarriesPlain
  <2>6. Carries(t, lim, r, s, Close(r, p) \o A, q, 2)
    BY <2>5, ClosesCarries DEF u
  <2> QED BY <1>5, <2>4, <2>6
<1>11. ASSUME t[p] # Space, ~(n >= lim.params), t[p] # ":" PROVE Carries(t, lim, r, s, X, q, 2)
  <2>1. Carries(t, lim, v, Enter(v, "middle", p), Rest(t, lim, "middle", p, v.n, v.far, q), q, 0)
    BY <1>1, <1>7, EnterCarries DEF Modes, TagModes, Uncounted
  <2>2. Rest(t, lim, "middle", p, v.n, v.far, q) = MiddleRest(t, lim, p, q, m)
    BY <1>7 DEF Rest
  <2> HIDE DEF q
  <2> DEFINE A == MiddleRest(t, lim, p, q, m)
  <2>3. Carries(t, lim, v, s, A, q, 0)
    BY <1>3, <1>11, <2>1, <2>2
  <2>4. X = S \o A
    BY <1>4, <1>11
  <2> HIDE DEF A
  <2>5. Carries(t, lim, u, s, A, q, 0)
    BY <1>6, <1>7, <2>3, CarriesPlain
  <2>6. Carries(t, lim, r, s, Close(r, p) \o A, q, 2)
    BY <2>5, ClosesCarries DEF u
  <2> QED BY <1>5, <2>4, <2>6
<1> HIDE DEF q
<1>12. Carries(t, lim, r, s, X, q, 2)
  BY <1>8, <1>9, <1>10, <1>11
<1> QED BY <1>2, <1>12 DEF s, q

\* What is at hand of a run in the prefix.
LEMMA InPrefix ==
  ASSUME NEW t, NEW lim, NEW r, NEW p, Runs(t, lim, r, p), r.mode \in {"name", "user", "host"}
  PROVE  /\ r.mode \in RfcModes /\ Len(t) \in Nat /\ p \in 1..Len(t) /\ p \in Nat /\ r.n = 0
         /\ r.from \in Nat /\ r.from <= p
BY InRfc DEF RfcModes, Modes, TagModes, Uncounted

\* So is a byte of a host.
LEMMA HostCarries ==
  ASSUME NEW t, NEW lim, NEW r, NEW p, Runs(t, lim, r, p), r.mode = "host"
  PROVE  Carries(t, lim, r, RfcByte(r, lim, t[p], p), Ahead(t, lim, r, p), p + 1, 2)
<1> DEFINE f   == r.from
           far == r.far
           s   == RfcByte(r, lim, t[p], p)
           X   == HostRest(t, lim, f, p)
           q   == p + 1
           U   == Unless("PrefixHost", f, p)
<1>1. r.mode \in RfcModes /\ Len(t) \in Nat /\ p \in 1..Len(t) /\ r.n = 0 /\ f \in Nat
  BY InPrefix
<1>2. Ahead(t, lim, r, p) = X
  BY DEF Ahead, Rest
<1>3. s = IF t[p] = Space THEN Enter(Closed(r, p), "prefixGap", p)
          ELSE r
  BY BytesApart DEF RfcByte
<1>4. /\ t[p] \notin {Space} => X = HostRest(t, lim, f, q)
      /\ t[p] = Space => X = U \o PrefixGapRest(t, lim, p, q)
  <2> HIDE DEF f
  <2> QED BY <1>1, HostStep, ZenonT(60)
<1>5. Close(r, p) = U
  BY CloseUnless, InPrefix
<1>6. ASSUME t[p] = Space PROVE Carries(t, lim, r, s, X, q, 2)
  <2>1. Carries(t, lim, r, Enter(Closed(r, p), "prefixGap", p),
                Close(r, p) \o Rest(t, lim, "prefixGap", p, r.n, far, q), q, 2)
    BY <1>1, LeaveCarries DEF RfcModes, Modes, TagModes, Uncounted
  <2>2. Rest(t, lim, "prefixGap", p, r.n, far, q) = PrefixGapRest(t, lim, p, q)
    BY DEF Rest
  <2> HIDE DEF s, X, q, f, far, U
  <2> QED BY <1>3, <1>4, <1>5, <1>6, <2>1, <2>2
<1>7. ASSUME t[p] \notin {Space} PROVE Carries(t, lim, r, s, X, q, 2)
  <2>1. Carries(t, lim, r, r, Rest(t, lim, r.mode, f, r.n, far, q), q, 2)
    BY <1>1, OnCarries
  <2>2. Rest(t, lim, r.mode, f, r.n, far, q) = HostRest(t, lim, f, q)
    BY DEF Rest
  <2>3. s = r
    BY <1>3, <1>7 DEF NameStops, UserStops
  <2> HIDE DEF s, X, q, f, far
  <2> QED BY <1>4, <1>7, <2>1, <2>2, <2>3
<1> HIDE DEF s, X, q
<1>8. Carries(t, lim, r, s, X, q, 2)
  BY <1>6, <1>7 DEF NameStops, UserStops
<1> QED BY <1>2, <1>8 DEF s, q

\* So is a byte of a user name.
LEMMA UserCarries ==
  ASSUME NEW t, NEW lim, NEW r, NEW p, Runs(t, lim, r, p), r.mode = "user"
  PROVE  Carries(t, lim, r, RfcByte(r, lim, t[p], p), Ahead(t, lim, r, p), p + 1, 2)
<1> DEFINE f   == r.from
           far == r.far
           s   == RfcByte(r, lim, t[p], p)
           X   == UserRest(t, lim, f, p)
           q   == p + 1
           U   == Unless("PrefixUser", f, p)
<1>1. r.mode \in RfcModes /\ Len(t) \in Nat /\ p \in 1..Len(t) /\ r.n = 0 /\ f \in Nat
  BY InPrefix
<1>2. Ahead(t, lim, r, p) = X
  BY DEF Ahead, Rest
<1>3. s = IF t[p] = Space THEN Enter(Closed(r, p), "prefixGap", p)
          ELSE IF t[p] = "@" THEN Mark(Closed(r, p), "PrefixHostStart", p, "host")
          ELSE r
  BY BytesApart DEF RfcByte
<1>4. /\ t[p] \notin UserStops => X = UserRest(t, lim, f, q)
      /\ t[p] = Space => X = U \o PrefixGapRest(t, lim, p, q)
      /\ t[p] = "@" => X = U \o (One("PrefixHostStart", p, q) \o HostRest(t, lim, q, q))
  <2>1. /\ t[p] = Space => HostAt(t, lim, p) = PrefixGapRest(t, lim, p, q)
        /\ t[p] = "@" => HostAt(t, lim, p) = One("PrefixHostStart", p, q) \o HostRest(t, lim, q, q)
    BY <1>1, HostAtStep, Zenon
  <2>3. q = p + 1
    OBVIOUS
  <2> HIDE DEF f, q
  <2>4. t[p] \notin UserStops => X = UserRest(t, lim, f, q)
    BY <1>1, <2>3, UserOn
  <2>5. t[p] \in UserStops => X = U \o HostAt(t, lim, p)
    BY <1>1, UserTo
  <2> HIDE DEF X, U
  <2> QED BY <2>1, <2>4, <2>5 DEF UserStops
<1>5. Close(r, p) = U
  BY CloseUnless, InPrefix
<1>6. ASSUME t[p] = Space PROVE Carries(t, lim, r, s, X, q, 2)
  <2>1. Carries(t, lim, r, Enter(Closed(r, p), "prefixGap", p),
                Close(r, p) \o Rest(t, lim, "prefixGap", p, r.n, far, q), q, 2)
    BY <1>1, LeaveCarries DEF RfcModes, Modes, TagModes, Uncounted
  <2>2. Rest(t, lim, "prefixGap", p, r.n, far, q) = PrefixGapRest(t, lim, p, q)
    BY DEF Rest
  <2> HIDE DEF s, X, q, f, far, U
  <2> QED BY <1>3, <1>4, <1>5, <1>6, <2>1, <2>2
<1>7. ASSUME t[p] = "@" PROVE Carries(t, lim, r, s, X, q, 2)
  <2>1. Carries(t, lim, r, Mark(Closed(r, p), "PrefixHostStart", p, "host"),
                Close(r, p) \o (One("PrefixHostStart", p, q) \o Rest(t, lim, "host", q, r.n, far, q)), q, 2)
    BY <1>1, MoveCarries DEF RfcModes, Modes, TagModes, Uncounted, Types
  <2>2. Rest(t, lim, "host", q, r.n, far, q) = HostRest(t, lim, q, q)
    BY DEF Rest
  <2>3. s = Mark(Closed(r, p), "PrefixHostStart", p, "host")
    BY <1>3, <1>7, BytesApart
  <2> HIDE DEF s, X, q, f, far, U
  <2> QED BY <1>4, <1>5, <1>7, <2>1, <2>2, <2>3
<1>8. ASSUME t[p] \notin UserStops PROVE Carries(t, lim, r, s, X, q, 2)
  <2>1. Carries(t, lim, r, r, Rest(t, lim, r.mode, f, r.n, far, q), q, 2)
    BY <1>1, OnCarries
  <2>2. Rest(t, lim, r.mode, f, r.n, far, q) = UserRest(t, lim, f, q)
    BY DEF Rest
  <2>3. s = r
    BY <1>3, <1>8 DEF NameStops, UserStops
  <2> HIDE DEF s, X, q, f, far
  <2> QED BY <1>4, <1>8, <2>1, <2>2, <2>3
<1> HIDE DEF s, X, q
<1>9. Carries(t, lim, r, s, X, q, 2)
  BY <1>6, <1>7, <1>8 DEF NameStops, UserStops
<1> QED BY <1>2, <1>9 DEF s, q

\* So is a byte of a name.
LEMMA NameCarries ==
  ASSUME NEW t, NEW lim, NEW r, NEW p, Runs(t, lim, r, p), r.mode = "name"
  PROVE  Carries(t, lim, r, RfcByte(r, lim, t[p], p), Ahead(t, lim, r, p), p + 1, 2)
<1> DEFINE f   == r.from
           far == r.far
           s   == RfcByte(r, lim, t[p], p)
           X   == NameRest(t, lim, f, p)
           q   == p + 1
           U   == Unless("PrefixName", f, p)
<1>1. r.mode \in RfcModes /\ Len(t) \in Nat /\ p \in 1..Len(t) /\ r.n = 0 /\ f \in Nat
  BY InPrefix
<1>2. Ahead(t, lim, r, p) = X
  BY DEF Ahead, Rest
<1>3. s = IF t[p] = Space THEN Enter(Closed(r, p), "prefixGap", p)
          ELSE IF t[p] = "!" THEN Mark(Closed(r, p), "PrefixUserStart", p, "user")
          ELSE IF t[p] = "@" THEN Mark(Closed(r, p), "PrefixHostStart", p, "host")
          ELSE r
  BY BytesApart DEF RfcByte
<1>4. /\ t[p] \notin NameStops => X = NameRest(t, lim, f, q)
      /\ t[p] = Space => X = U \o PrefixGapRest(t, lim, p, q)
      /\ t[p] = "!" => X = U \o (One("PrefixUserStart", p, q) \o UserRest(t, lim, q, q))
      /\ t[p] = "@" => X = U \o (One("PrefixHostStart", p, q) \o HostRest(t, lim, q, q))
  <2>1. /\ t[p] = Space => HostAt(t, lim, p) = PrefixGapRest(t, lim, p, q)
        /\ t[p] = "@" => HostAt(t, lim, p) = One("PrefixHostStart", p, q) \o HostRest(t, lim, q, q)
    BY <1>1, HostAtStep, Zenon
  <2>2. /\ t[p] = Space \/ t[p] = "@" => UserAt(t, lim, p) = HostAt(t, lim, p)
        /\ t[p] = "!" => UserAt(t, lim, p) = One("PrefixUserStart", p, q) \o UserRest(t, lim, q, q)
    BY <1>1, UserAtStep, Zenon
  <2>3. q = p + 1
    OBVIOUS
  <2> HIDE DEF f, q
  <2>4. t[p] \notin NameStops => X = NameRest(t, lim, f, q)
    BY <1>1, <2>3, NameOn
  <2>5. t[p] \in NameStops => X = U \o UserAt(t, lim, p)
    BY <1>1, NameTo
  <2> HIDE DEF X, U
  <2> QED BY <2>1, <2>2, <2>4, <2>5 DEF NameStops
<1>5. Close(r, p) = U
  BY CloseUnless, InPrefix
<1>6. ASSUME t[p] = Space PROVE Carries(t, lim, r, s, X, q, 2)
  <2>1. Carries(t, lim, r, Enter(Closed(r, p), "prefixGap", p),
                Close(r, p) \o Rest(t, lim, "prefixGap", p, r.n, far, q), q, 2)
    BY <1>1, LeaveCarries DEF RfcModes, Modes, TagModes, Uncounted
  <2>2. Rest(t, lim, "prefixGap", p, r.n, far, q) = PrefixGapRest(t, lim, p, q)
    BY DEF Rest
  <2> HIDE DEF s, X, q, f, far, U
  <2> QED BY <1>3, <1>4, <1>5, <1>6, <2>1, <2>2
<1>7. ASSUME t[p] = "!" PROVE Carries(t, lim, r, s, X, q, 2)
  <2>1. Carries(t, lim, r, Mark(Closed(r, p), "PrefixUserStart", p, "user"),
                Close(r, p) \o (One("PrefixUserStart", p, q) \o Rest(t, lim, "user", q, r.n, far, q)), q, 2)
    BY <1>1, MoveCarries DEF RfcModes, Modes, TagModes, Uncounted, Types
  <2>2. Rest(t, lim, "user", q, r.n, far, q) = UserRest(t, lim, q, q)
    BY DEF Rest
  <2>3. s = Mark(Closed(r, p), "PrefixUserStart", p, "user")
    BY <1>3, <1>7, BytesApart
  <2> HIDE DEF s, X, q, f, far, U
  <2> QED BY <1>4, <1>5, <1>7, <2>1, <2>2, <2>3
<1>8. ASSUME t[p] = "@" PROVE Carries(t, lim, r, s, X, q, 2)
  <2>1. Carries(t, lim, r, Mark(Closed(r, p), "PrefixHostStart", p, "host"),
                Close(r, p) \o (One("PrefixHostStart", p, q) \o Rest(t, lim, "host", q, r.n, far, q)), q, 2)
    BY <1>1, MoveCarries DEF RfcModes, Modes, TagModes, Uncounted, Types
  <2>2. Rest(t, lim, "host", q, r.n, far, q) = HostRest(t, lim, q, q)
    BY DEF Rest
  <2>3. s = Mark(Closed(r, p), "PrefixHostStart", p, "host")
    BY <1>3, <1>8, BytesApart
  <2> HIDE DEF s, X, q, f, far, U
  <2> QED BY <1>4, <1>5, <1>8, <2>1, <2>2, <2>3
<1>9. ASSUME t[p] \notin NameStops PROVE Carries(t, lim, r, s, X, q, 2)
  <2>1. Carries(t, lim, r, r, Rest(t, lim, r.mode, f, r.n, far, q), q, 2)
    BY <1>1, OnCarries
  <2>2. Rest(t, lim, r.mode, f, r.n, far, q) = NameRest(t, lim, f, q)
    BY DEF Rest
  <2>3. s = r
    BY <1>3, <1>9 DEF NameStops, UserStops
  <2> HIDE DEF s, X, q, f, far
  <2> QED BY <1>4, <1>9, <2>1, <2>2, <2>3
<1> HIDE DEF s, X, q
<1>10. Carries(t, lim, r, s, X, q, 2)
  BY <1>6, <1>7, <1>8, <1>9 DEF NameStops, UserStops
<1> QED BY <1>2, <1>10 DEF s, q

\* Every byte is carried over.
LEMMA ByteCarries ==
  ASSUME NEW t, NEW lim, NEW r, NEW p, Runs(t, lim, r, p)
  PROVE  Carries(t, lim, r, Byte(r, lim, t, p), Ahead(t, lim, r, p), p + 1, 2)
<1> DEFINE s == Byte(r, lim, t, p)
           X == Ahead(t, lim, r, p)
           q == p + 1
<1>1. /\ r.mode \in Modes \cup {"thrown"} /\ Line(t, lim) /\ p \in 1..Len(t) /\ Fit(r, p) /\ Kept(r)
      /\ r.j + 1 <= r.scratch.room /\ p \in Nat /\ r.far \in Nat
  BY RunsIs DEF Runs
<1>2. ASSUME r.mode = "thrown" PROVE Carries(t, lim, r, s, X, q, 2)
  <2>1. Carries(t, lim, r, r, Ahead(t, lim, r, q), q, 2)
    BY <1>1, <1>2, StaysCarries DEF TagModes
  <2>2. Ahead(t, lim, r, q) = X /\ s = r
    BY <1>2 DEF Ahead, Byte, TagModes
  <2> HIDE DEF s, X, q
  <2> QED BY <2>1, <2>2
<1>3. ASSUME r.mode = "lead" PROVE Carries(t, lim, r, s, X, q, 2)
  <2>1. Carries(t, lim, r, LeadByte(r, lim, t[p], p, Len(t) + 1 - p), LeadRest(t, lim, p), q, 1)
    BY <1>1, <1>3, LeadCarries
  <2>2. X = LeadRest(t, lim, p) /\ s = LeadByte(r, lim, t[p], p, Len(t) + 1 - p)
    BY <1>3 DEF Ahead, Rest, Byte, TagModes
  <2> HIDE DEF s, X, q
  <2>3. Carries(t, lim, r, s, X, q, 1)
    BY <2>1, <2>2
  <2> QED BY <1>1, <2>3, CarriesMore
<1>4. ASSUME r.mode \in TagModes PROVE Carries(t, lim, r, s, X, q, 2)
  <2>1. s = TagByte(r, lim, t[p], p, Len(t) + 1 - p)
    BY <1>4 DEF Byte, TagModes
  <2> SUFFICES Carries(t, lim, r, TagByte(r, lim, t[p], p, Len(t) + 1 - p), X, q, 2)
    BY <2>1, Zenon
  <2>2. CASE r.mode = "tagsGap"
    BY <2>2, TagsGapCarries
  <2>3. CASE r.mode # "tagsGap" /\ p > r.far
    BY <1>4, <2>3, PastCarries
  <2>4. CASE r.mode # "tagsGap" /\ ~(p > r.far)
    <3>1. p <= r.far
      BY <1>1, <2>4
    <3>2. r.mode \in {"tag", "client", "key", "value"}
      BY <1>4, <2>4 DEF TagModes
    <3> QED BY <3>1, <3>2, TagCarries, ClientCarries, KeyCarries, ValueCarries
  <2> QED BY <2>2, <2>3, <2>4
<1>5. ASSUME r.mode \in RfcModes PROVE Carries(t, lim, r, s, X, q, 2)
  <2>1. s = RfcByte(r, lim, t[p], p)
    BY <1>5 DEF Byte, RfcModes, Modes, TagModes
  <2> SUFFICES Carries(t, lim, r, RfcByte(r, lim, t[p], p), X, q, 2)
    BY <2>1, Zenon
  <2>2. r.mode \in {"name", "user", "host", "prefixGap", "command", "gap", "middle", "trailing"}
    BY <1>5 DEF RfcModes, Modes, TagModes
  <2>3. CASE r.mode \in {"name", "user", "host"}
    BY <2>3, NameCarries, UserCarries, HostCarries
  <2>4. CASE r.mode \in {"prefixGap", "command"}
    BY <2>4, PrefixGapCarries, CommandCarries
  <2>5. CASE r.mode \in {"gap", "middle", "trailing"}
    BY <2>5, GapCarries, MiddleCarries, TrailingCarries
  <2> QED BY <2>2, <2>3, <2>4, <2>5
<1>6. r.mode \in {"thrown", "lead"} \cup TagModes \cup RfcModes
  BY <1>1 DEF RfcModes
<1> HIDE DEF s, X, q
<1>7. Carries(t, lim, r, s, X, q, 2)
  BY <1>2, <1>3, <1>4, <1>5, <1>6
<1> QED BY <1>7 DEF s, X, q

\* What is written and what the reference makes of the rest are what it makes of the line.
Agrees(t, lim, r, p) ==
  /\ Fit(r, p) /\ r.j <= 2 * (p - 1) /\ r.scratch.room >= 2 * Len(t) + 16
  /\ Out(r) \o Ahead(t, lim, r, p) = Tokenize(t, lim)

\* Whatever the next byte, a run that was right about the line so far is right behind it.
LEMMA ByteAgrees ==
  ASSUME NEW t, NEW lim, Line(t, lim), NEW r, NEW p \in 1..Len(t), Agrees(t, lim, r, p)
  PROVE  Agrees(t, lim, Byte(r, lim, t, p), p + 1)
<1> DEFINE s == Byte(r, lim, t, p)
           X == Ahead(t, lim, r, p)
           q == p + 1
           A == Ahead(t, lim, s, q)
<1>1. /\ Kept(r) /\ r.j \in Nat /\ r.scratch.room \in Nat /\ Len(t) \in Nat /\ p \in Nat /\ Fit(r, p)
      /\ r.j <= 2 * (p - 1) /\ r.scratch.room >= 2 * Len(t) + 16 /\ Out(r) \o X = Tokenize(t, lim)
  BY DEF Agrees, Fit, Kept, Machine, Line
<1>2. r.j + 2 <= r.scratch.room
  BY <1>1
<1>3. Carries(t, lim, r, s, X, q, 2)
  BY <1>1, <1>2, ByteCarries DEF Runs
<1> HIDE DEF s, X
<1>4. Fit(s, q) /\ A \in AnyTokens
  BY <1>3 DEF Carries
<1>5. PICK toks : Wrote(r, s, toks, 2) /\ X = toks \o A
  BY <1>3 DEF Carries
<1> HIDE DEF q, A
<1>6. s.j <= r.j + 2 /\ s.scratch.room = r.scratch.room /\ toks \in AnyTokens /\ Out(s) = Out(r) \o toks /\ s.j \in Nat
  BY <1>5 DEF Wrote, Kept, Machine
<1>7. Out(r) \in AnyTokens
  BY <1>1, OutIs
<1>8. Out(s) \o A = Out(r) \o (toks \o A)
  BY <1>4, <1>6, <1>7, Regroups, SMTT(40)
<1>9. Out(s) \o A = Tokenize(t, lim)
  BY <1>1, <1>5, <1>8
<1>10. s.j <= 2 * (q - 1)
  BY <1>1, <1>6 DEF q
<1> QED BY <1>1, <1>4, <1>6, <1>9, <1>10 DEF Agrees, s, q, A

ReadTo(t, lim, first, k, f) == f = [p \in 0..k |-> IF p = 0 THEN first ELSE Byte(f[p - 1], lim, t, p)]

\* The run over the line exists: it is what it was a byte ago, and one byte more.
LEMMA ReadingIs ==
  ASSUME NEW t, Len(t) \in Nat, NEW lim, NEW first
  PROVE  /\ Reading(t, lim, first)[0] = first
         /\ \A p \in 1..Len(t) :
              Reading(t, lim, first)[p] = Byte(Reading(t, lim, first)[p - 1], lim, t, p)
<1> DEFINE K == {k \in Nat : \E f : ReadTo(t, lim, first, k, f)}
<1>1. 0 \in K
  <2> DEFINE f == [p \in 0..0 |-> first]
  <2>1. f = [p \in 0..0 |-> IF p = 0 THEN first ELSE Byte(f[p - 1], lim, t, p)]
    OBVIOUS
  <2> HIDE DEF f
  <2>2. ReadTo(t, lim, first, 0, f)
    BY <2>1 DEF ReadTo
  <2> QED BY <2>2
<1>2. ASSUME NEW k \in Nat, k \in K PROVE k + 1 \in K
  <2>1. PICK f : ReadTo(t, lim, first, k, f)
    BY <1>2
  <2> DEFINE m == k + 1
             g == [p \in 0..m |-> IF p = 0 THEN first ELSE Byte(f[p - 1], lim, t, p)]
  <2>2. f = [p \in 0..k |-> IF p = 0 THEN first ELSE Byte(f[p - 1], lim, t, p)]
    BY <2>1 DEF ReadTo
  <2>3. \A p \in 0..k : f[p] = g[p]
    <3>1. \A p \in 0..k : p \in 0..m
      OBVIOUS
    <3>2. \A p \in 0..k : f[p] = IF p = 0 THEN first ELSE Byte(f[p - 1], lim, t, p)
      BY <2>2
    <3> HIDE DEF m
    <3> QED BY <3>1, <3>2
  <2>4. \A p \in 0..m : p # 0 => p - 1 \in 0..k
    OBVIOUS
  <2> HIDE DEF m
  <2>5. g = [p \in 0..m |-> IF p = 0 THEN first ELSE Byte(g[p - 1], lim, t, p)]
    <3> DEFINE h == g
    <3>1. \A p \in 0..m : p # 0 => f[p - 1] = h[p - 1]
      BY <2>3, <2>4
    <3>2. g = [p \in 0..m |-> IF p = 0 THEN first ELSE Byte(h[p - 1], lim, t, p)]
      <4> HIDE DEF h
      <4> QED BY <3>1
    <3> QED BY <3>2
  <2> HIDE DEF g
  <2>6. ReadTo(t, lim, first, m, g)
    BY <2>5 DEF ReadTo
  <2>7. m \in Nat
    BY DEF m
  <2> QED BY <2>6, <2>7 DEF m
<1>3. \A k \in Nat : k \in K
  <2> HIDE DEF K
  <2> QED BY <1>1, <1>2, Induction
<1>4. \E f : ReadTo(t, lim, first, Len(t), f)
  <2>1. Len(t) \in K
    BY <1>3
  <2> QED BY <2>1
<1> DEFINE R == Reading(t, lim, first)
<1>5. ReadTo(t, lim, first, Len(t), R)
  BY <1>4 DEF Reading, ReadTo
<1> HIDE DEF R
<1>6. R = [p \in 0..Len(t) |-> IF p = 0 THEN first ELSE Byte(R[p - 1], lim, t, p)]
  BY <1>5 DEF ReadTo
<1>7. R[0] = first /\ \A p \in 1..Len(t) : R[p] = Byte(R[p - 1], lim, t, p)
  BY <1>6
<1> QED BY <1>7 DEF R

\* So a run that begins right is right at the end of the line.
LEMMA ReadingAgrees ==
  ASSUME NEW t, NEW lim, Line(t, lim), NEW first, Agrees(t, lim, first, 1)
  PROVE  Agrees(t, lim, Reading(t, lim, first)[Len(t)], Len(t) + 1)
<1> DEFINE R == Reading(t, lim, first)
           K == {k \in Nat : k <= Len(t) => Agrees(t, lim, R[k], k + 1)}
<1>1. Len(t) \in Nat
  BY DEF Line
<1>2. R[0] = first /\ \A p \in 1..Len(t) : R[p] = Byte(R[p - 1], lim, t, p)
  BY <1>1, ReadingIs
<1> HIDE DEF R
<1>3. 0 \in K
  <2>1. 0 + 1 = 1
    OBVIOUS
  <2>2. Agrees(t, lim, R[0], 0 + 1)
    BY <1>2, <2>1, Zenon
  <2> QED BY <2>2
<1>4. ASSUME NEW k \in Nat, k \in K PROVE k + 1 \in K
  <2> SUFFICES ASSUME k + 1 <= Len(t) PROVE Agrees(t, lim, R[k + 1], (k + 1) + 1)
    OBVIOUS
  <2> DEFINE p == k + 1
             r == R[k]
  <2>1. p \in 1..Len(t) /\ k = p - 1
    BY <1>1
  <2>2. Agrees(t, lim, R[k], p)
    BY <1>1, <1>4
  <2>3. R[p] = Byte(r, lim, t, p)
    BY <1>2, <2>1
  <2> HIDE DEF p, r
  <2>4. Agrees(t, lim, r, p)
    BY <2>2 DEF r
  <2>5. Agrees(t, lim, Byte(r, lim, t, p), p + 1)
    BY <2>1, <2>4, ByteAgrees
  <2>6. Agrees(t, lim, R[p], p + 1)
    BY <2>3, <2>5, Zenon
  <2> QED BY <2>6 DEF p
<1>5. Len(t) \in K
  <2> HIDE DEF K
  <2> QED BY <1>1, <1>3, <1>4, Induction
<1> QED BY <1>5 DEF R

\* At the end of the line.
LEMMA EndAhead ==
  ASSUME NEW t, NEW lim, Line(t, lim), NEW r, NEW e \in Nat, AtEnd(t, e), Fit(r, e), r.mode # "thrown"
  PROVE  Ahead(t, lim, r, e) =
           IF r.mode \in {"client", "key", "value"} /\ e > r.far THEN Throw("tagDataLimit", e)
           ELSE Close(r, e) \o Eof(e)
<1> DEFINE f   == r.from
           n   == r.n
           far == r.far
           T   == TagList(t, lim, far)
           E   == Eof(e)
           X   == Ahead(t, lim, r, e)
<1>9. Len(t) \in Nat
  BY DEF Line
<1>1. /\ Len(t) \in Nat /\ e \in Nat /\ f \in Nat /\ n \in Nat /\ far \in Nat /\ f <= e /\ r.mode \in Modes
      /\ r.mode \in TagModes => e <= far + 1
  BY DEF Line, Fit, Kept, Machine
<1>2. E = <<>> \o E
  BY <1>1, Simple, Glue
<1>3. /\ r.mode = "lead" => X = LeadRest(t, lim, e)
      /\ r.mode = "tag" => X = TagRest(t, lim, far, e, n)
      /\ r.mode = "client" => X = ClientRest(t, lim, far, e, n)
      /\ r.mode = "key" => X = ToKeyEnds(t, lim, far, T, f, e, n)
      /\ r.mode = "value" => X = ValueEnds(t, lim, far, T, f, e, n)
      /\ r.mode = "tagsGap" => X = TagsGapRest(t, lim, far, f, e)
  BY DEF Ahead, Rest
<1>4. /\ r.mode = "name" => X = NameRest(t, lim, f, e)
      /\ r.mode = "user" => X = UserRest(t, lim, f, e)
      /\ r.mode = "host" => X = HostRest(t, lim, f, e)
      /\ r.mode = "prefixGap" => X = PrefixGapRest(t, lim, f, e)
      /\ r.mode = "command" => X = CommandRest(t, lim, f, e)
      /\ r.mode = "gap" => X = GapRest(t, lim, f, e, n)
      /\ r.mode = "middle" => X = MiddleRest(t, lim, f, e, n)
      /\ r.mode = "trailing" => X = Trailing(t, f)
  BY DEF Ahead, Rest
<1>5. ASSUME r.mode \in TagModes
      PROVE  X = IF r.mode \in {"client", "key", "value"} /\ e > far THEN Throw("tagDataLimit", e)
                 ELSE Close(r, e) \o E
  <2> HIDE DEF far, f, n, T, X
  <2>0. far \in Nat /\ Near(far, e)
    BY <1>1, <1>5 DEF Near
  <2>1. TagRest(t, lim, far, e, n) = E
    BY <1>1, TagEnd
  <2>2. ClientRest(t, lim, far, e, n) = IF e > far THEN Throw("tagDataLimit", e) ELSE E
    BY <1>9, <2>0, ClientEnd
  <2>3. ToKeyEnds(t, lim, far, T, f, e, n) = IF e > far THEN Throw("tagDataLimit", e) ELSE One("TagKey", f, e) \o E
    <3> DEFINE z == Ends("TagKey", f, e)
    <3>1. ToKeyEnds(t, lim, far, T, f, e, n) = IF e > far THEN Throw("tagDataLimit", e) ELSE z
      BY <1>9, <2>0, KeyEnd
    <3>2. z = One("TagKey", f, e) \o E
      BY Zenon DEF Ends, E
    <3> HIDE DEF z
    <3> QED BY <3>1, <3>2, Zenon
  <2>4. ValueEnds(t, lim, far, T, f, e, n) = IF e > far THEN Throw("tagDataLimit", e) ELSE One("TagValue", f, e) \o E
    <3> DEFINE z == Ends("TagValue", f, e)
    <3>1. ValueEnds(t, lim, far, T, f, e, n) = IF e > far THEN Throw("tagDataLimit", e) ELSE z
      BY <1>9, <2>0, ValueEnd
    <3>2. z = One("TagValue", f, e) \o E
      BY Zenon DEF Ends, E
    <3> HIDE DEF z
    <3> QED BY <3>1, <3>2, Zenon
  <2>5. TagsGapRest(t, lim, far, f, e) = One("Separator", f, e) \o E
    <3> DEFINE z == Ends("Separator", f, e)
    <3>1. TagsGapRest(t, lim, far, f, e) = z
      BY <1>9, <2>0, TagsGapEnd
    <3>2. z = One("Separator", f, e) \o E
      BY Zenon DEF Ends, E
    <3> HIDE DEF z
    <3> QED BY <3>1, <3>2, Zenon
  <2>6. /\ r.mode \in {"tag", "client"} => Close(r, e) = <<>>
        /\ r.mode = "key" => Close(r, e) = One("TagKey", f, e)
        /\ r.mode = "value" => Close(r, e) = One("TagValue", f, e)
        /\ r.mode = "tagsGap" => Close(r, e) = One("Separator", f, e)
    BY CloseIs DEF f
  <2> HIDE DEF E
  <2> QED BY <1>2, <1>3, <1>5, <2>1, <2>2, <2>3, <2>4, <2>5, <2>6 DEF TagModes
<1>6. ASSUME r.mode \in {"name", "user", "host", "prefixGap", "command", "gap", "middle", "trailing"}
      PROVE  X = Close(r, e) \o E
  <2> HIDE DEF far, f, n, X
  <2>1. /\ PrefixGapRest(t, lim, f, e) = One("Separator", f, e) \o E
        /\ CommandRest(t, lim, f, e) = One("Command", f, e) \o E
        /\ Trailing(t, f) = One("TrailingParameter", f, e) \o E
    <3>1. /\ PrefixGapRest(t, lim, f, e) = Ends("Separator", f, e)
          /\ CommandRest(t, lim, f, e) = Ends("Command", f, e)
          /\ Trailing(t, f) = Ends("TrailingParameter", f, e)
      <4> HIDE DEF E, T
      <4> QED BY <1>9, PrefixGapEnd, CommandEnd, TrailingEnd
    <3> QED BY <3>1, Zenon DEF Ends
  <2>2. /\ GapRest(t, lim, f, e, n) = One("Separator", f, e) \o E
        /\ MiddleRest(t, lim, f, e, n) = One("MiddleParameter", f, e) \o E
    <3>1. GapRest(t, lim, f, e, n) = Ends("Separator", f, e) /\ MiddleRest(t, lim, f, e, n) = Ends("MiddleParameter", f, e)
      <4> HIDE DEF E, T
      <4> QED BY <1>9, GapEnd, MiddleEnd
    <3> QED BY <3>1, Zenon DEF Ends
  <2>3. /\ HostRest(t, lim, f, e) = Unless("PrefixHost", f, e) \o E
        /\ UserRest(t, lim, f, e) = Unless("PrefixUser", f, e) \o E
        /\ NameRest(t, lim, f, e) = Unless("PrefixName", f, e) \o E
    <3>1. /\ HostRest(t, lim, f, e) = EndsIn("PrefixHost", f, e)
          /\ UserRest(t, lim, f, e) = EndsIn("PrefixUser", f, e)
          /\ NameRest(t, lim, f, e) = EndsIn("PrefixName", f, e)
      <4> HIDE DEF E, T
      <4> QED BY <1>9, HostEnd, UserEnd, NameEnd
    <3> QED BY <3>1, Zenon DEF EndsIn
  <2>4. /\ r.mode \in {"prefixGap", "gap"} => Close(r, e) = One("Separator", f, e)
        /\ r.mode = "command" => Close(r, e) = One("Command", f, e)
        /\ r.mode = "middle" => Close(r, e) = One("MiddleParameter", f, e)
        /\ r.mode = "trailing" => Close(r, e) = One("TrailingParameter", f, e)
    BY CloseIs DEF f
  <2>5. /\ r.mode = "name" => Close(r, e) = Unless("PrefixName", f, e)
        /\ r.mode = "user" => Close(r, e) = Unless("PrefixUser", f, e)
        /\ r.mode = "host" => Close(r, e) = Unless("PrefixHost", f, e)
    BY <1>1, CloseUnless DEF f
  <2> HIDE DEF E
  <2> QED BY <1>4, <1>6, <2>1, <2>2, <2>3, <2>4, <2>5
<1>7. ASSUME r.mode = "lead" PROVE X = Close(r, e) \o E
  <2>1. LeadRest(t, lim, e) = E
    <3> HIDE DEF far, f, n
    <3> QED BY <1>9, SpacesStep DEF LeadRest, AtEnd
  <2>2. Close(r, e) = <<>>
    BY <1>7, CloseIs
  <2> HIDE DEF E, X
  <2> QED BY <1>2, <1>3, <1>7, <2>1, <2>2
<1> HIDE DEF X, E
<1>8. X = IF r.mode \in {"client", "key", "value"} /\ e > r.far THEN Throw("tagDataLimit", e)
          ELSE Close(r, e) \o E
  BY <1>1, <1>5, <1>6, <1>7 DEF Modes, TagModes
<1> QED BY <1>8 DEF X, E

\* What a tokenizer has between two lines.
Scratches == [room : Nat, triples : AnyTokens]

\* It begins right, whatever another line has left in the buffer.
LEMMA BeginAgrees ==
  ASSUME NEW t, NEW lim, Line(t, lim), NEW tokenizer0, tokenizer0.scratch \in Scratches
  PROVE  Agrees(t, lim, Begin(tokenizer0, t), 1)
<1> DEFINE c == Sized(tokenizer0.scratch, Len(t))
           s == Begin(tokenizer0, t)
           X == Ahead(t, lim, s, 1)
<1>1. Len(t) \in Nat /\ 1 \in 1..(Len(t) + 1)
  BY DEF Line
<1>2. c \in Scratches /\ c.room >= 2 * Len(t) + 16
  <2>1. <<>> \in AnyTokens
    BY DEF AnyTokens
  <2>2. 2 * Len(t) + 16 \in Nat /\ Len(t) * 2 + 16 = 2 * Len(t) + 16
    BY <1>1
  <2> QED BY <2>1, <2>2 DEF Sized, TripleCapacity, Scratches
<1> HIDE DEF c
<1>3. /\ s \in Machine /\ s.mode = "lead" /\ s.from = 1 /\ s.n = 0 /\ s.j = 0 /\ s.error = <<>>
      /\ s.scratch = c
  <2>1. s = [mode |-> "lead", from |-> 1, n |-> 0, far |-> 0, j |-> 0, error |-> <<>>, scratch |-> c]
    BY DEF Begin, c
  <2>2. <<>> \in AnyTokens
    BY DEF AnyTokens
  <2>3. "lead" \in Modes
    BY DEF Modes
  <2> QED BY <1>2, <2>1, <2>2, <2>3 DEF Machine, Scratches
<1> HIDE DEF s
<1>4. Kept(s)
  <2>1. s.scratch.triples \in AnyTokens
    BY <1>2, <1>3 DEF Scratches
  <2>2. Len(s.scratch.triples) \in Nat
    BY <2>1 DEF AnyTokens
  <2> QED BY <1>3, <2>2 DEF Kept
<1>5. Fit(s, 1)
  BY <1>3, <1>4 DEF Fit, TagModes, Uncounted
<1>6. X \in AnyTokens
  BY <1>1, <1>5, CarriesSelf DEF Carries
<1>7. X = Tokenize(t, lim)
  <2>1. X = LeadRest(t, lim, 1)
    BY <1>3 DEF Ahead, Rest
  <2>2. LeadRest(t, lim, 1) = Tokenize(t, lim)
    BY Zenon DEF LeadRest, Tokenize
  <2> QED BY <2>1, <2>2
<1>8. Out(s) = <<>>
  <2> DEFINE o == Out(s)
  <2>1. o \in AnyTokens /\ Len(o) = 0
    BY <1>3, <1>4, OutIs
  <2> HIDE DEF o
  <2>2. o = <<>>
    BY <2>1 DEF AnyTokens
  <2> QED BY <2>2 DEF o
<1> HIDE DEF X
<1>9. Out(s) \o X = Tokenize(t, lim)
  BY <1>6, <1>7, <1>8, Glue
<1>10. s.j <= 2 * (1 - 1) /\ s.scratch.room >= 2 * Len(t) + 16
  BY <1>2, <1>3
<1> QED BY <1>5, <1>9, <1>10 DEF Agrees, s, X

\* A limit ends the tokens of a line that it is thrown in, and of no other.
LEMMA LastOfThrow ==
  ASSUME NEW a \in AnyTokens, NEW l \in Limits, NEW q \in Nat
  PROVE  Thrown(a \o Throw(l, q)) /\ Throw(l, q) = <<Last(a \o Throw(l, q))>>
<1> DEFINE S == Types \X Nat \X Nat
           x == Tok(l, q, q)
           b == a \o <<x>>
<1>1. AnyTokens = Seq(S)
  BY DEF AnyTokens
<1>2. x \in S /\ x[1] = l
  BY TokIs DEF Tok, Types
<1>3. Throw(l, q) = <<x>>
  BY DEF Throw, One
<1> HIDE DEF S, x
<1>4. b[Len(b)] = x
  BY <1>1, <1>2
<1> HIDE DEF b
<1>5. Last(b) = x
  BY <1>4 DEF Last
<1>6. Thrown(b) /\ <<x>> = <<Last(b)>>
  BY <1>2, <1>5 DEF Thrown
<1> QED BY <1>3, <1>6 DEF b

\* And of no other.
LEMMA LastOfEof ==
  ASSUME NEW a \in AnyTokens, NEW q \in Nat
  PROVE  ~ Thrown(a \o Eof(q))
<1> DEFINE S == Types \X Nat \X Nat
           x == Tok("EOF", q, q)
           b == a \o <<x>>
<1>1. AnyTokens = Seq(S)
  BY DEF AnyTokens
<1>2. x \in S /\ x[1] = "EOF" /\ "EOF" \notin Limits
  <2>1. "EOF" \in Types /\ "EOF" \notin Limits
    BY DEF Types, Limits
  <2> QED BY <2>1, TokIs DEF Tok
<1>3. Eof(q) = <<x>>
  BY DEF Eof, One
<1> HIDE DEF S, x
<1>4. b[Len(b)] = x
  BY <1>1, <1>2
<1> HIDE DEF b
<1>5. Last(b) = x
  BY <1>4 DEF Last
<1>6. ~ Thrown(b)
  BY <1>2, <1>5 DEF Thrown
<1> QED BY <1>3, <1>6 DEF b

\* What BackendsAgree says of the end of a run.
Ended(t, lim, u) ==
  /\ u.scratch \in Scratches /\ u.j \in Nat
  /\ LET tokens == Tokenize(t, lim)
     IN  IF Thrown(tokens) THEN u.error = <<Last(tokens)>>
         ELSE u.error = <<>> /\ u.j <= Len(u.scratch.triples) /\ SubSeq(u.scratch.triples, 1, u.j) = tokens

\* The end of a run that has thrown.
LEMMA EndsThrown ==
  ASSUME NEW t, NEW lim, NEW u \in Machine, NEW a \in AnyTokens, NEW l \in Limits, NEW q \in Nat,
         u.error = Throw(l, q), Tokenize(t, lim) = a \o Throw(l, q)
  PROVE  Ended(t, lim, u)
<1> DEFINE X == Tokenize(t, lim)
           b == a \o Throw(l, q)
           k == Throw(l, q)
<1>1. Thrown(b) /\ k = <<Last(b)>>
  BY LastOfThrow
<1>2. X = b
  OBVIOUS
<1>3. u.scratch \in Scratches /\ u.j \in Nat
  BY DEF Machine, Scratches
<1>4. u.error = k
  OBVIOUS
<1> HIDE DEF X, b, k
<1>5. Thrown(X) /\ u.error = <<Last(X)>>
  BY <1>1, <1>2, <1>4
<1> QED BY <1>3, <1>5 DEF Ended, X

\* A run that was right at the end of the line ends right.
LEMMA FinishAgrees ==
  ASSUME NEW t, NEW lim, Line(t, lim), NEW r, NEW e \in Nat, AtEnd(t, e), Agrees(t, lim, r, e)
  PROVE  Ended(t, lim, Finish(r, e))
<1> DEFINE u == Finish(r, e)
           X == Ahead(t, lim, r, e)
           W == Tokenize(t, lim)
           o == Out(r)
           k == Close(r, e)
           E == Eof(e)
<1>1. /\ Fit(r, e) /\ Kept(r) /\ r \in Machine /\ o \o X = W /\ r.j \in Nat /\ o \in AnyTokens
      /\ r.from \in Nat /\ r.mode \in Modes \cup {"thrown"}
  BY OutIs DEF Agrees, Fit, Kept, Machine
<1>2. r.j + 2 <= r.scratch.room
  <2>1. r.j <= 2 * (e - 1) /\ r.scratch.room >= 2 * Len(t) + 16 /\ e = Len(t) + 1 /\ Len(t) \in Nat
    BY DEF Agrees, AtEnd, Line
  <2>2. r.scratch.room \in Nat
    BY <1>1 DEF Machine
  <2> QED BY <1>1, <2>1, <2>2
<1>3. ASSUME r.mode = "thrown" PROVE Ended(t, lim, u)
  <2>1. PICK l \in Limits, q \in Nat : r.error = Throw(l, q)
    BY <1>1, <1>3 DEF Fit
  <2>2. X = Throw(l, q)
    BY <1>3, <2>1 DEF Ahead
  <2>3. u = r
    BY <1>3 DEF Finish
  <2> HIDE DEF u, X, W, o
  <2>4. W = o \o Throw(l, q)
    BY <1>1, <2>2
  <2>5. Ended(t, lim, r)
    BY <1>1, <2>1, <2>4, EndsThrown DEF W
  <2> QED BY <2>3, <2>5
<1>4. ASSUME r.mode # "thrown", r.mode \in {"client", "key", "value"} /\ e > r.far PROVE Ended(t, lim, u)
  <2> DEFINE l == "tagDataLimit"
  <2>1. l \in Limits
    BY DEF Limits
  <2>2. u = Fails(r, l, e)
    BY <1>4, Zenon DEF Finish
  <2>3. X = Throw(l, e)
    BY <1>1, <1>4, EndAhead
  <2> HIDE DEF u, X, W, o, l
  <2>4. u.error = Throw(l, e) /\ u \in Machine
    <3>1. Wrote(r, Fails(r, l, e), <<>>, 0) /\ Fails(r, l, e).error = Throw(l, e)
      BY <1>1, <2>1, FailsDoes
    <3> QED BY <2>2, <3>1 DEF Wrote, Kept
  <2>5. W = o \o Throw(l, e)
    BY <1>1, <2>3
  <2> QED BY <1>1, <2>1, <2>4, <2>5, EndsThrown DEF W
<1>5. ASSUME r.mode # "thrown", ~ (r.mode \in {"client", "key", "value"} /\ e > r.far) PROVE Ended(t, lim, u)
  <2> DEFINE s == Closed(r, e)
             v == Emit(s, "EOF", e, e)
  <2>1. u = v
    BY <1>5, Zenon DEF Finish
  <2>2. X = k \o E
    BY <1>1, <1>5, EndAhead, Zenon
  <2>3. Wrote(r, s, k, 1) /\ s.error = r.error
    <3>1. r.j + 1 <= r.scratch.room
      BY <1>1, <1>2 DEF Machine
    <3> QED BY <1>1, <3>1, ClosedDoes
  <2> HIDE DEF s, k
  <2>4. Kept(s) /\ s.j + 1 <= s.scratch.room /\ s.j \in Nat
    BY <1>1, <1>2, <2>3 DEF Wrote, Kept, Machine
  <2>5. Wrote(s, v, E, 1) /\ v.error = s.error
    <3>1. "EOF" \in Types
      BY DEF Types
    <3>2. E = One("EOF", e, e)
      BY Zenon DEF Eof, E
    <3>3. Wrote(s, v, One("EOF", e, e), 1) /\ v.error = s.error
      BY <2>4, <3>1, EmitDoes
    <3> HIDE DEF v, E
    <3> QED BY <3>2, <3>3
  <2>6. r.error = <<>>
    BY <1>1, <1>5 DEF Fit
  <2> HIDE DEF v, u, X, W, o
  <2>7. /\ Kept(v) /\ Out(v) = Out(s) \o E /\ Out(s) = o \o k /\ k \in AnyTokens
    BY <2>3, <2>5 DEF Wrote, o
  <2>8. E \in AnyTokens
    BY Simple
  <2> HIDE DEF E
  <2>9. (o \o k) \o E = o \o (k \o E)
    BY <1>1, <2>7, <2>8, Regroups
  <2>10. Out(v) = W
    BY <1>1, <2>2, <2>7, <2>9, Zenon
  <2>11. W = Out(s) \o E /\ Out(s) \in AnyTokens
    BY <2>4, <2>7, <2>10, OutIs
  <2>12. ~ Thrown(W)
    BY <2>11, LastOfEof DEF E
  <2>13. v.scratch \in Scratches /\ v.j \in Nat /\ v.j <= Len(v.scratch.triples)
    BY <2>7 DEF Kept, Machine, Scratches
  <2>14. v.error = <<>>
    BY <2>3, <2>5, <2>6
  <2>15. Ended(t, lim, v)
    BY <2>10, <2>12, <2>13, <2>14 DEF Ended, W, Out
  <2> QED BY <2>1, <2>15
<1> QED BY <1>3, <1>4, <1>5

\* JsFastTokenizer is Tokenizer: for every line and every limit, and whatever the lines before have
\* left in its buffer.
THEOREM TokenizersAgree ==
  ASSUME NEW t, NEW lim, Line(t, lim), NEW tokenizer0, tokenizer0.scratch \in Scratches
  PROVE  LET tokens == Tokenize(t, lim)
             k      == TokenizeInto(tokenizer0, t, lim)
         IN  /\ k.scratch \in Scratches /\ (k.error = <<>> => k.count \in Nat)
             /\ IF Thrown(tokens) THEN k.error = <<Last(tokens)>>
                ELSE /\ k.error = <<>> /\ k.count <= Len(k.scratch.triples)
                     /\ SubSeq(k.scratch.triples, 1, k.count) = tokens
<1> DEFINE B == Begin(tokenizer0, t)
           r == Reading(t, lim, B)[Len(t)]
           e == Len(t) + 1
           u == Finish(r, e)
           k == TokenizeInto(tokenizer0, t, lim)
           tokens == Tokenize(t, lim)
<1>1. Agrees(t, lim, B, 1)
  BY BeginAgrees
<1>2. Agrees(t, lim, r, e)
  <2> HIDE DEF B
  <2> QED BY <1>1, ReadingAgrees
<1>3. AtEnd(t, e) /\ e \in Nat
  BY DEF AtEnd, Line
<1>4. k = [scratch |-> u.scratch, error |-> u.error,
           count |-> IF u.error # <<>> THEN tokenizer0.count ELSE u.j]
  BY DEF TokenizeInto
<1> HIDE DEF r, e, k
<1>5. Ended(t, lim, u)
  BY <1>2, <1>3, FinishAgrees
<1> HIDE DEF u, tokens
<1>6. /\ u.scratch \in Scratches /\ u.j \in Nat
      /\ Thrown(tokens) => u.error = <<Last(tokens)>>
      /\ ~ Thrown(tokens) => /\ u.error = <<>> /\ u.j <= Len(u.scratch.triples)
                             /\ SubSeq(u.scratch.triples, 1, u.j) = tokens
  BY <1>5 DEF Ended, tokens
<1>7. /\ k.scratch \in Scratches /\ (k.error = <<>> => k.count \in Nat)
      /\ Thrown(tokens) => k.error = <<Last(tokens)>>
      /\ ~ Thrown(tokens) => /\ k.error = <<>> /\ k.count <= Len(k.scratch.triples)
                             /\ SubSeq(k.scratch.triples, 1, k.count) = tokens
  BY <1>4, <1>6
<1> QED BY <1>7 DEF k, tokens

-----------------------------------------------------------------------------
(* Texts.                                                                   *)

\* The elements of Seq are sequences.
LEMMA SequenceOf ==
  ASSUME NEW S, NEW s \in Seq(S)
  PROVE  Sequence(s) /\ Len(s) \in Nat /\ DOMAIN s = 1..Len(s)
<1>1. s \in Seq(ToSet(s))
  BY DEF ToSet
<1> QED BY <1>1 DEF Sequence

\* And sequences are elements of it.
LEMMA SequenceIs ==
  ASSUME NEW s, Sequence(s)
  PROVE  s \in Seq(ToSet(s)) /\ Len(s) \in Nat /\ DOMAIN s = 1..Len(s)
BY DEF Sequence

\* So is a function over the first numbers.
LEMMA SequenceMade ==
  ASSUME NEW n \in Nat, NEW f, f = [i \in 1..n |-> f[i]]
  PROVE  Sequence(f) /\ Len(f) = n
<1> DEFINE S == {f[i] : i \in 1..n}
<1>1. f \in [1..n -> S]
  OBVIOUS
<1>2. f \in Seq(S) /\ Len(f) = n
  BY <1>1
<1> QED BY <1>2, SequenceOf

\* So are tuples.
LEMMA SequenceTuples ==
  /\ Sequence(<<>>) /\ \A x : Sequence(<<x>>)
  /\ \A x, y : Sequence(<<x, y>>)
<1>1. Sequence(<<>>)
  <2>1. <<>> \in Seq({})
    OBVIOUS
  <2> QED BY <2>1, SequenceOf
<1>2. ASSUME NEW x PROVE Sequence(<<x>>)
  <2>1. <<x>> \in Seq({x})
    OBVIOUS
  <2> QED BY <2>1, SequenceOf
<1>3. ASSUME NEW x, NEW y PROVE Sequence(<<x, y>>)
  <2>1. <<x, y>> \in Seq({x, y})
    OBVIOUS
  <2> QED BY <2>1, SequenceOf
<1> QED BY <1>1, <1>2, <1>3

\* So are two put together.
LEMMA SequenceCat ==
  ASSUME NEW a, NEW b, Sequence(a), Sequence(b)
  PROVE  Sequence(a \o b)
<1> DEFINE S == ToSet(a) \cup ToSet(b)
<1>1. a \in Seq(S) /\ b \in Seq(S)
  <2>1. a \in Seq(ToSet(a)) /\ b \in Seq(ToSet(b))
    BY DEF Sequence
  <2> DEFINE A == ToSet(a)
             B == ToSet(b)
  <2> HIDE DEF A, B
  <2> QED BY <2>1
<1> HIDE DEF S
<1>2. a \o b \in Seq(S)
  BY <1>1
<1> QED BY <1>2, SequenceOf

\* So is a part.
LEMMA SequenceSub ==
  ASSUME NEW a, Sequence(a), NEW m \in Nat \ {0}, NEW n \in Nat, n <= Len(a)
  PROVE  Sequence(SubSeq(a, m, n))
<1> DEFINE S == ToSet(a)
<1>1. a \in Seq(S)
  BY DEF Sequence
<1> HIDE DEF S
<1>2. SubSeq(a, m, n) \in Seq(S)
  BY <1>1
<1> QED BY <1>2, SequenceOf

\* So is one with one element more.
LEMMA SequenceAppend ==
  ASSUME NEW a, Sequence(a), NEW x
  PROVE  /\ Sequence(Append(a, x)) /\ Len(Append(a, x)) = Len(a) + 1 /\ Len(a) \in Nat
         /\ \A i \in 1..Len(a) : Append(a, x)[i] = a[i]
         /\ Append(a, x)[Len(a) + 1] = x
<1> DEFINE S == ToSet(a) \cup {x}
<1>1. a \in Seq(S) /\ x \in S
  BY DEF Sequence
<1> HIDE DEF S
<1>2. Append(a, x) \in Seq(S)
  BY <1>1
<1>3. Sequence(Append(a, x))
  BY <1>2, SequenceOf
<1> QED BY <1>1, <1>3

\* What is left of a sequence without its last element, or without its first.
LEMMA SequenceFront ==
  ASSUME NEW a, Sequence(a), Len(a) # 0
  PROVE  /\ Sequence(Front(a)) /\ Len(Front(a)) = Len(a) - 1
         /\ \A i \in 1..(Len(a) - 1) : Front(a)[i] = a[i]
<1> DEFINE S == ToSet(a)
           n == Len(a) - 1
           b == SubSeq(a, 1, n)
<1>1. a \in Seq(S)
  BY DEF Sequence
<1> HIDE DEF S
<1>2. n \in Nat /\ n <= Len(a)
  BY <1>1
<1>3. b \in Seq(S) /\ Len(b) = n /\ \A i \in 1..n : b[i] = a[i]
  BY <1>1, <1>2
<1>4. Sequence(b)
  BY <1>3, SequenceOf
<1> QED BY <1>3, <1>4 DEF Front

\* FlattenSeq, up to the kth of the sequences.
FlatTo(s, k, f) == f = [i \in 1..k |-> IF i = 1 THEN s[i] ELSE f[i - 1] \o s[i]]

\* FlattenSeq adds one sequence at a time.
LEMMA Flattens ==
  ASSUME NEW s, Len(s) \in Nat, Len(s) # 0
  PROVE  \E f : FlatTo(s, Len(s), f) /\ FlattenSeq(s) = f[Len(s)]
<1> DEFINE K == {k \in Nat : \E f : FlatTo(s, k, f)}
<1>1. 0 \in K
  <2> DEFINE f == [i \in 1..0 |-> s[i]]
  <2>1. f = [i \in 1..0 |-> IF i = 1 THEN s[i] ELSE f[i - 1] \o s[i]]
    OBVIOUS
  <2> HIDE DEF f
  <2>2. FlatTo(s, 0, f)
    BY <2>1 DEF FlatTo
  <2> QED BY <2>2
<1>2. ASSUME NEW k \in Nat, k \in K PROVE k + 1 \in K
  <2>1. PICK f : FlatTo(s, k, f)
    BY <1>2
  <2> DEFINE m == k + 1
             g == [i \in 1..m |-> IF i = 1 THEN s[i] ELSE f[i - 1] \o s[i]]
  <2>2. f = [i \in 1..k |-> IF i = 1 THEN s[i] ELSE f[i - 1] \o s[i]]
    BY <2>1 DEF FlatTo
  <2>3. \A i \in 1..k : f[i] = g[i]
    <3>1. \A i \in 1..k : i \in 1..m
      OBVIOUS
    <3>2. \A i \in 1..k : f[i] = IF i = 1 THEN s[i] ELSE f[i - 1] \o s[i]
      BY <2>2
    <3> HIDE DEF m
    <3> QED BY <3>1, <3>2, Zenon
  <2>4. \A i \in 1..m : i # 1 => i - 1 \in 1..k
    OBVIOUS
  <2> HIDE DEF m
  <2>5. g = [i \in 1..m |-> IF i = 1 THEN s[i] ELSE g[i - 1] \o s[i]]
    <3> DEFINE h == g
    <3>1. \A i \in 1..m : i # 1 => f[i - 1] = h[i - 1]
      <4> HIDE DEF g
      <4> QED BY <2>3, <2>4
    <3>2. g = [i \in 1..m |-> IF i = 1 THEN s[i] ELSE h[i - 1] \o s[i]]
      <4> HIDE DEF h
      <4> QED BY <3>1
    <3> QED BY <3>2
  <2> HIDE DEF g
  <2>6. FlatTo(s, m, g)
    BY <2>5 DEF FlatTo
  <2>7. m \in Nat
    BY DEF m
  <2> QED BY <2>6, <2>7 DEF m
<1>3. \A k \in Nat : k \in K
  <2> HIDE DEF K
  <2> QED BY <1>1, <1>2, Induction
<1> DEFINE F == CHOOSE f : FlatTo(s, Len(s), f)
<1>4. \E f : FlatTo(s, Len(s), f)
  <2>1. Len(s) \in K
    BY <1>3
  <2> QED BY <2>1
<1>5. FlatTo(s, Len(s), F)
  BY <1>4
<1>6. FlattenSeq(s) = F[Len(s)]
  BY Zenon DEF FlattenSeq, FlatTo
<1> HIDE DEF F
<1> QED BY <1>5, <1>6

\* The same, element by element.
LEMMA FlatStep ==
  ASSUME NEW s, NEW n \in Nat, NEW f, FlatTo(s, n, f)
  PROVE  \A i \in 1..n : f[i] = IF i = 1 THEN s[i] ELSE f[i - 1] \o s[i]
<1>1. f = [i \in 1..n |-> IF i = 1 THEN s[i] ELSE f[i - 1] \o s[i]]
  BY DEF FlatTo
<1> QED BY <1>1, Zenon

\* Sequences of one kind put together are one of that kind.
LEMMA FlattenIn ==
  ASSUME NEW S, NEW s, Sequence(s), \A i \in 1..Len(s) : s[i] \in Seq(S)
  PROVE  FlattenSeq(s) \in Seq(S)
<1> DEFINE n == Len(s)
           P == Seq(S)
<1>1. n \in Nat /\ \A i \in 1..n : s[i] \in P
  BY SequenceIs
<1>2. ASSUME n = 0 PROVE FlattenSeq(s) \in P
  <2>1. s = <<>>
    BY <1>2, SequenceIs
  <2>2. FlattenSeq(s) = s
    BY <1>2 DEF FlattenSeq
  <2>3. <<>> \in P
    OBVIOUS
  <2> QED BY <2>1, <2>2, <2>3, Zenon
<1>3. ASSUME n # 0 PROVE FlattenSeq(s) \in P
  <2>1. PICK f : FlatTo(s, n, f) /\ FlattenSeq(s) = f[n]
    BY <1>1, <1>3, Flattens
  <2>2. \A i \in 1..n : f[i] = IF i = 1 THEN s[i] ELSE f[i - 1] \o s[i]
    BY <1>1, <2>1, FlatStep
  <2> DEFINE K == {k \in Nat : k \in 1..n => f[k] \in P}
  <2>3. 0 \in K
    OBVIOUS
  <2>4. \A a, b \in P : a \o b \in P
    OBVIOUS
  <2> HIDE DEF n, P
  <2>5. ASSUME NEW k \in Nat, k \in K PROVE k + 1 \in K
    <3> SUFFICES ASSUME k + 1 \in 1..n PROVE f[k + 1] \in P
      OBVIOUS
    <3> DEFINE m == k + 1
    <3>1. m \in 1..n /\ (m # 1 => m - 1 = k /\ k \in 1..n)
      BY <1>1
    <3> HIDE DEF m
    <3>2. s[m] \in P
      BY <1>1, <3>1
    <3>3. CASE m = 1
      <4>1. f[m] = s[m]
        BY <2>2, <3>1, <3>3
      <4> QED BY <3>2, <4>1 DEF m
    <3>4. CASE m # 1
      <4>1. f[m] = f[m - 1] \o s[m]
        BY <2>2, <3>1, <3>4, Zenon
      <4>2. f[m - 1] \in P
        BY <2>5, <3>1, <3>4
      <4>3. f[m] \in P
        BY <2>4, <3>2, <4>1, <4>2, Zenon
      <4> QED BY <4>3 DEF m
    <3> QED BY <3>3, <3>4
  <2>6. \A k \in Nat : k \in K
    <3> HIDE DEF K
    <3> QED BY <2>3, <2>5, Induction
  <2>7. n \in K /\ n \in 1..n
    BY <1>1, <1>3, <2>6
  <2> QED BY <2>1, <2>7
<1> QED BY <1>2, <1>3

\* Texts put together are a text.
LEMMA FlattenText ==
  ASSUME NEW s, Texts(s)
  PROVE  Sequence(FlattenSeq(s))
<1> DEFINE S == UNION {ToSet(s[i]) : i \in 1..Len(s)}
<1>1. Sequence(s)
  BY DEF Texts
<1>2. ASSUME NEW i \in 1..Len(s) PROVE s[i] \in Seq(S)
  <2>1. s[i] \in Seq(ToSet(s[i])) /\ ToSet(s[i]) \subseteq S
    BY SequenceIs DEF Texts
  <2> QED BY <2>1
<1> HIDE DEF S
<1> QED BY <1>1, <1>2, FlattenIn, SequenceOf

-----------------------------------------------------------------------------
(* Lists of texts.                                                          *)

\* A list of texts is a list that holds only texts.
LEMMA TextsIs ==
  ASSUME NEW S, NEW s \in Seq(S), \A x \in S : Sequence(x)
  PROVE  Texts(s)
<1>1. \A i \in 1..Len(s) : s[i] \in S
  OBVIOUS
<1> QED BY <1>1, SequenceOf DEF Texts

\* The elements of a list of texts are texts.
LEMMA TextsIn ==
  ASSUME NEW s, Texts(s)
  PROVE  s \in Seq(ToSet(s)) /\ \A x \in ToSet(s) : Sequence(x)
<1>1. s \in Seq(ToSet(s)) /\ DOMAIN s = 1..Len(s)
  BY SequenceIs DEF Texts
<1> QED BY <1>1 DEF Texts, ToSet

\* Two lists of texts put together are one.
LEMMA TextsCat ==
  ASSUME NEW a, NEW b, Texts(a), Texts(b)
  PROVE  Texts(a \o b)
<1> DEFINE A == ToSet(a)
           B == ToSet(b)
<1>1. a \in Seq(A) /\ b \in Seq(B) /\ \A x \in A \cup B : Sequence(x)
  BY TextsIn
<1> HIDE DEF A, B
<1>2. a \o b \in Seq(A \cup B)
  <2>1. a \in Seq(A \cup B) /\ b \in Seq(A \cup B)
    BY <1>1
  <2> DEFINE S == A \cup B
  <2> HIDE DEF S
  <2> QED BY <2>1 DEF S
<1> QED BY <1>1, <1>2, TextsIs

\* So are tuples of texts.
LEMMA TextsTuples ==
  /\ Texts(<<>>)
  /\ \A x : Sequence(x) => Texts(<<x>>)
  /\ \A x, y : Sequence(x) /\ Sequence(y) => Texts(<<x, y>>)
  /\ \A x, y, z, w : Sequence(x) /\ Sequence(y) /\ Sequence(z) /\ Sequence(w) => Texts(<<x, y, z, w>>)
<1>1. Texts(<<>>)
  BY SequenceTuples DEF Texts
<1>2. ASSUME NEW x, Sequence(x) PROVE Texts(<<x>>)
  <2> DEFINE S == {x}
             s == <<x>>
  <2>1. s \in Seq(S) /\ \A v \in S : Sequence(v)
    BY <1>2
  <2> HIDE DEF S, s
  <2>2. Texts(s)
    BY <2>1, TextsIs
  <2> QED BY <2>2 DEF s
<1>3. ASSUME NEW x, NEW y, Sequence(x), Sequence(y) PROVE Texts(<<x, y>>)
  <2> DEFINE S == {x, y}
             s == <<x, y>>
  <2>1. s \in Seq(S) /\ \A v \in S : Sequence(v)
    BY <1>3
  <2> HIDE DEF S, s
  <2>2. Texts(s)
    BY <2>1, TextsIs
  <2> QED BY <2>2 DEF s
<1>4. ASSUME NEW x, NEW y, NEW z, NEW w, Sequence(x), Sequence(y), Sequence(z), Sequence(w)
      PROVE  Texts(<<x, y, z, w>>)
  <2> DEFINE S == {x, y, z, w}
             s == <<x, y, z, w>>
  <2>1. s \in Seq(S) /\ \A v \in S : Sequence(v)
    BY <1>4
  <2> HIDE DEF S, s
  <2>2. Texts(s)
    BY <2>1, TextsIs
  <2> QED BY <2>2 DEF s
<1> QED BY <1>1, <1>2, <1>3, <1>4

\* Lists of texts put together are one.
LEMMA FlattenTexts ==
  ASSUME NEW s, Sequence(s), \A i \in 1..Len(s) : Texts(s[i])
  PROVE  Texts(FlattenSeq(s))
<1> DEFINE S == UNION {ToSet(s[i]) : i \in 1..Len(s)}
<1>1. ASSUME NEW i \in 1..Len(s) PROVE s[i] \in Seq(S)
  <2>1. s[i] \in Seq(ToSet(s[i])) /\ ToSet(s[i]) \subseteq S
    BY TextsIn
  <2> QED BY <2>1
<1>2. \A x \in S : Sequence(x)
  BY TextsIn
<1> HIDE DEF S
<1>3. FlattenSeq(s) \in Seq(S)
  BY <1>1, FlattenIn
<1> QED BY <1>2, <1>3, TextsIs

\* So is one without its first or last.
LEMMA TextsLess ==
  ASSUME NEW s, Texts(s), Len(s) # 0
  PROVE  Texts(Front(s)) /\ Texts(Tail(s)) /\ Sequence(Last(s)) /\ Len(Front(s)) = Len(s) - 1
<1> DEFINE S == ToSet(s)
           n == Len(s) - 1
<1>1. s \in Seq(S) /\ \A x \in S : Sequence(x)
  BY TextsIn
<1> HIDE DEF S
<1>2. n \in Nat /\ n <= Len(s) /\ s # <<>>
  BY <1>1
<1>3. SubSeq(s, 1, n) \in Seq(S) /\ Len(SubSeq(s, 1, n)) = n /\ Tail(s) \in Seq(S) /\ s[Len(s)] \in S
  BY <1>1, <1>2
<1> QED BY <1>1, <1>3, TextsIs DEF Front, Last

\* So is one with one more.
LEMMA TextsMore ==
  ASSUME NEW s, Texts(s), NEW x, Sequence(x)
  PROVE  Texts(Append(s, x)) /\ Len(Append(s, x)) = Len(s) + 1 /\ Len(s) \in Nat
<1> DEFINE S == ToSet(s) \cup {x}
<1>1. s \in Seq(S) /\ \A y \in S : Sequence(y)
  <2>1. s \in Seq(ToSet(s)) /\ \A y \in ToSet(s) : Sequence(y)
    BY TextsIn
  <2> DEFINE A == ToSet(s)
  <2> HIDE DEF A
  <2> QED BY <2>1
<1>2. x \in S
  OBVIOUS
<1> HIDE DEF S
<1>3. Append(s, x) \in Seq(S) /\ Len(Append(s, x)) = Len(s) + 1 /\ Len(s) \in Nat
  BY <1>1, <1>2
<1> QED BY <1>1, <1>3, TextsIs

\* Pieces, up to the kth byte of the text.
CutTo(text, mark, k, f) == f = [i \in 0..k |-> IF i = 0 THEN << <<>> >> ELSE Piece(f[i - 1], text[i], mark)]

\* Pieces cuts one byte at a time.
LEMMA Cuts ==
  ASSUME NEW text, NEW mark, Len(text) \in Nat
  PROVE  \E f : CutTo(text, mark, Len(text), f) /\ Pieces(text, mark) = f[Len(text)]
<1> DEFINE K == {k \in Nat : \E f : CutTo(text, mark, k, f)}
<1>1. 0 \in K
  <2> DEFINE f == [i \in 0..0 |-> << <<>> >>]
  <2>1. f = [i \in 0..0 |-> IF i = 0 THEN << <<>> >> ELSE Piece(f[i - 1], text[i], mark)]
    OBVIOUS
  <2> HIDE DEF f
  <2>2. CutTo(text, mark, 0, f)
    BY <2>1 DEF CutTo
  <2> QED BY <2>2
<1>2. ASSUME NEW k \in Nat, k \in K PROVE k + 1 \in K
  <2>1. PICK f : CutTo(text, mark, k, f)
    BY <1>2
  <2> DEFINE m == k + 1
             g == [i \in 0..m |-> IF i = 0 THEN << <<>> >> ELSE Piece(f[i - 1], text[i], mark)]
  <2>2. f = [i \in 0..k |-> IF i = 0 THEN << <<>> >> ELSE Piece(f[i - 1], text[i], mark)]
    BY <2>1 DEF CutTo
  <2>3. \A i \in 0..k : f[i] = g[i]
    <3>1. \A i \in 0..k : i \in 0..m
      OBVIOUS
    <3>2. \A i \in 0..k : f[i] = IF i = 0 THEN << <<>> >> ELSE Piece(f[i - 1], text[i], mark)
      BY <2>2
    <3> HIDE DEF m
    <3> QED BY <3>1, <3>2, Zenon
  <2>4. \A i \in 0..m : i # 0 => i - 1 \in 0..k
    OBVIOUS
  <2> HIDE DEF m
  <2>5. g = [i \in 0..m |-> IF i = 0 THEN << <<>> >> ELSE Piece(g[i - 1], text[i], mark)]
    <3> DEFINE h == g
    <3>1. \A i \in 0..m : i # 0 => f[i - 1] = h[i - 1]
      <4> HIDE DEF g
      <4> QED BY <2>3, <2>4
    <3>2. g = [i \in 0..m |-> IF i = 0 THEN << <<>> >> ELSE Piece(h[i - 1], text[i], mark)]
      <4> HIDE DEF h
      <4> QED BY <3>1
    <3> QED BY <3>2
  <2> HIDE DEF g
  <2>6. CutTo(text, mark, m, g)
    BY <2>5 DEF CutTo
  <2>7. m \in Nat
    BY DEF m
  <2> QED BY <2>6, <2>7 DEF m
<1>3. \A k \in Nat : k \in K
  <2> HIDE DEF K
  <2> QED BY <1>1, <1>2, Induction
<1> DEFINE F == CHOOSE f : CutTo(text, mark, Len(text), f)
<1>4. \E f : CutTo(text, mark, Len(text), f)
  <2>1. Len(text) \in K
    BY <1>3
  <2> QED BY <2>1
<1>5. CutTo(text, mark, Len(text), F)
  BY <1>4
<1>6. Pieces(text, mark) = F[Len(text)]
  BY Zenon DEF Pieces, CutTo
<1> HIDE DEF F
<1> QED BY <1>5, <1>6

\* A text is cut into texts, of which the last is still open.
LEMMA PieceTexts ==
  ASSUME NEW cut, Texts(cut), Len(cut) # 0, NEW c, NEW mark
  PROVE  Texts(Piece(cut, c, mark)) /\ Len(Piece(cut, c, mark)) # 0
<1>1. Texts(Front(cut)) /\ Sequence(Last(cut))
  BY TextsLess
<1>2. Sequence(Append(Last(cut), c)) /\ Sequence(<<>>)
  BY <1>1, SequenceAppend, SequenceTuples
<1>3. Texts(Append(cut, <<>>)) /\ Len(Append(cut, <<>>)) = Len(cut) + 1 /\ Len(cut) \in Nat
  BY <1>2, TextsMore
<1> DEFINE h == Front(cut)
           x == Append(Last(cut), c)
<1> HIDE DEF h, x
<1>4. Texts(Append(h, x)) /\ Len(Append(h, x)) = Len(h) + 1 /\ Len(h) \in Nat
  BY <1>1, <1>2, TextsMore DEF h, x
<1>5. Piece(cut, c, mark) = IF c = mark THEN Append(cut, <<>>) ELSE Append(h, x)
  BY DEF Piece, h, x
<1> QED BY <1>3, <1>4, <1>5

\* So are all its bytes: at least one text is left, the open one.
LEMMA PiecesTexts ==
  ASSUME NEW text, Sequence(text), NEW mark
  PROVE  Texts(Pieces(text, mark)) /\ Len(Pieces(text, mark)) # 0
<1> DEFINE n == Len(text)
           Whole(p) == Texts(p) /\ Len(p) # 0
<1>1. n \in Nat
  BY SequenceIs
<1>2. PICK f : CutTo(text, mark, n, f) /\ Pieces(text, mark) = f[n]
  BY <1>1, Cuts
<1>3. f = [i \in 0..n |-> IF i = 0 THEN << <<>> >> ELSE Piece(f[i - 1], text[i], mark)]
  BY <1>2 DEF CutTo
<1>4. f[0] = << <<>> >> /\ \A i \in 1..n : f[i] = Piece(f[i - 1], text[i], mark)
  <2>1. \A i \in 0..n : f[i] = IF i = 0 THEN << <<>> >> ELSE Piece(f[i - 1], text[i], mark)
    BY <1>3, Zenon
  <2>2. 0 \in 0..n /\ \A i \in 1..n : i \in 0..n /\ i # 0
    BY <1>1
  <2> QED BY <2>1, <2>2, Zenon
<1> DEFINE K == {k \in Nat : k \in 0..n => Whole(f[k])}
<1>5. 0 \in K
  <2>1. Texts(<< <<>> >>)
    BY SequenceTuples, TextsTuples
  <2>2. Len(<< <<>> >>) # 0
    OBVIOUS
  <2> QED BY <1>4, <2>1, <2>2
<1> HIDE DEF n
<1>6. ASSUME NEW k \in Nat, k \in K PROVE k + 1 \in K
  <2> SUFFICES ASSUME k + 1 \in 0..n PROVE Whole(f[k + 1])
    OBVIOUS
  <2> DEFINE m == k + 1
  <2>1. m \in 1..n /\ m - 1 = k /\ k \in 0..n
    BY <1>1
  <2>2. Whole(f[k])
    BY <1>6, <2>1
  <2> HIDE DEF m
  <2>3. f[m] = Piece(f[k], text[m], mark)
    BY <1>4, <2>1
  <2>4. Whole(Piece(f[k], text[m], mark))
    BY <2>2, PieceTexts
  <2>5. Whole(f[m])
    BY <2>3, <2>4
  <2> QED BY <2>5 DEF m
<1>7. \A k \in Nat : k \in K
  <2> HIDE DEF K
  <2> QED BY <1>5, <1>6, Induction
<1>8. Whole(f[n])
  BY <1>1, <1>7
<1> QED BY <1>2, <1>8

\* The texts that are not empty are texts.
LEMMA FilledTexts ==
  ASSUME NEW ts, Texts(ts)
  PROVE  Texts(Filled(ts))
<1> DEFINE s == [i \in DOMAIN ts |-> IF ts[i] = <<>> THEN <<>> ELSE <<ts[i]>>]
<1>1. DOMAIN ts = 1..Len(ts) /\ Len(ts) \in Nat /\ \A i \in 1..Len(ts) : Sequence(ts[i])
  BY SequenceIs DEF Texts
<1>2. s = [i \in 1..Len(ts) |-> s[i]]
  BY <1>1
<1>3. ASSUME NEW i \in 1..Len(ts) PROVE Texts(s[i])
  <2>1. s[i] = IF ts[i] = <<>> THEN <<>> ELSE <<ts[i]>>
    BY <1>1
  <2>2. Texts(<<>>) /\ Texts(<<ts[i]>>)
    BY <1>1, TextsTuples
  <2> QED BY <2>1, <2>2
<1> HIDE DEF s
<1>4. Sequence(s) /\ Len(s) = Len(ts)
  BY <1>1, <1>2, SequenceMade
<1>5. Texts(FlattenSeq(s))
  BY <1>3, <1>4, FlattenTexts
<1> QED BY <1>5 DEF Filled, s

\* So are the lines without their CR.
LEMMA FramedTexts ==
  ASSUME NEW ls, Texts(ls)
  PROVE  Texts(Framed(ls))
<1> DEFINE Stripped(l) == IF l # <<>> /\ Last(l) = "CR" THEN Front(l) ELSE l
           s == [i \in DOMAIN ls |-> Stripped(ls[i])]
<1>1. DOMAIN ls = 1..Len(ls) /\ Len(ls) \in Nat /\ \A i \in 1..Len(ls) : Sequence(ls[i])
  BY SequenceIs DEF Texts
<1>2. s = [i \in 1..Len(ls) |-> s[i]]
  BY <1>1
<1>3. ASSUME NEW l, Sequence(l) PROVE Sequence(Stripped(l))
  <2>1. l # <<>> => Len(l) # 0
    BY <1>3, SequenceIs
  <2>2. l # <<>> => Sequence(Front(l))
    BY <1>3, <2>1, SequenceFront
  <2> QED BY <1>3, <2>2
<1>4. \A i \in 1..Len(ls) : Sequence(s[i])
  <2>1. \A i \in 1..Len(ls) : s[i] = Stripped(ls[i])
    BY <1>1
  <2> HIDE DEF Stripped, s
  <2> QED BY <1>1, <1>3, <2>1
<1>5. Filled(s) = Framed(ls)
  BY DEF Framed
<1> HIDE DEF s
<1>6. Sequence(s) /\ Len(s) = Len(ls)
  BY <1>1, <1>2, SequenceMade
<1>7. Texts(s)
  BY <1>4, <1>6 DEF Texts
<1> QED BY <1>5, <1>7, FilledTexts

\* What a chunk completes are texts, and what is left of it is one.
LEMMA DecodesTexts ==
  ASSUME NEW d, NEW chunk, Sequence(d.buffer), Sequence(chunk)
  PROVE  Texts(Decodes(d, chunk).lines) /\ Sequence(Decodes(d, chunk).buffer)
<1> DEFINE all == Lines(d.buffer \o chunk)
           rest == Last(all)
           whole == IF d.resyncing /\ Len(all) > 1 THEN Tail(Front(all)) ELSE Front(all)
<1>1. Texts(all) /\ Len(all) # 0
  BY SequenceCat, PiecesTexts DEF Lines
<1> HIDE DEF all
<1>2. Sequence(rest) /\ Texts(Front(all)) /\ Len(Front(all)) = Len(all) - 1 /\ Len(all) \in Nat
  BY <1>1, TextsLess, SequenceIs DEF Texts
<1>3. Len(all) > 1 => Texts(Tail(Front(all)))
  <2>1. Len(all) > 1 => Len(Front(all)) # 0
    BY <1>2
  <2> QED BY <1>2, <2>1, TextsLess
<1>4. Texts(whole)
  BY <1>2, <1>3
<1>5. /\ Decodes(d, chunk).lines = Framed(whole)
      /\ Decodes(d, chunk).buffer = IF Len(rest) > MaxLine THEN <<>> ELSE rest
  BY DEF Decodes, all
<1> HIDE DEF whole, rest
<1> QED BY <1>2, <1>4, <1>5, FramedTexts, SequenceTuples

\* Hears, up to the kth line.
HeardTo(s, lines, k, f) == f = [i \in 0..k |-> IF i = 0 THEN s ELSE Parses(f[i - 1], lines[i])]

\* Hears parses one line at a time.
LEMMA HearsAll ==
  ASSUME NEW s, NEW lines, Len(lines) \in Nat
  PROVE  \E f : HeardTo(s, lines, Len(lines), f) /\ Hears(s, lines) = f[Len(lines)]
<1> DEFINE K == {k \in Nat : \E f : HeardTo(s, lines, k, f)}
<1>1. 0 \in K
  <2> DEFINE f == [i \in 0..0 |-> s]
  <2>1. f = [i \in 0..0 |-> IF i = 0 THEN s ELSE Parses(f[i - 1], lines[i])]
    OBVIOUS
  <2> HIDE DEF f
  <2>2. HeardTo(s, lines, 0, f)
    BY <2>1 DEF HeardTo
  <2> QED BY <2>2
<1>2. ASSUME NEW k \in Nat, k \in K PROVE k + 1 \in K
  <2>1. PICK f : HeardTo(s, lines, k, f)
    BY <1>2
  <2> DEFINE m == k + 1
             g == [i \in 0..m |-> IF i = 0 THEN s ELSE Parses(f[i - 1], lines[i])]
  <2>2. f = [i \in 0..k |-> IF i = 0 THEN s ELSE Parses(f[i - 1], lines[i])]
    BY <2>1 DEF HeardTo
  <2>3. \A i \in 0..k : f[i] = g[i]
    <3>1. \A i \in 0..k : i \in 0..m
      OBVIOUS
    <3>2. \A i \in 0..k : f[i] = IF i = 0 THEN s ELSE Parses(f[i - 1], lines[i])
      BY <2>2
    <3> HIDE DEF m
    <3> QED BY <3>1, <3>2, Zenon
  <2>4. \A i \in 0..m : i # 0 => i - 1 \in 0..k
    OBVIOUS
  <2> HIDE DEF m
  <2>5. g = [i \in 0..m |-> IF i = 0 THEN s ELSE Parses(g[i - 1], lines[i])]
    <3> DEFINE h == g
    <3>1. \A i \in 0..m : i # 0 => f[i - 1] = h[i - 1]
      <4> HIDE DEF g
      <4> QED BY <2>3, <2>4
    <3>2. g = [i \in 0..m |-> IF i = 0 THEN s ELSE Parses(h[i - 1], lines[i])]
      <4> HIDE DEF h
      <4> QED BY <3>1
    <3> QED BY <3>2
  <2> HIDE DEF g
  <2>6. HeardTo(s, lines, m, g)
    BY <2>5 DEF HeardTo
  <2>7. m \in Nat
    BY DEF m
  <2> QED BY <2>6, <2>7 DEF m
<1>3. \A k \in Nat : k \in K
  <2> HIDE DEF K
  <2> QED BY <1>1, <1>2, Induction
<1> DEFINE F == CHOOSE f : HeardTo(s, lines, Len(lines), f)
<1>4. \E f : HeardTo(s, lines, Len(lines), f)
  <2>1. Len(lines) \in K
    BY <1>3
  <2> QED BY <2>1
<1>5. HeardTo(s, lines, Len(lines), F)
  BY <1>4
<1>6. Hears(s, lines) = F[Len(lines)]
  BY Zenon DEF Hears, HeardTo
<1> HIDE DEF F
<1> QED BY <1>5, <1>6

\* A tokenizer that has in its buffer what the reference has for line t.
Agreed(tk, t) ==
  t # <<>> =>
    LET tokens == Tokenize(t, Lim)
    IN  IF Thrown(tokens) THEN tk.error = <<Last(tokens)>>
        ELSE /\ tk.error = <<>> /\ tk.count <= Len(tk.scratch.triples)
             /\ SubSeq(tk.scratch.triples, 1, tk.count) = tokens

\* What the client is between two lines.
Heeds(s) ==
  /\ DOMAIN s = {"tokenizer", "line", "heard", "isupport", "channel"}
  /\ s.tokenizer.scratch \in Scratches /\ Sequence(s.line) /\ Agreed(s.tokenizer, s.line)

\* One line, whatever it is, leaves the tokenizer right about it.
LEMMA ParsesHeeds ==
  ASSUME Lim.tagData \in Nat, NEW s, Heeds(s), NEW t, Sequence(t)
  PROVE  Heeds(Parses(s, t))
<1> DEFINE tk == TokenizeInto(s.tokenizer, t, Lim)
           u == Parses(s, t)
<1>1. Line(t, Lim) /\ s.tokenizer.scratch \in Scratches
  BY SequenceIs DEF Line, Heeds
<1>2. tk.scratch \in Scratches /\ Agreed(tk, t)
  BY <1>1, TokenizersAgree DEF Agreed
<1> HIDE DEF tk
<1>3. DOMAIN u = {"tokenizer", "line", "heard", "isupport", "channel"} /\ u.tokenizer = tk /\ u.line = t
  <2> DEFINE m == FlatParse(t, tk.scratch, tk.count)
             c == Dispatch([isupport |-> s.isupport, channel |-> s.channel], m)
             h == Append(s.heard, m)
  <2>1. u = IF tk.error # <<>> THEN [s EXCEPT !.tokenizer = tk, !.line = t]
            ELSE [tokenizer |-> tk, line |-> t, heard |-> h, isupport |-> c.isupport, channel |-> c.channel]
    BY Zenon DEF Parses, Accepts, tk
  <2> HIDE DEF m, c, h, u
  <2>2. DOMAIN s = {"tokenizer", "line", "heard", "isupport", "channel"}
    BY DEF Heeds
  <2>3. CASE tk.error # <<>>
    <3>1. u = [s EXCEPT !.tokenizer = tk, !.line = t]
      BY <2>1, <2>3
    <3> QED BY <2>2, <3>1
  <2>4. CASE tk.error = <<>>
    <3>1. u = [tokenizer |-> tk, line |-> t, heard |-> h, isupport |-> c.isupport, channel |-> c.channel]
      BY <2>1, <2>4
    <3> QED BY <3>1
  <2> QED BY <2>3, <2>4
<1> HIDE DEF u
<1>4. Heeds(u)
  BY <1>2, <1>3 DEF Heeds
<1> QED BY <1>4 DEF u

\* And so do all of them.
LEMMA HearsHeeds ==
  ASSUME Lim.tagData \in Nat, NEW s, Heeds(s), NEW lines, Texts(lines)
  PROVE  Heeds(Hears(s, lines))
<1> DEFINE n == Len(lines)
<1>1. n \in Nat /\ \A i \in 1..n : Sequence(lines[i])
  BY SequenceIs DEF Texts
<1>2. PICK f : HeardTo(s, lines, n, f) /\ Hears(s, lines) = f[n]
  BY <1>1, HearsAll
<1>3. f = [i \in 0..n |-> IF i = 0 THEN s ELSE Parses(f[i - 1], lines[i])]
  BY <1>2 DEF HeardTo
<1>4. f[0] = s /\ \A i \in 1..n : f[i] = Parses(f[i - 1], lines[i])
  <2>1. \A i \in 0..n : f[i] = IF i = 0 THEN s ELSE Parses(f[i - 1], lines[i])
    BY <1>3, Zenon
  <2>2. 0 \in 0..n /\ \A i \in 1..n : i \in 0..n /\ i # 0
    BY <1>1
  <2> QED BY <2>1, <2>2, Zenon
<1> DEFINE K == {k \in Nat : k \in 0..n => Heeds(f[k])}
<1>5. 0 \in K
  BY <1>4
<1> HIDE DEF n
<1>6. ASSUME NEW k \in Nat, k \in K PROVE k + 1 \in K
  <2> SUFFICES ASSUME k + 1 \in 0..n PROVE Heeds(f[k + 1])
    OBVIOUS
  <2> DEFINE m == k + 1
  <2>1. m \in 1..n /\ m - 1 = k /\ k \in 0..n
    BY <1>1
  <2>2. Heeds(f[k])
    BY <1>6, <2>1
  <2> HIDE DEF m
  <2>3. f[m] = Parses(f[k], lines[m])
    BY <1>4, <2>1
  <2>4. Heeds(Parses(f[k], lines[m]))
    BY <1>1, <2>1, <2>2, ParsesHeeds
  <2>5. Heeds(f[m])
    BY <2>3, <2>4
  <2> QED BY <2>5 DEF m
<1>7. \A k \in Nat : k \in K
  <2> HIDE DEF K
  <2> QED BY <1>5, <1>6, Induction
<1>8. Heeds(f[n])
  BY <1>1, <1>7
<1> QED BY <1>2, <1>8

\* So is a function over the first numbers.
LEMMA TextsMade ==
  ASSUME NEW n \in Nat, NEW s, s = [i \in 1..n |-> s[i]], \A i \in 1..n : Sequence(s[i])
  PROVE  Texts(s)
BY SequenceMade DEF Texts

\* An escaped tag value is a text.
LEMMA EscapeText ==
  ASSUME NEW v, Sequence(v)
  PROVE  Sequence(EscapeTagValue(v))
<1> DEFINE E(c) == IF c \in DOMAIN Escapes THEN <<"\\", Escapes[c]>> ELSE <<c>>
           s == [i \in DOMAIN v |-> E(v[i])]
<1>1. DOMAIN v = 1..Len(v) /\ Len(v) \in Nat
  BY SequenceIs
<1>2. ASSUME NEW c PROVE Sequence(E(c))
  <2>1. Sequence(<<"\\", Escapes[c]>>) /\ Sequence(<<c>>)
    BY SequenceTuples, Zenon
  <2> QED BY <2>1, Zenon
<1>3. FlattenSeq(s) = EscapeTagValue(v)
  BY Zenon DEF EscapeTagValue
<1> HIDE DEF E
<1>4. s = [i \in 1..Len(v) |-> s[i]] /\ \A i \in 1..Len(v) : s[i] = E(v[i])
  BY <1>1
<1> HIDE DEF s
<1>5. \A i \in 1..Len(v) : Sequence(s[i])
  BY <1>2, <1>4
<1>6. Texts(s)
  BY <1>1, <1>4, <1>5, TextsMade
<1>7. Sequence(FlattenSeq(s))
  BY <1>6, FlattenText
<1> QED BY <1>3, <1>7, Zenon

\* So is a tag.
LEMMA TagTextIs ==
  ASSUME NEW k, NEW v, Sequence(k), Sequence(v)
  PROVE  Sequence(TagText(k, v))
<1> DEFINE e == <<"=">>
           x == EscapeTagValue(v)
<1>1. Sequence(e) /\ Sequence(x)
  BY SequenceTuples, EscapeText, Zenon
<1>2. TagText(k, v) = IF v = <<>> THEN k ELSE (k \o e) \o x
  BY Zenon DEF TagText
<1> HIDE DEF e, x
<1>3. Sequence((k \o e) \o x)
  BY <1>1, SequenceCat, Zenon
<1> QED BY <1>2, <1>3, Zenon

\* A finite set is listed by a sequence.
LEMMA SetToSeqIs ==
  ASSUME NEW S, IsFiniteSet(S)
  PROVE  Sequence(SetToSeq(S)) /\ \A i \in 1..Len(SetToSeq(S)) : SetToSeq(S)[i] \in S
<1> DEFINE n == Cardinality(S)
<1>1. n \in Nat /\ ExistsBijection(1..n, S)
  BY FS_CardinalityType
<1>2. \E f \in [1..n -> S] : IsInjective(f)
  BY <1>1, Zenon DEF ExistsBijection, Bijection, Injection
<1> DEFINE q == CHOOSE f \in [1..n -> S] : IsInjective(f)
<1>3. q \in [1..n -> S]
  BY <1>2, Zenon
<1>4. SetToSeq(S) = q
  BY Zenon DEF SetToSeq
<1> HIDE DEF q, n
<1>5. q \in Seq(S) /\ Len(q) = n
  BY <1>1, <1>3
<1>6. Sequence(q) /\ \A i \in 1..Len(q) : q[i] \in S
  BY <1>3, <1>5, SequenceOf
<1> QED BY <1>4, <1>6, Zenon

\* A field of a source is a text.
LEMMA FieldText ==
  ASSUME NEW m, IsMessage(m), NEW f, NEW mark
  PROVE  Sequence(IF f \in DOMAIN m.source THEN <<mark>> \o m.source[f] ELSE <<>>)
<1>1. Sequence(<<>>) /\ Sequence(<<mark>>)
  BY SequenceTuples, Zenon
<1>2. f \in DOMAIN m.source => Sequence(m.source[f])
  BY Zenon DEF IsMessage
<1>3. f \in DOMAIN m.source => Sequence(<<mark>> \o m.source[f])
  BY <1>1, <1>2, SequenceCat, Zenon
<1> QED BY <1>1, <1>3, Zenon

\* So is a message, written down.
LEMMA BuildText ==
  ASSUME NEW m, IsMessage(m)
  PROVE  Sequence(BuildMessage(m))
<1> DEFINE keys == SetToSeq(DOMAIN m.tags)
           Field(f, sign) == IF f \in DOMAIN m.source THEN <<sign>> \o m.source[f] ELSE <<>>
           Sign(i) == <<IF i = 1 THEN "@" ELSE ";">>
           Tag(i) == Sign(i) \o TagText(keys[i], m.tags[keys[i]])
           tags == [i \in DOMAIN keys |-> Tag(i)]
           Colon(i) == IF i = Len(m.params) /\ NeedsColon(m.params[i]) THEN <<":">> ELSE <<>>
           space == <<" ">>
           Param(i) == (space \o Colon(i)) \o m.params[i]
           params == [i \in DOMAIN m.params |-> Param(i)]
           head == IF keys = <<>> THEN <<>> ELSE FlattenSeq(tags) \o space
           from == IF m.source = <<>> THEN <<>>
                   ELSE ((Field("name", ":") \o Field("user", "!")) \o Field("host", "@")) \o space
<1>1. BuildMessage(m) = ((head \o from) \o m.command) \o FlattenSeq(params)
  BY Zenon DEF BuildMessage
<1>2. Sequence(space) /\ Sequence(<<>>) /\ \A i : Sequence(Sign(i)) /\ Sequence(Colon(i))
  <2>1. Sequence(space) /\ Sequence(<<>>) /\ Sequence(<<":">>)
    BY SequenceTuples, Zenon
  <2>2. ASSUME NEW i PROVE Sequence(Sign(i))
    BY SequenceTuples, Zenon
  <2>3. ASSUME NEW i PROVE Sequence(Colon(i))
    BY <2>1, Zenon
  <2> QED BY <2>1, <2>2, <2>3, Zenon
<1>3. Sequence(FlattenSeq(tags))
  <2>1. Sequence(keys) /\ \A i \in 1..Len(keys) : keys[i] \in DOMAIN m.tags
    BY SetToSeqIs DEF IsMessage
  <2>2. DOMAIN keys = 1..Len(keys) /\ Len(keys) \in Nat
    BY <2>1, SequenceIs
  <2> HIDE DEF keys, Sign
  <2>3. ASSUME NEW i \in 1..Len(keys) PROVE Sequence(Tag(i))
    <3>1. Sequence(keys[i]) /\ Sequence(m.tags[keys[i]])
      BY <2>1, Zenon DEF IsMessage
    <3>2. Sequence(TagText(keys[i], m.tags[keys[i]]))
      BY <3>1, TagTextIs, Zenon
    <3> QED BY <1>2, <3>2, SequenceCat, Zenon
  <2> HIDE DEF Tag
  <2>4. tags = [i \in 1..Len(keys) |-> tags[i]] /\ \A i \in 1..Len(keys) : tags[i] = Tag(i)
    BY <2>2
  <2> HIDE DEF tags
  <2>5. \A i \in 1..Len(keys) : Sequence(tags[i])
    BY <2>3, <2>4
  <2> QED BY <2>2, <2>4, <2>5, TextsMade, FlattenText
<1>4. Sequence(FlattenSeq(params))
  <2> DEFINE ps == m.params
  <2>1. DOMAIN ps = 1..Len(ps) /\ Len(ps) \in Nat /\ \A i \in 1..Len(ps) : Sequence(ps[i])
    BY SequenceIs DEF IsMessage, Texts
  <2>2. ASSUME NEW i \in 1..Len(ps) PROVE Sequence(Param(i))
    <3> DEFINE a == space \o Colon(i)
    <3> HIDE DEF space, Colon
    <3>1. Sequence(a)
      BY <1>2, SequenceCat, Zenon
    <3>2. Sequence(ps[i])
      BY <2>1
    <3> HIDE DEF a, ps
    <3>3. Sequence(a \o ps[i])
      BY <3>1, <3>2, SequenceCat, Zenon
    <3> QED BY <3>3, Zenon DEF a, ps
  <2> HIDE DEF Param
  <2>3. params = [i \in 1..Len(ps) |-> params[i]] /\ \A i \in 1..Len(ps) : params[i] = Param(i)
    BY <2>1
  <2> HIDE DEF params, ps
  <2>4. \A i \in 1..Len(ps) : Sequence(params[i])
    BY <2>2, <2>3
  <2> QED BY <2>1, <2>3, <2>4, TextsMade, FlattenText
<1>5. Sequence(head)
  <2> HIDE DEF keys, tags, space
  <2>1. Sequence(FlattenSeq(tags) \o space)
    BY <1>2, <1>3, SequenceCat, Zenon
  <2> QED BY <1>2, <2>1, Zenon
<1>6. Sequence(from)
  <2> DEFINE a == Field("name", ":")
             b == Field("user", "!")
             c == Field("host", "@")
  <2>1. Sequence(a) /\ Sequence(b) /\ Sequence(c)
    BY FieldText, Zenon
  <2> HIDE DEF a, b, c, space
  <2>2. Sequence(((a \o b) \o c) \o space)
    BY <1>2, <2>1, SequenceCat, Zenon
  <2>3. from = IF m.source = <<>> THEN <<>> ELSE ((a \o b) \o c) \o space
    BY Zenon DEF a, b, c
  <2> HIDE DEF from
  <2> QED BY <1>2, <2>2, <2>3, Zenon
<1>7. Sequence(m.command)
  BY DEF IsMessage
<1> HIDE DEF head, from, params
<1>8. Sequence(((head \o from) \o m.command) \o FlattenSeq(params))
  BY <1>4, <1>5, <1>6, <1>7, SequenceCat, Zenon
<1> QED BY <1>1, <1>8, Zenon

-----------------------------------------------------------------------------
(* The client.                                                              *)

\* The inductive invariant.
BackendInv ==
  /\ Sequence(stream) /\ Sequence(decoder.buffer) /\ profile \in DOMAIN Profiles
  /\ tokenizer.scratch \in Scratches /\ Sequence(line) /\ Agreed(tokenizer, line)

\* It holds at first.
LEMMA BackendInit ==
  ASSUME InboundAssumption, Init
  PROVE  BackendInv
<1>1. Sequence(stream) /\ Sequence(decoder.buffer) /\ Sequence(line)
  BY SequenceTuples DEF Init
<1>2. tokenizer.scratch \in Scratches
  <2>1. <<>> \in AnyTokens
    BY DEF AnyTokens
  <2> QED BY <2>1 DEF Init, Fresh, Scratches
<1>3. Agreed(tokenizer, line)
  BY DEF Init, Agreed
<1>4. profile \in DOMAIN Profiles
  BY DEF Init, InboundAssumption
<1> QED BY <1>1, <1>2, <1>3, <1>4 DEF BackendInv

\* A chunk preserves it, however many lines it completes.
LEMMA ReceivesAgrees ==
  ASSUME InboundAssumption, BackendInv, NEW n, n \in 1..Len(stream), Receives(n)
  PROVE  BackendInv'
<1> DEFINE d == Decodes(decoder, SubSeq(stream, 1, n))
           s == [tokenizer |-> tokenizer, line |-> line, heard |-> heard,
                 isupport |-> isupport, channel |-> channel]
           u == Hears(s, d.lines)
<1>1. /\ stream' = SubSeq(stream, n + 1, Len(stream))
      /\ decoder' = [buffer |-> d.buffer, resyncing |-> d.resyncing]
      /\ tokenizer' = u.tokenizer /\ line' = u.line /\ profile' = profile
  BY Zenon DEF Receives, Becomes, server
<1>2. /\ Sequence(stream) /\ Sequence(decoder.buffer) /\ profile \in DOMAIN Profiles
      /\ tokenizer.scratch \in Scratches /\ Sequence(line) /\ Agreed(tokenizer, line)
  BY DEF BackendInv
<1>3. Lim.tagData \in Nat
  BY DEF InboundAssumption
<1>4. Sequence(SubSeq(stream, 1, n)) /\ Sequence(SubSeq(stream, n + 1, Len(stream)))
  <2>1. Len(stream) \in Nat
    BY <1>2, SequenceIs
  <2>2. /\ n \in Nat /\ n <= Len(stream) /\ n + 1 \in Nat \ {0} /\ 1 \in Nat \ {0}
        /\ Len(stream) <= Len(stream)
    BY <2>1
  <2> QED BY <1>2, <2>1, <2>2, SequenceSub
<1>5. Texts(d.lines) /\ Sequence(d.buffer)
  BY <1>2, <1>4, DecodesTexts
<1> HIDE DEF d
<1>6. Heeds(s)
  BY <1>2 DEF Heeds
<1> HIDE DEF s
<1>7. Heeds(u)
  BY <1>3, <1>5, <1>6, HearsHeeds
<1> HIDE DEF u
<1>8. Sequence(decoder'.buffer) /\ Sequence(stream')
  BY <1>1, <1>4, <1>5
<1>9. tokenizer'.scratch \in Scratches /\ Sequence(line') /\ Agreed(tokenizer', line')
  BY <1>1, <1>7 DEF Heeds
<1> QED BY <1>1, <1>2, <1>8, <1>9 DEF BackendInv, Agreed

\* What the server writes reaches the client as a text.
LEMMA WritesText ==
  ASSUME BackendInv, NEW t, NEW meant, NEW ending, Sequence(t), Sequence(ending), Writes(t, meant, ending),
         profile' \in DOMAIN Profiles
  PROVE  BackendInv'
<1>1. stream' = (stream \o t) \o ending /\ UNCHANGED <<decoder, tokenizer, line>>
  BY DEF Writes, client
<1>2. Sequence(stream')
  <2>1. Sequence(stream \o t)
    BY SequenceCat DEF BackendInv
  <2>2. Sequence((stream \o t) \o ending)
    BY <2>1, SequenceCat
  <2> QED BY <1>1, <2>2, Zenon
<1> QED BY <1>1, <1>2 DEF BackendInv, Agreed

\* So does a message of the server.
LEMMA SendsText ==
  ASSUME BackendInv, NEW m, IsMessage(m), Sends(m), profile' \in DOMAIN Profiles
  PROVE  BackendInv'
<1>1. Sequence(BuildMessage(m)) /\ Sequence(<<"CR", "LF">>)
  BY BuildText, SequenceTuples
<1>2. Writes(BuildMessage(m), {m}, <<"CR", "LF">>)
  BY Zenon DEF Sends
<1> QED BY <1>1, <1>2, WritesText, Zenon

\* A message without tags and source is one.
LEMMA PlainMessage ==
  ASSUME NEW c, NEW ps, Sequence(c), Texts(ps)
  PROVE  IsMessage(Plain(c, ps))
<1> DEFINE m == Plain(c, ps)
<1>1. m.tags = <<>> /\ m.source = <<>> /\ m.command = c /\ m.params = ps
  BY DEF Plain
<1> HIDE DEF m
<1>2. DOMAIN m.tags = {} /\ DOMAIN m.source = {}
  BY <1>1
<1>3. IsFiniteSet(DOMAIN m.tags)
  BY <1>2, FS_EmptySet
<1>4. IsMessage(m)
  BY <1>1, <1>2, <1>3 DEF IsMessage
<1> QED BY <1>4 DEF m

\* A message that says nothing about the channel preserves the invariant.
LEMMA SaysAgrees ==
  ASSUME InboundAssumption, BackendInv, Says
  PROVE  BackendInv'
<1>1. PICK m \in Sayings : Sends(m)
  BY Zenon DEF Says
<1>2. IsMessage(m)
  BY DEF InboundAssumption
<1>3. profile' = profile
  BY DEF Says
<1> QED BY <1>1, <1>2, <1>3, SendsText DEF BackendInv

\* So does any other line: its bytes are none of the tokenizer's business.
LEMMA BlurtsAgrees ==
  ASSUME InboundAssumption, BackendInv, Blurts
  PROVE  BackendInv'
<1>1. PICK t \in Noise : Writes(t, IF t = <<>> THEN {} ELSE Understood(t, Lim), <<"LF">>)
  BY Zenon DEF Blurts
<1>2. Sequence(t) /\ Sequence(<<"LF">>)
  BY SequenceTuples DEF InboundAssumption
<1>3. profile' \in DOMAIN Profiles
  BY DEF Blurts, BackendInv
<1> QED BY <1>1, <1>2, <1>3, WritesText, Zenon

\* So does 005.
LEMMA AnnouncesAgrees ==
  ASSUME InboundAssumption, BackendInv, Announces
  PROVE  BackendInv'
<1> DEFINE sentence == <<"are", " ", "supported">>
           Ps(p) == (<<Me>> \o Profiles[p].tokens) \o <<sentence>>
<1>1. PICK p \in DOMAIN Profiles : profile' = p /\ Sends(Plain(<<"005">>, Ps(p)))
  BY Zenon DEF Announces, Announcement
<1>2. Texts(<<Me>>) /\ Texts(<<sentence>>) /\ Texts(Profiles[p].tokens) /\ Sequence(<<"005">>)
  <2>1. Sequence(Me) /\ Texts(Profiles[p].tokens)
    BY DEF InboundAssumption
  <2>2. Sequence(sentence)
    <3>1. sentence \in Seq({"are", " ", "supported"})
      OBVIOUS
    <3> QED BY <3>1, SequenceOf
  <2> HIDE DEF sentence
  <2> QED BY <2>1, <2>2, TextsTuples, SequenceTuples, Zenon
<1> HIDE DEF sentence
<1>3. Texts(Ps(p))
  BY <1>2, TextsCat, Zenon
<1> HIDE DEF Ps
<1>4. IsMessage(Plain(<<"005">>, Ps(p)))
  BY <1>2, <1>3, PlainMessage, Zenon
<1>5. profile' \in DOMAIN Profiles
  BY <1>1
<1> QED BY <1>1, <1>4, <1>5, SendsText, Zenon

\* The parameter of a change is a text, if there is one.
LEMMA ChangeParam ==
  ASSUME InboundAssumption, NEW p, NEW c \in Changes(p)
  PROVE  c.param = Null \/ Sequence(c.param)
<1>1. \A n : Sequence(<<n>>)
  BY SequenceTuples
<1>2. \A x \in Params : Sequence(x)
  BY DEF InboundAssumption
<1>3. c.param = Null \/ (\E n \in Nicks : c.param = <<n>>) \/ c.param \in Params
  BY DEF Changes
<1> QED BY <1>1, <1>2, <1>3

\* So does MODE.
LEMMA SetsModesAgrees ==
  ASSUME InboundAssumption, BackendInv, SetsModes
  PROVE  BackendInv'
<1> DEFINE P == Changes(Profiles[profile])
           One1(c) == IF c.param = Null THEN <<>> ELSE <<c.param>>
           Sign(cs, i) == IF i > 1 /\ cs[i].added = cs[i - 1].added THEN <<>>
                          ELSE <<IF cs[i].added THEN "+" ELSE "-">>
           ps(cs) == [i \in DOMAIN cs |-> One1(cs[i])]
           ws(cs) == [i \in DOMAIN cs |-> Sign(cs, i) \o <<cs[i].mode>>]
           All(cs) == <<Chan, ModeText(cs)>> \o FlattenSeq(ps(cs))
<1>1. PICK cs \in UNION {[1..n -> P] : n \in 1..2} : Sends(Plain(<<"MODE">>, All(cs)))
  BY Zenon DEF SetsModes, ModeMessage, ChangeLists
<1>2. profile' \in DOMAIN Profiles
  BY DEF SetsModes, BackendInv
<1>3. PICK n \in 1..2 : cs \in [1..n -> P]
  BY <1>1
<1>4. DOMAIN cs = 1..n /\ n \in Nat /\ \A i \in 1..n : cs[i] \in P
  BY <1>3
<1>5. Texts(FlattenSeq(ps(cs)))
  <2>1. ASSUME NEW c \in P PROVE Texts(One1(c))
    <3>1. c.param = Null \/ Sequence(c.param)
      BY ChangeParam
    <3>2. Texts(<<>>) /\ (Sequence(c.param) => Texts(<<c.param>>))
      BY TextsTuples, Zenon
    <3> QED BY <3>1, <3>2, Zenon
  <2> HIDE DEF One1, P
  <2> DEFINE q == ps(cs)
  <2>2. q = [i \in 1..n |-> q[i]] /\ \A i \in 1..n : q[i] = One1(cs[i])
    BY <1>4
  <2> HIDE DEF q
  <2>3. \A i \in 1..n : Texts(q[i])
    BY <1>4, <2>1, <2>2
  <2>4. Sequence(q) /\ Len(q) = n
    BY <1>4, <2>2, SequenceMade
  <2>5. Texts(FlattenSeq(q))
    BY <2>3, <2>4, FlattenTexts
  <2> QED BY <2>5 DEF q
<1>6. Sequence(ModeText(cs))
  <2>1. ASSUME NEW i PROVE Sequence(Sign(cs, i) \o <<cs[i].mode>>)
    <3>1. Sequence(<<cs[i].mode>>)
      BY SequenceTuples, Zenon
    <3>2. Sequence(Sign(cs, i))
      BY SequenceTuples, Zenon
    <3> QED BY <3>1, <3>2, SequenceCat, Zenon
  <2> DEFINE q == ws(cs)
  <2>2. FlattenSeq(q) = ModeText(cs)
    BY Zenon DEF ModeText
  <2> HIDE DEF Sign
  <2>3. q = [i \in 1..n |-> q[i]] /\ \A i \in 1..n : q[i] = Sign(cs, i) \o <<cs[i].mode>>
    BY <1>4
  <2> HIDE DEF q
  <2>4. \A i \in 1..n : Sequence(q[i])
    BY <2>1, <2>3, Zenon
  <2>5. Sequence(FlattenSeq(q))
    BY <1>4, <2>3, <2>4, TextsMade, FlattenText
  <2> QED BY <2>2, <2>5, Zenon
<1> HIDE DEF ps
<1>7. Texts(All(cs))
  <2>1. Sequence(Chan)
    BY DEF InboundAssumption
  <2>2. Texts(<<Chan, ModeText(cs)>>)
    BY <1>6, <2>1, TextsTuples, Zenon
  <2> QED BY <1>5, <2>2, TextsCat, Zenon
<1> HIDE DEF All
<1>8. IsMessage(Plain(<<"MODE">>, All(cs)))
  BY <1>7, SequenceTuples, PlainMessage, Zenon
<1> QED BY <1>1, <1>2, <1>8, SendsText, Zenon

\* So does 353.
LEMMA ListsNamesAgrees ==
  ASSUME InboundAssumption, BackendInv, ListsNames
  PROVE  BackendInv'
<1> DEFINE status == Profiles[profile].status
           Has(n, i) == IF <<"status", n, status[i].mode>> \in truth THEN <<status[i]>> ELSE <<>>
           hs(n) == [i \in DOMAIN status |-> Has(n, i)]
           Ranks(n) == FlattenSeq(hs(n))
           Listed(n, k) == SubSeq(Ranks(n), 1, IF k < Len(Ranks(n)) THEN k ELSE Len(Ranks(n)))
           Signs(n, k) == [i \in DOMAIN Listed(n, k) |-> Listed(n, k)[i].prefix]
           Entry(n, k) == Signs(n, k) \o <<n>>
           Gap(i) == IF i = 1 THEN <<>> ELSE <<" ">>
           es(names, k) == [i \in DOMAIN names |-> Gap(i) \o Entry(names[i], k)]
           list(names, k) == FlattenSeq(es(names, k))
           All(names, k) == <<Me, <<"=">>, Chan, list(names, k)>>
<1>1. PICK names \in SetToSeqs(Nicks), k \in {1, Len(status)} : Sends(Plain(<<"353">>, All(names, k)))
  BY Zenon DEF ListsNames, NamesMessage, Shown, Held
<1>2. profile' \in DOMAIN Profiles
  BY DEF ListsNames, BackendInv
<1>3. Sequence(status)
  BY DEF BackendInv, InboundAssumption
<1>4. k \in Nat
  BY <1>3, SequenceIs
<1>5. ASSUME NEW n PROVE Sequence(Entry(n, k))
  <2> HIDE DEF status
  <2>1. DOMAIN status = 1..Len(status) /\ Len(status) \in Nat
    BY <1>3, SequenceIs
  <2>2. ASSUME NEW i PROVE Sequence(Has(n, i))
    BY SequenceTuples, Zenon
  <2> DEFINE q == hs(n)
  <2> HIDE DEF Has
  <2>3. q = [i \in 1..Len(status) |-> q[i]] /\ \A i \in 1..Len(status) : q[i] = Has(n, i)
    BY <2>1
  <2> HIDE DEF q
  <2>4. Sequence(FlattenSeq(q))
    BY <2>1, <2>2, <2>3, TextsMade, FlattenText
  <2>5. Sequence(Ranks(n))
    BY <2>4 DEF q
  <2> HIDE DEF Ranks
  <2>6. Sequence(Listed(n, k))
    <3> DEFINE h == Ranks(n)
               j == IF k < Len(h) THEN k ELSE Len(h)
    <3>1. Len(h) \in Nat
      BY <2>5, SequenceIs
    <3>2. j \in Nat /\ j <= Len(h) /\ 1 \in Nat \ {0}
      BY <1>4, <3>1
    <3> HIDE DEF j, h
    <3>3. Sequence(SubSeq(h, 1, j))
      BY <2>5, <3>2, SequenceSub DEF h
    <3> QED BY <3>3, Zenon DEF j, h
  <2> HIDE DEF Listed
  <2>7. Sequence(Signs(n, k))
    <3> DEFINE w == Listed(n, k)
               g == Signs(n, k)
    <3>1. DOMAIN w = 1..Len(w) /\ Len(w) \in Nat
      BY <2>6, SequenceIs
    <3>2. g = [i \in 1..Len(w) |-> g[i]]
      BY <3>1
    <3> HIDE DEF g, w
    <3>3. Sequence(g)
      BY <3>1, <3>2, SequenceMade
    <3> QED BY <3>3 DEF g
  <2> HIDE DEF Signs
  <2> QED BY <2>7, SequenceTuples, SequenceCat, Zenon
<1>6. Sequence(list(names, k))
  <2> DEFINE m == Cardinality(Nicks)
  <2>1. m \in Nat
    BY FS_CardinalityType DEF InboundAssumption
  <2>2. names \in [1..m -> Nicks]
    BY <1>1 DEF SetToSeqs
  <2> HIDE DEF m
  <2>3. DOMAIN names = 1..m
    BY <2>2
  <2> HIDE DEF Entry
  <2>4. ASSUME NEW i PROVE Sequence(Gap(i) \o Entry(names[i], k))
    <3>1. Sequence(Gap(i))
      BY SequenceTuples, Zenon
    <3> QED BY <1>5, <3>1, SequenceCat, Zenon
  <2> DEFINE q == es(names, k)
  <2> HIDE DEF Gap
  <2>5. q = [i \in 1..m |-> q[i]] /\ \A i \in 1..m : q[i] = Gap(i) \o Entry(names[i], k)
    BY <2>3
  <2> HIDE DEF q
  <2>6. \A i \in 1..m : Sequence(q[i])
    BY <2>4, <2>5, Zenon
  <2>7. Sequence(FlattenSeq(q))
    BY <2>1, <2>5, <2>6, TextsMade, FlattenText
  <2> QED BY <2>7 DEF q
<1> HIDE DEF list
<1>7. Texts(All(names, k))
  <2>1. Sequence(Chan) /\ Sequence(Me) /\ Sequence(<<"=">>)
    BY SequenceTuples DEF InboundAssumption
  <2> QED BY <1>6, <2>1, TextsTuples, Zenon
<1> HIDE DEF All
<1>8. IsMessage(Plain(<<"353">>, All(names, k)))
  BY <1>7, SequenceTuples, PlainMessage, Zenon
<1> QED BY <1>1, <1>2, <1>8, SendsText, Zenon

\* So does every step.
LEMMA BackendStep ==
  ASSUME InboundAssumption, BackendInv, [Next]_vars
  PROVE  BackendInv'
<1>1. CASE UNCHANGED vars
  BY <1>1 DEF BackendInv, Agreed, vars, client, server
<1>2. ASSUME NEW n \in (Chunks \cup {Len(stream)}) \cap 1..Len(stream), Receives(n) PROVE BackendInv'
  BY <1>2, ReceivesAgrees
<1>3. CASE Says
  BY <1>3, SaysAgrees
<1>4. CASE Blurts
  BY <1>4, BlurtsAgrees
<1>5. CASE Announces
  BY <1>5, AnnouncesAgrees
<1>6. CASE SetsModes
  BY <1>6, SetsModesAgrees
<1>7. CASE ListsNames
  BY <1>7, ListsNamesAgrees
<1> QED BY <1>1, <1>2, <1>3, <1>4, <1>5, <1>6, <1>7 DEF Next

\* The two backends are one: the fast tokenizer has of every line that the client is sent,
\* however it is cut into chunks, the tokens or the error that the reference has of it,
\* whatever it has read before.
THEOREM BackendsAlwaysAgree == Spec => []BackendsAgree
<1>1. Init => BackendInv
  BY InboundAssumption, BackendInit
<1>2. BackendInv /\ [Next]_vars => BackendInv'
  BY InboundAssumption, BackendStep
<1>3. BackendInv => BackendsAgree
  BY DEF BackendInv, Agreed, BackendsAgree
<1> QED BY <1>1, <1>2, <1>3, PTL DEF Spec

-----------------------------------------------------------------------------
(* The parsers.                                                             *)

\* Parse, up to the kth token.
ParsedTo(t, tokens, k, f) == f = [i \in 0..k |-> IF i = 0 THEN Blank ELSE Takes(t, f[i - 1], tokens[i])]

\* Parse takes one token at a time.
LEMMA ParseTakes ==
  ASSUME NEW t, NEW tokens, Len(tokens) \in Nat
  PROVE  \E f : ParsedTo(t, tokens, Len(tokens), f) /\ Parse(t, tokens) = Assembled(f[Len(tokens)])
<1> DEFINE K == {k \in Nat : \E f : ParsedTo(t, tokens, k, f)}
<1>1. 0 \in K
  <2> DEFINE f == [i \in 0..0 |-> Blank]
  <2>1. f = [i \in 0..0 |-> IF i = 0 THEN Blank ELSE Takes(t, f[i - 1], tokens[i])]
    OBVIOUS
  <2> HIDE DEF f
  <2>2. ParsedTo(t, tokens, 0, f)
    BY <2>1 DEF ParsedTo
  <2> QED BY <2>2
<1>2. ASSUME NEW k \in Nat, k \in K PROVE k + 1 \in K
  <2>1. PICK f : ParsedTo(t, tokens, k, f)
    BY <1>2
  <2> DEFINE m == k + 1
             g == [i \in 0..m |-> IF i = 0 THEN Blank ELSE Takes(t, f[i - 1], tokens[i])]
  <2>2. f = [i \in 0..k |-> IF i = 0 THEN Blank ELSE Takes(t, f[i - 1], tokens[i])]
    BY <2>1 DEF ParsedTo
  <2>3. \A i \in 0..k : f[i] = g[i]
    <3>1. \A i \in 0..k : i \in 0..m
      OBVIOUS
    <3>2. \A i \in 0..k : f[i] = IF i = 0 THEN Blank ELSE Takes(t, f[i - 1], tokens[i])
      BY <2>2
    <3> HIDE DEF m
    <3> QED BY <3>1, <3>2, Zenon
  <2>4. \A i \in 0..m : i # 0 => i - 1 \in 0..k
    OBVIOUS
  <2> HIDE DEF m
  <2>5. g = [i \in 0..m |-> IF i = 0 THEN Blank ELSE Takes(t, g[i - 1], tokens[i])]
    <3> DEFINE h == g
    <3>1. \A i \in 0..m : i # 0 => f[i - 1] = h[i - 1]
      <4> HIDE DEF g
      <4> QED BY <2>3, <2>4
    <3>2. g = [i \in 0..m |-> IF i = 0 THEN Blank ELSE Takes(t, h[i - 1], tokens[i])]
      <4> HIDE DEF h
      <4> QED BY <3>1
    <3> QED BY <3>2
  <2> HIDE DEF g
  <2>6. ParsedTo(t, tokens, m, g)
    BY <2>5 DEF ParsedTo
  <2>7. m \in Nat
    BY DEF m
  <2> QED BY <2>6, <2>7 DEF m
<1>3. \A k \in Nat : k \in K
  <2> HIDE DEF K
  <2> QED BY <1>1, <1>2, Induction
<1> DEFINE F == CHOOSE f : ParsedTo(t, tokens, Len(tokens), f)
<1>4. \E f : ParsedTo(t, tokens, Len(tokens), f)
  <2>1. Len(tokens) \in K
    BY <1>3
  <2> QED BY <2>1
<1>5. ParsedTo(t, tokens, Len(tokens), F)
  BY <1>4
<1>6. Parse(t, tokens) = Assembled(F[Len(tokens)])
  BY Zenon DEF Parse, ParsedTo
<1> HIDE DEF F
<1> QED BY <1>5, <1>6

\* FlatParse, up to the kth triple.
FlatParsedTo(t, scratch, k, f) == f = [i \in 0..k |-> IF i = 0 THEN Blank ELSE (IF i \in DOMAIN scratch.triples THEN Takes(t, f[i - 1], scratch.triples[i]) ELSE f[i - 1])]

\* FlatParse takes one triple at a time.
LEMMA FlatParseTakes ==
  ASSUME NEW t, NEW scratch, NEW count, count \in Nat
  PROVE  \E f : FlatParsedTo(t, scratch, count, f) /\ FlatParse(t, scratch, count) = Assembled(f[count])
<1> DEFINE K == {k \in Nat : \E f : FlatParsedTo(t, scratch, k, f)}
<1>1. 0 \in K
  <2> DEFINE f == [i \in 0..0 |-> Blank]
  <2>1. f = [i \in 0..0 |-> IF i = 0 THEN Blank ELSE (IF i \in DOMAIN scratch.triples THEN Takes(t, f[i - 1], scratch.triples[i]) ELSE f[i - 1])]
    OBVIOUS
  <2> HIDE DEF f
  <2>2. FlatParsedTo(t, scratch, 0, f)
    BY <2>1 DEF FlatParsedTo
  <2> QED BY <2>2
<1>2. ASSUME NEW k \in Nat, k \in K PROVE k + 1 \in K
  <2>1. PICK f : FlatParsedTo(t, scratch, k, f)
    BY <1>2
  <2> DEFINE m == k + 1
             g == [i \in 0..m |-> IF i = 0 THEN Blank ELSE (IF i \in DOMAIN scratch.triples THEN Takes(t, f[i - 1], scratch.triples[i]) ELSE f[i - 1])]
  <2>2. f = [i \in 0..k |-> IF i = 0 THEN Blank ELSE (IF i \in DOMAIN scratch.triples THEN Takes(t, f[i - 1], scratch.triples[i]) ELSE f[i - 1])]
    BY <2>1 DEF FlatParsedTo
  <2>3. \A i \in 0..k : f[i] = g[i]
    <3>1. \A i \in 0..k : i \in 0..m
      OBVIOUS
    <3>2. \A i \in 0..k : f[i] = IF i = 0 THEN Blank ELSE (IF i \in DOMAIN scratch.triples THEN Takes(t, f[i - 1], scratch.triples[i]) ELSE f[i - 1])
      BY <2>2
    <3> HIDE DEF m
    <3> QED BY <3>1, <3>2, Zenon
  <2>4. \A i \in 0..m : i # 0 => i - 1 \in 0..k
    OBVIOUS
  <2> HIDE DEF m
  <2>5. g = [i \in 0..m |-> IF i = 0 THEN Blank ELSE (IF i \in DOMAIN scratch.triples THEN Takes(t, g[i - 1], scratch.triples[i]) ELSE g[i - 1])]
    <3> DEFINE h == g
    <3>1. \A i \in 0..m : i # 0 => f[i - 1] = h[i - 1]
      <4> HIDE DEF g
      <4> QED BY <2>3, <2>4
    <3>2. g = [i \in 0..m |-> IF i = 0 THEN Blank ELSE (IF i \in DOMAIN scratch.triples THEN Takes(t, h[i - 1], scratch.triples[i]) ELSE h[i - 1])]
      <4> HIDE DEF h
      <4> QED BY <3>1
    <3> QED BY <3>2
  <2> HIDE DEF g
  <2>6. FlatParsedTo(t, scratch, m, g)
    BY <2>5 DEF FlatParsedTo
  <2>7. m \in Nat
    BY DEF m
  <2> QED BY <2>6, <2>7 DEF m
<1>3. \A k \in Nat : k \in K
  <2> HIDE DEF K
  <2> QED BY <1>1, <1>2, Induction
<1> DEFINE F == CHOOSE f : FlatParsedTo(t, scratch, count, f)
<1>4. \E f : FlatParsedTo(t, scratch, count, f)
  <2>1. count \in K
    BY <1>3
  <2> QED BY <2>1
<1>5. FlatParsedTo(t, scratch, count, F)
  BY <1>4
<1>6. FlatParse(t, scratch, count) = Assembled(F[count])
  BY Zenon DEF FlatParse, FlatParsedTo
<1> HIDE DEF F
<1> QED BY <1>5, <1>6

\* Where the tokens are the triples, the two take the same.
LEMMA ParsersTake ==
  ASSUME NEW t, NEW scratch, NEW n \in Nat, NEW tokens, Len(tokens) = n,
         \A i \in 1..n : i \in DOMAIN scratch.triples /\ scratch.triples[i] = tokens[i]
  PROVE  FlatParse(t, scratch, n) = Parse(t, tokens)
<1>1. PICK f : ParsedTo(t, tokens, Len(tokens), f) /\ Parse(t, tokens) = Assembled(f[Len(tokens)])
  BY ParseTakes
<1>2. PICK g : FlatParsedTo(t, scratch, n, g) /\ FlatParse(t, scratch, n) = Assembled(g[n])
  BY FlatParseTakes
<1>3. f = [i \in 0..n |-> IF i = 0 THEN Blank ELSE Takes(t, f[i - 1], tokens[i])]
  BY <1>1 DEF ParsedTo
<1>4. g = [i \in 0..n |-> IF i = 0 THEN Blank
                         ELSE (IF i \in DOMAIN scratch.triples THEN Takes(t, g[i - 1], scratch.triples[i])
                               ELSE g[i - 1])]
  BY <1>2 DEF FlatParsedTo
<1>5. \A i \in 1..n : i \in 0..n /\ i # 0
  OBVIOUS
<1>6. f[0] = Blank /\ \A i \in 1..n : f[i] = Takes(t, f[i - 1], tokens[i])
  <2>1. \A i \in 0..n : f[i] = IF i = 0 THEN Blank ELSE Takes(t, f[i - 1], tokens[i])
    BY <1>3, Zenon
  <2>2. 0 \in 0..n
    OBVIOUS
  <2> QED BY <1>5, <2>1, <2>2, Zenon
<1>7. g[0] = Blank /\ \A i \in 1..n : g[i] = Takes(t, g[i - 1], tokens[i])
  <2>1. \A i \in 0..n : g[i] = IF i = 0 THEN Blank
                               ELSE (IF i \in DOMAIN scratch.triples THEN Takes(t, g[i - 1], scratch.triples[i])
                                     ELSE g[i - 1])
    BY <1>4, Zenon
  <2>2. 0 \in 0..n
    OBVIOUS
  <2> QED BY <1>5, <2>1, <2>2, Zenon
<1> DEFINE K == {k \in Nat : k \in 0..n => f[k] = g[k]}
<1>8. 0 \in K
  BY <1>6, <1>7
<1>9. ASSUME NEW k \in Nat, k \in K PROVE k + 1 \in K
  <2> SUFFICES ASSUME k + 1 \in 0..n PROVE f[k + 1] = g[k + 1]
    OBVIOUS
  <2> DEFINE m == k + 1
  <2>1. m \in 1..n /\ m - 1 = k /\ k \in 0..n
    OBVIOUS
  <2>2. f[k] = g[k]
    BY <1>9, <2>1
  <2> HIDE DEF m
  <2>3. f[m] = Takes(t, f[k], tokens[m]) /\ g[m] = Takes(t, g[k], tokens[m])
    BY <1>6, <1>7, <2>1
  <2>4. f[m] = g[m]
    BY <2>2, <2>3, Zenon
  <2> QED BY <2>4 DEF m
<1>10. \A k \in Nat : k \in K
  <2> HIDE DEF K
  <2> QED BY <1>8, <1>9, Induction
<1>11. f[n] = g[n]
  BY <1>10
<1> QED BY <1>1, <1>2, <1>11

\* FlatParser is Parser, behind its tokenizer: what it makes of the shared buffer is what
\* is understood of the line, and there is nothing where there was an error.
THEOREM ParsersAgree ==
  ASSUME NEW t, NEW lim, Line(t, lim), NEW tokenizer0, tokenizer0.scratch \in Scratches
  PROVE  LET k == TokenizeInto(tokenizer0, t, lim)
         IN  Understood(t, lim) = IF k.error # <<>> THEN {} ELSE {FlatParse(t, k.scratch, k.count)}
<1> DEFINE k == TokenizeInto(tokenizer0, t, lim)
           tokens == Tokenize(t, lim)
           n == k.count
           u == k.scratch.triples
<1>1. /\ k.scratch \in Scratches /\ (k.error = <<>> => n \in Nat)
      /\ IF Thrown(tokens) THEN k.error = <<Last(tokens)>>
         ELSE k.error = <<>> /\ n <= Len(u) /\ SubSeq(u, 1, n) = tokens
  BY TokenizersAgree
<1>2. Understood(t, lim) = IF Thrown(tokens) THEN {} ELSE {Parse(t, tokens)}
  BY Zenon DEF Understood
<1> HIDE DEF k, tokens
<1>3. ASSUME ~ Thrown(tokens) PROVE FlatParse(t, k.scratch, n) = Parse(t, tokens) /\ k.error = <<>>
  <2> DEFINE S == Types \X Nat \X Nat
  <2>1. AnyTokens = Seq(S)
    BY DEF AnyTokens
  <2> HIDE DEF S
  <2>2. u \in Seq(S) /\ n \in Nat /\ n <= Len(u) /\ SubSeq(u, 1, n) = tokens
    BY <1>1, <1>3, <2>1 DEF Scratches
  <2> DEFINE v == u
             q == n
  <2> HIDE DEF v, q
  <2>3. v \in Seq(S) /\ q \in Nat /\ q <= Len(v) /\ SubSeq(v, 1, q) = tokens
    BY <2>2 DEF v, q
  <2>4. Len(tokens) = q /\ \A i \in 1..q : i \in DOMAIN v /\ v[i] = tokens[i]
    <3> DEFINE w == SubSeq(v, 1, q)
    <3>1. Len(w) = q /\ \A i \in 1..q : i \in DOMAIN v /\ w[i] = v[i]
      BY <2>3
    <3>2. w = tokens
      BY <2>3
    <3> HIDE DEF w
    <3> QED BY <3>1, <3>2
  <2>5. FlatParse(t, k.scratch, q) = Parse(t, tokens)
    <3> DEFINE w == k.scratch
    <3>1. \A i \in 1..q : i \in DOMAIN w.triples /\ w.triples[i] = tokens[i]
      BY <2>4, Zenon DEF v
    <3> HIDE DEF w, v
    <3>2. FlatParse(t, w, q) = Parse(t, tokens)
      BY <2>3, <2>4, <3>1, ParsersTake
    <3> QED BY <3>2 DEF w
  <2> QED BY <1>1, <1>3, <2>5 DEF q
<1>4. Thrown(tokens) => k.error # <<>>
  <2>1. \A x : <<x>> # <<>>
    OBVIOUS
  <2>2. Thrown(tokens) => k.error = <<Last(tokens)>>
    BY <1>1, Zenon
  <2> QED BY <2>1, <2>2, Zenon
<1>5. Understood(t, lim) = IF k.error # <<>> THEN {} ELSE {FlatParse(t, k.scratch, n)}
  BY <1>2, <1>3, <1>4
<1> QED BY <1>5 DEF k

-----------------------------------------------------------------------------
(* The stream.                                                              *)

\* A sequence that is not empty is what comes before its last element, and that element.
LEMMA SequenceSnoc ==
  ASSUME NEW a, Sequence(a), NEW k \in Nat, k < Len(a)
  PROVE  SubSeq(a, 1, k + 1) = Append(SubSeq(a, 1, k), a[k + 1])
<1> DEFINE S == ToSet(a)
<1>1. a \in Seq(S)
  BY DEF Sequence
<1> HIDE DEF S
<1> QED BY <1>1

\* All of a sequence is the sequence, and none of it is empty.
LEMMA SequenceWhole ==
  ASSUME NEW a, Sequence(a)
  PROVE  SubSeq(a, 1, Len(a)) = a /\ SubSeq(a, 1, 0) = <<>>
<1> DEFINE S == ToSet(a)
<1>1. a \in Seq(S)
  BY DEF Sequence
<1> HIDE DEF S
<1> QED BY <1>1

\* What is appended is the last element, and the rest is what was there before.
LEMMA SequenceEnds ==
  ASSUME NEW a, Sequence(a), NEW x
  PROVE  Front(Append(a, x)) = a /\ Last(Append(a, x)) = x
<1> DEFINE S == ToSet(a) \cup {x}
           b == Append(a, x)
<1>1. a \in Seq(S) /\ x \in S
  BY DEF Sequence
<1> HIDE DEF S
<1>2. Len(b) = Len(a) + 1 /\ b[Len(b)] = x /\ SubSeq(b, 1, Len(b) - 1) = a
  BY <1>1
<1> HIDE DEF b
<1>3. Front(b) = a /\ Last(b) = x
  BY <1>2 DEF Front, Last
<1> QED BY <1>3 DEF b

\* A list is what comes before its last element, and that.
LEMMA SequenceSplit ==
  ASSUME NEW a, Sequence(a), Len(a) # 0
  PROVE  a = Append(Front(a), Last(a))
<1> DEFINE S == ToSet(a)
<1>1. a \in Seq(S)
  BY DEF Sequence
<1> HIDE DEF S
<1>2. a = Append(SubSeq(a, 1, Len(a) - 1), a[Len(a)])
  BY <1>1
<1> QED BY <1>2 DEF Front, Last

\* Appending to the second part appends to the whole.
LEMMA CatAppend ==
  ASSUME NEW a, NEW b, Sequence(a), Sequence(b), NEW x
  PROVE  a \o Append(b, x) = Append(a \o b, x)
<1> DEFINE S == ToSet(a) \cup ToSet(b) \cup {x}
<1>1. a \in Seq(S) /\ b \in Seq(S) /\ x \in S
  <2>1. a \in Seq(ToSet(a)) /\ b \in Seq(ToSet(b))
    BY DEF Sequence
  <2> DEFINE A == ToSet(a)
             B == ToSet(b)
  <2> HIDE DEF A, B
  <2> QED BY <2>1
<1> HIDE DEF S
<1> QED BY <1>1

\* Putting one element behind a sequence appends it.
LEMMA CatOne ==
  ASSUME NEW a, Sequence(a), NEW x
  PROVE  a \o <<x>> = Append(a, x)
<1> DEFINE A == ToSet(a)
           S == A \cup {x}
<1>1. a \in Seq(A)
  BY DEF Sequence
<1> HIDE DEF A
<1>2. a \in Seq(S) /\ x \in S
  BY <1>1
<1> HIDE DEF S
<1> QED BY <1>2

\* Putting together is associative.
LEMMA CatCat ==
  ASSUME NEW a, NEW b, NEW c, Sequence(a), Sequence(b), Sequence(c)
  PROVE  (a \o b) \o c = a \o (b \o c)
<1> DEFINE A == ToSet(a)
           B == ToSet(b)
           C == ToSet(c)
           S == A \cup B \cup C
<1>1. a \in Seq(A) /\ b \in Seq(B) /\ c \in Seq(C)
  BY DEF Sequence
<1> HIDE DEF A, B, C
<1>2. a \in Seq(S) /\ b \in Seq(S) /\ c \in Seq(S)
  BY <1>1
<1> HIDE DEF S
<1> QED BY <1>2

\* The empty sequence adds nothing at either end.
LEMMA CatNothing ==
  ASSUME NEW a, Sequence(a)
  PROVE  a \o <<>> = a /\ <<>> \o a = a
<1> DEFINE S == ToSet(a)
<1>1. a \in Seq(S)
  BY DEF Sequence
<1> HIDE DEF S
<1> QED BY <1>1

\* Pieces, a byte at a time.
LEMMA PiecesNone == \A mark : Pieces(<<>>, mark) = << <<>> >>
<1> SUFFICES ASSUME NEW mark PROVE Pieces(<<>>, mark) = << <<>> >>
  OBVIOUS
<1> DEFINE t == <<>>
<1>1. Len(t) \in Nat /\ Len(t) = 0
  OBVIOUS
<1> HIDE DEF t
<1>2. PICK f : CutTo(t, mark, Len(t), f) /\ Pieces(t, mark) = f[Len(t)]
  BY <1>1, Cuts
<1>3. f = [i \in 0..0 |-> IF i = 0 THEN << <<>> >> ELSE Piece(f[i - 1], t[i], mark)]
  BY <1>1, <1>2 DEF CutTo
<1>4. f[0] = << <<>> >>
  <2>1. 0 \in 0..0
    OBVIOUS
  <2> QED BY <1>3, <2>1, Zenon
<1>5. Pieces(t, mark) = << <<>> >>
  BY <1>1, <1>2, <1>4, Zenon
<1> QED BY <1>5 DEF t

\* CutTo, one equation per byte.
CutBy(t, mark, n, f) == f[0] = << <<>> >> /\ \A i \in 1..n : f[i] = Piece(f[i - 1], t[i], mark)

\* The cuts of a text by its prefixes, one equation per byte.
LEMMA CutStep ==
  ASSUME NEW t, NEW mark, NEW n \in Nat, NEW f, CutTo(t, mark, n, f)
  PROVE  CutBy(t, mark, n, f)
<1>1. f = [i \in 0..n |-> IF i = 0 THEN << <<>> >> ELSE Piece(f[i - 1], t[i], mark)]
  BY DEF CutTo
<1>2. \A i \in 0..n : f[i] = IF i = 0 THEN << <<>> >> ELSE Piece(f[i - 1], t[i], mark)
  BY <1>1, Zenon
<1>3. 0 \in 0..n /\ \A i \in 1..n : i \in 0..n /\ i # 0
  OBVIOUS
<1> QED BY <1>2, <1>3, Zenon DEF CutBy

\* One more byte does to the pieces what Piece says.
LEMMA PiecesStep ==
  ASSUME NEW t, Sequence(t), NEW c, NEW mark
  PROVE  Pieces(Append(t, c), mark) = Piece(Pieces(t, mark), c, mark)
<1> DEFINE u == Append(t, c)
           n == Len(t)
           m == n + 1
<1>1. n \in Nat /\ m \in Nat /\ Len(u) = m /\ (\A i \in 1..n : u[i] = t[i]) /\ u[m] = c
  BY SequenceAppend
<1> HIDE DEF u
<1>2. PICK f : CutTo(t, mark, n, f) /\ Pieces(t, mark) = f[n]
  BY <1>1, Cuts
<1>3. PICK g : CutTo(u, mark, m, g) /\ Pieces(u, mark) = g[m]
  BY <1>1, Cuts
<1>4. f[0] = << <<>> >> /\ \A i \in 1..n : f[i] = Piece(f[i - 1], t[i], mark)
  <2>1. CutBy(t, mark, n, f)
    BY <1>1, <1>2, CutStep
  <2> QED BY <2>1 DEF CutBy
<1>5. g[0] = << <<>> >> /\ \A i \in 1..m : g[i] = Piece(g[i - 1], u[i], mark)
  <2>1. CutBy(u, mark, m, g)
    BY <1>1, <1>3, CutStep
  <2> QED BY <2>1 DEF CutBy
<1> DEFINE K == {k \in Nat : k <= n => f[k] = g[k]}
<1>6. 0 \in K
  BY <1>4, <1>5
<1> HIDE DEF n
<1>7. ASSUME NEW k \in Nat, k \in K PROVE k + 1 \in K
  <2> SUFFICES ASSUME k + 1 <= n PROVE f[k + 1] = g[k + 1]
    OBVIOUS
  <2> DEFINE j == k + 1
  <2>1. j \in 1..n /\ j \in 1..m /\ j - 1 = k /\ k <= n
    BY <1>1
  <2>2. f[k] = g[k]
    BY <1>7, <2>1
  <2> HIDE DEF j, m
  <2>3. f[j] = Piece(f[k], t[j], mark) /\ g[j] = Piece(g[k], u[j], mark) /\ u[j] = t[j]
    BY <1>1, <1>4, <1>5, <2>1
  <2>4. f[j] = g[j]
    BY <2>2, <2>3, Zenon
  <2> QED BY <2>4 DEF j
<1>8. \A k \in Nat : k \in K
  <2> HIDE DEF K
  <2> QED BY <1>6, <1>7, Induction
<1>9. f[n] = g[n]
  BY <1>1, <1>8
<1>10. m \in 1..m /\ m - 1 = n
  BY <1>1
<1> HIDE DEF m
<1>11. g[m] = Piece(g[n], u[m], mark)
  BY <1>5, <1>10
<1>12. Pieces(u, mark) = Piece(Pieces(t, mark), c, mark)
  BY <1>1, <1>2, <1>3, <1>9, <1>11, Zenon
<1> QED BY <1>12 DEF u

\* The mark is not in the text.
Free(t, mark) == \A i \in 1..Len(t) : t[i] # mark

\* The first bytes of a text that is free of a mark are.
LEMMA FreeSub ==
  ASSUME NEW t, Sequence(t), NEW mark, Free(t, mark), NEW k \in Nat, k <= Len(t)
  PROVE  Free(SubSeq(t, 1, k), mark)
<1> DEFINE S == ToSet(t)
<1>1. t \in Seq(S)
  BY DEF Sequence
<1> HIDE DEF S
<1>2. Len(SubSeq(t, 1, k)) = k /\ \A i \in 1..k : SubSeq(t, 1, k)[i] = t[i]
  BY <1>1
<1> QED BY <1>1, <1>2 DEF Free

\* So is the text with another byte that is no mark.
LEMMA FreeAppend ==
  ASSUME NEW t, Sequence(t), NEW mark, Free(t, mark), NEW c, c # mark
  PROVE  Free(Append(t, c), mark)
<1>1. /\ Len(Append(t, c)) = Len(t) + 1 /\ Len(t) \in Nat
      /\ \A i \in 1..Len(t) : Append(t, c)[i] = t[i]
      /\ Append(t, c)[Len(t) + 1] = c
  BY SequenceAppend
<1> DEFINE u == Append(t, c)
<1> HIDE DEF u
<1>2. ASSUME NEW i \in 1..Len(u) PROVE u[i] # mark
  <2>1. i \in 1..Len(t) \/ i = Len(t) + 1
    BY <1>1 DEF u
  <2> QED BY <1>1, <2>1 DEF Free, u
<1>3. Free(u, mark)
  BY <1>2 DEF Free
<1> QED BY <1>3 DEF u

\* A text without the mark is one piece.
LEMMA PiecesOne ==
  ASSUME NEW t, Sequence(t), NEW mark, Free(t, mark)
  PROVE  Pieces(t, mark) = <<t>>
<1> DEFINE n == Len(t)
           P(k) == SubSeq(t, 1, k)
           K == {k \in Nat : k <= n => Pieces(P(k), mark) = <<P(k)>>}
<1>1. n \in Nat /\ P(n) = t /\ P(0) = <<>>
  BY SequenceIs, SequenceWhole
<1>2. 0 \in K
  <2>1. Pieces(P(0), mark) = <<P(0)>>
    BY <1>1, PiecesNone, Zenon
  <2> QED BY <2>1
<1> HIDE DEF P
<1>3. ASSUME NEW k \in Nat, k \in K PROVE k + 1 \in K
  <2> SUFFICES ASSUME k + 1 <= n PROVE Pieces(P(k + 1), mark) = <<P(k + 1)>>
    OBVIOUS
  <2> DEFINE c == t[k + 1]
             p == P(k)
  <2>1. k < n /\ k <= n /\ k + 1 \in 1..n
    BY <1>1
  <2>2. P(k + 1) = Append(p, c)
    BY <2>1, SequenceSnoc DEF P
  <2>3. Pieces(p, mark) = <<p>>
    BY <1>3, <2>1
  <2>4. c # mark
    BY <2>1 DEF Free
  <2>5. Sequence(p)
    <3>1. 1 \in Nat \ {0}
      OBVIOUS
    <3> QED BY <2>1, <3>1, SequenceSub DEF P
  <2> HIDE DEF c, p
  <2>6. Pieces(Append(p, c), mark) = Piece(<<p>>, c, mark)
    BY <2>3, <2>5, PiecesStep
  <2>7. Piece(<<p>>, c, mark) = Append(Front(<<p>>), Append(Last(<<p>>), c))
    BY <2>4 DEF Piece
  <2>8. Front(<<p>>) = <<>> /\ Last(<<p>>) = p
    BY DEF Front, Last
  <2>9. \A x : Append(<<>>, x) = <<x>>
    OBVIOUS
  <2> QED BY <2>2, <2>6, <2>7, <2>8, <2>9, Zenon
<1>4. \A k \in Nat : k \in K
  <2> HIDE DEF K
  <2> QED BY <1>2, <1>3, Induction
<1>5. Pieces(P(n), mark) = <<P(n)>>
  BY <1>1, <1>4
<1> QED BY <1>1, <1>5, Zenon

\* What is behind the last mark has none.
LEMMA LastFree ==
  ASSUME NEW t, Sequence(t), NEW mark
  PROVE  Free(Last(Pieces(t, mark)), mark)
<1> DEFINE n == Len(t)
           P(k) == SubSeq(t, 1, k)
           K == {k \in Nat : k <= n => Free(Last(Pieces(P(k), mark)), mark)}
<1>1. n \in Nat /\ P(n) = t /\ P(0) = <<>>
  BY SequenceIs, SequenceWhole
<1>2. 0 \in K
  <2>1. Pieces(P(0), mark) = << <<>> >>
    BY <1>1, PiecesNone, Zenon
  <2>2. Last(<< <<>> >>) = <<>> /\ Free(<<>>, mark)
    BY DEF Last, Free
  <2>3. Free(Last(Pieces(P(0), mark)), mark)
    BY <2>1, <2>2, Zenon
  <2> QED BY <2>3
<1> HIDE DEF P
<1>3. ASSUME NEW k \in Nat, k \in K PROVE k + 1 \in K
  <2> SUFFICES ASSUME k + 1 <= n PROVE Free(Last(Pieces(P(k + 1), mark)), mark)
    OBVIOUS
  <2> DEFINE c == t[k + 1]
             p == P(k)
             cut == Pieces(p, mark)
             h == Front(cut)
             x == Last(cut)
             y == Append(x, c)
  <2>1. k < n /\ k <= n /\ k + 1 \in 1..n
    BY <1>1
  <2>2. P(k + 1) = Append(p, c)
    BY <2>1, SequenceSnoc DEF P
  <2>3. Free(x, mark)
    BY <1>3, <2>1
  <2>4. Sequence(p)
    <3>1. 1 \in Nat \ {0}
      OBVIOUS
    <3> QED BY <2>1, <3>1, SequenceSub DEF P
  <2> HIDE DEF c, p
  <2>5. Texts(cut) /\ Len(cut) # 0
    BY <2>4, PiecesTexts
  <2>6. Pieces(Append(p, c), mark) = Piece(cut, c, mark)
    BY <2>4, PiecesStep
  <2>7. Texts(h) /\ Sequence(x)
    BY <2>5, TextsLess
  <2>8. Piece(cut, c, mark) = IF c = mark THEN Append(cut, <<>>) ELSE Append(h, y)
    BY DEF Piece
  <2> HIDE DEF cut, h, x
  <2>9. Last(Append(cut, <<>>)) = <<>> /\ Last(Append(h, y)) = y
    BY <2>5, <2>7, SequenceEnds DEF Texts
  <2>10. Free(<<>>, mark) /\ (c # mark => Free(y, mark))
    BY <2>3, <2>7, FreeAppend DEF Free
  <2> HIDE DEF y
  <2>11. Free(Last(Piece(cut, c, mark)), mark)
    BY <2>8, <2>9, <2>10, Zenon
  <2> QED BY <2>2, <2>6, <2>11, Zenon
<1>4. \A k \in Nat : k \in K
  <2> HIDE DEF K
  <2> QED BY <1>2, <1>3, Induction
<1>5. Free(Last(Pieces(P(n), mark)), mark)
  BY <1>1, <1>4
<1> QED BY <1>1, <1>5, Zenon

\* What comes before the last mark of a text is cut by itself.
LEMMA PiecesCat ==
  ASSUME NEW a, NEW b, Sequence(a), Sequence(b), NEW mark
  PROVE  Pieces(a \o b, mark) = Front(Pieces(a, mark)) \o Pieces(Last(Pieces(a, mark)) \o b, mark)
<1> DEFINE n == Len(b)
           P(k) == SubSeq(b, 1, k)
           cut == Pieces(a, mark)
           h == Front(cut)
           x == Last(cut)
           K == {k \in Nat : k <= n => Pieces(a \o P(k), mark) = h \o Pieces(x \o P(k), mark)}
<1>1. n \in Nat /\ P(n) = b /\ P(0) = <<>>
  BY SequenceIs, SequenceWhole
<1>2. Texts(cut) /\ Len(cut) # 0
  BY PiecesTexts
<1>3. Texts(h) /\ Sequence(h) /\ Sequence(x)
  BY <1>2, TextsLess DEF Texts
<1>4. Free(x, mark)
  BY LastFree
<1>5. 0 \in K
  <2>1. a \o P(0) = a /\ x \o P(0) = x
    BY <1>1, <1>3, CatNothing
  <2>2. Pieces(x, mark) = <<x>>
    BY <1>3, <1>4, PiecesOne
  <2>3. cut = Append(h, x)
    BY <1>2, SequenceSplit DEF Texts
  <2>4. h \o <<x>> = Append(h, x)
    <3> HIDE DEF h, x
    <3> QED BY <1>3, CatOne
  <2>5. Pieces(a \o P(0), mark) = h \o Pieces(x \o P(0), mark)
    <3> HIDE DEF h, x, P
    <3> QED BY <2>1, <2>2, <2>3, <2>4, Zenon
  <2> QED BY <2>5
<1> HIDE DEF P, h, x, cut
<1>6. ASSUME NEW k \in Nat, k \in K PROVE k + 1 \in K
  <2> SUFFICES ASSUME k + 1 <= n PROVE Pieces(a \o P(k + 1), mark) = h \o Pieces(x \o P(k + 1), mark)
    OBVIOUS
  <2> DEFINE c == b[k + 1]
             p == P(k)
             q == Pieces(x \o p, mark)
  <2>1. k < n /\ k <= n
    BY <1>1
  <2>2. P(k + 1) = Append(p, c)
    BY <2>1, SequenceSnoc DEF P
  <2>3. Pieces(a \o p, mark) = h \o q
    BY <1>6, <2>1
  <2>4. Sequence(p)
    <3>1. 1 \in Nat \ {0}
      OBVIOUS
    <3> QED BY <2>1, <3>1, SequenceSub DEF P
  <2> HIDE DEF c, p
  <2>5. Sequence(a \o p) /\ Sequence(x \o p)
    BY <1>3, <2>4, SequenceCat
  <2>6. Texts(q) /\ Len(q) # 0
    BY <2>5, PiecesTexts
  <2>7. a \o Append(p, c) = Append(a \o p, c) /\ x \o Append(p, c) = Append(x \o p, c)
    BY <1>3, <2>4, CatAppend
  <2>8. Pieces(Append(a \o p, c), mark) = Piece(h \o q, c, mark)
    BY <2>3, <2>5, PiecesStep
  <2>9. Pieces(Append(x \o p, c), mark) = Piece(q, c, mark)
    BY <2>5, PiecesStep
  <2> HIDE DEF q
  <2>10. Piece(h \o q, c, mark) = h \o Piece(q, c, mark)
    <3> DEFINE r == Front(q)
               y == Last(q)
               z == Append(y, c)
    <3>1. Sequence(r) /\ Sequence(q) /\ q = Append(r, y)
      BY <2>6, TextsLess, SequenceSplit DEF Texts
    <3> HIDE DEF r, y
    <3>2. h \o q = Append(h \o r, y)
      BY <1>3, <3>1, CatAppend
    <3>3. Sequence(h \o r)
      BY <1>3, <3>1, SequenceCat
    <3>4. Front(h \o q) = h \o r /\ Last(h \o q) = y
      BY <3>2, <3>3, SequenceEnds
    <3> HIDE DEF z
    <3>5. Piece(h \o q, c, mark) = IF c = mark THEN Append(h \o q, <<>>) ELSE Append(h \o r, z)
      BY <3>4 DEF Piece, z
    <3>6. Piece(q, c, mark) = IF c = mark THEN Append(q, <<>>) ELSE Append(r, z)
      BY DEF Piece, r, y, z
    <3>7. h \o Append(q, <<>>) = Append(h \o q, <<>>) /\ h \o Append(r, z) = Append(h \o r, z)
      BY <1>3, <3>1, CatAppend
    <3> QED BY <3>5, <3>6, <3>7, Zenon
  <2> QED BY <2>2, <2>7, <2>8, <2>9, <2>10, Zenon
<1>7. \A k \in Nat : k \in K
  <2> HIDE DEF K
  <2> QED BY <1>5, <1>6, Induction
<1>8. Pieces(a \o P(n), mark) = h \o Pieces(x \o P(n), mark)
  <2>1. n \in K
    <3> HIDE DEF K, n
    <3> QED BY <1>1, <1>7
  <2>2. n <= n
    BY <1>1
  <2> HIDE DEF n
  <2> QED BY <2>1, <2>2, Zenon
<1>9. Pieces(a \o b, mark) = h \o Pieces(x \o b, mark)
  BY <1>1, <1>8, Zenon
<1> QED BY <1>9 DEF cut, h, x

\* What a byte does to a cut.
Pieced(cut, q, c, mark) ==
  /\ Texts(q) /\ \A i \in 1..(Len(cut) - 1) : q[i] = cut[i]
  /\ c = mark => Len(q) = Len(cut) + 1 /\ q[Len(cut)] = cut[Len(cut)] /\ q[Len(cut) + 1] = <<>>
  /\ c # mark => Len(q) = Len(cut) /\ q[Len(cut)] = Append(cut[Len(cut)], c)

\* What Piece does to a cut, as far as anything below asks: its last piece grows, or a new
\* one begins.
LEMMA PieceIs ==
  ASSUME NEW cut, Texts(cut), Len(cut) # 0, NEW c, NEW mark
  PROVE  Pieced(cut, Piece(cut, c, mark), c, mark)
<1> DEFINE n == Len(cut)
           h == Front(cut)
           x == cut[n]
           y == Append(x, c)
           q == Piece(cut, c, mark)
<1>1. Texts(q) /\ n \in Nat /\ n # 0
  BY PieceTexts, SequenceIs DEF Texts
<1>2. Sequence(cut) /\ Sequence(h) /\ Len(h) = n - 1 /\ \A i \in 1..(n - 1) : h[i] = cut[i]
  BY SequenceFront DEF Texts
<1>3. q = IF c = mark THEN Append(cut, <<>>) ELSE Append(h, y)
  BY DEF Piece, Last
<1> HIDE DEF h, y, q, x
<1>4. Len(Append(cut, <<>>)) = n + 1 /\ (\A i \in 1..n : Append(cut, <<>>)[i] = cut[i])
      /\ Append(cut, <<>>)[n + 1] = <<>>
  BY <1>2, SequenceAppend
<1>5. Len(Append(h, y)) = n /\ (\A i \in 1..(n - 1) : Append(h, y)[i] = h[i]) /\ Append(h, y)[n] = y
  <2> DEFINE g == Append(h, y)
  <2>1. Len(g) = Len(h) + 1 /\ (\A i \in 1..Len(h) : g[i] = h[i]) /\ g[Len(h) + 1] = y
    BY <1>2, SequenceAppend
  <2> HIDE DEF g
  <2>2. Len(h) = n - 1 /\ (n - 1) + 1 = n
    BY <1>1, <1>2
  <2>3. Len(g) = n /\ (\A i \in 1..(n - 1) : g[i] = h[i]) /\ g[n] = y
    BY <2>1, <2>2
  <2> QED BY <2>3 DEF g
<1> DEFINE a == Append(cut, <<>>)
           b == Append(h, y)
<1>6. c = mark => q = a
  BY <1>3
<1>7. c # mark => q = b
  BY <1>3
<1>8. 1..(n - 1) \subseteq 1..n /\ n \in 1..n
  BY <1>1
<1> HIDE DEF a, b, n
<1>9. c = mark => Len(q) = n + 1 /\ q[n] = cut[n] /\ q[n + 1] = <<>>
  BY <1>4, <1>6, <1>8 DEF a
<1>10. c # mark => Len(q) = n /\ q[n] = y
  BY <1>5, <1>7 DEF b
<1>11. \A i \in 1..(n - 1) : q[i] = cut[i]
  <2>1. c = mark => \A i \in 1..(n - 1) : q[i] = cut[i]
    BY <1>4, <1>6, <1>8 DEF a
  <2>2. c # mark => \A i \in 1..(n - 1) : q[i] = cut[i]
    BY <1>2, <1>5, <1>7 DEF b
  <2> QED BY <2>1, <2>2
<1>12. Pieced(cut, q, c, mark)
  BY <1>1, <1>9, <1>10, <1>11, Zenon DEF Pieced, n, y, x
<1> QED BY <1>12 DEF q

\* Cut B with text x before its first piece.
Led(x, A, B) ==
  /\ Texts(A) /\ Texts(B) /\ Len(A) = Len(B) /\ Len(A) # 0
  /\ A[1] = x \o B[1] /\ \A i \in 2..Len(A) : A[i] = B[i]

\* One more byte keeps a cut and the same cut with a text before it in step.
LEMMA LedStep ==
  ASSUME NEW x, Sequence(x), NEW A, NEW B, Led(x, A, B), NEW c, NEW mark
  PROVE  Led(x, Piece(A, c, mark), Piece(B, c, mark))
<1> DEFINE n == Len(A)
           P == Piece(A, c, mark)
           Q == Piece(B, c, mark)
<1>1. n \in Nat /\ n # 0 /\ Len(B) = n /\ A[1] = x \o B[1] /\ \A i \in 2..n : A[i] = B[i]
  BY SequenceIs DEF Led, Texts
<1>2. Pieced(A, P, c, mark) /\ Pieced(B, Q, c, mark)
  BY <1>1, PieceIs DEF Led
<1>3. /\ Texts(P) /\ (\A i \in 1..(n - 1) : P[i] = A[i])
      /\ c = mark => Len(P) = n + 1 /\ P[n] = A[n] /\ P[n + 1] = <<>>
      /\ c # mark => Len(P) = n /\ P[n] = Append(A[n], c)
  BY <1>2 DEF Pieced
<1>4. /\ Texts(Q) /\ (\A i \in 1..(n - 1) : Q[i] = B[i])
      /\ c = mark => Len(Q) = n + 1 /\ Q[n] = B[n] /\ Q[n + 1] = <<>>
      /\ c # mark => Len(Q) = n /\ Q[n] = Append(B[n], c)
  BY <1>1, <1>2 DEF Pieced
<1> HIDE DEF P, Q
<1>5. Sequence(B[1])
  BY <1>1 DEF Led, Texts
<1>6. P[1] = x \o Q[1]
  <2>1. CASE c = mark \/ n # 1
    <3>1. P[1] = A[1] /\ Q[1] = B[1]
      <4>1. CASE n # 1
        <5>1. 1 \in 1..(n - 1)
          BY <1>1, <4>1
        <5> QED BY <1>3, <1>4, <5>1
      <4>2. CASE n = 1
        BY <1>3, <1>4, <2>1, <4>2
      <4> QED BY <4>1, <4>2
    <3> QED BY <1>1, <3>1, Zenon
  <2>2. CASE c # mark /\ n = 1
    <3>1. P[1] = Append(A[1], c) /\ Q[1] = Append(B[1], c)
      BY <1>3, <1>4, <2>2
    <3>2. x \o Append(B[1], c) = Append(x \o B[1], c)
      BY <1>5, CatAppend
    <3> QED BY <1>1, <3>1, <3>2, Zenon
  <2> QED BY <2>1, <2>2
<1>7. ASSUME NEW i \in 2..Len(P) PROVE P[i] = Q[i]
  <2>1. i \in Nat /\ i >= 2 /\ (i \in 1..(n - 1) \/ i = n \/ (c = mark /\ i = n + 1))
    BY <1>1, <1>3
  <2>2. CASE i \in 1..(n - 1)
    <3>1. i \in 2..n
      BY <1>1, <2>1, <2>2
    <3>2. P[i] = A[i] /\ Q[i] = B[i] /\ A[i] = B[i]
      BY <1>1, <1>3, <1>4, <2>2, <3>1
    <3> QED BY <3>2, Zenon
  <2>3. CASE i = n
    <3>1. n \in 2..n
      BY <1>1, <2>1, <2>3
    <3>2. A[n] = B[n]
      BY <1>1, <3>1
    <3>3. (c = mark => P[n] = A[n] /\ Q[n] = B[n]) /\ (c # mark => P[n] = Append(A[n], c) /\ Q[n] = Append(B[n], c))
      BY <1>3, <1>4
    <3>4. P[n] = Q[n]
      <4>1. c = mark => P[n] = Q[n]
        BY <3>2, <3>3, Zenon
      <4>2. c # mark => P[n] = Q[n]
        BY <3>2, <3>3, Zenon
      <4> QED BY <4>1, <4>2
    <3> QED BY <2>3, <3>4, Zenon
  <2>4. CASE c = mark /\ i = n + 1
    BY <1>3, <1>4, <2>4
  <2> QED BY <2>1, <2>2, <2>3, <2>4
<1>8. Len(P) = Len(Q) /\ Len(P) # 0
  BY <1>1, <1>3, <1>4
<1>9. Led(x, P, Q)
  BY <1>3, <1>4, <1>6, <1>7, <1>8 DEF Led
<1> QED BY <1>9 DEF P, Q

\* A text that has no mark goes before the first piece.
LEMMA PiecesLead ==
  ASSUME NEW x, Sequence(x), NEW mark, Free(x, mark), NEW b, Sequence(b)
  PROVE  Led(x, Pieces(x \o b, mark), Pieces(b, mark))
<1> DEFINE n == Len(b)
           P(k) == SubSeq(b, 1, k)
           K == {k \in Nat : k <= n => Led(x, Pieces(x \o P(k), mark), Pieces(P(k), mark))}
<1>1. n \in Nat /\ P(n) = b /\ P(0) = <<>>
  BY SequenceIs, SequenceWhole
<1>2. 0 \in K
  <2>1. x \o P(0) = x
    BY <1>1, CatNothing
  <2>2. Pieces(x, mark) = <<x>> /\ Pieces(P(0), mark) = << <<>> >>
    BY <1>1, PiecesOne, PiecesNone
  <2>3. Led(x, <<x>>, << <<>> >>)
    <3> DEFINE A == <<x>>
               B == << <<>> >>
               e == <<>>
    <3>1. Texts(A) /\ Texts(B)
      BY SequenceTuples, TextsTuples
    <3>2. Len(A) = 1 /\ Len(B) = 1 /\ A[1] = x /\ B[1] = e
      OBVIOUS
    <3>3. x \o e = x
      BY CatNothing
    <3> HIDE DEF A, B, e
    <3>4. A[1] = x \o B[1]
      BY <3>2, <3>3, Zenon
    <3>5. Led(x, A, B)
      BY <3>1, <3>2, <3>4 DEF Led
    <3> QED BY <3>5 DEF A, B
  <2>4. Led(x, Pieces(x \o P(0), mark), Pieces(P(0), mark))
    <3> HIDE DEF P
    <3> QED BY <2>1, <2>2, <2>3, Zenon
  <2> QED BY <2>4
<1> HIDE DEF P
<1>3. ASSUME NEW k \in Nat, k \in K PROVE k + 1 \in K
  <2> SUFFICES ASSUME k + 1 <= n PROVE Led(x, Pieces(x \o P(k + 1), mark), Pieces(P(k + 1), mark))
    OBVIOUS
  <2> DEFINE c == b[k + 1]
             p == P(k)
  <2>1. k < n /\ k <= n
    BY <1>1
  <2>2. P(k + 1) = Append(p, c)
    BY <2>1, SequenceSnoc DEF P
  <2>3. Led(x, Pieces(x \o p, mark), Pieces(p, mark))
    BY <1>3, <2>1
  <2>4. Sequence(p)
    <3>1. 1 \in Nat \ {0}
      OBVIOUS
    <3> QED BY <2>1, <3>1, SequenceSub DEF P
  <2> HIDE DEF c, p
  <2>5. Sequence(x \o p) /\ x \o Append(p, c) = Append(x \o p, c)
    BY <2>4, SequenceCat, CatAppend
  <2>6. Pieces(Append(x \o p, c), mark) = Piece(Pieces(x \o p, mark), c, mark)
    BY <2>5, PiecesStep
  <2>7. Pieces(Append(p, c), mark) = Piece(Pieces(p, mark), c, mark)
    BY <2>4, PiecesStep
  <2>8. Led(x, Piece(Pieces(x \o p, mark), c, mark), Piece(Pieces(p, mark), c, mark))
    BY <2>3, LedStep
  <2> QED BY <2>2, <2>5, <2>6, <2>7, <2>8, Zenon
<1>4. \A k \in Nat : k \in K
  <2> HIDE DEF K
  <2> QED BY <1>2, <1>3, Induction
<1>5. Led(x, Pieces(x \o P(n), mark), Pieces(P(n), mark))
  <2>1. n \in K
    <3> HIDE DEF K, n
    <3> QED BY <1>1, <1>4
  <2>2. n <= n
    BY <1>1
  <2> HIDE DEF n
  <2> QED BY <2>1, <2>2, Zenon
<1> QED BY <1>1, <1>5, Zenon

\* A mark ends a piece.
LEMMA AppendPair == \A t, e : Append(<<t>>, e) = <<t, e>>
<1> SUFFICES ASSUME NEW t, NEW e PROVE Append(<<t>>, e) = <<t, e>>
  OBVIOUS
<1> DEFINE S == {t, e}
           a == <<t>>
           b == <<t, e>>
<1>1. /\ e \in S /\ t \in S /\ a \in Seq(S) /\ Len(a) = 1 /\ a[1] = t
      /\ b \in Seq(S) /\ Len(b) = 2 /\ b[1] = t /\ b[2] = e
  OBVIOUS
<1>3. \A x \in Seq(S), y \in S : /\ Append(x, y) \in Seq(S) /\ Len(Append(x, y)) = Len(x) + 1
                                /\ Append(x, y)[Len(x) + 1] = y
                                /\ \A i \in 1..Len(x) : Append(x, y)[i] = x[i]
  <2> HIDE DEF S
  <2> QED OBVIOUS
<1> DEFINE d == Append(a, e)
<1>4. /\ d \in Seq(S) /\ Len(d) = Len(a) + 1 /\ d[Len(a) + 1] = e
      /\ \A i \in 1..Len(a) : d[i] = a[i]
  <2> HIDE DEF a, b, S
  <2> QED BY <1>1, <1>3
<1>5. d = b
  <2> HIDE DEF a, b, S, d
  <2>1. Len(d) = 2 /\ d[2] = e /\ d[1] = t
    BY <1>1, <1>4
  <2>2. \A i \in 1..2 : d[i] = b[i]
    BY <1>1, <2>1
  <2> QED BY <1>1, <1>4, <2>1, <2>2
<1> QED BY <1>5

\* A mark at the end leaves an empty piece behind it.
LEMMA PiecesEnd ==
  ASSUME NEW t, Sequence(t), NEW mark, Free(t, mark)
  PROVE  Pieces(Append(t, mark), mark) = <<t, <<>>>>
<1>1. Pieces(Append(t, mark), mark) = Piece(<<t>>, mark, mark)
  BY PiecesOne, PiecesStep, Zenon
<1>2. Piece(<<t>>, mark, mark) = Append(<<t>>, <<>>)
  BY Zenon DEF Piece
<1> QED BY <1>1, <1>2, AppendPair, Zenon

\* Where the marks are.
Marks(t, mark) == {i \in DOMAIN t : t[i] = mark}

\* There is one more piece than there are marks.
LEMMA PiecesCount ==
  ASSUME NEW t, Sequence(t), NEW mark
  PROVE  IsFiniteSet(Marks(t, mark)) /\ Len(Pieces(t, mark)) = Cardinality(Marks(t, mark)) + 1
<1> DEFINE n == Len(t)
           P(k) == SubSeq(t, 1, k)
           Counts(p) == /\ IsFiniteSet(Marks(p, mark)) /\ Cardinality(Marks(p, mark)) \in Nat
                        /\ Len(Pieces(p, mark)) = Cardinality(Marks(p, mark)) + 1
           K == {k \in Nat : k <= n => Counts(P(k))}
<1>1. n \in Nat /\ P(n) = t /\ P(0) = <<>>
  BY SequenceIs, SequenceWhole
<1>2. 0 \in K
  <2> DEFINE e == <<>>
  <2>1. Marks(e, mark) = {}
    BY DEF Marks
  <2>2. IsFiniteSet({}) /\ Cardinality({}) = 0
    BY FS_EmptySet
  <2>3. Len(Pieces(e, mark)) = 1
    <3>1. \A x : Len(<<x>>) = 1
      OBVIOUS
    <3> QED BY <3>1, PiecesNone, Zenon
  <2> HIDE DEF e, P
  <2>4. Counts(e)
    BY <2>1, <2>2, <2>3
  <2>6. P(0) = e
    BY <1>1 DEF e
  <2> HIDE DEF Counts
  <2>5. Counts(P(0))
    BY <2>4, <2>6, Zenon
  <2> QED BY <2>5
<1>3. ASSUME NEW p, Sequence(p), NEW c, Counts(p) PROVE Counts(Append(p, c))
  <2> DEFINE u == Append(p, c)
             m == Len(p)
             M == Marks(p, mark)
             N == Marks(u, mark)
  <2>1. m \in Nat /\ Len(u) = m + 1 /\ (\A i \in 1..m : u[i] = p[i]) /\ u[m + 1] = c
    BY <1>3, SequenceAppend
  <2>2. DOMAIN p = 1..m /\ DOMAIN u = 1..(m + 1)
    BY <1>3, <2>1, SequenceAppend, SequenceIs
  <2>3. Pieced(Pieces(p, mark), Pieces(u, mark), c, mark) /\ Len(Pieces(p, mark)) \in Nat
    <3>1. Texts(Pieces(p, mark)) /\ Len(Pieces(p, mark)) # 0
      BY <1>3, PiecesTexts
    <3>2. Pieces(u, mark) = Piece(Pieces(p, mark), c, mark)
      BY <1>3, PiecesStep
    <3> QED BY <3>1, <3>2, PieceIs, SequenceIs DEF Texts
  <2> HIDE DEF u
  <2>4. N = IF c = mark THEN M \cup {m + 1} ELSE M
    BY <2>1, <2>2 DEF Marks
  <2>5. m + 1 \notin M
    BY <2>1, <2>2 DEF Marks
  <2>6. IsFiniteSet(M) /\ Cardinality(M) \in Nat /\ Len(Pieces(p, mark)) = Cardinality(M) + 1
    BY <1>3
  <2> HIDE DEF M, N
  <2>7. IsFiniteSet(M \cup {m + 1}) /\ Cardinality(M \cup {m + 1}) = Cardinality(M) + 1
    BY <2>5, <2>6, FS_AddElement
  <2>8. IsFiniteSet(N) /\ Cardinality(N) \in Nat /\ Len(Pieces(u, mark)) = Cardinality(N) + 1
    BY <2>3, <2>4, <2>6, <2>7 DEF Pieced
  <2> QED BY <2>8 DEF u, N
<1> HIDE DEF P, Counts
<1>4. ASSUME NEW k \in Nat, k \in K PROVE k + 1 \in K
  <2> SUFFICES ASSUME k + 1 <= n PROVE Counts(P(k + 1))
    OBVIOUS
  <2>1. k < n /\ k <= n
    BY <1>1
  <2>2. P(k + 1) = Append(P(k), t[k + 1])
    BY <2>1, SequenceSnoc DEF P
  <2>3. Counts(P(k))
    BY <1>4, <2>1
  <2>4. Sequence(P(k))
    <3>1. 1 \in Nat \ {0}
      OBVIOUS
    <3> QED BY <2>1, <3>1, SequenceSub DEF P
  <2> QED BY <1>3, <2>2, <2>3, <2>4, Zenon
<1>5. \A k \in Nat : k \in K
  <2> HIDE DEF K
  <2> QED BY <1>2, <1>4, Induction
<1>6. Counts(P(n))
  <2>1. n \in K
    <3> HIDE DEF K, n
    <3> QED BY <1>1, <1>5
  <2>2. n <= n
    BY <1>1
  <2> HIDE DEF n
  <2> QED BY <2>1, <2>2, Zenon
<1> QED BY <1>1, <1>6, Zenon DEF Counts

\* Sequences are the same that have the same elements.
LEMMA SequenceSame ==
  ASSUME NEW a, NEW b, Sequence(a), Sequence(b), Len(a) = Len(b),
         \A i \in 1..Len(a) : a[i] = b[i]
  PROVE  a = b
<1> DEFINE A == ToSet(a)
           B == ToSet(b)
           S == A \cup B
<1>1. a \in Seq(A) /\ b \in Seq(B)
  BY DEF Sequence
<1> HIDE DEF A, B
<1>2. a \in Seq(S) /\ b \in Seq(S)
  BY <1>1
<1> HIDE DEF S
<1> QED BY <1>2

\* FlatTo, one equation per sequence.
FlatBy(s, n, f) == f[1] = s[1] /\ \A i \in 2..n : f[i] = f[i - 1] \o s[i]

\* The sequences put together so far, one equation per sequence.
LEMMA FlatSteps ==
  ASSUME NEW s, NEW n \in Nat, n # 0, NEW f, FlatTo(s, n, f)
  PROVE  FlatBy(s, n, f)
<1>1. \A i \in 1..n : f[i] = IF i = 1 THEN s[i] ELSE f[i - 1] \o s[i]
  BY FlatStep
<1>2. 1 \in 1..n /\ \A i \in 2..n : i \in 1..n /\ i # 1
  OBVIOUS
<1> QED BY <1>1, <1>2, Zenon DEF FlatBy

\* Sequences put together, one more.
LEMMA FlattenAppend ==
  ASSUME NEW s, Sequence(s), NEW x, Sequence(x)
  PROVE  FlattenSeq(Append(s, x)) = FlattenSeq(s) \o x
<1> DEFINE u == Append(s, x)
           n == Len(s)
           m == n + 1
<1>1. n \in Nat /\ m \in Nat /\ m # 0 /\ Len(u) = m /\ (\A i \in 1..n : u[i] = s[i]) /\ u[m] = x
  BY SequenceAppend
<1> HIDE DEF u
<1>2. PICK g : FlatTo(u, m, g) /\ FlattenSeq(u) = g[m]
  <2> HIDE DEF m
  <2> QED BY <1>1, Flattens
<1>3. FlatBy(u, m, g)
  <2> HIDE DEF m
  <2> QED BY <1>1, <1>2, FlatSteps
<1>4. CASE n = 0
  <2>1. s = <<>>
    BY <1>4, SequenceIs
  <2>2. FlattenSeq(s) = s
    BY <1>4 DEF FlattenSeq
  <2>3. m = 1
    BY <1>4
  <2>4. FlattenSeq(u) = x
    BY <1>1, <1>2, <1>3, <2>3 DEF FlatBy
  <2>5. <<>> \o x = x
    BY CatNothing
  <2> QED BY <2>1, <2>2, <2>4, <2>5, Zenon DEF u
<1>5. CASE n # 0
  <2>1. PICK f : FlatTo(s, n, f) /\ FlattenSeq(s) = f[n]
    BY <1>1, <1>5, Flattens
  <2>2. FlatBy(s, n, f)
    BY <1>1, <1>5, <2>1, FlatSteps
  <2> DEFINE K == {k \in Nat : k \in 1..n => f[k] = g[k]}
  <2>3. 0 \in K
    OBVIOUS
  <2> HIDE DEF n
  <2>4. ASSUME NEW k \in Nat, k \in K PROVE k + 1 \in K
    <3> SUFFICES ASSUME k + 1 \in 1..n PROVE f[k + 1] = g[k + 1]
      OBVIOUS
    <3> DEFINE j == k + 1
    <3>1. /\ j \in 1..n /\ j \in 1..m /\ j - 1 = k
          /\ (j # 1 => j \in 2..n /\ j \in 2..m /\ k \in 1..n)
      BY <1>1
    <3> HIDE DEF j, m
    <3>2. u[j] = s[j]
      BY <1>1, <3>1
    <3>3. CASE j = 1
      BY <1>3, <2>2, <3>2, <3>3 DEF FlatBy, j
    <3>4. CASE j # 1
      <4>1. f[k] = g[k]
        BY <2>4, <3>1, <3>4
      <4>2. f[j] = f[j - 1] \o s[j] /\ g[j] = g[j - 1] \o u[j]
        BY <1>3, <2>2, <3>1, <3>4, Zenon DEF FlatBy
      <4>3. f[j] = g[j]
        BY <3>1, <3>2, <4>1, <4>2, Zenon
      <4> QED BY <4>3 DEF j
    <3> QED BY <3>3, <3>4
  <2>5. \A k \in Nat : k \in K
    <3> HIDE DEF K
    <3> QED BY <2>3, <2>4, Induction
  <2>6. f[n] = g[n]
    <3>1. n \in 1..n /\ n \in K
      BY <1>1, <1>5, <2>5
    <3> QED BY <3>1
  <2>7. m \in 2..m /\ m - 1 = n
    BY <1>1, <1>5
  <2> HIDE DEF m
  <2>8. g[m] = g[n] \o u[m]
    BY <1>3, <2>7, Zenon DEF FlatBy
  <2>9. FlattenSeq(u) = FlattenSeq(s) \o x
    BY <1>1, <1>2, <2>1, <2>6, <2>8, Zenon
  <2> QED BY <2>9 DEF u
<1> QED BY <1>4, <1>5

\* The texts that are not empty, one more.
LEMMA FilledStep ==
  ASSUME NEW ts, Texts(ts), NEW x, Sequence(x)
  PROVE  Filled(Append(ts, x)) = IF x = <<>> THEN Filled(ts) ELSE Append(Filled(ts), x)
<1> DEFINE us == Append(ts, x)
           n == Len(ts)
           m == n + 1
           s == [i \in DOMAIN ts |-> IF ts[i] = <<>> THEN <<>> ELSE <<ts[i]>>]
           u == [i \in DOMAIN us |-> IF us[i] = <<>> THEN <<>> ELSE <<us[i]>>]
           y == IF x = <<>> THEN <<>> ELSE <<x>>
           v == Append(s, y)
<1>1. Sequence(ts)
  BY DEF Texts
<1>2. /\ n \in Nat /\ DOMAIN ts = 1..n /\ Sequence(us) /\ Len(us) = m /\ DOMAIN us = 1..m
      /\ (\A i \in 1..n : us[i] = ts[i]) /\ us[m] = x
  <2>1. n \in Nat /\ DOMAIN ts = 1..n
    BY <1>1, SequenceIs
  <2>2. Sequence(us) /\ Len(us) = m /\ (\A i \in 1..n : us[i] = ts[i]) /\ us[m] = x
    BY <1>1, SequenceAppend
  <2> HIDE DEF us
  <2>3. DOMAIN us = 1..Len(us)
    BY <2>2, SequenceIs
  <2> QED BY <2>1, <2>2, <2>3
<1> HIDE DEF us
<1>3. s = [i \in 1..n |-> s[i]] /\ \A i \in 1..n : s[i] = IF ts[i] = <<>> THEN <<>> ELSE <<ts[i]>>
  BY <1>2
<1>4. u = [i \in 1..m |-> u[i]] /\ \A i \in 1..m : u[i] = IF us[i] = <<>> THEN <<>> ELSE <<us[i]>>
  BY <1>2
<1>5. Filled(ts) = FlattenSeq(s) /\ Filled(us) = FlattenSeq(u)
  BY DEF Filled
<1> HIDE DEF s, u
<1>6. Sequence(s) /\ Len(s) = n
  BY <1>2, <1>3, SequenceMade
<1>7. Sequence(u) /\ Len(u) = m
  <2>1. m \in Nat
    BY <1>2
  <2> HIDE DEF m
  <2> QED BY <2>1, <1>4, SequenceMade
<1>8. Sequence(y)
  BY SequenceTuples
<1> HIDE DEF y
<1>9. Sequence(v) /\ Len(v) = m /\ (\A i \in 1..n : v[i] = s[i]) /\ v[m] = y
  BY <1>6, SequenceAppend
<1>10. u = v
  <2>1. \A i \in 1..n : u[i] = v[i]
    <3> TAKE i \in 1..n
    <3>1. i \in 1..m
      BY <1>2
    <3> HIDE DEF v, m
    <3> QED BY <1>2, <1>3, <1>4, <1>9, <3>1, Zenon
  <2>2. u[m] = v[m]
    <3>1. m \in 1..m
      BY <1>2
    <3> HIDE DEF v, m
    <3>2. u[m] = IF x = <<>> THEN <<>> ELSE <<x>>
      BY <1>2, <1>4, <3>1, Zenon
    <3> QED BY <1>9, <3>2, Zenon DEF y
  <2>3. \A i \in 1..m : i \in 1..n \/ i = m
    BY <1>2
  <2> HIDE DEF v, m
  <2>4. \A i \in 1..m : u[i] = v[i]
    BY <2>1, <2>2, <2>3, Zenon
  <2> QED BY <1>7, <1>9, <2>4, SequenceSame
<1>11. FlattenSeq(v) = FlattenSeq(s) \o y
  BY <1>6, <1>8, FlattenAppend
<1>12. Texts(Filled(ts))
  BY FilledTexts
<1>13. Filled(us) = Filled(ts) \o y
  BY <1>5, <1>10, <1>11, Zenon
<1>14. Sequence(Filled(ts))
  BY <1>12 DEF Texts
<1>15. Filled(ts) \o <<>> = Filled(ts) /\ Filled(ts) \o <<x>> = Append(Filled(ts), x)
  BY <1>14, CatNothing, CatOne
<1>16. y = IF x = <<>> THEN <<>> ELSE <<x>>
  BY DEF y
<1> QED BY <1>13, <1>15, <1>16, Zenon DEF us

\* A line without the CR at its end.
Stripping(l) == IF l # <<>> /\ Last(l) = "CR" THEN Front(l) ELSE l

\* Without its CR a text is a text.
LEMMA StrippingText ==
  ASSUME NEW l, Sequence(l)
  PROVE  Sequence(Stripping(l))
<1>1. l # <<>> => Len(l) # 0
  BY SequenceIs
<1> QED BY <1>1, SequenceFront DEF Stripping

\* One more line is framed behind the others, unless nothing of it is left.
LEMMA FramedStep ==
  ASSUME NEW ls, Texts(ls), NEW l, Sequence(l)
  PROVE  Framed(Append(ls, l)) = IF Stripping(l) = <<>> THEN Framed(ls) ELSE Append(Framed(ls), Stripping(l))
<1> DEFINE ms == Append(ls, l)
           n == Len(ls)
           m == n + 1
           s == [i \in DOMAIN ls |-> Stripping(ls[i])]
           u == [i \in DOMAIN ms |-> Stripping(ms[i])]
           y == Stripping(l)
           v == Append(s, y)
<1>1. Sequence(ls) /\ \A i \in 1..n : Sequence(ls[i])
  BY DEF Texts
<1>2. /\ n \in Nat /\ DOMAIN ls = 1..n /\ Sequence(ms) /\ Len(ms) = m /\ DOMAIN ms = 1..m
      /\ (\A i \in 1..n : ms[i] = ls[i]) /\ ms[m] = l
  <2>1. n \in Nat /\ DOMAIN ls = 1..n
    BY <1>1, SequenceIs
  <2>2. Sequence(ms) /\ Len(ms) = m /\ (\A i \in 1..n : ms[i] = ls[i]) /\ ms[m] = l
    BY <1>1, SequenceAppend
  <2> HIDE DEF ms
  <2>3. DOMAIN ms = 1..Len(ms)
    BY <2>2, SequenceIs
  <2> QED BY <2>1, <2>2, <2>3
<1> HIDE DEF ms
<1>3. s = [i \in 1..n |-> s[i]] /\ \A i \in 1..n : s[i] = Stripping(ls[i])
  BY <1>2
<1>4. u = [i \in 1..m |-> u[i]] /\ \A i \in 1..m : u[i] = Stripping(ms[i])
  BY <1>2
<1>5. Framed(ls) = Filled(s) /\ Framed(ms) = Filled(u)
  BY Zenon DEF Framed, Stripping
<1> HIDE DEF s, u
<1>6. Sequence(s) /\ Len(s) = n
  BY <1>2, <1>3, SequenceMade
<1>7. Sequence(u) /\ Len(u) = m
  <2>1. m \in Nat
    BY <1>2
  <2> HIDE DEF m
  <2> QED BY <2>1, <1>4, SequenceMade
<1>8. Sequence(y)
  BY StrippingText
<1> HIDE DEF y
<1>9. Sequence(v) /\ Len(v) = m /\ (\A i \in 1..n : v[i] = s[i]) /\ v[m] = y
  BY <1>6, SequenceAppend
<1>10. u = v
  <2>1. \A i \in 1..n : u[i] = v[i]
    <3> TAKE i \in 1..n
    <3>1. i \in 1..m
      BY <1>2
    <3> HIDE DEF v, m
    <3> QED BY <1>2, <1>3, <1>4, <1>9, <3>1, Zenon
  <2>2. u[m] = v[m]
    <3>1. m \in 1..m
      BY <1>2
    <3> HIDE DEF v, m
    <3> QED BY <1>2, <1>4, <1>9, <3>1, Zenon DEF y
  <2>3. \A i \in 1..m : i \in 1..n \/ i = m
    BY <1>2
  <2> HIDE DEF v, m
  <2>4. \A i \in 1..m : u[i] = v[i]
    BY <2>1, <2>2, <2>3, Zenon
  <2> QED BY <1>7, <1>9, <2>4, SequenceSame
<1>11. Texts(s)
  <2>1. \A i \in 1..n : Sequence(s[i])
    BY <1>1, <1>3, StrippingText
  <2> QED BY <1>6, <2>1 DEF Texts
<1>12. Filled(v) = IF y = <<>> THEN Filled(s) ELSE Append(Filled(s), y)
  BY <1>8, <1>11, FilledStep
<1>13. Framed(ms) = IF y = <<>> THEN Framed(ls) ELSE Append(Framed(ls), y)
  BY <1>5, <1>10, <1>12, Zenon
<1> QED BY <1>13 DEF y, ms

\* No lines are framed as none.
LEMMA FramedNone == Framed(<<>>) = <<>>
<1> DEFINE e == <<>>
           s == [i \in DOMAIN e |-> Stripping(e[i])]
           f == [i \in DOMAIN e |-> IF e[i] = <<>> THEN <<>> ELSE <<e[i]>>]
<1>1. s = <<>> /\ f = <<>> /\ Len(<<>>) = 0
  OBVIOUS
<1>2. Framed(e) = Filled(s)
  BY Zenon DEF Framed, Stripping
<1>3. Filled(e) = FlattenSeq(f)
  BY Zenon DEF Filled
<1>4. FlattenSeq(<<>>) = <<>>
  BY <1>1 DEF FlattenSeq
<1> QED BY <1>1, <1>2, <1>3, <1>4, Zenon

\* What is heard when A is what was meant.
Answer(h, A) == IF A = {} THEN h ELSE Append(h, CHOOSE m \in A : TRUE)

\* The reference's message of line t, if there is one, is what is heard of it.
LEMMA ParsesHeard ==
  ASSUME Lim.tagData \in Nat, NEW s, Heeds(s), NEW t, Sequence(t)
  PROVE  Parses(s, t).heard = Answer(s.heard, Understood(t, Lim))
<1> DEFINE tk == TokenizeInto(s.tokenizer, t, Lim)
           m == FlatParse(t, tk.scratch, tk.count)
           c == Dispatch([isupport |-> s.isupport, channel |-> s.channel], m)
           h == Append(s.heard, m)
           u == Parses(s, t)
<1>1. Line(t, Lim) /\ s.tokenizer.scratch \in Scratches
  BY SequenceIs DEF Line, Heeds
<1>2. Understood(t, Lim) = IF tk.error # <<>> THEN {} ELSE {m}
  BY <1>1, ParsersAgree, Zenon
<1>3. u = IF tk.error # <<>> THEN [s EXCEPT !.tokenizer = tk, !.line = t]
          ELSE [tokenizer |-> tk, line |-> t, heard |-> h, isupport |-> c.isupport, channel |-> c.channel]
  BY Zenon DEF Parses, Accepts
<1> DEFINE U == Understood(t, Lim)
<1> HIDE DEF tk, m, c, u, U
<1>4. DOMAIN s = {"tokenizer", "line", "heard", "isupport", "channel"}
  BY DEF Heeds
<1>5. CASE tk.error # <<>>
  <2>1. u = [s EXCEPT !.tokenizer = tk, !.line = t]
    BY <1>3, <1>5
  <2>2. u.heard = s.heard
    BY <1>4, <2>1
  <2>3. U = {}
    BY <1>2, <1>5 DEF U
  <2> QED BY <2>2, <2>3 DEF Answer, u, U
<1>6. CASE tk.error = <<>>
  <2>1. u = [tokenizer |-> tk, line |-> t, heard |-> h, isupport |-> c.isupport, channel |-> c.channel]
    BY <1>3, <1>6
  <2>2. u.heard = Append(s.heard, m)
    BY <2>1
  <2>3. U = {m}
    BY <1>2, <1>6 DEF U
  <2>4. (CHOOSE x \in {m} : TRUE) = m /\ {m} # {}
    OBVIOUS
  <2> QED BY <2>2, <2>3, <2>4 DEF Answer, u, U
<1> QED BY <1>5, <1>6

\* No lines leave everything as it was.
LEMMA HearsNone == \A s : Hears(s, <<>>) = s
<1> SUFFICES ASSUME NEW s PROVE Hears(s, <<>>) = s
  OBVIOUS
<1> DEFINE e == <<>>
<1>1. Len(e) \in Nat /\ Len(e) = 0
  OBVIOUS
<1> HIDE DEF e
<1>2. PICK f : HeardTo(s, e, Len(e), f) /\ Hears(s, e) = f[Len(e)]
  BY <1>1, HearsAll
<1>3. f = [i \in 0..0 |-> IF i = 0 THEN s ELSE Parses(f[i - 1], e[i])]
  BY <1>1, <1>2 DEF HeardTo
<1>4. f[0] = s
  <2>1. 0 \in 0..0
    OBVIOUS
  <2> QED BY <1>3, <2>1, Zenon
<1>5. Hears(s, e) = s
  BY <1>1, <1>2, <1>4, Zenon
<1> QED BY <1>5 DEF e

\* HeardTo, one equation per line.
HeardBy(s, lines, n, f) == f[0] = s /\ \A i \in 1..n : f[i] = Parses(f[i - 1], lines[i])

\* What is heard line by line, one equation per line.
LEMMA HeardSteps ==
  ASSUME NEW s, NEW lines, NEW n \in Nat, NEW f, HeardTo(s, lines, n, f)
  PROVE  HeardBy(s, lines, n, f)
<1>1. f = [i \in 0..n |-> IF i = 0 THEN s ELSE Parses(f[i - 1], lines[i])]
  BY DEF HeardTo
<1>2. \A i \in 0..n : f[i] = IF i = 0 THEN s ELSE Parses(f[i - 1], lines[i])
  BY <1>1, Zenon
<1>3. 0 \in 0..n /\ \A i \in 1..n : i \in 0..n /\ i # 0
  OBVIOUS
<1> QED BY <1>2, <1>3, Zenon DEF HeardBy

\* One more line is parsed in the state that the others have left behind.
LEMMA HearsStep ==
  ASSUME NEW s, NEW t, Sequence(t), NEW c
  PROVE  Hears(s, Append(t, c)) = Parses(Hears(s, t), c)
<1> DEFINE u == Append(t, c)
           n == Len(t)
           m == n + 1
<1>1. n \in Nat /\ m \in Nat /\ Len(u) = m /\ (\A i \in 1..n : u[i] = t[i]) /\ u[m] = c
  BY SequenceAppend
<1> HIDE DEF u
<1>2. PICK f : HeardTo(s, t, n, f) /\ Hears(s, t) = f[n]
  BY <1>1, HearsAll
<1>3. PICK g : HeardTo(s, u, m, g) /\ Hears(s, u) = g[m]
  BY <1>1, HearsAll
<1>4. f[0] = s /\ \A i \in 1..n : f[i] = Parses(f[i - 1], t[i])
  <2>1. HeardBy(s, t, n, f)
    BY <1>1, <1>2, HeardSteps
  <2> QED BY <2>1 DEF HeardBy
<1>5. g[0] = s /\ \A i \in 1..m : g[i] = Parses(g[i - 1], u[i])
  <2>1. HeardBy(s, u, m, g)
    BY <1>1, <1>3, HeardSteps
  <2> QED BY <2>1 DEF HeardBy
<1> DEFINE K == {k \in Nat : k <= n => f[k] = g[k]}
<1>6. 0 \in K
  BY <1>4, <1>5
<1> HIDE DEF n
<1>7. ASSUME NEW k \in Nat, k \in K PROVE k + 1 \in K
  <2> SUFFICES ASSUME k + 1 <= n PROVE f[k + 1] = g[k + 1]
    OBVIOUS
  <2> DEFINE j == k + 1
  <2>1. j \in 1..n /\ j \in 1..m /\ j - 1 = k /\ k <= n
    BY <1>1
  <2>2. f[k] = g[k]
    BY <1>7, <2>1
  <2> HIDE DEF j, m
  <2>3. f[j] = Parses(f[k], t[j]) /\ g[j] = Parses(g[k], u[j]) /\ u[j] = t[j]
    BY <1>1, <1>4, <1>5, <2>1
  <2>4. f[j] = g[j]
    BY <2>2, <2>3, Zenon
  <2> QED BY <2>4 DEF j
<1>8. \A k \in Nat : k \in K
  <2> HIDE DEF K
  <2> QED BY <1>6, <1>7, Induction
<1>9. f[n] = g[n]
  BY <1>1, <1>8
<1>10. m \in 1..m /\ m - 1 = n
  BY <1>1
<1> HIDE DEF m
<1>11. g[m] = Parses(g[n], u[m])
  BY <1>5, <1>10
<1>12. Hears(s, u) = Parses(Hears(s, t), c)
  BY <1>1, <1>2, <1>3, <1>9, <1>11, Zenon
<1> QED BY <1>12 DEF u

\* What a line between two newlines means.
Meaning(l) == IF Stripping(l) = <<>> THEN {} ELSE Understood(Stripping(l), Lim)

\* One more line is heard as what it means.
LEMMA FramedHeard ==
  ASSUME Lim.tagData \in Nat, NEW s, Heeds(s), NEW ls, Texts(ls), NEW l, Sequence(l)
  PROVE  Hears(s, Framed(Append(ls, l))).heard = Answer(Hears(s, Framed(ls)).heard, Meaning(l))
<1> DEFINE x == Stripping(l)
           F == Framed(ls)
           G == Framed(Append(ls, l))
           u == Hears(s, F)
<1>1. G = IF x = <<>> THEN F ELSE Append(F, x)
  BY FramedStep
<1>2. Sequence(x)
  BY StrippingText
<1>3. Texts(F)
  BY FramedTexts
<1>4. Heeds(u)
  BY <1>3, HearsHeeds
<1>5. Meaning(l) = IF x = <<>> THEN {} ELSE Understood(x, Lim)
  BY Zenon DEF Meaning
<1>6. Sequence(F)
  BY <1>3 DEF Texts
<1> HIDE DEF x, F, G, u
<1>7. CASE x = <<>>
  <2>1. Hears(s, G) = u
    BY <1>1, <1>7, Zenon DEF u
  <2>2. Answer(u.heard, {}) = u.heard
    BY DEF Answer
  <2> QED BY <1>5, <1>7, <2>1, <2>2, Zenon DEF u, F, G
<1>8. CASE x # <<>>
  <2>1. Hears(s, Append(F, x)) = Parses(u, x)
    BY <1>6, HearsStep DEF u
  <2>2. Hears(s, G) = Parses(u, x)
    BY <1>1, <1>8, <2>1, Zenon
  <2>3. Parses(u, x).heard = Answer(u.heard, Understood(x, Lim))
    BY <1>2, <1>4, ParsesHeard
  <2> QED BY <1>5, <1>8, <2>2, <2>3, Zenon DEF u, F, G
<1> QED BY <1>7, <1>8

\* What was heard before does not matter for what a line adds.
LEMMA AnswerCat ==
  ASSUME NEW a, NEW b, Sequence(a), Sequence(b), NEW A
  PROVE  a \o Answer(b, A) = Answer(a \o b, A) /\ Sequence(Answer(b, A))
<1> DEFINE x == CHOOSE m \in A : TRUE
<1> HIDE DEF x
<1>1. a \o Append(b, x) = Append(a \o b, x) /\ Sequence(Append(b, x))
  BY CatAppend, SequenceAppend
<1>2. Answer(b, A) = (IF A = {} THEN b ELSE Append(b, x)) /\ Answer(a \o b, A) = (IF A = {} THEN a \o b ELSE Append(a \o b, x))
  BY Zenon DEF Answer, x
<1> QED BY <1>1, <1>2, Zenon

\* A part of a list, one more.
LEMMA SubGrows ==
  ASSUME NEW a, Sequence(a), NEW j \in {1, 2}
  PROVE  /\ \A i \in Nat : i < j => SubSeq(a, j, i) = <<>>
         /\ \A i \in Nat : i < Len(a) /\ j <= i + 1 => SubSeq(a, j, i + 1) = Append(SubSeq(a, j, i), a[i + 1])
         /\ Len(a) # 0 => Tail(a) = SubSeq(a, 2, Len(a))
         /\ SubSeq(a, 1, Len(a)) = a
<1> DEFINE S == ToSet(a)
<1>1. a \in Seq(S)
  BY DEF Sequence
<1> HIDE DEF S
<1>2. ASSUME NEW i \in Nat, i < Len(a), j <= i + 1
      PROVE  SubSeq(a, j, i + 1) = Append(SubSeq(a, j, i), a[i + 1])
  <2> DEFINE x == SubSeq(a, j, i + 1)
             y == SubSeq(a, j, i)
             z == Append(y, a[i + 1])
  <2>1. x \in Seq(S) /\ Len(x) = i + 2 - j /\ \A q \in 1..(i + 2 - j) : x[q] = a[j + q - 1]
    BY <1>1, <1>2
  <2>2. y \in Seq(S) /\ Len(y) = i + 1 - j /\ \A q \in 1..(i + 1 - j) : y[q] = a[j + q - 1]
    BY <1>1, <1>2
  <2>3. a[i + 1] \in S
    BY <1>1, <1>2
  <2> HIDE DEF x, y
  <2>4. /\ z \in Seq(S) /\ Len(z) = i + 2 - j /\ z[i + 2 - j] = a[i + 1]
        /\ \A q \in 1..(i + 1 - j) : z[q] = y[q]
    BY <1>2, <2>2, <2>3
  <2> HIDE DEF z
  <2>5. \A q \in 1..(i + 2 - j) : x[q] = z[q]
    <3> TAKE q \in 1..(i + 2 - j)
    <3>1. CASE q \in 1..(i + 1 - j)
      BY <2>1, <2>2, <2>4, <3>1
    <3>2. CASE q = i + 2 - j
      <4>1. j + q - 1 = i + 1
        BY <1>2, <3>2
      <4> QED BY <2>1, <2>4, <3>2, <4>1
    <3> QED BY <1>2, <3>1, <3>2
  <2>6. x = z
    BY <2>1, <2>4, <2>5
  <2> QED BY <2>6 DEF x, y, z
<1>3. \A i \in Nat : i < j => SubSeq(a, j, i) = <<>>
  BY <1>1
<1>4. Len(a) # 0 => Tail(a) = SubSeq(a, 2, Len(a))
  <2> SUFFICES ASSUME Len(a) # 0 PROVE Tail(a) = SubSeq(a, 2, Len(a))
    OBVIOUS
  <2> DEFINE x == Tail(a)
             y == SubSeq(a, 2, Len(a))
  <2>1. a # <<>> /\ Len(a) \in Nat
    BY <1>1
  <2>2. x \in Seq(S) /\ Len(x) = Len(a) - 1 /\ \A q \in 1..(Len(a) - 1) : x[q] = a[q + 1]
    BY <1>1, <2>1
  <2>3. y \in Seq(S) /\ Len(y) = Len(a) - 1 /\ \A q \in 1..(Len(a) - 1) : y[q] = a[q + 1]
    <3> DEFINE k == Len(a) - 1
    <3>1. k \in Nat /\ Len(a) = k + 1 /\ k + 1 <= Len(a)
      BY <2>1
    <3> HIDE DEF k
    <3> DEFINE z == SubSeq(a, 2, k + 1)
    <3>2. z \in Seq(S) /\ Len(z) = k /\ \A q \in 1..k : z[q] = a[2 + q - 1]
      BY <1>1, <3>1
    <3> HIDE DEF z
    <3>3. z = y
      BY <3>1, Zenon DEF z
    <3>4. k = Len(a) - 1 /\ \A q \in 1..k : z[q] = a[q + 1]
      BY <3>1, <3>2
    <3> HIDE DEF y
    <3> QED BY <3>2, <3>3, <3>4
  <2> HIDE DEF x, y
  <2>4. x = y
    BY <2>2, <2>3
  <2> QED BY <2>4 DEF x, y
<1>5. SubSeq(a, 1, Len(a)) = a
  BY SequenceWhole
<1> QED BY <1>2, <1>3, <1>4, <1>5

\* What is heard of the lines F of a chunk, of which the first is lost if it is the end of
\* one that was too long: f is that line by line.
HeardOf(F, P, lost, f) ==
  /\ f[0] = <<>>
  /\ \A i \in 1..Len(F) : f[i] = IF lost /\ i = 1 THEN f[i - 1] ELSE Answer(f[i - 1], P[i])

\* Of the lines F of a chunk, x is what is heard, behind what s has heard.
HearsChunk(s, F, lost, x) ==
  Hears(s, Framed(IF lost /\ Len(F) # 0 THEN Tail(F) ELSE F)).heard = s.heard \o x

\* The decoder and the parser together hear of the lines of a chunk what they mean, a lost
\* first one left out.
LEMMA ChunkHeard ==
  ASSUME Lim.tagData \in Nat, NEW s, Heeds(s), Sequence(s.heard), NEW F, Texts(F), NEW lost \in BOOLEAN, NEW P,
         NEW f, HeardOf(F, P, lost, f),
         \A i \in 1..Len(F) : ~ (lost /\ i = 1) => P[i] = Meaning(F[i])
  PROVE  HearsChunk(s, F, lost, f[Len(F)])
<1> DEFINE n == Len(F)
           j == IF lost THEN 2 ELSE 1
           G(i) == SubSeq(F, j, i)
           Good(i) == Sequence(f[i]) /\ Hears(s, Framed(G(i))).heard = s.heard \o f[i]
           K == {i \in Nat : i <= n => Good(i)}
<1>1. n \in Nat /\ Sequence(F) /\ \A i \in 1..n : Sequence(F[i])
  BY SequenceIs DEF Texts
<1>2. j \in {1, 2} /\ (lost => j = 2) /\ (~ lost => j = 1) /\ j \in Nat
  OBVIOUS
<1> HIDE DEF j
<1>3. /\ \A i \in Nat : i < j => SubSeq(F, j, i) = <<>>
      /\ \A i \in Nat : i < Len(F) /\ j <= i + 1 => SubSeq(F, j, i + 1) = Append(SubSeq(F, j, i), F[i + 1])
      /\ Len(F) # 0 => Tail(F) = SubSeq(F, 2, Len(F))
      /\ SubSeq(F, 1, Len(F)) = F
  BY <1>1, <1>2, SubGrows
<1>4. 0 \in K
  <2>1. G(0) = <<>>
    BY <1>2, <1>3
  <2>2. Framed(G(0)) = <<>>
    BY <2>1, FramedNone, Zenon
  <2>3. Hears(s, Framed(G(0))) = s
    BY <2>2, HearsNone, Zenon
  <2>4. f[0] = <<>> /\ Sequence(<<>>)
    BY SequenceTuples DEF HeardOf
  <2>5. s.heard \o <<>> = s.heard
    BY CatNothing
  <2>6. Good(0)
    BY <2>3, <2>4, <2>5, Zenon
  <2> QED BY <2>6
<1> HIDE DEF Good
<1>5. ASSUME NEW i \in Nat, i \in K PROVE i + 1 \in K
  <2> SUFFICES ASSUME i + 1 <= n PROVE Good(i + 1)
    OBVIOUS
  <2> DEFINE m == i + 1
  <2>1. m \in 1..n /\ m - 1 = i /\ i < n /\ i <= n /\ m \in Nat
    BY <1>1
  <2>2. Sequence(f[i]) /\ Hears(s, Framed(G(i))).heard = s.heard \o f[i]
    BY <1>5, <2>1 DEF Good
  <2>3. f[m] = IF lost /\ m = 1 THEN f[i] ELSE Answer(f[i], P[m])
    <3> HIDE DEF m
    <3>1. f[m] = IF lost /\ m = 1 THEN f[m - 1] ELSE Answer(f[m - 1], P[m])
      BY <2>1 DEF HeardOf
    <3> QED BY <2>1, <3>1
  <2>4. CASE lost /\ m = 1
    <3>1. i = 0 /\ m < j
      BY <1>2, <2>1, <2>4
    <3>2. G(i) = <<>> /\ G(m) = <<>>
      BY <1>2, <1>3, <2>1, <3>1
    <3>3. f[m] = f[i]
      BY <2>3, <2>4
    <3> HIDE DEF m
    <3>4. Good(m)
      BY <2>2, <3>2, <3>3, Zenon DEF Good
    <3> QED BY <3>4 DEF m
  <2>5. CASE ~ (lost /\ m = 1)
    <3>1. j <= m
      BY <1>2, <2>1, <2>5
    <3>2. G(m) = Append(G(i), F[m])
      BY <1>3, <2>1, <3>1
    <3>3. f[m] = Answer(f[i], P[m]) /\ P[m] = Meaning(F[m]) /\ Sequence(F[m])
      BY <1>1, <2>1, <2>3, <2>5
    <3>4. Texts(G(i))
      <4>1. F \in Seq(ToSet(F)) /\ \A x \in ToSet(F) : Sequence(x)
        BY TextsIn
      <4> DEFINE S == ToSet(F)
      <4> HIDE DEF S
      <4>2. SubSeq(F, j, i) \in Seq(S)
        BY <1>2, <2>1, <4>1 DEF S
      <4> QED BY <4>1, <4>2, TextsIs DEF S
    <3> DEFINE g == G(i)
    <3> HIDE DEF m, g
    <3>5. Hears(s, Framed(Append(g, F[m]))).heard = Answer(Hears(s, Framed(g)).heard, Meaning(F[m]))
      BY <3>3, <3>4, FramedHeard DEF g
    <3>6. s.heard \o Answer(f[i], P[m]) = Answer(s.heard \o f[i], P[m]) /\ Sequence(Answer(f[i], P[m]))
      <4> DEFINE b == f[i]
                 A == P[m]
                 a == s.heard
      <4>1. Sequence(a) /\ Sequence(b)
        BY <2>2
      <4> HIDE DEF a, b, A
      <4>2. a \o Answer(b, A) = Answer(a \o b, A) /\ Sequence(Answer(b, A))
        BY <4>1, AnswerCat
      <4> QED BY <4>2 DEF a, b, A
    <3>7. Hears(s, Framed(G(m))).heard = Answer(s.heard \o f[i], Meaning(F[m]))
      BY <2>2, <3>2, <3>5, Zenon DEF g
    <3>8. Good(m)
      BY <3>3, <3>6, <3>7, Zenon DEF Good
    <3> QED BY <3>8 DEF m
  <2> QED BY <2>4, <2>5
<1>6. \A i \in Nat : i \in K
  <2> HIDE DEF K
  <2> QED BY <1>4, <1>5, Induction
<1>7. Good(n)
  <2> HIDE DEF n
  <2> QED BY <1>1, <1>6
<1>8. (IF lost /\ Len(F) # 0 THEN Tail(F) ELSE F) = G(n)
  <2>1. CASE lost /\ Len(F) # 0
    BY <1>2, <1>3, <2>1
  <2>2. CASE lost /\ Len(F) = 0
    <3>1. F = <<>>
      BY <1>1, <2>2, SequenceIs
    <3>2. G(n) = <<>>
      BY <1>2, <1>3, <2>2
    <3> QED BY <2>2, <3>1, <3>2
  <2>3. CASE ~ lost
    BY <1>2, <1>3, <2>3
  <2> QED BY <2>1, <2>2, <2>3
<1> QED BY <1>7, <1>8, Zenon DEF Good, HearsChunk

\* Where the elements of two sequences put together come from.
LEMMA CatAt ==
  ASSUME NEW a, NEW b, Sequence(a), Sequence(b)
  PROVE  /\ Len(a \o b) = Len(a) + Len(b) /\ Len(a) \in Nat /\ Len(b) \in Nat
         /\ \A i \in 1..Len(a) : (a \o b)[i] = a[i]
         /\ \A i \in 1..Len(b) : (a \o b)[Len(a) + i] = b[i]
<1> DEFINE A == ToSet(a)
           B == ToSet(b)
           S == A \cup B
<1>1. a \in Seq(A) /\ b \in Seq(B)
  BY DEF Sequence
<1> HIDE DEF A, B
<1>2. a \in Seq(S) /\ b \in Seq(S)
  BY <1>1
<1> HIDE DEF S
<1> DEFINE c == a \o b
<1>3. Len(c) = Len(a) + Len(b) /\ Len(a) \in Nat /\ Len(b) \in Nat
  BY <1>2
<1>4. ASSUME NEW i \in 1..Len(a) PROVE c[i] = a[i]
  BY <1>2
<1>5. ASSUME NEW i \in 1..Len(b) PROVE c[Len(a) + i] = b[i]
  <2>1. Len(a) + i \in 1..Len(a) + Len(b) /\ ~ (Len(a) + i <= Len(a)) /\ Len(a) + i - Len(a) = i
    BY <1>3
  <2> QED BY <1>2, <1>3, <2>1
<1> HIDE DEF c
<1> QED BY <1>3, <1>4, <1>5 DEF c

\* How the lines W of all that is under way come of those of a chunk, all, and those, V, of what
\* it leaves and what follows, which has lines S by itself.
Cutting(all, W, V, S) ==
  /\ Texts(all) /\ Len(all) # 0 /\ Texts(W) /\ Texts(V) /\ Len(V) # 0
  /\ Len(W) = Len(all) - 1 + Len(V)
  /\ \A i \in 1..(Len(all) - 1) : W[i] = all[i]
  /\ \A i \in 1..Len(V) : W[Len(all) - 1 + i] = V[i]
  /\ Led(Last(all), V, S) /\ Free(Last(all), "LF") /\ Sequence(Last(all))

\* Cutting a stream in two: the lines of the first part, and those of its rest with what
\* follows, are the lines of the whole.
LEMMA Chunked ==
  ASSUME NEW b, NEW c, NEW r, Sequence(b), Sequence(c), Sequence(r), Free(b, "LF")
  PROVE  /\ Cutting(Lines(b \o c), Lines(b \o (c \o r)), Lines(Last(Lines(b \o c)) \o r), Lines(r))
         /\ Led(b, Lines(b \o (c \o r)), Lines(c \o r))
<1> DEFINE all == Lines(b \o c)
           rest == Last(all)
           W == Lines(b \o (c \o r))
           V == Lines(rest \o r)
           h == Front(all)
<1>1. Sequence(b \o c) /\ Sequence(c \o r) /\ (b \o c) \o r = b \o (c \o r)
  BY SequenceCat, CatCat
<1>2. Texts(all) /\ Len(all) # 0
  BY <1>1, PiecesTexts DEF Lines
<1>3. Free(rest, "LF")
  BY <1>1, LastFree DEF Lines
<1>4. Texts(h) /\ Sequence(rest) /\ Len(h) = Len(all) - 1 /\ \A i \in 1..(Len(all) - 1) : h[i] = all[i]
  <2>1. Sequence(all)
    BY <1>2 DEF Texts
  <2> HIDE DEF all
  <2> QED BY <1>2, <2>1, TextsLess, SequenceFront
<1>5. W = h \o V
  <2> DEFINE a == b \o c
  <2>1. Sequence(a)
    BY <1>1
  <2>2. h = Front(Pieces(a, "LF")) /\ V = Pieces(Last(Pieces(a, "LF")) \o r, "LF")
    BY Zenon DEF Lines
  <2>3. W = Pieces(a \o r, "LF")
    BY <1>1, Zenon DEF Lines
  <2> HIDE DEF a, all, rest, W, V, h
  <2>4. Pieces(a \o r, "LF") = Front(Pieces(a, "LF")) \o Pieces(Last(Pieces(a, "LF")) \o r, "LF")
    BY <2>1, PiecesCat
  <2> QED BY <2>2, <2>3, <2>4, Zenon
<1>6. Texts(V) /\ Len(V) # 0 /\ Texts(W)
  <2>1. Sequence(rest \o r) /\ Sequence(b \o (c \o r))
    BY <1>1, <1>4, SequenceCat
  <2> QED BY <2>1, PiecesTexts DEF Lines
<1>7. Led(rest, V, Lines(r)) /\ Led(b, W, Lines(c \o r))
  BY <1>1, <1>3, <1>4, PiecesLead DEF Lines
<1> HIDE DEF all, rest, W, V, h
<1>8. /\ Len(W) = Len(h) + Len(V) /\ (\A i \in 1..Len(h) : W[i] = h[i])
      /\ \A i \in 1..Len(V) : W[Len(h) + i] = V[i]
  <2>1. Sequence(h) /\ Sequence(V)
    BY <1>4, <1>6 DEF Texts
  <2> DEFINE X == h \o V
  <2>2. /\ Len(X) = Len(h) + Len(V) /\ (\A i \in 1..Len(h) : X[i] = h[i])
        /\ \A i \in 1..Len(V) : X[Len(h) + i] = V[i]
    BY <2>1, CatAt
  <2>3. W = X
    BY <1>5
  <2> HIDE DEF X
  <2> QED BY <2>2, <2>3
<1>9. Cutting(all, W, V, Lines(r))
  BY <1>2, <1>3, <1>4, <1>6, <1>7, <1>8 DEF Cutting, rest
<1> QED BY <1>7, <1>9 DEF all, rest, W, V

\* What is under way: lines W for the entries E, the first of them perhaps the end of one that
\* was too long.
Stands(W, resyncing, E) ==
  /\ Texts(W) /\ Sequence(E) /\ Len(W) = Len(E) + 1 /\ Last(W) = <<>>
  /\ resyncing => Len(E) # 0
  /\ \A i \in 1..Len(E) : IF resyncing /\ i = 1 THEN E[i].long
                          ELSE E[i].meant = Meaning(W[i]) /\ (E[i].long <=> Len(W[i]) > MaxLine)

\* Lines that were read stand for no entry any more.
LEMMA StandsRest ==
  ASSUME NEW W, NEW resyncing \in BOOLEAN, NEW E, Stands(W, resyncing, E),
         NEW k \in Nat, k <= Len(E), NEW V, Texts(V), Len(V) = Len(W) - k, \A i \in 1..Len(V) : W[k + i] = V[i]
  PROVE  Stands(V, resyncing /\ k = 0, SubSeq(E, k + 1, Len(E)))
<1> DEFINE n == Len(E)
           D == SubSeq(E, k + 1, n)
           m == n - k
           S == ToSet(E)
<1>1. /\ Texts(W) /\ Len(W) = n + 1 /\ Last(W) = <<>> /\ (resyncing => n # 0) /\ Sequence(E)
      /\ \A i \in 1..n : IF resyncing /\ i = 1 THEN E[i].long
                         ELSE E[i].meant = Meaning(W[i]) /\ (E[i].long <=> Len(W[i]) > MaxLine)
  BY DEF Stands
<1>2. E \in Seq(S) /\ n \in Nat
  BY <1>1, SequenceIs
<1> HIDE DEF S
<1>3. Sequence(D) /\ Len(D) = m /\ m \in Nat /\ \A i \in 1..m : D[i] = E[k + i]
  <2>1. m \in Nat
    BY <1>2
  <2>2. D \in Seq(S) /\ Len(D) = m /\ \A i \in 1..m : D[i] = E[k + i]
    BY <1>2
  <2> HIDE DEF D, m
  <2> QED BY <2>1, <2>2, SequenceOf
<1> HIDE DEF D
<1>4. Last(V) = <<>>
  <2>1. Len(V) = m + 1 /\ Len(V) \in 1..Len(V) /\ k + Len(V) = Len(W)
    BY <1>1, <1>2, <1>3
  <2>2. W[k + Len(V)] = V[Len(V)]
    BY <2>1
  <2> QED BY <1>1, <2>1, <2>2 DEF Last
<1>5. Len(V) = Len(D) + 1
  BY <1>1, <1>2, <1>3
<1>6. (resyncing /\ k = 0) => Len(D) # 0
  BY <1>1, <1>3
<1>7. ASSUME NEW i \in 1..Len(D)
      PROVE  IF (resyncing /\ k = 0) /\ i = 1 THEN D[i].long
             ELSE D[i].meant = Meaning(V[i]) /\ (D[i].long <=> Len(V[i]) > MaxLine)
  <2> DEFINE j == k + i
  <2>1. j \in 1..n /\ D[i] = E[j] /\ i \in 1..Len(V) /\ (j = 1 <=> k = 0 /\ i = 1)
    BY <1>2, <1>3, <1>5
  <2>2. W[j] = V[i]
    BY <2>1
  <2> HIDE DEF j, m, n
  <2>3. IF resyncing /\ j = 1 THEN E[j].long
        ELSE E[j].meant = Meaning(W[j]) /\ (E[j].long <=> Len(W[j]) > MaxLine)
    BY <1>1, <2>1, Zenon
  <2> QED BY <2>1, <2>2, <2>3
<1>8. Stands(V, resyncing /\ k = 0, D)
  BY <1>3, <1>4, <1>5, <1>6, <1>7 DEF Stands
<1> QED BY <1>8 DEF D

\* A partial line that is too long is thrown away, which the entry it was for allows.
LEMMA StandsOver ==
  ASSUME MaxLine \in Nat, NEW V, NEW resyncing \in BOOLEAN, NEW E, Stands(V, resyncing, E),
         NEW x, Sequence(x), Len(x) > MaxLine, NEW S, Led(x, V, S)
  PROVE  Stands(S, TRUE, E)
<1> DEFINE n == Len(E)
<1>1. /\ Texts(V) /\ Len(V) = n + 1 /\ Last(V) = <<>> /\ Sequence(E)
      /\ \A i \in 1..n : IF resyncing /\ i = 1 THEN E[i].long
                         ELSE E[i].meant = Meaning(V[i]) /\ (E[i].long <=> Len(V[i]) > MaxLine)
  BY DEF Stands
<1>2. Texts(S) /\ Len(V) = Len(S) /\ V[1] = x \o S[1] /\ \A i \in 2..Len(V) : V[i] = S[i]
  BY DEF Led
<1>3. n \in Nat
  BY <1>1, SequenceIs
<1>4. Len(V[1]) > MaxLine
  <2>1. Sequence(S[1])
    BY <1>1, <1>2, <1>3 DEF Texts
  <2>2. Len(x \o S[1]) = Len(x) + Len(S[1]) /\ Len(x) \in Nat /\ Len(S[1]) \in Nat
    BY <2>1, CatAt
  <2> QED BY <1>2, <2>2
<1>5. n # 0
  <2> SUFFICES ASSUME n = 0 PROVE FALSE
    OBVIOUS
  <2>1. V[1] = <<>>
    BY <1>1 DEF Last
  <2>2. Len(<<>>) = 0
    OBVIOUS
  <2> QED BY <1>4, <2>1, <2>2
<1>6. Last(S) = <<>>
  BY <1>1, <1>2, <1>3, <1>5 DEF Last
<1>7. ASSUME NEW i \in 1..n
      PROVE  IF TRUE /\ i = 1 THEN E[i].long ELSE E[i].meant = Meaning(S[i]) /\ (E[i].long <=> Len(S[i]) > MaxLine)
  <2>1. CASE i = 1
    BY <1>1, <1>4, <2>1
  <2>2. CASE i # 1
    <3>1. i \in 2..Len(V)
      BY <1>1, <1>3, <2>2
    <3>2. V[i] = S[i]
      BY <1>2, <3>1
    <3> QED BY <1>1, <2>2, <3>2
  <2> QED BY <2>1, <2>2
<1> QED BY <1>1, <1>2, <1>5, <1>6, <1>7 DEF Stands

\* One more line, at the end.
LEMMA StandsMore ==
  ASSUME NEW W, NEW resyncing \in BOOLEAN, NEW E, Stands(W, resyncing, E), NEW u, Sequence(u), NEW e,
         e.meant = Meaning(u), e.long <=> Len(u) > MaxLine
  PROVE  Stands(Front(W) \o <<u, <<>>>>, resyncing, Append(E, e))
<1> DEFINE n == Len(E)
           h == Front(W)
           p == <<u, <<>>>>
           D == Append(E, e)
           X == h \o p
<1>1. /\ Texts(W) /\ Len(W) = n + 1 /\ Sequence(E) /\ (resyncing => n # 0)
      /\ \A i \in 1..n : IF resyncing /\ i = 1 THEN E[i].long
                         ELSE E[i].meant = Meaning(W[i]) /\ (E[i].long <=> Len(W[i]) > MaxLine)
  BY DEF Stands
<1>2. /\ Sequence(D) /\ Len(D) = n + 1 /\ n \in Nat /\ (\A i \in 1..n : D[i] = E[i]) /\ D[n + 1] = e
  BY <1>1, SequenceAppend
<1>3. Texts(h) /\ Len(h) = n /\ \A i \in 1..n : h[i] = W[i]
  <2>1. Sequence(W) /\ Len(W) # 0 /\ Len(W) - 1 = n
    BY <1>1, <1>2 DEF Texts
  <2> QED BY <1>1, <2>1, TextsLess, SequenceFront
<1>4. Texts(p) /\ Len(p) = 2 /\ p[1] = u /\ p[2] = <<>>
  BY SequenceTuples, TextsTuples
<1> HIDE DEF h, p, D
<1>5. /\ Texts(X) /\ Len(X) = n + 2 /\ (\A i \in 1..n : X[i] = h[i]) /\ X[n + 1] = u /\ X[n + 2] = <<>>
  <2>1. Sequence(h) /\ Sequence(p)
    BY <1>3, <1>4 DEF Texts
  <2>2. /\ Len(X) = Len(h) + Len(p) /\ (\A i \in 1..Len(h) : X[i] = h[i])
        /\ \A i \in 1..Len(p) : X[Len(h) + i] = p[i]
    BY <2>1, CatAt
  <2>3. Texts(X)
    BY <1>3, <1>4, TextsCat
  <2> HIDE DEF X
  <2>4. 1 \in 1..Len(p) /\ 2 \in 1..Len(p)
    BY <1>4
  <2> QED BY <1>2, <1>3, <1>4, <2>2, <2>3, <2>4
<1> HIDE DEF X
<1>6. Last(X) = <<>>
  BY <1>5 DEF Last
<1>7. ASSUME NEW i \in 1..Len(D)
      PROVE  IF resyncing /\ i = 1 THEN D[i].long
             ELSE D[i].meant = Meaning(X[i]) /\ (D[i].long <=> Len(X[i]) > MaxLine)
  <2>1. CASE i \in 1..n
    <3>1. D[i] = E[i] /\ X[i] = W[i]
      BY <1>2, <1>3, <1>5, <2>1
    <3>2. IF resyncing /\ i = 1 THEN E[i].long
          ELSE E[i].meant = Meaning(W[i]) /\ (E[i].long <=> Len(W[i]) > MaxLine)
      BY <1>1, <2>1
    <3> QED BY <3>1, <3>2
  <2>2. CASE i = n + 1
    <3>1. D[i] = e /\ X[i] = u /\ ~ (resyncing /\ i = 1)
      BY <1>1, <1>2, <1>5, <2>2
    <3> QED BY <3>1
  <2> QED BY <1>2, <2>1, <2>2
<1>8. Stands(X, resyncing, D)
  <2>1. Len(X) = Len(D) + 1 /\ (resyncing => Len(D) # 0)
    BY <1>2, <1>5
  <2> QED BY <1>2, <1>5, <1>6, <1>7, <2>1 DEF Stands
<1> QED BY <1>8 DEF X, h, p, D

\* A sequence cut in two, and put together again.
LEMMA SequenceCut ==
  ASSUME NEW q, Sequence(q), NEW n \in Nat, n <= Len(q)
  PROVE  LET c == SubSeq(q, 1, n)
             r == SubSeq(q, n + 1, Len(q))
         IN  Sequence(c) /\ Sequence(r) /\ q = c \o r
<1> DEFINE c == SubSeq(q, 1, n)
           r == SubSeq(q, n + 1, Len(q))
           m == Len(q) - n
           S == ToSet(q)
           X == c \o r
<1>1. q \in Seq(S) /\ Len(q) \in Nat /\ m \in Nat
  BY SequenceIs DEF Sequence
<1> HIDE DEF S
<1>2. c \in Seq(S) /\ Len(c) = n /\ \A i \in 1..n : c[i] = q[i]
  BY <1>1
<1>3. r \in Seq(S) /\ Len(r) = m /\ \A i \in 1..m : r[i] = q[n + i]
  BY <1>1
<1> HIDE DEF c, r
<1>4. Sequence(c) /\ Sequence(r)
  BY <1>2, <1>3, SequenceOf
<1>5. Sequence(X) /\ Len(X) = Len(q)
  <2>1. Sequence(X)
    BY <1>4, SequenceCat
  <2>2. Len(X) = Len(c) + Len(r)
    BY <1>4, CatAt
  <2> HIDE DEF X
  <2> QED BY <1>1, <1>2, <1>3, <2>1, <2>2
<1>6. ASSUME NEW i \in 1..Len(q) PROVE q[i] = X[i]
  <2>1. /\ (\A j \in 1..Len(c) : X[j] = c[j]) /\ \A j \in 1..Len(r) : X[Len(c) + j] = r[j]
    BY <1>4, CatAt
  <2> HIDE DEF X
  <2>2. CASE i <= n
    BY <1>2, <2>1, <2>2
  <2>3. CASE i > n
    <3> DEFINE j == i - n
    <3>1. j \in 1..m /\ n + j = i
      BY <1>1, <2>3
    <3> HIDE DEF j, m
    <3> QED BY <1>2, <1>3, <2>1, <3>1
  <2> QED BY <1>1, <2>2, <2>3
<1>7. q = X
  <2> HIDE DEF X
  <2> QED BY <1>5, <1>6, SequenceSame
<1> QED BY <1>4, <1>7 DEF c, r

\* What is left of the end of a sequence after some more of it are taken.
LEMMA SubOfEnd ==
  ASSUME NEW e, Sequence(e), NEW n \in Nat, n <= Len(e), NEW k \in Nat, k <= n
  PROVE  LET E == SubSeq(e, Len(e) - n + 1, Len(e))
         IN  /\ Sequence(E) /\ Len(E) = n
             /\ SubSeq(e, Len(e) - (n - k) + 1, Len(e)) = SubSeq(E, k + 1, Len(E))
<1> DEFINE E == SubSeq(e, Len(e) - n + 1, Len(e))
           D == SubSeq(e, Len(e) - (n - k) + 1, Len(e))
           C == SubSeq(E, k + 1, Len(E))
           S == ToSet(e)
           N == Len(e)
<1>1. e \in Seq(S) /\ N \in Nat
  BY SequenceIs DEF Sequence
<1> HIDE DEF S
<1>2. E \in Seq(S) /\ Len(E) = n /\ \A i \in 1..n : E[i] = e[N - n + i]
  <2> DEFINE a == N - n + 1
  <2>1. a \in Nat /\ a >= 1 /\ N + 1 - a = n /\ \A i \in 1..n : a + i - 1 = N - n + i
    BY <1>1
  <2> HIDE DEF a
  <2>2. SubSeq(e, a, N) \in Seq(S) /\ Len(SubSeq(e, a, N)) = N + 1 - a /\ \A i \in 1..(N + 1 - a) : SubSeq(e, a, N)[i] = e[a + i - 1]
    BY <1>1, <2>1
  <2> QED BY <2>1, <2>2 DEF a
<1>3. D \in Seq(S) /\ Len(D) = n - k /\ \A i \in 1..(n - k) : D[i] = e[N - n + k + i]
  <2> DEFINE a == N - (n - k) + 1
  <2>1. a \in Nat /\ a >= 1 /\ N + 1 - a = n - k /\ \A i \in 1..(n - k) : a + i - 1 = N - n + k + i
    BY <1>1
  <2> HIDE DEF a
  <2>2. SubSeq(e, a, N) \in Seq(S) /\ Len(SubSeq(e, a, N)) = N + 1 - a /\ \A i \in 1..(N + 1 - a) : SubSeq(e, a, N)[i] = e[a + i - 1]
    BY <1>1, <2>1
  <2> QED BY <2>1, <2>2 DEF a
<1> HIDE DEF E, D
<1>4. C \in Seq(S) /\ Len(C) = n - k /\ \A i \in 1..(n - k) : C[i] = E[k + i]
  BY <1>1, <1>2
<1> HIDE DEF C, N
<1>5. ASSUME NEW i \in 1..(n - k) PROVE D[i] = C[i]
  <2>1. k + i \in 1..n /\ N - n + (k + i) = N - n + k + i
    BY <1>1
  <2> QED BY <1>2, <1>3, <1>4, <2>1
<1>6. D = C
  BY <1>3, <1>4, <1>5
<1>7. Sequence(E)
  BY <1>2, SequenceOf
<1> QED BY <1>2, <1>6, <1>7 DEF D, C, E, N

\* The entries for the last lines of e, as many as q has newlines.
Left(q, e) == SubSeq(e, Len(e) - Cardinality(Marks(q, "LF")) + 1, Len(e))

\* What is under way between the server, which has sent e, and the client: the bytes q.
Underway(q, d, e) ==
  /\ Sequence(q) /\ Sequence(d.buffer) /\ Free(d.buffer, "LF") /\ d.resyncing \in BOOLEAN
  /\ Sequence(e) /\ Cardinality(Marks(q, "LF")) <= Len(e)
  /\ Stands(Lines(d.buffer \o q), d.resyncing, Left(q, e))

\* The chunk cuts off lines F, for the first k entries; what stays under way is the others.
CutsOff(q, d, e, r, D, F, k) ==
  /\ Texts(F) /\ Len(F) = k /\ k \in Nat /\ k <= Len(Left(q, e))
  /\ Left(r, e) = SubSeq(Left(q, e), k + 1, Len(Left(q, e)))
  /\ D.lines = Framed(IF d.resyncing /\ Len(F) # 0 THEN Tail(F) ELSE F)
  /\ \A i \in 1..k : ~ (d.resyncing /\ i = 1) => Left(q, e)[i].meant = Meaning(F[i])
  /\ d.resyncing /\ k # 0 => Left(q, e)[1].long

\* D is what a chunk leaves that completes the lines F, k of them, and begins another, rest.
Decoded(D, d, F, k, rest) ==
  /\ D.lines = Framed(IF d.resyncing /\ Len(F) # 0 THEN Tail(F) ELSE F)
  /\ Len(rest) > MaxLine => D.buffer = <<>> /\ D.resyncing = TRUE
  /\ ~ (Len(rest) > MaxLine) => D.buffer = rest /\ D.resyncing = (d.resyncing /\ k = 0)

\* What decodeLines leaves of a chunk, and the lines it hands on.
LEMMA DecodesIs ==
  ASSUME NEW d, d.resyncing \in BOOLEAN, NEW c, NEW all, all = Lines(d.buffer \o c),
         NEW F, F = Front(all), NEW k \in Nat, Len(all) = k + 1, Len(F) = k
  PROVE  Decoded(Decodes(d, c), d, F, k, Last(all))
<1> DEFINE rest == Last(all)
           over == Len(rest) > MaxLine
           aligned == ~ d.resyncing \/ Len(all) > 1
           G == Framed(IF d.resyncing /\ Len(all) > 1 THEN Tail(F) ELSE F)
           D == Decodes(d, c)
<1>1. D = [buffer |-> IF over THEN <<>> ELSE rest, resyncing |-> over \/ ~ aligned, lines |-> G]
  BY Zenon DEF Decodes
<1>2. (d.resyncing /\ Len(all) > 1) <=> (d.resyncing /\ Len(F) # 0)
  OBVIOUS
<1>3. ~ aligned <=> (d.resyncing /\ k = 0)
  OBVIOUS
<1>4. D.lines = G
  <2> HIDE DEF G, rest, over, aligned, D
  <2> QED BY <1>1
<1>5. D.buffer = IF over THEN <<>> ELSE rest
  <2> HIDE DEF G, rest, over, aligned, D
  <2> QED BY <1>1
<1>6. D.resyncing = (over \/ ~ aligned)
  <2> HIDE DEF G, rest, over, aligned, D
  <2> QED BY <1>1
<1>7. G = Framed(IF d.resyncing /\ Len(F) # 0 THEN Tail(F) ELSE F)
  <2>1. CASE d.resyncing /\ Len(all) > 1
    <3>1. d.resyncing /\ Len(F) # 0
      BY <1>2, <2>1
    <3> QED BY <2>1, <3>1, Zenon
  <2>2. CASE ~ (d.resyncing /\ Len(all) > 1)
    <3>1. ~ (d.resyncing /\ Len(F) # 0)
      BY <1>2, <2>2
    <3> QED BY <2>2, <3>1, Zenon
  <2> QED BY <2>1, <2>2
<1> HIDE DEF D, G, rest, over, aligned
<1>8. over \in BOOLEAN /\ aligned \in BOOLEAN
  BY DEF over, aligned
<1>9. (over => D.buffer = <<>> /\ D.resyncing = TRUE) /\ (~ over => D.buffer = rest /\ D.resyncing = (d.resyncing /\ k = 0))
  BY <1>3, <1>5, <1>6, <1>8
<1> QED BY <1>4, <1>7, <1>9, Zenon DEF Decoded, D, rest, over

\* A chunk that is delivered takes the first entries from what is under way, a line each.
LEMMA ChunkUnderway ==
  ASSUME MaxLine \in Nat, NEW q, NEW d, NEW e, Underway(q, d, e), NEW n \in 1..Len(q)
  PROVE  LET c == SubSeq(q, 1, n)
             r == SubSeq(q, n + 1, Len(q))
             D == Decodes(d, c)
             F == Front(Lines(d.buffer \o c))
         IN  /\ Underway(r, [buffer |-> D.buffer, resyncing |-> D.resyncing], e)
             /\ CutsOff(q, d, e, r, D, F, Len(F))
<1> DEFINE c == SubSeq(q, 1, n)
           r == SubSeq(q, n + 1, Len(q))
           b == d.buffer
           y == d.resyncing
           D == Decodes(d, c)
           all == Lines(b \o c)
           F == Front(all)
           k == Len(F)
           rest == Last(all)
           W == Lines(b \o q)
           V == Lines(rest \o r)
           E == Left(q, e)
           N == Cardinality(Marks(q, "LF"))
           M == Cardinality(Marks(r, "LF"))
           over == Len(rest) > MaxLine
<1>1. /\ Sequence(q) /\ Sequence(b) /\ Free(b, "LF") /\ y \in BOOLEAN /\ Sequence(e) /\ N <= Len(e)
      /\ Stands(W, y, E)
  BY DEF Underway
<1>2. n \in Nat /\ n <= Len(q) /\ Len(q) \in Nat /\ Len(e) \in Nat
  BY <1>1, SequenceIs
<1>3. Sequence(c) /\ Sequence(r) /\ q = c \o r
  BY <1>1, <1>2, SequenceCut
<1>4. Cutting(all, W, V, Lines(r)) /\ Led(b, W, Lines(q))
  <2> HIDE DEF c, r, b
  <2>1. Cutting(Lines(b \o c), Lines(b \o (c \o r)), Lines(Last(Lines(b \o c)) \o r), Lines(r))
    BY <1>1, <1>3, Chunked
  <2>2. Led(b, Lines(b \o (c \o r)), Lines(c \o r))
    BY <1>1, <1>3, Chunked
  <2>3. W = Lines(b \o (c \o r)) /\ Lines(q) = Lines(c \o r)
    BY <1>3, Zenon
  <2> HIDE DEF W
  <2> QED BY <2>1, <2>2, <2>3, Zenon
<1> HIDE DEF c, r, b, y, W, V, E, N, M
<1>5. /\ Texts(all) /\ Len(all) # 0 /\ Texts(W) /\ Texts(V) /\ Len(V) # 0
      /\ Len(W) = Len(all) - 1 + Len(V)
      /\ \A i \in 1..(Len(all) - 1) : W[i] = all[i]
      /\ \A i \in 1..Len(V) : W[Len(all) - 1 + i] = V[i]
      /\ Led(rest, V, Lines(r)) /\ Free(rest, "LF") /\ Sequence(rest)
  <2> HIDE DEF all
  <2> QED BY <1>4, Zenon DEF Cutting
<1>6. Texts(F) /\ k = Len(all) - 1 /\ k \in Nat /\ Len(V) \in Nat /\ Len(all) = k + 1 /\ \A i \in 1..k : F[i] = all[i]
  <2> HIDE DEF all
  <2>1. Sequence(all) /\ Len(all) \in Nat /\ Sequence(V) /\ Len(V) \in Nat
    BY <1>5, SequenceIs DEF Texts
  <2>2. Texts(F) /\ Len(F) = Len(all) - 1 /\ \A i \in 1..(Len(all) - 1) : F[i] = all[i]
    BY <1>5, <2>1, TextsLess, SequenceFront
  <2> HIDE DEF F
  <2> QED BY <1>5, <2>1, <2>2
<1>7. /\ Sequence(E) /\ Len(E) \in Nat /\ Len(W) = Len(E) + 1 /\ (y => Len(E) # 0)
      /\ \A i \in 1..Len(E) : IF y /\ i = 1 THEN E[i].long
                              ELSE E[i].meant = Meaning(W[i]) /\ (E[i].long <=> Len(W[i]) > MaxLine)
  BY <1>1, SequenceIs DEF Stands
<1> HIDE DEF F, k, rest
<1>8. k <= Len(E) /\ Len(V) = Len(W) - k
  BY <1>5, <1>6, <1>7
\* The newlines that are left, and the entries for them.
<1>9. N \in Nat /\ M \in Nat /\ k <= N /\ M = N - k /\ M <= Len(e)
  <2>1. Len(Lines(q)) = N + 1 /\ Len(Lines(r)) = M + 1
    BY <1>1, <1>3, PiecesCount DEF Lines, N, M
  <2>2. IsFiniteSet(Marks(q, "LF")) /\ IsFiniteSet(Marks(r, "LF"))
    BY <1>1, <1>3, PiecesCount
  <2>3. N \in Nat /\ M \in Nat
    BY <2>2, FS_CardinalityType DEF N, M
  <2>4. Len(W) = N + 1
    BY <1>4, <2>1 DEF Led
  <2>5. Len(V) = M + 1
    BY <1>5, <2>1 DEF Led
  <2> QED BY <1>1, <1>2, <1>6, <1>7, <1>8, <2>3, <2>4, <2>5
<1>10. Left(r, e) = SubSeq(E, k + 1, Len(E))
  <2>1. SubSeq(e, Len(e) - (N - k) + 1, Len(e)) = SubSeq(E, k + 1, Len(E))
    <3> HIDE DEF N, k
    <3>1. E = SubSeq(e, Len(e) - N + 1, Len(e))
      BY Zenon DEF E, Left, N
    <3> HIDE DEF E
    <3> QED BY <1>1, <1>6, <1>9, <3>1, SubOfEnd
  <2>2. Left(r, e) = SubSeq(e, Len(e) - M + 1, Len(e))
    BY Zenon DEF Left, M
  <2> QED BY <1>9, <2>1, <2>2
<1> DEFINE A == SubSeq(E, k + 1, Len(E))
<1>11. Stands(V, y /\ k = 0, A)
  <2>1. Texts(V) /\ \A i \in 1..Len(V) : W[k + i] = V[i]
    BY <1>5, <1>6
  <2> HIDE DEF k
  <2> QED BY <1>1, <1>6, <1>8, <2>1, StandsRest
<1>12. /\ D.lines = Framed(IF y /\ Len(F) # 0 THEN Tail(F) ELSE F)
       /\ over => D.buffer = <<>> /\ D.resyncing = TRUE
       /\ ~ over => D.buffer = rest /\ D.resyncing = (y /\ k = 0)
  <2>1. d.resyncing \in BOOLEAN /\ F = Front(all) /\ Len(all) = k + 1 /\ Len(F) = k /\ all = Lines(d.buffer \o c)
    <3>1. d.resyncing \in BOOLEAN
      BY <1>1 DEF y
    <3>2. F = Front(all)
      BY Zenon DEF F
    <3>3. Len(F) = k
      BY Zenon DEF k
    <3>4. all = Lines(d.buffer \o c)
      BY Zenon DEF b
    <3> QED BY <1>6, <3>1, <3>2, <3>3, <3>4, Zenon
  <2> HIDE DEF all
  <2>2. /\ D.lines = Framed(IF d.resyncing /\ Len(F) # 0 THEN Tail(F) ELSE F)
        /\ Len(Last(all)) > MaxLine => D.buffer = <<>> /\ D.resyncing = TRUE
        /\ ~ (Len(Last(all)) > MaxLine) => D.buffer = Last(all) /\ D.resyncing = (d.resyncing /\ k = 0)
    <3>1. k \in Nat
      BY <1>6
    <3> HIDE DEF k
    <3>2. Decoded(Decodes(d, c), d, F, k, Last(all))
      BY <2>1, <3>1, DecodesIs
    <3> QED BY <3>2, Zenon DEF Decoded
  <2> QED BY <2>2, Zenon DEF rest, y, over
<1> DEFINE d1 == [buffer |-> D.buffer, resyncing |-> D.resyncing]
<1>13. Underway(r, d1, e)
  <2> HIDE DEF A, D, over, all
  <2>1. d1.buffer = D.buffer /\ d1.resyncing = D.resyncing
    OBVIOUS
  <2> HIDE DEF d1
  <2>2. CASE over
    <3>1. Stands(Lines(r), TRUE, A)
      <4>1. (y /\ k = 0) \in BOOLEAN
        OBVIOUS
      <4>2. Len(rest) > MaxLine
        BY <2>2 DEF over
      <4> QED BY <1>5, <1>11, <4>1, <4>2, StandsOver
    <3>2. <<>> \o r = r
      BY <1>3, CatNothing
    <3> DEFINE o == <<>>
    <3>3. Sequence(o) /\ Free(o, "LF")
      <4>1. Len(o) = 0
        OBVIOUS
      <4>2. Sequence(o)
        BY SequenceTuples
      <4> HIDE DEF o
      <4> QED BY <4>1, <4>2 DEF Free
    <3>4. d1.buffer = o /\ d1.resyncing = TRUE
      BY <1>12, <2>1, <2>2
    <3>5. o \o r = r
      BY <3>2
    <3> HIDE DEF o
    <3>6. Stands(Lines(d1.buffer \o r), d1.resyncing, Left(r, e))
      BY <1>10, <3>1, <3>4, <3>5, Zenon DEF A
    <3>7. Sequence(d1.buffer) /\ Free(d1.buffer, "LF") /\ d1.resyncing \in BOOLEAN
      BY <3>3, <3>4, Zenon
    <3>8. M = Cardinality(Marks(r, "LF"))
      BY Zenon DEF M
    <3> QED BY <1>1, <1>3, <1>9, <3>6, <3>7, <3>8, Zenon DEF Underway
  <2>3. CASE ~ over
    <3>1. d1.buffer = rest /\ d1.resyncing = (y /\ k = 0)
      BY <1>12, <2>1, <2>3, Zenon
    <3>2. Stands(Lines(d1.buffer \o r), d1.resyncing, Left(r, e))
      BY <1>10, <1>11, <3>1, Zenon DEF A, V
    <3>3. d1.resyncing \in BOOLEAN
      BY <3>1
    <3>4. Sequence(d1.buffer) /\ Free(d1.buffer, "LF")
      BY <1>5, <3>1, Zenon
    <3>5. M = Cardinality(Marks(r, "LF"))
      BY Zenon DEF M
    <3> QED BY <1>1, <1>3, <1>9, <3>2, <3>3, <3>4, <3>5, Zenon DEF Underway
  <2> QED BY <2>2, <2>3
<1>14. CutsOff(q, d, e, r, D, F, k)
  <2> HIDE DEF D
  <2>1. ASSUME NEW i \in 1..k, ~ (y /\ i = 1) PROVE E[i].meant = Meaning(F[i])
    <3>1. i \in 1..Len(E)
      BY <1>6, <1>7, <1>8
    <3>2. E[i].meant = Meaning(W[i])
      BY <1>7, <2>1, <3>1
    <3>3. W[i] = F[i]
      BY <1>5, <1>6
    <3> QED BY <3>2, <3>3
  <2>2. ASSUME y, k # 0 PROVE E[1].long
    <3>1. 1 \in 1..Len(E)
      BY <1>6, <1>7, <1>8, <2>2
    <3> QED BY <1>7, <2>2, <3>1
  <2>3. Len(F) = k
    BY DEF k
  <2>4. D.lines = Framed(IF d.resyncing /\ Len(F) # 0 THEN Tail(F) ELSE F)
    BY <1>12, Zenon DEF y
  <2>5. /\ k <= Len(Left(q, e)) /\ Left(r, e) = SubSeq(Left(q, e), k + 1, Len(Left(q, e)))
        /\ \A i \in 1..k : ~ (d.resyncing /\ i = 1) => Left(q, e)[i].meant = Meaning(F[i])
        /\ d.resyncing /\ k # 0 => Left(q, e)[1].long
    BY <1>8, <1>10, <2>1, <2>2, Zenon DEF E, y
  <2> QED BY <1>6, <2>3, <2>4, <2>5, Zenon DEF CutsOff
<1>15. F = Front(Lines(d.buffer \o c)) /\ k = Len(F)
  BY Zenon DEF F, b, k
<1>16. CutsOff(q, d, e, r, D, F, Len(F))
  BY <1>14, <1>15, Zenon
<1> HIDE DEF all, D, d1
<1>17. CutsOff(q, d, e, r, D, Front(Lines(d.buffer \o c)), Len(Front(Lines(d.buffer \o c))))
  BY <1>15, <1>16, Zenon
<1> QED BY <1>13, <1>17, Zenon DEF c, r, D, d1

\* What the contract has heard of the entries E, all but those of L, up to the kth.
PassedTo(E, L, k, f) ==
  f = [i \in 0..k |->
        IF i = 0 THEN <<>>
        ELSE IF Contract!Passed(E[i], i \in L) = {} THEN f[i - 1]
        ELSE Append(f[i - 1], CHOOSE m \in E[i].meant : TRUE)]

\* The contract's recursive function has values for every number of entries.
LEMMA PassedAll == \A E, L : \A k \in Nat : \E f : PassedTo(E, L, k, f)
<1> SUFFICES ASSUME NEW E, NEW L PROVE \A k \in Nat : \E f : PassedTo(E, L, k, f)
  OBVIOUS
<1> DEFINE K == {k \in Nat : \E f : PassedTo(E, L, k, f)}
           Next1(x, i) == IF Contract!Passed(E[i], i \in L) = {} THEN x ELSE Append(x, CHOOSE m \in E[i].meant : TRUE)
           Up(k, f) == f = [i \in 0..k |-> IF i = 0 THEN <<>> ELSE Next1(f[i - 1], i)]
<1>0. \A k, f : PassedTo(E, L, k, f) <=> Up(k, f)
  BY Zenon DEF PassedTo
<1> HIDE DEF Next1
<1>1. 0 \in K
  <2> DEFINE f == [i \in 0..0 |-> <<>>]
  <2>1. f = [i \in 0..0 |-> IF i = 0 THEN <<>> ELSE Next1(f[i - 1], i)]
    OBVIOUS
  <2> HIDE DEF f
  <2>2. PassedTo(E, L, 0, f)
    BY <1>0, <2>1
  <2> QED BY <2>2
<1>2. ASSUME NEW k \in Nat, k \in K PROVE k + 1 \in K
  <2>1. PICK f : PassedTo(E, L, k, f)
    BY <1>2
  <2> DEFINE m == k + 1
             g == [i \in 0..m |-> IF i = 0 THEN <<>> ELSE Next1(f[i - 1], i)]
  <2>2. f = [i \in 0..k |-> IF i = 0 THEN <<>> ELSE Next1(f[i - 1], i)]
    BY <1>0, <2>1
  <2>3. \A i \in 0..k : f[i] = g[i]
    <3>1. \A i \in 0..k : i \in 0..m
      OBVIOUS
    <3>2. \A i \in 0..k : f[i] = IF i = 0 THEN <<>> ELSE Next1(f[i - 1], i)
      BY <2>2
    <3> HIDE DEF m
    <3> QED BY <3>1, <3>2, Zenon
  <2>4. \A i \in 0..m : i # 0 => i - 1 \in 0..k
    OBVIOUS
  <2> HIDE DEF m
  <2>5. g = [i \in 0..m |-> IF i = 0 THEN <<>> ELSE Next1(g[i - 1], i)]
    <3> DEFINE h == g
    <3>1. \A i \in 0..m : i # 0 => f[i - 1] = h[i - 1]
      <4> HIDE DEF g
      <4> QED BY <2>3, <2>4
    <3>2. g = [i \in 0..m |-> IF i = 0 THEN <<>> ELSE Next1(h[i - 1], i)]
      <4> HIDE DEF h
      <4> QED BY <3>1
    <3> QED BY <3>2
  <2> HIDE DEF g
  <2>6. PassedTo(E, L, m, g)
    BY <1>0, <2>5
  <2>7. m \in Nat
    BY DEF m
  <2> QED BY <2>6, <2>7 DEF m
<1>3. \A k \in Nat : k \in K
  <2> HIDE DEF K
  <2> QED BY <1>1, <1>2, Induction
<1> QED BY <1>3

\* What the contract passes on of the entries is what the client hears of their lines.
LEMMA PassedHeard ==
  ASSUME NEW F, NEW k \in Nat, Len(F) = k, NEW E, NEW lost \in BOOLEAN, NEW L, L = {i \in 1..k : lost /\ i = 1},
         NEW f, PassedTo(E, L, k, f)
  PROVE  HeardOf(F, [i \in 1..k |-> E[i].meant], lost, f)
<1> DEFINE P == [i \in 1..k |-> E[i].meant]
<1>1. f = [i \in 0..k |-> IF i = 0 THEN <<>> ELSE IF Contract!Passed(E[i], i \in L) = {} THEN f[i - 1]
                          ELSE Append(f[i - 1], CHOOSE m \in E[i].meant : TRUE)]
  BY DEF PassedTo
<1>2. 0 \in 0..k /\ \A i \in 1..k : i \in 0..k /\ i # 0
  OBVIOUS
<1>3. f[0] = <<>>
  BY <1>1, <1>2, Zenon
<1>4. \A i \in 1..k : f[i] = IF Contract!Passed(E[i], i \in L) = {} THEN f[i - 1] ELSE Append(f[i - 1], CHOOSE m \in E[i].meant : TRUE)
  BY <1>1, <1>2, Zenon
<1>5. ASSUME NEW i \in 1..Len(F)
      PROVE  f[i] = IF lost /\ i = 1 THEN f[i - 1] ELSE Answer(f[i - 1], P[i])
  <2> DEFINE M == E[i].meant
             x == f[i - 1]
             z == CHOOSE m \in M : TRUE
             A == Answer(x, M)
  <2>1. i \in 1..k /\ (i \in L <=> lost /\ i = 1)
    OBVIOUS
  <2>2. Contract!Passed(E[i], i \in L) = IF i \in L THEN {} ELSE M
    BY Zenon DEF Contract!Passed
  <2>3. f[i] = IF Contract!Passed(E[i], i \in L) = {} THEN x ELSE Append(x, z)
    BY <1>4, <2>1, Zenon
  <2>4. P[i] = M
    BY <2>1
  <2>5. A = IF M = {} THEN x ELSE Append(x, z)
    BY Zenon DEF Answer
  <2> HIDE DEF M, x, z, A, P
  <2>6. CASE lost /\ i = 1
    <3>1. Contract!Passed(E[i], i \in L) = {}
      BY <2>1, <2>2, <2>6
    <3> QED BY <2>3, <2>6, <3>1 DEF x
  <2>7. CASE ~ (lost /\ i = 1)
    <3>1. Contract!Passed(E[i], i \in L) = M
      BY <2>1, <2>2, <2>7
    <3>2. f[i] = A
      BY <2>3, <2>5, <3>1, Zenon
    <3>3. Answer(x, P[i]) = A
      BY <2>4, Zenon DEF A
    <3> QED BY <2>7, <3>2, <3>3 DEF x
  <2> QED BY <2>6, <2>7
<1> HIDE DEF P
<1>6. HeardOf(F, P, lost, f)
  BY <1>3, <1>5, Zenon DEF HeardOf
<1> QED BY <1>6 DEF P

\* Receive of the contract, with what is under way and what is heard, now and then.
Received(E, h, k, L, h1, E1) ==
  LET Kept1[i \in 0..k] ==
        IF i = 0 THEN <<>>
        ELSE IF Contract!Passed(E[i], i \in L) = {} THEN Kept1[i - 1]
        ELSE Append(Kept1[i - 1], CHOOSE m \in E[i].meant : TRUE)
  IN  h1 = h \o Kept1[k] /\ E1 = SubSeq(E, k + 1, Len(E))

\* A chunk is a step of the contract: it hears of the entries of its lines what was meant,
\* and loses none but a long one.
LEMMA ReceivedIs ==
  ASSUME Lim.tagData \in Nat, NEW q, NEW d, NEW e, NEW r, NEW D, NEW F, NEW k, CutsOff(q, d, e, r, D, F, k),
         d.resyncing \in BOOLEAN, NEW s, Heeds(s), Sequence(s.heard)
  PROVE  LET L == {i \in 1..k : d.resyncing /\ i = 1}
             h1 == Hears(s, D.lines).heard
         IN  /\ Received(Left(q, e), s.heard, k, L, h1, Left(r, e))
             /\ L \in SUBSET {i \in 1..k : Left(q, e)[i].long}
             /\ k = 0 => h1 = s.heard /\ Sequence(h1)
             /\ Sequence(h1)
<1> DEFINE L == {i \in 1..k : d.resyncing /\ i = 1}
           h1 == Hears(s, D.lines).heard
           E == Left(q, e)
           y == d.resyncing
           P == [i \in 1..k |-> E[i].meant]
<1>1. /\ Texts(F) /\ Len(F) = k /\ k \in Nat /\ k <= Len(E) /\ Left(r, e) = SubSeq(E, k + 1, Len(E))
      /\ D.lines = Framed(IF y /\ Len(F) # 0 THEN Tail(F) ELSE F)
      /\ \A i \in 1..k : ~ (y /\ i = 1) => E[i].meant = Meaning(F[i])
      /\ y /\ k # 0 => E[1].long
  BY Zenon DEF CutsOff
<1> HIDE DEF E
<1> DEFINE g == CHOOSE f : PassedTo(E, L, k, f)
<1>2. PassedTo(E, L, k, g)
  <2>1. \E f : PassedTo(E, L, k, f)
    <3> HIDE DEF L
    <3> QED BY <1>1, PassedAll
  <2> HIDE DEF L
  <2> QED BY <2>1, Zenon
<1>3. Received(E, s.heard, k, L, h1, Left(r, e)) <=> h1 = s.heard \o g[k] /\ Left(r, e) = SubSeq(E, k + 1, Len(E))
  <2> HIDE DEF L, h1
  <2> QED BY Zenon DEF Received, PassedTo
<1> HIDE DEF g
<1>4. HeardOf(F, P, y, g)
  <2>1. y \in BOOLEAN /\ L = {i \in 1..k : y /\ i = 1}
    OBVIOUS
  <2> HIDE DEF y, L
  <2> QED BY <1>1, <1>2, <2>1, PassedHeard
<1>5. \A i \in 1..Len(F) : ~ (y /\ i = 1) => P[i] = Meaning(F[i])
  BY <1>1
<1>6. h1 = s.heard \o g[k]
  <2>1. y \in BOOLEAN
    OBVIOUS
  <2> DEFINE G == Framed(IF y /\ Len(F) # 0 THEN Tail(F) ELSE F)
  <2>2. Hears(s, G).heard = s.heard \o g[Len(F)]
    <3>1. Texts(F)
      BY <1>1
    <3> HIDE DEF P, y
    <3>2. HearsChunk(s, F, y, g[Len(F)])
      BY <1>4, <1>5, <2>1, <3>1, ChunkHeard
    <3> QED BY <3>2, Zenon DEF HearsChunk
  <2> HIDE DEF G
  <2>3. D.lines = G
    BY <1>1, Zenon DEF G
  <2> QED BY <1>1, <2>2, <2>3, Zenon
<1>7. Sequence(g[k])
  <2> DEFINE K == {i \in Nat : i <= k => Sequence(g[i])}
  <2>1. g[0] = <<>> /\ \A i \in 1..k : g[i] = IF y /\ i = 1 THEN g[i - 1] ELSE Answer(g[i - 1], P[i])
    BY <1>1, <1>4, Zenon DEF HeardOf
  <2>2. 0 \in K
    BY <2>1, SequenceTuples
  <2> HIDE DEF P
  <2>3. ASSUME NEW i \in Nat, i \in K PROVE i + 1 \in K
    <3> SUFFICES ASSUME i + 1 <= k PROVE Sequence(g[i + 1])
      OBVIOUS
    <3> DEFINE j == i + 1
    <3>1. j \in 1..k /\ j - 1 = i /\ Sequence(g[i])
      BY <1>1, <2>3
    <3> HIDE DEF j
    <3>2. g[j] = IF y /\ j = 1 THEN g[j - 1] ELSE Answer(g[j - 1], P[j])
      BY <2>1, <3>1
    <3>3. Sequence(Answer(g[i], P[j]))
      <4> DEFINE b == g[i]
                 o == <<>>
      <4>1. Sequence(o) /\ Sequence(b)
        BY <3>1, SequenceTuples
      <4> HIDE DEF b, o
      <4> QED BY <4>1, AnswerCat DEF b
    <3>4. Sequence(g[j])
      BY <3>1, <3>2, <3>3, Zenon
    <3> QED BY <3>4 DEF j
  <2>4. \A i \in Nat : i \in K
    <3> HIDE DEF K
    <3> QED BY <2>2, <2>3, Induction
  <2> QED BY <1>1, <2>4
<1>8. Sequence(h1)
  <2> DEFINE a == s.heard
             b == g[k]
  <2>1. Sequence(a) /\ Sequence(b)
    BY <1>7
  <2> HIDE DEF a, b, h1
  <2>2. Sequence(a \o b)
    BY <2>1, SequenceCat
  <2> QED BY <1>6, <2>2, Zenon DEF a, b
<1>9. k = 0 => h1 = s.heard
  <2> SUFFICES ASSUME k = 0 PROVE h1 = s.heard
    OBVIOUS
  <2>1. g[k] = <<>>
    BY <1>4, Zenon DEF HeardOf
  <2>2. s.heard \o <<>> = s.heard
    BY CatNothing
  <2> HIDE DEF h1
  <2> QED BY <1>6, <2>1, <2>2, Zenon
<1>10. L \in SUBSET {i \in 1..k : E[i].long}
  BY <1>1
<1>11. Received(E, s.heard, k, L, h1, Left(r, e))
  <2> HIDE DEF h1, L
  <2> QED BY <1>1, <1>3, <1>6, Zenon
<1> HIDE DEF h1
<1> QED BY <1>8, <1>9, <1>10, <1>11, Zenon DEF E, L, h1

\* The end of a sequence grows by what is appended.
LEMMA SubAppend ==
  ASSUME NEW e, Sequence(e), NEW n \in Nat, n <= Len(e), NEW x
  PROVE  SubSeq(Append(e, x), Len(e) + 1 - (n + 1) + 1, Len(e) + 1) = Append(SubSeq(e, Len(e) - n + 1, Len(e)), x)
<1> DEFINE S == ToSet(e) \cup {x}
           T == ToSet(e)
           N == Len(e)
           a == N - n + 1
           g == Append(e, x)
           A == SubSeq(g, a, N + 1)
           B == SubSeq(e, a, N)
           C == Append(B, x)
<1>1. e \in Seq(T) /\ N \in Nat /\ x \in S /\ T \subseteq S
  BY SequenceIs DEF Sequence
<1> HIDE DEF S, T
<1>2. e \in Seq(S)
  BY <1>1
<1>3. g \in Seq(S) /\ Len(g) = N + 1 /\ g[N + 1] = x /\ \A i \in 1..N : g[i] = e[i]
  BY <1>1, <1>2
<1>4. a \in Nat /\ a >= 1 /\ a <= N + 1 /\ N + 1 - a = n /\ N + 2 - a = n + 1 /\ N + 1 - (n + 1) + 1 = a
  BY <1>1
<1> HIDE DEF g, a
<1>5. B \in Seq(S) /\ Len(B) = n /\ \A i \in 1..n : B[i] = e[a + i - 1]
  BY <1>1, <1>2, <1>4
<1>6. A \in Seq(S) /\ Len(A) = n + 1 /\ \A i \in 1..(n + 1) : A[i] = g[a + i - 1]
  BY <1>1, <1>3, <1>4
<1> HIDE DEF A, B
<1>7. C \in Seq(S) /\ Len(C) = n + 1 /\ C[n + 1] = x /\ \A i \in 1..n : C[i] = B[i]
  BY <1>1, <1>5
<1> HIDE DEF C
<1>8. ASSUME NEW i \in 1..(n + 1) PROVE A[i] = C[i]
  <2>1. CASE i \in 1..n
    <3>1. a + i - 1 \in 1..N
      BY <1>1, <1>4, <2>1
    <3> QED BY <1>3, <1>5, <1>6, <1>7, <2>1, <3>1
  <2>2. CASE i = n + 1
    <3>1. a + i - 1 = N + 1
      BY <1>1, <1>4, <2>2
    <3> QED BY <1>3, <1>6, <1>7, <2>2, <3>1
  <2> QED BY <2>1, <2>2
<1>9. A = C
  BY <1>6, <1>7, <1>8
<1> QED BY <1>4, <1>9, Zenon DEF A, B, C, a, g

\* A line that is written is one more entry under way.
LEMMA WriteUnderway ==
  ASSUME NEW q, NEW d, NEW e, Underway(q, d, e), NEW u, Sequence(u), Free(u, "LF"),
         NEW x, x.meant = Meaning(u), x.long <=> Len(u) > MaxLine
  PROVE  LET q1 == q \o Append(u, "LF")
         IN  Underway(q1, d, Append(e, x)) /\ Left(q1, Append(e, x)) = Append(Left(q, e), x)
<1> DEFINE b == d.buffer
           y == d.resyncing
           v == Append(u, "LF")
           q1 == q \o v
           e1 == Append(e, x)
           W == Lines(b \o q)
           W1 == Lines(b \o q1)
           E == Left(q, e)
           E1 == Left(q1, e1)
           N == Cardinality(Marks(q, "LF"))
           M == Cardinality(Marks(q1, "LF"))
           o == <<>>
           p == <<u, o>>
<1>1. /\ Sequence(q) /\ Sequence(b) /\ Free(b, "LF") /\ y \in BOOLEAN /\ Sequence(e) /\ N <= Len(e)
      /\ Stands(W, y, E)
  BY DEF Underway
<1>2. Sequence(v) /\ Sequence(q1) /\ Sequence(b \o q) /\ Sequence(b \o q1) /\ (b \o q) \o v = b \o q1
  <2>1. Sequence(v)
    BY SequenceAppend
  <2>5. Sequence(b) /\ Sequence(q)
    BY <1>1
  <2>2. (b \o q) \o v = b \o (q \o v)
    <3> HIDE DEF v, b
    <3> QED BY <2>1, <2>5, CatCat
  <2>3. Sequence(q1) /\ Sequence(b \o q)
    BY <1>1, <2>1, SequenceCat, Zenon
  <2>4. Sequence(b \o q1)
    BY <1>1, <2>3, SequenceCat, Zenon
  <2> QED BY <2>1, <2>2, <2>3, <2>4, Zenon
<1>3. /\ Texts(W) /\ Len(W) = Len(E) + 1 /\ Last(W) = o
  BY <1>1 DEF Stands
<1>4. W1 = Front(W) \o p
  <2> DEFINE a == b \o q
  <2>5. Sequence(a) /\ Sequence(v)
    BY <1>2
  <2>1. W = Pieces(a, "LF") /\ W1 = Pieces(a \o v, "LF")
    BY <1>2, Zenon DEF Lines
  <2>2. Pieces(v, "LF") = p
    BY PiecesEnd
  <2>3. o \o v = v
    BY <1>2, CatNothing
  <2> HIDE DEF a, v, o, p, W, W1
  <2>4. Pieces(a \o v, "LF") = Front(Pieces(a, "LF")) \o Pieces(Last(Pieces(a, "LF")) \o v, "LF")
    BY <2>5, PiecesCat
  <2> QED BY <1>3, <2>1, <2>2, <2>3, <2>4, Zenon
<1>5. Stands(W1, y, Append(E, x))
  <2>1. Stands(Front(W) \o p, y, Append(E, x))
    <3> HIDE DEF W, E, y
    <3> QED BY <1>1, StandsMore
  <2> HIDE DEF W, W1, E, p
  <2> QED BY <1>4, <2>1, Zenon
<1> HIDE DEF v, b, y, W, W1, E, p, o, q1
<1>6. N \in Nat /\ M = N + 1 /\ Len(e) \in Nat
  <2>1. Len(Lines(q)) = N + 1 /\ Len(Lines(q1)) = M + 1
    BY <1>1, <1>2, PiecesCount DEF Lines
  <2>2. N \in Nat /\ M \in Nat /\ Len(e) \in Nat
    BY <1>1, <1>2, PiecesCount, FS_CardinalityType, SequenceIs
  <2>3. Led(b, W, Lines(q)) /\ Led(b, W1, Lines(q1))
    BY <1>1, <1>2, PiecesLead DEF Lines, W, W1
  <2> HIDE DEF N, M
  <2>4. Len(W) = N + 1 /\ Len(W1) = M + 1
    BY <2>1, <2>3 DEF Led
  <2>5. Len(W1) = Len(Append(E, x)) + 1 /\ Sequence(E)
    BY <1>1, <1>5 DEF Stands
  <2>6. Len(Append(E, x)) = Len(E) + 1 /\ Len(E) \in Nat
    BY <2>5, SequenceAppend
  <2> QED BY <1>3, <2>2, <2>4, <2>5, <2>6
<1> HIDE DEF N, M
<1>7. Sequence(e1) /\ Len(e1) = Len(e) + 1
  BY <1>1, SequenceAppend
<1>8. E1 = Append(E, x)
  <2>1. SubSeq(e1, Len(e) + 1 - (N + 1) + 1, Len(e) + 1) = Append(SubSeq(e, Len(e) - N + 1, Len(e)), x)
    BY <1>1, <1>6, SubAppend
  <2>2. E = SubSeq(e, Len(e) - N + 1, Len(e))
    BY Zenon DEF E, Left, N
  <2>3. E1 = SubSeq(e1, Len(e1) - M + 1, Len(e1))
    BY Zenon DEF Left, M
  <2>4. Len(e1) = Len(e) + 1 /\ M = N + 1
    BY <1>6, <1>7
  <2> HIDE DEF e1, E1
  <2> DEFINE j == Len(e1) - M + 1
             k == Len(e1)
             i == Len(e) + 1 - (N + 1) + 1
  <2>5. i = j /\ k = Len(e) + 1
    BY <2>4
  <2>6. E1 = SubSeq(e1, j, k)
    BY <2>3, Zenon
  <2>7. SubSeq(e1, i, Len(e) + 1) = Append(E, x)
    BY <2>1, <2>2, Zenon
  <2> HIDE DEF i, j, k
  <2> QED BY <2>5, <2>6, <2>7, Zenon
<1>9. M <= Len(e1)
  BY <1>1, <1>6, <1>7
<1>10. Stands(Lines(d.buffer \o q1), d.resyncing, Left(q1, e1))
  <2> HIDE DEF e1
  <2> QED BY <1>5, <1>8, Zenon DEF W1, b, y
<1>11. Cardinality(Marks(q1, "LF")) <= Len(e1)
  BY <1>9, Zenon DEF M
<1>12. Sequence(d.buffer) /\ Free(d.buffer, "LF") /\ d.resyncing \in BOOLEAN
  BY <1>1 DEF b, y
<1>13. Underway(q1, d, e1)
  <2> HIDE DEF e1
  <2> QED BY <1>2, <1>7, <1>10, <1>11, <1>12, Zenon DEF Underway
<1> QED BY <1>8, <1>13, Zenon DEF q1, v, E

\* Text t and what ends it are line u and its newline.
EndsLine(t, ending, u) == Sequence(u) /\ Free(u, "LF") /\ t \o ending = Append(u, "LF")

\* The invariant: the backend's, and what is under way are the entries of the contract.
StreamInv == BackendInv /\ Sequence(heard) /\ Underway(stream, decoder, sent)

\* A line that is written is one more under way.
LEMMA WritesStream ==
  ASSUME StreamInv, NEW t, NEW meant, NEW ending, NEW u, Sequence(t), Sequence(ending),
         EndsLine(t, ending, u), meant = Meaning(u), Writes(t, meant, ending)
  PROVE  Sequence(heard') /\ Underway(stream', decoder', sent') /\ Contract!Send
<1> DEFINE w == t \o ending
           v == Append(u, "LF")
           x == [meant |-> meant, long |-> Len(w) - 1 > MaxLine]
           q1 == stream \o v
           E == Left(stream, sent)
           E1 == Append(E, x)
<1>1. stream' = (stream \o t) \o ending /\ sent' = Append(sent, x) /\ UNCHANGED <<decoder, heard>>
  BY DEF Writes, client
<1>2. Sequence(stream) /\ Underway(stream, decoder, sent) /\ Sequence(heard)
  BY DEF StreamInv, BackendInv
<1>3. stream' = q1
  <2>1. (stream \o t) \o ending = stream \o w
    <3> DEFINE a == stream
    <3>1. Sequence(a)
      BY <1>2
    <3> HIDE DEF a, x
    <3>2. (a \o t) \o ending = a \o (t \o ending)
      BY <3>1, CatCat
    <3> QED BY <3>2, Zenon DEF a
  <2>2. w = v
    BY Zenon DEF EndsLine
  <2> HIDE DEF w, v, x
  <2> QED BY <1>1, <2>1, <2>2, Zenon
<1>4. x.meant = Meaning(u) /\ (x.long <=> Len(u) > MaxLine)
  <2>1. Len(v) = Len(u) + 1 /\ Len(u) \in Nat
    BY SequenceAppend DEF EndsLine
  <2>2. Len(w) = Len(v)
    BY Zenon DEF EndsLine
  <2> HIDE DEF w, v
  <2>3. Len(w) - 1 = Len(u)
    BY <2>1, <2>2
  <2>4. x.meant = meant /\ x.long = (Len(w) - 1 > MaxLine)
    OBVIOUS
  <2> HIDE DEF x
  <2> QED BY <2>3, <2>4
<1> HIDE DEF x
<1>5. Underway(q1, decoder, Append(sent, x)) /\ Left(q1, Append(sent, x)) = E1
  <2>1. Sequence(u) /\ Free(u, "LF")
    BY DEF EndsLine
  <2> QED BY <1>2, <1>4, <2>1, WriteUnderway
<1> HIDE DEF q1, E
<1>6. Underway(stream', decoder', sent') /\ Left(stream', sent') = E1
  <2> HIDE DEF E1
  <2> QED BY <1>1, <1>3, <1>5, Zenon
<1>7. Contract!Send
  <2>1. Sequence(E)
    BY <1>2 DEF Underway, Stands, E
  <2>2. Len(E1) = Len(E) + 1 /\ Front(E1) = E /\ Len(E) \in Nat
    BY <2>1, SequenceAppend, SequenceEnds
  <2>3. Front(E1) = SubSeq(E1, 1, Len(E))
    <3>1. Len(E1) - 1 = Len(E)
      BY <2>2
    <3> HIDE DEF E1
    <3> QED BY <3>1, Zenon DEF Front
  <2>4. E = SubSeq(sent, Len(sent) - Newlines + 1, Len(sent))
    BY Zenon DEF E, Left, Newlines, Marks
  <2>5. E1 = SubSeq(sent', Len(sent') - Newlines' + 1, Len(sent'))
    <3> HIDE DEF E1
    <3> QED BY <1>6, Zenon DEF Left, Newlines, Marks
  <2> HIDE DEF E1
  <2>6. Len(E1) = Len(E) + 1 /\ SubSeq(E1, 1, Len(E)) = E
    BY <2>2, <2>3, Zenon
  <2>7. heard' = heard
    BY <1>1
  <2> QED BY <2>4, <2>5, <2>6, <2>7, Zenon DEF Contract!Send
<1>8. Sequence(heard')
  BY <1>1, <1>2
<1> QED BY <1>6, <1>7, <1>8

\* What the reference understands of a message as it is written.
Readable(m) ==
  LET t == BuildMessage(m)
  IN  Sequence(t) /\ t # <<>> /\ Free(t, "LF") /\ Understood(t, Lim) = {m}

\* Receives keeps the invariant and is a step of the contract, or of nothing it sees.
LEMMA ReceivesStream ==
  ASSUME InboundAssumption, StreamInv, NEW n, n \in 1..Len(stream), Receives(n)
  PROVE  /\ Sequence(heard') /\ Underway(stream', decoder', sent')
         /\ Contract!Next \/ UNCHANGED Contract!vars
<1> DEFINE c == SubSeq(stream, 1, n)
           r == SubSeq(stream, n + 1, Len(stream))
           D == Decodes(decoder, c)
           F == Front(Lines(decoder.buffer \o c))
           k == Len(F)
           s == [tokenizer |-> tokenizer, line |-> line, heard |-> heard,
                 isupport |-> isupport, channel |-> channel]
           h1 == Hears(s, D.lines).heard
           E == Left(stream, sent)
           E1 == Left(r, sent)
           L == {i \in 1..k : decoder.resyncing /\ i = 1}
           d1 == [buffer |-> D.buffer, resyncing |-> D.resyncing]
<1>1. stream' = r /\ decoder' = d1 /\ heard' = h1 /\ sent' = sent
  BY Zenon DEF Receives, Becomes, server
<1>2. Underway(stream, decoder, sent) /\ Sequence(heard) /\ MaxLine \in Nat /\ Lim.tagData \in Nat
  BY DEF StreamInv, InboundAssumption
<1>3. Underway(r, d1, sent) /\ CutsOff(stream, decoder, sent, r, D, F, k)
  BY <1>2, ChunkUnderway, Zenon
<1>4. Heeds(s) /\ Sequence(s.heard) /\ s.heard = heard
  BY <1>2 DEF StreamInv, BackendInv, Heeds
<1>5. decoder.resyncing \in BOOLEAN /\ Sequence(E)
  BY <1>2 DEF Underway, Stands
<1> HIDE DEF s, D, r, F
<1>6. /\ Received(E, s.heard, k, L, h1, E1)
      /\ L \in SUBSET {i \in 1..k : E[i].long}
      /\ k = 0 => h1 = s.heard /\ Sequence(h1)
      /\ Sequence(h1)
  BY <1>2, <1>3, <1>4, <1>5, ReceivedIs, Zenon
<1>7. k \in Nat /\ k <= Len(E) /\ E1 = SubSeq(E, k + 1, Len(E))
  BY <1>3 DEF CutsOff
<1>8. E = SubSeq(sent, Len(sent) - Newlines + 1, Len(sent))
  BY Zenon DEF Left, Newlines, Marks
<1>9. E1 = SubSeq(sent', Len(sent') - Newlines' + 1, Len(sent'))
  <2>1. E1 = Left(stream', sent')
    BY <1>1, Zenon
  <2> HIDE DEF E1
  <2> QED BY <2>1, Zenon DEF Left, Newlines, Marks
<1> HIDE DEF E, E1, L, h1, d1, k
<1>10. CASE k = 0
  <2>1. E1 = E
    <3>1. SubSeq(E, 1, Len(E)) = E
      BY <1>5, SequenceWhole
    <3> QED BY <1>7, <1>10, <3>1
  <2>2. heard' = heard
    BY <1>1, <1>4, <1>6, <1>10
  <2> QED BY <1>1, <1>3, <1>6, <1>8, <1>9, <2>1, <2>2, Zenon DEF Contract!vars
<1>11. CASE k # 0
  <2>1. k \in 1..Len(E)
    <3>1. Len(E) \in Nat
      BY <1>5, SequenceIs
    <3> QED BY <1>7, <1>11, <3>1
  <2>2. Received(E, heard, k, L, heard', E1)
    BY <1>1, <1>4, <1>6, Zenon
  <2>3. Contract!Receive(k, L)
    <3>1. Received(SubSeq(sent, Len(sent) - Newlines + 1, Len(sent)), heard, k, L, heard',
                   SubSeq(sent', Len(sent') - Newlines' + 1, Len(sent')))
      BY <1>8, <1>9, <2>2, Zenon
    <3> QED BY <3>1, Zenon DEF Contract!Receive, Received
  <2>4. Contract!Next
    BY <1>6, <1>8, <2>1, <2>3, Zenon DEF Contract!Next
  <2> QED BY <1>1, <1>3, <1>6, <2>4, Zenon
<1> QED BY <1>10, <1>11

\* A message that can be read as it is written is one more line under way.
LEMMA SendsStream ==
  ASSUME StreamInv, NEW m, Readable(m), Sends(m)
  PROVE  Sequence(heard') /\ Underway(stream', decoder', sent') /\ Contract!Send
<1> DEFINE t == BuildMessage(m)
           u == Append(t, "CR")
           e == <<"CR", "LF">>
<1>1. Sequence(t) /\ t # <<>> /\ Free(t, "LF") /\ Understood(t, Lim) = {m}
  BY Zenon DEF Readable
<1>2. Writes(t, {m}, e)
  BY Zenon DEF Sends
<1> HIDE DEF t
<1>3. Sequence(u) /\ Free(u, "LF") /\ Sequence(e)
  <2>1. "CR" # "LF"
    OBVIOUS
  <2> QED BY <1>1, <2>1, SequenceAppend, FreeAppend, SequenceTuples, Zenon
<1>4. t \o e = Append(u, "LF")
  <2> DEFINE o == <<"CR">>
  <2>1. Sequence(o) /\ Append(o, "LF") = e
    <3>1. Sequence(o)
      BY SequenceTuples
    <3>2. Append(<<"CR">>, "LF") = <<"CR", "LF">>
      BY AppendPair, Zenon
    <3> QED BY <3>1, <3>2
  <2>2. t \o o = u
    BY <1>1, CatOne
  <2> HIDE DEF o, e, u
  <2>3. t \o Append(o, "LF") = Append(t \o o, "LF")
    BY <1>1, <2>1, CatAppend
  <2> QED BY <2>1, <2>2, <2>3, Zenon
<1>5. Stripping(u) = t
  <2>1. Front(u) = t /\ Last(u) = "CR"
    BY <1>1, SequenceEnds
  <2>2. u # <<>>
    <3>1. Len(u) = Len(t) + 1 /\ Len(t) \in Nat
      BY <1>1, SequenceAppend
    <3> HIDE DEF u
    <3> QED BY <3>1
  <2> HIDE DEF u
  <2> QED BY <2>1, <2>2 DEF Stripping
<1> HIDE DEF u
<1>6. Meaning(u) = {m}
  BY <1>1, <1>5, Zenon DEF Meaning
<1>7. EndsLine(t, e, u)
  BY <1>3, <1>4, Zenon DEF EndsLine
<1> HIDE DEF e
<1> QED BY <1>1, <1>2, <1>3, <1>6, <1>7, WritesStream

\* A line of noise means what the reference makes of it.
LEMMA BlurtsStream ==
  ASSUME InboundAssumption, StreamInv, Blurts
  PROVE  Sequence(heard') /\ Underway(stream', decoder', sent') /\ Contract!Send
<1> DEFINE e == <<"LF">>
<1>1. PICK t \in Noise : Writes(t, IF t = <<>> THEN {} ELSE Understood(t, Lim), e)
  BY Zenon DEF Blurts
<1>2. Sequence(t) /\ ToSet(t) \cap {"CR", "LF"} = {}
  BY DEF InboundAssumption
<1>3. \A i \in 1..Len(t) : t[i] \notin {"CR", "LF"}
  <2>1. t \in Seq(ToSet(t))
    BY <1>2 DEF Sequence
  <2> DEFINE S == ToSet(t)
  <2> HIDE DEF S
  <2>2. \A i \in 1..Len(t) : t[i] \in S
    BY <2>1 DEF S
  <2> QED BY <1>2, <2>2 DEF S
<1>4. Free(t, "LF")
  BY <1>3 DEF Free
<1>5. Stripping(t) = t
  <2>1. t # <<>> => Len(t) \in 1..Len(t)
    <3>1. Len(t) \in Nat /\ (t # <<>> => Len(t) # 0)
      BY <1>2, SequenceIs
    <3> QED BY <3>1
  <2>2. t # <<>> => Last(t) # "CR"
    BY <1>3, <2>1 DEF Last
  <2> QED BY <2>2, Zenon DEF Stripping
<1>6. Meaning(t) = IF t = <<>> THEN {} ELSE Understood(t, Lim)
  BY <1>5, Zenon DEF Meaning
<1>7. Sequence(e) /\ t \o e = Append(t, "LF")
  BY <1>2, SequenceTuples, CatOne, Zenon
<1>8. EndsLine(t, e, t)
  BY <1>2, <1>4, <1>7, Zenon DEF EndsLine
<1> DEFINE M == IF t = <<>> THEN {} ELSE Understood(t, Lim)
<1>9. M = Meaning(t) /\ Writes(t, M, e)
  BY <1>1, <1>6, Zenon
<1> HIDE DEF e, M
<1> QED BY <1>2, <1>7, <1>8, <1>9, WritesStream

\* Texts that are free of a mark are when put together.
LEMMA FreeCat ==
  ASSUME NEW a, NEW b, NEW mark, Sequence(a), Sequence(b), Free(a, mark), Free(b, mark)
  PROVE  Free(a \o b, mark)
<1> DEFINE S == ToSet(a) \cup ToSet(b)
<1>1. a \in Seq(S) /\ b \in Seq(S)
  <2>1. a \in Seq(ToSet(a)) /\ b \in Seq(ToSet(b))
    BY DEF Sequence
  <2> QED BY <2>1
<1> HIDE DEF S
<1>2. \A i \in 1..Len(a \o b) :
        \/ i \in 1..Len(a) /\ (a \o b)[i] = a[i]
        \/ i - Len(a) \in 1..Len(b) /\ (a \o b)[i] = b[i - Len(a)]
  BY <1>1
<1> QED BY <1>2 DEF Free

\* So are those of no more than two bytes, none of them the mark.
LEMMA FreeTuples ==
  ASSUME NEW mark
  PROVE  /\ Free(<<>>, mark)
         /\ \A x : x # mark => Free(<<x>>, mark)
         /\ \A x, y : x # mark /\ y # mark => Free(<<x, y>>, mark)
BY DEF Free

\* A text is free of a mark that is not among its bytes.
LEMMA FreeIs ==
  ASSUME NEW t, Sequence(t), NEW mark
  PROVE  (mark \notin ToSet(t)) <=> Free(t, mark)
BY SequenceIs DEF Free, ToSet

\* And any number of texts.
LEMMA FreeFlatten ==
  ASSUME NEW s, Texts(s), NEW mark, \A i \in 1..Len(s) : Free(s[i], mark)
  PROVE  Free(FlattenSeq(s), mark)
<1> DEFINE S == UNION {ToSet(s[i]) : i \in 1..Len(s)}
           R == S \ {mark}
           x == FlattenSeq(s)
<1>1. Sequence(s)
  BY DEF Texts
<1>2. ASSUME NEW i \in 1..Len(s) PROVE s[i] \in Seq(R)
  <2>1. s[i] \in Seq(ToSet(s[i])) /\ ToSet(s[i]) \subseteq S /\ Len(s[i]) \in Nat
    BY SequenceIs DEF Texts
  <2>2. \A j \in 1..Len(s[i]) : s[i][j] \in R
    BY <2>1 DEF Free
  <2> HIDE DEF R, S
  <2> QED BY <2>1, <2>2
<1>3. mark \notin R
  OBVIOUS
<1> HIDE DEF R, S
<1>4. x \in Seq(R)
  BY <1>1, <1>2, FlattenIn
<1> HIDE DEF x
<1>5. Free(x, mark)
  BY <1>3, <1>4 DEF Free
<1> QED BY <1>5 DEF x

\* An escaped tag value holds no newline.
LEMMA EscapeFree ==
  ASSUME NEW v, Sequence(v)
  PROVE  Free(EscapeTagValue(v), "LF")
<1> DEFINE E(c) == IF c \in DOMAIN Escapes THEN <<"\\", Escapes[c]>> ELSE <<c>>
           s == [i \in DOMAIN v |-> E(v[i])]
<1>1. DOMAIN v = 1..Len(v) /\ Len(v) \in Nat
  BY SequenceIs
<1>2. ASSUME NEW c PROVE Sequence(E(c)) /\ Free(E(c), "LF")
  <2>1. Sequence(<<"\\", Escapes[c]>>) /\ Sequence(<<c>>)
    BY SequenceTuples, Zenon
  <2>2. ASSUME c \in DOMAIN Escapes PROVE Free(<<"\\", Escapes[c]>>, "LF")
    <3>1. Escapes[c] # "LF" /\ "\\" # "LF"
      BY <2>2 DEF Escapes
    <3> QED BY <3>1, FreeTuples, Zenon
  <2>3. ASSUME c \notin DOMAIN Escapes PROVE Free(<<c>>, "LF")
    <3>1. c # "LF"
      BY <2>3 DEF Escapes
    <3> QED BY <3>1, FreeTuples, Zenon
  <2> QED BY <2>1, <2>2, <2>3, Zenon
<1>3. FlattenSeq(s) = EscapeTagValue(v)
  BY Zenon DEF EscapeTagValue
<1> HIDE DEF E
<1>4. s = [i \in 1..Len(v) |-> s[i]] /\ \A i \in 1..Len(v) : s[i] = E(v[i])
  BY <1>1
<1> HIDE DEF s
<1>5. \A i \in 1..Len(v) : Sequence(s[i]) /\ Free(s[i], "LF")
  BY <1>2, <1>4
<1>6. Texts(s) /\ Len(s) = Len(v)
  BY <1>1, <1>4, <1>5, TextsMade, SequenceMade
<1>7. Free(FlattenSeq(s), "LF")
  BY <1>5, <1>6, FreeFlatten
<1> QED BY <1>3, <1>7, Zenon

\* A text that can be put together with others, and holds no newline.
Clean(x) == Sequence(x) /\ Free(x, "LF")

\* Clean texts put together are clean.
LEMMA CleanCat ==
  \A a, b : Clean(a) /\ Clean(b) => Clean(a \o b)
BY SequenceCat, FreeCat DEF Clean

\* And any number of them.
LEMMA CleanFlatten ==
  ASSUME NEW n \in Nat, NEW s, s = [i \in 1..n |-> s[i]], \A i \in 1..n : Clean(s[i])
  PROVE  Clean(FlattenSeq(s))
<1>1. Texts(s) /\ Len(s) = n
  BY TextsMade, SequenceMade DEF Clean
<1> QED BY <1>1, FlattenText, FreeFlatten DEF Clean

\* A valid message is written without a newline, and is not empty.
LEMMA BuildClean ==
  ASSUME NEW m, IsMessage(m), Valid(m), Proper(m)
  PROVE  Clean(BuildMessage(m)) /\ BuildMessage(m) # <<>>
<1> DEFINE keys == SetToSeq(DOMAIN m.tags)
           Field(f, sign) == IF f \in DOMAIN m.source THEN <<sign>> \o m.source[f] ELSE <<>>
           Sign(i) == <<IF i = 1 THEN "@" ELSE ";">>
           Tag(i) == Sign(i) \o TagText(keys[i], m.tags[keys[i]])
           tags == [i \in DOMAIN keys |-> Tag(i)]
           Colon(i) == IF i = Len(m.params) /\ NeedsColon(m.params[i]) THEN <<":">> ELSE <<>>
           space == <<" ">>
           Param(i) == (space \o Colon(i)) \o m.params[i]
           params == [i \in DOMAIN m.params |-> Param(i)]
           head == IF keys = <<>> THEN <<>> ELSE FlattenSeq(tags) \o space
           from == IF m.source = <<>> THEN <<>>
                   ELSE ((Field("name", ":") \o Field("user", "!")) \o Field("host", "@")) \o space
<1>1. BuildMessage(m) = ((head \o from) \o m.command) \o FlattenSeq(params)
  BY Zenon DEF BuildMessage
<1>2. Clean(<<>>) /\ \A x : x # "LF" => Clean(<<x>>)
  BY SequenceTuples, FreeTuples, Zenon DEF Clean
<1>3. Clean(space) /\ (\A i : Clean(Sign(i)) /\ Clean(Colon(i))) /\ Clean(<<"=">>)
  <2>1. " " # "LF" /\ ":" # "LF" /\ "@" # "LF" /\ ";" # "LF" /\ "=" # "LF"
    OBVIOUS
  <2>2. Clean(space) /\ Clean(<<":">>) /\ Clean(<<"=">>)
    BY <1>2, <2>1, Zenon
  <2>3. ASSUME NEW i PROVE Clean(Sign(i))
    BY <1>2, <2>1, Zenon
  <2>4. ASSUME NEW i PROVE Clean(Colon(i))
    BY <1>2, <2>2, Zenon
  <2> QED BY <2>2, <2>3, <2>4, Zenon
<1>4. Clean(FlattenSeq(tags))
  <2>1. Sequence(keys) /\ \A i \in 1..Len(keys) : keys[i] \in DOMAIN m.tags
    BY SetToSeqIs DEF IsMessage
  <2>2. DOMAIN keys = 1..Len(keys) /\ Len(keys) \in Nat
    BY <2>1, SequenceIs
  <2> HIDE DEF keys, Sign
  <2>3. ASSUME NEW i \in 1..Len(keys) PROVE Clean(Tag(i))
    <3> DEFINE k == keys[i]
               v == m.tags[k]
               e == EscapeTagValue(v)
               q == <<"=">>
    <3>1. Sequence(k) /\ Sequence(v) /\ ValidKey(k)
      BY <2>1, Zenon DEF IsMessage, Valid
    <3>2. "LF" \notin ToSet(k)
      <4> DEFINE body == IF k # <<>> /\ Head(k) = "+" THEN Tail(k) ELSE k
      <4>1. "LF" \notin KeyBytes
        BY MessagesAssumption
      <4>2. ToSet(body) \subseteq KeyBytes
        BY <3>1, Zenon DEF ValidKey
      <4>3. CASE k # <<>> /\ Head(k) = "+"
        <5>1. \A j \in 1..Len(k) : k[j] = Head(k) \/ k[j] \in ToSet(Tail(k))
          <6> HIDE DEF k
          <6>1. k \in Seq(ToSet(k)) /\ Len(k) \in Nat /\ Len(k) > 0
            BY <3>1, <4>3, SequenceIs
          <6>2. Len(Tail(k)) = Len(k) - 1 /\ \A j \in 1..Len(k) - 1 : Tail(k)[j] = k[j + 1]
            BY <6>1
          <6>3. Head(k) = k[1]
            BY <6>1
          <6>4. DOMAIN Tail(k) = 1..Len(k) - 1
            BY <6>1, <6>2
          <6>5. ASSUME NEW j \in 1..Len(k), j # 1 PROVE k[j] \in ToSet(Tail(k))
            <7>1. j - 1 \in 1..Len(k) - 1 /\ k[j] = Tail(k)[j - 1]
              BY <6>1, <6>2, <6>5
            <7> QED BY <6>4, <7>1 DEF ToSet
          <6> QED BY <6>3, <6>5
        <5>2. "+" # "LF" /\ Free(k, "LF")
          BY <4>1, <4>2, <4>3, <5>1 DEF Free
        <5> QED BY <3>1, <5>2, FreeIs
      <4>4. CASE ~ (k # <<>> /\ Head(k) = "+")
        <5>1. body = k
          BY <4>4, Zenon
        <5> QED BY <4>1, <4>2, <5>1
      <4> QED BY <4>3, <4>4
    <3>3. Clean(k) /\ Clean(e)
      BY <3>1, <3>2, FreeIs, EscapeText, EscapeFree DEF Clean
    <3>4. TagText(k, v) = IF v = <<>> THEN k ELSE (k \o q) \o e
      BY Zenon DEF TagText
    <3> HIDE DEF k, v, e, q
    <3>5. Clean((k \o q) \o e)
      BY <1>3, <3>3, CleanCat, Zenon DEF q
    <3>6. Clean(TagText(k, v))
      BY <3>3, <3>4, <3>5, Zenon
    <3> QED BY <1>3, <3>6, CleanCat, Zenon DEF k, v
  <2> HIDE DEF Tag
  <2>4. tags = [i \in 1..Len(keys) |-> tags[i]] /\ \A i \in 1..Len(keys) : tags[i] = Tag(i)
    BY <2>2
  <2> HIDE DEF tags
  <2>5. \A i \in 1..Len(keys) : Clean(tags[i])
    BY <2>3, <2>4
  <2> QED BY <2>2, <2>4, <2>5, CleanFlatten
<1>5. Clean(FlattenSeq(params))
  <2> DEFINE ps == m.params
  <2>1. DOMAIN ps = 1..Len(ps) /\ Len(ps) \in Nat /\ \A i \in 1..Len(ps) : Clean(ps[i])
    <3>1. DOMAIN ps = 1..Len(ps) /\ Len(ps) \in Nat /\ \A i \in 1..Len(ps) : Sequence(ps[i])
      BY SequenceIs DEF IsMessage, Texts
    <3>2. \A i \in 1..Len(ps) : "LF" \notin ToSet(ps[i])
      BY <3>1 DEF Valid, Breaks
    <3> QED BY <3>1, <3>2, FreeIs DEF Clean
  <2>2. ASSUME NEW i \in 1..Len(ps) PROVE Clean(Param(i))
    <3>1. Clean(ps[i])
      BY <2>1
    <3> DEFINE c == Colon(i)
    <3>2. Clean(c)
      BY <1>3, Zenon
    <3> HIDE DEF space, c, ps
    <3>3. Clean((space \o c) \o ps[i])
      BY <1>3, <3>1, <3>2, CleanCat, Zenon
    <3> QED BY <3>3, Zenon DEF c, ps
  <2> HIDE DEF Param
  <2>3. params = [i \in 1..Len(ps) |-> params[i]] /\ \A i \in 1..Len(ps) : params[i] = Param(i)
    BY <2>1
  <2> HIDE DEF params, ps
  <2>4. \A i \in 1..Len(ps) : Clean(params[i])
    BY <2>2, <2>3
  <2> QED BY <2>1, <2>3, <2>4, CleanFlatten
<1>6. Clean(head)
  <2> HIDE DEF keys, tags, space
  <2>1. Clean(FlattenSeq(tags) \o space)
    BY <1>3, <1>4, CleanCat, Zenon
  <2> QED BY <1>2, <2>1, Zenon
<1>7. Clean(from)
  <2> DEFINE a == Field("name", ":")
             b == Field("user", "!")
             c == Field("host", "@")
  <2>1. ASSUME NEW f \in DOMAIN m.source, NEW sign, sign # "LF" PROVE Clean(<<sign>> \o m.source[f])
    <3>1. Sequence(m.source[f]) /\ "LF" \notin ToSet(m.source[f])
      BY DEF IsMessage, Proper, Breaks
    <3>2. Clean(m.source[f]) /\ Clean(<<sign>>)
      BY <1>2, <2>1, <3>1, FreeIs DEF Clean
    <3> QED BY <3>2, CleanCat, Zenon
  <2>2. ASSUME NEW f, NEW sign, sign # "LF" PROVE Clean(Field(f, sign))
    BY <1>2, <2>1, <2>2, Zenon
  <2>3. ":" # "LF" /\ "!" # "LF" /\ "@" # "LF"
    OBVIOUS
  <2>4. Clean(a) /\ Clean(b) /\ Clean(c)
    BY <2>2, <2>3, Zenon
  <2> HIDE DEF a, b, c, space
  <2>5. Clean(((a \o b) \o c) \o space)
    BY <1>3, <2>4, CleanCat, Zenon
  <2>6. from = IF m.source = <<>> THEN <<>> ELSE ((a \o b) \o c) \o space
    BY Zenon DEF a, b, c
  <2> HIDE DEF from
  <2> QED BY <1>2, <2>5, <2>6, Zenon
<1>8. Clean(m.command) /\ m.command # <<>>
  <2>1. Sequence(m.command) /\ "LF" \notin ToSet(m.command)
    BY DEF IsMessage, Valid, Breaks
  <2> QED BY <2>1, FreeIs DEF Clean, Valid
<1> DEFINE a == head \o from
           b == FlattenSeq(params)
           c == m.command
<1> HIDE DEF head, from, params
<1>9. Clean(a) /\ Clean(b) /\ Clean(c)
  BY <1>5, <1>6, <1>7, <1>8, CleanCat, Zenon DEF a, b, c
<1>10. Clean((a \o c) \o b)
  BY <1>9, CleanCat, Zenon
<1>11. (a \o c) \o b # <<>>
  <2>1. Sequence(a) /\ Sequence(b) /\ Sequence(c) /\ c # <<>>
    BY <1>8, <1>9 DEF Clean, c
  <2> HIDE DEF a, b, c
  <2> DEFINE S == ToSet(a) \cup ToSet(b) \cup ToSet(c)
  <2>2. a \in Seq(S) /\ b \in Seq(S) /\ c \in Seq(S)
    BY <2>1, SequenceIs
  <2> HIDE DEF S
  <2> QED BY <2>1, <2>2
<1> QED BY <1>1, <1>10, <1>11, Zenon DEF a, b, c

\* The reference reads what is said as it was meant.
LEMMA SpokenReadable == \A m \in Spoken : Readable(m)
<1> SUFFICES ASSUME NEW m \in Spoken PROVE Readable(m)
  OBVIOUS
<1>1. IsMessage(m) /\ Valid(m) /\ Proper(m) /\ Understood(BuildMessage(m), Lim) = {m}
  BY SpokenAssumption
<1>2. Clean(BuildMessage(m)) /\ BuildMessage(m) # <<>>
  BY <1>1, BuildClean
<1> QED BY <1>1, <1>2, Zenon DEF Readable, Clean

\* What a server says of the channel is among what is Spoken.
LEMMA SpokenHas == \A p \in DOMAIN Profiles : \A m \in SpokenAs(p) : m \in Spoken
<1> DEFINE S(p) == SpokenAs(p)
<1> HIDE DEF S
<1>1. \A p \in DOMAIN Profiles : \A m \in S(p) : m \in UNION {S(q) : q \in DOMAIN Profiles}
  OBVIOUS
<1>2. Spoken = Sayings \cup UNION {S(q) : q \in DOMAIN Profiles}
  BY Zenon DEF Spoken, S
<1>3. \A p \in DOMAIN Profiles : \A m \in S(p) : m \in Spoken
  BY <1>1, <1>2
<1> QED BY <1>3 DEF S

\* Everything that is said is Spoken.
LEMMA SaidSpoken ==
  ASSUME InboundAssumption, StreamInv, Says \/ Announces \/ SetsModes \/ ListsNames
  PROVE  \E m \in Spoken : Sends(m)
<1>0. profile \in DOMAIN Profiles
  BY DEF StreamInv, BackendInv
<1>1. CASE Says
  <2>1. PICK m \in Sayings : Sends(m)
    BY <1>1, Zenon DEF Says
  <2>2. m \in Spoken
    BY DEF Spoken
  <2> QED BY <2>1, <2>2
<1>2. CASE Announces
  <2>1. PICK p \in DOMAIN Profiles : Sends(Announcement(p))
    BY <1>2, Zenon DEF Announces
  <2>2. Announcement(p) \in SpokenAs(p)
    BY DEF SpokenAs
  <2> QED BY <2>1, <2>2, SpokenHas
<1>3. CASE SetsModes
  <2>1. PICK cs \in ChangeLists(profile) : Sends(ModeMessage(cs))
    BY <1>3, Zenon DEF SetsModes
  <2>2. ModeMessage(cs) \in SpokenAs(profile)
    BY DEF SpokenAs
  <2> QED BY <1>0, <2>1, <2>2, SpokenHas
<1>4. CASE ListsNames
  <2> DEFINE status == Profiles[profile].status
             facts == truth \cap StatusFacts(profile)
  <2>1. PICK names \in SetToSeqs(Nicks), k \in {1, Len(status)} : Sends(NamesMessage(profile, truth, names, k))
    BY <1>4, Zenon DEF ListsNames
  <2>2. Sequence(status)
    BY <1>0 DEF InboundAssumption
  <2>3. ASSUME NEW i \in DOMAIN status, NEW n \in Nicks
        PROVE  <<"status", n, status[i].mode>> \in truth <=> <<"status", n, status[i].mode>> \in facts
    <3>1. status[i] \in ToSet(status)
      BY Zenon DEF ToSet
    <3>2. status[i].mode \in StatusLetters(Profiles[profile])
      BY <3>1, Zenon DEF StatusLetters
    <3> HIDE DEF status
    <3>3. <<"status", n, status[i].mode>> \in StatusFacts(profile)
      BY <3>2 DEF StatusFacts
    <3> QED BY <3>3
  <2> HIDE DEF facts
  <2>4. ASSUME NEW n \in Nicks PROVE Held(profile, truth, n) = Held(profile, facts, n)
    <3> DEFINE One1(f, i) == IF <<"status", n, status[i].mode>> \in f THEN <<status[i]>> ELSE <<>>
    <3>1. \A i \in DOMAIN status : One1(truth, i) = One1(facts, i)
      BY <2>3, Zenon
    <3>2. Held(profile, truth, n) = FlattenSeq([i \in DOMAIN status |-> One1(truth, i)])
      BY Zenon DEF Held
    <3>3. Held(profile, facts, n) = FlattenSeq([i \in DOMAIN status |-> One1(facts, i)])
      BY Zenon DEF Held
    <3> HIDE DEF One1, status
    <3>4. [i \in DOMAIN status |-> One1(truth, i)] = [i \in DOMAIN status |-> One1(facts, i)]
      BY <3>1, Zenon
    <3> QED BY <3>2, <3>3, <3>4, Zenon
  <2>5. ASSUME NEW n \in Nicks PROVE Shown(profile, truth, n, k) = Shown(profile, facts, n, k)
    BY <2>4, Zenon DEF Shown
  <2>6. \A i \in DOMAIN names : names[i] \in Nicks
    <3>1. names \in [1..Cardinality(Nicks) -> Nicks]
      BY <2>1 DEF SetToSeqs
    <3> QED BY <3>1
  <2>7. NamesMessage(profile, truth, names, k) = NamesMessage(profile, facts, names, k)
    <3> DEFINE Gap(i) == IF i = 1 THEN <<>> ELSE <<" ">>
               Listed(f, n) == [j \in DOMAIN Shown(profile, f, n, k) |-> Shown(profile, f, n, k)[j].prefix] \o <<n>>
               es(f) == [i \in DOMAIN names |-> Gap(i) \o Listed(f, names[i])]
    <3>1. ASSUME NEW n \in Nicks PROVE Listed(truth, n) = Listed(facts, n)
      BY <2>5, Zenon
    <3>2. \A f : NamesMessage(profile, f, names, k) = Plain(<<"353">>, <<Me, <<"=">>, Chan, FlattenSeq(es(f))>>)
      BY Zenon DEF NamesMessage
    <3> HIDE DEF Listed, Gap
    <3>3. es(truth) = es(facts)
      <4>1. \A i \in DOMAIN names : Gap(i) \o Listed(truth, names[i]) = Gap(i) \o Listed(facts, names[i])
        BY <2>6, <3>1, Zenon
      <4> QED BY <4>1, Zenon
    <3> HIDE DEF es
    <3> QED BY <3>2, <3>3, Zenon
  <2>8. NamesMessage(profile, facts, names, k) \in Spoken
    <3>1. facts \in SUBSET StatusFacts(profile)
      BY DEF facts
    <3>2. NamesMessage(profile, facts, names, k) \in SpokenAs(profile)
      BY <2>1, <3>1 DEF SpokenAs
    <3> QED BY <1>0, <3>2, SpokenHas
  <2> QED BY <2>1, <2>7, <2>8, Zenon
<1> QED BY <1>1, <1>2, <1>3, <1>4

\* At the start nothing is under way.
LEMMA StreamInit ==
  ASSUME InboundAssumption, Init
  PROVE  StreamInv /\ Contract!Init
<1> DEFINE o == <<>>
           E == Left(stream, sent)
           W == Lines(decoder.buffer \o stream)
<1>1. BackendInv
  BY BackendInit
<1>2. stream = o /\ decoder.buffer = o /\ decoder.resyncing = FALSE /\ sent = o /\ heard = o
  BY DEF Init
<1>3. Len(o) = 0 /\ Sequence(o) /\ \A i, j : i > j => SubSeq(o, 1, 0) = o
  BY SequenceTuples
<1>4. Marks(stream, "LF") = {}
  BY <1>2 DEF Marks
<1>5. Cardinality(Marks(stream, "LF")) = 0
  BY <1>4, FS_EmptySet
<1>6. E = o
  <2>1. SubSeq(o, 1, 0) = o
    OBVIOUS
  <2>2. Len(sent) - Cardinality(Marks(stream, "LF")) + 1 = 1 /\ Len(sent) = 0
    BY <1>2, <1>3, <1>5
  <2>3. E = SubSeq(sent, 1, 0)
    BY <2>2, Zenon DEF Left
  <2> QED BY <1>2, <2>1, <2>3, Zenon
<1>7. W = <<o>>
  <2>1. o \o o = o
    BY <1>3, CatNothing
  <2>2. W = Pieces(o, "LF")
    BY <1>2, <2>1, Zenon DEF Lines
  <2> QED BY <2>2, PiecesNone, Zenon
<1>8. Texts(<<o>>)
  <2> HIDE DEF o
  <2> QED BY <1>3, TextsTuples
<1>9. Len(<<o>>) = 1 /\ Last(<<o>>) = o
  BY DEF Last
<1> HIDE DEF E, W
<1>10. Stands(W, FALSE, E)
  <2> HIDE DEF o
  <2> QED BY <1>3, <1>6, <1>7, <1>8, <1>9 DEF Stands
<1>11. Underway(stream, decoder, sent)
  <2>1. Free(o, "LF")
    BY <1>3 DEF Free
  <2>2. FALSE \in BOOLEAN /\ Cardinality(Marks(stream, "LF")) <= Len(sent)
    BY <1>2, <1>3, <1>5
  <2> HIDE DEF o
  <2> QED BY <1>2, <1>3, <1>10, <2>1, <2>2, Zenon DEF Underway, E, W
<1>12. Contract!Init
  BY <1>2, <1>6, Zenon DEF Contract!Init, E, Left, Newlines, Marks
<1> QED BY <1>1, <1>2, <1>3, <1>11, <1>12, Zenon DEF StreamInv

\* Every step keeps the invariant, and is one of the contract or does not show.
LEMMA StreamStep ==
  ASSUME InboundAssumption, StreamInv, [Next]_vars
  PROVE  StreamInv' /\ (Contract!Next \/ UNCHANGED Contract!vars)
<1>1. BackendInv'
  BY BackendStep DEF StreamInv
<1> DEFINE Goal == /\ Sequence(heard') /\ Underway(stream', decoder', sent')
                   /\ Contract!Next \/ UNCHANGED Contract!vars
<1>2. ASSUME UNCHANGED vars PROVE Goal
  <2>1. stream' = stream /\ decoder' = decoder /\ sent' = sent /\ heard' = heard
    BY <1>2 DEF vars, client, server
  <2>2. Sequence(heard) /\ Underway(stream, decoder, sent)
    BY DEF StreamInv
  <2>3. UNCHANGED Contract!vars
    BY <2>1, Zenon DEF Contract!vars, Newlines
  <2>4. Sequence(heard') /\ Underway(stream', decoder', sent')
    BY <2>1, <2>2, Zenon
  <2> QED BY <2>3, <2>4
<1>3. ASSUME NEW n \in (Chunks \cup {Len(stream)}) \cap 1..Len(stream), Receives(n) PROVE Goal
  BY <1>3, ReceivesStream
<1>4. ASSUME Blurts PROVE Goal
  BY <1>4, BlurtsStream DEF Contract!Next
<1>5. ASSUME Says \/ Announces \/ SetsModes \/ ListsNames PROVE Goal
  <2>1. PICK m \in Spoken : Sends(m)
    BY <1>5, SaidSpoken
  <2>2. Readable(m)
    BY SpokenReadable
  <2> QED BY <2>1, <2>2, SendsStream DEF Contract!Next
<1>6. Goal
  <2> HIDE DEF Goal
  <2> QED BY <1>2, <1>3, <1>4, <1>5 DEF Next, Goal
<1> QED BY <1>1, <1>6, Zenon DEF StreamInv

\* Every line of the stream is heard once, in order, as it was meant, however it is cut.
THEOREM StreamIsKept == Spec => KeepsStream
<1>1. Init => StreamInv /\ Contract!Init
  BY InboundAssumption, StreamInit
<1>2. StreamInv /\ [Next]_vars => StreamInv' /\ [Contract!Next]_(Contract!vars)
  BY InboundAssumption, StreamStep
<1> QED BY <1>1, <1>2, PTL DEF Spec, KeepsStream, Contract!Spec

=============================================================================
