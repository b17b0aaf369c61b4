------------------------------- MODULE Tokens -------------------------------
(***************************************************************************)
(* One line of the protocol taken apart into tokens, twice: the reference   *)
(* Tokenizer, a section of the grammar at a time, and JsFastTokenizer, its  *)
(* port, a byte at a time and into a buffer that all lines share.           *)
(*                                                                         *)
(* A line is a sequence of bytes, of which only the delimiters of the       *)
(* grammar differ from each other in what they do.  A token is its type and *)
(* its span, the second position being the first behind it.  A thrown       *)
(* LimitExceededError is a last token that has the limit for its type.      *)
(***************************************************************************)
EXTENDS Naturals, SequencesExt

Space     == " "
Semicolon == ";"

KeyStops   == {"=", Space, Semicolon}
ValueStops == {Space, Semicolon}
NameStops  == {Space, "@", "!"}
UserStops  == {Space, "@"}

Limits == {"tagDataLimit", "tagCountLimit", "rfc1459DataLimit", "paramCountLimit"}

Tok(type, from, to) == <<type, from, to>>
One(type, from, to) == <<Tok(type, from, to)>>
Thrown(tokens)      == Last(tokens)[1] \in Limits

-----------------------------------------------------------------------------
(* Tokenizer.tokenize of t under the limits lim: what follows position p.    *)

Eof(p)          == One("EOF", p, p)
Throw(limit, p) == One(limit, p, p)

\* The first of some positions, or the end of the line.
FirstOf(t, stops) == IF stops = {} THEN Len(t) + 1 ELSE Min(stops)

\* Where the run of bytes outside Stops that begins at p ends, and a run of spaces.
Span(t, p, Stops) == FirstOf(t, {i \in p..Len(t) : t[i] \in Stops})
Spaces(t, p)      == FirstOf(t, {i \in p..Len(t) : t[i] # Space})

\* The tokens of a part of the line, and what follows unless the line ends there.
Then(t, tokens, p, Rest) == tokens \o (IF p > Len(t) THEN Eof(p) ELSE Rest)

\* A token over the run to e, left out when it is empty.
Unless(type, p, e) == IF e > p THEN One(type, p, e) ELSE <<>>

\* A trailing parameter from p on.
Trailing(t, p) == One("TrailingParameter", p, Len(t) + 1) \o Eof(Len(t) + 1)

\* The parameter at p, when there were n before it; Further has what follows, likewise.
ParameterAt(t, lim, Further, p, n) ==
  LET e == Span(t, p, {Space})
      g == Spaces(t, e)
  IN  IF n >= lim.params THEN Throw("paramCountLimit", p)
      ELSE IF t[p] = ":"
      THEN One("TrailingParameterStart", p, p + 1) \o Trailing(t, p + 1)
      ELSE Then(t, One("MiddleParameter", p, e), e,
             Then(t, One("Separator", e, g), g, Further[g][n + 1]))

Parameters(t, lim) ==
  LET Further[p \in 1..Len(t)] == [n \in Nat |-> ParameterAt(t, lim, Further, p, n)]
  IN  Further

CommandAt(t, lim, p) ==
  LET e == Span(t, p, {Space})
      g == Spaces(t, e)
  IN  Then(t, One("Command", p, e), e,
        Then(t, One("Separator", e, g), g, Parameters(t, lim)[g][0]))

\* A prefix: name, !user, @host, each of which may be missing or empty.
HostAt(t, lim, p) ==
  LET Gap(q) == LET g == Spaces(t, q)
                IN  Then(t, One("Separator", q, g), g, CommandAt(t, lim, g))
      e      == Span(t, p + 1, {Space})
  IN  IF t[p] # "@" THEN Gap(p)
      ELSE Then(t, One("PrefixHostStart", p, p + 1), p + 1,
             Then(t, Unless("PrefixHost", p + 1, e), e, Gap(e)))

UserAt(t, lim, p) ==
  LET e == Span(t, p + 1, UserStops)
  IN  IF t[p] # "!" THEN HostAt(t, lim, p)
      ELSE Then(t, One("PrefixUserStart", p, p + 1), p + 1,
             Then(t, Unless("PrefixUser", p + 1, e), e, HostAt(t, lim, e)))

\* The RFC 1459 portion.
Rfc1459(t, lim, p) ==
  LET e == Span(t, p + 1, NameStops)
  IN  IF Len(t) + 1 - p > lim.rfc1459Data THEN Throw("rfc1459DataLimit", p)
      ELSE IF t[p] # ":" THEN CommandAt(t, lim, p)
      ELSE Then(t, One("PrefixStart", p, p + 1), p + 1,
             Then(t, Unless("PrefixName", p + 1, e), e, UserAt(t, lim, e)))

\* Bytes of the tags behind position far are too many.  In a key, a value or behind a "+" this
\* comes before the end of the line, behind a ";" or a space after it.
Far(far, q, Rest) == IF q > far THEN Throw("tagDataLimit", far + 1) ELSE Rest

TagsEnd(t, lim, far, q) ==
  LET g == Spaces(t, q)
  IN  IF far + 1 <= Len(t) /\ far < g
      THEN One("Separator", q, far + 1) \o Throw("tagDataLimit", far + 1)
      ELSE Then(t, One("Separator", q, g), g, Rfc1459(t, lim, g))

\* What is at q behind the n+1st tag, its key, or its value.  Tags has what follows a ";".
TagEnds(t, lim, far, Tags, q, n) ==
  IF t[q] = Space THEN TagsEnd(t, lim, far, q)
  ELSE Then(t, One("TagSeparator", q, q + 1), q + 1, Far(far, q + 1, Tags[q + 1][n + 1]))

ValueAt(t, lim, far, Tags, q, n) ==
  LET e == Span(t, q, ValueStops)
  IN  Far(far, e, Then(t, One("TagValue", q, e), e, TagEnds(t, lim, far, Tags, e, n)))

KeyEnds(t, lim, far, Tags, q, n) ==
  IF t[q] = "="
  THEN One("TagValueStart", q, q + 1) \o Far(far, q + 1, ValueAt(t, lim, far, Tags, q + 1, n))
  ELSE TagEnds(t, lim, far, Tags, q, n)

KeyAt(t, lim, far, Tags, q, n) ==
  LET e == Span(t, q, KeyStops)
  IN  IF e = q THEN KeyEnds(t, lim, far, Tags, q, n)
      ELSE Far(far, e, Then(t, One("TagKey", q, e), e, KeyEnds(t, lim, far, Tags, e, n)))

\* The n+1st tag, of which p is the first byte.
TagAt(t, lim, far, Tags, p, n) ==
  IF n >= lim.tagCount THEN Throw("tagCountLimit", p)
  ELSE IF t[p] = "+"
  THEN One("TagClientKeyStart", p, p + 1)
         \o Far(far, p + 1, Then(t, <<>>, p + 1, KeyAt(t, lim, far, Tags, p + 1, n)))
  ELSE KeyAt(t, lim, far, Tags, p, n)

TagList(t, lim, far) ==
  LET Tags[p \in 1..Len(t)] == [n \in Nat |-> TagAt(t, lim, far, Tags, p, n)] IN Tags

Tokenize(t, lim) ==
  LET p   == Spaces(t, 1)
      far == p + lim.tagData
  IN  IF p > Len(t) THEN Eof(p)
      ELSE IF t[p] # "@" THEN Rfc1459(t, lim, p)
      ELSE IF lim.tagData = 0 THEN Throw("tagDataLimit", p)
      ELSE Then(t, One("TagsStart", p, p + 1), p + 1, TagList(t, lim, far)[p + 1][0])

-----------------------------------------------------------------------------
(* JsFastTokenizer.  Its state between lines is the scratch buffer and the   *)
(* count; within one, a run is what it is in the middle of (mode), the       *)
(* position where that began (from), how many tags or parameters it has seen *)
(* (n), how many triples it has written (j) and what it has thrown (error).  *)

\* Mutant: room for a token per byte and the EOF.
TripleCapacity_Tight(bytes) == bytes + 1

\* In triples.
TripleCapacity(bytes) == bytes * 2 + 16

\* The scratch buffer: how many triples there is room for, and those that were ever
\* written; the zeros behind them are left out.
Fresh == [scratch |-> [room |-> 0, triples |-> <<>>], count |-> 0, error |-> <<>>]

\* One that is long enough is used as it is.
Sized(scratch, bytes) ==
  IF scratch.room >= TripleCapacity(bytes) THEN scratch
  ELSE [room |-> TripleCapacity(bytes), triples |-> <<>>]

\* What is written behind the end of an Int32Array is lost.
Stored(scratch, i, tok) ==
  IF i > scratch.room THEN scratch
  ELSE IF i > Len(scratch.triples) THEN [scratch EXCEPT !.triples = Append(@, tok)]
  ELSE [scratch EXCEPT !.triples[i] = tok]

Emit(r, type, from, to) ==
  [r EXCEPT !.j = @ + 1, !.scratch = Stored(@, r.j + 1, Tok(type, from, to))]

Enter(r, mode, from) == [r EXCEPT !.mode = mode, !.from = from]
Mark(r, type, p, mode) == Enter(Emit(r, type, p, p + 1), mode, p + 1)
Fails(r, limit, p)     == Enter([r EXCEPT !.error = Throw(limit, p)], "thrown", p)

\* The token a mode is in the middle of, at the position behind it: some are left out
\* when they are empty.
Content == [key |-> "TagKey", value |-> "TagValue", tagsGap |-> "Separator",
            name |-> "PrefixName", user |-> "PrefixUser", host |-> "PrefixHost",
            prefixGap |-> "Separator", command |-> "Command", gap |-> "Separator",
            middle |-> "MiddleParameter", trailing |-> "TrailingParameter"]

Closed(r, p) ==
  IF r.mode \notin DOMAIN Content \/ (r.mode \in {"name", "user", "host"} /\ p = r.from) THEN r
  ELSE Emit(r, Content[r.mode], r.from, p)

\* The byte that ends a key or a value, or a tag that has neither.
EndsTag(r, c, p) ==
  LET s == [r EXCEPT !.n = @ + 1]
  IN  IF c = Semicolon THEN Mark(s, "TagSeparator", p, "tag") ELSE Enter(s, "tagsGap", p)

AfterKey(r, c, p) ==
  IF c = "=" THEN Mark(r, "TagValueStart", p, "value") ELSE EndsTag(r, c, p)

\* Byte c at position p of the RFC 1459 portion, of which left bytes are left.
BeginsRfc(r, lim, c, p, left) ==
  IF left > lim.rfc1459Data THEN Fails(r, "rfc1459DataLimit", p)
  ELSE IF c = ":" THEN Mark([r EXCEPT !.n = 0], "PrefixStart", p, "name")
  ELSE Enter([r EXCEPT !.n = 0], "command", p)

\* Byte c at p while in the tags: nothing of them lies behind position r.far.
TagByte(r, lim, c, p, left) ==
  CASE r.mode = "tagsGap" /\ p > r.far -> Fails(Closed(r, p), "tagDataLimit", p)
    [] r.mode # "tagsGap" /\ p > r.far -> Fails(r, "tagDataLimit", p)
    [] r.mode = "tagsGap" /\ p <= r.far ->
         IF c = Space THEN r ELSE BeginsRfc(Closed(r, p), lim, c, p, left)
    [] r.mode = "tag" /\ p <= r.far ->
         IF r.n >= lim.tagCount THEN Fails(r, "tagCountLimit", p)
         ELSE IF c = "+" THEN Mark(r, "TagClientKeyStart", p, "client")
         ELSE IF c \in KeyStops THEN AfterKey(r, c, p) ELSE Enter(r, "key", p)
    [] r.mode = "client" /\ p <= r.far ->
         IF c \in KeyStops THEN AfterKey(r, c, p) ELSE Enter(r, "key", p)
    [] r.mode = "key" /\ p <= r.far ->
         IF c \in KeyStops THEN AfterKey(Closed(r, p), c, p) ELSE r
    [] r.mode = "value" /\ p <= r.far ->
         IF c \in ValueStops THEN EndsTag(Closed(r, p), c, p) ELSE r

\* Byte c at p behind the tags.
RfcByte(r, lim, c, p) ==
  CASE r.mode \in {"name", "user", "host"} ->
         IF c = Space THEN Enter(Closed(r, p), "prefixGap", p)
         ELSE IF c = "!" /\ r.mode = "name" THEN Mark(Closed(r, p), "PrefixUserStart", p, "user")
         ELSE IF c = "@" /\ r.mode # "host" THEN Mark(Closed(r, p), "PrefixHostStart", p, "host")
         ELSE r
    [] r.mode = "prefixGap" -> IF c = Space THEN r ELSE Enter(Closed(r, p), "command", p)
    [] r.mode \in {"command", "middle"} -> IF c = Space THEN Enter(Closed(r, p), "gap", p) ELSE r
    [] r.mode = "gap" ->
         IF c = Space THEN r
         ELSE LET s == [Closed(r, p) EXCEPT !.n = @ + 1]
              IN  IF r.n >= lim.params THEN Fails(Closed(r, p), "paramCountLimit", p)
                  ELSE IF c = ":" THEN Mark(s, "TrailingParameterStart", p, "trailing")
                  ELSE Enter(s, "middle", p)
    [] r.mode = "trailing" -> r

\* Leading spaces, up to the first byte that is none.
LeadByte(r, lim, c, p, left) ==
  IF c = Space THEN r
  ELSE IF c # "@" THEN BeginsRfc(r, lim, c, p, left)
  ELSE IF lim.tagData = 0 THEN Fails(r, "tagDataLimit", p)
  ELSE Mark([r EXCEPT !.far = p + lim.tagData], "TagsStart", p, "tag")

TagModes == {"tag", "client", "key", "value", "tagsGap"}

Byte(r, lim, t, p) ==
  CASE r.mode = "thrown"   -> r
    [] r.mode = "lead"     -> LeadByte(r, lim, t[p], p, Len(t) + 1 - p)
    [] r.mode \in TagModes -> TagByte(r, lim, t[p], p, Len(t) + 1 - p)
    [] OTHER               -> RfcByte(r, lim, t[p], p)

\* finish at the end of the line, where some modes check the limit of the tags once more.
Finish(r, e) ==
  IF r.mode = "thrown" THEN r
  ELSE IF r.mode \in {"client", "key", "value"} /\ e > r.far THEN Fails(r, "tagDataLimit", e)
  ELSE Emit(Closed(r, e), "EOF", e, e)

\* What it is before the first byte, left as it was by another line, and behind each.
Begin(tokenizer, t) ==
  [mode |-> "lead", from |-> 1, n |-> 0, far |-> 0, j |-> 0, error |-> <<>>,
   scratch |-> Sized(tokenizer.scratch, Len(t))]

Reading(t, lim, first) ==
  LET Read[p \in 0..Len(t)] == IF p = 0 THEN first ELSE Byte(Read[p - 1], lim, t, p) IN Read

\* tokenizeInto: the run over line t.  A limit leaves the count of the line before it behind.
TokenizeInto(tokenizer, t, lim) ==
  LET last == Finish(Reading(t, lim, Begin(tokenizer, t))[Len(t)], Len(t) + 1)
  IN  [scratch |-> last.scratch, error |-> last.error,
       count |-> IF last.error # <<>> THEN tokenizer.count ELSE last.j]

=============================================================================
