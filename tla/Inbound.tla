------------------------------ MODULE Inbound -------------------------------
(***************************************************************************)
(* From the bytes of the transport to what the client knows: decodeLines    *)
(* cuts them into lines, parseMessage reads each line with the fast         *)
(* backend, and the dispatcher applies 005, 353 and MODE to the channel we  *)
(* are in.  All of it happens while a chunk is delivered, and chunks end     *)
(* anywhere.                                                               *)
(*                                                                         *)
(* The server writes well-formed messages as buildMessage would, and keeps  *)
(* to the modes it announces, but it may write any other line as well.      *)
(***************************************************************************)
EXTENDS Messages, ChannelModes

CONSTANTS
  Lim,       \* the limits of the tokenizers
  MaxLine,   \* MAX_LINE_CHARS
  Me, Chan,  \* our nick, and the channel we are in
  Nicks,     \* its members: known by name from the start
  Profiles,  \* what servers support: name -> [tokens, status, lists, always, onSet, flags]
  Params,    \* of lists, of modes that always take one and of those that do when set
  Initially, \* facts about the channel that date from before we joined
  Sayings,   \* messages the server may send that say nothing about the channel
  Noise,     \* texts it may send, whatever they mean
  Chunks,    \* bound: the sizes of a chunk, besides all there is
  Openings,  \* bound: those of all these texts that others may follow
  MaxSent    \* bound: the lines of one behaviour

Sequence(s)   == s \in Seq(ToSet(s))
Texts(ts)     == Sequence(ts) /\ \A i \in 1..Len(ts) : Sequence(ts[i])
IsMessage(m)  ==
  /\ IsFiniteSet(DOMAIN m.tags) /\ \A k \in DOMAIN m.tags : Sequence(k) /\ Sequence(m.tags[k])
  /\ \A f \in DOMAIN m.source : Sequence(m.source[f])
  /\ Sequence(m.command) /\ Texts(m.params)

ASSUME InboundAssumption ==
  /\ {MaxLine, MaxSent, Lim.tagData} \cup Chunks \subseteq Nat /\ IsFiniteSet(Nicks)
  /\ "rfc" \in DOMAIN Profiles
  /\ \A p \in DOMAIN Profiles : Sequence(Profiles[p].status) /\ Texts(Profiles[p].tokens)
  /\ Sequence(Me) /\ Sequence(Chan) /\ \A x \in Params : Sequence(x)
  /\ \A m \in Sayings : IsMessage(m) /\ Valid(m)
  /\ \A t \in Noise : Sequence(t) /\ ToSet(t) \cap {"CR", "LF"} = {}

VARIABLES
  stream,     \* bytes on their way
  decoder,    \* decodeLines: the partial line, and are we looking for its end only
  tokenizer,  \* the fast tokenizer that all lines share
  line,       \* the last line that was parsed, or <<>>
  heard,      \* the messages of the stream so far
  isupport,   \* the ISUPPORT tokens seen
  channel,    \* what the client knows of Chan
  sent,       \* the server: its lines so far, [meant, long]
  profile,    \* the server: what it supports
  truth,      \* the server: the facts about Chan
  told        \* the server: those it has told us

client == <<decoder, tokenizer, line, heard, isupport, channel>>
server == <<sent, profile, truth, told>>
vars   == <<stream, client, server>>

-----------------------------------------------------------------------------
(* What the server has to say about the channel.                            *)

Plain(command, params) == [tags |-> <<>>, source |-> <<>>, command |-> command, params |-> params]

Announcement(p) ==
  Plain(<<"005">>, <<Me>> \o Profiles[p].tokens \o << <<"are", " ", "supported">> >>)

\* The changes that a server may make, each with the fact it is about.
StatusLetters(p) == {s.mode : s \in ToSet(p.status)}

Changes(p) ==
  LET Change(added, mode, param, fact) ==
        [added |-> added, mode |-> mode, param |-> param, fact |-> fact]
  IN  {Change(a, l, <<n>>, <<"status", n, l>>) : a \in BOOLEAN, l \in StatusLetters(p), n \in Nicks}
        \cup {Change(a, l, x, <<"list", l, x>>) : a \in BOOLEAN, l \in p.lists, x \in Params}
        \cup {Change(a, l, x, <<"mode", l, x>>) : a \in BOOLEAN, l \in p.always, x \in Params}
        \cup {Change(TRUE, l, x, <<"mode", l, x>>) : l \in p.onSet, x \in Params}
        \cup {Change(FALSE, l, Null, <<"mode", l, Null>>) : l \in p.onSet}
        \cup {Change(a, l, Null, <<"mode", l, Null>>) : a \in BOOLEAN, l \in p.flags}

\* A sign, where it changes, and the letter.
ModeText(cs) ==
  FlattenSeq([i \in DOMAIN cs |->
    (IF i > 1 /\ cs[i].added = cs[i - 1].added THEN <<>> ELSE <<IF cs[i].added THEN "+" ELSE "-">>)
      \o <<cs[i].mode>>])

ModeMessage(cs) ==
  LET params == FlattenSeq([i \in DOMAIN cs |-> IF cs[i].param = Null THEN <<>> ELSE <<cs[i].param>>])
  IN  Plain(<<"MODE">>, <<Chan, ModeText(cs)>> \o params)

\* 353 shows of each member every status, or (without multi-prefix) the highest alone.
Held(p, facts, n) ==
  LET status == Profiles[p].status
  IN  FlattenSeq([i \in DOMAIN status |->
        IF <<"status", n, status[i].mode>> \in facts THEN <<status[i]>> ELSE <<>>])

Shown(p, facts, n, k) ==
  LET held == Held(p, facts, n) IN SubSeq(held, 1, IF k < Len(held) THEN k ELSE Len(held))

NamesMessage(p, facts, names, k) ==
  LET Entry(n) == LET shown == Shown(p, facts, n, k)
                  IN  [i \in DOMAIN shown |-> shown[i].prefix] \o <<n>>
  IN  Plain(<<"353">>, <<Me, <<"=">>, Chan,
        FlattenSeq([i \in DOMAIN names |-> (IF i = 1 THEN <<>> ELSE <<" ">>) \o Entry(names[i])]) >>)

\* Everything it may say, whatever the modes are.
ChangeLists(p) == UNION {[1..n -> Changes(Profiles[p])] : n \in 1..2}
StatusFacts(p) == {"status"} \X Nicks \X StatusLetters(Profiles[p])

SpokenAs(p) ==
  {Announcement(p)}
    \cup {ModeMessage(cs) : cs \in ChangeLists(p)}
    \cup {NamesMessage(p, facts, names, k) :
            facts \in SUBSET StatusFacts(p), names \in SetToSeqs(Nicks), k \in {1, Len(Profiles[p].status)}}

Spoken == Sayings \cup UNION {SpokenAs(p) : p \in DOMAIN Profiles}

\* A server that knows the protocol, and the limits of its clients.
ASSUME SpokenAssumption ==
  \A m \in Spoken :
    IsMessage(m) /\ Valid(m) /\ Proper(m) /\ Understood(BuildMessage(m), Lim) = {m}

-----------------------------------------------------------------------------
(* decodeLines.                                                             *)

\* What is before each mark, and what is behind the last.
Piece(cut, c, mark) ==
  IF c = mark THEN Append(cut, <<>>) ELSE Append(Front(cut), Append(Last(cut), c))

Pieces(text, mark) ==
  LET Cut[i \in 0..Len(text)] ==
        IF i = 0 THEN << <<>> >> ELSE Piece(Cut[i - 1], text[i], mark)
  IN  Cut[Len(text)]

Lines(bytes) == Pieces(bytes, "LF")

\* The texts that are not empty.
Filled(texts) ==
  FlattenSeq([i \in DOMAIN texts |-> IF texts[i] = <<>> THEN <<>> ELSE <<texts[i]>>])

\* A CR at the end of a line is stripped, and empty lines are dropped.
Framed(lines) ==
  LET Stripped(l) == IF l # <<>> /\ Last(l) = "CR" THEN Front(l) ELSE l
  IN  Filled([i \in DOMAIN lines |-> Stripped(lines[i])])

\* Mutant: what is left of a line that was too long is taken for a line.
Decodes_Unaligned(d, chunk) ==
  LET all  == Lines(d.buffer \o chunk)
      rest == Last(all)
  IN  [buffer |-> IF Len(rest) > MaxLine THEN <<>> ELSE rest, resyncing |-> FALSE,
       lines |-> Framed(Front(all))]

\* The lines that a chunk completes.  A partial line that is too long is discarded, and
\* the next newline ends it.
Decodes(d, chunk) ==
  LET all     == Lines(d.buffer \o chunk)
      rest    == Last(all)
      over    == Len(rest) > MaxLine
      aligned == ~d.resyncing \/ Len(all) > 1
  IN  [buffer |-> IF over THEN <<>> ELSE rest, resyncing |-> over \/ ~aligned,
       lines |-> Framed(IF d.resyncing /\ Len(all) > 1 THEN Tail(Front(all)) ELSE Front(all))]

-----------------------------------------------------------------------------
(* The dispatcher.                                                          *)

\* The words of a text: list.split(" ") without the empty ones.
Words(text) == Filled(Pieces(text, " "))

\* c is [isupport, channel].
Dispatch(c, m) ==
  LET p == m.params
  IN  IF m.command = <<"005">> /\ p # <<>>
      THEN [c EXCEPT !.isupport = ParseIsupport(IsupportParams(p), @)]
      ELSE IF m.command = <<"353">> /\ Len(p) >= 4 /\ p[3] = Chan
      THEN [c EXCEPT !.channel = NamesLine(@, Words(p[4]), c.isupport)]
      ELSE IF m.command = <<"MODE">> /\ Len(p) >= 2 /\ p[1] = Chan
      THEN [c EXCEPT !.channel = ModeLine(@, p[2], SubSeq(p, 3, Len(p)), c.isupport)]
      ELSE c

\* createMessageStream for one line, of which the tokenizer has left tk behind: one that does
\* not parse is dropped, and no more than that.  s is [tokenizer, line, heard, isupport,
\* channel].
Accepts(s, t, tk) ==
  LET m == FlatParse(t, tk.scratch, tk.count)
      c == Dispatch([isupport |-> s.isupport, channel |-> s.channel], m)
  IN  IF tk.error # <<>> THEN [s EXCEPT !.tokenizer = tk, !.line = t]
      ELSE [tokenizer |-> tk, line |-> t, heard |-> Append(s.heard, m),
            isupport |-> c.isupport, channel |-> c.channel]

Parses(s, t) == Accepts(s, t, TokenizeInto(s.tokenizer, t, Lim))

\* And for one line after the other.
Hears(s, lines) ==
  LET Heard[i \in 0..Len(lines)] == IF i = 0 THEN s ELSE Parses(Heard[i - 1], lines[i])
  IN  Heard[Len(lines)]

Becomes(s) ==
  /\ tokenizer' = s.tokenizer /\ line' = s.line /\ heard' = s.heard
  /\ isupport' = s.isupport /\ channel' = s.channel

\* A chunk of n bytes arrives.
Receives(n) ==
  LET d == Decodes(decoder, SubSeq(stream, 1, n))
  IN  /\ stream' = SubSeq(stream, n + 1, Len(stream))
      /\ decoder' = [buffer |-> d.buffer, resyncing |-> d.resyncing]
      /\ Becomes(Hears([tokenizer |-> tokenizer, line |-> line, heard |-> heard,
                        isupport |-> isupport, channel |-> channel], d.lines))
      /\ UNCHANGED server

-----------------------------------------------------------------------------
(* The server.                                                              *)

\* It writes text t, which means meant, and ends the line.
Writes(t, meant, ending) ==
  /\ Len(sent) < MaxSent - 1 => t \in Openings
  /\ stream' = stream \o t \o ending
  /\ sent' = Append(sent, [meant |-> meant, long |-> Len(t \o ending) - 1 > MaxLine])
  /\ UNCHANGED client

Sends(m) == Writes(BuildMessage(m), {m}, <<"CR", "LF">>)

Says == /\ Len(sent) < MaxSent
        /\ \E m \in Sayings : Sends(m)
        /\ UNCHANGED <<profile, truth, told>>

\* What any other line means is what the reference backend makes of it.
Blurts == /\ Len(sent) < MaxSent
          /\ \E t \in Noise : Writes(t, IF t = <<>> THEN {} ELSE Understood(t, Lim), <<"LF">>)
          /\ UNCHANGED <<profile, truth, told>>

\* 005, before anything is said about the channel.
Announces ==
  /\ sent = <<>>
  /\ \E p \in DOMAIN Profiles : Profiles[p].tokens # <<>> /\ profile' = p /\ Sends(Announcement(p))
  /\ UNCHANGED <<truth, told>>

\* A mode other than a list has one parameter at a time.
About(fact, facts) ==
  {f \in facts : f = fact \/ (fact[1] = "mode" /\ f[1] = "mode" /\ f[2] = fact[2])}

Made(facts, change) ==
  (facts \ About(change.fact, facts)) \cup (IF change.added THEN {change.fact} ELSE {})

SetsModes ==
  /\ Len(sent) < MaxSent
  /\ \E cs \in ChangeLists(profile) :
       /\ Sends(ModeMessage(cs))
       /\ truth' = FoldLeft(Made, truth, cs)
       /\ told' = FoldLeft(Made, told, cs)
  /\ UNCHANGED profile

ListsNames ==
  LET status == Profiles[profile].status
  IN  Len(sent) < MaxSent /\ \E names \in SetToSeqs(Nicks), k \in {1, Len(status)} :
        /\ Sends(NamesMessage(profile, truth, names, k))
        /\ told' = told \cup UNION {{<<"status", n, s.mode>> : s \in ToSet(Shown(profile, truth, n, k))} : n \in Nicks}
        /\ UNCHANGED <<profile, truth>>

-----------------------------------------------------------------------------

Init ==
  /\ stream = <<>> /\ decoder = [buffer |-> <<>>, resyncing |-> FALSE]
  /\ tokenizer = Fresh /\ line = <<>> /\ heard = <<>>
  /\ isupport = <<>> /\ channel = NoModes({<<n>> : n \in Nicks})
  /\ sent = <<>> /\ profile = "rfc" /\ truth = Initially /\ told = {}

Next ==
  \/ \E n \in (Chunks \cup {Len(stream)}) \cap 1..Len(stream) : Receives(n)
  \/ Says \/ Blurts \/ Announces \/ SetsModes \/ ListsNames

Spec == Init /\ [][Next]_vars

-----------------------------------------------------------------------------

\* The two backends are one: whatever lines the fast tokenizer has seen before, it has
\* left in its buffer the tokens, or thrown the error, that the reference has for the last.
BackendsAgree ==
  line # <<>> =>
    LET tokens == Tokenize(line, Lim)
    IN  IF Thrown(tokens) THEN tokenizer.error = <<Last(tokens)>>
        ELSE /\ tokenizer.error = <<>> /\ tokenizer.count <= Len(tokenizer.scratch.triples)
             /\ SubSeq(tokenizer.scratch.triples, 1, tokenizer.count) = tokens

\* What the server has written is heard as it was meant, in order and once, however it is
\* cut into chunks: a line that does not parse costs nothing but itself, and only one that
\* outgrows the buffer may be lost.
Newlines == Cardinality({i \in DOMAIN stream : stream[i] = "LF"})
Contract == INSTANCE InboundContract
              WITH pending <- SubSeq(sent, Len(sent) - Newlines + 1, Len(sent))
KeepsStream == Contract!Spec

\* What the client takes the modes to be.
Claims ==
  UNION {{<<"status", n[1], m>> : m \in channel.members[n]} : n \in DOMAIN channel.members}
    \cup {<<"list", e[1], e[2]>> : e \in channel.lists}
    \cup {<<"mode", m, channel.modes[m]>> : m \in DOMAIN channel.modes}

\* With nothing under way, the client knows all it was told about the channel, and what it
\* believes is true: every parameter went to the mode it was for, by whatever classes the
\* server has announced, and what NAMES adds is not out of date.
ModesInSync == stream = <<>> => told \subseteq Claims /\ Claims \subseteq truth

=============================================================================
