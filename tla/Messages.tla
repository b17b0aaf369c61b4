------------------------------ MODULE Messages ------------------------------
(***************************************************************************)
(* The intermediate representation of a line, and the way there and back:   *)
(* Parser and FlatParser assemble a message from the tokens, buildMessage   *)
(* writes it down again.                                                    *)
(*                                                                         *)
(* Texts are sequences of bytes, decoded or not: UTF-8 is left out.  Tags    *)
(* are a function from keys to values, whose order is left out, and a       *)
(* source has only the fields that are there: <<>> is none.                 *)
(***************************************************************************)
EXTENDS Tokens, FiniteSets

CONSTANT KeyBytes  \* bytes that a tag key may consist of: letters, digits and hyphens

ASSUME MessagesAssumption == KeyBytes \cap {"+", "=", ";", " ", "@", ":", "!", "CR", "LF"} = {}

-----------------------------------------------------------------------------
(* Tag values.                                                              *)

\* CR and LF are a byte each, written "CR" and "LF".
Escapes == [c \in {";", " ", "\\", "CR", "LF"} |->
              CASE c = ";" -> ":" [] c = " " -> "s" [] c = "\\" -> "\\"
                [] c = "CR" -> "r" [] c = "LF" -> "n"]

EscapeTagValue(v) ==
  FlattenSeq([i \in DOMAIN v |-> IF v[i] \in DOMAIN Escapes THEN <<"\\", Escapes[v[i]]>> ELSE <<v[i]>>])

\* Behind a backslash any other byte stands for itself; one at the end is dropped.
Unescaped(c) == IF \E e \in DOMAIN Escapes : Escapes[e] = c
                THEN CHOOSE e \in DOMAIN Escapes : Escapes[e] = c ELSE c

UnescapeTagValue(v) ==
  FoldLeft(LAMBDA s, c : IF s.after THEN [text |-> Append(s.text, Unescaped(c)), after |-> FALSE]
                         ELSE IF c = "\\" THEN [s EXCEPT !.after = TRUE]
                         ELSE [s EXCEPT !.text = Append(@, c)],
           [text |-> <<>>, after |-> FALSE], v).text

-----------------------------------------------------------------------------
(* Parser.parse.                                                            *)

Blank == [tags |-> <<>>, source |-> <<>>, command |-> <<>>, params |-> <<>>,
          key |-> <<>>, keyed |-> FALSE, value |-> <<>>, client |-> FALSE]

\* A value without a key must not leak onto the next tag.
FlushTag(s) ==
  [s EXCEPT !.tags = IF s.keyed THEN (s.key :> s.value) @@ @ ELSE @, !.keyed = FALSE, !.value = <<>>]

\* The token type of line t; tokens of other types carry nothing.
Takes(t, s, tok) ==
  LET text  == SubSeq(t, tok[2], tok[3] - 1)
      f     == FlushTag(s)
      type  == tok[1]
  IN  CASE type = "TagClientKeyStart" -> [s EXCEPT !.client = TRUE]
        [] type = "TagKey" -> [f EXCEPT !.key = (IF s.client THEN <<"+">> ELSE <<>>) \o text,
                                        !.keyed = TRUE, !.client = FALSE]
        [] type = "TagValue"        -> [s EXCEPT !.value = UnescapeTagValue(text)]
        [] type = "TagSeparator"    -> [f EXCEPT !.client = FALSE]
        [] type = "PrefixStart"     -> [f EXCEPT !.source = ("name" :> <<>>)]
        [] type = "PrefixName"      -> [s EXCEPT !.source = ("name" :> text) @@ @]
        [] type = "PrefixUserStart" -> [s EXCEPT !.source = ("user" :> <<>>) @@ @]
        [] type = "PrefixUser"      -> [s EXCEPT !.source = ("user" :> text) @@ @]
        [] type = "PrefixHost"      -> [s EXCEPT !.source = ("host" :> text) @@ @]
        [] type = "Separator"       -> f
        [] type = "Command"         -> [f EXCEPT !.command = text]
        [] type \in {"MiddleParameter", "TrailingParameter"} -> [s EXCEPT !.params = Append(@, text)]
        [] OTHER -> s

Assembled(s) ==
  LET f == FlushTag(s)
  IN  [tags |-> f.tags, source |-> f.source, command |-> f.command, params |-> f.params]

Parse(t, tokens) ==
  LET Taken[i \in 0..Len(tokens)] == IF i = 0 THEN Blank ELSE Takes(t, Taken[i - 1], tokens[i])
  IN  Assembled(Taken[Len(tokens)])

\* FlatParser.parse: the same switch, over the first count triples of the scratch buffer.
\* What is read behind the end of an Int32Array is undefined, which is of no type.
FlatParse(t, scratch, count) ==
  LET triples == scratch.triples
      Taken[i \in 0..count] ==
        IF i = 0 THEN Blank
        ELSE IF i \in DOMAIN triples THEN Takes(t, Taken[i - 1], triples[i]) ELSE Taken[i - 1]
  IN  Assembled(Taken[count])

\* What the reference makes of a line: a set with the message, or nothing.
Understood(t, lim) ==
  LET tokens == Tokenize(t, lim) IN IF Thrown(tokens) THEN {} ELSE {Parse(t, tokens)}

-----------------------------------------------------------------------------
(* buildMessage.                                                            *)

ValidKey(k) ==
  LET body == IF k # <<>> /\ Head(k) = "+" THEN Tail(k) ELSE k
  IN  body # <<>> /\ ToSet(body) \subseteq KeyBytes

NeedsColon(p) == p = <<>> \/ " " \in ToSet(p) \/ Head(p) = ":"

Breaks(text) == ToSet(text) \cap {"CR", "LF"} # {}

\* A message that the strict path does not throw at.  It does not look at the source, nor
\* at the first byte of the command.
Valid(m) ==
  /\ \A k \in DOMAIN m.tags : ValidKey(k)
  /\ m.command # <<>> /\ " " \notin ToSet(m.command) /\ ~Breaks(m.command)
  /\ \A i \in DOMAIN m.params : ~Breaks(m.params[i]) /\ (i < Len(m.params) => ~NeedsColon(m.params[i]))

\* What else it takes for a message to be read back as it was.
Proper(m) ==
  /\ m = [tags |-> m.tags, source |-> m.source, command |-> m.command, params |-> m.params]
  /\ m.tags = [k \in DOMAIN m.tags |-> m.tags[k]] /\ m.source = [f \in DOMAIN m.source |-> m.source[f]]
  /\ DOMAIN m.source \subseteq {"name", "user", "host"}
  /\ m.source # <<>> =>
       /\ "name" \in DOMAIN m.source /\ ToSet(m.source["name"]) \cap NameStops = {}
       /\ "user" \in DOMAIN m.source => ToSet(m.source["user"]) \cap UserStops = {}
       /\ "host" \in DOMAIN m.source => m.source["host"] # <<>> /\ Space \notin ToSet(m.source["host"])
  /\ \A f \in DOMAIN m.source : ~ Breaks(m.source[f])
  /\ Head(m.command) \notin {"@", ":"}

TagText(k, v) == IF v = <<>> THEN k ELSE k \o <<"=">> \o EscapeTagValue(v)

BuildMessage(m) ==
  LET keys   == SetToSeq(DOMAIN m.tags)
      Field(f, mark) == IF f \in DOMAIN m.source THEN <<mark>> \o m.source[f] ELSE <<>>
      tags   == [i \in DOMAIN keys |->
                   <<IF i = 1 THEN "@" ELSE ";">> \o TagText(keys[i], m.tags[keys[i]])]
      params == [i \in DOMAIN m.params |->
                   <<" ">> \o (IF i = Len(m.params) /\ NeedsColon(m.params[i]) THEN <<":">> ELSE <<>>)
                     \o m.params[i]]
  IN  (IF keys = <<>> THEN <<>> ELSE FlattenSeq(tags) \o <<" ">>)
        \o (IF m.source = <<>> THEN <<>>
            ELSE Field("name", ":") \o Field("user", "!") \o Field("host", "@") \o <<" ">>)
        \o m.command \o FlattenSeq(params)

=============================================================================
