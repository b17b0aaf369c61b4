---------------------------- MODULE ChannelModes ----------------------------
(***************************************************************************)
(* What the client knows of one channel that it is in: the statuses of its  *)
(* members, its lists and its other modes, as MODE and NAMES tell it, read  *)
(* by the classes of letters that ISUPPORT announces.  Operators on values; *)
(* the module that extends this one keeps the values.                       *)
(*                                                                         *)
(* An ISUPPORT token is one opaque text: what it reads as is a constant.     *)
(***************************************************************************)
EXTENDS Naturals, FiniteSets, SequencesExt, TLC

CONSTANTS
  IsupportToken,   \* token -> [negates, key, value]: "-KEY", "KEY=value" or "KEY"
  MaxIsupportKeys, \* MAX_ISUPPORT_KEYS
  MaxList          \* MAX_LIST_ENTRIES

ASSUME ChannelModesAssumption ==
  /\ {MaxIsupportKeys, MaxList} \subseteq Nat
  /\ \A token \in DOMAIN IsupportToken :
       DOMAIN IsupportToken[token] = {"negates", "key", "value"}

Null == <<"null">>  \* no parameter: as a text, unlike any that is sent

-----------------------------------------------------------------------------
(* ISUPPORT.  The value of PREFIX is {[modes, prefixes]}, two sequences, or   *)
(* {} if it is empty or not there; that of CHANMODES is [a, b, c, d], sets   *)
(* of letters.  A snapshot is the tokens seen, by key; what is made of them  *)
(* is derived.                                                               *)

DefaultPrefixes  == <<[mode |-> "o", prefix |-> "@"], [mode |-> "v", prefix |-> "+"]>>
DefaultChanModes == [a |-> {"b"}, b |-> {"k"}, c |-> {"l"}, d |-> {"i", "m", "n", "p", "s", "t"}]

ParsePrefix(value) ==
  IF value.modes = <<>> \/ Len(value.modes) # Len(value.prefixes) THEN DefaultPrefixes
  ELSE [i \in DOMAIN value.modes |-> [mode |-> value.modes[i], prefix |-> value.prefixes[i]]]

\* An empty value means none, a missing token the default.
PrefixSpecs(raw) ==
  IF "PREFIX" \notin DOMAIN raw THEN DefaultPrefixes
  ELSE IF raw["PREFIX"] = {} THEN <<>> ELSE ParsePrefix(CHOOSE v \in raw["PREFIX"] : TRUE)

ChanModes(raw) == IF "CHANMODES" \in DOMAIN raw THEN raw["CHANMODES"] ELSE DefaultChanModes

\* parseIsupport: a negation resets, and beyond the cap no new key is taken.
ParseIsupport(tokens, previous) ==
  FoldLeft(LAMBDA raw, token :
             LET t == IsupportToken[token]
             IN  IF t.negates THEN [k \in DOMAIN raw \ {t.key} |-> raw[k]]
                 ELSE IF t.key \notin DOMAIN raw /\ Cardinality(DOMAIN raw) >= MaxIsupportKeys THEN raw
                 ELSE (t.key :> t.value) @@ raw,
           previous, tokens)

\* 005: our nick, tokens, and a sentence that is no token if it holds a space.
IsupportParams(params) ==
  LET rest == Tail(params)
  IN  IF rest # <<>> /\ " " \in ToSet(Last(rest)) THEN Front(rest) ELSE rest

-----------------------------------------------------------------------------
(* A MODE string and its parameters.                                         *)

ClassifyMode(mode, raw) ==
  LET cm == ChanModes(raw)
  IN  IF \E i \in DOMAIN PrefixSpecs(raw) : PrefixSpecs(raw)[i].mode = mode THEN "prefix"
      ELSE IF mode \in cm.a THEN "A"
      ELSE IF mode \in cm.b THEN "B"
      ELSE IF mode \in cm.c THEN "C"
      ELSE IF mode \in cm.d THEN "D" ELSE "unknown"

\* Mutant: a limit has a parameter whether set or not.
TakesParam_Always(kind, added) == kind \in {"prefix", "A", "B", "C"}

TakesParam(kind, added) == kind \in {"prefix", "A", "B"} \/ (kind = "C" /\ added)

\* Each change takes the next parameter, if it takes one and there is one left.
ParseModeChanges(modeString, params, raw) ==
  FoldLeft(LAMBDA s, c :
             LET kind  == ClassifyMode(c, raw)
                 takes == TakesParam(kind, s.added) /\ s.taken < Len(params)
             IN  IF c \in {"+", "-"} THEN [s EXCEPT !.added = (c = "+")]
                 ELSE [s EXCEPT !.taken = IF takes THEN @ + 1 ELSE @,
                                !.changes = Append(@, [added |-> s.added, mode |-> c, kind |-> kind,
                                              param |-> IF takes THEN params[s.taken + 1] ELSE Null])],
           [added |-> TRUE, taken |-> 0, changes |-> <<>>], modeString).changes

-----------------------------------------------------------------------------
(* The channel: members has each member's status modes, lists each mask by    *)
(* its letter, modes the parameter of each other mode.                        *)

NoModes(nicks) == [members |-> [n \in nicks |-> {}], lists |-> {}, modes |-> <<>>]

\* applyChannelMode.
ApplyChannelMode(ch, change) ==
  LET entry == <<change.mode, change.param>>
      full  == Cardinality({e \in ch.lists : e[1] = change.mode}) >= MaxList
  IN  IF change.kind = "A"
      THEN IF change.param = Null \/ (change.added /\ full) THEN ch
           ELSE [ch EXCEPT !.lists = IF change.added THEN @ \cup {entry} ELSE @ \ {entry}]
      ELSE IF change.kind = "unknown" THEN ch
      ELSE [ch EXCEPT !.modes = IF change.added THEN (change.mode :> change.param) @@ @
                                ELSE [m \in DOMAIN @ \ {change.mode} |-> @[m]]]

\* A status of somebody who is no member is nobody's.
ApplyStatus(ch, change) ==
  IF change.param \notin DOMAIN ch.members THEN ch
  ELSE [ch EXCEPT !.members[change.param] =
          IF change.added THEN @ \cup {change.mode} ELSE @ \ {change.mode}]

\* #mode.
ModeLine(ch, modeString, params, raw) ==
  FoldLeft(LAMBDA c, change : IF change.kind = "prefix" THEN ApplyStatus(c, change)
                              ELSE ApplyChannelMode(c, change),
           ch, ParseModeChanges(modeString, params, raw))

\* applyPrefixChars: a prefix that ISUPPORT does not have says nothing.
ApplyPrefixChars(modes, chars, raw) ==
  modes \cup {p.mode : p \in {p \in ToSet(PrefixSpecs(raw)) : p.prefix \in ToSet(chars)}}

\* #splitNamesEntry: the prefixes come before the nick.
SplitNamesEntry(entry, raw) ==
  LET isPrefix == {p.prefix : p \in ToSet(PrefixSpecs(raw))}
      nickAt   == CHOOSE i \in 1..(Len(entry) + 1) :
                    /\ \A j \in 1..(i - 1) : entry[j] \in isPrefix
                    /\ i <= Len(entry) => entry[i] \notin isPrefix
  IN  [prefixChars |-> SubSeq(entry, 1, nickAt - 1), nick |-> SubSeq(entry, nickAt, Len(entry))]

\* #namreply, of members that are known by name: it adds what it shows, and takes nothing.
NamesLine(ch, entries, raw) ==
  FoldLeft(LAMBDA c, entry :
             LET e == SplitNamesEntry(entry, raw)
             IN  [c EXCEPT !.members =
                    (e.nick :> ApplyPrefixChars(IF e.nick \in DOMAIN @ THEN @[e.nick] ELSE {},
                                                e.prefixChars, raw)) @@ @],
           ch, entries)

=============================================================================
