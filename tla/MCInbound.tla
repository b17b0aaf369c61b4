----------------------------- MODULE MCInbound ------------------------------
EXTENDS Inbound

MCLim == [tagData |-> 9, tagCount |-> 2, rfc1459Data |-> 16, params |-> 4]

\* A server with the modes of RFC 1459, and one where the same letters are of other
\* classes.
MCProfiles ==
  [rfc  |-> [tokens |-> <<>>, status |-> DefaultPrefixes,
             lists |-> {"b"}, always |-> {"k"}, onSet |-> {"l"}, flags |-> {"m"}],
   else |-> [tokens |-> << <<"PREFIX=(qo)~@">>, <<"CHANMODES=e,l,k,b">> >>,
             status |-> <<[mode |-> "q", prefix |-> "~"], [mode |-> "o", prefix |-> "@"]>>,
             lists |-> {"e"}, always |-> {"l"}, onSet |-> {"k"}, flags |-> {"b"}]]

MCIsupportToken ==
  (<<"PREFIX=(qo)~@">> :> [negates |-> FALSE, key |-> "PREFIX",
                           value |-> {[modes |-> <<"q", "o">>, prefixes |-> <<"~", "@">>]}])
  @@ (<<"CHANMODES=e,l,k,b">> :> [negates |-> FALSE, key |-> "CHANMODES",
                                  value |-> [a |-> {"e"}, b |-> {"l"}, c |-> {"k"}, d |-> {"b"}]])
  @@ (<<"PREFIX=">> :> [negates |-> FALSE, key |-> "PREFIX", value |-> {}])
  @@ (<<"-PREFIX">> :> [negates |-> TRUE, key |-> "PREFIX", value |-> {}])

MCInitially == {<<"status", "x", "o">>}
MCKeyBytes  == {"a", "b"}
MCMe        == <<"me">>
MCChan      == <<"#a">>
MCParams    == {<<"p">>, <<"r">>}
MCNicks     == {"x", "y"}

\* Messages with everything that is written in a way of its own: no, empty and escaped
\* tag values, tags of clients, sources with and without a user and a host, last
\* parameters that are empty, hold a space or begin with a colon.
MCTags    == {<<>>, <<"a">> :> <<>>, <<"a">> :> <<";">>, <<"+", "a">> :> <<"\\", " ">>,
              (<<"a">> :> <<>>) @@ (<<"b">> :> <<"=">>)}
MCSources == {<<>>, "name" :> <<"n">>, ("name" :> <<"n">>) @@ ("user" :> <<>>) @@ ("host" :> <<"h">>),
              ("name" :> <<"n">>) @@ ("user" :> <<"u">>)}
MCPars    == {<<>>, << <<"a">> >>, << <<>> >>, << <<"a">>, <<":", "b">> >>, << <<"a">>, <<"b", " ">> >>}

MCSayings == [tags : MCTags, source : MCSources, command : {<<"C">>}, params : MCPars]

\* All texts of up to n bytes of an alphabet.
AllTexts(bytes, n) == UNION {[1..k -> bytes] : k \in 0..n}

\* Tags and what follows them, and lines without; one with too many parameters, and one
\* that outgrows the buffer.
MCLong  == [i \in 1..18 |-> IF i = 3 THEN " " ELSE "a"]
MCNoise == {<<"@">> \o t : t \in AllTexts({"+", "a", "=", ";", " "}, 4)}
             \cup {<<"@">> \o t \o <<"a", "a", "a", "a", "a", " ", "a">> :
                     t \in AllTexts({"+", "a", "=", ";", " "}, 3)}
             \cup AllTexts({":", "a", "!", "@", " "}, 3)
             \cup {MCLong, <<"a", " ", "a", " ", "a", " ", "a", " ", "a", " ", "a">>}

MCOpenings ==
  {MCLong, <<"@", "a", "=", "a", ";", "+", "a", " ", "a">>,
   <<"MODE", " ", "#a", " ", "-", "o", "+", "l", " ", "x", " ", "p">>,
   BuildMessage(Plain(<<"005">>, <<MCMe>> \o MCProfiles["else"].tokens \o << <<"are", " ", "supported">> >>)),
   BuildMessage(Plain(<<"353">>, <<MCMe, <<"=">>, MCChan, <<"@", "x", " ", "y">>>>))}
=============================================================================
