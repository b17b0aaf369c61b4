------------------------------- MODULE Roster -------------------------------
(***************************************************************************)
(* What the client knows about the people it shares channels with, and     *)
(* what a bot makes of it: the fields of User and the status of Member     *)
(* that the Dispatcher fills in from the lines of Store and from those     *)
(* that only set fields, the owner matchers, the permission check and the  *)
(* key that limits a sender.                                               *)
(*                                                                         *)
(* The server is truthful: it tells what it has the capability to tell, of *)
(* those we share a channel with, in the order it happens, so that a line  *)
(* is dispatched in the step that causes it.  A username and a host are    *)
(* one field, `host`.  Our own nick is Session's matter and stays.         *)
(***************************************************************************)
EXTENDS Store

CONSTANTS
  People,      \* those with a nick, ourselves included
  Me,
  AtFirst,     \* who they are at first: [nick, account, host, real, away, in, ops]
  Accounts, Hosts, RealNames,
  CapSets,     \* the sets of capabilities that may be enabled, "whox" for ISUPPORT's WHOX
  Owners,      \* config.bot.owners, as <<"account", a>>, <<"mask", its hosts>>, <<"nick", n>>
  MaxChanges   \* bound: what others do besides speaking

None == "none"  \* null

ASSUME RosterAssumption ==
  /\ Me \in People /\ AtFirst[Me].nick = FirstNick /\ AtFirst[Me].in = {}
  /\ AtFirst \in [People -> [nick : Nicks, account : Accounts \cup {None}, host : Hosts, real : RealNames,
                            away : BOOLEAN, in : SUBSET Chans, ops : SUBSET Chans]]
  /\ \A p, q \in People : p # q => ~Alike(FirstMapping, AtFirst[p].nick, AtFirst[q].nick)
  /\ \A p \in People : AtFirst[p].ops \subseteq AtFirst[p].in
  /\ MaxChanges \in Nat /\ None \notin Hosts \cup RealNames
  /\ {None, "", "*", "0"} \cap Accounts = {}  \* on the wire, the last three are nobody
  /\ \A c, d \in Chans : Alike(FirstMapping, c, d) => c = d  \* a channel is spelled one way
  /\ Cardinality(Chans) <= MaxChannels /\ Cardinality(People) <= MaxMembers
  /\ None \notin Chans /\ \A o \in Owners : o[1] = "account" => o[2] # None

VARIABLES
  caps,     \* what is enabled
  fields,   \* the fields of each User, by id
  ops,      \* the Members with op: <<channel, id>>
  is,       \* the server: what is true of each of People
  listing,  \* the server: the 353 entries it is about to send, <<person, channel>>
  told,     \* the server: what it has told us of each, as long as they are with us
  changes   \* the server: what has happened so far

client == <<store, welcomed, gone, collided, fields, ops>>
allVars == <<client, caps, is, listing, told, changes>>

Blank == [account |-> None, host |-> None, real |-> None, away |-> FALSE]

-----------------------------------------------------------------------------
(* The fields of a User after each kind of line about someone who is q.    *)

Record(n) == IF HasUser(store, n) THEN fields[User(store, n)] ELSE Blank

\* How a line writes an account: `nobody` is "*", "0" or what else stands for none.
Wire(q, nobody) == IF q.account = None THEN nobody ELSE q.account

SetAccount(f, v) == [f EXCEPT !.account = IF v \in {"", "*"} THEN None ELSE v]

\* updateFromSource: all that somebody says shows where from.
Sourced(f, q) == [f EXCEPT !.host = q.host]

\* extended-join has the account and the real name.
Joined(f, q) ==
  IF "extended-join" \in caps
  THEN [SetAccount(Sourced(f, q), Wire(q, "*")) EXCEPT !.real = q.real] ELSE Sourced(f, q)

\* A NAMES entry, with userhost-in-names.
Listed(f, q) == IF "userhost-in-names" \in caps THEN Sourced(f, q) ELSE f

\* 352 and 354 alike: an empty real name says nothing.
Seen(f, q) ==
  [Sourced(f, q) EXCEPT !.away = q.away, !.real = IF q.real = "" THEN @ ELSE q.real]

\* Mutant: "0" is an account like any other.
SeenX_Zero(f, q) == SetAccount(Seen(f, q), Wire(q, "0"))

\* 354: the account too, "0" for none.
SeenX(f, q) == LET v == Wire(q, "0") IN SetAccount(Seen(f, q), IF v = "0" THEN "*" ELSE v)

\* The line's handler has left f for the User filed under n, and told us `what` of p.  A User
\* that is disposed of takes its fields along, and a Member its status.
Learns(p, n, f, what, status) ==
  /\ fields' = [id \in Ids |-> IF id \notin Range(store'.users) THEN Blank
                               ELSE IF HasUser(store', n) /\ id = User(store', n) THEN f
                               ELSE fields[id]]
  /\ ops' = {o \in status : o[1] \in DOMAIN store'.channels /\ o[2] \in Range(store'.channels[o[1]])}
  /\ told' = [q \in People |-> IF ~HasUser(store', is'[q].nick) THEN {}
                               ELSE IF q = p THEN told[q] \cup what ELSE told[q]]
  /\ UNCHANGED caps

-----------------------------------------------------------------------------
(* What happens, and the line that tells it.                               *)

Ours      == DOMAIN store.channels
Shares(p) == is[p].in \cap Ours # {}
Heard     == listing = {}

\* Something happens to p, who is v now; that may be MaxChanges times.
Happens(p, v) ==
  /\ Heard /\ changes < MaxChanges /\ changes' = changes + 1
  /\ is' = [is EXCEPT ![p] = v]

\* Nobody tells us.
Unheard == UNCHANGED <<client, told, caps, listing>>

\* A line that only sets fields, of a p that is known to us if p shares a channel.
Fields(p, f, what) ==
  /\ UNCHANGED <<store, welcomed, gone, collided, listing>>
  /\ Learns(p, is[p].nick, f, what, ops)

\* Our own JOIN, and then a 353 that lists everyone.
WeJoin(c) ==
  /\ Heard /\ c \notin Ours
  /\ is' = [is EXCEPT ![Me].in = @ \cup {c}]
  /\ listing' = {<<p, c>> : p \in {p \in People : c \in is'[p].in}}
  /\ Join(is[Me].nick, c)
  /\ Learns(Me, is[Me].nick, Joined(Record(is[Me].nick), is'[Me]), {"host"}, ops)
  /\ UNCHANGED changes

Lists(p, c) ==
  /\ <<p, c>> \in listing /\ listing' = listing \ {<<p, c>>}
  /\ UNCHANGED is
  /\ Names(is[p].nick, c)
  /\ Learns(p, is[p].nick, Listed(Record(is[p].nick), is'[p]), {},
            ops \cup IF c \in is[p].ops THEN {<<c, User(store', is[p].nick)>>} ELSE {})
  /\ UNCHANGED changes

\* Our own PART.  A KICK leaves the same store behind: see Store.
WeLeave(c) ==
  /\ Heard /\ c \in Ours
  /\ is' = [is EXCEPT ![Me].in = @ \ {c}, ![Me].ops = @ \ {c}]
  /\ Part(is[Me].nick, c)
  /\ Learns(Me, is[Me].nick, Record(is[Me].nick), {}, ops)
  /\ UNCHANGED <<listing, changes>>

\* JOIN, with an AWAY behind it for whoever is away.
Joins(p, c) ==
  /\ p # Me /\ c \notin is[p].in /\ Happens(p, [is[p] EXCEPT !.in = @ \cup {c}])
  /\ IF c \notin Ours THEN Unheard
     ELSE LET f == Joined(Record(is[p].nick), is'[p])
              notified == "away-notify" \in caps
          IN  /\ Join(is[p].nick, c) /\ UNCHANGED listing
              /\ Learns(p, is[p].nick, IF notified /\ is[p].away THEN [f EXCEPT !.away = TRUE] ELSE f,
                        {"host"} \cup (IF notified THEN {"away"} ELSE {})
                          \cup (IF "extended-join" \in caps THEN {"account", "real"} ELSE {}), ops)

Departs(p, c) ==
  /\ p # Me /\ c \in is[p].in /\ Happens(p, [is[p] EXCEPT !.in = @ \ {c}, !.ops = @ \ {c}])
  /\ IF c \notin Ours THEN Unheard
     ELSE /\ Part(is[p].nick, c)
          /\ Learns(p, is[p].nick, Record(is[p].nick), {}, ops) /\ UNCHANGED listing

\* QUIT; who comes back may be of any kind.
Quits(p) ==
  /\ p # Me /\ Happens(p, [is[p] EXCEPT !.in = {}, !.ops = {}])
  /\ IF ~Shares(p) THEN Unheard
     ELSE /\ Quit(is[p].nick) /\ UNCHANGED listing
          /\ Learns(p, is[p].nick, Blank, {}, ops)

Renames(p, n) ==
  /\ p # Me /\ n # is[p].nick /\ \A q \in People \ {p} : ~Alike(store.mapping, is[q].nick, n)
  /\ Happens(p, [is[p] EXCEPT !.nick = n])
  /\ IF ~Shares(p) THEN Unheard
     ELSE /\ Nick(is[p].nick, n) /\ UNCHANGED listing
          /\ Learns(p, n, Record(is[p].nick), {}, ops)

LogsIn(p, a) ==
  /\ p # Me /\ a # is[p].account /\ Happens(p, [is[p] EXCEPT !.account = a])
  /\ IF Shares(p) /\ "account-notify" \in caps
     THEN Fields(p, SetAccount(Sourced(Record(is[p].nick), is'[p]), Wire(is'[p], "*")), {"host", "account"})
     ELSE Unheard

GoesAway(p) ==
  /\ p # Me /\ Happens(p, [is[p] EXCEPT !.away = ~@])
  /\ IF Shares(p) /\ "away-notify" \in caps
     THEN Fields(p, [Sourced(Record(is[p].nick), is'[p]) EXCEPT !.away = is'[p].away], {"host", "away"})
     ELSE Unheard

ChangesHost(p, h) ==
  /\ p # Me /\ h # is[p].host /\ Happens(p, [is[p] EXCEPT !.host = h])
  /\ IF Shares(p) /\ "chghost" \in caps THEN Fields(p, Sourced(Record(is[p].nick), is'[p]), {"host"})
     ELSE Unheard

SetsName(p, r) ==
  /\ p # Me /\ r # is[p].real /\ Happens(p, [is[p] EXCEPT !.real = r])
  /\ IF Shares(p) /\ "setname" \in caps
     THEN Fields(p, [Sourced(Record(is[p].nick), is'[p]) EXCEPT !.real = r], {"host", "real"})
     ELSE Unheard

\* MODE +o and -o, set by the server or a member.
Ops(p, c) ==
  /\ c \in is[p].in
  /\ Happens(p, [is[p] EXCEPT !.ops = IF c \in @ THEN @ \ {c} ELSE @ \cup {c}])
  /\ IF c \notin Ours THEN Unheard
     ELSE LET member == {<<c, User(store, is[p].nick)>>}
          IN  /\ UNCHANGED <<store, welcomed, gone, collided, listing>>
              /\ Learns(p, is[p].nick, Record(is[p].nick), {},
                        IF c \in is'[p].ops THEN ops \cup member ELSE ops \ member)

\* An entry of the answer to a WHO, ours on joining or one of who(); of p in channel c, or
\* in none.  Nobody is created from it.
AnswersWho(p, c) ==
  /\ Heard /\ UNCHANGED <<is, changes, listing, store, welcomed, gone, collided>>
  /\ c \in is[p].in \cup {None}
  /\ LET n     == is[p].nick
         known == HasUser(store, n)
         x     == "whox" \in caps
         real  == IF is[p].real = "" THEN {} ELSE {"real"}
     IN  Learns(p, n, IF x THEN SeenX(Record(n), is'[p]) ELSE Seen(Record(n), is'[p]),
                {"host", "away"} \cup real \cup (IF x THEN {"account"} ELSE {}),
                IF known /\ x /\ c \in is[p].ops \cap Ours /\ Has(store.mapping, Members(store, c), n)
                THEN ops \cup {<<c, User(store, n)>>} ELSE ops)

-----------------------------------------------------------------------------
(* The bot: who sent event e, [tag, user, nick, op].                       *)

\* normalizeAccount.
Normal(tag) == IF tag \in {"", "*"} THEN None ELSE tag

\* Mutant: the account on file will do where the message has none.
MatchesIdentity_Cached(e, o) ==
  LET account == IF e.tag # None THEN Normal(e.tag) ELSE e.user.account
  IN  \/ o[1] = "account" /\ account # None /\ account = o[2]
      \/ o[1] = "mask" /\ e.user.host # None /\ e.user.host \in o[2]
      \/ o[1] = "nick" /\ Alike(store.mapping, e.nick, o[2])

\* An account is only taken from the message itself; an unknown host matches no mask.
MatchesIdentity(e, o) ==
  \/ o[1] = "account" /\ Normal(e.tag) # None /\ Normal(e.tag) = o[2]
  \/ o[1] = "mask" /\ e.user.host # None /\ e.user.host \in o[2]
  \/ o[1] = "nick" /\ Alike(store.mapping, e.nick, o[2])

IsOwner(e) == \E o \in Owners : MatchesIdentity(e, o)

\* checkPermission of a command for ops.
OpMayRun(e) == IsOwner(e) \/ e.op

\* A tag counts even if it says that there is no account.
SenderKey(e) ==
  LET account == IF e.tag # None THEN Normal(e.tag) ELSE e.user.account
  IN  IF account # None THEN <<"account", account>>
      ELSE IF e.user.host # None THEN <<"host", e.user.host>> ELSE <<"nick", e.nick>>

\* What p may send now: to channel c or, with None, to us, with the tag of account-tag.
Tags(p) == IF "account-tag" \notin caps THEN {None}
           ELSE IF is[p].account # None THEN {is[p].account} ELSE {None, "*"}

Messages == {m \in (People \ {Me}) \X (Chans \cup {None}) \X (Accounts \cup {None, "*"}) :
               m[2] \in {None} \cup (is[m[1]].in \cap Ours) /\ m[3] \in Tags(m[1])}

Event(p, c, tag) ==
  LET n == is[p].nick
      f == Sourced(Record(n), is[p])
  IN  [tag |-> tag, user |-> IF tag = None THEN f ELSE SetAccount(f, tag), nick |-> n,
       op |-> c # None /\ <<c, User(store, n)>> \in ops]

\* PRIVMSG.  A NOTICE does the same, and is no command.
Says(p, c, tag) ==
  /\ Heard /\ <<p, c, tag>> \in Messages
  /\ UNCHANGED <<is, listing, changes>>
  /\ Speaks(is[p].nick)
  /\ Learns(p, is[p].nick, Event(p, c, tag).user,
            {"host"} \cup IF tag = None THEN {} ELSE {"account"}, ops)

-----------------------------------------------------------------------------

RosterInit ==
  /\ store = GetOrCreateUser([mapping |-> FirstMapping, nick |-> FirstNick, own |-> {},
                              users |-> <<>>, channels |-> <<>>], FirstNick)
  /\ welcomed = TRUE /\ gone = FALSE /\ collided = FALSE
  /\ caps \in CapSets
  /\ fields = [id \in Ids |-> Blank] /\ ops = {}
  /\ is = AtFirst
  /\ listing = {} /\ told = [p \in People |-> {}] /\ changes = 0

RosterNext ==
  \/ \E c \in Chans : WeJoin(c) \/ WeLeave(c)
  \/ \E p \in People :
       \/ \E c \in Chans : Lists(p, c) \/ Joins(p, c) \/ Departs(p, c) \/ Ops(p, c)
       \/ Quits(p) \/ GoesAway(p)
       \/ \E n \in Nicks : Renames(p, n)
       \/ \E a \in Accounts \cup {None} : LogsIn(p, a) \/ \E c \in Chans \cup {None} : Says(p, c, a)
       \/ \E c \in Chans \cup {None} : Says(p, c, "*") \/ AnswersWho(p, c)
       \/ \E h \in Hosts : ChangesHost(p, h)
       \/ \E r \in RealNames : SetsName(p, r)

RosterSpec == RosterInit /\ [][RosterNext]_allVars

-----------------------------------------------------------------------------

\* The fields that a capability keeps current.
Kept == {k \in {"account", "away", "host", "real"} :
           [account |-> "account-notify", away |-> "away-notify",
            host |-> "chghost", real |-> "setname"][k] \in caps}

\* What is on file about whoever shares a channel with us is true, though they come and go,
\* rename, and swap nicks with others; and nothing that we were told is lost.  A field that
\* no capability keeps current may be out of date.
RecordsAreTrue ==
  /\ \A n \in DOMAIN store.users : \E p \in People : is[p].nick = n /\ (p = Me \/ Shares(p))
  /\ \A p \in People : HasUser(store, is[p].nick) =>
       \A k \in Kept :
         LET f == Record(is[p].nick)
         IN  (k \in told[p] \/ f[k] # Blank[k]) => f[k] = is[p][k]
  /\ listing = {} =>
       ops = UNION {{<<c, User(store, is[p].nick)>> : c \in is[p].ops \cap Ours} : p \in People}

\* Nobody is taken for another: whoever sends a message may run an owner's or an op's
\* command if and only if he is one by now, whatever was on file, and is limited under his own
\* account or, if that is not known, his own host.
SendersAreThemselves ==
  listing = {} => \A m \in Messages :
    LET p     == is[m[1]]
        e     == Event(m[1], m[2], m[3])
        truly == \E o \in Owners :
                   \/ o[1] = "account" /\ "account-tag" \in caps /\ p.account = o[2]
                   \/ o[1] = "mask" /\ p.host \in o[2]
                   \/ o[1] = "nick" /\ Alike(store.mapping, p.nick, o[2])
    IN  /\ IsOwner(e) = truly
        /\ OpMayRun(e) = (truly \/ m[2] \in p.ops)
        /\ "account-notify" \in caps =>
             SenderKey(e) \in {<<"account", p.account>>, <<"host", p.host>>}

=============================================================================
