------------------------------- MODULE Store --------------------------------
(***************************************************************************)
(* Who is in which channel: the StateStore of one connection, written only *)
(* by the Dispatcher as it translates inbound lines.  The store is one     *)
(* value, its methods are operators from store to store, and a line is one *)
(* action.                                                                 *)
(*                                                                         *)
(* An IrcMap is a function whose domain are the spellings it was given, no *)
(* two of which fold alike under the casemapping in force.  A User object  *)
(* is an id: its nick is the spelling it is filed under, and it is         *)
(* disposed when it leaves the users map, after which the id may be used   *)
(* for another.  What an event carries, and what else is learnt about a    *)
(* user (account, host, away), is left out.                                *)
(***************************************************************************)
EXTENDS Naturals, FiniteSets, Functions

CONSTANTS
  Nicks, Chans,  \* spellings of nicks and of channel names
  Fold,          \* casemapping -> spelling -> what it folds to
  FirstNick,     \* options.nick
  FirstMapping,  \* the casemapping before any ISUPPORT
  MaxChannels,   \* MAX_CHANNELS
  MaxMembers     \* MAX_MEMBERS_PER_CHANNEL

Mappings == DOMAIN Fold
Ids      == 1..(Cardinality(Nicks) + 1)

ASSUME StoreAssumption ==
  /\ \A m \in Mappings : Nicks \cup Chans \subseteq DOMAIN Fold[m]
  /\ IsFiniteSet(Nicks) /\ IsFiniteSet(Chans)
  /\ FirstNick \in Nicks /\ FirstMapping \in Mappings
  /\ MaxChannels \in Nat /\ MaxMembers \in Nat \ {0}

VARIABLES
  store,     \* the StateStore and its Server
  welcomed,  \* has 001 named us
  gone,      \* has our own QUIT come back: the last line the server sends
  collided   \* history: has a change of casemapping folded two names into one

vars == <<store, welcomed, gone, collided>>

-----------------------------------------------------------------------------
(* IrcMap, under casemapping m.                                            *)

Alike(m, a, b) == Fold[m][a] = Fold[m][b]
Keys(m, f, n)  == {k \in DOMAIN f : Alike(m, k, n)}
Has(m, f, n)   == Keys(m, f, n) # {}
Get(m, f, n)   == f[CHOOSE k \in Keys(m, f, n) : TRUE]
Del(m, f, n)   == Restrict(f, DOMAIN f \ Keys(m, f, n))
Put(m, f, n, v) == [k \in (DOMAIN f \ Keys(m, f, n)) \cup {n} |-> IF k = n THEN v ELSE f[k]]

\* Mutant: on a collision any entry may win, ours or not.
Rekeyed_SelfMayLose(m, f, own) ==
  {Restrict(f, K) : K \in {K \in SUBSET DOMAIN f :
     \A k \in DOMAIN f : Cardinality(Keys(m, Restrict(f, K), k)) = 1}}

\* rekey: of the names that now fold alike one wins, ours if it is among them; else
\* the last inserted, and insertion orders are not modelled.
Rekeyed(m, f, own) ==
  {Restrict(f, K) : K \in {K \in SUBSET DOMAIN f :
     \A k \in DOMAIN f :
       /\ Cardinality(Keys(m, Restrict(f, K), k)) = 1
       /\ f[k] \in own => Get(m, Restrict(f, K), k) \in own}}

-----------------------------------------------------------------------------
(* StateStore, one operator per method.                                    *)

IsSelf(s, n) == Alike(s.mapping, n, s.nick)

User(s, n)    == Get(s.mapping, s.users, n)
HasUser(s, n) == Has(s.mapping, s.users, n)

HasChannel(s, c) == Has(s.mapping, s.channels, c)
Members(s, c)    == Get(s.mapping, s.channels, c)
SetMembers(s, c, f) ==
  [s EXCEPT !.channels[CHOOSE k \in Keys(s.mapping, s.channels, c) : TRUE] = f]

ChannelsWithUser(s, n) == {c \in DOMAIN s.channels : Has(s.mapping, s.channels[c], n)}

Referenced(s) == Range(s.users) \cup UNION {Range(s.channels[c]) : c \in DOMAIN s.channels}

GetOrCreateUser(s, n) ==
  IF HasUser(s, n) THEN s
  ELSE LET id == CHOOSE id \in Ids : id \notin Referenced(s)
       IN  [s EXCEPT !.users = Put(s.mapping, s.users, n, id),
                     !.own = IF IsSelf(s, n) THEN @ \cup {id} ELSE @ \ {id}]

\* At the ceiling a new channel is refused.
GetOrCreateChannel(s, c) ==
  IF HasChannel(s, c) \/ Cardinality(DOMAIN s.channels) >= MaxChannels THEN s
  ELSE [s EXCEPT !.channels = Put(s.mapping, @, c, <<>>)]

RemoveChannel(s, c) == [s EXCEPT !.channels = Del(s.mapping, @, c)]

\* A member is filed under the nick of its user.
AddMember(s, c, n) ==
  IF Has(s.mapping, Members(s, c), n) THEN s
  ELSE LET k == CHOOSE k \in Keys(s.mapping, s.users, n) : TRUE
       IN  SetMembers(s, c, Put(s.mapping, Members(s, c), k, s.users[k]))

RemoveMember(s, c, n) == SetMembers(s, c, Del(s.mapping, Members(s, c), n))

\* removeUser: from every channel and from the users map.
RemoveUser(s, n) ==
  IF ~HasUser(s, n) THEN s
  ELSE [s EXCEPT !.users = Del(s.mapping, @, n),
                 !.channels = [c \in DOMAIN @ |-> Del(s.mapping, @[c], n)]]

\* pruneOrphan of each nick of N: not us, and in no channel of ours.
PruneOrphans(s, N) ==
  LET orphans == {n \in N : ~IsSelf(s, n) /\ ChannelsWithUser(s, n) = {}}
  IN  [s EXCEPT !.users = Restrict(@, {k \in DOMAIN @ :
                                         \A n \in orphans : ~Alike(s.mapping, k, n)})]

\* renameUser.  A live user already under the new nick is displaced, unless it is us:
\* then the rename is refused.
RenameUser(s, old, new) ==
  LET u        == User(s, old)
      occupied == HasUser(s, new) /\ User(s, new) # u
      t        == IF occupied THEN RemoveUser(s, new) ELSE s
      Move(f)  == Put(s.mapping, Del(s.mapping, f, old), new, Get(s.mapping, f, old))
  IN  IF ~HasUser(s, old) \/ (occupied /\ IsSelf(s, new)) THEN s
      ELSE [t EXCEPT !.users = Move(@),
                     !.channels = [c \in DOMAIN @ |-> IF Has(s.mapping, @[c], old) THEN Move(@[c])
                                                      ELSE @[c]],
                     !.nick = IF IsSelf(s, old) THEN new ELSE @]

\* Mutant: memberships are left to the maps' own rekeying.
DropUsers_Nowhere(s, losers) == s

\* The memberships of displaced users go with them, found by identity.
DropUsers(s, losers) ==
  [s EXCEPT !.channels = [c \in DOMAIN @ |-> Restrict(@[c], {k \in DOMAIN @[c] : @[c][k] \notin losers})]]

\* The members of each channel that wins, rekeyed apart from each other.
MembersRekeyed(s, m) ==
  UNION {{f \in [DOMAIN cs -> UNION {Rekeyed(m, cs[c], s.own) : c \in DOMAIN cs}] :
            \A c \in DOMAIN cs : f[c] \in Rekeyed(m, cs[c], s.own)} : cs \in Rekeyed(m, s.channels, {})}

\* The displaced channels are disposed and their members pruned, then the displaced users.
Resettled(s, m, us, ms) ==
  LET t      == [s EXCEPT !.mapping = m, !.channels = ms, !.users = us]
      former == UNION {DOMAIN s.channels[c] : c \in DOMAIN s.channels \ DOMAIN ms}
  IN  DropUsers(PruneOrphans(t, former), Range(s.users) \ Range(us))

\* applyIsupport with another CASEMAPPING.
Rekeys(s, m) ==
  {Resettled(s, m, us, ms) : us \in Rekeyed(m, s.users, s.own), ms \in MembersRekeyed(s, m)}

-----------------------------------------------------------------------------
(* The Dispatcher, one action per kind of line.                            *)

\* 001: markSelf.
Welcome(n) ==
  /\ ~welcomed /\ welcomed' = TRUE
  /\ store' = GetOrCreateUser([store EXCEPT !.nick = n], n)
  /\ UNCHANGED <<gone, collided>>

\* 005 with a CASEMAPPING.
Isupport(m) ==
  /\ welcomed /\ ~gone /\ m # store.mapping
  /\ store' \in Rekeys(store, m)
  /\ collided' = (collided \/ \E f \in {store.users, store.channels} : \E a, b \in DOMAIN f :
                                 a # b /\ Alike(m, a, b))
  /\ UNCHANGED <<welcomed, gone>>

Dispatched == welcomed /\ ~gone /\ UNCHANGED <<welcomed, gone, collided>>

\* May n become a member of c: known there, or below the ceiling.
Admits(s, c, n) ==
  Has(s.mapping, Members(s, c), n) \/ Cardinality(DOMAIN Members(s, c)) < MaxMembers

\* Only our own JOIN creates a channel.
Join(n, c) ==
  /\ Dispatched
  /\ LET s == IF IsSelf(store, n) THEN GetOrCreateChannel(store, c) ELSE store
     IN  /\ HasChannel(s, c)
         /\ IsSelf(s, n) \/ Admits(s, c, n)
         /\ store' = AddMember(GetOrCreateUser(s, n), c, n)

\* 353, an entry at a time.
Names(n, c) ==
  /\ Dispatched
  /\ HasChannel(store, c) /\ Admits(store, c, n)
  /\ store' = AddMember(GetOrCreateUser(store, n), c, n)

\* Mutant: those we no longer share a channel with are forgotten about.
Leaves_Lingering(s, n, c) ==
  IF IsSelf(s, n) THEN RemoveChannel(s, c) ELSE PruneOrphans(RemoveMember(s, c, n), {n})

\* What a PART of n and a KICK of n have in common.
Leaves(s, n, c) ==
  IF IsSelf(s, n) THEN PruneOrphans(RemoveChannel(s, c), DOMAIN Members(s, c))
  ELSE PruneOrphans(RemoveMember(s, c, n), {n})

Part(n, c) ==
  /\ Dispatched /\ HasChannel(store, c)
  /\ store' = Leaves(GetOrCreateUser(store, n), n, c)

\* The kicker, if a user, is resolved too, and may be a stranger.
Kick(n, c) ==
  /\ Dispatched /\ HasChannel(store, c)
  /\ LET s == GetOrCreateUser(store, n)
     IN  \/ store' = Leaves(s, n, c)
         \/ \E by \in Nicks : store' = PruneOrphans(Leaves(GetOrCreateUser(s, by), n, c), {by})

\* Our own QUIT is taken like any other's, and our channels stay until the link drops.
Quit(n) ==
  /\ welcomed /\ ~gone /\ HasUser(store, n)
  /\ store' = RemoveUser(store, n)
  /\ gone' = IsSelf(store, n)
  /\ UNCHANGED <<welcomed, collided>>

Nick(old, new) ==
  /\ Dispatched
  /\ store' = RenameUser(store, old, new)

\* PRIVMSG, NOTICE, MODE or TOPIC from n, stranger or not.
Speaks(n) ==
  /\ Dispatched
  /\ store' = PruneOrphans(GetOrCreateUser(store, n), {n})

Init ==
  /\ store = [mapping |-> FirstMapping, nick |-> FirstNick, own |-> {},
              users |-> <<>>, channels |-> <<>>]
  /\ welcomed = FALSE /\ collided = FALSE /\ gone = FALSE

Next ==
  \/ \E m \in Mappings : Isupport(m)
  \/ \E n \in Nicks : Welcome(n) \/ Quit(n) \/ Speaks(n)
  \/ \E n \in Nicks, c \in Chans : Join(n, c) \/ Names(n, c) \/ Part(n, c) \/ Kick(n, c)
  \/ \E old, new \in Nicks : Nick(old, new)

Spec == Init /\ [][Next]_vars

-----------------------------------------------------------------------------

\* A collection that an IrcMap keeps case-insensitive holds no two names that fold alike.
WellKeyed(f) == \A a, b \in DOMAIN f : Alike(store.mapping, a, b) => a = b

TypeOK ==
  /\ {welcomed, collided, gone} \subseteq BOOLEAN
  /\ store.mapping \in Mappings /\ store.nick \in Nicks /\ store.own \subseteq Ids
  /\ DOMAIN store.users \subseteq Nicks /\ Range(store.users) \subseteq Ids
  /\ DOMAIN store.channels \subseteq Chans
  /\ \A c \in DOMAIN store.channels :
       DOMAIN store.channels[c] \subseteq Nicks /\ Range(store.channels[c]) \subseteq Ids

\* No disposed or mistaken user is reachable from a channel: every member is the user
\* that is tracked under the member's nick, through renames, nick collisions and
\* changes of casemapping, behind which no map has one name twice.
MembersAreTracked ==
  /\ WellKeyed(store.users) /\ WellKeyed(store.channels)
  /\ \A c \in DOMAIN store.channels :
       /\ WellKeyed(store.channels[c])
       /\ \A n \in DOMAIN store.channels[c] :
            n \in DOMAIN store.users /\ store.users[n] = store.channels[c][n]

\* Until our own QUIT we are one user: the one tracked under our nick, and the only one
\* marked as us; and every channel we keep is one that we are in.
SelfIsOurs ==
  gone \/
  /\ welcomed => /\ HasUser(store, store.nick)
                 /\ Range(store.users) \cap store.own = {User(store, store.nick)}
  /\ \A c \in DOMAIN store.channels : Has(store.mapping, store.channels[c], store.nick)

\* user() knows only us and those who share a channel with us.
KnowsOnlyCompany ==
  \A n \in DOMAIN store.users : IsSelf(store, n) \/ ChannelsWithUser(store, n) # {}

\* The store does not grow without bound: no map outgrows its ceiling (our own JOIN passes
\* it, but comes first), and as long as no change of casemapping folds two names into one,
\* nobody who parts, is kicked, quits or only ever speaks to us is left behind.
NoLeftovers ==
  /\ Cardinality(DOMAIN store.channels) <= MaxChannels
  /\ \A c \in DOMAIN store.channels : Cardinality(DOMAIN store.channels[c]) <= MaxMembers
  /\ collided \/ KnowsOnlyCompany

=============================================================================
