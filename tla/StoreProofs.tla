----------------------------- MODULE StoreProofs -----------------------------
(***************************************************************************)
(* What the StateStore keeps, for every set of spellings, every folding of *)
(* them and every ceiling.  The store is one value, so what a method does  *)
(* is a fact about two stores; a line of the server is a few methods.      *)
(*                                                                         *)
(* Then what is on file is true, for any number of people, channels and    *)
(* changes, any folding of nicks and any capabilities.  The inductive      *)
(* invariant sets the store beside the world: each of our channels has the *)
(* members that are there (Mirrors), whatever was told of a person, or     *)
(* stands on file, is so (FieldsRight), and ops are ops (OpsRight), but    *)
(* for those that a 353 has yet to list.  The first part says what each    *)
(* line does to the store and that no two names are one user.              *)
(***************************************************************************)
EXTENDS Roster, FiniteSetTheorems, TLAPS

-----------------------------------------------------------------------------
(* IrcMap.                                                                 *)

\* No two names of the map fold alike.
Keyed(m, f) == \A a, b \in DOMAIN f : Alike(m, a, b) => a = b

\* A name that the map has is filed under one key.
LEMMA KeyIs ==
  ASSUME NEW m, NEW f, NEW n, Keyed(m, f), Has(m, f, n)
  PROVE  \E k \in DOMAIN f :
           /\ Alike(m, k, n) /\ Keys(m, f, n) = {k} /\ Get(m, f, n) = f[k]
           /\ (CHOOSE j \in Keys(m, f, n) : TRUE) = k
<1>1. PICK k \in Keys(m, f, n) : TRUE
  BY DEF Has
<1>2. k \in DOMAIN f /\ Alike(m, k, n)
  BY <1>1 DEF Keys
<1>3. Keys(m, f, n) = {k}
  <2>1. ASSUME NEW j \in Keys(m, f, n) PROVE j = k
    <3>1. j \in DOMAIN f /\ Alike(m, j, n)
      BY <2>1 DEF Keys
    <3>2. Alike(m, j, k)
      BY <1>2, <3>1 DEF Alike
    <3> QED BY <1>2, <3>1, <3>2 DEF Keyed
  <2> QED BY <1>1, <2>1
<1>4. (CHOOSE j \in Keys(m, f, n) : TRUE) = k
  BY <1>3
<1>5. Get(m, f, n) = f[k]
  BY <1>4 DEF Get
<1> QED BY <1>2, <1>3, <1>4, <1>5

\* What a map has and has not.
LEMMA HasIs ==
  ASSUME NEW m, NEW f, NEW n
  PROVE  /\ Has(m, f, n) <=> \E k \in DOMAIN f : Alike(m, k, n)
         /\ \A k : k \in Keys(m, f, n) <=> (k \in DOMAIN f /\ Alike(m, k, n))
  BY DEF Has, Keys

\* What a map is without a name.
LEMMA DelIs ==
  ASSUME NEW m, NEW f, NEW n
  PROVE  /\ \A k : k \in DOMAIN Del(m, f, n) <=> (k \in DOMAIN f /\ ~Alike(m, k, n))
         /\ \A k \in DOMAIN Del(m, f, n) : Del(m, f, n)[k] = f[k]
  BY DEF Del, Restrict, Keys

\* What a map is with a name.
LEMMA PutIs ==
  ASSUME NEW m, NEW f, NEW n, NEW v
  PROVE  /\ \A k : k \in DOMAIN Put(m, f, n, v) <=> (k = n \/ (k \in DOMAIN f /\ ~Alike(m, k, n)))
         /\ Put(m, f, n, v)[n] = v
         /\ \A k \in DOMAIN f : ~Alike(m, k, n) => Put(m, f, n, v)[k] = f[k]
<1>1. Alike(m, n, n)
  BY DEF Alike
<1>2. ASSUME NEW k PROVE k \in Keys(m, f, n) <=> (k \in DOMAIN f /\ Alike(m, k, n))
  BY DEF Keys
<1> QED BY <1>1, <1>2 DEF Put

\* A map with a name is keyed, too.
LEMMA PutIsKeyed ==
  ASSUME NEW m, NEW f, NEW n, NEW v, Keyed(m, f)
  PROVE  Keyed(m, Put(m, f, n, v)) /\ Keyed(m, Del(m, f, n))
<1>1. ASSUME NEW a \in DOMAIN Put(m, f, n, v), NEW b \in DOMAIN Put(m, f, n, v), Alike(m, a, b)
      PROVE  a = b
  <2>1. Alike(m, b, a)
    BY <1>1 DEF Alike
  <2>3. a = n \/ (a \in DOMAIN f /\ ~Alike(m, a, n))
    BY PutIs
  <2>4. b = n \/ (b \in DOMAIN f /\ ~Alike(m, b, n))
    BY PutIs
  <2> QED BY <1>1, <2>1, <2>3, <2>4 DEF Keyed
<1>2. Keyed(m, Del(m, f, n))
  <2>1. DOMAIN Del(m, f, n) \subseteq DOMAIN f
    BY DelIs
  <2> QED BY <2>1 DEF Keyed
<1> QED BY <1>1, <1>2 DEF Keyed

-----------------------------------------------------------------------------
(* A store.                                                                *)

Shape(s) ==
  s = [mapping |-> s.mapping, nick |-> s.nick, own |-> s.own, users |-> s.users,
       channels |-> s.channels]

Typed(s) ==
  /\ Shape(s) /\ s.mapping \in Mappings /\ s.nick \in Nicks /\ s.own \subseteq Ids
  /\ DOMAIN s.users \subseteq Nicks /\ (\A n \in DOMAIN s.users : s.users[n] \in Ids)
  /\ DOMAIN s.channels \subseteq Chans

\* Users are filed under one name each, and are one user each.
UsersApart(s) ==
  /\ Keyed(s.mapping, s.users) /\ Keyed(s.mapping, s.channels)
  /\ \A a, b \in DOMAIN s.users : s.users[a] = s.users[b] => a = b

\* Every member is the user under that name.
MembersFollow(s) ==
  \A c \in DOMAIN s.channels : \A n \in DOMAIN s.channels[c] :
    n \in DOMAIN s.users /\ s.users[n] = s.channels[c][n]

Tracked(s) == Typed(s) /\ UsersApart(s) /\ MembersFollow(s)

\* There is an id for another user: the members of channels are users, and there is an id
\* more than there are nicks.
LEMMA AnIdIsFree ==
  ASSUME NEW s, Tracked(s)
  PROVE  /\ \E id \in Ids : id \notin Referenced(s)
         /\ \A k \in DOMAIN s.users : s.users[k] \in Referenced(s)
<1>1. Referenced(s) \subseteq Range(s.users)
  <2>1. ASSUME NEW c \in DOMAIN s.channels, NEW i \in Range(s.channels[c]) PROVE i \in Range(s.users)
    <3>1. PICK n \in DOMAIN s.channels[c] : i = s.channels[c][n]
      BY DEF Range
    <3>2. n \in DOMAIN s.users /\ s.users[n] = i
      BY <3>1 DEF Tracked, MembersFollow
    <3> QED BY <3>2 DEF Range
  <2> QED BY <2>1 DEF Referenced
<1>2. \A k \in DOMAIN s.users : s.users[k] \in Referenced(s)
  BY DEF Referenced, Range
<1>3. ASSUME \A id \in Ids : id \in Referenced(s) PROVE FALSE
  <2> DEFINE g == [id \in Ids |-> CHOOSE n \in DOMAIN s.users : s.users[n] = id]
  <2>1. ASSUME NEW id \in Ids PROVE g[id] \in DOMAIN s.users /\ s.users[g[id]] = id
    <3>1. \E n \in DOMAIN s.users : s.users[n] = id
      BY <1>1, <1>3 DEF Range
    <3> QED BY <3>1
  <2>2. DOMAIN s.users \subseteq Nicks
    BY DEF Tracked, Typed
  <2>3. g \in [Ids -> Nicks]
    BY <2>1, <2>2
  <2> HIDE DEF g
  <2>4. g \in Injection(Ids, Nicks)
    <3>1. ASSUME NEW a \in Ids, NEW b \in Ids, g[a] = g[b] PROVE a = b
      BY <2>1, <3>1
    <3>2. \A a, b \in Ids : g[a] = g[b] => a = b
      BY <3>1
    <3> HIDE DEF g
    <3>3. g \in {h \in [Ids -> Nicks] : \A a, b \in Ids : h[a] = h[b] => a = b}
      BY <2>3, <3>2, Zenon
    <3> QED BY <3>3, Zenon DEF Injection, IsInjective
  <2>5. IsFiniteSet(Nicks)
    BY StoreAssumption
  <2>6. Cardinality(Ids) <= Cardinality(Nicks) /\ Cardinality(Nicks) \in Nat
    BY <2>4, <2>5, FS_Injection, FS_CardinalityType
  <2>7. Cardinality(Ids) = Cardinality(Nicks) + 1
    <3>1. ASSUME NEW n \in Nat PROVE Cardinality(1..(n + 1)) = n + 1
      <4>1. 1 \in Int /\ n + 1 \in Int /\ ~(1 > n + 1)
        OBVIOUS
      <4>2. Cardinality(1..(n + 1)) = (n + 1) - 1 + 1
        BY <4>1, FS_Interval
      <4> QED BY <4>2
    <3> QED BY <2>6, <3>1 DEF Ids
  <2> QED BY <2>6, <2>7
<1> QED BY <1>2, <1>3

\* The maps are finite.
LEMMA MapsAreFinite ==
  ASSUME NEW s, Tracked(s)
  PROVE  /\ IsFiniteSet(DOMAIN s.users) /\ IsFiniteSet(DOMAIN s.channels)
         /\ \A c \in DOMAIN s.channels : IsFiniteSet(DOMAIN s.channels[c])
<1>1. DOMAIN s.users \subseteq Nicks /\ DOMAIN s.channels \subseteq Chans
  BY DEF Tracked, Typed
<1>2. ASSUME NEW c \in DOMAIN s.channels PROVE DOMAIN s.channels[c] \subseteq Nicks
  BY <1>1 DEF Tracked, MembersFollow
<1>3. IsFiniteSet(Nicks) /\ IsFiniteSet(Chans)
  BY StoreAssumption
<1> QED BY <1>1, <1>2, <1>3, FS_Subset

-----------------------------------------------------------------------------
(* The methods of the store: what each does, and that it keeps track.       *)

\* getOrCreateUser: n is a user, and if it was none before, with an id of its own.
Met(s, t, n) ==
  /\ t.mapping = s.mapping /\ t.nick = s.nick /\ t.channels = s.channels
  /\ HasUser(s, n) => t = s
  /\ ~HasUser(s, n) =>
       /\ DOMAIN t.users = DOMAIN s.users \cup {n} /\ n \notin DOMAIN s.users
       /\ \A k \in DOMAIN s.users : t.users[k] = s.users[k] /\ s.users[k] # t.users[n]
       /\ t.users[n] \in Ids
       /\ t.own = IF IsSelf(s, n) THEN s.own \cup {t.users[n]} ELSE s.own \ {t.users[n]}

\* It does, and keeps track.
LEMMA MetIs ==
  ASSUME NEW s, Tracked(s), NEW n \in Nicks, NEW t, t = GetOrCreateUser(s, n)
  PROVE  Met(s, t, n) /\ Tracked(t) /\ HasUser(t, n)
<1>1. CASE HasUser(s, n)
  BY <1>1 DEF GetOrCreateUser, Met
<1>2. CASE ~HasUser(s, n)
  <2> DEFINE id == CHOOSE id \in Ids : id \notin Referenced(s)
             u  == Put(s.mapping, s.users, n, id)
             o  == IF IsSelf(s, n) THEN s.own \cup {id} ELSE s.own \ {id}
  <2>1. id \in Ids /\ \A k \in DOMAIN s.users : s.users[k] # id
    BY AnIdIsFree
  <2>2. Shape(s)
    BY DEF Tracked, Typed
  <2>3. t = [s EXCEPT !.users = u, !.own = o]
    BY <1>2 DEF GetOrCreateUser
  <2>4. \A k \in DOMAIN s.users : ~Alike(s.mapping, k, n)
    BY <1>2, HasIs DEF HasUser
  <2>5. n \notin DOMAIN s.users
    BY <2>4 DEF Alike
  <2>14. /\ \A k : k \in DOMAIN u <=> (k = n \/ (k \in DOMAIN s.users /\ ~Alike(s.mapping, k, n)))
         /\ u[n] = id /\ \A k \in DOMAIN s.users : ~Alike(s.mapping, k, n) => u[k] = s.users[k]
    BY PutIs
  <2> HIDE DEF id, u, o
  <2>6. DOMAIN u = DOMAIN s.users \cup {n} /\ u[n] = id /\ \A k \in DOMAIN s.users : u[k] = s.users[k]
    <3>1. \A k : k \in DOMAIN u <=> (k = n \/ k \in DOMAIN s.users)
      BY <2>4, <2>14
    <3>2. DOMAIN u = DOMAIN s.users \cup {n}
      BY <3>1
    <3> QED BY <2>4, <2>14, <3>2
  <2>7. Shape(t) /\ t.mapping = s.mapping /\ t.nick = s.nick /\ t.own = o /\ t.users = u
        /\ t.channels = s.channels
    BY <2>2, <2>3 DEF Shape
  <2>8. Met(s, t, n)
    BY <1>2, <2>1, <2>5, <2>6, <2>7 DEF Met, o
  <2>9. o \subseteq Ids
    BY <2>1 DEF Tracked, Typed, o
  <2>10. Typed(t)
    BY <2>1, <2>6, <2>7, <2>9 DEF Tracked, Typed
  <2>11. UsersApart(t)
    <3>1. Keyed(s.mapping, u)
      BY PutIsKeyed DEF Tracked, UsersApart, u
    <3> QED BY <2>1, <2>6, <2>7, <3>1 DEF Tracked, UsersApart
  <2>12. MembersFollow(t)
    BY <2>6, <2>7 DEF Tracked, MembersFollow
  <2>13. HasUser(t, n)
    <3>1. Alike(t.mapping, n, n)
      BY DEF Alike
    <3> QED BY <2>6, <2>7, <3>1, HasIs DEF HasUser
  <2> QED BY <2>8, <2>10, <2>11, <2>12, <2>13 DEF Tracked
<1> QED BY <1>1, <1>2

\* getOrCreateChannel: there is a channel without members more, or nothing changes.
Opened(s, t, c) ==
  /\ t.mapping = s.mapping /\ t.nick = s.nick /\ t.own = s.own /\ t.users = s.users
  /\ \/ t = s /\ (HasChannel(s, c) \/ Cardinality(DOMAIN s.channels) >= MaxChannels)
     \/ /\ ~HasChannel(s, c) /\ ~(Cardinality(DOMAIN s.channels) >= MaxChannels)
        /\ DOMAIN t.channels = DOMAIN s.channels \cup {c} /\ c \notin DOMAIN s.channels
        /\ DOMAIN t.channels[c] = {}
        /\ \A d \in DOMAIN s.channels : t.channels[d] = s.channels[d]

\* It does, and keeps track.
LEMMA OpenedIs ==
  ASSUME NEW s, Tracked(s), NEW c \in Chans, NEW t, t = GetOrCreateChannel(s, c)
  PROVE  Opened(s, t, c) /\ Tracked(t)
<1>1. CASE HasChannel(s, c) \/ Cardinality(DOMAIN s.channels) >= MaxChannels
  BY <1>1 DEF GetOrCreateChannel, Opened
<1>2. CASE ~(HasChannel(s, c) \/ Cardinality(DOMAIN s.channels) >= MaxChannels)
  <2> DEFINE ch == Put(s.mapping, s.channels, c, <<>>)
  <2>1. t = [s EXCEPT !.channels = ch] /\ Shape(s)
    BY <1>2 DEF GetOrCreateChannel, Tracked, Typed
  <2>2. \A k \in DOMAIN s.channels : ~Alike(s.mapping, k, c)
    BY <1>2, HasIs DEF HasChannel
  <2>3. c \notin DOMAIN s.channels
    BY <2>2 DEF Alike
  <2>11. /\ \A k : k \in DOMAIN ch <=> (k = c \/ (k \in DOMAIN s.channels /\ ~Alike(s.mapping, k, c)))
         /\ ch[c] = <<>>
         /\ \A k \in DOMAIN s.channels : ~Alike(s.mapping, k, c) => ch[k] = s.channels[k]
    BY PutIs
  <2> HIDE DEF ch
  <2>4. DOMAIN ch = DOMAIN s.channels \cup {c} /\ ch[c] = <<>>
        /\ \A k \in DOMAIN s.channels : ch[k] = s.channels[k]
    <3>1. \A k : k \in DOMAIN ch <=> (k = c \/ k \in DOMAIN s.channels)
      BY <2>2, <2>11
    <3>2. DOMAIN ch = DOMAIN s.channels \cup {c}
      BY <3>1
    <3> QED BY <2>2, <2>11, <3>2
  <2>5. DOMAIN ch[c] = {}
    BY <2>4
  <2>6. Shape(t) /\ t.mapping = s.mapping /\ t.nick = s.nick /\ t.own = s.own /\ t.users = s.users
        /\ t.channels = ch
    BY <2>1 DEF Shape
  <2>7. Opened(s, t, c)
    BY <1>2, <2>3, <2>4, <2>5, <2>6 DEF Opened
  <2>8. Typed(t)
    BY <2>4, <2>6 DEF Tracked, Typed
  <2>9. UsersApart(t)
    <3>1. Keyed(s.mapping, ch)
      BY PutIsKeyed DEF Tracked, UsersApart, ch
    <3> QED BY <2>6, <3>1 DEF Tracked, UsersApart
  <2>10. MembersFollow(t)
    BY <2>4, <2>5, <2>6 DEF Tracked, MembersFollow
  <2> QED BY <2>7, <2>8, <2>9, <2>10 DEF Tracked
<1> QED BY <1>1, <1>2

\* removeChannel.
Closed(s, t, c) ==
  /\ t.mapping = s.mapping /\ t.nick = s.nick /\ t.own = s.own /\ t.users = s.users
  /\ \A d : d \in DOMAIN t.channels <=> (d \in DOMAIN s.channels /\ ~Alike(s.mapping, d, c))
  /\ \A d \in DOMAIN t.channels : t.channels[d] = s.channels[d]

\* It does, and keeps track.
LEMMA ClosedIs ==
  ASSUME NEW s, Tracked(s), NEW c, NEW t, t = RemoveChannel(s, c)
  PROVE  Closed(s, t, c) /\ Tracked(t)
<1> DEFINE ch == Del(s.mapping, s.channels, c)
<1>1. t = [s EXCEPT !.channels = ch] /\ Shape(s)
  BY DEF RemoveChannel, Tracked, Typed
<1>2. /\ \A d : d \in DOMAIN ch <=> (d \in DOMAIN s.channels /\ ~Alike(s.mapping, d, c))
      /\ \A d \in DOMAIN ch : ch[d] = s.channels[d]
  BY DelIs
<1>3. Keyed(s.mapping, ch)
  BY PutIsKeyed DEF Tracked, UsersApart
<1> HIDE DEF ch
<1>4. Shape(t) /\ t.mapping = s.mapping /\ t.nick = s.nick /\ t.own = s.own /\ t.users = s.users
      /\ t.channels = ch
  BY <1>1 DEF Shape
<1>5. DOMAIN ch \subseteq DOMAIN s.channels
  BY <1>2
<1>6. Closed(s, t, c)
  BY <1>2, <1>4 DEF Closed
<1>7. Typed(t) /\ UsersApart(t)
  BY <1>3, <1>4, <1>5 DEF Tracked, Typed, UsersApart
<1>8. MembersFollow(t)
  BY <1>2, <1>4, <1>5 DEF Tracked, MembersFollow
<1> QED BY <1>6, <1>7, <1>8 DEF Tracked

\* The members of one channel, of the many, are others.
Refilled(s, t, c, k, f) ==
  /\ Shape(t) /\ t.mapping = s.mapping /\ t.nick = s.nick /\ t.own = s.own /\ t.users = s.users
  /\ k \in DOMAIN s.channels /\ Members(s, c) = s.channels[k]
  /\ \A d \in DOMAIN s.channels : Alike(s.mapping, d, c) <=> d = k
  /\ DOMAIN t.channels = DOMAIN s.channels /\ t.channels[k] = f
  /\ \A d \in DOMAIN s.channels : d # k => t.channels[d] = s.channels[d]

\* That is what setting them comes to, and a store where every name in f is a user of
\* that id still keeps track.
LEMMA RefilledIs ==
  ASSUME NEW s, Tracked(s), NEW c, HasChannel(s, c), NEW f, NEW t, t = SetMembers(s, c, f)
  PROVE  \E k : /\ Refilled(s, t, c, k, f)
                /\ (\A n \in DOMAIN f : n \in DOMAIN s.users /\ s.users[n] = f[n]) => Tracked(t)
<1>1. Keyed(s.mapping, s.channels) /\ Shape(s)
  BY DEF Tracked, UsersApart, Typed
<1>2. PICK k \in DOMAIN s.channels :
        /\ Alike(s.mapping, k, c) /\ Keys(s.mapping, s.channels, c) = {k}
        /\ Get(s.mapping, s.channels, c) = s.channels[k]
        /\ (CHOOSE j \in Keys(s.mapping, s.channels, c) : TRUE) = k
  BY <1>1, KeyIs DEF HasChannel
<1>3. \A d \in DOMAIN s.channels : Alike(s.mapping, d, c) <=> d = k
  BY <1>2, HasIs
<1>4. t = [s EXCEPT !.channels = [s.channels EXCEPT ![k] = f]]
  BY <1>2 DEF SetMembers
<1> DEFINE ch == [s.channels EXCEPT ![k] = f]
<1>5. DOMAIN ch = DOMAIN s.channels /\ ch[k] = f /\ \A d \in DOMAIN s.channels : d # k => ch[d] = s.channels[d]
  BY <1>2
<1> HIDE DEF ch
<1>6. t = [s EXCEPT !.channels = ch]
  BY <1>4 DEF ch
<1>7. Shape(t) /\ t.mapping = s.mapping /\ t.nick = s.nick /\ t.own = s.own /\ t.users = s.users
      /\ t.channels = ch
  BY <1>1, <1>6 DEF Shape
<1>8. Refilled(s, t, c, k, f)
  BY <1>2, <1>3, <1>5, <1>7 DEF Refilled, Members
<1>9. ASSUME \A n \in DOMAIN f : n \in DOMAIN s.users /\ s.users[n] = f[n] PROVE Tracked(t)
  <2>1. Typed(t) /\ UsersApart(t)
    BY <1>5, <1>7 DEF Tracked, Typed, UsersApart, Keyed
  <2>2. MembersFollow(t)
    BY <1>5, <1>7, <1>9 DEF Tracked, MembersFollow
  <2> QED BY <2>1, <2>2 DEF Tracked
<1> QED BY <1>8, <1>9

\* What a method leaves alone but for the members of channels.
ButMembers(s, t) ==
  /\ t.mapping = s.mapping /\ t.nick = s.nick /\ t.own = s.own /\ t.users = s.users
  /\ DOMAIN t.channels = DOMAIN s.channels

\* addMember: the user that n names is in the channel that c names.
Added(s, t, c, n) ==
  /\ ButMembers(s, t)
  /\ \E k \in DOMAIN s.users : 
       /\ Alike(s.mapping, k, n)
       /\ \A d \in DOMAIN s.channels :
            DOMAIN t.channels[d] = DOMAIN s.channels[d] \cup (IF Alike(s.mapping, d, c) THEN {k} ELSE {})

\* It is, and the store keeps track.
LEMMA AddedIs ==
  ASSUME NEW s, Tracked(s), NEW c, HasChannel(s, c), NEW n, HasUser(s, n), NEW t, t = AddMember(s, c, n)
  PROVE  Added(s, t, c, n) /\ Tracked(t)
<1>1. Keyed(s.mapping, s.users)
  BY DEF Tracked, UsersApart
<1>2. PICK k \in DOMAIN s.users :
        Alike(s.mapping, k, n) /\ (CHOOSE j \in Keys(s.mapping, s.users, n) : TRUE) = k
  BY <1>1, KeyIs DEF HasUser
<1>3. ASSUME NEW j \in DOMAIN s.users, Alike(s.mapping, j, n) PROVE j = k
  BY <1>1, <1>2, <1>3 DEF Keyed, Alike
<1>4. \A d \in DOMAIN s.channels : \A j \in DOMAIN s.channels[d] : j \in DOMAIN s.users /\ s.users[j] = s.channels[d][j]
  BY DEF Tracked, MembersFollow
<1>5. CASE Has(s.mapping, Members(s, c), n)
  <2>1. t = s
    BY <1>5 DEF AddMember
  <2>2. PICK kc : Refilled(s, SetMembers(s, c, <<>>), c, kc, <<>>)
    BY RefilledIs
  <2>3. Members(s, c) = s.channels[kc] /\ kc \in DOMAIN s.channels
        /\ \A d \in DOMAIN s.channels : Alike(s.mapping, d, c) <=> d = kc
    BY <2>2 DEF Refilled
  <2>4. PICK j \in DOMAIN s.channels[kc] : Alike(s.mapping, j, n)
    BY <1>5, <2>3, HasIs
  <2>5. k \in DOMAIN s.channels[kc]
    BY <1>3, <1>4, <2>3, <2>4
  <2>6. Added(s, t, c, n)
    BY <1>2, <2>1, <2>3, <2>5 DEF Added, ButMembers
  <2> QED BY <2>1, <2>6
<1>6. CASE ~Has(s.mapping, Members(s, c), n)
  <2> DEFINE f == Put(s.mapping, Members(s, c), k, s.users[k])
  <2>1. t = SetMembers(s, c, f)
    BY <1>2, <1>6 DEF AddMember
  <2>2. /\ \A j : j \in DOMAIN f <=> (j = k \/ (j \in DOMAIN Members(s, c) /\ ~Alike(s.mapping, j, k)))
        /\ f[k] = s.users[k]
        /\ \A j \in DOMAIN Members(s, c) : ~Alike(s.mapping, j, k) => f[j] = Members(s, c)[j]
    BY PutIs
  <2> HIDE DEF f
  <2>3. PICK kc : /\ Refilled(s, t, c, kc, f)
                  /\ (\A j \in DOMAIN f : j \in DOMAIN s.users /\ s.users[j] = f[j]) => Tracked(t)
    BY <2>1, RefilledIs
  <2>4. Members(s, c) = s.channels[kc] /\ kc \in DOMAIN s.channels /\ t.channels[kc] = f
        /\ (\A d \in DOMAIN s.channels : Alike(s.mapping, d, c) <=> d = kc)
        /\ \A d \in DOMAIN s.channels : d # kc => t.channels[d] = s.channels[d]
    BY <2>3 DEF Refilled
  <2>5. \A j \in DOMAIN Members(s, c) : ~Alike(s.mapping, j, k)
    BY <1>2, <1>6, HasIs DEF Alike
  <2>6. \A j : j \in DOMAIN f <=> (j = k \/ j \in DOMAIN s.channels[kc])
    BY <2>2, <2>4, <2>5
  <2>7. DOMAIN f = DOMAIN s.channels[kc] \cup {k}
    BY <2>6
  <2>8. Tracked(t)
    BY <1>4, <2>2, <2>3, <2>4, <2>5, <2>6
  <2>9. ButMembers(s, t)
    BY <2>3 DEF Refilled, ButMembers
  <2>10. ASSUME NEW d \in DOMAIN s.channels
         PROVE  DOMAIN t.channels[d] = DOMAIN s.channels[d] \cup (IF Alike(s.mapping, d, c) THEN {k} ELSE {})
    BY <2>4, <2>7
  <2> QED BY <1>2, <2>8, <2>9, <2>10 DEF Added
<1> QED BY <1>5, <1>6

\* removeMember: nobody in the channel that c names has the name n.
Removed(s, t, c, n) ==
  /\ ButMembers(s, t)
  /\ \A d \in DOMAIN s.channels : \A k :
       k \in DOMAIN t.channels[d] <=>
         k \in DOMAIN s.channels[d] /\ ~(Alike(s.mapping, d, c) /\ Alike(s.mapping, k, n))

\* It does so, and the store keeps track.
LEMMA RemovedIs ==
  ASSUME NEW s, Tracked(s), NEW c, HasChannel(s, c), NEW n, NEW t, t = RemoveMember(s, c, n)
  PROVE  Removed(s, t, c, n) /\ Tracked(t)
<1> DEFINE f == Del(s.mapping, Members(s, c), n)
<1>1. t = SetMembers(s, c, f)
  BY DEF RemoveMember
<1>2. /\ \A k : k \in DOMAIN f <=> (k \in DOMAIN Members(s, c) /\ ~Alike(s.mapping, k, n))
      /\ \A k \in DOMAIN f : f[k] = Members(s, c)[k]
  BY DelIs
<1> HIDE DEF f
<1>3. PICK kc : /\ Refilled(s, t, c, kc, f)
                /\ (\A j \in DOMAIN f : j \in DOMAIN s.users /\ s.users[j] = f[j]) => Tracked(t)
  BY <1>1, RefilledIs
<1>4. Members(s, c) = s.channels[kc] /\ kc \in DOMAIN s.channels /\ t.channels[kc] = f
      /\ (\A d \in DOMAIN s.channels : Alike(s.mapping, d, c) <=> d = kc)
      /\ \A d \in DOMAIN s.channels : d # kc => t.channels[d] = s.channels[d]
  BY <1>3 DEF Refilled
<1>5. Tracked(t)
  BY <1>2, <1>3, <1>4 DEF Tracked, MembersFollow
<1>6. ButMembers(s, t)
  BY <1>3 DEF Refilled, ButMembers
<1>7. ASSUME NEW d \in DOMAIN s.channels, NEW k
      PROVE  k \in DOMAIN t.channels[d] <=>
               k \in DOMAIN s.channels[d] /\ ~(Alike(s.mapping, d, c) /\ Alike(s.mapping, k, n))
  <2>1. CASE d = kc
    BY <1>2, <1>4, <2>1
  <2>2. CASE d # kc
    BY <1>4, <2>2
  <2> QED BY <2>1, <2>2
<1> QED BY <1>5, <1>6, <1>7 DEF Removed

\* removeUser: nobody is called n any more, neither as a user nor as a member.
Forgotten(s, t, n) ==
  /\ t.mapping = s.mapping /\ t.nick = s.nick /\ t.own = s.own /\ DOMAIN t.channels = DOMAIN s.channels
  /\ \A k : k \in DOMAIN t.users <=> k \in DOMAIN s.users /\ ~Alike(s.mapping, k, n)
  /\ \A k \in DOMAIN t.users : t.users[k] = s.users[k]
  /\ \A d \in DOMAIN s.channels : \A k :
       k \in DOMAIN t.channels[d] <=> k \in DOMAIN s.channels[d] /\ ~Alike(s.mapping, k, n)

\* That is so, and the store keeps track.
LEMMA ForgottenIs ==
  ASSUME NEW s, Tracked(s), NEW n, NEW t, t = RemoveUser(s, n)
  PROVE  Forgotten(s, t, n) /\ Tracked(t)
<1>1. \A d \in DOMAIN s.channels : \A k \in DOMAIN s.channels[d] :
        k \in DOMAIN s.users /\ s.users[k] = s.channels[d][k]
  BY DEF Tracked, MembersFollow
<1>2. CASE ~HasUser(s, n)
  <2>1. t = s
    BY <1>2 DEF RemoveUser
  <2>2. \A k \in DOMAIN s.users : ~Alike(s.mapping, k, n)
    BY <1>2, HasIs DEF HasUser
  <2> QED BY <1>1, <2>1, <2>2 DEF Forgotten
<1>3. CASE HasUser(s, n)
  <2> DEFINE u  == Del(s.mapping, s.users, n)
             ch == [c \in DOMAIN s.channels |-> Del(s.mapping, s.channels[c], n)]
  <2>1. t = [s EXCEPT !.users = u, !.channels = ch] /\ Shape(s)
    BY <1>3 DEF RemoveUser, Tracked, Typed
  <2>2. /\ \A k : k \in DOMAIN u <=> k \in DOMAIN s.users /\ ~Alike(s.mapping, k, n)
        /\ \A k \in DOMAIN u : u[k] = s.users[k]
    BY DelIs
  <2>3. Keyed(s.mapping, u)
    BY PutIsKeyed DEF Tracked, UsersApart
  <2>4. DOMAIN ch = DOMAIN s.channels
    OBVIOUS
  <2>5. ASSUME NEW d \in DOMAIN s.channels
        PROVE  /\ \A k : k \in DOMAIN ch[d] <=> k \in DOMAIN s.channels[d] /\ ~Alike(s.mapping, k, n)
               /\ \A k \in DOMAIN ch[d] : ch[d][k] = s.channels[d][k]
    <3>1. ch[d] = Del(s.mapping, s.channels[d], n)
      OBVIOUS
    <3> HIDE DEF ch
    <3> QED BY <3>1, DelIs
  <2> HIDE DEF u, ch
  <2>6. Shape(t) /\ t.mapping = s.mapping /\ t.nick = s.nick /\ t.own = s.own /\ t.users = u
        /\ t.channels = ch
    BY <2>1 DEF Shape
  <2>7. Forgotten(s, t, n)
    BY <2>2, <2>4, <2>5, <2>6 DEF Forgotten
  <2>8. DOMAIN u \subseteq DOMAIN s.users
    BY <2>2
  <2>9. Typed(t)
    BY <2>2, <2>4, <2>6, <2>8 DEF Tracked, Typed
  <2>10. UsersApart(t)
    BY <2>2, <2>3, <2>4, <2>6, <2>8 DEF Tracked, UsersApart, Keyed
  <2>11. MembersFollow(t)
    BY <1>1, <2>2, <2>4, <2>5, <2>6 DEF MembersFollow
  <2> QED BY <2>7, <2>9, <2>10, <2>11 DEF Tracked
<1> QED BY <1>2, <1>3

\* Somebody of that name is in one of the channels.
InSome(s, n) == \E c \in DOMAIN s.channels : \E k \in DOMAIN s.channels[c] : Alike(s.mapping, k, n)

\* A member is in one of the channels.
LEMMA MemberIsInSome ==
  ASSUME NEW s, NEW c \in DOMAIN s.channels, NEW k \in DOMAIN s.channels[c], NEW n, Alike(s.mapping, k, n)
  PROVE  InSome(s, n)
  BY DEF InSome

\* pruneOrphan, of each of N: a user stays if not named, if it is us, or if in a channel.
Pruned(s, t, N) ==
  /\ t.mapping = s.mapping /\ t.nick = s.nick /\ t.own = s.own /\ t.channels = s.channels
  /\ \A k : k \in DOMAIN t.users <=>
       k \in DOMAIN s.users /\ (IsSelf(s, k) \/ InSome(s, k) \/ \A n \in N : ~Alike(s.mapping, k, n))
  /\ \A k \in DOMAIN t.users : t.users[k] = s.users[k]

\* That is so, of any store.
LEMMA PrunedIs ==
  ASSUME NEW s, Shape(s), NEW N, NEW t, t = PruneOrphans(s, N)
  PROVE  Pruned(s, t, N) /\ Shape(t)
<1> DEFINE orphans == {n \in N : ~IsSelf(s, n) /\ ChannelsWithUser(s, n) = {}}
           stay    == {k \in DOMAIN s.users : \A n \in orphans : ~Alike(s.mapping, k, n)}
           u       == Restrict(s.users, stay)
<1>1. t = [s EXCEPT !.users = u]
  BY DEF PruneOrphans
<1>2. DOMAIN u = stay /\ \A k \in stay : u[k] = s.users[k]
  BY DEF Restrict
<1>3. ASSUME NEW n PROVE ChannelsWithUser(s, n) = {} <=> ~InSome(s, n)
  <2>1. \A c \in DOMAIN s.channels : Has(s.mapping, s.channels[c], n) <=>
          \E k \in DOMAIN s.channels[c] : Alike(s.mapping, k, n)
    BY HasIs
  <2> QED BY <2>1 DEF ChannelsWithUser, InSome
<1>4. ASSUME NEW k \in DOMAIN s.users
      PROVE  k \in stay <=> (IsSelf(s, k) \/ InSome(s, k) \/ \A n \in N : ~Alike(s.mapping, k, n))
  <2>1. ASSUME NEW n \in N, Alike(s.mapping, k, n)
        PROVE  (IsSelf(s, n) <=> IsSelf(s, k)) /\ (InSome(s, n) <=> InSome(s, k))
    BY <2>1 DEF IsSelf, InSome, Alike
  <2>2. \A n : n \in orphans <=> n \in N /\ ~IsSelf(s, n) /\ ~InSome(s, n)
    BY <1>3
  <2>3. k \in stay <=> \A n \in orphans : ~Alike(s.mapping, k, n)
    OBVIOUS
  <2> HIDE DEF orphans, stay
  <2> QED BY <2>1, <2>2, <2>3
<1>5. stay \subseteq DOMAIN s.users
  OBVIOUS
<1> HIDE DEF stay, u
<1>6. Shape(t) /\ t.mapping = s.mapping /\ t.nick = s.nick /\ t.own = s.own /\ t.users = u
      /\ t.channels = s.channels
  BY <1>1 DEF Shape
<1> QED BY <1>2, <1>4, <1>5, <1>6 DEF Pruned

\* A store that keeps track keeps track of those who stay.
LEMMA PrunedTracks ==
  ASSUME NEW s, Tracked(s), NEW N, NEW t, t = PruneOrphans(s, N)
  PROVE  Pruned(s, t, N) /\ Tracked(t)
<1>1. Pruned(s, t, N) /\ Shape(t)
  BY PrunedIs DEF Tracked, Typed
<1>2. DOMAIN t.users \subseteq DOMAIN s.users
  BY <1>1 DEF Pruned
<1>3. Typed(t)
  BY <1>1, <1>2 DEF Tracked, Typed, Pruned
<1>4. UsersApart(t)
  BY <1>1, <1>2 DEF Tracked, UsersApart, Pruned, Keyed
<1>5. MembersFollow(t)
  <2>1. ASSUME NEW c \in DOMAIN s.channels, NEW n \in DOMAIN s.channels[c]
        PROVE  n \in DOMAIN s.users /\ s.users[n] = s.channels[c][n] /\ InSome(s, n)
    <3>1. Alike(s.mapping, n, n)
      BY DEF Alike
    <3> QED BY <3>1, MemberIsInSome DEF Tracked, MembersFollow
  <2> QED BY <1>1, <2>1 DEF MembersFollow, Pruned
<1> QED BY <1>1, <1>3, <1>4, <1>5 DEF Tracked

\* A map whose entry k is under the name new, which no other entry has.
Moved(m, f, g, k, new) ==
  /\ \A j : j \in DOMAIN g <=> (j = new \/ (j \in DOMAIN f /\ j # k))
  /\ g[new] = f[k]
  /\ \A j \in DOMAIN f : j # k => ~Alike(m, j, new) /\ g[j] = f[j]
  /\ Keyed(m, g)

\* Taking an entry out and putting it in again under a name nobody else has moves it.
LEMMA MovedIs ==
  ASSUME NEW m, NEW f, Keyed(m, f), NEW k \in DOMAIN f, NEW old, Alike(m, k, old), NEW new,
         \A j \in DOMAIN f : j # k => ~Alike(m, j, new),
         NEW g, g = Put(m, Del(m, f, old), new, Get(m, f, old))
  PROVE  Moved(m, f, g, k, new)
<1> DEFINE d == Del(m, f, old)
           v == Get(m, f, old)
<1>1. v = f[k]
  <2>1. Has(m, f, old)
    BY HasIs
  <2>2. PICK j \in DOMAIN f : Alike(m, j, old) /\ Get(m, f, old) = f[j]
    BY <2>1, KeyIs
  <2>3. j = k
    BY <2>2 DEF Keyed, Alike
  <2> QED BY <2>2, <2>3
<1>2. /\ \A j : j \in DOMAIN d <=> (j \in DOMAIN f /\ ~Alike(m, j, old))
      /\ \A j \in DOMAIN d : d[j] = f[j]
  BY DelIs
<1>3. \A j \in DOMAIN f : Alike(m, j, old) <=> j = k
  BY DEF Keyed, Alike
<1>4. Keyed(m, d)
  BY PutIsKeyed
<1> HIDE DEF d, v
<1>5. g = Put(m, d, new, v)
  BY DEF d, v
<1>6. /\ \A j : j \in DOMAIN g <=> (j = new \/ (j \in DOMAIN d /\ ~Alike(m, j, new)))
      /\ g[new] = v
      /\ \A j \in DOMAIN d : ~Alike(m, j, new) => g[j] = d[j]
  BY <1>5, PutIs
<1>7. Keyed(m, g)
  BY <1>4, <1>5, PutIsKeyed
<1>8. ASSUME NEW j PROVE j \in DOMAIN g <=> (j = new \/ (j \in DOMAIN f /\ j # k))
  BY <1>2, <1>3, <1>6
<1>9. ASSUME NEW j \in DOMAIN f, j # k PROVE ~Alike(m, j, new) /\ g[j] = f[j]
  BY <1>2, <1>3, <1>6, <1>9
<1> QED BY <1>1, <1>6, <1>7, <1>8, <1>9 DEF Moved

\* renameUser, where it renames: the user k is now new, everywhere.
Renamed(r, t, k, new) ==
  /\ t.mapping = r.mapping /\ t.own = r.own /\ DOMAIN t.channels = DOMAIN r.channels
  /\ t.nick = (IF IsSelf(r, k) THEN new ELSE r.nick)
  /\ Moved(r.mapping, r.users, t.users, k, new)
  /\ \A d \in DOMAIN r.channels : \A j :
       j \in DOMAIN t.channels[d] <=> \/ j = new /\ k \in DOMAIN r.channels[d]
                                      \/ j \in DOMAIN r.channels[d] /\ j # k

\* Where the new name is free, renaming does that and the store keeps track.
LEMMA RenamedIs ==
  ASSUME NEW r, Tracked(r), NEW old, NEW new \in Nicks, NEW k \in DOMAIN r.users,
         Alike(r.mapping, k, old), \A j \in DOMAIN r.users : j # k => ~Alike(r.mapping, j, new),
         NEW u, u = Put(r.mapping, Del(r.mapping, r.users, old), new, Get(r.mapping, r.users, old)),
         NEW ch, DOMAIN ch = DOMAIN r.channels,
         \A c \in DOMAIN r.channels :
           ch[c] = IF Has(r.mapping, r.channels[c], old)
                   THEN Put(r.mapping, Del(r.mapping, r.channels[c], old), new,
                            Get(r.mapping, r.channels[c], old))
                   ELSE r.channels[c],
         NEW t, Shape(t), t.mapping = r.mapping, t.own = r.own, t.users = u, t.channels = ch,
         t.nick = IF IsSelf(r, old) THEN new ELSE r.nick
  PROVE  Renamed(r, t, k, new) /\ Tracked(t)
<1>1. Keyed(r.mapping, r.users)
  BY DEF Tracked, UsersApart
<1>2. Moved(r.mapping, r.users, u, k, new)
  BY <1>1, MovedIs
<1>3. \A d \in DOMAIN r.channels : \A j \in DOMAIN r.channels[d] :
        j \in DOMAIN r.users /\ r.users[j] = r.channels[d][j]
  BY DEF Tracked, MembersFollow
<1>4. ASSUME NEW d \in DOMAIN r.channels
      PROVE  /\ \A j : j \in DOMAIN ch[d] <=> \/ j = new /\ k \in DOMAIN r.channels[d]
                                              \/ j \in DOMAIN r.channels[d] /\ j # k
             /\ \A j \in DOMAIN ch[d] : j \in DOMAIN u /\ u[j] = ch[d][j]
  <2> DEFINE f == r.channels[d]
  <2>1. Keyed(r.mapping, f)
    BY <1>1, <1>3 DEF Keyed
  <2>2. \A j \in DOMAIN f : j \in DOMAIN r.users /\ r.users[j] = f[j]
    BY <1>3
  <2>3. \A j \in DOMAIN f : j # k => ~Alike(r.mapping, j, new)
    BY <2>2
  <2> HIDE DEF f
  <2>4. CASE k \in DOMAIN f
    <3>1. Has(r.mapping, f, old)
      BY <2>4, HasIs
    <3>2. ch[d] = Put(r.mapping, Del(r.mapping, f, old), new, Get(r.mapping, f, old))
      BY <3>1 DEF f
    <3>3. Moved(r.mapping, f, ch[d], k, new)
      BY <2>1, <2>3, <2>4, <3>2, MovedIs
    <3> QED BY <1>2, <2>2, <2>4, <3>3 DEF Moved, f
  <2>5. CASE k \notin DOMAIN f
    <3>1. ASSUME NEW j \in DOMAIN f, Alike(r.mapping, j, old) PROVE FALSE
      <4>1. j \in DOMAIN r.users /\ Alike(r.mapping, j, k)
        BY <2>2, <3>1 DEF Alike
      <4> QED BY <1>1, <2>5, <4>1 DEF Keyed
    <3>2. ~Has(r.mapping, f, old)
      BY <3>1, HasIs
    <3>3. ch[d] = f
      BY <3>2 DEF f
    <3> QED BY <1>2, <2>2, <2>5, <3>3 DEF Moved, f
  <2> QED BY <2>4, <2>5
<1>5. IsSelf(r, k) <=> IsSelf(r, old)
  BY DEF IsSelf, Alike
<1>6. Renamed(r, t, k, new)
  <2>1. \A d \in DOMAIN r.channels : \A j :
          j \in DOMAIN ch[d] <=> \/ j = new /\ k \in DOMAIN r.channels[d]
                                 \/ j \in DOMAIN r.channels[d] /\ j # k
    BY <1>4
  <2> QED BY <1>2, <1>5, <2>1 DEF Renamed
<1>7. Typed(t)
  BY <1>2 DEF Tracked, Typed, Moved
<1>8. UsersApart(t)
  <2>1. /\ \A j : j \in DOMAIN u <=> (j = new \/ (j \in DOMAIN r.users /\ j # k))
        /\ u[new] = r.users[k] /\ \A j \in DOMAIN r.users : j # k => u[j] = r.users[j]
        /\ Keyed(r.mapping, u)
    BY <1>2 DEF Moved
  <2>2. \A a, b \in DOMAIN r.users : r.users[a] = r.users[b] => a = b
    BY DEF Tracked, UsersApart
  <2>3. ASSUME NEW a \in DOMAIN u, NEW b \in DOMAIN u, u[a] = u[b] PROVE a = b
    BY <2>1, <2>2, <2>3
  <2>4. Keyed(r.mapping, r.channels)
    BY DEF Tracked, UsersApart
  <2>5. Keyed(t.mapping, t.channels)
    BY <2>4 DEF Keyed
  <2> QED BY <2>1, <2>3, <2>5 DEF UsersApart
<1>9. MembersFollow(t)
  BY <1>4 DEF MembersFollow
<1> QED BY <1>6, <1>7, <1>8, <1>9 DEF Tracked

\* Where a rename starts from: the store, or the store without who had the new name and
\* is not us.
Vacated(s, r, new) == r = s \/ (Forgotten(s, r, new) /\ ~IsSelf(s, new))

\* renameUser renames where it does not refuse to, and the store keeps track.
LEMMA RenameTracks ==
  ASSUME NEW s, Tracked(s), NEW old, NEW new \in Nicks, NEW t, t = RenameUser(s, old, new)
  PROVE  /\ Tracked(t)
         /\ t = s \/ \E r : \E k \in DOMAIN r.users :
                       Tracked(r) /\ Vacated(s, r, new) /\ Renamed(r, t, k, new)
<1> DEFINE occupied == HasUser(s, new) /\ User(s, new) # User(s, old)
           r        == IF occupied THEN RemoveUser(s, new) ELSE s
           u        == Put(s.mapping, Del(s.mapping, r.users, old), new, Get(s.mapping, r.users, old))
           ch       == [c \in DOMAIN r.channels |->
                          IF Has(s.mapping, r.channels[c], old)
                          THEN Put(s.mapping, Del(s.mapping, r.channels[c], old), new,
                                   Get(s.mapping, r.channels[c], old))
                          ELSE r.channels[c]]
           nick     == IF IsSelf(s, old) THEN new ELSE r.nick
<1>1. CASE ~HasUser(s, old) \/ (occupied /\ IsSelf(s, new))
  <2>1. t = s
    BY <1>1 DEF RenameUser
  <2> QED BY <2>1
<1>2. CASE HasUser(s, old) /\ ~(occupied /\ IsSelf(s, new))
  <2>1. t = [r EXCEPT !.users = u, !.channels = ch, !.nick = nick]
    BY <1>2 DEF RenameUser
  <2>2. Keyed(s.mapping, s.users) /\ \A a, b \in DOMAIN s.users : s.users[a] = s.users[b] => a = b
    BY DEF Tracked, UsersApart
  <2>3. PICK k \in DOMAIN s.users : Alike(s.mapping, k, old) /\ User(s, old) = s.users[k]
    BY <1>2, <2>2, KeyIs DEF HasUser, User
  <2>4. Tracked(r) /\ Vacated(s, r, new) /\ r.mapping = s.mapping /\ r.nick = s.nick
        /\ k \in DOMAIN r.users /\ \A j \in DOMAIN r.users : j # k => ~Alike(s.mapping, j, new)
    <3>1. CASE occupied
      <4>1. r = RemoveUser(s, new)
        BY <3>1
      <4>2. Forgotten(s, r, new) /\ Tracked(r)
        BY <4>1, ForgottenIs
      <4>3. PICK j \in DOMAIN s.users : Alike(s.mapping, j, new) /\ User(s, new) = s.users[j]
        BY <2>2, <3>1, KeyIs DEF HasUser, User
      <4>4. ~Alike(s.mapping, k, new)
        BY <2>2, <2>3, <3>1, <4>3 DEF Keyed, Alike
      <4> QED BY <1>2, <3>1, <4>2, <4>4 DEF Forgotten, Vacated
    <3>2. CASE ~occupied
      <4>1. r = s
        BY <3>2
      <4>2. ASSUME NEW j \in DOMAIN s.users, Alike(s.mapping, j, new) PROVE j = k
        <5>1. HasUser(s, new)
          BY <4>2, HasIs DEF HasUser
        <5>2. PICK i \in DOMAIN s.users : Alike(s.mapping, i, new) /\ User(s, new) = s.users[i]
          BY <2>2, <5>1, KeyIs DEF HasUser, User
        <5>3. i = j
          BY <2>2, <4>2, <5>2 DEF Keyed, Alike
        <5> QED BY <2>2, <2>3, <3>2, <5>1, <5>2, <5>3
      <4> QED BY <4>1, <4>2 DEF Vacated
    <3> QED BY <3>1, <3>2
  <2>5. DOMAIN ch = DOMAIN r.channels
        /\ \A c \in DOMAIN r.channels :
             ch[c] = IF Has(s.mapping, r.channels[c], old)
                     THEN Put(s.mapping, Del(s.mapping, r.channels[c], old), new,
                              Get(s.mapping, r.channels[c], old))
                     ELSE r.channels[c]
    OBVIOUS
  <2>6. u = Put(s.mapping, Del(s.mapping, r.users, old), new, Get(s.mapping, r.users, old))
    OBVIOUS
  <2>7. nick = IF IsSelf(r, old) THEN new ELSE r.nick
    BY <2>4 DEF IsSelf
  <2>8. Shape(r)
    BY <2>4 DEF Tracked, Typed
  <2> HIDE DEF r, u, ch, nick, occupied
  <2>9. Shape(t) /\ t.mapping = r.mapping /\ t.own = r.own /\ t.users = u /\ t.channels = ch /\ t.nick = nick
    BY <2>1, <2>8 DEF Shape
  <2>10. Renamed(r, t, k, new) /\ Tracked(t)
    BY <2>3, <2>4, <2>5, <2>6, <2>7, <2>9, RenamedIs
  <2> QED BY <2>4, <2>10
<1> QED BY <1>1, <1>2

-----------------------------------------------------------------------------
(* A change of casemapping.                                                *)

\* What rekeying comes to: of the entries that now fold alike one is left, ours if it is
\* among them.
Winners(m, f, own, g) ==
  /\ DOMAIN g \subseteq DOMAIN f /\ \A k \in DOMAIN g : g[k] = f[k]
  /\ Keyed(m, g)
  /\ \A k \in DOMAIN f : \E j \in DOMAIN g : Alike(m, j, k) /\ (f[k] \in own => f[j] \in own)

\* It comes to that, of a finite map.
LEMMA RekeyedIs ==
  ASSUME NEW m, NEW f, IsFiniteSet(DOMAIN f), NEW own, NEW g \in Rekeyed(m, f, own)
  PROVE  Winners(m, f, own, g)
<1>1. PICK K \in SUBSET DOMAIN f :
        /\ g = Restrict(f, K)
        /\ \A k \in DOMAIN f : /\ Cardinality(Keys(m, Restrict(f, K), k)) = 1
                               /\ f[k] \in own => Get(m, Restrict(f, K), k) \in own
  BY DEF Rekeyed
<1>2. DOMAIN g = K /\ \A k \in K : g[k] = f[k]
  BY <1>1 DEF Restrict
<1>3. ASSUME NEW k \in DOMAIN f
      PROVE  \E j \in K : /\ Keys(m, g, k) = {j} /\ Alike(m, j, k)
                          /\ f[k] \in own => f[j] \in own
  <2>1. \A j : j \in Keys(m, g, k) <=> j \in K /\ Alike(m, j, k)
    BY <1>2, HasIs
  <2>2. IsFiniteSet(Keys(m, g, k))
    <3>1. Keys(m, g, k) \subseteq DOMAIN f
      BY <2>1
    <3> QED BY <3>1, FS_Subset
  <2>3. Cardinality(Keys(m, g, k)) = 1
    BY <1>1
  <2>4. PICK j : Keys(m, g, k) = {j}
    BY <2>2, <2>3, FS_Singleton
  <2>5. j \in K /\ Alike(m, j, k)
    BY <2>1, <2>4
  <2>6. Get(m, g, k) = f[j]
    BY <1>2, <2>4, <2>5 DEF Get
  <2>7. f[k] \in own => f[j] \in own
    BY <1>1, <2>6
  <2> QED BY <2>4, <2>5, <2>7
<1>4. ASSUME NEW a \in K, NEW b \in K, Alike(m, a, b) PROVE a = b
  <2>1. PICK j \in K : Keys(m, g, b) = {j}
    BY <1>3
  <2>2. a \in Keys(m, g, b) /\ b \in Keys(m, g, b)
    BY <1>2, <1>4, HasIs DEF Alike
  <2> QED BY <2>1, <2>2
<1>5. Keyed(m, g)
  BY <1>2, <1>4 DEF Keyed
<1> QED BY <1>2, <1>3, <1>5 DEF Winners

\* Which channels are left, with which members, before the users are looked at.
Elected(s, m, ms) ==
  /\ \E cs : Winners(m, s.channels, {}, cs) /\ DOMAIN ms = DOMAIN cs
  /\ \A c \in DOMAIN ms : Winners(m, s.channels[c], s.own, ms[c])

\* Which users are left, if u are those whose names are: we, who is in a channel, and who
\* was in none of the channels that go.
Stay(s, m, u, ms, k) ==
  \/ Alike(m, k, s.nick)
  \/ \E c \in DOMAIN ms : \E j \in DOMAIN ms[c] : Alike(m, j, k)
  \/ ~\E c \in DOMAIN s.channels \ DOMAIN ms : \E n \in DOMAIN s.channels[c] : Alike(m, k, n)

\* What is left, of all that.
Recast(s, t, m, u, ms) ==
  /\ Winners(m, s.users, s.own, u) /\ Elected(s, m, ms)
  /\ t.mapping = m /\ t.nick = s.nick /\ t.own = s.own /\ DOMAIN t.channels = DOMAIN ms
  /\ \A k : k \in DOMAIN t.users <=> k \in DOMAIN u /\ Stay(s, m, u, ms, k)
  /\ \A k \in DOMAIN t.users : t.users[k] = s.users[k]
  /\ \A c \in DOMAIN ms : \A k : k \in DOMAIN t.channels[c] <=> k \in DOMAIN ms[c] /\ k \in DOMAIN u

\* A member of a channel that is left stays a user, if its name does.
LEMMA MembersStay ==
  ASSUME NEW s, NEW m, NEW u, NEW ms, NEW c \in DOMAIN ms, NEW k \in DOMAIN ms[c]
  PROVE  Stay(s, m, u, ms, k)
<1>1. Alike(m, k, k)
  BY DEF Alike
<1> QED BY <1>1 DEF Stay

\* The choices that a change of casemapping leaves, and what is done with them.
LEMMA RekeysAre ==
  ASSUME NEW s, Tracked(s), NEW m, NEW t \in Rekeys(s, m)
  PROVE  \E u, ms, N, mid :
           /\ Winners(m, s.users, s.own, u) /\ Elected(s, m, ms)
           /\ \A n : n \in N <=> \E c \in DOMAIN s.channels \ DOMAIN ms : n \in DOMAIN s.channels[c]
           /\ Shape(mid) /\ mid.mapping = m /\ mid.nick = s.nick /\ mid.own = s.own
           /\ mid.users = u /\ mid.channels = ms
           /\ t = DropUsers(PruneOrphans(mid, N), Range(s.users) \ Range(u))
<1> DEFINE N(ms) == UNION {DOMAIN s.channels[c] : c \in DOMAIN s.channels \ DOMAIN ms}
<1>1. PICK us \in Rekeyed(m, s.users, s.own), ms \in MembersRekeyed(s, m) : t = Resettled(s, m, us, ms)
  BY DEF Rekeys
<1>2. PICK cs \in Rekeyed(m, s.channels, {}) :
        ms \in {f \in [DOMAIN cs -> UNION {Rekeyed(m, cs[c], s.own) : c \in DOMAIN cs}] :
                  \A c \in DOMAIN cs : f[c] \in Rekeyed(m, cs[c], s.own)}
  BY <1>1 DEF MembersRekeyed
<1>3. DOMAIN ms = DOMAIN cs /\ \A c \in DOMAIN cs : ms[c] \in Rekeyed(m, cs[c], s.own)
  BY <1>2
<1>4. \A n : n \in N(ms) <=> \E c \in DOMAIN s.channels \ DOMAIN ms : n \in DOMAIN s.channels[c]
  OBVIOUS
<1>5. Shape(s)
  BY DEF Tracked, Typed
<1>12. PICK mid : mid = [s EXCEPT !.mapping = m, !.channels = ms, !.users = us]
  OBVIOUS
<1>13. t = DropUsers(PruneOrphans(mid, N(ms)), Range(s.users) \ Range(us))
  BY <1>1, <1>12 DEF Resettled
<1> HIDE DEF N
<1>6. Shape(mid) /\ mid.mapping = m /\ mid.nick = s.nick /\ mid.own = s.own
      /\ mid.users = us /\ mid.channels = ms
  BY <1>5, <1>12 DEF Shape
<1>7. IsFiniteSet(DOMAIN s.users) /\ IsFiniteSet(DOMAIN s.channels)
      /\ \A c \in DOMAIN s.channels : IsFiniteSet(DOMAIN s.channels[c])
  BY MapsAreFinite
<1>8. Winners(m, s.users, s.own, us)
  BY <1>7, RekeyedIs
<1>9. Winners(m, s.channels, {}, cs)
  BY <1>7, RekeyedIs
<1>10. ASSUME NEW c \in DOMAIN cs PROVE Winners(m, s.channels[c], s.own, ms[c])
  <2>1. c \in DOMAIN s.channels /\ cs[c] = s.channels[c]
    BY <1>9 DEF Winners
  <2>2. ms[c] \in Rekeyed(m, s.channels[c], s.own)
    BY <1>3, <2>1
  <2>3. IsFiniteSet(DOMAIN s.channels[c])
    BY <1>7, <2>1
  <2> QED BY <2>2, <2>3, RekeyedIs
<1>11. Elected(s, m, ms)
  BY <1>3, <1>9, <1>10 DEF Elected
<1> QED BY <1>4, <1>6, <1>8, <1>11, <1>13

\* The members that are left are those whose names are, and are the users under them.
Dropped(s, p, t, u, ms) ==
  /\ Shape(t) /\ t.mapping = p.mapping /\ t.nick = p.nick /\ t.own = p.own /\ t.users = p.users
  /\ DOMAIN t.channels = DOMAIN ms
  /\ \A c \in DOMAIN ms : \A k : k \in DOMAIN t.channels[c] <=> k \in DOMAIN ms[c] /\ k \in DOMAIN u
  /\ \A c \in DOMAIN ms : \A k \in DOMAIN t.channels[c] : t.channels[c][k] = s.users[k]

\* Dropping the users that lost drops the members whose names lost.
LEMMA DroppedIs ==
  ASSUME NEW s, Tracked(s), NEW m, NEW u, Winners(m, s.users, s.own, u), NEW ms, Elected(s, m, ms),
         NEW p, Shape(p), p.channels = ms, NEW t, t = DropUsers(p, Range(s.users) \ Range(u))
  PROVE  Dropped(s, p, t, u, ms)
<1> DEFINE losers == Range(s.users) \ Range(u)
           K(c)   == {k \in DOMAIN ms[c] : ms[c][k] \notin losers}
           ch     == [c \in DOMAIN ms |-> Restrict(ms[c], K(c))]
<1>1. t = [p EXCEPT !.channels = ch]
  BY DEF DropUsers
<1>2. ASSUME NEW c \in DOMAIN ms
      PROVE  DOMAIN ch[c] = K(c) /\ \A k \in K(c) : ch[c][k] = ms[c][k]
  BY DEF Restrict
<1>3. ASSUME NEW c \in DOMAIN ms, NEW k \in DOMAIN ms[c]
      PROVE  ms[c][k] = s.users[k] /\ k \in DOMAIN s.users
  <2>1. DOMAIN ms \subseteq DOMAIN s.channels
    BY DEF Elected, Winners
  <2>2. k \in DOMAIN s.channels[c] /\ ms[c][k] = s.channels[c][k]
    BY DEF Elected, Winners
  <2> QED BY <2>1, <2>2 DEF Tracked, MembersFollow
<1>4. ASSUME NEW k \in DOMAIN s.users PROVE s.users[k] \notin losers <=> k \in DOMAIN u
  <2>1. s.users[k] \in Range(s.users)
    BY DEF Range
  <2>2. s.users[k] \in Range(u) <=> \E j \in DOMAIN u : u[j] = s.users[k]
    BY DEF Range
  <2>3. \A j \in DOMAIN u : j \in DOMAIN s.users /\ u[j] = s.users[j]
    BY DEF Winners
  <2>4. \A j \in DOMAIN s.users : s.users[j] = s.users[k] => j = k
    BY DEF Tracked, UsersApart
  <2> QED BY <2>1, <2>2, <2>3, <2>4
<1>5. ASSUME NEW c \in DOMAIN ms, NEW k
      PROVE  k \in K(c) <=> k \in DOMAIN ms[c] /\ k \in DOMAIN u
  BY <1>3, <1>4
<1>6. DOMAIN ch = DOMAIN ms
  OBVIOUS
<1> HIDE DEF losers, K, ch
<1>7. Shape(t) /\ t.mapping = p.mapping /\ t.nick = p.nick /\ t.own = p.own /\ t.users = p.users
      /\ t.channels = ch
  BY <1>1 DEF Shape
<1>8. ASSUME NEW c \in DOMAIN ms
      PROVE  /\ \A k : k \in DOMAIN t.channels[c] <=> k \in DOMAIN ms[c] /\ k \in DOMAIN u
             /\ \A k \in DOMAIN t.channels[c] : t.channels[c][k] = s.users[k]
  <2>1. t.channels[c] = ch[c] /\ DOMAIN ch[c] = K(c)
    BY <1>2, <1>7
  <2>2. \A k : k \in DOMAIN t.channels[c] <=> k \in DOMAIN ms[c] /\ k \in DOMAIN u
    BY <1>5, <2>1
  <2>3. ASSUME NEW k \in DOMAIN t.channels[c] PROVE t.channels[c][k] = s.users[k]
    <3>1. k \in K(c) /\ k \in DOMAIN ms[c]
      BY <2>1, <2>2
    <3>2. ch[c][k] = ms[c][k]
      BY <1>2, <3>1
    <3>3. ms[c][k] = s.users[k]
      BY <1>3, <3>1
    <3> QED BY <2>1, <3>2, <3>3
  <2> QED BY <2>2, <2>3
<1> QED BY <1>6, <1>7, <1>8 DEF Dropped

\* A change of casemapping leaves what it should, and the store keeps track.
LEMMA RecastTracks ==
  ASSUME NEW s, Tracked(s), NEW m \in Mappings, NEW t \in Rekeys(s, m)
  PROVE  Tracked(t) /\ \E u, ms : Recast(s, t, m, u, ms)
<1>1. PICK u, ms, N, mid :
        /\ Winners(m, s.users, s.own, u) /\ Elected(s, m, ms)
        /\ \A n : n \in N <=> \E c \in DOMAIN s.channels \ DOMAIN ms : n \in DOMAIN s.channels[c]
        /\ Shape(mid) /\ mid.mapping = m /\ mid.nick = s.nick /\ mid.own = s.own
        /\ mid.users = u /\ mid.channels = ms
        /\ t = DropUsers(PruneOrphans(mid, N), Range(s.users) \ Range(u))
  BY RekeysAre
<1>2. PICK p : p = PruneOrphans(mid, N)
  OBVIOUS
<1>3. Pruned(mid, p, N) /\ Shape(p)
  BY <1>1, <1>2, PrunedIs
<1>4. p.mapping = m /\ p.nick = s.nick /\ p.own = s.own /\ p.channels = ms
  BY <1>1, <1>3 DEF Pruned
<1>5. t = DropUsers(p, Range(s.users) \ Range(u))
  BY <1>1, <1>2
<1>15. Dropped(s, p, t, u, ms)
  BY <1>1, <1>3, <1>4, <1>5, DroppedIs
<1>6. /\ Shape(t) /\ t.mapping = p.mapping /\ t.nick = p.nick /\ t.own = p.own /\ t.users = p.users
      /\ DOMAIN t.channels = DOMAIN ms
      /\ \A c \in DOMAIN ms : \A k : k \in DOMAIN t.channels[c] <=> k \in DOMAIN ms[c] /\ k \in DOMAIN u
      /\ \A c \in DOMAIN ms : \A k \in DOMAIN t.channels[c] : t.channels[c][k] = s.users[k]
  BY <1>15 DEF Dropped
<1>7. ASSUME NEW k PROVE k \in DOMAIN t.users <=> k \in DOMAIN u /\ Stay(s, m, u, ms, k)
  <2>1. k \in DOMAIN p.users <=>
          k \in DOMAIN u /\ (IsSelf(mid, k) \/ InSome(mid, k) \/ \A n \in N : ~Alike(m, k, n))
    BY <1>1, <1>3 DEF Pruned
  <2>2. IsSelf(mid, k) <=> Alike(m, k, s.nick)
    BY <1>1 DEF IsSelf
  <2>3. InSome(mid, k) <=> \E c \in DOMAIN ms : \E j \in DOMAIN ms[c] : Alike(m, j, k)
    BY <1>1 DEF InSome
  <2>4. (\A n \in N : ~Alike(m, k, n)) <=>
          ~\E c \in DOMAIN s.channels \ DOMAIN ms : \E n \in DOMAIN s.channels[c] : Alike(m, k, n)
    BY <1>1
  <2> QED BY <1>6, <2>1, <2>2, <2>3, <2>4 DEF Stay
<1>8. DOMAIN u \subseteq DOMAIN s.users /\ (\A k \in DOMAIN u : u[k] = s.users[k]) /\ Keyed(m, u)
  BY <1>1 DEF Winners
<1>9. \A k \in DOMAIN t.users : k \in DOMAIN u /\ t.users[k] = s.users[k]
  <2>1. \A k \in DOMAIN p.users : k \in DOMAIN u /\ p.users[k] = u[k]
    BY <1>1, <1>3 DEF Pruned
  <2> QED BY <1>6, <1>8, <2>1
<1>10. Recast(s, t, m, u, ms)
  BY <1>1, <1>4, <1>6, <1>7, <1>9 DEF Recast
<1>11. DOMAIN ms \subseteq DOMAIN s.channels /\ Keyed(m, t.channels)
  <2>1. PICK cs : Winners(m, s.channels, {}, cs) /\ DOMAIN ms = DOMAIN cs
    BY <1>1 DEF Elected
  <2> QED BY <1>6, <2>1 DEF Winners, Keyed
<1>12. Typed(t)
  BY <1>4, <1>6, <1>8, <1>9, <1>11 DEF Tracked, Typed
<1>13. UsersApart(t)
  <2>1. Keyed(m, t.users)
    BY <1>8, <1>9 DEF Keyed
  <2>2. \A a, b \in DOMAIN t.users : t.users[a] = t.users[b] => a = b
    BY <1>8, <1>9 DEF Tracked, UsersApart
  <2> QED BY <1>4, <1>6, <1>11, <2>1, <2>2 DEF UsersApart
<1>14. MembersFollow(t)
  <2>1. ASSUME NEW c \in DOMAIN t.channels, NEW n \in DOMAIN t.channels[c]
        PROVE  n \in DOMAIN t.users /\ t.users[n] = t.channels[c][n]
    <3>1. c \in DOMAIN ms /\ n \in DOMAIN ms[c] /\ n \in DOMAIN u
      BY <1>6
    <3>2. n \in DOMAIN t.users
      BY <1>7, <3>1, MembersStay
    <3> QED BY <1>6, <1>9, <3>1, <3>2
  <2> QED BY <2>1 DEF MembersFollow
<1> QED BY <1>10, <1>12, <1>13, <1>14 DEF Tracked

-----------------------------------------------------------------------------
(* The inductive invariant.                                                *)

\* We are the user under our own nick, the only one marked, and in every channel but C.
Us(s, C) ==
  /\ s.nick \in DOMAIN s.users
  /\ \A n \in DOMAIN s.users : s.users[n] \in s.own <=> n = s.nick
  /\ \A c \in DOMAIN s.channels : c \in C \/ s.nick \in DOMAIN s.channels[c]

\* No map is above its ceiling.
Fits(s) ==
  /\ Cardinality(DOMAIN s.channels) <= MaxChannels
  /\ \A c \in DOMAIN s.channels : Cardinality(DOMAIN s.channels[c]) <= MaxMembers

\* But for those in N, a user is us or in one of the channels.
Company(s, N) ==
  \A k \in DOMAIN s.users : IsSelf(s, k) \/ InSome(s, k) \/ \E n \in N : Alike(s.mapping, k, n)

StoreInv ==
  /\ Tracked(store) /\ Fits(store)
  /\ ~welcomed => DOMAIN store.users = {} /\ DOMAIN store.channels = {}
  /\ welcomed /\ ~gone => Us(store, {})
  /\ collided \/ Company(store, {})

-----------------------------------------------------------------------------
(* What each method keeps of it.                                           *)

\* The user whose name folds like our nick is us.
LEMMA SelfIs ==
  ASSUME NEW s, Tracked(s), NEW C, Us(s, C), NEW k \in DOMAIN s.users
  PROVE  IsSelf(s, k) <=> k = s.nick
  BY DEF Tracked, UsersApart, Keyed, Us, IsSelf, Alike

\* Another user changes nothing about us, and is a stranger.
LEMMA MetKeeps ==
  ASSUME NEW s, Tracked(s), NEW t, NEW n, Met(s, t, n), NEW N, NEW M, \A x \in N : x \in M, n \in M
  PROVE  /\ \A C : Us(s, C) => Us(t, C)
         /\ Fits(s) => Fits(t)
         /\ Company(s, N) => Company(t, M)
<1>1. ASSUME NEW C, Us(s, C) PROVE Us(t, C)
  <2>1. CASE HasUser(s, n)
    BY <1>1, <2>1 DEF Met
  <2>2. CASE ~HasUser(s, n)
    <3>1. \A k \in DOMAIN s.users : ~Alike(s.mapping, k, n)
      BY <2>2, HasIs DEF HasUser
    <3>2. ~IsSelf(s, n) /\ n # s.nick
      BY <1>1, <3>1 DEF Us, IsSelf, Alike
    <3>3. t.own = s.own \ {t.users[n]} /\ DOMAIN t.users = DOMAIN s.users \cup {n}
          /\ \A k \in DOMAIN s.users : t.users[k] = s.users[k] /\ s.users[k] # t.users[n]
      BY <2>2, <3>2 DEF Met
    <3>4. \A k \in DOMAIN t.users : t.users[k] \in t.own <=> k = t.nick
      BY <1>1, <3>2, <3>3 DEF Us, Met
    <3> QED BY <1>1, <3>3, <3>4 DEF Us, Met
  <2> QED BY <2>1, <2>2
<1>2. Fits(s) => Fits(t)
  BY DEF Fits, Met
<1>3. ASSUME Company(s, N) PROVE Company(t, M)
  <2>1. \A k : (IsSelf(t, k) <=> IsSelf(s, k)) /\ (InSome(t, k) <=> InSome(s, k))
    BY DEF Met, IsSelf, InSome
  <2>2. \A k \in DOMAIN t.users : k \in DOMAIN s.users \/ k = n
    BY DEF Met
  <2>3. Alike(t.mapping, n, n) /\ t.mapping = s.mapping
    BY DEF Alike, Met
  <2> QED BY <1>3, <2>1, <2>2, <2>3 DEF Company
<1> QED BY <1>1, <1>2, <1>3

\* A channel that is opened is below its ceiling, and we are not in it yet.
LEMMA OpenedKeeps ==
  ASSUME NEW s, Tracked(s), NEW t, NEW c, Opened(s, t, c), NEW N
  PROVE  /\ Us(s, {}) => Us(t, {c})
         /\ Fits(s) => Fits(t)
         /\ Company(s, N) => Company(t, N)
<1>1. CASE t = s
  BY <1>1 DEF Us
<1>2. CASE t # s
  <2>1. /\ ~(Cardinality(DOMAIN s.channels) >= MaxChannels)
        /\ DOMAIN t.channels = DOMAIN s.channels \cup {c} /\ c \notin DOMAIN s.channels
        /\ DOMAIN t.channels[c] = {}
        /\ \A d \in DOMAIN s.channels : t.channels[d] = s.channels[d]
    BY <1>2 DEF Opened
  <2>2. t.mapping = s.mapping /\ t.nick = s.nick /\ t.own = s.own /\ t.users = s.users
    BY DEF Opened
  <2>3. Us(s, {}) => Us(t, {c})
    BY <2>1, <2>2 DEF Us
  <2>4. ASSUME Fits(s) PROVE Fits(t)
    <3>1. IsFiniteSet(DOMAIN s.channels)
      BY MapsAreFinite
    <3>2. Cardinality(DOMAIN t.channels) = Cardinality(DOMAIN s.channels) + 1
          /\ Cardinality(DOMAIN s.channels) \in Nat
      BY <2>1, <3>1, FS_AddElement, FS_CardinalityType
    <3>3. MaxChannels \in Nat /\ MaxMembers \in Nat \ {0}
      BY StoreAssumption
    <3>4. Cardinality(DOMAIN t.channels) <= MaxChannels
      BY <2>1, <3>2, <3>3
    <3>5. Cardinality(DOMAIN t.channels[c]) = 0
      BY <2>1, FS_EmptySet
    <3>6. ASSUME NEW d \in DOMAIN t.channels PROVE Cardinality(DOMAIN t.channels[d]) <= MaxMembers
      <4>1. CASE d = c
        BY <3>3, <3>5, <4>1
      <4>2. CASE d # c
        BY <2>1, <2>4, <4>2 DEF Fits
      <4> QED BY <4>1, <4>2
    <3> QED BY <3>4, <3>6 DEF Fits
  <2>5. ASSUME Company(s, N) PROVE Company(t, N)
    <3>1. \A k : InSome(s, k) => InSome(t, k)
      BY <2>1, <2>2 DEF InSome
    <3> QED BY <2>2, <2>5, <3>1 DEF Company, IsSelf
  <2> QED BY <2>3, <2>4, <2>5
<1> QED BY <1>1, <1>2

\* Who becomes a member is a stranger no more, and fits in if admitted.
LEMMA AddedKeeps ==
  ASSUME NEW s, Tracked(s), NEW t, NEW c, HasChannel(s, c), NEW n, Added(s, t, c, n), NEW N, NEW M,
         \A x \in N : x \in M \/ x = n
  PROVE  /\ Us(s, {}) => Us(t, {})
         /\ Us(s, {c}) /\ IsSelf(s, n) => Us(t, {})
         /\ Fits(s) /\ Admits(s, c, n) => Fits(t)
         /\ Company(s, N) => Company(t, M)
<1>1. ButMembers(s, t)
  BY DEF Added
<1>2. PICK k \in DOMAIN s.users :
        /\ Alike(s.mapping, k, n)
        /\ \A d \in DOMAIN s.channels :
             DOMAIN t.channels[d] = DOMAIN s.channels[d] \cup (IF Alike(s.mapping, d, c) THEN {k} ELSE {})
  BY DEF Added
<1>3. \A d \in DOMAIN s.channels : \A j : j \in DOMAIN t.channels[d] <=>
        j \in DOMAIN s.channels[d] \/ (j = k /\ Alike(s.mapping, d, c))
  BY <1>2
<1>4. Us(s, {}) => Us(t, {})
  BY <1>1, <1>3 DEF ButMembers, Us
<1>5. ASSUME Us(s, {c}), IsSelf(s, n) PROVE Us(t, {})
  <2>1. k = s.nick
    BY <1>2, <1>5, SelfIs DEF IsSelf, Alike
  <2>2. Alike(s.mapping, c, c)
    BY DEF Alike
  <2> QED BY <1>1, <1>3, <1>5, <2>1, <2>2 DEF ButMembers, Us
<1>6. ASSUME Fits(s), Admits(s, c, n) PROVE Fits(t)
  <2>1. PICK d \in DOMAIN s.channels : Alike(s.mapping, d, c) /\ Members(s, c) = s.channels[d]
    BY KeyIs DEF Tracked, UsersApart, HasChannel, Members
  <2>2. \A e \in DOMAIN s.channels : Alike(s.mapping, e, c) <=> e = d
    BY <2>1 DEF Tracked, UsersApart, Keyed, Alike
  <2>3. ASSUME NEW e \in DOMAIN s.channels, e # d PROVE Cardinality(DOMAIN t.channels[e]) <= MaxMembers
    <3>1. DOMAIN t.channels[e] = DOMAIN s.channels[e]
      BY <1>2, <2>2, <2>3
    <3> QED BY <1>6, <3>1 DEF Fits
  <2>4. DOMAIN t.channels[d] = DOMAIN s.channels[d] \cup {k}
    BY <1>2, <2>1
  <2>5. IsFiniteSet(DOMAIN s.channels[d])
    BY MapsAreFinite
  <2>6. Cardinality(DOMAIN t.channels[d]) <= MaxMembers
    <3>1. CASE k \in DOMAIN s.channels[d]
      <4>1. DOMAIN t.channels[d] = DOMAIN s.channels[d]
        BY <2>4, <3>1
      <4> QED BY <1>6, <4>1 DEF Fits
    <3>2. CASE k \notin DOMAIN s.channels[d]
      <4>1. ~Has(s.mapping, Members(s, c), n)
        <5>1. ASSUME NEW j \in DOMAIN s.channels[d], Alike(s.mapping, j, n) PROVE FALSE
          <6>1. j \in DOMAIN s.users
            BY DEF Tracked, MembersFollow
          <6> QED BY <1>2, <3>2, <5>1, <6>1 DEF Tracked, UsersApart, Keyed, Alike
        <5> QED BY <2>1, <5>1, HasIs
      <4>2. Cardinality(DOMAIN s.channels[d]) < MaxMembers
        BY <1>6, <2>1, <4>1 DEF Admits
      <4>3. Cardinality(DOMAIN t.channels[d]) = Cardinality(DOMAIN s.channels[d]) + 1
            /\ Cardinality(DOMAIN s.channels[d]) \in Nat
        BY <2>4, <2>5, <3>2, FS_AddElement, FS_CardinalityType
      <4> QED BY <4>2, <4>3, StoreAssumption
    <3> QED BY <3>1, <3>2
  <2> QED BY <1>1, <1>6, <2>3, <2>6 DEF Fits, ButMembers
<1>7. ASSUME Company(s, N) PROVE Company(t, M)
  <2>1. ASSUME NEW j, InSome(s, j) PROVE InSome(t, j)
    BY <1>1, <1>3, <2>1 DEF InSome, ButMembers
  <2>2. ASSUME NEW j, Alike(s.mapping, j, n) PROVE InSome(t, j)
    <3>1. PICK d \in DOMAIN s.channels : Alike(s.mapping, d, c)
      BY HasIs DEF HasChannel
    <3>2. d \in DOMAIN t.channels /\ k \in DOMAIN t.channels[d] /\ Alike(t.mapping, k, j)
      BY <1>1, <1>2, <1>3, <2>2, <3>1 DEF ButMembers, Alike
    <3> QED BY <3>2, MemberIsInSome
  <2> QED BY <1>1, <1>7, <2>1, <2>2 DEF Company, IsSelf, ButMembers
<1> QED BY <1>4, <1>5, <1>6, <1>7

\* Fewer channels, or fewer members in them, fit as well.
LEMMA FewerFit ==
  ASSUME NEW s, Tracked(s), Fits(s), NEW t, DOMAIN t.channels \subseteq DOMAIN s.channels,
         \A c \in DOMAIN t.channels : \A k \in DOMAIN t.channels[c] : k \in DOMAIN s.channels[c]
  PROVE  Fits(t)
<1>1. ASSUME NEW S, NEW T, IsFiniteSet(S), T \subseteq S, NEW n \in Nat, Cardinality(S) <= n
      PROVE  Cardinality(T) <= n
  <2>1. IsFiniteSet(T) /\ Cardinality(T) <= Cardinality(S)
    BY <1>1, FS_Subset
  <2>2. Cardinality(T) \in Nat /\ Cardinality(S) \in Nat
    BY <1>1, <2>1, FS_CardinalityType
  <2> QED BY <1>1, <2>1, <2>2
<1>2. MaxChannels \in Nat /\ MaxMembers \in Nat
  BY StoreAssumption
<1>3. Cardinality(DOMAIN t.channels) <= MaxChannels
  BY <1>1, <1>2, MapsAreFinite DEF Fits
<1>4. ASSUME NEW c \in DOMAIN t.channels PROVE Cardinality(DOMAIN t.channels[c]) <= MaxMembers
  <2>1. IsFiniteSet(DOMAIN s.channels[c]) /\ Cardinality(DOMAIN s.channels[c]) <= MaxMembers
    BY MapsAreFinite DEF Fits
  <2>2. DOMAIN t.channels[c] \subseteq DOMAIN s.channels[c]
    OBVIOUS
  <2> QED BY <1>1, <1>2, <2>1, <2>2
<1> QED BY <1>3, <1>4 DEF Fits

\* A channel that goes may leave its members alone.
LEMMA ClosedKeeps ==
  ASSUME NEW s, Tracked(s), NEW t, NEW c, HasChannel(s, c), Closed(s, t, c), NEW N, NEW M,
         \A x \in N : x \in M, \A x \in DOMAIN Members(s, c) : x \in M
  PROVE  /\ Us(s, {}) => Us(t, {})
         /\ Fits(s) => Fits(t)
         /\ Company(s, N) => Company(t, M)
<1>1. /\ t.mapping = s.mapping /\ t.nick = s.nick /\ t.own = s.own /\ t.users = s.users
      /\ \A d : d \in DOMAIN t.channels <=> (d \in DOMAIN s.channels /\ ~Alike(s.mapping, d, c))
      /\ \A d \in DOMAIN t.channels : t.channels[d] = s.channels[d]
  BY DEF Closed
<1>2. Us(s, {}) => Us(t, {})
  BY <1>1 DEF Us
<1>3. Fits(s) => Fits(t)
  <2>1. DOMAIN t.channels \subseteq DOMAIN s.channels
    BY <1>1
  <2>2. \A d \in DOMAIN t.channels : \A k \in DOMAIN t.channels[d] : k \in DOMAIN s.channels[d]
    BY <1>1
  <2> QED BY <2>1, <2>2, FewerFit
<1>4. ASSUME Company(s, N) PROVE Company(t, M)
  <2>1. PICK d \in DOMAIN s.channels : Alike(s.mapping, d, c) /\ Members(s, c) = s.channels[d]
    BY KeyIs DEF Tracked, UsersApart, HasChannel, Members
  <2>2. \A e \in DOMAIN s.channels : Alike(s.mapping, e, c) => e = d
    BY <2>1 DEF Tracked, UsersApart, Keyed, Alike
  <2>3. ASSUME NEW k \in DOMAIN s.users, InSome(s, k)
        PROVE  InSome(t, k) \/ \E n \in M : Alike(t.mapping, k, n)
    <3>1. PICK e \in DOMAIN s.channels : \E i \in DOMAIN s.channels[e] : Alike(s.mapping, i, k)
      BY <2>3 DEF InSome
    <3>9. PICK j \in DOMAIN s.channels[e] : Alike(s.mapping, j, k)
      BY <3>1
    <3>2. CASE e = d
      <4>1. j \in M /\ Alike(t.mapping, k, j)
        BY <1>1, <2>1, <3>2, <3>9 DEF Alike
      <4> QED BY <4>1
    <3>3. CASE e # d
      BY <1>1, <2>2, <3>3, <3>9 DEF InSome
    <3> QED BY <3>2, <3>3
  <2> QED BY <1>1, <1>4, <2>3 DEF Company, IsSelf
<1> QED BY <1>2, <1>3, <1>4

\* Who goes from a channel, not us, may be left alone.
LEMMA RemovedKeeps ==
  ASSUME NEW s, Tracked(s), NEW t, NEW c, NEW n, ~IsSelf(s, n), Removed(s, t, c, n),
         NEW N, NEW M, \A x \in N : x \in M, n \in M
  PROVE  /\ Us(s, {}) => Us(t, {})
         /\ Fits(s) => Fits(t)
         /\ Company(s, N) => Company(t, M)
<1>1. ButMembers(s, t)
  BY DEF Removed
<1>2. \A d \in DOMAIN s.channels : \A k : k \in DOMAIN t.channels[d] <=>
        k \in DOMAIN s.channels[d] /\ ~(Alike(s.mapping, d, c) /\ Alike(s.mapping, k, n))
  BY DEF Removed
<1>3. Us(s, {}) => Us(t, {})
  <2>1. ~Alike(s.mapping, s.nick, n)
    BY DEF IsSelf, Alike
  <2> QED BY <1>1, <1>2, <2>1 DEF Us, ButMembers
<1>4. Fits(s) => Fits(t)
  BY <1>1, <1>2, FewerFit DEF ButMembers
<1>5. ASSUME Company(s, N) PROVE Company(t, M)
  <2>1. ASSUME NEW k \in DOMAIN s.users, InSome(s, k), ~Alike(s.mapping, k, n) PROVE InSome(t, k)
    <3>1. PICK e \in DOMAIN s.channels : \E i \in DOMAIN s.channels[e] : Alike(s.mapping, i, k)
      BY <2>1 DEF InSome
    <3>9. PICK j \in DOMAIN s.channels[e] : Alike(s.mapping, j, k)
      BY <3>1
    <3>2. ~Alike(s.mapping, j, n)
      BY <2>1, <3>9 DEF Alike
    <3> QED BY <1>1, <1>2, <3>2, <3>9 DEF InSome, ButMembers
  <2> QED BY <1>1, <1>5, <2>1 DEF Company, IsSelf, ButMembers
<1> QED BY <1>3, <1>4, <1>5

\* Who is forgotten was in nobody's company.
LEMMA ForgottenKeeps ==
  ASSUME NEW s, Tracked(s), NEW t, NEW n, Forgotten(s, t, n), NEW N
  PROVE  /\ Us(s, {}) /\ ~IsSelf(s, n) => Us(t, {})
         /\ Fits(s) => Fits(t)
         /\ Company(s, N) => Company(t, N)
<1>1. /\ t.mapping = s.mapping /\ t.nick = s.nick /\ t.own = s.own /\ DOMAIN t.channels = DOMAIN s.channels
      /\ \A k : k \in DOMAIN t.users <=> k \in DOMAIN s.users /\ ~Alike(s.mapping, k, n)
      /\ \A k \in DOMAIN t.users : t.users[k] = s.users[k]
      /\ \A d \in DOMAIN s.channels : \A k :
           k \in DOMAIN t.channels[d] <=> k \in DOMAIN s.channels[d] /\ ~Alike(s.mapping, k, n)
  BY DEF Forgotten
<1>2. ASSUME Us(s, {}), ~IsSelf(s, n) PROVE Us(t, {})
  <2>1. ~Alike(s.mapping, s.nick, n)
    BY <1>2 DEF IsSelf, Alike
  <2> QED BY <1>1, <1>2, <2>1 DEF Us
<1>3. Fits(s) => Fits(t)
  BY <1>1, FewerFit
<1>4. ASSUME Company(s, N) PROVE Company(t, N)
  <2>1. ASSUME NEW k \in DOMAIN t.users, InSome(s, k) PROVE InSome(t, k)
    <3>1. PICK e \in DOMAIN s.channels : \E i \in DOMAIN s.channels[e] : Alike(s.mapping, i, k)
      BY <2>1 DEF InSome
    <3>9. PICK j \in DOMAIN s.channels[e] : Alike(s.mapping, j, k)
      BY <3>1
    <3>2. ~Alike(s.mapping, j, n)
      BY <1>1, <3>9 DEF Alike
    <3> QED BY <1>1, <3>2, <3>9 DEF InSome
  <2> QED BY <1>1, <1>4, <2>1 DEF Company, IsSelf
<1> QED BY <1>2, <1>3, <1>4

\* Pruning leaves us, and nobody of those it names who is alone.
LEMMA PrunedKeeps ==
  ASSUME NEW s, NEW t, NEW N, Pruned(s, t, N), NEW M, NEW R, \A x \in M : x \in N \/ x \in R
  PROVE  /\ Us(s, {}) => Us(t, {})
         /\ Fits(s) => Fits(t)
         /\ Company(s, M) => Company(t, R)
<1>1. /\ t.mapping = s.mapping /\ t.nick = s.nick /\ t.own = s.own /\ t.channels = s.channels
      /\ \A k : k \in DOMAIN t.users <=>
           k \in DOMAIN s.users /\ (IsSelf(s, k) \/ InSome(s, k) \/ \A n \in N : ~Alike(s.mapping, k, n))
      /\ \A k \in DOMAIN t.users : t.users[k] = s.users[k]
  BY DEF Pruned
<1>2. Us(s, {}) => Us(t, {})
  <2>1. IsSelf(s, s.nick)
    BY DEF IsSelf, Alike
  <2> QED BY <1>1, <2>1 DEF Us
<1>3. Fits(s) => Fits(t)
  BY <1>1 DEF Fits
<1>4. Company(s, M) => Company(t, R)
  <2>1. \A k : (IsSelf(t, k) <=> IsSelf(s, k)) /\ (InSome(t, k) <=> InSome(s, k))
    BY <1>1 DEF IsSelf, InSome
  <2> QED BY <1>1, <2>1 DEF Company
<1> QED BY <1>2, <1>3, <1>4

\* Who is in some channel is there under the user's own name.
LEMMA MemberIs ==
  ASSUME NEW s, Tracked(s), NEW k \in DOMAIN s.users
  PROVE  InSome(s, k) <=> \E c \in DOMAIN s.channels : k \in DOMAIN s.channels[c]
<1>1. ASSUME NEW c \in DOMAIN s.channels, NEW j \in DOMAIN s.channels[c], Alike(s.mapping, j, k)
      PROVE  j = k
  <2>1. j \in DOMAIN s.users
    BY DEF Tracked, MembersFollow
  <2> QED BY <1>1, <2>1 DEF Tracked, UsersApart, Keyed
<1>2. Alike(s.mapping, k, k)
  BY DEF Alike
<1> QED BY <1>1, <1>2 DEF InSome

\* Who is renamed stays in the same company.
LEMMA RenamedKeeps ==
  ASSUME NEW r, Tracked(r), Us(r, {}), NEW t, Tracked(t), NEW k \in DOMAIN r.users, NEW new,
         Renamed(r, t, k, new)
  PROVE  /\ Us(t, {})
         /\ Fits(r) => Fits(t)
         /\ Company(r, {}) => Company(t, {})
<1>1. /\ t.mapping = r.mapping /\ t.own = r.own /\ DOMAIN t.channels = DOMAIN r.channels
      /\ t.nick = (IF IsSelf(r, k) THEN new ELSE r.nick)
  BY DEF Renamed
<1>2. /\ \A j : j \in DOMAIN t.users <=> (j = new \/ (j \in DOMAIN r.users /\ j # k))
      /\ t.users[new] = r.users[k]
      /\ \A j \in DOMAIN r.users : j # k => ~Alike(r.mapping, j, new) /\ t.users[j] = r.users[j]
  BY DEF Renamed, Moved
<1>3. \A d \in DOMAIN r.channels : \A j :
        j \in DOMAIN t.channels[d] <=> \/ j = new /\ k \in DOMAIN r.channels[d]
                                       \/ j \in DOMAIN r.channels[d] /\ j # k
  BY DEF Renamed
<1>4. \A j \in DOMAIN r.users : IsSelf(r, j) <=> j = r.nick
  BY SelfIs
<1>5. Alike(r.mapping, new, new)
  BY DEF Alike
<1>6. r.nick \in DOMAIN r.users /\ (\A n \in DOMAIN r.users : r.users[n] \in r.own <=> n = r.nick)
      /\ \A c \in DOMAIN r.channels : r.nick \in DOMAIN r.channels[c]
  BY DEF Us
<1>7. Us(t, {})
  <2>1. CASE IsSelf(r, k)
    <3>1. t.nick = new /\ k = r.nick
      BY <1>1, <1>4, <2>1
    <3>2. \A n \in DOMAIN t.users : t.users[n] \in t.own <=> n = t.nick
      BY <1>1, <1>2, <1>5, <1>6, <3>1
    <3>3. \A c \in DOMAIN t.channels : t.nick \in DOMAIN t.channels[c]
      BY <1>1, <1>3, <1>6, <3>1
    <3> QED BY <1>2, <3>1, <3>2, <3>3 DEF Us
  <2>2. CASE ~IsSelf(r, k)
    <3>1. t.nick = r.nick /\ k # r.nick /\ new # r.nick
      BY <1>1, <1>2, <1>4, <1>5, <1>6, <2>2
    <3>2. \A n \in DOMAIN t.users : t.users[n] \in t.own <=> n = t.nick
      BY <1>1, <1>2, <1>6, <3>1
    <3>3. \A c \in DOMAIN t.channels : t.nick \in DOMAIN t.channels[c]
      BY <1>1, <1>3, <1>6, <3>1
    <3> QED BY <1>2, <1>6, <3>1, <3>2, <3>3 DEF Us
  <2> QED BY <2>1, <2>2
<1>8. ASSUME Fits(r) PROVE Fits(t)
  <2>1. ASSUME NEW d \in DOMAIN r.channels PROVE Cardinality(DOMAIN t.channels[d]) <= MaxMembers
    <3>1. IsFiniteSet(DOMAIN r.channels[d]) /\ Cardinality(DOMAIN r.channels[d]) <= MaxMembers
          /\ MaxMembers \in Nat
      BY <1>8, MapsAreFinite, StoreAssumption DEF Fits
    <3>2. CASE k \in DOMAIN r.channels[d]
      <4> DEFINE R == DOMAIN r.channels[d] \ {k}
      <4>1. DOMAIN t.channels[d] = R \cup {new}
        BY <1>3, <3>2
      <4>2. IsFiniteSet(R) /\ Cardinality(R) = Cardinality(DOMAIN r.channels[d]) - 1
        BY <3>1, <3>2, FS_RemoveElement
      <4>3. Cardinality(R) \in Nat /\ Cardinality(DOMAIN r.channels[d]) \in Nat
        BY <3>1, <4>2, FS_CardinalityType
      <4> HIDE DEF R
      <4>4. Cardinality(R \cup {new}) = Cardinality(R) \/ Cardinality(R \cup {new}) = Cardinality(R) + 1
        <5>1. CASE new \in R
          <6>1. R \cup {new} = R
            BY <5>1
          <6> QED BY <6>1
        <5>2. CASE new \notin R
          BY <4>2, <5>2, FS_AddElement
        <5> QED BY <5>1, <5>2
      <4> QED BY <3>1, <4>1, <4>2, <4>3, <4>4
    <3>3. CASE k \notin DOMAIN r.channels[d]
      <4>1. DOMAIN t.channels[d] = DOMAIN r.channels[d]
        BY <1>3, <3>3
      <4> QED BY <3>1, <4>1
    <3> QED BY <3>2, <3>3
  <2> QED BY <1>1, <1>8, <2>1 DEF Fits
<1>9. ASSUME Company(r, {}) PROVE Company(t, {})
  <2>1. ASSUME NEW j \in DOMAIN t.users PROVE IsSelf(t, j) \/ InSome(t, j)
    <3>1. CASE j = new
      <4>1. CASE IsSelf(r, k)
        BY <1>1, <1>5, <3>1, <4>1 DEF IsSelf
      <4>2. CASE InSome(r, k)
        <5>1. PICK c \in DOMAIN r.channels : k \in DOMAIN r.channels[c]
          BY <4>2, MemberIs
        <5>2. c \in DOMAIN t.channels /\ new \in DOMAIN t.channels[c]
          BY <1>1, <1>3, <5>1
        <5> QED BY <3>1, <5>2, MemberIs
      <4> QED BY <1>9, <4>1, <4>2 DEF Company
    <3>2. CASE j # new
      <4>1. j \in DOMAIN r.users /\ j # k
        BY <1>2, <3>2
      <4>2. CASE IsSelf(r, j)
        BY <1>1, <1>4, <4>1, <4>2 DEF IsSelf
      <4>3. CASE InSome(r, j)
        <5>1. PICK c \in DOMAIN r.channels : j \in DOMAIN r.channels[c]
          BY <4>1, <4>3, MemberIs
        <5>2. c \in DOMAIN t.channels /\ j \in DOMAIN t.channels[c]
          BY <1>1, <1>3, <4>1, <5>1
        <5> QED BY <5>2, MemberIs
      <4> QED BY <1>9, <4>1, <4>2, <4>3 DEF Company
    <3> QED BY <3>1, <3>2
  <2> QED BY <2>1 DEF Company
<1> QED BY <1>7, <1>8, <1>9

\* Who wins is who it was, if no two names are one now.
LEMMA AllWin ==
  ASSUME NEW m, NEW f, NEW own, NEW g, Winners(m, f, own, g), Keyed(m, f)
  PROVE  DOMAIN g = DOMAIN f
<1>1. ASSUME NEW k \in DOMAIN f PROVE k \in DOMAIN g
  <2>1. PICK j \in DOMAIN g : Alike(m, j, k)
    BY DEF Winners
  <2>2. j \in DOMAIN f
    BY DEF Winners
  <2> QED BY <2>1, <2>2 DEF Keyed
<1> QED BY <1>1 DEF Winners

\* A change of casemapping leaves us where we are, and everybody if no two names are one now.
LEMMA RecastKeeps ==
  ASSUME NEW s, Tracked(s), Us(s, {}), NEW t, Tracked(t), NEW m, NEW u, NEW ms, Recast(s, t, m, u, ms)
  PROVE  /\ Us(t, {})
         /\ Fits(s) => Fits(t)
         /\ Company(s, {}) /\ Keyed(m, s.users) /\ Keyed(m, s.channels) => Company(t, {})
<1>1. /\ Winners(m, s.users, s.own, u) /\ Elected(s, m, ms)
      /\ t.mapping = m /\ t.nick = s.nick /\ t.own = s.own /\ DOMAIN t.channels = DOMAIN ms
      /\ \A k : k \in DOMAIN t.users <=> k \in DOMAIN u /\ Stay(s, m, u, ms, k)
      /\ \A k \in DOMAIN t.users : t.users[k] = s.users[k]
      /\ \A c \in DOMAIN ms : \A k : k \in DOMAIN t.channels[c] <=> k \in DOMAIN ms[c] /\ k \in DOMAIN u
  BY DEF Recast
<1>2. s.nick \in DOMAIN s.users /\ (\A n \in DOMAIN s.users : s.users[n] \in s.own <=> n = s.nick)
      /\ \A c \in DOMAIN s.channels : s.nick \in DOMAIN s.channels[c]
  BY DEF Us
<1>3. PICK cs : Winners(m, s.channels, {}, cs) /\ DOMAIN ms = DOMAIN cs
  BY <1>1 DEF Elected
<1>4. DOMAIN ms \subseteq DOMAIN s.channels
  BY <1>3 DEF Winners
<1>5. DOMAIN u \subseteq DOMAIN s.users
  BY <1>1 DEF Winners
<1>6. \A c \in DOMAIN ms : Winners(m, s.channels[c], s.own, ms[c])
  BY <1>1 DEF Elected
<1>7. s.nick \in DOMAIN u
  <2>1. PICK j \in DOMAIN u : s.users[s.nick] \in s.own => s.users[j] \in s.own
    BY <1>1, <1>2 DEF Winners
  <2> QED BY <1>2, <1>5, <2>1
<1>8. ASSUME NEW c \in DOMAIN ms PROVE s.nick \in DOMAIN ms[c] /\ \A k \in DOMAIN ms[c] : k \in DOMAIN s.channels[c]
  <2>1. Winners(m, s.channels[c], s.own, ms[c]) /\ c \in DOMAIN s.channels
    BY <1>4, <1>6
  <2>2. \A k \in DOMAIN ms[c] : k \in DOMAIN s.channels[c]
    BY <2>1 DEF Winners
  <2>3. s.nick \in DOMAIN s.channels[c]
    BY <1>2, <2>1
  <2>4. PICK j \in DOMAIN ms[c] : s.channels[c][s.nick] \in s.own => s.channels[c][j] \in s.own
    BY <2>1, <2>3 DEF Winners
  <2>5. \A k \in DOMAIN s.channels[c] : k \in DOMAIN s.users /\ s.users[k] = s.channels[c][k]
    BY <2>1 DEF Tracked, MembersFollow
  <2>6. j = s.nick
    BY <1>2, <2>2, <2>3, <2>4, <2>5
  <2> QED BY <2>2, <2>4, <2>6
<1>9. Us(t, {})
  <2>1. Stay(s, m, u, ms, s.nick)
    BY DEF Stay, Alike
  <2>2. s.nick \in DOMAIN t.users
    BY <1>1, <1>7, <2>1
  <2>3. \A n \in DOMAIN t.users : t.users[n] \in t.own <=> n = t.nick
    BY <1>1, <1>2, <1>5
  <2>4. \A c \in DOMAIN t.channels : s.nick \in DOMAIN t.channels[c]
    BY <1>1, <1>7, <1>8
  <2> QED BY <1>1, <2>2, <2>3, <2>4 DEF Us
<1>10. Fits(s) => Fits(t)
  <2>1. DOMAIN t.channels \subseteq DOMAIN s.channels
    BY <1>1, <1>4
  <2>2. \A c \in DOMAIN t.channels : \A k \in DOMAIN t.channels[c] : k \in DOMAIN s.channels[c]
    BY <1>1, <1>8
  <2> QED BY <2>1, <2>2, FewerFit
<1>11. ASSUME Company(s, {}), Keyed(m, s.users), Keyed(m, s.channels) PROVE Company(t, {})
  <2>1. DOMAIN u = DOMAIN s.users /\ DOMAIN ms = DOMAIN s.channels
    BY <1>1, <1>3, <1>11, AllWin
  <2>2. ASSUME NEW k \in DOMAIN t.users PROVE IsSelf(t, k) \/ InSome(t, k)
    <3>1. k \in DOMAIN s.users
      BY <1>1, <1>5
    <3>2. CASE IsSelf(s, k)
      <4>1. k = t.nick
        BY <1>1, <3>1, <3>2, SelfIs
      <4> QED BY <4>1 DEF IsSelf, Alike
    <3>3. CASE InSome(s, k)
      <4>1. PICK c \in DOMAIN s.channels : k \in DOMAIN s.channels[c]
        BY <3>1, <3>3, MemberIs
      <4>2. Keyed(m, s.channels[c])
        BY <1>11, <4>1 DEF Tracked, MembersFollow, Keyed
      <4>3. DOMAIN ms[c] = DOMAIN s.channels[c]
        BY <1>6, <2>1, <4>1, <4>2, AllWin
      <4>4. c \in DOMAIN t.channels /\ k \in DOMAIN t.channels[c]
        BY <1>1, <2>1, <3>1, <4>1, <4>3
      <4> QED BY <4>4, MemberIs
    <3> QED BY <1>11, <3>1, <3>2, <3>3 DEF Company
  <2> QED BY <2>2 DEF Company
<1> QED BY <1>9, <1>10, <1>11

-----------------------------------------------------------------------------
(* What each line keeps of it.                                             *)

\* What holds between lines, from our 001 to our own QUIT.
Stands(s) == Tracked(s) /\ Fits(s) /\ Us(s, {})

\* A line that carries it on.
Carries(s, t) == Stands(t) /\ (Company(s, {}) => Company(t, {}))

\* 001: the first user is us.
LEMMA WelcomeLine ==
  ASSUME NEW s, Tracked(s), Fits(s), DOMAIN s.users = {}, DOMAIN s.channels = {},
         NEW n \in Nicks, NEW t, t = GetOrCreateUser([s EXCEPT !.nick = n], n)
  PROVE  Stands(t) /\ Company(t, {})
<1>1. PICK r : r = [s EXCEPT !.nick = n]
  OBVIOUS
<1>2. Shape(r) /\ r.mapping = s.mapping /\ r.nick = n /\ r.own = s.own /\ r.users = s.users
      /\ r.channels = s.channels
  BY <1>1 DEF Tracked, Typed, Shape
<1>3. Tracked(r)
  BY <1>2 DEF Tracked, Typed, UsersApart, MembersFollow
<1>4. t = GetOrCreateUser(r, n)
  BY <1>1
<1>5. Met(r, t, n) /\ Tracked(t)
  BY <1>3, <1>4, MetIs
<1>6. ~HasUser(r, n)
  BY <1>2, HasIs DEF HasUser
<1>7. IsSelf(r, n)
  BY <1>2 DEF IsSelf, Alike
<1>8. /\ t.mapping = r.mapping /\ t.nick = n /\ t.channels = s.channels
      /\ DOMAIN t.users = {n} /\ t.own = s.own \cup {t.users[n]}
  BY <1>2, <1>5, <1>6, <1>7 DEF Met
<1>9. Us(t, {}) /\ Fits(t)
  BY <1>8 DEF Us, Fits
<1>10. Company(t, {})
  BY <1>8 DEF Company, IsSelf, Alike
<1> QED BY <1>5, <1>9, <1>10 DEF Stands

\* GetOrCreateUser, at the start of a line.
LEMMA MetLine ==
  ASSUME NEW s, Stands(s), NEW n \in Nicks, NEW t, t = GetOrCreateUser(s, n),
         NEW N, NEW M, \A x \in N : x \in M, n \in M
  PROVE  /\ Stands(t) /\ HasUser(t, n) /\ t.mapping = s.mapping /\ t.nick = s.nick /\ t.channels = s.channels
         /\ Company(s, N) => Company(t, M)
<1>1. Met(s, t, n) /\ Tracked(t) /\ HasUser(t, n)
  BY MetIs DEF Stands
<1>2. Us(t, {}) /\ Fits(t) /\ (Company(s, N) => Company(t, M))
  BY <1>1, MetKeeps DEF Stands
<1> QED BY <1>1, <1>2 DEF Stands, Met

\* A channel of ours admits us, and so does one that is new.
LEMMA WeAreAdmitted ==
  ASSUME NEW s, Stands(s), NEW n, IsSelf(s, n), NEW c, NEW t, Opened(s, t, c), Tracked(t), HasChannel(t, c)
  PROVE  Admits(t, c, n)
<1>1. PICK d \in DOMAIN t.channels : Alike(t.mapping, d, c) /\ Members(t, c) = t.channels[d]
  BY KeyIs DEF Tracked, UsersApart, HasChannel, Members
<1>2. CASE t = s
  <2>1. s.nick \in DOMAIN s.channels[d]
    BY <1>1, <1>2 DEF Stands, Us
  <2>2. Alike(s.mapping, s.nick, n)
    BY DEF IsSelf, Alike
  <2>3. Has(t.mapping, Members(t, c), n)
    BY <1>1, <1>2, <2>1, <2>2, HasIs
  <2> QED BY <2>3 DEF Admits
<1>3. CASE t # s
  <2>1. c \in DOMAIN t.channels /\ DOMAIN t.channels[c] = {}
    BY <1>3 DEF Opened
  <2>2. d = c
    BY <1>1, <2>1 DEF Tracked, UsersApart, Keyed
  <2>3. Cardinality(DOMAIN Members(t, c)) = 0
    BY <1>1, <2>1, <2>2, FS_EmptySet
  <2>4. MaxMembers \in Nat \ {0}
    BY StoreAssumption
  <2>5. Cardinality(DOMAIN Members(t, c)) < MaxMembers
    BY <2>3, <2>4
  <2> QED BY <2>5 DEF Admits
<1> QED BY <1>2, <1>3

\* A user is met and becomes a member of a channel that admits it: 353, and JOIN of others.
LEMMA NamesLine ==
  ASSUME NEW s, Stands(s), NEW n \in Nicks, NEW c \in Chans, HasChannel(s, c), Admits(s, c, n),
         NEW t, t = AddMember(GetOrCreateUser(s, n), c, n)
  PROVE  Carries(s, t)
<1>1. PICK r : r = GetOrCreateUser(s, n)
  OBVIOUS
<1>2. /\ Stands(r) /\ HasUser(r, n) /\ r.mapping = s.mapping /\ r.channels = s.channels
      /\ Company(s, {}) => Company(r, {n})
  BY <1>1, MetLine
<1>3. HasChannel(r, c) /\ Admits(r, c, n)
  BY <1>2 DEF HasChannel, Admits, Members
<1>4. Added(r, t, c, n) /\ Tracked(t)
  BY <1>1, <1>2, <1>3, AddedIs DEF Stands
<1>5. Us(t, {}) /\ Fits(t) /\ (Company(r, {n}) => Company(t, {}))
  <2>1. \A x \in {n} : x \in {} \/ x = n
    OBVIOUS
  <2> QED BY <1>2, <1>3, <1>4, <2>1, AddedKeeps DEF Stands
<1> QED BY <1>2, <1>4, <1>5 DEF Carries, Stands

\* Our own JOIN, of a channel that may be new.
LEMMA OwnJoinLine ==
  ASSUME NEW s, Stands(s), NEW n \in Nicks, IsSelf(s, n), NEW c \in Chans,
         NEW q, q = GetOrCreateChannel(s, c), HasChannel(q, c),
         NEW t, t = AddMember(GetOrCreateUser(q, n), c, n)
  PROVE  Carries(s, t)
<1>1. Opened(s, q, c) /\ Tracked(q)
  BY OpenedIs DEF Stands
<1>2. Us(q, {c}) /\ Fits(q) /\ (Company(s, {}) => Company(q, {}))
  BY <1>1, OpenedKeeps DEF Stands
<1>3. Admits(q, c, n)
  BY <1>1, WeAreAdmitted
<1>4. PICK r : r = GetOrCreateUser(q, n)
  OBVIOUS
<1>5. Met(q, r, n) /\ Tracked(r) /\ HasUser(r, n)
  BY <1>1, <1>4, MetIs
<1>6. Us(r, {c}) /\ Fits(r) /\ (Company(q, {}) => Company(r, {n}))
  BY <1>1, <1>2, <1>5, MetKeeps
<1>7. r.mapping = s.mapping /\ r.nick = s.nick /\ r.channels = q.channels /\ q.mapping = s.mapping
  BY <1>1, <1>5 DEF Met, Opened
<1>8. HasChannel(r, c) /\ Admits(r, c, n) /\ IsSelf(r, n)
  BY <1>3, <1>7 DEF HasChannel, Admits, Members, IsSelf
<1>9. Added(r, t, c, n) /\ Tracked(t)
  BY <1>4, <1>5, <1>8, AddedIs
<1>10. Us(t, {}) /\ Fits(t) /\ (Company(r, {n}) => Company(t, {}))
  <2>1. \A x \in {n} : x \in {} \/ x = n
    OBVIOUS
  <2> QED BY <1>5, <1>6, <1>8, <1>9, <2>1, AddedKeeps
<1> QED BY <1>2, <1>6, <1>9, <1>10 DEF Carries, Stands

\* Leaving: what is left behind is pruned.
LEMMA LeavesLine ==
  ASSUME NEW s, Stands(s), NEW n, NEW c, HasChannel(s, c), NEW t, t = Leaves(s, n, c),
         NEW M, NEW R, \A x \in M : x = n \/ x \in R
  PROVE  Stands(t) /\ (Company(s, M) => Company(t, R))
<1>1. CASE IsSelf(s, n)
  <2> DEFINE N == DOMAIN Members(s, c)
  <2>1. PICK r : r = RemoveChannel(s, c)
    OBVIOUS
  <2>2. t = PruneOrphans(r, N)
    BY <1>1, <2>1 DEF Leaves
  <2>3. Closed(s, r, c) /\ Tracked(r)
    BY <2>1, ClosedIs DEF Stands
  <2>4. Us(r, {}) /\ Fits(r) /\ (Company(s, R) => Company(r, R \cup N))
    <3>1. (\A x \in R : x \in R \cup N) /\ \A x \in N : x \in R \cup N
      OBVIOUS
    <3> QED BY <2>3, <3>1, ClosedKeeps DEF Stands
  <2>5. Pruned(r, t, N) /\ Tracked(t)
    BY <2>2, <2>3, PrunedTracks
  <2>6. Us(t, {}) /\ Fits(t) /\ (Company(r, R \cup N) => Company(t, R))
    <3>1. \A x \in R \cup N : x \in N \/ x \in R
      OBVIOUS
    <3> QED BY <2>4, <2>5, <3>1, PrunedKeeps
  <2>7. Company(s, M) => Company(s, R)
    <3>1. \A k : Alike(s.mapping, k, n) => IsSelf(s, k)
      BY <1>1 DEF IsSelf, Alike
    <3> QED BY <3>1 DEF Company
  <2> QED BY <2>4, <2>5, <2>6, <2>7 DEF Stands
<1>2. CASE ~IsSelf(s, n)
  <2>1. PICK r : r = RemoveMember(s, c, n)
    OBVIOUS
  <2>2. t = PruneOrphans(r, {n})
    BY <1>2, <2>1 DEF Leaves
  <2>3. Removed(s, r, c, n) /\ Tracked(r)
    BY <2>1, RemovedIs DEF Stands
  <2>4. Us(r, {}) /\ Fits(r) /\ (Company(s, M) => Company(r, M \cup {n}))
    <3>1. (\A x \in M : x \in M \cup {n}) /\ n \in M \cup {n}
      OBVIOUS
    <3> QED BY <1>2, <2>3, <3>1, RemovedKeeps DEF Stands
  <2>5. Pruned(r, t, {n}) /\ Tracked(t)
    BY <2>2, <2>3, PrunedTracks
  <2>6. Us(t, {}) /\ Fits(t) /\ (Company(r, M \cup {n}) => Company(t, R))
    <3>1. \A x \in M \cup {n} : x \in {n} \/ x \in R
      OBVIOUS
    <3> QED BY <2>4, <2>5, <3>1, PrunedKeeps
  <2> QED BY <2>4, <2>5, <2>6 DEF Stands
<1> QED BY <1>1, <1>2

\* PART, and a KICK whose source is nobody.
LEMMA PartLine ==
  ASSUME NEW s, Stands(s), NEW n \in Nicks, NEW c, HasChannel(s, c),
         NEW t, t = Leaves(GetOrCreateUser(s, n), n, c)
  PROVE  Carries(s, t)
<1>1. PICK r : r = GetOrCreateUser(s, n)
  OBVIOUS
<1>2. /\ Stands(r) /\ r.mapping = s.mapping /\ r.channels = s.channels
      /\ Company(s, {}) => Company(r, {n})
  BY <1>1, MetLine
<1>3. HasChannel(r, c)
  BY <1>2 DEF HasChannel
<1>4. Stands(t) /\ (Company(r, {n}) => Company(t, {}))
  <2>1. \A x \in {n} : x = n \/ x \in {}
    OBVIOUS
  <2> QED BY <1>1, <1>2, <1>3, <2>1, LeavesLine
<1> QED BY <1>2, <1>4 DEF Carries

\* A KICK by a user, who may be a stranger.
LEMMA KickLine ==
  ASSUME NEW s, Stands(s), NEW n \in Nicks, NEW by \in Nicks, NEW c, HasChannel(s, c),
         NEW t, t = PruneOrphans(Leaves(GetOrCreateUser(GetOrCreateUser(s, n), by), n, c), {by})
  PROVE  Carries(s, t)
<1>1. PICK q : q = GetOrCreateUser(s, n)
  OBVIOUS
<1>2. /\ Stands(q) /\ q.mapping = s.mapping /\ q.channels = s.channels
      /\ Company(s, {}) => Company(q, {n})
  BY <1>1, MetLine
<1>3. PICK r : r = GetOrCreateUser(q, by)
  OBVIOUS
<1>4. /\ Stands(r) /\ r.mapping = s.mapping /\ r.channels = s.channels
      /\ Company(q, {n}) => Company(r, {n, by})
  <2>1. (\A x \in {n} : x \in {n, by}) /\ by \in {n, by}
    OBVIOUS
  <2> QED BY <1>2, <1>3, <2>1, MetLine
<1>5. HasChannel(r, c)
  BY <1>4 DEF HasChannel
<1>6. PICK p : p = Leaves(r, n, c)
  OBVIOUS
<1>7. Stands(p) /\ (Company(r, {n, by}) => Company(p, {by}))
  <2>1. \A x \in {n, by} : x = n \/ x \in {by}
    OBVIOUS
  <2> QED BY <1>4, <1>5, <1>6, <2>1, LeavesLine
<1>8. t = PruneOrphans(p, {by})
  BY <1>1, <1>3, <1>6
<1>9. Pruned(p, t, {by}) /\ Tracked(t)
  BY <1>7, <1>8, PrunedTracks DEF Stands
<1>10. Us(t, {}) /\ Fits(t) /\ (Company(p, {by}) => Company(t, {}))
  <2>1. \A x \in {by} : x \in {by} \/ x \in {}
    OBVIOUS
  <2> QED BY <1>7, <1>9, <2>1, PrunedKeeps DEF Stands
<1> QED BY <1>2, <1>4, <1>7, <1>9, <1>10 DEF Carries, Stands

\* Whoever speaks is met, and pruned if a stranger.
LEMMA SpeaksLine ==
  ASSUME NEW s, Stands(s), NEW n \in Nicks, NEW t, t = PruneOrphans(GetOrCreateUser(s, n), {n})
  PROVE  Carries(s, t)
<1>1. PICK r : r = GetOrCreateUser(s, n)
  OBVIOUS
<1>2. Stands(r) /\ (Company(s, {}) => Company(r, {n}))
  BY <1>1, MetLine
<1>3. Pruned(r, t, {n}) /\ Tracked(t)
  BY <1>1, <1>2, PrunedTracks DEF Stands
<1>4. Us(t, {}) /\ Fits(t) /\ (Company(r, {n}) => Company(t, {}))
  <2>1. \A x \in {n} : x \in {n} \/ x \in {}
    OBVIOUS
  <2> QED BY <1>2, <1>3, <2>1, PrunedKeeps DEF Stands
<1> QED BY <1>2, <1>3, <1>4 DEF Carries, Stands

\* NICK: whoever had the new name, if not us, is forgotten, and the user renamed.
LEMMA NickLine ==
  ASSUME NEW s, Stands(s), NEW old, NEW new \in Nicks, NEW t, t = RenameUser(s, old, new)
  PROVE  Carries(s, t)
<1>1. CASE t = s
  BY <1>1 DEF Carries
<1>2. CASE t # s
  <2>1. Tracked(t)
    BY RenameTracks DEF Stands
  <2>2. PICK r : \E k \in DOMAIN r.users : Tracked(r) /\ Vacated(s, r, new) /\ Renamed(r, t, k, new)
    BY <1>2, RenameTracks DEF Stands
  <2>3. PICK k \in DOMAIN r.users : Tracked(r) /\ Vacated(s, r, new) /\ Renamed(r, t, k, new)
    BY <2>2
  <2>4. Us(r, {}) /\ Fits(r) /\ (Company(s, {}) => Company(r, {}))
    <3>1. CASE r = s
      BY <3>1 DEF Stands
    <3>2. CASE Forgotten(s, r, new) /\ ~IsSelf(s, new)
      BY <3>2, ForgottenKeeps DEF Stands
    <3> QED BY <2>3, <3>1, <3>2 DEF Vacated
  <2>5. Us(t, {}) /\ Fits(t) /\ (Company(r, {}) => Company(t, {}))
    BY <2>1, <2>3, <2>4, RenamedKeeps
  <2> QED BY <2>1, <2>4, <2>5 DEF Carries, Stands
<1> QED BY <1>1, <1>2

-----------------------------------------------------------------------------
(* The invariant, and what follows from it.                                *)

\* Initially there is nobody.
LEMMA InvInit == Init => StoreInv
<1> SUFFICES ASSUME Init PROVE StoreInv
  OBVIOUS
<1>1. /\ store = [mapping |-> FirstMapping, nick |-> FirstNick, own |-> {},
                  users |-> <<>>, channels |-> <<>>]
      /\ welcomed = FALSE /\ collided = FALSE /\ gone = FALSE
  BY DEF Init
<1>2. /\ store.mapping = FirstMapping /\ store.nick = FirstNick /\ store.own = {}
      /\ Shape(store) /\ store.users = <<>> /\ store.channels = <<>>
  BY <1>1 DEF Shape
<1>3. DOMAIN store.users = {} /\ DOMAIN store.channels = {}
  BY <1>2
<1>4. Typed(store)
  BY <1>2, <1>3, StoreAssumption DEF Typed
<1>5. UsersApart(store) /\ MembersFollow(store) /\ Company(store, {})
  BY <1>3 DEF UsersApart, Keyed, MembersFollow, Company
<1>6. Fits(store)
  <2>1. Cardinality(DOMAIN store.channels) = 0
    BY <1>3, FS_EmptySet
  <2> QED BY <1>3, <2>1, StoreAssumption DEF Fits
<1> QED BY <1>1, <1>3, <1>4, <1>5, <1>6 DEF StoreInv, Tracked

\* A line after 001 and before our own QUIT that carries on, but is no change of mapping.
LEMMA LineKeeps ==
  ASSUME StoreInv, Dispatched, Carries(store, store')
  PROVE  StoreInv'
<1>1. welcomed /\ ~gone /\ welcomed' = welcomed /\ gone' = gone /\ collided' = collided
  BY DEF Dispatched
<1>2. Tracked(store)' /\ Fits(store)' /\ Us(store, {})'
  BY DEF Carries, Stands
<1>3. (collided \/ Company(store, {}))'
  BY <1>1 DEF StoreInv, Carries
<1> QED BY <1>1, <1>2, <1>3 DEF StoreInv

\* Between lines, from 001 to our own QUIT, the store stands.
LEMMA ItStands ==
  ASSUME StoreInv, welcomed, ~gone
  PROVE  Stands(store)
  BY DEF StoreInv, Stands

\* Every line keeps the invariant.
LEMMA InvNext == StoreInv /\ [Next]_vars => StoreInv'
<1> SUFFICES ASSUME StoreInv, [Next]_vars PROVE StoreInv'
  OBVIOUS
<1>1. CASE UNCHANGED vars
  BY <1>1 DEF vars, StoreInv
<1>2. ASSUME NEW n \in Nicks, Welcome(n) PROVE StoreInv'
  <2>1. ~welcomed /\ welcomed' /\ gone' = gone /\ collided' = collided
        /\ store' = GetOrCreateUser([store EXCEPT !.nick = n], n)
    BY <1>2 DEF Welcome
  <2>2. Tracked(store) /\ Fits(store) /\ DOMAIN store.users = {} /\ DOMAIN store.channels = {}
    BY <2>1 DEF StoreInv
  <2>3. Stands(store') /\ Company(store', {})
    BY <2>1, <2>2, WelcomeLine
  <2> QED BY <2>1, <2>3 DEF StoreInv, Stands
<1>3. ASSUME NEW m \in Mappings, Isupport(m) PROVE StoreInv'
  <2>1. welcomed /\ ~gone /\ store' \in Rekeys(store, m) /\ welcomed' = welcomed /\ gone' = gone
        /\ collided' = (collided \/ \E f \in {store.users, store.channels} : \E a, b \in DOMAIN f :
                                      a # b /\ Alike(m, a, b))
    BY <1>3 DEF Isupport
  <2>2. Stands(store)
    BY <2>1, ItStands
  <2>3. PICK u, ms : Recast(store, store', m, u, ms)
    BY <2>1, <2>2, RecastTracks DEF Stands
  <2>4. Tracked(store')
    BY <2>1, <2>2, RecastTracks DEF Stands
  <2>5. /\ Us(store', {}) /\ Fits(store')
        /\ Company(store, {}) /\ Keyed(m, store.users) /\ Keyed(m, store.channels) => Company(store', {})
    BY <2>2, <2>3, <2>4, RecastKeeps DEF Stands
  <2>6. ASSUME ~collided' PROVE Company(store', {})
    <3>1. \A f \in {store.users, store.channels} : \A a, b \in DOMAIN f : Alike(m, a, b) => a = b
      BY <2>1, <2>6
    <3>2. Keyed(m, store.users) /\ Keyed(m, store.channels)
      BY <3>1 DEF Keyed
    <3>3. Company(store, {})
      BY <2>1, <2>6 DEF StoreInv
    <3> QED BY <2>5, <3>2, <3>3
  <2> QED BY <2>1, <2>4, <2>5, <2>6 DEF StoreInv
<1>4. ASSUME NEW n \in Nicks, Quit(n) PROVE StoreInv'
  <2>1. welcomed /\ ~gone /\ store' = RemoveUser(store, n) /\ gone' = IsSelf(store, n)
        /\ welcomed' = welcomed /\ collided' = collided
    BY <1>4 DEF Quit
  <2>2. Stands(store)
    BY <2>1, ItStands
  <2>3. Forgotten(store, store', n) /\ Tracked(store')
    BY <2>1, <2>2, ForgottenIs DEF Stands
  <2>4. /\ Us(store, {}) /\ ~IsSelf(store, n) => Us(store', {})
        /\ Fits(store) => Fits(store')
        /\ Company(store, {}) => Company(store', {})
    BY <2>2, <2>3, ForgottenKeeps DEF Stands
  <2>5. (welcomed /\ ~gone => Us(store, {}))'
    BY <2>1, <2>2, <2>4 DEF Stands
  <2>6. (collided \/ Company(store, {}))'
    BY <2>1, <2>4 DEF StoreInv
  <2> QED BY <2>1, <2>2, <2>3, <2>4, <2>5, <2>6 DEF StoreInv, Stands
<1>5. ASSUME NEW n \in Nicks, Speaks(n) PROVE StoreInv'
  <2>1. Dispatched /\ store' = PruneOrphans(GetOrCreateUser(store, n), {n})
    BY <1>5 DEF Speaks
  <2>2. Carries(store, store')
    BY <2>1, ItStands, SpeaksLine DEF Dispatched
  <2> QED BY <2>1, <2>2, LineKeeps
<1>6. ASSUME NEW n \in Nicks, NEW c \in Chans, Join(n, c) PROVE StoreInv'
  <2>1. Dispatched /\ Stands(store)
    BY <1>6, ItStands DEF Join, Dispatched
  <2>2. CASE IsSelf(store, n)
    <3>1. PICK q : q = GetOrCreateChannel(store, c)
      OBVIOUS
    <3>2. HasChannel(q, c) /\ store' = AddMember(GetOrCreateUser(q, n), c, n)
      BY <1>6, <2>2, <3>1 DEF Join
    <3>3. Carries(store, store')
      BY <2>1, <2>2, <3>1, <3>2, OwnJoinLine
    <3> QED BY <2>1, <3>3, LineKeeps
  <2>3. CASE ~IsSelf(store, n)
    <3>1. HasChannel(store, c) /\ Admits(store, c, n) /\ store' = AddMember(GetOrCreateUser(store, n), c, n)
      BY <1>6, <2>3 DEF Join
    <3>2. Carries(store, store')
      BY <2>1, <3>1, NamesLine
    <3> QED BY <2>1, <3>2, LineKeeps
  <2> QED BY <2>2, <2>3
<1>7. ASSUME NEW n \in Nicks, NEW c \in Chans, Names(n, c) PROVE StoreInv'
  <2>1. Dispatched /\ Stands(store) /\ HasChannel(store, c) /\ Admits(store, c, n)
        /\ store' = AddMember(GetOrCreateUser(store, n), c, n)
    BY <1>7, ItStands DEF Names, Dispatched
  <2>2. Carries(store, store')
    BY <2>1, NamesLine
  <2> QED BY <2>1, <2>2, LineKeeps
<1>8. ASSUME NEW n \in Nicks, NEW c \in Chans, Part(n, c) PROVE StoreInv'
  <2>1. Dispatched /\ Stands(store) /\ HasChannel(store, c)
        /\ store' = Leaves(GetOrCreateUser(store, n), n, c)
    BY <1>8, ItStands DEF Part, Dispatched
  <2>2. Carries(store, store')
    BY <2>1, PartLine
  <2> QED BY <2>1, <2>2, LineKeeps
<1>9. ASSUME NEW n \in Nicks, NEW c \in Chans, Kick(n, c) PROVE StoreInv'
  <2>1. Dispatched /\ Stands(store) /\ HasChannel(store, c)
    BY <1>9, ItStands DEF Kick, Dispatched
  <2>2. CASE store' = Leaves(GetOrCreateUser(store, n), n, c)
    <3>1. Carries(store, store')
      BY <2>1, <2>2, PartLine
    <3> QED BY <2>1, <3>1, LineKeeps
  <2>3. ASSUME NEW by \in Nicks,
               store' = PruneOrphans(Leaves(GetOrCreateUser(GetOrCreateUser(store, n), by), n, c), {by})
        PROVE  StoreInv'
    <3>1. Carries(store, store')
      BY <2>1, <2>3, KickLine
    <3> QED BY <2>1, <3>1, LineKeeps
  <2> QED BY <1>9, <2>2, <2>3 DEF Kick
<1>10. ASSUME NEW old \in Nicks, NEW new \in Nicks, Nick(old, new) PROVE StoreInv'
  <2>1. Dispatched /\ Stands(store) /\ store' = RenameUser(store, old, new)
    BY <1>10, ItStands DEF Nick, Dispatched
  <2>2. Carries(store, store')
    BY <2>1, NickLine
  <2> QED BY <2>1, <2>2, LineKeeps
<1> QED BY <1>1, <1>2, <1>3, <1>4, <1>5, <1>6, <1>7, <1>8, <1>9, <1>10 DEF Next

\* In every reachable state the store tracks its members, fits, and is ours in between.
LEMMA InvAlways == Spec => []StoreInv
  BY InvInit, InvNext, PTL DEF Spec

\* No map holds a name twice, and every member of a channel is the user that is tracked
\* under its nick: nobody who was disposed is reached through a channel.
THEOREM MembersAreUsers == Spec => []MembersAreTracked
<1>1. ASSUME StoreInv PROVE MembersAreTracked
  <2>1. WellKeyed(store.users) /\ WellKeyed(store.channels)
    BY <1>1 DEF StoreInv, Tracked, UsersApart, Keyed, WellKeyed
  <2>2. ASSUME NEW c \in DOMAIN store.channels
        PROVE  /\ WellKeyed(store.channels[c])
               /\ \A n \in DOMAIN store.channels[c] :
                    n \in DOMAIN store.users /\ store.users[n] = store.channels[c][n]
    BY <1>1, <2>1 DEF StoreInv, Tracked, MembersFollow, WellKeyed
  <2> QED BY <2>1, <2>2 DEF MembersAreTracked
<1> QED BY <1>1, InvAlways, PTL

\* Until our own QUIT comes back exactly one user is marked as us, the one under our nick,
\* and we are in every channel that is kept.
THEOREM WeStayOurselves == Spec => []SelfIsOurs
<1>1. ASSUME StoreInv PROVE SelfIsOurs
  <2>1. ASSUME welcomed, ~gone
        PROVE  /\ HasUser(store, store.nick)
               /\ Range(store.users) \cap store.own = {User(store, store.nick)}
    <3>1. Tracked(store) /\ Us(store, {})
      BY <1>1, <2>1 DEF StoreInv
    <3>2. Alike(store.mapping, store.nick, store.nick)
      BY DEF Alike
    <3>3. HasUser(store, store.nick)
      BY <3>1, <3>2, HasIs DEF Us, HasUser
    <3>4. PICK k \in DOMAIN store.users :
            Alike(store.mapping, k, store.nick) /\ User(store, store.nick) = store.users[k]
      BY <3>1, <3>3, KeyIs DEF Tracked, UsersApart, HasUser, User
    <3>5. k = store.nick
      BY <3>1, <3>4 DEF Tracked, UsersApart, Keyed, Us
    <3>6. \A i : i \in Range(store.users) <=> \E n \in DOMAIN store.users : i = store.users[n]
      BY DEF Range
    <3>7. \A n \in DOMAIN store.users : store.users[n] \in store.own <=> n = store.nick
      BY <3>1 DEF Us
    <3>8. \A i : i \in Range(store.users) /\ i \in store.own <=> i = store.users[store.nick]
      BY <3>4, <3>5, <3>6, <3>7
    <3> QED BY <3>3, <3>4, <3>5, <3>8
  <2>2. ASSUME ~gone, NEW c \in DOMAIN store.channels
        PROVE  Has(store.mapping, store.channels[c], store.nick)
    <3>1. store.nick \in DOMAIN store.channels[c]
      BY <1>1, <2>2 DEF StoreInv, Us
    <3>2. Alike(store.mapping, store.nick, store.nick)
      BY DEF Alike
    <3> QED BY <3>1, <3>2, HasIs
  <2> QED BY <2>1, <2>2 DEF SelfIsOurs
<1> QED BY <1>1, InvAlways, PTL

\* No map outgrows its ceiling, and unless a change of casemapping folded two names into
\* one, user() knows only us and those who share a channel with us.
THEOREM NobodyIsLeftOver == Spec => []NoLeftovers
<1>1. ASSUME StoreInv PROVE NoLeftovers
  <2>1. Fits(store)
    BY <1>1 DEF StoreInv
  <2>2. ASSUME Company(store, {}) PROVE KnowsOnlyCompany
    <3>1. ASSUME NEW n, InSome(store, n) PROVE ChannelsWithUser(store, n) # {}
      <4>1. PICK c \in DOMAIN store.channels : \E k \in DOMAIN store.channels[c] : Alike(store.mapping, k, n)
        BY <3>1 DEF InSome
      <4>2. Has(store.mapping, store.channels[c], n)
        BY <4>1, HasIs
      <4> QED BY <4>2 DEF ChannelsWithUser
    <3> QED BY <2>2, <3>1 DEF Company, KnowsOnlyCompany
  <2> QED BY <1>1, <2>1, <2>2 DEF StoreInv, Fits, NoLeftovers
<1> QED BY <1>1, InvAlways, PTL

\* The flags stay flags.
LEMMA FlagsAlways == Spec => []({welcomed, collided, gone} \subseteq BOOLEAN)
<1> DEFINE Flags == welcomed \in BOOLEAN /\ collided \in BOOLEAN /\ gone \in BOOLEAN
<1>1. Init => Flags
  BY DEF Init
<1>2. Flags /\ [Next]_vars => Flags'
  <2> SUFFICES ASSUME Flags, [Next]_vars PROVE Flags'
    OBVIOUS
  <2>1. ASSUME NEW n \in Nicks, Welcome(n) \/ Speaks(n) PROVE Flags'
    BY <2>1 DEF Welcome, Speaks, Dispatched
  <2>2. ASSUME NEW n \in Nicks, Quit(n) PROVE Flags'
    <3>1. IsSelf(store, n) \in BOOLEAN
      BY DEF IsSelf, Alike
    <3> QED BY <2>2, <3>1 DEF Quit
  <2>3. ASSUME NEW m \in Mappings, Isupport(m) PROVE Flags'
    BY <2>3 DEF Isupport
  <2>4. ASSUME NEW n \in Nicks, NEW c \in Chans, Join(n, c) \/ Names(n, c) \/ Part(n, c) \/ Kick(n, c)
        PROVE  Flags'
    BY <2>4 DEF Join, Names, Part, Kick, Dispatched
  <2>5. ASSUME NEW old \in Nicks, NEW new \in Nicks, Nick(old, new) PROVE Flags'
    BY <2>5 DEF Nick, Dispatched
  <2> QED BY <2>1, <2>2, <2>3, <2>4, <2>5 DEF Next, vars
<1>3. Flags => {welcomed, collided, gone} \subseteq BOOLEAN
  OBVIOUS
<1> QED BY <1>1, <1>2, <1>3, PTL DEF Spec

\* The store is of its type: names are of the spellings given, ids of those there are.
THEOREM TypeCorrect == Spec => []TypeOK
<1>1. ASSUME StoreInv, {welcomed, collided, gone} \subseteq BOOLEAN PROVE TypeOK
  <2>1. Typed(store) /\ MembersFollow(store)
    BY <1>1 DEF StoreInv, Tracked
  <2>2. Range(store.users) \subseteq Ids
    BY <2>1 DEF Typed, Range
  <2>3. ASSUME NEW c \in DOMAIN store.channels
        PROVE  DOMAIN store.channels[c] \subseteq Nicks /\ Range(store.channels[c]) \subseteq Ids
    BY <2>1 DEF Typed, MembersFollow, Range
  <2> QED BY <1>1, <2>1, <2>2, <2>3 DEF Typed, TypeOK
<1> QED BY <1>1, InvAlways, FlagsAlways, PTL

-----------------------------------------------------------------------------
(* The world and its mirror.                                               *)

Persons ==
  [nick : Nicks, account : Accounts \cup {None}, host : Hosts, real : RealNames,
   away : BOOLEAN, in : SUBSET Chans, ops : SUBSET Chans]

\* People as they can be: no two under one nick, and ops only where they are.
Worldly(w) ==
  /\ w \in [People -> Persons]
  /\ \A p, q \in People : Alike(FirstMapping, w[p].nick, w[q].nick) => p = q
  /\ \A p \in People : w[p].ops \subseteq w[p].in
  /\ w[Me].nick = FirstNick

\* Who is in channel c as far as we were told: not those whom the 353 has yet to list.
Present(w, L, p, c) == c \in w[p].in /\ (p = Me \/ <<p, c>> \notin L)

\* The store has our channels, and in each of them those who are there.
Mirrors(s, w, L) ==
  /\ s.mapping = FirstMapping /\ s.nick = FirstNick
  /\ DOMAIN s.channels = w[Me].in
  /\ \A c \in DOMAIN s.channels : \A n :
       n \in DOMAIN s.channels[c] <=> \E p \in People : Present(w, L, p, c) /\ n = w[p].nick

Sound(s, w, L) == Stands(s) /\ Company(s, {}) /\ Worldly(w) /\ Mirrors(s, w, L)

Known(s, w, p) == w[p].nick \in DOMAIN s.users
IdOf(s, w, p)  == s.users[w[p].nick]

\* Those whom the 353 has yet to list are in that channel of ours.
Listing(w, L) == \A x \in L : \E p \in People : \E c \in w[Me].in : x = <<p, c>> /\ c \in w[p].in

-----------------------------------------------------------------------------
(* What is known of whom.                                                  *)

UserFields ==
  [account : Accounts \cup {None}, host : Hosts \cup {None}, real : RealNames \cup {None}, away : BOOLEAN]

\* Of q, of whom we were told tk, f is what is on file: as far as fields K are kept current.
Right(f, q, tk, K) ==
  f \in UserFields /\ \A k \in K : k \in tk \/ f[k] # Blank[k] => f[k] = q[k]

FieldsRight(s, w, fl, td, K) ==
  /\ fl \in [Ids -> UserFields]
  /\ td = [p \in People |-> td[p]]
  /\ \A p \in People : IF Known(s, w, p) THEN Right(fl[IdOf(s, w, p)], w[p], td[p], K) ELSE td[p] = {}

\* The ops of our channels, but for those yet to be listed.
OpsRight(s, w, L, o) ==
  \A x : x \in o <=> \E p \in People : \E c \in DOMAIN s.channels :
                       x = <<c, IdOf(s, w, p)>> /\ c \in w[p].ops /\ <<p, c>> \notin L

RosterInv ==
  /\ StoreInv /\ welcomed = TRUE /\ gone = FALSE /\ collided = FALSE
  /\ Worldly(is) /\ Mirrors(store, is, listing) /\ Listing(is, listing)
  /\ FieldsRight(store, is, fields, told, Kept) /\ OpsRight(store, is, listing, ops)

-----------------------------------------------------------------------------
(* What the mirror shows.                                                  *)

\* The assumptions, for the casemapping of a store that mirrors.
LEMMA NamesAreApart ==
  ASSUME NEW s, NEW w, NEW L, Mirrors(s, w, L)
  PROVE  /\ s.mapping = FirstMapping /\ s.nick = FirstNick
         /\ \A c, d \in Chans : Alike(s.mapping, c, d) => c = d
         /\ Me \in People /\ None \notin Chans
  BY RosterAssumption DEF Mirrors

\* We are one of the people.
LEMMA WeAreThere == Me \in People
  BY RosterAssumption

\* Somebody is known if in one of our channels, or us; all who are known are somebody, and
\* one user each.
LEMMA KnownIs ==
  ASSUME NEW s, NEW w, NEW L, Sound(s, w, L)
  PROVE  /\ \A p \in People : Known(s, w, p) <=>
              (p = Me \/ \E c \in DOMAIN s.channels : Present(w, L, p, c))
         /\ \A n \in DOMAIN s.users : \E p \in People : n = w[p].nick
         /\ \A p, q \in People : w[p].nick = w[q].nick => p = q
         /\ \A p, q \in People : Known(s, w, p) /\ Known(s, w, q) /\ IdOf(s, w, p) = IdOf(s, w, q) => p = q
         /\ \A p \in People : Known(s, w, p) => IdOf(s, w, p) \in Ids /\ IdOf(s, w, p) \in Range(s.users)
         /\ \A id \in Range(s.users) : \E p \in People : Known(s, w, p) /\ id = IdOf(s, w, p)
<1> USE DEF Sound, Stands
<1>0. \A p, q \in People : w[p].nick = w[q].nick => p = q
  BY DEF Worldly, Alike
<1>1. \A c \in DOMAIN s.channels : \A n \in DOMAIN s.channels[c] : n \in DOMAIN s.users
  BY DEF Tracked, MembersFollow
<1>2. \A p \in People, c \in DOMAIN s.channels : Present(w, L, p, c) => Known(s, w, p)
  BY <1>1 DEF Mirrors, Known
<1>3. Known(s, w, Me)
  BY DEF Us, Mirrors, Worldly, Known
<1>4. ASSUME NEW n \in DOMAIN s.users
      PROVE  \E p \in People : /\ n = w[p].nick
                               /\ p = Me \/ \E c \in DOMAIN s.channels : Present(w, L, p, c)
  <2>1. CASE IsSelf(s, n)
    <3>1. n = s.nick
      BY <2>1, SelfIs
    <3> QED BY <3>1, RosterAssumption DEF Mirrors, Worldly
  <2>2. CASE ~IsSelf(s, n)
    <3>1. InSome(s, n)
      BY <2>2 DEF Company
    <3>2. PICK c \in DOMAIN s.channels : n \in DOMAIN s.channels[c]
      BY <3>1, MemberIs
    <3> QED BY <3>2 DEF Mirrors
  <2> QED BY <2>1, <2>2
<1>5. \A p \in People : Known(s, w, p) => p = Me \/ \E c \in DOMAIN s.channels : Present(w, L, p, c)
  BY <1>4, <1>0 DEF Known
<1>6. \A p, q \in People : Known(s, w, p) /\ Known(s, w, q) /\ IdOf(s, w, p) = IdOf(s, w, q) => p = q
  BY <1>0 DEF Tracked, UsersApart, Known, IdOf
<1>7. \A p \in People : Known(s, w, p) => IdOf(s, w, p) \in Ids /\ IdOf(s, w, p) \in Range(s.users)
  BY DEF Tracked, Typed, Known, IdOf, Range
<1>8. \A id \in Range(s.users) : \E p \in People : Known(s, w, p) /\ id = IdOf(s, w, p)
  BY <1>4 DEF Range, Known, IdOf
<1> QED BY <1>0, <1>2, <1>3, <1>4, <1>5, <1>6, <1>7, <1>8

\* Whoever is known is found under the nick, and nobody else is.
LEMMA FoundIs ==
  ASSUME NEW s, NEW w, NEW L, Sound(s, w, L), NEW p \in People
  PROVE  /\ HasUser(s, w[p].nick) <=> Known(s, w, p)
         /\ Known(s, w, p) => User(s, w[p].nick) = IdOf(s, w, p)
         /\ \A k \in DOMAIN s.users : Alike(s.mapping, k, w[p].nick) => k = w[p].nick
<1>1. \A k \in DOMAIN s.users : Alike(s.mapping, k, w[p].nick) => k = w[p].nick
  <2> SUFFICES ASSUME NEW k \in DOMAIN s.users, Alike(s.mapping, k, w[p].nick) PROVE k = w[p].nick
    OBVIOUS
  <2>1. PICK q \in People : k = w[q].nick
    BY KnownIs
  <2> QED BY <2>1 DEF Sound, Mirrors, Worldly
<1>2. HasUser(s, w[p].nick) <=> Known(s, w, p)
  BY <1>1, HasIs DEF HasUser, Known, Alike
<1>3. ASSUME Known(s, w, p) PROVE User(s, w[p].nick) = IdOf(s, w, p)
  <2>1. Keyed(s.mapping, s.users) /\ Has(s.mapping, s.users, w[p].nick)
    BY <1>2, <1>3 DEF Sound, Stands, Tracked, UsersApart, HasUser
  <2>2. PICK k \in DOMAIN s.users : Alike(s.mapping, k, w[p].nick) /\ Get(s.mapping, s.users, w[p].nick) = s.users[k]
    BY <2>1, KeyIs
  <2> QED BY <2>2, <1>1 DEF User, IdOf
<1> QED BY <1>1, <1>2, <1>3

\* The members of a channel are the users of those who are there.
LEMMA MembersAre ==
  ASSUME NEW s, NEW w, NEW L, Sound(s, w, L), NEW c \in DOMAIN s.channels
  PROVE  /\ \A p \in People : Present(w, L, p, c) => IdOf(s, w, p) \in Range(s.channels[c])
         /\ \A id \in Range(s.channels[c]) : \E p \in People : Present(w, L, p, c) /\ id = IdOf(s, w, p)
<1>1. \A n \in DOMAIN s.channels[c] : s.users[n] = s.channels[c][n]
  BY DEF Sound, Stands, Tracked, MembersFollow
<1> QED BY <1>1 DEF Sound, Mirrors, IdOf, Range

-----------------------------------------------------------------------------
(* What a line teaches.                                                    *)

\* From one state to the next: everybody who stays known is the same user, and at most p
\* is known anew, as a user that was nobody's.
Goes(s, w, L, t, v, M, p) ==
  /\ Sound(s, w, L) /\ Sound(t, v, M)
  /\ \A q \in People : Known(t, v, q) =>
       IF Known(s, w, q) THEN IdOf(t, v, q) = IdOf(s, w, q)
       ELSE q = p /\ IdOf(t, v, q) \notin Range(s.users)

\* Nothing happens to anybody but p.
Alone(w, v, p) == \A q \in People : q # p => v[q] = w[q]

\* What is on file of somebody, known or not, is right.
LEMMA RecordIsRight ==
  ASSUME RosterInv, NEW p \in People
  PROVE  /\ Right(Record(is[p].nick), is[p], told[p], Kept)
         /\ Known(store, is, p) => Record(is[p].nick) = fields[IdOf(store, is, p)]
         /\ ~Known(store, is, p) => Record(is[p].nick) = Blank /\ told[p] = {}
<1>1. Sound(store, is, listing)
  BY ItStands DEF RosterInv, Sound, StoreInv
<1>2. CASE Known(store, is, p)
  BY <1>1, <1>2, FoundIs DEF Record, RosterInv, FieldsRight
<1>3. CASE ~Known(store, is, p)
  <2>1. Record(is[p].nick) = Blank /\ told[p] = {}
    BY <1>1, <1>3, FoundIs DEF Record, RosterInv, FieldsRight
  <2> QED BY <2>1, <1>3 DEF Right, UserFields, Blank
<1> QED BY <1>2, <1>3

\* What Learns does to fields and told.
Taught(t, v, p, f, what, fl, td, gl, ud) ==
  /\ gl = [id \in Ids |-> IF id \notin Range(t.users) THEN Blank
                          ELSE IF HasUser(t, v[p].nick) /\ id = User(t, v[p].nick) THEN f
                          ELSE fl[id]]
  /\ ud = [q \in People |-> IF ~HasUser(t, v[q].nick) THEN {}
                            ELSE IF q = p THEN td[q] \cup what ELSE td[q]]

\* If f is right about p, the fields are right after the line.
LEMMA FieldsLearned ==
  ASSUME NEW s, NEW w, NEW L, NEW t, NEW v, NEW M, NEW p \in People, Goes(s, w, L, t, v, M, p),
         Alone(w, v, p), NEW fl, NEW td, NEW K, FieldsRight(s, w, fl, td, K), NEW f, NEW what,
         Known(t, v, p) => Right(f, v[p], td[p] \cup what, K),
         NEW gl, NEW ud, Taught(t, v, p, f, what, fl, td, gl, ud)
  PROVE  FieldsRight(t, v, gl, ud, K)
<1> USE DEF Taught
<1>0. Blank \in UserFields
  BY DEF Blank, UserFields
<1>1. ASSUME NEW q \in People, Known(t, v, q)
      PROVE  Right(gl[IdOf(t, v, q)], v[q], ud[q], K)
  <2>1. IdOf(t, v, q) \in Ids /\ IdOf(t, v, q) \in Range(t.users) /\ HasUser(t, v[q].nick)
    BY <1>1, KnownIs, FoundIs DEF Goes
  <2>2. CASE q = p
    <3>1. gl[IdOf(t, v, q)] = f /\ ud[q] = td[p] \cup what
      BY <1>1, <2>1, <2>2, FoundIs DEF Goes
    <3> QED BY <1>1, <2>2, <3>1
  <2>3. CASE q # p
    <3>1. Known(s, w, q) /\ IdOf(t, v, q) = IdOf(s, w, q)
      BY <1>1, <2>3 DEF Goes
    <3>2. ~(HasUser(t, v[p].nick) /\ IdOf(t, v, q) = User(t, v[p].nick))
      BY <1>1, <2>3, KnownIs, FoundIs DEF Goes
    <3>3. gl[IdOf(t, v, q)] = fl[IdOf(s, w, q)] /\ ud[q] = td[q]
      BY <2>1, <2>3, <3>1, <3>2
    <3> QED BY <2>3, <3>1, <3>3 DEF FieldsRight, Alone
  <2> QED BY <2>2, <2>3
<1>2. ASSUME NEW q \in People, ~Known(t, v, q) PROVE ud[q] = {}
  BY <1>2, FoundIs DEF Goes
<1>3. ASSUME NEW id \in Ids PROVE gl[id] \in UserFields
  <2>1. CASE id \in Range(t.users) /\ HasUser(t, v[p].nick) /\ id = User(t, v[p].nick)
    BY <2>1, FoundIs DEF Goes, Right
  <2>2. CASE ~(id \in Range(t.users) /\ HasUser(t, v[p].nick) /\ id = User(t, v[p].nick))
    BY <2>2, <1>0 DEF FieldsRight
  <2> QED BY <2>1, <2>2
<1>4. gl \in [Ids -> UserFields]
  BY <1>3
<1> QED BY <1>1, <1>2, <1>4 DEF FieldsRight

\* Whose status is on file: that of the known who have it.
LEMMA OpsWere ==
  ASSUME NEW s, NEW w, NEW L, Sound(s, w, L), NEW o, OpsRight(s, w, L, o)
  PROVE  /\ \A p \in People : \A c : Known(s, w, p) =>
              (<<c, IdOf(s, w, p)>> \in o <=> c \in DOMAIN s.channels /\ c \in w[p].ops /\ <<p, c>> \notin L)
         /\ \A id, c : id \notin Range(s.users) => <<c, id>> \notin o
         /\ \A x \in o : x = <<x[1], x[2]>>
<1>1. ASSUME NEW p \in People, NEW c \in DOMAIN s.channels, c \in w[p].ops, <<p, c>> \notin L
      PROVE  Known(s, w, p)
  BY <1>1, KnownIs DEF Sound, Worldly, Present
<1>2. ASSUME NEW p \in People, NEW c, Known(s, w, p), <<c, IdOf(s, w, p)>> \in o
      PROVE  c \in DOMAIN s.channels /\ c \in w[p].ops /\ <<p, c>> \notin L
  <2>1. PICK q \in People, d \in DOMAIN s.channels :
          <<c, IdOf(s, w, p)>> = <<d, IdOf(s, w, q)>> /\ d \in w[q].ops /\ <<q, d>> \notin L
    BY <1>2 DEF OpsRight
  <2>2. q = p
    BY <2>1, <1>1, <1>2, KnownIs
  <2> QED BY <2>1, <2>2
<1>3. ASSUME NEW id, NEW c, <<c, id>> \in o PROVE id \in Range(s.users)
  <2>1. PICK q \in People, d \in DOMAIN s.channels :
          <<c, id>> = <<d, IdOf(s, w, q)>> /\ d \in w[q].ops /\ <<q, d>> \notin L
    BY <1>3 DEF OpsRight
  <2> QED BY <2>1, <1>1, KnownIs
<1>4. ASSUME NEW x \in o PROVE x = <<x[1], x[2]>>
  <2>1. PICK p \in People, c \in DOMAIN s.channels : x = <<c, IdOf(s, w, p)>>
    BY DEF OpsRight
  <2> QED BY <2>1
<1>5. \A p \in People : \A c : c \in DOMAIN s.channels /\ c \in w[p].ops /\ <<p, c>> \notin L => <<c, IdOf(s, w, p)>> \in o
  BY DEF OpsRight
<1> QED BY <1>2, <1>3, <1>4, <1>5

\* If the status that was learnt is right about those who are there, all is right, as that
\* of the others is disposed of.
LEMMA OpsLearned ==
  ASSUME NEW t, NEW v, NEW M, Sound(t, v, M), NEW status, \A x \in status : x = <<x[1], x[2]>>,
         \A q \in People : \A c \in DOMAIN t.channels : Present(v, M, q, c) =>
           (<<c, IdOf(t, v, q)>> \in status <=> c \in v[q].ops /\ <<q, c>> \notin M),
         NEW o, o = {x \in status : x[1] \in DOMAIN t.channels /\ x[2] \in Range(t.channels[x[1]])}
  PROVE  OpsRight(t, v, M, o)
<1>1. ASSUME NEW x \in o
      PROVE  \E p \in People : \E c \in DOMAIN t.channels :
               x = <<c, IdOf(t, v, p)>> /\ c \in v[p].ops /\ <<p, c>> \notin M
  <2>1. x \in status /\ x = <<x[1], x[2]>> /\ x[1] \in DOMAIN t.channels /\ x[2] \in Range(t.channels[x[1]])
    OBVIOUS
  <2>2. PICK p \in People : Present(v, M, p, x[1]) /\ x[2] = IdOf(t, v, p)
    BY <2>1, MembersAre
  <2> QED BY <2>1, <2>2
<1>2. ASSUME NEW x, NEW p \in People, NEW c \in DOMAIN t.channels,
             x = <<c, IdOf(t, v, p)>>, c \in v[p].ops, <<p, c>> \notin M
      PROVE  x \in o
  <2>1. Present(v, M, p, c)
    BY <1>2 DEF Present, Sound, Worldly
  <2>2. IdOf(t, v, p) \in Range(t.channels[c])
    BY <2>1, MembersAre
  <2> QED BY <1>2, <2>1, <2>2
<1> QED BY <1>1, <1>2 DEF OpsRight

\* A store that is kept as it should be, between lines.
Upright == StoreInv /\ welcomed = TRUE /\ gone = FALSE /\ collided = FALSE

\* After a line that the store and the world agree about, and that is right about p and about
\* the status of everybody who is there, the invariant holds.
LEMMA LineLearned ==
  ASSUME RosterInv, Upright', NEW p \in People, Goes(store, is, listing, store', is', listing', p),
         Alone(is, is', p), Listing(is', listing'), NEW f, NEW what, NEW status,
         Learns(p, is'[p].nick, f, what, status),
         Known(store', is', p) => Right(f, is'[p], told[p] \cup what, Kept),
         \A x \in status : x = <<x[1], x[2]>>,
         \A q \in People : \A c \in DOMAIN store'.channels : Present(is', listing', q, c) =>
           (<<c, IdOf(store', is', q)>> \in status <=> c \in is'[q].ops /\ <<q, c>> \notin listing')
  PROVE  RosterInv'
<1>1. FieldsRight(store', is', fields', told', Kept)
  <2>1. FieldsRight(store, is, fields, told, Kept)
    BY DEF RosterInv
  <2>2. Taught(store', is', p, f, what, fields, told, fields', told')
    BY DEF Learns, Taught
  <2> QED BY <2>1, <2>2, FieldsLearned
<1>2. OpsRight(store', is', listing', ops')
  BY OpsLearned DEF Learns, Goes
<1>3. Kept' = Kept
  BY DEF Learns, Kept
<1> QED BY <1>1, <1>2, <1>3 DEF RosterInv, Upright, Goes, Sound

\* Nothing comes of what nobody tells, unless somebody known has changed in what is kept.
LEMMA NothingLearned ==
  ASSUME RosterInv, Upright', Sound(store, is, listing), Sound(store, is', listing),
         Unheard, Listing(is', listing),
         \A q \in People : /\ Known(store, is', q) <=> Known(store, is, q)
                           /\ Known(store, is, q) => /\ is'[q].nick = is[q].nick
                                                     /\ \A k \in Kept : is'[q][k] = is[q][k]
                           /\ \A c \in DOMAIN store.channels : c \in is'[q].ops <=> c \in is[q].ops
  PROVE  RosterInv'
<1>1. store' = store /\ fields' = fields /\ ops' = ops /\ told' = told /\ caps' = caps /\ listing' = listing
  BY DEF Unheard, client
<1>2. FieldsRight(store, is', fields, told, Kept)
  BY DEF RosterInv, FieldsRight, Right, IdOf
<1>3. ASSUME NEW x
      PROVE  x \in ops <=> \E p \in People : \E c \in DOMAIN store.channels :
                             x = <<c, IdOf(store, is', p)>> /\ c \in is'[p].ops /\ <<p, c>> \notin listing
  <2>1. ASSUME NEW p \in People, NEW c \in DOMAIN store.channels, <<p, c>> \notin listing,
               c \in is[p].ops \/ c \in is'[p].ops
        PROVE  IdOf(store, is', p) = IdOf(store, is, p) /\ (c \in is[p].ops <=> c \in is'[p].ops)
    <3>1. Known(store, is, p)
      BY <2>1, KnownIs DEF Present, Sound, Worldly
    <3> QED BY <3>1, <2>1 DEF IdOf
  <2> QED BY <2>1 DEF RosterInv, OpsRight
<1>4. Kept' = Kept
  BY <1>1 DEF Kept
<1> QED BY <1>1, <1>2, <1>3, <1>4 DEF RosterInv, Upright, Sound, OpsRight

-----------------------------------------------------------------------------
(* What the lines make of the fields.                                      *)

FieldNames == {"account", "host", "real", "away"}

\* g is f with the fields S as r has them.
Sets(f, g, r, S) == g \in UserFields /\ \A k \in FieldNames : g[k] = IF k \in S THEN r[k] ELSE f[k]

\* Setting some and then others.
LEMMA SetsBoth ==
  ASSUME NEW f, NEW g, NEW h, NEW r, NEW S, NEW T, Sets(f, g, r, S), Sets(g, h, r, T)
  PROVE  Sets(f, h, r, S \cup T)
  BY DEF Sets

\* What was right stays right, if the fields that are set include those that changed and
\* those that we are now told.
LEMMA RightAgain ==
  ASSUME NEW f, NEW q, NEW tk, Right(f, q, tk, Kept), NEW g, NEW r, NEW S, Sets(f, g, r, S),
         NEW what, what \subseteq S, \A k \in Kept : k \notin S => r[k] = q[k]
  PROVE  Right(g, r, tk \cup what, Kept)
<1>1. Kept \subseteq FieldNames
  BY DEF Kept, FieldNames
<1> QED BY <1>1 DEF Right, Sets

\* updateFromSource.
LEMMA SourcedSets ==
  ASSUME NEW f \in UserFields, NEW q \in Persons
  PROVE  Sets(f, Sourced(f, q), q, {"host"})
  BY DEF Sets, Sourced, UserFields, Persons, FieldNames

\* An account, however nobody is written.
LEMMA AccountSets ==
  ASSUME NEW f \in UserFields, NEW q \in Persons, NEW v, v \in Accounts \/ v \in {"", "*"},
         q.account = IF v \in Accounts THEN v ELSE None
  PROVE  Sets(f, SetAccount(f, v), q, {"account"})
<1>1. v \in {"", "*"} => v \notin Accounts
  BY RosterAssumption
<1> QED BY <1>1 DEF Sets, SetAccount, UserFields, Persons, FieldNames

\* So it is on the wire.
LEMMA WiredSets ==
  ASSUME NEW f \in UserFields, NEW q \in Persons
  PROVE  Sets(f, SetAccount(f, Wire(q, "*")), q, {"account"})
<1>1. None \notin Accounts /\ "*" \notin Accounts
  BY RosterAssumption
<1>2. q.account \in Accounts \cup {None}
  BY DEF Persons
<1> QED BY <1>1, <1>2, AccountSets DEF Wire

\* A field of its own.
LEMMA AwaySets ==
  ASSUME NEW f \in UserFields, NEW q \in Persons
  PROVE  Sets(f, [f EXCEPT !.away = q.away], q, {"away"})
  BY DEF Sets, UserFields, Persons, FieldNames

LEMMA RealSets ==
  ASSUME NEW f \in UserFields, NEW q \in Persons
  PROVE  Sets(f, [f EXCEPT !.real = q.real], q, {"real"})
  BY DEF Sets, UserFields, Persons, FieldNames

\* JOIN.
LEMMA JoinedSets ==
  ASSUME NEW f \in UserFields, NEW q \in Persons
  PROVE  Sets(f, Joined(f, q), q, {"host"} \cup IF "extended-join" \in caps THEN {"account", "real"} ELSE {})
<1>1. Sets(f, Sourced(f, q), q, {"host"}) /\ Sourced(f, q) \in UserFields
  BY SourcedSets DEF Sets
<1>2. CASE "extended-join" \in caps
  <2> DEFINE g == SetAccount(Sourced(f, q), Wire(q, "*"))
  <2>1. Sets(Sourced(f, q), g, q, {"account"}) /\ g \in UserFields
    BY <1>1, WiredSets DEF Sets
  <2>2. Sets(g, [g EXCEPT !.real = q.real], q, {"real"})
    BY <2>1, RealSets
  <2>3. Joined(f, q) = [g EXCEPT !.real = q.real]
    BY <1>2 DEF Joined
  <2> HIDE DEF g
  <2>4. Sets(f, Joined(f, q), q, ({"host"} \cup {"account"}) \cup {"real"})
    <3>1. Sets(f, g, q, {"host"} \cup {"account"})
      BY <1>1, <2>1, SetsBoth
    <3>2. Sets(g, Joined(f, q), q, {"real"})
      BY <2>2, <2>3
    <3> QED BY <3>1, <3>2, SetsBoth
  <2>5. ({"host"} \cup {"account"}) \cup {"real"} = {"host"} \cup {"account", "real"}
    OBVIOUS
  <2> QED BY <1>2, <2>4, <2>5
<1>3. CASE "extended-join" \notin caps
  BY <1>1, <1>3 DEF Joined
<1> QED BY <1>2, <1>3

\* 352, and 354 with the account.
LEMMA SeenSets ==
  ASSUME NEW f \in UserFields, NEW q \in Persons
  PROVE  LET S == {"host", "away"} \cup IF q.real = "" THEN {} ELSE {"real"}
         IN  Sets(f, Seen(f, q), q, S) /\ Sets(f, SeenX(f, q), q, S \cup {"account"})
<1> DEFINE S == {"host", "away"} \cup IF q.real = "" THEN {} ELSE {"real"}
<1>1. Sets(f, Seen(f, q), q, S)
  BY DEF Sets, Seen, Sourced, UserFields, Persons, FieldNames
<1>2. Seen(f, q) \in UserFields
  BY <1>1 DEF Sets
<1>3. Sets(Seen(f, q), SeenX(f, q), q, {"account"})
  <2>1. {None, "*", "0"} \cap Accounts = {} /\ q.account \in Accounts \cup {None}
    BY RosterAssumption DEF Persons
  <2> DEFINE v == Wire(q, "0")
             u == IF v = "0" THEN "*" ELSE v
  <2>2. SeenX(f, q) = SetAccount(Seen(f, q), u)
    BY DEF SeenX
  <2>3. (u \in Accounts \/ u \in {"", "*"}) /\ q.account = IF u \in Accounts THEN u ELSE None
    BY <2>1 DEF Wire
  <2> HIDE DEF u
  <2> QED BY <1>2, <2>2, <2>3, AccountSets
<1> QED BY <1>1, <1>3, SetsBoth

\* A message: the tag, if there is one, is right about the account.
LEMMA TaggedSets ==
  ASSUME NEW p \in People, is[p] \in Persons, NEW tag \in Tags(p), NEW f \in UserFields, NEW g,
         g = IF tag = None THEN Sourced(f, is[p]) ELSE SetAccount(Sourced(f, is[p]), tag)
  PROVE  Sets(f, g, is[p], {"host"} \cup IF tag = None THEN {} ELSE {"account"})
<1>1. Sets(f, Sourced(f, is[p]), is[p], {"host"}) /\ Sourced(f, is[p]) \in UserFields
  BY SourcedSets DEF Sets
<1>2. CASE tag = None
  BY <1>1, <1>2
<1>3. CASE tag # None
  <2>1. {None, "*"} \cap Accounts = {} /\ is[p].account \in Accounts \cup {None}
    BY RosterAssumption DEF Persons
  <2>2. (tag \in Accounts \/ tag \in {"", "*"}) /\ is[p].account = IF tag \in Accounts THEN tag ELSE None
    BY <1>3, <2>1 DEF Tags
  <2>3. Sets(Sourced(f, is[p]), g, is[p], {"account"})
    BY <1>1, <1>3, <2>2, AccountSets
  <2> QED BY <1>1, <1>3, <2>3, SetsBoth
<1> QED BY <1>2, <1>3

-----------------------------------------------------------------------------
(* What the lines make of the store, spelled as its names are.             *)

\* Who stays a user is the same, and who becomes one was nobody.
Follows(s, t) ==
  /\ t.mapping = s.mapping /\ t.nick = s.nick
  /\ \A k \in DOMAIN t.users :
       IF k \in DOMAIN s.users THEN t.users[k] = s.users[k] ELSE t.users[k] \notin Range(s.users)

\* Nobody is tracked under another spelling of n, and a channel has no other spelling than c.
Spelled(s, n) == n \in Nicks /\ \A k \in DOMAIN s.users : Alike(s.mapping, k, n) => k = n
OneSpelling(s) == \A c, d \in Chans : Alike(s.mapping, c, d) => c = d

\* getOrCreateUser.
LEMMA MetFollows ==
  ASSUME NEW s, Tracked(s), NEW n, Spelled(s, n), NEW t, t = GetOrCreateUser(s, n)
  PROVE  /\ Follows(s, t) /\ t.channels = s.channels /\ Tracked(t) /\ Spelled(t, n)
         /\ n \in DOMAIN t.users /\ DOMAIN t.users = DOMAIN s.users \cup {n}
<1>1. Met(s, t, n) /\ Tracked(t) /\ HasUser(t, n)
  BY MetIs DEF Spelled
<1>2. HasUser(s, n) <=> n \in DOMAIN s.users
  BY HasIs DEF HasUser, Spelled, Alike
<1>3. Follows(s, t) /\ DOMAIN t.users = DOMAIN s.users \cup {n}
  <2>1. CASE HasUser(s, n)
    BY <1>1, <1>2, <2>1 DEF Met, Follows
  <2>2. CASE ~HasUser(s, n)
    BY <1>1, <1>2, <2>2 DEF Met, Follows, Range
  <2> QED BY <2>1, <2>2
<1> QED BY <1>1, <1>3 DEF Met, Spelled

\* A user is met and becomes a member of a channel.
LEMMA NamesFollows ==
  ASSUME NEW s, Tracked(s), OneSpelling(s), NEW n, Spelled(s, n), NEW c \in Chans, HasChannel(s, c),
         NEW t, t = AddMember(GetOrCreateUser(s, n), c, n)
  PROVE  /\ Follows(s, t) /\ DOMAIN t.channels = DOMAIN s.channels /\ c \in DOMAIN s.channels
         /\ \A d \in DOMAIN s.channels : DOMAIN t.channels[d] = DOMAIN s.channels[d] \cup IF d = c THEN {n} ELSE {}
<1> DEFINE r == GetOrCreateUser(s, n)
<1>1. /\ Follows(s, r) /\ r.channels = s.channels /\ Tracked(r) /\ Spelled(r, n)
      /\ n \in DOMAIN r.users
  BY MetFollows
<1> HIDE DEF r
<1>2. HasChannel(r, c) /\ HasUser(r, n)
  <2>1. Alike(r.mapping, n, n)
    BY DEF Alike
  <2> QED BY <1>1, <2>1, HasIs DEF HasUser, HasChannel, Follows
<1>3. Added(r, t, c, n)
  BY <1>1, <1>2, AddedIs DEF r
<1>4. \A d \in DOMAIN s.channels : Alike(s.mapping, d, c) <=> d = c
  BY DEF OneSpelling, Tracked, Typed, Alike
<1>5. c \in DOMAIN s.channels
  BY <1>4, HasIs DEF HasChannel
<1> QED BY <1>1, <1>3, <1>4, <1>5 DEF Added, ButMembers, Follows, Spelled

\* Our own JOIN of a channel that is new.
LEMMA OwnJoinFollows ==
  ASSUME NEW s, Stands(s), OneSpelling(s), NEW c \in Chans, c \notin DOMAIN s.channels,
         NEW q, q = GetOrCreateChannel(s, c), HasChannel(q, c), NEW n, Spelled(s, n),
         NEW t, t = AddMember(GetOrCreateUser(q, n), c, n)
  PROVE  /\ Follows(s, t) /\ DOMAIN t.channels = DOMAIN s.channels \cup {c}
         /\ DOMAIN t.channels[c] = {n}
         /\ \A d \in DOMAIN s.channels : DOMAIN t.channels[d] = DOMAIN s.channels[d]
<1>1. \A d \in DOMAIN s.channels : ~Alike(s.mapping, d, c)
  BY DEF OneSpelling, Stands, Tracked, Typed
<1>2. ~HasChannel(s, c)
  BY <1>1, HasIs DEF HasChannel
<1>3. Opened(s, q, c) /\ Tracked(q)
  BY OpenedIs DEF Stands
<1>4. q # s
  BY <1>2
<1>5. /\ Follows(q, t) /\ DOMAIN t.channels = DOMAIN q.channels
      /\ \A d \in DOMAIN q.channels : DOMAIN t.channels[d] = DOMAIN q.channels[d] \cup IF d = c THEN {n} ELSE {}
  <2>1. OneSpelling(q) /\ Spelled(q, n)
    BY <1>3 DEF Opened, OneSpelling, Spelled
  <2> QED BY <1>3, <2>1, NamesFollows
<1>6. /\ q.users = s.users /\ q.mapping = s.mapping /\ q.nick = s.nick
      /\ DOMAIN q.channels = DOMAIN s.channels \cup {c} /\ DOMAIN q.channels[c] = {}
      /\ \A d \in DOMAIN s.channels : q.channels[d] = s.channels[d]
  BY <1>2, <1>3, <1>4 DEF Opened
<1>7. Follows(s, t)
  BY <1>5, <1>6 DEF Follows
<1>8. DOMAIN t.channels[c] = {n} /\ DOMAIN t.channels = DOMAIN s.channels \cup {c}
  BY <1>5, <1>6
<1>9. ASSUME NEW d \in DOMAIN s.channels PROVE DOMAIN t.channels[d] = DOMAIN s.channels[d]
  <2>1. d # c /\ q.channels[d] = s.channels[d]
    BY <1>6
  <2>2. DOMAIN t.channels[d] = DOMAIN q.channels[d] \cup {}
    BY <1>5, <1>6, <2>1
  <2> QED BY <2>1, <2>2
<1> QED BY <1>7, <1>8, <1>9

\* Our own PART.
LEMMA OwnPartFollows ==
  ASSUME NEW s, Stands(s), OneSpelling(s), NEW c \in DOMAIN s.channels, NEW n, Spelled(s, n), IsSelf(s, n),
         NEW t, t = Leaves(GetOrCreateUser(s, n), n, c)
  PROVE  /\ Follows(s, t) /\ DOMAIN t.channels = DOMAIN s.channels \ {c}
         /\ \A d \in DOMAIN t.channels : t.channels[d] = s.channels[d]
<1> DEFINE r == GetOrCreateUser(s, n)
           q == RemoveChannel(r, c)
           N == DOMAIN Members(r, c)
<1>1. Follows(s, r) /\ r.channels = s.channels /\ Tracked(r)
  BY MetFollows DEF Stands
<1>2. t = PruneOrphans(q, N)
  BY <1>1 DEF Leaves, IsSelf, Follows
<1> HIDE DEF r, N
<1>3. Closed(r, q, c) /\ Tracked(q)
  BY <1>1, ClosedIs
<1> HIDE DEF q
<1>4. Pruned(q, t, N)
  BY <1>2, <1>3, PrunedTracks
<1>5. \A d \in DOMAIN s.channels : Alike(s.mapping, d, c) <=> d = c
  BY DEF OneSpelling, Stands, Tracked, Typed, Alike
<1> QED BY <1>1, <1>3, <1>4, <1>5 DEF Closed, Pruned, Follows

\* A PART of somebody else.
LEMMA PartFollows ==
  ASSUME NEW s, Stands(s), OneSpelling(s), NEW c \in DOMAIN s.channels, NEW n, Spelled(s, n), ~IsSelf(s, n),
         NEW t, t = Leaves(GetOrCreateUser(s, n), n, c)
  PROVE  /\ Follows(s, t) /\ DOMAIN t.channels = DOMAIN s.channels
         /\ \A d \in DOMAIN s.channels : DOMAIN t.channels[d] = DOMAIN s.channels[d] \ IF d = c THEN {n} ELSE {}
<1> DEFINE r == GetOrCreateUser(s, n)
           q == RemoveMember(r, c, n)
<1>1. Follows(s, r) /\ r.channels = s.channels /\ Tracked(r) /\ Spelled(r, n)
  BY MetFollows DEF Stands
<1>2. t = PruneOrphans(q, {n})
  BY <1>1 DEF Leaves, IsSelf, Follows
<1> HIDE DEF r
<1>3. HasChannel(r, c)
  BY <1>1, HasIs DEF HasChannel, Alike
<1>4. Removed(r, q, c, n) /\ Tracked(q)
  BY <1>1, <1>3, RemovedIs
<1> HIDE DEF q
<1>5. Pruned(q, t, {n})
  BY <1>2, <1>4, PrunedTracks
<1>6. \A d \in DOMAIN s.channels : Alike(s.mapping, d, c) <=> d = c
  BY DEF OneSpelling, Stands, Tracked, Typed, Alike
<1>7. \A d \in DOMAIN s.channels : \A k \in DOMAIN s.channels[d] : Alike(s.mapping, k, n) <=> k = n
  BY <1>1 DEF Spelled, Stands, Tracked, MembersFollow, Alike, Follows
<1>8. Follows(s, t) /\ DOMAIN t.channels = DOMAIN s.channels
  BY <1>1, <1>4, <1>5 DEF Removed, ButMembers, Pruned, Follows
<1>9. ASSUME NEW d \in DOMAIN s.channels, NEW k
      PROVE  k \in DOMAIN t.channels[d] <=> k \in DOMAIN s.channels[d] /\ ~(d = c /\ k = n)
  <2>1. k \in DOMAIN t.channels[d] <=> k \in DOMAIN s.channels[d] /\ ~(Alike(s.mapping, d, c) /\ Alike(s.mapping, k, n))
    BY <1>1, <1>4, <1>5 DEF Removed, ButMembers, Pruned, Follows
  <2> QED BY <2>1, <1>6, <1>7
<1> QED BY <1>8, <1>9

\* A QUIT of somebody else.
LEMMA QuitFollows ==
  ASSUME NEW s, Stands(s), NEW n, Spelled(s, n), NEW t, t = RemoveUser(s, n)
  PROVE  /\ Follows(s, t) /\ DOMAIN t.channels = DOMAIN s.channels
         /\ \A d \in DOMAIN s.channels : DOMAIN t.channels[d] = DOMAIN s.channels[d] \ {n}
<1>1. Forgotten(s, t, n)
  BY ForgottenIs DEF Stands
<1>2. \A d \in DOMAIN s.channels : \A k \in DOMAIN s.channels[d] : Alike(s.mapping, k, n) <=> k = n
  BY DEF Spelled, Stands, Tracked, MembersFollow, Alike
<1>3. Follows(s, t) /\ DOMAIN t.channels = DOMAIN s.channels
  BY <1>1 DEF Forgotten, Follows
<1>4. ASSUME NEW d \in DOMAIN s.channels, NEW k
      PROVE  k \in DOMAIN t.channels[d] <=> k \in DOMAIN s.channels[d] /\ k # n
  BY <1>1, <1>2 DEF Forgotten
<1> QED BY <1>3, <1>4

\* Somebody speaks.
LEMMA SpeaksFollows ==
  ASSUME NEW s, Stands(s), NEW n, Spelled(s, n), NEW t, t = PruneOrphans(GetOrCreateUser(s, n), {n})
  PROVE  Follows(s, t) /\ t.channels = s.channels
<1> DEFINE r == GetOrCreateUser(s, n)
<1>1. Follows(s, r) /\ r.channels = s.channels /\ Tracked(r)
  BY MetFollows DEF Stands
<1> HIDE DEF r
<1>2. Pruned(r, t, {n})
  BY <1>1, PrunedTracks DEF r
<1> QED BY <1>1, <1>2 DEF Pruned, Follows

\* A rename to a nick that nobody else has.
LEMMA NickFollows ==
  ASSUME NEW s, Stands(s), NEW old \in DOMAIN s.users, NEW new \in Nicks,
         \A j \in DOMAIN s.users : j # old => ~Alike(s.mapping, j, new),
         NEW t, t = RenameUser(s, old, new)
  PROVE  Renamed(s, t, old, new)
<1>1. /\ Keyed(s.mapping, s.users) /\ Tracked(s)
      /\ Shape(s) /\ DOMAIN s.channels = DOMAIN s.channels
  BY DEF Stands, Tracked, UsersApart, Typed
<1>2. HasUser(s, old) /\ User(s, old) = s.users[old]
  <2>1. Alike(s.mapping, old, old)
    BY DEF Alike
  <2>2. Has(s.mapping, s.users, old)
    BY <2>1, HasIs
  <2> QED BY <1>1, <2>1, <2>2, KeyIs DEF HasUser, User, Keyed
<1>3. ~(HasUser(s, new) /\ User(s, new) # User(s, old))
  <2> SUFFICES ASSUME HasUser(s, new) PROVE User(s, new) = User(s, old)
    OBVIOUS
  <2>1. PICK k \in DOMAIN s.users : Alike(s.mapping, k, new) /\ Get(s.mapping, s.users, new) = s.users[k]
    BY <1>1, KeyIs DEF HasUser
  <2> QED BY <2>1, <1>2 DEF User
<1> DEFINE Move(f) == Put(s.mapping, Del(s.mapping, f, old), new, Get(s.mapping, f, old))
           ch == [c \in DOMAIN s.channels |-> IF Has(s.mapping, s.channels[c], old) THEN Move(s.channels[c])
                                              ELSE s.channels[c]]
<1>4. t = [s EXCEPT !.users = Move(@), !.channels = ch, !.nick = IF IsSelf(s, old) THEN new ELSE @]
  BY <1>2, <1>3 DEF RenameUser
<1>5. /\ Shape(t) /\ t.mapping = s.mapping /\ t.own = s.own /\ t.users = Move(s.users) /\ t.channels = ch
      /\ t.nick = IF IsSelf(s, old) THEN new ELSE s.nick
  BY <1>4, <1>1 DEF Shape
<1>6. Alike(s.mapping, old, old)
  BY DEF Alike
<1> QED BY <1>1, <1>5, <1>6, RenamedIs

-----------------------------------------------------------------------------
(* From the mirror to the mirror.                                          *)

\* What the invariant says of the state a line starts from.
LEMMA Before ==
  ASSUME RosterInv
  PROVE  /\ Sound(store, is, listing) /\ OneSpelling(store) /\ Stands(store)
         /\ \A q \in People : /\ Spelled(store, is[q].nick) /\ is[q] \in Persons
                              /\ IsSelf(store, is[q].nick) <=> q = Me
<1>1. Sound(store, is, listing)
  BY ItStands DEF RosterInv, Sound, StoreInv
<1>2. OneSpelling(store)
  BY <1>1, NamesAreApart DEF OneSpelling, Sound
<1>3. ASSUME NEW q \in People PROVE Spelled(store, is[q].nick) /\ is[q] \in Persons
  BY <1>1, FoundIs DEF Spelled, Sound, Worldly, Persons
<1>4. ASSUME NEW q \in People PROVE IsSelf(store, is[q].nick) <=> q = Me
  <2>1. store.mapping = FirstMapping /\ store.nick = is[Me].nick
    BY <1>1 DEF Sound, Mirrors, Worldly
  <2>2. IsSelf(store, is[q].nick) <=> Alike(FirstMapping, is[q].nick, is[Me].nick)
    BY <2>1 DEF IsSelf
  <2>3. Alike(FirstMapping, is[Me].nick, is[Me].nick)
    BY DEF Alike
  <2> QED BY <1>1, <2>2, <2>3, WeAreThere DEF Sound, Worldly
<1> QED BY <1>1, <1>2, <1>3, <1>4 DEF Sound

\* p is now x.
Becomes(w, v, p, x) == v = [w EXCEPT ![p] = x]

\* A person changes, and the world is as it can be.
LEMMA WorldGoesOn ==
  ASSUME NEW w, Worldly(w), NEW p \in People, NEW x \in Persons, x.ops \subseteq x.in,
         \/ x.nick = w[p].nick
         \/ p # Me /\ \A q \in People \ {p} : ~Alike(FirstMapping, w[q].nick, x.nick),
         NEW v, Becomes(w, v, p, x)
  PROVE  Worldly(v) /\ Alone(w, v, p) /\ v[p] = x
<1>1. v \in [People -> Persons] /\ v[p] = x /\ \A q \in People : q # p => v[q] = w[q]
  BY DEF Worldly, Becomes
<1>2. \A a, b \in People : Alike(FirstMapping, v[a].nick, v[b].nick) => a = b
  BY <1>1 DEF Worldly, Alike
<1> QED BY <1>1, <1>2, RosterAssumption DEF Worldly, Alone

\* No nick changes, so who stays known is the same user.
LEMMA GoesOn ==
  ASSUME NEW s, NEW w, NEW L, Sound(s, w, L), NEW t, NEW v, NEW M, Sound(t, v, M), NEW p \in People,
         Follows(s, t), \A q \in People : v[q].nick = w[q].nick,
         \A q \in People : q # p => \A c \in DOMAIN t.channels :
           Present(v, M, q, c) => c \in DOMAIN s.channels /\ Present(w, L, q, c)
  PROVE  Goes(s, w, L, t, v, M, p)
<1>1. ASSUME NEW q \in People, Known(t, v, q), q # p PROVE Known(s, w, q)
  BY <1>1, KnownIs
<1> QED BY <1>1 DEF Goes, Follows, Known, IdOf

\* No store changes, and nobody's nick or channels.
LEMMA GoesNowhere ==
  ASSUME NEW s, NEW w, NEW L, Sound(s, w, L), NEW v, Worldly(v), NEW p \in People,
         \A q \in People : v[q].nick = w[q].nick /\ v[q].in = w[q].in
  PROVE  Sound(s, v, L) /\ Goes(s, w, L, s, v, L, p)
<1>1. \A q \in People : \A c : Present(v, L, q, c) <=> Present(w, L, q, c)
  BY DEF Present
<1>2. Sound(s, v, L)
  <2>1. DOMAIN s.channels = v[Me].in
    BY WeAreThere DEF Sound, Mirrors
  <2>2. ASSUME NEW c \in DOMAIN s.channels, NEW n
        PROVE  n \in DOMAIN s.channels[c] <=> \E q \in People : Present(v, L, q, c) /\ n = v[q].nick
    BY <1>1 DEF Sound, Mirrors
  <2> QED BY <2>1, <2>2 DEF Sound, Mirrors
<1>3. Follows(s, s)
  BY DEF Follows
<1> QED BY <1>1, <1>2, <1>3, GoesOn

\* The status on file stays right about those who stay where they are.
LEMMA OpsStay ==
  ASSUME NEW s, NEW w, NEW L, NEW t, NEW v, NEW M, NEW p, Goes(s, w, L, t, v, M, p),
         NEW o, OpsRight(s, w, L, o), NEW q \in People, NEW c \in DOMAIN t.channels, Present(v, M, q, c)
  PROVE  <<c, IdOf(t, v, q)>> \in o <=> c \in DOMAIN s.channels /\ c \in w[q].ops /\ <<q, c>> \notin L
<1>1. Known(t, v, q)
  BY KnownIs DEF Goes
<1>2. CASE Known(s, w, q)
  BY <1>1, <1>2, OpsWere DEF Goes
<1>3. CASE ~Known(s, w, q)
  <2>1. <<c, IdOf(t, v, q)>> \notin o
    BY <1>1, <1>3, OpsWere DEF Goes
  <2>2. ~(c \in DOMAIN s.channels /\ Present(w, L, q, c))
    BY <1>3, KnownIs DEF Goes
  <2> QED BY <2>1, <2>2 DEF Present, Goes, Sound, Worldly
<1> QED BY <1>2, <1>3

-----------------------------------------------------------------------------
(* The lines that only set fields.                                         *)

\* What of somebody changes without anybody's going anywhere.
Elsewise(x, q) == x \in Persons /\ x.nick = q.nick /\ x.in = q.in /\ x.ops = q.ops

\* Who is yet to be listed is where he was.
LEMMA SameListing ==
  ASSUME RosterInv, NEW p \in People, Alone(is, is', p), is'[p].in = is[p].in
  PROVE  Listing(is', listing)
<1>1. \A q \in People : is'[q].in = is[q].in
  BY DEF Alone
<1> QED BY <1>1, WeAreThere DEF RosterInv, Listing

\* We are told, and set what we are told as it is now.
LEMMA FieldTold ==
  ASSUME RosterInv, Upright', NEW p \in People, NEW x, Elsewise(x, is[p]), Becomes(is, is', p, x),
         NEW f, NEW what, Fields(p, f, what), NEW S, Sets(Record(is[p].nick), f, x, S), what \subseteq S,
         \A k \in Kept : k \notin S => x[k] = is[p][k]
  PROVE  RosterInv'
<1>1. Sound(store, is, listing)
  BY Before
<1>2. Worldly(is') /\ Alone(is, is', p) /\ is'[p] = x
  <2>1. Worldly(is)
    BY <1>1 DEF Sound
  <2>2. x \in Persons /\ x.ops \subseteq x.in /\ x.nick = is[p].nick
    BY <2>1 DEF Elsewise, Worldly
  <2> QED BY <2>1, <2>2, WorldGoesOn
<1>3. store' = store /\ listing' = listing
  BY DEF Fields
<1>4. Goes(store, is, listing, store', is', listing', p)
  BY <1>1, <1>2, <1>3, GoesNowhere DEF Elsewise, Alone
<1>5. Listing(is', listing')
  BY <1>2, <1>3, SameListing DEF Elsewise
<1>6. Right(f, is'[p], told[p] \cup what, Kept)
  <2>1. Right(Record(is[p].nick), is[p], told[p], Kept)
    BY RecordIsRight
  <2> QED BY <1>2, <2>1, RightAgain
<1>7. OpsRight(store, is, listing, ops)
  BY DEF RosterInv
<1>8. \A q \in People : \A c \in DOMAIN store'.channels : Present(is', listing', q, c) =>
        (<<c, IdOf(store', is', q)>> \in ops <=> c \in is'[q].ops /\ <<q, c>> \notin listing')
  BY <1>2, <1>3, <1>4, <1>7, OpsStay DEF Elsewise, Alone
<1>9. \A y \in ops : y = <<y[1], y[2]>>
  BY <1>1, <1>7, OpsWere
<1> QED BY <1>2, <1>4, <1>5, <1>6, <1>8, <1>9, LineLearned DEF Fields, Elsewise

\* We are not told, as we do not know them or what has changed is not kept.
LEMMA FieldUntold ==
  ASSUME RosterInv, Upright', NEW p \in People, NEW x, Elsewise(x, is[p]), Becomes(is, is', p, x),
         Unheard, ~Known(store, is, p) \/ \A k \in Kept : x[k] = is[p][k]
  PROVE  RosterInv'
<1>1. Sound(store, is, listing)
  BY Before
<1>2. Worldly(is') /\ Alone(is, is', p) /\ is'[p] = x
  <2>1. Worldly(is)
    BY <1>1 DEF Sound
  <2>2. x \in Persons /\ x.ops \subseteq x.in /\ x.nick = is[p].nick
    BY <2>1 DEF Elsewise, Worldly
  <2> QED BY <2>1, <2>2, WorldGoesOn
<1>3. Sound(store, is', listing)
  <2>1. \A q \in People : is'[q].nick = is[q].nick /\ is'[q].in = is[q].in
    BY <1>2 DEF Elsewise, Alone
  <2> QED BY <1>1, <1>2, <2>1, GoesNowhere
<1>4. Listing(is', listing)
  BY <1>2, SameListing DEF Elsewise
<1>5. ASSUME NEW q \in People
      PROVE  /\ Known(store, is', q) <=> Known(store, is, q)
             /\ Known(store, is, q) => /\ is'[q].nick = is[q].nick
                                       /\ \A k \in Kept : is'[q][k] = is[q][k]
             /\ \A c \in DOMAIN store.channels : c \in is'[q].ops <=> c \in is[q].ops
  BY <1>2 DEF Alone, Elsewise, Known
<1> QED BY <1>1, <1>3, <1>4, <1>5, NothingLearned

\* Who shares no channel with us, and is not us, is not known between lines.
LEMMA SharesIs ==
  ASSUME RosterInv, Heard, NEW p \in People, p # Me
  PROVE  Known(store, is, p) <=> Shares(p)
<1>1. Sound(store, is, listing)
  BY Before
<1>2. \A c : Present(is, listing, p, c) <=> c \in is[p].in
  BY DEF Present, Heard
<1> QED BY <1>1, <1>2, KnownIs DEF Shares, Ours

\* Which fields are kept.
LEMMA KeptAre ==
  /\ Kept \subseteq FieldNames
  /\ "account" \in Kept <=> "account-notify" \in caps
  /\ "away" \in Kept <=> "away-notify" \in caps
  /\ "host" \in Kept <=> "chghost" \in caps
  /\ "real" \in Kept <=> "setname" \in caps
  BY DEF Kept, FieldNames

\* What is so of somebody now.
LEMMA NowIs ==
  ASSUME RosterInv, NEW p \in People, NEW x, Becomes(is, is', p, x)
  PROVE  is'[p] = x
  BY DEF RosterInv, Worldly, Becomes

\* What is on file of somebody is of its type.
LEMMA RecordTyped ==
  ASSUME RosterInv, NEW p \in People
  PROVE  Record(is[p].nick) \in UserFields /\ is[p] \in Persons
  BY RecordIsRight, Before DEF Right

\* ACCOUNT.
LEMMA AccountLine ==
  ASSUME RosterInv, Upright', NEW p \in People, NEW a \in Accounts \cup {None}, LogsIn(p, a)
  PROVE  RosterInv'
<1> DEFINE x == [is[p] EXCEPT !.account = a]
           r == Record(is[p].nick)
<1>1. Becomes(is, is', p, x) /\ p # Me /\ Heard
  BY DEF LogsIn, Happens, Becomes
<1>2. /\ r \in UserFields /\ x \in Persons /\ Elsewise(x, is[p])
      /\ x.host = is[p].host /\ x.real = is[p].real /\ x.away = is[p].away
  BY RecordTyped DEF Persons, Elsewise
<1>3. is'[p] = x
  BY <1>1, NowIs
<1>4. CASE Shares(p) /\ "account-notify" \in caps
  <2> DEFINE g == Sourced(r, is'[p])
             f == SetAccount(g, Wire(is'[p], "*"))
  <2>1. Fields(p, f, {"host", "account"})
    BY <1>4 DEF LogsIn
  <2>2. Sets(r, g, x, {"host"}) /\ g \in UserFields
    BY <1>2, <1>3, SourcedSets DEF Sets
  <2>3. Sets(g, f, x, {"account"})
    BY <1>2, <1>3, <2>2, WiredSets
  <2> HIDE DEF f, g, r, x
  <2>4. Sets(r, f, x, {"host"} \cup {"account"})
    BY <2>2, <2>3, SetsBoth
  <2>5. \A k \in Kept : k \notin {"host"} \cup {"account"} => x[k] = is[p][k]
    BY <1>2, KeptAre DEF FieldNames
  <2> QED BY <1>1, <1>2, <2>1, <2>4, <2>5, FieldTold DEF r
<1>5. CASE ~(Shares(p) /\ "account-notify" \in caps)
  <2>1. Unheard
    BY <1>5 DEF LogsIn
  <2>2. ~Known(store, is, p) \/ \A k \in Kept : x[k] = is[p][k]
    BY <1>1, <1>2, <1>5, SharesIs, KeptAre DEF FieldNames
  <2> QED BY <1>1, <1>2, <2>1, <2>2, FieldUntold
<1> QED BY <1>4, <1>5

\* AWAY.
LEMMA AwayLine ==
  ASSUME RosterInv, Upright', NEW p \in People, GoesAway(p)
  PROVE  RosterInv'
<1> DEFINE x == [is[p] EXCEPT !.away = ~@]
           r == Record(is[p].nick)
<1>1. Becomes(is, is', p, x) /\ p # Me /\ Heard
  BY DEF GoesAway, Happens, Becomes
<1>2. /\ r \in UserFields /\ x \in Persons /\ Elsewise(x, is[p])
      /\ x.host = is[p].host /\ x.real = is[p].real /\ x.account = is[p].account
  BY RecordTyped DEF Persons, Elsewise
<1>3. is'[p] = x
  BY <1>1, NowIs
<1>4. CASE Shares(p) /\ "away-notify" \in caps
  <2> DEFINE g == Sourced(r, is'[p])
             f == [g EXCEPT !.away = is'[p].away]
  <2>1. Fields(p, f, {"host", "away"})
    BY <1>4 DEF GoesAway
  <2>2. Sets(r, g, x, {"host"}) /\ g \in UserFields
    BY <1>2, <1>3, SourcedSets DEF Sets
  <2>3. Sets(g, f, x, {"away"})
    BY <1>2, <1>3, <2>2, AwaySets
  <2> HIDE DEF f, g, r, x
  <2>4. Sets(r, f, x, {"host"} \cup {"away"})
    BY <2>2, <2>3, SetsBoth
  <2>5. \A k \in Kept : k \notin {"host"} \cup {"away"} => x[k] = is[p][k]
    BY <1>2, KeptAre DEF FieldNames
  <2> QED BY <1>1, <1>2, <2>1, <2>4, <2>5, FieldTold DEF r
<1>5. CASE ~(Shares(p) /\ "away-notify" \in caps)
  <2>1. Unheard
    BY <1>5 DEF GoesAway
  <2>2. ~Known(store, is, p) \/ \A k \in Kept : x[k] = is[p][k]
    BY <1>1, <1>2, <1>5, SharesIs, KeptAre DEF FieldNames
  <2> QED BY <1>1, <1>2, <2>1, <2>2, FieldUntold
<1> QED BY <1>4, <1>5

\* CHGHOST.
LEMMA HostLine ==
  ASSUME RosterInv, Upright', NEW p \in People, NEW h \in Hosts, ChangesHost(p, h)
  PROVE  RosterInv'
<1> DEFINE x == [is[p] EXCEPT !.host = h]
           r == Record(is[p].nick)
<1>1. Becomes(is, is', p, x) /\ p # Me /\ Heard
  BY DEF ChangesHost, Happens, Becomes
<1>2. /\ r \in UserFields /\ x \in Persons /\ Elsewise(x, is[p])
      /\ x.away = is[p].away /\ x.real = is[p].real /\ x.account = is[p].account
  BY RecordTyped DEF Persons, Elsewise
<1>3. is'[p] = x
  BY <1>1, NowIs
<1>4. CASE Shares(p) /\ "chghost" \in caps
  <2>1. Fields(p, Sourced(r, is'[p]), {"host"})
    BY <1>4 DEF ChangesHost
  <2>2. Sets(r, Sourced(r, is'[p]), x, {"host"})
    BY <1>2, <1>3, SourcedSets
  <2> HIDE DEF r, x
  <2>3. \A k \in Kept : k \notin {"host"} => x[k] = is[p][k]
    BY <1>2, KeptAre DEF FieldNames
  <2> QED BY <1>1, <1>2, <2>1, <2>2, <2>3, FieldTold DEF r
<1>5. CASE ~(Shares(p) /\ "chghost" \in caps)
  <2>1. Unheard
    BY <1>5 DEF ChangesHost
  <2>2. ~Known(store, is, p) \/ \A k \in Kept : x[k] = is[p][k]
    BY <1>1, <1>2, <1>5, SharesIs, KeptAre DEF FieldNames
  <2> QED BY <1>1, <1>2, <2>1, <2>2, FieldUntold
<1> QED BY <1>4, <1>5

\* SETNAME.
LEMMA NameLine ==
  ASSUME RosterInv, Upright', NEW p \in People, NEW n \in RealNames, SetsName(p, n)
  PROVE  RosterInv'
<1> DEFINE x == [is[p] EXCEPT !.real = n]
           r == Record(is[p].nick)
<1>1. Becomes(is, is', p, x) /\ p # Me /\ Heard
  BY DEF SetsName, Happens, Becomes
<1>2. /\ r \in UserFields /\ x \in Persons /\ Elsewise(x, is[p]) /\ x.real = n
      /\ x.away = is[p].away /\ x.host = is[p].host /\ x.account = is[p].account
  BY RecordTyped DEF Persons, Elsewise
<1>3. is'[p] = x
  BY <1>1, NowIs
<1>4. CASE Shares(p) /\ "setname" \in caps
  <2> DEFINE g == Sourced(r, is'[p])
             f == [g EXCEPT !.real = n]
  <2>1. Fields(p, f, {"host", "real"})
    BY <1>4 DEF SetsName
  <2>2. Sets(r, g, x, {"host"}) /\ g \in UserFields
    BY <1>2, <1>3, SourcedSets DEF Sets
  <2>3. Sets(g, f, x, {"real"})
    BY <1>2, <2>2, RealSets
  <2> HIDE DEF f, g, r, x
  <2>4. Sets(r, f, x, {"host"} \cup {"real"})
    BY <2>2, <2>3, SetsBoth
  <2>5. \A k \in Kept : k \notin {"host"} \cup {"real"} => x[k] = is[p][k]
    BY <1>2, KeptAre DEF FieldNames
  <2> QED BY <1>1, <1>2, <2>1, <2>4, <2>5, FieldTold DEF r
<1>5. CASE ~(Shares(p) /\ "setname" \in caps)
  <2>1. Unheard
    BY <1>5 DEF SetsName
  <2>2. ~Known(store, is, p) \/ \A k \in Kept : x[k] = is[p][k]
    BY <1>1, <1>2, <1>5, SharesIs, KeptAre DEF FieldNames
  <2> QED BY <1>1, <1>2, <2>1, <2>2, FieldUntold
<1> QED BY <1>4, <1>5

-----------------------------------------------------------------------------
(* The lines about status, and those that say who somebody is.             *)

\* A line after which everybody who is there has the status he had.
LEMMA LineGoesOn ==
  ASSUME RosterInv, Upright', NEW p \in People, Goes(store, is, listing, store', is', listing', p),
         Alone(is, is', p), Listing(is', listing'), NEW f, NEW what,
         Learns(p, is'[p].nick, f, what, ops),
         Known(store', is', p) => Right(f, is'[p], told[p] \cup what, Kept),
         \A q \in People : \A c \in DOMAIN store'.channels : Present(is', listing', q, c) =>
           (c \in is'[q].ops /\ <<q, c>> \notin listing' <=>
              c \in DOMAIN store.channels /\ c \in is[q].ops /\ <<q, c>> \notin listing)
  PROVE  RosterInv'
<1>1. OpsRight(store, is, listing, ops) /\ Sound(store, is, listing)
  BY Before DEF RosterInv
<1>2. \A y \in ops : y = <<y[1], y[2]>>
  BY <1>1, OpsWere
<1>3. \A q \in People : \A c \in DOMAIN store'.channels : Present(is', listing', q, c) =>
        (<<c, IdOf(store', is', q)>> \in ops <=> c \in is'[q].ops /\ <<q, c>> \notin listing')
  BY <1>1, OpsStay
<1> QED BY <1>2, <1>3, LineLearned

\* MODE.
LEMMA OpsLine ==
  ASSUME RosterInv, Upright', NEW p \in People, NEW c \in Chans, Ops(p, c)
  PROVE  RosterInv'
<1> DEFINE x == [is[p] EXCEPT !.ops = IF c \in @ THEN @ \ {c} ELSE @ \cup {c}]
<1>1. Becomes(is, is', p, x) /\ listing = {} /\ c \in is[p].in
  BY DEF Ops, Happens, Becomes, Heard
<1>2. Sound(store, is, listing) /\ Worldly(is) /\ OpsRight(store, is, listing, ops)
  BY Before DEF RosterInv
<1>3. /\ x \in Persons /\ x.nick = is[p].nick /\ x.in = is[p].in
      /\ x.ops = IF c \in is[p].ops THEN is[p].ops \ {c} ELSE is[p].ops \cup {c}
      /\ \A k \in FieldNames : x[k] = is[p][k]
  BY RecordTyped DEF Persons, FieldNames
<1> HIDE DEF x
<1>4. x.ops \subseteq x.in
  BY <1>1, <1>2, <1>3 DEF Worldly
<1>5. Worldly(is') /\ Alone(is, is', p) /\ is'[p] = x
  BY <1>1, <1>2, <1>3, <1>4, WorldGoesOn
<1>6. \A q \in People : is'[q].nick = is[q].nick /\ is'[q].in = is[q].in
  BY <1>3, <1>5 DEF Alone
<1>7. Sound(store, is', listing) /\ Goes(store, is, listing, store, is', listing, p)
  BY <1>2, <1>5, <1>6, GoesNowhere
<1>8. Listing(is', listing)
  BY <1>3, <1>5, SameListing
<1>9. CASE c \notin Ours
  <2>1. Unheard
    BY <1>9 DEF Ops
  <2>2. \A q \in People : /\ Known(store, is', q) <=> Known(store, is, q)
                          /\ \A k \in Kept : is'[q][k] = is[q][k]
                          /\ \A d \in DOMAIN store.channels : d \in is'[q].ops <=> d \in is[q].ops
    BY <1>3, <1>5, <1>6, <1>9, KeptAre DEF Alone, Ours, Known
  <2> QED BY <1>2, <1>6, <1>7, <1>8, <2>1, <2>2, NothingLearned
<1>10. CASE c \in Ours
  <2> DEFINE y == <<c, User(store, is[p].nick)>>
             status == IF c \in is'[p].ops THEN ops \cup {y} ELSE ops \ {y}
  <2>1. store' = store /\ listing' = listing /\ Learns(p, is[p].nick, Record(is[p].nick), {}, status)
    BY <1>10 DEF Ops
  <2>2. Known(store, is, p) /\ y = <<c, IdOf(store, is, p)>>
    <3>1. Present(is, listing, p, c) /\ c \in DOMAIN store.channels
      BY <1>1, <1>10 DEF Present, Ours
    <3> QED BY <1>2, <3>1, KnownIs, FoundIs
  <2>3. Right(Record(is[p].nick), is'[p], told[p] \cup {}, Kept)
    BY <1>3, <1>5, RecordIsRight, KeptAre DEF Right
  <2>4. \A z \in status : z = <<z[1], z[2]>>
    BY <1>2, OpsWere
  <2> HIDE DEF y
  <2>5. ASSUME NEW q \in People, NEW d \in DOMAIN store'.channels, Present(is', listing', q, d)
        PROVE  <<d, IdOf(store', is', q)>> \in status <=> d \in is'[q].ops /\ <<q, d>> \notin listing'
    <3>1. IdOf(store', is', q) = IdOf(store, is, q) /\ d \in DOMAIN store.channels /\ Known(store, is, q)
      <4>1. Present(is, listing, q, d)
        BY <1>6, <2>1, <2>5 DEF Present
      <4> QED BY <1>2, <1>6, <2>1, <4>1, KnownIs DEF IdOf
    <3>2. <<d, IdOf(store, is, q)>> \in ops <=> d \in is[q].ops
      <4>1. <<q, d>> \notin listing
        BY <1>1
      <4> QED BY <1>2, <3>1, <4>1, OpsWere
    <3>3. CASE q = p /\ d = c
      BY <3>1, <3>3, <1>1, <2>1, <2>2
    <3>4. CASE ~(q = p /\ d = c)
      <4>1. <<d, IdOf(store, is, q)>> # y
        BY <1>2, <2>2, <3>1, <3>4, KnownIs
      <4>2. d \in is'[q].ops <=> d \in is[q].ops
        BY <1>3, <1>5, <3>4 DEF Alone
      <4> QED BY <1>1, <2>1, <3>1, <3>2, <4>1, <4>2
    <3> QED BY <3>3, <3>4
  <2> HIDE DEF status
  <2>6. is'[p].nick = is[p].nick
    BY <1>6
  <2>7. /\ Goes(store, is, listing, store', is', listing', p) /\ Listing(is', listing')
    BY <1>7, <1>8, <2>1
  <2> QED BY <1>5, <2>1, <2>3, <2>4, <2>5, <2>6, <2>7, LineLearned
<1> QED BY <1>9, <1>10

\* 352 and 354.
LEMMA WhoLine ==
  ASSUME RosterInv, Upright', NEW p \in People, NEW c \in Chans \cup {None}, AnswersWho(p, c)
  PROVE  RosterInv'
<1> DEFINE n == is[p].nick
           r == Record(n)
           real == IF is[p].real = "" THEN {} ELSE {"real"}
           f == IF "whox" \in caps THEN SeenX(r, is'[p]) ELSE Seen(r, is'[p])
           what == {"host", "away"} \cup real \cup (IF "whox" \in caps THEN {"account"} ELSE {})
           status == IF HasUser(store, n) /\ "whox" \in caps /\ c \in is[p].ops \cap Ours
                          /\ Has(store.mapping, Members(store, c), n)
                     THEN ops \cup {<<c, User(store, n)>>} ELSE ops
<1>1. is' = is /\ listing' = listing /\ store' = store /\ listing = {}
  BY DEF AnswersWho, Heard
<1>2. Learns(p, n, f, what, status)
  BY DEF AnswersWho
<1>3. Sound(store, is, listing) /\ Worldly(is) /\ OpsRight(store, is, listing, ops) /\ Listing(is, listing)
  BY Before DEF RosterInv
<1>4. status = ops
  <2>1. ASSUME HasUser(store, n), c \in is[p].ops \cap Ours PROVE <<c, User(store, n)>> \in ops
    <3>1. Known(store, is, p) /\ User(store, n) = IdOf(store, is, p)
      BY <1>3, <2>1, FoundIs
    <3>2. c \in DOMAIN store.channels /\ c \in is[p].ops /\ <<p, c>> \notin listing
      BY <1>1, <2>1 DEF Ours
    <3> QED BY <1>3, <3>1, <3>2, OpsWere
  <2> QED BY <2>1
<1>5. Right(f, is'[p], told[p] \cup what, Kept)
  <2> DEFINE S == {"host", "away"} \cup real
  <2>1. Sets(r, Seen(r, is[p]), is[p], S) /\ Sets(r, SeenX(r, is[p]), is[p], S \cup {"account"})
    BY RecordTyped, SeenSets
  <2>2. Right(r, is[p], told[p], Kept)
    BY RecordIsRight
  <2> HIDE DEF S, r
  <2>3. CASE "whox" \in caps
    <3>1. what = S \cup {"account"} /\ f = SeenX(r, is[p])
      BY <1>1, <2>3 DEF S
    <3> HIDE DEF what, f
    <3> QED BY <1>1, <2>1, <2>2, <3>1, RightAgain
  <2>4. CASE "whox" \notin caps
    <3>1. what = S /\ f = Seen(r, is[p])
      BY <1>1, <2>4 DEF S
    <3> HIDE DEF what, f
    <3> QED BY <1>1, <2>1, <2>2, <3>1, RightAgain
  <2> QED BY <2>3, <2>4
<1> HIDE DEF f, what, status, r
<1>6. Alone(is, is', p) /\ Goes(store, is, listing, store', is', listing', p)
  BY <1>1, <1>3, GoesNowhere DEF Alone
<1>7. is'[p].nick = n /\ Listing(is', listing')
  BY <1>1, <1>3
<1>8. \A q \in People : \A d \in DOMAIN store'.channels : Present(is', listing', q, d) =>
        (d \in is'[q].ops /\ <<q, d>> \notin listing' <=>
           d \in DOMAIN store.channels /\ d \in is[q].ops /\ <<q, d>> \notin listing)
  BY <1>1
<1> QED BY <1>2, <1>4, <1>5, <1>6, <1>7, <1>8, LineGoesOn

\* PRIVMSG.
LEMMA SaysLine ==
  ASSUME RosterInv, Upright', NEW p \in People, NEW c, NEW tag, Says(p, c, tag)
  PROVE  RosterInv'
<1> DEFINE n == is[p].nick
           r == Record(n)
           f == Event(p, c, tag).user
           S == {"host"} \cup IF tag = None THEN {} ELSE {"account"}
<1>1. is' = is /\ listing' = listing /\ listing = {} /\ Speaks(n) /\ tag \in Tags(p)
  BY DEF Says, Heard, Messages
<1>2. Learns(p, n, f, S, ops)
  BY DEF Says
<1>3. /\ Sound(store, is, listing) /\ Worldly(is) /\ Listing(is, listing) /\ Stands(store)
      /\ Spelled(store, n)
  BY Before DEF RosterInv
<1>4. Right(f, is'[p], told[p] \cup S, Kept)
  <2>1. f = IF tag = None THEN Sourced(r, is[p]) ELSE SetAccount(Sourced(r, is[p]), tag)
    BY DEF Event
  <2>2. r \in UserFields /\ is[p] \in Persons
    BY RecordTyped
  <2> HIDE DEF f, r
  <2>3. Sets(r, f, is[p], S)
    BY <1>1, <2>1, <2>2, TaggedSets
  <2>4. Right(r, is[p], told[p], Kept)
    BY RecordIsRight DEF r
  <2> HIDE DEF S
  <2> QED BY <1>1, <2>3, <2>4, RightAgain
<1>5. Follows(store, store') /\ store'.channels = store.channels
  BY <1>1, <1>3, SpeaksFollows DEF Speaks
<1>6. Stands(store') /\ Company(store', {})
  BY DEF Upright, StoreInv, Stands
<1>7. Sound(store', is', listing')
  BY <1>1, <1>3, <1>5, <1>6 DEF Sound, Mirrors, Follows
<1>8. Goes(store, is, listing, store', is', listing', p)
  BY <1>1, <1>3, <1>5, <1>7, GoesOn
<1> HIDE DEF f, S
<1>9. is'[p].nick = n /\ Listing(is', listing') /\ Alone(is, is', p)
  BY <1>1, <1>3 DEF Alone
<1>10. \A q \in People : \A d \in DOMAIN store'.channels : Present(is', listing', q, d) =>
        (d \in is'[q].ops /\ <<q, d>> \notin listing' <=>
           d \in DOMAIN store.channels /\ d \in is[q].ops /\ <<q, d>> \notin listing)
  BY <1>1, <1>5
<1> QED BY <1>2, <1>4, <1>8, <1>9, <1>10, LineGoesOn

-----------------------------------------------------------------------------
(* The lines about who is where.                                           *)

\* Somebody is there who was not, and the store has him.
LEMMA Entered ==
  ASSUME NEW s, NEW w, NEW L, Sound(s, w, L), NEW t, Stands(t), Company(t, {}), Follows(s, t),
         NEW v, Worldly(v), \A q \in People : v[q].nick = w[q].nick, v[Me].in = w[Me].in, NEW M,
         NEW p \in People, NEW c, DOMAIN t.channels = DOMAIN s.channels,
         \A d \in DOMAIN s.channels :
           DOMAIN t.channels[d] = DOMAIN s.channels[d] \cup IF d = c THEN {w[p].nick} ELSE {},
         \A q \in People : \A d \in DOMAIN s.channels :
           Present(v, M, q, d) <=> Present(w, L, q, d) \/ (q = p /\ d = c)
  PROVE  Goes(s, w, L, t, v, M, p)
<1>1. ASSUME NEW d \in DOMAIN s.channels, NEW n
      PROVE  n \in DOMAIN t.channels[d] <=> \E q \in People : Present(v, M, q, d) /\ n = v[q].nick
  <2>1. n \in DOMAIN s.channels[d] <=> \E q \in People : Present(w, L, q, d) /\ n = w[q].nick
    BY DEF Sound, Mirrors
  <2> QED BY <2>1
<1>2. Mirrors(t, v, M)
  BY <1>1 DEF Mirrors, Sound, Follows
<1>3. Sound(t, v, M)
  BY <1>2 DEF Sound
<1> QED BY <1>3, GoesOn

\* Somebody is not there who was, in the channels C, and the store has him no more.
LEMMA Left ==
  ASSUME NEW s, NEW w, NEW L, Sound(s, w, L), NEW t, Stands(t), Company(t, {}), Follows(s, t),
         NEW v, Worldly(v), \A q \in People : v[q].nick = w[q].nick, v[Me].in = w[Me].in, NEW M,
         NEW p \in People, NEW C, DOMAIN t.channels = DOMAIN s.channels,
         \A d \in DOMAIN s.channels :
           DOMAIN t.channels[d] = DOMAIN s.channels[d] \ IF d \in C THEN {w[p].nick} ELSE {},
         \A q \in People : \A d \in DOMAIN s.channels :
           Present(v, M, q, d) <=> Present(w, L, q, d) /\ ~(q = p /\ d \in C)
  PROVE  Goes(s, w, L, t, v, M, p)
<1>0. \A a, b \in People : w[a].nick = w[b].nick => a = b
  BY KnownIs
<1>1. ASSUME NEW d \in DOMAIN s.channels, NEW n
      PROVE  n \in DOMAIN t.channels[d] <=> \E q \in People : Present(v, M, q, d) /\ n = v[q].nick
  <2>1. n \in DOMAIN s.channels[d] <=> \E q \in People : Present(w, L, q, d) /\ n = w[q].nick
    BY DEF Sound, Mirrors
  <2> QED BY <1>0, <2>1
<1>2. Mirrors(t, v, M)
  BY <1>1 DEF Mirrors, Sound, Follows
<1>3. Sound(t, v, M)
  BY <1>2 DEF Sound
<1> QED BY <1>3, GoesOn

\* What nobody in our channels sees.
LEMMA Unseen ==
  ASSUME NEW s, NEW w, NEW L, Sound(s, w, L), NEW v, Worldly(v), v[Me].in = w[Me].in,
         \A q \in People : \A d \in DOMAIN s.channels :
           /\ Present(v, L, q, d) <=> Present(w, L, q, d)
           /\ Present(w, L, q, d) => v[q].nick = w[q].nick
  PROVE  /\ Sound(s, v, L)
         /\ \A q \in People : /\ Known(s, v, q) <=> Known(s, w, q)
                              /\ Known(s, w, q) => v[q].nick = w[q].nick
<1>1. ASSUME NEW d \in DOMAIN s.channels, NEW n
      PROVE  n \in DOMAIN s.channels[d] <=> \E q \in People : Present(v, L, q, d) /\ n = v[q].nick
  <2>1. n \in DOMAIN s.channels[d] <=> \E q \in People : Present(w, L, q, d) /\ n = w[q].nick
    BY DEF Sound, Mirrors
  <2> QED BY <2>1
<1>2. Sound(s, v, L)
  BY <1>1 DEF Mirrors, Sound
<1>3. v[Me].nick = w[Me].nick
  BY DEF Sound, Worldly
<1> QED BY <1>2, <1>3, KnownIs

\* What is on file of somebody is right after a line that says nothing of him.
LEMMA RecordStays ==
  ASSUME RosterInv, NEW p \in People, \A k \in FieldNames : is'[p][k] = is[p][k]
  PROVE  Right(Record(is[p].nick), is'[p], told[p] \cup {}, Kept)
  BY RecordIsRight, KeptAre DEF Right

\* 353.
LEMMA ListsLine ==
  ASSUME RosterInv, Upright', NEW p \in People, NEW c \in Chans, Lists(p, c)
  PROVE  RosterInv'
<1> DEFINE n == is[p].nick
           r == Record(n)
           f == Listed(r, is'[p])
           y == <<c, User(store', n)>>
           status == ops \cup IF c \in is[p].ops THEN {y} ELSE {}
<1>1. is' = is /\ listing' = listing \ {<<p, c>>} /\ <<p, c>> \in listing /\ Names(n, c)
  BY DEF Lists
<1>2. Learns(p, n, f, {}, status)
  BY DEF Lists
<1>3. /\ Sound(store, is, listing) /\ Worldly(is) /\ Stands(store) /\ OpsRight(store, is, listing, ops)
      /\ Spelled(store, n) /\ OneSpelling(store) /\ Listing(is, listing)
  BY Before DEF RosterInv
<1>4. c \in is[p].in /\ c \in is[Me].in
  BY <1>1, <1>3 DEF Listing
<1>5. Right(f, is'[p], told[p] \cup {}, Kept)
  <2>1. r \in UserFields /\ is[p] \in Persons /\ Right(r, is[p], told[p], Kept)
    BY RecordTyped, RecordIsRight
  <2>2. CASE "userhost-in-names" \in caps
    <3>1. f = Sourced(r, is[p])
      BY <1>1, <2>2 DEF Listed
    <3>2. Sets(r, f, is[p], {"host"})
      BY <2>1, <3>1, SourcedSets
    <3> HIDE DEF r, f
    <3> QED BY <1>1, <2>1, <3>2, RightAgain
  <2>3. CASE "userhost-in-names" \notin caps
    BY <1>1, <2>1, <2>3 DEF Listed, Right
  <2> QED BY <2>2, <2>3
<1> HIDE DEF f
<1>6. /\ Follows(store, store') /\ DOMAIN store'.channels = DOMAIN store.channels
      /\ \A d \in DOMAIN store.channels :
           DOMAIN store'.channels[d] = DOMAIN store.channels[d] \cup IF d = c THEN {n} ELSE {}
  <2>1. HasChannel(store, c) /\ store' = AddMember(GetOrCreateUser(store, n), c, n)
    BY <1>1 DEF Names
  <2> QED BY <1>3, <2>1, NamesFollows DEF Stands
<1>7. \A q \in People : \A d : <<q, d>> \in listing' <=> <<q, d>> \in listing /\ ~(q = p /\ d = c)
  BY <1>1
<1>8. Goes(store, is, listing, store', is', listing', p)
  <2>1. \A q \in People : \A d \in DOMAIN store.channels :
          Present(is', listing', q, d) <=> Present(is, listing, q, d) \/ (q = p /\ d = c)
    BY <1>1, <1>4, <1>7 DEF Present
  <2>2. Stands(store') /\ Company(store', {})
    BY DEF Upright, StoreInv, Stands
  <2>3. Worldly(is') /\ is'[Me].in = is[Me].in /\ \A q \in People : is'[q].nick = is[q].nick
    BY <1>1, <1>3
  <2> QED BY <1>3, <1>6, <2>1, <2>2, <2>3, Entered
<1>9. is'[p].nick = n /\ Listing(is', listing') /\ Alone(is, is', p)
  BY <1>1, <1>3 DEF Alone, Listing
<1>10. Known(store', is', p) /\ User(store', n) = IdOf(store', is', p) /\ Present(is', listing', p, c)
  <2>1. Present(is', listing', p, c) /\ c \in DOMAIN store'.channels
    BY <1>1, <1>3, <1>4, <1>6, <1>7 DEF Present, Sound, Mirrors
  <2> QED BY <1>8, <1>9, <2>1, KnownIs, FoundIs DEF Goes
<1>11. \A z \in status : z = <<z[1], z[2]>>
  BY <1>3, OpsWere
<1>12. ASSUME NEW q \in People, NEW d \in DOMAIN store'.channels, Present(is', listing', q, d)
       PROVE  <<d, IdOf(store', is', q)>> \in status <=> d \in is'[q].ops /\ <<q, d>> \notin listing'
  <2>1. <<d, IdOf(store', is', q)>> \in ops <=> d \in is[q].ops /\ <<q, d>> \notin listing
    BY <1>3, <1>6, <1>8, <1>12, OpsStay
  <2>2. CASE q = p /\ d = c
    BY <1>1, <1>7, <1>10, <2>1, <2>2
  <2>3. CASE ~(q = p /\ d = c)
    <3>1. Known(store', is', q)
      BY <1>8, <1>12, KnownIs DEF Goes
    <3>2. <<d, IdOf(store', is', q)>> # y
      BY <1>8, <1>10, <2>3, <3>1, KnownIs DEF Goes
    <3> QED BY <1>1, <1>7, <2>1, <2>3, <3>2
  <2> QED BY <2>2, <2>3
<1> HIDE DEF status
<1> QED BY <1>2, <1>5, <1>8, <1>9, <1>11, <1>12, LineLearned

\* JOIN of somebody else.
LEMMA JoinsLine ==
  ASSUME RosterInv, Upright', NEW p \in People, NEW c \in Chans, Joins(p, c)
  PROVE  RosterInv'
<1> DEFINE n == is[p].nick
           x == [is[p] EXCEPT !.in = @ \cup {c}]
           r == Record(n)
<1>1. Becomes(is, is', p, x) /\ p # Me /\ listing = {} /\ c \notin is[p].in
  BY DEF Joins, Happens, Becomes, Heard
<1>2. /\ x \in Persons /\ x.nick = is[p].nick /\ x.in = is[p].in \cup {c} /\ x.ops = is[p].ops
      /\ \A k \in FieldNames : x[k] = is[p][k]
  BY RecordTyped DEF Persons, FieldNames
<1> HIDE DEF x
<1>3. /\ Sound(store, is, listing) /\ Worldly(is) /\ Stands(store) /\ Spelled(store, n)
      /\ OneSpelling(store) /\ ~IsSelf(store, n)
  BY <1>1, Before DEF RosterInv
<1>4. Worldly(is') /\ Alone(is, is', p) /\ is'[p] = x
  BY <1>1, <1>2, <1>3, WorldGoesOn DEF Worldly
<1>5. (\A q \in People : is'[q].nick = is[q].nick /\ is'[q].ops = is[q].ops) /\ is'[Me] = is[Me]
  BY <1>1, <1>2, <1>4, WeAreThere DEF Alone
<1>6. CASE c \notin Ours
  <2>1. Unheard
    BY <1>6 DEF Joins
  <2>2. \A q \in People : \A d \in DOMAIN store.channels : Present(is', listing, q, d) <=> Present(is, listing, q, d)
    BY <1>2, <1>4, <1>6 DEF Present, Alone, Ours
  <2>3. Sound(store, is', listing) /\ \A q \in People : Known(store, is', q) <=> Known(store, is, q)
    BY <1>3, <1>4, <1>5, <2>2, Unseen
  <2>4. \A q \in People : \A k \in Kept : is'[q][k] = is[q][k]
    BY <1>2, <1>4, KeptAre DEF Alone
  <2>5. Listing(is', listing)
    BY <1>1 DEF Listing
  <2> QED BY <1>3, <1>5, <2>1, <2>3, <2>4, <2>5, NothingLearned
<1>7. CASE c \in Ours
  <2> DEFINE notified == "away-notify" \in caps
             g == Joined(r, is'[p])
             f == IF notified /\ is[p].away THEN [g EXCEPT !.away = TRUE] ELSE g
             what == {"host"} \cup (IF notified THEN {"away"} ELSE {})
                       \cup (IF "extended-join" \in caps THEN {"account", "real"} ELSE {})
             S == {"host"} \cup IF "extended-join" \in caps THEN {"account", "real"} ELSE {}
  <2>1. Join(n, c) /\ listing' = listing /\ Learns(p, n, f, what, ops)
    BY <1>7 DEF Joins
  <2>2. /\ Follows(store, store') /\ DOMAIN store'.channels = DOMAIN store.channels
        /\ \A d \in DOMAIN store.channels :
             DOMAIN store'.channels[d] = DOMAIN store.channels[d] \cup IF d = c THEN {n} ELSE {}
    <3>1. HasChannel(store, c) /\ store' = AddMember(GetOrCreateUser(store, n), c, n)
      BY <1>3, <2>1 DEF Join
    <3> QED BY <1>3, <3>1, NamesFollows DEF Stands
  <2>3. Goes(store, is, listing, store', is', listing', p)
    <3>1. \A q \in People : \A d \in DOMAIN store.channels :
            Present(is', listing', q, d) <=> Present(is, listing, q, d) \/ (q = p /\ d = c)
      BY <1>1, <1>2, <1>4, <2>1 DEF Present, Alone
    <3>2. Stands(store') /\ Company(store', {})
      BY DEF Upright, StoreInv, Stands
    <3> QED BY <1>3, <1>4, <1>5, <2>2, <3>1, <3>2, Entered
  <2>4. Right(f, is'[p], told[p] \cup what, Kept)
    <3>1. r \in UserFields /\ Right(r, is[p], told[p], Kept)
      BY RecordTyped, RecordIsRight
    <3>2. Sets(r, g, x, S) /\ g \in UserFields
      BY <1>2, <1>4, <3>1, JoinedSets DEF Sets
    <3>3. CASE notified
      <4>1. notified /\ ~is[p].away => r.away = FALSE
        BY <3>1, <3>3, KeptAre DEF Right, Blank
      <4>2. is[p].away \in BOOLEAN /\ x.away = is[p].away
        BY <1>2, RecordTyped DEF Persons, FieldNames
      <4>3. g.away = r.away
        BY <3>2 DEF Sets, FieldNames
      <4>4. f.away = is[p].away /\ f \in UserFields /\ \A k \in FieldNames : k # "away" => f[k] = g[k]
        BY <3>2, <3>3, <4>1, <4>2, <4>3 DEF UserFields, FieldNames
      <4> HIDE DEF f, g, r
      <4>5. Sets(g, f, x, {"away"})
        BY <4>2, <4>4 DEF Sets, FieldNames
      <4>6. Sets(r, f, x, S \cup {"away"})
        BY <3>2, <4>5, SetsBoth
      <4>7. what \subseteq S \cup {"away"}
        OBVIOUS
      <4> HIDE DEF S, what
      <4> QED BY <1>2, <1>4, <3>1, <4>6, <4>7, RightAgain, KeptAre
    <3>4. CASE ~notified
      <4>1. f = g /\ what = S
        BY <3>4
      <4> HIDE DEF f, g, r, S, what
      <4> QED BY <1>2, <1>4, <3>1, <3>2, <4>1, RightAgain, KeptAre
    <3> QED BY <3>3, <3>4
  <2> HIDE DEF f, what
  <2>5. is'[p].nick = n /\ Listing(is', listing')
    BY <1>1, <1>5, <2>1 DEF Listing
  <2>6. \A q \in People : \A d \in DOMAIN store'.channels : Present(is', listing', q, d) =>
          (d \in is'[q].ops /\ <<q, d>> \notin listing' <=>
             d \in DOMAIN store.channels /\ d \in is[q].ops /\ <<q, d>> \notin listing)
    BY <1>5, <2>1, <2>2
  <2> QED BY <1>4, <2>1, <2>3, <2>4, <2>5, <2>6, LineGoesOn
<1> QED BY <1>6, <1>7

\* PART of somebody else.
LEMMA DepartsLine ==
  ASSUME RosterInv, Upright', NEW p \in People, NEW c \in Chans, Departs(p, c)
  PROVE  RosterInv'
<1> DEFINE n == is[p].nick
           x == [is[p] EXCEPT !.in = @ \ {c}, !.ops = @ \ {c}]
<1>1. Becomes(is, is', p, x) /\ p # Me /\ listing = {}
  BY DEF Departs, Happens, Becomes, Heard
<1>2. /\ x \in Persons /\ x.nick = is[p].nick /\ x.in = is[p].in \ {c} /\ x.ops = is[p].ops \ {c}
      /\ \A k \in FieldNames : x[k] = is[p][k]
  BY RecordTyped DEF Persons, FieldNames
<1> HIDE DEF x
<1>3. /\ Sound(store, is, listing) /\ Worldly(is) /\ Stands(store) /\ Spelled(store, n)
      /\ OneSpelling(store) /\ ~IsSelf(store, n)
  BY <1>1, Before DEF RosterInv
<1>4. Worldly(is') /\ Alone(is, is', p) /\ is'[p] = x
  <2>1. x.ops \subseteq x.in
    BY <1>2, <1>3 DEF Worldly
  <2> QED BY <1>1, <1>2, <1>3, <2>1, WorldGoesOn
<1>5. (\A q \in People : is'[q].nick = is[q].nick) /\ is'[Me] = is[Me]
  BY <1>1, <1>2, <1>4, WeAreThere DEF Alone
<1>6. CASE c \notin Ours
  <2>1. Unheard
    BY <1>6 DEF Departs
  <2>2. \A q \in People : \A d \in DOMAIN store.channels : Present(is', listing, q, d) <=> Present(is, listing, q, d)
    BY <1>2, <1>4, <1>6 DEF Present, Alone, Ours
  <2>3. Sound(store, is', listing) /\ \A q \in People : Known(store, is', q) <=> Known(store, is, q)
    BY <1>3, <1>4, <1>5, <2>2, Unseen
  <2>4. \A q \in People : /\ \A k \in Kept : is'[q][k] = is[q][k]
                          /\ \A d \in DOMAIN store.channels : d \in is'[q].ops <=> d \in is[q].ops
    BY <1>2, <1>4, <1>6, KeptAre DEF Alone, Ours
  <2>5. Listing(is', listing)
    BY <1>1 DEF Listing
  <2> QED BY <1>3, <1>5, <2>1, <2>3, <2>4, <2>5, NothingLearned
<1>7. CASE c \in Ours
  <2>1. Part(n, c) /\ listing' = listing /\ Learns(p, n, Record(n), {}, ops)
    BY <1>7 DEF Departs
  <2>2. /\ Follows(store, store') /\ DOMAIN store'.channels = DOMAIN store.channels
        /\ \A d \in DOMAIN store.channels :
             DOMAIN store'.channels[d] = DOMAIN store.channels[d] \ IF d = c THEN {n} ELSE {}
    <3>1. store' = Leaves(GetOrCreateUser(store, n), n, c)
      BY <2>1 DEF Part
    <3> QED BY <1>3, <1>7, <3>1, PartFollows DEF Ours
  <2>3. Goes(store, is, listing, store', is', listing', p)
    <3>1. \A q \in People : \A d \in DOMAIN store.channels :
            Present(is', listing', q, d) <=> Present(is, listing, q, d) /\ ~(q = p /\ d \in {c})
      BY <1>1, <1>2, <1>4, <2>1 DEF Present, Alone
    <3>2. Stands(store') /\ Company(store', {})
      BY DEF Upright, StoreInv, Stands
    <3>3. \A d \in DOMAIN store.channels :
            DOMAIN store'.channels[d] = DOMAIN store.channels[d] \ IF d \in {c} THEN {n} ELSE {}
      BY <2>2
    <3> QED BY <1>3, <1>4, <1>5, <2>2, <3>1, <3>2, <3>3, Left
  <2>4. Right(Record(n), is'[p], told[p] \cup {}, Kept)
    BY <1>2, <1>4, RecordStays
  <2>5. is'[p].nick = n /\ Listing(is', listing')
    BY <1>1, <1>5, <2>1 DEF Listing
  <2>6. \A q \in People : \A d \in DOMAIN store'.channels : Present(is', listing', q, d) =>
          (d \in is'[q].ops /\ <<q, d>> \notin listing' <=>
             d \in DOMAIN store.channels /\ d \in is[q].ops /\ <<q, d>> \notin listing)
    BY <1>2, <1>4, <2>1, <2>2 DEF Alone, Present
  <2> QED BY <1>4, <2>1, <2>3, <2>4, <2>5, <2>6, LineGoesOn
<1> QED BY <1>6, <1>7

\* QUIT of somebody else.
LEMMA QuitsLine ==
  ASSUME RosterInv, Upright', NEW p \in People, Quits(p)
  PROVE  RosterInv'
<1> DEFINE n == is[p].nick
           x == [is[p] EXCEPT !.in = {}, !.ops = {}]
<1>1. Becomes(is, is', p, x) /\ p # Me /\ listing = {} /\ Heard
  BY DEF Quits, Happens, Becomes, Heard
<1>2. /\ x \in Persons /\ x.nick = is[p].nick /\ x.in = {} /\ x.ops = {}
      /\ \A k \in FieldNames : x[k] = is[p][k]
  BY RecordTyped DEF Persons, FieldNames
<1> HIDE DEF x
<1>3. /\ Sound(store, is, listing) /\ Worldly(is) /\ Stands(store) /\ Spelled(store, n)
  BY <1>1, Before DEF RosterInv
<1>4. Worldly(is') /\ Alone(is, is', p) /\ is'[p] = x
  BY <1>1, <1>2, <1>3, WorldGoesOn DEF Worldly
<1>5. (\A q \in People : is'[q].nick = is[q].nick) /\ is'[Me] = is[Me]
  BY <1>1, <1>2, <1>4, WeAreThere DEF Alone
<1>6. CASE ~Shares(p)
  <2>1. Unheard
    BY <1>6 DEF Quits
  <2>2. \A q \in People : \A d \in DOMAIN store.channels : Present(is', listing, q, d) <=> Present(is, listing, q, d)
    BY <1>2, <1>4, <1>6 DEF Present, Alone, Ours, Shares
  <2>3. Sound(store, is', listing) /\ \A q \in People : Known(store, is', q) <=> Known(store, is, q)
    BY <1>3, <1>4, <1>5, <2>2, Unseen
  <2>4. \A q \in People : /\ \A k \in Kept : is'[q][k] = is[q][k]
                          /\ \A d \in DOMAIN store.channels : d \in is'[q].ops <=> d \in is[q].ops
    BY <1>2, <1>3, <1>4, <1>6, KeptAre DEF Alone, Ours, Shares, Worldly
  <2>5. Listing(is', listing)
    BY <1>1 DEF Listing
  <2> QED BY <1>3, <1>5, <2>1, <2>3, <2>4, <2>5, NothingLearned
<1>7. CASE Shares(p)
  <2>1. Quit(n) /\ listing' = listing /\ Learns(p, n, Blank, {}, ops)
    BY <1>7 DEF Quits
  <2>2. /\ Follows(store, store') /\ DOMAIN store'.channels = DOMAIN store.channels
        /\ \A d \in DOMAIN store.channels : DOMAIN store'.channels[d] = DOMAIN store.channels[d] \ {n}
    BY <1>3, <2>1, QuitFollows DEF Quit
  <2>3. Goes(store, is, listing, store', is', listing', p)
    <3> DEFINE C == DOMAIN store.channels
    <3>1. \A q \in People : \A d \in DOMAIN store.channels :
            Present(is', listing', q, d) <=> Present(is, listing, q, d) /\ ~(q = p /\ d \in C)
      BY <1>1, <1>2, <1>4, <2>1 DEF Present, Alone
    <3>2. Stands(store') /\ Company(store', {})
      BY DEF Upright, StoreInv, Stands
    <3>3. \A d \in DOMAIN store.channels :
            DOMAIN store'.channels[d] = DOMAIN store.channels[d] \ IF d \in C THEN {n} ELSE {}
      BY <2>2
    <3> HIDE DEF C
    <3> QED BY <1>3, <1>4, <1>5, <2>2, <3>1, <3>2, <3>3, Left
  <2>4. ~Known(store', is', p)
    BY <1>1, <1>2, <1>4, <2>3, KnownIs DEF Goes, Present
  <2>5. is'[p].nick = n /\ Listing(is', listing')
    BY <1>1, <1>5, <2>1 DEF Listing
  <2>6. \A q \in People : \A d \in DOMAIN store'.channels : Present(is', listing', q, d) =>
          (d \in is'[q].ops /\ <<q, d>> \notin listing' <=>
             d \in DOMAIN store.channels /\ d \in is[q].ops /\ <<q, d>> \notin listing)
    BY <1>2, <1>4, <2>1, <2>2 DEF Alone, Present
  <2> QED BY <1>4, <2>1, <2>3, <2>4, <2>5, <2>6, LineGoesOn
<1> QED BY <1>6, <1>7

\* NICK of somebody else.
LEMMA RenamesLine ==
  ASSUME RosterInv, Upright', NEW p \in People, NEW n \in Nicks, Renames(p, n)
  PROVE  RosterInv'
<1> DEFINE old == is[p].nick
           x == [is[p] EXCEPT !.nick = n]
<1>1. /\ Becomes(is, is', p, x) /\ p # Me /\ listing = {} /\ Heard /\ n # old
      /\ \A q \in People \ {p} : ~Alike(store.mapping, is[q].nick, n)
  BY DEF Renames, Happens, Becomes, Heard
<1>2. /\ x \in Persons /\ x.nick = n /\ x.in = is[p].in /\ x.ops = is[p].ops
      /\ \A k \in FieldNames : x[k] = is[p][k]
  BY RecordTyped DEF Persons, FieldNames
<1> HIDE DEF x
<1>3. /\ Sound(store, is, listing) /\ Worldly(is) /\ Stands(store) /\ ~IsSelf(store, old)
      /\ store.mapping = FirstMapping
  BY <1>1, Before DEF RosterInv, Mirrors
<1>4. Worldly(is') /\ Alone(is, is', p) /\ is'[p] = x
  <2>1. x.ops \subseteq x.in
    BY <1>2, <1>3 DEF Worldly
  <2>2. \A q \in People \ {p} : ~Alike(FirstMapping, is[q].nick, x.nick)
    BY <1>1, <1>2, <1>3
  <2> QED BY <1>1, <1>2, <1>3, <2>1, <2>2, WorldGoesOn
<1>5. /\ \A q \in People : is'[q].in = is[q].in /\ is'[q].ops = is[q].ops
      /\ is'[Me] = is[Me]
  BY <1>1, <1>2, <1>4, WeAreThere DEF Alone
<1>6. Listing(is', listing)
  BY <1>1 DEF Listing
<1>7. CASE ~Shares(p)
  <2>1. Unheard
    BY <1>7 DEF Renames
  <2>2. \A q \in People : \A d \in DOMAIN store.channels :
          /\ Present(is', listing, q, d) <=> Present(is, listing, q, d)
          /\ Present(is, listing, q, d) => is'[q].nick = is[q].nick
    BY <1>4, <1>5, <1>7 DEF Present, Alone, Ours, Shares
  <2>3. /\ Sound(store, is', listing)
        /\ \A q \in People : /\ Known(store, is', q) <=> Known(store, is, q)
                             /\ Known(store, is, q) => is'[q].nick = is[q].nick
    BY <1>3, <1>4, <1>5, <2>2, Unseen
  <2>4. \A q \in People : \A k \in Kept : is'[q][k] = is[q][k]
    BY <1>2, <1>4, KeptAre DEF Alone
  <2> QED BY <1>3, <1>5, <1>6, <2>1, <2>3, <2>4, NothingLearned
<1>8. CASE Shares(p)
  <2>1. Nick(old, n) /\ listing' = listing /\ Learns(p, n, Record(old), {}, ops)
    BY <1>8 DEF Renames
  <2>2. old \in DOMAIN store.users
    BY <1>1, <1>8, SharesIs DEF Known
  <2>3. \A j \in DOMAIN store.users : j # old => ~Alike(store.mapping, j, n)
    BY <1>1, <1>3, KnownIs
  <2>4. Renamed(store, store', old, n)
    BY <1>3, <2>1, <2>2, <2>3, NickFollows DEF Nick
  <2>5. Stands(store') /\ Company(store', {})
    BY DEF Upright, StoreInv, Stands
  <2>6. \A a, b \in People : is[a].nick = is[b].nick => a = b
    BY <1>3, KnownIs
  <2>7. \A q \in People : q # p => is'[q].nick = is[q].nick /\ is[q].nick # n /\ is[q].nick # old
    BY <1>1, <1>4, <2>6 DEF Alone, Alike
  <2>8. Mirrors(store', is', listing')
    <3>1. /\ store'.mapping = FirstMapping /\ store'.nick = FirstNick
          /\ DOMAIN store'.channels = is'[Me].in /\ DOMAIN store'.channels = DOMAIN store.channels
      BY <1>3, <1>5, <2>4 DEF Renamed, Sound, Mirrors
    <3>2. ASSUME NEW d \in DOMAIN store'.channels, NEW j
          PROVE  j \in DOMAIN store'.channels[d] <=> \E q \in People : Present(is', listing', q, d) /\ j = is'[q].nick
      <4>1. \A k : k \in DOMAIN store.channels[d] <=> \E q \in People : Present(is, listing, q, d) /\ k = is[q].nick
        BY <1>3, <3>1 DEF Sound, Mirrors
      <4>2. j \in DOMAIN store'.channels[d] <=> \/ j = n /\ old \in DOMAIN store.channels[d]
                                                \/ j \in DOMAIN store.channels[d] /\ j # old
        BY <2>4, <3>1 DEF Renamed
      <4>3. \A q \in People : Present(is', listing', q, d) <=> Present(is, listing, q, d)
        BY <1>5, <2>1 DEF Present
      <4>4. is'[p].nick = n
        BY <1>2, <1>4
      <4> QED BY <2>6, <2>7, <4>1, <4>2, <4>3, <4>4
    <3> QED BY <3>1, <3>2 DEF Mirrors
  <2>9. Goes(store, is, listing, store', is', listing', p)
    <3>1. Sound(store', is', listing')
      BY <1>4, <2>5, <2>8 DEF Sound
    <3>2. ASSUME NEW q \in People, Known(store', is', q)
          PROVE  Known(store, is, q) /\ IdOf(store', is', q) = IdOf(store, is, q)
      <4>1. CASE q = p
        BY <1>2, <1>4, <2>2, <2>4, <4>1 DEF Known, IdOf, Renamed, Moved
      <4>2. CASE q # p
        BY <2>4, <2>7, <3>2, <4>2 DEF Known, IdOf, Renamed, Moved
      <4> QED BY <4>1, <4>2
    <3> QED BY <1>3, <3>1, <3>2 DEF Goes
  <2>10. Right(Record(old), is'[p], told[p] \cup {}, Kept)
    BY <1>2, <1>4, RecordStays
  <2>11. is'[p].nick = n /\ Listing(is', listing')
    BY <1>2, <1>4, <1>6, <2>1
  <2>12. \A q \in People : \A d \in DOMAIN store'.channels : Present(is', listing', q, d) =>
          (d \in is'[q].ops /\ <<q, d>> \notin listing' <=>
             d \in DOMAIN store.channels /\ d \in is[q].ops /\ <<q, d>> \notin listing)
    BY <1>5, <2>1, <2>4 DEF Renamed
  <2> QED BY <1>4, <2>1, <2>9, <2>10, <2>11, <2>12, LineGoesOn
<1> QED BY <1>7, <1>8

\* Our own JOIN.
LEMMA WeJoinLine ==
  ASSUME RosterInv, Upright', NEW c \in Chans, WeJoin(c)
  PROVE  RosterInv'
<1> DEFINE n == is[Me].nick
           x == [is[Me] EXCEPT !.in = @ \cup {c}]
           r == Record(n)
           f == Joined(r, is'[Me])
           S == {"host"} \cup IF "extended-join" \in caps THEN {"account", "real"} ELSE {}
<1>0. Me \in People
  BY WeAreThere
<1>1. /\ is' = [is EXCEPT ![Me].in = @ \cup {c}] /\ listing = {} /\ c \notin Ours /\ Join(n, c)
      /\ Learns(Me, n, f, {"host"}, ops)
  BY DEF WeJoin, Heard
<1>2. /\ x \in Persons /\ x.nick = is[Me].nick /\ x.in = is[Me].in \cup {c} /\ x.ops = is[Me].ops
      /\ \A k \in FieldNames : x[k] = is[Me][k]
  BY <1>0, RecordTyped DEF Persons, FieldNames
<1>3. /\ Sound(store, is, listing) /\ Worldly(is) /\ Stands(store) /\ Spelled(store, n)
      /\ OneSpelling(store) /\ IsSelf(store, n) /\ DOMAIN store.channels = is[Me].in
  BY <1>0, Before DEF RosterInv, Mirrors
<1>4. Worldly(is') /\ Alone(is, is', Me) /\ is'[Me] = x
  <2>1. Becomes(is, is', Me, x)
    BY <1>1 DEF Becomes
  <2>2. x.ops \subseteq x.in
    BY <1>0, <1>2, <1>3 DEF Worldly
  <2> HIDE DEF x
  <2> QED BY <1>0, <1>2, <1>3, <2>1, <2>2, WorldGoesOn
<1> HIDE DEF x
<1>5. \A q \in People : is'[q].nick = is[q].nick /\ is'[q].ops = is[q].ops
  BY <1>0, <1>2, <1>4 DEF Alone
<1>6. \A q \in People : \A d : <<q, d>> \in listing' <=> d = c /\ c \in is'[q].in
  BY DEF WeJoin
<1>7. /\ Follows(store, store') /\ DOMAIN store'.channels = DOMAIN store.channels \cup {c}
      /\ DOMAIN store'.channels[c] = {n}
      /\ \A d \in DOMAIN store.channels : DOMAIN store'.channels[d] = DOMAIN store.channels[d]
  <2> DEFINE q == GetOrCreateChannel(store, c)
  <2>1. HasChannel(q, c) /\ store' = AddMember(GetOrCreateUser(q, n), c, n)
    BY <1>1, <1>3 DEF Join
  <2>2. c \notin DOMAIN store.channels
    BY <1>1 DEF Ours
  <2> HIDE DEF q
  <2> QED BY <1>3, <2>1, <2>2, OwnJoinFollows DEF q
<1>8. \A q \in People : \A d \in DOMAIN store'.channels :
        Present(is', listing', q, d) <=>
          IF d = c THEN q = Me ELSE d \in DOMAIN store.channels /\ Present(is, listing, q, d)
  <2> SUFFICES ASSUME NEW q \in People, NEW d \in DOMAIN store'.channels
               PROVE  Present(is', listing', q, d) <=>
                        IF d = c THEN q = Me ELSE d \in DOMAIN store.channels /\ Present(is, listing, q, d)
    OBVIOUS
  <2>1. d # c => (d \in is'[q].in <=> d \in is[q].in) /\ d \in DOMAIN store.channels
    BY <1>0, <1>2, <1>4, <1>7 DEF Alone
  <2>2. c \in is'[Me].in
    BY <1>2, <1>4
  <2> QED BY <1>1, <1>6, <2>1, <2>2 DEF Present
<1>9. Goes(store, is, listing, store', is', listing', Me)
  <2>1. ASSUME NEW d \in DOMAIN store'.channels, NEW j
        PROVE  j \in DOMAIN store'.channels[d] <=> \E q \in People : Present(is', listing', q, d) /\ j = is'[q].nick
    <3>1. CASE d = c
      BY <1>0, <1>5, <1>7, <1>8, <3>1
    <3>2. CASE d # c
      <4>1. d \in DOMAIN store.channels /\ DOMAIN store'.channels[d] = DOMAIN store.channels[d]
        BY <1>7, <3>2
      <4>2. j \in DOMAIN store.channels[d] <=> \E q \in People : Present(is, listing, q, d) /\ j = is[q].nick
        BY <1>3, <4>1 DEF Sound, Mirrors
      <4> QED BY <1>5, <1>8, <3>2, <4>1, <4>2
    <3> QED BY <3>1, <3>2
  <2>2. Mirrors(store', is', listing')
    <3>1. DOMAIN store'.channels = is'[Me].in
      BY <1>2, <1>3, <1>4, <1>7
    <3>2. store'.mapping = FirstMapping /\ store'.nick = FirstNick
      BY <1>3, <1>7 DEF Follows, Sound, Mirrors
    <3> QED BY <2>1, <3>1, <3>2 DEF Mirrors
  <2>3. Stands(store') /\ Company(store', {})
    BY DEF Upright, StoreInv, Stands
  <2>4. Sound(store', is', listing')
    BY <1>4, <2>2, <2>3 DEF Sound
  <2> QED BY <1>0, <1>3, <1>5, <1>7, <1>8, <2>4, GoesOn
<1>10. Right(f, is'[Me], told[Me] \cup {"host"}, Kept)
  <2>1. r \in UserFields /\ Right(r, is[Me], told[Me], Kept)
    BY <1>0, RecordTyped, RecordIsRight
  <2>2. Sets(r, f, x, S)
    BY <1>2, <1>4, <2>1, JoinedSets
  <2>3. {"host"} \subseteq S
    OBVIOUS
  <2> HIDE DEF f, r, S
  <2>4. \A k \in Kept : k \notin S => x[k] = is[Me][k]
    BY <1>2, KeptAre
  <2>5. Right(f, x, told[Me] \cup {"host"}, Kept)
    BY <2>1, <2>2, <2>3, <2>4, RightAgain
  <2> QED BY <1>4, <2>5
<1> HIDE DEF f
<1>11. Listing(is', listing')
  <2>1. ASSUME NEW y \in listing' PROVE \E q \in People : \E d \in is'[Me].in : y = <<q, d>> /\ d \in is'[q].in
    <3>1. PICK q \in People : y = <<q, c>> /\ c \in is'[q].in
      BY DEF WeJoin
    <3>2. c \in is'[Me].in
      BY <1>2, <1>4
    <3> QED BY <3>1, <3>2
  <2> QED BY <2>1 DEF Listing
<1>12. \A q \in People : \A d \in DOMAIN store'.channels : Present(is', listing', q, d) =>
         (d \in is'[q].ops /\ <<q, d>> \notin listing' <=>
            d \in DOMAIN store.channels /\ d \in is[q].ops /\ <<q, d>> \notin listing)
  <2> SUFFICES ASSUME NEW q \in People, NEW d \in DOMAIN store'.channels, Present(is', listing', q, d)
               PROVE  d \in is'[q].ops /\ <<q, d>> \notin listing' <=>
                        d \in DOMAIN store.channels /\ d \in is[q].ops /\ <<q, d>> \notin listing
    OBVIOUS
  <2>1. CASE d = c
    <3>1. d \notin DOMAIN store.channels
      BY <1>1, <2>1 DEF Ours
    <3>2. <<q, d>> \in listing'
      BY <1>6, <2>1 DEF Present
    <3> QED BY <3>1, <3>2
  <2>2. CASE d # c
    BY <1>1, <1>5, <1>6, <1>7, <2>2
  <2> QED BY <2>1, <2>2
<1>13. is'[Me].nick = n
  BY <1>0, <1>5
<1> QED BY <1>0, <1>1, <1>4, <1>9, <1>10, <1>11, <1>12, <1>13, LineGoesOn

\* Our own PART.
LEMMA WeLeaveLine ==
  ASSUME RosterInv, Upright', NEW c \in Chans, WeLeave(c)
  PROVE  RosterInv'
<1> DEFINE n == is[Me].nick
           x == [is[Me] EXCEPT !.in = @ \ {c}, !.ops = @ \ {c}]
<1>0. Me \in People
  BY WeAreThere
<1>1. /\ is' = [is EXCEPT ![Me].in = @ \ {c}, ![Me].ops = @ \ {c}] /\ listing = {} /\ listing' = listing
      /\ c \in DOMAIN store.channels /\ Part(n, c) /\ Learns(Me, n, Record(n), {}, ops)
  BY DEF WeLeave, Heard, Ours
<1>2. /\ x \in Persons /\ x.nick = is[Me].nick /\ x.in = is[Me].in \ {c} /\ x.ops = is[Me].ops \ {c}
      /\ \A k \in FieldNames : x[k] = is[Me][k]
  BY <1>0, RecordTyped DEF Persons, FieldNames
<1>3. /\ Sound(store, is, listing) /\ Worldly(is) /\ Stands(store) /\ Spelled(store, n)
      /\ OneSpelling(store) /\ IsSelf(store, n) /\ DOMAIN store.channels = is[Me].in
  BY <1>0, Before DEF RosterInv, Mirrors
<1>4. Worldly(is') /\ Alone(is, is', Me) /\ is'[Me] = x
  <2>1. Becomes(is, is', Me, x)
    BY <1>0, <1>1, <1>3 DEF Becomes, Worldly, Persons
  <2>2. x.ops \subseteq x.in
    BY <1>0, <1>2, <1>3 DEF Worldly
  <2> HIDE DEF x
  <2> QED BY <1>0, <1>2, <1>3, <2>1, <2>2, WorldGoesOn
<1> HIDE DEF x
<1>5. \A q \in People : is'[q].nick = is[q].nick
  BY <1>0, <1>2, <1>4 DEF Alone
<1>6. /\ Follows(store, store') /\ DOMAIN store'.channels = DOMAIN store.channels \ {c}
      /\ \A d \in DOMAIN store'.channels : store'.channels[d] = store.channels[d]
  <2>1. store' = Leaves(GetOrCreateUser(store, n), n, c)
    BY <1>1 DEF Part
  <2> QED BY <1>1, <1>3, <2>1, OwnPartFollows
<1>7. \A q \in People : \A d \in DOMAIN store'.channels :
        Present(is', listing', q, d) <=> d \in DOMAIN store.channels /\ Present(is, listing, q, d)
  BY <1>0, <1>1, <1>2, <1>4, <1>6 DEF Present, Alone
<1>8. Goes(store, is, listing, store', is', listing', Me)
  <2>1. ASSUME NEW d \in DOMAIN store'.channels, NEW j
        PROVE  j \in DOMAIN store'.channels[d] <=> \E q \in People : Present(is', listing', q, d) /\ j = is'[q].nick
    <3>1. d \in DOMAIN store.channels /\ DOMAIN store'.channels[d] = DOMAIN store.channels[d]
      BY <1>6
    <3>2. j \in DOMAIN store.channels[d] <=> \E q \in People : Present(is, listing, q, d) /\ j = is[q].nick
      BY <1>3, <3>1 DEF Sound, Mirrors
    <3> QED BY <1>5, <1>7, <3>1, <3>2
  <2>2. Mirrors(store', is', listing')
    <3>1. DOMAIN store'.channels = is'[Me].in
      BY <1>2, <1>3, <1>4, <1>6
    <3>2. store'.mapping = FirstMapping /\ store'.nick = FirstNick
      BY <1>3, <1>6 DEF Follows, Sound, Mirrors
    <3> QED BY <2>1, <3>1, <3>2 DEF Mirrors
  <2>3. Stands(store') /\ Company(store', {})
    BY DEF Upright, StoreInv, Stands
  <2>4. Sound(store', is', listing')
    BY <1>4, <2>2, <2>3 DEF Sound
  <2> QED BY <1>0, <1>3, <1>5, <1>6, <1>7, <2>4, GoesOn
<1>9. Right(Record(n), is'[Me], told[Me] \cup {}, Kept)
  BY <1>0, <1>2, <1>4, RecordStays
<1>10. Listing(is', listing') /\ is'[Me].nick = n
  BY <1>0, <1>1, <1>5 DEF Listing
<1>11. \A q \in People : \A d \in DOMAIN store'.channels : Present(is', listing', q, d) =>
         (d \in is'[q].ops /\ <<q, d>> \notin listing' <=>
            d \in DOMAIN store.channels /\ d \in is[q].ops /\ <<q, d>> \notin listing)
  BY <1>1, <1>2, <1>4, <1>6 DEF Alone
<1> QED BY <1>0, <1>1, <1>4, <1>8, <1>9, <1>10, <1>11, LineGoesOn

-----------------------------------------------------------------------------
(* The invariant, and what follows from it.                                *)

\* What happens to others is a line of Store's, or none; and no line is our own QUIT, or says
\* again who we are.
LEMMA LinesAreLines ==
  ASSUME RosterInv, [RosterNext]_allVars
  PROVE  [Next]_vars /\ welcomed' = welcomed /\ gone' = gone /\ collided' = collided
<1> DEFINE Line == [Next]_vars /\ welcomed' = welcomed /\ gone' = gone /\ collided' = collided
<1>1. \A q \in People : is[q].nick \in Nicks /\ (IsSelf(store, is[q].nick) <=> q = Me)
  BY Before DEF Persons
<1>2. gone = FALSE
  BY DEF RosterInv
<1>3. UNCHANGED <<store, welcomed, gone, collided>> => Line
  BY DEF vars
<1>4. Unheard => Line
  BY <1>3 DEF Unheard, client
<1>5. ASSUME NEW n \in Nicks, NEW c \in Chans, Join(n, c) \/ Names(n, c) \/ Part(n, c) PROVE Line
  <2>1. Next
    BY <1>5 DEF Next
  <2> QED BY <1>5, <2>1 DEF Join, Names, Part, Dispatched
<1>6. ASSUME NEW n \in Nicks, NEW k \in Nicks, Speaks(n) \/ Nick(n, k) PROVE Line
  <2>1. Next
    BY <1>6 DEF Next
  <2> QED BY <1>6, <2>1 DEF Speaks, Nick, Dispatched
<1>7. ASSUME NEW n \in Nicks, Quit(n), ~IsSelf(store, n) PROVE Line
  <2>1. Next
    BY <1>7 DEF Next
  <2>2. gone' = FALSE
    BY <1>7 DEF Quit, IsSelf, Alike
  <2> QED BY <1>2, <1>7, <2>1, <2>2 DEF Quit
<1> HIDE DEF Line
<1>8. ASSUME NEW c \in Chans, WeJoin(c) \/ WeLeave(c) PROVE Line
  <2>1. Join(is[Me].nick, c) \/ Part(is[Me].nick, c)
    BY <1>8 DEF WeJoin, WeLeave
  <2> QED BY <1>1, <1>5, <2>1, WeAreThere
<1>9. ASSUME NEW p \in People, NEW c \in Chans, Lists(p, c) \/ Joins(p, c) \/ Departs(p, c) PROVE Line
  <2>1. Names(is[p].nick, c) \/ Join(is[p].nick, c) \/ Part(is[p].nick, c) \/ Unheard
    BY <1>9 DEF Lists, Joins, Departs
  <2> QED BY <1>1, <1>4, <1>5, <2>1
<1>10. ASSUME NEW p \in People, Quits(p) PROVE Line
  <2>1. Unheard \/ (Quit(is[p].nick) /\ p # Me)
    BY <1>10 DEF Quits
  <2> QED BY <1>1, <1>4, <1>7, <2>1
<1>11. ASSUME NEW p \in People, NEW n \in Nicks, Renames(p, n) PROVE Line
  <2>1. Unheard \/ Nick(is[p].nick, n)
    BY <1>11 DEF Renames
  <2> QED BY <1>1, <1>4, <1>6, <2>1
<1>12. ASSUME NEW p \in People, NEW c, NEW tag, Says(p, c, tag) PROVE Line
  BY <1>1, <1>6, <1>12 DEF Says
<1>13. ASSUME NEW p \in People, NEW x, LogsIn(p, x) \/ GoesAway(p) \/ ChangesHost(p, x) \/ SetsName(p, x)
                                      \/ Ops(p, x) \/ AnswersWho(p, x)
       PROVE  Line
  <2>1. UNCHANGED <<store, welcomed, gone, collided>> \/ Unheard
    BY <1>13 DEF LogsIn, GoesAway, ChangesHost, SetsName, Ops, AnswersWho, Fields
  <2> QED BY <1>3, <1>4, <2>1
<1>14. ASSUME UNCHANGED allVars PROVE Line
  BY <1>3, <1>14 DEF allVars, client
<1>15. ASSUME RosterNext PROVE Line
  BY <1>8, <1>9, <1>10, <1>11, <1>12, <1>13, <1>15 DEF RosterNext
<1>16. Line
  BY <1>14, <1>15
<1> QED BY <1>16 DEF Line

\* At first there is nobody but us, in no channel.
LEMMA RosterInvInit == RosterInit => RosterInv
<1> SUFFICES ASSUME RosterInit PROVE RosterInv
  OBVIOUS
<1> DEFINE s == [mapping |-> FirstMapping, nick |-> FirstNick, own |-> {}, users |-> <<>>, channels |-> <<>>]
<1>1. /\ store = GetOrCreateUser(s, FirstNick) /\ welcomed = TRUE /\ gone = FALSE /\ collided = FALSE
      /\ fields = [id \in Ids |-> Blank] /\ ops = {} /\ is = AtFirst
      /\ listing = {} /\ told = [p \in People |-> {}]
  BY DEF RosterInit
<1>2. /\ s.mapping = FirstMapping /\ s.nick = FirstNick /\ s.own = {} /\ Shape(s)
      /\ DOMAIN s.users = {} /\ DOMAIN s.channels = {} /\ s = [s EXCEPT !.nick = FirstNick]
  BY DEF Shape
<1> HIDE DEF s
<1>3. Tracked(s) /\ Fits(s)
  <2>1. Typed(s)
    BY <1>2, StoreAssumption DEF Typed
  <2>2. UsersApart(s) /\ MembersFollow(s)
    BY <1>2 DEF UsersApart, Keyed, MembersFollow
  <2>3. Cardinality(DOMAIN s.channels) = 0
    BY <1>2, FS_EmptySet
  <2> QED BY <1>2, <2>1, <2>2, <2>3, StoreAssumption DEF Tracked, Fits
<1>4. Stands(store) /\ Company(store, {})
  <2>1. FirstNick \in Nicks
    BY StoreAssumption
  <2>2. store = GetOrCreateUser([s EXCEPT !.nick = FirstNick], FirstNick)
    BY <1>1, <1>2
  <2> HIDE DEF s
  <2> QED BY <1>2, <1>3, <2>1, <2>2, WelcomeLine
<1>5. Met(s, store, FirstNick) /\ ~HasUser(s, FirstNick)
  <2>1. FirstNick \in Nicks
    BY StoreAssumption
  <2> QED BY <1>1, <1>2, <1>3, <2>1, MetIs, HasIs DEF HasUser
<1>6. /\ store.mapping = FirstMapping /\ store.nick = FirstNick
      /\ DOMAIN store.channels = {} /\ DOMAIN store.users = {FirstNick}
  BY <1>2, <1>5 DEF Met
<1>7. StoreInv
  BY <1>1, <1>4 DEF StoreInv, Stands
<1>8. Worldly(is)
  BY <1>1, RosterAssumption DEF Worldly, Persons
<1>9. Mirrors(store, is, listing) /\ Listing(is, listing)
  BY <1>1, <1>6, RosterAssumption DEF Mirrors, Listing
<1>10. FieldsRight(store, is, fields, told, Kept)
  <2>1. Blank \in UserFields
    BY DEF Blank, UserFields
  <2>2. Sound(store, is, listing)
    BY <1>4, <1>8, <1>9 DEF Sound
  <2>3. ASSUME NEW p \in People, Known(store, is, p) PROVE fields[IdOf(store, is, p)] = Blank
    BY <1>1, <2>2, <2>3, KnownIs
  <2>4. \A p \in People : told[p] = {} /\ Right(Blank, is[p], told[p], Kept)
    BY <1>1, <2>1 DEF Right
  <2> QED BY <1>1, <2>1, <2>3, <2>4 DEF FieldsRight
<1>11. OpsRight(store, is, listing, ops)
  BY <1>1, <1>6 DEF OpsRight
<1> QED BY <1>1, <1>7, <1>8, <1>9, <1>10, <1>11 DEF RosterInv

\* Every line keeps it.
LEMMA RosterInvNext == RosterInv /\ [RosterNext]_allVars => RosterInv'
<1> SUFFICES ASSUME RosterInv, [RosterNext]_allVars PROVE RosterInv'
  OBVIOUS
<1>1. Upright'
  <2>1. [Next]_vars /\ welcomed' = TRUE /\ gone' = FALSE /\ collided' = FALSE
    BY LinesAreLines DEF RosterInv
  <2>2. StoreInv'
    BY <2>1, InvNext DEF RosterInv
  <2> QED BY <2>1, <2>2 DEF Upright
<1>2. CASE UNCHANGED allVars
  <2>1. /\ is' = is /\ listing' = listing /\ store' = store /\ fields' = fields /\ ops' = ops
        /\ told' = told /\ caps' = caps
    BY <1>2 DEF allVars, client
  <2>2. Kept' = Kept
    BY <2>1 DEF Kept
  <2> QED BY <1>1, <2>1, <2>2 DEF RosterInv, Upright
<1>3. ASSUME NEW c \in Chans, WeJoin(c) \/ WeLeave(c) PROVE RosterInv'
  BY <1>1, <1>3, WeJoinLine, WeLeaveLine
<1>4. ASSUME NEW p \in People, NEW c \in Chans, Lists(p, c) \/ Joins(p, c) \/ Departs(p, c) \/ Ops(p, c)
      PROVE  RosterInv'
  BY <1>1, <1>4, ListsLine, JoinsLine, DepartsLine, OpsLine
<1>5. ASSUME NEW p \in People, Quits(p) \/ GoesAway(p) PROVE RosterInv'
  BY <1>1, <1>5, QuitsLine, AwayLine
<1>6. ASSUME NEW p \in People, NEW n \in Nicks, Renames(p, n) PROVE RosterInv'
  BY <1>1, <1>6, RenamesLine
<1>7. ASSUME NEW p \in People, NEW a \in Accounts \cup {None}, LogsIn(p, a) PROVE RosterInv'
  BY <1>1, <1>7, AccountLine
<1>8. ASSUME NEW p \in People, NEW c, NEW tag, Says(p, c, tag) PROVE RosterInv'
  BY <1>1, <1>8, SaysLine
<1>9. ASSUME NEW p \in People, NEW c \in Chans \cup {None}, AnswersWho(p, c) PROVE RosterInv'
  BY <1>1, <1>9, WhoLine
<1>10. ASSUME NEW p \in People, NEW h \in Hosts, ChangesHost(p, h) PROVE RosterInv'
  BY <1>1, <1>10, HostLine
<1>11. ASSUME NEW p \in People, NEW r \in RealNames, SetsName(p, r) PROVE RosterInv'
  BY <1>1, <1>11, NameLine
<1>12. ASSUME RosterNext PROVE RosterInv'
  BY <1>3, <1>4, <1>5, <1>6, <1>7, <1>8, <1>9, <1>10, <1>11, <1>12 DEF RosterNext
<1> QED BY <1>2, <1>12

\* In every reachable state the store mirrors the world, and what is on file is right.
LEMMA RosterInvAlways == RosterSpec => []RosterInv
  BY RosterInvInit, RosterInvNext, PTL DEF RosterSpec

\* The lines that tell of what others do are lines as Store takes them: all that Store
\* keeps through its lines holds of what the roster has on file.
THEOREM RosterIsAStore == RosterSpec => [][Next]_vars
<1>1. RosterInv /\ [RosterNext]_allVars => [Next]_vars
  BY LinesAreLines
<1> QED BY <1>1, RosterInvAlways, PTL DEF RosterSpec

\* What is on file about whoever shares a channel with us is true of somebody who does, in
\* every field that a capability keeps current, as soon as we were told it; and once the 353
\* is read, the ops on file are the ops.
THEOREM WhatIsOnFileIsTrue == RosterSpec => []RecordsAreTrue
<1>1. ASSUME RosterInv PROVE RecordsAreTrue
  <2>1. /\ Sound(store, is, listing) /\ OpsRight(store, is, listing, ops)
        /\ \A p \in People : Me \in People /\ is[p].ops \subseteq is[p].in
    BY <1>1, Before, WeAreThere DEF RosterInv, Worldly
  <2>2. ASSUME NEW n \in DOMAIN store.users
        PROVE  \E p \in People : is[p].nick = n /\ (p = Me \/ Shares(p))
    <3>1. PICK p \in People : n = is[p].nick /\ Known(store, is, p)
      BY <2>1, KnownIs DEF Known
    <3>2. p = Me \/ \E c \in DOMAIN store.channels : c \in is[p].in
      BY <2>1, <3>1, KnownIs DEF Present
    <3> QED BY <3>1, <3>2 DEF Shares, Ours
  <2>3. ASSUME NEW p \in People, NEW k \in Kept, k \in told[p] \/ Record(is[p].nick)[k] # Blank[k]
        PROVE  Record(is[p].nick)[k] = is[p][k]
    BY <1>1, <2>3, RecordIsRight DEF Right
  <2>4. ASSUME listing = {}
        PROVE  ops = UNION {{<<c, User(store, is[p].nick)>> : c \in is[p].ops \cap Ours} : p \in People}
    <3>1. ASSUME NEW p \in People, NEW c \in DOMAIN store.channels, c \in is[p].ops
          PROVE  User(store, is[p].nick) = IdOf(store, is, p)
      <4>1. Present(is, listing, p, c)
        BY <2>1, <2>4, <3>1 DEF Present
      <4>2. Known(store, is, p)
        BY <2>1, <4>1, KnownIs
      <4> QED BY <2>1, <4>2, FoundIs
    <3>2. ASSUME NEW x
          PROVE  x \in ops <=> \E p \in People : \E c \in is[p].ops \cap Ours : x = <<c, User(store, is[p].nick)>>
      <4>1. x \in ops <=> \E p \in People : \E c \in DOMAIN store.channels :
                            x = <<c, IdOf(store, is, p)>> /\ c \in is[p].ops
        BY <2>1, <2>4 DEF OpsRight
      <4> QED BY <3>1, <4>1 DEF Ours
    <3> QED BY <3>2
  <2> QED BY <2>2, <2>3, <2>4 DEF RecordsAreTrue
<1> QED BY <1>1, RosterInvAlways, PTL

\* The status on file of whoever is in a channel, once the 353 is read.
LEMMA OpOnFile ==
  ASSUME RosterInv, listing = {}, NEW p \in People, Known(store, is, p), NEW c \in DOMAIN store.channels
  PROVE  <<c, IdOf(store, is, p)>> \in ops <=> c \in is[p].ops
<1>1. Sound(store, is, listing) /\ OpsRight(store, is, listing, ops)
  BY Before DEF RosterInv
<1>2. <<p, c>> \notin listing
  OBVIOUS
<1> QED BY <1>1, <1>2, OpsWere

\* What a message shows of its sender: a tag names the sender's account, or says that there
\* is none; the host is the sender's; and in a channel of ours the status on file is, too.
LEMMA SenderShows ==
  ASSUME RosterInv, listing = {}, NEW m \in Messages, NEW e, e = Event(m[1], m[2], m[3])
  PROVE  /\ m[1] \in People /\ is[m[1]] \in Persons
         /\ e.tag = m[3] /\ e.nick = is[m[1]].nick /\ e.user.host = is[m[1]].host
         /\ e.user.host # None
         /\ e.tag # None => "account-tag" \in caps
         /\ Normal(e.tag) = IF "account-tag" \in caps THEN is[m[1]].account ELSE None
         /\ e.op <=> m[2] \in is[m[1]].ops
         /\ e.tag = None /\ "account-notify" \in caps /\ e.user.account # None =>
              e.user.account = is[m[1]].account
<1> DEFINE p == m[1]
           c == m[2]
           tag == m[3]
<1>1. /\ p \in People /\ p # Me /\ tag \in Tags(p)
      /\ c = None \/ (c \in is[p].in /\ c \in DOMAIN store.channels)
  BY DEF Messages, Ours
<1>2. /\ Sound(store, is, listing) /\ OpsRight(store, is, listing, ops) /\ is[p] \in Persons
      /\ Record(is[p].nick) \in UserFields /\ is[p].ops \subseteq is[p].in
  BY <1>1, Before, RecordTyped DEF RosterInv, Worldly
<1> HIDE DEF p, c, tag
<1>3. /\ e.tag = tag /\ e.nick = is[p].nick
      /\ e.user = IF tag = None THEN Sourced(Record(is[p].nick), is[p])
                  ELSE SetAccount(Sourced(Record(is[p].nick), is[p]), tag)
      /\ e.op <=> c # None /\ <<c, User(store, is[p].nick)>> \in ops
  BY DEF Event, p, c, tag
<1>4. e.user.host = is[p].host /\ (tag = None => e.user.account = Record(is[p].nick).account)
  <2>1. Sets(Record(is[p].nick), e.user, is[p], {"host"} \cup IF tag = None THEN {} ELSE {"account"})
    BY <1>1, <1>2, <1>3, TaggedSets
  <2> QED BY <2>1 DEF Sets, FieldNames
<1>5. e.user.host # None
  BY <1>2, <1>4, RosterAssumption DEF Persons
<1>6. /\ tag # None => "account-tag" \in caps
      /\ Normal(tag) = IF "account-tag" \in caps THEN is[p].account ELSE None
  <2>1. is[p].account \in Accounts \cup {None} /\ {None, "", "*"} \cap Accounts = {}
    BY <1>2, RosterAssumption DEF Persons
  <2> QED BY <1>1, <2>1 DEF Tags, Normal, None
<1>7. c # None /\ <<c, User(store, is[p].nick)>> \in ops <=> c \in is[p].ops
  <2>1. CASE c = None
    BY <1>2, <2>1, NamesAreApart DEF Persons, Sound
  <2>2. CASE c # None
    <3>1. Present(is, listing, p, c) /\ c \in DOMAIN store.channels
      BY <1>1, <2>2 DEF Present
    <3>2. Known(store, is, p)
      BY <1>1, <1>2, <3>1, KnownIs
    <3>3. User(store, is[p].nick) = IdOf(store, is, p)
      BY <1>1, <1>2, <3>2, FoundIs
    <3>4. <<c, IdOf(store, is, p)>> \in ops <=> c \in is[p].ops
      BY <1>1, <3>1, <3>2, OpOnFile
    <3> QED BY <2>2, <3>3, <3>4
  <2> QED BY <2>1, <2>2
<1>8. ASSUME tag = None, "account-notify" \in caps, e.user.account # None
      PROVE  e.user.account = is[p].account
  <2>1. Record(is[p].nick)["account"] # Blank["account"] /\ "account" \in Kept
    BY <1>4, <1>8, KeptAre DEF Blank
  <2>2. Record(is[p].nick)["account"] = is[p]["account"]
    BY <1>1, <2>1, RecordIsRight DEF Right
  <2> QED BY <1>4, <1>8, <2>2
<1> QED BY <1>1, <1>2, <1>3, <1>4, <1>5, <1>6, <1>7, <1>8 DEF p, c, tag

\* Whoever sends a message may run an owner's or an op's command if and only if he is one by
\* now, whatever was on file of him or of who had the nick before, and is limited under an
\* account or a host that is his own.
THEOREM NobodyIsTakenForAnother == RosterSpec => []SendersAreThemselves
<1>1. ASSUME RosterInv, listing = {}, NEW m \in Messages, NEW p, p = is[m[1]],
             NEW e, e = Event(m[1], m[2], m[3]),
             NEW truly, truly = (\E o \in Owners :
                                   \/ o[1] = "account" /\ "account-tag" \in caps /\ p.account = o[2]
                                   \/ o[1] = "mask" /\ p.host \in o[2]
                                   \/ o[1] = "nick" /\ Alike(store.mapping, p.nick, o[2]))
      PROVE  /\ IsOwner(e) = truly
             /\ OpMayRun(e) = (truly \/ m[2] \in p.ops)
             /\ "account-notify" \in caps => SenderKey(e) \in {<<"account", p.account>>, <<"host", p.host>>}
  <2>1. /\ e.nick = p.nick /\ e.user.host = p.host /\ e.user.host # None
        /\ e.tag # None => "account-tag" \in caps
        /\ Normal(e.tag) = IF "account-tag" \in caps THEN p.account ELSE None
        /\ e.op <=> m[2] \in p.ops
        /\ e.tag = None /\ "account-notify" \in caps /\ e.user.account # None => e.user.account = p.account
    BY <1>1, SenderShows
  <2>2. IsOwner(e) <=> truly
    <3>1. ASSUME NEW o \in Owners
          PROVE  MatchesIdentity(e, o) <=>
                   \/ o[1] = "account" /\ "account-tag" \in caps /\ p.account = o[2]
                   \/ o[1] = "mask" /\ p.host \in o[2]
                   \/ o[1] = "nick" /\ Alike(store.mapping, p.nick, o[2])
      <4>1. o[1] = "account" => o[2] # None
        BY RosterAssumption
      <4> QED BY <2>1, <4>1 DEF MatchesIdentity
    <3> QED BY <1>1, <3>1 DEF IsOwner
  <2>3. OpMayRun(e) <=> truly \/ m[2] \in p.ops
    BY <2>1, <2>2 DEF OpMayRun
  <2>4. IsOwner(e) = truly /\ OpMayRun(e) = (truly \/ m[2] \in p.ops)
    BY <1>1, <2>2, <2>3 DEF IsOwner, OpMayRun
  <2>5. ASSUME "account-notify" \in caps
        PROVE  SenderKey(e) \in {<<"account", p.account>>, <<"host", p.host>>}
    <3>1. CASE e.tag # None
      BY <2>1, <3>1 DEF SenderKey
    <3>2. CASE e.tag = None
      BY <2>1, <2>5, <3>2 DEF SenderKey
    <3> QED BY <3>1, <3>2
  <2> QED BY <2>4, <2>5
<1>2. RosterInv => SendersAreThemselves
  BY <1>1 DEF SendersAreThemselves
<1> QED BY <1>2, RosterInvAlways, PTL

=============================================================================
