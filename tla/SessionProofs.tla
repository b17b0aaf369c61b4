--------------------------- MODULE SessionProofs ---------------------------
(***************************************************************************)
(* What Registration keeps for every set of capabilities, every request    *)
(* splitting, every bound and every server, honest or not; and what        *)
(* Session, which goes on from there, keeps against an honest server.  The *)
(* inductive invariant of the first ties the unread wire to the flags that *)
(* guard what is sent.  Those of the second follow the lines in flight:    *)
(* what a line will change when it is read is already true of the party    *)
(* that sent it.                                                           *)
(***************************************************************************)
EXTENDS Session, Integers, FiniteSetTheorems, SequenceTheorems, TLAPS

-----------------------------------------------------------------------------
(* Registration: what its flags and the wire have to do with each other.   *)

\* The flags of the SASL exchange and of CAP negotiation agree with each other.
FlagsAgree ==
  /\ saslLive \/ saslSucceeded => saslStarted
  /\ ~(saslLive /\ saslSucceeded)
  /\ saslStarted => credentials
  /\ credentials /\ (capsConcluded \/ outcome = "resolved") => saslSucceeded

SessionCmds == {"AUTHENTICATE", "RESPONSE"}

\* What is on the wire was sent by a client in the matching state.
WireAgrees ==
  \A i \in DOMAIN toServer :
    /\ toServer[i].cmd = "CAP END" => capsConcluded
    /\ toServer[i].cmd \in SessionCmds => saslStarted

IInv == TypeOK /\ FlagsAgree /\ WireAgrees /\ OneExchangeThenEnd

-----------------------------------------------------------------------------
(* The wire as a sequence.                                                 *)

\* Where a line of a concatenation comes from.
LEMMA ConcatLines ==
  ASSUME NEW S, NEW s \in Seq(S), NEW t \in Seq(S)
  PROVE  /\ s \o t \in Seq(S)
         /\ Len(s \o t) = Len(s) + Len(t)
         /\ DOMAIN (s \o t) = 1..(Len(s) + Len(t))
         /\ \A i \in 1..Len(s) : (s \o t)[i] = s[i]
         /\ \A i \in 1..(Len(s) + Len(t)) : i > Len(s) => (s \o t)[i] = t[i - Len(s)] /\ i - Len(s) \in 1..Len(t)
  OBVIOUS

\* A one-line message as a sequence.
LEMMA OneLine ==
  ASSUME NEW S, NEW x \in S
  PROVE  \E s \in Seq(S) : s = <<x>> /\ Len(s) = 1 /\ \A j \in DOMAIN s : s[j] = x
<1>1. <<x>> \in Seq(S) /\ Len(<<x>>) = 1 /\ <<x>>[1] = x
  OBVIOUS
<1>2. \A s \in Seq(S) : DOMAIN s = 1..Len(s)
  OBVIOUS
<1>3. \A s \in Seq(S) : Len(s) = 1 /\ s[1] = x => \A j \in DOMAIN s : s[j] = x
  BY <1>2
<1> QED BY <1>1, <1>3

\* Taking the head off a stream keeps its type and shifts its lines.
LEMMA TailLines ==
  ASSUME NEW S, NEW s \in Seq(S), s # <<>>
  PROVE  /\ Tail(s) \in Seq(S) /\ Head(s) \in S
         /\ Len(Tail(s)) = Len(s) - 1
         /\ \A i \in 1..Len(Tail(s)) : Tail(s)[i] = s[i + 1] /\ i + 1 \in 1..Len(s)
  OBVIOUS

-----------------------------------------------------------------------------
(* Every step extends the wire by lines its state allows, or shortens it.  *)

Special == {"CAP END", "AUTHENTICATE", "RESPONSE"}

\* The state in which a line may go out.
MaySend(x) ==
  /\ x.cmd = "CAP END" => ~capsConcluded /\ capsConcluded'
  /\ x.cmd = "AUTHENTICATE" => ~capsConcluded /\ ~saslStarted /\ saslStarted'
  /\ x.cmd = "RESPONSE" => ~capsConcluded /\ saslStarted

FlagsGrow == (capsConcluded => capsConcluded') /\ (saslStarted => saslStarted')

\* Appending allowed lines keeps the wire in agreement with the flags and in order.
LEMMA SendKeepsWire ==
  ASSUME IInv, NEW new \in Seq(ClientLine), toServer' = toServer \o new, FlagsGrow,
         \A j \in DOMAIN new : MaySend(new[j]) /\ (new[j].cmd \in Special => Len(new) = 1)
  PROVE  toServer' \in Seq(ClientLine) /\ WireAgrees' /\ OneExchangeThenEnd'
<1> DEFINE n == Len(toServer)
           k == Len(new)
<1>1. toServer \in Seq(ClientLine) /\ WireAgrees /\ OneExchangeThenEnd
  BY DEF IInv, TypeOK
<1>2. n \in Nat /\ k \in Nat /\ DOMAIN new = 1..k /\ DOMAIN toServer = 1..n
  BY <1>1
<1>3. /\ toServer' \in Seq(ClientLine) /\ DOMAIN toServer' = 1..(n + k)
      /\ \A i \in 1..n : toServer'[i] = toServer[i]
      /\ \A i \in 1..(n + k) : i > n => toServer'[i] = new[i - n] /\ i - n \in 1..k
  BY <1>1, <1>2, ConcatLines
<1> HIDE DEF n, k
<1>4. ASSUME NEW i \in DOMAIN toServer'
      PROVE  \/ i \in DOMAIN toServer /\ toServer'[i] = toServer[i]
             \/ i > n /\ i - n \in DOMAIN new /\ toServer'[i] = new[i - n]
  BY <1>2, <1>3
<1>5. WireAgrees'
  <2> SUFFICES ASSUME NEW i \in DOMAIN toServer'
               PROVE  /\ toServer'[i].cmd = "CAP END" => capsConcluded'
                      /\ toServer'[i].cmd \in SessionCmds => saslStarted'
    BY DEF WireAgrees
  <2>1. CASE i \in DOMAIN toServer /\ toServer'[i] = toServer[i]
    BY <1>1, <2>1 DEF WireAgrees, FlagsGrow
  <2>2. CASE i - n \in DOMAIN new /\ toServer'[i] = new[i - n]
    <3>1. MaySend(new[i - n])
      BY <2>2
    <3> QED BY <2>2, <3>1 DEF FlagsGrow, MaySend, SessionCmds
  <2> QED BY <1>4, <2>1, <2>2
<1>6. OneExchangeThenEnd'
  <2> SUFFICES ASSUME NEW i \in DOMAIN toServer', NEW j \in DOMAIN toServer', i < j
               PROVE  /\ toServer'[i].cmd = "CAP END"
                           => toServer'[j].cmd \notin {"CAP END", "AUTHENTICATE", "RESPONSE"}
                      /\ toServer'[i].cmd \in {"AUTHENTICATE", "RESPONSE"}
                           => toServer'[j].cmd # "AUTHENTICATE"
    BY DEF OneExchangeThenEnd
  <2>0. i \in Int /\ j \in Int /\ n \in Int /\ k \in Int
    BY <1>2, <1>3
  <2>1. CASE j \in DOMAIN toServer /\ toServer'[j] = toServer[j]
    <3>1. i \in DOMAIN toServer /\ toServer'[i] = toServer[i]
      BY <1>2, <1>3, <1>4, <2>0, <2>1
    <3> QED BY <1>1, <2>1, <3>1 DEF OneExchangeThenEnd
  <2>2. CASE /\ j > n /\ j - n \in DOMAIN new /\ toServer'[j] = new[j - n]
             /\ i \in DOMAIN toServer /\ toServer'[i] = toServer[i]
    <3>1. MaySend(new[j - n])
      BY <2>2
    <3> QED BY <1>1, <2>2, <3>1 DEF WireAgrees, MaySend, SessionCmds
  <2>3. CASE /\ j > n /\ j - n \in DOMAIN new /\ toServer'[j] = new[j - n]
             /\ i > n /\ i - n \in DOMAIN new /\ toServer'[i] = new[i - n]
    <3>1. k # 1
      BY <1>2, <2>0, <2>3
    <3> QED BY <2>3, <3>1 DEF Special, k
  <2> QED BY <1>4, <2>1, <2>2, <2>3
<1> QED BY <1>3, <1>5, <1>6

\* A step that leaves the wire alone and only raises the flags keeps it too.
LEMMA QuietKeepsWire ==
  ASSUME IInv, toServer' = toServer, FlagsGrow
  PROVE  toServer' \in Seq(ClientLine) /\ WireAgrees' /\ OneExchangeThenEnd'
  BY DEF IInv, TypeOK, WireAgrees, OneExchangeThenEnd, FlagsGrow

\* The server reads the wire from its head.
LEMMA ReadKeepsWire ==
  ASSUME IInv, toServer # <<>>, toServer' = Tail(toServer),
         UNCHANGED <<capsConcluded, saslStarted>>
  PROVE  toServer' \in Seq(ClientLine) /\ WireAgrees' /\ OneExchangeThenEnd'
<1>1. toServer \in Seq(ClientLine) /\ WireAgrees /\ OneExchangeThenEnd
  BY DEF IInv, TypeOK
<1>2. /\ toServer' \in Seq(ClientLine) /\ DOMAIN toServer' = 1..Len(toServer')
      /\ \A i \in 1..Len(toServer') : toServer'[i] = toServer[i + 1] /\ i + 1 \in DOMAIN toServer
  BY <1>1, TailLines
<1>3. WireAgrees'
  BY <1>1, <1>2 DEF WireAgrees
<1>4. OneExchangeThenEnd'
  <2> SUFFICES ASSUME NEW i \in DOMAIN toServer', NEW j \in DOMAIN toServer', i < j
               PROVE  /\ toServer'[i].cmd = "CAP END"
                           => toServer'[j].cmd \notin {"CAP END", "AUTHENTICATE", "RESPONSE"}
                      /\ toServer'[i].cmd \in {"AUTHENTICATE", "RESPONSE"}
                           => toServer'[j].cmd # "AUTHENTICATE"
    BY DEF OneExchangeThenEnd
  <2>1. /\ i + 1 \in DOMAIN toServer /\ j + 1 \in DOMAIN toServer /\ i + 1 < j + 1
        /\ toServer'[i] = toServer[i + 1] /\ toServer'[j] = toServer[j + 1]
    BY <1>2
  <2> QED BY <1>1, <2>1 DEF OneExchangeThenEnd
<1> QED BY <1>2, <1>3, <1>4

-----------------------------------------------------------------------------
(* The handlers.  The core is what the flags, the promise and the wire     *)
(* keep of one another; the capability sets and the nick are only typed.   *)

CoreTypes ==
  /\ {credentials, capsConcluded, saslStarted, saslLive, saslSucceeded, account} \subseteq BOOLEAN
  /\ challenge \in 0..MaxChallenge
  /\ outcome \in {"pending", "resolved", "rejected"}

DataTypes ==
  /\ available \subseteq Caps /\ enabled \subseteq Caps /\ pending \subseteq Caps
  /\ nick \in Nat

WireOK == toServer \in Seq(ClientLine) /\ WireAgrees /\ OneExchangeThenEnd

Core == CoreTypes /\ FlagsAgree /\ WireOK

\* IInv has the core and the data types.
LEMMA IInvParts == IInv => Core /\ DataTypes
  BY DEF IInv, TypeOK, Core, CoreTypes, DataTypes, WireOK

\* The plain client lines.
LEMMA PlainLines ==
  \A c \in {"CAP LS", "USER", "CAP END", "AUTHENTICATE", "RESPONSE"} : Line(c) \in ClientLine
  BY DEF Line, ClientLine

\* Sending one line that the state allows.
LEMMA SendOneKeepsWire ==
  ASSUME IInv, NEW x \in ClientLine, Send(<<x>>), FlagsGrow, MaySend(x)
  PROVE  WireOK'
<1>1. PICK new \in Seq(ClientLine) : new = <<x>> /\ Len(new) = 1 /\ \A j \in DOMAIN new : new[j] = x
  BY OneLine
<1>2. toServer' = toServer \o new
  BY <1>1 DEF Send
<1>3. \A j \in DOMAIN new : MaySend(new[j]) /\ (new[j].cmd \in Special => Len(new) = 1)
  BY <1>1
<1> QED BY <1>2, <1>3, SendKeepsWire DEF WireOK

\* concludeCaps keeps the wire when the flag it guards with allows CAP END.
LEMMA ConcludeKeepsWire ==
  ASSUME IInv, ConcludeCaps, UNCHANGED saslStarted
  PROVE  WireOK' /\ capsConcluded' = TRUE
<1>1. FlagsGrow
  BY DEF FlagsGrow, ConcludeCaps
<1>2. CASE capsConcluded
  BY <1>1, <1>2, QuietKeepsWire DEF ConcludeCaps, WireOK
<1>3. CASE ~capsConcluded
  <2>1. MaySend(Line("CAP END")) /\ Send(<<Line("CAP END")>>)
    BY <1>3 DEF MaySend, Line, ConcludeCaps
  <2> QED BY <1>1, <2>1, PlainLines, SendOneKeepsWire DEF ConcludeCaps
<1> QED BY <1>2, <1>3 DEF ConcludeCaps

\* beginSaslOrConclude keeps the core, whatever set it reads.
LEMMA BeginKeepsCore ==
  ASSUME IInv, outcome = "pending", NEW on, BeginSaslOrConclude(on), UNCHANGED credentials
  PROVE  Core'
<1>0. Core
  BY IInvParts
<1>1. CASE ~credentials /\ ConcludeCaps /\ UNCHANGED <<saslVars, outcome>>
  <2>1. WireOK' /\ capsConcluded' = TRUE
    BY <1>1, ConcludeKeepsWire DEF saslVars
  <2> QED BY <1>0, <1>1, <2>1 DEF Core, CoreTypes, FlagsAgree, saslVars
<1>2. CASE UNCHANGED <<capsConcluded, saslVars, toServer>> /\ outcome' \in {outcome, "rejected"}
  <2>1. WireOK'
    BY <1>2, QuietKeepsWire DEF WireOK, FlagsGrow, saslVars
  <2> QED BY <1>0, <1>2, <2>1 DEF Core, CoreTypes, FlagsAgree, saslVars
<1>3. CASE /\ credentials /\ SaslMayStart
           /\ saslStarted' = TRUE /\ saslLive' = TRUE /\ challenge' = 0
           /\ Send(<<Line("AUTHENTICATE")>>)
           /\ UNCHANGED <<capsConcluded, saslSucceeded, account, outcome>>
  <2>1. ~capsConcluded /\ ~saslSucceeded /\ FlagsGrow
    BY <1>0, <1>3 DEF Core, FlagsAgree, SaslMayStart, FlagsGrow
  <2>2. MaySend(Line("AUTHENTICATE"))
    BY <1>3, <2>1 DEF MaySend, Line, SaslMayStart
  <2>3. WireOK'
    BY <1>3, <2>1, <2>2, PlainLines, SendOneKeepsWire
  <2> QED BY <1>0, <1>3, <2>1, <2>3, CapsAssumption DEF Core, CoreTypes, FlagsAgree
<1> QED BY <1>1, <1>2, <1>3 DEF BeginSaslOrConclude, Settle

\* Bounded additions and applied ACKs stay among the capabilities there are.
LEMMA BoundedSets ==
  ASSUME NEW known \in SUBSET Caps, NEW new \in SUBSET Caps
  PROVE  Bounded(known, new) \subseteq SUBSET Caps
  BY DEF Bounded

LEMMA AppliedSets ==
  ASSUME enabled \subseteq Caps, NEW on \in SUBSET Caps, NEW off \in SUBSET Caps
  PROVE  Applied(on, off) \subseteq SUBSET Caps
<1>1. Bounded(enabled \ off, on) \subseteq SUBSET Caps /\ Bounded(enabled, on) \subseteq SUBSET Caps
  BY BoundedSets
<1>2. ASSUME NEW T \in Applied(on, off) PROVE T \in SUBSET Caps
  <2>1. CASE T \in Bounded(enabled \ off, on)
    BY <1>1, <2>1
  <2>2. CASE T \in {S \ off : S \in Bounded(enabled, on)}
    <3>1. PICK S \in Bounded(enabled, on) : T = S \ off
      BY <2>2
    <3>2. S \in SUBSET Caps
      BY <1>1
    <3> QED BY <3>1, <3>2
  <2> QED BY <1>2, <2>1, <2>2 DEF Applied
<1> QED BY <1>2

\* Requests are for what is offered.
LEMMA ReconciledSets ==
  ASSUME NEW desired, NEW offered \in SUBSET Caps, NEW withSasl
  PROVE  Reconciled(desired, offered, withSasl) \subseteq offered
  BY DEF Reconciled

\* CAP REQ lines are neither CAP END nor part of a SASL exchange.
LEMMA ReqLinesTyped ==
  ASSUME NEW S \in SUBSET Caps
  PROVE  /\ ReqLines(S) \in Seq(ClientLine)
         /\ \A j \in DOMAIN ReqLines(S) : ReqLines(S)[j].cmd = "CAP REQ"
<1> DEFINE c == Chunking[S]
           r == [i \in DOMAIN c |-> [cmd |-> "CAP REQ", caps |-> c[i]]]
<1>1. c \in Seq(SUBSET Caps)
  BY ChunkingAssumption
<1> HIDE DEF c
<1>2. Len(c) \in Nat /\ DOMAIN c = 1..Len(c) /\ \A i \in DOMAIN c : c[i] \in SUBSET Caps
  BY <1>1
<1>3. r \in [1..Len(c) -> ClientLine] /\ \A j \in DOMAIN r : r[j].cmd = "CAP REQ"
  BY <1>2 DEF ClientLine
<1>4. ReqLines(S) = r
  BY DEF ReqLines, c
<1> HIDE DEF r
<1>5. r \in Seq(ClientLine)
  <2>1. \E n \in Nat : r \in [1..n -> ClientLine]
    BY <1>2, <1>3
  <2> QED BY <2>1, SeqDef, Zenon
<1> QED BY <1>3, <1>4, <1>5

LEMMA SendReqKeepsWire ==
  ASSUME IInv, NEW S \in SUBSET Caps, Send(ReqLines(S)), FlagsGrow
  PROVE  WireOK'
<1>1. /\ ReqLines(S) \in Seq(ClientLine)
      /\ \A j \in DOMAIN ReqLines(S) : ReqLines(S)[j].cmd = "CAP REQ"
  BY ReqLinesTyped
<1>2. \A j \in DOMAIN ReqLines(S) :
        MaySend(ReqLines(S)[j]) /\ (ReqLines(S)[j].cmd \in Special => Len(ReqLines(S)) = 1)
  BY <1>1 DEF MaySend, Special
<1> QED BY <1>1, <1>2, SendKeepsWire DEF Send, WireOK

-----------------------------------------------------------------------------

LEMMA LSKeeps ==
  ASSUME IInv, outcome = "pending", NEW m \in ServerLine, HandleLS(m)
  PROVE  Core' /\ DataTypes'
<1>0. Core /\ DataTypes /\ m.caps \in SUBSET Caps
  BY IInvParts DEF HandleLS, ServerLine
<1>1. available' \subseteq Caps /\ UNCHANGED <<credentials, enabled, nick>>
  BY <1>0, BoundedSets DEF HandleLS, DataTypes
<1> DEFINE ask == Reconciled(Desired, available', credentials)
<1>2. ask \in SUBSET Caps
  BY <1>1, ReconciledSets
<1>3. CASE UNCHANGED <<pending, capsConcluded, saslVars, outcome, toServer>>
  <2>1. WireOK'
    BY <1>3, QuietKeepsWire DEF WireOK, FlagsGrow, saslVars
  <2> QED BY <1>0, <1>1, <1>3, <2>1 DEF Core, CoreTypes, FlagsAgree, DataTypes, saslVars
<1>4. CASE UNCHANGED pending /\ BeginSaslOrConclude(enabled)
  BY <1>0, <1>1, <1>4, BeginKeepsCore DEF DataTypes
<1>5. CASE /\ pending' = pending \cup ask
           /\ Send(ReqLines(ask))
           /\ UNCHANGED <<capsConcluded, saslVars, outcome>>
  <2>1. WireOK'
    BY <1>2, <1>5, SendReqKeepsWire DEF FlagsGrow, saslVars
  <2> QED BY <1>0, <1>1, <1>2, <1>5, <2>1 DEF Core, CoreTypes, FlagsAgree, DataTypes, saslVars
<1> QED BY <1>3, <1>4, <1>5 DEF HandleLS

LEMMA AnsweredKeeps ==
  ASSUME IInv, outcome = "pending", NEW names, NEW on, Answered(names, on),
         enabled' \subseteq Caps, UNCHANGED <<credentials, available, nick>>
  PROVE  Core' /\ DataTypes'
<1>0. Core /\ DataTypes
  BY IInvParts
<1>1. pending' \subseteq Caps
  BY <1>0 DEF Answered, DataTypes
<1>2. CASE BeginSaslOrConclude(on)
  BY <1>0, <1>1, <1>2, BeginKeepsCore DEF DataTypes
<1>3. CASE UNCHANGED <<capsConcluded, saslVars, outcome, toServer>>
  <2>1. WireOK'
    BY <1>3, QuietKeepsWire DEF WireOK, FlagsGrow, saslVars
  <2> QED BY <1>0, <1>1, <1>3, <2>1 DEF Core, CoreTypes, FlagsAgree, DataTypes, saslVars
<1> QED BY <1>2, <1>3 DEF Answered

LEMMA ACKKeeps ==
  ASSUME IInv, outcome = "pending", NEW m \in ServerLine, HandleACK(m)
  PROVE  Core' /\ DataTypes'
<1>1. m.caps \in SUBSET Caps /\ m.off \in SUBSET Caps /\ enabled \subseteq Caps
  BY DEF HandleACK, ServerLine, IInv, TypeOK
<1>2. enabled' \subseteq Caps
  BY <1>1, AppliedSets DEF HandleACK
<1> QED BY <1>2, AnsweredKeeps DEF HandleACK

LEMMA NAKKeeps ==
  ASSUME IInv, outcome = "pending", NEW m \in ServerLine, HandleNAK(m)
  PROVE  Core' /\ DataTypes'
<1>1. enabled' \subseteq Caps
  BY DEF HandleNAK, IInv, TypeOK
<1> QED BY <1>1, AnsweredKeeps DEF HandleNAK

\* The handlers that send nothing.
LEMMA SilentKeeps ==
  ASSUME IInv, outcome = "pending", NEW m \in ServerLine,
         HandleWelcome(m) \/ HandleFatal(m) \/ HandleNoCap(m) \/ HandleLoggedIn(m)
           \/ HandleSaslFailure(m) \/ HandleOther(m)
  PROVE  Core' /\ DataTypes'
<1>0. Core /\ DataTypes
  BY IInvParts
<1>1. toServer' = toServer /\ FlagsGrow
  BY DEF HandleWelcome, HandleFatal, HandleNoCap, HandleLoggedIn, HandleSaslFailure, HandleOther,
         FlagsGrow, capVars, saslVars, clientVars
<1>2. WireOK'
  BY <1>1, QuietKeepsWire DEF WireOK
<1> USE <1>0, <1>2 DEF Core, CoreTypes, FlagsAgree, DataTypes, capVars, saslVars, clientVars, Settle
<1>3. CASE HandleWelcome(m)
  BY <1>3 DEF HandleWelcome, Admissible
<1>4. CASE HandleFatal(m)
  BY <1>4 DEF HandleFatal
<1>5. CASE HandleNoCap(m)
  <2>1. \/ credentials /\ outcome' = "rejected" /\ UNCHANGED capsConcluded
        \/ ~credentials /\ capsConcluded' = TRUE /\ UNCHANGED outcome
    BY <1>5 DEF HandleNoCap
  <2>2. UNCHANGED <<credentials, available, enabled, pending, nick, saslVars>>
    BY <1>5 DEF HandleNoCap
  <2>3. CASE credentials
    BY <2>1, <2>2, <2>3
  <2>4. CASE ~credentials
    BY <2>1, <2>2, <2>4
  <2> QED BY <2>3, <2>4
<1>6. CASE HandleLoggedIn(m)
  BY <1>6 DEF HandleLoggedIn
<1>7. CASE HandleSaslFailure(m)
  BY <1>7 DEF HandleSaslFailure
<1>8. CASE HandleOther(m)
  BY <1>8 DEF HandleOther
<1> QED BY <1>3, <1>4, <1>5, <1>6, <1>7, <1>8

LEMMA NickInUseKeeps ==
  ASSUME IInv, outcome = "pending", NEW m \in ServerLine, HandleNickInUse(m)
  PROVE  Core' /\ DataTypes'
<1>0. Core /\ DataTypes
  BY IInvParts
<1> DEFINE x == [cmd |-> "NICK", nick |-> nick + 1]
<1>a. nick + 1 \in Nat
  BY <1>0 DEF DataTypes
<1>b. \A n \in Nat : [cmd |-> "NICK", nick |-> n] \in ClientLine
  BY DEF ClientLine
<1>c. MaySend(x)
  BY DEF MaySend
<1>d. FlagsGrow
  BY DEF FlagsGrow, HandleNickInUse, capVars, saslVars
<1>1. x \in ClientLine /\ MaySend(x) /\ FlagsGrow
  BY <1>a, <1>b, <1>c, <1>d
<1>2. WireOK'
  BY <1>1, SendOneKeepsWire DEF HandleNickInUse
<1> QED BY <1>0, <1>2 DEF HandleNickInUse, Core, CoreTypes, FlagsAgree, DataTypes, capVars, saslVars

LEMMA ChallengeKeeps ==
  ASSUME IInv, outcome = "pending", NEW m \in ServerLine, HandleChallenge(m)
  PROVE  Core' /\ DataTypes'
<1>0. Core /\ DataTypes /\ FlagsGrow
  BY IInvParts DEF HandleChallenge, FlagsGrow, capVars
<1>1. ~capsConcluded /\ saslStarted
  BY <1>0 DEF HandleChallenge, Core, FlagsAgree
<1>2. WireOK'
  <2>1. CASE toServer' = toServer
    BY <1>0, <2>1, QuietKeepsWire DEF WireOK
  <2>2. CASE Send(<<Line("RESPONSE")>>)
    <3>1. MaySend(Line("RESPONSE"))
      BY <1>1 DEF MaySend, Line
    <3> QED BY <1>0, <2>2, <3>1, PlainLines, SendOneKeepsWire
  <2> QED BY <2>1, <2>2 DEF HandleChallenge
<1>3. saslLive' \in {saslLive, FALSE} /\ outcome' \in {outcome, "rejected"}
  BY DEF HandleChallenge, Settle
<1>4. challenge' \in 0..MaxChallenge
  <2>1. challenge \in 0..MaxChallenge /\ MaxChallenge \in Nat
    BY <1>0, CapsAssumption DEF Core, CoreTypes
  <2>2. \/ challenge < MaxChallenge /\ challenge' = challenge + 1
        \/ challenge' = 0
    BY DEF HandleChallenge
  <2> QED BY <2>1, <2>2
<1> QED BY <1>0, <1>1, <1>2, <1>3, <1>4 DEF HandleChallenge, Core, CoreTypes, FlagsAgree, DataTypes, capVars

LEMMA SaslSuccessKeeps ==
  ASSUME IInv, outcome = "pending", NEW m \in ServerLine, HandleSaslSuccess(m)
  PROVE  Core' /\ DataTypes'
<1>0. Core /\ DataTypes
  BY IInvParts
<1>1. WireOK' /\ capsConcluded' = TRUE
  BY ConcludeKeepsWire DEF HandleSaslSuccess
<1> QED BY <1>0, <1>1 DEF HandleSaslSuccess, Core, CoreTypes, FlagsAgree, DataTypes

\* Every handler keeps the core and the types of its data.
LEMMA HandleKeeps ==
  ASSUME IInv, outcome = "pending", NEW m \in ServerLine, Handle(m)
  PROVE  Core' /\ DataTypes'
  BY LSKeeps, ACKKeeps, NAKKeeps, SilentKeeps, NickInUseKeeps, ChallengeKeeps, SaslSuccessKeeps
     DEF Handle

-----------------------------------------------------------------------------
(* The server and the other direction of the connection.                   *)

ServerTypes ==
  /\ srvKind \in ServerKinds
  /\ srvCaps \subseteq Caps /\ srvEnabled \subseteq Caps
  /\ {srvHold, srvUser, srvWelcomed} \subseteq BOOLEAN
  /\ srvNick \in Nat \cup {NoNick}
  /\ srvSasl \in {"idle", "prompted", "done"}
  /\ injected \in 0..MaxInjected /\ notices \in 0..MaxNotices

LinesTyped == toClient \in Seq(ServerLine)

\* IInv is its four parts, before a step and after it.
LEMMA IInvSplit == IInv => Core /\ DataTypes /\ ServerTypes /\ LinesTyped
  BY DEF IInv, TypeOK, Core, CoreTypes, DataTypes, WireOK, ServerTypes, LinesTyped

LEMMA IInvNext ==
  ASSUME Core', DataTypes', ServerTypes', LinesTyped'
  PROVE  IInv'
  BY DEF IInv, TypeOK, Core, CoreTypes, DataTypes, WireOK, ServerTypes, LinesTyped

\* A step that leaves the client's state alone keeps the core when it keeps the wire.
LEMMA ClientIdle ==
  ASSUME IInv, UNCHANGED clientVars, WireOK'
  PROVE  Core' /\ DataTypes'
<1>1. Core /\ DataTypes
  BY IInvParts
<1>2. UNCHANGED <<credentials, available, enabled, pending, nick, capsConcluded, saslStarted,
                  saslLive, challenge, saslSucceeded, account, outcome>>
  BY DEF clientVars, capVars, saslVars
<1>3. CoreTypes' /\ FlagsAgree'
  BY <1>1, <1>2 DEF Core, CoreTypes, FlagsAgree
<1>4. DataTypes'
  BY <1>1, <1>2 DEF DataTypes
<1> QED BY <1>3, <1>4 DEF Core

\* The lines an honest server replies with.
LEMMA ServerLines ==
  /\ \A c \in {"433", "421", "challenge", "900", "903", "904", "908"} : Line(c) \in ServerLine
  /\ \A S \in SUBSET Caps, b \in BOOLEAN : [cmd |-> "LS", caps |-> S, more |-> b] \in ServerLine
  /\ \A S \in SUBSET Caps : [cmd |-> "ACK", caps |-> S, off |-> {}] \in ServerLine
  /\ \A S \in SUBSET Caps, c \in {"NAK", "NEW", "DEL"} : [cmd |-> c, caps |-> S] \in ServerLine
  /\ \A n \in Nat : [cmd |-> "001", nick |-> n] \in ServerLine
  BY DEF Line, ServerLine

LEMMA ReplyOne ==
  ASSUME LinesTyped, NEW x \in ServerLine, Reply(<<x>>)
  PROVE  LinesTyped'
<1>1. <<x>> \in Seq(ServerLine)
  OBVIOUS
<1> QED BY <1>1, ConcatLines DEF LinesTyped, Reply

LEMMA ReplyTwo ==
  ASSUME LinesTyped, NEW x \in ServerLine, NEW y \in ServerLine, Reply(<<x, y>>)
  PROVE  LinesTyped'
<1>1. <<x, y>> \in Seq(ServerLine)
  OBVIOUS
<1> QED BY <1>1, ConcatLines DEF LinesTyped, Reply

\* What every read of the server's leaves to show.
LEMMA ServerReadKeeps ==
  ASSUME IInv, NEW cmd, ServerRead(cmd)
  PROVE  /\ Core' /\ DataTypes'
         /\ Head(toServer) \in ClientLine /\ Head(toServer).cmd = cmd
         /\ UNCHANGED <<srvKind, srvCaps, srvWelcomed, injected, notices>>
<1>1. toServer \in Seq(ClientLine) /\ toServer # <<>> /\ toServer' = Tail(toServer)
  BY DEF ServerRead, IInv, TypeOK
<1>2. UNCHANGED clientVars /\ UNCHANGED <<capsConcluded, saslStarted>>
  BY DEF ServerRead, clientVars, capVars, saslVars
<1>3. WireOK'
  BY <1>1, <1>2, ReadKeepsWire DEF WireOK
<1>4. Head(toServer) \in ClientLine
  BY <1>1, TailLines
<1> QED BY <1>2, <1>3, <1>4, ClientIdle DEF ServerRead

\* An honest server that reads and answers.
LEMMA ServerStepKeeps ==
  ASSUME IInv, ServerLS \/ ServerNick \/ ServerUser \/ ServerReq \/ ServerAuth
                 \/ ServerResponse \/ ServerEnd
  PROVE  IInv'
<1>0. ServerTypes /\ LinesTyped
  BY IInvSplit
<1>1. CASE ServerLS
  <2>1. Core' /\ DataTypes' /\ UNCHANGED <<srvKind, srvCaps, srvWelcomed, injected, notices>>
    BY <1>1, ServerReadKeeps DEF ServerLS
  <2>2. ServerTypes'
    BY <1>0, <1>1, <2>1 DEF ServerLS, ServerTypes
  <2>3. srvCaps \in SUBSET Caps
    BY <1>0 DEF ServerTypes
  <2>4. LinesTyped'
    <3>1. CASE Reply(<<[cmd |-> "LS", caps |-> srvCaps, more |-> FALSE]>>)
      <4>1. [cmd |-> "LS", caps |-> srvCaps, more |-> FALSE] \in ServerLine
        BY <2>3, ServerLines
      <4> QED BY <1>0, <3>1, <4>1, ReplyOne
    <3>2. ASSUME NEW S \in SUBSET srvCaps,
                 Reply(<<[cmd |-> "LS", caps |-> S, more |-> TRUE],
                         [cmd |-> "LS", caps |-> srvCaps \ S, more |-> FALSE]>>)
          PROVE  LinesTyped'
      <4>1. S \in SUBSET Caps /\ srvCaps \ S \in SUBSET Caps
        BY <2>3
      <4>2. /\ [cmd |-> "LS", caps |-> S, more |-> TRUE] \in ServerLine
            /\ [cmd |-> "LS", caps |-> srvCaps \ S, more |-> FALSE] \in ServerLine
        BY <4>1, ServerLines
      <4> QED BY <1>0, <3>2, <4>2, ReplyTwo
    <3>3. CASE Reply(<<Line("421")>>)
      <4>1. Line("421") \in ServerLine
        BY ServerLines
      <4> QED BY <1>0, <3>3, <4>1, ReplyOne
    <3>4. CASE UNCHANGED toClient
      BY <1>0, <3>4 DEF LinesTyped
    <3> QED BY <1>1, <3>1, <3>2, <3>3, <3>4 DEF ServerLS
  <2> QED BY <2>1, <2>2, <2>4, IInvNext
<1>2. CASE ServerNick
  <2>1. /\ Core' /\ DataTypes' /\ UNCHANGED <<srvKind, srvCaps, srvWelcomed, injected, notices>>
        /\ Head(toServer) \in ClientLine /\ Head(toServer).cmd = "NICK"
    BY <1>2, ServerReadKeeps DEF ServerNick
  <2>2. Head(toServer).nick \in Nat
    BY <2>1 DEF ClientLine
  <2>3. srvNick' \in Nat \cup {NoNick}
    BY <1>0, <1>2, <2>2 DEF ServerNick, ServerTypes
  <2>4. ServerTypes'
    BY <1>0, <1>2, <2>1, <2>3 DEF ServerNick, ServerTypes
  <2>5. Line("433") \in ServerLine
    BY ServerLines
  <2>6. LinesTyped'
    <3>1. CASE Reply(<<Line("433")>>)
      BY <1>0, <2>5, <3>1, ReplyOne
    <3>2. CASE UNCHANGED toClient
      BY <1>0, <3>2 DEF LinesTyped
    <3> QED BY <1>2, <3>1, <3>2 DEF ServerNick
  <2> QED BY <2>1, <2>4, <2>6, IInvNext
<1>3. CASE ServerUser \/ ServerEnd
  <2>1. Core' /\ DataTypes' /\ UNCHANGED <<srvKind, srvCaps, srvWelcomed, injected, notices>>
    BY <1>3, ServerReadKeeps DEF ServerUser, ServerEnd
  <2>2. ServerTypes'
    BY <1>0, <1>3, <2>1 DEF ServerUser, ServerEnd, ServerTypes
  <2>3. LinesTyped'
    BY <1>0, <1>3 DEF ServerUser, ServerEnd, LinesTyped
  <2> QED BY <2>1, <2>2, <2>3, IInvNext
<1>4. CASE ServerReq
  <2>1. /\ Core' /\ DataTypes' /\ UNCHANGED <<srvKind, srvCaps, srvWelcomed, injected, notices>>
        /\ Head(toServer) \in ClientLine /\ Head(toServer).cmd = "CAP REQ"
    BY <1>4, ServerReadKeeps DEF ServerReq
  <2> DEFINE S == Head(toServer).caps
  <2>2. S \in SUBSET Caps
    BY <2>1 DEF ClientLine
  <2>3. [cmd |-> "ACK", caps |-> S, off |-> {}] \in ServerLine /\ [cmd |-> "NAK", caps |-> S] \in ServerLine
    BY <2>2, ServerLines
  <2>4. /\ UNCHANGED <<srvHold, srvNick, srvUser, srvSasl>>
        /\ \/ srvEnabled' = srvEnabled \cup S /\ Reply(<<[cmd |-> "ACK", caps |-> S, off |-> {}]>>)
           \/ UNCHANGED srvEnabled /\ Reply(<<[cmd |-> "NAK", caps |-> S]>>)
    BY <1>4 DEF ServerReq
  <2>5. LinesTyped'
    BY <1>0, <2>3, <2>4, ReplyOne
  <2>6. srvEnabled' \subseteq Caps
    BY <1>0, <2>2, <2>4 DEF ServerTypes
  <2>7. ServerTypes'
    BY <1>0, <2>1, <2>4, <2>6 DEF ServerTypes
  <2> QED BY <2>1, <2>5, <2>7, IInvNext
<1>5. CASE ServerAuth \/ ServerResponse
  <2>1. Core' /\ DataTypes' /\ UNCHANGED <<srvKind, srvCaps, srvWelcomed, injected, notices>>
    BY <1>5, ServerReadKeeps DEF ServerAuth, ServerResponse
  <2>2. /\ UNCHANGED <<srvEnabled, srvHold, srvNick, srvUser>>
        /\ srvSasl' \in {srvSasl, "prompted", "done"}
    BY <1>5 DEF ServerAuth, ServerResponse
  <2>3. ServerTypes'
    BY <1>0, <2>1, <2>2 DEF ServerTypes
  <2>4. \A c \in {"challenge", "900", "903", "904", "908"} : Line(c) \in ServerLine
    BY ServerLines
  <2>5. \/ Reply(<<Line("challenge")>>) \/ Reply(<<Line("904")>>)
        \/ Reply(<<Line("908"), Line("904")>>) \/ Reply(<<Line("900"), Line("903")>>)
    BY <1>5 DEF ServerAuth, ServerResponse
  <2>6. LinesTyped'
    BY <1>0, <2>4, <2>5, ReplyOne, ReplyTwo
  <2> QED BY <2>1, <2>3, <2>6, IInvNext
<1> QED BY <1>1, <1>2, <1>3, <1>4, <1>5

\* What the server sends on its own, and what a hostile one does.
LEMMA ServerOwnKeeps ==
  ASSUME IInv, Welcome \/ Notice \/ Inject \/ Swallow
  PROVE  IInv'
<1>0. ServerTypes /\ LinesTyped /\ toServer \in Seq(ClientLine)
  BY IInvSplit DEF IInv, TypeOK
<1>1. UNCHANGED clientVars /\ UNCHANGED <<capsConcluded, saslStarted>>
  BY DEF Welcome, Notice, Inject, Swallow, clientVars, capVars, saslVars
<1>2. WireOK'
  <2>1. CASE toServer' = toServer
    BY <1>1, <2>1, QuietKeepsWire DEF WireOK, FlagsGrow
  <2>2. CASE toServer # <<>> /\ toServer' = Tail(toServer)
    BY <1>1, <2>2, ReadKeepsWire DEF WireOK
  <2> QED BY <2>1, <2>2 DEF Welcome, Notice, Inject, Swallow
<1>3. Core' /\ DataTypes'
  BY <1>1, <1>2, ClientIdle
<1>4. CASE Welcome
  <2>1. srvNick \in Nat
    BY <1>0, <1>4 DEF Welcome, ServerTypes
  <2>2. [cmd |-> "001", nick |-> srvNick] \in ServerLine
    BY <2>1, ServerLines
  <2>3. LinesTyped'
    BY <1>0, <1>4, <2>2, ReplyOne DEF Welcome
  <2>4. ServerTypes'
    BY <1>0, <1>4 DEF Welcome, ServerTypes
  <2> QED BY <1>3, <2>3, <2>4, IInvNext
<1>5. CASE Notice
  <2>1. srvCaps \in SUBSET Caps /\ srvEnabled \in SUBSET Caps
    BY <1>0 DEF ServerTypes
  <2>2. PICK c \in Caps, k \in {"DEL", "NEW"} :
          /\ Reply(<<[cmd |-> k, caps |-> {c}]>>)
          /\ srvCaps' \in {srvCaps \ {c}, srvCaps \cup {c}}
          /\ srvEnabled' \in {srvEnabled, srvEnabled \ {c}}
    BY <1>5, <2>1 DEF Notice
  <2>3. [cmd |-> k, caps |-> {c}] \in ServerLine
    BY <2>2, ServerLines
  <2>4. LinesTyped'
    BY <1>0, <2>2, <2>3, ReplyOne
  <2>5. notices' \in 0..MaxNotices
    BY <1>0, <1>5, ServerAssumption DEF Notice, ServerTypes
  <2>6. srvCaps' \subseteq Caps /\ srvEnabled' \subseteq Caps
    BY <2>1, <2>2
  <2>7. UNCHANGED <<srvKind, srvHold, srvNick, srvUser, srvSasl, srvWelcomed, injected>>
    BY <1>5 DEF Notice
  <2>8. ServerTypes'
    BY <1>0, <2>5, <2>6, <2>7 DEF ServerTypes
  <2> QED BY <1>3, <2>4, <2>8, IInvNext
<1>6. CASE Inject
  <2>1. PICK m \in Injectable : Reply(<<m>>)
    BY <1>6 DEF Inject
  <2>2. m \in ServerLine
    BY ServerAssumption
  <2>3. LinesTyped'
    BY <1>0, <2>1, <2>2, ReplyOne
  <2>4. injected' \in 0..MaxInjected
    BY <1>0, <1>6, ServerAssumption DEF Inject, ServerTypes
  <2>5. UNCHANGED <<srvKind, srvCaps, srvEnabled, srvHold, srvNick, srvUser, srvSasl,
                    srvWelcomed, notices>>
    BY <1>6 DEF Inject
  <2>6. ServerTypes'
    BY <1>0, <2>4, <2>5 DEF ServerTypes
  <2> QED BY <1>3, <2>3, <2>6, IInvNext
<1>7. CASE Swallow
  <2>1. LinesTyped' /\ ServerTypes'
    BY <1>0, <1>7 DEF Swallow, LinesTyped, ServerTypes, serverVars
  <2> QED BY <1>3, <2>1, IInvNext
<1> QED BY <1>4, <1>5, <1>6, <1>7

-----------------------------------------------------------------------------
(* The steps of the client, and the invariant.                             *)

LEMMA ReceiveKeeps ==
  ASSUME IInv, Receive
  PROVE  IInv'
<1>1. ServerTypes /\ LinesTyped
  BY IInvSplit
<1>2. Head(toClient) \in ServerLine /\ LinesTyped'
  BY <1>1, TailLines DEF Receive, LinesTyped
<1>3. ServerTypes'
  BY <1>1 DEF Receive, ServerTypes, serverVars
<1>4. Core' /\ DataTypes'
  <2>1. CASE outcome = "pending"
    BY <1>2, <2>1, HandleKeeps DEF Receive
  <2>2. CASE outcome # "pending"
    <3>1. UNCHANGED clientVars /\ toServer' = toServer /\ FlagsGrow
      BY <2>2 DEF Receive, FlagsGrow, clientVars, capVars, saslVars
    <3>2. WireOK'
      BY <3>1, QuietKeepsWire DEF WireOK
    <3> QED BY <3>1, <3>2, ClientIdle
  <2> QED BY <2>1, <2>2
<1> QED BY <1>2, <1>3, <1>4, IInvNext

LEMMA TimeoutKeeps ==
  ASSUME IInv, Timeout
  PROVE  IInv'
<1>0. Core /\ DataTypes /\ ServerTypes /\ LinesTyped
  BY IInvSplit
<1>1. /\ outcome' = "rejected"
      /\ UNCHANGED <<credentials, available, enabled, pending, capsConcluded, nick, saslStarted,
                     saslLive, challenge, saslSucceeded, account, toServer, toClient>>
  BY DEF Timeout, Settle, capVars, saslVars
<1>2. WireOK'
  BY <1>1, QuietKeepsWire DEF WireOK, FlagsGrow
<1>3. Core' /\ DataTypes'
  BY <1>0, <1>1, <1>2 DEF Core, CoreTypes, FlagsAgree, DataTypes
<1>4. LinesTyped'
  BY <1>0, <1>1 DEF LinesTyped
<1>5. ServerTypes'
  BY <1>0 DEF Timeout, ServerTypes, serverVars
<1> QED BY <1>3, <1>4, <1>5, IInvNext

LEMMA StutterKeeps == ASSUME IInv, UNCHANGED vars PROVE IInv'
<1>0. ServerTypes /\ LinesTyped
  BY IInvSplit
<1>1. UNCHANGED clientVars /\ toServer' = toServer /\ toClient' = toClient /\ UNCHANGED serverVars
  BY DEF vars
<1>2. WireOK'
  BY <1>1, QuietKeepsWire DEF WireOK, FlagsGrow, clientVars, capVars, saslVars
<1>3. Core' /\ DataTypes'
  BY <1>1, <1>2, ClientIdle
<1>4. ServerTypes'
  BY <1>0, <1>1 DEF ServerTypes, serverVars
<1>5. LinesTyped'
  BY <1>0, <1>1 DEF LinesTyped
<1> QED BY <1>3, <1>4, <1>5, IInvNext

LEMMA ThreeLines ==
  ASSUME NEW S, NEW x \in S, NEW y \in S, NEW z \in S
  PROVE  \E s \in Seq(S) : s = <<x, y, z>> /\ DOMAIN s = 1..3 /\ s[1] = x /\ s[2] = y /\ s[3] = z
<1>1. <<x, y, z>> \in Seq(S)
  OBVIOUS
<1>2. Len(<<x, y, z>>) = 3
  OBVIOUS
<1>3. <<x, y, z>>[1] = x /\ <<x, y, z>>[2] = y /\ <<x, y, z>>[3] = z
  OBVIOUS
<1>4. \A s \in Seq(S) : DOMAIN s = 1..Len(s)
  OBVIOUS
<1>5. \A s \in Seq(S) : Len(s) = 3 => DOMAIN s = 1..3
  BY <1>4
<1> QED BY <1>1, <1>2, <1>3, <1>5

\* The kickoff satisfies the invariant: three lines, none of them special.
LEMMA InitIInv == Init => IInv
<1> SUFFICES ASSUME Init PROVE IInv
  OBVIOUS
<1> DEFINE x == Line("CAP LS")
           y == [cmd |-> "NICK", nick |-> 0]
           z == Line("USER")
<1>1. x \in ClientLine /\ y \in ClientLine /\ z \in ClientLine
  BY PlainLines DEF ClientLine
<1>2. x.cmd = "CAP LS" /\ y.cmd = "NICK" /\ z.cmd = "USER"
  BY DEF Line
<1>3. toServer = <<x, y, z>>
  BY Zenon DEF Init
<1> HIDE DEF x, y, z
<1>4. PICK w \in Seq(ClientLine) :
        w = <<x, y, z>> /\ DOMAIN w = 1..3 /\ w[1] = x /\ w[2] = y /\ w[3] = z
  BY <1>1, ThreeLines
<1>5. toServer = w
  BY <1>3, <1>4
<1>6. toServer \in Seq(ClientLine)
  BY <1>5
<1>7. \A i \in DOMAIN toServer : toServer[i].cmd \in {"CAP LS", "NICK", "USER"}
  <2>1. w[1].cmd = "CAP LS" /\ w[2].cmd = "NICK" /\ w[3].cmd = "USER"
    BY <1>2, <1>4
  <2>2. DOMAIN w = 1..3
    BY <1>4
  <2>3. \A i \in 1..3 : i = 1 \/ i = 2 \/ i = 3
    OBVIOUS
  <2> QED BY <1>5, <2>1, <2>2, <2>3
<1>8. WireAgrees /\ OneExchangeThenEnd
  BY <1>7 DEF WireAgrees, OneExchangeThenEnd, SessionCmds
<1>9. FlagsAgree
  BY DEF Init, FlagsAgree
<1>10. TypeOK
  <2>1. srvCaps \subseteq Caps
    <3>1. srvCaps \in Offers \cup {{}}
      BY Zenon DEF Init
    <3> QED BY <3>1, ServerAssumption
  <2>2. 0 \in 0..MaxChallenge /\ 0 \in 0..MaxInjected /\ 0 \in 0..MaxNotices
    BY CapsAssumption, ServerAssumption
  <2>3. toClient = <<>>
    BY Zenon DEF Init
  <2>4. toClient \in Seq(ServerLine)
    BY <2>3
  <2> QED BY <1>6, <2>1, <2>2, <2>4 DEF Init, TypeOK
<1> QED BY <1>8, <1>9, <1>10 DEF IInv

\* The invariant is inductive: one case per action of Next.
LEMMA NextIInv == ASSUME IInv, [Next]_vars PROVE IInv'
<1>1. CASE Receive
  BY <1>1, ReceiveKeeps
<1>2. CASE Timeout
  BY <1>2, TimeoutKeeps
<1>3. CASE ServerStep
  BY <1>3, ServerStepKeeps, ServerOwnKeeps DEF ServerStep
<1>4. CASE Notice \/ Inject \/ Swallow
  BY <1>4, ServerOwnKeeps
<1>5. CASE UNCHANGED vars
  BY <1>5, StutterKeeps
<1> QED BY <1>1, <1>2, <1>3, <1>4, <1>5 DEF Next

\* The invariant holds of every behaviour of Registration.
THEOREM Invariance == Spec => []IInv
<1>1. IInv /\ [Next]_vars => IInv'
  BY NextIInv
<1> QED BY <1>1, InitIInv, PTL DEF Spec

\* Every variable keeps its type: in particular the reassembled challenge never
\* exceeds its cap, and only lines that exist are ever in flight.
THEOREM TypeCorrect == Spec => []TypeOK
<1>1. IInv => TypeOK
  BY DEF IInv
<1> QED BY <1>1, Invariance, PTL

\* Fail closed, against every server and for every capability set: a client with
\* credentials neither ends negotiation nor accepts 001 without SASL success.
THEOREM AlwaysFailsClosed == Spec => []FailsClosed
<1>1. IInv => FailsClosed
  BY DEF IInv, FlagsAgree, WireAgrees, FailsClosed, Unread
<1> QED BY <1>1, Invariance, PTL

\* At most one SASL exchange is on the wire, before the one CAP END, whatever ACKs
\* the server repeats and however the requests were split.
THEOREM OneExchange == Spec => []OneExchangeThenEnd
<1>1. IInv => OneExchangeThenEnd
  BY DEF IInv
<1> QED BY <1>1, Invariance, PTL

-----------------------------------------------------------------------------
(* Registration implements LoginContract.                                  *)

\* What a line can do to the promise and to the SASL result.
LEMMA HandleOutcome ==
  ASSUME IInv, outcome = "pending", NEW m \in ServerLine, Handle(m)
  PROVE  /\ UNCHANGED credentials
         /\ \/ UNCHANGED <<outcome, saslSucceeded>>
            \/ outcome' = "rejected" /\ UNCHANGED saslSucceeded
            \/ outcome' = "resolved" /\ UNCHANGED saslSucceeded /\ (credentials => saslSucceeded)
            \/ saslLive /\ saslSucceeded' = TRUE /\ UNCHANGED outcome
<1>1. ASSUME NEW on, BeginSaslOrConclude(on)
      PROVE  outcome' \in {outcome, "rejected"} /\ UNCHANGED saslSucceeded
  BY <1>1 DEF BeginSaslOrConclude, Settle, saslVars
<1>2. ASSUME NEW names, NEW on, Answered(names, on)
      PROVE  outcome' \in {outcome, "rejected"} /\ UNCHANGED saslSucceeded
  BY <1>1, <1>2 DEF Answered, saslVars
<1>3. CASE HandleLS(m)
  <2>1. UNCHANGED credentials
    BY <1>3 DEF HandleLS
  <2>2. outcome' \in {outcome, "rejected"} /\ UNCHANGED saslSucceeded
    BY <1>1, <1>3 DEF HandleLS, saslVars
  <2> QED BY <2>1, <2>2
<1>4. CASE HandleACK(m)
  <2>1. UNCHANGED credentials /\ Answered(m.caps \cup m.off, enabled')
    BY <1>4 DEF HandleACK
  <2> QED BY <1>2, <2>1
<1>5. CASE HandleNAK(m)
  <2>1. UNCHANGED credentials /\ Answered(m.caps, enabled)
    BY <1>5 DEF HandleNAK
  <2> QED BY <1>2, <2>1
<1>6. CASE HandleWelcome(m)
  BY <1>6 DEF HandleWelcome, Admissible, Settle, saslVars
<1>7. CASE HandleNickInUse(m) \/ HandleLoggedIn(m) \/ HandleOther(m)
  BY <1>7 DEF HandleNickInUse, HandleLoggedIn, HandleOther, saslVars, clientVars
<1>8. CASE HandleFatal(m) \/ HandleNoCap(m) \/ HandleChallenge(m) \/ HandleSaslFailure(m)
  BY <1>8 DEF HandleFatal, HandleNoCap, HandleChallenge, HandleSaslFailure, Settle, saslVars
<1>9. CASE HandleSaslSuccess(m)
  BY <1>9 DEF HandleSaslSuccess
<1> QED BY <1>3, <1>4, <1>5, <1>6, <1>7, <1>8, <1>9 DEF Handle

\* Every step of Registration is a step of the contract or none.
LEMMA StepRefines ==
  ASSUME IInv, [Next]_vars
  PROVE  [Contract!Next]_<<credentials, Phase>>
<1>1. /\ credentials \in BOOLEAN /\ saslSucceeded \in BOOLEAN
      /\ outcome \in {"pending", "resolved", "rejected"}
      /\ saslLive => saslStarted /\ ~saslSucceeded
      /\ saslSucceeded => credentials
      /\ saslStarted => credentials
  BY DEF IInv, TypeOK, FlagsAgree
<1>2. CASE UNCHANGED <<credentials, outcome, saslSucceeded>>
  BY <1>2 DEF Phase
<1>3. CASE outcome = "pending" /\ outcome' = "rejected" /\ UNCHANGED <<credentials, saslSucceeded>>
  <2>1. Phase \in {"negotiating", "authenticated"} /\ Phase' = "failed"
    BY <1>3 DEF Phase
  <2> QED BY <1>3, <2>1 DEF Contract!Next, Contract!Fail
<1>4. CASE /\ outcome = "pending" /\ outcome' = "resolved"
           /\ UNCHANGED <<credentials, saslSucceeded>> /\ (credentials => saslSucceeded)
  <2>1. Phase = (IF credentials THEN "authenticated" ELSE "negotiating") /\ Phase' = "registered"
    BY <1>1, <1>4 DEF Phase
  <2> QED BY <1>4, <2>1 DEF Contract!Next, Contract!Admit
<1>5. CASE /\ outcome = "pending" /\ saslLive /\ saslSucceeded' = TRUE
           /\ UNCHANGED <<credentials, outcome>>
  <2>1. credentials /\ Phase = "negotiating" /\ Phase' = "authenticated"
    BY <1>1, <1>5 DEF Phase
  <2> QED BY <1>5, <2>1 DEF Contract!Next, Contract!Authenticate
<1>6. CASE Receive
  <2>1. CASE outcome = "pending"
    <3>1. Head(toClient) \in ServerLine /\ Handle(Head(toClient))
      BY <1>6, <2>1, TailLines DEF Receive, IInv, TypeOK
    <3> QED BY <1>2, <1>3, <1>4, <1>5, <2>1, <3>1, HandleOutcome
  <2>2. CASE outcome # "pending"
    BY <1>2, <1>6, <2>2 DEF Receive, clientVars, saslVars
  <2> QED BY <2>1, <2>2
<1>7. CASE Timeout
  BY <1>3, <1>7 DEF Timeout, Settle, saslVars
<1>8. CASE ServerStep
  BY <1>2, <1>8 DEF ServerStep, ServerLS, ServerNick, ServerUser, ServerReq, ServerAuth,
     ServerResponse, ServerEnd, ServerRead, Welcome, clientVars, saslVars
<1>9. CASE Notice \/ Inject \/ Swallow \/ UNCHANGED vars
  BY <1>2, <1>9 DEF Notice, Inject, Swallow, vars, clientVars, saslVars
<1> QED BY <1>6, <1>7, <1>8, <1>9 DEF Next

\* register() implements its contract: it settles once, and a client that holds
\* credentials is admitted from the authenticated phase or not at all.
THEOREM Refinement == Spec => KeepsContract
<1>1. Init => Contract!Init
  <2> SUFFICES ASSUME Init PROVE Contract!Init
    OBVIOUS
  <2>1. credentials \in BOOLEAN /\ outcome = "pending" /\ saslSucceeded = FALSE
    BY Zenon DEF Init
  <2> QED BY <2>1 DEF Contract!Init, Phase
<1>2. IInv /\ [Next]_vars => [Contract!Next]_<<credentials, Phase>>
  BY StepRefines
<1> QED BY <1>1, <1>2, Invariance, PTL DEF Spec, KeepsContract, Contract!Spec

-----------------------------------------------------------------------------
(* Session: lines in flight.                                               *)

\* Each line of u is one of s, at its place, or behind those one of t, all of which are there.
Continues(u, s, t) ==
  /\ \A i \in DOMAIN s : i \in DOMAIN u /\ u[i] = s[i]
  /\ \A i \in DOMAIN u : (i \in DOMAIN s /\ u[i] = s[i]) \/ \E j \in DOMAIN t : u[i] = t[j]
  /\ \A i \in DOMAIN u \ DOMAIN s : \A k \in DOMAIN s : k < i
  /\ \A j \in DOMAIN t : \E i \in DOMAIN u \ DOMAIN s : u[i] = t[j]
  /\ \A i, k \in DOMAIN u \ DOMAIN s : i # k =>
       \E j, l \in DOMAIN t : j # l /\ u[i] = t[j] /\ u[k] = t[l]

\* A stream that grew continues the old one.
LEMMA GrowsBy ==
  ASSUME NEW S, NEW s \in Seq(S), NEW t \in Seq(S), NEW u, u = s \o t
  PROVE  Continues(u, s, t)
<1> DEFINE n == Len(s)
           k == Len(t)
<1>1. n \in Nat /\ k \in Nat /\ DOMAIN s = 1..n /\ DOMAIN t = 1..k
  OBVIOUS
<1>2. /\ DOMAIN u = 1..(n + k)
      /\ \A i \in 1..n : u[i] = s[i]
      /\ \A i \in 1..(n + k) : i > n => u[i] = t[i - n] /\ i - n \in 1..k
  BY ConcatLines
<1> HIDE DEF n, k
<1>3. \A i \in DOMAIN s : i \in DOMAIN u /\ u[i] = s[i]
  BY <1>1, <1>2
<1>4. \A i \in DOMAIN u \ DOMAIN s : i \in Nat /\ i > n /\ i - n \in DOMAIN t /\ u[i] = t[i - n]
  BY <1>1, <1>2
<1>5. \A i \in DOMAIN u : (i \in DOMAIN s /\ u[i] = s[i]) \/ \E j \in DOMAIN t : u[i] = t[j]
  BY <1>3, <1>4
<1>6. \A i \in DOMAIN u \ DOMAIN s : \A l \in DOMAIN s : l < i
  BY <1>1, <1>4
<1>7. ASSUME NEW j \in DOMAIN t PROVE \E i \in DOMAIN u \ DOMAIN s : u[i] = t[j]
  <2>1. j \in Nat /\ j >= 1 /\ j <= k
    BY <1>1
  <2>2. n + j \in 1..(n + k) /\ n + j > n /\ (n + j) - n = j /\ n + j \notin 1..n
    BY <1>1, <2>1
  <2>3. u[n + j] = t[(n + j) - n]
    BY <1>2, <2>2
  <2> QED BY <1>1, <1>2, <2>2, <2>3
<1>8. ASSUME NEW i \in DOMAIN u \ DOMAIN s, NEW l \in DOMAIN u \ DOMAIN s, i # l
      PROVE  \E j, h \in DOMAIN t : j # h /\ u[i] = t[j] /\ u[l] = t[h]
  <2>1. i \in Nat /\ l \in Nat
    BY <1>4
  <2>2. i - n # l - n
    BY <1>1, <1>8, <2>1
  <2> QED BY <1>4, <2>2
<1> QED BY <1>3, <1>5, <1>6, <1>7, <1>8 DEF Continues

\* A stream whose first line was read.
LEMMA Shrinks ==
  ASSUME NEW S, NEW s \in Seq(S), s # <<>>, NEW u, u = Tail(s)
  PROVE  /\ u \in Seq(S) /\ Head(s) \in S /\ Head(s) = s[1] /\ 1 \in DOMAIN s
         /\ \A i \in DOMAIN u : i \in Nat /\ i >= 1 /\ i + 1 \in DOMAIN s /\ u[i] = s[i + 1]
         /\ \A i \in DOMAIN s : i \in Nat /\ (i = 1 \/ (i - 1 \in DOMAIN u /\ u[i - 1] = s[i]))
<1>1. Len(s) \in Nat /\ Len(s) >= 1 /\ DOMAIN s = 1..Len(s)
  BY EmptySeq
<1>2. u \in Seq(S) /\ Head(s) \in S /\ Len(u) = Len(s) - 1 /\ \A i \in 1..Len(u) : u[i] = s[i + 1]
  BY TailLines
<1>3. Head(s) = s[1]
  OBVIOUS
<1>4. DOMAIN u = 1..(Len(s) - 1)
  BY <1>1, <1>2
<1>5. ASSUME NEW i \in DOMAIN u PROVE i \in Nat /\ i >= 1 /\ i + 1 \in DOMAIN s /\ u[i] = s[i + 1]
  BY <1>1, <1>2, <1>4
<1>6. ASSUME NEW i \in DOMAIN s PROVE i \in Nat /\ (i = 1 \/ (i - 1 \in DOMAIN u /\ u[i - 1] = s[i]))
  <2>1. i \in 1..Len(s) /\ i \in Nat
    BY <1>1
  <2>2. CASE i # 1
    <3>1. i - 1 \in 1..(Len(s) - 1) /\ (i - 1) + 1 = i
      BY <1>1, <2>1, <2>2
    <3>2. u[i - 1] = s[(i - 1) + 1]
      BY <1>2, <1>4, <3>1
    <3> QED
      BY <1>4, <2>1, <3>1, <3>2
  <2> QED
    BY <2>1, <2>2
<1> QED
  BY <1>1, <1>2, <1>3, <1>5, <1>6

\* The message of no line as a sequence.
LEMMA NoLine ==
  ASSUME NEW S, NEW s \in Seq(S)
  PROVE  s \o <<>> = s /\ <<>> \in Seq(S) /\ DOMAIN <<>> = {}
  OBVIOUS

\* The message of one line, whose place is the only one.
LEMMA OneLineOnly ==
  ASSUME NEW S, NEW x \in S
  PROVE  \E s \in Seq(S) : s = <<x>> /\ DOMAIN s = {1} /\ s[1] = x
<1>1. <<x>> \in Seq(S)
  OBVIOUS
<1>2. Len(<<x>>) = 1
  OBVIOUS
<1>3. <<x>>[1] = x
  OBVIOUS
<1>4. \A s \in Seq(S) : DOMAIN s = 1..Len(s)
  OBVIOUS
<1>5. 1..1 = {1}
  OBVIOUS
<1>6. \A s \in Seq(S) : Len(s) = 1 => DOMAIN s = {1}
  BY <1>4, <1>5
<1> QED BY <1>1, <1>2, <1>3, <1>6

\* The message of two lines.
LEMMA TwoLines ==
  ASSUME NEW S, NEW x \in S, NEW y \in S
  PROVE  \E s \in Seq(S) : s = <<x, y>> /\ DOMAIN s = {1, 2} /\ s[1] = x /\ s[2] = y
<1>1. <<x, y>> \in Seq(S)
  OBVIOUS
<1>2. Len(<<x, y>>) = 2
  OBVIOUS
<1>3. <<x, y>>[1] = x /\ <<x, y>>[2] = y
  OBVIOUS
<1>4. \A s \in Seq(S) : DOMAIN s = 1..Len(s)
  OBVIOUS
<1>5. 1..2 = {1, 2}
  OBVIOUS
<1>6. \A s \in Seq(S) : Len(s) = 2 => DOMAIN s = {1, 2}
  BY <1>4, <1>5
<1> QED BY <1>1, <1>2, <1>3, <1>6

-----------------------------------------------------------------------------
(* What a line does to the handshake.                                      *)

\* The line that ends the list of capabilities.
EndsList(m) == m.cmd = "LS" /\ ~m.more

\* What a client may send on reading m.
Answers(m, new) ==
  \A j \in DOMAIN new :
    /\ new[j].cmd \in {"CAP REQ", "CAP END", "AUTHENTICATE", "RESPONSE", "NICK"}
    /\ new[j].cmd = "CAP REQ" => EndsList(m)
    /\ new[j].cmd = "NICK" => m.cmd = "433" /\ \A k \in DOMAIN new : k = j

\* What m may do to the flags of the handshake and to its outcome.
Advances(m) ==
  /\ UNCHANGED credentials
  /\ outcome' = "resolved" => m.cmd = "001"
  /\ outcome' = "rejected" \/ outcome' = "resolved" \/ outcome' = "pending"
  /\ m.cmd = "001" => outcome' # "pending"
  /\ saslSucceeded' => saslSucceeded \/ m.cmd = "903"
  /\ (capsConcluded => capsConcluded') /\ (saslStarted => saslStarted')
  /\ ~saslStarted /\ ~EndsList(m) /\ m.cmd \notin {"ACK", "NAK", "421"} =>
       UNCHANGED <<capsConcluded, saslStarted>>

\* What m does to the sets of capabilities.
Tracks(m) ==
  /\ m.cmd = "ACK" => enabled' \in Applied(m.caps, m.off) /\ pending' = pending \ (m.caps \cup m.off)
  /\ m.cmd # "ACK" => UNCHANGED enabled
  /\ m.cmd = "NAK" => pending' = pending \ m.caps
  /\ m.cmd \notin {"ACK", "NAK"} /\ ~EndsList(m) => UNCHANGED pending
  /\ m.cmd \in {"ACK", "NAK"} /\ (capsConcluded' \/ saslStarted') =>
       capsConcluded \/ saslStarted \/ pending' = {}

\* What the end of the list asks for: each name once, or nothing.
Asks(m, new) ==
  EndsList(m) =>
    \/ UNCHANGED pending /\ \A j \in DOMAIN new : new[j].cmd # "CAP REQ"
    \/ /\ UNCHANGED <<capsConcluded, saslStarted>>
       /\ pending \subseteq pending'
       /\ \A j \in DOMAIN new :
            /\ new[j].cmd = "CAP REQ" /\ new[j].caps # {} /\ new[j].caps \subseteq pending'
            /\ \A k \in DOMAIN new : k # j => new[j].caps \cap new[k].caps = {}

HandlesAs(m, new) ==
  /\ toServer' = toServer \o new
  /\ Answers(m, new) /\ Advances(m) /\ Tracks(m) /\ Asks(m, new)

\* A handler that sends nothing.
LEMMA SendsNothing ==
  ASSUME IInv, toServer' = toServer, NEW m, Advances(m), Tracks(m), EndsList(m) => UNCHANGED pending
  PROVE  \E new \in Seq(ClientLine) : HandlesAs(m, new)
<1>1. toServer \in Seq(ClientLine)
  BY DEF IInv, TypeOK
<1>2. toServer \o <<>> = toServer /\ <<>> \in Seq(ClientLine) /\ DOMAIN <<>> = {}
  BY <1>1, NoLine
<1>3. PICK new \in Seq(ClientLine) : toServer \o new = toServer /\ DOMAIN new = {}
  BY <1>2
<1>4. Answers(m, new) /\ Asks(m, new)
  BY <1>3 DEF Answers, Asks
<1> QED BY <1>3, <1>4 DEF HandlesAs

\* A handler that sends one line other than a request.
LEMMA SendsOne ==
  ASSUME IInv, NEW x \in ClientLine, toServer' = toServer \o <<x>>, NEW m, Advances(m), Tracks(m),
         EndsList(m) => UNCHANGED pending,
         x.cmd \in {"CAP END", "AUTHENTICATE", "RESPONSE"} \/ (x.cmd = "NICK" /\ m.cmd = "433")
  PROVE  \E new \in Seq(ClientLine) : HandlesAs(m, new)
<1>1. PICK new \in Seq(ClientLine) : new = <<x>> /\ DOMAIN new = {1} /\ new[1] = x
  BY OneLineOnly
<1>2. \A j \in DOMAIN new : new[j] = x /\ \A k \in DOMAIN new : k = j
  BY <1>1
<1>3. Answers(m, new)
  BY <1>2 DEF Answers
<1>4. Asks(m, new)
  BY <1>2 DEF Asks
<1>5. toServer' = toServer \o new
  BY <1>1
<1> QED BY <1>3, <1>4, <1>5 DEF HandlesAs

\* What concludes negotiation or opens the exchange, with what the caller keeps.
LEMMA BeginIs ==
  ASSUME IInv, outcome = "pending", NEW on, BeginSaslOrConclude(on)
  PROVE  /\ \/ toServer' = toServer
            \/ toServer' = toServer \o <<Line("CAP END")>>
            \/ toServer' = toServer \o <<Line("AUTHENTICATE")>>
         /\ outcome' \in {"pending", "rejected"} /\ UNCHANGED saslSucceeded
         /\ (capsConcluded => capsConcluded') /\ (saslStarted => saslStarted')
<1>1. CASE ~credentials /\ ConcludeCaps /\ UNCHANGED <<saslVars, outcome>>
  <2>1. toServer' = toServer \/ toServer' = toServer \o <<Line("CAP END")>>
    BY <1>1 DEF ConcludeCaps, Send
  <2>2. capsConcluded' = TRUE /\ outcome' = "pending" /\ UNCHANGED <<saslSucceeded, saslStarted>>
    BY <1>1 DEF ConcludeCaps, saslVars
  <2> QED BY <2>1, <2>2
<1>2. CASE UNCHANGED <<capsConcluded, saslVars, toServer>> /\ outcome' \in {outcome, "rejected"}
  BY <1>2 DEF saslVars
<1>3. CASE /\ saslStarted' = TRUE /\ Send(<<Line("AUTHENTICATE")>>)
           /\ UNCHANGED <<capsConcluded, saslSucceeded, outcome>>
  BY <1>3 DEF Send
<1> QED BY <1>1, <1>2, <1>3 DEF BeginSaslOrConclude, Settle

\* The lines of a request carry all of it between them, each name on one, none empty.
LEMMA ReqLinesApart ==
  ASSUME NEW S \in SUBSET Caps
  PROVE  \A j \in DOMAIN ReqLines(S) :
           /\ ReqLines(S)[j].caps # {} /\ ReqLines(S)[j].caps \subseteq S
           /\ \A k \in DOMAIN ReqLines(S) : k # j => ReqLines(S)[j].caps \cap ReqLines(S)[k].caps = {}
<1> DEFINE c == Chunking[S]
           r == ReqLines(S)
<1>1. /\ c \in Seq(SUBSET Caps)
      /\ UNION {c[i] : i \in DOMAIN c} = S
      /\ \A i \in DOMAIN c : c[i] # {} /\ \A j \in 1..(i - 1) : c[i] \cap c[j] = {}
  BY ChunkingAssumption
<1>2. r = [i \in DOMAIN c |-> [cmd |-> "CAP REQ", caps |-> c[i]]]
  BY DEF ReqLines
<1> HIDE DEF c, r
<1>3. DOMAIN r = DOMAIN c /\ \A i \in DOMAIN c : r[i].caps = c[i]
  BY <1>2
<1>4. Len(c) \in Nat /\ DOMAIN c = 1..Len(c)
  BY <1>1
<1>5. ASSUME NEW j \in DOMAIN c, NEW k \in DOMAIN c, k # j PROVE c[j] \cap c[k] = {}
  <2>1. j \in Nat /\ k \in Nat /\ j >= 1 /\ k >= 1
    BY <1>4
  <2>2. CASE k < j
    <3>1. k \in 1..(j - 1)
      BY <2>1, <2>2
    <3> QED BY <1>1, <3>1
  <2>3. CASE j < k
    <3>1. j \in 1..(k - 1)
      BY <2>1, <2>3
    <3>2. c[k] \cap c[j] = {}
      BY <1>1, <3>1
    <3> QED BY <3>2
  <2> QED BY <1>5, <2>1, <2>2, <2>3
<1>6. \A j \in DOMAIN c : c[j] # {} /\ c[j] \subseteq S
  BY <1>1
<1>7. \A j \in DOMAIN r :
        /\ r[j].caps # {} /\ r[j].caps \subseteq S
        /\ \A k \in DOMAIN r : k # j => r[j].caps \cap r[k].caps = {}
  BY <1>3, <1>5, <1>6
<1> QED BY <1>7 DEF r

\* The end of the list of capabilities.
LEMMA LSIs ==
  ASSUME IInv, outcome = "pending", NEW m \in ServerLine, HandleLS(m)
  PROVE  \E new \in Seq(ClientLine) : HandlesAs(m, new)
<1>0. m.cmd = "LS" /\ m.caps \in SUBSET Caps /\ available \in SUBSET Caps /\ m.more \in BOOLEAN
  BY DEF HandleLS, ServerLine, IInv, TypeOK
<1>1. available' \in SUBSET Caps /\ UNCHANGED <<credentials, enabled, nick>>
  BY <1>0, BoundedSets DEF HandleLS
<1> DEFINE ask == Reconciled(Desired, available', credentials)
<1>2. ask \in SUBSET Caps
  BY <1>1, ReconciledSets
<1>3. \/ m.more /\ UNCHANGED <<pending, capsConcluded, saslVars, outcome, toServer>>
      \/ ~m.more /\ UNCHANGED pending /\ BeginSaslOrConclude(enabled)
      \/ /\ ~m.more /\ pending' = pending \cup ask /\ Send(ReqLines(ask))
         /\ UNCHANGED <<capsConcluded, saslVars, outcome>>
  BY DEF HandleLS
<1> HIDE DEF ask
<1>4. CASE m.more /\ UNCHANGED <<pending, capsConcluded, saslVars, outcome, toServer>>
  <2>1. Advances(m) /\ Tracks(m)
    BY <1>0, <1>1, <1>4 DEF Advances, Tracks, saslVars
  <2> QED BY <1>4, <2>1, SendsNothing
<1>5. CASE ~m.more /\ UNCHANGED pending /\ BeginSaslOrConclude(enabled)
  <2>1. /\ \/ toServer' = toServer
           \/ toServer' = toServer \o <<Line("CAP END")>>
           \/ toServer' = toServer \o <<Line("AUTHENTICATE")>>
        /\ outcome' \in {"pending", "rejected"} /\ UNCHANGED saslSucceeded
        /\ (capsConcluded => capsConcluded') /\ (saslStarted => saslStarted')
    BY <1>5, BeginIs
  <2>2. EndsList(m)
    BY <1>0, <1>5 DEF EndsList
  <2>3. Advances(m) /\ Tracks(m)
    BY <1>0, <1>1, <1>5, <2>1, <2>2 DEF Advances, Tracks
  <2>4. Line("CAP END") \in ClientLine /\ Line("AUTHENTICATE") \in ClientLine
    BY PlainLines
  <2>5. Line("CAP END").cmd = "CAP END" /\ Line("AUTHENTICATE").cmd = "AUTHENTICATE"
    BY DEF Line
  <2>6. CASE toServer' = toServer
    BY <1>5, <2>3, <2>6, SendsNothing
  <2>7. CASE toServer' = toServer \o <<Line("CAP END")>>
    BY <1>5, <2>3, <2>4, <2>5, <2>7, SendsOne
  <2>8. CASE toServer' = toServer \o <<Line("AUTHENTICATE")>>
    BY <1>5, <2>3, <2>4, <2>5, <2>8, SendsOne
  <2> QED BY <2>1, <2>6, <2>7, <2>8
<1>6. CASE /\ ~m.more /\ pending' = pending \cup ask /\ Send(ReqLines(ask))
           /\ UNCHANGED <<capsConcluded, saslVars, outcome>>
  <2>1. ReqLines(ask) \in Seq(ClientLine) /\ \A j \in DOMAIN ReqLines(ask) : ReqLines(ask)[j].cmd = "CAP REQ"
    BY <1>2, ReqLinesTyped
  <2>2. EndsList(m)
    BY <1>0, <1>6 DEF EndsList
  <2>3. Advances(m) /\ Tracks(m)
    BY <1>0, <1>1, <1>6, <2>2 DEF Advances, Tracks, saslVars
  <2>4. Answers(m, ReqLines(ask))
    BY <2>1, <2>2 DEF Answers
  <2>5. Asks(m, ReqLines(ask))
    <3>1. \A j \in DOMAIN ReqLines(ask) :
            /\ ReqLines(ask)[j].caps # {} /\ ReqLines(ask)[j].caps \subseteq ask
            /\ \A k \in DOMAIN ReqLines(ask) : k # j => ReqLines(ask)[j].caps \cap ReqLines(ask)[k].caps = {}
      BY <1>2, ReqLinesApart
    <3>2. pending \subseteq pending' /\ \A T : T \subseteq ask => T \subseteq pending'
      BY <1>6
    <3>3. UNCHANGED <<capsConcluded, saslStarted>>
      BY <1>6 DEF saslVars
    <3> QED BY <2>1, <3>1, <3>2, <3>3 DEF Asks
  <2>6. toServer' = toServer \o ReqLines(ask)
    BY <1>6 DEF Send
  <2> QED BY <2>1, <2>3, <2>4, <2>5, <2>6 DEF HandlesAs
<1> QED BY <1>3, <1>4, <1>5, <1>6

\* An answer to a request, granted or refused.
LEMMA AnsweredIs ==
  ASSUME IInv, outcome = "pending", NEW m \in ServerLine, HandleACK(m) \/ HandleNAK(m)
  PROVE  \E new \in Seq(ClientLine) : HandlesAs(m, new)
<1> DEFINE names == IF m.cmd = "ACK" THEN m.caps \cup m.off ELSE m.caps
<1>1. m.cmd \in {"ACK", "NAK"} /\ UNCHANGED credentials /\ ~EndsList(m)
  BY DEF HandleACK, HandleNAK, EndsList
<1>2. PICK on : Answered(names, on)
  <2>1. CASE HandleACK(m)
    BY <2>1 DEF HandleACK
  <2>2. CASE HandleNAK(m)
    BY <2>2 DEF HandleNAK
  <2> QED BY <2>1, <2>2
<1>3. /\ m.cmd = "ACK" => enabled' \in Applied(m.caps, m.off)
      /\ m.cmd # "ACK" => UNCHANGED enabled
  BY DEF HandleACK, HandleNAK
<1>4. /\ pending' = pending \ names
      /\ \/ pending' = {} /\ BeginSaslOrConclude(on)
         \/ UNCHANGED <<capsConcluded, saslVars, outcome, toServer>>
  BY <1>2 DEF Answered
<1>5. /\ m.cmd = "ACK" => pending' = pending \ (m.caps \cup m.off)
      /\ m.cmd = "NAK" => pending' = pending \ m.caps
  BY <1>1, <1>4
<1> HIDE DEF names
<1>6. CASE UNCHANGED <<capsConcluded, saslVars, outcome, toServer>>
  <2>1. Advances(m) /\ Tracks(m)
    BY <1>1, <1>3, <1>5, <1>6 DEF Advances, Tracks, saslVars
  <2> QED BY <1>1, <1>6, <2>1, SendsNothing
<1>7. CASE pending' = {} /\ BeginSaslOrConclude(on)
  <2>1. /\ \/ toServer' = toServer
           \/ toServer' = toServer \o <<Line("CAP END")>>
           \/ toServer' = toServer \o <<Line("AUTHENTICATE")>>
        /\ outcome' \in {"pending", "rejected"} /\ UNCHANGED saslSucceeded
        /\ (capsConcluded => capsConcluded') /\ (saslStarted => saslStarted')
    BY <1>7, BeginIs
  <2>2. Advances(m) /\ Tracks(m)
    BY <1>1, <1>3, <1>5, <1>7, <2>1 DEF Advances, Tracks
  <2>3. Line("CAP END") \in ClientLine /\ Line("AUTHENTICATE") \in ClientLine
    BY PlainLines
  <2>4. Line("CAP END").cmd = "CAP END" /\ Line("AUTHENTICATE").cmd = "AUTHENTICATE"
    BY DEF Line
  <2>5. CASE toServer' = toServer
    BY <1>1, <2>2, <2>5, SendsNothing
  <2>6. CASE toServer' = toServer \o <<Line("CAP END")>>
    BY <1>1, <2>2, <2>3, <2>4, <2>6, SendsOne
  <2>7. CASE toServer' = toServer \o <<Line("AUTHENTICATE")>>
    BY <1>1, <2>2, <2>3, <2>4, <2>7, SendsOne
  <2> QED BY <2>1, <2>5, <2>6, <2>7
<1> QED BY <1>4, <1>6, <1>7

\* The other handlers: one line at most, and no capability changes hands.
LEMMA OthersAre ==
  ASSUME IInv, outcome = "pending", NEW m \in ServerLine,
         HandleWelcome(m) \/ HandleNickInUse(m) \/ HandleFatal(m) \/ HandleNoCap(m)
           \/ HandleChallenge(m) \/ HandleLoggedIn(m) \/ HandleSaslSuccess(m)
           \/ HandleSaslFailure(m) \/ HandleOther(m)
  PROVE  \E new \in Seq(ClientLine) : HandlesAs(m, new)
<1>1. m.cmd \notin {"ACK", "NAK", "LS"} /\ UNCHANGED <<credentials, enabled, pending>>
  BY DEF HandleWelcome, HandleNickInUse, HandleFatal, HandleNoCap, HandleChallenge,
         HandleLoggedIn, HandleSaslSuccess, HandleSaslFailure, HandleOther, capVars, clientVars
<1>2. ~EndsList(m) /\ Tracks(m)
  BY <1>1 DEF EndsList, Tracks
<1>3. saslLive => saslStarted
  BY DEF IInv, FlagsAgree
<1>4. CASE HandleWelcome(m) \/ HandleFatal(m) \/ HandleNoCap(m) \/ HandleLoggedIn(m)
             \/ HandleSaslFailure(m) \/ HandleOther(m)
  <2>1. toServer' = toServer
    BY <1>4 DEF HandleWelcome, HandleFatal, HandleNoCap, HandleLoggedIn, HandleSaslFailure, HandleOther
  <2>2. Advances(m)
    BY <1>1, <1>4 DEF HandleWelcome, HandleFatal, HandleNoCap, HandleLoggedIn, HandleSaslFailure,
       HandleOther, Advances, Settle, capVars, saslVars, clientVars
  <2> QED BY <1>2, <2>1, <2>2, SendsNothing
<1>5. CASE HandleNickInUse(m)
  <2>1. m.cmd = "433" /\ nick + 1 \in Nat
    BY <1>5 DEF HandleNickInUse, IInv, TypeOK
  <2>2. Advances(m)
    BY <1>1, <1>5, <2>1 DEF HandleNickInUse, Advances, capVars, saslVars
  <2> DEFINE x == [cmd |-> "NICK", nick |-> nick + 1]
  <2>3. x \in ClientLine
    BY <2>1 DEF ClientLine
  <2>4. toServer' = toServer \o <<x>> /\ x.cmd = "NICK"
    BY <1>5 DEF HandleNickInUse, Send
  <2> HIDE DEF x
  <2> QED BY <1>2, <2>1, <2>2, <2>3, <2>4, SendsOne
<1>6. CASE HandleChallenge(m)
  <2>1. Advances(m)
    BY <1>1, <1>6 DEF HandleChallenge, Advances, Settle, capVars
  <2>2. toServer' = toServer \/ toServer' = toServer \o <<Line("RESPONSE")>>
    BY <1>6 DEF HandleChallenge, Send
  <2>3. Line("RESPONSE") \in ClientLine /\ Line("RESPONSE").cmd = "RESPONSE"
    BY PlainLines DEF Line
  <2>4. CASE toServer' = toServer
    BY <1>2, <2>1, <2>4, SendsNothing
  <2>5. CASE toServer' = toServer \o <<Line("RESPONSE")>>
    BY <1>2, <2>1, <2>3, <2>5, SendsOne
  <2> QED BY <2>2, <2>4, <2>5
<1>7. CASE HandleSaslSuccess(m)
  <2>1. /\ m.cmd = "903" /\ saslStarted /\ capsConcluded' = TRUE
        /\ UNCHANGED <<credentials, saslStarted, outcome>>
    BY <1>3, <1>7 DEF HandleSaslSuccess, ConcludeCaps
  <2>2. Advances(m)
    BY <2>1 DEF Advances
  <2>3. toServer' = toServer \/ toServer' = toServer \o <<Line("CAP END")>>
    BY <1>7 DEF HandleSaslSuccess, ConcludeCaps, Send
  <2>4. Line("CAP END") \in ClientLine /\ Line("CAP END").cmd = "CAP END"
    BY PlainLines DEF Line
  <2>5. CASE toServer' = toServer
    BY <1>2, <2>2, <2>5, SendsNothing
  <2>6. CASE toServer' = toServer \o <<Line("CAP END")>>
    BY <1>2, <2>2, <2>4, <2>6, SendsOne
  <2> QED BY <2>3, <2>5, <2>6
<1> QED BY <1>4, <1>5, <1>6, <1>7

\* Every line read during the handshake.
LEMMA HandleIs ==
  ASSUME IInv, outcome = "pending", NEW m \in ServerLine, Handle(m)
  PROVE  \E new \in Seq(ClientLine) : HandlesAs(m, new)
<1>1. CASE HandleLS(m)
  BY <1>1, LSIs
<1>2. CASE HandleACK(m) \/ HandleNAK(m)
  BY <1>2, AnsweredIs
<1>3. CASE \/ HandleWelcome(m) \/ HandleNickInUse(m) \/ HandleFatal(m) \/ HandleNoCap(m)
           \/ HandleChallenge(m) \/ HandleLoggedIn(m) \/ HandleSaslSuccess(m)
           \/ HandleSaslFailure(m) \/ HandleOther(m)
  BY <1>3, OthersAre
<1> QED BY <1>1, <1>2, <1>3 DEF Handle

-----------------------------------------------------------------------------
(* The pump around the handshake, and the invariant of the handshake.      *)

\* Once we are up a line may send requests and nothing else.
LEMMA UpIs ==
  ASSUME IInv, DeliverWhenUp
  PROVE  /\ \E new \in Seq(ClientLine) :
              toServer' = toServer \o new /\ \A j \in DOMAIN new : new[j].cmd = "CAP REQ"
         /\ WireOK' /\ available' \subseteq Caps /\ enabled' \subseteq Caps
         /\ UNCHANGED <<credentials, pending, capsConcluded, nick, saslStarted, saslLive, challenge,
                        saslSucceeded, account, outcome>>
<1>1. UNCHANGED <<credentials, pending, capsConcluded, nick, saslStarted, saslLive, challenge,
                  saslSucceeded, account, outcome>>
  BY DEF DeliverWhenUp, saslVars
<1>2. FlagsGrow
  BY <1>1 DEF FlagsGrow
<1>3. /\ available \in SUBSET Caps /\ enabled \in SUBSET Caps /\ toServer \in Seq(ClientLine)
      /\ toClient \in Seq(ServerLine)
  BY DEF IInv, TypeOK
<1> DEFINE m == Head(toClient)
<1>4. m \in ServerLine
  BY <1>3, TailLines DEF DeliverWhenUp
<1>5. \/ CapNew(m) \/ CapDel(m) \/ CapAck(m)
      \/ UNCHANGED <<available, enabled, toServer>>
  BY DEF DeliverWhenUp
<1> HIDE DEF m
<1>6. ASSUME toServer' = toServer
      PROVE  /\ \E new \in Seq(ClientLine) :
                  toServer' = toServer \o new /\ \A j \in DOMAIN new : new[j].cmd = "CAP REQ"
             /\ WireOK'
  <2>1. toServer \o <<>> = toServer /\ <<>> \in Seq(ClientLine) /\ DOMAIN <<>> = {}
    BY <1>3, NoLine
  <2>2. PICK new \in Seq(ClientLine) : toServer \o new = toServer /\ DOMAIN new = {}
    BY <2>1
  <2>3. toServer' = toServer \o new /\ \A j \in DOMAIN new : new[j].cmd = "CAP REQ"
    BY <1>6, <2>2
  <2>4. WireOK'
    BY <1>2, <1>6, QuietKeepsWire DEF WireOK
  <2> QED BY <2>3, <2>4
<1>7. CASE CapNew(m)
  <2>1. m.caps \in SUBSET Caps
    BY <1>4, <1>7 DEF CapNew, ServerLine
  <2>2. available' \in SUBSET Caps
    BY <1>3, <1>7, <2>1, BoundedSets DEF CapNew
  <2> DEFINE ask == WantedFrom(m.caps, available')
  <2>3. ask \in SUBSET Caps
    BY <2>2, ReconciledSets DEF WantedFrom
  <2>4. Send(ReqLines(ask)) /\ UNCHANGED enabled
    BY <1>7 DEF CapNew
  <2> HIDE DEF ask
  <2>5. ReqLines(ask) \in Seq(ClientLine) /\ \A j \in DOMAIN ReqLines(ask) : ReqLines(ask)[j].cmd = "CAP REQ"
    BY <2>3, ReqLinesTyped
  <2>6. WireOK'
    BY <1>2, <2>3, <2>4, SendReqKeepsWire
  <2>7. toServer' = toServer \o ReqLines(ask)
    BY <2>4 DEF Send
  <2> QED BY <1>1, <1>3, <2>2, <2>4, <2>5, <2>6, <2>7
<1>8. CASE CapDel(m)
  <2>1. toServer' = toServer /\ available' \subseteq Caps /\ enabled' \subseteq Caps
    BY <1>3, <1>8 DEF CapDel
  <2> QED BY <1>1, <1>6, <2>1
<1>9. CASE CapAck(m)
  <2>1. m.caps \in SUBSET Caps /\ m.off \in SUBSET Caps
    BY <1>4, <1>9 DEF CapAck, ServerLine
  <2>2. enabled' \in SUBSET Caps
    BY <1>3, <1>9, <2>1, AppliedSets DEF CapAck
  <2>3. toServer' = toServer /\ UNCHANGED available
    BY <1>9 DEF CapAck
  <2> QED BY <1>1, <1>3, <1>6, <2>2, <2>3
<1>10. CASE UNCHANGED <<available, enabled, toServer>>
  BY <1>1, <1>3, <1>6, <1>10
<1> QED BY <1>5, <1>7, <1>8, <1>9, <1>10

\* The invariant of the handshake outlives it, as only a named client is renamed.
LEMMA SessionKeepsIInv ==
  ASSUME IInv, srvWelcomed => srvNick # NoNick, [SessionNext]_allVars
  PROVE  IInv'
<1>0. Core /\ DataTypes /\ ServerTypes /\ LinesTyped
  BY IInvSplit
<1>1. CASE [Next]_vars
  BY <1>1, NextIInv
<1>2. CASE DeliverWhenUp
  <2>1. /\ WireOK' /\ available' \subseteq Caps /\ enabled' \subseteq Caps
        /\ UNCHANGED <<credentials, pending, capsConcluded, nick, saslStarted, saslLive, challenge,
                       saslSucceeded, account, outcome>>
    BY <1>2, UpIs
  <2>2. Core' /\ DataTypes'
    <3>1. CoreTypes' /\ FlagsAgree'
      BY <1>0, <2>1 DEF Core, CoreTypes, FlagsAgree
    <3>2. DataTypes'
      BY <1>0, <2>1 DEF DataTypes
    <3> QED BY <2>1, <3>1, <3>2 DEF Core
  <2>3. LinesTyped'
    BY <1>0, <1>2, TailLines DEF LinesTyped, DeliverWhenUp
  <2>4. ServerTypes'
    BY <1>0, <1>2 DEF DeliverWhenUp, ServerTypes, serverVars
  <2> QED BY <2>2, <2>3, <2>4, IInvNext
<1>3. CASE ServerRename
  <2>1. UNCHANGED clientVars /\ toServer' = toServer
    BY <1>3 DEF ServerRename
  <2>2. WireOK'
    BY <2>1, QuietKeepsWire DEF WireOK, FlagsGrow, clientVars, capVars, saslVars
  <2>3. Core' /\ DataTypes'
    BY <2>1, <2>2, ClientIdle
  <2>4. srvNick' = srvNick + 1 /\ srvNick \in Nat \cup {NoNick}
    BY <1>0, <1>3 DEF ServerRename, ServerTypes
  <2>5. srvNick \in Nat
    BY <1>0, <1>3, <2>4 DEF ServerRename
  <2>6. [cmd |-> "NICK", nick |-> srvNick + 1] \in ServerLine
    BY <2>5 DEF ServerLine
  <2>7. LinesTyped'
    BY <1>0, <1>3, <2>6, ReplyOne DEF ServerRename
  <2>8. ServerTypes'
    BY <1>0, <1>3, <2>4, <2>5 DEF ServerRename, ServerTypes
  <2> QED BY <2>3, <2>7, <2>8, IInvNext
<1>4. \/ [Next]_vars \/ DeliverWhenUp \/ ServerRename
  BY DEF SessionNext, DeliverToHandshake, DeliverInGap, Continue, TimeoutFires, ServerAnswers,
         ServerNotice, Next, allVars
<1> QED BY <1>1, <1>2, <1>3, <1>4

-----------------------------------------------------------------------------
(* A client is admitted once it has let go of registration, and it does    *)
(* not let go before its exchange succeeded.                               *)

\* CAP LS is the first line the server reads, before USER.
ListedFirst ==
  \A i \in DOMAIN toServer : toServer[i].cmd = "CAP LS" => i = 1 /\ ~srvUser

\* A server with capabilities holds registration until we have concluded.
HeldUntilConcluded ==
  srvKind = "modern" /\ ~srvHold =>
    capsConcluded \/ (toServer # <<>> /\ toServer[1].cmd = "CAP LS")

\* The success the server tells us of has happened.
SuccessIsReal ==
  saslSucceeded \/ (\E i \in DOMAIN toClient : toClient[i].cmd = "903") => srvSasl = "done"

\* Whoever was welcomed had done its part.
WelcomedReady ==
  srvWelcomed => srvUser /\ srvNick # NoNick /\ (srvKind = "modern" => capsConcluded)

AInv == IInv /\ ListedFirst /\ HeldUntilConcluded /\ SuccessIsReal /\ WelcomedReady

\* A step of the client's: it reads at most a line and sends what is no CAP LS, and one
\* nick at most when the line told it that the last one is in use.
ClientStep(new) ==
  /\ toServer' = toServer \o new
  /\ \A j \in DOMAIN new :
       /\ new[j].cmd # "CAP LS"
       /\ new[j].cmd = "NICK" =>
            /\ toClient # <<>> /\ toClient[1].cmd = "433" /\ toClient' = Tail(toClient)
            /\ \A k \in DOMAIN new : k = j
  /\ toClient' = toClient \/ (toClient # <<>> /\ toClient' = Tail(toClient))
  /\ UNCHANGED serverVars
  /\ capsConcluded => capsConcluded'
  /\ saslSucceeded' => saslSucceeded \/ (toClient # <<>> /\ toClient[1].cmd = "903")
  /\ outcome' # outcome => outcome = "pending"
  /\ outcome' = "resolved" /\ outcome # "resolved" =>
       toClient # <<>> /\ toClient[1].cmd = "001" /\ toClient' = Tail(toClient)

ClientMoves == DeliverToHandshake \/ DeliverInGap \/ Continue \/ DeliverWhenUp \/ TimeoutFires

\* A step that leaves the handshake and the streams alone is a step of the client's.
LEMMA IdleStep ==
  ASSUME IInv, UNCHANGED <<clientVars, toServer, serverVars>>,
         toClient' = toClient \/ (toClient # <<>> /\ toClient' = Tail(toClient))
  PROVE  \E new \in Seq(ClientLine) : ClientStep(new)
<1>1. toServer \in Seq(ClientLine)
  BY DEF IInv, TypeOK
<1>2. toServer \o <<>> = toServer /\ <<>> \in Seq(ClientLine) /\ DOMAIN <<>> = {}
  BY <1>1, NoLine
<1>3. PICK new \in Seq(ClientLine) : toServer \o new = toServer /\ DOMAIN new = {}
  BY <1>2
<1>4. ClientStep(new)
  BY <1>3 DEF ClientStep, clientVars, capVars, saslVars
<1> QED BY <1>4

\* Every step of the client's is a ClientStep.
LEMMA ClientMovesAre ==
  ASSUME IInv, ClientMoves
  PROVE  \E new \in Seq(ClientLine) : ClientStep(new)
<1>0. toServer \in Seq(ClientLine) /\ toClient \in Seq(ServerLine)
  BY DEF IInv, TypeOK
<1>1. ASSUME toClient # <<>> PROVE Head(toClient) = toClient[1] /\ Head(toClient) \in ServerLine
  BY <1>0, <1>1, Shrinks
<1>2. CASE Receive
  <2>1. toClient # <<>> /\ toClient' = Tail(toClient) /\ UNCHANGED serverVars
    BY <1>2 DEF Receive
  <2>2. CASE outcome = "pending"
    <3>1. Handle(Head(toClient))
      BY <1>2, <2>2 DEF Receive
    <3>2. PICK new \in Seq(ClientLine) : HandlesAs(Head(toClient), new)
      BY <1>1, <2>1, <2>2, <3>1, HandleIs
    <3>3. Head(toClient) = toClient[1]
      BY <1>1, <2>1
    <3>4. /\ toServer' = toServer \o new
          /\ \A j \in DOMAIN new :
               /\ new[j].cmd # "CAP LS"
               /\ new[j].cmd = "NICK" =>
                    /\ toClient # <<>> /\ toClient[1].cmd = "433" /\ toClient' = Tail(toClient)
                    /\ \A k \in DOMAIN new : k = j
      BY <2>1, <3>2, <3>3 DEF HandlesAs, Answers
    <3>5. /\ capsConcluded => capsConcluded'
          /\ saslSucceeded' => saslSucceeded \/ (toClient # <<>> /\ toClient[1].cmd = "903")
          /\ outcome' = "resolved" /\ outcome # "resolved" =>
               toClient # <<>> /\ toClient[1].cmd = "001" /\ toClient' = Tail(toClient)
      BY <2>1, <3>2, <3>3 DEF HandlesAs, Advances
    <3>6. ClientStep(new)
      BY <2>1, <2>2, <3>4, <3>5 DEF ClientStep
    <3> QED BY <3>6
  <2>3. CASE outcome # "pending"
    <3>1. UNCHANGED <<clientVars, toServer>>
      BY <1>2, <2>3 DEF Receive
    <3> QED BY <2>1, <3>1, IdleStep
  <2> QED BY <2>2, <2>3
<1>3. CASE DeliverWhenUp
  <2>1. PICK new \in Seq(ClientLine) :
          toServer' = toServer \o new /\ \A j \in DOMAIN new : new[j].cmd = "CAP REQ"
    BY <1>3, UpIs
  <2>2. UNCHANGED <<capsConcluded, saslSucceeded, outcome, serverVars>>
    BY <1>3 DEF DeliverWhenUp, saslVars
  <2>3. toClient # <<>> /\ toClient' = Tail(toClient)
    BY <1>3 DEF DeliverWhenUp
  <2>4. ClientStep(new)
    BY <2>1, <2>2, <2>3 DEF ClientStep
  <2> QED BY <2>4
<1>4. CASE Continue
  BY <1>4, IdleStep DEF Continue, vars
<1>5. CASE Timeout
  <2>1. PICK new \in Seq(ClientLine) : toServer \o new = toServer /\ DOMAIN new = {}
    <3>1. toServer \o <<>> = toServer /\ <<>> \in Seq(ClientLine) /\ DOMAIN <<>> = {}
      BY <1>0, NoLine
    <3> QED BY <3>1
  <2>2. ClientStep(new)
    BY <1>5, <2>1 DEF Timeout, Settle, ClientStep, capVars, saslVars
  <2> QED BY <2>2
<1> QED BY <1>2, <1>3, <1>4, <1>5 DEF ClientMoves, DeliverToHandshake, DeliverInGap, TimeoutFires

\* The client's steps keep the invariant.
LEMMA ClientKeepsA ==
  ASSUME AInv, ClientMoves
  PROVE  ListedFirst' /\ HeldUntilConcluded' /\ SuccessIsReal' /\ WelcomedReady'
<1>0. toServer \in Seq(ClientLine) /\ toClient \in Seq(ServerLine)
  BY DEF AInv, IInv, TypeOK
<1>1. PICK new \in Seq(ClientLine) : ClientStep(new)
  BY ClientMovesAre DEF AInv
<1>2. /\ toServer' = toServer \o new /\ \A j \in DOMAIN new : new[j].cmd # "CAP LS"
      /\ UNCHANGED <<srvKind, srvHold, srvUser, srvNick, srvSasl, srvWelcomed>>
      /\ capsConcluded => capsConcluded'
  BY <1>1 DEF ClientStep, serverVars
<1>3. Continues(toServer', toServer, new)
  BY <1>0, <1>2, GrowsBy
<1>4. ListedFirst'
  <2>1. \A i \in DOMAIN toServer' :
          (i \in DOMAIN toServer /\ toServer'[i] = toServer[i]) \/ \E j \in DOMAIN new : toServer'[i] = new[j]
    BY <1>3 DEF Continues
  <2> QED BY <1>2, <2>1 DEF ListedFirst, AInv
<1>5. HeldUntilConcluded'
  <2> SUFFICES ASSUME srvKind' = "modern", ~srvHold', ~capsConcluded'
               PROVE  toServer' # <<>> /\ toServer'[1].cmd = "CAP LS"
    BY DEF HeldUntilConcluded
  <2>1. toServer # <<>> /\ toServer[1].cmd = "CAP LS"
    BY <1>2 DEF HeldUntilConcluded, AInv
  <2>2. 1 \in DOMAIN toServer
    BY <1>0, <2>1, Shrinks
  <2>3. 1 \in DOMAIN toServer' /\ toServer'[1] = toServer[1]
    BY <1>3, <2>2 DEF Continues
  <2>4. toServer' # <<>>
    BY <2>3
  <2> QED BY <2>1, <2>3, <2>4
<1>6. SuccessIsReal'
  <2>1. toClient # <<>> => 1 \in DOMAIN toClient
    BY <1>0, Shrinks
  <2>2. saslSucceeded' => saslSucceeded \/ \E i \in DOMAIN toClient : toClient[i].cmd = "903"
    BY <1>1, <2>1 DEF ClientStep
  <2>3. \A i \in DOMAIN toClient' : \E j \in DOMAIN toClient : toClient'[i] = toClient[j]
    <3>1. CASE toClient' = toClient
      BY <3>1
    <3>2. CASE toClient # <<>> /\ toClient' = Tail(toClient)
      BY <1>0, <3>2, Shrinks
    <3> QED BY <1>1, <3>1, <3>2 DEF ClientStep
  <2> QED BY <1>2, <2>2, <2>3 DEF SuccessIsReal, AInv
<1>7. WelcomedReady'
  BY <1>2 DEF WelcomedReady, AInv
<1> QED BY <1>4, <1>5, <1>6, <1>7

\* What the server's steps say, one message t each.
ServerMoves == ServerAnswers \/ ServerNotice \/ ServerRename

ReadBy(cmd) == toServer # <<>> /\ toServer[1].cmd = cmd /\ toServer' = Tail(toServer)

\* Each line the server sends is true of it once the step is done, and says what was read.
SaysAs(t) ==
  \A j \in DOMAIN t :
    /\ t[j].cmd \in {"LS", "421", "433", "ACK", "NAK", "challenge", "900", "903", "904", "908",
                     "001", "NEW", "DEL", "NICK"}
    /\ t[j].cmd = "903" => srvSasl' = "done"
    /\ t[j].cmd \in {"LS", "421"} => ReadBy("CAP LS")
    /\ t[j].cmd = "421" => srvKind # "modern"
    /\ t[j].cmd = "LS" => srvKind = "modern"
    /\ t[j].cmd \in {"LS", "ACK", "NAK", "NEW", "DEL"} => t[j].caps \subseteq Caps
    /\ t[j].cmd = "433" => ReadBy("NICK") /\ UNCHANGED srvNick
    /\ t[j].cmd = "001" => /\ ~srvWelcomed /\ srvWelcomed' /\ srvUser /\ srvNick # NoNick
                           /\ UNCHANGED srvNick /\ t[j].nick = srvNick
    /\ t[j].cmd = "NICK" => MayNotify /\ t[j].nick = srvNick'
    /\ t[j].cmd \in {"NEW", "DEL"} => MayNotify /\ srvKind = "modern"
    /\ t[j].cmd \in {"ACK", "NAK"} => ReadBy("CAP REQ") /\ t[j].caps = toServer[1].caps
    /\ t[j].cmd = "ACK" => t[j].off = {}

\* A message holds one line, except for a list on two lines and for what ends an exchange;
\* a list ends once.
Single(t) ==
  /\ \A j \in DOMAIN t : t[j].cmd \in {"421", "433", "001", "NICK", "NEW", "DEL", "ACK", "NAK"} =>
       \A k \in DOMAIN t : k = j
  /\ \A j, k \in DOMAIN t : EndsList(t[j]) /\ EndsList(t[k]) => k = j

\* A message of one line.
LEMMA OneSaid ==
  ASSUME IInv, NEW x \in ServerLine, Reply(<<x>>)
  PROVE  \E t \in Seq(ServerLine) : toClient' = toClient \o t /\ DOMAIN t = {1} /\ t[1] = x
<1>1. PICK t \in Seq(ServerLine) : t = <<x>> /\ DOMAIN t = {1} /\ t[1] = x
  BY OneLineOnly
<1>2. toClient' = toClient \o t
  BY <1>1 DEF Reply
<1> QED BY <1>1, <1>2

\* A message of two lines.
LEMMA TwoSaid ==
  ASSUME IInv, NEW x \in ServerLine, NEW y \in ServerLine, Reply(<<x, y>>)
  PROVE  \E t \in Seq(ServerLine) :
           toClient' = toClient \o t /\ DOMAIN t = {1, 2} /\ t[1] = x /\ t[2] = y
<1>1. PICK t \in Seq(ServerLine) : t = <<x, y>> /\ DOMAIN t = {1, 2} /\ t[1] = x /\ t[2] = y
  BY TwoLines
<1>2. toClient' = toClient \o t
  BY <1>1 DEF Reply
<1> QED BY <1>1, <1>2

\* No message at all.
LEMMA NothingSaid ==
  ASSUME IInv, toClient' = toClient
  PROVE  \E t \in Seq(ServerLine) : toClient' = toClient \o t /\ SaysAs(t) /\ Single(t) /\ DOMAIN t = {}
<1>1. toClient \in Seq(ServerLine)
  BY DEF IInv, TypeOK
<1>2. toClient \o <<>> = toClient /\ <<>> \in Seq(ServerLine) /\ DOMAIN <<>> = {}
  BY <1>1, NoLine
<1>3. PICK t \in Seq(ServerLine) : toClient \o t = toClient /\ DOMAIN t = {}
  BY <1>2
<1>4. SaysAs(t) /\ Single(t)
  BY <1>3 DEF SaysAs, Single
<1> QED BY <1>3, <1>4

\* What a read takes off the wire.
LEMMA ReadIs ==
  ASSUME IInv, NEW cmd, ServerRead(cmd)
  PROVE  /\ ReadBy(cmd) /\ Head(toServer) = toServer[1] /\ toServer[1] \in ClientLine
         /\ UNCHANGED <<clientVars, srvKind, srvCaps, srvWelcomed, injected, notices>>
         /\ srvKind # "hostile"
<1>1. toServer \in Seq(ClientLine) /\ toServer # <<>>
  BY DEF IInv, TypeOK, ServerRead
<1>2. Head(toServer) = toServer[1] /\ toServer[1] \in ClientLine
  BY <1>1, Shrinks
<1> QED BY <1>1, <1>2 DEF ServerRead, ReadBy, Honest

\* The list of capabilities, a 421, or nothing.
LEMMA LSSays ==
  ASSUME IInv, ServerLS
  PROVE  \E t \in Seq(ServerLine) :
           /\ toClient' = toClient \o t /\ SaysAs(t) /\ Single(t)
           /\ \A j \in DOMAIN t : t[j].cmd \in {"LS", "421"}
<1>1. ReadBy("CAP LS")
  BY ReadIs DEF ServerLS
<1>2. srvCaps \in SUBSET Caps
  BY DEF IInv, TypeOK
<1>3. CASE srvKind = "modern" /\ Reply(<<[cmd |-> "LS", caps |-> srvCaps, more |-> FALSE]>>)
  <2> DEFINE x == [cmd |-> "LS", caps |-> srvCaps, more |-> FALSE]
  <2>1. x \in ServerLine
    BY <1>2, ServerLines
  <2>2. x.cmd = "LS" /\ x.caps \subseteq Caps
    BY <1>2
  <2>3. Reply(<<x>>)
    BY <1>3
  <2> HIDE DEF x
  <2>4. PICK t \in Seq(ServerLine) : toClient' = toClient \o t /\ DOMAIN t = {1} /\ t[1] = x
    BY <2>1, <2>3, OneSaid
  <2>5. \A j \in DOMAIN t : t[j] = x /\ \A k \in DOMAIN t : k = j
    BY <2>4
  <2>6. SaysAs(t) /\ Single(t)
    BY <1>1, <1>3, <2>2, <2>5 DEF SaysAs, Single
  <2> QED BY <2>2, <2>4, <2>5, <2>6
<1>4. ASSUME srvKind = "modern", NEW S \in SUBSET srvCaps,
             Reply(<<[cmd |-> "LS", caps |-> S, more |-> TRUE],
                     [cmd |-> "LS", caps |-> srvCaps \ S, more |-> FALSE]>>)
      PROVE  \E t \in Seq(ServerLine) :
               /\ toClient' = toClient \o t /\ SaysAs(t) /\ Single(t)
               /\ \A j \in DOMAIN t : t[j].cmd \in {"LS", "421"}
  <2> DEFINE x == [cmd |-> "LS", caps |-> S, more |-> TRUE]
             y == [cmd |-> "LS", caps |-> srvCaps \ S, more |-> FALSE]
  <2>1. S \in SUBSET Caps /\ srvCaps \ S \in SUBSET Caps
    BY <1>2
  <2>2. x \in ServerLine /\ y \in ServerLine
    BY <2>1, ServerLines
  <2>3. /\ x.cmd = "LS" /\ x.caps \subseteq Caps /\ y.cmd = "LS" /\ y.caps \subseteq Caps
        /\ ~EndsList(x)
    BY <2>1 DEF EndsList
  <2>4. Reply(<<x, y>>)
    BY <1>4
  <2> HIDE DEF x, y
  <2>5. PICK t \in Seq(ServerLine) :
          toClient' = toClient \o t /\ DOMAIN t = {1, 2} /\ t[1] = x /\ t[2] = y
    BY <2>2, <2>4, TwoSaid
  <2>6. \A j \in DOMAIN t : t[j] \in {x, y} /\ (EndsList(t[j]) => j = 2)
    BY <2>3, <2>5
  <2>7. SaysAs(t) /\ Single(t)
    BY <1>1, <1>4, <2>3, <2>6 DEF SaysAs, Single
  <2> QED BY <2>3, <2>5, <2>6, <2>7
<1>5. CASE srvKind = "421" /\ Reply(<<Line("421")>>)
  <2>1. Line("421") \in ServerLine /\ Line("421").cmd = "421"
    BY ServerLines DEF Line
  <2>2. PICK t \in Seq(ServerLine) : toClient' = toClient \o t /\ DOMAIN t = {1} /\ t[1] = Line("421")
    BY <1>5, <2>1, OneSaid
  <2>3. \A j \in DOMAIN t : t[j].cmd = "421" /\ \A k \in DOMAIN t : k = j
    BY <2>1, <2>2
  <2>4. SaysAs(t) /\ Single(t)
    BY <1>1, <1>5, <2>3 DEF SaysAs, Single
  <2> QED BY <2>2, <2>3, <2>4
<1>6. CASE srvKind = "silent" /\ UNCHANGED toClient
  BY <1>6, NothingSaid
<1> QED BY <1>3, <1>4, <1>5, <1>6 DEF ServerLS

\* An answer to a request, or to a nick.
LEMMA ReqSays ==
  ASSUME IInv, ServerReq
  PROVE  /\ toServer[1] \in ClientLine /\ toServer[1].caps \subseteq Caps
         /\ \E t \in Seq(ServerLine) :
              /\ toClient' = toClient \o t /\ SaysAs(t) /\ Single(t) /\ DOMAIN t = {1}
              /\ \/ t[1].cmd = "ACK" /\ srvEnabled' = srvEnabled \cup toServer[1].caps
                 \/ t[1].cmd = "NAK" /\ UNCHANGED srvEnabled
<1>1. ReadBy("CAP REQ") /\ Head(toServer) = toServer[1] /\ toServer[1] \in ClientLine
  BY ReadIs DEF ServerReq
<1> DEFINE S == toServer[1].caps
           x == [cmd |-> "ACK", caps |-> S, off |-> {}]
           y == [cmd |-> "NAK", caps |-> S]
<1>2. S \in SUBSET Caps
  BY <1>1 DEF ReadBy, ClientLine
<1>3. x \in ServerLine /\ y \in ServerLine
  BY <1>2, ServerLines
<1>4. x.cmd = "ACK" /\ x.caps = S /\ x.off = {} /\ y.cmd = "NAK" /\ y.caps = S
  OBVIOUS
<1>5. \/ Reply(<<x>>) /\ srvEnabled' = srvEnabled \cup S
      \/ Reply(<<y>>) /\ UNCHANGED srvEnabled
  BY <1>1 DEF ServerReq
<1> HIDE DEF x, y
<1>6. CASE Reply(<<x>>) /\ srvEnabled' = srvEnabled \cup S
  <2>1. PICK t \in Seq(ServerLine) : toClient' = toClient \o t /\ DOMAIN t = {1} /\ t[1] = x
    BY <1>3, <1>6, OneSaid
  <2>2. \A j \in DOMAIN t : t[j] = x /\ \A k \in DOMAIN t : k = j
    BY <2>1
  <2>3. SaysAs(t) /\ Single(t)
    BY <1>1, <1>2, <1>4, <2>2 DEF SaysAs, Single
  <2> QED BY <1>1, <1>2, <1>4, <1>6, <2>1, <2>3
<1>7. CASE Reply(<<y>>) /\ UNCHANGED srvEnabled
  <2>1. PICK t \in Seq(ServerLine) : toClient' = toClient \o t /\ DOMAIN t = {1} /\ t[1] = y
    BY <1>3, <1>7, OneSaid
  <2>2. \A j \in DOMAIN t : t[j] = y /\ \A k \in DOMAIN t : k = j
    BY <2>1
  <2>3. SaysAs(t) /\ Single(t)
    BY <1>1, <1>2, <1>4, <2>2 DEF SaysAs, Single
  <2> QED BY <1>1, <1>2, <1>4, <1>7, <2>1, <2>3
<1> QED BY <1>5, <1>6, <1>7

\* A nick in use is refused with a 433, and any other is taken without a word.
LEMMA NickSays ==
  ASSUME IInv, ServerNick
  PROVE  \E t \in Seq(ServerLine) :
           /\ toClient' = toClient \o t /\ SaysAs(t) /\ Single(t)
           /\ \/ UNCHANGED srvNick /\ \A j \in DOMAIN t : t[j].cmd = "433"
              \/ srvNick' \in Nat /\ DOMAIN t = {}
<1>1. ReadBy("NICK") /\ Head(toServer) = toServer[1] /\ toServer[1] \in ClientLine
  BY ReadIs DEF ServerNick
<1>2. \/ Reply(<<Line("433")>>) /\ UNCHANGED srvNick
      \/ srvNick' = toServer[1].nick /\ UNCHANGED toClient
  BY <1>1 DEF ServerNick
<1>3. CASE Reply(<<Line("433")>>) /\ UNCHANGED srvNick
  <2>1. Line("433") \in ServerLine /\ Line("433").cmd = "433"
    BY ServerLines DEF Line
  <2>2. PICK t \in Seq(ServerLine) : toClient' = toClient \o t /\ DOMAIN t = {1} /\ t[1] = Line("433")
    BY <1>3, <2>1, OneSaid
  <2>3. \A j \in DOMAIN t : t[j].cmd = "433" /\ \A k \in DOMAIN t : k = j
    BY <2>1, <2>2
  <2>4. SaysAs(t) /\ Single(t)
    BY <1>1, <1>3, <2>3 DEF SaysAs, Single
  <2> QED BY <1>3, <2>2, <2>3, <2>4
<1>4. CASE srvNick' = toServer[1].nick /\ UNCHANGED toClient
  <2>1. toServer[1].nick \in Nat
    BY <1>1 DEF ReadBy, ClientLine
  <2> QED BY <1>4, <2>1, NothingSaid
<1> QED BY <1>2, <1>3, <1>4

\* The server's part of an exchange.
LEMMA SaslSays ==
  ASSUME IInv, ServerAuth \/ ServerResponse
  PROVE  \E t \in Seq(ServerLine) :
           /\ toClient' = toClient \o t /\ SaysAs(t) /\ Single(t)
           /\ \A j \in DOMAIN t : t[j].cmd \in {"challenge", "900", "903", "904", "908"}
<1>1. ASSUME NEW c \in {"challenge", "904"}, Reply(<<Line(c)>>)
      PROVE  \E t \in Seq(ServerLine) :
               /\ toClient' = toClient \o t /\ SaysAs(t) /\ Single(t)
               /\ \A j \in DOMAIN t : t[j].cmd \in {"challenge", "900", "903", "904", "908"}
  <2>1. Line(c) \in ServerLine /\ Line(c).cmd = c
    BY <1>1, ServerLines DEF Line
  <2>2. PICK t \in Seq(ServerLine) : toClient' = toClient \o t /\ DOMAIN t = {1} /\ t[1] = Line(c)
    BY <1>1, <2>1, OneSaid
  <2>3. \A j \in DOMAIN t : t[j].cmd = c
    BY <2>1, <2>2
  <2>4. SaysAs(t) /\ Single(t)
    BY <1>1, <2>3 DEF SaysAs, Single, EndsList
  <2> QED BY <2>2, <2>3, <2>4
<1>2. ASSUME NEW c \in {"908", "900"}, NEW d \in {"904", "903"}, Reply(<<Line(c), Line(d)>>),
             d = "903" => srvSasl' = "done"
      PROVE  \E t \in Seq(ServerLine) :
               /\ toClient' = toClient \o t /\ SaysAs(t) /\ Single(t)
               /\ \A j \in DOMAIN t : t[j].cmd \in {"challenge", "900", "903", "904", "908"}
  <2>1. Line(c) \in ServerLine /\ Line(c).cmd = c /\ Line(d) \in ServerLine /\ Line(d).cmd = d
    BY <1>2, ServerLines DEF Line
  <2>2. PICK t \in Seq(ServerLine) :
          toClient' = toClient \o t /\ DOMAIN t = {1, 2} /\ t[1] = Line(c) /\ t[2] = Line(d)
    BY <1>2, <2>1, TwoSaid
  <2>3. \A j \in DOMAIN t : t[j].cmd \in {c, d}
    BY <2>1, <2>2
  <2>4. SaysAs(t) /\ Single(t)
    BY <1>2, <2>3 DEF SaysAs, Single, EndsList
  <2> QED BY <1>2, <2>2, <2>3, <2>4
<1>3. \/ Reply(<<Line("challenge")>>) \/ Reply(<<Line("904")>>) \/ Reply(<<Line("908"), Line("904")>>)
      \/ Reply(<<Line("900"), Line("903")>>) /\ srvSasl' = "done"
  BY DEF ServerAuth, ServerResponse
<1> QED BY <1>1, <1>2, <1>3

\* What the server says of its own accord.
LEMMA OwnSays ==
  ASSUME IInv, \/ Welcome
               \/ ServerNotice
               \/ ServerRename /\ srvNick # NoNick
  PROVE  \E t \in Seq(ServerLine) :
           /\ toClient' = toClient \o t /\ SaysAs(t) /\ Single(t) /\ DOMAIN t = {1}
           /\ Welcome => t[1].cmd = "001"
           /\ ServerNotice => \E c \in Caps :
                \/ t[1].cmd = "DEL" /\ t[1].caps = {c} /\ srvEnabled' = srvEnabled \ {c}
                \/ t[1].cmd = "NEW" /\ t[1].caps = {c} /\ UNCHANGED srvEnabled
           /\ ServerRename => t[1].cmd = "NICK"
<1>0. srvNick \in Nat \cup {NoNick} /\ srvCaps \in SUBSET Caps
  BY DEF IInv, TypeOK
<1>1. CASE Welcome
  <2> DEFINE x == [cmd |-> "001", nick |-> srvNick]
  <2>1. /\ ~srvWelcomed /\ srvWelcomed' /\ srvUser /\ srvNick # NoNick /\ UNCHANGED srvNick
        /\ Reply(<<x>>)
    BY <1>1 DEF Welcome
  <2>2. x \in ServerLine
    BY <1>0, <2>1, ServerLines
  <2>3. x.cmd = "001" /\ x.nick = srvNick
    OBVIOUS
  <2>4. ~ServerNotice /\ ~ServerRename
    <3>1. ~srvWelcomed /\ srvWelcomed'
      BY <2>1
    <3> QED BY <3>1 DEF ServerNotice, Notice, ServerRename
  <2> HIDE DEF x
  <2>5. PICK t \in Seq(ServerLine) : toClient' = toClient \o t /\ DOMAIN t = {1} /\ t[1] = x
    BY <2>1, <2>2, OneSaid
  <2>6. \A j \in DOMAIN t : t[j] = x /\ \A k \in DOMAIN t : k = j
    BY <2>5
  <2>7. SaysAs(t) /\ Single(t)
    BY <2>1, <2>3, <2>6 DEF SaysAs, Single
  <2> QED BY <2>3, <2>4, <2>5, <2>7
<1>2. CASE ServerNotice
  <2>1. MayNotify /\ srvKind = "modern" /\ UNCHANGED <<srvWelcomed, srvNick>>
    BY <1>2 DEF ServerNotice, Notice
  <2>2. PICK c \in Caps :
          \/ Reply(<<[cmd |-> "DEL", caps |-> {c}]>>) /\ srvEnabled' = srvEnabled \ {c}
          \/ Reply(<<[cmd |-> "NEW", caps |-> {c}]>>) /\ UNCHANGED srvEnabled
    BY <1>0, <1>2 DEF ServerNotice, Notice
  <2>3. ~Welcome
    BY <1>2 DEF ServerNotice, Notice, Welcome
  <2>4. ~ServerRename
    <3>1. notices' = notices + 1 /\ notices \in Nat
      BY <1>2 DEF ServerNotice, Notice, IInv, TypeOK
    <3>2. notices' # notices
      BY <3>1
    <3> QED BY <3>2 DEF ServerRename
  <2>5. ASSUME NEW k \in {"NEW", "DEL"}, Reply(<<[cmd |-> k, caps |-> {c}]>>)
        PROVE  \E t \in Seq(ServerLine) :
                 /\ toClient' = toClient \o t /\ SaysAs(t) /\ Single(t) /\ DOMAIN t = {1}
                 /\ t[1].cmd = k /\ t[1].caps = {c}
    <3> DEFINE x == [cmd |-> k, caps |-> {c}]
    <3>1. {c} \in SUBSET Caps
      OBVIOUS
    <3>2. x \in ServerLine /\ x.cmd = k /\ x.caps = {c} /\ Reply(<<x>>)
      BY <2>5, <3>1, ServerLines
    <3> HIDE DEF x
    <3>3. PICK t \in Seq(ServerLine) : toClient' = toClient \o t /\ DOMAIN t = {1} /\ t[1] = x
      BY <3>2, OneSaid
    <3>4. \A j \in DOMAIN t : t[j] = x /\ \A i \in DOMAIN t : i = j
      BY <3>3
    <3>5. SaysAs(t) /\ Single(t)
      BY <2>1, <3>1, <3>2, <3>4 DEF SaysAs, Single
    <3> QED BY <3>2, <3>3, <3>5
  <2>6. PICK k \in {"NEW", "DEL"} :
          /\ Reply(<<[cmd |-> k, caps |-> {c}]>>)
          /\ k = "DEL" => srvEnabled' = srvEnabled \ {c}
          /\ k = "NEW" => UNCHANGED srvEnabled
    BY <2>2
  <2>7. PICK t \in Seq(ServerLine) :
          /\ toClient' = toClient \o t /\ SaysAs(t) /\ Single(t) /\ DOMAIN t = {1}
          /\ t[1].cmd = k /\ t[1].caps = {c}
    BY <2>5, <2>6
  <2> QED BY <2>3, <2>4, <2>6, <2>7
<1>3. CASE ServerRename /\ srvNick # NoNick
  <2> DEFINE x == [cmd |-> "NICK", nick |-> srvNick + 1]
  <2>1. /\ MayNotify /\ srvWelcomed /\ UNCHANGED srvWelcomed /\ srvNick' = srvNick + 1
        /\ Reply(<<x>>)
    BY <1>3 DEF ServerRename
  <2>2. srvNick + 1 \in Nat
    BY <1>0, <1>3
  <2>3. x \in ServerLine /\ x.cmd = "NICK" /\ x.nick = srvNick'
    BY <2>1, <2>2 DEF ServerLine
  <2>4. ~ServerNotice /\ ~Welcome
    <3>1. UNCHANGED notices /\ srvWelcomed
      BY <1>3 DEF ServerRename
    <3>2. notices' = notices + 1 => notices' # notices
      BY DEF IInv, TypeOK
    <3>3. ~ServerNotice
      BY <3>1, <3>2 DEF ServerNotice, Notice
    <3> QED BY <3>1, <3>3 DEF Welcome
  <2> HIDE DEF x
  <2>5. PICK t \in Seq(ServerLine) : toClient' = toClient \o t /\ DOMAIN t = {1} /\ t[1] = x
    BY <2>1, <2>3, OneSaid
  <2>6. \A j \in DOMAIN t : t[j] = x /\ \A k \in DOMAIN t : k = j
    BY <2>5
  <2>7. SaysAs(t) /\ Single(t)
    BY <2>1, <2>3, <2>6 DEF SaysAs, Single
  <2> QED BY <2>3, <2>4, <2>5, <2>7
<1> QED BY <1>1, <1>2, <1>3

\* Everything the server does, in one statement.
LEMMA ServerMovesAre ==
  ASSUME AInv, ServerMoves
  PROVE  /\ \E t \in Seq(ServerLine) : toClient' = toClient \o t /\ SaysAs(t) /\ Single(t)
         /\ UNCHANGED clientVars /\ srvKind' = srvKind
         /\ toServer' = toServer \/ (toServer # <<>> /\ toServer' = Tail(toServer))
         /\ srvSasl = "done" => srvSasl' = "done"
<1>0. IInv
  BY DEF AInv
<1>1. CASE ServerLS \/ ServerNick \/ ServerReq \/ ServerAuth \/ ServerResponse
  <2>1. \E t \in Seq(ServerLine) : toClient' = toClient \o t /\ SaysAs(t) /\ Single(t)
    BY <1>0, <1>1, LSSays, NickSays, ReqSays, SaslSays
  <2>2. /\ UNCHANGED clientVars /\ srvKind' = srvKind
        /\ toServer # <<>> /\ toServer' = Tail(toServer)
    BY <1>1 DEF ServerLS, ServerNick, ServerReq, ServerAuth, ServerResponse, ServerRead
  <2>3. srvSasl = "done" => srvSasl' = "done"
    BY <1>1 DEF ServerLS, ServerNick, ServerReq, ServerAuth, ServerResponse
  <2> QED BY <2>1, <2>2, <2>3
<1>2. CASE ServerUser \/ ServerEnd
  <2>1. toClient' = toClient /\ UNCHANGED srvSasl
    BY <1>2 DEF ServerUser, ServerEnd
  <2>2. /\ UNCHANGED clientVars /\ srvKind' = srvKind
        /\ toServer # <<>> /\ toServer' = Tail(toServer)
    BY <1>2 DEF ServerUser, ServerEnd, ServerRead
  <2> QED BY <1>0, <2>1, <2>2, NothingSaid
<1>3. CASE Welcome \/ ServerNotice \/ ServerRename
  <2>1. ServerRename => srvNick # NoNick
    BY DEF ServerRename, AInv, WelcomedReady
  <2>2. \E t \in Seq(ServerLine) : toClient' = toClient \o t /\ SaysAs(t) /\ Single(t)
    BY <1>0, <1>3, <2>1, OwnSays
  <2>3. UNCHANGED <<clientVars, srvKind, toServer, srvSasl>>
    BY <1>3 DEF Welcome, ServerNotice, Notice, ServerRename
  <2> QED BY <2>2, <2>3
<1> QED BY <1>1, <1>2, <1>3 DEF ServerMoves, ServerAnswers, ServerStep

\* What a read of cmd changes of the server's state.
ReadsAs(cmd) ==
  /\ ReadBy(cmd) /\ UNCHANGED srvWelcomed
  /\ cmd # "CAP LS" /\ cmd # "CAP END" => UNCHANGED srvHold
  /\ cmd = "CAP LS" /\ srvKind = "modern" => srvHold'
  /\ srvUser => srvUser'
  /\ srvNick # NoNick => srvNick' # NoNick

\* The server's steps keep the invariant.
LEMMA ServerKeepsA ==
  ASSUME AInv, ServerMoves
  PROVE  ListedFirst' /\ HeldUntilConcluded' /\ SuccessIsReal' /\ WelcomedReady'
<1>0. toServer \in Seq(ClientLine) /\ toClient \in Seq(ServerLine) /\ IInv
  BY DEF AInv, IInv, TypeOK
<1>1. PICK t \in Seq(ServerLine) : toClient' = toClient \o t /\ SaysAs(t) /\ Single(t)
  BY ServerMovesAre
<1>2. /\ UNCHANGED <<capsConcluded, saslSucceeded>> /\ srvKind' = srvKind
      /\ toServer' = toServer \/ (toServer # <<>> /\ toServer' = Tail(toServer))
      /\ srvSasl = "done" => srvSasl' = "done"
  <2>1. UNCHANGED clientVars
    BY ServerMovesAre
  <2> QED BY <2>1, ServerMovesAre DEF clientVars, capVars, saslVars
<1>3. SuccessIsReal'
  <2>1. Continues(toClient', toClient, t)
    BY <1>0, <1>1, GrowsBy
  <2>2. \A j \in DOMAIN t : t[j].cmd = "903" => srvSasl' = "done"
    BY <1>1 DEF SaysAs
  <2> QED BY <1>2, <2>1, <2>2 DEF SuccessIsReal, AInv, Continues
<1>4. CASE toServer # <<>> /\ toServer' = Tail(toServer)
  <2>1. \A i \in DOMAIN toServer' :
          i \in Nat /\ i >= 1 /\ i + 1 \in DOMAIN toServer /\ toServer'[i] = toServer[i + 1]
    BY <1>0, <1>4, Shrinks
  <2>2. \A i \in DOMAIN toServer' : toServer'[i].cmd # "CAP LS"
    <3>1. ASSUME NEW i \in DOMAIN toServer', toServer'[i].cmd = "CAP LS" PROVE FALSE
      <4>1. i \in Nat /\ i >= 1 /\ i + 1 \in DOMAIN toServer /\ toServer[i + 1].cmd = "CAP LS"
        BY <2>1, <3>1
      <4>2. i + 1 = 1
        BY <4>1 DEF ListedFirst, AInv
      <4>3. i \in Nat /\ i >= 1
        BY <4>1
      <4> QED BY <4>2, <4>3
    <3> QED BY <3>1
  <2>3. ListedFirst'
    BY <2>2 DEF ListedFirst
  <2>4. 1 \in DOMAIN toServer
    BY <1>0, <1>4, Shrinks
  <2>5. ~Welcome /\ ~ServerNotice /\ ~ServerRename
    <3>1. toServer' # toServer
      BY <1>0, <1>4, TailLines
    <3> QED BY <3>1 DEF Welcome, ServerNotice, Notice, ServerRename
  <2>6. PICK cmd : ReadsAs(cmd)
    <3>1. ASSUME NEW cmd, ServerRead(cmd) PROVE ReadBy(cmd) /\ UNCHANGED srvWelcomed
      BY <1>0, <3>1, ReadIs
    <3>2. CASE ServerLS
      <4>1. ReadsAs("CAP LS")
        BY <3>1, <3>2 DEF ServerLS, ReadsAs
      <4> QED BY <4>1
    <3>3. CASE ServerNick
      <4>1. srvNick' \in Nat \/ UNCHANGED srvNick
        BY <1>0, <3>3, NickSays
      <4>2. srvNick # NoNick => srvNick' # NoNick
        BY <4>1, ServerAssumption
      <4>3. ReadsAs("NICK")
        BY <3>1, <3>3, <4>2 DEF ServerNick, ReadsAs
      <4> QED BY <4>3
    <3>4. CASE ServerUser
      <4>1. ReadsAs("USER")
        BY <3>1, <3>4 DEF ServerUser, ReadsAs
      <4> QED BY <4>1
    <3>5. CASE ServerReq
      <4>1. ReadsAs("CAP REQ")
        BY <3>1, <3>5 DEF ServerReq, ReadsAs
      <4> QED BY <4>1
    <3>6. CASE ServerAuth \/ ServerResponse
      <4>1. ReadsAs("AUTHENTICATE") \/ ReadsAs("RESPONSE")
        BY <3>1, <3>6 DEF ServerAuth, ServerResponse, ReadsAs
      <4> QED BY <4>1
    <3>7. CASE ServerEnd
      <4>1. ReadsAs("CAP END")
        BY <3>1, <3>7 DEF ServerEnd, ReadsAs
      <4> QED BY <4>1
    <3>8. \/ ServerLS \/ ServerNick \/ ServerUser \/ ServerReq \/ (ServerAuth \/ ServerResponse)
          \/ ServerEnd
      BY <2>5 DEF ServerMoves, ServerAnswers, ServerStep
    <3> QED BY <3>2, <3>3, <3>4, <3>5, <3>6, <3>7, <3>8, Zenon
  <2>7. HeldUntilConcluded'
    <3>1. CASE cmd = "CAP LS"
      BY <1>2, <2>6, <3>1 DEF ReadsAs, HeldUntilConcluded
    <3>2. CASE cmd = "CAP END"
      <4>1. capsConcluded
        BY <1>0, <2>4, <2>6, <3>2 DEF ReadsAs, ReadBy, IInv, WireAgrees
      <4> QED BY <1>2, <4>1 DEF HeldUntilConcluded
    <3>3. CASE cmd # "CAP LS" /\ cmd # "CAP END"
      <4>1. toServer[1].cmd # "CAP LS" /\ UNCHANGED srvHold
        BY <2>6, <3>3 DEF ReadsAs, ReadBy
      <4> QED BY <1>2, <4>1 DEF HeldUntilConcluded, AInv
    <3> QED BY <3>1, <3>2, <3>3
  <2>8. WelcomedReady'
    BY <1>2, <2>6 DEF ReadsAs, WelcomedReady, AInv
  <2> QED BY <1>3, <2>3, <2>7, <2>8
<1>5. CASE toServer' = toServer
  <2>1. Welcome \/ ServerNotice \/ ServerRename
    <3>1. ASSUME NEW cmd, ServerRead(cmd) PROVE FALSE
      <4>1. toServer # <<>> /\ toServer' = Tail(toServer)
        BY <3>1 DEF ServerRead
      <4> QED BY <1>0, <1>5, <4>1, TailLines
    <3> QED BY <3>1 DEF ServerMoves, ServerAnswers, ServerStep, ServerLS, ServerNick, ServerUser,
                        ServerReq, ServerAuth, ServerResponse, ServerEnd
  <2>2. UNCHANGED <<srvUser, srvHold>>
    BY <2>1 DEF Welcome, ServerNotice, Notice, ServerRename
  <2>3. ListedFirst' /\ HeldUntilConcluded'
    BY <1>2, <1>5, <2>2 DEF ListedFirst, HeldUntilConcluded, AInv
  <2>4. WelcomedReady'
    <3>1. CASE Welcome
      <4>1. srvNick # NoNick /\ srvUser /\ ~srvHold /\ UNCHANGED srvNick
        BY <3>1 DEF Welcome
      <4>2. srvKind = "modern" => capsConcluded
        <5> SUFFICES ASSUME srvKind = "modern", ~capsConcluded PROVE FALSE
          OBVIOUS
        <5>1. toServer # <<>> /\ toServer[1].cmd = "CAP LS"
          BY <4>1 DEF HeldUntilConcluded, AInv
        <5>2. 1 \in DOMAIN toServer
          BY <1>0, <5>1, Shrinks
        <5> QED BY <4>1, <5>1, <5>2 DEF ListedFirst, AInv
      <4> QED BY <1>2, <2>2, <4>1, <4>2 DEF WelcomedReady
    <3>2. CASE ServerNotice
      BY <1>2, <2>2, <3>2 DEF ServerNotice, Notice, WelcomedReady, AInv
    <3>3. CASE ServerRename
      <4>1. srvNick \in Nat /\ srvNick' = srvNick + 1
        BY <1>0, <3>3 DEF ServerRename, WelcomedReady, AInv, IInv, TypeOK
      <4>2. srvNick' # NoNick /\ UNCHANGED srvWelcomed
        BY <3>3, <4>1, ServerAssumption DEF ServerRename
      <4> QED BY <1>2, <2>2, <4>2 DEF WelcomedReady, AInv
    <3> QED BY <2>1, <3>1, <3>2, <3>3
  <2> QED BY <1>3, <2>3, <2>4
<1> QED BY <1>2, <1>4, <1>5

\* Each step keeps the first invariant.
LEMMA AInvNext ==
  ASSUME AInv, [SessionNext]_allVars
  PROVE  AInv'
<1>1. IInv'
  BY SessionKeepsIInv DEF AInv, WelcomedReady
<1>2. CASE ClientMoves
  BY <1>1, <1>2, ClientKeepsA DEF AInv
<1>3. CASE ServerMoves
  BY <1>1, <1>3, ServerKeepsA DEF AInv
<1>4. CASE UNCHANGED allVars
  BY <1>1, <1>4 DEF allVars, vars, clientVars, capVars, saslVars, serverVars,
     AInv, ListedFirst, HeldUntilConcluded, SuccessIsReal, WelcomedReady
<1> QED BY <1>2, <1>3, <1>4 DEF SessionNext, ClientMoves, ServerMoves

\* It holds at the kickoff.
LEMMA AInvInit == SessionInit => AInv
<1> SUFFICES ASSUME SessionInit PROVE AInv
  OBVIOUS
<1>1. IInv
  BY InitIInv DEF SessionInit
<1> DEFINE x == Line("CAP LS")
           y == [cmd |-> "NICK", nick |-> 0]
           z == Line("USER")
<1>2. x.cmd = "CAP LS" /\ y.cmd = "NICK" /\ z.cmd = "USER"
  BY DEF Line
<1>3. x \in ClientLine /\ y \in ClientLine /\ z \in ClientLine
  BY PlainLines DEF ClientLine
<1>4. toServer = <<x, y, z>> /\ toClient = <<>>
  BY Zenon DEF SessionInit, Init
<1>5. /\ srvUser = FALSE /\ capsConcluded = FALSE /\ saslSucceeded = FALSE /\ srvWelcomed = FALSE
  BY Zenon DEF SessionInit, Init
<1> HIDE DEF x, y, z
<1>6. PICK w \in Seq(ClientLine) :
        w = <<x, y, z>> /\ DOMAIN w = 1..3 /\ w[1] = x /\ w[2] = y /\ w[3] = z
  BY <1>3, ThreeLines
<1>7. toServer = w /\ toServer # <<>>
  <2>1. DOMAIN w # {}
    BY <1>6
  <2> QED BY <1>4, <1>6, <2>1
<1>8. \A i \in DOMAIN toServer : i = 1 \/ toServer[i].cmd # "CAP LS"
  <2>1. \A i \in 1..3 : i = 1 \/ i = 2 \/ i = 3
    OBVIOUS
  <2> QED BY <1>2, <1>6, <1>7, <2>1
<1>9. ListedFirst
  BY <1>5, <1>8 DEF ListedFirst
<1>10. HeldUntilConcluded
  BY <1>2, <1>6, <1>7 DEF HeldUntilConcluded
<1>11. SuccessIsReal
  <2>1. \A i \in DOMAIN toClient : FALSE
    BY <1>4
  <2> QED BY <1>5, <2>1 DEF SuccessIsReal
<1>12. WelcomedReady
  BY <1>5 DEF WelcomedReady
<1> QED BY <1>1, <1>9, <1>10, <1>11, <1>12 DEF AInv

\* The invariant holds of every behaviour of Session.
THEOREM HandshakeInvariance == SessionSpec => []AInv
<1>1. AInv /\ [SessionNext]_allVars => AInv'
  BY AInvNext
<1> QED BY <1>1, AInvInit, PTL DEF SessionSpec

\* A server with capabilities never admits a client that holds credentials before it has
\* authenticated it: the hold it put on registration is released by our CAP END alone,
\* which we send after a success that is real.
THEOREM AdmissionIsAuthenticated == SessionSpec => []AdmittedIsAuthenticated
<1>1. AInv => AdmittedIsAuthenticated
  BY DEF AInv, IInv, FlagsAgree, WelcomedReady, SuccessIsReal, AdmittedIsAuthenticated
<1> QED BY <1>1, HandshakeInvariance, PTL

\* Against every server, and through the gap and the cap-notify lines that come after the
\* login too: neither CAP END nor an admission without SASL success, and one exchange before
\* the one CAP END.
THEOREM SessionFailsClosed == SessionSpec => [](FailsClosed /\ OneExchangeThenEnd)
<1>1. AInv => FailsClosed /\ OneExchangeThenEnd
  BY DEF AInv, IInv, FlagsAgree, WireAgrees, FailsClosed, Unread
<1> QED BY <1>1, HandshakeInvariance, PTL

\* The pump, which goes on delivering lines to a handshake that has settled, and the
\* cap-notify handler behind it do not touch what register() promised: a session, too,
\* implements the contract.
THEOREM SessionKeepsContract == SessionSpec => KeepsContract
<1>1. SessionInit => Contract!Init
  <2> SUFFICES ASSUME SessionInit PROVE Contract!Init
    OBVIOUS
  <2>1. credentials \in BOOLEAN /\ outcome = "pending" /\ saslSucceeded = FALSE
    BY Zenon DEF SessionInit, Init
  <2> QED BY <2>1 DEF Contract!Init, Phase
<1>2. ASSUME AInv, [SessionNext]_allVars PROVE [Contract!Next]_<<credentials, Phase>>
  <2>1. CASE [Next]_vars
    BY <1>2, <2>1, StepRefines DEF AInv
  <2>2. CASE DeliverWhenUp \/ ServerRename
    <3>1. UNCHANGED <<credentials, outcome, saslSucceeded>>
      BY <2>2 DEF DeliverWhenUp, ServerRename, saslVars, clientVars
    <3> QED BY <3>1 DEF Phase
  <2>3. [Next]_vars \/ DeliverWhenUp \/ ServerRename
    BY <1>2 DEF SessionNext, DeliverToHandshake, DeliverInGap, Continue, TimeoutFires, ServerAnswers,
                ServerNotice, Next, allVars
  <2> QED BY <2>1, <2>2, <2>3
<1> QED BY <1>1, <1>2, HandshakeInvariance, PTL DEF SessionSpec, KeepsContract, Contract!Spec

-----------------------------------------------------------------------------
(* Our nick.  While we ask for one, the question is in one place; after    *)
(* that the server changes it and tells us.                                *)

\* The nick is asked for once: by a NICK of ours, or by the server's 433.
NickAsked ==
  /\ \A i, j \in DOMAIN toServer : toServer[i].cmd = "NICK" /\ toServer[j].cmd = "NICK" => i = j
  /\ \A i, j \in DOMAIN toClient : toClient[i].cmd = "433" /\ toClient[j].cmd = "433" => i = j
  /\ \A i \in DOMAIN toServer : toServer[i].cmd = "NICK" =>
       srvNick = NoNick /\ \A j \in DOMAIN toClient : toClient[j].cmd # "433"
  /\ \A j \in DOMAIN toClient : toClient[j].cmd = "433" => srvNick = NoNick

\* 001 comes once, and settles an attempt that was not settled otherwise.
WelcomedOnce ==
  /\ outcome = "resolved" => srvWelcomed
  /\ \A i \in DOMAIN toClient : toClient[i].cmd = "001" =>
       /\ srvWelcomed /\ outcome # "resolved"
       /\ \A j \in DOMAIN toClient : toClient[j].cmd = "001" => j = i

\* The stage of the attempt follows the promise.
StageFollows ==
  /\ stage \in {"registering", "settled", "up", "failed"}
  /\ stage = "registering" <=> outcome = "pending"
  /\ stage = "up" => outcome = "resolved"

\* A server that does not notify early has nothing of the kind in flight before we are up.
NoneEarly ==
  EarlyNotices \/ stage = "up" \/
    \A i \in DOMAIN toClient : toClient[i].cmd \notin {"NEW", "DEL", "NICK"}

\* The nick we go by when all that is in flight has been read is the server's for us.
NickFollows ==
  EarlyNotices \/
  /\ \A i \in DOMAIN toClient : toClient[i].cmd = "001" => toClient[i].nick = srvNick
  /\ stage = "settled" /\ outcome = "resolved" => acceptedNick = srvNick /\ selfNick = srvNick
  /\ stage = "up" =>
       /\ (\A i \in DOMAIN toClient : toClient[i].cmd # "NICK") => clientNick = srvNick /\ selfNick = srvNick
       /\ \A i \in DOMAIN toClient :
            toClient[i].cmd = "NICK" /\ (\A j \in DOMAIN toClient : j > i => toClient[j].cmd # "NICK") =>
              toClient[i].nick = srvNick

BInv == AInv /\ NickAsked /\ WelcomedOnce /\ StageFollows /\ NoneEarly /\ NickFollows

\* A stream that lost its first line, or none: which lines are left, and where they were.
Remains(u, s) ==
  \/ u = s
  \/ /\ \A i \in DOMAIN u : i \in Nat /\ i + 1 \in DOMAIN s /\ i + 1 # 1 /\ u[i] = s[i + 1]
     /\ \A i \in DOMAIN s : i \in Nat /\ (i = 1 \/ (i - 1 \in DOMAIN u /\ u[i - 1] = s[i]))

\* What reading one line, or none, leaves of a stream.
LEMMA RemainsAfter ==
  ASSUME NEW S, NEW s \in Seq(S), NEW u, u = s \/ (s # <<>> /\ u = Tail(s))
  PROVE  Remains(u, s)
<1>1. CASE u = s
  BY <1>1 DEF Remains
<1>2. CASE s # <<>> /\ u = Tail(s)
  <2>1. /\ \A i \in DOMAIN u : i \in Nat /\ i >= 1 /\ i + 1 \in DOMAIN s /\ u[i] = s[i + 1]
        /\ \A i \in DOMAIN s : i \in Nat /\ (i = 1 \/ (i - 1 \in DOMAIN u /\ u[i - 1] = s[i]))
    BY <1>2, Shrinks
  <2>2. \A i \in DOMAIN u : i + 1 # 1
    BY <2>1
  <2> QED BY <2>1, <2>2 DEF Remains
<1> QED BY <1>1, <1>2

\* Lines that are left were there, and were apart when they are.
LEMMA RemainsOnly ==
  ASSUME NEW s, NEW u, Remains(u, s)
  PROVE  /\ \A i \in DOMAIN u : \E k \in DOMAIN s : u[i] = s[k]
         /\ \A i, j \in DOMAIN u : i # j =>
              \E k, l \in DOMAIN s : k # l /\ u[i] = s[k] /\ u[j] = s[l]
<1>1. CASE u = s
  BY <1>1
<1>2. CASE \A i \in DOMAIN u : i \in Nat /\ i + 1 \in DOMAIN s /\ i + 1 # 1 /\ u[i] = s[i + 1]
  <2>1. \A i, j \in DOMAIN u : i # j => i + 1 # j + 1
    BY <1>2
  <2> QED BY <1>2, <2>1
<1> QED BY <1>1, <1>2 DEF Remains

\* The client asks for a nick again only when its 433 was read.
LEMMA ClientKeepsAsked ==
  ASSUME AInv, NickAsked, ClientMoves
  PROVE  NickAsked'
<1>0. toServer \in Seq(ClientLine) /\ toClient \in Seq(ServerLine) /\ IInv
  BY DEF AInv, IInv, TypeOK
<1>1. PICK new \in Seq(ClientLine) : ClientStep(new)
  BY <1>0, ClientMovesAre
<1>2. /\ toServer' = toServer \o new /\ srvNick' = srvNick
      /\ toClient' = toClient \/ (toClient # <<>> /\ toClient' = Tail(toClient))
  BY <1>1 DEF ClientStep, serverVars
<1>3. Continues(toServer', toServer, new)
  BY <1>0, <1>2, GrowsBy
<1>4. Remains(toClient', toClient)
  BY <1>0, <1>2, RemainsAfter
<1>5. \A i, j \in DOMAIN toClient' : toClient'[i].cmd = "433" /\ toClient'[j].cmd = "433" => i = j
  BY <1>4, RemainsOnly DEF NickAsked
<1>6. CASE \A j \in DOMAIN new : new[j].cmd # "NICK"
  <2>1. \A i \in DOMAIN toServer' : toServer'[i].cmd = "NICK" => i \in DOMAIN toServer /\ toServer[i].cmd = "NICK"
    BY <1>3, <1>6 DEF Continues
  <2>2. \A i \in DOMAIN toClient' : toClient'[i].cmd = "433" => \E k \in DOMAIN toClient : toClient[k].cmd = "433"
    BY <1>4, RemainsOnly
  <2> QED BY <1>2, <1>5, <2>1, <2>2 DEF NickAsked
<1>7. CASE \E j \in DOMAIN new : new[j].cmd = "NICK"
  <2>1. /\ toClient # <<>> /\ toClient[1].cmd = "433" /\ toClient' = Tail(toClient)
        /\ \A j, k \in DOMAIN new : new[j].cmd = "NICK" => k = j
    BY <1>1, <1>7 DEF ClientStep
  <2>2. 1 \in DOMAIN toClient
    BY <1>0, <2>1, Shrinks
  <2>3. srvNick = NoNick /\ \A i \in DOMAIN toServer : toServer[i].cmd # "NICK"
    BY <2>1, <2>2 DEF NickAsked
  <2>4. \A i \in DOMAIN toClient' : toClient'[i].cmd # "433"
    <3>1. ASSUME NEW i \in DOMAIN toClient', toClient'[i].cmd = "433" PROVE FALSE
      <4>1. i \in Nat /\ i >= 1 /\ i + 1 \in DOMAIN toClient /\ toClient[i + 1].cmd = "433"
        BY <1>0, <2>1, <3>1, Shrinks
      <4>2. i + 1 = 1
        BY <2>1, <2>2, <4>1 DEF NickAsked
      <4>3. i \in Nat /\ i >= 1
        BY <4>1
      <4> QED BY <4>2, <4>3
    <3> QED BY <3>1
  <2>5. \A i \in DOMAIN toServer' : toServer'[i].cmd = "NICK" => i \notin DOMAIN toServer
    BY <1>3, <2>3 DEF Continues
  <2>6. \A i, j \in DOMAIN toServer' \ DOMAIN toServer :
          i # j => \E k, l \in DOMAIN new : k # l /\ toServer'[i] = new[k] /\ toServer'[j] = new[l]
    BY <1>3 DEF Continues
  <2>7. \A i, j \in DOMAIN toServer' : toServer'[i].cmd = "NICK" /\ toServer'[j].cmd = "NICK" => i = j
    BY <2>1, <2>5, <2>6
  <2> QED BY <1>2, <2>3, <2>4, <2>7 DEF NickAsked
<1> QED BY <1>6, <1>7

\* The server refuses the nick it read, so the question moves and is not doubled.
LEMMA ServerKeepsAsked ==
  ASSUME AInv, NickAsked, ServerMoves
  PROVE  NickAsked'
<1>0. toServer \in Seq(ClientLine) /\ toClient \in Seq(ServerLine) /\ IInv
  BY DEF AInv, IInv, TypeOK
<1>1. PICK t \in Seq(ServerLine) : toClient' = toClient \o t /\ SaysAs(t) /\ Single(t)
  BY ServerMovesAre
<1>2. toServer' = toServer \/ (toServer # <<>> /\ toServer' = Tail(toServer))
  BY ServerMovesAre
<1>3. Continues(toClient', toClient, t)
  BY <1>0, <1>1, GrowsBy
<1>4. Remains(toServer', toServer)
  BY <1>0, <1>2, RemainsAfter
<1>5. \A i, j \in DOMAIN toServer' : toServer'[i].cmd = "NICK" /\ toServer'[j].cmd = "NICK" => i = j
  BY <1>4, RemainsOnly DEF NickAsked
<1>6. \A i \in DOMAIN toServer' : toServer'[i].cmd = "NICK" => \E k \in DOMAIN toServer : toServer[k].cmd = "NICK"
  BY <1>4, RemainsOnly
<1>7. toServer # <<>> => 1 \in DOMAIN toServer
  BY <1>0, Shrinks
<1>8. ASSUME ReadBy("NICK")
      PROVE  /\ srvNick = NoNick /\ \A j \in DOMAIN toClient : toClient[j].cmd # "433"
             /\ \A i \in DOMAIN toServer' : toServer'[i].cmd # "NICK"
  <2>1. toServer # <<>> /\ toServer[1].cmd = "NICK" /\ 1 \in DOMAIN toServer /\ toServer' = Tail(toServer)
    BY <1>7, <1>8 DEF ReadBy
  <2>2. ASSUME NEW i \in DOMAIN toServer', toServer'[i].cmd = "NICK" PROVE FALSE
    <3>1. i \in Nat /\ i >= 1 /\ i + 1 \in DOMAIN toServer /\ toServer[i + 1].cmd = "NICK"
      BY <1>0, <2>1, <2>2, Shrinks
    <3>2. i + 1 = 1
      BY <2>1, <3>1 DEF NickAsked
    <3>3. i \in Nat /\ i >= 1
      BY <3>1
    <3> QED BY <3>2, <3>3
  <2> QED BY <2>1, <2>2 DEF NickAsked
<1>9. CASE \E j \in DOMAIN t : t[j].cmd = "433"
  <2>1. ReadBy("NICK") /\ UNCHANGED srvNick /\ \A j, k \in DOMAIN t : k = j
    BY <1>1, <1>9 DEF SaysAs, Single
  <2>2. /\ srvNick' = NoNick /\ \A j \in DOMAIN toClient : toClient[j].cmd # "433"
        /\ \A i \in DOMAIN toServer' : toServer'[i].cmd # "NICK"
    BY <1>8, <2>1
  <2>3. \A i \in DOMAIN toClient' : toClient'[i].cmd = "433" => i \notin DOMAIN toClient
    BY <1>3, <2>2 DEF Continues
  <2>4. \A i, j \in DOMAIN toClient' \ DOMAIN toClient : i = j
    BY <1>3, <2>1 DEF Continues
  <2>5. \A i, j \in DOMAIN toClient' : toClient'[i].cmd = "433" /\ toClient'[j].cmd = "433" => i = j
    BY <2>3, <2>4
  <2> QED BY <2>2, <2>5 DEF NickAsked
<1>10. CASE \A j \in DOMAIN t : t[j].cmd # "433"
  <2>1. \A i \in DOMAIN toClient' : toClient'[i].cmd = "433" => i \in DOMAIN toClient /\ toClient[i].cmd = "433"
    BY <1>3, <1>10 DEF Continues
  <2>2. CASE UNCHANGED srvNick
    BY <1>5, <1>6, <2>1, <2>2 DEF NickAsked
  <2>3. CASE ServerNick
    <3>1. ReadBy("NICK")
      BY <1>0, <2>3, ReadIs DEF ServerNick
    <3> QED BY <1>8, <2>1, <3>1 DEF NickAsked
  <2>4. CASE ServerRename
    <3>1. srvNick # NoNick
      BY <2>4 DEF ServerRename, AInv, WelcomedReady
    <3> QED BY <1>6, <2>1, <3>1 DEF NickAsked
  <2>5. UNCHANGED srvNick \/ ServerNick \/ ServerRename
    BY DEF ServerMoves, ServerAnswers, ServerStep, ServerLS, ServerUser, ServerReq, ServerAuth,
           ServerResponse, ServerEnd, Welcome, ServerNotice, Notice
  <2> QED BY <2>2, <2>3, <2>4, <2>5
<1> QED BY <1>9, <1>10

\* The client settles on the 001 it reads, and that line is gone.
LEMMA ClientKeepsWelcome ==
  ASSUME AInv, WelcomedOnce, ClientMoves
  PROVE  WelcomedOnce'
<1>0. toClient \in Seq(ServerLine) /\ IInv
  BY DEF AInv, IInv, TypeOK
<1>1. PICK new \in Seq(ClientLine) : ClientStep(new)
  BY <1>0, ClientMovesAre
<1>2. /\ srvWelcomed' = srvWelcomed
      /\ toClient' = toClient \/ (toClient # <<>> /\ toClient' = Tail(toClient))
  BY <1>1 DEF ClientStep, serverVars
<1>3. Remains(toClient', toClient)
  BY <1>0, <1>2, RemainsAfter
<1>4. /\ \A i \in DOMAIN toClient' : \E k \in DOMAIN toClient : toClient'[i] = toClient[k]
      /\ \A i, j \in DOMAIN toClient' : i # j =>
           \E k, l \in DOMAIN toClient : k # l /\ toClient'[i] = toClient[k] /\ toClient'[j] = toClient[l]
  BY <1>3, RemainsOnly
<1>5. \A i, j \in DOMAIN toClient' : toClient'[i].cmd = "001" /\ toClient'[j].cmd = "001" => j = i
  BY <1>4 DEF WelcomedOnce
<1>6. \A i \in DOMAIN toClient' : toClient'[i].cmd = "001" => srvWelcomed' /\ outcome # "resolved"
  BY <1>2, <1>4 DEF WelcomedOnce
<1>7. CASE outcome' = "resolved" /\ outcome # "resolved"
  <2>1. toClient # <<>> /\ toClient[1].cmd = "001" /\ toClient' = Tail(toClient)
    BY <1>1, <1>7 DEF ClientStep
  <2>2. 1 \in DOMAIN toClient
    BY <1>0, <2>1, Shrinks
  <2>3. srvWelcomed'
    BY <1>2, <2>1, <2>2 DEF WelcomedOnce
  <2>4. ASSUME NEW i \in DOMAIN toClient', toClient'[i].cmd = "001" PROVE FALSE
    <3>1. i \in Nat /\ i >= 1 /\ i + 1 \in DOMAIN toClient /\ toClient[i + 1].cmd = "001"
      BY <1>0, <2>1, <2>4, Shrinks
    <3>2. i + 1 = 1
      BY <2>1, <2>2, <3>1 DEF WelcomedOnce
    <3>3. i \in Nat /\ i >= 1
      BY <3>1
    <3> QED BY <3>2, <3>3
  <2> QED BY <2>3, <2>4 DEF WelcomedOnce
<1>8. CASE outcome' = "resolved" => outcome = "resolved"
  <2>1. outcome = "resolved" => outcome' = "resolved"
    BY <1>1 DEF ClientStep
  <2> QED BY <1>2, <1>5, <1>6, <1>8, <2>1 DEF WelcomedOnce
<1> QED BY <1>7, <1>8

\* The server sends 001 once, to a client that has not been admitted.
LEMMA ServerKeepsWelcome ==
  ASSUME AInv, WelcomedOnce, ServerMoves
  PROVE  WelcomedOnce'
<1>0. toServer \in Seq(ClientLine) /\ toClient \in Seq(ServerLine) /\ IInv
  BY DEF AInv, IInv, TypeOK
<1>1. PICK t \in Seq(ServerLine) : toClient' = toClient \o t /\ SaysAs(t) /\ Single(t)
  BY ServerMovesAre
<1>2. outcome' = outcome
  <2>1. UNCHANGED clientVars
    BY ServerMovesAre
  <2> QED BY <2>1 DEF clientVars
<1>3. Continues(toClient', toClient, t)
  BY <1>0, <1>1, GrowsBy
<1>4. srvWelcomed => srvWelcomed'
  BY DEF ServerMoves, ServerAnswers, ServerStep, ServerLS, ServerNick, ServerUser, ServerReq,
         ServerAuth, ServerResponse, ServerEnd, ServerRead, Welcome, ServerNotice, Notice, ServerRename
<1>5. CASE \E j \in DOMAIN t : t[j].cmd = "001"
  <2>1. ~srvWelcomed /\ srvWelcomed' /\ \A j, k \in DOMAIN t : k = j
    BY <1>1, <1>5 DEF SaysAs, Single
  <2>2. outcome # "resolved" /\ \A i \in DOMAIN toClient : toClient[i].cmd # "001"
    BY <2>1 DEF WelcomedOnce
  <2>3. \A i \in DOMAIN toClient' : toClient'[i].cmd = "001" => i \notin DOMAIN toClient
    BY <1>3, <2>2 DEF Continues
  <2>4. \A i, j \in DOMAIN toClient' \ DOMAIN toClient : i = j
    BY <1>3, <2>1 DEF Continues
  <2> QED BY <1>2, <2>1, <2>2, <2>3, <2>4 DEF WelcomedOnce
<1>6. CASE \A j \in DOMAIN t : t[j].cmd # "001"
  <2>1. \A i \in DOMAIN toClient' : toClient'[i].cmd = "001" => i \in DOMAIN toClient /\ toClient[i].cmd = "001"
    BY <1>3, <1>6 DEF Continues
  <2> QED BY <1>2, <1>4, <2>1 DEF WelcomedOnce
<1> QED BY <1>5, <1>6

\* The stages follow the promise through every step.
LEMMA StageKeeps ==
  ASSUME AInv, StageFollows, [SessionNext]_allVars
  PROVE  StageFollows'
<1>0. outcome \in {"pending", "resolved", "rejected"}
  BY DEF AInv, IInv, TypeOK
<1>1. CASE DeliverToHandshake
  BY <1>1 DEF DeliverToHandshake, StageFollows
<1>2. CASE DeliverInGap
  <2>1. outcome' = outcome /\ stage' = stage
    BY <1>2 DEF DeliverInGap, Receive, StageFollows, clientVars
  <2> QED BY <2>1 DEF StageFollows
<1>3. CASE Continue
  BY <1>3 DEF Continue, vars, clientVars, StageFollows
<1>4. CASE TimeoutFires
  BY <1>4 DEF TimeoutFires, Timeout, Settle, StageFollows
<1>5. CASE DeliverWhenUp \/ ServerMoves \/ UNCHANGED allVars
  <2>1. outcome' = outcome /\ stage' = stage
    <3>1. CASE DeliverWhenUp
      BY <3>1 DEF DeliverWhenUp
    <3>2. CASE ServerMoves
      <4>1. outcome' = outcome
        BY <3>2, ServerMovesAre DEF clientVars
      <4> QED BY <3>2, <4>1 DEF ServerMoves, ServerAnswers, ServerNotice, ServerRename, sessionVars
    <3>3. CASE UNCHANGED allVars
      BY <3>3 DEF allVars, vars, clientVars, sessionVars
    <3> QED BY <1>5, <3>1, <3>2, <3>3
  <2> QED BY <2>1 DEF StageFollows
<1> QED BY <1>1, <1>2, <1>3, <1>4, <1>5 DEF SessionNext, ServerMoves

\* Nothing is sent early, and what is up stays up.
LEMMA NoneEarlyKeeps ==
  ASSUME AInv, NoneEarly, ClientMoves \/ ServerMoves
  PROVE  NoneEarly'
<1>0. toClient \in Seq(ServerLine) /\ IInv
  BY DEF AInv, IInv, TypeOK
<1> SUFFICES ASSUME ~EarlyNotices, stage' # "up"
             PROVE  \A i \in DOMAIN toClient' : toClient'[i].cmd \notin {"NEW", "DEL", "NICK"}
  BY DEF NoneEarly
<1>1. stage # "up"
  BY DEF ClientMoves, DeliverToHandshake, DeliverInGap, Continue, DeliverWhenUp, TimeoutFires,
         ServerMoves, ServerAnswers, ServerNotice, ServerRename, sessionVars
<1>2. \A i \in DOMAIN toClient : toClient[i].cmd \notin {"NEW", "DEL", "NICK"}
  BY <1>1 DEF NoneEarly
<1>3. CASE ClientMoves
  <2>1. PICK new \in Seq(ClientLine) : ClientStep(new)
    BY <1>0, <1>3, ClientMovesAre
  <2>2. Remains(toClient', toClient)
    BY <1>0, <2>1, RemainsAfter DEF ClientStep
  <2> QED BY <1>2, <2>2, RemainsOnly
<1>4. CASE ServerMoves
  <2>1. PICK t \in Seq(ServerLine) : toClient' = toClient \o t /\ SaysAs(t) /\ Single(t)
    BY <1>4, ServerMovesAre
  <2>2. \A j \in DOMAIN t : t[j].cmd \notin {"NEW", "DEL", "NICK"}
    BY <1>1, <2>1 DEF SaysAs, MayNotify
  <2>3. Continues(toClient', toClient, t)
    BY <1>0, <2>1, GrowsBy
  <2> QED BY <1>2, <2>2, <2>3 DEF Continues
<1> QED BY <1>3, <1>4

\* What a client that is being admitted, or was, goes by.
Adopted(n) ==
  /\ \A i \in DOMAIN toClient : toClient[i].cmd = "001" => toClient[i].nick = n
  /\ stage = "settled" /\ outcome = "resolved" => acceptedNick = n /\ selfNick = n

\* What one that is up goes by, when it has read what is in flight.
Current(n) ==
  /\ (\A i \in DOMAIN toClient : toClient[i].cmd # "NICK") => clientNick = n /\ selfNick = n
  /\ \A i \in DOMAIN toClient :
       toClient[i].cmd = "NICK" /\ (\A j \in DOMAIN toClient : j > i => toClient[j].cmd # "NICK") =>
         toClient[i].nick = n

\* NickFollows through its two parts, where notices wait.
LEMMA NickFollowsIs ==
  NickFollows <=> (EarlyNotices \/ (Adopted(srvNick) /\ (stage = "up" => Current(srvNick))))
  BY DEF NickFollows, Adopted, Current

\* Reading what is in flight keeps the nick, through each stage.
LEMMA ClientKeepsNick ==
  ASSUME BInv, ~EarlyNotices, ClientMoves
  PROVE  NickFollows'
<1>0. toClient \in Seq(ServerLine) /\ IInv /\ AInv
  BY DEF BInv, AInv, IInv, TypeOK
<1>1. Adopted(srvNick) /\ (stage = "up" => Current(srvNick))
  BY NickFollowsIs DEF BInv
<1>2. PICK new \in Seq(ClientLine) : ClientStep(new)
  BY <1>0, ClientMovesAre
<1>3. /\ srvNick' = srvNick
      /\ toClient' = toClient \/ (toClient # <<>> /\ toClient' = Tail(toClient))
  BY <1>2 DEF ClientStep, serverVars
<1>4. \A i \in DOMAIN toClient' : \E k \in DOMAIN toClient : toClient'[i] = toClient[k]
  <2>1. Remains(toClient', toClient)
    BY <1>0, <1>3, RemainsAfter
  <2> QED BY <2>1, RemainsOnly
<1>5. \A i \in DOMAIN toClient' : toClient'[i].cmd = "001" => toClient'[i].nick = srvNick
  BY <1>1, <1>4 DEF Adopted
<1>6. toClient # <<>> => Head(toClient) = toClient[1] /\ 1 \in DOMAIN toClient
  BY <1>0, Shrinks
<1>7. outcome = "resolved" => \A i \in DOMAIN toClient : toClient[i].cmd # "001"
  BY DEF BInv, WelcomedOnce
<1>8. stage # "up" => \A i \in DOMAIN toClient : toClient[i].cmd # "NICK"
  BY DEF BInv, NoneEarly
<1>9. SUFFICES /\ stage' = "settled" /\ outcome' = "resolved" => acceptedNick' = srvNick /\ selfNick' = srvNick
               /\ stage' = "up" => Current(srvNick)'
  <2>1. Adopted(srvNick)' /\ (stage' = "up" => Current(srvNick)')
    BY <1>3, <1>5, <1>9 DEF Adopted
  <2> QED BY <2>1 DEF NickFollows, Adopted, Current
<1>10. CASE DeliverToHandshake
  <2>1. /\ stage = "registering" /\ stage' # "up" /\ toClient # <<>>
        /\ selfNick' = (IF Head(toClient).cmd \in {"001", "NICK"} THEN Head(toClient).nick ELSE selfNick)
        /\ acceptedNick' = (IF Head(toClient).cmd = "001" THEN Head(toClient).nick ELSE acceptedNick)
    BY <1>10 DEF DeliverToHandshake, Receive, PumpNick
  <2>2. outcome # "resolved"
    BY <2>1 DEF BInv, StageFollows
  <2>3. ASSUME outcome' = "resolved" PROVE acceptedNick' = srvNick /\ selfNick' = srvNick
    <3>1. toClient[1].cmd = "001"
      BY <1>2, <2>2, <2>3 DEF ClientStep
    <3>2. toClient[1].nick = srvNick
      BY <1>1, <1>6, <2>1, <3>1 DEF Adopted
    <3> QED BY <1>6, <2>1, <3>1, <3>2
  <2> QED BY <2>1, <2>3
<1>11. CASE DeliverInGap
  <2>1. /\ stage = "settled" /\ stage' # "up" /\ toClient # <<>> /\ UNCHANGED acceptedNick
        /\ selfNick' = (IF Head(toClient).cmd \in {"001", "NICK"} THEN Head(toClient).nick ELSE selfNick)
    BY <1>11 DEF DeliverInGap, Receive, PumpNick
  <2>2. outcome' = outcome
    BY <1>11 DEF DeliverInGap, Receive, BInv, StageFollows, clientVars
  <2>3. ASSUME outcome = "resolved" PROVE selfNick' = selfNick
    BY <1>6, <1>7, <1>8, <2>1, <2>3
  <2>4. outcome = "resolved" => acceptedNick = srvNick /\ selfNick = srvNick
    BY <1>1, <2>1 DEF Adopted
  <2> QED BY <2>1, <2>2, <2>3, <2>4
<1>12. CASE Continue
  <2>1. /\ stage = "settled" /\ UNCHANGED <<outcome, toClient, acceptedNick, selfNick>>
        /\ \/ stage' = "up" /\ outcome = "resolved" /\ clientNick' = acceptedNick
           \/ stage' = "failed"
    BY <1>12 DEF Continue, vars, clientVars
  <2>2. stage' = "up" => clientNick' = srvNick /\ selfNick' = srvNick
    BY <1>1, <2>1 DEF Adopted
  <2>3. \A i \in DOMAIN toClient' : toClient'[i].cmd # "NICK"
    BY <1>8, <2>1
  <2>4. stage' = "up" => Current(srvNick)'
    BY <1>3, <2>2, <2>3 DEF Current
  <2> QED BY <2>1, <2>4
<1>13. CASE DeliverWhenUp
  <2>1. /\ stage = "up" /\ stage' = "up" /\ toClient # <<>> /\ toClient' = Tail(toClient)
        /\ selfNick' = (IF Head(toClient).cmd \in {"001", "NICK"} THEN Head(toClient).nick ELSE selfNick)
        /\ clientNick' = (IF Head(toClient).cmd = "NICK" THEN Head(toClient).nick ELSE clientNick)
    BY <1>13 DEF DeliverWhenUp, PumpNick
  <2>2. toClient[1].cmd # "001" /\ 1 \in DOMAIN toClient /\ Head(toClient) = toClient[1]
    BY <1>6, <1>7, <2>1 DEF BInv, StageFollows
  <2>3. /\ \A i \in DOMAIN toClient' : i \in Nat /\ i >= 1 /\ i + 1 \in DOMAIN toClient /\ toClient'[i] = toClient[i + 1]
        /\ \A i \in DOMAIN toClient : i \in Nat /\ (i = 1 \/ (i - 1 \in DOMAIN toClient' /\ toClient'[i - 1] = toClient[i]))
    BY <1>0, <2>1, Shrinks
  <2>4. Current(srvNick)
    BY <1>1, <2>1
  <2>5. ASSUME \A i \in DOMAIN toClient' : toClient'[i].cmd # "NICK"
        PROVE  clientNick' = srvNick /\ selfNick' = srvNick
    <3>1. \A i \in DOMAIN toClient : i = 1 \/ toClient[i].cmd # "NICK"
      BY <2>3, <2>5
    <3>2. CASE toClient[1].cmd = "NICK"
      <4>1. \A j \in DOMAIN toClient : j > 1 => toClient[j].cmd # "NICK"
        BY <3>1
      <4>2. toClient[1].nick = srvNick
        BY <2>2, <2>4, <3>2, <4>1 DEF Current
      <4> QED BY <2>1, <2>2, <3>2, <4>2
    <3>3. CASE toClient[1].cmd # "NICK"
      <4>1. clientNick = srvNick /\ selfNick = srvNick
        BY <2>4, <3>1, <3>3 DEF Current
      <4> QED BY <2>1, <2>2, <3>3, <4>1
    <3> QED BY <3>2, <3>3
  <2>6. ASSUME NEW i \in DOMAIN toClient', toClient'[i].cmd = "NICK",
               \A j \in DOMAIN toClient' : j > i => toClient'[j].cmd # "NICK"
        PROVE  toClient'[i].nick = srvNick
    <3>1. i \in Nat /\ i + 1 \in DOMAIN toClient /\ toClient'[i] = toClient[i + 1]
      BY <2>3
    <3>2. ASSUME NEW j \in DOMAIN toClient, j > i + 1 PROVE toClient[j].cmd # "NICK"
      <4>1. j \in Nat /\ (j = 1 \/ (j - 1 \in DOMAIN toClient' /\ toClient'[j - 1] = toClient[j]))
        BY <2>3
      <4>2. j # 1 /\ j - 1 > i
        BY <3>1, <3>2, <4>1
      <4> QED BY <2>6, <4>1, <4>2
    <3>3. toClient[i + 1].nick = srvNick
      BY <2>4, <2>6, <3>1, <3>2 DEF Current
    <3> QED BY <3>1, <3>3
  <2>7. Current(srvNick)'
    BY <1>3, <2>5, <2>6 DEF Current
  <2> QED BY <2>1, <2>7
<1>14. CASE TimeoutFires
  BY <1>14 DEF TimeoutFires, Timeout, Settle
<1> QED BY <1>10, <1>11, <1>12, <1>13, <1>14 DEF ClientMoves

\* What the server sends keeps it too.
LEMMA ServerKeepsNick ==
  ASSUME BInv, ~EarlyNotices, ServerMoves
  PROVE  NickFollows'
<1>0. toServer \in Seq(ClientLine) /\ toClient \in Seq(ServerLine) /\ IInv /\ AInv
  BY DEF BInv, AInv, IInv, TypeOK
<1>1. Adopted(srvNick) /\ (stage = "up" => Current(srvNick))
  BY NickFollowsIs DEF BInv
<1>2. PICK t \in Seq(ServerLine) : toClient' = toClient \o t /\ SaysAs(t) /\ Single(t)
  BY <1>0, ServerMovesAre
<1>3. Continues(toClient', toClient, t)
  BY <1>0, <1>2, GrowsBy
<1>4. UNCHANGED <<outcome, stage, acceptedNick, clientNick, selfNick>>
  <2>1. UNCHANGED clientVars
    BY <1>0, ServerMovesAre
  <2>2. UNCHANGED <<stage, acceptedNick, clientNick, selfNick>>
    BY DEF ServerMoves, ServerAnswers, ServerNotice, ServerRename, sessionVars
  <2> QED BY <2>1, <2>2 DEF clientVars
<1>5. \A i \in DOMAIN toClient' : \/ i \in DOMAIN toClient /\ toClient'[i] = toClient[i]
                                  \/ i \notin DOMAIN toClient /\ \E j \in DOMAIN t : toClient'[i] = t[j]
  BY <1>3 DEF Continues
<1>6. SUFFICES Adopted(srvNick)' /\ (stage' = "up" => Current(srvNick)')
  BY <1>6 DEF NickFollows, Adopted, Current
<1>7. CASE UNCHANGED srvNick
  <2>1. \A j \in DOMAIN t : t[j].cmd \in {"001", "NICK"} => t[j].nick = srvNick
    BY <1>2, <1>7 DEF SaysAs
  <2>2. Adopted(srvNick)'
    BY <1>1, <1>4, <1>5, <1>7, <2>1 DEF Adopted
  <2>3. ASSUME stage = "up" PROVE Current(srvNick)'
    <3>1. Current(srvNick)
      BY <1>1, <2>3
    <3>2. (\A i \in DOMAIN toClient' : toClient'[i].cmd # "NICK") => clientNick = srvNick /\ selfNick = srvNick
      BY <1>3, <3>1 DEF Continues, Current
    <3>3. ASSUME NEW i \in DOMAIN toClient', toClient'[i].cmd = "NICK",
                 \A j \in DOMAIN toClient' : j > i => toClient'[j].cmd # "NICK"
          PROVE  toClient'[i].nick = srvNick
      <4>1. CASE i \in DOMAIN toClient /\ toClient'[i] = toClient[i]
        <5>1. \A j \in DOMAIN toClient : j > i => toClient[j].cmd # "NICK"
          BY <1>3, <3>3 DEF Continues
        <5> QED BY <3>1, <3>3, <4>1, <5>1 DEF Current
      <4>2. CASE \E j \in DOMAIN t : toClient'[i] = t[j]
        BY <2>1, <3>3, <4>2
      <4> QED BY <1>5, <4>1, <4>2
    <3> QED BY <1>4, <1>7, <3>2, <3>3 DEF Current
  <2> QED BY <1>4, <2>2, <2>3
<1>8. CASE ServerNick /\ srvNick' # srvNick
  <2>1. ReadBy("NICK") /\ 1 \in DOMAIN toServer
    <3>1. ReadBy("NICK")
      BY <1>0, <1>8, ReadIs DEF ServerNick
    <3> QED BY <1>0, <3>1, Shrinks DEF ReadBy
  <2>2. srvNick = NoNick
    BY <2>1 DEF BInv, NickAsked, ReadBy
  <2>3. ~srvWelcomed
    BY <1>0, <2>2 DEF AInv, WelcomedReady
  <2>4. outcome # "resolved" /\ \A i \in DOMAIN toClient : toClient[i].cmd # "001"
    BY <2>3 DEF BInv, WelcomedOnce
  <2>5. stage # "up"
    BY <2>4 DEF BInv, StageFollows
  <2>6. \A j \in DOMAIN t : t[j].cmd # "001"
    BY <1>2, <1>8 DEF SaysAs
  <2> QED BY <1>4, <1>5, <2>4, <2>5, <2>6 DEF Adopted
<1>9. CASE ServerRename
  <2>1. stage = "up" /\ srvNick # NoNick
    BY <1>0, <1>9 DEF ServerRename, MayNotify, AInv, WelcomedReady
  <2>2. \A i \in DOMAIN toClient : toClient[i].cmd # "001"
    BY <2>1 DEF BInv, StageFollows, WelcomedOnce
  <2>3. PICK r \in Seq(ServerLine) :
          /\ toClient' = toClient \o r /\ SaysAs(r) /\ DOMAIN r = {1} /\ r[1].cmd = "NICK"
    BY <1>0, <1>9, <2>1, OwnSays
  <2>4. r[1].nick = srvNick' /\ \A j \in DOMAIN r : r[j].cmd = "NICK" /\ r[j].nick = srvNick'
    BY <2>3 DEF SaysAs
  <2>5. Continues(toClient', toClient, r)
    BY <1>0, <2>3, GrowsBy
  <2>6. PICK n \in DOMAIN toClient' \ DOMAIN toClient : toClient'[n].cmd = "NICK"
    BY <2>3, <2>5 DEF Continues
  <2>7. Adopted(srvNick)'
    <3>1. \A i \in DOMAIN toClient' : toClient'[i].cmd # "001"
      <4>1. \A i \in DOMAIN toClient' :
              (i \in DOMAIN toClient /\ toClient'[i] = toClient[i]) \/ \E j \in DOMAIN r : toClient'[i] = r[j]
        BY <2>5 DEF Continues
      <4> QED BY <2>2, <2>4, <4>1
    <3> QED BY <1>4, <2>1, <3>1 DEF Adopted
  <2>8. ASSUME NEW i \in DOMAIN toClient', toClient'[i].cmd = "NICK",
               \A j \in DOMAIN toClient' : j > i => toClient'[j].cmd # "NICK"
        PROVE  toClient'[i].nick = srvNick'
    <3>1. i \notin DOMAIN toClient
      <4>1. ASSUME i \in DOMAIN toClient PROVE FALSE
        <5>1. i < n
          BY <2>5, <2>6, <4>1 DEF Continues
        <5>2. n > i
          BY <5>1
        <5> QED BY <2>6, <2>8, <5>2
      <4> QED BY <4>1
    <3>2. \E j \in DOMAIN r : toClient'[i] = r[j]
      BY <2>5, <3>1 DEF Continues
    <3> QED BY <2>4, <3>2
  <2>9. Current(srvNick)'
    BY <2>6, <2>8 DEF Current
  <2> QED BY <2>7, <2>9
<1>10. UNCHANGED srvNick \/ ServerNick \/ ServerRename
  BY DEF ServerMoves, ServerAnswers, ServerStep, ServerLS, ServerUser, ServerReq, ServerAuth,
         ServerResponse, ServerEnd, Welcome, ServerNotice, Notice
<1> QED BY <1>7, <1>8, <1>9, <1>10

\* Each step keeps the second invariant.
LEMMA BInvNext ==
  ASSUME BInv, [SessionNext]_allVars
  PROVE  BInv'
<1>1. AInv' /\ StageFollows'
  BY AInvNext, StageKeeps DEF BInv
<1>2. CASE ClientMoves
  <2>1. NickAsked' /\ WelcomedOnce' /\ NoneEarly'
    BY <1>2, ClientKeepsAsked, ClientKeepsWelcome, NoneEarlyKeeps DEF BInv
  <2>2. NickFollows'
    <3>1. CASE EarlyNotices
      BY <3>1 DEF NickFollows
    <3>2. CASE ~EarlyNotices
      BY <1>2, <3>2, ClientKeepsNick
    <3> QED BY <3>1, <3>2
  <2> QED BY <1>1, <2>1, <2>2 DEF BInv
<1>3. CASE ServerMoves
  <2>1. NickAsked' /\ WelcomedOnce' /\ NoneEarly'
    BY <1>3, ServerKeepsAsked, ServerKeepsWelcome, NoneEarlyKeeps DEF BInv
  <2>2. NickFollows'
    <3>1. CASE EarlyNotices
      BY <3>1 DEF NickFollows
    <3>2. CASE ~EarlyNotices
      BY <1>3, <3>2, ServerKeepsNick
    <3> QED BY <3>1, <3>2
  <2> QED BY <1>1, <2>1, <2>2 DEF BInv
<1>4. CASE UNCHANGED allVars
  <2>1. UNCHANGED <<toServer, toClient, outcome, srvNick, srvWelcomed, stage, acceptedNick,
                    clientNick, selfNick>>
    BY <1>4 DEF allVars, vars, clientVars, serverVars, sessionVars
  <2>2. NickAsked' /\ WelcomedOnce'
    BY <2>1 DEF BInv, NickAsked, WelcomedOnce
  <2>3. NoneEarly' /\ NickFollows'
    BY <2>1 DEF BInv, NoneEarly, NickFollows
  <2> QED BY <1>1, <2>2, <2>3 DEF BInv
<1> QED BY <1>2, <1>3, <1>4 DEF SessionNext, ClientMoves, ServerMoves

\* It holds at the kickoff.
LEMMA BInvInit == SessionInit => BInv
<1> SUFFICES ASSUME SessionInit PROVE BInv
  OBVIOUS
<1> DEFINE x == Line("CAP LS")
           y == [cmd |-> "NICK", nick |-> 0]
           z == Line("USER")
<1>1. x.cmd = "CAP LS" /\ y.cmd = "NICK" /\ z.cmd = "USER"
  BY DEF Line
<1>2. x \in ClientLine /\ y \in ClientLine /\ z \in ClientLine
  BY PlainLines DEF ClientLine
<1>3. toServer = <<x, y, z>> /\ toClient = <<>>
  BY Zenon DEF SessionInit, Init
<1>4. outcome = "pending" /\ srvNick = NoNick /\ srvWelcomed = FALSE /\ stage = "registering"
  BY Zenon DEF SessionInit, Init
<1> HIDE DEF x, y, z
<1>5. PICK w \in Seq(ClientLine) :
        w = <<x, y, z>> /\ DOMAIN w = 1..3 /\ w[1] = x /\ w[2] = y /\ w[3] = z
  BY <1>2, ThreeLines
<1>6. \A i \in DOMAIN toServer : toServer[i].cmd = "NICK" => i = 2
  <2>1. \A i \in 1..3 : i = 1 \/ i = 2 \/ i = 3
    OBVIOUS
  <2> QED BY <1>1, <1>3, <1>5, <2>1
<1>7. \A i \in DOMAIN toClient : FALSE
  BY <1>3
<1>8. NickAsked /\ WelcomedOnce
  BY <1>4, <1>6, <1>7 DEF NickAsked, WelcomedOnce
<1>9. StageFollows /\ NoneEarly /\ NickFollows
  BY <1>4, <1>7 DEF StageFollows, NoneEarly, NickFollows
<1> QED BY <1>8, <1>9, AInvInit DEF BInv

\* Where notices wait until we are up, our nick is the server's for us whenever nothing is
\* in flight: the fallback walk asks for one nick at a time, 001 confirms the one that was
\* accepted, and each later change reaches the public getter and the store alike.
THEOREM NickStaysInSync ==
  ASSUME ~EarlyNotices
  PROVE  SessionSpec => []NickInSync
<1>1. BInv /\ [SessionNext]_allVars => BInv'
  BY BInvNext
<1>2. BInv => NickInSync
  <2> SUFFICES ASSUME BInv, stage = "up", toClient = <<>>
               PROVE  clientNick = srvNick /\ selfNick = srvNick
    BY DEF NickInSync, Drained
  <2>1. Current(srvNick)
    BY NickFollowsIs DEF BInv
  <2>2. \A i \in DOMAIN toClient : FALSE
    OBVIOUS
  <2> QED BY <2>1, <2>2 DEF Current
<1> QED BY <1>1, <1>2, BInvInit, PTL DEF SessionSpec

-----------------------------------------------------------------------------
(* Our capabilities.  Each name is asked for once, and what the server     *)
(* grants or withdraws is in flight until we have read it.                 *)

\* The list of capabilities has been asked for and nothing that depends on it was done.
NotAsked ==
  /\ ~capsConcluded /\ ~saslStarted /\ pending = {}
  /\ \A i \in DOMAIN toServer : toServer[i].cmd # "CAP REQ"
  /\ \A i \in DOMAIN toClient : toClient[i].cmd \notin {"ACK", "NAK"}

\* The list comes once, from a server that has capabilities; only the others answer 421.
Listed ==
  /\ (\E i \in DOMAIN toServer : toServer[i].cmd = "CAP LS") =>
       NotAsked /\ \A j \in DOMAIN toClient : toClient[j].cmd \notin {"LS", "421"}
  /\ (\E i \in DOMAIN toClient : EndsList(toClient[i])) => NotAsked
  /\ \A i, j \in DOMAIN toClient : EndsList(toClient[i]) /\ EndsList(toClient[j]) => j = i
  /\ srvKind = "modern" => \A i \in DOMAIN toClient : toClient[i].cmd # "421"
  /\ srvKind # "modern" =>
       /\ pending = {}
       /\ \A i \in DOMAIN toServer : toServer[i].cmd # "CAP REQ"
       /\ \A i \in DOMAIN toClient : toClient[i].cmd \notin {"LS", "ACK", "NAK", "NEW", "DEL"}

\* A request on its way, and an answer on its way back.
Request(x) == x.cmd = "CAP REQ"
Answer(m)  == m.cmd \in {"ACK", "NAK"}

\* Each name asked for is in one line, a request or its answer.
Unanswered ==
  /\ \A i \in DOMAIN toServer : Request(toServer[i]) =>
       toServer[i].caps # {} /\ toServer[i].caps \subseteq pending
  /\ \A i \in DOMAIN toClient : Answer(toClient[i]) =>
       toClient[i].caps # {} /\ toClient[i].caps \subseteq pending
  /\ \A i, j \in DOMAIN toServer : i # j /\ Request(toServer[i]) /\ Request(toServer[j]) =>
       toServer[i].caps \cap toServer[j].caps = {}
  /\ \A i, j \in DOMAIN toClient : i # j /\ Answer(toClient[i]) /\ Answer(toClient[j]) =>
       toClient[i].caps \cap toClient[j].caps = {}
  /\ \A i \in DOMAIN toServer : \A j \in DOMAIN toClient : Request(toServer[i]) /\ Answer(toClient[j]) =>
       toServer[i].caps \cap toClient[j].caps = {}

\* No decision is taken while an answer is outstanding, and until we are up each name is
\* asked for once; no server we follow disables with an ACK.
Requested ==
  /\ capsConcluded \/ saslStarted => pending = {}
  /\ stage # "up" => Unanswered
  /\ \A i \in DOMAIN toClient : toClient[i].cmd = "ACK" => toClient[i].off = {}

\* A line that enables or disables c when it is read.
Switches(m, c) == m.cmd \in {"ACK", "DEL"} /\ c \in m.caps

\* What c will be for us when all that is in flight has been read is what it is for the server.
Told(c) ==
  /\ (\A i \in DOMAIN toClient : ~Switches(toClient[i], c)) => (c \in enabled <=> c \in srvEnabled)
  /\ \A i \in DOMAIN toClient :
       Switches(toClient[i], c) /\ (\A j \in DOMAIN toClient : j > i => ~Switches(toClient[j], c)) =>
         (toClient[i].cmd = "ACK" <=> c \in srvEnabled)

CapsFollow == outcome = "rejected" \/ \A c \in Caps : Told(c)

\* A server whose notices wait, and a ceiling that none of its lists reaches.
Uncrowded == ~EarlyNotices /\ Cardinality(Caps) <= MaxTrackedCaps

CInv == BInv /\ Listed /\ Requested /\ (Uncrowded => CapsFollow)

\* The three ways a step of the client's treats the handshake.
Handles(new) ==
  /\ stage = "registering" /\ outcome = "pending" /\ stage' # "up"
  /\ toClient # <<>> /\ toClient' = Tail(toClient)
  /\ HandlesAs(toClient[1], new)

Idles ==
  /\ UNCHANGED <<pending, capsConcluded, saslStarted, enabled, toServer>>
  /\ toClient' = toClient \/ (outcome # "pending" /\ toClient # <<>> /\ toClient' = Tail(toClient))
  /\ stage # "up" /\ (stage' = "up" => outcome = "resolved")

\* A step of the client's hands a line to the handshake, leaves the handshake alone, or
\* is one of a client that is up.
LEMMA ClientMovesApart ==
  ASSUME BInv, ClientMoves
  PROVE  \/ \E new \in Seq(ClientLine) : Handles(new)
         \/ Idles /\ ~DeliverWhenUp
         \/ DeliverWhenUp /\ stage = "up" /\ stage' = "up"
<1>0. toClient \in Seq(ServerLine) /\ IInv
  BY DEF BInv, AInv, IInv, TypeOK
<1>1. toClient # <<>> => Head(toClient) = toClient[1] /\ Head(toClient) \in ServerLine
  BY <1>0, Shrinks
<1>2. CASE DeliverToHandshake
  <2>1. /\ stage = "registering" /\ outcome = "pending" /\ stage' # "up"
        /\ toClient # <<>> /\ toClient' = Tail(toClient) /\ Handle(Head(toClient))
    BY <1>2 DEF DeliverToHandshake, Receive, BInv, StageFollows
  <2>2. PICK new \in Seq(ClientLine) : HandlesAs(Head(toClient), new)
    BY <1>0, <1>1, <2>1, HandleIs
  <2>3. Handles(new)
    BY <1>1, <2>1, <2>2 DEF Handles
  <2> QED BY <2>3
<1>3. CASE DeliverInGap
  <2>1. stage = "settled" /\ outcome # "pending" /\ stage' = stage
    BY <1>3 DEF DeliverInGap, BInv, StageFollows
  <2>2. /\ UNCHANGED <<clientVars, toServer>> /\ toClient # <<>> /\ toClient' = Tail(toClient)
        /\ ~DeliverWhenUp
    BY <1>3, <2>1 DEF DeliverInGap, Receive, DeliverWhenUp
  <2> QED BY <2>1, <2>2 DEF Idles, clientVars, capVars, saslVars
<1>4. CASE Continue
  <2>1. UNCHANGED vars /\ stage = "settled" /\ (stage' = "up" => outcome = "resolved")
    BY <1>4 DEF Continue
  <2>2. ~DeliverWhenUp
    BY <2>1 DEF DeliverWhenUp
  <2> QED BY <2>1, <2>2 DEF Idles, vars, clientVars, capVars, saslVars
<1>5. CASE TimeoutFires
  <2>1. /\ UNCHANGED <<capVars, saslVars, toServer, toClient>> /\ stage = "registering"
        /\ stage' = "settled"
    BY <1>5 DEF TimeoutFires, Timeout
  <2>2. ~DeliverWhenUp
    BY <2>1 DEF DeliverWhenUp
  <2> QED BY <2>1, <2>2 DEF Idles, capVars, saslVars
<1>6. CASE DeliverWhenUp
  BY <1>6 DEF DeliverWhenUp
<1> QED BY <1>2, <1>3, <1>4, <1>5, <1>6 DEF ClientMoves

\* Nobody who is up is still waiting for the list.
LEMMA UpIsPast ==
  ASSUME BInv, Listed, stage = "up"
  PROVE  /\ \A i \in DOMAIN toServer : toServer[i].cmd # "CAP LS"
         /\ \A i \in DOMAIN toClient : ~EndsList(toClient[i])
         /\ srvKind = "modern" => capsConcluded
<1>1. srvWelcomed
  BY DEF BInv, StageFollows, WelcomedOnce
<1>2. srvUser /\ (srvKind = "modern" => capsConcluded)
  BY <1>1 DEF BInv, AInv, WelcomedReady
<1>3. \A i \in DOMAIN toServer : toServer[i].cmd # "CAP LS"
  BY <1>2 DEF BInv, AInv, ListedFirst
<1>4. \A i \in DOMAIN toClient : ~EndsList(toClient[i])
  BY <1>2 DEF Listed, NotAsked, EndsList
<1> QED BY <1>2, <1>3, <1>4

\* What the client reads and sends keeps the list where it was.
LEMMA ClientKeepsListed ==
  ASSUME BInv, Listed, ClientMoves
  PROVE  Listed'
<1>0. toServer \in Seq(ClientLine) /\ toClient \in Seq(ServerLine) /\ IInv
  BY DEF BInv, AInv, IInv, TypeOK
<1>1. PICK new \in Seq(ClientLine) : ClientStep(new)
  BY <1>0, ClientMovesAre
<1>2. /\ toServer' = toServer \o new /\ srvKind' = srvKind
      /\ toClient' = toClient \/ (toClient # <<>> /\ toClient' = Tail(toClient))
      /\ \A j \in DOMAIN new : new[j].cmd # "CAP LS"
  BY <1>1 DEF ClientStep, serverVars
<1>3. Continues(toServer', toServer, new)
  BY <1>0, <1>2, GrowsBy
<1>4. Remains(toClient', toClient)
  BY <1>0, <1>2, RemainsAfter
<1>5. /\ \A i \in DOMAIN toClient' : \E k \in DOMAIN toClient : toClient'[i] = toClient[k]
      /\ \A i, j \in DOMAIN toClient' : i # j =>
           \E k, l \in DOMAIN toClient : k # l /\ toClient'[i] = toClient[k] /\ toClient'[j] = toClient[l]
  BY <1>4, RemainsOnly
<1>6. \A i \in DOMAIN toServer' : toServer'[i].cmd = "CAP LS" => i \in DOMAIN toServer /\ toServer[i].cmd = "CAP LS"
  <2>1. \A i \in DOMAIN toServer' : (i \in DOMAIN toServer /\ toServer'[i] = toServer[i]) \/ \E j \in DOMAIN new : toServer'[i] = new[j]
    BY <1>3 DEF Continues
  <2> QED BY <1>2, <2>1
<1>7. \A i, j \in DOMAIN toClient' : EndsList(toClient'[i]) /\ EndsList(toClient'[j]) => j = i
  BY <1>5 DEF Listed
<1>8. srvKind' = "modern" => \A i \in DOMAIN toClient' : toClient'[i].cmd # "421"
  BY <1>2, <1>5 DEF Listed
<1>9. srvKind # "modern" =>
        \A i \in DOMAIN toClient' : toClient'[i].cmd \notin {"LS", "ACK", "NAK", "NEW", "DEL"}
  BY <1>5 DEF Listed
<1>10. CASE DeliverWhenUp /\ stage = "up"
  <2>1. \A i \in DOMAIN toServer' : toServer'[i].cmd # "CAP LS"
    BY <1>6, <1>10, UpIsPast
  <2>2. \A i \in DOMAIN toClient' : ~EndsList(toClient'[i])
    BY <1>5, <1>10, UpIsPast
  <2>3. ASSUME srvKind # "modern"
        PROVE  pending' = {} /\ \A i \in DOMAIN toServer' : toServer'[i].cmd # "CAP REQ"
    <3>1. toClient # <<>> => 1 \in DOMAIN toClient /\ Head(toClient) = toClient[1]
      BY <1>0, Shrinks
    <3>2. UNCHANGED <<toServer, pending>>
      BY <1>10, <2>3, <3>1 DEF DeliverWhenUp, CapNew, CapDel, CapAck, Listed
    <3> QED BY <2>3, <3>2 DEF Listed
  <2> QED BY <1>2, <1>7, <1>8, <1>9, <2>1, <2>2, <2>3 DEF Listed
<1>11. CASE Idles
  <2>1. UNCHANGED <<pending, capsConcluded, saslStarted, toServer>>
    BY <1>11 DEF Idles
  <2>2. NotAsked => NotAsked'
    BY <1>5, <2>1 DEF NotAsked
  <2>3. (\E i \in DOMAIN toServer' : toServer'[i].cmd = "CAP LS") =>
          NotAsked' /\ \A j \in DOMAIN toClient' : toClient'[j].cmd \notin {"LS", "421"}
    BY <1>5, <2>1, <2>2 DEF Listed
  <2>4. (\E i \in DOMAIN toClient' : EndsList(toClient'[i])) => NotAsked'
    BY <1>5, <2>2 DEF Listed
  <2>5. srvKind # "modern" => pending' = {} /\ \A i \in DOMAIN toServer' : toServer'[i].cmd # "CAP REQ"
    BY <2>1 DEF Listed
  <2> QED BY <1>2, <1>7, <1>8, <1>9, <2>3, <2>4, <2>5 DEF Listed
<1>12. ASSUME NEW say \in Seq(ClientLine), Handles(say) PROVE Listed'
  <2> DEFINE m == toClient[1]
  <2>1. /\ toClient # <<>> /\ toClient' = Tail(toClient) /\ 1 \in DOMAIN toClient
        /\ HandlesAs(m, say)
    BY <1>0, <1>12, Shrinks DEF Handles
  <2>2. Continues(toServer', toServer, say)
    BY <1>0, <2>1, GrowsBy DEF HandlesAs
  <2>3. ASSUME NotAsked, ~EndsList(m), m.cmd # "421" PROVE NotAsked'
    <3>1. m.cmd \notin {"ACK", "NAK"}
      BY <2>1, <2>3 DEF NotAsked
    <3>2. UNCHANGED <<capsConcluded, saslStarted, pending>>
      BY <2>1, <2>3, <3>1 DEF HandlesAs, Advances, Tracks, NotAsked
    <3>3. \A j \in DOMAIN say : say[j].cmd # "CAP REQ"
      BY <2>1, <2>3 DEF HandlesAs, Answers
    <3>4. \A i \in DOMAIN toServer' : toServer'[i].cmd # "CAP REQ"
      BY <2>2, <2>3, <3>3 DEF NotAsked, Continues
    <3> QED BY <1>5, <2>3, <3>2, <3>4 DEF NotAsked
  <2>4. (\E i \in DOMAIN toServer' : toServer'[i].cmd = "CAP LS") =>
          NotAsked' /\ \A j \in DOMAIN toClient' : toClient'[j].cmd \notin {"LS", "421"}
    <3> SUFFICES ASSUME \E i \in DOMAIN toServer : toServer[i].cmd = "CAP LS"
                 PROVE  NotAsked' /\ \A j \in DOMAIN toClient' : toClient'[j].cmd \notin {"LS", "421"}
      BY <1>6
    <3>1. NotAsked /\ \A j \in DOMAIN toClient : toClient[j].cmd \notin {"LS", "421"}
      BY DEF Listed
    <3>2. ~EndsList(m) /\ m.cmd # "421"
      BY <2>1, <3>1 DEF EndsList
    <3> QED BY <1>5, <2>3, <3>1, <3>2
  <2>5. (\E i \in DOMAIN toClient' : EndsList(toClient'[i])) => NotAsked'
    <3> SUFFICES ASSUME NEW i \in DOMAIN toClient', EndsList(toClient'[i])
                 PROVE  NotAsked'
      OBVIOUS
    <3>1. i \in Nat /\ i >= 1 /\ i + 1 \in DOMAIN toClient /\ EndsList(toClient[i + 1])
      BY <1>0, <2>1, Shrinks
    <3>2. NotAsked /\ srvKind = "modern"
      BY <3>1 DEF Listed, EndsList
    <3>3. i + 1 # 1
      BY <3>1
    <3>4. ~EndsList(m)
      BY <2>1, <3>1, <3>3 DEF Listed
    <3>5. m.cmd # "421"
      BY <2>1, <3>2 DEF Listed
    <3> QED BY <2>3, <3>2, <3>4, <3>5
  <2>6. ASSUME srvKind # "modern"
        PROVE  pending' = {} /\ \A i \in DOMAIN toServer' : toServer'[i].cmd # "CAP REQ"
    <3>1. m.cmd \notin {"LS", "ACK", "NAK"} /\ ~EndsList(m)
      BY <2>1, <2>6 DEF Listed, EndsList
    <3>2. UNCHANGED pending
      BY <2>1, <3>1 DEF HandlesAs, Tracks
    <3>3. \A j \in DOMAIN say : say[j].cmd # "CAP REQ"
      BY <2>1, <3>1 DEF HandlesAs, Answers
    <3>4. \A i \in DOMAIN toServer' : toServer'[i].cmd # "CAP REQ"
      BY <2>2, <2>6, <3>3 DEF Listed, Continues
    <3> QED BY <2>6, <3>2, <3>4 DEF Listed
  <2> QED BY <1>2, <1>7, <1>8, <1>9, <2>4, <2>5, <2>6 DEF Listed
<1> QED BY <1>10, <1>11, <1>12, ClientMovesApart

\* What the server reads and sends keeps it too.
LEMMA ServerKeepsListed ==
  ASSUME BInv, Listed, ServerMoves
  PROVE  Listed'
<1>0. toServer \in Seq(ClientLine) /\ toClient \in Seq(ServerLine) /\ IInv /\ AInv
  BY DEF BInv, AInv, IInv, TypeOK
<1>1. PICK t \in Seq(ServerLine) : toClient' = toClient \o t /\ SaysAs(t) /\ Single(t)
  BY <1>0, ServerMovesAre
<1>2. /\ toServer' = toServer \/ (toServer # <<>> /\ toServer' = Tail(toServer))
      /\ srvKind' = srvKind
  BY <1>0, ServerMovesAre
<1>3. UNCHANGED <<pending, capsConcluded, saslStarted>>
  <2>1. UNCHANGED clientVars
    BY <1>0, ServerMovesAre
  <2> QED BY <2>1 DEF clientVars, capVars, saslVars
<1>4. Continues(toClient', toClient, t)
  BY <1>0, <1>1, GrowsBy
<1>5. Remains(toServer', toServer)
  BY <1>0, <1>2, RemainsAfter
<1>6. \A i \in DOMAIN toServer' : \E k \in DOMAIN toServer : toServer'[i] = toServer[k]
  BY <1>5, RemainsOnly
<1>7. toServer # <<>> => 1 \in DOMAIN toServer
  BY <1>0, Shrinks
<1>8. \A i \in DOMAIN toClient' : \/ i \in DOMAIN toClient /\ toClient'[i] = toClient[i]
                                  \/ i \notin DOMAIN toClient /\ \E j \in DOMAIN t : toClient'[i] = t[j]
  BY <1>4 DEF Continues
<1>9. srvKind' = "modern" => \A i \in DOMAIN toClient' : toClient'[i].cmd # "421"
  <2>1. srvKind = "modern" => \A j \in DOMAIN t : t[j].cmd # "421"
    BY <1>1 DEF SaysAs
  <2> QED BY <1>2, <1>8, <2>1 DEF Listed
<1>10. (\E i \in DOMAIN toServer : toServer[i].cmd = "CAP REQ") \/
         \A j \in DOMAIN t : t[j].cmd \notin {"ACK", "NAK"}
  <2>1. \A j \in DOMAIN t : t[j].cmd \in {"ACK", "NAK"} => ReadBy("CAP REQ")
    BY <1>1 DEF SaysAs
  <2> QED BY <1>7, <2>1 DEF ReadBy
<1>11. NotAsked => NotAsked'
  BY <1>3, <1>6, <1>8, <1>10 DEF NotAsked
<1>12. srvKind' # "modern" =>
         /\ pending' = {}
         /\ \A i \in DOMAIN toServer' : toServer'[i].cmd # "CAP REQ"
         /\ \A i \in DOMAIN toClient' : toClient'[i].cmd \notin {"LS", "ACK", "NAK", "NEW", "DEL"}
  <2> SUFFICES ASSUME srvKind # "modern"
               PROVE  /\ pending' = {}
                      /\ \A i \in DOMAIN toServer' : toServer'[i].cmd # "CAP REQ"
                      /\ \A i \in DOMAIN toClient' : toClient'[i].cmd \notin {"LS", "ACK", "NAK", "NEW", "DEL"}
    BY <1>2
  <2>1. \A i \in DOMAIN toServer : toServer[i].cmd # "CAP REQ"
    BY DEF Listed
  <2>2. \A j \in DOMAIN t : t[j].cmd \notin {"LS", "NEW", "DEL"}
    BY <1>1 DEF SaysAs
  <2>3. \A j \in DOMAIN t : t[j].cmd \notin {"ACK", "NAK"}
    BY <1>10, <2>1
  <2> QED BY <1>3, <1>6, <1>8, <2>1, <2>2, <2>3 DEF Listed
<1>13. CASE ReadBy("CAP LS")
  <2>1. \E i \in DOMAIN toServer : toServer[i].cmd = "CAP LS"
    BY <1>7, <1>13 DEF ReadBy
  <2>2. NotAsked' /\ \A j \in DOMAIN toClient : toClient[j].cmd \notin {"LS", "421"}
    BY <1>11, <2>1 DEF Listed
  <2>3. \A i \in DOMAIN toServer' : toServer'[i].cmd # "CAP LS"
    <3>1. ASSUME NEW i \in DOMAIN toServer', toServer'[i].cmd = "CAP LS" PROVE FALSE
      <4>0. toServer # <<>> /\ toServer' = Tail(toServer)
        BY <1>13 DEF ReadBy
      <4>a. \A j \in DOMAIN toServer' :
              j \in Nat /\ j >= 1 /\ j + 1 \in DOMAIN toServer /\ toServer'[j] = toServer[j + 1]
        BY <1>0, <4>0, Shrinks
      <4>1. i \in Nat /\ i >= 1 /\ i + 1 \in DOMAIN toServer /\ toServer[i + 1].cmd = "CAP LS"
        BY <3>1, <4>a
      <4>2. i + 1 = 1
        BY <1>0, <4>1 DEF ListedFirst, AInv
      <4>3. i \in Nat /\ i >= 1
        BY <4>1
      <4> QED BY <4>2, <4>3
    <3> QED BY <3>1
  <2>4. \A i, j \in DOMAIN toClient' : EndsList(toClient'[i]) /\ EndsList(toClient'[j]) => j = i
    <3>1. \A i \in DOMAIN toClient' : EndsList(toClient'[i]) => i \notin DOMAIN toClient
      BY <1>8, <2>2 DEF EndsList
    <3>2. \A i, j \in DOMAIN toClient' \ DOMAIN toClient :
            i # j => \E k, l \in DOMAIN t : k # l /\ toClient'[i] = t[k] /\ toClient'[j] = t[l]
      BY <1>4 DEF Continues
    <3>3. \A k, l \in DOMAIN t : EndsList(t[k]) /\ EndsList(t[l]) => l = k
      BY <1>1 DEF Single
    <3> QED BY <3>1, <3>2, <3>3
  <2> QED BY <1>9, <1>12, <2>2, <2>3, <2>4 DEF Listed
<1>14. CASE ~ReadBy("CAP LS")
  <2>1. \A j \in DOMAIN t : t[j].cmd \notin {"LS", "421"}
    BY <1>1, <1>14 DEF SaysAs
  <2>2. \A i \in DOMAIN toClient' : toClient'[i].cmd \in {"LS", "421"} =>
          i \in DOMAIN toClient /\ toClient'[i] = toClient[i]
    BY <1>8, <2>1
  <2>3. \A i \in DOMAIN toClient' : EndsList(toClient'[i]) => i \in DOMAIN toClient /\ EndsList(toClient[i])
    BY <2>2 DEF EndsList
  <2>4. (\E i \in DOMAIN toServer' : toServer'[i].cmd = "CAP LS") =>
          NotAsked' /\ \A j \in DOMAIN toClient' : toClient'[j].cmd \notin {"LS", "421"}
    BY <1>6, <1>11, <2>2 DEF Listed
  <2>5. /\ (\E i \in DOMAIN toClient' : EndsList(toClient'[i])) => NotAsked'
        /\ \A i, j \in DOMAIN toClient' : EndsList(toClient'[i]) /\ EndsList(toClient'[j]) => j = i
    BY <1>11, <2>3 DEF Listed
  <2> QED BY <1>9, <1>12, <2>4, <2>5 DEF Listed
<1> QED BY <1>13, <1>14

\* What the client reads and sends keeps each request apart.
LEMMA ClientKeepsRequested ==
  ASSUME BInv, Listed, Requested, ClientMoves
  PROVE  Requested'
<1>0. toServer \in Seq(ClientLine) /\ toClient \in Seq(ServerLine) /\ IInv
  BY DEF BInv, AInv, IInv, TypeOK
<1>1. PICK all \in Seq(ClientLine) : ClientStep(all)
  BY <1>0, ClientMovesAre
<1>2. toClient' = toClient \/ (toClient # <<>> /\ toClient' = Tail(toClient))
  BY <1>1 DEF ClientStep
<1>3. Remains(toClient', toClient)
  BY <1>0, <1>2, RemainsAfter
<1>4. /\ \A i \in DOMAIN toClient' : \E k \in DOMAIN toClient : toClient'[i] = toClient[k]
      /\ \A i, j \in DOMAIN toClient' : i # j =>
           \E k, l \in DOMAIN toClient : k # l /\ toClient'[i] = toClient[k] /\ toClient'[j] = toClient[l]
  BY <1>3, RemainsOnly
<1>5. \A i \in DOMAIN toClient' : toClient'[i].cmd = "ACK" => toClient'[i].off = {}
  BY <1>4 DEF Requested
<1>6. CASE Idles
  <2>1. UNCHANGED <<pending, capsConcluded, saslStarted, toServer>> /\ stage # "up"
    BY <1>6 DEF Idles
  <2>2. Unanswered
    BY <2>1 DEF Requested
  <2>3. Unanswered'
    BY <1>4, <2>1, <2>2 DEF Unanswered
  <2> QED BY <1>5, <2>1, <2>3 DEF Requested
<1>7. CASE DeliverWhenUp /\ stage' = "up"
  <2>1. UNCHANGED <<pending, capsConcluded, saslStarted>>
    BY <1>7 DEF DeliverWhenUp, saslVars
  <2> QED BY <1>5, <1>7, <2>1 DEF Requested
<1>8. ASSUME NEW new \in Seq(ClientLine), Handles(new) PROVE Requested'
  <2> DEFINE m == toClient[1]
  <2>1. /\ toClient # <<>> /\ toClient' = Tail(toClient) /\ 1 \in DOMAIN toClient
        /\ HandlesAs(m, new) /\ stage = "registering"
    BY <1>0, <1>8, Shrinks DEF Handles
  <2>2. Continues(toServer', toServer, new)
    BY <1>0, <2>1, GrowsBy DEF HandlesAs
  <2>3. \A i \in DOMAIN toServer' : (i \in DOMAIN toServer /\ toServer'[i] = toServer[i]) \/ \E j \in DOMAIN new : toServer'[i] = new[j]
    BY <2>2 DEF Continues
  <2>4. Unanswered
    BY <2>1 DEF Requested
  <2>5. ~EndsList(m) =>
          \A i \in DOMAIN toServer' : Request(toServer'[i]) => i \in DOMAIN toServer /\ toServer'[i] = toServer[i]
    <3>1. ~EndsList(m) => \A j \in DOMAIN new : ~Request(new[j])
      BY <2>1 DEF HandlesAs, Answers, Request
    <3> QED BY <2>3, <3>1
  <2>6. CASE EndsList(m)
    <3>1. NotAsked
      BY <2>1, <2>6 DEF Listed
    <3>2. \A i \in DOMAIN toClient' : ~Answer(toClient'[i])
      BY <1>4, <3>1 DEF NotAsked, Answer
    <3>3. \A i \in DOMAIN toServer' : Request(toServer'[i]) =>
            i \in DOMAIN toServer' \ DOMAIN toServer /\ \E j \in DOMAIN new : toServer'[i] = new[j]
      <4>1. \A i \in DOMAIN toServer : ~Request(toServer[i])
        BY <3>1 DEF NotAsked, Request
      <4>2. \A i \in DOMAIN toServer : toServer'[i] = toServer[i]
        BY <2>2 DEF Continues
      <4> QED BY <2>3, <4>1, <4>2
    <3>4. CASE UNCHANGED pending /\ \A j \in DOMAIN new : new[j].cmd # "CAP REQ"
      <4>1. \A i \in DOMAIN toServer' : ~Request(toServer'[i])
        BY <3>3, <3>4 DEF Request
      <4>2. Unanswered'
        BY <3>2, <4>1 DEF Unanswered
      <4>3. pending' = {}
        BY <3>1, <3>4 DEF NotAsked
      <4> QED BY <1>5, <4>2, <4>3 DEF Requested
    <3>5. CASE /\ UNCHANGED <<capsConcluded, saslStarted>>
               /\ \A j \in DOMAIN new :
                    /\ new[j].cmd = "CAP REQ" /\ new[j].caps # {} /\ new[j].caps \subseteq pending'
                    /\ \A k \in DOMAIN new : k # j => new[j].caps \cap new[k].caps = {}
      <4>1. ~(capsConcluded' \/ saslStarted')
        BY <3>1, <3>5 DEF NotAsked
      <4>2. \A i \in DOMAIN toServer' : Request(toServer'[i]) =>
              toServer'[i].caps # {} /\ toServer'[i].caps \subseteq pending'
        BY <3>3, <3>5
      <4>3. \A i, k \in DOMAIN toServer' \ DOMAIN toServer : i # k =>
              \E j, l \in DOMAIN new : j # l /\ toServer'[i] = new[j] /\ toServer'[k] = new[l]
        BY <2>2 DEF Continues
      <4>4. ASSUME NEW i \in DOMAIN toServer' \ DOMAIN toServer, NEW k \in DOMAIN toServer' \ DOMAIN toServer, i # k
            PROVE  toServer'[i].caps \cap toServer'[k].caps = {}
        <5>1. PICK j \in DOMAIN new : \E l \in DOMAIN new : j # l /\ toServer'[i] = new[j] /\ toServer'[k] = new[l]
          BY <4>3, <4>4
        <5>2. PICK l \in DOMAIN new : j # l /\ toServer'[i] = new[j] /\ toServer'[k] = new[l]
          BY <5>1
        <5>3. new[j].caps \cap new[l].caps = {}
          BY <3>5, <5>2
        <5> QED BY <5>2, <5>3
      <4>5. \A i, k \in DOMAIN toServer' : i # k /\ Request(toServer'[i]) /\ Request(toServer'[k]) =>
              toServer'[i].caps \cap toServer'[k].caps = {}
        BY <3>3, <4>4
      <4>6. Unanswered'
        BY <3>2, <4>2, <4>5 DEF Unanswered
      <4> QED BY <1>5, <4>1, <4>6 DEF Requested
    <3> QED BY <2>1, <2>6, <3>4, <3>5 DEF HandlesAs, Asks
  <2>7. CASE Answer(m)
    <3>1. ~EndsList(m) /\ m.cmd \in {"ACK", "NAK"}
      BY <2>7 DEF Answer, EndsList
    <3>2. m.cmd = "ACK" => m.off = {}
      BY <2>1 DEF Requested
    <3>3. pending' = pending \ m.caps
      BY <2>1, <3>1, <3>2 DEF HandlesAs, Tracks
    <3>4. capsConcluded' \/ saslStarted' => pending' = {}
      <4>1. capsConcluded \/ saslStarted => pending = {}
        BY DEF Requested
      <4> QED BY <2>1, <3>1, <3>3, <4>1 DEF HandlesAs, Tracks
    <3>5. \A i \in DOMAIN toClient' :
            i \in Nat /\ i >= 1 /\ i + 1 \in DOMAIN toClient /\ toClient'[i] = toClient[i + 1]
      BY <1>0, <2>1, Shrinks
    <3>6. \A i \in DOMAIN toClient' : \E k \in DOMAIN toClient : k # 1 /\ toClient'[i] = toClient[k]
      BY <3>5
    <3>7. \A i \in DOMAIN toClient' : Answer(toClient'[i]) =>
            toClient'[i].caps # {} /\ toClient'[i].caps \subseteq pending'
      <4>1. \A k \in DOMAIN toClient : k # 1 /\ Answer(toClient[k]) =>
              /\ toClient[k].caps # {} /\ toClient[k].caps \subseteq pending
              /\ toClient[k].caps \cap m.caps = {}
        BY <2>1, <2>4, <2>7 DEF Unanswered
      <4>2. \A k \in DOMAIN toClient : k # 1 /\ Answer(toClient[k]) =>
              toClient[k].caps # {} /\ toClient[k].caps \subseteq pending'
        BY <3>3, <4>1
      <4> QED BY <3>6, <4>2
    <3>8. \A i \in DOMAIN toServer' : Request(toServer'[i]) =>
            toServer'[i].caps # {} /\ toServer'[i].caps \subseteq pending'
      <4>1. \A k \in DOMAIN toServer : Request(toServer[k]) =>
              /\ toServer[k].caps # {} /\ toServer[k].caps \subseteq pending
              /\ toServer[k].caps \cap m.caps = {}
        BY <2>1, <2>4, <2>7 DEF Unanswered
      <4>2. \A k \in DOMAIN toServer : Request(toServer[k]) =>
              toServer[k].caps # {} /\ toServer[k].caps \subseteq pending'
        BY <3>3, <4>1
      <4> QED BY <2>5, <3>1, <4>2
    <3>9. \A i, j \in DOMAIN toClient' : i # j /\ Answer(toClient'[i]) /\ Answer(toClient'[j]) =>
            toClient'[i].caps \cap toClient'[j].caps = {}
      BY <1>4, <2>4 DEF Unanswered
    <3>10. /\ \A i, j \in DOMAIN toServer' : i # j /\ Request(toServer'[i]) /\ Request(toServer'[j]) =>
                toServer'[i].caps \cap toServer'[j].caps = {}
           /\ \A i \in DOMAIN toServer' : \A j \in DOMAIN toClient' :
                Request(toServer'[i]) /\ Answer(toClient'[j]) => toServer'[i].caps \cap toClient'[j].caps = {}
      BY <1>4, <2>4, <2>5, <3>1 DEF Unanswered
    <3>11. Unanswered'
      BY <3>7, <3>8, <3>9, <3>10 DEF Unanswered
    <3> QED BY <1>5, <3>4, <3>11 DEF Requested
  <2>8. CASE ~EndsList(m) /\ ~Answer(m)
    <3>1. m.cmd \notin {"ACK", "NAK"}
      BY <2>8 DEF Answer
    <3>2. UNCHANGED pending
      BY <2>1, <2>8, <3>1 DEF HandlesAs, Tracks
    <3>3. capsConcluded' \/ saslStarted' => pending' = {}
      <4>1. capsConcluded \/ saslStarted => pending = {}
        BY DEF Requested
      <4>2. CASE m.cmd = "421"
        <5>1. srvKind # "modern"
          BY <2>1, <4>2 DEF Listed
        <5> QED BY <3>2, <5>1 DEF Listed
      <4>3. CASE m.cmd # "421" /\ ~saslStarted
        <5>1. UNCHANGED <<capsConcluded, saslStarted>>
          BY <2>1, <2>8, <3>1, <4>3 DEF HandlesAs, Advances
        <5> QED BY <3>2, <4>1, <5>1
      <4> QED BY <3>2, <4>1, <4>2, <4>3
    <3>4. Unanswered'
      BY <1>4, <2>4, <2>5, <2>8, <3>2 DEF Unanswered
    <3> QED BY <1>5, <3>3, <3>4 DEF Requested
  <2> QED BY <2>6, <2>7, <2>8
<1> QED BY <1>6, <1>7, <1>8, ClientMovesApart

\* The server answers a request with one line that names the same capabilities.
LEMMA ServerKeepsRequested ==
  ASSUME BInv, Requested, ServerMoves
  PROVE  Requested'
<1>0. toServer \in Seq(ClientLine) /\ toClient \in Seq(ServerLine) /\ IInv /\ AInv
  BY DEF BInv, AInv, IInv, TypeOK
<1>1. PICK t \in Seq(ServerLine) : toClient' = toClient \o t /\ SaysAs(t) /\ Single(t)
  BY <1>0, ServerMovesAre
<1>2. UNCHANGED <<pending, capsConcluded, saslStarted>>
  <2>1. UNCHANGED clientVars
    BY <1>0, ServerMovesAre
  <2> QED BY <2>1 DEF clientVars, capVars, saslVars
<1>3. stage' = stage
  BY DEF ServerMoves, ServerAnswers, ServerNotice, ServerRename, sessionVars
<1>4. Continues(toClient', toClient, t)
  BY <1>0, <1>1, GrowsBy
<1>5. \A i \in DOMAIN toClient' : \/ i \in DOMAIN toClient /\ toClient'[i] = toClient[i]
                                  \/ i \notin DOMAIN toClient /\ \E j \in DOMAIN t : toClient'[i] = t[j]
  BY <1>4 DEF Continues
<1>6. toServer' = toServer \/ (toServer # <<>> /\ toServer' = Tail(toServer))
  BY <1>0, ServerMovesAre
<1>7. Remains(toServer', toServer)
  BY <1>0, <1>6, RemainsAfter
<1>8. /\ \A i \in DOMAIN toServer' : \E k \in DOMAIN toServer : toServer'[i] = toServer[k]
      /\ \A i, j \in DOMAIN toServer' : i # j =>
           \E k, l \in DOMAIN toServer : k # l /\ toServer'[i] = toServer[k] /\ toServer'[j] = toServer[l]
  BY <1>7, RemainsOnly
<1>9. \A i \in DOMAIN toClient' : toClient'[i].cmd = "ACK" => toClient'[i].off = {}
  <2>1. \A j \in DOMAIN t : t[j].cmd = "ACK" => t[j].off = {}
    BY <1>1 DEF SaysAs
  <2> QED BY <1>5, <2>1 DEF Requested
<1>10. Unanswered => Unanswered'
  <2> SUFFICES ASSUME Unanswered PROVE Unanswered'
    OBVIOUS
  <2>1. CASE \A j \in DOMAIN t : ~Answer(t[j])
    <3>1. \A i \in DOMAIN toClient' : Answer(toClient'[i]) => i \in DOMAIN toClient /\ toClient'[i] = toClient[i]
      BY <1>5, <2>1
    <3> QED BY <1>2, <1>8, <3>1 DEF Unanswered
  <2>2. ASSUME NEW h \in DOMAIN t, Answer(t[h]) PROVE Unanswered'
    <3>1. ReadBy("CAP REQ") /\ t[h].caps = toServer[1].caps
      BY <1>1, <2>2 DEF SaysAs, Answer
    <3>2. \A k \in DOMAIN t : k = h
      BY <1>1, <2>2 DEF Single, Answer
    <3>3. toServer # <<>> /\ toServer' = Tail(toServer) /\ toServer[1].cmd = "CAP REQ"
      BY <3>1 DEF ReadBy
    <3>4. 1 \in DOMAIN toServer /\ Request(toServer[1])
      BY <1>0, <3>3, Shrinks DEF Request
    <3>5. \A i \in DOMAIN toServer' :
            i \in Nat /\ i >= 1 /\ i + 1 \in DOMAIN toServer /\ toServer'[i] = toServer[i + 1]
      <4>1. toServer \in Seq(ClientLine)
        BY <1>0
      <4>2. toServer # <<>> /\ toServer' = Tail(toServer)
        BY <3>3
      <4> QED BY <4>1, <4>2, Shrinks
    <3>6. \A i \in DOMAIN toServer' : \E k \in DOMAIN toServer : k # 1 /\ toServer'[i] = toServer[k]
      BY <3>5
    <3>7. \A i \in DOMAIN toClient' : \/ i \in DOMAIN toClient /\ toClient'[i] = toClient[i]
                                      \/ i \notin DOMAIN toClient /\ toClient'[i].caps = toServer[1].caps
      BY <1>5, <3>1, <3>2
    <3>8. \A i, j \in DOMAIN toClient' \ DOMAIN toClient : i = j
      <4>1. \A i, j \in DOMAIN toClient' \ DOMAIN toClient : i # j =>
              \E k, l \in DOMAIN t : k # l /\ toClient'[i] = t[k] /\ toClient'[j] = t[l]
        BY <1>4 DEF Continues
      <4> QED BY <3>2, <4>1
    <3>9. /\ toServer[1].caps # {} /\ toServer[1].caps \subseteq pending
          /\ \A k \in DOMAIN toServer : k # 1 /\ Request(toServer[k]) =>
               toServer[k].caps \cap toServer[1].caps = {}
          /\ \A k \in DOMAIN toClient : Answer(toClient[k]) =>
               toServer[1].caps \cap toClient[k].caps = {}
      BY <3>4 DEF Unanswered
    <3>10. \A i \in DOMAIN toServer' : Request(toServer'[i]) =>
             toServer'[i].caps # {} /\ toServer'[i].caps \subseteq pending'
      BY <1>2, <1>8 DEF Unanswered
    <3>11. \A i \in DOMAIN toClient' : Answer(toClient'[i]) =>
             toClient'[i].caps # {} /\ toClient'[i].caps \subseteq pending'
      BY <1>2, <3>7, <3>9 DEF Unanswered
    <3>12. \A i, j \in DOMAIN toServer' : i # j /\ Request(toServer'[i]) /\ Request(toServer'[j]) =>
             toServer'[i].caps \cap toServer'[j].caps = {}
      BY <1>8 DEF Unanswered
    <3>13. \A i, j \in DOMAIN toClient' : i # j /\ Answer(toClient'[i]) /\ Answer(toClient'[j]) =>
             toClient'[i].caps \cap toClient'[j].caps = {}
      <4>1. \A i, j \in DOMAIN toClient : i # j /\ Answer(toClient[i]) /\ Answer(toClient[j]) =>
             toClient[i].caps \cap toClient[j].caps = {}
        BY DEF Unanswered
      <4> QED BY <3>7, <3>8, <3>9, <4>1
    <3>14. \A i \in DOMAIN toServer' : \A j \in DOMAIN toClient' :
             Request(toServer'[i]) /\ Answer(toClient'[j]) => toServer'[i].caps \cap toClient'[j].caps = {}
      <4>1. \A i \in DOMAIN toServer : \A j \in DOMAIN toClient :
             Request(toServer[i]) /\ Answer(toClient[j]) => toServer[i].caps \cap toClient[j].caps = {}
        BY DEF Unanswered
      <4> QED BY <3>6, <3>7, <3>9, <4>1
    <3> QED BY <3>10, <3>11, <3>12, <3>13, <3>14 DEF Unanswered
  <2> QED BY <2>1, <2>2
<1> QED BY <1>2, <1>3, <1>9, <1>10 DEF Requested

-----------------------------------------------------------------------------
(* Our capabilities follow the server's.                                   *)

\* No list the ceiling holds is cut, and no line disables with an ACK.
LEMMA NothingIsCut ==
  ASSUME Uncrowded, enabled \in SUBSET Caps, NEW on \in SUBSET Caps, enabled' \in Applied(on, {})
  PROVE  enabled' = enabled \cup on
<1>1. enabled \cup on \in SUBSET Caps /\ enabled \ {} = enabled
  OBVIOUS
<1>2. Cardinality(enabled \cup on) <= Cardinality(Caps)
  BY <1>1, FS_Subset, CapsAssumption
<1>3. Cardinality(enabled \cup on) \in Nat /\ Cardinality(Caps) \in Nat /\ MaxTrackedCaps \in Nat
  BY <1>1, FS_Subset, FS_CardinalityType, CapsAssumption
<1>4. Cardinality(enabled \cup on) <= MaxTrackedCaps
  BY <1>2, <1>3 DEF Uncrowded
<1>5. Bounded(enabled, on) = {enabled \cup on}
  BY <1>4 DEF Bounded
<1>6. Applied(on, {}) = {enabled \cup on} \cup {S \ {} : S \in {enabled \cup on}}
  BY <1>1, <1>5 DEF Applied
<1> QED BY <1>6

\* A line that is read does what it says, and leaves the others to be read.
LEMMA ToldAfterRead ==
  ASSUME toClient \in Seq(ServerLine), toClient # <<>>, toClient' = Tail(toClient),
         srvEnabled' = srvEnabled, NEW c, Told(c),
         Switches(toClient[1], c) => (c \in enabled' <=> toClient[1].cmd = "ACK"),
         ~Switches(toClient[1], c) => (c \in enabled' <=> c \in enabled)
  PROVE  Told(c)'
<1>1. /\ 1 \in DOMAIN toClient
      /\ \A i \in DOMAIN toClient' : i \in Nat /\ i >= 1 /\ i + 1 \in DOMAIN toClient /\ toClient'[i] = toClient[i + 1]
      /\ \A i \in DOMAIN toClient : i \in Nat /\ (i = 1 \/ (i - 1 \in DOMAIN toClient' /\ toClient'[i - 1] = toClient[i]))
  BY Shrinks
<1>2. ASSUME \A i \in DOMAIN toClient' : ~Switches(toClient'[i], c)
      PROVE  c \in enabled' <=> c \in srvEnabled'
  <2>1. \A i \in DOMAIN toClient : i = 1 \/ ~Switches(toClient[i], c)
    BY <1>1, <1>2
  <2>2. CASE Switches(toClient[1], c)
    <3>1. \A j \in DOMAIN toClient : j > 1 => ~Switches(toClient[j], c)
      BY <1>1, <2>1
    <3>2. toClient[1].cmd = "ACK" <=> c \in srvEnabled
      BY <1>1, <2>2, <3>1 DEF Told
    <3> QED BY <2>2, <3>2
  <2>3. CASE ~Switches(toClient[1], c)
    <3>1. \A j \in DOMAIN toClient : ~Switches(toClient[j], c)
      BY <2>1, <2>3
    <3>2. c \in enabled <=> c \in srvEnabled
      BY <3>1 DEF Told
    <3> QED BY <2>3, <3>2
  <2> QED BY <2>2, <2>3
<1>3. ASSUME NEW i \in DOMAIN toClient', Switches(toClient'[i], c),
             \A j \in DOMAIN toClient' : j > i => ~Switches(toClient'[j], c)
      PROVE  toClient'[i].cmd = "ACK" <=> c \in srvEnabled'
  <2>1. i \in Nat /\ i >= 1 /\ i + 1 \in DOMAIN toClient /\ toClient'[i] = toClient[i + 1]
    BY <1>1
  <2>2. ASSUME NEW j \in DOMAIN toClient, j > i + 1 PROVE ~Switches(toClient[j], c)
    <3>1. j \in Nat /\ j # 1
      BY <1>1, <2>1, <2>2
    <3>2. j - 1 \in DOMAIN toClient' /\ toClient'[j - 1] = toClient[j]
      BY <1>1, <3>1
    <3>3. j - 1 > i
      BY <2>1, <2>2, <3>1
    <3> QED BY <1>3, <3>2, <3>3
  <2>3. toClient[i + 1].cmd = "ACK" <=> c \in srvEnabled
    BY <1>3, <2>1, <2>2 DEF Told
  <2> QED BY <2>1, <2>3
<1> QED BY <1>2, <1>3 DEF Told

\* What the server says of c is what it did.
LEMMA ToldAfterSaid ==
  ASSUME NEW t, Continues(toClient', toClient, t), enabled' = enabled, NEW c, Told(c),
         \/ (\A j \in DOMAIN t : ~Switches(t[j], c)) /\ (c \in srvEnabled' <=> c \in srvEnabled)
         \/ DOMAIN t = {1} /\ Switches(t[1], c) /\ (t[1].cmd = "ACK" <=> c \in srvEnabled')
  PROVE  Told(c)'
<1>1. /\ \A i \in DOMAIN toClient : i \in DOMAIN toClient' /\ toClient'[i] = toClient[i]
      /\ \A i \in DOMAIN toClient' : (i \in DOMAIN toClient /\ toClient'[i] = toClient[i]) \/ \E j \in DOMAIN t : toClient'[i] = t[j]
      /\ \A i \in DOMAIN toClient' \ DOMAIN toClient : \A k \in DOMAIN toClient : k < i
      /\ \A j \in DOMAIN t : \E i \in DOMAIN toClient' \ DOMAIN toClient : toClient'[i] = t[j]
  BY DEF Continues
<1>2. CASE (\A j \in DOMAIN t : ~Switches(t[j], c)) /\ (c \in srvEnabled' <=> c \in srvEnabled)
  <2>1. \A i \in DOMAIN toClient' : Switches(toClient'[i], c) => i \in DOMAIN toClient /\ toClient'[i] = toClient[i]
    BY <1>1, <1>2
  <2>2. (\A i \in DOMAIN toClient' : ~Switches(toClient'[i], c)) => (c \in enabled' <=> c \in srvEnabled')
    BY <1>1, <1>2 DEF Told
  <2>3. ASSUME NEW i \in DOMAIN toClient', Switches(toClient'[i], c),
               \A j \in DOMAIN toClient' : j > i => ~Switches(toClient'[j], c)
        PROVE  toClient'[i].cmd = "ACK" <=> c \in srvEnabled'
    <3>1. i \in DOMAIN toClient /\ toClient'[i] = toClient[i]
      BY <2>1, <2>3
    <3>2. \A j \in DOMAIN toClient : j > i => ~Switches(toClient[j], c)
      BY <1>1, <2>3
    <3>3. toClient[i].cmd = "ACK" <=> c \in srvEnabled
      BY <2>3, <3>1, <3>2 DEF Told
    <3> QED BY <1>2, <3>1, <3>3
  <2> QED BY <2>2, <2>3 DEF Told
<1>3. CASE DOMAIN t = {1} /\ Switches(t[1], c) /\ (t[1].cmd = "ACK" <=> c \in srvEnabled')
  <2>1. PICK n \in DOMAIN toClient' \ DOMAIN toClient : toClient'[n] = t[1]
    BY <1>1, <1>3
  <2>2. ASSUME NEW i \in DOMAIN toClient', \A j \in DOMAIN toClient' : j > i => ~Switches(toClient'[j], c)
        PROVE  toClient'[i] = t[1]
    <3>1. i \notin DOMAIN toClient
      <4>1. CASE i \in DOMAIN toClient
        <5>1. i < n
          BY <1>1, <2>1, <4>1
        <5>2. n > i
          BY <5>1
        <5> QED BY <1>3, <2>1, <2>2, <5>2
      <4> QED BY <4>1
    <3> QED BY <1>1, <1>3, <3>1
  <2>3. \E i \in DOMAIN toClient' : Switches(toClient'[i], c)
    BY <1>3, <2>1
  <2> QED BY <1>3, <2>2, <2>3 DEF Told
<1> QED BY <1>2, <1>3

\* Between the settlement and its continuation no line enables or disables anything.
LEMMA GapIsQuiet ==
  ASSUME BInv, Listed, Requested, Uncrowded, outcome = "resolved", stage # "up",
         NEW i \in DOMAIN toClient
  PROVE  toClient[i].cmd \notin {"ACK", "DEL"}
<1>1. srvKind = "modern" => capsConcluded
  BY DEF BInv, AInv, WelcomedOnce, WelcomedReady
<1>2. toClient[i].cmd # "DEL"
  BY DEF BInv, NoneEarly, Uncrowded
<1>3. CASE srvKind = "modern"
  <2>1. pending = {} /\ Unanswered
    BY <1>1, <1>3 DEF Requested
  <2>2. Answer(toClient[i]) => toClient[i].caps # {} /\ toClient[i].caps \subseteq {}
    BY <2>1 DEF Unanswered
  <2> QED BY <1>2, <2>2 DEF Answer
<1>4. CASE srvKind # "modern"
  BY <1>2, <1>4 DEF Listed
<1> QED BY <1>3, <1>4

\* What the client reads is what it will go by.
LEMMA ClientKeepsCaps ==
  ASSUME BInv, Listed, Requested, Uncrowded, CapsFollow, ClientMoves
  PROVE  CapsFollow'
<1>0. /\ toServer \in Seq(ClientLine) /\ toClient \in Seq(ServerLine) /\ IInv
      /\ enabled \in SUBSET Caps
  BY DEF BInv, AInv, IInv, TypeOK
<1>1. PICK all \in Seq(ClientLine) : ClientStep(all)
  BY <1>0, ClientMovesAre
<1>2. srvEnabled' = srvEnabled /\ (outcome = "rejected" => outcome' = "rejected")
  BY <1>1 DEF ClientStep, serverVars
<1> SUFFICES ASSUME outcome # "rejected", NEW c \in Caps PROVE Told(c)'
  BY <1>2 DEF CapsFollow
<1>3. Told(c)
  BY DEF CapsFollow
<1>4. \A i \in DOMAIN toClient : toClient[i].cmd = "ACK" => toClient[i].off = {} /\ toClient[i].caps \in SUBSET Caps
  <2>1. \A i \in DOMAIN toClient : toClient[i] \in ServerLine
    BY <1>0
  <2>2. \A i \in DOMAIN toClient : toClient[i].cmd = "ACK" => toClient[i].caps \in SUBSET Caps
    BY <2>1 DEF ServerLine
  <2> QED BY <2>2 DEF Requested
<1>5. toClient # <<>> => 1 \in DOMAIN toClient /\ Head(toClient) = toClient[1]
  BY <1>0, Shrinks
<1>6. CASE Idles /\ ~DeliverWhenUp
  <2>1. UNCHANGED enabled /\ stage # "up"
    BY <1>6 DEF Idles
  <2>2. CASE toClient' = toClient
    BY <1>2, <1>3, <2>1, <2>2 DEF Told
  <2>3. CASE outcome # "pending" /\ toClient # <<>> /\ toClient' = Tail(toClient)
    <3>1. outcome = "resolved"
      BY <1>0, <2>3 DEF IInv, TypeOK
    <3>2. toClient[1].cmd \notin {"ACK", "DEL"}
      BY <1>5, <2>1, <2>3, <3>1, GapIsQuiet
    <3>3. ~Switches(toClient[1], c)
      BY <3>2 DEF Switches
    <3> QED BY <1>0, <1>2, <1>3, <2>1, <2>3, <3>3, ToldAfterRead
  <2> QED BY <1>6, <2>2, <2>3 DEF Idles
<1>7. ASSUME NEW new \in Seq(ClientLine), Handles(new) PROVE Told(c)'
  <2> DEFINE m == toClient[1]
  <2>1. /\ toClient # <<>> /\ toClient' = Tail(toClient) /\ 1 \in DOMAIN toClient
        /\ HandlesAs(m, new) /\ stage = "registering"
    BY <1>0, <1>5, <1>7 DEF Handles
  <2>2. m.cmd # "DEL"
    BY <2>1 DEF BInv, NoneEarly, Uncrowded
  <2>3. m.cmd = "ACK" => enabled' = enabled \cup m.caps
    <3> SUFFICES ASSUME m.cmd = "ACK" PROVE enabled' = enabled \cup m.caps
      OBVIOUS
    <3>1. m.off = {} /\ m.caps \in SUBSET Caps
      BY <1>4, <2>1
    <3>2. enabled' \in Applied(m.caps, {})
      BY <2>1, <3>1 DEF HandlesAs, Tracks
    <3> QED BY <1>0, <3>1, <3>2, NothingIsCut
  <2>4. m.cmd # "ACK" => enabled' = enabled
    BY <2>1 DEF HandlesAs, Tracks
  <2>5. /\ Switches(m, c) => (c \in enabled' <=> m.cmd = "ACK")
        /\ ~Switches(m, c) => (c \in enabled' <=> c \in enabled)
    BY <2>2, <2>3, <2>4 DEF Switches
  <2> QED BY <1>0, <1>2, <1>3, <2>1, <2>5, ToldAfterRead
<1>8. CASE DeliverWhenUp
  <2> DEFINE m == toClient[1]
  <2>1. toClient # <<>> /\ toClient' = Tail(toClient) /\ 1 \in DOMAIN toClient /\ Head(toClient) = m
    BY <1>5, <1>8 DEF DeliverWhenUp
  <2>2. \/ m.cmd = "NEW" /\ UNCHANGED enabled
        \/ m.cmd = "DEL" /\ enabled' = enabled \ m.caps
        \/ m.cmd = "ACK" /\ enabled' \in Applied(m.caps, m.off)
        \/ m.cmd \notin {"NEW", "DEL", "ACK"} /\ UNCHANGED enabled
    BY <1>8, <2>1 DEF DeliverWhenUp, CapNew, CapDel, CapAck
  <2>3. m.cmd = "ACK" => enabled' = enabled \cup m.caps
    <3> SUFFICES ASSUME m.cmd = "ACK" PROVE enabled' = enabled \cup m.caps
      OBVIOUS
    <3>1. m.off = {} /\ m.caps \in SUBSET Caps
      BY <1>4, <2>1
    <3>2. enabled' \in Applied(m.caps, {})
      BY <2>2, <3>1
    <3> QED BY <1>0, <3>1, <3>2, NothingIsCut
  <2>4. /\ Switches(m, c) => (c \in enabled' <=> m.cmd = "ACK")
        /\ ~Switches(m, c) => (c \in enabled' <=> c \in enabled)
    BY <2>2, <2>3 DEF Switches
  <2> QED BY <1>0, <1>2, <1>3, <2>1, <2>4, ToldAfterRead
<1> QED BY <1>6, <1>7, <1>8, ClientMovesApart

\* What the server says of our capabilities is what it has on for us.
LEMMA ServerKeepsCaps ==
  ASSUME BInv, CapsFollow, ServerMoves
  PROVE  CapsFollow'
<1>0. toServer \in Seq(ClientLine) /\ toClient \in Seq(ServerLine) /\ IInv /\ AInv
  BY DEF BInv, AInv, IInv, TypeOK
<1>1. UNCHANGED <<enabled, outcome>>
  <2>1. UNCHANGED clientVars
    BY <1>0, ServerMovesAre
  <2> QED BY <2>1 DEF clientVars, capVars
<1> SUFFICES ASSUME NEW c \in Caps, Told(c) PROVE Told(c)'
  BY <1>1 DEF CapsFollow
<1>2. ASSUME NEW t \in Seq(ServerLine), toClient' = toClient \o t, UNCHANGED srvEnabled,
             \A j \in DOMAIN t : t[j].cmd \notin {"ACK", "DEL"}
      PROVE  Told(c)'
  <2>1. Continues(toClient', toClient, t)
    BY <1>0, <1>2, GrowsBy
  <2>2. \A j \in DOMAIN t : ~Switches(t[j], c)
    BY <1>2 DEF Switches
  <2> QED BY <1>1, <1>2, <2>1, <2>2, ToldAfterSaid
<1>3. CASE ServerReq
  <2>1. PICK t \in Seq(ServerLine) :
          /\ toClient' = toClient \o t /\ SaysAs(t) /\ DOMAIN t = {1}
          /\ \/ t[1].cmd = "ACK" /\ srvEnabled' = srvEnabled \cup toServer[1].caps
             \/ t[1].cmd = "NAK" /\ UNCHANGED srvEnabled
    BY <1>0, <1>3, ReqSays
  <2>2. t[1].cmd = "ACK" => t[1].caps = toServer[1].caps
    BY <2>1 DEF SaysAs
  <2>3. Continues(toClient', toClient, t)
    BY <1>0, <2>1, GrowsBy
  <2>4. \/ (\A j \in DOMAIN t : ~Switches(t[j], c)) /\ (c \in srvEnabled' <=> c \in srvEnabled)
        \/ DOMAIN t = {1} /\ Switches(t[1], c) /\ (t[1].cmd = "ACK" <=> c \in srvEnabled')
    BY <2>1, <2>2 DEF Switches
  <2> QED BY <1>1, <2>3, <2>4, ToldAfterSaid
<1>4. CASE ServerNotice
  <2>1. PICK t \in Seq(ServerLine) :
          /\ toClient' = toClient \o t /\ DOMAIN t = {1}
          /\ \E d \in Caps : \/ t[1].cmd = "DEL" /\ t[1].caps = {d} /\ srvEnabled' = srvEnabled \ {d}
                             \/ t[1].cmd = "NEW" /\ t[1].caps = {d} /\ UNCHANGED srvEnabled
    BY <1>0, <1>4, OwnSays
  <2>2. Continues(toClient', toClient, t)
    BY <1>0, <2>1, GrowsBy
  <2>3. \/ (\A j \in DOMAIN t : ~Switches(t[j], c)) /\ (c \in srvEnabled' <=> c \in srvEnabled)
        \/ DOMAIN t = {1} /\ Switches(t[1], c) /\ (t[1].cmd = "ACK" <=> c \in srvEnabled')
    BY <2>1 DEF Switches
  <2> QED BY <1>1, <2>2, <2>3, ToldAfterSaid
<1>5. CASE ServerLS
  BY <1>0, <1>2, <1>5, LSSays DEF ServerLS
<1>6. CASE ServerNick
  <2>1. UNCHANGED srvEnabled
    BY <1>6 DEF ServerNick
  <2>2. PICK t \in Seq(ServerLine) : toClient' = toClient \o t /\ \A j \in DOMAIN t : t[j].cmd = "433"
    BY <1>0, <1>6, NickSays
  <2> QED BY <1>2, <2>1, <2>2
<1>7. CASE ServerAuth \/ ServerResponse
  <2>1. UNCHANGED srvEnabled
    BY <1>7 DEF ServerAuth, ServerResponse
  <2>2. PICK t \in Seq(ServerLine) :
          toClient' = toClient \o t /\ \A j \in DOMAIN t : t[j].cmd \in {"challenge", "900", "903", "904", "908"}
    BY <1>0, <1>7, SaslSays
  <2> QED BY <1>2, <2>1, <2>2
<1>8. CASE ServerUser \/ ServerEnd
  <2>1. UNCHANGED <<srvEnabled, toClient>>
    BY <1>8 DEF ServerUser, ServerEnd
  <2> QED BY <1>1, <2>1 DEF Told
<1>9. CASE Welcome \/ ServerRename
  <2>1. UNCHANGED srvEnabled
    BY <1>9 DEF Welcome, ServerRename
  <2>2. ServerRename => srvNick # NoNick
    BY <1>0 DEF ServerRename, AInv, WelcomedReady
  <2>3. PICK t \in Seq(ServerLine) :
          /\ toClient' = toClient \o t /\ DOMAIN t = {1}
          /\ (Welcome => t[1].cmd = "001") /\ (ServerRename => t[1].cmd = "NICK")
    BY <1>0, <1>9, <2>2, OwnSays
  <2>4. \A j \in DOMAIN t : t[j].cmd \notin {"ACK", "DEL"}
    BY <1>9, <2>3
  <2> QED BY <1>2, <2>1, <2>3, <2>4
<1> QED BY <1>3, <1>4, <1>5, <1>6, <1>7, <1>8, <1>9 DEF ServerMoves, ServerAnswers, ServerStep

\* Each step keeps the invariant.
LEMMA CInvNext ==
  ASSUME CInv, [SessionNext]_allVars
  PROVE  CInv'
<1>1. BInv /\ Listed /\ Requested /\ BInv' /\ (Uncrowded => CapsFollow)
  BY BInvNext DEF CInv
<1>2. Uncrowded' <=> Uncrowded
  BY DEF Uncrowded
<1>3. CASE ClientMoves
  <2>1. Listed' /\ Requested' /\ (Uncrowded => CapsFollow')
    BY <1>1, <1>3, ClientKeepsListed, ClientKeepsRequested, ClientKeepsCaps
  <2> QED BY <1>1, <1>2, <2>1 DEF CInv
<1>4. CASE ServerMoves
  <2>1. Listed' /\ Requested' /\ (Uncrowded => CapsFollow')
    BY <1>1, <1>4, ServerKeepsListed, ServerKeepsRequested, ServerKeepsCaps
  <2> QED BY <1>1, <1>2, <2>1 DEF CInv
<1>5. CASE UNCHANGED allVars
  <2>1. UNCHANGED <<toServer, toClient, outcome, pending, capsConcluded, saslStarted, enabled, stage,
                    srvKind, srvEnabled>>
    BY <1>5 DEF allVars, vars, clientVars, capVars, saslVars, serverVars, sessionVars
  <2>2. Listed'
    BY <1>1, <2>1 DEF Listed, NotAsked
  <2>3. Requested'
    BY <1>1, <2>1 DEF Requested, Unanswered
  <2>4. Uncrowded => CapsFollow'
    BY <1>1, <2>1 DEF CapsFollow, Told
  <2> QED BY <1>1, <1>2, <2>2, <2>3, <2>4 DEF CInv
<1> QED BY <1>3, <1>4, <1>5 DEF SessionNext, ClientMoves, ServerMoves

\* It holds at the kickoff.
LEMMA CInvInit == SessionInit => CInv
<1> SUFFICES ASSUME SessionInit PROVE CInv
  OBVIOUS
<1>1. BInv
  BY BInvInit
<1>2. /\ toClient = <<>> /\ pending = {} /\ capsConcluded = FALSE /\ saslStarted = FALSE
      /\ enabled = {} /\ srvEnabled = {}
  BY Zenon DEF SessionInit, Init
<1>3. \A i \in DOMAIN toClient : FALSE
  BY <1>2
<1>4. \A i \in DOMAIN toServer : toServer[i].cmd # "CAP REQ"
  <2> DEFINE x == Line("CAP LS")
             y == [cmd |-> "NICK", nick |-> 0]
             z == Line("USER")
  <2>1. x.cmd = "CAP LS" /\ y.cmd = "NICK" /\ z.cmd = "USER"
    BY DEF Line
  <2>2. x \in ClientLine /\ y \in ClientLine /\ z \in ClientLine
    BY PlainLines DEF ClientLine
  <2>3. toServer = <<x, y, z>>
    BY Zenon DEF SessionInit, Init
  <2> HIDE DEF x, y, z
  <2>4. PICK w \in Seq(ClientLine) :
          w = <<x, y, z>> /\ DOMAIN w = 1..3 /\ w[1] = x /\ w[2] = y /\ w[3] = z
    BY <2>2, ThreeLines
  <2>5. \A i \in 1..3 : i = 1 \/ i = 2 \/ i = 3
    OBVIOUS
  <2> QED BY <2>1, <2>3, <2>4, <2>5
<1>5. Listed
  BY <1>2, <1>3, <1>4 DEF Listed, NotAsked
<1>6. Requested
  BY <1>2, <1>3, <1>4 DEF Requested, Unanswered, Request
<1>7. CapsFollow
  BY <1>2, <1>3 DEF CapsFollow, Told
<1> QED BY <1>1, <1>5, <1>6, <1>7 DEF CInv

\* Where notices wait until we are up and the ceiling on tracked capabilities is not
\* reached, the capabilities sendLabeled and the dispatcher go by are the ones the server
\* has on for us whenever nothing is in flight: each ACK, of the handshake or of cap-notify,
\* and each DEL is applied once, in the order in which the server switched them.
THEOREM CapsStayInSync ==
  ASSUME ~EarlyNotices, Cardinality(Caps) <= MaxTrackedCaps
  PROVE  SessionSpec => []CapsInSync
<1>1. CInv /\ [SessionNext]_allVars => CInv'
  BY CInvNext
<1>2. CInv => CapsInSync
  <2> SUFFICES ASSUME CInv, stage = "up", toClient = <<>>
               PROVE  enabled = srvEnabled
    BY DEF CapsInSync, Drained
  <2>1. outcome = "resolved" /\ enabled \subseteq Caps /\ srvEnabled \subseteq Caps
    BY DEF CInv, BInv, AInv, IInv, TypeOK, StageFollows
  <2>2. \A c \in Caps : Told(c)
    BY <2>1 DEF CInv, CapsFollow, Uncrowded
  <2>3. \A i \in DOMAIN toClient : FALSE
    OBVIOUS
  <2>4. \A c \in Caps : c \in enabled <=> c \in srvEnabled
    BY <2>2, <2>3 DEF Told
  <2> QED BY <2>1, <2>4
<1> QED BY <1>1, <1>2, CInvInit, PTL DEF SessionSpec
=============================================================================
