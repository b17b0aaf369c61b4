--------------------------- MODULE Registration ----------------------------
(***************************************************************************)
(* The registration handshake of one connection attempt: register() of     *)
(* protocol/registration.ts with the CapabilityStore it fills and the      *)
(* SaslSession it drives, talking to an IRC server over two FIFO streams.  *)
(*                                                                         *)
(* A line is a record.  Numerics that the code treats alike are one        *)
(* command: "433" is 433 and 436, "fatal" the REGISTRATION_FATAL_NUMERICS, *)
(* "903" is 903 and 907, "904" the TERMINAL_FAILURES, "908" every SASL     *)
(* numeric that changes nothing.  An AUTHENTICATE line is a full 400-byte  *)
(* chunk ("chunk"), the end of a challenge ("challenge"), or an end that   *)
(* makes the challenge bad base64 ("malformed").  "error" and "closed" are *)
(* the two ways the inbound stream ends.                                   *)
(***************************************************************************)
EXTENDS Naturals, Sequences, FiniteSets

CONSTANTS
  Caps,           \* capability names the server may ever use, "sasl" among them
  Desired,        \* options.desiredCaps; Caps stands for "all"
  DependsOn,      \* CAP_DEPENDENCIES: capability -> set of capabilities
  Chunking,       \* chunkCaps: set of names -> the CAP REQ lines that carry it
  MaxTrackedCaps, \* MAX_TRACKED_CAPS of CapabilityStore
  MaxChallenge,   \* MAX_SASL_CHALLENGE, in 400-byte chunks
  Timed,          \* is registrationTimeoutMs finite and positive
  ServerKinds,    \* subset of {"modern", "421", "silent", "hostile"}
  Offers,         \* the capability sets a server may start with
  NoNick,         \* not a nick: the server has accepted none yet
  TakenNicks,     \* the first TakenNicks nicks of the fallback walk are in use
  Injectable,     \* what a hostile server may send at any time
  MaxInjected,    \* bound: how many of those it sends
  MaxBacklog,     \* bound: lines we have not read while it sends another
  MaxUnread,      \* bound: lines it has not read while it sends another
  MaxNotices      \* bound: CAP NEW / CAP DEL sent by the server on its own

ServerLine ==
  [cmd : {"LS"}, caps : SUBSET Caps, more : BOOLEAN]
    \cup [cmd : {"ACK"}, caps : SUBSET Caps, off : SUBSET Caps]
    \cup [cmd : {"NAK", "NEW", "DEL"}, caps : SUBSET Caps]
    \cup [cmd : {"001", "NICK"}, nick : Nat]
    \cup [cmd : {"433", "fatal", "421", "chunk", "challenge", "malformed",
                 "900", "903", "904", "908", "error", "closed"}]

ClientLine ==
  [cmd : {"CAP LS", "USER", "CAP END", "AUTHENTICATE", "RESPONSE"}]
    \cup [cmd : {"CAP REQ"}, caps : SUBSET Caps]
    \cup [cmd : {"NICK"}, nick : Nat]

ASSUME CapsAssumption ==
  /\ IsFiniteSet(Caps) /\ "sasl" \in Caps
  /\ Desired \subseteq Caps
  /\ DependsOn \in [Caps -> SUBSET Caps]
  /\ MaxTrackedCaps \in Nat /\ MaxChallenge \in Nat

\* chunkCaps loses no capability and invents none, and sends each on one line, none empty.
ASSUME ChunkingAssumption ==
  /\ Chunking \in [SUBSET Caps -> Seq(SUBSET Caps)]
  /\ \A S \in SUBSET Caps :
       /\ UNION {Chunking[S][i] : i \in DOMAIN Chunking[S]} = S
       /\ \A i \in DOMAIN Chunking[S] :
            /\ Chunking[S][i] # {}
            /\ \A j \in 1..(i - 1) : Chunking[S][i] \cap Chunking[S][j] = {}

ASSUME ServerAssumption ==
  /\ Timed \in BOOLEAN
  /\ ServerKinds \subseteq {"modern", "421", "silent", "hostile"}
  /\ Offers \subseteq SUBSET Caps
  /\ NoNick \notin Nat
  /\ Injectable \subseteq ServerLine
  /\ {TakenNicks, MaxInjected, MaxBacklog, MaxUnread, MaxNotices} \subseteq Nat

VARIABLES
  \* the locals of register()
  credentials,    \* options.sasl !== undefined
  available, enabled, pending,
  nick,           \* nickIndex, which determines currentNick
  capsConcluded, saslStarted,
  saslLive,       \* saslSession !== null
  challenge,      \* chunks in the session's #challenge
  saslSucceeded,
  account,        \* has a 900 told the session our account
  outcome,        \* the promise; finished is outcome # "pending"
  \* the connection
  toServer, toClient,
  \* the server
  srvKind, srvCaps, srvEnabled, srvHold, srvNick, srvUser, srvSasl, srvWelcomed,
  injected, notices

capVars    == <<available, enabled, pending, capsConcluded>>
saslVars   == <<saslStarted, saslLive, challenge, saslSucceeded, account>>
clientVars == <<credentials, capVars, nick, saslVars, outcome>>
serverVars == <<srvKind, srvCaps, srvEnabled, srvHold, srvNick, srvUser, srvSasl,
                srvWelcomed, injected, notices>>
vars       == <<clientVars, toServer, toClient, serverVars>>

TypeOK ==
  /\ credentials \in BOOLEAN
  /\ available \subseteq Caps /\ enabled \subseteq Caps /\ pending \subseteq Caps
  /\ nick \in Nat
  /\ challenge \in 0..MaxChallenge
  /\ {capsConcluded, saslStarted, saslLive, saslSucceeded, account} \subseteq BOOLEAN
  /\ outcome \in {"pending", "resolved", "rejected"}
  /\ toServer \in Seq(ClientLine) /\ toClient \in Seq(ServerLine)
  /\ srvKind \in ServerKinds
  /\ srvCaps \subseteq Caps /\ srvEnabled \subseteq Caps
  /\ {srvHold, srvUser, srvWelcomed} \subseteq BOOLEAN
  /\ srvNick \in Nat \cup {NoNick}
  /\ srvSasl \in {"idle", "prompted", "done"}
  /\ injected \in 0..MaxInjected /\ notices \in 0..MaxNotices

-----------------------------------------------------------------------------
(* register()'s own helpers.                                               *)

Line(cmd)   == [cmd |-> cmd]
Send(lines) == toServer' = toServer \o lines
Settle(o)   == outcome' = o

\* CapabilityStore past its ceiling: the server's token order decides which of the
\* new names still fit, so any of them may.
Bounded(known, new) ==
  IF Cardinality(known \cup new) <= MaxTrackedCaps THEN {known \cup new}
  ELSE {known \cup N : N \in {N \in SUBSET new : Cardinality(known \cup N) = MaxTrackedCaps}}

\* applyAck: enables the plain tokens and disables the "-" ones, in the line's order.
Applied(on, off) ==
  Bounded(enabled \ off, on) \cup {S \ off : S \in Bounded(enabled, on)}

\* reconcileCaps: what is desired of what is offered, sasl tracking the credentials,
\* then one level of dependencies.
Reconciled(desired, offered, withSasl) ==
  LET wanted == {c \in desired \cap offered : c # "sasl"}
                  \cup (IF withSasl THEN {"sasl"} \cap offered ELSE {})
  IN  wanted \cup (offered \cap UNION {DependsOn[c] : c \in wanted})

ReqLines(S) == [i \in DOMAIN Chunking[S] |-> [cmd |-> "CAP REQ", caps |-> Chunking[S][i]]]

\* concludeCaps is once-only.
ConcludeCaps ==
  /\ capsConcluded' = TRUE
  /\ IF capsConcluded THEN UNCHANGED toServer ELSE Send(<<Line("CAP END")>>)

\* Mutant: every answered request list starts an exchange.
SaslMayStart_Unguarded == TRUE

\* The guard against a second exchange.
SaslMayStart == ~saslStarted

\* Mutant: credentials that cannot be used are done without.
BeginSaslOrConclude_Optional(on) ==
  \/ /\ ~credentials \/ "sasl" \notin on
     /\ ConcludeCaps
     /\ UNCHANGED <<saslVars, outcome>>
  \/ /\ credentials /\ "sasl" \in on
     /\ saslStarted' = TRUE /\ saslLive' = TRUE /\ challenge' = 0
     /\ IF saslStarted THEN UNCHANGED toServer ELSE Send(<<Line("AUTHENTICATE")>>)
     /\ UNCHANGED <<capsConcluded, saslSucceeded, account, outcome>>

\* beginSaslOrConclude, with `on` the enabled set it reads.
BeginSaslOrConclude(on) ==
  \/ /\ ~credentials
     /\ ConcludeCaps
     /\ UNCHANGED <<saslVars, outcome>>
  \/ /\ credentials /\ ~SaslMayStart
     /\ UNCHANGED <<capsConcluded, saslVars, outcome, toServer>>
  \/ /\ credentials /\ SaslMayStart /\ "sasl" \notin on
     /\ Settle("rejected")
     /\ UNCHANGED <<capsConcluded, saslVars, toServer>>
  \/ /\ credentials /\ SaslMayStart /\ "sasl" \in on
     /\ saslStarted' = TRUE /\ saslLive' = TRUE /\ challenge' = 0
     /\ Send(<<Line("AUTHENTICATE")>>)
     /\ UNCHANGED <<capsConcluded, saslSucceeded, account, outcome>>

-----------------------------------------------------------------------------
(* handle(), one action per kind of message.  Each leaves toClient and the *)
(* server alone; Receive below takes the message off the stream.           *)

\* CAP LS: only the last line of a multi-line list asks for anything.
HandleLS(m) ==
  /\ m.cmd = "LS"
  /\ UNCHANGED <<credentials, enabled, nick>>
  /\ available' \in Bounded(available, m.caps)
  /\ LET ask == Reconciled(Desired, available', credentials)
     IN  \/ /\ m.more
            /\ UNCHANGED <<pending, capsConcluded, saslVars, outcome, toServer>>
         \/ /\ ~m.more /\ ask = {}
            /\ UNCHANGED pending
            /\ BeginSaslOrConclude(enabled)
         \/ /\ ~m.more /\ ask # {}
            /\ pending' = pending \cup ask
            /\ Send(ReqLines(ask))
            /\ UNCHANGED <<capsConcluded, saslVars, outcome>>

\* Once no request is outstanding the negotiation moves on.
Answered(names, on) ==
  /\ pending' = pending \ names
  /\ IF pending' = {} THEN BeginSaslOrConclude(on)
     ELSE UNCHANGED <<capsConcluded, saslVars, outcome, toServer>>

HandleACK(m) ==
  /\ m.cmd = "ACK"
  /\ enabled' \in Applied(m.caps, m.off)
  /\ Answered(m.caps \cup m.off, enabled')
  /\ UNCHANGED <<credentials, available, nick>>

\* Mutant: a refusal that is not taken as an answer.
HandleNAK_Ignored(m) ==
  m.cmd = "NAK" /\ UNCHANGED <<clientVars, toServer>>

HandleNAK(m) ==
  /\ m.cmd = "NAK"
  /\ Answered(m.caps, enabled)
  /\ UNCHANGED <<credentials, available, enabled, nick>>

\* Mutant: a 001 is taken at its word.
Admissible_Trusting == TRUE

\* 001 admits us, unless credentials were configured and SASL has not succeeded.
Admissible == credentials => saslSucceeded

HandleWelcome(m) ==
  /\ m.cmd = "001"
  /\ Settle(IF Admissible THEN "resolved" ELSE "rejected")
  /\ UNCHANGED <<credentials, capVars, nick, saslVars, toServer>>

\* 433/436: walk altNicks, then numbered nicks.
HandleNickInUse(m) ==
  /\ m.cmd = "433"
  /\ nick' = nick + 1
  /\ Send(<<[cmd |-> "NICK", nick |-> nick + 1]>>)
  /\ UNCHANGED <<credentials, capVars, saslVars, outcome>>

\* A fatal numeric, or the end of the stream, in whichever way.
HandleFatal(m) ==
  /\ m.cmd \in {"fatal", "error", "closed"}
  /\ Settle("rejected")
  /\ UNCHANGED <<credentials, capVars, nick, saslVars, toServer>>

\* Mutant: the downgrade the comment warns of.
HandleNoCap_Downgrade(m) ==
  /\ m.cmd = "421"
  /\ capsConcluded' = TRUE
  /\ UNCHANGED <<credentials, available, enabled, pending, nick, saslVars, outcome, toServer>>

\* 421 CAP: a server without capabilities, which credentials cannot accept.
HandleNoCap(m) ==
  /\ m.cmd = "421"
  /\ \/ credentials /\ Settle("rejected") /\ UNCHANGED capsConcluded
     \/ ~credentials /\ capsConcluded' = TRUE /\ UNCHANGED outcome
  /\ UNCHANGED <<credentials, available, enabled, pending, nick, saslVars, toServer>>

\* Mutant: reassembly without a cap.
HandleChallenge_Uncapped(m) ==
  /\ saslLive /\ m.cmd = "chunk"
  /\ challenge' = challenge + 1
  /\ UNCHANGED <<credentials, capVars, nick, saslStarted, saslLive, saslSucceeded, account,
                 outcome, toServer>>

\* An AUTHENTICATE line of a live session: reassemble, then respond.
HandleChallenge(m) ==
  /\ saslLive
  /\ \/ /\ m.cmd = "chunk" /\ challenge < MaxChallenge
        /\ challenge' = challenge + 1
        /\ UNCHANGED <<saslLive, outcome, toServer>>
     \/ /\ \/ m.cmd = "chunk" /\ challenge = MaxChallenge
           \/ m.cmd = "malformed"
        /\ challenge' = 0 /\ saslLive' = FALSE
        /\ Settle("rejected")
        /\ UNCHANGED toServer
     \/ /\ m.cmd = "challenge"
        /\ challenge' = 0
        /\ Send(<<Line("RESPONSE")>>)
        /\ UNCHANGED <<saslLive, outcome>>
  /\ UNCHANGED <<credentials, capVars, nick, saslStarted, saslSucceeded, account>>

HandleLoggedIn(m) ==
  /\ saslLive /\ m.cmd = "900"
  /\ account' = TRUE
  /\ UNCHANGED <<credentials, capVars, nick, saslStarted, saslLive, challenge,
                 saslSucceeded, outcome, toServer>>

HandleSaslSuccess(m) ==
  /\ saslLive /\ m.cmd = "903"
  /\ saslSucceeded' = TRUE /\ saslLive' = FALSE
  /\ ConcludeCaps
  /\ UNCHANGED <<credentials, available, enabled, pending, nick, saslStarted,
                 challenge, account, outcome>>

HandleSaslFailure(m) ==
  /\ saslLive /\ m.cmd = "904"
  /\ saslLive' = FALSE
  /\ Settle("rejected")
  /\ UNCHANGED <<credentials, capVars, nick, saslStarted, challenge, saslSucceeded,
                 account, toServer>>

\* Everything else: CAP NEW/DEL, a NICK, and SASL lines outside a session.
HandleOther(m) ==
  /\ \/ m.cmd \in {"NEW", "DEL", "NICK", "908"}
     \/ ~saslLive /\ m.cmd \in {"chunk", "challenge", "malformed", "900", "903", "904"}
  /\ UNCHANGED <<clientVars, toServer>>

Handle(m) ==
  \/ HandleLS(m) \/ HandleACK(m) \/ HandleNAK(m)
  \/ HandleWelcome(m) \/ HandleNickInUse(m) \/ HandleFatal(m) \/ HandleNoCap(m)
  \/ HandleChallenge(m) \/ HandleLoggedIn(m) \/ HandleSaslSuccess(m)
  \/ HandleSaslFailure(m) \/ HandleOther(m)

-----------------------------------------------------------------------------
(* The client's steps.  takeUntil(done$): a settled handshake hears nothing.*)

Receive ==
  /\ toClient # <<>>
  /\ toClient' = Tail(toClient)
  /\ IF outcome = "pending" THEN Handle(Head(toClient))
     ELSE UNCHANGED <<clientVars, toServer>>
  /\ UNCHANGED serverVars

Timeout ==
  /\ Timed /\ outcome = "pending"
  /\ Settle("rejected")
  /\ UNCHANGED <<credentials, capVars, nick, saslVars, toServer, toClient, serverVars>>

-----------------------------------------------------------------------------
(* The server, as register() relies on it.                                 *)

\* It follows the protocol: with capabilities, answering 421 to CAP, or ignoring CAP.
Honest == srvKind # "hostile"

Reply(lines) == toClient' = toClient \o lines

ServerRead(cmd) ==
  /\ Honest
  /\ toServer # <<>> /\ Head(toServer).cmd = cmd
  /\ toServer' = Tail(toServer)
  /\ UNCHANGED <<clientVars, srvKind, srvCaps, srvWelcomed, injected, notices>>

\* CAP LS 302 holds registration open and lists the capabilities, on one line or two.
ServerLS ==
  /\ ServerRead("CAP LS")
  /\ \/ /\ srvKind = "modern"
        /\ srvHold' = TRUE
        /\ \/ Reply(<<[cmd |-> "LS", caps |-> srvCaps, more |-> FALSE]>>)
           \/ \E S \in SUBSET srvCaps :
                Reply(<<[cmd |-> "LS", caps |-> S, more |-> TRUE],
                        [cmd |-> "LS", caps |-> srvCaps \ S, more |-> FALSE]>>)
     \/ srvKind = "421" /\ Reply(<<Line("421")>>) /\ UNCHANGED srvHold
     \/ srvKind = "silent" /\ UNCHANGED <<toClient, srvHold>>
  /\ UNCHANGED <<srvEnabled, srvNick, srvUser, srvSasl>>

ServerNick ==
  /\ ServerRead("NICK")
  /\ IF Head(toServer).nick < TakenNicks
     THEN Reply(<<Line("433")>>) /\ UNCHANGED srvNick
     ELSE srvNick' = Head(toServer).nick /\ UNCHANGED toClient
  /\ UNCHANGED <<srvEnabled, srvHold, srvUser, srvSasl>>

ServerUser ==
  /\ ServerRead("USER")
  /\ srvUser' = TRUE
  /\ UNCHANGED <<toClient, srvEnabled, srvHold, srvNick, srvSasl>>

\* A request line is granted or refused as a whole.
ServerReq ==
  /\ ServerRead("CAP REQ")
  /\ LET S == Head(toServer).caps
     IN  \/ /\ S \subseteq srvCaps
            /\ srvEnabled' = srvEnabled \cup S
            /\ Reply(<<[cmd |-> "ACK", caps |-> S, off |-> {}]>>)
         \/ /\ Reply(<<[cmd |-> "NAK", caps |-> S]>>)
            /\ UNCHANGED srvEnabled
  /\ UNCHANGED <<srvHold, srvNick, srvUser, srvSasl>>

\* AUTHENTICATE <mechanism>: prompt, or refuse naming the mechanisms there are.
ServerAuth ==
  /\ ServerRead("AUTHENTICATE")
  /\ \/ /\ "sasl" \in srvEnabled /\ srvSasl = "idle"
        /\ srvSasl' = "prompted"
        /\ Reply(<<Line("challenge")>>)
     \/ Reply(<<Line("908"), Line("904")>>) /\ UNCHANGED srvSasl
  /\ UNCHANGED <<srvEnabled, srvHold, srvNick, srvUser>>

ServerResponse ==
  /\ ServerRead("RESPONSE")
  /\ \/ /\ srvSasl = "prompted"
        /\ srvSasl' = "done"
        /\ Reply(<<Line("900"), Line("903")>>)
     \/ Reply(<<Line("904")>>) /\ UNCHANGED srvSasl
  /\ UNCHANGED <<srvEnabled, srvHold, srvNick, srvUser>>

ServerEnd ==
  /\ ServerRead("CAP END")
  /\ srvHold' = FALSE
  /\ UNCHANGED <<toClient, srvEnabled, srvNick, srvUser, srvSasl>>

\* NICK and USER are in and CAP does not hold registration open: 001.
Welcome ==
  /\ Honest
  /\ srvNick # NoNick /\ srvUser /\ ~srvHold /\ ~srvWelcomed
  /\ srvWelcomed' = TRUE
  /\ Reply(<<[cmd |-> "001", nick |-> srvNick]>>)
  /\ UNCHANGED <<clientVars, toServer, srvKind, srvCaps, srvEnabled, srvHold, srvNick,
                 srvUser, srvSasl, injected, notices>>

\* cap-notify: the server takes capabilities away, or offers them again.
Notice ==
  /\ Honest /\ srvKind = "modern" /\ (srvHold \/ srvWelcomed)
  /\ notices < MaxNotices /\ notices' = notices + 1
  /\ \/ \E c \in srvCaps :
          /\ srvCaps' = srvCaps \ {c}
          /\ srvEnabled' = srvEnabled \ {c}
          /\ Reply(<<[cmd |-> "DEL", caps |-> {c}]>>)
     \/ \E c \in Caps \ srvCaps :
          /\ srvCaps' = srvCaps \cup {c}
          /\ Reply(<<[cmd |-> "NEW", caps |-> {c}]>>)
          /\ UNCHANGED srvEnabled
  /\ UNCHANGED <<clientVars, toServer, srvKind, srvHold, srvNick, srvUser, srvSasl,
                 srvWelcomed, injected>>

\* A hostile server sends what it likes and reads when it likes.
Inject ==
  /\ ~Honest
  /\ injected < MaxInjected /\ injected' = injected + 1
  /\ Len(toClient) < MaxBacklog /\ Len(toServer) < MaxUnread
  /\ \E m \in Injectable : Reply(<<m>>)
  /\ UNCHANGED <<clientVars, toServer, srvKind, srvCaps, srvEnabled, srvHold, srvNick,
                 srvUser, srvSasl, srvWelcomed, notices>>

Swallow ==
  /\ ~Honest
  /\ toServer # <<>> /\ toServer' = Tail(toServer)
  /\ UNCHANGED <<clientVars, toClient, serverVars>>

-----------------------------------------------------------------------------

\* The kickoff of register(): its lines are on their way once it subscribed.
Init ==
  /\ credentials \in BOOLEAN
  /\ available = {} /\ enabled = {} /\ pending = {}
  /\ nick = 0
  /\ capsConcluded = FALSE
  /\ saslStarted = FALSE /\ saslLive = FALSE /\ challenge = 0
  /\ saslSucceeded = FALSE /\ account = FALSE
  /\ outcome = "pending"
  /\ toServer = <<Line("CAP LS"), [cmd |-> "NICK", nick |-> 0], Line("USER")>>
  /\ toClient = <<>>
  /\ srvKind \in ServerKinds
  /\ srvCaps \in (IF Honest THEN Offers ELSE {{}}) /\ srvEnabled = {}
  /\ srvHold = FALSE /\ srvNick = NoNick /\ srvUser = FALSE
  /\ srvSasl = "idle" /\ srvWelcomed = FALSE
  /\ injected = 0 /\ notices = 0

ServerStep ==
  \/ ServerLS \/ ServerNick \/ ServerUser \/ ServerReq \/ ServerAuth
  \/ ServerResponse \/ ServerEnd \/ Welcome

Next == Receive \/ Timeout \/ ServerStep \/ Notice \/ Inject \/ Swallow

Spec == Init /\ [][Next]_vars

-----------------------------------------------------------------------------
(* Safety against any server.                                              *)

Unread(cmd) == {i \in DOMAIN toServer : toServer[i].cmd = cmd}

\* A client with credentials lets go of registration (CAP END, capsConcluded) and
\* accepts an admission only after its SASL exchange succeeded, whatever the server
\* sends: a 421 downgrade, a refused or withdrawn sasl, an early 001.
FailsClosed ==
  credentials /\ (capsConcluded \/ Unread("CAP END") # {} \/ outcome = "resolved")
    => saslStarted /\ saslSucceeded

\* On the wire there is one SASL exchange, opened before it is answered and over
\* before the one CAP END: repeated, late or unsolicited CAP ACKs restart nothing.
OneExchangeThenEnd ==
  \A i, j \in DOMAIN toServer : i < j =>
    /\ toServer[i].cmd = "CAP END"
         => toServer[j].cmd \notin {"CAP END", "AUTHENTICATE", "RESPONSE"}
    /\ toServer[i].cmd \in {"AUTHENTICATE", "RESPONSE"} => toServer[j].cmd # "AUTHENTICATE"

\* register() as its caller sees it.
Phase ==
  CASE outcome = "resolved" -> "registered"
    [] outcome = "rejected" -> "failed"
    [] outcome = "pending"  -> IF saslSucceeded THEN "authenticated" ELSE "negotiating"

Contract == INSTANCE LoginContract WITH phase <- Phase

\* register() keeps its contract: it settles once, and never admits a client that
\* holds credentials from the negotiating phase.
KeepsContract == Contract!Spec

=============================================================================
