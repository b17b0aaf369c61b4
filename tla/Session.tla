------------------------------ MODULE Session ------------------------------
(***************************************************************************)
(* One connection attempt after its transport is up: the message pump of   *)
(* IrcClient.#runAttempt over the handshake of Registration, the async     *)
(* continuation that publishes the handshake's result, and the cap-notify  *)
(* handler that keeps the capabilities current afterwards.                 *)
(*                                                                         *)
(* register() settles its promise inside the delivery of a line; the code  *)
(* after the await runs as a microtask, once the lines that arrived in the *)
(* same chunk have all been delivered.  Between the two the session is     *)
(* "settled": the pump goes on while nothing is published yet.             *)
(***************************************************************************)
EXTENDS Registration

CONSTANTS
  EarlyNotices, \* may the server send CAP NEW/DEL and NICK before it sees us up
  MaxRenames    \* bound: times the server changes our nick

ASSUME SessionAssumption == EarlyNotices \in BOOLEAN /\ MaxRenames \in Nat

VARIABLES
  stage,        \* of the attempt: "registering", "settled", "up" or "failed"
  acceptedNick, \* result.nick
  clientNick,   \* IrcClient.#nick
  selfNick,     \* StateStore.server.nick
  renames

sessionVars == <<stage, acceptedNick, clientNick, selfNick, renames>>
allVars     == <<vars, sessionVars>>

-----------------------------------------------------------------------------

\* Mutant: only the store hears of the change.
PumpNick_StoreOnly(m) ==
  /\ selfNick' = IF m.cmd \in {"001", "NICK"} THEN m.nick ELSE selfNick
  /\ UNCHANGED clientNick

\* The pump's own part of a line: dispatch tracks our nick, and a confirmed change
\* of it reaches the public getter.
PumpNick(m) ==
  /\ selfNick'   = IF m.cmd \in {"001", "NICK"} THEN m.nick ELSE selfNick
  /\ clientNick' = IF m.cmd = "NICK" THEN m.nick ELSE clientNick

\* register()'s subscription comes after the pump's, and settles under it.
DeliverToHandshake ==
  /\ stage = "registering" /\ Receive
  /\ LET m == Head(toClient)
     IN  PumpNick(m) /\ acceptedNick' = IF m.cmd = "001" THEN m.nick ELSE acceptedNick
  /\ stage' = IF outcome' = "pending" THEN stage ELSE "settled"
  /\ UNCHANGED renames

\* The rest of the chunk: #handleCapNotify returns early, #capabilities being null.
DeliverInGap ==
  /\ stage = "settled" /\ Receive
  /\ PumpNick(Head(toClient))
  /\ UNCHANGED <<stage, acceptedNick, renames>>

\* The code after `await register(...)`: publish, or fail the attempt.
Continue ==
  /\ stage = "settled"
  /\ \/ outcome = "resolved" /\ stage' = "up" /\ clientNick' = acceptedNick
     \/ outcome = "rejected" /\ stage' = "failed" /\ UNCHANGED clientNick
  /\ UNCHANGED <<vars, acceptedNick, selfNick, renames>>

\* #wantedFromTokens: only what this NEW announced, never sasl, and dependencies.
WantedFrom(names, offered) ==
  Reconciled({c \in (names \cap Desired) \ enabled : c # "sasl"}, offered, FALSE) \ enabled

CapNew(m) ==
  /\ m.cmd = "NEW"
  /\ available' \in Bounded(available, m.caps)
  /\ Send(ReqLines(WantedFrom(m.caps, available')))
  /\ UNCHANGED enabled

\* Mutant: the capability is withdrawn but stays enabled.
CapDel_StillEnabled(m) ==
  /\ m.cmd = "DEL"
  /\ available' = available \ m.caps
  /\ UNCHANGED <<enabled, toServer>>

CapDel(m) ==
  /\ m.cmd = "DEL"
  /\ available' = available \ m.caps
  /\ enabled' = enabled \ m.caps
  /\ UNCHANGED toServer

CapAck(m) ==
  /\ m.cmd = "ACK"
  /\ enabled' \in Applied(m.caps, m.off)
  /\ UNCHANGED <<available, toServer>>

\* A line once #capabilities is published: #handleCapNotify, then the pump.
DeliverWhenUp ==
  /\ stage = "up"
  /\ toClient # <<>> /\ toClient' = Tail(toClient)
  /\ LET m == Head(toClient)
     IN  /\ PumpNick(m)
         /\ \/ CapNew(m) \/ CapDel(m) \/ CapAck(m)
            \/ m.cmd \notin {"NEW", "DEL", "ACK"} /\ UNCHANGED <<available, enabled, toServer>>
  /\ UNCHANGED <<credentials, pending, capsConcluded, nick, saslVars, outcome, serverVars,
                 stage, acceptedNick, renames>>

TimeoutFires ==
  /\ stage = "registering" /\ Timeout
  /\ stage' = "settled"
  /\ UNCHANGED <<acceptedNick, clientNick, selfNick, renames>>

-----------------------------------------------------------------------------
(* The server's own initiative.                                            *)

MayNotify == EarlyNotices \/ stage = "up"

ServerNotice == MayNotify /\ Notice /\ UNCHANGED sessionVars

\* Services, a bouncer or an operator change the nick of a registered client.
ServerRename ==
  /\ MayNotify /\ Honest /\ srvWelcomed
  /\ renames < MaxRenames /\ renames' = renames + 1
  /\ srvNick' = srvNick + 1
  /\ Reply(<<[cmd |-> "NICK", nick |-> srvNick + 1]>>)
  /\ UNCHANGED <<clientVars, toServer, srvKind, srvCaps, srvEnabled, srvHold, srvUser,
                 srvSasl, srvWelcomed, injected, notices, stage, acceptedNick, clientNick,
                 selfNick>>

SessionInit ==
  /\ Init
  /\ stage = "registering"
  /\ acceptedNick = 0 /\ clientNick = 0 /\ selfNick = 0
  /\ renames = 0

ServerAnswers == ServerStep /\ UNCHANGED sessionVars

SessionNext ==
  \/ DeliverToHandshake \/ DeliverInGap \/ Continue \/ DeliverWhenUp \/ TimeoutFires
  \/ ServerAnswers \/ ServerNotice \/ ServerRename

\* The client's event loop runs what is queued on it, and an honest server answers
\* what it reads.  Nothing is assumed of timers or of the server's own initiative.
SessionSpec ==
  /\ SessionInit /\ [][SessionNext]_allVars
  /\ WF_allVars(DeliverToHandshake) /\ WF_allVars(DeliverWhenUp) /\ WF_allVars(Continue)
  /\ WF_allVars(ServerAnswers)

-----------------------------------------------------------------------------
(* Agreement with an honest server.                                        *)

\* A server with capabilities has authenticated every client it admits that holds
\* credentials: nothing the client sends releases the hold any earlier.
AdmittedIsAuthenticated ==
  srvWelcomed /\ credentials /\ srvKind = "modern" => srvSasl = "done"

\* An honest server is never left waiting for us, nor we for it: the attempt settles
\* and its result is published without the help of a timeout.
AttemptSettles == <>(stage \in {"up", "failed"})

Drained == toClient = <<>> /\ toServer = <<>>

\* With nothing in flight, the capabilities guards like sendLabeled rely on are the
\* ones the server has on for us.
CapsInSync == stage = "up" /\ Drained => enabled = srvEnabled

\* With nothing in flight, the public nick and the store's notion of self are the
\* nick the server knows us by.
NickInSync == stage = "up" /\ Drained => clientNick = srvNick /\ selfNick = srvNick

\* The documents promise both of the two above without the proviso that what arrives early
\* is left alone; then not even one of them need hold.
EitherInSync == CapsInSync \/ NickInSync

=============================================================================
