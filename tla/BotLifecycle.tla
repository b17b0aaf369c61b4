---------------------------- MODULE BotLifecycle ----------------------------
(***************************************************************************)
(* A Bot from new to stopped: start() loads the modules one after the      *)
(* other and connects, stop() waits for a start under way, and one         *)
(* teardown, shared by stop() and a start() that fails, disposes the hosts *)
(* and quits.  Tasks interleave at each await; setup(), disposers and      *)
(* per-connection callbacks are the modules' own code, which may call the  *)
(* context, quit the client or ask the bot to stop at any time.            *)
(*                                                                         *)
(* The client is whatever LifecycleContract allows, which Connection is    *)
(* shown to implement.  A lifecycle event is handed to the subscribed      *)
(* modules one by one (`hearing`), and nothing else runs meanwhile but     *)
(* what they call.                                                         *)
(***************************************************************************)
EXTENDS ModuleHost, FiniteSets

CONSTANTS
  MaxRetries,  \* reconnect.maxRetries
  MaxAttempts  \* bound: connection attempts of one behaviour

ASSUME BotAssumption == MaxRetries \in Nat /\ MaxAttempts \in Nat

VARIABLES
  failFast,   \* config.bot.failOnModuleError
  boot,       \* where #doStart is: "none", "imports", "loading", "setup", "undoing",
              \* "connecting", "cleaning", "started" or "failed"
  loading,    \* the module the load loop has come to
  pushed,     \* #hosts
  stopping,   \* #stopping: "none", "waiting", "cleaning" or "stopped"
  closing,    \* #teardown: "none" until #torndown, "hosts", "flushing" or "over"
  closeAt,    \* the index in #hosts it has come to
  signals,    \* are the signal handlers installed
  event, attempt, tries, promise, ended,  \* the client, as in LifecycleContract
  hearing,    \* the modules that have still to hear of `event`
  reentered   \* history: modules that quit from inside their per-connection setup()

client == <<event, attempt, tries, promise, ended>>
bot    == <<failFast, boot, loading, pushed, stopping, closing, closeAt, signals>>
vars   == <<hosts, bot, client, hearing, reentered>>

Client == INSTANCE LifecycleContract

TypeOK ==
  /\ HostTypeOK
  /\ failFast \in BOOLEAN /\ signals \in BOOLEAN
  /\ boot \in {"none", "imports", "loading", "setup", "undoing", "connecting", "cleaning",
               "started", "failed"}
  /\ loading \in Nat /\ pushed \in Seq(Modules) /\ closeAt \in 0..Len(pushed)
  /\ stopping \in {"none", "waiting", "cleaning", "stopped"}
  /\ closing \in {"none", "hosts", "flushing", "over"}
  /\ hearing \subseteq Modules /\ reentered \subseteq Modules

-----------------------------------------------------------------------------
(* The client.                                                             *)

\* quit(), or an end that comes from the client itself.  `q` is the module that calls it
\* from its per-connection setup() and then returns a teardown, if there is one.
EndsClient(q) ==
  /\ Client!Ends
  /\ hearing' = {}
  /\ IF event' = "bye" THEN DisarmsAll(watching, q, attempt)
                       ELSE watching' = {} /\ UNCHANGED <<armed, teardown>>
  /\ UNCHANGED <<disposed, cleanups, owed, held, undo, ran>>

NoModule == 0

ClientEnds == hearing = {} /\ EndsClient(NoModule) /\ UNCHANGED <<bot, reentered>>

\* What the network, timers and backoff do.  Modules subscribe to two of the events.
ClientSteps ==
  /\ hearing = {}
  /\ \/ Client!Starts /\ event = "reconnecting" /\ attempt < MaxAttempts
     \/ Client!Advances \/ Client!Succeeds \/ Client!Loses \/ Client!RejectsLate
  /\ hearing' = IF event' # event /\ event' \in {"registered", "disconnected"}
                THEN watching ELSE {}
  /\ UNCHANGED <<hosts, bot, reentered>>

\* One module hears the event: its setup() or its teardown runs, and may quit.
Hears(m) ==
  /\ m \in hearing /\ UNCHANGED bot
  /\ \/ /\ hearing' = hearing \ {m} /\ UNCHANGED <<client, reentered>>
        /\ \/ event = "registered" /\ Arms(m, attempt)
           \/ Disarms(m)
        /\ UNCHANGED <<disposed, cleanups, owed, held, watching, undo, ran>>
     \/ event = "registered" /\ EndsClient(m) /\ reentered' = reentered \cup {m}
     \/ EndsClient(NoModule) /\ UNCHANGED reentered

-----------------------------------------------------------------------------
(* #teardown, once.                                                        *)

\* The next host down to the first; then router.dispose() and #gracefulQuit, whose QUIT
\* may fail to be written: the client is shut down in any case.
ClosesNext(k) ==
  IF k > 0
  THEN /\ closing' = "hosts" /\ closeAt' = k
       /\ \E returned \in BOOLEAN : BeginsDisposal(pushed[k], returned)
       /\ UNCHANGED <<client, hearing>>
  ELSE /\ closing' = "flushing" /\ closeAt' = 0
       /\ IF ended THEN UNCHANGED <<hosts, client, hearing>> ELSE EndsClient(NoModule)

BeginsTeardown == closing = "none" /\ signals' = FALSE /\ ClosesNext(Len(pushed))

\* The host's dispose() has returned.
HostClosed ==
  /\ hearing = {} /\ closing = "hosts" /\ Disposed(pushed[closeAt])
  /\ ClosesNext(closeAt - 1)
  /\ UNCHANGED <<failFast, boot, loading, pushed, stopping, signals, reentered>>

\* The local disconnect has been seen, or waited for long enough, and the flush window is
\* over, if there was anything to flush.
Stopped ==
  /\ hearing = {} /\ closing = "flushing" /\ closing' = "over"
  /\ UNCHANGED <<hosts, failFast, boot, loading, pushed, stopping, closeAt, signals, client,
                 hearing, reentered>>

-----------------------------------------------------------------------------
(* start().                                                                *)

\* The signal handlers, the router, and the imports, which may take a while.
Start ==
  /\ hearing = {} /\ boot = "none" /\ closing = "none"
  /\ boot' = "imports"
  /\ UNCHANGED <<hosts, failFast, loading, pushed, stopping, closing, closeAt, signals, client,
                 hearing, reentered>>

\* The catch of #doStart.
StartFails == boot' = "cleaning" /\ BeginsTeardown

\* All external modules are there, or one import fails, or registers a taken name.
Imported ==
  /\ hearing = {} /\ boot = "imports"
  /\ \/ boot' = "loading" /\ UNCHANGED <<hosts, closing, closeAt, signals, client, hearing>>
     \/ StartFails
  /\ UNCHANGED <<failFast, loading, pushed, stopping, reentered>>

\* #failModule: on to the next module, or the whole start fails.
ModuleFails ==
  IF failFast THEN StartFails /\ UNCHANGED loading
  ELSE /\ boot' = "loading" /\ loading' = loading + 1
       /\ UNCHANGED <<hosts, closing, closeAt, signals, client, hearing>>

\* The factory and parseConfig: a host is built and its setup() called, or neither.
Loads ==
  /\ hearing = {} /\ boot = "loading" /\ loading \in Modules
  /\ \/ /\ boot' = "setup"
        /\ UNCHANGED <<hosts, loading, closing, closeAt, signals, client, hearing>>
     \/ ModuleFails
  /\ UNCHANGED <<failFast, pushed, stopping, reentered>>

\* setup() resolves: the host is one of ours.
SetUp ==
  /\ hearing = {} /\ boot = "setup"
  /\ boot' = "loading" /\ pushed' = Append(pushed, loading) /\ loading' = loading + 1
  /\ UNCHANGED <<hosts, failFast, stopping, closing, closeAt, signals, client, hearing,
                 reentered>>

\* Mutant: the error is reported, what setup() did before it stays.
SetupFails_Kept ==
  /\ hearing = {} /\ boot = "setup" /\ boot' = "undoing"
  /\ disposed' = [disposed EXCEPT ![loading] = TRUE]
  /\ UNCHANGED <<cleanups, owed, held, watching, teardown, armed, undo, ran, failFast, loading, pushed,
                 stopping, closing, closeAt, signals, client, hearing, reentered>>

\* setup() throws, half-way or at its end: the host disposes itself.
SetupFails ==
  /\ hearing = {} /\ boot = "setup" /\ boot' = "undoing"
  /\ BeginsDisposal(loading, FALSE)
  /\ UNCHANGED <<failFast, loading, pushed, stopping, closing, closeAt, signals, client, hearing,
                 reentered>>

\* ... and the error reaches #loadModule when it has.
SetupUndone ==
  /\ hearing = {} /\ boot = "undoing" /\ Disposed(loading)
  /\ ModuleFails
  /\ UNCHANGED <<failFast, pushed, stopping, reentered>>

\* connect(), unless a module has quit the client in the meantime.
Connects ==
  /\ hearing = {} /\ boot = "loading" /\ loading \notin Modules
  /\ IF ended THEN StartFails
     ELSE /\ boot' = "connecting" /\ signals' = TRUE
          /\ Client!Starts /\ UNCHANGED <<hosts, closing, closeAt, hearing>>
  /\ UNCHANGED <<failFast, loading, pushed, stopping, reentered>>

\* Behind the await of connect().
Connected ==
  /\ hearing = {} /\ boot = "connecting"
  /\ \/ /\ promise = "resolved" /\ boot' = "started"
        /\ UNCHANGED <<hosts, closing, closeAt, signals, client, hearing>>
     \/ promise = "rejected" /\ StartFails
  /\ UNCHANGED <<failFast, loading, pushed, stopping, reentered>>

\* Behind the await of #teardown in the catch: the error is thrown on.
StartRejects ==
  /\ hearing = {} /\ boot = "cleaning" /\ closing = "over"
  /\ boot' = "failed"
  /\ UNCHANGED <<hosts, failFast, loading, pushed, stopping, closing, closeAt, signals, client,
                 hearing, reentered>>

-----------------------------------------------------------------------------
(* stop().                                                                 *)

\* Mutant: a start under way is not waited for.
Stop_Races ==
  /\ hearing = {} /\ stopping = "none"
  /\ stopping' = "cleaning"
  /\ IF closing = "none" THEN BeginsTeardown
     ELSE UNCHANGED <<hosts, closing, closeAt, signals, client, hearing>>
  /\ UNCHANGED <<failFast, boot, loading, pushed, reentered>>

\* From outside, a signal, or a module's requestStop(): only the first call counts.
Stop ==
  /\ stopping = "none"
  /\ IF boot = "none" THEN hearing = {} /\ stopping' = "cleaning" /\ BeginsTeardown
     ELSE /\ stopping' = "waiting"
          /\ UNCHANGED <<hosts, closing, closeAt, signals, client, hearing>>
  /\ UNCHANGED <<failFast, boot, loading, pushed, reentered>>

\* Mutant: the error of a failed start is stop()'s error too.
StopGoesOn_Throws ==
  /\ hearing = {} /\ stopping = "waiting" /\ boot = "started"
  /\ stopping' = "cleaning" /\ BeginsTeardown
  /\ UNCHANGED <<failFast, boot, loading, pushed, reentered>>

\* Behind the await of #starting: a start that failed has torn everything down itself.
StopGoesOn ==
  /\ hearing = {} /\ stopping = "waiting" /\ boot \in {"started", "failed"}
  /\ \/ stopping' = "cleaning" /\ BeginsTeardown
     \/ /\ closing # "none" /\ stopping' = "stopped"
        /\ UNCHANGED <<hosts, closing, closeAt, signals, client, hearing>>
  /\ UNCHANGED <<failFast, boot, loading, pushed, reentered>>

StopResolves ==
  /\ hearing = {} /\ stopping = "cleaning" /\ closing = "over"
  /\ stopping' = "stopped"
  /\ UNCHANGED <<hosts, failFast, boot, loading, pushed, closing, closeAt, signals, client,
                 hearing, reentered>>

-----------------------------------------------------------------------------
(* The modules, with a context in hand since their setup() was called.     *)

HasContext(m) == m \in ToSet(pushed) \/ disposed[m] \/ (boot = "setup" /\ m = loading)

Registers(m) ==
  /\ HasContext(m)
  /\ Holds(m, "command") \/ Holds(m, "listener") \/ Cleans(m) \/ Watches(m, ended)
  /\ UNCHANGED <<bot, client, hearing, reentered>>

DisposerReturns(m) ==
  /\ hearing = {} /\ Disposes(m)
  /\ UNCHANGED <<bot, client, hearing, reentered>>

Init ==
  /\ HostInit /\ Client!Init
  /\ failFast \in BOOLEAN
  /\ boot = "none" /\ loading = 1 /\ pushed = <<>>
  /\ stopping = "none" /\ closing = "none" /\ closeAt = 0 /\ signals = FALSE
  /\ hearing = {} /\ reentered = {}

\* The code behind an await, and the callbacks it waits for.
Continues ==
  \/ HostClosed \/ Stopped \/ Imported \/ Loads \/ SetUp \/ SetupFails \/ SetupUndone
  \/ Connects \/ Connected \/ StartRejects \/ StopGoesOn \/ StopResolves
  \/ \E m \in Modules : Hears(m) \/ DisposerReturns(m)

Next ==
  \/ Continues \/ ClientSteps \/ ClientEnds \/ Start \/ Stop
  \/ \E m \in Modules : Registers(m)

\* connect() settles: the deadline ends the client, and an end settles the promise.
ConnectSettles ==
  /\ promise = "pending" /\ hearing = {}
  /\ IF ended THEN ClientSteps ELSE ClientEnds

\* Imports, setup() and disposers return, as module authors are told they must; the rest
\* is the event loop's.  The deadline's timer is armed again and again behind other tasks.
Spec == Init /\ [][Next]_vars /\ WF_vars(Continues) /\ SF_vars(ConnectSettles)

-----------------------------------------------------------------------------

\* Once start() has rejected or stop() has resolved, nothing is left: no command, listener
\* or per-connection resource, no cleanup owed, no signal handler, no live client.  Nor is
\* anything left of a module whose setup() failed, while the bot goes on without it.
NothingLeftBehind ==
  /\ boot = "failed" \/ stopping = "stopped" =>
       ended /\ ~signals /\ \A m \in Modules : ~Residue(m)
  /\ \A m \in Modules : Disposed(m) => ~Residue(m)

\* Everything is undone once and in reverse: a disposer finds what was registered before
\* it still there, and a module the modules loaded before it.
UndoneInReverse ==
  \A j \in DOMAIN ran : \A i \in 1..(j - 1) :
    /\ ran[i][1] = ran[j][1] => ran[i][2] > ran[j][2]
    /\ {ran[i][1], ran[j][1]} \subseteq ToSet(pushed) => ran[i][1] >= ran[j][1]

\* A module holds the resources of at most one connection, the live one: a timer or handle
\* made for a connection is gone before the next is tried.  Only a module that quits from
\* inside its own setup() keeps what it then returns, until it is disposed.
FreshPerConnection ==
  \A m \in Modules :
    /\ Cardinality(armed[m]) <= 1
    /\ hearing = {} /\ armed[m] # {} =>
         \/ event = "registered" /\ ~ended /\ armed[m] = {attempt}
         \/ ended /\ m \in reentered

Contract == INSTANCE BotContract WITH
  phase <- IF closing = "over" THEN "stopped" ELSE IF closing # "none" THEN "closing"
           ELSE IF boot = "none" THEN "new" ELSE IF boot = "started" THEN "running"
           ELSE "starting",
  start <- IF boot = "none" THEN "none" ELSE IF boot = "started" THEN "resolved"
           ELSE IF boot = "failed" THEN "rejected" ELSE "pending",
  residue <- {m \in Modules : Residue(m)}

\* The bot goes from new to stopped as BotContract says: closed once, never while it
\* starts, and clean when it is.
KeepsBot == Contract!Spec

\* stop() resolves, whenever it is called: also while modules are set up, while connect()
\* hangs, and when the connection is lost on the way.
StopEnds == stopping # "none" ~> stopping = "stopped"
=============================================================================
