----------------------------- MODULE Connection -----------------------------
(***************************************************************************)
(* The life of an IrcClient: connect() with its deadline, the attempts of  *)
(* #runAttempt under retryWithBackoff, and quit() with #shutdown.          *)
(*                                                                         *)
(* Everything runs on one thread, but #emit hands control to the           *)
(* consumer's lifecycle handlers in the middle of it, and a handler may    *)
(* quit().  So a step ends at each #emit: `at` is the event being handed   *)
(* out, "idle" when the stack is empty, and a Resume action runs the code  *)
(* behind the #emit.  The async function of an attempt lives on after the  *)
(* attempt is torn down, until what it awaits settles: it is then a        *)
(* zombie, and may write nothing.                                          *)
(***************************************************************************)
EXTENDS Naturals

CONSTANTS
  MaxRetries,  \* reconnect.maxRetries, 0 when reconnecting is disabled
  Deadlined,   \* is connectTimeoutMs finite
  MaxAttempts  \* bound: attempts of one behaviour

ASSUME ConnectionAssumption ==
  MaxRetries \in Nat /\ Deadlined \in BOOLEAN /\ MaxAttempts \in Nat \ {0}

Attempts == 1..MaxAttempts

VARIABLES
  state, torndown,         \* #state and #torndown
  promise, deadline,       \* connect()'s promise; is its timer armed
  link,                    \* connection$: "none", "attempt", "waiting" (backoff) or "over"
  attemptCount, failures,  \* #attemptCount; retry's soFar
  at,                      \* the event being handed out
  queue, store, capabilities, \* the attempt that owns each shared slot, 0 for null
  cont,                    \* per attempt, what its async function awaits
  settled, closed,         \* per attempt: its flag; was its teardown run (transport.close())
  event, ended             \* the last event delivered; did lifecycle$ complete

slots    == <<queue, store, capabilities>>
outside  == <<promise, deadline>>
attempts == <<cont, settled, closed>>
vars     == <<state, torndown, outside, link, attemptCount, failures, at, slots, attempts,
              event, ended>>

Conts  == {"none", "connecting", "registering", "done"}
Events == {"connecting", "connected", "registered", "disconnected", "reconnecting", "error"}

FlagTypes == torndown \in BOOLEAN /\ deadline \in BOOLEAN /\ ended \in BOOLEAN

DataTypes ==
  /\ state \in {"idle", "connecting", "registered", "closed"}
  /\ promise \in {"none", "pending", "resolved", "rejected"}
  /\ link \in {"none", "attempt", "waiting", "over"}
  /\ attemptCount \in 0..MaxAttempts /\ failures \in 0..MaxRetries
  /\ at \in Events \cup {"idle"}
  /\ {queue, store, capabilities} \subseteq 0..MaxAttempts
  /\ event \in Events \cup {"none", "bye"}

AttemptTypes ==
  /\ cont \in [Attempts -> Conts]
  /\ settled \in [Attempts -> BOOLEAN] /\ closed \in [Attempts -> BOOLEAN]

TypeOK == FlagTypes /\ DataTypes /\ AttemptTypes

Current == attemptCount

-----------------------------------------------------------------------------

\* #emit: a completed subject delivers nothing.
Emit(e) == at' = e /\ event' = IF ended THEN event ELSE e

\* The teardown of attempt a: it lets go of what is still its own.
Teardown(a) ==
  /\ settled' = [settled EXCEPT ![a] = TRUE]
  /\ closed' = [closed EXCEPT ![a] = TRUE]
  /\ queue' = IF queue = a THEN 0 ELSE queue
  /\ store' = IF store = a THEN 0 ELSE store
  /\ capabilities' = IF store = a THEN 0 ELSE capabilities

\* Mutant: one retry too many.
Fails_OneMore ==
  \/ /\ failures <= MaxRetries
     /\ Emit("reconnecting")
     /\ failures' = failures + 1
     /\ UNCHANGED <<state, link>>
  \/ /\ failures > MaxRetries
     /\ Emit("error")
     /\ state' = "closed" /\ link' = "over"
     /\ UNCHANGED failures

\* The error callback of retry: back off, or on to connect()'s error handler.
Fails ==
  \/ /\ failures < MaxRetries
     /\ Emit("reconnecting")
     /\ failures' = failures + 1
     /\ UNCHANGED <<state, link>>
  \/ /\ failures >= MaxRetries
     /\ Emit("error")
     /\ state' = "closed" /\ link' = "over"
     /\ UNCHANGED failures

Reject == promise' = IF promise = "pending" THEN "rejected" ELSE promise

\* Mutant: quitting leaves the promise to its owner.
Farewell_Silent ==
  IF link \in {"attempt", "waiting"}
  THEN event' = "bye" /\ link' = "over" /\ deadline' = FALSE /\ UNCHANGED promise
  ELSE UNCHANGED <<event, link, outside>>

\* #shutdown's end of connection$: takeUntil completes it, if it has not ended, and
\* the complete handler says goodbye.
Farewell ==
  IF link \in {"attempt", "waiting"}
  THEN event' = "bye" /\ link' = "over" /\ deadline' = FALSE /\ Reject
  ELSE UNCHANGED <<event, link, outside>>

\* The rest of #shutdown.  While "connecting" is handed out #runAttempt has not
\* returned its teardown yet.
Sever ==
  /\ torndown' = TRUE /\ state' = "closed" /\ ended' = TRUE
  /\ queue' = 0 /\ store' = 0 /\ capabilities' = 0
  /\ IF attemptCount = 0 \/ at = "connecting" THEN UNCHANGED <<settled, closed>>
     ELSE /\ settled' = [settled EXCEPT ![Current] = TRUE]
          /\ closed' = [closed EXCEPT ![Current] = TRUE]

-----------------------------------------------------------------------------
(* connect() and the attempts it leads to.                                 *)

\* #runAttempt up to its first #emit.  A transport factory that throws fails an
\* attempt that has neither a transport nor a teardown.
StartAttempt ==
  /\ attemptCount < MaxAttempts /\ attemptCount' = attemptCount + 1
  /\ \/ /\ Emit("connecting")
        /\ state' = "connecting" /\ link' = "attempt"
        /\ UNCHANGED <<failures, closed>>
     \/ /\ closed' = [closed EXCEPT ![attemptCount'] = TRUE]
        /\ \/ /\ failures < MaxRetries /\ failures' = failures + 1
              /\ Emit("reconnecting")
              /\ state' = "connecting" /\ link' = "attempt"
           \/ /\ failures >= MaxRetries /\ UNCHANGED failures
              /\ Emit("error")
              /\ state' = "closed" /\ link' = "over"
  /\ UNCHANGED <<torndown, slots, cont, settled, ended>>

Connect ==
  /\ at = "idle" /\ state = "idle"
  /\ promise' = "pending" /\ deadline' = Deadlined
  /\ StartAttempt

BackoffElapses ==
  /\ at = "idle" /\ link = "waiting"
  /\ UNCHANGED outside
  /\ StartAttempt

\* Mutant: what a handler did to the attempt being set up is overlooked.
ResumeConnecting_LateTeardown ==
  /\ at = "connecting" /\ at' = "idle"
  /\ cont' = [cont EXCEPT ![Current] = "connecting"]
  /\ capabilities' = 0
  /\ store' = IF link = "over" THEN 0 ELSE Current
  /\ UNCHANGED <<state, torndown, outside, link, attemptCount, failures, queue, settled, closed,
                 event, ended>>

\* Behind "connecting": a store of its own, the async function, and the teardown,
\* which runs on the spot if a handler has quit.
ResumeConnecting ==
  /\ at = "connecting" /\ at' = "idle"
  /\ cont' = [cont EXCEPT ![Current] = "connecting"]
  /\ capabilities' = 0
  /\ IF link = "over"
     THEN /\ store' = 0
          /\ settled' = [settled EXCEPT ![Current] = TRUE]
          /\ closed' = [closed EXCEPT ![Current] = TRUE]
     ELSE store' = Current /\ UNCHANGED <<settled, closed>>
  /\ UNCHANGED <<state, torndown, outside, link, attemptCount, failures, queue, event, ended>>

\* Mutant: a lost registration still shows until the next attempt starts.
FailAttempt_StaleState(a) ==
  IF settled[a] THEN UNCHANGED <<state, at, event, settled>>
  ELSE /\ settled' = [settled EXCEPT ![a] = TRUE]
       /\ UNCHANGED state
       /\ Emit("disconnected")

\* failAttempt: once per attempt.
FailAttempt(a) ==
  IF settled[a] THEN UNCHANGED <<state, at, event, settled>>
  ELSE /\ settled' = [settled EXCEPT ![a] = TRUE]
       /\ state' = IF state = "registered" THEN "connecting" ELSE state
       /\ Emit("disconnected")

\* Mutant: no look at the settled flag behind the await.
ConnectResolves_Zombie(a) ==
  /\ at = "idle" /\ cont[a] = "connecting"
  /\ queue' = a /\ Emit("connected")
  /\ UNCHANGED <<state, torndown, outside, link, attemptCount, failures, store, capabilities,
                 attempts, ended>>

\* What an attempt awaits settles: transport.connect(), then register().  A zombie
\* returns without a trace.
ConnectResolves(a) ==
  /\ at = "idle" /\ cont[a] = "connecting"
  /\ IF settled[a]
     THEN cont' = [cont EXCEPT ![a] = "done"] /\ UNCHANGED <<at, event, queue>>
     ELSE queue' = a /\ Emit("connected") /\ UNCHANGED cont
  /\ UNCHANGED <<state, torndown, outside, link, attemptCount, failures, store, capabilities,
                 settled, closed, ended>>

\* Behind "connected": register() begins, on a closed queue if a handler has quit.
ResumeConnected ==
  /\ at = "connected" /\ at' = "idle"
  /\ cont' = [cont EXCEPT ![Current] = "registering"]
  /\ UNCHANGED <<state, torndown, outside, link, attemptCount, failures, slots, settled, closed,
                 event, ended>>

RegisterResolves(a) ==
  /\ at = "idle" /\ cont[a] = "registering"
  /\ cont' = [cont EXCEPT ![a] = "done"]
  /\ IF settled[a] THEN UNCHANGED <<at, event, state, capabilities>>
     ELSE capabilities' = a /\ state' = "registered" /\ Emit("registered")
  /\ UNCHANGED <<torndown, outside, link, attemptCount, failures, queue, store, settled, closed,
                 ended>>

\* Mutant: a success does not reset the count of failures.
ResumeRegistered_NoReset ==
  /\ at = "registered" /\ at' = "idle"
  /\ IF link = "over" THEN UNCHANGED outside
     ELSE /\ promise' = IF promise = "pending" THEN "resolved" ELSE promise
          /\ deadline' = FALSE
  /\ UNCHANGED <<state, torndown, link, attemptCount, failures, slots, attempts, event, ended>>

\* Behind "registered": connect()'s own subscription resolves the promise, and the
\* emission of the attempt resets retry's count.
ResumeRegistered ==
  /\ at = "registered" /\ at' = "idle"
  /\ IF link = "over" THEN UNCHANGED <<outside, failures>>
     ELSE /\ promise' = IF promise = "pending" THEN "resolved" ELSE promise
          /\ deadline' = FALSE
          /\ failures' = 0
  /\ UNCHANGED <<state, torndown, link, attemptCount, slots, attempts, event, ended>>

AwaitRejects(a) ==
  /\ at = "idle" /\ cont[a] \in {"connecting", "registering"}
  /\ cont' = [cont EXCEPT ![a] = "done"]
  /\ FailAttempt(a)
  /\ UNCHANGED <<torndown, outside, link, attemptCount, failures, slots, closed, ended>>

\* The inbound stream errors, or keepalive hears nothing: only a subscribed attempt
\* notices.
Drops ==
  /\ at = "idle" /\ link = "attempt" /\ ~closed[Current] /\ ~settled[Current]
  /\ FailAttempt(Current)
  /\ UNCHANGED <<torndown, outside, link, attemptCount, failures, slots, cont, closed, ended>>

\* Behind "disconnected": the error reaches retry, unless a handler has quit.
ResumeDisconnected ==
  /\ at = "disconnected"
  /\ IF link = "over" THEN at' = "idle" /\ UNCHANGED <<event, state, link, failures>>
     ELSE Fails
  /\ UNCHANGED <<torndown, outside, attemptCount, slots, attempts, ended>>

\* Behind "reconnecting": the timer is set, and only then the attempt torn down.
ResumeReconnecting ==
  /\ at = "reconnecting" /\ at' = "idle"
  /\ IF link = "over" THEN UNCHANGED <<link, slots, settled, closed>>
     ELSE link' = "waiting" /\ Teardown(Current)
  /\ UNCHANGED <<state, torndown, outside, attemptCount, failures, cont, event, ended>>

\* Behind "error": the rest of connect()'s error handler.
ResumeError ==
  /\ at = "error" /\ at' = "idle"
  /\ Reject /\ deadline' = FALSE
  /\ IF torndown THEN UNCHANGED <<torndown, state, ended, slots, settled, closed>> ELSE Sever
  /\ UNCHANGED <<link, attemptCount, failures, cont, event>>

DeadlineFires ==
  /\ at = "idle" /\ deadline /\ promise = "pending"
  /\ Farewell /\ Sever
  /\ UNCHANGED <<attemptCount, failures, at, cont>>

\* quit(), from anywhere: between two tasks or inside a handler.
Quit ==
  /\ ~torndown
  /\ Farewell /\ Sever
  /\ UNCHANGED <<attemptCount, failures, at, cont>>

-----------------------------------------------------------------------------

Init ==
  /\ state = "idle" /\ torndown = FALSE
  /\ promise = "none" /\ deadline = FALSE
  /\ link = "none" /\ attemptCount = 0 /\ failures = 0
  /\ at = "idle"
  /\ queue = 0 /\ store = 0 /\ capabilities = 0
  /\ cont = [a \in Attempts |-> "none"]
  /\ settled = [a \in Attempts |-> FALSE] /\ closed = [a \in Attempts |-> FALSE]
  /\ event = "none" /\ ended = FALSE

Resume ==
  \/ ResumeConnecting \/ ResumeConnected \/ ResumeRegistered \/ ResumeDisconnected
  \/ ResumeReconnecting \/ ResumeError

Next ==
  \/ Connect \/ BackoffElapses \/ Drops \/ DeadlineFires \/ Quit \/ Resume
  \/ \E a \in Attempts : ConnectResolves(a) \/ RegisterResolves(a) \/ AwaitRejects(a)

\* A handler returns, and a due timer is run as soon as the stack is empty: it keeps
\* falling due between other tasks, hence strong fairness.  The network owes nothing.
Spec == Init /\ [][Next]_vars /\ WF_vars(Resume) /\ SF_vars(DeadlineFires)

-----------------------------------------------------------------------------

\* A client that reports "registered" can be used: it has its live attempt's queue,
\* entities and capabilities, inside every handler as well as between tasks.
RegisteredIsUsable ==
  state = "registered" =>
    /\ link = "attempt" /\ Current # 0 /\ ~settled[Current]
    /\ {queue, store, capabilities} = {Current}

\* Between tasks the getters show the live attempt or nothing: no slot is left to an
\* attempt that failed, or taken by a zombie whose await settled late.
SlotsAreLive ==
  at = "idle" => \A a \in {queue, store, capabilities} \ {0} :
                   a = Current /\ link = "attempt" /\ ~settled[a]

\* Between tasks every transport that was created is closed, but the live one's:
\* also when quit() came while the attempt was still being set up.
NothingLeaks ==
  at = "idle" => \A a \in 1..attemptCount : ~closed[a] => a = Current /\ link = "attempt"

Contract == INSTANCE LifecycleContract WITH attempt <- attemptCount, tries <- failures

\* The lifecycle events, the promise and the retry budget are those of the contract.
KeepsLifecycle == Contract!Spec

\* With a deadline, awaiting connect() never hangs, whatever the network does.
ConnectSettles == promise = "pending" ~> promise \in {"resolved", "rejected"}

=============================================================================
