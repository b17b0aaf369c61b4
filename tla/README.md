# Formal models of mojo-jojo

TLA+ models of the IRC client and bot in this repository, the TLC runs that check them
on small instances, and TLAPS proofs of what must hold on every instance. Run everything
from this directory: `tlc -workers 2 -config <run>.cfg <module>`, `tlapm <module>.tla`.

## 1. Inventory

The repository has three packages. `irc-message` turns text into messages and back;
`irc-client` keeps a connection, its protocol state and the outside world's view of it;
`bot` hosts modules and commands on top of a client. All of it runs on one thread: what
interleaves are tasks (socket callbacks, timers, microtasks behind an `await`) and, inside
a task, the subscribers of RxJS subjects, who may call back into the code that is
notifying them.

| component | state | operations | what makes it correct |
|---|---|---|---|
| Registration handshake, `protocol/registration.ts` | pending requests, `capsConcluded`, `saslStarted`, the SASL session, the promise | one `handle` per inbound line, timeout, end of stream | with credentials it fails closed; one SASL exchange, one `CAP END`; every request is answered before it; settles once; never waits for a server that waits for it |
| Capabilities, `protocol/capabilities.ts` | available and enabled sets with a ceiling | LS, NEW, DEL, ACK, reconcile, chunk | `enabled` is what the server has on for us |
| SASL session, `protocol/sasl.ts` | challenge buffer, finished | AUTHENTICATE, numerics 900 to 908 | bounded reassembly; terminal numerics end it |
| Connection, `IrcClient.ts`, `reconnect.ts` | `#state`, `#torndown`, the slots `#queue`, `#store`, `#capabilities`, the attempt's `settled`, connect()'s promise and deadline | connect, run attempt, fail, back off, quit, shut down | slots belong to the live attempt; transports are closed; lifecycle events keep their grammar; connect() settles |
| Session, `IrcClient.ts` | `#nick`, `#capabilities`, server nick | message pump, continuation of register(), cap-notify | client and server agree on nick and capabilities |
| State store and dispatcher, `state/` | users, channels, members, casemapping, our nick | JOIN, PART, KICK, QUIT, NICK, 353, 005, messages | the three maps agree; we are one user; nobody unrelated is retained |
| Records of users, `entities/User.ts`, `entities/Member.ts`, and identity, `bot/src/identity` | account, host, real name, away, status | extended-join, ACCOUNT, AWAY, CHGHOST, SETNAME, WHO, MODE; owner matchers, permission, sender key | what is on file is true of the one it is filed under; nobody is taken for another |
| Channel modes, `modeParser.ts`, `entities/Channel.ts`, `isupport/` | ISUPPORT tokens, lists, modes, statuses | 005, 353, MODE | each parameter goes to its mode |
| Inbound, `pipeline/lineDecoder.ts`, `IrcPipeline.ts`, `irc-message` | a partial line, the shared token buffer | chunk, tokenize, parse, build | every line understood once, however it is cut; the fast backend is the reference |
| Outbound queue, `pipeline/outbound.ts` | pending count, closed | send, sendImmediate, drain, close | bounded, ordered, spaced, silent after close |
| Transport, `transport/BunSocketTransport.ts` | socket, closing, settled, pending bytes | connect, write, drain, close, socket callbacks | no byte lost or reordered; streams end once; no late socket leaks |
| Labeled responses and keepalive, `IrcClient.ts` | label, batch refs, timers | sendLabeled, ping and response window | settle once with the right lines; half-open is noticed |
| Bot, `bot/src/Bot.ts` | starting, stopping, torndown, hosts | start, stop, load modules, quit | one teardown, every host disposed, stop waits for start |
| Module host, `bot/src/module` | disposed, subscriptions, cleanups, per-connection teardown | setup, onEachConnection, dispose | everything registered is undone once |
| Command router and abuse controls, `bot/src/command`, `bot/src/abuse` | in-flight count, names, buckets, cooldowns | admit, run with timeout, add, dispose | the bound holds, no slot leaks, a dropped command costs nothing |
| Configuration, logging, built-in modules, command texts | little or none | text and tables | their own tests |

How they interact. A transport's bytes become lines, then messages. The pump of
`#runAttempt` subscribes first: it forwards a message to `#messages` (PING responder,
cap-notify, labeled responses), dispatches it into the store and forwards the resulting
event; `register()`, while it lasts, and keepalive hear the message after that. register()
settles a promise; the code behind the `await` publishes its result in a later microtask.
`#emit` hands lifecycle events to consumers synchronously, and any of them may `quit()`.
The bot's module hosts and command router are such consumers.

Hard behaviours: a server that answers out of order, twice or not at all (registration); the
gap between a promise settling and its continuation (session); attempts that outlive their
teardown, and handlers that quit from inside (connection); identities that collide under a
new casemapping (store); counters and races with timeouts (queue, router, labeled
responses, keepalive); a stop during a start, and modules that fail or call back (bot); lines torn
by chunks and a buffer that remembers the last one (inbound); records that outlive what they
describe (users, modes). `PROJECT.json` lists each at its line.

## 2. Modules and how they correspond to the code

`Registration` is `register()` with its `CapabilityStore` and `SaslSession`, between two
FIFO streams and a server. Its variables are the locals of the function; each branch of
`handle()` is an action `Handle...`, `Receive` takes a line off the stream for it, `Timeout`
is the timer. `finished` is `outcome # "pending"`: once settled, lines are still delivered
but `takeUntil(done$)` drops them. Lines are records; numerics the code treats alike share a
command. The server is either *honest* (`ServerLS`, `ServerNick`, ... follow the
protocol, may refuse any request line, may know no CAP and say so or not) or *hostile*, and then
sends anything in `Injectable` and reads when it likes. The server is external: it is modelled
from what register() relies on.

`LoginContract` is what a caller of register() is promised. `Registration` refines it with
`Phase` as the mapping.

`Session` extends `Registration` with what `#runAttempt` does around it: the pump that
tracks our nick, the gap in which register() has settled and nothing is published (`stage =
"settled"`), the continuation, and `#handleCapNotify` afterwards. `EarlyNotices` says whether
the server may change our nick or capabilities before it has seen us up.

`Connection` is the outer loop: connect() with its deadline, attempts, `retryWithBackoff`, quit()
and `#shutdown`. A step ends at each `#emit`: `at` names the event in delivery, a `Resume...`
action is the code behind the `#emit`, and `Quit` may happen in between as well as between
tasks. `cont[a]` is what the async function of attempt `a` awaits; it stays after the attempt
is torn down. What happens inside `register()` is abstracted to `RegisterResolves` and
`AwaitRejects`; a keepalive failure and the end of the inbound stream are `Drops`.

`LifecycleContract` is the grammar of `lifecycle$`, the retry budget and the promise of
connect(); `Connection` refines it with `attemptCount` as `attempt` and `failures` as `tries`.

`Store` is `StateStore` as the `Dispatcher` writes it: one value, the store's methods as
operators on it, a kind of line per action. An `IrcMap` is a function from spellings, with
`Fold` giving what a spelling folds to under each casemapping. Users are ids, so that a
member that points at a disposed or mistaken user can be told from one that does not.

`Transport` is `BunSocketTransport`: the promise of connect() (`promise`) with its two awaits,
the gate in front of the second (`ready`), the socket callbacks, and write, drain and close.
`sock` and `wire` are external: a socket opens or not, completes its handshake or not, ends at any
time, and takes any prefix of what it is given. A line is two bytes, so that it can be torn.

`OutboundQueue` extends `Transport` with one attempt's queue: the pipeline of `concatMap` and `timer`
is the sequence `queue` and the flag `spacing`, a `send()` with an idle pipeline runs its subscriber
at once (`SendsAtOnce`), and `SpacerElapses` pulls the next line. The attempt around it
enters with what it does to the two: it makes the queue once connect() has resolved
(`MakeQueue`), tears both down (`TearsDown`), and quits with a QUIT past the queue (`Quits`).

`Abuse` holds `RateLimiter` and `Cooldowns` as values: the tables a call may leave behind, given the
table it finds. `CommandRouter` extends it with the command table (`Add`, and `Remove` for the
disposer, which a module may call late or twice), the four ways out of `#admit` and the way a
slot comes back: a handler settles, or its timer does, the continuation of `#run` follows a microtask
later (`Finalizes`), and `Dispose` runs the finalizers of all that is left.

`ModuleHost` is the host of each module: registrations (`held`), the disposers it owes (`owed`), the
per-connection closure of `onEachConnection` (`armed`, `teardown`) and `dispose()`, one disposer at a
time. `BotLifecycle` extends it with `start()`, `stop()`, module loading, `#teardown` and
`#gracefulQuit`; setup(), disposers and per-connection callbacks are the modules' own code and may register
more, quit the client or ask for a stop. `Continues` is the code behind each `await`. The client is
external to it: it makes the moves `LifecycleContract` allows, which `Connection` is
proved to implement, and `hearing` is who has yet to be told of an event. `BotContract` is what the
owner of a bot is promised; `BotLifecycle` refines it.

`Conversation` is a registered client: `sendLabeled` with its label, batch references, caps, timer and the
ends a disconnect or quit() makes, the batch reassembly of the dispatcher, and `#startKeepalive`.
All of them hear the same message, in the order they subscribed (`Hears`). Keepalive counts ticks; a
request's timeout is a timer that may fire any time. The server may answer a request by `ACK`, by one
line or by a batch with batches in it, and say anything else in between.

`Tokens` has both tokenizers: `Tokenize`, the reference, by sections of the grammar, and `TokenizeInto`, the
fast port, a byte at a time over the buffer it is given. `Messages` has the two parsers, tag escapes and
`buildMessage`. `ChannelModes` has `modeParser`, `PREFIX` and `CHANMODES` of ISUPPORT and the modes
of `Channel` and `Member`. `Inbound` composes them behind `decodeLines`: a chunk is one
`Receives`, which frames, parses and dispatches all lines the chunk completes. Its server writes
messages as `buildMessage` would, keeps to the modes it has announced, and may write any line besides;
`Spoken` is everything it may have a message for, whatever the modes are.
`InboundContract` promises every line heard once, in order, as it was meant; `Inbound` refines it.

`Roster` extends `Store` with the fields of users and the status of members, the handlers that set
them, and a server whose `is` they should match. Each action is what happens at the server and the
line that tells us, if a capability has it told; `told` is what we have been told of each. Behind it is
the bot's side: `MatchesIdentity`, `OpMayRun` and `SenderKey`, of the event that a message by anybody
would make now.

The MC modules give constants values. An operator whose comment starts with *Mutant* is
used by no specification: it is a wrong version of the definition that follows it, and a
property is only kept if TLC finds it violated once the definition is replaced by it. A `TypeOK` that no
run names says what the variables hold; only those that are proved are checked as well.

## 3. Runs

| run | what it asks | bounds |
|---|---|---|
| `RegistrationSafe` | safety of register() against any server, honest or hostile: `FailsClosed`, `OneExchangeThenEnd`, refinement of `LoginContract` | all four kinds of server; a hostile one injects 6 lines of 22 kinds; one line of backlog, which loses nothing, since an injected line can wait for its turn to be sent; 3 capabilities in 2 request lines; ceiling of 2 tracked capabilities and a challenge of 1 chunk, so that both are hit. Six lines are enough for LS, ACK, challenge, 903, a stray ACK and 001 |
| `SessionHonest` | agreement with a server that follows the protocol: `AdmittedIsAuthenticated`, `CapsInSync`, `NickInSync`, and `AttemptSettles` | every offer of 3 capabilities, one per request line, 2 nicks taken, 2 notices, 1 rename, all three kinds of server |
| `SessionGap` | the same with `EarlyNotices`: not even `EitherInSync`, one of the two, holds, see section 5 | the same |
| `ConnectionLifecycle` | `RegisteredIsUsable`, `SlotsAreLive`, `NothingLeaks`, refinement of `LifecycleContract`, `ConnectSettles` | 6 attempts, 2 retries per outage: two outages with a success between them, and an exhausted one |
| `StoreMembership` | `MembersAreTracked`, `SelfIsOurs`, `NoLeftovers` | 4 nicks, two of which fold together under rfc1459, 3 channels likewise, ceilings of 2 channels and 2 members, any number of lines |
| `RouterLimits` | `SlotsMatch`, `SlotsFreed`, `WholeEntries`, `RateHolds`, `CooldownsHold` | 2 senders, 2 commands that share an alias, with cooldowns of 3 and 1; 2 handlers in flight; buckets of 1 token regained in 2 units, 1 bucket and 2 cooldowns tracked, so that both tables overflow; 3 commands that got a token and a clock of 4, enough for a table to fill, evict and be asked again |
| `OutboundPath` | `WireInOrder`, `NoSocketLeaks`, `CloseEnds`, `LinesMove` | plaintext and TLS; 4 lines of 2 bytes over a queue of 2: one written, two waiting, one refused or past the queue |
| `QuitLost` | `QuitFlushed`, violated, see section 5 | the same |
| `BotShutdown` | `NothingLeftBehind`, `UndoneInReverse`, `FreshPerConnection`, refinement of `BotContract`, `StopEnds` | 2 modules, so that one fails behind one that is set up; 2 `onCleanup` callbacks each, for an order; 2 attempts and 1 retry, for a reconnect |
| `LabeledRequests` | `RepliesAreRight`, `BatchesAreWhole`, `SilenceIsMeasured`, `RequestsSettle` | 2 requests, one with a timeout; 3 batch references; caps of 2 messages and 2 batches of a reply, 2 open batches and 1 message of each, all of which overflow; 3 lines of the server on each of 2 connections; ping interval and window of 1 tick |
| `InboundPath` | `BackendsAgree`, refinement of `InboundContract`, `ModesInSync` | 2 lines, the first of 5 that leave something behind; of the second, some 1100 texts (up to 4 bytes of the tag grammar behind an `@`, up to 3 of the rest, tags past the limit), 100 well-formed messages, every pair of mode changes; chunks of 7 bytes or all; a buffer of 16; limits of 9, 2, 16 and 4; 2 ISUPPORT profiles, 2 members |
| `RosterTruth` | `RecordsAreTrue`, `SendersAreThemselves` | ourselves and 2 others, a nick that is spelled in two ways, one channel, 3 changes (enough to leave, log out and come back, or to pass a nick on to another), one account, 2 hosts, 2 sets of capabilities; that a user survives in a second channel is `StoreMembership`'s |

Where a cfg says `CHECK_DEADLOCK FALSE` the system may stop: a handshake settles, a client is
quit, a bot is stopped, a connection ends with our QUIT, and a server that has nothing left to say waits.

Fairness. `SessionSpec` assumes that the client's event loop runs what is queued on it (a
delivered line, the continuation of a settled promise) and that an honest server answers
what it has read; nothing is assumed of timers, so `AttemptSettles` does not lean on
the handshake timeout. `Connection` assumes that handlers return (`WF(Resume)`) and that
a due timer is run once the stack is empty (`SF(DeadlineFires)`, strong because tasks
that are queued before it make the stack busy again and again). The network owes nothing:
connect() and register() of an attempt may hang for ever. `CommandRouter` assumes that a handler's
timer fires and that the continuation of a settled promise runs, never that a handler
settles. `OutboundQueue` assumes that promises continue, that the spacer's timer fires and that
a socket we have ended is reported closed; a dial, a handshake or a drain may never come.
`BotLifecycle` assumes that promises continue and module callbacks return (`WF(Continues)`) and that the
client's connect() settles (`SF(ConnectSettles)`), which is what `Connection` shows of a client with
a deadline; of the modules' factories, of the network and of who calls stop() nothing. `Conversation`
assumes that timers fire (`WF(TimesOut(r))` for a timed request, and keepalive's clock). `Inbound`
and `Roster` have safety only. `Store` neither.

## 4. Proofs

`SessionProofs` proves of register(), for every set of capabilities, every dependency relation, every
chunking that loses and invents no capability, every ceiling and every server:

* `TypeCorrect`: `Spec => []TypeOK`;
* `AlwaysFailsClosed`: `Spec => []FailsClosed`;
* `OneExchange`: `Spec => []OneExchangeThenEnd`;
* `Refinement`: `Spec => KeepsContract`, the specification of `LoginContract`.

They rest on the inductive invariant `IInv` (`Invariance`), which is `TypeOK`, the wire order
itself, and two parts the properties do not state. `FlagsAgree` relates the locals:
a SASL session is live only in a started exchange, success implies a started and finished one,
and with credentials `capsConcluded` implies success. `WireAgrees` relates what the server has
not read yet to the locals: an unread `AUTHENTICATE` or `RESPONSE` means the exchange has
started, an unread `CAP END` means caps are concluded. Neither property is inductive without
them: `FailsClosed` needs to know that nobody concludes
before success, and the wire order that a line about to be appended cannot follow a
`CAP END`, which only the flags tell. The proof has a lemma per handler and per server step,
over the part of the state it disturbs, and lemmas on what sending, reading and
replying do to the two streams. The assumptions are the named ones of `Registration`
(`CapsAssumption`, `ChunkingAssumption`, `ServerAssumption`), which every run evaluates;
`ChunkingAssumption` says of `chunkCaps` that its request lines are a partition of what is asked for:
no piece is empty, and no capability is in two.

The same module then proves of the session, which goes on from there, for the same constants and an
honest server unless it says otherwise:

* `HandshakeInvariance`: `SessionSpec => []AInv`, and from it `AdmissionIsAuthenticated`:
  `SessionSpec => []AdmittedIsAuthenticated`;
* `NickStaysInSync` and `CapsStayInSync`: `[]NickInSync` and `[]CapsInSync`, of a server that does not
  notify before it has seen us up (`~EarlyNotices`; `SessionGap` shows that this is needed), the second
  with no more capabilities than the ceiling tracks: a client that ignores a capability for want of
  room no longer agrees with the server about it;
* `SessionFailsClosed` and `SessionKeepsContract`: `SessionSpec => [](FailsClosed /\ OneExchangeThenEnd)`
  and `SessionSpec => KeepsContract`, of any server: what register() promises on its own it keeps with
  the pump and the continuation around it.

None of the first three is inductive: each speaks of a moment when nothing is in flight. The invariants
therefore follow the lines in flight. `AInv` adds to `IInv` what each line that will be read next stands
for: a 903 on its way means that the server has let the exchange succeed, a server whose hold is off
has been told CAP END. `BInv` adds that one NICK or 433 is about at a time, that 001 comes
once, and that the *last* NICK in flight is the server's name for us. `CInv` says the same of
each capability: the last ACK or DEL in flight that names it decides (`Told`); for that,
requests and answers must not overlap (`Unanswered`), which is where the partition is used.

`ConnectionProofs` proves, for every retry budget, any number of attempts, with and without a
deadline, and wherever handlers call quit():

* `TypeCorrect`, `Usable`, `Live` and `Leakproof`: `Spec => []TypeOK`, `[]RegisteredIsUsable`,
  `[]SlotsAreLive` and `[]NothingLeaks`;
* `Refinement`: `Spec => KeepsLifecycle`, the specification of `LifecycleContract`.

The properties only speak of tasks' ends, or of one value of `#state`; the inductive invariant says
what holds at every place the control can rest. `PastAttempts`: an attempt gone by is settled and
torn down, so that its zombie writes nothing. `Stages` relates `#state`, `#torndown` and the
subscription `link`; `Places` says what each event in delivery means for the latest attempt (behind
`disconnected` it is settled but not yet torn down, behind `error` the subscription is over);
`Slots` says whose the shared slots are, and that a registration not cut off has its queue. `Told`
adds, for the refinement, which event was last, and that the promise is settled once the client
has ended, except inside the `error` event. A lemma per action. The one assumption is
`ConnectionAssumption`, on the types of the constants.

`StoreProofs` proves, for every set of names, every folding of them under each casemapping and every
ceiling:

* `MembersAreUsers`, `WeStayOurselves` and `NobodyIsLeftOver`: `Spec => []MembersAreTracked`,
  `[]SelfIsOurs` and `[]NoLeftovers`; `TypeCorrect`: `Spec => []TypeOK`.

The store is one value, so the proof is about values first: what each method does to *any* store that
keeps track of its members (`Met`, `Added`, `Removed`, `Forgotten`, `Pruned`, `Renamed`, ...), then what it
keeps of the invariant, then a lemma per line, which is a few methods in a row. The invariant
`StoreInv` is stronger than the three properties in two ways. `Tracked` adds that no two names are
one user, without which a user displaced by a rename could not be told from the one who
displaces him, and, by counting, that there is always an id for another. `Us` files us under the
very spelling of our nick, so that we are found under any casemapping, and marks nobody else, so that
a collision cannot be won by anybody else. `Company(s, N)` is `KnowsOnlyCompany` with the names `N` excepted:
inside a line, those met or taken out and not yet pruned. For a change of casemapping, what the
three rekeyings may leave is described first (`Recast`). The assumption is `StoreAssumption`: finitely many
names, a ceiling of at least one member.

Of the roster `StoreProofs` proves, for any number of people, channels and changes, any accounts, hosts, sets of
capabilities and owners, and every folding of nicks:

* `WhatIsOnFileIsTrue` and `NobodyIsTakenForAnother`: `RosterSpec => []RecordsAreTrue` and
  `[]SendersAreThemselves`;
* `RosterIsAStore`: `RosterSpec => [][Next]_vars`, every step of the roster is one of `Store` or leaves it
  alone, so that `StoreInv` holds of it too.

`RecordsAreTrue` speaks of what is on file under a nick; its invariant, `RosterInv`, of what a line does
to the user object behind it. `Mirrors` says that each of our channels has the members who are there, under
the nicks they have now, except for those whom a 353 has yet to list: without it nobody could tell whether a user
survives a PART, takes his fields along, and is the right one to be given the next ones.
`FieldsRight` is then a statement about user ids, and `OpsRight` one about pairs of a channel and an id;
that no two names are one id comes from `Tracked`. `Worldly` is what a server guarantees: no two
people under nicks that fold together, and ops only where they are. There is a lemma per line, built from
what the methods do to any store (`StoreProofs`). The assumption is `RosterAssumption`: the
types of the constants, that we start out alone, that names of channels do not fold together, and that
the ceilings hold them all: beyond a ceiling the store ignores what it is told, and is no longer a mirror.

`OutboundProofs` proves, for every depth of the queue, any number of lines, and whatever the
socket takes of each write:

* `WireStaysInOrder` and `NoSocketIsLeaked`: `Spec => []WireInOrder` and `[]NoSocketLeaks`; `TypeCorrect`;
* `CounterIsExact`: `Spec => []QueueCounted`, the counter that limits the depth is the number of lines that
  wait; `StreamsEndAlike`: `Spec => []EndsAgree`, of `bytes$` and `closed$`.

Order is inductive once it is stated of wire and backlog together; the invariant adds which sockets there
can be at each stage of connect() and of close() (`Sockets`), and that the queue closes with
its transport. The assumption is `QueueAssumption`.

`RouterProofs` proves, for every set of senders, commands and names, every concurrency, period and length
of the two tables:

* `SlotsAreExact`, `EntriesAreWhole`, `RateIsKept` and `CooldownsAreKept`: `Spec => []SlotsMatch`,
  `[]WholeEntries`, `[]RateHolds` and `[]CooldownsHold`; `TypeCorrect`.

The two tables forget, and the properties are about the whole history. `Fair` ties them together: what a
sender has spent since any run, and what its bucket still holds, is at most a burst and what was gained
meanwhile, as long as the table was never crowded from then on; a bucket that was evicted counts as
full, which is right because the table evicts the one untouched for longest, and that one
has had time to fill (`Spent`). `OnFile` does the same for cooldowns. The assumptions are
`AbuseAssumption` and `RouterAssumption`.

`BotProofs` proves, for any number of modules, callbacks, attempts and retries:

* `NothingIsLeftBehind`, `DisposalIsInReverse` and `ResourcesAreFresh`: `Spec => []NothingLeftBehind`,
  `[]UndoneInReverse` and `[]FreshPerConnection`; `TypeCorrect`;
* `BotKeepsContract`: `Spec => KeepsBot`, the specification of `BotContract`.

The invariant says how far start(), stop() and the teardown may have come together (`Control`), that
modules are loaded and pushed in order (`Order`), which of them the teardown is done with (`Closing`),
and what a host that is disposed of, or has no context yet, may still hold (`Kept`): nothing but the
callbacks it is about to call. `ArmedOnce` says whose a per-connection resource is.

`ConversationProofs` proves, for every set of requests and references, every cap, interval and window:

* `RepliesAreTheirOwn`: `Spec => []RepliesAreRight`, of a server that does not reuse a nested reference
  (`ReusesRefs = FALSE`; section 5 has what happens else);
* `BatchEventsAreWhole` and `KeepaliveMeasuresSilence`: `Spec => []BatchesAreWhole`, `[]SilenceIsMeasured`;
* `WaitersBelongToTheConnection`: `Spec => []PendingAreLive`, the safety part of `RequestsSettle`; `TypeCorrect`.

What the client has collected is tied to how far the server has got: an open batch holds the lines it was
sent, up to the cap (`BatchesFollow`), a request that is answered has collected what was said for it so far
(`Following`), and the countdown of keepalive is the silence (`TimersAgree`). The assumptions are those
of `Conversation`.

`InboundProofs` proves, for every line over any bytes, every limit, every text, message and profile, and
every size of a chunk:

* `TokenizersAgree`: whatever earlier lines have left in the buffer, `TokenizeInto` writes the tokens of
  `Tokenize`, or throws what it throws, and a buffer of `TripleCapacity` has room for them;
* `ParsersAgree`: the flat parser makes of that buffer the message that the reference makes of the line;
* `BackendsAlwaysAgree`: `Spec => []BackendsAgree`;
* `StreamIsKept`: `Spec => KeepsStream`, the specification of `InboundContract`.

The reference takes the grammar a section at a time and the fast tokenizer a byte at a time, so the
bridge is what the reference makes of the rest of a line from the middle of a token on: an operator
per mode of the fast tokenizer (`Rest`). What a run has written, and the rest that its mode stands for,
are the reference's tokens of the whole line (`Agrees`); every byte carries that over. A byte
writes no more than two tokens, which is why the capacity is enough, and `TripleCapacity_Tight` is not.
`BackendInv` is then little more than that the client only ever holds texts. For the contract,
`StreamInv` says what is under way (`Underway`): the partial line and the stream, cut at the newlines, are one
line for each entry that the contract has pending (`Stands`), each with the meaning of its entry, except for
one that the decoder has begun to discard, whose end stands for an entry that is `long`. Cutting is the same
wherever a chunk ends (`Chunked`), and hearing is the same line by line.

The functions these modules recurse with are unfolded by induction over sets of numbers
(`NatInduction` takes an operator, `NatLessThanWellFounded` with a set does not), by which
what they compute is proved for lines of every length. The assumptions are `InboundAssumption` and
`MessagesAssumption`, on types, and `SpokenAssumption`: what the server has to say is valid and proper,
and the reference reads each such message as it was meant. So that `parseMessage` undoes `buildMessage`
is not proved: it is evaluated for every message of the instance, on every run.

Only model-checked: `ModesInSync` of `Inbound`, and everything that must eventually happen
(`AttemptSettles`, `ConnectSettles`, `SlotsFreed`, `CloseEnds`, `LinesMove`, `StopEnds`, `RequestsSettle`):
liveness is beyond this prover. `ModesInSync` would need what the parsers of ISUPPORT, of modes and of
names make of every text the server puts together.

## 5. Where code and comments disagree

* **Stale nick** (`SessionGap`). A `NICK` in the same chunk as `001` is applied by the pump
  and then overwritten by `this.#nick = result.nick` behind the `await`. The store has the right
  nick, the public getter does not. With SASL the account is also recorded on a user filed
  under the old nick.
* **Stale capabilities** (`SessionGap`, whose counterexample has both). `CAP DEL` and `CAP NEW` are applied neither by
  register(), which leaves them to the runtime, nor by the runtime, which ignores them until
  register()'s result is published.
* **Lost QUIT** (`QuitLost`). `close()` calls `socket.end()` without looking at `#pendingWrite`. Under
  backpressure the QUIT, and every line before it that the socket has not accepted, is still
  there; an ended socket is assumed to take no more bytes. The graceful flush-then-FIN that
  `#gracefulQuit` waits for does then not happen.

Seen while modelling, without a run of their own:

* Company of strangers. After two nicks fold into one the survivor may share no channel with us
  and stay in `users`, against the comment of `user()`: `al{` joins `#a{`, then `al[` joins `#a[`,
  then the casemapping becomes rfc1459. `#a{` and `al[` survive, `al[` counts as a member of
  `#a{` while it is pruned, and then the displaced `al{` is taken out of `#a{`. `NoLeftovers`
  therefore exempts a session in which two names have collided (`collided`).
* With `ReusesRefs = TRUE` TLC finds `RepliesAreRight` violated: a nested reference stays in
  `batchRefs` after its close, and collects an unrelated batch that takes it up. Whether a server may
  do that is not for this code to say.
* A request made by a handler of `disconnected` or `reconnecting` finds the queue of the attempt that has
  failed: its line is lost, and it waits for its timeout or the next disconnect, where
  `IrcClient.ts:567` promises a rejection as soon as the connection has dropped.
* A module that quits from inside its per-connection setup() is disconnected before the closure holds
  the teardown, which is then run by disposal only. A teardown that is async and rejects is not
  awaited, where `ModuleHost.ts:32` isolates every other.
* `buildMessage` checks parameters (`build.ts:48`), but not the fields of a source nor whether a command
  begins with `:` or `@`: such a message is read back as another. `Valid` in `Messages` excludes
  them. An empty host is not written, and read back as none.
* `setTopic` (`Channel.ts:166`) keeps the previous setter when the new topic has none, as one set by the
  server itself or a `331`: `topicSetBy` then names who set another topic.

## 6. What is abstracted

* Text, outside `Tokens` and `Messages`: nick strings (a number on the fallback walk), reasons, SASL
  payloads, realnames. `PASS` is not sent. In `Tokens` a byte stands for its class, and UTF-8 decoding
  is left out: chunks cut between characters.
* A handler of a consumer may quit() but not throw, and does not call back into anything else.
* A transport keeps its contract: `bytes$` completes only after a local close. `completeAttempt`
  is then unreachable before the teardown and is not an action.
* In `Store`, the fields of users and channels (account, host, away, topic, modes), WHO, batches
  and the delivery of events; the fields of users are in `Roster`, modes in `ChannelModes`, batches in
  `Conversation`. Lines come after `001`, and none after our own `QUIT`, as from
  any server. The user that the continuation of register() creates for a SASL account is not
  in it: without the stale nick above it is ourselves.
* Insertion orders of maps; order of tokens beyond the ceilings, where any choice is allowed.
* Time: timers may fire whenever they are armed; delays and backoff are not computed. Only the router
  has a clock, because limiter and cooldowns compare times; it never runs backwards.
* In `CommandRouter`: messages that `#prepare` refuses, which change nothing; the limiter is
  configured; ties and insertion order in the two tables, where any choice is allowed. A handler's
  own cooldowns (`ctx.cooldown`) share the table and are left out: they could evict, as any entry.
* In `Conversation`: a message is received in the step it is sent, what is lost with a connection being
  what was not sent; lines the client writes always go out. In `BotLifecycle`: what modules do on
  messages, and consumers other than modules.
* In `Inbound`: one channel whose members are known, no change of casemapping.
* In `Roster`: our own record is not changed by others; username and host are one field; one status;
  the folding of nicks, hosts and accounts, which `Store` has for nicks; a mask is the set of hosts it
  matches; KICK, which leaves the store of a PART behind; messages of a history batch, which are
  dispatched as if they were said now and would put old hosts and accounts on file.
* In `OutboundQueue`: what a line says, and so what `send` refuses for its form. A socket that is
  gone takes 0 bytes of a write; where Bun answers -1 the bytes kept are of no consequence, the
  socket being gone.

Not modelled at all: see the components in `PROJECT.json`, each with its reason.

## 7. Plan

In order of importance; all of these are written.

1. `Registration`, `LoginContract`, `SessionProofs`.
2. `Session` over `Registration`.
3. `Connection`, `LifecycleContract`, `ConnectionProofs`.
4. `Store`, and `Roster` over it.
5. `OutboundQueue` over `Transport`: in order, one end, nothing leaked.
6. `CommandRouter` over `Abuse`, with a discrete clock.
7. `BotLifecycle` over `ModuleHost`, with `BotContract`; the client enters through `LifecycleContract`.
8. `Conversation`: labeled requests, batches and keepalive.
9. `Inbound` over `Messages`, `Tokens` and `ChannelModes`, with `InboundContract`.

Left to model: topics and 324 of the dispatcher, autojoin, `chunkCaps` (a partition, which would
discharge `ChunkingAssumption`), glob matching, the WebAssembly backend.

Left to prove: that `parseMessage` undoes `buildMessage`, which would discharge most of `SpokenAssumption`, and
`ModesInSync`, which rests on it.
