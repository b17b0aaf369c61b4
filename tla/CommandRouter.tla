---------------------------- MODULE CommandRouter ----------------------------
(***************************************************************************)
(* The command table of the bot and its bounded pipeline: how a command is *)
(* admitted, what admits it, and how the slot of its handler comes back.   *)
(* Handlers are the modules' own: one may settle at any time, or never.    *)
(* What #prepare refuses (no command, an ignored sender, a permission)     *)
(* changes nothing and is no step.  Clocks run together: `now` is the time *)
(* of the limiter and of the cooldowns.                                    *)
(***************************************************************************)
EXTENDS Abuse, Sequences

CONSTANTS
  Senders,      \* sender keys: account, hostmask or folded nick
  Entries,      \* command objects a module may add
  NamesOf,      \* entry -> its name and aliases
  CommandOf,    \* entry -> the name proper, by which its cooldown is kept
  CooldownMs,   \* entry -> cooldownMs, 0 for none
  Concurrency,  \* handlers in flight
  LogThrottle,  \* LOG_THROTTLE_MS
  NoEntry,
  MaxTime,      \* bound: the clock
  MaxRuns       \* bound: commands of one behaviour that were given a token

ASSUME RouterAssumption ==
  /\ DOMAIN NamesOf = Entries /\ \A e \in Entries : CommandOf[e] \in NamesOf[e]
  /\ CooldownMs \in [Entries -> Nat]
  /\ Concurrency \in Nat \ {0} /\ LogThrottle \in Nat
  /\ NoEntry \notin Entries
  /\ MaxTime \in Nat /\ MaxRuns \in Nat

Names == UNION {NamesOf[e] : e \in Entries}
LogKey == <<"log", "overloaded">>

VARIABLES
  byName,    \* #byName, NoEntry for a name that is free
  added,     \* the entries whose disposer was handed out
  inFlight,  \* #inFlight
  buckets,   \* the RateLimiter's
  until,     \* the Cooldowns'
  runs,      \* every command that was given a token, in order
  disposed,  \* did dispose() run
  now

vars == <<byName, added, inFlight, buckets, until, runs, disposed, now>>

\* "refused" is a command that got a token and then met its cooldown.  The router waits
\* for a handler that is "working"; "settled" is before the finalizer.
Phases == {"refused", "working", "settled", "done"}
Run    == [sender : Senders, entry : Entries, since : 0..MaxTime, phase : Phases]

TypeOK ==
  /\ byName \in [Names -> Entries \cup {NoEntry}] /\ added \subseteq Entries
  /\ inFlight \in 0..Concurrency
  /\ DOMAIN buckets \subseteq Senders /\ Size(buckets) <= MaxKeys
  /\ \A k \in DOMAIN buckets : buckets[k] \in [tokens : 0..Capacity, updated : 0..now]
  /\ DOMAIN until \subseteq (Senders \X Names) \cup {LogKey} /\ Size(until) <= MaxEntries
  /\ \A k \in DOMAIN until : until[k] \in Nat
  /\ runs \in Seq(Run) /\ Len(runs) <= MaxRuns
  /\ disposed \in BOOLEAN /\ now \in 0..MaxTime

Unfinished == {i \in DOMAIN runs : runs[i].phase \in {"working", "settled"}}

\* The key of a sender's cooldown for a command.
CooldownKey(s, e) == <<s, CommandOf[e]>>

-----------------------------------------------------------------------------
(* The command table.                                                      *)

\* Mutant: names are taken one by one until one is found in use.
Add_Piecemeal(e) ==
  /\ e \notin added /\ added' = added \cup {e}
  /\ byName' = [n \in Names |-> IF n \in NamesOf[e] /\ byName[n] = NoEntry THEN e ELSE byName[n]]
  /\ UNCHANGED <<inFlight, buckets, until, runs, disposed, now>>

\* add(): all its names, or an exception and none.
Add(e) ==
  /\ e \notin added /\ \A n \in NamesOf[e] : byName[n] = NoEntry
  /\ added' = added \cup {e}
  /\ byName' = [n \in Names |-> IF n \in NamesOf[e] THEN e ELSE byName[n]]
  /\ UNCHANGED <<inFlight, buckets, until, runs, disposed, now>>

\* Mutant: whoever holds the name now loses it.
Remove_Blind(e) ==
  /\ e \in added
  /\ byName' = [n \in Names |-> IF n \in NamesOf[e] THEN NoEntry ELSE byName[n]]
  /\ UNCHANGED <<added, inFlight, buckets, until, runs, disposed, now>>

\* The disposer of add(): at any time, and again, also when the name has a new owner.
Remove(e) ==
  /\ e \in added
  /\ byName' = [n \in Names |-> IF byName[n] = e THEN NoEntry ELSE byName[n]]
  /\ UNCHANGED <<added, inFlight, buckets, until, runs, disposed, now>>

-----------------------------------------------------------------------------
(* #admit, for a message of s that #prepare resolved to entry e.           *)

Resolved(e) == ~disposed /\ \E n \in NamesOf[e] : byName[n] = e

\* Every slot is taken: the warning is throttled by the same table of cooldowns.
Overloaded(s, e) ==
  /\ Resolved(e) /\ inFlight >= Concurrency
  /\ until' \in IF Cooling(until, LogKey, now) THEN {until} ELSE Armed(until, LogKey, LogThrottle, now)
  /\ UNCHANGED <<byName, added, inFlight, buckets, runs, disposed, now>>

RateLimited(s, e) ==
  /\ Resolved(e) /\ inFlight < Concurrency
  /\ buckets' \in BucketsReady(buckets, s, now) /\ buckets'[s].tokens <= 0
  /\ UNCHANGED <<byName, added, inFlight, until, runs, disposed, now>>

\* tryConsume() takes a token; the bound of the model is on these.
TakesToken(s, e, phase) ==
  /\ Resolved(e) /\ inFlight < Concurrency /\ Len(runs) < MaxRuns
  /\ \E t \in BucketsReady(buckets, s, now) :
       t[s].tokens > 0 /\ buckets' = [t EXCEPT ![s].tokens = @ - 1]
  /\ runs' = Append(runs, [sender |-> s, entry |-> e, since |-> now, phase |-> phase])
  /\ UNCHANGED <<byName, added, disposed, now>>

OnCooldown(s, e) ==
  /\ CooldownMs[e] > 0 /\ Cooling(until, CooldownKey(s, e), now)
  /\ TakesToken(s, e, "refused")
  /\ UNCHANGED <<inFlight, until>>

\* The handler is invoked; what it does before its first await is part of the step.
Admitted(s, e) ==
  /\ TakesToken(s, e, "working")
  /\ inFlight' = inFlight + 1
  /\ IF CooldownMs[e] = 0 THEN UNCHANGED until
     ELSE ~Cooling(until, CooldownKey(s, e), now)
          /\ until' \in Armed(until, CooldownKey(s, e), CooldownMs[e], now)

-----------------------------------------------------------------------------
(* The way out: the handler, the timeout and dispose() race.               *)

\* #runWithTimeout settles once, and the later of the two finds it settled: no step.
Settles(i) ==
  /\ runs[i].phase = "working"
  /\ runs' = [runs EXCEPT ![i].phase = "settled"]
  /\ UNCHANGED <<byName, added, inFlight, buckets, until, disposed, now>>

\* The handler's promise: some time, or never.
HandlerSettles(i) == Settles(i)

\* Mutant: the timer aborts the signal and leaves it to the handler to settle.
TimesOut_AbortOnly(i) == runs[i].phase = "working" /\ UNCHANGED vars

\* The timer aborts the signal and rejects.
TimesOut(i) == Settles(i)

\* Mutant: the slot is given back once more than dispose() did.
Finalizes_Again(i) ==
  /\ runs[i].phase = "settled"
  /\ runs' = [runs EXCEPT ![i].phase = "done"]
  /\ inFlight' = inFlight - 1
  /\ UNCHANGED <<byName, added, buckets, until, disposed, now>>

\* The continuation of #run, and the finalizer unless dispose() has run it already.
Finalizes(i) ==
  /\ runs[i].phase = "settled"
  /\ runs' = [runs EXCEPT ![i].phase = "done"]
  /\ inFlight' = IF disposed THEN inFlight ELSE inFlight - 1
  /\ UNCHANGED <<byName, added, buckets, until, disposed, now>>

\* dispose(): every inner subscription ends, and its finalizer runs.
Dispose ==
  /\ ~disposed /\ disposed' = TRUE
  /\ byName' = [n \in Names |-> NoEntry]
  /\ inFlight' = inFlight - Cardinality(Unfinished)
  /\ UNCHANGED <<added, buckets, until, runs, now>>

Tick ==
  /\ now < MaxTime /\ now' = now + 1
  /\ UNCHANGED <<byName, added, inFlight, buckets, until, runs, disposed>>

-----------------------------------------------------------------------------

Init ==
  /\ byName = [n \in Names |-> NoEntry] /\ added = {}
  /\ inFlight = 0 /\ buckets = <<>> /\ until = <<>>
  /\ runs = <<>> /\ disposed = FALSE /\ now = 0

Next ==
  \/ \E e \in Entries : Add(e) \/ Remove(e)
  \/ \E s \in Senders, e \in Entries :
       Overloaded(s, e) \/ RateLimited(s, e) \/ OnCooldown(s, e) \/ Admitted(s, e)
  \/ \E i \in DOMAIN runs : HandlerSettles(i) \/ TimesOut(i) \/ Finalizes(i)
  \/ Dispose \/ Tick

\* A timer that is due is run, and so is the continuation of a settled promise.
Spec ==
  /\ Init /\ [][Next]_vars
  /\ \A i \in 1..MaxRuns : WF_vars(i \in DOMAIN runs /\ (TimesOut(i) \/ Finalizes(i)))
-----------------------------------------------------------------------------

\* Every handler the router waits for holds one slot, and dispose() returns them all:
\* timeout, a late answer and dispose() never give one back twice, or not at all.
SlotsMatch == inFlight = IF disposed THEN 0 ELSE Cardinality(Unfinished)

\* A command answers to all of its names or to none, whatever disposers are called again
\* after a name has changed hands.
WholeEntries ==
  \A e \in Entries : {n \in NamesOf[e] : byName[n] = e} \in {{}, NamesOf[e]}

\* The senders whose bucket may be short of a token when run m takes one.
Busy(m) ==
  {runs[k].sender : k \in {k \in 1..m : runs[m].since - runs[k].since < Capacity * RefillMs}}

\* No sender gets more than a burst and one token per refillMs in any stretch of time,
\* unless there were more busy senders than buckets.
RateHolds ==
  \A i \in DOMAIN runs : \A j \in i..Len(runs) :
    (\A m \in i..j : Cardinality(Busy(m)) <= MaxKeys) =>
      Cardinality({k \in i..j : runs[k].sender = runs[j].sender})
        <= Capacity + (runs[j].since - runs[i].since + RefillMs - 1) \div RefillMs

Arms(i)   == runs[i].phase # "refused" /\ CooldownMs[runs[i].entry] > 0
KeyOf(i)  == CooldownKey(runs[i].sender, runs[i].entry)
EndsAt(i) == runs[i].since + CooldownMs[runs[i].entry]

\* The cooldowns in force behind run m.
InForce(m) == {KeyOf(k) : k \in {k \in 1..m : Arms(k) /\ EndsAt(k) > runs[m].since}}

\* A cooldown is honoured, unless more of them were in force than the table holds beside
\* the router's own log throttle: expired entries never cost a live one its place.
NoEarlyRepeat ==
  \A j \in DOMAIN runs : \A i \in 1..(j - 1) :
    /\ Arms(i) /\ Arms(j) /\ KeyOf(i) = KeyOf(j)
    /\ \A m \in i..(j - 1) : Cardinality(InForce(m)) < MaxEntries
    => runs[j].since >= EndsAt(i)

\* A cooldown stems from a command that was run: one dropped for any reason costs none.
CooldownsAreEarned ==
  \A k \in DOMAIN until \ {LogKey} :
    \E i \in DOMAIN runs : Arms(i) /\ KeyOf(i) = k /\ EndsAt(i) = until[k]

\* A command that was run is not run again too early, and nothing else starts a cooldown.
CooldownsHold == NoEarlyRepeat /\ CooldownsAreEarned

\* A handler that hangs does not keep its slot: the timeout sees to that.
SlotsFreed == \A i \in 1..MaxRuns : i \in Unfinished ~> i \notin Unfinished
=============================================================================
