---------------------------- MODULE Conversation ----------------------------
(***************************************************************************)
(* A registered client talking with its server: labeled requests            *)
(* (sendLabeled), the batches both sendLabeled and the dispatcher take      *)
(* apart, and keepalive.  Everything hears the same messages: a request     *)
(* settles on its reply, its timeout, a disconnect or quit(), whichever is  *)
(* first, and keepalive turns silence into a disconnect.                    *)
(*                                                                         *)
(* The server keeps to labeled-response and batch: it answers a request by *)
(* an ACK, one line or one batch, in any order and interleaved with other  *)
(* traffic, or not at all.  A message is received in the step it is sent:  *)
(* one lost with the connection is one the server has not sent.            *)
(***************************************************************************)
EXTENDS Naturals, Sequences, FiniteSets

CONSTANTS
  Requests,        \* calls of sendLabeled, each with a label of its own: #labelCounter
  Timed,           \* those with a finite, positive timeoutMs
  Refs,            \* batch references
  ReusesRefs,      \* may the server reuse a nested reference while the reply is still open
  MaxMessages,     \* MAX_LABELED_MESSAGES
  MaxBatches,      \* MAX_LABELED_BATCHES
  MaxOpen,         \* MAX_OPEN_BATCHES
  MaxInBatch,      \* MAX_BATCH_MESSAGES
  Interval,        \* pingIntervalMs, in ticks
  Window,          \* pingTimeoutMs
  MaxConnections,  \* bound: connections of one behaviour
  MaxSaid          \* bound: lines of one reply, or of one batch

ASSUME ConversationAssumption ==
  /\ {MaxMessages, MaxBatches, MaxOpen, MaxInBatch, MaxSaid} \subseteq Nat
  /\ {Interval, Window, MaxConnections} \subseteq Nat \ {0}
  /\ Timed \subseteq Requests /\ ReusesRefs \in BOOLEAN

Nobody == "nobody"  \* no request, and no reference

ASSUME NobodyAssumption == Nobody \notin Requests \cup Refs

VARIABLES
  conn,      \* "up", "dropping" (handlers are told), "down" or "closed"
  epoch,     \* the number of the connection
  request,   \* per request: sendLabeled's locals, and the promise
  batches,   \* the dispatcher's open batches: the lines of each so far
  surfaced,  \* the batch event of the last message, and the lines it should have
  idle,      \* keepalive: ticks since the idle countdown or the window began
  pinged,    \* is the response window open
  silence,   \* ticks since the last message, or the connection
  alarm,     \* history: the silence for which keepalive failed the attempt, or 0
  asked,     \* the server: the requests it gets to read on this connection
  open,      \* the server: the references of its open batches
  owner,     \* the server: the request in whose reply a reference is used, or Nobody
  top,       \* the server: the outermost reference of a reply, or Nobody
  said,      \* the server: the lines of each reply so far
  answered,  \* the server: the requests it has finished answering
  inBatch    \* the server: the lines of each open batch so far

keepalive == <<idle, pinged, silence, alarm>>
server    == <<asked, open, owner, top, said, answered, inBatch>>
vars      == <<conn, epoch, request, batches, surfaced, keepalive, server>>

Pending  == {r \in Requests : request[r].status \in {"awaiting", "collecting"}}
Settled(r) == request[r].status \in {"resolved", "rejected"}

TypeOK ==
  /\ conn \in {"up", "dropping", "down", "closed"} /\ epoch \in 1..MaxConnections
  /\ \A r \in Requests :
       /\ request[r].status \in {"none", "awaiting", "collecting", "resolved", "rejected"}
       /\ request[r].refs \subseteq Refs
  /\ DOMAIN batches \subseteq Refs
  /\ idle \in Nat /\ silence \in Nat /\ alarm \in Nat /\ pinged \in BOOLEAN

-----------------------------------------------------------------------------
(* sendLabeled.                                                            *)

Unasked == [status |-> "none", born |-> 0, late |-> FALSE,
            topRef |-> Nobody, refs |-> {}, collected |-> <<>>]

\* finish(): the first to settle wins and unsubscribes; only a result outlives it.
Rejected    == [Unasked EXCEPT !.status = "rejected"]
Resolved(s) == [Unasked EXCEPT !.status = "resolved", !.collected = s]

\* Awaiting the one labeled reply.
Awaits(q, r, m) ==
  IF m.label # r THEN q
  ELSE IF m.command = "ACK" THEN Resolved(<<>>)
  ELSE IF m.command = "+" THEN [q EXCEPT !.status = "collecting", !.topRef = m.ref,
                                         !.refs = {m.ref}]
  ELSE Resolved(<<m.part>>)

\* Mutant: the contents of nested batches are lost.
Collects_Flat(q, m) ==
  IF m.command = "-" /\ m.ref = q.topRef THEN Resolved(q.collected)
  ELSE IF m.batch \notin q.refs THEN q
  ELSE IF Len(q.collected) >= MaxMessages THEN Rejected
  ELSE [q EXCEPT !.collected = Append(@, m.part)]

\* Inside the labeled batch, within the two caps.
Collects(q, m) ==
  IF m.command = "-" /\ m.ref = q.topRef THEN Resolved(q.collected)
  ELSE IF m.batch \notin q.refs THEN q
  ELSE IF Len(q.collected) >= MaxMessages \/ Cardinality(q.refs) > MaxBatches
       THEN Rejected
  ELSE [q EXCEPT !.collected = Append(@, m.part),
                 !.refs = IF m.command = "+" THEN @ \cup {m.ref} ELSE @]

Replied(m) ==
  [r \in Requests |-> CASE request[r].status = "awaiting"   -> Awaits(request[r], r, m)
                        [] request[r].status = "collecting" -> Collects(request[r], m)
                        [] OTHER                            -> request[r]]

\* The guards have passed: the capability is enabled and there is a queue, as there still
\* is while handlers are told that the connection has dropped.  send() may throw.
Asks(r) ==
  /\ conn \in {"up", "dropping"} /\ request[r].status = "none"
  /\ \/ /\ request' = [request EXCEPT ![r] = [Unasked EXCEPT
                        !.status = "awaiting", !.born = epoch, !.late = (conn = "dropping")]]
        /\ asked' = IF conn = "up" THEN asked \cup {r} ELSE asked
     \/ request' = [request EXCEPT ![r] = Rejected] /\ UNCHANGED asked
  /\ UNCHANGED <<conn, epoch, batches, surfaced, keepalive, open, owner, top, said, answered,
                 inBatch>>

\* Mutant: only a request that nothing has been heard of yet times out.
TimesOut_Awaiting(r) ==
  /\ request[r].status = "awaiting" /\ r \in Timed
  /\ request' = [request EXCEPT ![r] = Rejected]
  /\ UNCHANGED <<conn, epoch, batches, surfaced, keepalive, server>>

\* Armed only if timeoutMs is finite and positive.
TimesOut(r) ==
  /\ r \in Pending /\ r \in Timed
  /\ request' = [request EXCEPT ![r] = Rejected]
  /\ UNCHANGED <<conn, epoch, batches, surfaced, keepalive, server>>

-----------------------------------------------------------------------------
(* The dispatcher's batches, and what a message does to all of the client. *)

\* Mutant: a line without an open batch of its own goes to all of them.
Gathered_All(m) ==
  [b \in DOMAIN batches |-> IF Len(batches[b]) < MaxInBatch THEN Append(batches[b], m.nth)
                            ELSE batches[b]]

\* A line of an open batch is kept for its event, up to the cap.
Gathered(m) ==
  IF m.batch \in DOMAIN batches /\ Len(batches[m.batch]) < MaxInBatch
  THEN [batches EXCEPT ![m.batch] = Append(@, m.nth)] ELSE batches

NoEvent == [lines |-> <<>>, meant |-> 0]

\* Open within the cap, close with an event if it is known.
Dispatches(m) ==
  LET gathered == Gathered(m) IN
  CASE m.command = "+" /\ Cardinality(DOMAIN batches) < MaxOpen ->
         /\ batches' = [b \in DOMAIN batches \cup {m.ref} |-> IF b = m.ref THEN <<>>
                                                              ELSE gathered[b]]
         /\ surfaced' = NoEvent
    [] m.command = "-" /\ m.ref \in DOMAIN batches ->
         /\ batches' = [b \in DOMAIN batches \ {m.ref} |-> gathered[b]]
         /\ surfaced' = [lines |-> gathered[m.ref], meant |-> inBatch[m.ref]]
    [] OTHER -> batches' = gathered /\ surfaced' = NoEvent

\* Mutant: an open response window is not cancelled, only the idle countdown.
Resets_IdleOnly ==
  /\ idle' = IF pinged THEN idle ELSE 0
  /\ silence' = 0
  /\ UNCHANGED <<pinged, alarm>>

\* switchMap: the countdown starts over, and the window of an outstanding ping is gone.
Resets == idle' = 0 /\ pinged' = FALSE /\ silence' = 0 /\ UNCHANGED alarm

Hears(m) ==
  /\ conn = "up"
  /\ request' = Replied(m)
  /\ Dispatches(m)
  /\ Resets
  /\ UNCHANGED <<conn, epoch>>

-----------------------------------------------------------------------------
(* The server.  `part` is a line's place in the reply to `label` or in the  *)
(* reply its batch belongs to, `nth` its place in its batch.               *)

Line(command, label, ref, batch, of) ==
  [command |-> command, label |-> label, ref |-> ref, batch |-> batch,
   part |-> IF of = Nobody THEN <<Nobody, 0>> ELSE <<of, said[of] + 1>>,
   nth |-> IF batch = Nobody THEN 0 ELSE inBatch[batch] + 1]

\* The server cannot tell whether a request is still waited for.
Unread(r) == r \in asked \ answered /\ top[r] = Nobody

Of(r)    == {b \in open : owner[b] = r}
Unused   == {b \in Refs \ open : ReusesRefs \/ owner[b] = Nobody}
InBatch(batch) == [inBatch EXCEPT ![batch] = @ + 1]
Says(of)       == [said EXCEPT ![of] = @ + 1]

AnswersAck(r) ==
  /\ Unread(r) /\ Hears(Line("ACK", r, Nobody, Nobody, r))
  /\ answered' = answered \cup {r}
  /\ UNCHANGED <<asked, open, owner, top, said, inBatch>>

AnswersLine(r) ==
  /\ Unread(r) /\ Hears(Line("line", r, Nobody, Nobody, r))
  /\ answered' = answered \cup {r} /\ said' = Says(r)
  /\ UNCHANGED <<asked, open, owner, top, inBatch>>

AnswersBatch(r, b) ==
  /\ Unread(r) /\ b \in Unused /\ Hears(Line("+", r, b, Nobody, Nobody))
  /\ open' = open \cup {b} /\ owner' = [owner EXCEPT ![b] = r] /\ top' = [top EXCEPT ![r] = b]
  /\ UNCHANGED <<asked, said, answered, inBatch>>

\* A line of the reply, in the outermost batch or a nested one.
AnswersMore(r, b) ==
  /\ b \in Of(r) /\ said[r] < MaxSaid /\ Hears(Line("line", Nobody, Nobody, b, r))
  /\ said' = Says(r) /\ inBatch' = InBatch(b)
  /\ UNCHANGED <<asked, open, owner, top, answered>>

Nests(r, b, c) ==
  /\ b \in Of(r) /\ c \in Unused /\ said[r] < MaxSaid
  /\ Hears(Line("+", Nobody, c, b, r))
  /\ said' = Says(r) /\ inBatch' = InBatch(b)
  /\ open' = open \cup {c} /\ owner' = [owner EXCEPT ![c] = r]
  /\ UNCHANGED <<asked, top, answered>>

\* A nested batch may close with or without the tag of the one around it.  Its reference
\* is only used again when the reply has ended, unless the server reuses references.
Unnests(r, b, c) ==
  /\ {b, c} \subseteq Of(r) /\ b # c /\ c # top[r]
  /\ \/ /\ said[r] < MaxSaid /\ Hears(Line("-", Nobody, c, b, r))
        /\ said' = Says(r) /\ inBatch' = [InBatch(b) EXCEPT ![c] = 0]
     \/ /\ Hears(Line("-", Nobody, c, Nobody, Nobody))
        /\ inBatch' = [inBatch EXCEPT ![c] = 0] /\ UNCHANGED said
  /\ open' = open \ {c}
  /\ UNCHANGED <<asked, owner, top, answered>>

\* The outermost batch closes last, and the reply is complete.
Closes(r) ==
  /\ top[r] # Nobody /\ Of(r) = {top[r]}
  /\ Hears(Line("-", Nobody, top[r], Nobody, Nobody))
  /\ open' = open \ {top[r]}
  /\ owner' = [b \in Refs |-> IF owner[b] = r THEN Nobody ELSE owner[b]]
  /\ top' = [top EXCEPT ![r] = Nobody] /\ inBatch' = [inBatch EXCEPT ![top[r]] = 0]
  /\ answered' = answered \cup {r}
  /\ UNCHANGED <<asked, said>>

\* What else there is to say: a plain line, and batches that answer nobody.
Chats ==
  \/ Hears(Line("line", Nobody, Nobody, Nobody, Nobody)) /\ UNCHANGED server
  \/ \E b \in Unused :
       /\ Hears(Line("+", Nobody, b, Nobody, Nobody))
       /\ open' = open \cup {b} /\ owner' = [owner EXCEPT ![b] = Nobody]
       /\ UNCHANGED <<asked, top, said, answered, inBatch>>
  \/ \E b \in Of(Nobody) :
       \/ /\ inBatch[b] < MaxInBatch /\ Hears(Line("line", Nobody, Nobody, b, Nobody))
          /\ inBatch' = InBatch(b) /\ UNCHANGED <<asked, open, owner, top, said, answered>>
       \/ /\ Hears(Line("-", Nobody, b, Nobody, Nobody))
          /\ open' = open \ {b} /\ inBatch' = [inBatch EXCEPT ![b] = 0]
          /\ UNCHANGED <<asked, owner, top, said, answered>>

-----------------------------------------------------------------------------
(* The connection and its keepalive.                                       *)

\* The server's side of a connection ends with it.
NoServer ==
  /\ asked' = {} /\ open' = {} /\ owner' = [b \in Refs |-> Nobody]
  /\ top' = [r \in Requests |-> Nobody] /\ inBatch' = [b \in Refs |-> 0]
  /\ said' = [r \in Requests |-> IF r \in answered THEN said[r] ELSE 0]
  /\ UNCHANGED answered

\* Every pending request hears of a disconnect, or of the end of the streams.
RejectsAll ==
  request' = [r \in Requests |-> IF r \in Pending THEN Rejected
                                 ELSE request[r]]

\* failAttempt: the handlers of "disconnected" and "reconnecting" run.
Drops ==
  /\ conn = "up" /\ conn' = "dropping"
  /\ RejectsAll /\ NoServer
  /\ UNCHANGED <<epoch, batches, surfaced>>

ConnectionLost == Drops /\ UNCHANGED keepalive

\* Ping after an idle interval, and the window opens; a write that throws is a drop.
Pings ==
  /\ conn = "up" /\ ~pinged /\ idle >= Interval
  /\ \/ /\ pinged' = TRUE /\ idle' = 0
        /\ UNCHANGED <<conn, epoch, request, batches, surfaced, silence, alarm, server>>
     \/ Drops /\ UNCHANGED keepalive

WindowElapses ==
  /\ conn = "up" /\ pinged /\ idle >= Window
  /\ Drops /\ alarm' = silence
  /\ UNCHANGED <<idle, pinged, silence>>

\* Time passes; a timer that is due is run before the next tick.
Tick ==
  /\ conn = "up" /\ idle < (IF pinged THEN Window ELSE Interval)
  /\ idle' = idle + 1 /\ silence' = silence + 1
  /\ UNCHANGED <<conn, epoch, request, batches, surfaced, pinged, alarm, server>>

\* The teardown of the attempt; the next one starts with a dispatcher of its own.
BacksOff ==
  /\ conn = "dropping" /\ conn' = "down"
  /\ UNCHANGED <<epoch, request, batches, surfaced, keepalive, server>>

Reconnects ==
  /\ conn = "down" /\ epoch < MaxConnections
  /\ conn' = "up" /\ epoch' = epoch + 1
  /\ batches' = <<>> /\ idle' = 0 /\ pinged' = FALSE /\ silence' = 0 /\ alarm' = 0
  /\ UNCHANGED <<request, surfaced, server>>

\* quit(), or retries are exhausted: #shutdown completes what pending requests listen to.
ShutsDown ==
  /\ conn # "closed" /\ conn' = "closed"
  /\ RejectsAll /\ NoServer
  /\ UNCHANGED <<epoch, batches, surfaced, keepalive>>

-----------------------------------------------------------------------------

Init ==
  /\ conn = "up" /\ epoch = 1
  /\ request = [r \in Requests |-> Unasked]
  /\ batches = <<>> /\ surfaced = NoEvent
  /\ idle = 0 /\ pinged = FALSE /\ silence = 0 /\ alarm = 0
  /\ asked = {} /\ open = {} /\ owner = [b \in Refs |-> Nobody] /\ top = [r \in Requests |-> Nobody]
  /\ said = [r \in Requests |-> 0] /\ answered = {} /\ inBatch = [b \in Refs |-> 0]

ServerSpeaks ==
  \/ Chats
  \/ \E r \in Requests :
       \/ AnswersAck(r) \/ AnswersLine(r) \/ Closes(r)
       \/ \E b \in Refs :
            \/ AnswersBatch(r, b) \/ AnswersMore(r, b)
            \/ \E c \in Refs : Nests(r, b, c) \/ Unnests(r, b, c)

Next ==
  \/ ServerSpeaks \/ \E r \in Requests : Asks(r) \/ TimesOut(r)
  \/ ConnectionLost \/ Pings \/ WindowElapses \/ Tick
  \/ BacksOff \/ Reconnects \/ ShutsDown

\* Time passes and a timer that is armed fires some time; the server owes nothing.
Spec ==
  /\ Init /\ [][Next]_vars
  /\ \A r \in Timed : WF_vars(TimesOut(r))
  /\ WF_vars(Tick \/ Pings \/ WindowElapses)

-----------------------------------------------------------------------------

\* A request resolves with the server's reply to it, the whole of it and nothing else,
\* however replies, their nested batches and other traffic interleave.
RepliesAreRight ==
  \A r \in Requests : request[r].status = "resolved" =>
    /\ r \in answered
    /\ request[r].collected = [i \in 1..said[r] |-> <<r, i>>]

\* A batch event has the lines of its batch, in order, from the first on.
BatchesAreWhole ==
  surfaced.lines = [i \in 1..(IF surfaced.meant < MaxInBatch THEN surfaced.meant
                              ELSE MaxInBatch) |-> i]

\* Keepalive measures silence: no connection outlives an interval and a window of it, and
\* none is failed that was heard of within them.
SilenceIsMeasured ==
  /\ conn = "up" => silence <= Interval + Window
  /\ alarm # 0 => alarm >= Interval + Window

\* Between tasks a request that is pending belongs to the connection that is up.  The one
\* exception is made in a handler of "disconnected" or "reconnecting": it passed the guards,
\* its line is lost, and only its timer or the next disconnect will settle it.
PendingAreLive ==
  conn # "dropping" => \A r \in Pending :
    \/ conn = "up" /\ request[r].born = epoch
    \/ conn # "closed" /\ request[r].late

\* No request outlives its connection, but for that one exception.  One with a timeout
\* settles, whatever else happens: its line lost, its reply half sent, the connection
\* dropped and made again.  One without does not wait on a connection that has gone silent.
RequestsSettle ==
  /\ []PendingAreLive
  /\ \A r \in Timed : r \in Pending ~> Settled(r)
  /\ \A r \in Requests \ Timed :
       (r \in Pending /\ ~request[r].late /\ silence > 0) ~> (Settled(r) \/ silence = 0)
=============================================================================
