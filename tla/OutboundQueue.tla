---------------------------- MODULE OutboundQueue ----------------------------
(***************************************************************************)
(* What leaves a connection: OutboundQueue, with its spacer and its bypass *)
(* for urgent lines, on top of a Transport, from the attempt that makes    *)
(* them to the teardown that closes them.  Lines are numbered as they are  *)
(* sent.  What send() refuses for its form is no step.                     *)
(***************************************************************************)
EXTENDS Transport

CONSTANTS
  MaxQueueDepth,  \* maxQueueDepth
  MaxLines        \* bound: lines of one behaviour

ASSUME QueueAssumption == MaxQueueDepth \in Nat \ {0} /\ MaxLines \in Nat

VARIABLES
  made,     \* was the queue constructed
  closed,   \* #closed
  pending,  \* #pending
  queue,    \* the lines concatMap holds back
  spacing,  \* is the timer behind the last line running
  sent,     \* lines so far, and with it the number of the last one
  written,  \* the lines handed to the transport, in order
  left      \* the number of our QUIT, 0 before

queueVars == <<made, closed, pending, queue, spacing, sent, written, left>>
vars == <<transport, queueVars>>

TypeOK ==
  /\ sock \in {"none", "open", "ended", "gone"}
  /\ promise \in {"none", "dialling", "upgrading", "resolved", "rejected"}
  /\ ready \in {"pending", "ok", "failed"}
  /\ bytesEnd \in {"open", "completed", "errored"} /\ closedEnd \in {"none", "local", "remote"}
  /\ {useTls, holds, closing, made, closed, spacing} \subseteq BOOLEAN
  /\ sent \in 0..MaxLines /\ left \in 0..MaxLines /\ pending \in 0..MaxQueueDepth
  /\ queue \in Seq(1..MaxLines) /\ written \in Seq(1..MaxLines)
  /\ wire \in Seq((1..MaxLines) \X {1, 2}) /\ pendingWrite \in Seq((1..MaxLines) \X {1, 2})

-----------------------------------------------------------------------------

\* The queue of an attempt, unless it was torn down or failed meanwhile.
MakeQueue ==
  /\ promise = "resolved" /\ ~made /\ ~closing /\ ~Settled
  /\ made' = TRUE
  /\ UNCHANGED <<transport, closed, pending, queue, spacing, sent, written, left>>

\* A line reaches the transport, unless the socket throws.
Hands(line) ==
  /\ \/ Write(line) /\ written' = Append(written, line)
     \/ UNCHANGED <<pendingWrite, wire, written>>
  /\ UNCHANGED dial

\* send(), when nothing holds it back: the subscriber runs at once.
SendsAtOnce ==
  /\ made /\ ~closed /\ sent < MaxLines /\ pending < MaxQueueDepth
  /\ ~spacing /\ spacing' = TRUE
  /\ sent' = sent + 1 /\ Hands(sent')
  /\ UNCHANGED <<made, closed, pending, queue, left>>

\* send(), behind the spacer; a full queue throws.
Queues ==
  /\ made /\ ~closed /\ sent < MaxLines /\ pending < MaxQueueDepth
  /\ spacing
  /\ sent' = sent + 1 /\ queue' = Append(queue, sent') /\ pending' = pending + 1
  /\ UNCHANGED <<transport, made, closed, spacing, written, left>>

\* Mutant: the pump waits for a socket that has taken everything.
SpacerElapses_Waits ==
  /\ spacing /\ ~closed
  /\ IF queue = <<>> THEN spacing' = FALSE /\ UNCHANGED <<transport, pending, queue, written>>
     ELSE /\ pendingWrite = <<>>
          /\ queue' = Tail(queue) /\ pending' = pending - 1 /\ Hands(Head(queue))
          /\ UNCHANGED spacing
  /\ UNCHANGED <<made, closed, sent, left>>

\* The timer completes: concatMap pulls the next line, and with it the next spacer.
SpacerElapses ==
  /\ spacing /\ ~closed
  /\ IF queue = <<>> THEN spacing' = FALSE /\ UNCHANGED <<transport, pending, queue, written>>
     ELSE /\ queue' = Tail(queue) /\ pending' = pending - 1 /\ Hands(Head(queue))
          /\ UNCHANGED spacing
  /\ UNCHANGED <<made, closed, sent, left>>

\* sendImmediate(): keepalive and the handshake.
SendsImmediate ==
  /\ made /\ ~closed /\ sent < MaxLines
  /\ sent' = sent + 1 /\ Hands(sent')
  /\ UNCHANGED <<made, closed, pending, queue, spacing, left>>

\* close() of the queue and of the transport, in the attempt's teardown.
ClosesBoth ==
  /\ closed' = TRUE /\ queue' = <<>>
  /\ Close /\ UNCHANGED <<useTls, holds, promise, ready>>
  /\ UNCHANGED <<made, pending, spacing>>

\* An attempt that failed, or is quit before it has a queue.
TearsDown ==
  /\ promise # "none" /\ ~closing
  /\ ClosesBoth
  /\ UNCHANGED <<pendingWrite, wire, sent, written, left>>

\* quit() of a client that is up: QUIT past the queue, then the teardown.
Quits ==
  /\ made /\ ~closed /\ sent < MaxLines
  /\ sent' = sent + 1 /\ left' = sent'
  /\ \/ Write(sent') /\ written' = Append(written, sent')
     \/ UNCHANGED <<pendingWrite, wire, written>>
  /\ ClosesBoth

-----------------------------------------------------------------------------

Init ==
  /\ TransportInit
  /\ made = FALSE /\ closed = FALSE /\ pending = 0 /\ queue = <<>> /\ spacing = FALSE
  /\ sent = 0 /\ written = <<>> /\ left = 0

Wires ==
  /\ ConnectCalled \/ SocketOpens \/ DialFails \/ ConnectContinues \/ ConnectSettles \/ Handshake \/ SocketEnds
       \/ DrainCalled
  /\ UNCHANGED queueVars

Next ==
  \/ Wires
  \/ MakeQueue \/ SendsAtOnce \/ Queues \/ SpacerElapses \/ SendsImmediate
  \/ TearsDown \/ Quits

\* Promises continue and timers fire; a socket we ended is reported closed.  A dial, a
\* handshake or a drain may never come.
Spec ==
  /\ Init /\ [][Next]_vars
  /\ WF_vars((ConnectContinues \/ ConnectSettles) /\ UNCHANGED queueVars)
  /\ WF_vars(SpacerElapses)
  /\ WF_vars(sock = "ended" /\ SocketEnds /\ UNCHANGED queueVars)
-----------------------------------------------------------------------------

AllBytes(lines) ==
  [i \in 1..(2 * Len(lines)) |-> <<lines[(i + 1) \div 2], 2 - (i % 2)>>]

\* No byte of an accepted line is lost, doubled or overtaken under backpressure: each is
\* on the wire or waits, in the order of the calls.
WireInOrder == wire \o pendingWrite = AllBytes(written)

\* The counter that bounds the queue counts the lines that wait in it.
QueueCounted == ~closed => pending = Len(queue) /\ Len(queue) <= MaxQueueDepth

\* closed$ and bytes$ tell the same end, once, and only a close() of ours is a local one.
EndsAgree ==
  /\ (bytesEnd = "open") = (closedEnd = "none")
  /\ bytesEnd = "completed" <=> closedEnd = "local"
  /\ closedEnd = "local" => closing

\* A socket that arrives after close() is not left open.
NoSocketLeaks == closing /\ promise \notin {"none", "dialling"} => sock # "open"

\* A close() is always followed by the end of the streams, also when no socket ever came,
\* and both streams tell the same end.  connect() does not outlive its socket: every way a
\* socket ends answers the caller.
CloseEnds ==
  /\ []EndsAgree
  /\ closing ~> Settled
  /\ sock = "gone" ~> promise \in {"resolved", "rejected"}

\* A line does not wait for ever behind the spacer, with or without backpressure, and
\* gives its place in the bounded queue back.
LinesMove ==
  /\ []QueueCounted
  /\ \A line \in 1..MaxLines :
       (\E i \in DOMAIN queue : queue[i] = line) ~> (\A i \in DOMAIN queue : queue[i] # line)

\* Bot.ts:309 calls sendImmediate(QUIT) and socket.end() a graceful flush-then-FIN: the
\* FIN of a quit leaves no accepted byte behind.
QuitFlushed == left # 0 /\ sock = "ended" => pendingWrite = <<>>
=============================================================================
