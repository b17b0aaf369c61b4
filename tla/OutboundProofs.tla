---------------------------- MODULE OutboundProofs ----------------------------
(***************************************************************************)
(* What OutboundQueue and the Transport under it keep for every depth of   *)
(* the queue and every number of lines, however the socket takes them: the *)
(* bytes stay in order, the counter counts the queue, the streams end      *)
(* together, and no socket is left open behind a close().                  *)
(***************************************************************************)
EXTENDS OutboundQueue, SequenceTheorems, TLAPS

Line == 1..MaxLines
Byte == Line \X {1, 2}

\* Where the socket is in the course of connect(), and what close() has made of it.
Sockets ==
  /\ promise = "none" => sock = "none" /\ ~closing
  /\ promise \in {"none", "dialling"} => ~holds
  /\ promise \in {"upgrading", "resolved"} => holds
  /\ promise = "rejected" => holds \/ sock = "gone"
  /\ closing /\ holds => sock # "open"
  /\ made => promise = "resolved"

\* The queue closes with the transport, and drops what it held.
ClosedTogether == closed = closing /\ (closed => queue = <<>>)

\* TypeOK in three parts: the transport's state, the lines, and the bytes of them.
FlagsTyped ==
  /\ sock \in {"none", "open", "ended", "gone"}
  /\ promise \in {"none", "dialling", "upgrading", "resolved", "rejected"}
  /\ ready \in {"pending", "ok", "failed"}
  /\ bytesEnd \in {"open", "completed", "errored"} /\ closedEnd \in {"none", "local", "remote"}
  /\ {useTls, holds, closing, made, closed, spacing} \subseteq BOOLEAN

LinesTyped ==
  /\ sent \in 0..MaxLines /\ left \in 0..MaxLines /\ pending \in 0..MaxQueueDepth
  /\ queue \in Seq(Line)

BytesTyped == wire \in Seq(Byte) /\ pendingWrite \in Seq(Byte) /\ written \in Seq(Line)

\* What connect() and close() do to the transport, apart from the bytes.
DialInv == FlagsTyped /\ Sockets /\ EndsAgree

IInv == DialInv /\ LinesTyped /\ BytesTyped /\ ClosedTogether /\ QueueCounted /\ WireInOrder

-----------------------------------------------------------------------------
(* Bytes.                                                                  *)

\* A line is two bytes of the wire.
LEMMA BytesOfLine ==
  ASSUME NEW line \in Line
  PROVE  Bytes(line) \in Seq(Byte) /\ Len(Bytes(line)) = 2
BY DEF Bytes, Byte

\* What the socket takes of a write and what is kept for the drain make up the write.
LEMMA SplitJoins ==
  ASSUME NEW S, NEW s \in Seq(S), NEW n \in 0..Len(s)
  PROVE  Keep(s, n) \in Seq(S) /\ Drop(s, n) \in Seq(S) /\ Keep(s, n) \o Drop(s, n) = s
<1>1. Len(s) \in Nat /\ \A i \in 1..Len(s) : s[i] \in S
  BY ElementOfSeq, LenProperties
<1>2. SubSeq(s, 1, n) \in Seq(S)
  BY <1>1, SubSeqProperties
<1>3. SubSeq(s, n + 1, Len(s)) \in Seq(S)
  <2>1. n + 1 \in Int /\ Len(s) \in Int /\ \A i \in (n + 1)..Len(s) : s[i] \in S
    BY <1>1
  <2> QED
    BY <2>1, SubSeqProperties
<1>4. SubSeq(s, 1, n) \o SubSeq(s, n + 1, Len(s)) = SubSeq(s, 1, Len(s))
  <2>1. 1 \in 1..(Len(s) + 1) /\ n \in (1 - 1)..Len(s) /\ Len(s) \in n..Len(s)
    BY <1>1
  <2> QED
    BY <2>1, ConcatAdjacentSubSeq
<1>5. SubSeq(s, 1, Len(s)) = s
  BY SubSeqFull
<1> QED
  BY <1>2, <1>3, <1>4, <1>5 DEF Keep, Drop

\* The same behind what is on the wire already.
LEMMA SplitBehind ==
  ASSUME NEW S, NEW w \in Seq(S), NEW s \in Seq(S), NEW n \in 0..Len(s)
  PROVE  /\ w \o Keep(s, n) \in Seq(S) /\ Drop(s, n) \in Seq(S)
         /\ (w \o Keep(s, n)) \o Drop(s, n) = w \o s
<1>1. ASSUME NEW front \in Seq(S), NEW rest \in Seq(S), front \o rest = s
      PROVE  w \o front \in Seq(S) /\ (w \o front) \o rest = w \o s
  <2>1. (w \o front) \o rest = w \o (front \o rest)
    BY ConcatAssociative
  <2> QED
    BY <1>1, <2>1, ConcatProperties
<1>2. Keep(s, n) \in Seq(S) /\ Drop(s, n) \in Seq(S) /\ Keep(s, n) \o Drop(s, n) = s
  BY SplitJoins
<1> QED
  BY <1>1, <1>2

\* A function on 1..m is a sequence of length m.
LEMMA FunctionIsSeq ==
  ASSUME NEW S, NEW m \in Nat, NEW f \in [1..m -> S]
  PROVE  f \in Seq(S) /\ Len(f) = m
OBVIOUS

\* The bytes of one more line come behind the bytes of the lines before it.
LEMMA BytesOfAppend ==
  ASSUME NEW lines \in Seq(Line), NEW line \in Line
  PROVE  /\ AllBytes(lines) \in Seq(Byte)
         /\ AllBytes(Append(lines, line)) = AllBytes(lines) \o Bytes(line)
<1> DEFINE n == Len(lines)
           more == Append(lines, line)
           both == AllBytes(lines) \o Bytes(line)
<1>1. n \in Nat /\ \A i \in 1..n : lines[i] \in Line
  BY LenProperties, ElementOfSeq
<1>2. Len(more) = n + 1 /\ more[n + 1] = line /\ \A i \in 1..n : more[i] = lines[i] /\ more[i] \in Line
  BY <1>1, AppendProperties
<1>3. AllBytes(lines) \in Seq(Byte) /\ Len(AllBytes(lines)) = 2 * n
  <2>1. \A i \in 1..(2 * n) : (i + 1) \div 2 \in 1..n /\ 2 - (i % 2) \in {1, 2}
    BY <1>1
  <2>2. \A i \in 1..(2 * n) : <<lines[(i + 1) \div 2], 2 - (i % 2)>> \in Byte
    BY <1>1, <2>1 DEF Byte
  <2>3. AllBytes(lines) \in [1..(2 * n) -> Byte] /\ 2 * n \in Nat
    BY <1>1, <2>2 DEF AllBytes
  <2> QED
    BY <2>3, FunctionIsSeq
<1>4. AllBytes(more) \in Seq(Byte) /\ Len(AllBytes(more)) = 2 * n + 2
  <2>1. \A i \in 1..(2 * (n + 1)) : (i + 1) \div 2 \in 1..(n + 1) /\ 2 - (i % 2) \in {1, 2}
    BY <1>1
  <2>2. \A i \in 1..(n + 1) : more[i] \in Line
    BY <1>1, <1>2
  <2>3. \A i \in 1..(2 * (n + 1)) : <<more[(i + 1) \div 2], 2 - (i % 2)>> \in Byte
    BY <2>1, <2>2 DEF Byte
  <2>4. AllBytes(more) \in [1..(2 * (n + 1)) -> Byte] /\ 2 * (n + 1) \in Nat
    BY <1>1, <1>2, <2>3 DEF AllBytes
  <2>5. AllBytes(more) \in Seq(Byte) /\ Len(AllBytes(more)) = 2 * (n + 1)
    BY <2>4, FunctionIsSeq
  <2> QED
    BY <1>1, <2>5
<1>5. both \in Seq(Byte) /\ Len(both) = 2 * n + 2 /\
      \A i \in 1..(2 * n + 2) : both[i] = IF i <= 2 * n THEN AllBytes(lines)[i]
                                          ELSE Bytes(line)[i - 2 * n]
  <2>1. Bytes(line) \in Seq(Byte) /\ Len(Bytes(line)) = 2
    BY BytesOfLine
  <2>2. /\ both \in Seq(Byte) /\ Len(both) = Len(AllBytes(lines)) + Len(Bytes(line))
        /\ \A i \in 1..(Len(AllBytes(lines)) + Len(Bytes(line))) :
             both[i] = IF i <= Len(AllBytes(lines)) THEN AllBytes(lines)[i]
                       ELSE Bytes(line)[i - Len(AllBytes(lines))]
    BY <1>3, <2>1, ConcatProperties
  <2> QED
    BY <1>3, <2>1, <2>2
<1>6. ASSUME NEW i \in 1..(2 * n + 2)
      PROVE  AllBytes(more)[i] = both[i]
  <2>1. AllBytes(more)[i] = <<more[(i + 1) \div 2], 2 - (i % 2)>>
    <3>1. i \in 1..(2 * Len(more))
      BY <1>1, <1>2
    <3> QED
      BY <3>1 DEF AllBytes
  <2>2. CASE i <= 2 * n
    <3>1. (i + 1) \div 2 \in 1..n /\ i \in 1..(2 * n)
      BY <1>1, <2>2
    <3>2. AllBytes(lines)[i] = <<lines[(i + 1) \div 2], 2 - (i % 2)>>
      BY <3>1 DEF AllBytes
    <3> QED
      BY <1>2, <1>5, <2>1, <2>2, <3>1, <3>2
  <2>3. CASE i = 2 * n + 1
    <3>1. (i + 1) \div 2 = n + 1 /\ i % 2 = 1 /\ i - 2 * n = 1 /\ ~(i <= 2 * n)
      BY <1>1, <2>3
    <3>2. AllBytes(more)[i] = <<line, 1>>
      BY <1>2, <2>1, <3>1
    <3>3. both[i] = Bytes(line)[1]
      BY <1>5, <3>1
    <3> QED
      BY <3>2, <3>3 DEF Bytes
  <2>4. CASE i = 2 * n + 2
    <3>1. (i + 1) \div 2 = n + 1 /\ i % 2 = 0 /\ i - 2 * n = 2 /\ ~(i <= 2 * n)
      BY <1>1, <2>4
    <3>2. AllBytes(more)[i] = <<line, 2>>
      BY <1>2, <2>1, <3>1
    <3>3. both[i] = Bytes(line)[2]
      BY <1>5, <3>1
    <3> QED
      BY <3>2, <3>3 DEF Bytes
  <2>5. i <= 2 * n \/ i = 2 * n + 1 \/ i = 2 * n + 2
    BY <1>1
  <2> QED
    BY <2>2, <2>3, <2>4, <2>5
<1>7. AllBytes(more) = both
  BY <1>4, <1>5, <1>6, SeqEqual
<1> QED
  BY <1>3, <1>7

\* A write goes to the wire and what is left of it waits, or all of it waits behind what
\* waits already: either way behind the bytes of every line before.
LEMMA WriteInOrder ==
  ASSUME BytesTyped, WireInOrder, NEW line \in Line,
         Write(line), written' = Append(written, line)
  PROVE  BytesTyped' /\ WireInOrder'
<1>1. Bytes(line) \in Seq(Byte)
  BY BytesOfLine
<1>2. AllBytes(written') = AllBytes(written) \o Bytes(line) /\ written' \in Seq(Line)
  BY BytesOfAppend, AppendProperties DEF BytesTyped
<1>3. wire' \in Seq(Byte) /\ pendingWrite' \in Seq(Byte)
      /\ wire' \o pendingWrite' = (wire \o pendingWrite) \o Bytes(line)
  <2>1. CASE pendingWrite # <<>>
    <3>1. pendingWrite' = pendingWrite \o Bytes(line) /\ wire' = wire
      BY <2>1 DEF Write
    <3> QED
      BY <1>1, <3>1, ConcatProperties, ConcatAssociative DEF BytesTyped
  <2>2. CASE pendingWrite = <<>>
    <3>1. PICK n \in Takes(Bytes(line)) :
            wire' = wire \o Keep(Bytes(line), n) /\ pendingWrite' = Drop(Bytes(line), n)
      BY <2>2 DEF Write
    <3>2. n \in 0..Len(Bytes(line))
      BY <1>1, BytesOfLine DEF Takes
    <3>3. /\ wire \o Keep(Bytes(line), n) \in Seq(Byte) /\ Drop(Bytes(line), n) \in Seq(Byte)
          /\ (wire \o Keep(Bytes(line), n)) \o Drop(Bytes(line), n) = wire \o Bytes(line)
      BY <1>1, <3>2, SplitBehind DEF BytesTyped
    <3>4. wire \o pendingWrite = wire
      BY <2>2, ConcatEmptySeq DEF BytesTyped
    <3> QED
      BY <3>1, <3>3, <3>4
  <2> QED
    BY <2>1, <2>2
<1> QED
  BY <1>2, <1>3 DEF BytesTyped, WireInOrder

\* A line reaches the transport whole, or the socket throws and it does not at all.
LEMMA HandsInOrder ==
  ASSUME BytesTyped, WireInOrder, NEW line \in Line, Hands(line)
  PROVE  BytesTyped' /\ WireInOrder'
<1>1. CASE Write(line) /\ written' = Append(written, line)
  BY <1>1, WriteInOrder
<1>2. CASE UNCHANGED <<pendingWrite, wire, written>>
  BY <1>2 DEF BytesTyped, WireInOrder
<1> QED
  BY <1>1, <1>2 DEF Hands

\* The drain moves the front of what waits to the wire.
LEMMA DrainInOrder ==
  ASSUME BytesTyped, WireInOrder, DrainCalled, UNCHANGED written
  PROVE  BytesTyped' /\ WireInOrder'
<1>1. PICK n \in 1..Len(pendingWrite) :
        wire' = wire \o Keep(pendingWrite, n) /\ pendingWrite' = Drop(pendingWrite, n)
  BY DEF DrainCalled
<1>2. n \in 0..Len(pendingWrite)
  BY LenProperties DEF BytesTyped
<1>3. /\ wire \o Keep(pendingWrite, n) \in Seq(Byte) /\ Drop(pendingWrite, n) \in Seq(Byte)
      /\ (wire \o Keep(pendingWrite, n)) \o Drop(pendingWrite, n) = wire \o pendingWrite
  <2>1. wire \in Seq(Byte) /\ pendingWrite \in Seq(Byte)
    BY DEF BytesTyped
  <2> QED
    BY <1>2, <2>1, SplitBehind
<1>4. wire' \o pendingWrite' = wire \o pendingWrite
  BY <1>1, <1>3
<1>5. BytesTyped'
  BY <1>1, <1>3 DEF BytesTyped
<1> QED
  BY <1>4, <1>5 DEF WireInOrder

-----------------------------------------------------------------------------
(* The other variables.                                                    *)

\* Nothing has happened to a transport that was only constructed.
LEMMA InitInv == Init => IInv
<1> SUFFICES ASSUME Init PROVE IInv
  OBVIOUS
<1> USE DEF Init, TransportInit
<1>1. DialInv
  BY DEF DialInv, FlagsTyped, Sockets, EndsAgree
<1>2. LinesTyped /\ BytesTyped
  BY QueueAssumption DEF LinesTyped, BytesTyped
<1>3. ClosedTogether /\ QueueCounted
  <2>1. Len(queue) = 0
    BY EmptySeq
  <2>2. QueueCounted
    BY <2>1, QueueAssumption DEF QueueCounted
  <2> QED
    BY <2>2 DEF ClosedTogether
<1>4. WireInOrder
  <2>1. AllBytes(<<>>) = <<>>
    BY DEF AllBytes
  <2> QED
    BY <2>1 DEF WireInOrder
<1> QED
  BY <1>1, <1>2, <1>3, <1>4 DEF IInv

\* close(): a socket that is there is ended, one that is still to come will be by
\* connect() itself, and without one the streams end here.
LEMMA CloseKeeps ==
  ASSUME DialInv, promise # "none", Close, UNCHANGED <<useTls, holds, promise, ready, made, spacing>>,
         closed' \in BOOLEAN
  PROVE  DialInv' /\ closing'
<1>1. FlagsTyped'
  BY DEF DialInv, FlagsTyped, Close, Settle, Settled, stream
<1>2. Sockets' /\ closing'
  BY DEF DialInv, FlagsTyped, Sockets, Close, Settle, stream
<1>3. EndsAgree'
  BY DEF DialInv, FlagsTyped, EndsAgree, Close, Settle, Settled, stream
<1> QED
  BY <1>1, <1>2, <1>3 DEF DialInv

\* The steps of connect(), of the socket and of its callbacks.
LEMMA WiresKeep == ASSUME IInv, Wires PROVE IInv'
<1>0. DialInv /\ LinesTyped /\ BytesTyped /\ ClosedTogether /\ QueueCounted /\ WireInOrder
  BY DEF IInv
<1>1. UNCHANGED queueVars
  BY DEF Wires
<1>2. closing' = closing
  BY DEF Wires, ConnectCalled, SocketOpens, DialFails, ConnectContinues, ConnectSettles, Handshake,
         SocketEnds, DrainCalled, dial
<1>3. LinesTyped' /\ ClosedTogether' /\ QueueCounted'
  BY <1>0, <1>1, <1>2 DEF LinesTyped, ClosedTogether, QueueCounted, queueVars
<1>4. BytesTyped' /\ WireInOrder'
  <2>1. CASE DrainCalled
    BY <1>0, <1>1, <2>1, DrainInOrder DEF queueVars
  <2>2. CASE UNCHANGED <<pendingWrite, wire>>
    BY <1>0, <1>1, <2>2 DEF BytesTyped, WireInOrder, queueVars
  <2> QED
    BY <2>1, <2>2 DEF Wires, ConnectCalled, SocketOpens, DialFails, ConnectContinues, ConnectSettles,
                      Handshake, SocketEnds
<1>5. DialInv'
  <2> USE <1>0, <1>1 DEF DialInv, FlagsTyped, Sockets, EndsAgree, queueVars, stream
  <2>1. CASE ConnectCalled
    BY <2>1 DEF ConnectCalled
  <2>2. CASE SocketOpens
    BY <2>2 DEF SocketOpens
  <2>3. CASE DialFails
    BY <2>3 DEF DialFails, Settle, Settled, MarkReady
  <2>4. CASE ConnectContinues
    BY <2>4 DEF ConnectContinues
  <2>5. CASE ConnectSettles
    BY <2>5 DEF ConnectSettles
  <2>6. CASE Handshake
    BY <2>6 DEF Handshake, Settle, Settled, MarkReady
  <2>7. CASE SocketEnds
    BY <2>7 DEF SocketEnds, Settle, Settled, MarkReady
  <2>8. CASE DrainCalled
    BY <2>8 DEF DrainCalled, dial
  <2> QED
    BY <2>1, <2>2, <2>3, <2>4, <2>5, <2>6, <2>7, <2>8 DEF Wires
<1> QED
  BY <1>3, <1>4, <1>5 DEF IInv

\* The queue of an attempt is made.
LEMMA MakeQueueKeeps == ASSUME IInv, MakeQueue PROVE IInv'
<1> USE DEF MakeQueue, transport, dial, stream
<1>0. DialInv /\ LinesTyped /\ BytesTyped /\ ClosedTogether /\ QueueCounted /\ WireInOrder
  BY DEF IInv
<1>1. DialInv'
  BY <1>0 DEF DialInv, FlagsTyped, Sockets, EndsAgree
<1>2. LinesTyped' /\ BytesTyped'
  BY <1>0 DEF LinesTyped, BytesTyped
<1>3. ClosedTogether' /\ QueueCounted' /\ WireInOrder'
  BY <1>0 DEF ClosedTogether, QueueCounted, WireInOrder
<1> QED
  BY <1>1, <1>2, <1>3 DEF IInv

\* What the steps of send(), of the spacer and of sendImmediate() have in common: a line
\* is handed over, and the transport's own state stays.
LEMMA HandsKeeps ==
  ASSUME IInv, NEW line \in Line, Hands(line), UNCHANGED <<made, closed>>, spacing' \in BOOLEAN,
         LinesTyped', ClosedTogether', QueueCounted'
  PROVE  IInv'
<1>0. DialInv /\ BytesTyped /\ WireInOrder
  BY DEF IInv
<1>1. BytesTyped' /\ WireInOrder'
  BY <1>0, HandsInOrder
<1>2. DialInv'
  BY <1>0 DEF DialInv, FlagsTyped, Sockets, EndsAgree, Hands, dial, stream
<1> QED
  BY <1>1, <1>2 DEF IInv

\* The next line's number is one of them.
LEMMA NextLine == ASSUME LinesTyped, sent < MaxLines PROVE sent + 1 \in Line
BY QueueAssumption DEF LinesTyped, Line

\* send() with nothing before it in the queue.
LEMMA SendsAtOnceKeeps == ASSUME IInv, SendsAtOnce PROVE IInv'
<1>0. DialInv /\ LinesTyped /\ ClosedTogether /\ QueueCounted
  BY DEF IInv
<1>1. sent' \in Line /\ sent' = sent + 1
  BY <1>0, NextLine DEF SendsAtOnce
<1>2. LinesTyped'
  BY <1>0, <1>1 DEF SendsAtOnce, LinesTyped, Line
<1>3. ClosedTogether' /\ QueueCounted'
  BY <1>0 DEF SendsAtOnce, ClosedTogether, QueueCounted, Hands, dial
<1> QED
  BY <1>1, <1>2, <1>3, HandsKeeps DEF SendsAtOnce

\* send() behind the spacer: one more in the queue, one more on the counter.
LEMMA QueuesKeeps == ASSUME IInv, Queues PROVE IInv'
<1>0. DialInv /\ LinesTyped /\ BytesTyped /\ ClosedTogether /\ QueueCounted /\ WireInOrder
  BY DEF IInv
<1>1. sent' \in Line /\ sent' = sent + 1
  BY <1>0, NextLine DEF Queues
<1>2. queue' \in Seq(Line) /\ Len(queue') = Len(queue) + 1
  BY <1>0, <1>1, AppendProperties DEF Queues, LinesTyped
<1>3. LinesTyped' /\ QueueCounted'
  BY <1>0, <1>1, <1>2, QueueAssumption DEF Queues, LinesTyped, QueueCounted, Line
<1>4. DialInv' /\ ClosedTogether'
  BY <1>0 DEF Queues, DialInv, FlagsTyped, Sockets, EndsAgree, ClosedTogether, transport, dial, stream
<1>5. BytesTyped' /\ WireInOrder'
  BY <1>0 DEF Queues, BytesTyped, WireInOrder, transport
<1> QED
  BY <1>3, <1>4, <1>5 DEF IInv

\* The spacer elapses: the first of the queue is handed over and leaves the counter, or
\* there is none.
LEMMA SpacerElapsesKeeps == ASSUME IInv, SpacerElapses PROVE IInv'
<1>0. DialInv /\ LinesTyped /\ BytesTyped /\ ClosedTogether /\ QueueCounted /\ WireInOrder
  BY DEF IInv
<1>1. CASE queue = <<>>
  <2>1. UNCHANGED <<transport, pending, queue, written, made, closed, sent, left>> /\ spacing' = FALSE
    BY <1>1 DEF SpacerElapses
  <2>2. LinesTyped' /\ BytesTyped'
    BY <1>0, <2>1 DEF LinesTyped, BytesTyped, transport
  <2>3. DialInv' /\ ClosedTogether' /\ QueueCounted' /\ WireInOrder'
    BY <1>0, <2>1 DEF DialInv, FlagsTyped, Sockets, EndsAgree, ClosedTogether, QueueCounted,
                      WireInOrder, transport, dial, stream
  <2> QED
    BY <2>2, <2>3 DEF IInv
<1>2. CASE queue # <<>>
  <2>1. /\ queue' = Tail(queue) /\ pending' = pending - 1 /\ Hands(Head(queue))
        /\ ~closed /\ UNCHANGED <<made, closed, sent, left, spacing>>
    BY <1>2 DEF SpacerElapses
  <2>2. Head(queue) \in Line /\ Tail(queue) \in Seq(Line) /\ Len(Tail(queue)) = Len(queue) - 1
        /\ Len(queue) \in Nat \ {0}
    BY <1>0, <1>2, HeadTailProperties, EmptySeq DEF LinesTyped
  <2>3. LinesTyped' /\ QueueCounted'
    BY <1>0, <2>1, <2>2, QueueAssumption DEF LinesTyped, QueueCounted
  <2>4. ClosedTogether'
    BY <1>0, <2>1 DEF ClosedTogether, Hands, dial
  <2>5. spacing' \in BOOLEAN
    BY <1>0, <2>1 DEF DialInv, FlagsTyped
  <2> QED
    BY <2>1, <2>2, <2>3, <2>4, <2>5, HandsKeeps
<1> QED
  BY <1>1, <1>2

\* sendImmediate() passes the queue and leaves it alone.
LEMMA SendsImmediateKeeps == ASSUME IInv, SendsImmediate PROVE IInv'
<1>0. DialInv /\ LinesTyped /\ ClosedTogether /\ QueueCounted
  BY DEF IInv
<1>1. sent' \in Line /\ sent' = sent + 1
  BY <1>0, NextLine DEF SendsImmediate
<1>2. LinesTyped'
  BY <1>0, <1>1 DEF SendsImmediate, LinesTyped, Line
<1>3. ClosedTogether' /\ QueueCounted' /\ spacing' \in BOOLEAN
  BY <1>0 DEF SendsImmediate, ClosedTogether, QueueCounted, Hands, dial, DialInv, FlagsTyped
<1> QED
  BY <1>1, <1>2, <1>3, HandsKeeps DEF SendsImmediate

\* The teardown of an attempt: nothing is written any more.
LEMMA TearsDownKeeps == ASSUME IInv, TearsDown PROVE IInv'
<1>0. DialInv /\ LinesTyped /\ BytesTyped /\ ClosedTogether /\ QueueCounted /\ WireInOrder
  BY DEF IInv
<1>1. DialInv' /\ closing' /\ closed' = TRUE /\ queue' = <<>>
  BY <1>0, CloseKeeps DEF TearsDown, ClosesBoth
<1>2. LinesTyped' /\ BytesTyped' /\ WireInOrder'
  BY <1>0, EmptySeq DEF TearsDown, ClosesBoth, LinesTyped, BytesTyped, WireInOrder
<1>3. ClosedTogether' /\ QueueCounted'
  BY <1>1 DEF ClosedTogether, QueueCounted, DialInv, FlagsTyped
<1> QED
  BY <1>1, <1>2, <1>3 DEF IInv

\* quit(): its line is the last that is handed over.
LEMMA QuitsKeeps == ASSUME IInv, Quits PROVE IInv'
<1>0. DialInv /\ LinesTyped /\ BytesTyped /\ ClosedTogether /\ QueueCounted /\ WireInOrder
  BY DEF IInv
<1>1. sent' \in Line /\ sent' = sent + 1 /\ left' = sent'
  BY <1>0, NextLine DEF Quits
<1>2. promise # "none"
  BY <1>0 DEF Quits, DialInv, Sockets
<1>3. DialInv' /\ closing' /\ closed' = TRUE /\ queue' = <<>>
  BY <1>0, <1>2, CloseKeeps DEF Quits, ClosesBoth
<1>4. LinesTyped'
  BY <1>0, <1>1, <1>3, EmptySeq DEF Quits, ClosesBoth, LinesTyped, Line
<1>5. BytesTyped' /\ WireInOrder'
  <2>1. CASE Write(sent') /\ written' = Append(written, sent')
    <3>1. PICK line \in Line : sent' = line
      BY <1>1
    <3> QED
      BY <1>0, <2>1, <3>1, WriteInOrder
  <2>2. CASE UNCHANGED <<pendingWrite, wire, written>>
    BY <1>0, <2>2 DEF BytesTyped, WireInOrder
  <2> QED
    BY <2>1, <2>2 DEF Quits
<1>6. ClosedTogether' /\ QueueCounted'
  BY <1>3 DEF ClosedTogether, QueueCounted, DialInv, FlagsTyped
<1> QED
  BY <1>3, <1>4, <1>5, <1>6 DEF IInv

\* Every step keeps the invariant.
LEMMA NextKeeps == IInv /\ [Next]_vars => IInv'
<1> SUFFICES ASSUME IInv, [Next]_vars PROVE IInv'
  OBVIOUS
<1>1. CASE Wires
  BY <1>1, WiresKeep
<1>2. CASE MakeQueue
  BY <1>2, MakeQueueKeeps
<1>3. CASE SendsAtOnce
  BY <1>3, SendsAtOnceKeeps
<1>4. CASE Queues
  BY <1>4, QueuesKeeps
<1>5. CASE SpacerElapses
  BY <1>5, SpacerElapsesKeeps
<1>6. CASE SendsImmediate
  BY <1>6, SendsImmediateKeeps
<1>7. CASE TearsDown
  BY <1>7, TearsDownKeeps
<1>8. CASE Quits
  BY <1>8, QuitsKeeps
<1>9. CASE UNCHANGED vars
  BY <1>9 DEF vars, queueVars, transport, dial, stream, IInv, DialInv, FlagsTyped, Sockets, EndsAgree,
              LinesTyped, BytesTyped, ClosedTogether, QueueCounted, WireInOrder
<1> QED
  BY <1>1, <1>2, <1>3, <1>4, <1>5, <1>6, <1>7, <1>8, <1>9 DEF Next

\* The invariant holds throughout.
LEMMA Invariance == Spec => []IInv
<1>1. Init => IInv
  BY InitInv
<1>2. IInv /\ [Next]_vars => IInv'
  BY NextKeeps
<1> QED
  BY <1>1, <1>2, PTL DEF Spec

-----------------------------------------------------------------------------

\* Types, in every behaviour of OutboundQueue over its Transport.
THEOREM TypeCorrect == Spec => []TypeOK
<1>1. IInv => TypeOK
  BY DEF IInv, DialInv, FlagsTyped, LinesTyped, BytesTyped, TypeOK, Line, Byte
<1> QED
  BY <1>1, Invariance, PTL

\* BunSocketTransport.write and its drain callback: no byte of an accepted line is lost,
\* doubled or overtaken, however few bytes the socket takes at a time and however many
\* lines there are.
THEOREM WireStaysInOrder == Spec => []WireInOrder
<1>1. IInv => WireInOrder
  BY DEF IInv
<1> QED
  BY <1>1, Invariance, PTL

\* BunSocketTransport.connect and close: a socket that arrives behind a close() is ended.
THEOREM NoSocketIsLeaked == Spec => []NoSocketLeaks
<1>1. IInv => NoSocketLeaks
  BY DEF IInv, DialInv, FlagsTyped, Sockets, NoSocketLeaks
<1> QED
  BY <1>1, Invariance, PTL

\* OutboundQueue.#pending counts what concatMap holds back, for every maxQueueDepth; the
\* liveness run states it as part of LinesMove.
THEOREM CounterIsExact == Spec => []QueueCounted
<1>1. IInv => QueueCounted
  BY DEF IInv
<1> QED
  BY <1>1, Invariance, PTL

\* BunSocketTransport.#settle: bytes$ and closed$ end together and alike, and only a
\* close() of ours is a local end; the liveness run states it as part of CloseEnds.
THEOREM StreamsEndAlike == Spec => []EndsAgree
<1>1. IInv => EndsAgree
  BY DEF IInv, DialInv
<1> QED
  BY <1>1, Invariance, PTL
=============================================================================
