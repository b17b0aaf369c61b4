------------------------------ MODULE Transport ------------------------------
(***************************************************************************)
(* BunSocketTransport: a single-use socket whose callbacks become streams, *)
(* and whose writes wait behind each other while the kernel accepts no     *)
(* more.  The socket is external: it reports what happens to it in any     *)
(* order, and takes as many bytes of a write as it likes.  A line is two   *)
(* bytes, so that it can be torn apart.                                    *)
(***************************************************************************)
EXTENDS Naturals, Sequences

VARIABLES
  useTls,        \* tls option
  sock,          \* external: "none", "open", "ended" (by our end()) or "gone"
  holds,         \* did connect() put the socket in #socket
  promise,       \* connect(): "none", "dialling", "upgrading", "resolved" or "rejected"
  ready,         \* the gate of connect(): "pending", "ok" or "failed"
  closing,       \* #closing
  bytesEnd,      \* bytes$: "open", "completed" or "errored"
  closedEnd,     \* what closed$ emitted: "none", "local" or "remote"
  pendingWrite,  \* #pendingWrite, <<>> for null
  wire           \* external: the bytes the socket has taken

stream   == <<bytesEnd, closedEnd>>
dial     == <<useTls, sock, holds, promise, ready, closing, stream>>
transport == <<dial, pendingWrite, wire>>

Settled == closedEnd # "none"

Bytes(line) == <<<<line, 1>>, <<line, 2>>>>
Keep(s, n)  == SubSeq(s, 1, n)
Drop(s, n)  == SubSeq(s, n + 1, Len(s))

TransportInit ==
  /\ useTls \in BOOLEAN /\ sock = "none" /\ holds = FALSE
  /\ promise = "none" /\ ready = IF useTls THEN "pending" ELSE "ok"
  /\ closing = FALSE /\ bytesEnd = "open" /\ closedEnd = "none"
  /\ pendingWrite = <<>> /\ wire = <<>>

-----------------------------------------------------------------------------

\* #settle: the first end counts.
Settle(local) ==
  IF Settled THEN UNCHANGED stream
  ELSE /\ closedEnd' = IF local THEN "local" ELSE "remote"
       /\ bytesEnd' = IF local THEN "completed" ELSE "errored"

\* markReady: a promise, settled once; it gates nothing on plaintext.
MarkReady(outcome) == ready' = IF ready = "pending" THEN outcome ELSE ready

ConnectCalled ==
  /\ promise = "none" /\ promise' = "dialling"
  /\ UNCHANGED <<useTls, sock, holds, ready, closing, stream, pendingWrite, wire>>

SocketOpens ==
  /\ promise = "dialling" /\ sock = "none" /\ sock' = "open"
  /\ UNCHANGED <<useTls, holds, promise, ready, closing, stream, pendingWrite, wire>>

\* connectError, or a connector that rejects without it.
DialFails ==
  /\ promise = "dialling" /\ sock = "none" /\ sock' = "gone"
  /\ Settle(FALSE) /\ MarkReady("failed") /\ promise' = "rejected"
  /\ UNCHANGED <<useTls, holds, closing, pendingWrite, wire>>

\* Mutant: a close() while the connector was pending is forgotten.
ConnectContinues_Forgetful ==
  /\ promise = "dialling" /\ sock # "none"
  /\ holds' = TRUE /\ promise' = "upgrading"
  /\ UNCHANGED <<useTls, sock, ready, closing, stream, pendingWrite, wire>>

\* Behind the await of the connector.
ConnectContinues ==
  /\ promise = "dialling" /\ sock # "none"
  /\ holds' = TRUE /\ promise' = "upgrading"
  /\ sock' = IF closing /\ sock = "open" THEN "ended" ELSE sock
  /\ UNCHANGED <<useTls, ready, closing, stream, pendingWrite, wire>>

\* Behind the await of `ready`.
ConnectSettles ==
  /\ promise = "upgrading" /\ ready # "pending"
  /\ promise' = IF ready = "ok" THEN "resolved" ELSE "rejected"
  /\ UNCHANGED <<useTls, sock, holds, ready, closing, stream, pendingWrite, wire>>

\* The handshake callback, TLS only.
Handshake ==
  /\ useTls /\ sock = "open" /\ ready = "pending"
  /\ \/ MarkReady("ok") /\ UNCHANGED stream
     \/ MarkReady("failed") /\ Settle(FALSE)
  /\ UNCHANGED <<useTls, sock, holds, promise, closing, pendingWrite, wire>>

\* Mutant: only a failed handshake opens the gate for connect().
SocketEnds_Gated ==
  /\ sock \in {"open", "ended"} /\ sock' = "gone"
  /\ \E local \in {closing, FALSE} : Settle(local)
  /\ UNCHANGED <<useTls, holds, promise, ready, closing, pendingWrite, wire>>

\* The close, end and error callbacks; more of them, later, find it settled.
SocketEnds ==
  /\ sock \in {"open", "ended"} /\ sock' = "gone"
  /\ \E local \in {closing, FALSE} : Settle(local)
  /\ MarkReady("failed")
  /\ UNCHANGED <<useTls, holds, promise, closing, pendingWrite, wire>>

-----------------------------------------------------------------------------

\* How many of the bytes the socket takes.
Takes(bytes) == IF sock = "open" THEN 0..Len(bytes) ELSE {0}

\* write(): behind what waits, or as far as the socket takes it.
Write(line) ==
  IF pendingWrite # <<>> THEN pendingWrite' = pendingWrite \o Bytes(line) /\ UNCHANGED wire
  ELSE \E n \in Takes(Bytes(line)) :
         /\ wire' = wire \o Keep(Bytes(line), n)
         /\ pendingWrite' = Drop(Bytes(line), n)

\* Mutant: a drain that takes some of the bytes is taken to have taken all.
DrainCalled_All ==
  /\ sock = "open" /\ pendingWrite # <<>>
  /\ \E n \in 1..Len(pendingWrite) : wire' = wire \o Keep(pendingWrite, n) /\ pendingWrite' = <<>>
  /\ UNCHANGED dial

\* The drain callback.
DrainCalled ==
  /\ sock = "open" /\ pendingWrite # <<>>
  /\ \E n \in 1..Len(pendingWrite) :
       wire' = wire \o Keep(pendingWrite, n) /\ pendingWrite' = Drop(pendingWrite, n)
  /\ UNCHANGED dial

\* close(): the socket is ended, or what there is of the transport settled.
Close ==
  IF closing THEN UNCHANGED <<closing, sock, stream>>
  ELSE /\ closing' = TRUE
       /\ IF holds THEN sock' = (IF sock = "open" THEN "ended" ELSE sock) /\ UNCHANGED stream
          ELSE Settle(TRUE) /\ UNCHANGED sock
=============================================================================
