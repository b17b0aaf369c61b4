-------------------------- MODULE ConversationProofs --------------------------
(***************************************************************************)
(* What sendLabeled, the dispatcher's batches and keepalive keep for every *)
(* set of requests and references and every cap.  A message is received in *)
(* the step it is sent, so what the client has collected of a reply or of  *)
(* a batch is tied to how far the server has got with it.                  *)
(***************************************************************************)
EXTENDS Conversation, SequenceTheorems, TLAPS

-----------------------------------------------------------------------------
(* Types.                                                                  *)

Asker == Requests \cup {Nobody}
Ref   == Refs \cup {Nobody}

Call ==
  [status : {"none", "awaiting", "collecting", "resolved", "rejected"}, born : Nat,
   late : BOOLEAN, topRef : Ref, refs : SUBSET Refs, collected : Seq(Asker \X Nat)]

Message ==
  [command : {"ACK", "line", "+", "-"}, label : Asker, ref : Ref, batch : Ref,
   part : Asker \X Nat, nth : Nat]

ConnTyped  == conn \in {"up", "dropping", "down", "closed"} /\ epoch \in 1..MaxConnections
CallsTyped == request \in [Requests -> Call]

ServerTyped ==
  /\ asked \subseteq Requests /\ answered \subseteq Requests /\ open \subseteq Refs
  /\ owner \in [Refs -> Asker] /\ top \in [Requests -> Ref]
  /\ said \in [Requests -> Nat] /\ inBatch \in [Refs -> Nat]

\* An open batch is a function of the reference; one of a connection that is up is open
\* at the server too, and holds the lines it was sent, up to the cap.
Numbers(n) == [i \in 1..(IF n < MaxInBatch THEN n ELSE MaxInBatch) |-> i]

BatchesFollow ==
  /\ DOMAIN batches \subseteq Refs
  /\ \A b \in Refs \ open : inBatch[b] = 0
  /\ conn = "up" => \A b \in DOMAIN batches : b \in open /\ batches[b] = Numbers(inBatch[b])

\* The silence is the countdown, after a whole interval of it when a PING is out.
TimersAgree ==
  /\ idle \in Nat /\ silence \in Nat /\ alarm \in Nat /\ pinged \in BOOLEAN
  /\ conn = "up" =>
       /\ ~pinged => silence = idle /\ idle <= Interval
       /\ pinged => silence = Interval + idle /\ idle <= Window
  /\ alarm # 0 => alarm >= Interval + Window

\* Who is still waiting, and on which connection.
WaitersAreLive ==
  \A r \in Pending :
    /\ conn # "closed"
    /\ request[r].late \/ (conn = "up" /\ request[r].born = epoch)

BaseInv ==
  /\ ConnTyped /\ CallsTyped /\ ServerTyped
  /\ BatchesFollow /\ BatchesAreWhole
  /\ TimersAgree /\ WaitersAreLive

-----------------------------------------------------------------------------
(* What a message is, and what it does to the client.                      *)

\* The fields of a line of the server.
LEMMA LineIs ==
  ASSUME ServerTyped, NEW command \in {"ACK", "line", "+", "-"}, NEW label \in Asker, NEW ref \in Ref,
         NEW batch \in Ref, NEW of \in Asker, NEW m, m = Line(command, label, ref, batch, of)
  PROVE  /\ m \in Message
         /\ m.command = command /\ m.label = label /\ m.ref = ref /\ m.batch = batch
         /\ of # Nobody => m.part = <<of, said[of] + 1>>
         /\ batch # Nobody => m.nth = inBatch[batch] + 1
<1> DEFINE part == IF of = Nobody THEN <<Nobody, 0>> ELSE <<of, said[of] + 1>>
           nth  == IF batch = Nobody THEN 0 ELSE inBatch[batch] + 1
<1>1. part \in Asker \X Nat
  <2>1. CASE of = Nobody
    BY <2>1 DEF Asker
  <2>2. CASE of # Nobody
    <3>1. of \in Requests /\ said[of] \in Nat
      BY <2>2 DEF Asker, ServerTyped
    <3> QED BY <2>2, <3>1
  <2> QED BY <2>1, <2>2
<1>2. nth \in Nat
  <2>1. batch # Nobody => batch \in Refs /\ inBatch[batch] \in Nat
    BY DEF Ref, ServerTyped
  <2> QED BY <2>1
<1>3. m = [command |-> command, label |-> label, ref |-> ref, batch |-> batch, part |-> part, nth |-> nth]
  BY DEF Line
<1>4. /\ of # Nobody => part = <<of, said[of] + 1>>
      /\ batch # Nobody => nth = inBatch[batch] + 1
  OBVIOUS
<1> HIDE DEF part, nth
<1> QED BY <1>1, <1>2, <1>3, <1>4 DEF Message

\* A request that has settled, whichever way, is a call.
LEMMA SettledTyped ==
  ASSUME NEW s \in Seq(Asker \X Nat)
  PROVE  /\ Rejected \in Call /\ Rejected.status = "rejected"
         /\ Resolved(s) \in Call /\ Resolved(s).status = "resolved" /\ Resolved(s).collected = s
         /\ Unasked \in Call /\ Unasked.status = "none"
<1>1. <<>> \in Seq(Asker \X Nat) /\ Nobody \in Ref
  BY DEF Ref
<1>2. Unasked \in Call
  BY <1>1 DEF Unasked, Call
<1>3. ASSUME NEW q \in Call
      PROVE  /\ [q EXCEPT !.status = "rejected"] \in Call
             /\ [q EXCEPT !.status = "rejected"].status = "rejected"
  BY DEF Call
<1>4. ASSUME NEW q \in Call
      PROVE  /\ [q EXCEPT !.status = "resolved", !.collected = s] \in Call
             /\ [q EXCEPT !.status = "resolved", !.collected = s].status = "resolved"
             /\ [q EXCEPT !.status = "resolved", !.collected = s].collected = s
  BY DEF Call
<1>5. Rejected \in Call /\ Rejected.status = "rejected"
  BY <1>2, <1>3 DEF Rejected
<1>6. Resolved(s) \in Call /\ Resolved(s).status = "resolved" /\ Resolved(s).collected = s
  BY <1>2, <1>4 DEF Resolved
<1> QED BY <1>2, <1>5, <1>6 DEF Unasked

\* A message that opens a batch names it.
Named(m) == m.command = "+" => m.ref \in Refs

\* What a request that awaits its reply makes of a message.
AwaitsAs(q, r, m, c) ==
  /\ c \in Call
  /\ m.label # r => c = q
  /\ m.label = r /\ m.command = "ACK" => c = Resolved(<<>>)
  /\ m.label = r /\ m.command = "+" =>
       /\ c.status = "collecting" /\ c.topRef = m.ref /\ c.refs = {m.ref}
       /\ c.collected = q.collected /\ c.born = q.born /\ c.late = q.late
  /\ m.label = r /\ m.command \in {"line", "-"} => c = Resolved(<<m.part>>)

\* It does so.
LEMMA AwaitsIs ==
  ASSUME NEW q \in Call, NEW r \in Requests, NEW m \in Message, Named(m), NEW c, c = Awaits(q, r, m)
  PROVE  AwaitsAs(q, r, m, c)
<1> USE DEF AwaitsAs
<1>1. CASE m.label # r
  BY <1>1 DEF Awaits
<1>2. CASE m.label = r /\ m.command = "ACK"
  <2>1. c = Resolved(<<>>)
    BY <1>2 DEF Awaits
  <2>2. <<>> \in Seq(Asker \X Nat)
    OBVIOUS
  <2> QED BY <1>2, <2>1, <2>2, SettledTyped
<1>3. CASE m.label = r /\ m.command = "+"
  <2>1. c = [q EXCEPT !.status = "collecting", !.topRef = m.ref, !.refs = {m.ref}]
    BY <1>3 DEF Awaits
  <2>2. m.ref \in Refs /\ m.ref \in Ref
    BY <1>3 DEF Named, Ref
  <2>3. c = [status |-> "collecting", born |-> q.born, late |-> q.late, topRef |-> m.ref,
             refs |-> {m.ref}, collected |-> q.collected]
    BY <2>1 DEF Call
  <2>4. c \in Call
    BY <2>2, <2>3 DEF Call
  <2> QED BY <1>3, <2>3, <2>4
<1>4. CASE m.label = r /\ m.command \in {"line", "-"}
  <2>1. c = Resolved(<<m.part>>)
    BY <1>4 DEF Awaits
  <2>2. <<m.part>> \in Seq(Asker \X Nat)
    BY DEF Message
  <2> QED BY <1>4, <2>1, <2>2, SettledTyped
<1> QED BY <1>1, <1>2, <1>3, <1>4 DEF Message

\* What a request that collects the batch of its reply makes of a message.
LEMMA CollectsIs ==
  ASSUME NEW q \in Call, NEW m \in Message, Named(m), NEW c, c = Collects(q, m)
  PROVE  /\ c \in Call
         /\ m.command = "-" /\ m.ref = q.topRef => c = Resolved(q.collected)
         /\ ~(m.command = "-" /\ m.ref = q.topRef) /\ m.batch \notin q.refs => c = q
         /\ ~(m.command = "-" /\ m.ref = q.topRef) /\ m.batch \in q.refs =>
              \/ c = Rejected
              \/ /\ c.status = q.status /\ c.topRef = q.topRef /\ c.born = q.born /\ c.late = q.late
                 /\ c.collected = Append(q.collected, m.part)
                 /\ c.refs = IF m.command = "+" THEN q.refs \cup {m.ref} ELSE q.refs
<1>0. q.collected \in Seq(Asker \X Nat) /\ m.part \in Asker \X Nat
  BY DEF Call, Message
<1>1. CASE m.command = "-" /\ m.ref = q.topRef
  <2>1. c = Resolved(q.collected)
    BY <1>1 DEF Collects
  <2> QED BY <1>0, <1>1, <2>1, SettledTyped
<1>2. CASE ~(m.command = "-" /\ m.ref = q.topRef) /\ m.batch \notin q.refs
  BY <1>2 DEF Collects
<1>3. CASE ~(m.command = "-" /\ m.ref = q.topRef) /\ m.batch \in q.refs
  <2> DEFINE refs == IF m.command = "+" THEN q.refs \cup {m.ref} ELSE q.refs
  <2>1. \/ c = Rejected
        \/ c = [q EXCEPT !.collected = Append(@, m.part), !.refs = refs]
    BY <1>3 DEF Collects
  <2>2. Rejected \in Call
    BY <1>0, SettledTyped
  <2>3. CASE c = [q EXCEPT !.collected = Append(@, m.part), !.refs = refs]
    <3>1. refs \in SUBSET Refs
      BY DEF Named, Call
    <3>2. Append(q.collected, m.part) \in Seq(Asker \X Nat)
      BY <1>0
    <3> HIDE DEF refs
    <3>3. c = [status |-> q.status, born |-> q.born, late |-> q.late, topRef |-> q.topRef,
               refs |-> refs, collected |-> Append(q.collected, m.part)]
      BY <2>3 DEF Call
    <3>4. c \in Call
      BY <3>1, <3>2, <3>3 DEF Call
    <3> QED BY <1>3, <3>3, <3>4 DEF refs
  <2> QED BY <1>3, <2>1, <2>2, <2>3
<1> QED BY <1>1, <1>2, <1>3

\* What a message makes of each request.
LEMMA RepliedIs ==
  ASSUME CallsTyped, NEW m \in Message, Named(m), request' = Replied(m)
  PROVE  /\ CallsTyped'
         /\ \A r \in Requests :
              /\ request[r] \in Call
              /\ request[r].status = "awaiting" => request'[r] = Awaits(request[r], r, m)
              /\ request[r].status = "collecting" => request'[r] = Collects(request[r], m)
              /\ request[r].status \notin {"awaiting", "collecting"} => request'[r] = request[r]
<1>1. ASSUME NEW r \in Requests
      PROVE  /\ request[r] \in Call
             /\ request[r].status = "awaiting" => request'[r] = Awaits(request[r], r, m)
             /\ request[r].status = "collecting" => request'[r] = Collects(request[r], m)
             /\ request[r].status \notin {"awaiting", "collecting"} => request'[r] = request[r]
  BY DEF CallsTyped, Replied
<1>2. ASSUME NEW r \in Requests PROVE request'[r] \in Call
  <2>1. CASE request[r].status = "awaiting"
    <3>1. request'[r] = Awaits(request[r], r, m) /\ request[r] \in Call
      BY <1>1, <2>1
    <3>2. AwaitsAs(request[r], r, m, request'[r])
      BY <3>1, AwaitsIs
    <3> QED BY <3>2 DEF AwaitsAs
  <2>2. CASE request[r].status = "collecting"
    <3>1. request'[r] = Collects(request[r], m) /\ request[r] \in Call
      BY <1>1, <2>2
    <3> QED BY <3>1, CollectsIs
  <2>3. CASE request[r].status \notin {"awaiting", "collecting"}
    BY <1>1, <2>3
  <2> QED BY <2>1, <2>2, <2>3
<1>3. request' = [r \in Requests |-> request'[r]]
  BY DEF Replied
<1> QED BY <1>1, <1>2, <1>3 DEF CallsTyped

-----------------------------------------------------------------------------
(* What the server says, in one statement for all of its actions.          *)

\* What a message is to the server's batches: it is in one that is open, opens one that is
\* not, or closes one that is.
BatchView(m) ==
  /\ m.batch # Nobody => m.batch \in open /\ m.batch # m.ref /\ m.nth = inBatch[m.batch] + 1
  /\ m.command = "+" => m.ref \in Refs \ open
  /\ m.command = "-" => m.ref \in open
  /\ open' = IF m.command = "+" THEN open \cup {m.ref}
             ELSE IF m.command = "-" THEN open \ {m.ref} ELSE open
  /\ \A b \in Refs : inBatch'[b] = IF m.command = "-" /\ b = m.ref THEN 0
                                   ELSE IF b = m.batch THEN inBatch[b] + 1 ELSE inBatch[b]

Speech(m) == m \in Message /\ Hears(m) /\ BatchView(m)

\* A batch that grew by a line, or was closed.
LEMMA CountsAre ==
  ASSUME ServerTyped, NEW b \in Refs
  PROVE  /\ inBatch[b] \in Nat
         /\ InBatch(b) \in [Refs -> Nat]
         /\ \A c \in Refs : InBatch(b)[c] = IF c = b THEN inBatch[b] + 1 ELSE inBatch[c]
  BY DEF ServerTyped, InBatch

\* A line in no batch or in an open one that neither opens nor closes any.
LEMMA PlainSpeech ==
  ASSUME ServerTyped, NEW command \in {"ACK", "line"}, NEW label \in Asker, NEW batch \in Ref, NEW of \in Asker,
         Hears(Line(command, label, Nobody, batch, of)), open' = open,
         \/ batch = Nobody /\ inBatch' = inBatch
         \/ batch \in open /\ inBatch' = InBatch(batch)
  PROVE  /\ Speech(Line(command, label, Nobody, batch, of))
         /\ inBatch' \in [Refs -> Nat]
<1> DEFINE m == Line(command, label, Nobody, batch, of)
<1>0. Nobody \in Ref /\ Nobody \notin Refs
  BY NobodyAssumption DEF Ref
<1>1. /\ m \in Message /\ m.command = command /\ m.batch = batch /\ m.ref = Nobody
      /\ batch # Nobody => m.nth = inBatch[batch] + 1
  BY <1>0, LineIs
<1> HIDE DEF m
<1>2. CASE batch = Nobody /\ inBatch' = inBatch
  <2>1. \A b \in Refs : b # Nobody
    BY <1>0
  <2>2. BatchView(m)
    BY <1>1, <1>2, <2>1 DEF BatchView
  <2> QED BY <1>1, <1>2, <2>2 DEF Speech, ServerTyped, m
<1>3. CASE batch \in open /\ inBatch' = InBatch(batch)
  <2>1. batch \in Refs /\ batch # Nobody
    BY <1>0, <1>3 DEF ServerTyped
  <2>2. /\ InBatch(batch) \in [Refs -> Nat]
        /\ \A c \in Refs : InBatch(batch)[c] = IF c = batch THEN inBatch[batch] + 1 ELSE inBatch[c]
    BY <2>1, CountsAre
  <2>3. BatchView(m)
    BY <1>1, <1>3, <2>1, <2>2 DEF BatchView
  <2> QED BY <1>1, <1>3, <2>2, <2>3 DEF Speech, m
<1> QED BY <1>2, <1>3

\* A line that opens a batch, in no batch or in an open one.
LEMMA OpeningSpeech ==
  ASSUME ServerTyped, NEW label \in Asker, NEW ref \in Refs \ open, NEW batch \in Ref, NEW of \in Asker,
         Hears(Line("+", label, ref, batch, of)), open' = open \cup {ref},
         \/ batch = Nobody /\ inBatch' = inBatch
         \/ batch \in open /\ inBatch' = InBatch(batch)
  PROVE  /\ Speech(Line("+", label, ref, batch, of))
         /\ inBatch' \in [Refs -> Nat]
<1> DEFINE m == Line("+", label, ref, batch, of)
<1>0. Nobody \notin Refs /\ ref \in Ref
  BY NobodyAssumption DEF Ref
<1>1. /\ m \in Message /\ m.command = "+" /\ m.batch = batch /\ m.ref = ref
      /\ batch # Nobody => m.nth = inBatch[batch] + 1
  BY <1>0, LineIs
<1> HIDE DEF m
<1>2. CASE batch = Nobody /\ inBatch' = inBatch
  <2>1. \A b \in Refs : b # Nobody
    BY <1>0
  <2>2. BatchView(m)
    BY <1>1, <1>2, <2>1 DEF BatchView
  <2> QED BY <1>1, <1>2, <2>2 DEF Speech, ServerTyped, m
<1>3. CASE batch \in open /\ inBatch' = InBatch(batch)
  <2>1. batch \in Refs /\ batch # Nobody /\ batch # ref
    BY <1>0, <1>3 DEF ServerTyped
  <2>2. /\ InBatch(batch) \in [Refs -> Nat]
        /\ \A c \in Refs : InBatch(batch)[c] = IF c = batch THEN inBatch[batch] + 1 ELSE inBatch[c]
    BY <2>1, CountsAre
  <2>3. BatchView(m)
    BY <1>1, <1>3, <2>1, <2>2 DEF BatchView
  <2> QED BY <1>1, <1>3, <2>2, <2>3 DEF Speech, m
<1> QED BY <1>2, <1>3

\* A line that closes a batch, in no batch or in another that is open.
LEMMA ClosingSpeech ==
  ASSUME ServerTyped, NEW ref \in open, NEW batch \in Ref, NEW of \in Asker,
         Hears(Line("-", Nobody, ref, batch, of)), open' = open \ {ref},
         \/ batch = Nobody /\ inBatch' = [inBatch EXCEPT ![ref] = 0]
         \/ batch \in open /\ batch # ref /\ inBatch' = [InBatch(batch) EXCEPT ![ref] = 0]
  PROVE  /\ Speech(Line("-", Nobody, ref, batch, of))
         /\ inBatch' \in [Refs -> Nat]
<1> DEFINE m == Line("-", Nobody, ref, batch, of)
<1>0. Nobody \notin Refs /\ Nobody \in Asker /\ ref \in Refs /\ ref \in Ref
  BY NobodyAssumption DEF Ref, Asker, ServerTyped
<1>1. /\ m \in Message /\ m.command = "-" /\ m.batch = batch /\ m.ref = ref
      /\ batch # Nobody => m.nth = inBatch[batch] + 1
  BY <1>0, LineIs
<1> HIDE DEF m
<1>2. CASE batch = Nobody /\ inBatch' = [inBatch EXCEPT ![ref] = 0]
  <2>1. /\ \A b \in Refs : b # Nobody
        /\ \A b \in Refs : inBatch'[b] = IF b = ref THEN 0 ELSE inBatch[b]
        /\ inBatch' \in [Refs -> Nat]
    BY <1>0, <1>2 DEF ServerTyped
  <2>2. BatchView(m)
    BY <1>1, <1>2, <2>1 DEF BatchView
  <2> QED BY <1>1, <2>1, <2>2 DEF Speech, m
<1>3. CASE batch \in open /\ batch # ref /\ inBatch' = [InBatch(batch) EXCEPT ![ref] = 0]
  <2>1. batch \in Refs /\ batch # Nobody /\ batch # ref
    BY <1>0, <1>3 DEF ServerTyped
  <2>2. /\ InBatch(batch) \in [Refs -> Nat]
        /\ \A c \in Refs : InBatch(batch)[c] = IF c = batch THEN inBatch[batch] + 1 ELSE inBatch[c]
    BY <2>1, CountsAre
  <2>3. /\ inBatch' \in [Refs -> Nat]
        /\ \A c \in Refs : inBatch'[c] = IF c = ref THEN 0
                                         ELSE IF c = batch THEN inBatch[c] + 1 ELSE inBatch[c]
    BY <1>0, <1>3, <2>1, <2>2
  <2>4. BatchView(m)
    BY <1>1, <1>3, <2>1, <2>3 DEF BatchView
  <2> QED BY <1>1, <2>3, <2>4 DEF Speech, m
<1> QED BY <1>2, <1>3

\* Whatever the server says is a speech, and leaves its state well-typed.
LEMMA ServerSpeaksIs ==
  ASSUME ServerTyped, ServerSpeaks
  PROVE  ServerTyped' /\ \E m \in Message : Speech(m)
<1>0. Nobody \in Asker /\ Nobody \in Ref /\ Nobody \notin Refs /\ Refs \subseteq Ref /\ Requests \subseteq Asker
  BY NobodyAssumption DEF Asker, Ref
<1>1. ASSUME NEW m, Speech(m), inBatch' \in [Refs -> Nat], open' \subseteq Refs,
             asked' = asked, answered' \subseteq Requests, owner' \in [Refs -> Asker],
             top' \in [Requests -> Ref], said' \in [Requests -> Nat]
      PROVE  ServerTyped' /\ \E k \in Message : Speech(k)
  BY <1>1 DEF ServerTyped, Speech
<1>2. ASSUME NEW r \in Requests PROVE Says(r) \in [Requests -> Nat]
  BY DEF ServerTyped, Says
<1>3. ASSUME NEW r \in Requests, NEW b \in Refs PROVE [owner EXCEPT ![b] = r] \in [Refs -> Asker]
  BY <1>0 DEF ServerTyped
<1>4. ASSUME NEW r \in Asker, NEW b \in Of(r) PROVE b \in open /\ b \in Refs /\ b \in Ref /\ owner[b] = r
  BY <1>0 DEF Of, ServerTyped
<1>5. ASSUME NEW b \in Unused PROVE b \in Refs \ open
  BY DEF Unused
<1>6. CASE Chats
  <2>1. CASE Hears(Line("line", Nobody, Nobody, Nobody, Nobody)) /\ UNCHANGED server
    <3>1. UNCHANGED <<asked, open, owner, top, said, answered, inBatch>>
      BY <2>1 DEF server
    <3>2. Speech(Line("line", Nobody, Nobody, Nobody, Nobody))
      BY <1>0, <2>1, <3>1, PlainSpeech
    <3> QED BY <1>1, <3>1, <3>2 DEF ServerTyped
  <2>2. ASSUME NEW b \in Unused, Hears(Line("+", Nobody, b, Nobody, Nobody)),
               open' = open \cup {b}, owner' = [owner EXCEPT ![b] = Nobody],
               UNCHANGED <<asked, top, said, answered, inBatch>>
        PROVE  ServerTyped' /\ \E m \in Message : Speech(m)
    <3>1. b \in Refs \ open
      BY <1>5
    <3>2. Speech(Line("+", Nobody, b, Nobody, Nobody))
      BY <1>0, <2>2, <3>1, OpeningSpeech
    <3>3. owner' \in [Refs -> Asker] /\ open' \subseteq Refs
      BY <1>0, <2>2, <3>1 DEF ServerTyped
    <3> QED BY <1>1, <2>2, <3>2, <3>3 DEF ServerTyped
  <2>3. ASSUME NEW b \in Of(Nobody), Hears(Line("line", Nobody, Nobody, b, Nobody)),
               inBatch' = InBatch(b), UNCHANGED <<asked, open, owner, top, said, answered>>
        PROVE  ServerTyped' /\ \E m \in Message : Speech(m)
    <3>1. b \in open /\ b \in Ref
      BY <1>0, <1>4
    <3>2. Speech(Line("line", Nobody, Nobody, b, Nobody)) /\ inBatch' \in [Refs -> Nat]
      BY <1>0, <2>3, <3>1, PlainSpeech
    <3> QED BY <1>1, <2>3, <3>2 DEF ServerTyped
  <2>4. ASSUME NEW b \in Of(Nobody), Hears(Line("-", Nobody, b, Nobody, Nobody)),
               open' = open \ {b}, inBatch' = [inBatch EXCEPT ![b] = 0],
               UNCHANGED <<asked, owner, top, said, answered>>
        PROVE  ServerTyped' /\ \E m \in Message : Speech(m)
    <3>1. b \in open /\ b \in Ref
      BY <1>0, <1>4
    <3>2. Speech(Line("-", Nobody, b, Nobody, Nobody)) /\ inBatch' \in [Refs -> Nat]
      BY <1>0, <2>4, <3>1, ClosingSpeech
    <3>3. open' \subseteq Refs
      BY <2>4 DEF ServerTyped
    <3> QED BY <1>1, <2>4, <3>2, <3>3 DEF ServerTyped
  <2> QED BY <1>6, <2>1, <2>2, <2>3, <2>4 DEF Chats
<1>7. ASSUME NEW r \in Requests, AnswersAck(r) PROVE ServerTyped' /\ \E m \in Message : Speech(m)
  <2>1. /\ Hears(Line("ACK", r, Nobody, Nobody, r)) /\ answered' = answered \cup {r}
        /\ UNCHANGED <<asked, open, owner, top, said, inBatch>>
    BY <1>7 DEF AnswersAck
  <2>2. Speech(Line("ACK", r, Nobody, Nobody, r))
    BY <1>0, <2>1, PlainSpeech
  <2>3. answered' \subseteq Requests
    BY <2>1 DEF ServerTyped
  <2> QED BY <1>1, <2>1, <2>2, <2>3 DEF ServerTyped
<1>8. ASSUME NEW r \in Requests, AnswersLine(r) PROVE ServerTyped' /\ \E m \in Message : Speech(m)
  <2>1. /\ Hears(Line("line", r, Nobody, Nobody, r)) /\ answered' = answered \cup {r} /\ said' = Says(r)
        /\ UNCHANGED <<asked, open, owner, top, inBatch>>
    BY <1>8 DEF AnswersLine
  <2>2. Speech(Line("line", r, Nobody, Nobody, r))
    BY <1>0, <2>1, PlainSpeech
  <2>3. answered' \subseteq Requests
    BY <2>1 DEF ServerTyped
  <2> QED BY <1>1, <1>2, <2>1, <2>2, <2>3 DEF ServerTyped
<1>9. ASSUME NEW r \in Requests, NEW b \in Refs, AnswersBatch(r, b)
      PROVE  ServerTyped' /\ \E m \in Message : Speech(m)
  <2>1. /\ b \in Refs \ open /\ Hears(Line("+", r, b, Nobody, Nobody))
        /\ open' = open \cup {b} /\ owner' = [owner EXCEPT ![b] = r] /\ top' = [top EXCEPT ![r] = b]
        /\ UNCHANGED <<asked, said, answered, inBatch>>
    BY <1>5, <1>9 DEF AnswersBatch
  <2>2. Speech(Line("+", r, b, Nobody, Nobody))
    BY <1>0, <2>1, OpeningSpeech
  <2>3. open' \subseteq Refs /\ top' \in [Requests -> Ref]
    BY <1>0, <2>1 DEF ServerTyped
  <2> QED BY <1>1, <1>3, <2>1, <2>2, <2>3 DEF ServerTyped
<1>10. ASSUME NEW r \in Requests, NEW b \in Refs, AnswersMore(r, b)
       PROVE  ServerTyped' /\ \E m \in Message : Speech(m)
  <2>1. /\ b \in open /\ b \in Ref /\ Hears(Line("line", Nobody, Nobody, b, r))
        /\ said' = Says(r) /\ inBatch' = InBatch(b) /\ UNCHANGED <<asked, open, owner, top, answered>>
    BY <1>0, <1>4, <1>10 DEF AnswersMore
  <2>2. Speech(Line("line", Nobody, Nobody, b, r)) /\ inBatch' \in [Refs -> Nat]
    BY <1>0, <2>1, PlainSpeech
  <2> QED BY <1>1, <1>2, <2>1, <2>2 DEF ServerTyped
<1>11. ASSUME NEW r \in Requests, NEW b \in Refs, NEW c \in Refs, Nests(r, b, c)
       PROVE  ServerTyped' /\ \E m \in Message : Speech(m)
  <2>1. /\ b \in open /\ b \in Ref /\ c \in Refs \ open /\ Hears(Line("+", Nobody, c, b, r))
        /\ said' = Says(r) /\ inBatch' = InBatch(b)
        /\ open' = open \cup {c} /\ owner' = [owner EXCEPT ![c] = r] /\ UNCHANGED <<asked, top, answered>>
    BY <1>0, <1>4, <1>5, <1>11 DEF Nests
  <2>2. Speech(Line("+", Nobody, c, b, r)) /\ inBatch' \in [Refs -> Nat]
    BY <1>0, <2>1, OpeningSpeech
  <2>3. open' \subseteq Refs
    BY <2>1 DEF ServerTyped
  <2> QED BY <1>1, <1>2, <1>3, <2>1, <2>2, <2>3 DEF ServerTyped
<1>12. ASSUME NEW r \in Requests, NEW b \in Refs, NEW c \in Refs, Unnests(r, b, c)
       PROVE  ServerTyped' /\ \E m \in Message : Speech(m)
  <2>1. /\ b \in Of(r) /\ c \in Of(r) /\ b # c /\ open' = open \ {c}
        /\ UNCHANGED <<asked, owner, top, answered>>
        /\ \/ /\ Hears(Line("-", Nobody, c, b, r))
              /\ said' = Says(r) /\ inBatch' = [InBatch(b) EXCEPT ![c] = 0]
           \/ /\ Hears(Line("-", Nobody, c, Nobody, Nobody))
              /\ inBatch' = [inBatch EXCEPT ![c] = 0] /\ UNCHANGED said
    BY <1>12 DEF Unnests
  <2>2. b \in open /\ c \in open /\ b \in Ref
    BY <1>0, <1>4, <2>1
  <2>3. open' \subseteq Refs /\ said' \in [Requests -> Nat]
    BY <1>2, <2>1 DEF ServerTyped
  <2>4. CASE Hears(Line("-", Nobody, c, b, r)) /\ inBatch' = [InBatch(b) EXCEPT ![c] = 0]
    <3>1. Speech(Line("-", Nobody, c, b, r)) /\ inBatch' \in [Refs -> Nat]
      BY <1>0, <2>1, <2>2, <2>4, ClosingSpeech
    <3> QED BY <1>1, <2>1, <2>3, <3>1 DEF ServerTyped
  <2>5. CASE Hears(Line("-", Nobody, c, Nobody, Nobody)) /\ inBatch' = [inBatch EXCEPT ![c] = 0]
    <3>1. Speech(Line("-", Nobody, c, Nobody, Nobody)) /\ inBatch' \in [Refs -> Nat]
      BY <1>0, <2>1, <2>2, <2>5, ClosingSpeech
    <3> QED BY <1>1, <2>1, <2>3, <3>1 DEF ServerTyped
  <2> QED BY <2>1, <2>4, <2>5
<1>13. ASSUME NEW r \in Requests, Closes(r) PROVE ServerTyped' /\ \E m \in Message : Speech(m)
  <2>1. /\ Hears(Line("-", Nobody, top[r], Nobody, Nobody)) /\ open' = open \ {top[r]}
        /\ owner' = [b \in Refs |-> IF owner[b] = r THEN Nobody ELSE owner[b]]
        /\ top' = [top EXCEPT ![r] = Nobody] /\ inBatch' = [inBatch EXCEPT ![top[r]] = 0]
        /\ answered' = answered \cup {r} /\ UNCHANGED <<asked, said>>
        /\ top[r] \in Of(r)
    BY <1>13 DEF Closes
  <2>2. top[r] \in open
    BY <1>0, <1>4, <2>1
  <2>3. Speech(Line("-", Nobody, top[r], Nobody, Nobody)) /\ inBatch' \in [Refs -> Nat]
    BY <1>0, <2>1, <2>2, ClosingSpeech
  <2>4. open' \subseteq Refs /\ answered' \subseteq Requests /\ top' \in [Requests -> Ref]
    BY <1>0, <2>1 DEF ServerTyped
  <2>5. owner' \in [Refs -> Asker]
    BY <1>0, <2>1 DEF ServerTyped
  <2> QED BY <1>1, <2>1, <2>3, <2>4, <2>5 DEF ServerTyped
<1> QED BY <1>6, <1>7, <1>8, <1>9, <1>10, <1>11, <1>12, <1>13 DEF ServerSpeaks

-----------------------------------------------------------------------------
(* The dispatcher's batches.                                               *)

\* A batch that is shorter than the cap takes the next line, and one at the cap no more.
LEMMA NumbersGrow ==
  ASSUME NEW n \in Nat
  PROVE  /\ Len(Numbers(n)) < MaxInBatch => Append(Numbers(n), n + 1) = Numbers(n + 1)
         /\ ~(Len(Numbers(n)) < MaxInBatch) => Numbers(n) = Numbers(n + 1)
         /\ Numbers(0) = <<>>
<1> DEFINE k == IF n < MaxInBatch THEN n ELSE MaxInBatch
           s == Numbers(n)
<1>1. MaxInBatch \in Nat /\ k \in Nat
  BY ConversationAssumption
<1>2. s = [i \in 1..k |-> i]
  BY DEF Numbers
<1> HIDE DEF s, k
<1>3. s \in Seq(Nat) /\ Len(s) = k
  <2>1. \A i \in 1..k : i \in Nat
    OBVIOUS
  <2> QED BY <1>1, <1>2, <2>1
<1>4. ASSUME Len(s) < MaxInBatch PROVE Append(s, n + 1) = Numbers(n + 1)
  <2>1. k = n /\ n + 1 <= MaxInBatch
    BY <1>1, <1>3, <1>4 DEF k
  <2>2. (IF n + 1 < MaxInBatch THEN n + 1 ELSE MaxInBatch) = n + 1
    BY <1>1, <2>1
  <2>3. Numbers(n + 1) = [i \in 1..(n + 1) |-> i]
    BY <2>2 DEF Numbers
  <2>4. Append(s, n + 1) = [i \in 1..(k + 1) |-> IF i \in 1..k THEN s[i] ELSE n + 1]
    <3>1. Append(s, n + 1) \in Seq(Nat) /\ Len(Append(s, n + 1)) = k + 1
      BY <1>3, AppendProperties
    <3>2. \A i \in 1..(k + 1) : Append(s, n + 1)[i] = IF i \in 1..k THEN s[i] ELSE n + 1
      BY <1>1, <1>3, AppendProperties
    <3>3. Append(s, n + 1) = [i \in 1..(k + 1) |-> Append(s, n + 1)[i]]
      BY <3>1
    <3> QED BY <3>2, <3>3
  <2>5. \A i \in 1..(n + 1) : (IF i \in 1..k THEN s[i] ELSE n + 1) = i
    BY <1>2, <2>1
  <2> QED BY <2>1, <2>3, <2>4, <2>5
<1>5. ASSUME ~(Len(s) < MaxInBatch) PROVE s = Numbers(n + 1)
  <2>1. k = MaxInBatch /\ n >= MaxInBatch
    BY <1>1, <1>3, <1>5 DEF k
  <2>2. (IF n + 1 < MaxInBatch THEN n + 1 ELSE MaxInBatch) = k
    BY <1>1, <2>1
  <2> QED BY <1>2, <2>2 DEF Numbers
<1>6. Numbers(0) = <<>>
  <2>1. (IF 0 < MaxInBatch THEN 0 ELSE MaxInBatch) = 0
    BY <1>1
  <2>2. Numbers(0) = [i \in 1..0 |-> i]
    BY <2>1 DEF Numbers
  <2> QED BY <2>2
<1> QED BY <1>4, <1>5, <1>6 DEF s

\* An open batch with the line the message may bring it.
LEMMA GatheredIs ==
  ASSUME ServerTyped, BatchesFollow, conn = "up", NEW m \in Message, BatchView(m)
  PROVE  /\ DOMAIN Gathered(m) = DOMAIN batches
         /\ \A b \in DOMAIN batches :
              Gathered(m)[b] = Numbers(IF b = m.batch THEN inBatch[b] + 1 ELSE inBatch[b])
<1>1. DOMAIN batches \subseteq Refs /\ \A b \in DOMAIN batches : batches[b] = Numbers(inBatch[b])
  BY DEF BatchesFollow
<1>2. \A b \in Refs : inBatch[b] \in Nat
  BY DEF ServerTyped
<1>3. CASE m.batch \in DOMAIN batches /\ Len(batches[m.batch]) < MaxInBatch
  <2>1. Gathered(m) = [batches EXCEPT ![m.batch] = Append(batches[m.batch], m.nth)]
    BY <1>3 DEF Gathered
  <2>2. m.batch \in Refs /\ m.batch # Nobody /\ batches[m.batch] = Numbers(inBatch[m.batch])
    BY <1>1, <1>3, NobodyAssumption
  <2>3. m.nth = inBatch[m.batch] + 1
    BY <2>2 DEF BatchView
  <2>4. Append(batches[m.batch], m.nth) = Numbers(inBatch[m.batch] + 1)
    BY <1>2, <1>3, <2>2, <2>3, NumbersGrow
  <2> QED BY <1>1, <1>3, <2>1, <2>4
<1>4. CASE ~(m.batch \in DOMAIN batches /\ Len(batches[m.batch]) < MaxInBatch)
  <2>1. Gathered(m) = batches
    BY <1>4 DEF Gathered
  <2>2. ASSUME m.batch \in DOMAIN batches
        PROVE  batches[m.batch] = Numbers(inBatch[m.batch] + 1)
    <3>1. m.batch \in Refs /\ batches[m.batch] = Numbers(inBatch[m.batch])
      BY <1>1, <2>2
    <3> QED BY <1>2, <1>4, <2>2, <3>1, NumbersGrow
  <2> QED BY <1>1, <2>1, <2>2
<1> QED BY <1>3, <1>4

\* A message keeps the batches in step with the server's, and its event is whole.
LEMMA SpeechKeepsBatches ==
  ASSUME ServerTyped, BatchesFollow, NEW m \in Message, Speech(m)
  PROVE  BatchesFollow' /\ BatchesAreWhole'
<1> DEFINE g == Gathered(m)
<1>1. conn = "up" /\ conn' = "up" /\ Dispatches(m) /\ BatchView(m)
  BY DEF Speech, Hears
<1>2. /\ DOMAIN g = DOMAIN batches
      /\ \A b \in DOMAIN batches : g[b] = Numbers(IF b = m.batch THEN inBatch[b] + 1 ELSE inBatch[b])
  BY <1>1, GatheredIs
<1>3. /\ DOMAIN batches \subseteq Refs /\ \A b \in DOMAIN batches : b \in open
      /\ \A b \in Refs \ open : inBatch[b] = 0
  BY <1>1 DEF BatchesFollow
<1>4. /\ \A b \in Refs : inBatch'[b] = IF m.command = "-" /\ b = m.ref THEN 0
                                       ELSE IF b = m.batch THEN inBatch[b] + 1 ELSE inBatch[b]
      /\ open' = IF m.command = "+" THEN open \cup {m.ref}
                 ELSE IF m.command = "-" THEN open \ {m.ref} ELSE open
  BY <1>1 DEF BatchView
<1>5. \A b \in Refs \ open' : inBatch'[b] = 0
  <2>1. m.batch # Nobody => m.batch \in open /\ m.batch # m.ref
    BY <1>1 DEF BatchView
  <2>2. Nobody \notin Refs
    BY NobodyAssumption
  <2>3. m.batch \in Refs => m.batch \in open'
    BY <1>4, <2>1, <2>2
  <2> QED BY <1>3, <1>4, <2>3
<1>6. NoEvent.lines = Numbers(NoEvent.meant)
  BY NumbersGrow DEF NoEvent
<1>7. \/ /\ m.command = "+"
         /\ batches' = [b \in DOMAIN batches \cup {m.ref} |-> IF b = m.ref THEN <<>> ELSE g[b]]
         /\ surfaced' = NoEvent
      \/ /\ m.command = "-" /\ m.ref \in DOMAIN batches
         /\ batches' = [b \in DOMAIN batches \ {m.ref} |-> g[b]]
         /\ surfaced' = [lines |-> g[m.ref], meant |-> inBatch[m.ref]]
      \/ /\ ~(m.command = "-" /\ m.ref \in DOMAIN batches)
         /\ batches' = g /\ surfaced' = NoEvent
  BY <1>1 DEF Dispatches
<1> HIDE DEF g
<1>8. CASE /\ m.command = "+"
           /\ batches' = [b \in DOMAIN batches \cup {m.ref} |-> IF b = m.ref THEN <<>> ELSE g[b]]
           /\ surfaced' = NoEvent
  <2>1. m.ref \in Refs \ open /\ m.ref # m.batch
    BY <1>1, <1>8, NobodyAssumption DEF BatchView
  <2>2. inBatch'[m.ref] = 0
    BY <1>3, <1>4, <1>8, <2>1
  <2>3. ASSUME NEW b \in DOMAIN batches' PROVE b \in open' /\ batches'[b] = Numbers(inBatch'[b])
    <3>1. CASE b = m.ref
      BY <1>4, <1>8, <2>2, <3>1, NumbersGrow
    <3>2. CASE b # m.ref
      <4>1. b \in DOMAIN batches /\ b \in Refs /\ batches'[b] = g[b]
        BY <1>3, <1>8, <2>3, <3>2
      <4> QED BY <1>2, <1>3, <1>4, <1>8, <3>2, <4>1
    <3> QED BY <3>1, <3>2
  <2>4. DOMAIN batches' \subseteq Refs
    BY <1>3, <1>8, <2>1
  <2> QED BY <1>5, <1>6, <1>8, <2>3, <2>4 DEF BatchesFollow, BatchesAreWhole, Numbers
<1>9. CASE /\ m.command = "-" /\ m.ref \in DOMAIN batches
           /\ batches' = [b \in DOMAIN batches \ {m.ref} |-> g[b]]
           /\ surfaced' = [lines |-> g[m.ref], meant |-> inBatch[m.ref]]
  <2>1. m.ref # m.batch
    BY <1>1, <1>3, <1>9, NobodyAssumption DEF BatchView
  <2>2. g[m.ref] = Numbers(inBatch[m.ref])
    BY <1>2, <1>9, <2>1
  <2>3. ASSUME NEW b \in DOMAIN batches' PROVE b \in open' /\ batches'[b] = Numbers(inBatch'[b])
    <3>1. b \in DOMAIN batches /\ b \in Refs /\ b # m.ref /\ batches'[b] = g[b]
      BY <1>3, <1>9, <2>3
    <3> QED BY <1>2, <1>3, <1>4, <1>9, <3>1
  <2>4. DOMAIN batches' \subseteq Refs
    BY <1>3, <1>9
  <2>5. surfaced'.lines = Numbers(surfaced'.meant)
    BY <1>9, <2>2
  <2> QED BY <1>5, <2>3, <2>4, <2>5 DEF BatchesFollow, BatchesAreWhole, Numbers
<1>10. CASE /\ ~(m.command = "-" /\ m.ref \in DOMAIN batches)
            /\ batches' = g /\ surfaced' = NoEvent
  <2>1. ASSUME NEW b \in DOMAIN batches' PROVE b \in open' /\ batches'[b] = Numbers(inBatch'[b])
    <3>1. b \in DOMAIN batches /\ b \in Refs /\ batches'[b] = g[b]
      BY <1>2, <1>3, <1>10, <2>1
    <3>2. ~(m.command = "-" /\ b = m.ref)
      BY <1>10, <3>1
    <3> QED BY <1>2, <1>3, <1>4, <3>1, <3>2
  <2>2. DOMAIN batches' \subseteq Refs
    BY <1>2, <1>3, <1>10
  <2> QED BY <1>5, <1>6, <1>10, <2>1, <2>2 DEF BatchesFollow, BatchesAreWhole, Numbers
<1> QED BY <1>7, <1>8, <1>9, <1>10

-----------------------------------------------------------------------------
(* The connection, its keepalive, and who waits on it.                     *)

\* A message keeps who waits, and no more of them.
LEMMA SpeechKeepsWaiters ==
  ASSUME CallsTyped, WaitersAreLive, NEW m \in Message, Speech(m)
  PROVE  CallsTyped' /\ WaitersAreLive'
<1>1. Named(m) /\ request' = Replied(m) /\ UNCHANGED <<conn, epoch>>
  BY DEF Speech, Hears, BatchView, Named
<1>2. /\ CallsTyped'
      /\ \A r \in Requests :
           /\ request[r] \in Call
           /\ request[r].status = "awaiting" => request'[r] = Awaits(request[r], r, m)
           /\ request[r].status = "collecting" => request'[r] = Collects(request[r], m)
           /\ request[r].status \notin {"awaiting", "collecting"} => request'[r] = request[r]
  BY <1>1, RepliedIs
<1>3. ASSUME NEW r \in Requests, r \in Pending'
      PROVE  r \in Pending /\ request'[r].born = request[r].born /\ request'[r].late = request[r].late
  <2>0. request'[r].status \in {"awaiting", "collecting"}
    BY <1>3 DEF Pending
  <2>1. CASE request[r].status = "awaiting"
    <3> DEFINE q == request[r]
               c == request'[r]
    <3>1. q \in Call /\ c = Awaits(q, r, m)
      BY <1>2, <2>1
    <3> HIDE DEF q, c
    <3>a. AwaitsAs(q, r, m, c)
      BY <1>1, <3>1, AwaitsIs
    <3>2. /\ m.label # r => c = q
          /\ m.label = r /\ m.command = "ACK" => c = Resolved(<<>>)
          /\ m.label = r /\ m.command = "+" => c.born = q.born /\ c.late = q.late
          /\ m.label = r /\ m.command \in {"line", "-"} => c = Resolved(<<m.part>>)
      BY <3>a DEF AwaitsAs
    <3>3. /\ Resolved(<<>>).status = "resolved" /\ Resolved(<<m.part>>).status = "resolved"
      <4>1. <<>> \in Seq(Asker \X Nat) /\ <<m.part>> \in Seq(Asker \X Nat)
        BY DEF Message
      <4> QED BY <4>1, SettledTyped
    <3>4. m.command \in {"ACK", "line", "+", "-"}
      BY DEF Message
    <3>5. c.born = q.born /\ c.late = q.late
      BY <2>0, <3>2, <3>3, <3>4 DEF c
    <3> QED BY <2>1, <3>5 DEF Pending, q, c
  <2>2. CASE request[r].status = "collecting"
    <3> DEFINE q == request[r]
               c == request'[r]
    <3>1. q \in Call /\ c = Collects(q, m) /\ q.collected \in Seq(Asker \X Nat)
      BY <1>2, <2>2 DEF Call
    <3>2. c = Resolved(q.collected) \/ c = Rejected \/ c = q \/ (c.born = q.born /\ c.late = q.late)
      BY <1>1, <3>1, CollectsIs
    <3>3. Resolved(q.collected).status = "resolved" /\ Rejected.status = "rejected"
      BY <3>1, SettledTyped
    <3>4. c.born = q.born /\ c.late = q.late
      BY <2>0, <3>2, <3>3
    <3> QED BY <2>2, <3>4 DEF Pending
  <2>3. CASE request[r].status \notin {"awaiting", "collecting"}
    BY <1>2, <2>0, <2>3
  <2> QED BY <2>1, <2>2, <2>3
<1>4. \A r \in Pending' : r \in Requests
  BY DEF Pending
<1> QED BY <1>1, <1>2, <1>3, <1>4 DEF WaitersAreLive

\* A message resets the countdown.
LEMMA SpeechKeepsTimers ==
  ASSUME TimersAgree, NEW m, Hears(m)
  PROVE  TimersAgree' /\ UNCHANGED <<conn, epoch>>
<1>1. Interval \in Nat /\ Window \in Nat
  BY ConversationAssumption
<1>2. idle' = 0 /\ silence' = 0 /\ pinged' = FALSE /\ UNCHANGED <<alarm, conn, epoch>>
  BY DEF Hears, Resets
<1>3. 0 <= Interval /\ 0 \in Nat
  BY <1>1
<1> QED BY <1>2, <1>3 DEF TimersAgree

\* The end of a connection rejects every request that is pending and takes the server's side.
LEMMA EndIs ==
  ASSUME CallsTyped, ServerTyped, RejectsAll, NoServer
  PROVE  /\ CallsTyped' /\ Pending' = {} /\ ServerTyped'
         /\ open' = {} /\ \A b \in Refs : inBatch'[b] = 0
<1>0. Nobody \in Asker /\ Nobody \in Ref
  BY DEF Asker, Ref
<1>1. Rejected \in Call /\ Rejected.status = "rejected"
  <2>1. <<>> \in Seq(Asker \X Nat)
    OBVIOUS
  <2> QED BY <2>1, SettledTyped
<1>2. CallsTyped'
  BY <1>1 DEF CallsTyped, RejectsAll
<1>3. ASSUME NEW r \in Requests PROVE request'[r].status \notin {"awaiting", "collecting"}
  <2>1. CASE r \in Pending
    BY <1>1, <2>1 DEF RejectsAll
  <2>2. CASE r \notin Pending
    BY <2>2 DEF RejectsAll, Pending
  <2> QED BY <2>1, <2>2
<1>4. Pending' = {}
  BY <1>3 DEF Pending
<1>5. ServerTyped' /\ open' = {} /\ \A b \in Refs : inBatch'[b] = 0
  BY <1>0 DEF NoServer, ServerTyped
<1> QED BY <1>2, <1>4, <1>5

-----------------------------------------------------------------------------
(* The base invariant.                                                     *)

\* It holds of a new client, connected for the first time.
LEMMA BaseInit == Init => BaseInv
<1> SUFFICES ASSUME Init PROVE BaseInv
  OBVIOUS
<1>0. Nobody \in Asker /\ Nobody \in Ref
  BY DEF Asker, Ref
<1>1. ConnTyped
  BY ConversationAssumption DEF Init, ConnTyped
<1>2. Unasked \in Call /\ Unasked.status = "none"
  <2>1. <<>> \in Seq(Asker \X Nat)
    OBVIOUS
  <2> QED BY <2>1, SettledTyped
<1>3. CallsTyped
  BY <1>2 DEF Init, CallsTyped
<1>4. ServerTyped
  BY <1>0 DEF Init, ServerTyped
<1>5. BatchesFollow
  <2>1. batches = <<>> /\ \A b \in Refs : inBatch[b] = 0
    BY DEF Init
  <2>2. DOMAIN batches = {}
    BY <2>1
  <2> QED BY <2>1, <2>2 DEF BatchesFollow
<1>6. BatchesAreWhole
  <2>1. surfaced.lines = <<>> /\ surfaced.meant = 0
    BY DEF Init, NoEvent
  <2>2. surfaced.lines = Numbers(surfaced.meant)
    BY <2>1, NumbersGrow
  <2> QED BY <2>2 DEF BatchesAreWhole, Numbers
<1>7. TimersAgree
  <2>1. 0 <= Interval
    BY ConversationAssumption
  <2> QED BY <2>1 DEF Init, TimersAgree
<1>8. WaitersAreLive
  <2>1. \A r \in Requests : request[r].status = "none"
    BY <1>2 DEF Init
  <2> QED BY <2>1 DEF WaitersAreLive, Pending
<1> QED BY <1>1, <1>3, <1>4, <1>5, <1>6, <1>7, <1>8 DEF BaseInv

\* A request as it is made on connection n, and in a handler of its end or not.
Made(c, n, l) == c = [Unasked EXCEPT !.status = "awaiting", !.born = n, !.late = l]

\* A request that is made is a call that awaits its reply.
LEMMA MadeIs ==
  ASSUME NEW n \in Nat, NEW l \in BOOLEAN, NEW c, Made(c, n, l)
  PROVE  /\ c \in Call /\ c.status = "awaiting" /\ c.born = n /\ c.late = l
         /\ c.collected = <<>>
<1> DEFINE e == <<>>
           d == [status |-> "awaiting", born |-> n, late |-> l, topRef |-> Nobody, refs |-> {},
                 collected |-> e]
<1>1. c = d
  BY DEF Made, Unasked
<1>2. Nobody \in Ref /\ e \in Seq(Asker \X Nat)
  BY DEF Ref
<1> HIDE DEF e
<1>3. d \in Call
  BY <1>2 DEF Call
<1>4. d.status = "awaiting" /\ d.born = n /\ d.late = l /\ d.collected = e
  OBVIOUS
<1> HIDE DEF d
<1> QED BY <1>1, <1>3, <1>4 DEF e

\* What becomes of a request that is made or times out.
LEMMA CallIs ==
  ASSUME ConnTyped, NEW r \in Requests, Asks(r) \/ TimesOut(r)
  PROVE  \E c \in Call :
           /\ request' = [request EXCEPT ![r] = c]
           /\ \/ c = Rejected
              \/ /\ c.status = "awaiting" /\ c.collected = <<>> /\ request[r].status = "none"
                 /\ c.born = epoch /\ (c.late <=> conn = "dropping") /\ conn \in {"up", "dropping"}
<1>0. Rejected \in Call
  <2>1. <<>> \in Seq(Asker \X Nat)
    OBVIOUS
  <2> QED BY <2>1, SettledTyped
<1>1. epoch \in Nat
  BY ConversationAssumption DEF ConnTyped
<1>2. CASE Asks(r)
  <2>1. /\ conn \in {"up", "dropping"} /\ request[r].status = "none"
        /\ \/ request' = [request EXCEPT ![r] = Rejected]
           \/ request' = [request EXCEPT ![r] = [Unasked EXCEPT
                            !.status = "awaiting", !.born = epoch, !.late = (conn = "dropping")]]
    BY <1>2 DEF Asks
  <2>2. CASE request' = [request EXCEPT ![r] = [Unasked EXCEPT
                           !.status = "awaiting", !.born = epoch, !.late = (conn = "dropping")]]
    <3>1. PICK c : Made(c, epoch, conn = "dropping")
      BY DEF Made
    <3>2. request' = [request EXCEPT ![r] = c]
      BY <2>2, <3>1 DEF Made
    <3>3. c \in Call /\ c.status = "awaiting" /\ c.born = epoch /\ c.collected = <<>>
          /\ (c.late <=> conn = "dropping")
      <4>1. CASE conn = "dropping"
        <5>1. Made(c, epoch, TRUE)
          BY <3>1, <4>1 DEF Made
        <5> QED BY <1>1, <4>1, <5>1, MadeIs
      <4>2. CASE conn # "dropping"
        <5>1. Made(c, epoch, FALSE)
          BY <3>1, <4>2 DEF Made
        <5> QED BY <1>1, <4>2, <5>1, MadeIs
      <4> QED BY <4>1, <4>2
    <3> QED BY <2>1, <3>2, <3>3
  <2> QED BY <1>0, <2>1, <2>2
<1>3. CASE TimesOut(r)
  BY <1>0, <1>3 DEF TimesOut
<1> QED BY <1>2, <1>3

\* A request that is made, or times out, changes nothing but itself.
LEMMA CallsKeepBase ==
  ASSUME BaseInv, NEW r \in Requests, Asks(r) \/ TimesOut(r)
  PROVE  BaseInv'
<1>0. /\ ConnTyped /\ CallsTyped /\ ServerTyped /\ BatchesFollow /\ BatchesAreWhole
      /\ TimersAgree /\ WaitersAreLive
  BY DEF BaseInv
<1>1. /\ UNCHANGED <<conn, epoch, batches, surfaced, idle, pinged, silence, alarm,
                     open, owner, top, said, answered, inBatch>>
      /\ asked' = asked \/ asked' = asked \cup {r}
  BY DEF Asks, TimesOut, keepalive, server
<1>2. ConnTyped' /\ ServerTyped' /\ BatchesFollow' /\ BatchesAreWhole' /\ TimersAgree'
  <2>1. asked' \subseteq Requests
    BY <1>0, <1>1 DEF ServerTyped
  <2>2. ConnTyped'
    BY <1>0, <1>1 DEF ConnTyped
  <2>3. ServerTyped'
    BY <1>0, <1>1, <2>1 DEF ServerTyped
  <2>4. BatchesFollow' /\ BatchesAreWhole'
    BY <1>0, <1>1 DEF BatchesFollow, BatchesAreWhole
  <2>5. TimersAgree'
    BY <1>0, <1>1 DEF TimersAgree
  <2> QED BY <2>2, <2>3, <2>4, <2>5
<1>6. PICK c \in Call :
        /\ request' = [request EXCEPT ![r] = c]
        /\ \/ c = Rejected
           \/ /\ c.status = "awaiting" /\ c.born = epoch /\ (c.late <=> conn = "dropping")
              /\ conn \in {"up", "dropping"}
  BY <1>0, CallIs
<1>7. CallsTyped' /\ request'[r] = c /\ \A q \in Requests : q # r => request'[q] = request[q]
  BY <1>0, <1>6 DEF CallsTyped
<1>8. WaitersAreLive'
  <2>1. ASSUME NEW q \in Requests, q \in Pending'
        PROVE  conn # "closed" /\ (request'[q].late \/ (conn = "up" /\ request'[q].born = epoch))
    <3>1. CASE q = r
      <4>1. c # Rejected
        <5>1. Rejected.status = "rejected"
          <6>1. <<>> \in Seq(Asker \X Nat)
            OBVIOUS
          <6> QED BY <6>1, SettledTyped
        <5> QED BY <1>7, <2>1, <3>1, <5>1 DEF Pending
      <4> QED BY <1>6, <1>7, <3>1, <4>1
    <3>2. CASE q # r
      <4>1. request'[q] = request[q]
        BY <1>7, <3>2
      <4>2. q \in Pending
        BY <2>1, <4>1 DEF Pending
      <4> QED BY <1>0, <4>1, <4>2 DEF WaitersAreLive
    <3> QED BY <3>1, <3>2
  <2>2. \A q \in Pending' : q \in Requests
    BY DEF Pending
  <2> QED BY <1>1, <2>1, <2>2 DEF WaitersAreLive
<1> QED BY <1>2, <1>7, <1>8 DEF BaseInv

\* The end of a connection, whichever way, leaves nothing to wait on.
LEMMA EndKeepsBase ==
  ASSUME BaseInv, RejectsAll, NoServer, conn' \in {"dropping", "closed"},
         UNCHANGED <<epoch, batches, surfaced>>, TimersAgree'
  PROVE  BaseInv'
<1>0. /\ ConnTyped /\ CallsTyped /\ ServerTyped /\ BatchesFollow /\ BatchesAreWhole
  BY DEF BaseInv
<1>1. /\ CallsTyped' /\ Pending' = {} /\ ServerTyped'
      /\ open' = {} /\ \A b \in Refs : inBatch'[b] = 0
  BY <1>0, EndIs
<1>2. ConnTyped' /\ BatchesAreWhole'
  BY <1>0 DEF ConnTyped, BatchesAreWhole
<1>3. BatchesFollow'
  BY <1>0, <1>1 DEF BatchesFollow
<1>4. WaitersAreLive'
  BY <1>1 DEF WaitersAreLive
<1> QED BY <1>1, <1>2, <1>3, <1>4 DEF BaseInv

\* Every step keeps it.
LEMMA BaseNext == BaseInv /\ [Next]_vars => BaseInv'
<1> SUFFICES ASSUME BaseInv, [Next]_vars PROVE BaseInv'
  OBVIOUS
<1>0. /\ ConnTyped /\ CallsTyped /\ ServerTyped /\ BatchesFollow /\ BatchesAreWhole
      /\ TimersAgree /\ WaitersAreLive
  BY DEF BaseInv
<1>a. Interval \in Nat /\ Window \in Nat /\ Interval + Window # 0
  BY ConversationAssumption
<1>b. /\ idle \in Nat /\ silence \in Nat /\ alarm \in Nat /\ pinged \in BOOLEAN
      /\ conn = "up" /\ ~pinged => silence = idle /\ idle <= Interval
      /\ conn = "up" /\ pinged => silence = Interval + idle /\ idle <= Window
      /\ alarm # 0 => alarm >= Interval + Window
  BY <1>0 DEF TimersAgree
<1>1. CASE ServerSpeaks
  <2>1. PICK m \in Message : Speech(m)
    BY <1>0, <1>1, ServerSpeaksIs
  <2>2. ServerTyped'
    BY <1>0, <1>1, ServerSpeaksIs
  <2>3. BatchesFollow' /\ BatchesAreWhole'
    BY <1>0, <2>1, SpeechKeepsBatches
  <2>4. CallsTyped' /\ WaitersAreLive'
    BY <1>0, <2>1, SpeechKeepsWaiters
  <2>5. Hears(m)
    BY <2>1 DEF Speech
  <2>6. TimersAgree' /\ UNCHANGED <<conn, epoch>>
    BY <1>0, <2>5, SpeechKeepsTimers
  <2>7. ConnTyped'
    BY <1>0, <2>6 DEF ConnTyped
  <2> QED BY <2>2, <2>3, <2>4, <2>6, <2>7 DEF BaseInv
<1>2. ASSUME NEW r \in Requests, Asks(r) \/ TimesOut(r) PROVE BaseInv'
  BY <1>2, CallsKeepBase
<1>3. CASE ConnectionLost
  <2>1. /\ conn = "up" /\ conn' = "dropping" /\ RejectsAll /\ NoServer
        /\ UNCHANGED <<epoch, batches, surfaced, idle, pinged, silence, alarm>>
    BY <1>3 DEF ConnectionLost, Drops, keepalive
  <2>2. TimersAgree'
    BY <1>0, <2>1 DEF TimersAgree
  <2> QED BY <2>1, <2>2, EndKeepsBase
<1>4. CASE Pings
  <2>1. CASE Drops /\ UNCHANGED keepalive
    <3>1. /\ conn = "up" /\ conn' = "dropping" /\ RejectsAll /\ NoServer
          /\ UNCHANGED <<epoch, batches, surfaced, idle, pinged, silence, alarm>>
      BY <2>1 DEF Drops, keepalive
    <3>2. TimersAgree'
      BY <1>0, <3>1 DEF TimersAgree
    <3> QED BY <3>1, <3>2, EndKeepsBase
  <2>2. CASE /\ pinged' = TRUE /\ idle' = 0
             /\ UNCHANGED <<conn, epoch, request, batches, surfaced, silence, alarm, server>>
    <3>1. conn = "up" /\ ~pinged /\ idle >= Interval
      BY <1>4 DEF Pings
    <3>2. silence = Interval
      BY <1>a, <1>b, <3>1
    <3>3. silence = Interval + 0 /\ 0 <= Window /\ 0 \in Nat
      BY <1>a, <3>2
    <3>4. TimersAgree'
      BY <1>b, <2>2, <3>3 DEF TimersAgree
    <3>5. UNCHANGED <<conn, epoch, request, batches, surfaced, asked, open, owner, top, said,
                      answered, inBatch>>
      BY <2>2 DEF server
    <3>6. ConnTyped' /\ CallsTyped' /\ ServerTyped'
      BY <1>0, <3>5 DEF ConnTyped, CallsTyped, ServerTyped
    <3>7. BatchesFollow' /\ BatchesAreWhole' /\ WaitersAreLive'
      BY <1>0, <3>5 DEF BatchesFollow, BatchesAreWhole, WaitersAreLive, Pending
    <3> QED BY <3>4, <3>6, <3>7 DEF BaseInv
  <2> QED BY <1>4, <2>1, <2>2 DEF Pings
<1>5. CASE WindowElapses
  <2>1. /\ conn = "up" /\ pinged /\ idle >= Window /\ conn' = "dropping" /\ RejectsAll /\ NoServer
        /\ UNCHANGED <<epoch, batches, surfaced, idle, pinged, silence>> /\ alarm' = silence
    BY <1>5 DEF WindowElapses, Drops
  <2>2. alarm' \in Nat /\ alarm' >= Interval + Window
    BY <1>a, <1>b, <2>1
  <2>3. TimersAgree'
    BY <1>b, <2>1, <2>2 DEF TimersAgree
  <2> QED BY <2>1, <2>3, EndKeepsBase
<1>6. CASE Tick
  <2>1. /\ conn = "up" /\ idle < (IF pinged THEN Window ELSE Interval)
        /\ idle' = idle + 1 /\ silence' = silence + 1
        /\ UNCHANGED <<conn, epoch, request, batches, surfaced, pinged, alarm, server>>
    BY <1>6 DEF Tick
  <2>2. /\ idle' \in Nat /\ silence' \in Nat
        /\ ~pinged => silence' = idle' /\ idle' <= Interval
        /\ pinged => silence' = Interval + idle' /\ idle' <= Window
    BY <1>a, <1>b, <2>1
  <2>3. TimersAgree'
    BY <1>b, <2>1, <2>2 DEF TimersAgree
  <2>4. UNCHANGED <<conn, epoch, request, batches, surfaced, asked, open, owner, top, said,
                    answered, inBatch>>
    BY <2>1 DEF server
  <2>5. ConnTyped' /\ CallsTyped' /\ ServerTyped'
    BY <1>0, <2>4 DEF ConnTyped, CallsTyped, ServerTyped
  <2>6. BatchesFollow' /\ BatchesAreWhole' /\ WaitersAreLive'
    BY <1>0, <2>4 DEF BatchesFollow, BatchesAreWhole, WaitersAreLive, Pending
  <2> QED BY <2>3, <2>5, <2>6 DEF BaseInv
<1>7. CASE BacksOff
  <2>1. /\ conn = "dropping" /\ conn' = "down"
        /\ UNCHANGED <<epoch, request, batches, surfaced, idle, pinged, silence, alarm,
                       asked, open, owner, top, said, answered, inBatch>>
    BY <1>7 DEF BacksOff, keepalive, server
  <2>2. ConnTyped' /\ CallsTyped' /\ ServerTyped'
    BY <1>0, <2>1 DEF ConnTyped, CallsTyped, ServerTyped
  <2>3. BatchesFollow' /\ BatchesAreWhole'
    BY <1>0, <2>1 DEF BatchesFollow, BatchesAreWhole
  <2>4. TimersAgree'
    BY <1>b, <2>1 DEF TimersAgree
  <2>5. Pending' = Pending
    BY <2>1 DEF Pending
  <2>6. WaitersAreLive'
    BY <1>0, <2>1, <2>5 DEF WaitersAreLive
  <2> QED BY <2>2, <2>3, <2>4, <2>6 DEF BaseInv
<1>8. CASE Reconnects
  <2>1. /\ conn = "down" /\ epoch < MaxConnections /\ conn' = "up" /\ epoch' = epoch + 1
        /\ batches' = <<>> /\ idle' = 0 /\ pinged' = FALSE /\ silence' = 0 /\ alarm' = 0
        /\ UNCHANGED <<request, surfaced, asked, open, owner, top, said, answered, inBatch>>
    BY <1>8 DEF Reconnects, server
  <2>2. ConnTyped'
    <3>1. epoch \in 1..MaxConnections /\ MaxConnections \in Nat
      BY <1>0, ConversationAssumption DEF ConnTyped
    <3>2. epoch + 1 \in 1..MaxConnections
      BY <2>1, <3>1
    <3> QED BY <2>1, <3>2 DEF ConnTyped
  <2>3. CallsTyped' /\ ServerTyped'
    BY <1>0, <2>1 DEF CallsTyped, ServerTyped
  <2>4. BatchesFollow' /\ BatchesAreWhole'
    <3>1. DOMAIN batches' = {}
      BY <2>1
    <3>2. BatchesFollow'
      BY <1>0, <2>1, <3>1 DEF BatchesFollow
    <3>3. BatchesAreWhole'
      BY <1>0, <2>1 DEF BatchesAreWhole
    <3> QED BY <3>2, <3>3
  <2>5. TimersAgree'
    <3>1. 0 <= Interval /\ 0 \in Nat
      BY <1>a
    <3> QED BY <2>1, <3>1 DEF TimersAgree
  <2>6. Pending' = Pending
    BY <2>1 DEF Pending
  <2>7. WaitersAreLive'
    BY <1>0, <2>1, <2>6 DEF WaitersAreLive
  <2> QED BY <2>2, <2>3, <2>4, <2>5, <2>7 DEF BaseInv
<1>9. CASE ShutsDown
  <2>1. /\ conn' = "closed" /\ RejectsAll /\ NoServer
        /\ UNCHANGED <<epoch, batches, surfaced, idle, pinged, silence, alarm>>
    BY <1>9 DEF ShutsDown, keepalive
  <2>2. TimersAgree'
    BY <1>b, <2>1 DEF TimersAgree
  <2> QED BY <2>1, <2>2, EndKeepsBase
<1>10. CASE UNCHANGED vars
  <2>1. UNCHANGED <<conn, epoch, request, batches, surfaced, idle, pinged, silence, alarm,
                    asked, open, owner, top, said, answered, inBatch>>
    BY <1>10 DEF vars, keepalive, server
  <2>2. ConnTyped' /\ CallsTyped' /\ ServerTyped'
    BY <1>0, <2>1 DEF ConnTyped, CallsTyped, ServerTyped
  <2>3. BatchesFollow' /\ BatchesAreWhole' /\ TimersAgree'
    BY <1>0, <2>1 DEF BatchesFollow, BatchesAreWhole, TimersAgree
  <2>4. Pending' = Pending
    BY <2>1 DEF Pending
  <2>5. WaitersAreLive'
    BY <1>0, <2>1, <2>4 DEF WaitersAreLive
  <2> QED BY <2>2, <2>3, <2>5 DEF BaseInv
<1> QED BY <1>1, <1>2, <1>3, <1>4, <1>5, <1>6, <1>7, <1>8, <1>9, <1>10 DEF Next

\* The base invariant is one of every behaviour.
LEMMA BaseInvariance == Spec => []BaseInv
<1>1. Init => BaseInv
  BY BaseInit
<1>2. BaseInv /\ [Next]_vars => BaseInv'
  BY BaseNext
<1> QED BY <1>1, <1>2, PTL DEF Spec

\* Every value that the client and the server keep has its type.
THEOREM TypeCorrect == Spec => []TypeOK
<1>1. BaseInv => TypeOK
  <2> SUFFICES ASSUME BaseInv PROVE TypeOK
    OBVIOUS
  <2>1. ASSUME NEW r \in Requests
        PROVE  /\ request[r].status \in {"none", "awaiting", "collecting", "resolved", "rejected"}
               /\ request[r].refs \subseteq Refs
    BY DEF BaseInv, CallsTyped, Call
  <2> QED BY <2>1 DEF BaseInv, ConnTyped, BatchesFollow, TimersAgree, TypeOK
<1> QED BY <1>1, BaseInvariance, PTL

\* A batch event has the lines of its batch, in order and from the first on, however many
\* batches are open and however their lines interleave (dispatch.ts, handleBatch).
THEOREM BatchEventsAreWhole == Spec => []BatchesAreWhole
<1>1. BaseInv => BatchesAreWhole
  BY DEF BaseInv
<1> QED BY <1>1, BaseInvariance, PTL

\* Keepalive fails a connection that has been silent for an interval and a window, and no
\* other one: the PING and its window neither add to the silence nor hide any of it.
THEOREM KeepaliveMeasuresSilence == Spec => []SilenceIsMeasured
<1>1. BaseInv => SilenceIsMeasured
  <2> SUFFICES ASSUME BaseInv PROVE SilenceIsMeasured
    OBVIOUS
  <2>1. Interval \in Nat /\ Window \in Nat
    BY ConversationAssumption
  <2> QED BY <2>1 DEF BaseInv, TimersAgree, SilenceIsMeasured
<1> QED BY <1>1, BaseInvariance, PTL

\* Between tasks a request that is pending belongs to the connection that is up, but for one
\* made while its handlers were told of its end: the first conjunct of RequestsSettle.
THEOREM WaitersBelongToTheConnection == Spec => []PendingAreLive
<1>1. BaseInv => PendingAreLive
  BY DEF BaseInv, WaitersAreLive, PendingAreLive
<1> QED BY <1>1, BaseInvariance, PTL

-----------------------------------------------------------------------------
(* Replies.  A server that does not use a reference again while its reply   *)
(* is open keeps the references of the replies apart, and a request that    *)
(* collects knows all of its own.                                          *)

Owned(q)       == {b \in Refs : owner[b] = q}
Numbered(q, n) == [i \in 1..n |-> <<q, i>>]

\* How far the server is with the reply to a request.
Answering(q) ==
  /\ top[q] # Nobody => q \in asked \ answered /\ top[q] \in Owned(q)
  /\ top[q] = Nobody => Owned(q) = {}
  /\ top[q] = Nobody /\ q \notin answered => said[q] = 0

\* How far the request is with it: exactly as far, as long as it waits.
Following(q) ==
  /\ request[q].status = "none" => q \notin asked \cup answered
  /\ request[q].status = "awaiting" =>
       top[q] = Nobody /\ q \notin answered /\ request[q].collected = <<>>
  /\ request[q].status = "collecting" =>
       /\ top[q] # Nobody /\ request[q].topRef = top[q] /\ request[q].refs = Owned(q)
       /\ request[q].collected = Numbered(q, said[q])
  /\ request[q].status = "resolved" =>
       q \in answered /\ request[q].collected = Numbered(q, said[q])

RepliesFollow == \A q \in Requests : Answering(q) /\ Following(q)

\* A reply that has one more line.
LEMMA NumberedGrows ==
  ASSUME NEW q, NEW n \in Nat
  PROVE  /\ Append(Numbered(q, n), <<q, n + 1>>) = Numbered(q, n + 1)
         /\ Numbered(q, 0) = <<>>
         /\ Numbered(q, 1) = <<<<q, 1>>>>
<1> DEFINE s == Numbered(q, n)
           e == <<q, n + 1>>
           S == {<<q, i>> : i \in Nat}
<1>1. s \in Seq(S) /\ Len(s) = n /\ \A i \in 1..n : s[i] = <<q, i>>
  <2>1. s = [i \in 1..n |-> <<q, i>>]
    BY DEF Numbered
  <2>2. \A i \in 1..n : <<q, i>> \in S
    OBVIOUS
  <2> QED BY <2>1, <2>2
<1>2. e \in S /\ \A i \in 1..(n + 1) : i = n + 1 => e = <<q, i>>
  OBVIOUS
<1> HIDE DEF s, S, e
<1>3. Append(s, e) = Numbered(q, n + 1)
  <2>1. Append(s, e) \in Seq(S) /\ Len(Append(s, e)) = n + 1
    BY <1>1, <1>2, AppendProperties
  <2>2. ASSUME NEW i \in 1..(n + 1) PROVE Append(s, e)[i] = <<q, i>>
    <3>1. CASE i \in 1..n
      BY <1>1, <1>2, <3>1, AppendProperties
    <3>2. CASE i = n + 1
      <4>1. Append(s, e)[Len(s) + 1] = e
        BY <1>1, <1>2, AppendProperties
      <4>2. Append(s, e)[i] = e
        BY <1>1, <3>2, <4>1
      <4> QED BY <1>2, <3>2, <4>2
    <3>3. i \in 1..n \/ i = n + 1
      OBVIOUS
    <3> QED BY <3>1, <3>2, <3>3
  <2>3. ASSUME NEW t \in Seq(S), Len(t) = n + 1 PROVE t = [i \in 1..(n + 1) |-> t[i]]
    BY <2>3
  <2> QED BY <2>1, <2>2, <2>3 DEF Numbered
<1>4. Numbered(q, 0) = <<>>
  BY DEF Numbered
<1>5. Numbered(q, 1) = <<<<q, 1>>>>
  BY DEF Numbered
<1> QED BY <1>3, <1>4, <1>5 DEF s, e

\* What a message, and the server with it, can be to one request: nothing; the whole of its
\* reply; the start of its batch; a line in it, which may open or close a nested batch; or
\* the end of it.
Same(q) ==
  top'[q] = top[q] /\ said'[q] = said[q] /\ Owned(q)' = Owned(q)
    /\ (q \in answered' <=> q \in answered)

Apart(q, m) ==
  /\ m.label # q /\ m.batch \notin Owned(q) /\ (m.command = "-" => m.ref # top[q])
  /\ Same(q)

Whole(q, m) ==
  /\ m.label = q /\ Unread(q) /\ top'[q] = top[q] /\ Owned(q)' = Owned(q) /\ q \in answered'
  /\ \/ m.command = "ACK" /\ said'[q] = said[q]
     \/ m.command = "line" /\ m.part = <<q, said[q] + 1>> /\ said'[q] = said[q] + 1

Starts(q, m) ==
  /\ m.label = q /\ m.command = "+" /\ Unread(q) /\ m.ref \in Refs
  /\ top'[q] = m.ref /\ Owned(q)' = {m.ref} /\ said'[q] = said[q] /\ q \notin answered'

Goes(q, m) ==
  /\ m.label # q /\ m.batch \in Owned(q) /\ (m.command = "-" => m.ref # top[q])
  /\ m.part = <<q, said[q] + 1>> /\ said'[q] = said[q] + 1
  /\ top'[q] = top[q] /\ (q \in answered' <=> q \in answered)
  /\ Owned(q)' = IF m.command = "+" THEN Owned(q) \cup {m.ref} ELSE Owned(q)

Ends(q, m) ==
  /\ m.command = "-" /\ m.ref = top[q] /\ top[q] # Nobody
  /\ top'[q] = Nobody /\ Owned(q)' = {} /\ said'[q] = said[q] /\ q \in answered'

ReplyView(q, m) == Apart(q, m) \/ Whole(q, m) \/ Starts(q, m) \/ Goes(q, m) \/ Ends(q, m)

\* A request follows its reply through any message.
LEMMA MessageIsFollowed ==
  ASSUME ServerTyped, CallsTyped, NEW q \in Requests, Answering(q), Following(q),
         NEW m \in Message, Named(m), request' = Replied(m), ReplyView(q, m), asked' = asked
  PROVE  Answering(q)' /\ Following(q)'
<1> DEFINE k == request[q]
           c == request'[q]
<1>0. /\ k \in Call
      /\ k.status = "awaiting" => c = Awaits(k, q, m)
      /\ k.status = "collecting" => c = Collects(k, m)
      /\ k.status \notin {"awaiting", "collecting"} => c = k
  BY RepliedIs
<1>1. said[q] \in Nat /\ Nobody \notin Refs
  BY NobodyAssumption DEF ServerTyped
<1>2. k.collected \in Seq(Asker \X Nat) /\ <<>> \in Seq(Asker \X Nat)
      /\ <<m.part>> \in Seq(Asker \X Nat)
  BY <1>0 DEF Call, Message
<1>3. /\ Rejected.status = "rejected"
      /\ Resolved(<<>>).status = "resolved" /\ Resolved(<<>>).collected = <<>>
      /\ Resolved(<<m.part>>).status = "resolved" /\ Resolved(<<m.part>>).collected = <<m.part>>
      /\ Resolved(k.collected).status = "resolved" /\ Resolved(k.collected).collected = k.collected
  BY <1>2, SettledTyped
<1>4. /\ Numbered(q, 0) = <<>> /\ Numbered(q, 1) = <<<<q, 1>>>>
      /\ Append(Numbered(q, said[q]), <<q, said[q] + 1>>) = Numbered(q, said[q] + 1)
  <2>1. 0 \in Nat
    OBVIOUS
  <2> QED BY <1>1, <2>1, NumberedGrows
<1>5. k.status \in {"none", "awaiting", "collecting", "resolved", "rejected"}
  BY <1>0 DEF Call
<1>6. /\ top[q] # Nobody => q \in asked \ answered /\ top[q] \in Owned(q)
      /\ top[q] = Nobody => Owned(q) = {}
      /\ top[q] = Nobody /\ q \notin answered => said[q] = 0
  BY DEF Answering
<1>7. /\ k.status = "none" => q \notin asked \cup answered
      /\ k.status = "awaiting" => top[q] = Nobody /\ q \notin answered /\ k.collected = <<>>
      /\ k.status = "collecting" =>
           top[q] # Nobody /\ k.topRef = top[q] /\ k.refs = Owned(q) /\ k.collected = Numbered(q, said[q])
      /\ k.status = "resolved" => q \in answered /\ k.collected = Numbered(q, said[q])
  BY DEF Following
<1>a. k.status = "awaiting" => AwaitsAs(k, q, m, c)
  BY <1>0, AwaitsIs
<1>b. k.status = "collecting" =>
        /\ m.command = "-" /\ m.ref = k.topRef => c = Resolved(k.collected)
        /\ ~(m.command = "-" /\ m.ref = k.topRef) /\ m.batch \notin k.refs => c = k
        /\ ~(m.command = "-" /\ m.ref = k.topRef) /\ m.batch \in k.refs =>
             \/ c = Rejected
             \/ /\ c.status = k.status /\ c.topRef = k.topRef
                /\ c.collected = Append(k.collected, m.part)
                /\ c.refs = IF m.command = "+" THEN k.refs \cup {m.ref} ELSE k.refs
  BY <1>0, CollectsIs
<1> HIDE DEF k, c
<1>8. CASE Apart(q, m)
  <2>1. /\ m.label # q /\ m.batch \notin Owned(q) /\ (m.command = "-" => m.ref # top[q])
        /\ Same(q)
    BY <1>8 DEF Apart
  <2>2. c = k
    <3>1. k.status = "awaiting" => c = k
      BY <1>a, <2>1 DEF AwaitsAs
    <3>2. k.status = "collecting" => c = k
      BY <1>7, <1>b, <2>1
    <3> QED BY <1>0, <3>1, <3>2 DEF k, c
  <2>3. Answering(q)'
    BY <1>6, <2>1 DEF Same, Answering
  <2>4. Following(q)'
    BY <1>7, <2>1, <2>2 DEF Same, Following, k, c
  <2> QED BY <2>3, <2>4
<1>9. CASE Whole(q, m)
  <2>1. /\ m.label = q /\ q \in asked /\ q \notin answered /\ top[q] = Nobody
        /\ top'[q] = top[q] /\ Owned(q)' = Owned(q) /\ q \in answered'
        /\ \/ m.command = "ACK" /\ said'[q] = said[q]
           \/ m.command = "line" /\ m.part = <<q, said[q] + 1>> /\ said'[q] = said[q] + 1
    BY <1>9 DEF Whole, Unread
  <2>2. said[q] = 0 /\ k.status \in {"awaiting", "rejected"}
    BY <1>5, <1>6, <1>7, <2>1
  <2>3. Answering(q)'
    BY <1>6, <2>1 DEF Answering
  <2>4. CASE k.status = "rejected"
    <3>1. c = k
      BY <1>0, <2>4 DEF k, c
    <3> QED BY <2>3, <2>4, <3>1 DEF Following, c
  <2>5. CASE k.status = "awaiting"
    <3>1. c.status = "resolved" /\ c.collected = Numbered(q, said'[q])
      <4>1. CASE m.command = "ACK" /\ said'[q] = said[q]
        <5>1. c = Resolved(<<>>)
          BY <1>a, <2>1, <2>5, <4>1 DEF AwaitsAs
        <5> QED BY <1>3, <1>4, <2>2, <4>1, <5>1
      <4>2. CASE m.command = "line" /\ m.part = <<q, said[q] + 1>> /\ said'[q] = said[q] + 1
        <5>1. c = Resolved(<<m.part>>)
          BY <1>a, <2>1, <2>5, <4>2 DEF AwaitsAs
        <5>2. said'[q] = 1 /\ m.part = <<q, 1>>
          BY <2>2, <4>2
        <5> QED BY <1>3, <1>4, <5>1, <5>2
      <4> QED BY <2>1, <4>1, <4>2
    <3> QED BY <2>1, <2>3, <3>1 DEF Following, c
  <2> QED BY <2>2, <2>4, <2>5
<1>10. CASE Starts(q, m)
  <2>1. /\ m.label = q /\ m.command = "+" /\ q \in asked /\ q \notin answered /\ top[q] = Nobody
        /\ m.ref \in Refs /\ top'[q] = m.ref /\ Owned(q)' = {m.ref} /\ said'[q] = said[q]
        /\ q \notin answered'
    BY <1>10 DEF Starts, Unread
  <2>2. said[q] = 0 /\ k.status \in {"awaiting", "rejected"} /\ m.ref # Nobody
    BY <1>1, <1>5, <1>6, <1>7, <2>1
  <2>3. Answering(q)'
    BY <2>1, <2>2 DEF Answering
  <2>4. CASE k.status = "rejected"
    <3>1. c = k
      BY <1>0, <2>4 DEF k, c
    <3> QED BY <2>3, <2>4, <3>1 DEF Following, c
  <2>5. CASE k.status = "awaiting"
    <3>1. c.status = "collecting" /\ c.topRef = m.ref /\ c.refs = {m.ref} /\ c.collected = <<>>
      BY <1>7, <1>a, <2>1, <2>5 DEF AwaitsAs
    <3>2. c.collected = Numbered(q, said'[q])
      BY <1>4, <2>1, <2>2, <3>1
    <3> QED BY <2>1, <2>2, <2>3, <3>1, <3>2 DEF Following, c
  <2> QED BY <2>2, <2>4, <2>5
<1>11. CASE Goes(q, m)
  <2>1. /\ m.batch \in Owned(q) /\ (m.command = "-" => m.ref # top[q])
        /\ m.part = <<q, said[q] + 1>> /\ said'[q] = said[q] + 1
        /\ top'[q] = top[q] /\ (q \in answered' <=> q \in answered)
        /\ Owned(q)' = IF m.command = "+" THEN Owned(q) \cup {m.ref} ELSE Owned(q)
    BY <1>11 DEF Goes
  <2>2. top[q] # Nobody /\ q \in asked \ answered /\ top[q] \in Owned(q)
    BY <1>6, <2>1
  <2>3. k.status \in {"collecting", "rejected"}
    BY <1>5, <1>7, <2>2
  <2>4. Answering(q)'
    BY <2>1, <2>2 DEF Answering
  <2>5. CASE k.status = "rejected"
    <3>1. c = k
      BY <1>0, <2>5 DEF k, c
    <3> QED BY <2>4, <2>5, <3>1 DEF Following, c
  <2>6. CASE k.status = "collecting"
    <3>1. c = Rejected \/ (c.status = "collecting" /\ c.topRef = top[q]
                            /\ c.collected = Append(k.collected, m.part)
                            /\ c.refs = IF m.command = "+" THEN k.refs \cup {m.ref} ELSE k.refs)
      BY <1>7, <1>b, <2>1, <2>6
    <3>2. CASE c = Rejected
      BY <1>3, <2>4, <3>2 DEF Following, c
    <3>3. CASE c.status = "collecting" /\ c.topRef = top[q]
                 /\ c.collected = Append(k.collected, m.part)
                 /\ c.refs = IF m.command = "+" THEN k.refs \cup {m.ref} ELSE k.refs
      <4>1. c.collected = Numbered(q, said'[q])
        BY <1>4, <1>7, <2>1, <2>6, <3>3
      <4>2. c.refs = Owned(q)'
        BY <1>7, <2>1, <2>6, <3>3
      <4> QED BY <2>1, <2>2, <2>4, <3>3, <4>1, <4>2 DEF Following, c
    <3> QED BY <3>1, <3>2, <3>3
  <2> QED BY <2>3, <2>5, <2>6
<1>12. CASE Ends(q, m)
  <2>1. /\ m.command = "-" /\ m.ref = top[q] /\ top[q] # Nobody
        /\ top'[q] = Nobody /\ Owned(q)' = {} /\ said'[q] = said[q] /\ q \in answered'
    BY <1>12 DEF Ends
  <2>2. q \in asked \ answered
    BY <1>6, <2>1
  <2>3. k.status \in {"collecting", "rejected"}
    BY <1>5, <1>7, <2>1, <2>2
  <2>4. Answering(q)'
    BY <2>1 DEF Answering
  <2>5. CASE k.status = "rejected"
    <3>1. c = k
      BY <1>0, <2>5 DEF k, c
    <3> QED BY <2>4, <2>5, <3>1 DEF Following, c
  <2>6. CASE k.status = "collecting"
    <3>1. c = Resolved(k.collected)
      BY <1>7, <1>b, <2>1, <2>6
    <3>2. c.status = "resolved" /\ c.collected = Numbered(q, said'[q])
      BY <1>3, <1>7, <2>1, <2>6, <3>1
    <3> QED BY <2>1, <2>4, <3>2 DEF Following, c
  <2> QED BY <2>3, <2>5, <2>6
<1> QED BY <1>8, <1>9, <1>10, <1>11, <1>12 DEF ReplyView

\* A message of the server, and what it is to every request.
Heard(m) ==
  Named(m) /\ Hears(m) /\ asked' = asked /\ \A q \in Requests : ReplyView(q, m)

\* A message that is not for a request, and of no batch of its reply.
LEMMA OthersApart ==
  ASSUME NEW q \in Requests, Answering(q), NEW m, m.label # q, m.batch \notin Owned(q), Same(q),
         m.command = "-" => m.ref \in Refs /\ m.ref \notin Owned(q)
  PROVE  ReplyView(q, m)
<1>1. m.command = "-" => m.ref # top[q]
  BY NobodyAssumption DEF Answering
<1> QED BY <1>1 DEF Apart, ReplyView

\* Nothing changes for a request whose references are left alone.
LEMMA SameIs ==
  ASSUME NEW q \in Requests, top'[q] = top[q], said'[q] = said[q],
         \A b \in Refs : owner'[b] = q <=> owner[b] = q, q \in answered' <=> q \in answered
  PROVE  Same(q)
<1>1. Owned(q)' = Owned(q)
  BY DEF Owned
<1> QED BY <1>1 DEF Same

\* Whatever the server says, it is one thing to each request.
LEMMA ServerIsHeard ==
  ASSUME ~ReusesRefs, ServerTyped, \A q \in Requests : Answering(q), ServerSpeaks
  PROVE  \E m \in Message : Heard(m)
<1>0. /\ Nobody \in Asker /\ Nobody \in Ref /\ Nobody \notin Refs /\ Nobody \notin Requests
      /\ \A b \in Refs : b \in Ref /\ b # Nobody
      /\ \A r \in Requests : r \in Asker /\ r # Nobody
  BY NobodyAssumption DEF Asker, Ref
<1>1. /\ \A r \in Requests : said[r] \in Nat /\ top[r] \in Ref
      /\ owner \in [Refs -> Asker] /\ top \in [Requests -> Ref] /\ said \in [Requests -> Nat]
  BY DEF ServerTyped
<1>2. ASSUME NEW r \in Asker, NEW b \in Of(r) PROVE b \in Refs /\ b \in Ref /\ owner[b] = r
  BY <1>0 DEF Of, ServerTyped
<1>3. ASSUME NEW b \in Unused PROVE b \in Refs /\ owner[b] = Nobody
  BY <1>3 DEF Unused
<1>4. ASSUME NEW r \in Requests
      PROVE  /\ Says(r) \in [Requests -> Nat] /\ Says(r)[r] = said[r] + 1
             /\ \A q \in Requests : q # r => Says(r)[q] = said[q]
  BY <1>1 DEF Says
<1>5. ASSUME NEW b \in Refs, NEW r \in Asker, owner' = [owner EXCEPT ![b] = r]
      PROVE  owner'[b] = r /\ \A c \in Refs : c # b => owner'[c] = owner[c]
  BY <1>1, <1>5
<1>6. ASSUME NEW q \in Requests, NEW b \in Refs PROVE b \in Owned(q) <=> owner[b] = q
  BY DEF Owned
<1>7. ASSUME NEW q \in Requests PROVE Nobody \notin Owned(q)
  BY <1>0 DEF Owned
<1>8. CASE Chats
  <2>1. CASE Hears(Line("line", Nobody, Nobody, Nobody, Nobody)) /\ UNCHANGED server
    <3> DEFINE m == Line("line", Nobody, Nobody, Nobody, Nobody)
    <3>1. m \in Message /\ m.command = "line" /\ m.label = Nobody /\ m.batch = Nobody
      BY <1>0, LineIs
    <3>2. Hears(m) /\ UNCHANGED <<asked, open, owner, top, said, answered>>
      BY <2>1 DEF server
    <3> HIDE DEF m
    <3>3. ASSUME NEW q \in Requests PROVE ReplyView(q, m)
      <4>1. Same(q)
        BY <3>2, SameIs
      <4>2. m.label # q /\ m.batch \notin Owned(q)
        BY <1>0, <1>7, <3>1
      <4> QED BY <3>1, <4>1, <4>2, OthersApart
    <3> QED BY <3>1, <3>2, <3>3 DEF Heard, Named
  <2>2. ASSUME NEW b \in Unused, Hears(Line("+", Nobody, b, Nobody, Nobody)),
               owner' = [owner EXCEPT ![b] = Nobody], UNCHANGED <<asked, top, said, answered>>
        PROVE  \E m \in Message : Heard(m)
    <3> DEFINE m == Line("+", Nobody, b, Nobody, Nobody)
    <3>0. b \in Refs /\ b \in Ref /\ owner[b] = Nobody
      BY <1>0, <1>3
    <3>1. /\ m \in Message /\ m.command = "+" /\ m.label = Nobody /\ m.batch = Nobody
          /\ m.ref = b
      BY <1>0, <3>0, LineIs
    <3>2. Hears(m) /\ \A c \in Refs : owner'[c] = owner[c]
      BY <1>0, <1>5, <2>2, <3>0
    <3> HIDE DEF m
    <3>3. ASSUME NEW q \in Requests PROVE ReplyView(q, m)
      <4>1. Same(q)
        BY <2>2, <3>2, SameIs
      <4>2. m.label # q /\ m.batch \notin Owned(q) /\ b \notin Owned(q)
        BY <1>0, <1>6, <1>7, <3>0, <3>1
      <4> QED BY <3>0, <3>1, <4>1, <4>2, OthersApart
    <3> QED BY <2>2, <3>0, <3>1, <3>2, <3>3 DEF Heard, Named
  <2>3. ASSUME NEW b \in Of(Nobody), Hears(Line("line", Nobody, Nobody, b, Nobody)),
               UNCHANGED <<asked, owner, top, said, answered>>
        PROVE  \E m \in Message : Heard(m)
    <3> DEFINE m == Line("line", Nobody, Nobody, b, Nobody)
    <3>0. b \in Refs /\ b \in Ref /\ owner[b] = Nobody
      BY <1>0, <1>0, <1>2
    <3>1. /\ m \in Message /\ m.command = "line" /\ m.label = Nobody /\ m.batch = b
          /\ m.ref = Nobody
      BY <1>0, <3>0, LineIs
    <3>2. Hears(m) /\ \A c \in Refs : owner'[c] = owner[c]
      BY <1>0, <1>5, <2>3, <3>0
    <3> HIDE DEF m
    <3>3. ASSUME NEW q \in Requests PROVE ReplyView(q, m)
      <4>1. Same(q)
        BY <2>3, <3>2, SameIs
      <4>2. m.label # q /\ m.batch \notin Owned(q) /\ b \notin Owned(q)
        BY <1>0, <1>6, <1>7, <3>0, <3>1
      <4> QED BY <3>0, <3>1, <4>1, <4>2, OthersApart
    <3> QED BY <2>3, <3>0, <3>1, <3>2, <3>3 DEF Heard, Named
  <2>4. ASSUME NEW b \in Of(Nobody), Hears(Line("-", Nobody, b, Nobody, Nobody)),
               UNCHANGED <<asked, owner, top, said, answered>>
        PROVE  \E m \in Message : Heard(m)
    <3> DEFINE m == Line("-", Nobody, b, Nobody, Nobody)
    <3>0. b \in Refs /\ b \in Ref /\ owner[b] = Nobody
      BY <1>0, <1>0, <1>2
    <3>1. /\ m \in Message /\ m.command = "-" /\ m.label = Nobody /\ m.batch = Nobody
          /\ m.ref = b
      BY <1>0, <3>0, LineIs
    <3>2. Hears(m) /\ \A c \in Refs : owner'[c] = owner[c]
      BY <1>0, <1>5, <2>4, <3>0
    <3> HIDE DEF m
    <3>3. ASSUME NEW q \in Requests PROVE ReplyView(q, m)
      <4>1. Same(q)
        BY <2>4, <3>2, SameIs
      <4>2. m.label # q /\ m.batch \notin Owned(q) /\ b \notin Owned(q)
        BY <1>0, <1>6, <1>7, <3>0, <3>1
      <4> QED BY <3>0, <3>1, <4>1, <4>2, OthersApart
    <3> QED BY <2>4, <3>0, <3>1, <3>2, <3>3 DEF Heard, Named
  <2> QED BY <1>8, <2>1, <2>2, <2>3, <2>4 DEF Chats
<1>9. ASSUME NEW r \in Requests, AnswersAck(r) PROVE \E m \in Message : Heard(m)
  <2> DEFINE m == Line("ACK", r, Nobody, Nobody, r)
  <2>1. /\ Hears(m) /\ Unread(r) /\ answered' = answered \cup {r} /\ UNCHANGED said
        /\ UNCHANGED <<asked, owner, top>>
    BY <1>9 DEF AnswersAck
  <2>2. /\ m \in Message /\ m.command = "ACK" /\ m.label = r /\ m.batch = Nobody
        /\ m.part = <<r, said[r] + 1>>
    BY <1>0, LineIs
  <2> HIDE DEF m
  <2>3. ASSUME NEW q \in Requests, q # r PROVE ReplyView(q, m)
    <3>1. said'[q] = said[q]
      BY <1>4, <2>1, <2>3
    <3>2. Same(q)
      BY <2>1, <2>3, <3>1, SameIs
    <3>3. m.batch \notin Owned(q)
      BY <1>7, <2>2
    <3> QED BY <2>2, <2>3, <3>2, <3>3, OthersApart
  <2>4. ReplyView(r, m)
    <3>1. Owned(r)' = Owned(r)
      BY <2>1 DEF Owned
    <3>2. said'[r] = said[r]
      BY <1>4, <2>1
    <3> QED BY <2>1, <2>2, <3>1, <3>2 DEF Whole, ReplyView
  <2>5. \A q \in Requests : ReplyView(q, m)
    BY <2>3, <2>4
  <2> QED BY <1>0, <2>1, <2>2, <2>5 DEF Heard, Named
<1>10. ASSUME NEW r \in Requests, AnswersLine(r) PROVE \E m \in Message : Heard(m)
  <2> DEFINE m == Line("line", r, Nobody, Nobody, r)
  <2>1. /\ Hears(m) /\ Unread(r) /\ answered' = answered \cup {r} /\ said' = Says(r)
        /\ UNCHANGED <<asked, owner, top>>
    BY <1>10 DEF AnswersLine
  <2>2. /\ m \in Message /\ m.command = "line" /\ m.label = r /\ m.batch = Nobody
        /\ m.part = <<r, said[r] + 1>>
    BY <1>0, LineIs
  <2> HIDE DEF m
  <2>3. ASSUME NEW q \in Requests, q # r PROVE ReplyView(q, m)
    <3>1. said'[q] = said[q]
      BY <1>4, <2>1, <2>3
    <3>2. Same(q)
      BY <2>1, <2>3, <3>1, SameIs
    <3>3. m.batch \notin Owned(q)
      BY <1>7, <2>2
    <3> QED BY <2>2, <2>3, <3>2, <3>3, OthersApart
  <2>4. ReplyView(r, m)
    <3>1. Owned(r)' = Owned(r)
      BY <2>1 DEF Owned
    <3>2. said'[r] = said[r] + 1
      BY <1>4, <2>1
    <3> QED BY <2>1, <2>2, <3>1, <3>2 DEF Whole, ReplyView
  <2>5. \A q \in Requests : ReplyView(q, m)
    BY <2>3, <2>4
  <2> QED BY <1>0, <2>1, <2>2, <2>5 DEF Heard, Named
<1>11. ASSUME NEW r \in Requests, NEW b \in Refs, AnswersBatch(r, b) PROVE \E m \in Message : Heard(m)
  <2> DEFINE m == Line("+", r, b, Nobody, Nobody)
  <2>1. /\ Hears(m) /\ Unread(r) /\ owner[b] = Nobody
        /\ owner' = [owner EXCEPT ![b] = r] /\ top' = [top EXCEPT ![r] = b]
        /\ UNCHANGED <<asked, said, answered>>
    BY <1>3, <1>11 DEF AnswersBatch
  <2>2. /\ m \in Message /\ m.command = "+" /\ m.label = r /\ m.batch = Nobody /\ m.ref = b
    BY <1>0, LineIs
  <2> HIDE DEF m
  <2>3. ASSUME NEW q \in Requests, q # r PROVE ReplyView(q, m)
    <3>1. top'[q] = top[q] /\ \A c \in Refs : owner'[c] = q <=> owner[c] = q
      BY <1>0, <1>1, <1>5, <2>1, <2>3
    <3>2. Same(q)
      BY <2>1, <3>1, SameIs
    <3>3. m.batch \notin Owned(q)
      BY <1>7, <2>2
    <3> QED BY <2>2, <2>3, <3>2, <3>3, OthersApart
  <2>4. ReplyView(r, m)
    <3>1. Owned(r) = {} /\ r \notin answered
      BY <2>1 DEF Answering, Unread
    <3>5. \A c \in Refs : owner[c] # r
      BY <1>6, <3>1
    <3>2. \A c \in Refs : owner'[c] = r <=> c = b
      BY <1>0, <1>5, <2>1, <3>5
    <3>3. Owned(r)' = {b}
      BY <3>2 DEF Owned
    <3>4. top'[r] = b
      BY <1>1, <2>1
    <3> QED BY <2>1, <2>2, <3>1, <3>3, <3>4 DEF Starts, ReplyView
  <2>5. \A q \in Requests : ReplyView(q, m)
    BY <2>3, <2>4
  <2> QED BY <1>0, <2>1, <2>2, <2>5 DEF Heard, Named
<1>12. ASSUME NEW r \in Requests, NEW b \in Refs, AnswersMore(r, b) PROVE \E m \in Message : Heard(m)
  <2> DEFINE m == Line("line", Nobody, Nobody, b, r)
  <2>1. Hears(m) /\ owner[b] = r /\ said' = Says(r) /\ UNCHANGED <<asked, owner, top, answered>>
    BY <1>0, <1>2, <1>12 DEF AnswersMore
  <2>2. /\ m \in Message /\ m.command = "line" /\ m.label = Nobody /\ m.batch = b
        /\ m.part = <<r, said[r] + 1>>
    BY <1>0, LineIs
  <2> HIDE DEF m
  <2>3. ASSUME NEW q \in Requests, q # r PROVE ReplyView(q, m)
    <3>1. said'[q] = said[q]
      BY <1>4, <2>1, <2>3
    <3>2. Same(q)
      BY <2>1, <3>1, SameIs
    <3>3. m.batch \notin Owned(q) /\ m.label # q
      BY <1>0, <1>6, <2>1, <2>2, <2>3
    <3> QED BY <2>2, <3>2, <3>3, OthersApart
  <2>4. ReplyView(r, m)
    <3>1. Owned(r)' = Owned(r) /\ b \in Owned(r)
      BY <1>6, <2>1 DEF Owned
    <3>2. said'[r] = said[r] + 1 /\ m.label # r
      BY <1>0, <1>4, <2>1, <2>2
    <3> QED BY <2>1, <2>2, <3>1, <3>2 DEF Goes, ReplyView
  <2>5. \A q \in Requests : ReplyView(q, m)
    BY <2>3, <2>4
  <2> QED BY <1>0, <2>1, <2>2, <2>5 DEF Heard, Named
<1>13. ASSUME NEW r \in Requests, NEW b \in Refs, NEW c \in Refs, Nests(r, b, c) PROVE \E m \in Message : Heard(m)
  <2> DEFINE m == Line("+", Nobody, c, b, r)
  <2>1. /\ Hears(m) /\ owner[b] = r /\ owner[c] = Nobody /\ said' = Says(r)
        /\ owner' = [owner EXCEPT ![c] = r] /\ UNCHANGED <<asked, top, answered>>
    BY <1>0, <1>2, <1>3, <1>13 DEF Nests
  <2>2. /\ m \in Message /\ m.command = "+" /\ m.label = Nobody /\ m.batch = b /\ m.ref = c
        /\ m.part = <<r, said[r] + 1>>
    BY <1>0, LineIs
  <2> HIDE DEF m
  <2>3. ASSUME NEW q \in Requests, q # r PROVE ReplyView(q, m)
    <3>1. said'[q] = said[q] /\ \A d \in Refs : owner'[d] = q <=> owner[d] = q
      BY <1>0, <1>4, <1>5, <2>1, <2>3
    <3>2. Same(q)
      BY <2>1, <3>1, SameIs
    <3>3. m.batch \notin Owned(q) /\ m.label # q
      BY <1>0, <1>6, <2>1, <2>2, <2>3
    <3> QED BY <2>2, <3>2, <3>3, OthersApart
  <2>4. ReplyView(r, m)
    <3>1. \A d \in Refs : owner'[d] = r <=> (owner[d] = r \/ d = c)
      BY <1>0, <1>5, <2>1
    <3>2. Owned(r)' = Owned(r) \cup {c} /\ b \in Owned(r)
      BY <1>6, <2>1, <3>1 DEF Owned
    <3>3. said'[r] = said[r] + 1 /\ m.label # r
      BY <1>0, <1>4, <2>1, <2>2
    <3> QED BY <2>1, <2>2, <3>2, <3>3 DEF Goes, ReplyView
  <2>5. \A q \in Requests : ReplyView(q, m)
    BY <2>3, <2>4
  <2> QED BY <1>0, <2>1, <2>2, <2>5 DEF Heard, Named
<1>14. ASSUME NEW r \in Requests, NEW b \in Refs, NEW c \in Refs, Unnests(r, b, c)
       PROVE  \E m \in Message : Heard(m)
  <2>1. /\ owner[b] = r /\ owner[c] = r /\ c # top[r] /\ UNCHANGED <<asked, owner, top, answered>>
        /\ \/ Hears(Line("-", Nobody, c, b, r)) /\ said' = Says(r)
           \/ Hears(Line("-", Nobody, c, Nobody, Nobody)) /\ UNCHANGED said
    BY <1>0, <1>2, <1>14 DEF Unnests
  <2>2. \A q \in Requests : Owned(q)' = Owned(q) /\ (q # r => b \notin Owned(q) /\ c \notin Owned(q))
    BY <1>6, <2>1 DEF Owned
  <2>3. CASE Hears(Line("-", Nobody, c, b, r)) /\ said' = Says(r)
    <3> DEFINE m == Line("-", Nobody, c, b, r)
    <3>1. /\ m \in Message /\ m.command = "-" /\ m.label = Nobody /\ m.batch = b /\ m.ref = c
          /\ m.part = <<r, said[r] + 1>>
      BY <1>0, LineIs
    <3>2. Hears(m)
      BY <2>3
    <3> HIDE DEF m
    <3>3. ASSUME NEW q \in Requests, q # r PROVE ReplyView(q, m)
      <4>1. said'[q] = said[q]
        BY <1>4, <2>3, <3>3
      <4>2. Same(q)
        BY <2>1, <4>1, SameIs
      <4>3. m.batch \notin Owned(q) /\ m.label # q
        BY <1>0, <2>2, <3>1, <3>3
      <4> QED BY <2>2, <3>1, <3>3, <4>2, <4>3, OthersApart
    <3>4. ReplyView(r, m)
      <4>1. b \in Owned(r) /\ said'[r] = said[r] + 1 /\ m.label # r
        BY <1>0, <1>4, <1>6, <2>1, <2>3, <3>1
      <4> QED BY <2>1, <2>2, <3>1, <4>1 DEF Goes, ReplyView
    <3>5. \A q \in Requests : ReplyView(q, m)
      BY <3>3, <3>4
    <3> QED BY <2>1, <3>1, <3>2, <3>5 DEF Heard, Named
  <2>4. CASE Hears(Line("-", Nobody, c, Nobody, Nobody)) /\ UNCHANGED said
    <3> DEFINE m == Line("-", Nobody, c, Nobody, Nobody)
    <3>1. m \in Message /\ m.command = "-" /\ m.label = Nobody /\ m.batch = Nobody /\ m.ref = c
      BY <1>0, LineIs
    <3>2. Hears(m)
      BY <2>4
    <3> HIDE DEF m
    <3>3. ASSUME NEW q \in Requests PROVE ReplyView(q, m)
      <4>1. Same(q)
        BY <2>1, <2>4, SameIs
      <4>2. m.batch \notin Owned(q) /\ m.label # q
        BY <1>0, <1>7, <3>1
      <4>3. m.ref # top[q]
        <5>1. top[q] # Nobody => top[q] \in Owned(q)
          BY DEF Answering
        <5> QED BY <1>0, <2>1, <2>2, <3>1, <5>1
      <4> QED BY <4>1, <4>2, <4>3 DEF Apart, ReplyView
    <3> QED BY <2>1, <3>1, <3>2, <3>3 DEF Heard, Named
  <2> QED BY <2>1, <2>3, <2>4
<1>15. ASSUME NEW r \in Requests, Closes(r) PROVE \E m \in Message : Heard(m)
  <2> DEFINE m == Line("-", Nobody, top[r], Nobody, Nobody)
  <2>0. top[r] # Nobody /\ top[r] \in Refs /\ top[r] \in Ref
    BY <1>1, <1>15 DEF Closes, Ref
  <2>1. /\ Hears(m) /\ owner' = [b \in Refs |-> IF owner[b] = r THEN Nobody ELSE owner[b]]
        /\ top' = [top EXCEPT ![r] = Nobody] /\ answered' = answered \cup {r} /\ UNCHANGED <<asked, said>>
    BY <1>15 DEF Closes
  <2>2. /\ m \in Message /\ m.command = "-" /\ m.label = Nobody /\ m.batch = Nobody
        /\ m.ref = top[r]
    BY <1>0, <2>0, LineIs
  <2> HIDE DEF m
  <2>3. ASSUME NEW q \in Requests, q # r PROVE ReplyView(q, m)
    <3>1. top'[q] = top[q] /\ \A b \in Refs : owner'[b] = q <=> owner[b] = q
      BY <1>0, <1>1, <2>1, <2>3
    <3>2. Same(q)
      BY <2>1, <2>3, <3>1, SameIs
    <3>3. m.batch \notin Owned(q) /\ m.label # q /\ m.ref \in Refs
      BY <1>0, <1>7, <2>0, <2>2
    <3>4. top[r] \in Owned(r)
      BY <2>0 DEF Answering
    <3>5. m.ref \notin Owned(q)
      BY <1>6, <2>0, <2>2, <2>3, <3>4
    <3> QED BY <2>2, <3>2, <3>3, <3>5, OthersApart
  <2>4. ReplyView(r, m)
    <3>1. \A b \in Refs : owner'[b] # r
      BY <1>0, <2>1
    <3>2. Owned(r)' = {}
      BY <3>1 DEF Owned
    <3>3. top'[r] = Nobody /\ said'[r] = said[r]
      BY <1>1, <2>1
    <3> QED BY <2>0, <2>1, <2>2, <3>2, <3>3 DEF Ends, ReplyView
  <2>5. \A q \in Requests : ReplyView(q, m)
    BY <2>3, <2>4
  <2> QED BY <1>0, <2>1, <2>2, <2>5 DEF Heard, Named
<1> QED BY <1>8, <1>9, <1>10, <1>11, <1>12, <1>13, <1>14, <1>15 DEF ServerSpeaks

\* It holds of a new client: nothing has been asked.
LEMMA RepliesInit == Init => RepliesFollow
<1> SUFFICES ASSUME Init, NEW q \in Requests PROVE Answering(q) /\ Following(q)
  BY DEF RepliesFollow
<1>1. Unasked.status = "none"
  BY DEF Unasked
<1>2. /\ request[q].status = "none" /\ asked = {} /\ answered = {} /\ top[q] = Nobody /\ said[q] = 0
      /\ \A b \in Refs : owner[b] = Nobody
  BY <1>1 DEF Init
<1>3. Owned(q) = {}
  BY <1>2, NobodyAssumption DEF Owned
<1> QED BY <1>2, <1>3 DEF Answering, Following

\* The end of a connection: every request has settled, and what is left of the server's
\* side is what it had finished.
LEMMA EndKeepsReplies ==
  ASSUME BaseInv, RepliesFollow, RejectsAll, NoServer
  PROVE  RepliesFollow'
<1> SUFFICES ASSUME NEW q \in Requests PROVE Answering(q)' /\ Following(q)'
  BY DEF RepliesFollow
<1>0. CallsTyped /\ Answering(q) /\ Following(q)
  BY DEF BaseInv, RepliesFollow
<1>1. /\ asked' = {} /\ answered' = answered /\ top'[q] = Nobody /\ \A b \in Refs : owner'[b] = Nobody
      /\ said'[q] = IF q \in answered THEN said[q] ELSE 0
  BY DEF NoServer
<1>2. Owned(q)' = {}
  BY <1>1, NobodyAssumption DEF Owned
<1>3. Answering(q)'
  BY <1>1, <1>2 DEF Answering
<1>4. Rejected.status = "rejected"
  <2>1. <<>> \in Seq(Asker \X Nat)
    OBVIOUS
  <2> QED BY <2>1, SettledTyped
<1>5. CASE q \in Pending
  <2>1. request'[q] = Rejected
    BY <1>5 DEF RejectsAll
  <2> QED BY <1>3, <1>4, <2>1 DEF Following
<1>6. CASE q \notin Pending
  <2>1. request'[q] = request[q] /\ request[q].status \notin {"awaiting", "collecting"}
    BY <1>6 DEF RejectsAll, Pending
  <2> QED BY <1>0, <1>1, <1>3, <2>1 DEF Following
<1> QED BY <1>5, <1>6

\* A request that is made, or times out, is of no account to the others.
LEMMA CallsKeepReplies ==
  ASSUME BaseInv, RepliesFollow, NEW r \in Requests, Asks(r) \/ TimesOut(r)
  PROVE  RepliesFollow'
<1>0. ConnTyped /\ CallsTyped
  BY DEF BaseInv
<1>1. PICK c \in Call :
        /\ request' = [request EXCEPT ![r] = c]
        /\ c = Rejected
           \/ (c.status = "awaiting" /\ c.collected = <<>> /\ request[r].status = "none")
  BY <1>0, CallIs
<1>2. Rejected.status = "rejected"
  <2>1. <<>> \in Seq(Asker \X Nat)
    OBVIOUS
  <2> QED BY <2>1, SettledTyped
<1>3. /\ UNCHANGED <<owner, top, said, answered>>
      /\ asked' = asked \/ asked' = asked \cup {r}
  BY DEF Asks, TimesOut, server
<1>4. ASSUME NEW q \in Requests PROVE Answering(q)' /\ Following(q)'
  <2>1. Owned(q)' = Owned(q)
    BY <1>3 DEF Owned
  <2>2. Answering(q) /\ Following(q)
    BY DEF RepliesFollow
  <2>3. Answering(q)'
    BY <1>3, <2>1, <2>2 DEF Answering
  <2>4. CASE q # r
    <3>1. request'[q] = request[q] /\ (q \in asked' <=> q \in asked)
      BY <1>0, <1>1, <1>3, <2>4 DEF CallsTyped
    <3> QED BY <1>3, <2>1, <2>2, <2>3, <3>1 DEF Following
  <2>5. CASE q = r
    <3>1. request'[q] = c
      BY <1>0, <1>1, <2>5 DEF CallsTyped
    <3>2. CASE c = Rejected
      BY <1>2, <2>3, <3>1, <3>2 DEF Following
    <3>3. CASE c.status = "awaiting" /\ c.collected = <<>> /\ request[r].status = "none"
      <4>1. q \notin asked /\ q \notin answered
        BY <2>2, <2>5, <3>3 DEF Following
      <4>2. top[q] = Nobody
        BY <2>2, <4>1 DEF Answering
      <4> QED BY <1>3, <2>3, <3>1, <3>3, <4>1, <4>2 DEF Following
    <3> QED BY <1>1, <3>2, <3>3
  <2> QED BY <2>4, <2>5
<1> QED BY <1>4 DEF RepliesFollow

\* Every step keeps it, if references are not reused.
LEMMA RepliesNext ==
  ASSUME ReusesRefs = FALSE
  PROVE  BaseInv /\ RepliesFollow /\ [Next]_vars => RepliesFollow'
<1> SUFFICES ASSUME BaseInv, RepliesFollow, [Next]_vars PROVE RepliesFollow'
  OBVIOUS
<1>0. ServerTyped /\ CallsTyped /\ \A q \in Requests : Answering(q) /\ Following(q)
  BY DEF BaseInv, RepliesFollow
<1>1. CASE ServerSpeaks
  <2>1. PICK m \in Message : Heard(m)
    BY <1>0, <1>1, ServerIsHeard
  <2>2. Named(m) /\ request' = Replied(m) /\ asked' = asked /\ \A q \in Requests : ReplyView(q, m)
    BY <2>1 DEF Heard, Hears
  <2>3. ASSUME NEW q \in Requests PROVE Answering(q)' /\ Following(q)'
    BY <1>0, <2>2, MessageIsFollowed
  <2> QED BY <2>3 DEF RepliesFollow
<1>2. ASSUME NEW r \in Requests, Asks(r) \/ TimesOut(r) PROVE RepliesFollow'
  BY <1>2, CallsKeepReplies
<1>3. CASE RejectsAll /\ NoServer
  BY <1>3, EndKeepsReplies
<1>4. CASE UNCHANGED <<request, server>>
  <2>1. UNCHANGED <<request, asked, owner, top, said, answered>>
    BY <1>4 DEF server
  <2>2. ASSUME NEW q \in Requests PROVE Answering(q)' /\ Following(q)'
    <3>1. Owned(q)' = Owned(q)
      BY <2>1 DEF Owned
    <3>2. Answering(q)'
      BY <1>0, <2>1, <3>1 DEF Answering
    <3>3. Following(q)'
      BY <1>0, <2>1, <3>1 DEF Following
    <3> QED BY <3>2, <3>3
  <2> QED BY <2>2 DEF RepliesFollow
<1>5. CASE ConnectionLost \/ Pings \/ WindowElapses \/ ShutsDown
  <2>1. (RejectsAll /\ NoServer) \/ UNCHANGED <<request, server>>
    BY <1>5 DEF ConnectionLost, Pings, WindowElapses, ShutsDown, Drops
  <2> QED BY <1>3, <1>4, <2>1
<1>6. CASE Tick \/ BacksOff \/ Reconnects \/ UNCHANGED vars
  <2>1. UNCHANGED <<request, server>>
    BY <1>6 DEF Tick, BacksOff, Reconnects, vars
  <2> QED BY <1>4, <2>1
<1> QED BY <1>1, <1>2, <1>5, <1>6 DEF Next

\* A server that does not reuse a nested reference while the reply is open: a request
\* resolves with the server's reply to it, the whole of it and nothing else, however replies,
\* nested batches and other traffic interleave, and whatever becomes of the connection
\* (IrcClient.ts, sendLabeled).
THEOREM RepliesAreTheirOwn ==
  ASSUME ReusesRefs = FALSE
  PROVE  Spec => []RepliesAreRight
<1>1. Init => BaseInv /\ RepliesFollow
  BY BaseInit, RepliesInit
<1>2. BaseInv /\ RepliesFollow /\ [Next]_vars => BaseInv' /\ RepliesFollow'
  BY BaseNext, RepliesNext
<1>3. RepliesFollow => RepliesAreRight
  BY DEF RepliesFollow, Following, RepliesAreRight, Numbered
<1> QED BY <1>1, <1>2, <1>3, PTL DEF Spec
=============================================================================
