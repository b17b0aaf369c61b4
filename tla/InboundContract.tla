-------------------------- MODULE InboundContract ---------------------------
(***************************************************************************)
(* What the stream of messages promises, however the bytes are cut into     *)
(* chunks: every line is understood once, in order, as it was meant; one    *)
(* that has no meaning is passed over; and only one that is longer than the  *)
(* client cares to hold may be lost, by itself.                             *)
(***************************************************************************)
EXTENDS Naturals, Sequences

VARIABLES
  pending,  \* lines under way: [meant, long], {the message that is meant} or {}
  heard     \* the messages that have been passed on

vars == <<pending, heard>>

Init == pending = <<>> /\ heard = <<>>

\* Whoever is at the other end may send any line.
Send ==
  /\ Len(pending') = Len(pending) + 1 /\ SubSeq(pending', 1, Len(pending)) = pending
  /\ UNCHANGED heard

\* Any of the long lines may be lost; nothing may be added, changed or overtaken.
Passed(line, lost) == IF lost THEN {} ELSE line.meant

\* The first n lines are received, all but those of L.
Receive(n, L) ==
  LET Kept[i \in 0..n] ==
        IF i = 0 THEN <<>>
        ELSE IF Passed(pending[i], i \in L) = {} THEN Kept[i - 1]
        ELSE Append(Kept[i - 1], CHOOSE m \in pending[i].meant : TRUE)
  IN  /\ heard' = heard \o Kept[n]
      /\ pending' = SubSeq(pending, n + 1, Len(pending))

Next ==
  \/ Send
  \/ \E n \in 1..Len(pending) :
       \E L \in SUBSET {i \in 1..n : pending[i].long} : Receive(n, L)

Spec == Init /\ [][Next]_vars

=============================================================================
