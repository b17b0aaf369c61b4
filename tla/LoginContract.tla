--------------------------- MODULE LoginContract ---------------------------
(***************************************************************************)
(* What register() promises its caller, with everything about the wire     *)
(* left out: a login is negotiated, possibly authenticated, and settles    *)
(* once.  A client that holds credentials is only ever admitted after the  *)
(* authenticated phase.  Registration refines this specification.          *)
(***************************************************************************)
VARIABLES credentials, \* are SASL credentials configured (never changes)
          phase        \* how far the login got

Phases == {"negotiating", "authenticated", "registered", "failed"}

Init == credentials \in BOOLEAN /\ phase = "negotiating"

\* Only a client with credentials authenticates.
Authenticate ==
  /\ credentials
  /\ phase = "negotiating"
  /\ phase' = "authenticated"
  /\ UNCHANGED credentials

\* Fail closed: with credentials, there is no way in but through authentication.
Admit ==
  /\ phase = IF credentials THEN "authenticated" ELSE "negotiating"
  /\ phase' = "registered"
  /\ UNCHANGED credentials

Fail ==
  /\ phase \in {"negotiating", "authenticated"}
  /\ phase' = "failed"
  /\ UNCHANGED credentials

Next == Authenticate \/ Admit \/ Fail

Spec == Init /\ [][Next]_<<credentials, phase>>
=============================================================================
