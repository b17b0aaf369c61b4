------------------------- MODULE LifecycleContract --------------------------
(***************************************************************************)
(* What lifecycle$ and the promise of connect() promise a consumer of      *)
(* IrcClient, whatever the network does and wherever quit() is called:     *)
(* the grammar of the events, the retry budget of one outage, when the     *)
(* promise may settle, and that the end is final.  Connection refines it.  *)
(***************************************************************************)
EXTENDS Naturals

CONSTANT MaxRetries  \* reconnect.maxRetries: failures in a row that are retried

VARIABLES event,     \* the last lifecycle event; "bye" is disconnected {local: true}
          attempt,   \* attempts started
          tries,     \* failures since the last success
          promise,   \* connect()'s: "none", "pending", "resolved" or "rejected"
          ended      \* has lifecycle$ completed

lifecycle == <<event, attempt, tries, promise, ended>>

Init == event = "none" /\ attempt = 0 /\ tries = 0 /\ promise = "none" /\ ended = FALSE

Fails == IF tries < MaxRetries THEN event' = "reconnecting" /\ tries' = tries + 1
                               ELSE event' = "error" /\ UNCHANGED tries

\* connect() starts the first attempt, an elapsed backoff every other one.
Starts ==
  /\ ~ended
  /\ \/ event = "none" /\ promise = "none" /\ promise' = "pending"
     \/ event = "reconnecting" /\ UNCHANGED promise
  /\ attempt' = attempt + 1
  /\ \/ event' = "connecting" /\ UNCHANGED tries
     \/ Fails
  /\ UNCHANGED ended

Advances ==
  /\ ~ended
  /\ \/ event = "connecting" /\ event' = "connected"
     \/ event = "connected" /\ event' = "registered"
     \/ event \in {"connecting", "connected", "registered"} /\ event' = "disconnected"
  /\ UNCHANGED <<attempt, tries, promise, ended>>

\* Only a registration resolves the promise, and every one forgives past failures.
Succeeds ==
  /\ ~ended /\ event = "registered"
  /\ promise' = IF promise = "pending" THEN "resolved" ELSE promise
  /\ tries' = 0
  /\ UNCHANGED <<event, attempt, ended>>

\* A lost connection is retried while the budget lasts, and is an error after that.
Loses ==
  /\ ~ended /\ event = "disconnected" /\ Fails
  /\ UNCHANGED <<attempt, promise, ended>>

\* The end: with a farewell unless there is nothing to take leave of.
Ends ==
  /\ ~ended /\ ended' = TRUE
  /\ event' = IF event \in {"none", "error"} THEN event ELSE "bye"
  /\ \/ promise' = IF promise = "pending" THEN "rejected" ELSE promise
     \/ event = "error" /\ UNCHANGED promise
  /\ UNCHANGED <<attempt, tries>>

\* quit() from inside the error event leaves the promise to the code behind it.
RejectsLate ==
  /\ ended /\ event = "error" /\ promise = "pending"
  /\ promise' = "rejected"
  /\ UNCHANGED <<event, attempt, tries, ended>>

Next == Starts \/ Advances \/ Succeeds \/ Loses \/ Ends \/ RejectsLate

Spec == Init /\ [][Next]_lifecycle
=============================================================================
