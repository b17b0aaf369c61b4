---------------------------- MODULE BotContract -----------------------------
(***************************************************************************)
(* What start() and stop() promise the owner of a Bot, whatever its        *)
(* modules and the network do: it goes from new to stopped and never back, *)
(* is never closed while it starts, and a start() that rejects, like a     *)
(* stop() that resolves, leaves nothing behind.  BotLifecycle refines it.  *)
(***************************************************************************)

CONSTANTS Modules

VARIABLES
  phase,   \* "new", "starting", "running", "closing" or "stopped"
  start,   \* the promise of start(): "none", "pending", "resolved" or "rejected"
  residue  \* the modules with something registered, armed or owed a cleanup

bot == <<phase, start, residue>>

Init == phase = "new" /\ start = "none" /\ residue = {}

\* Modules register and disconnects release, as long as there is a bot to run in.
Works ==
  /\ phase \in {"starting", "running", "closing"}
  /\ residue' \in SUBSET Modules
  /\ UNCHANGED <<phase, start>>

Starts ==
  /\ phase = "new"
  /\ phase' = "starting" /\ start' = "pending"
  /\ UNCHANGED residue

Runs ==
  /\ phase = "starting"
  /\ phase' = "running" /\ start' = "resolved"
  /\ UNCHANGED residue

\* A failed start cleans up before it rejects; a bot is closed once, by one of the two.
Closes ==
  /\ phase \in {"new", "starting", "running"}
  /\ phase' = "closing"
  /\ residue' \in SUBSET Modules
  /\ UNCHANGED start

Stops ==
  /\ phase = "closing" /\ residue = {}
  /\ phase' = "stopped"
  /\ UNCHANGED <<start, residue>>

Rejects ==
  /\ phase = "stopped" /\ start = "pending"
  /\ start' = "rejected"
  /\ UNCHANGED <<phase, residue>>

Next == Works \/ Starts \/ Runs \/ Closes \/ Stops \/ Rejects

Spec == Init /\ [][Next]_bot
=============================================================================
