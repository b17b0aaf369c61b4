----------------------------- MODULE ModuleHost -----------------------------
(***************************************************************************)
(* The hosts of a bot's modules: what a module registers through its       *)
(* context while it is set up or at any later time, its per-connection     *)
(* resources, and the disposal that undoes all of it.                      *)
(*                                                                         *)
(* A per-connection resource is named by the connection attempt it was     *)
(* made for: `armed` holds those that exist, `teardown` is the closure's   *)
(* variable, 0 when it is undefined.  A disposer is a number: onCleanup    *)
(* callbacks count up from 1 and the disposer returned by setup() is       *)
(* SetupDisposer.  A throwing disposer is caught and changes nothing here. *)
(***************************************************************************)
EXTENDS Naturals, SequencesExt

CONSTANTS
  NumModules,  \* the enabled modules
  MaxCleanups  \* bound: onCleanup callbacks of one module

ASSUME HostAssumption == NumModules \in Nat /\ MaxCleanups \in Nat

\* The modules, in load order.
Modules == 1..NumModules

\* Listed before every callback, whatever their number.
SetupDisposer == MaxCleanups + 1

VARIABLES
  disposed,   \* #disposed, per module
  cleanups,   \* onCleanup callbacks registered so far: 1..cleanups[m]
  owed,       \* those not called yet
  held,       \* what #subscriptions holds: "command", "listener"
  watching,   \* the modules whose onEachConnection subscription is open
  teardown,   \* onEachConnection's closure: the attempt it undoes, or 0
  armed,      \* the per-connection resources that exist
  undo,       \* dispose(): disposers still to be called, in order
  ran         \* history: the disposers called by dispose(), as <<module, disposer>>

hosts == <<disposed, cleanups, owed, held, watching, teardown, armed, undo, ran>>

HostTypeOK ==
  /\ disposed \in [Modules -> BOOLEAN]
  /\ cleanups \in [Modules -> 0..MaxCleanups]
  /\ owed \in [Modules -> SUBSET (1..MaxCleanups)]
  /\ held \in [Modules -> SUBSET {"command", "listener"}]
  /\ watching \subseteq Modules
  /\ teardown \in [Modules -> Nat]
  /\ armed \in [Modules -> SUBSET Nat]
  /\ undo \in [Modules -> Seq(1..SetupDisposer)]
  /\ ran \in Seq(Modules \X (1..SetupDisposer))

HostInit ==
  /\ disposed = [m \in Modules |-> FALSE]
  /\ cleanups = [m \in Modules |-> 0] /\ owed = [m \in Modules |-> {}]
  /\ held = [m \in Modules |-> {}]
  /\ watching = {}
  /\ teardown = [m \in Modules |-> 0] /\ armed = [m \in Modules |-> {}]
  /\ undo = [m \in Modules |-> <<>>] /\ ran = <<>>

-----------------------------------------------------------------------------
(* The module context.                                                     *)

\* command, track and on: a closed Subscription undoes at once what is added to it.
Holds(m, kind) ==
  /\ kind \notin held[m] /\ ~disposed[m]
  /\ held' = [held EXCEPT ![m] = @ \cup {kind}]
  /\ UNCHANGED <<disposed, cleanups, owed, watching, teardown, armed, undo, ran>>

\* onCleanup: kept for the reverse loop, or run at once if that has begun.
Cleans(m) ==
  /\ cleanups[m] < MaxCleanups
  /\ cleanups' = [cleanups EXCEPT ![m] = @ + 1]
  /\ owed' = IF disposed[m] THEN owed ELSE [owed EXCEPT ![m] = @ \cup {cleanups'[m]}]
  /\ UNCHANGED <<disposed, held, watching, teardown, armed, undo, ran>>

\* onEachConnection; lifecycle$ must not have completed for the subscription to last.
Watches(m, ended) ==
  /\ m \notin watching /\ ~disposed[m] /\ ~ended
  /\ watching' = watching \cup {m}
  /\ UNCHANGED <<disposed, cleanups, owed, held, teardown, armed, undo, ran>>

-----------------------------------------------------------------------------
(* Per-connection resources; the resources of module m after each step.    *)

\* runTeardown: whatever the closure holds is released, once.
TornDown(m) == armed[m] \ {teardown[m]}

\* "registered": the prior teardown, then setup(), which may arm something and return its
\* teardown, arm nothing, or throw.  The closure is assigned when setup() has returned,
\* behind anything it called.
Arms(m, attempt) ==
  /\ armed' = [armed EXCEPT ![m] = TornDown(m) \cup {attempt}]
  /\ teardown' = [teardown EXCEPT ![m] = attempt]

\* Mutant: only a new connection, or disposal, releases the last one's resources.
Disarms_Never(m) == UNCHANGED <<armed, teardown>>

\* "disconnected", or a setup() that arms nothing.
Disarms(m) ==
  /\ armed' = [armed EXCEPT ![m] = TornDown(m)]
  /\ teardown' = [teardown EXCEPT ![m] = 0]

\* Every subscriber still open hears the local disconnect, and lifecycle$ completes: no
\* subscriber is called again, also by a delivery further down the stack.  Module q, if
\* it is one, is inside its own setup() and has nothing in its closure yet.
DisarmsAll(listening, q, attempt) ==
  /\ armed' = [m \in Modules |-> (IF m \in listening THEN TornDown(m) ELSE armed[m])
                                   \cup (IF m = q THEN {attempt} ELSE {})]
  /\ teardown' = [m \in Modules |-> IF m = q THEN attempt
                                    ELSE IF m \in listening THEN 0 ELSE teardown[m]]
  /\ watching' = {}

-----------------------------------------------------------------------------
(* dispose().                                                              *)

CallbacksDown(m) == [i \in 1..cleanups[m] |-> cleanups[m] + 1 - i]

\* Mutant: the onCleanup callbacks first, in the order they were registered.
Disposers_InOrder(m, returned) ==
  [i \in 1..cleanups[m] |-> i] \o (IF returned THEN <<SetupDisposer>> ELSE <<>>)

\* The disposer setup() returned, then the callbacks in reverse.
Disposers(m, returned) == (IF returned THEN <<SetupDisposer>> ELSE <<>>) \o CallbacksDown(m)

\* Up to the first await: the flag, destroyed$, and everything #subscriptions holds.
\* Only a host that is not disposed gets here, so the idempotency guard is `disposed`.
BeginsDisposal(m, returned) ==
  /\ disposed' = [disposed EXCEPT ![m] = TRUE]
  /\ undo' = [undo EXCEPT ![m] = Disposers(m, returned)]
  /\ held' = [held EXCEPT ![m] = {}]
  /\ watching' = watching \ {m}
  /\ Disarms(m)
  /\ UNCHANGED <<cleanups, owed, ran>>

\* One round of the loop: the next disposer is called and awaited.
Disposes(m) ==
  /\ undo[m] # <<>>
  /\ undo' = [undo EXCEPT ![m] = Tail(@)]
  /\ ran' = Append(ran, <<m, Head(undo[m])>>)
  /\ owed' = [owed EXCEPT ![m] = @ \ {Head(undo[m])}]
  /\ UNCHANGED <<disposed, cleanups, held, watching, teardown, armed>>

\* Has dispose() returned.
Disposed(m) == disposed[m] /\ undo[m] = <<>>

\* What a host has brought into the world and not yet taken back.
Residue(m) == held[m] # {} \/ m \in watching \/ armed[m] # {} \/ owed[m] # {}
=============================================================================
