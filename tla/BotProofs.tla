----------------------------- MODULE BotProofs ------------------------------
(***************************************************************************)
(* What BotLifecycle keeps for every number of modules, of callbacks and   *)
(* of retries: nothing is left behind, everything is undone in reverse,    *)
(* per-connection resources do not outlive their connection, and the bot   *)
(* keeps BotContract.  The inductive invariant says of each module what    *)
(* its host may still hold, given how far start() and the teardown have    *)
(* come.                                                                   *)
(***************************************************************************)
EXTENDS BotLifecycle, FiniteSetTheorems, SequenceTheorems, TLAPS

\* How far start(), stop() and the teardown may have come together.
Control ==
  /\ closing = "none" => boot \notin {"cleaning", "failed"} /\ stopping \in {"none", "waiting"}
  /\ closing # "none" =>
       /\ ~signals
       /\ boot \in {"cleaning", "failed"} \/ (boot \in {"none", "started"} /\ stopping \in {"cleaning", "stopped"})
  /\ boot = "failed" \/ stopping = "stopped" => closing = "over"
  /\ stopping = "waiting" => boot # "none"
  /\ closing \in {"flushing", "over"} => ended
  /\ boot \in {"none", "imports"} => pushed = <<>> /\ loading = 1
  /\ boot \in {"setup", "undoing"} => loading \in Modules

\* Only subscribed modules hear of an event, and of none once the client has ended.
Audience ==
  /\ attempt \in Nat /\ ended \in BOOLEAN /\ hearing \subseteq watching
  /\ hearing # {} => event \in {"registered", "disconnected"} /\ ~ended

\* Modules are loaded in order, and disposed of only behind the load loop.
Order ==
  /\ \A i \in DOMAIN pushed : pushed[i] < loading /\ \A j \in 1..(i - 1) : pushed[j] < pushed[i]
  /\ \A m \in Modules :
       disposed[m] => m < loading \/ (m = loading /\ boot \in {"undoing", "cleaning", "failed"})
  /\ boot = "undoing" => disposed[loading]

\* How far the teardown has come: from the last host down to the one it waits for.
Closing ==
  /\ closing = "hosts" => closeAt \in DOMAIN pushed
  /\ \A i \in DOMAIN pushed :
       /\ closing = "none" => ~disposed[pushed[i]]
       /\ closing = "hosts" =>
            (disposed[pushed[i]] <=> i >= closeAt) /\ (i > closeAt => undo[pushed[i]] = <<>>)
       /\ closing \in {"flushing", "over"} => Disposed(pushed[i])

\* A disposed host holds nothing but the callbacks it is still going to call; one without
\* a context holds nothing.
Kept ==
  \A m \in Modules :
    /\ disposed[m] => held[m] = {} /\ m \notin watching /\ armed[m] = {} /\ owed[m] \subseteq ToSet(undo[m])
    /\ ~disposed[m] => undo[m] = <<>> /\ owed[m] \subseteq 1..cleanups[m]
    /\ ~HasContext(m) => held[m] = {} /\ m \notin watching /\ armed[m] = {} /\ owed[m] = {}
    /\ disposed[m] /\ m \notin ToSet(pushed) /\ undo[m] # <<>> => boot = "undoing" /\ m = loading

\* A resource is the closure's, and of the live connection, or of one whose end the module
\* is about to hear, or it was made by a setup() that quit.
ArmedOnce ==
  \A m \in Modules :
    /\ armed[m] \subseteq {teardown[m]}
    /\ armed[m] # {} =>
         \/ ended /\ m \in reentered
         \/ /\ ~ended /\ m \in watching
            /\ \/ event = "registered" /\ armed[m] = {attempt}
               \/ event = "disconnected" /\ m \in hearing

\* Disposers are called from the last to the first.
Falling ==
  /\ \A m \in Modules : \A j \in DOMAIN undo[m] : \A i \in 1..(j - 1) : undo[m][i] > undo[m][j]
  /\ \A j \in DOMAIN ran :
       disposed[ran[j][1]] /\ \A i \in DOMAIN undo[ran[j][1]] : ran[j][2] > undo[ran[j][1]][i]

IInv ==
  /\ TypeOK /\ Control /\ Audience /\ Order /\ Closing
  /\ Kept /\ ArmedOnce /\ Falling /\ UndoneInReverse

-----------------------------------------------------------------------------
(* The operators of ModuleHost.                                            *)

\* dispose() calls every callback there is, from the last to the first, and the disposer
\* that setup() returned before them.
LEMMA DisposersAre ==
  ASSUME cleanups \in [Modules -> 0..MaxCleanups], NEW m \in Modules, NEW returned \in BOOLEAN
  PROVE  /\ Disposers(m, returned) \in Seq(1..SetupDisposer)
         /\ 1..cleanups[m] \subseteq ToSet(Disposers(m, returned))
         /\ \A j \in DOMAIN Disposers(m, returned) : \A i \in 1..(j - 1) :
              Disposers(m, returned)[i] > Disposers(m, returned)[j]
<1> DEFINE c == cleanups[m]
           D == CallbacksDown(m)
<1>1. c \in Nat /\ c <= MaxCleanups /\ MaxCleanups \in Nat /\ SetupDisposer = MaxCleanups + 1
  BY HostAssumption DEF SetupDisposer
<1>2. D = [i \in 1..c |-> c + 1 - i]
  BY DEF CallbacksDown
<1>3. D \in Seq(1..SetupDisposer) /\ Len(D) = c /\ DOMAIN D = 1..c
  <2>1. \A i \in 1..c : c + 1 - i \in 1..SetupDisposer
    BY <1>1
  <2> QED
    BY <1>1, <1>2, <2>1
<1>4. \A i \in 1..c : D[i] = c + 1 - i
  BY <1>2
<1> HIDE DEF D
<1>5. \A d \in 1..c : c + 1 - d \in 1..c /\ D[c + 1 - d] = d
  BY <1>1, <1>4
<1>6. CASE returned = FALSE
  <2>1. Disposers(m, returned) = D
    BY <1>3, <1>6 DEF Disposers, D
  <2>2. 1..c \subseteq ToSet(D)
    BY <1>3, <1>5 DEF ToSet
  <2>3. ASSUME NEW j \in 1..c, NEW i \in 1..(j - 1)
        PROVE  D[i] > D[j]
    BY <1>1, <1>4
  <2> QED
    BY <1>3, <2>1, <2>2, <2>3
<1>7. CASE returned = TRUE
  <2> DEFINE E == Disposers(m, returned)
  <2>1. E = <<SetupDisposer>> \o D
    BY <1>7 DEF Disposers, D
  <2>2. <<SetupDisposer>> \in Seq(1..SetupDisposer) /\ Len(<<SetupDisposer>>) = 1
    BY <1>1
  <2>3. E \in Seq(1..SetupDisposer) /\ Len(E) = c + 1
    BY <1>1, <1>3, <2>1, <2>2
  <2>4. E[1] = SetupDisposer /\ \A i \in 2..(c + 1) : E[i] = D[i - 1]
    BY <1>1, <1>3, <2>1, <2>2
  <2> HIDE DEF E
  <2>5. DOMAIN E = 1..(c + 1)
    BY <1>1, <2>3
  <2>6. \A i \in 2..(c + 1) : E[i] = c + 2 - i
    <3> SUFFICES ASSUME NEW i \in 2..(c + 1) PROVE E[i] = c + 2 - i
      OBVIOUS
    <3>1. i - 1 \in 1..c
      BY <1>1
    <3>2. D[i - 1] = c + 1 - (i - 1)
      BY <1>4, <3>1
    <3> QED
      BY <1>1, <2>4, <3>2
  <2>7. ASSUME NEW d \in 1..c
        PROVE  d \in ToSet(E)
    <3>1. c + 2 - d \in 2..(c + 1) /\ c + 2 - (c + 2 - d) = d
      BY <1>1
    <3> QED
      BY <2>5, <2>6, <3>1 DEF ToSet
  <2>8. ASSUME NEW j \in 1..(c + 1), NEW i \in 1..(j - 1)
        PROVE  E[i] > E[j]
    <3>1. j \in 2..(c + 1) /\ E[j] = c + 2 - j
      BY <1>1, <2>6
    <3>2. CASE i = 1
      BY <1>1, <2>4, <3>1, <3>2
    <3>3. CASE i # 1
      BY <1>1, <2>6, <3>1, <3>3
    <3> QED
      BY <3>2, <3>3
  <2> QED
    BY <2>3, <2>5, <2>7, <2>8 DEF E
<1> QED
  BY <1>6, <1>7

\* What dispose() does before its first await: all is released but the callbacks, and
\* those are all going to be called.
LEMMA DisposalBegins ==
  ASSUME HostTypeOK, Kept, ArmedOnce, NEW m \in Modules, ~disposed[m], NEW returned \in BOOLEAN,
         BeginsDisposal(m, returned)
  PROVE  /\ HostTypeOK' /\ UNCHANGED <<cleanups, owed, ran>> /\ watching' = watching \ {m}
         /\ disposed'[m] /\ held'[m] = {} /\ armed'[m] = {} /\ owed[m] \subseteq ToSet(undo'[m])
         /\ \A j \in DOMAIN undo'[m] : \A i \in 1..(j - 1) : undo'[m][i] > undo'[m][j]
         /\ \A x \in Modules \ {m} :
              /\ disposed'[x] = disposed[x] /\ held'[x] = held[x] /\ undo'[x] = undo[x]
              /\ armed'[x] = armed[x] /\ teardown'[x] = teardown[x]
<1> DEFINE D == Disposers(m, returned)
<1>1. /\ D \in Seq(1..SetupDisposer) /\ 1..cleanups[m] \subseteq ToSet(D)
      /\ \A j \in DOMAIN D : \A i \in 1..(j - 1) : D[i] > D[j]
  BY DisposersAre DEF HostTypeOK
<1>2. /\ disposed' = [disposed EXCEPT ![m] = TRUE] /\ undo' = [undo EXCEPT ![m] = D]
      /\ held' = [held EXCEPT ![m] = {}] /\ watching' = watching \ {m}
      /\ armed' = [armed EXCEPT ![m] = armed[m] \ {teardown[m]}] /\ teardown' = [teardown EXCEPT ![m] = 0]
      /\ UNCHANGED <<cleanups, owed, ran>>
  BY DEF BeginsDisposal, Disarms, TornDown
<1> HIDE DEF D
<1>3. armed[m] \ {teardown[m]} = {}
  BY DEF ArmedOnce
<1>4. undo'[m] = D /\ disposed'[m] = TRUE /\ held'[m] = {} /\ armed'[m] = {}
  BY <1>2, <1>3 DEF HostTypeOK
<1>5. owed[m] \subseteq ToSet(D)
  BY <1>1 DEF Kept
<1>6. HostTypeOK'
  BY <1>1, <1>2, <1>3 DEF HostTypeOK
<1>7. \A x \in Modules \ {m} :
        /\ disposed'[x] = disposed[x] /\ held'[x] = held[x] /\ undo'[x] = undo[x]
        /\ armed'[x] = armed[x] /\ teardown'[x] = teardown[x]
  BY <1>2 DEF HostTypeOK
<1> QED
  BY <1>1, <1>2, <1>4, <1>5, <1>6, <1>7

\* The hosts of the bot are those of modules.
LEMMA PushedAre ==
  ASSUME TypeOK
  PROVE  /\ Len(pushed) \in Nat /\ DOMAIN pushed = 1..Len(pushed)
         /\ \A i \in DOMAIN pushed : pushed[i] \in Modules /\ pushed[i] \in Nat
         /\ \A m \in Modules : m \in Nat
<1>1. pushed \in Seq(Modules)
  BY DEF TypeOK
<1>2. \A m \in Modules : m \in Nat
  BY HostAssumption DEF Modules
<1>3. \A i \in DOMAIN pushed : pushed[i] \in Modules
  BY <1>1, ElementOfSeq
<1> QED
  BY <1>1, <1>2, <1>3

-----------------------------------------------------------------------------
(* Steps of start() and stop() that leave hosts and client alone.          *)

\* A step that takes no more from a module than it has kept.
LEMMA KeptStays ==
  ASSUME Kept, UNCHANGED <<disposed, cleanups, owed, held, undo>>, watching' \subseteq watching,
         \A m \in Modules : m \notin watching /\ armed[m] = {} => armed'[m] = {},
         ToSet(pushed) \subseteq ToSet(pushed'),
         \A m \in Modules : HasContext(m) => HasContext(m)',
         boot = "undoing" => (boot' = "undoing" /\ loading' = loading) \/ undo[loading] = <<>>
  PROVE  Kept'
<1> SUFFICES ASSUME NEW m \in Modules
             PROVE  /\ disposed[m] =>
                         held[m] = {} /\ m \notin watching' /\ armed'[m] = {} /\ owed[m] \subseteq ToSet(undo[m])
                    /\ ~disposed[m] => undo[m] = <<>> /\ owed[m] \subseteq 1..cleanups[m]
                    /\ ~HasContext(m)' =>
                         held[m] = {} /\ m \notin watching' /\ armed'[m] = {} /\ owed[m] = {}
                    /\ disposed[m] /\ m \notin ToSet(pushed') /\ undo[m] # <<>> =>
                         boot' = "undoing" /\ m = loading'
  BY DEF Kept
<1> QED
  BY DEF Kept

\* What such a step does: the teardown is over, the load loop goes on, stop() does.
Quiet ==
  /\ UNCHANGED <<hosts, client, hearing, reentered, failFast, closeAt, signals>>
  /\ \/ /\ closing = "flushing" /\ closing' = "over" /\ UNCHANGED <<boot, loading, pushed, stopping>>
     \/ /\ UNCHANGED <<closing, stopping, pushed, loading>>
        /\ \/ boot = "none" /\ closing = "none" /\ boot' = "imports"
           \/ boot = "imports" /\ boot' = "loading"
           \/ boot = "loading" /\ loading \in Modules /\ boot' = "setup"
           \/ boot = "connecting" /\ boot' = "started"
           \/ boot = "cleaning" /\ closing = "over" /\ boot' = "failed"
     \/ /\ UNCHANGED <<closing, stopping, pushed>>
        /\ loading \in Modules /\ boot' = "loading" /\ loading' = loading + 1
        /\ boot = "loading" \/ (boot = "undoing" /\ Disposed(loading))
     \/ /\ UNCHANGED <<boot, loading, pushed, closing>>
        /\ \/ stopping = "none" /\ stopping' = "waiting" /\ boot # "none"
           \/ /\ stopping = "waiting" /\ boot \in {"started", "failed"} /\ closing # "none"
              /\ stopping' = "stopped"
           \/ stopping = "cleaning" /\ closing = "over" /\ stopping' = "stopped"

\* They keep the invariant.
LEMMA QuietKeeps == ASSUME IInv, Quiet PROVE IInv'
<1>1. /\ TypeOK /\ Control /\ Audience /\ Order /\ Closing /\ Kept /\ ArmedOnce /\ Falling /\ UndoneInReverse
      /\ UNCHANGED <<hosts, client, hearing, reentered, failFast, closeAt, signals, pushed>>
  BY DEF IInv, Quiet
<1>2. /\ UNCHANGED <<disposed, cleanups, owed, held, watching, teardown, armed, undo, ran>>
      /\ UNCHANGED <<event, attempt, tries, promise, ended>>
  BY <1>1 DEF hosts, client
<1>3. loading \in Nat /\ NumModules \in Nat
  BY <1>1, HostAssumption DEF TypeOK
<1>4. TypeOK'
  BY <1>1, <1>2, <1>3 DEF TypeOK, HostTypeOK, Quiet
<1>5. Control'
  BY <1>1, <1>2, <1>3 DEF Control, Quiet
<1>6. Order'
  <2>1. /\ loading' \in {loading, loading + 1}
        /\ boot' = "undoing" => boot = "undoing" /\ loading' = loading
        /\ boot \in {"undoing", "cleaning", "failed"} => boot' \in {"undoing", "cleaning", "failed"} \/ loading' = loading + 1
    BY <1>1 DEF Quiet
  <2> QED
    BY <1>1, <1>2, <1>3, <2>1, PushedAre DEF Order
<1>7. Closing'
  BY <1>1, <1>2 DEF Closing, Quiet, Control, Disposed
<1>8. Kept'
  <2>1. \A m \in Modules : HasContext(m) => HasContext(m)'
    BY <1>1, <1>2 DEF HasContext, Quiet
  <2>2. boot = "undoing" => (boot' = "undoing" /\ loading' = loading) \/ undo[loading] = <<>>
    BY <1>1 DEF Quiet, Disposed
  <2> QED
    BY <1>1, <1>2, <2>1, <2>2, KeptStays
<1>9. Audience' /\ ArmedOnce' /\ Falling' /\ UndoneInReverse'
  BY <1>1, <1>2 DEF Audience, ArmedOnce, Falling, UndoneInReverse
<1> QED
  BY <1>4, <1>5, <1>6, <1>7, <1>8, <1>9 DEF IInv

\* A host that was set up is one of ours.
LEMMA SetUpKeeps == ASSUME IInv, SetUp PROVE IInv'
<1>1. /\ TypeOK /\ Control /\ Audience /\ Order /\ Closing /\ Kept /\ ArmedOnce /\ Falling /\ UndoneInReverse
      /\ UNCHANGED <<disposed, cleanups, owed, held, watching, teardown, armed, undo, ran>>
      /\ UNCHANGED <<event, attempt, tries, promise, ended, hearing, reentered>>
      /\ UNCHANGED <<failFast, stopping, closing, closeAt, signals>>
      /\ boot = "setup" /\ boot' = "loading" /\ pushed' = Append(pushed, loading) /\ loading' = loading + 1
  BY DEF IInv, SetUp, hosts, client
<1>2. /\ loading \in Modules /\ loading \in Nat /\ pushed \in Seq(Modules) /\ Len(pushed) \in Nat
      /\ closing = "none" /\ DOMAIN pushed = 1..Len(pushed)
  BY <1>1 DEF Control, TypeOK
<1>3. /\ pushed' \in Seq(Modules) /\ Len(pushed') = Len(pushed) + 1 /\ pushed'[Len(pushed) + 1] = loading
      /\ \A i \in 1..Len(pushed) : pushed'[i] = pushed[i]
  BY <1>1, <1>2, AppendProperties
<1>4. DOMAIN pushed' = 1..(Len(pushed) + 1) /\ ToSet(pushed') = ToSet(pushed) \cup {loading}
  <2>1. DOMAIN pushed' = 1..(Len(pushed) + 1)
    BY <1>2, <1>3
  <2>2. Len(pushed) + 1 \in DOMAIN pushed' /\ \A i \in DOMAIN pushed : i \in DOMAIN pushed'
    BY <1>2, <2>1
  <2>3. \A i \in DOMAIN pushed' : i \in DOMAIN pushed \/ i = Len(pushed) + 1
    BY <1>2, <2>1
  <2> QED
    BY <1>2, <1>3, <2>1, <2>2, <2>3 DEF ToSet
<1>5. ~disposed[loading]
  BY <1>1, <1>2 DEF Order
<1>6. TypeOK'
  <2>1. closeAt \in 0..(Len(pushed) + 1) /\ loading + 1 \in Nat
    BY <1>1, <1>2 DEF TypeOK
  <2>2. HostTypeOK'
    BY <1>1 DEF TypeOK, HostTypeOK
  <2> QED
    BY <1>1, <1>3, <2>1, <2>2 DEF TypeOK
<1>7. Control'
  BY <1>1, <1>2 DEF Control
<1>8. Order'
  <2>1. ASSUME NEW i \in DOMAIN pushed'
        PROVE  pushed'[i] < loading + 1 /\ \A j \in 1..(i - 1) : pushed'[j] < pushed'[i]
    <3>1. \A k \in 1..Len(pushed) : pushed[k] \in Nat /\ pushed[k] < loading
      BY <1>1, <1>2, PushedAre DEF Order
    <3>2. CASE i \in 1..Len(pushed)
      BY <1>1, <1>2, <1>3, <3>1, <3>2 DEF Order
    <3>3. CASE i = Len(pushed) + 1
      BY <1>1, <1>2, <1>3, <3>1, <3>3
    <3> QED
      BY <1>2, <1>4, <3>2, <3>3
  <2>2. \A m \in Modules : disposed[m] => m < loading + 1
    BY <1>1, <1>2 DEF Order, Modules
  <2> QED
    BY <1>1, <2>1, <2>2 DEF Order
<1>9. Closing'
  BY <1>1, <1>2, <1>3, <1>4, <1>5 DEF Closing
<1>10. Kept'
  <2>1. \A m \in Modules : HasContext(m) => HasContext(m)'
    BY <1>1, <1>4 DEF HasContext
  <2> QED
    BY <1>1, <1>4, <2>1, KeptStays
<1>11. Audience' /\ ArmedOnce' /\ Falling'
  BY <1>1 DEF Audience, ArmedOnce, Falling
<1>12. UndoneInReverse'
  <2>1. \A j \in DOMAIN ran : disposed[ran[j][1]]
    BY <1>1 DEF Falling
  <2>2. \A m \in ToSet(pushed') : ~disposed[m]
    BY <1>1, <1>2, <1>4, <1>5 DEF Closing, ToSet
  <2> QED
    BY <1>1, <2>1, <2>2 DEF UndoneInReverse
<1> QED
  BY <1>6, <1>7, <1>8, <1>9, <1>10, <1>11, <1>12 DEF IInv

-----------------------------------------------------------------------------
(* The client and who listens to it.                                       *)

\* The end of the client: every subscriber has released what it held, but for a module
\* that quit from inside its setup().
LEMMA ClientIsEnded ==
  ASSUME HostTypeOK, Audience, ArmedOnce, NEW q \in Modules \cup {NoModule}, EndsClient(q),
         reentered' = IF q \in Modules THEN reentered \cup {q} ELSE reentered,
         q \in Modules => q \in hearing /\ event = "registered"
  PROVE  /\ HostTypeOK' /\ Audience' /\ ArmedOnce'
         /\ ended' = TRUE /\ hearing' = {} /\ watching' = {} /\ attempt' = attempt
         /\ UNCHANGED <<disposed, cleanups, owed, held, undo, ran>>
         /\ \A m \in Modules : m \notin watching /\ armed[m] = {} => armed'[m] = {}
<1>1. /\ ~ended /\ ended' = TRUE /\ hearing' = {} /\ attempt' = attempt
      /\ event' = IF event \in {"none", "error"} THEN event ELSE "bye"
      /\ UNCHANGED <<disposed, cleanups, owed, held, undo, ran>>
  BY DEF EndsClient, Client!Ends
<1>2. NoModule \notin Modules
  BY HostAssumption DEF NoModule, Modules
<1>3. /\ attempt \in Nat /\ (q \in Modules => q \in watching)
  BY DEF Audience
<1>4. CASE event' = "bye"
  <2>1. /\ watching' = {}
        /\ armed' = [m \in Modules |-> (IF m \in watching THEN armed[m] \ {teardown[m]} ELSE armed[m])
                                         \cup (IF m = q THEN {attempt} ELSE {})]
        /\ teardown' = [m \in Modules |-> IF m = q THEN attempt
                                          ELSE IF m \in watching THEN 0 ELSE teardown[m]]
    BY <1>4 DEF EndsClient, DisarmsAll, TornDown
  <2>2. ASSUME NEW m \in Modules, m # q
        PROVE  /\ armed'[m] \subseteq {teardown'[m]} /\ armed'[m] \in SUBSET Nat /\ teardown'[m] \in Nat
               /\ armed'[m] # {} => m \in reentered'
               /\ m \notin watching => armed'[m] = armed[m]
    BY <1>1, <2>1, <2>2 DEF HostTypeOK, ArmedOnce
  <2>3. ASSUME q \in Modules
        PROVE  /\ armed'[q] = {attempt} /\ teardown'[q] = attempt /\ q \in reentered' /\ q \in watching
    BY <1>3, <2>1, <2>3 DEF ArmedOnce
  <2>4. HostTypeOK'
    BY <1>1, <1>3, <2>1 DEF HostTypeOK
  <2>5. ArmedOnce'
    BY <1>1, <2>2, <2>3 DEF ArmedOnce
  <2> QED
    BY <1>1, <1>3, <2>1, <2>2, <2>3, <2>4, <2>5 DEF Audience
<1>5. CASE event' # "bye"
  <2>1. event \in {"none", "error"} /\ watching' = {} /\ UNCHANGED <<armed, teardown>> /\ q \notin Modules
    BY <1>1, <1>5 DEF EndsClient
  <2>2. \A m \in Modules : armed[m] = {}
    BY <1>1, <2>1 DEF ArmedOnce
  <2>3. HostTypeOK'
    BY <1>1, <2>1 DEF HostTypeOK
  <2>4. ArmedOnce'
    BY <1>1, <2>1, <2>2 DEF ArmedOnce
  <2> QED
    BY <1>1, <1>3, <2>1, <2>2, <2>3, <2>4 DEF Audience
<1> QED
  BY <1>4, <1>5

\* The client ends while the bot's own tasks stand still.
LEMMA EndKeeps ==
  ASSUME IInv, UNCHANGED bot, NEW q \in Modules \cup {NoModule}, EndsClient(q),
         reentered' = IF q \in Modules THEN reentered \cup {q} ELSE reentered,
         q \in Modules => q \in hearing /\ event = "registered"
  PROVE  IInv'
<1>1. /\ TypeOK /\ Control /\ Audience /\ Order /\ Closing /\ Kept /\ ArmedOnce /\ Falling /\ UndoneInReverse
      /\ UNCHANGED <<failFast, boot, loading, pushed, stopping, closing, closeAt, signals>>
  BY DEF IInv, bot
<1>2. /\ HostTypeOK' /\ Audience' /\ ArmedOnce'
      /\ ended' = TRUE /\ hearing' = {} /\ watching' = {} /\ attempt' = attempt
      /\ UNCHANGED <<disposed, cleanups, owed, held, undo, ran>>
      /\ \A m \in Modules : m \notin watching /\ armed[m] = {} => armed'[m] = {}
  BY <1>1, ClientIsEnded DEF TypeOK
<1>3. TypeOK'
  <2>1. hearing' \subseteq Modules /\ reentered' \subseteq Modules
    BY <1>1, <1>2 DEF TypeOK
  <2> QED
    BY <1>1, <1>2, <2>1 DEF TypeOK
<1>4. Control' /\ Order' /\ Closing'
  BY <1>1, <1>2 DEF Control, Order, Closing, Disposed
<1>5. Kept'
  <2>1. \A m \in Modules : HasContext(m) => HasContext(m)'
    BY <1>1, <1>2 DEF HasContext
  <2> QED
    BY <1>1, <1>2, <2>1, KeptStays
<1>6. Falling' /\ UndoneInReverse'
  BY <1>1, <1>2 DEF Falling, UndoneInReverse
<1> QED
  BY <1>2, <1>3, <1>4, <1>5, <1>6 DEF IInv

\* An event begins with an audience, and a connection ends with all of it told.
LEMMA ClientKeeps == ASSUME IInv, ClientSteps PROVE IInv'
<1>1. /\ TypeOK /\ Control /\ Audience /\ Order /\ Closing /\ Kept /\ ArmedOnce /\ Falling /\ UndoneInReverse
      /\ UNCHANGED <<failFast, boot, loading, pushed, stopping, closing, closeAt, signals, reentered>>
      /\ UNCHANGED <<disposed, cleanups, owed, held, watching, teardown, armed, undo, ran>>
  BY DEF IInv, ClientSteps, hosts, bot
<1>2. /\ hearing = {} /\ attempt \in Nat
      /\ hearing' = IF event' # event /\ event' \in {"registered", "disconnected"} THEN watching ELSE {}
  BY <1>1 DEF ClientSteps, Audience
<1>3. \/ /\ ~ended /\ ended' = ended /\ event = "reconnecting" /\ attempt' = attempt + 1
         /\ event' \in {"connecting", "reconnecting", "error"}
      \/ /\ ~ended /\ ended' = ended /\ attempt' = attempt
         /\ \/ event = "connecting" /\ event' = "connected"
            \/ event = "connected" /\ event' = "registered"
            \/ event \in {"connecting", "connected", "registered"} /\ event' = "disconnected"
            \/ event = "disconnected" /\ event' \in {"reconnecting", "error"}
      \/ ended' = ended /\ attempt' = attempt /\ event' = event
  BY DEF ClientSteps, Client!Starts, Client!Fails, Client!Advances, Client!Succeeds, Client!Loses, Client!RejectsLate
<1>4. Audience' /\ attempt' \in Nat /\ ended' = ended
  BY <1>1, <1>2, <1>3 DEF Audience
<1>5. ArmedOnce'
  <2> SUFFICES ASSUME NEW m \in Modules, armed[m] # {}
               PROVE  \/ ended /\ m \in reentered
                      \/ /\ ~ended /\ m \in watching
                         /\ \/ event' = "registered" /\ armed[m] = {attempt'}
                            \/ event' = "disconnected" /\ m \in hearing'
    BY <1>1, <1>4 DEF ArmedOnce
  <2>1. \/ ended /\ m \in reentered
        \/ ~ended /\ m \in watching /\ event = "registered" /\ armed[m] = {attempt}
    BY <1>1, <1>2 DEF ArmedOnce
  <2> QED
    BY <1>2, <1>3, <2>1
<1>6. TypeOK'
  <2>1. hearing' \subseteq Modules
    BY <1>1, <1>2 DEF TypeOK, HostTypeOK
  <2> QED
    BY <1>1, <2>1 DEF TypeOK, HostTypeOK
<1>7. Control' /\ Order' /\ Closing' /\ Falling' /\ UndoneInReverse'
  BY <1>1, <1>4 DEF Control, Order, Closing, Disposed, Falling, UndoneInReverse
<1>8. Kept'
  BY <1>1 DEF Kept, HasContext
<1> QED
  BY <1>1, <1>4, <1>5, <1>6, <1>7, <1>8 DEF IInv

\* A module that hears of a connection has one resource for it, one that hears of its end
\* has none.
LEMMA HearsKeeps == ASSUME IInv, NEW m \in Modules, Hears(m) PROVE IInv'
<1>1. /\ TypeOK /\ Control /\ Audience /\ Order /\ Closing /\ Kept /\ ArmedOnce /\ Falling /\ UndoneInReverse
      /\ m \in hearing /\ UNCHANGED bot
  BY DEF IInv, Hears
<1>2. CASE event = "registered" /\ EndsClient(m) /\ reentered' = reentered \cup {m}
  BY <1>1, <1>2, EndKeeps
<1>3. CASE EndsClient(NoModule) /\ UNCHANGED reentered
  <2>1. NoModule \notin Modules
    BY HostAssumption DEF NoModule, Modules
  <2> QED
    BY <1>1, <1>3, <2>1, EndKeeps
<1>4. CASE /\ hearing' = hearing \ {m} /\ UNCHANGED <<client, reentered>>
           /\ \/ event = "registered" /\ Arms(m, attempt)
              \/ Disarms(m)
           /\ UNCHANGED <<disposed, cleanups, owed, held, watching, undo, ran>>
  <2>1. /\ UNCHANGED <<failFast, boot, loading, pushed, stopping, closing, closeAt, signals>>
        /\ UNCHANGED <<event, attempt, tries, promise, ended>>
    BY <1>1, <1>4 DEF bot, client
  <2>2. m \in watching /\ ~ended /\ attempt \in Nat
    BY <1>1 DEF Audience
  <2>3. armed[m] \ {teardown[m]} = {}
    BY <1>1 DEF ArmedOnce
  <2>4. \/ /\ event = "registered" /\ armed' = [armed EXCEPT ![m] = {attempt}]
           /\ teardown' = [teardown EXCEPT ![m] = attempt]
        \/ armed' = [armed EXCEPT ![m] = {}] /\ teardown' = [teardown EXCEPT ![m] = 0]
    BY <1>4, <2>3 DEF Arms, Disarms, TornDown
  <2>5. HostTypeOK'
    <3>1. armed \in [Modules -> SUBSET Nat] /\ teardown \in [Modules -> Nat] /\ {attempt} \in SUBSET Nat
      BY <1>1, <2>2 DEF TypeOK, HostTypeOK
    <3>2. armed' \in [Modules -> SUBSET Nat] /\ teardown' \in [Modules -> Nat]
      BY <2>2, <2>4, <3>1
    <3> QED
      BY <1>1, <1>4, <3>2 DEF TypeOK, HostTypeOK
  <2>6. TypeOK'
    BY <1>1, <1>4, <2>1, <2>5 DEF TypeOK
  <2>7. Audience'
    BY <1>1, <1>4, <2>1 DEF Audience
  <2>8. \A x \in Modules \ {m} : armed'[x] = armed[x] /\ teardown'[x] = teardown[x]
    BY <1>1, <2>4 DEF TypeOK, HostTypeOK
  <2>9. \/ event = "registered" /\ armed'[m] = {attempt} /\ teardown'[m] = attempt
        \/ armed'[m] = {}
    BY <1>1, <2>4 DEF TypeOK, HostTypeOK
  <2>10. ArmedOnce'
    <3> SUFFICES ASSUME NEW x \in Modules
                 PROVE  /\ armed'[x] \subseteq {teardown'[x]}
                        /\ armed'[x] # {} =>
                             \/ ended /\ x \in reentered
                             \/ /\ ~ended /\ x \in watching
                                /\ \/ event = "registered" /\ armed'[x] = {attempt}
                                   \/ event = "disconnected" /\ x \in hearing'
      BY <1>4, <2>1 DEF ArmedOnce
    <3>1. CASE x = m
      BY <2>2, <2>9, <3>1
    <3>2. CASE x # m
      BY <1>1, <1>4, <2>8, <3>2 DEF ArmedOnce
    <3> QED
      BY <3>1, <3>2
  <2>11. Kept'
    <3>1. ~disposed[m] /\ HasContext(m)
      BY <1>1, <2>2 DEF Kept
    <3>2. \A x \in Modules : x \notin watching /\ armed[x] = {} => armed'[x] = {}
      BY <2>2, <2>8
    <3>3. \A x \in Modules : HasContext(x) => HasContext(x)'
      BY <1>4, <2>1 DEF HasContext
    <3> QED
      BY <1>1, <1>4, <2>1, <3>2, <3>3, KeptStays
  <2>12. Control' /\ Order' /\ Closing' /\ Falling' /\ UndoneInReverse'
    BY <1>1, <1>4, <2>1 DEF Control, Order, Closing, Disposed, Falling, UndoneInReverse
  <2> QED
    BY <2>6, <2>7, <2>10, <2>11, <2>12 DEF IInv
<1> QED
  BY <1>2, <1>3, <1>4 DEF Hears

-----------------------------------------------------------------------------
(* The modules and their disposers.                                        *)

\* What a module registers is its host's to undo, or undone at once.
LEMMA RegistersKeeps == ASSUME IInv, NEW m \in Modules, Registers(m) PROVE IInv'
<1>1. /\ TypeOK /\ Control /\ Audience /\ Order /\ Closing /\ Kept /\ ArmedOnce /\ Falling /\ UndoneInReverse
      /\ HasContext(m)
      /\ UNCHANGED <<failFast, boot, loading, pushed, stopping, closing, closeAt, signals>>
      /\ UNCHANGED <<event, attempt, tries, promise, ended, hearing, reentered>>
  BY DEF IInv, Registers, bot, client
<1>2. UNCHANGED <<disposed, teardown, armed, undo, ran>>
  BY DEF Registers, Holds, Cleans, Watches
<1>3. \/ /\ ~disposed[m] /\ UNCHANGED <<owed, cleanups, watching>>
         /\ \E kind \in {"command", "listener"} : held' = [held EXCEPT ![m] = @ \cup {kind}]
      \/ /\ cleanups[m] < MaxCleanups /\ cleanups' = [cleanups EXCEPT ![m] = @ + 1]
         /\ owed' = (IF disposed[m] THEN owed ELSE [owed EXCEPT ![m] = @ \cup {cleanups'[m]}])
         /\ UNCHANGED <<held, watching>>
      \/ /\ ~disposed[m] /\ watching' = watching \cup {m} /\ UNCHANGED <<held, owed, cleanups>>
  BY DEF Registers, Holds, Cleans, Watches
<1>4. HostTypeOK' /\ hearing' \subseteq watching' /\ watching \subseteq watching'
  <2>1. HostTypeOK /\ MaxCleanups \in Nat
    BY <1>1, HostAssumption DEF TypeOK
  <2>2. held' \in [Modules -> SUBSET {"command", "listener"}]
    <3>1. CASE UNCHANGED held
      BY <2>1, <3>1 DEF HostTypeOK
    <3>2. ASSUME NEW kind \in {"command", "listener"}, held' = [held EXCEPT ![m] = @ \cup {kind}]
          PROVE  held' \in [Modules -> SUBSET {"command", "listener"}]
      BY <2>1, <3>2 DEF HostTypeOK
    <3> QED
      BY <1>3, <3>1, <3>2
  <2>3. cleanups' \in [Modules -> 0..MaxCleanups]
    BY <1>3, <2>1 DEF HostTypeOK
  <2>4. owed' \in [Modules -> SUBSET (1..MaxCleanups)]
    <3>1. CASE owed' = owed
      BY <2>1, <3>1 DEF HostTypeOK
    <3>2. CASE owed' # owed
      <4>1. owed' = [owed EXCEPT ![m] = @ \cup {cleanups[m] + 1}] /\ cleanups[m] + 1 \in 1..MaxCleanups
        BY <1>3, <2>1, <3>2 DEF HostTypeOK
      <4> QED
        BY <2>1, <4>1 DEF HostTypeOK
    <3> QED
      BY <3>1, <3>2
  <2>5. watching' \subseteq Modules
    BY <1>3, <2>1 DEF HostTypeOK
  <2> QED
    BY <1>1, <1>2, <1>3, <2>1, <2>2, <2>3, <2>4, <2>5 DEF HostTypeOK, Audience
<1>5. TypeOK'
  BY <1>1, <1>4 DEF TypeOK
<1>6. Control' /\ Order' /\ Closing' /\ Falling' /\ UndoneInReverse'
  BY <1>1, <1>2 DEF Control, Order, Closing, Disposed, Falling, UndoneInReverse
<1>7. Audience' /\ ArmedOnce'
  BY <1>1, <1>2, <1>4 DEF Audience, ArmedOnce
<1>8. ASSUME NEW x \in Modules, x # m
      PROVE  /\ held'[x] = held[x] /\ (x \in watching' <=> x \in watching)
             /\ owed'[x] = owed[x] /\ cleanups'[x] = cleanups[x]
  BY <1>1, <1>3, <1>8 DEF TypeOK, HostTypeOK
<1>9. /\ disposed[m] => held'[m] = held[m] /\ (m \in watching' <=> m \in watching) /\ owed'[m] = owed[m]
      /\ ~disposed[m] => owed'[m] \subseteq 1..cleanups'[m]
  <2>1. /\ cleanups[m] \in 0..MaxCleanups /\ MaxCleanups \in Nat /\ owed[m] \subseteq 1..MaxCleanups
        /\ ~disposed[m] => owed[m] \subseteq 1..cleanups[m]
    BY <1>1, HostAssumption DEF TypeOK, HostTypeOK, Kept
  <2>2. CASE UNCHANGED <<owed, cleanups>>
    BY <1>3, <2>1, <2>2
  <2>3. CASE /\ cleanups' = [cleanups EXCEPT ![m] = @ + 1] /\ UNCHANGED <<held, watching>>
             /\ owed' = (IF disposed[m] THEN owed ELSE [owed EXCEPT ![m] = @ \cup {cleanups'[m]}])
    <3>1. cleanups'[m] = cleanups[m] + 1 /\ 1..cleanups[m] \subseteq 1..(cleanups[m] + 1)
          /\ cleanups[m] + 1 \in 1..(cleanups[m] + 1)
      <4>1. DOMAIN cleanups = Modules
        BY <1>1 DEF TypeOK, HostTypeOK
      <4>2. cleanups'[m] = cleanups[m] + 1
        BY <2>3, <4>1
      <4>3. cleanups[m] \in Nat
        BY <2>1
      <4> QED
        BY <4>2, <4>3
    <3>2. ~disposed[m] => owed'[m] = owed[m] \cup {cleanups[m] + 1}
      BY <1>1, <2>3, <3>1 DEF TypeOK, HostTypeOK
    <3> QED
      BY <2>1, <2>3, <3>1, <3>2
  <2> QED
    BY <1>3, <2>2, <2>3
<1>10. Kept'
  <2> SUFFICES ASSUME NEW x \in Modules
               PROVE  /\ disposed[x] =>
                           held'[x] = {} /\ x \notin watching' /\ armed[x] = {} /\ owed'[x] \subseteq ToSet(undo[x])
                      /\ ~disposed[x] => undo[x] = <<>> /\ owed'[x] \subseteq 1..cleanups'[x]
                      /\ ~HasContext(x) =>
                           held'[x] = {} /\ x \notin watching' /\ armed[x] = {} /\ owed'[x] = {}
                      /\ disposed[x] /\ x \notin ToSet(pushed) /\ undo[x] # <<>> =>
                           boot = "undoing" /\ x = loading
    BY <1>1, <1>2 DEF Kept, HasContext
  <2>1. CASE x = m
    BY <1>1, <1>9, <2>1 DEF Kept
  <2>2. CASE x # m
    BY <1>1, <1>8, <2>2 DEF Kept
  <2> QED
    BY <2>1, <2>2
<1> QED
  BY <1>5, <1>6, <1>7, <1>10 DEF IInv

\* A disposer that is called is the last of its host's that is left, and its host the last
\* of ours that is left.
LEMMA DisposerKeeps == ASSUME IInv, NEW m \in Modules, DisposerReturns(m) PROVE IInv'
<1> DEFINE d == Head(undo[m])
           n == Len(ran)
<1>1. /\ TypeOK /\ Control /\ Audience /\ Order /\ Closing /\ Kept /\ ArmedOnce /\ Falling /\ UndoneInReverse
      /\ UNCHANGED <<failFast, boot, loading, pushed, stopping, closing, closeAt, signals>>
      /\ UNCHANGED <<event, attempt, tries, promise, ended, hearing, reentered>>
      /\ UNCHANGED <<disposed, cleanups, held, watching, teardown, armed>>
      /\ undo[m] # <<>> /\ undo' = [undo EXCEPT ![m] = Tail(undo[m])]
      /\ ran' = Append(ran, <<m, d>>) /\ owed' = [owed EXCEPT ![m] = owed[m] \ {d}]
  BY DEF IInv, DisposerReturns, Disposes, bot, client
<1>2. /\ undo[m] \in Seq(1..SetupDisposer) /\ Len(undo[m]) \in Nat \ {0} /\ DOMAIN undo[m] = 1..Len(undo[m])
      /\ d = undo[m][1] /\ d \in 1..SetupDisposer
      /\ Tail(undo[m]) \in Seq(1..SetupDisposer) /\ DOMAIN Tail(undo[m]) = 1..(Len(undo[m]) - 1)
      /\ \A i \in 1..(Len(undo[m]) - 1) : Tail(undo[m])[i] = undo[m][i + 1]
  <2>1. undo[m] \in Seq(1..SetupDisposer)
    BY <1>1 DEF TypeOK, HostTypeOK
  <2>2. Len(undo[m]) \in Nat \ {0} /\ d = undo[m][1] /\ d \in 1..SetupDisposer
    <3>1. undo[m] # <<>>
      BY <1>1
    <3>2. Len(undo[m]) \in Nat \ {0}
      BY <2>1, <3>1, EmptySeq
    <3>3. Head(undo[m]) = undo[m][1]
      OBVIOUS
    <3>4. Head(undo[m]) \in 1..SetupDisposer
      BY <2>1, <3>1, HeadTailProperties
    <3> QED
      BY <3>2, <3>3, <3>4
  <2>3. /\ Tail(undo[m]) \in Seq(1..SetupDisposer) /\ Len(Tail(undo[m])) = Len(undo[m]) - 1
        /\ \A i \in 1..(Len(undo[m]) - 1) : Tail(undo[m])[i] = undo[m][i + 1]
    <3>1. undo[m] # <<>>
      BY <1>1
    <3> QED
      BY <2>1, <3>1, HeadTailProperties
  <2> QED
    BY <2>1, <2>2, <2>3
<1>3. /\ ran \in Seq(Modules \X (1..SetupDisposer)) /\ n \in Nat /\ DOMAIN ran = 1..n
      /\ ran' \in Seq(Modules \X (1..SetupDisposer)) /\ DOMAIN ran' = 1..(n + 1)
      /\ ran'[n + 1] = <<m, d>> /\ \A j \in 1..n : ran'[j] = ran[j]
  <2>1. ran \in Seq(Modules \X (1..SetupDisposer)) /\ <<m, d>> \in Modules \X (1..SetupDisposer)
    BY <1>1, <1>2 DEF TypeOK, HostTypeOK
  <2> HIDE DEF d
  <2>2. /\ ran' \in Seq(Modules \X (1..SetupDisposer)) /\ Len(ran') = n + 1 /\ ran'[n + 1] = <<m, d>>
        /\ \A j \in 1..n : ran'[j] = ran[j]
    BY <1>1, <2>1, AppendProperties
  <2> QED
    BY <2>1, <2>2
<1>4. disposed[m]
  BY <1>1 DEF Kept
<1>5. /\ undo'[m] = Tail(undo[m]) /\ owed'[m] = owed[m] \ {d}
      /\ \A x \in Modules \ {m} : undo'[x] = undo[x] /\ owed'[x] = owed[x]
  BY <1>1 DEF TypeOK, HostTypeOK
<1> HIDE DEF d
<1>6. TypeOK'
  <2>1. undo' \in [Modules -> Seq(1..SetupDisposer)] /\ owed' \in [Modules -> SUBSET (1..MaxCleanups)]
    BY <1>1, <1>2 DEF TypeOK, HostTypeOK
  <2> QED
    BY <1>1, <1>3, <2>1 DEF TypeOK, HostTypeOK
<1>7. Control' /\ Order' /\ Audience' /\ ArmedOnce'
  BY <1>1 DEF Control, Order, Audience, ArmedOnce
<1>8. \A x \in Modules : undo[x] = <<>> => undo'[x] = <<>>
  BY <1>1, <1>5
<1>9. Closing'
  BY <1>1, <1>8, PushedAre DEF Closing, Disposed
<1>10. Kept'
  <2> SUFFICES ASSUME NEW x \in Modules
               PROVE  /\ disposed[x] =>
                           held[x] = {} /\ x \notin watching /\ armed[x] = {} /\ owed'[x] \subseteq ToSet(undo'[x])
                      /\ ~disposed[x] => undo'[x] = <<>> /\ owed'[x] \subseteq 1..cleanups[x]
                      /\ ~HasContext(x) =>
                           held[x] = {} /\ x \notin watching /\ armed[x] = {} /\ owed'[x] = {}
                      /\ disposed[x] /\ x \notin ToSet(pushed) /\ undo'[x] # <<>> =>
                           boot = "undoing" /\ x = loading
    BY <1>1 DEF Kept, HasContext
  <2>1. CASE x = m
    <3>1. owed[m] \subseteq ToSet(undo[m]) /\ HasContext(m)
      BY <1>1, <1>4 DEF Kept, HasContext
    <3>2. ASSUME NEW c \in ToSet(undo[m]), c # d
          PROVE  c \in ToSet(Tail(undo[m]))
      <4>1. PICK i \in 1..Len(undo[m]) : c = undo[m][i]
        BY <1>2 DEF ToSet
      <4>2. i # 1
        BY <1>2, <3>2, <4>1
      <4>3. i - 1 \in 1..(Len(undo[m]) - 1) /\ (i - 1) + 1 = i
        BY <1>2, <4>2
      <4> QED
        BY <1>2, <4>1, <4>3 DEF ToSet
    <3>3. owed'[m] \subseteq ToSet(undo'[m])
      BY <1>5, <3>1, <3>2
    <3> QED
      BY <1>1, <1>4, <2>1, <3>1, <3>3 DEF Kept
  <2>2. CASE x # m
    BY <1>1, <1>5, <2>2 DEF Kept
  <2> QED
    BY <2>1, <2>2
<1>11. Falling'
  <2>1. ASSUME NEW x \in Modules, NEW j \in DOMAIN undo'[x], NEW i \in 1..(j - 1)
        PROVE  undo'[x][i] > undo'[x][j]
    <3>1. CASE x = m
      <4>1. j \in 1..(Len(undo[m]) - 1)
        BY <1>2, <1>5, <2>1, <3>1
      <4>2. /\ j + 1 \in DOMAIN undo[m] /\ i + 1 \in 1..((j + 1) - 1) /\ i \in 1..(Len(undo[m]) - 1)
        BY <1>2, <4>1
      <4>3. undo[m][i + 1] > undo[m][j + 1]
        BY <1>1, <4>2 DEF Falling
      <4> QED
        BY <1>2, <1>5, <3>1, <4>1, <4>2, <4>3
    <3>2. CASE x # m
      BY <1>1, <1>5, <2>1, <3>2 DEF Falling
    <3> QED
      BY <3>1, <3>2
  <2>2. ASSUME NEW j \in 1..(n + 1)
        PROVE  disposed[ran'[j][1]] /\ \A i \in DOMAIN undo'[ran'[j][1]] : ran'[j][2] > undo'[ran'[j][1]][i]
    <3>1. CASE j = n + 1
      <4>1. ran'[j][1] = m /\ ran'[j][2] = d
        BY <1>3, <3>1
      <4>2. ASSUME NEW i \in 1..(Len(undo[m]) - 1)
            PROVE  d > Tail(undo[m])[i]
        <5>1. i + 1 \in DOMAIN undo[m] /\ 1 \in 1..((i + 1) - 1)
          BY <1>2
        <5>2. undo[m][1] > undo[m][i + 1]
          BY <1>1, <5>1 DEF Falling
        <5> QED
          BY <1>2, <5>2
      <4> QED
        BY <1>2, <1>4, <1>5, <4>1, <4>2
    <3>2. CASE j # n + 1
      <4>1. j \in DOMAIN ran /\ ran'[j] = ran[j]
        BY <1>3, <3>2
      <4>2. disposed[ran[j][1]] /\ \A i \in DOMAIN undo[ran[j][1]] : ran[j][2] > undo[ran[j][1]][i]
        BY <1>1, <4>1 DEF Falling
      <4>3. CASE ran[j][1] = m
        <5>1. ASSUME NEW i \in 1..(Len(undo[m]) - 1)
              PROVE  ran[j][2] > Tail(undo[m])[i]
          <6>1. i + 1 \in DOMAIN undo[m]
            BY <1>2
          <6> QED
            BY <1>2, <4>2, <4>3, <6>1
        <5>2. ran'[j][1] = m /\ ran'[j][2] = ran[j][2]
          BY <4>1, <4>3
        <5>3. DOMAIN undo'[m] = 1..(Len(undo[m]) - 1) /\ undo'[m] = Tail(undo[m])
          BY <1>2, <1>5
        <5> QED
          BY <1>4, <5>1, <5>2, <5>3
      <4>4. CASE ran[j][1] # m
        <5>1. ran[j] \in Modules \X (1..SetupDisposer)
          BY <1>3, <4>1, ElementOfSeq
        <5>2. ran[j][1] \in Modules
          BY <5>1
        <5>3. undo'[ran[j][1]] = undo[ran[j][1]]
          BY <1>5, <4>4, <5>2
        <5>4. ran'[j][1] = ran[j][1] /\ ran'[j][2] = ran[j][2]
          BY <4>1
        <5> QED
          BY <4>2, <5>3, <5>4
      <4> QED
        BY <4>3, <4>4
    <3> QED
      BY <3>1, <3>2
  <2> QED
    BY <1>1, <1>3, <2>1, <2>2 DEF Falling
<1>12. UndoneInReverse'
  <2>1. ASSUME NEW i \in 1..n
        PROVE  /\ ran[i][1] = m => ran[i][2] > d
               /\ {ran[i][1], m} \subseteq ToSet(pushed) => ran[i][1] >= m
    <3>1. 1 \in DOMAIN undo[m] /\ i \in DOMAIN ran
      BY <1>2, <1>3
    <3>2. ran[i][1] = m => ran[i][2] > d
      BY <1>1, <1>2, <3>1 DEF Falling
    <3>3. ASSUME NEW k \in DOMAIN pushed, NEW l \in DOMAIN pushed, ran[i][1] = pushed[k], m = pushed[l]
          PROVE  pushed[k] >= pushed[l]
      <4>1. disposed[pushed[k]] /\ disposed[pushed[l]] /\ undo[pushed[l]] # <<>>
        BY <1>1, <1>4, <3>1, <3>3 DEF Falling
      <4>2. closing \in {"none", "hosts", "flushing", "over"}
        BY <1>1 DEF TypeOK
      <4>3. closing = "hosts"
        BY <1>1, <4>1, <4>2 DEF Closing, Disposed
      <4>4. k >= closeAt /\ l >= closeAt /\ ~(l > closeAt) /\ closeAt \in DOMAIN pushed
        BY <1>1, <4>1, <4>3 DEF Closing
      <4>5. l \in Nat /\ k \in Nat /\ closeAt \in Nat /\ pushed[k] \in Nat /\ pushed[l] \in Nat
        BY <1>1, <4>4, PushedAre
      <4>6. CASE k = l
        BY <4>5, <4>6
      <4>7. CASE k # l
        <5>1. l \in 1..(k - 1)
          BY <1>1, <4>4, <4>5, <4>7, PushedAre
        <5>2. pushed[l] < pushed[k]
          BY <1>1, <5>1 DEF Order
        <5> QED
          BY <4>5, <5>2
      <4> QED
        BY <4>6, <4>7
    <3>4. {ran[i][1], m} \subseteq ToSet(pushed) => ran[i][1] >= m
      BY <3>3 DEF ToSet
    <3> QED
      BY <3>2, <3>4
  <2>2. ASSUME NEW j \in 1..(n + 1), NEW i \in 1..(j - 1)
        PROVE  /\ ran'[i][1] = ran'[j][1] => ran'[i][2] > ran'[j][2]
               /\ {ran'[i][1], ran'[j][1]} \subseteq ToSet(pushed) => ran'[i][1] >= ran'[j][1]
    <3>1. i \in 1..n /\ ran'[i] = ran[i]
      BY <1>3
    <3>2. CASE j = n + 1
      <4>1. ran'[j][1] = m /\ ran'[j][2] = d
        BY <1>3, <3>2
      <4> QED
        BY <2>1, <3>1, <4>1
    <3>3. CASE j # n + 1
      <4>1. j \in DOMAIN ran /\ ran'[j] = ran[j]
        BY <1>3, <3>3
      <4> QED
        BY <1>1, <3>1, <4>1 DEF UndoneInReverse
    <3> QED
      BY <3>2, <3>3
  <2> QED
    BY <1>1, <1>3, <2>2 DEF UndoneInReverse
<1> QED
  BY <1>6, <1>7, <1>9, <1>10, <1>11, <1>12 DEF IInv

-----------------------------------------------------------------------------
(* Steps that dispose of a host, and the one that connects.                *)

\* How the teardown goes on, to host k or behind the last one to the client, and where it
\* comes from: the catch of #doStart, stop(), or the host before.
ClosesTo(k) ==
  /\ ClosesNext(k) /\ hearing = {} /\ signals' = FALSE
  /\ UNCHANGED <<failFast, pushed, loading, reentered>>
  /\ \/ closing = "none" /\ k = Len(pushed)
     \/ closing = "hosts" /\ k = closeAt - 1 /\ Disposed(pushed[closeAt])
  /\ \/ /\ boot' = "cleaning" /\ stopping' = stopping
        /\ \/ boot \in {"imports", "loading", "connecting", "cleaning"}
           \/ boot = "undoing" /\ Disposed(loading)
     \/ boot \in {"none", "started"} /\ boot' = boot /\ stopping' = "cleaning"

\* It disposes of the hosts one by one, and ends the client behind them.
LEMMA CloseKeeps == ASSUME IInv, NEW k \in Nat, ClosesTo(k) PROVE IInv'
<1> DEFINE N == Len(pushed)
<1>1. /\ TypeOK /\ Control /\ Audience /\ Order /\ Closing /\ Kept /\ ArmedOnce /\ Falling /\ UndoneInReverse
      /\ HostTypeOK
      /\ hearing = {} /\ signals' = FALSE /\ UNCHANGED <<failFast, pushed, loading, reentered>>
  BY DEF IInv, TypeOK, ClosesTo
<1>2. /\ N \in Nat /\ DOMAIN pushed = 1..N /\ pushed \in Seq(Modules)
      /\ \A i \in DOMAIN pushed : pushed[i] \in Modules /\ pushed[i] \in Nat
  BY <1>1, PushedAre DEF TypeOK
<1>3. loading \in Nat /\ closeAt \in 0..N
  BY <1>1 DEF TypeOK
<1>4. k \in 0..N /\ \A i \in 1..N : /\ i > k => Disposed(pushed[i])
                                    /\ i <= k => ~disposed[pushed[i]]
  <2>1. CASE closing = "none" /\ k = Len(pushed)
    BY <1>1, <1>2, <2>1 DEF Closing
  <2>2. CASE closing = "hosts" /\ k = closeAt - 1 /\ Disposed(pushed[closeAt])
    <3>1. closeAt \in 1..N
      BY <1>1, <1>2, <2>2 DEF Closing
    <3>2. \A i \in 1..N : (disposed[pushed[i]] <=> i >= closeAt) /\ (i > closeAt => undo[pushed[i]] = <<>>)
      BY <1>1, <1>2, <2>2 DEF Closing
    <3> HIDE DEF N
    <3>3. ASSUME NEW i \in 1..N, i > k
          PROVE  Disposed(pushed[i])
      <4>1. i = closeAt \/ i > closeAt
        BY <1>2, <2>2, <3>1, <3>3
      <4>2. CASE i = closeAt
        BY <2>2, <4>2
      <4>3. CASE i > closeAt
        BY <1>2, <3>1, <3>2, <4>3 DEF Disposed
      <4> QED
        BY <4>1, <4>2, <4>3
    <3>4. ASSUME NEW i \in 1..N, i <= k
          PROVE  ~disposed[pushed[i]]
      BY <1>2, <2>2, <3>1, <3>2, <3>4
    <3> QED
      BY <1>2, <2>2, <3>1, <3>3, <3>4
  <2> QED
    BY <2>1, <2>2 DEF ClosesTo
<1> HIDE DEF N
<1>6. closing' # "none" /\ closing' # "over" /\ (closing' = "flushing" => ended') => Control'
  BY <1>1 DEF Control, TypeOK, ClosesTo
<1>7. boot' # "undoing" /\ (boot \in {"undoing", "cleaning", "failed"} => boot' = "cleaning")
  BY <1>1 DEF Control, ClosesTo
<1>8. boot = "undoing" => Disposed(loading)
  BY DEF ClosesTo
<1>9. /\ boot' \in {"none", "started", "cleaning"} /\ signals' \in BOOLEAN
      /\ stopping' \in {"none", "waiting", "cleaning", "stopped"} /\ boot # "setup"
  BY <1>1 DEF TypeOK, ClosesTo
<1>10. CASE k > 0
  <2> DEFINE m == pushed[k]
  <2>1. k \in 1..N /\ m \in Modules /\ m \in Nat /\ ~disposed[m]
    <3>1. k \in 1..N /\ k <= k
      BY <1>2, <1>4, <1>10
    <3> QED
      BY <1>2, <1>4, <3>1
  <2>2. /\ closing' = "hosts" /\ closeAt' = k
        /\ UNCHANGED <<event, attempt, tries, promise, ended, hearing>>
    BY <1>10 DEF ClosesTo, ClosesNext, client
  <2>3. PICK returned \in BOOLEAN : BeginsDisposal(m, returned)
    BY <1>10 DEF ClosesTo, ClosesNext
  <2> HIDE DEF m
  <2>4. /\ HostTypeOK' /\ UNCHANGED <<cleanups, owed, ran>> /\ watching' = watching \ {m}
        /\ disposed'[m] /\ held'[m] = {} /\ armed'[m] = {} /\ owed[m] \subseteq ToSet(undo'[m])
        /\ \A j \in DOMAIN undo'[m] : \A i \in 1..(j - 1) : undo'[m][i] > undo'[m][j]
        /\ \A x \in Modules \ {m} :
             /\ disposed'[x] = disposed[x] /\ held'[x] = held[x] /\ undo'[x] = undo[x]
             /\ armed'[x] = armed[x] /\ teardown'[x] = teardown[x]
    BY <1>1, <2>1, <2>3, DisposalBegins
  <2>5. TypeOK'
    <3>1. closeAt' \in 0..Len(pushed') /\ pushed' \in Seq(Modules) /\ loading' \in Nat
      BY <1>1, <1>4, <2>2 DEF TypeOK, N
    <3> QED
      BY <1>1, <1>9, <2>2, <2>4, <3>1 DEF TypeOK
  <2>6. Control'
    BY <1>6, <2>2
  <2>7. Audience'
    BY <1>1, <2>2 DEF Audience
  <2>8. Order'
    <3>1. m < loading
      BY <1>1, <1>2, <2>1 DEF Order, m
    <3>2. ASSUME NEW x \in Modules, disposed'[x]
          PROVE  x < loading \/ (x = loading /\ boot' \in {"undoing", "cleaning", "failed"})
      <4>1. CASE x = m
        BY <3>1, <4>1
      <4>2. CASE x # m
        BY <1>1, <1>7, <2>4, <3>2, <4>2 DEF Order
      <4> QED
        BY <4>1, <4>2
    <3> QED
      BY <1>1, <1>7, <3>2 DEF Order
  <2>9. \A i \in 1..N : i # k => pushed[i] \in Modules \ {m}
    <3> SUFFICES ASSUME NEW i \in 1..N, i # k PROVE pushed[i] # m
      BY <1>2
    <3>1. i < k \/ k < i
      BY <1>2
    <3>2. pushed[i] \in Nat /\ m \in Nat
      BY <1>2, <2>1
    <3>3. CASE i < k
      <4>1. i \in 1..(k - 1)
        BY <1>2, <3>3
      <4>2. pushed[i] < m
        BY <1>1, <1>2, <2>1, <4>1 DEF Order, m
      <4> QED
        BY <3>2, <4>2
    <3>4. CASE k < i
      <4>1. k \in 1..(i - 1)
        BY <1>2, <2>1, <3>4
      <4>2. m < pushed[i]
        BY <1>1, <1>2, <4>1 DEF Order, m
      <4> QED
        BY <3>2, <4>2
    <3> QED
      BY <3>1, <3>3, <3>4
  <2>10. Closing'
    <3>1. ASSUME NEW i \in 1..N
          PROVE  (disposed'[pushed[i]] <=> i >= k) /\ (i > k => undo'[pushed[i]] = <<>>)
      <4>1. CASE i = k
        BY <1>2, <2>1, <2>4, <4>1 DEF m
      <4>2. CASE i # k
        <5>1. disposed'[pushed[i]] = disposed[pushed[i]] /\ undo'[pushed[i]] = undo[pushed[i]]
          BY <2>4, <2>9, <4>2
        <5>2. i \in Nat /\ k \in Nat /\ (i > k \/ i < k)
          BY <1>2, <4>2
        <5>3. CASE i > k
          BY <1>4, <5>1, <5>2, <5>3 DEF Disposed
        <5>4. CASE i < k
          BY <1>4, <5>1, <5>2, <5>4
        <5> QED
          BY <5>2, <5>3, <5>4
      <4> QED
        BY <4>1, <4>2
    <3> QED
      BY <1>1, <1>2, <2>1, <2>2, <3>1 DEF Closing
  <2>11. Kept'
    <3>1. m \in ToSet(pushed)
      BY <1>2, <2>1 DEF m, ToSet
    <3>2. \A x \in Modules : HasContext(x) => HasContext(x)'
      BY <1>1, <1>9, <2>4 DEF HasContext
    <3> SUFFICES ASSUME NEW x \in Modules
                 PROVE  /\ disposed'[x] => held'[x] = {} /\ x \notin watching' /\ armed'[x] = {}
                                             /\ owed'[x] \subseteq ToSet(undo'[x])
                        /\ ~disposed'[x] => undo'[x] = <<>> /\ owed'[x] \subseteq 1..cleanups'[x]
                        /\ ~HasContext(x)' =>
                             held'[x] = {} /\ x \notin watching' /\ armed'[x] = {} /\ owed'[x] = {}
                        /\ ~(disposed'[x] /\ x \notin ToSet(pushed') /\ undo'[x] # <<>>)
      BY <1>1 DEF Kept
    <3>3. CASE x = m
      BY <1>1, <2>4, <3>1, <3>3 DEF HasContext
    <3>4. CASE x # m
      BY <1>1, <1>8, <2>4, <3>2, <3>4 DEF Kept, Disposed
    <3> QED
      BY <3>3, <3>4
  <2>12. ArmedOnce'
    <3> SUFFICES ASSUME NEW x \in Modules
                 PROVE  /\ armed'[x] \subseteq {teardown'[x]}
                        /\ armed'[x] # {} =>
                             \/ ended /\ x \in reentered
                             \/ /\ ~ended /\ x \in watching'
                                /\ \/ event = "registered" /\ armed'[x] = {attempt}
                                   \/ event = "disconnected" /\ x \in hearing
      BY <1>1, <2>2 DEF ArmedOnce
    <3>1. CASE x = m
      BY <2>4, <3>1
    <3>2. CASE x # m
      BY <1>1, <2>4, <3>2 DEF ArmedOnce
    <3> QED
      BY <3>1, <3>2
  <2>13. Falling'
    <3>1. ASSUME NEW j \in DOMAIN ran
          PROVE  disposed'[ran[j][1]] /\ \A i \in DOMAIN undo'[ran[j][1]] : ran[j][2] > undo'[ran[j][1]][i]
      <4>1. disposed[ran[j][1]] /\ \A i \in DOMAIN undo[ran[j][1]] : ran[j][2] > undo[ran[j][1]][i]
        BY <1>1 DEF Falling
      <4>2. ran[j] \in Modules \X (1..SetupDisposer)
        BY <1>1, ElementOfSeq DEF HostTypeOK
      <4>3. ran[j][1] \in Modules \ {m}
        BY <2>1, <4>1, <4>2
      <4>4. disposed'[ran[j][1]] = disposed[ran[j][1]] /\ undo'[ran[j][1]] = undo[ran[j][1]]
        BY <2>4, <4>3
      <4> QED
        BY <4>1, <4>4
    <3>2. ASSUME NEW x \in Modules
          PROVE  \A j \in DOMAIN undo'[x] : \A i \in 1..(j - 1) : undo'[x][i] > undo'[x][j]
      <4>1. CASE x = m
        BY <2>4, <4>1
      <4>2. CASE x # m
        BY <1>1, <2>4, <4>2 DEF Falling
      <4> QED
        BY <4>1, <4>2
    <3> QED
      BY <2>4, <3>1, <3>2 DEF Falling
  <2>14. UndoneInReverse'
    BY <1>1, <2>4 DEF UndoneInReverse
  <2> QED
    BY <2>5, <2>6, <2>7, <2>8, <2>10, <2>11, <2>12, <2>13, <2>14 DEF IInv
<1>11. CASE k = 0
  <2>1. /\ closing' = "flushing" /\ closeAt' = 0
        /\ IF ended THEN UNCHANGED <<hosts, client, hearing>> ELSE EndsClient(NoModule)
    BY <1>11 DEF ClosesTo, ClosesNext
  <2>2. /\ HostTypeOK' /\ Audience' /\ ArmedOnce' /\ ended' /\ hearing' = {}
        /\ UNCHANGED <<disposed, cleanups, owed, held, undo, ran>> /\ watching' \subseteq watching
        /\ \A m \in Modules : m \notin watching /\ armed[m] = {} => armed'[m] = {}
    <3>1. CASE ended
      <4>1. /\ UNCHANGED <<disposed, cleanups, owed, held, watching, teardown, armed, undo, ran>>
            /\ UNCHANGED <<event, attempt, tries, promise, ended, hearing>>
        BY <2>1, <3>1 DEF hosts, client
      <4> QED
        BY <1>1, <3>1, <4>1 DEF HostTypeOK, Audience, ArmedOnce
    <3>2. CASE ~ended
      <4>1. NoModule \notin Modules
        BY HostAssumption DEF NoModule, Modules
      <4>2. EndsClient(NoModule)
        BY <2>1, <3>2
      <4> QED
        BY <1>1, <4>1, <4>2, ClientIsEnded
    <3> QED
      BY <3>1, <3>2
  <2>3. TypeOK'
    <3>1. 0 \in 0..Len(pushed) /\ pushed' \in Seq(Modules) /\ reentered' \subseteq Modules
      BY <1>1, <1>2 DEF TypeOK, N
    <3> QED
      BY <1>1, <1>9, <2>1, <2>2, <3>1 DEF TypeOK
  <2>4. Control'
    BY <1>6, <2>1, <2>2
  <2>5. Order'
    BY <1>1, <1>7, <2>2 DEF Order
  <2>6. Closing'
    <3>1. \A i \in 1..N : Disposed(pushed[i])
      BY <1>2, <1>4, <1>11
    <3> QED
      BY <1>1, <1>2, <2>1, <2>2, <3>1 DEF Closing, Disposed
  <2>7. Kept'
    <3>1. \A x \in Modules : HasContext(x) => HasContext(x)'
      BY <1>1, <1>9, <2>2 DEF HasContext
    <3>2. boot = "undoing" => undo[loading] = <<>>
      BY <1>8 DEF Disposed
    <3> QED
      BY <1>1, <2>2, <3>1, <3>2, KeptStays
  <2>8. Falling' /\ UndoneInReverse'
    BY <1>1, <2>2 DEF Falling, UndoneInReverse
  <2> QED
    BY <2>2, <2>3, <2>4, <2>5, <2>6, <2>7, <2>8 DEF IInv
<1> QED
  BY <1>10, <1>11

\* A setup() that fails: the module is not one of ours, and its host undoes it alone.
LEMMA SetupFailsKeeps == ASSUME IInv, SetupFails PROVE IInv'
<1> DEFINE m == loading
<1>1. /\ TypeOK /\ Control /\ Audience /\ Order /\ Closing /\ Kept /\ ArmedOnce /\ Falling /\ UndoneInReverse
      /\ HostTypeOK /\ UNCHANGED <<failFast, loading, pushed, stopping, closing, closeAt, signals>>
      /\ UNCHANGED <<event, attempt, tries, promise, ended, hearing, reentered>>
      /\ boot = "setup" /\ boot' = "undoing" /\ BeginsDisposal(m, FALSE)
  BY DEF IInv, TypeOK, SetupFails, client
<1>2. m \in Modules /\ m \in Nat /\ closing = "none" /\ ~disposed[m]
  BY <1>1 DEF Control, TypeOK, Order
<1>3. \A i \in DOMAIN pushed : pushed[i] \in Modules \ {m}
  BY <1>1, <1>2, PushedAre DEF Order
<1> HIDE DEF m
<1>4. /\ HostTypeOK' /\ UNCHANGED <<cleanups, owed, ran>> /\ watching' = watching \ {m}
      /\ disposed'[m] /\ held'[m] = {} /\ armed'[m] = {} /\ owed[m] \subseteq ToSet(undo'[m])
      /\ \A j \in DOMAIN undo'[m] : \A i \in 1..(j - 1) : undo'[m][i] > undo'[m][j]
      /\ \A x \in Modules \ {m} :
           /\ disposed'[x] = disposed[x] /\ held'[x] = held[x] /\ undo'[x] = undo[x]
           /\ armed'[x] = armed[x] /\ teardown'[x] = teardown[x]
  BY <1>1, <1>2, DisposalBegins
<1>5. TypeOK' /\ Control'
  BY <1>1, <1>2, <1>4 DEF TypeOK, Control, m
<1>6. Audience'
  BY <1>1, <1>4, <1>2 DEF Audience, SetupFails
<1>7. Order'
  <2>1. ASSUME NEW x \in Modules, disposed'[x]
        PROVE  x < loading \/ x = loading
    BY <1>1, <1>4, <2>1 DEF Order, m
  <2> QED
    BY <1>1, <1>4, <2>1 DEF Order, m
<1>8. Closing'
  BY <1>1, <1>2, <1>3, <1>4 DEF Closing
<1>9. Kept'
  <2>1. \A x \in Modules \ {m} : HasContext(x) => HasContext(x)'
    BY <1>1, <1>4 DEF HasContext, m
  <2> SUFFICES ASSUME NEW x \in Modules
               PROVE  /\ disposed'[x] => held'[x] = {} /\ x \notin watching' /\ armed'[x] = {}
                                           /\ owed'[x] \subseteq ToSet(undo'[x])
                      /\ ~disposed'[x] => undo'[x] = <<>> /\ owed'[x] \subseteq 1..cleanups'[x]
                      /\ ~HasContext(x)' =>
                           held'[x] = {} /\ x \notin watching' /\ armed'[x] = {} /\ owed'[x] = {}
                      /\ disposed'[x] /\ x \notin ToSet(pushed') /\ undo'[x] # <<>> => x = m
    BY <1>1 DEF Kept, m
  <2>2. CASE x = m
    BY <1>4, <2>2 DEF HasContext
  <2>3. CASE x # m
    BY <1>1, <1>4, <2>1, <2>3 DEF Kept
  <2> QED
    BY <2>2, <2>3
<1>10. ArmedOnce'
  <2> SUFFICES ASSUME NEW x \in Modules
               PROVE  /\ armed'[x] \subseteq {teardown'[x]}
                      /\ armed'[x] # {} =>
                           \/ ended /\ x \in reentered
                           \/ /\ ~ended /\ x \in watching'
                              /\ \/ event = "registered" /\ armed'[x] = {attempt}
                                 \/ event = "disconnected" /\ x \in hearing
    BY <1>1 DEF ArmedOnce
  <2>1. CASE x = m
    BY <1>4, <2>1
  <2>2. CASE x # m
    BY <1>1, <1>4, <2>2 DEF ArmedOnce
  <2> QED
    BY <2>1, <2>2
<1>11. Falling'
  <2>1. ASSUME NEW j \in DOMAIN ran
        PROVE  disposed'[ran[j][1]] /\ \A i \in DOMAIN undo'[ran[j][1]] : ran[j][2] > undo'[ran[j][1]][i]
    <3>1. disposed[ran[j][1]] /\ \A i \in DOMAIN undo[ran[j][1]] : ran[j][2] > undo[ran[j][1]][i]
      BY <1>1 DEF Falling
    <3>2. ran[j] \in Modules \X (1..SetupDisposer)
      BY <1>1, ElementOfSeq DEF HostTypeOK
    <3>3. ran[j][1] \in Modules \ {m}
      BY <1>2, <3>1, <3>2
    <3>4. disposed'[ran[j][1]] = disposed[ran[j][1]] /\ undo'[ran[j][1]] = undo[ran[j][1]]
      BY <1>4, <3>3
    <3> QED
      BY <3>1, <3>4
  <2>2. ASSUME NEW x \in Modules
        PROVE  \A j \in DOMAIN undo'[x] : \A i \in 1..(j - 1) : undo'[x][i] > undo'[x][j]
    <3>1. CASE x = m
      BY <1>4, <3>1
    <3>2. CASE x # m
      BY <1>1, <1>4, <3>2 DEF Falling
    <3> QED
      BY <3>1, <3>2
  <2> QED
    BY <1>4, <2>1, <2>2 DEF Falling
<1>12. UndoneInReverse'
  BY <1>1, <1>4 DEF UndoneInReverse
<1> QED
  BY <1>5, <1>6, <1>7, <1>8, <1>9, <1>10, <1>11, <1>12 DEF IInv

\* connect() begins when every module has been set up, and nobody has heard of it yet.
LEMMA ConnectsKeeps == ASSUME IInv, Connects, ~ended PROVE IInv'
<1>1. /\ TypeOK /\ Control /\ Audience /\ Order /\ Closing /\ Kept /\ ArmedOnce /\ Falling /\ UndoneInReverse
      /\ UNCHANGED <<failFast, loading, pushed, stopping, closing, closeAt, hearing, reentered>>
      /\ UNCHANGED <<disposed, cleanups, owed, held, watching, teardown, armed, undo, ran>>
      /\ boot = "loading" /\ boot' = "connecting" /\ signals' = TRUE /\ hearing = {} /\ Client!Starts
  BY DEF IInv, Connects, hosts
<1>2. /\ closing = "none" /\ attempt \in Nat /\ ended' = FALSE /\ attempt' = attempt + 1
      /\ event \in {"none", "reconnecting"}
  BY <1>1 DEF Control, Audience, Client!Starts
<1>3. \A m \in Modules : armed[m] = {}
  BY <1>1, <1>2 DEF ArmedOnce, Connects
<1>4. TypeOK' /\ Control' /\ Order' /\ Closing'
  BY <1>1, <1>2 DEF TypeOK, HostTypeOK, Control, Order, Closing
<1>5. Audience'
  <2>1. ended' \in BOOLEAN /\ attempt' \in Nat
    <3>1. attempt' \in Nat /\ ended' = FALSE
      BY <1>2
    <3> QED
      BY <3>1
  <2>2. hearing' = {}
    BY <1>1
  <2> QED
    BY <2>1, <2>2 DEF Audience
<1>6. ArmedOnce'
  BY <1>1, <1>3 DEF ArmedOnce
<1>7. Kept'
  <2>1. \A m \in Modules : HasContext(m) => HasContext(m)'
    BY <1>1 DEF HasContext
  <2> QED
    BY <1>1, <2>1, KeptStays
<1>8. Falling' /\ UndoneInReverse'
  BY <1>1 DEF Falling, UndoneInReverse
<1> QED
  BY <1>4, <1>5, <1>6, <1>7, <1>8 DEF IInv

-----------------------------------------------------------------------------
(* The inductive invariant.                                                *)

\* A new bot.
LEMMA InitInv == Init => IInv
<1> SUFFICES ASSUME Init PROVE IInv
  OBVIOUS
<1>1. /\ disposed = [m \in Modules |-> FALSE] /\ cleanups = [m \in Modules |-> 0] /\ owed = [m \in Modules |-> {}]
      /\ held = [m \in Modules |-> {}] /\ watching = {} /\ teardown = [m \in Modules |-> 0]
      /\ armed = [m \in Modules |-> {}] /\ undo = [m \in Modules |-> <<>>] /\ ran = <<>>
      /\ event = "none" /\ attempt = 0 /\ ended = FALSE
      /\ failFast \in BOOLEAN /\ boot = "none" /\ loading = 1 /\ pushed = <<>>
      /\ stopping = "none" /\ closing = "none" /\ closeAt = 0 /\ signals = FALSE
      /\ hearing = {} /\ reentered = {}
  BY DEF Init, HostInit, Client!Init
<1>2. MaxCleanups \in Nat /\ NumModules \in Nat
  BY HostAssumption
<1>3. DOMAIN pushed = {} /\ DOMAIN ran = {} /\ Len(pushed) = 0
  BY <1>1
<1>4. TypeOK
  <2>1. \A m \in Modules : undo[m] \in Seq(1..SetupDisposer)
    BY <1>1
  <2>2. undo \in [Modules -> Seq(1..SetupDisposer)] /\ ran \in Seq(Modules \X (1..SetupDisposer))
        /\ pushed \in Seq(Modules)
    BY <1>1, <2>1
  <2>3. HostTypeOK
    BY <1>1, <1>2, <2>2 DEF HostTypeOK
  <2>4. closeAt \in 0..Len(pushed) /\ loading \in Nat
    BY <1>1, <1>3
  <2> QED
    BY <1>1, <2>2, <2>3, <2>4 DEF TypeOK
<1>5. Control /\ Audience /\ ArmedOnce
  BY <1>1 DEF Control, Audience, ArmedOnce
<1>6. Order /\ Closing /\ UndoneInReverse
  BY <1>1, <1>3 DEF Order, Closing, UndoneInReverse
<1>7. Kept
  BY <1>1 DEF Kept
<1>8. Falling
  <2>1. \A m \in Modules : DOMAIN undo[m] = {}
    BY <1>1
  <2> QED
    BY <1>3, <2>1 DEF Falling
<1> QED
  BY <1>4, <1>5, <1>6, <1>7, <1>8 DEF IInv

\* Every step of start() that fails it begins the teardown.
LEMMA FailureCloses ==
  ASSUME IInv, StartFails, hearing = {}, UNCHANGED <<failFast, pushed, loading, stopping, reentered>>,
         \/ boot \in {"imports", "loading", "connecting"}
         \/ boot = "undoing" /\ Disposed(loading)
  PROVE  IInv'
<1>1. Len(pushed) \in Nat
  BY PushedAre DEF IInv
<1>2. ClosesTo(Len(pushed))
  BY DEF StartFails, BeginsTeardown, ClosesTo
<1> QED
  BY <1>1, <1>2, CloseKeeps

\* The steps of start().
LEMMA BootKeeps ==
  ASSUME IInv,
         Start \/ Imported \/ Loads \/ SetUp \/ SetupFails \/ SetupUndone \/ Connects \/ Connected \/ StartRejects
  PROVE  IInv'
<1> USE DEF hosts, client
<1>1. CASE Start
  BY <1>1, QuietKeeps DEF Start, Quiet
<1>2. CASE Imported
  <2>1. CASE StartFails
    BY <1>2, <2>1, FailureCloses DEF Imported
  <2>2. CASE ~StartFails
    BY <1>2, <2>2, QuietKeeps DEF Imported, Quiet
  <2> QED
    BY <2>1, <2>2
<1>3. CASE Loads
  <2>1. CASE StartFails /\ UNCHANGED loading
    BY <1>3, <2>1, FailureCloses DEF Loads
  <2>2. CASE ~(StartFails /\ UNCHANGED loading)
    BY <1>3, <2>2, QuietKeeps DEF Loads, ModuleFails, Quiet
  <2> QED
    BY <2>1, <2>2
<1>4. CASE SetUp
  BY <1>4, SetUpKeeps
<1>5. CASE SetupFails
  BY <1>5, SetupFailsKeeps
<1>6. CASE SetupUndone
  <2>1. CASE StartFails /\ UNCHANGED loading
    BY <1>6, <2>1, FailureCloses DEF SetupUndone
  <2>2. CASE ~(StartFails /\ UNCHANGED loading)
    <3>1. loading \in Modules
      BY <1>6 DEF IInv, Control, SetupUndone
    <3> QED
      BY <1>6, <2>2, <3>1, QuietKeeps DEF SetupUndone, ModuleFails, Quiet
  <2> QED
    BY <2>1, <2>2
<1>7. CASE Connects
  <2>1. CASE ended
    BY <1>7, <2>1, FailureCloses DEF Connects
  <2>2. CASE ~ended
    BY <1>7, <2>2, ConnectsKeeps
  <2> QED
    BY <2>1, <2>2
<1>8. CASE Connected
  <2>1. CASE StartFails
    BY <1>8, <2>1, FailureCloses DEF Connected
  <2>2. CASE ~StartFails
    BY <1>8, <2>2, QuietKeeps DEF Connected, Quiet
  <2> QED
    BY <2>1, <2>2
<1>9. CASE StartRejects
  BY <1>9, QuietKeeps DEF StartRejects, Quiet
<1> QED
  BY <1>1, <1>2, <1>3, <1>4, <1>5, <1>6, <1>7, <1>8, <1>9

\* The steps of stop() and of the teardown.
LEMMA StopKeeps ==
  ASSUME IInv, HostClosed \/ Stopped \/ Stop \/ StopGoesOn \/ StopResolves
  PROVE  IInv'
<1> USE DEF hosts, client
<1>1. Len(pushed) \in Nat
  BY PushedAre DEF IInv
<1>2. CASE HostClosed
  <2>1. closeAt - 1 \in Nat
    BY <1>1, <1>2, PushedAre DEF IInv, Closing, HostClosed
  <2>2. /\ boot \in {"cleaning", "failed"} \/ (boot \in {"none", "started"} /\ stopping \in {"cleaning", "stopped"})
        /\ boot # "failed" /\ stopping # "stopped" /\ signals = FALSE
    BY <1>2 DEF IInv, Control, TypeOK, HostClosed
  <2>3. ClosesTo(closeAt - 1)
    BY <1>2, <2>2 DEF HostClosed, ClosesTo
  <2> QED
    BY <2>1, <2>3, CloseKeeps
<1>3. CASE Stopped
  BY <1>3, QuietKeeps DEF Stopped, Quiet
<1>4. CASE Stop
  <2>1. CASE boot = "none"
    <3>1. ClosesTo(Len(pushed))
      BY <1>4, <2>1 DEF Stop, BeginsTeardown, ClosesTo
    <3> QED
      BY <1>1, <3>1, CloseKeeps
  <2>2. CASE boot # "none"
    BY <1>4, <2>2, QuietKeeps DEF Stop, Quiet
  <2> QED
    BY <2>1, <2>2
<1>5. CASE StopGoesOn
  <2>1. CASE stopping' = "cleaning" /\ BeginsTeardown
    <3>1. boot = "started"
      BY <1>5, <2>1 DEF IInv, Control, StopGoesOn, BeginsTeardown
    <3>2. ClosesTo(Len(pushed))
      BY <1>5, <2>1, <3>1 DEF StopGoesOn, BeginsTeardown, ClosesTo
    <3> QED
      BY <1>1, <3>2, CloseKeeps
  <2>2. CASE ~(stopping' = "cleaning" /\ BeginsTeardown)
    BY <1>5, <2>2, QuietKeeps DEF StopGoesOn, Quiet
  <2> QED
    BY <2>1, <2>2
<1>6. CASE StopResolves
  BY <1>6, QuietKeeps DEF StopResolves, Quiet
<1> QED
  BY <1>2, <1>3, <1>4, <1>5, <1>6

\* Every step keeps the invariant.
LEMMA NextKeeps == IInv /\ [Next]_vars => IInv'
<1> SUFFICES ASSUME IInv, [Next]_vars PROVE IInv'
  OBVIOUS
<1>1. CASE UNCHANGED vars
  <2>1. /\ UNCHANGED <<disposed, cleanups, owed, held, watching, teardown, armed, undo, ran>>
        /\ UNCHANGED <<failFast, boot, loading, pushed, stopping, closing, closeAt, signals>>
        /\ UNCHANGED <<event, attempt, tries, promise, ended, hearing, reentered>>
    BY <1>1 DEF vars, hosts, bot, client
  <2>2. TypeOK /\ Control /\ Audience /\ Order /\ Closing /\ Kept /\ ArmedOnce /\ Falling /\ UndoneInReverse
    BY DEF IInv
  <2>3. TypeOK' /\ Control' /\ Audience'
    BY <2>1, <2>2 DEF TypeOK, HostTypeOK, Control, Audience
  <2>4. Order' /\ Closing' /\ ArmedOnce'
    BY <2>1, <2>2 DEF Order, Closing, Disposed, ArmedOnce
  <2>5. Kept' /\ Falling' /\ UndoneInReverse'
    BY <2>1, <2>2 DEF Kept, HasContext, Falling, UndoneInReverse
  <2> QED
    BY <2>3, <2>4, <2>5 DEF IInv
<1>2. CASE ClientSteps
  BY <1>2, ClientKeeps
<1>3. CASE ClientEnds
  <2>1. NoModule \notin Modules
    BY HostAssumption DEF NoModule, Modules
  <2> QED
    BY <1>3, <2>1, EndKeeps DEF ClientEnds
<1>4. ASSUME NEW m \in Modules, Hears(m) \/ DisposerReturns(m) \/ Registers(m)
      PROVE  IInv'
  BY <1>4, HearsKeeps, DisposerKeeps, RegistersKeeps
<1>5. CASE \/ Start \/ Imported \/ Loads \/ SetUp \/ SetupFails \/ SetupUndone \/ Connects \/ Connected
           \/ StartRejects
  BY <1>5, BootKeeps
<1>6. CASE HostClosed \/ Stopped \/ Stop \/ StopGoesOn \/ StopResolves
  BY <1>6, StopKeeps
<1> QED
  BY <1>1, <1>2, <1>3, <1>4, <1>5, <1>6 DEF Next, Continues

\* Every reachable state satisfies the invariant.
LEMMA Invariance == Spec => []IInv
<1> QED
  BY InitInv, NextKeeps, PTL DEF Spec

-----------------------------------------------------------------------------

\* The types of the bot's state hold, for every number of modules.
THEOREM TypeCorrect == Spec => []TypeOK
<1>1. IInv => TypeOK
  BY DEF IInv
<1> QED
  BY <1>1, Invariance, PTL

\* Once its dispose() has returned, a host holds nothing.
LEMMA DisposedIsClean ==
  ASSUME IInv, NEW m \in Modules, Disposed(m)
  PROVE  ~Residue(m)
<1>1. undo[m] = <<>> /\ disposed[m]
  BY DEF Disposed
<1>2. ToSet(undo[m]) = {}
  BY <1>1 DEF ToSet
<1> QED
  BY <1>1, <1>2 DEF IInv, Kept, Residue

\* Behind the last host, no module holds anything: also those that never became one of ours.
LEMMA CleanWhenDone ==
  ASSUME IInv, closing \in {"flushing", "over"}, NEW m \in Modules
  PROVE  ~Residue(m)
<1>1. CASE m \in ToSet(pushed)
  <2>1. Disposed(m)
    BY <1>1 DEF IInv, Closing, ToSet
  <2> QED
    BY <2>1, DisposedIsClean
<1>2. CASE m \notin ToSet(pushed)
  <2>1. boot \notin {"setup", "undoing"}
    BY DEF IInv, Control
  <2>2. disposed[m] => Disposed(m)
    BY <1>2, <2>1 DEF IInv, Kept, Disposed
  <2>3. ~disposed[m] => ~HasContext(m)
    BY <1>2, <2>1 DEF HasContext
  <2> QED
    BY <2>2, <2>3, DisposedIsClean DEF IInv, Kept, Residue
<1> QED
  BY <1>1, <1>2

\* A start() that rejected and a stop() that resolved have left nothing behind: every
\* module with a context has been disposed of, by the teardown or by its own failed
\* setup(), and its disposers have run to the last.
THEOREM NothingIsLeftBehind == Spec => []NothingLeftBehind
<1>1. ASSUME IInv PROVE NothingLeftBehind
  <2>1. boot = "failed" \/ stopping = "stopped" => closing = "over" /\ ended /\ ~signals
    BY <1>1 DEF IInv, Control
  <2> QED
    BY <1>1, <2>1, DisposedIsClean, CleanWhenDone DEF NothingLeftBehind
<1> QED
  BY <1>1, Invariance, PTL

\* Disposers run once, in the reverse of the order they were registered in, over all
\* modules, however many there are.
THEOREM DisposalIsInReverse == Spec => []UndoneInReverse
<1>1. IInv => UndoneInReverse
  BY DEF IInv
<1> QED
  BY <1>1, Invariance, PTL

\* A module holds at most one connection's resource, the live one's, whatever it or the
\* network does, but for a setup() that quit from inside.
THEOREM ResourcesAreFresh == Spec => []FreshPerConnection
<1>1. ASSUME IInv, NEW m \in Modules
      PROVE  /\ Cardinality(armed[m]) <= 1
             /\ hearing = {} /\ armed[m] # {} =>
                  \/ event = "registered" /\ ~ended /\ armed[m] = {attempt}
                  \/ ended /\ m \in reentered
  <2>1. armed[m] \subseteq {teardown[m]}
    BY <1>1 DEF IInv, ArmedOnce
  <2>2. Cardinality(armed[m]) <= 1
    <3>1. Cardinality({}) = 0 /\ Cardinality({teardown[m]}) = 1
      BY FS_EmptySet, FS_Singleton
    <3>2. armed[m] = {} \/ armed[m] = {teardown[m]}
      BY <2>1
    <3> QED
      BY <3>1, <3>2
  <2> QED
    BY <1>1, <2>2 DEF IInv, ArmedOnce
<1>2. IInv => FreshPerConnection
  BY <1>1 DEF FreshPerConnection
<1> QED
  BY <1>2, Invariance, PTL

-----------------------------------------------------------------------------
(* Refinement: each step is a step of BotContract or none.                 *)

\* The variables of the contract.
Phase == IF closing = "over" THEN "stopped" ELSE IF closing # "none" THEN "closing"
         ELSE IF boot = "none" THEN "new" ELSE IF boot = "started" THEN "running"
         ELSE "starting"
StartPromise == IF boot = "none" THEN "none" ELSE IF boot = "started" THEN "resolved"
                ELSE IF boot = "failed" THEN "rejected" ELSE "pending"
Left == {m \in Modules : Residue(m)}

KeepsStep == [Contract!Next]_<<Phase, StartPromise, Left>>

\* Before start() and behind stop() no module holds anything.
Clean == Phase \in {"new", "stopped"} => Left = {}

\* Nobody has a context before start().
LEMMA NewIsClean == ASSUME IInv, boot = "none", closing = "none" PROVE Left = {}
<1> SUFFICES ASSUME NEW m \in Modules PROVE ~Residue(m)
  BY DEF Left
<1>1. pushed = <<>> /\ loading = 1 /\ m >= 1 /\ m \in Nat
  BY HostAssumption DEF IInv, Control, Modules
<1>2. ~disposed[m]
  BY <1>1 DEF IInv, Order
<1>3. m \notin ToSet(pushed)
  BY <1>1 DEF ToSet
<1> QED
  BY <1>2, <1>3 DEF IInv, Kept, HasContext, Residue

\* Nor does anybody hold anything behind stop().
LEMMA CleanAtBothEnds == IInv => Clean
BY NewIsClean, CleanWhenDone DEF Clean, Phase, Left

\* A step within one phase does the modules' work, or nothing the contract sees.
LEMMA SamePhase ==
  ASSUME Clean, Clean', Phase' = Phase, StartPromise' = StartPromise
  PROVE  KeepsStep
<1>1. Left' \in SUBSET Modules
  BY DEF Left
<1>2. CASE Phase \in {"starting", "running", "closing"}
  <2>1. Contract!Works
    BY <1>1, <1>2 DEF Contract!Works, Phase, StartPromise, Left
  <2> QED
    BY <2>1 DEF KeepsStep, Contract!Next
<1>3. CASE Phase \in {"new", "stopped"}
  BY <1>3 DEF KeepsStep, Clean
<1> QED
  BY <1>2, <1>3 DEF Phase

\* A teardown begins once, from any phase before it.
LEMMA TeardownCloses ==
  ASSUME BeginsTeardown, StartPromise' = StartPromise
  PROVE  KeepsStep
<1>1. closing = "none" /\ closing' \in {"hosts", "flushing"}
  BY DEF BeginsTeardown, ClosesNext
<1>2. Phase \in {"new", "starting", "running"} /\ Phase' = "closing"
  BY <1>1 DEF Phase
<1>3. Left' \in SUBSET Modules
  BY DEF Left
<1>4. Contract!Closes
  BY <1>2, <1>3 DEF Contract!Closes, Phase, StartPromise, Left
<1> QED
  BY <1>4 DEF KeepsStep, Contract!Next

\* What leaves the hosts alone leaves the contract's residue alone.
LEMMA HostsAreLeft == ASSUME UNCHANGED hosts PROVE Left' = Left
<1>1. UNCHANGED <<disposed, cleanups, owed, held, watching, teardown, armed, undo, ran>>
  BY DEF hosts
<1> QED
  BY <1>1 DEF Left, Residue

\* start() in the contract's terms.
LEMMA BootTells ==
  ASSUME IInv, Clean, Clean',
         Start \/ Imported \/ Loads \/ SetUp \/ SetupFails \/ SetupUndone \/ Connects \/ Connected \/ StartRejects
  PROVE  KeepsStep
<1> DEFINE Loops == {"imports", "loading", "setup", "undoing", "connecting"}
<1>1. CASE Start
  <2>1. Contract!Starts
    BY <1>1, HostsAreLeft DEF Start, Contract!Starts, Left
  <2> QED
    BY <2>1 DEF KeepsStep, Contract!Next
<1>2. CASE Connected /\ ~StartFails
  <2>1. boot = "connecting" /\ boot' = "started" /\ UNCHANGED hosts /\ closing' = closing
    BY <1>2 DEF Connected
  <2>2. closing = "none"
    BY <2>1 DEF IInv, Control
  <2>3. Contract!Runs
    BY <2>1, <2>2, HostsAreLeft DEF Contract!Runs, Left
  <2> QED
    BY <2>3 DEF KeepsStep, Contract!Next
<1>3. CASE StartRejects
  <2>1. Contract!Rejects
    BY <1>3, HostsAreLeft DEF StartRejects, Contract!Rejects, Left
  <2> QED
    BY <2>1 DEF KeepsStep, Contract!Next
<1>4. CASE StartFails /\ boot \in Loops
  BY <1>4, TeardownCloses DEF StartFails, StartPromise
<1>5. CASE boot \in Loops /\ boot' \in Loops /\ closing' = closing
  BY <1>5, SamePhase DEF Phase, StartPromise
<1> QED
  BY <1>1, <1>2, <1>3, <1>4, <1>5
     DEF Imported, Loads, ModuleFails, SetUp, SetupFails, SetupUndone, Connects, Connected

\* stop() and the teardown.
LEMMA StopTells ==
  ASSUME IInv, Clean, Clean', HostClosed \/ Stopped \/ Stop \/ StopGoesOn \/ StopResolves
  PROVE  KeepsStep
<1>1. CASE Stopped
  <2>1. Left = {}
    BY <1>1, CleanWhenDone DEF Stopped, Left
  <2>2. Contract!Stops
    BY <1>1, <2>1, HostsAreLeft DEF Stopped, Contract!Stops, Left
  <2> QED
    BY <2>2 DEF KeepsStep, Contract!Next
<1>2. CASE BeginsTeardown /\ boot' = boot
  BY <1>2, TeardownCloses DEF StartPromise
<1>3. CASE HostClosed
  <2>1. closing = "hosts" /\ closing' \in {"hosts", "flushing"} /\ boot' = boot
    BY <1>3 DEF HostClosed, ClosesNext
  <2> QED
    BY <2>1, SamePhase DEF Phase, StartPromise
<1>4. CASE UNCHANGED <<boot, closing>>
  BY <1>4, SamePhase DEF Phase, StartPromise
<1> QED
  BY <1>1, <1>2, <1>3, <1>4 DEF Stop, StopGoesOn, StopResolves

\* Every step is one of the contract's.
LEMMA StepTells == ASSUME IInv, Clean, Clean', [Next]_vars PROVE KeepsStep
<1>1. CASE UNCHANGED <<boot, closing>>
  BY <1>1, SamePhase DEF Phase, StartPromise
<1>2. CASE ClientSteps \/ ClientEnds \/ UNCHANGED vars
  BY <1>1, <1>2 DEF ClientSteps, ClientEnds, vars, bot
<1>3. ASSUME NEW m \in Modules, Hears(m) \/ DisposerReturns(m) \/ Registers(m)
      PROVE  KeepsStep
  BY <1>1, <1>3 DEF Hears, DisposerReturns, Registers, bot
<1> QED
  BY <1>2, <1>3, BootTells, StopTells DEF Next, Continues

\* A new bot is new to the contract.
LEMMA InitTells == Init => Contract!Init
<1> SUFFICES ASSUME Init PROVE Contract!Init
  OBVIOUS
<1>1. boot = "none" /\ closing = "none"
  BY DEF Init
<1>2. Left = {}
  BY <1>1, InitInv, NewIsClean
<1> QED
  BY <1>1, <1>2 DEF Contract!Init, Left

\* The bot keeps its contract, whatever its modules and the network do: it is closed once,
\* never while it starts, and a start() that rejects or a stop() that resolves leaves
\* nothing behind.
THEOREM BotKeepsContract == Spec => KeepsBot
<1>1. IInv /\ Clean /\ Clean' /\ [Next]_vars => KeepsStep
  BY StepTells
<1> QED
  BY <1>1, CleanAtBothEnds, InitTells, Invariance, PTL
     DEF Spec, KeepsBot, KeepsStep, Contract!Spec, Contract!bot, Phase, StartPromise, Left
=============================================================================
