-------------------------- MODULE ConnectionProofs --------------------------
(***************************************************************************)
(* What Connection keeps for every retry budget, with and without a        *)
(* deadline, wherever quit() is called.  The inductive invariant says, for *)
(* each place the control can rest (`at`), how the latest attempt, the     *)
(* shared slots and the last event belong together.                        *)
(***************************************************************************)
EXTENDS Connection, TLAPS

\* Attempts to come are blank; those gone by are settled and torn down.
PastAttempts ==
  \A a \in Attempts :
    /\ a > attemptCount => cont[a] = "none" /\ ~settled[a] /\ ~closed[a]
    /\ a < attemptCount => settled[a] /\ closed[a]

\* How far the client has come, read off #state and connection$.
Stages ==
  /\ state = "idle" => link = "none" /\ ~torndown /\ promise = "none"
  /\ link = "none" <=> attemptCount = 0
  /\ link = "none" => at = "idle" /\ state \in {"idle", "closed"} /\ ~deadline
  /\ link = "waiting" => at = "idle" /\ state = "connecting" /\ settled[Current] /\
     closed[Current]
  /\ link = "attempt" => state \in {"connecting", "registered"}
  /\ link = "over" => state = "closed" /\ (torndown \/ at = "error")
  /\ torndown => state = "closed" /\ link \in {"none", "over"}
  /\ torndown /\ attemptCount # 0 /\ at # "connecting" => settled[Current] /\ closed[Current]

\* What each event being handed out says of the latest attempt.
Places ==
  /\ at = "connecting" => ~settled[Current] /\ ~closed[Current] /\ cont[Current] = "none"
                          /\ state # "registered"
  /\ at = "connected" => cont[Current] = "connecting" /\ state # "registered"
  /\ at = "registered" => cont[Current] = "done"
  /\ at \in {"disconnected", "reconnecting"} => state # "registered"
  /\ at = "error" => link = "over"
  /\ link = "attempt" /\ at \in {"idle", "connected", "registered"} =>
       ~settled[Current] /\ ~closed[Current] /\ cont[Current] # "none"

\* A slot belongs to the latest attempt or to nobody, and to nobody once it is over.
Slots ==
  /\ {queue, store, capabilities} \subseteq {0, Current}
  /\ capabilities # 0 => store # 0
  /\ torndown \/ link \in {"none", "waiting"} \/ at = "connecting"
       => queue = 0 /\ store = 0 /\ capabilities = 0
  /\ link = "attempt" /\ at \in {"idle", "connected", "registered"} => store = Current
  /\ link = "attempt" /\ (at = "connected" \/ cont[Current] \in {"registering", "done"})
       /\ ~settled[Current] => queue = Current
  /\ state = "registered" => capabilities = Current /\ queue = Current /\ store = Current
                             /\ cont[Current] = "done"

IInv == TypeOK /\ PastAttempts /\ Stages /\ Places /\ Slots

\* The last event and the promise, for the refinement.
Told ==
  /\ ended = torndown
  /\ ~ended => /\ link = "none" => event = "none"
               /\ link = "waiting" => event = "reconnecting"
               /\ at # "idle" => event = at
               /\ link = "attempt" /\ at = "idle" =>
                    /\ cont[Current] = "connecting" => event = "connecting"
                    /\ cont[Current] = "registering" => event = "connected"
                    /\ cont[Current] = "done" => event = "registered"
  /\ at = "error" => event = "error"
  /\ link = "none" => promise = "none"
  /\ ended /\ at # "error" => promise # "pending"

-----------------------------------------------------------------------------

\* What quit() and the deadline have in common.
EndsHere == Farewell /\ Sever /\ UNCHANGED <<attemptCount, failures, at, cont>>

\* A client that was only constructed.
LEMMA InitInv == Init => IInv
<1> SUFFICES ASSUME Init PROVE IInv
  OBVIOUS
<1>1. FlagTypes
  BY DEF Init, FlagTypes
<1>2. PastAttempts
  BY DEF Init, PastAttempts, Attempts
<1>3. Stages
  BY DEF Init, Stages
<1>4. Places
  BY DEF Init, Places
<1>5. Slots
  BY DEF Init, Slots, Current
<1>6. DataTypes
  BY ConnectionAssumption DEF Init, DataTypes, Events
<1>7. AttemptTypes
  BY DEF Init, AttemptTypes, Conts
<1> QED BY <1>1, <1>2, <1>3, <1>4, <1>5, <1>6, <1>7 DEF IInv, TypeOK

\* connect() and its first attempt.
LEMMA ConnectKeeps ==
  ASSUME IInv, Connect
  PROVE  IInv'
<1>0. FlagTypes /\ DataTypes /\ AttemptTypes /\ PastAttempts /\ Stages /\ Places /\ Slots
  BY DEF IInv, TypeOK
<1>1. FlagTypes'
  BY <1>0, ConnectionAssumption DEF Connect, StartAttempt, FlagTypes
<1>2. PastAttempts'
  <2> SUFFICES ASSUME NEW b \in Attempts
               PROVE  /\ b > attemptCount' => cont'[b] = "none" /\ ~settled'[b] /\ ~closed'[b]
                      /\ b < attemptCount' => settled'[b] /\ closed'[b]
    BY DEF PastAttempts
  <2> QED BY <1>0, ConnectionAssumption DEF Connect, StartAttempt, AttemptTypes, PastAttempts,
            Stages, Attempts
<1>3. Stages'
  BY <1>0 DEF Connect, StartAttempt, Emit, Stages
<1>4. Places'
  BY <1>0, ConnectionAssumption DEF Connect, StartAttempt, Emit, PastAttempts, Stages, Places,
     Current, Attempts
<1>5. Slots'
  BY <1>0, ConnectionAssumption DEF Connect, StartAttempt, Emit, PastAttempts, Stages, Slots,
     Current, Attempts, slots
<1>6. DataTypes'
  BY <1>0, ConnectionAssumption DEF Connect, StartAttempt, Emit, DataTypes, Events, slots
<1>7. AttemptTypes'
  BY <1>0 DEF Connect, StartAttempt, AttemptTypes
<1> QED BY <1>1, <1>2, <1>3, <1>4, <1>5, <1>6, <1>7 DEF IInv, TypeOK

\* The timer of retry starts the next attempt.
LEMMA BackoffElapsesKeeps ==
  ASSUME IInv, BackoffElapses
  PROVE  IInv'
<1>0. FlagTypes /\ DataTypes /\ AttemptTypes /\ PastAttempts /\ Stages /\ Places /\ Slots
  BY DEF IInv, TypeOK
<1>1. FlagTypes'
  BY <1>0 DEF BackoffElapses, StartAttempt, FlagTypes, outside
<1>2. PastAttempts'
  <2> SUFFICES ASSUME NEW b \in Attempts
               PROVE  /\ b > attemptCount' => cont'[b] = "none" /\ ~settled'[b] /\ ~closed'[b]
                      /\ b < attemptCount' => settled'[b] /\ closed'[b]
    BY DEF PastAttempts
  <2> QED BY <1>0, ConnectionAssumption DEF BackoffElapses, StartAttempt, DataTypes,
            AttemptTypes, PastAttempts, Stages, Current, Attempts
<1>3. Stages'
  BY <1>0 DEF BackoffElapses, StartAttempt, Emit, DataTypes, Stages
<1>4. Places'
  BY <1>0, ConnectionAssumption DEF BackoffElapses, StartAttempt, Emit, DataTypes, PastAttempts,
     Places, Current, Attempts
<1>5. Slots'
  BY <1>0, ConnectionAssumption DEF BackoffElapses, StartAttempt, Emit, DataTypes, PastAttempts,
     Slots, Current, Attempts, slots
<1>6. DataTypes'
  BY <1>0, ConnectionAssumption DEF BackoffElapses, StartAttempt, Emit, DataTypes, Events,
     slots, outside
<1>7. AttemptTypes'
  BY <1>0 DEF BackoffElapses, StartAttempt, AttemptTypes
<1> QED BY <1>1, <1>2, <1>3, <1>4, <1>5, <1>6, <1>7 DEF IInv, TypeOK

\* The live link is lost.
LEMMA DropsKeeps ==
  ASSUME IInv, Drops
  PROVE  IInv'
<1>0. FlagTypes /\ DataTypes /\ AttemptTypes /\ PastAttempts /\ Stages /\ Places /\ Slots
  BY DEF IInv, TypeOK
<1>1. FlagTypes'
  BY <1>0 DEF Drops, FlagTypes, outside
<1>2. PastAttempts'
  <2> SUFFICES ASSUME NEW b \in Attempts
               PROVE  /\ b > attemptCount' => cont'[b] = "none" /\ ~settled'[b] /\ ~closed'[b]
                      /\ b < attemptCount' => settled'[b] /\ closed'[b]
    BY DEF PastAttempts
  <2> QED BY <1>0 DEF Drops, FailAttempt, AttemptTypes, PastAttempts, Places
<1>3. Stages'
  BY <1>0 DEF Drops, FailAttempt, Stages
<1>4. Places'
  BY <1>0 DEF Drops, FailAttempt, Emit, Places
<1>5. Slots'
  BY <1>0 DEF Drops, FailAttempt, Emit, Slots, Current, slots
<1>6. DataTypes'
  BY <1>0 DEF Drops, FailAttempt, Emit, DataTypes, Events, slots, outside
<1>7. AttemptTypes'
  BY <1>0 DEF Drops, FailAttempt, AttemptTypes
<1> QED BY <1>1, <1>2, <1>3, <1>4, <1>5, <1>6, <1>7 DEF IInv, TypeOK

\* The end, from outside or from inside a handler.
LEMMA EndsHereKeeps ==
  ASSUME IInv, EndsHere
  PROVE  IInv'
<1>0. FlagTypes /\ DataTypes /\ AttemptTypes /\ PastAttempts /\ Stages /\ Places /\ Slots
  BY DEF IInv, TypeOK
<1>1. FlagTypes'
  BY <1>0 DEF EndsHere, Farewell, Sever, FlagTypes, outside
<1>2. PastAttempts'
  <2> SUFFICES ASSUME NEW b \in Attempts
               PROVE  /\ b > attemptCount' => cont'[b] = "none" /\ ~settled'[b] /\ ~closed'[b]
                      /\ b < attemptCount' => settled'[b] /\ closed'[b]
    BY DEF PastAttempts
  <2> QED BY <1>0 DEF EndsHere, Sever, AttemptTypes, PastAttempts, Current
<1>3. Stages'
  BY <1>0, ConnectionAssumption DEF EndsHere, Farewell, Sever, DataTypes, AttemptTypes, Stages,
     Current, Attempts, outside
<1>4. Places'
  BY <1>0 DEF EndsHere, Farewell, Sever, Places, Current
<1>5. Slots'
  BY <1>0 DEF EndsHere, Farewell, Sever, Slots
<1>6. DataTypes'
  BY <1>0, ConnectionAssumption DEF EndsHere, Farewell, Sever, Reject, DataTypes, outside
<1>7. AttemptTypes'
  BY <1>0 DEF EndsHere, Sever, AttemptTypes
<1> QED BY <1>1, <1>2, <1>3, <1>4, <1>5, <1>6, <1>7 DEF IInv, TypeOK

\* The setup behind "connecting", whatever its handler did.
LEMMA ResumeConnectingKeeps ==
  ASSUME IInv, ResumeConnecting
  PROVE  IInv'
<1>0. FlagTypes /\ DataTypes /\ AttemptTypes /\ PastAttempts /\ Stages /\ Places /\ Slots
  BY DEF IInv, TypeOK
<1>1. FlagTypes'
  BY <1>0 DEF ResumeConnecting, FlagTypes, outside
<1>2. PastAttempts'
  <2> SUFFICES ASSUME NEW b \in Attempts
               PROVE  /\ b > attemptCount' => cont'[b] = "none" /\ ~settled'[b] /\ ~closed'[b]
                      /\ b < attemptCount' => settled'[b] /\ closed'[b]
    BY DEF PastAttempts
  <2> QED BY <1>0 DEF ResumeConnecting, AttemptTypes, PastAttempts, Current
<1>3. Stages'
  BY <1>0, ConnectionAssumption DEF ResumeConnecting, DataTypes, AttemptTypes, Stages, Current,
     Attempts
<1>4. Places'
  BY <1>0, ConnectionAssumption DEF ResumeConnecting, DataTypes, AttemptTypes, Stages, Places,
     Current, Attempts
<1>5. Slots'
  BY <1>0 DEF ResumeConnecting, Stages, Slots, Current
<1>6. DataTypes'
  BY <1>0, ConnectionAssumption DEF ResumeConnecting, DataTypes, Current, outside
<1>7. AttemptTypes'
  BY <1>0 DEF ResumeConnecting, AttemptTypes, Conts
<1> QED BY <1>1, <1>2, <1>3, <1>4, <1>5, <1>6, <1>7 DEF IInv, TypeOK

\* Registration begins.
LEMMA ResumeConnectedKeeps ==
  ASSUME IInv, ResumeConnected
  PROVE  IInv'
<1>0. FlagTypes /\ DataTypes /\ AttemptTypes /\ PastAttempts /\ Stages /\ Places /\ Slots
  BY DEF IInv, TypeOK
<1>1. FlagTypes'
  BY <1>0 DEF ResumeConnected, FlagTypes, outside
<1>2. PastAttempts'
  <2> SUFFICES ASSUME NEW b \in Attempts
               PROVE  /\ b > attemptCount' => cont'[b] = "none" /\ ~settled'[b] /\ ~closed'[b]
                      /\ b < attemptCount' => settled'[b] /\ closed'[b]
    BY DEF PastAttempts
  <2> QED BY <1>0 DEF ResumeConnected, PastAttempts, Places
<1>3. Stages'
  BY <1>0 DEF ResumeConnected, Stages, Current
<1>4. Places'
  BY <1>0 DEF ResumeConnected, Places, Current
<1>5. Slots'
  BY <1>0 DEF ResumeConnected, Places, Slots, Current, slots
<1>6. DataTypes'
  BY <1>0 DEF ResumeConnected, DataTypes, slots, outside
<1>7. AttemptTypes'
  BY <1>0 DEF ResumeConnected, AttemptTypes, Conts
<1> QED BY <1>1, <1>2, <1>3, <1>4, <1>5, <1>6, <1>7 DEF IInv, TypeOK

\* The registration is reported.
LEMMA ResumeRegisteredKeeps ==
  ASSUME IInv, ResumeRegistered
  PROVE  IInv'
<1>0. FlagTypes /\ DataTypes /\ AttemptTypes /\ PastAttempts /\ Stages /\ Places /\ Slots
  BY DEF IInv, TypeOK
<1>1. FlagTypes'
  BY <1>0 DEF ResumeRegistered, FlagTypes, outside
<1>2. PastAttempts'
  <2> SUFFICES ASSUME NEW b \in Attempts
               PROVE  /\ b > attemptCount' => cont'[b] = "none" /\ ~settled'[b] /\ ~closed'[b]
                      /\ b < attemptCount' => settled'[b] /\ closed'[b]
    BY DEF PastAttempts
  <2> QED BY <1>0 DEF ResumeRegistered, PastAttempts, attempts
<1>3. Stages'
  BY <1>0 DEF ResumeRegistered, Stages, Current, attempts
<1>4. Places'
  BY <1>0 DEF ResumeRegistered, Places, Current, attempts
<1>5. Slots'
  BY <1>0 DEF ResumeRegistered, Slots, Current, slots, attempts
<1>6. DataTypes'
  BY <1>0, ConnectionAssumption DEF ResumeRegistered, DataTypes, slots, outside
<1>7. AttemptTypes'
  BY <1>0 DEF ResumeRegistered, AttemptTypes, attempts
<1> QED BY <1>1, <1>2, <1>3, <1>4, <1>5, <1>6, <1>7 DEF IInv, TypeOK

\* The failure reaches retry.
LEMMA ResumeDisconnectedKeeps ==
  ASSUME IInv, ResumeDisconnected
  PROVE  IInv'
<1>0. FlagTypes /\ DataTypes /\ AttemptTypes /\ PastAttempts /\ Stages /\ Places /\ Slots
  BY DEF IInv, TypeOK
<1>1. FlagTypes'
  BY <1>0 DEF ResumeDisconnected, FlagTypes, outside
<1>2. PastAttempts'
  <2> SUFFICES ASSUME NEW b \in Attempts
               PROVE  /\ b > attemptCount' => cont'[b] = "none" /\ ~settled'[b] /\ ~closed'[b]
                      /\ b < attemptCount' => settled'[b] /\ closed'[b]
    BY DEF PastAttempts
  <2> QED BY <1>0 DEF ResumeDisconnected, PastAttempts, attempts
<1>3. Stages'
  BY <1>0 DEF ResumeDisconnected, Fails, Emit, Stages, Current, attempts
<1>4. Places'
  BY <1>0 DEF ResumeDisconnected, Fails, Emit, Places
<1>5. Slots'
  BY <1>0 DEF ResumeDisconnected, Fails, Emit, Slots, Current, slots, attempts
<1>6. DataTypes'
  BY <1>0, ConnectionAssumption DEF ResumeDisconnected, Fails, Emit, DataTypes, Events, slots,
     outside
<1>7. AttemptTypes'
  BY <1>0 DEF ResumeDisconnected, AttemptTypes, attempts
<1> QED BY <1>1, <1>2, <1>3, <1>4, <1>5, <1>6, <1>7 DEF IInv, TypeOK

\* The backoff begins, the attempt is torn down.
LEMMA ResumeReconnectingKeeps ==
  ASSUME IInv, ResumeReconnecting
  PROVE  IInv'
<1>0. FlagTypes /\ DataTypes /\ AttemptTypes /\ PastAttempts /\ Stages /\ Places /\ Slots
  BY DEF IInv, TypeOK
<1>1. FlagTypes'
  BY <1>0 DEF ResumeReconnecting, FlagTypes, outside
<1>2. PastAttempts'
  <2> SUFFICES ASSUME NEW b \in Attempts
               PROVE  /\ b > attemptCount' => cont'[b] = "none" /\ ~settled'[b] /\ ~closed'[b]
                      /\ b < attemptCount' => settled'[b] /\ closed'[b]
    BY DEF PastAttempts
  <2> QED BY <1>0 DEF ResumeReconnecting, Teardown, AttemptTypes, PastAttempts, Current
<1>3. Stages'
  BY <1>0, ConnectionAssumption DEF ResumeReconnecting, Teardown, DataTypes, AttemptTypes,
     Stages, Places, Current, Attempts
<1>4. Places'
  BY <1>0 DEF ResumeReconnecting, Places
<1>5. Slots'
  BY <1>0 DEF ResumeReconnecting, Teardown, Stages, Places, Slots, slots
<1>6. DataTypes'
  BY <1>0, ConnectionAssumption DEF ResumeReconnecting, Teardown, DataTypes, slots, outside
<1>7. AttemptTypes'
  BY <1>0 DEF ResumeReconnecting, Teardown, AttemptTypes
<1> QED BY <1>1, <1>2, <1>3, <1>4, <1>5, <1>6, <1>7 DEF IInv, TypeOK

\* The last failure ends the client.
LEMMA ResumeErrorKeeps ==
  ASSUME IInv, ResumeError
  PROVE  IInv'
<1>0. FlagTypes /\ DataTypes /\ AttemptTypes /\ PastAttempts /\ Stages /\ Places /\ Slots
  BY DEF IInv, TypeOK
<1>1. FlagTypes'
  BY <1>0 DEF ResumeError, Sever, FlagTypes
<1>2. PastAttempts'
  <2> SUFFICES ASSUME NEW b \in Attempts
               PROVE  /\ b > attemptCount' => cont'[b] = "none" /\ ~settled'[b] /\ ~closed'[b]
                      /\ b < attemptCount' => settled'[b] /\ closed'[b]
    BY DEF PastAttempts
  <2> QED BY <1>0 DEF ResumeError, Sever, AttemptTypes, PastAttempts, Current
<1>3. Stages'
  BY <1>0, ConnectionAssumption DEF ResumeError, Sever, DataTypes, AttemptTypes, Stages, Places,
     Current, Attempts
<1>4. Places'
  BY <1>0 DEF ResumeError, Places
<1>5. Slots'
  BY <1>0 DEF ResumeError, Sever, Stages, Places, Slots, slots
<1>6. DataTypes'
  BY <1>0, ConnectionAssumption DEF ResumeError, Reject, Sever, DataTypes, slots
<1>7. AttemptTypes'
  BY <1>0 DEF ResumeError, Sever, AttemptTypes
<1> QED BY <1>1, <1>2, <1>3, <1>4, <1>5, <1>6, <1>7 DEF IInv, TypeOK

\* The transport is up, for the live attempt or for a zombie.
LEMMA ConnectResolvesKeeps ==
  ASSUME IInv, NEW a \in Attempts, ConnectResolves(a)
  PROVE  IInv'
<1>0. FlagTypes /\ DataTypes /\ AttemptTypes /\ PastAttempts /\ Stages /\ Places /\ Slots
  BY DEF IInv, TypeOK
<1>1. FlagTypes'
  BY <1>0 DEF ConnectResolves, FlagTypes, outside
<1>2. PastAttempts'
  <2> SUFFICES ASSUME NEW b \in Attempts
               PROVE  /\ b > attemptCount' => cont'[b] = "none" /\ ~settled'[b] /\ ~closed'[b]
                      /\ b < attemptCount' => settled'[b] /\ closed'[b]
    BY DEF PastAttempts
  <2> QED BY <1>0 DEF ConnectResolves, AttemptTypes, PastAttempts
<1>3. Stages'
  BY <1>0 DEF ConnectResolves, DataTypes, PastAttempts, Stages, Current, Attempts
<1>4. Places'
  BY <1>0, ConnectionAssumption DEF ConnectResolves, Emit, DataTypes, AttemptTypes,
     PastAttempts, Places, Slots, Current, Attempts
<1>5. Slots'
  BY <1>0, ConnectionAssumption DEF ConnectResolves, Emit, DataTypes, AttemptTypes,
     PastAttempts, Stages, Slots, Current, Attempts
<1>6. DataTypes'
  BY <1>0 DEF ConnectResolves, Emit, DataTypes, Attempts, Events, outside
<1>7. AttemptTypes'
  BY <1>0 DEF ConnectResolves, AttemptTypes, Conts
<1> QED BY <1>1, <1>2, <1>3, <1>4, <1>5, <1>6, <1>7 DEF IInv, TypeOK

\* register() resolved, for the live attempt or for a zombie.
LEMMA RegisterResolvesKeeps ==
  ASSUME IInv, NEW a \in Attempts, RegisterResolves(a)
  PROVE  IInv'
<1>0. FlagTypes /\ DataTypes /\ AttemptTypes /\ PastAttempts /\ Stages /\ Places /\ Slots
  BY DEF IInv, TypeOK
<1>1. FlagTypes'
  BY <1>0 DEF RegisterResolves, FlagTypes, outside
<1>2. PastAttempts'
  <2> SUFFICES ASSUME NEW b \in Attempts
               PROVE  /\ b > attemptCount' => cont'[b] = "none" /\ ~settled'[b] /\ ~closed'[b]
                      /\ b < attemptCount' => settled'[b] /\ closed'[b]
    BY DEF PastAttempts
  <2> QED BY <1>0 DEF RegisterResolves, PastAttempts
<1>3. Stages'
  BY <1>0 DEF RegisterResolves, DataTypes, PastAttempts, Stages, Current, Attempts
<1>4. Places'
  BY <1>0 DEF RegisterResolves, Emit, DataTypes, AttemptTypes, PastAttempts, Places, Conts,
     Current, Attempts
<1>5. Slots'
  BY <1>0 DEF RegisterResolves, Emit, DataTypes, AttemptTypes, PastAttempts, Stages, Slots,
     Current, Attempts
<1>6. DataTypes'
  BY <1>0 DEF RegisterResolves, Emit, DataTypes, Attempts, Events, outside
<1>7. AttemptTypes'
  BY <1>0 DEF RegisterResolves, AttemptTypes, Conts
<1> QED BY <1>1, <1>2, <1>3, <1>4, <1>5, <1>6, <1>7 DEF IInv, TypeOK

\* What an attempt awaits rejects.
LEMMA AwaitRejectsKeeps ==
  ASSUME IInv, NEW a \in Attempts, AwaitRejects(a)
  PROVE  IInv'
<1>0. FlagTypes /\ DataTypes /\ AttemptTypes /\ PastAttempts /\ Stages /\ Places /\ Slots
  BY DEF IInv, TypeOK
<1>1. FlagTypes'
  BY <1>0 DEF AwaitRejects, FlagTypes, outside
<1>2. PastAttempts'
  <2> SUFFICES ASSUME NEW b \in Attempts
               PROVE  /\ b > attemptCount' => cont'[b] = "none" /\ ~settled'[b] /\ ~closed'[b]
                      /\ b < attemptCount' => settled'[b] /\ closed'[b]
    BY DEF PastAttempts
  <2> QED BY <1>0 DEF AwaitRejects, FailAttempt, AttemptTypes, PastAttempts
<1>3. Stages'
  BY <1>0 DEF AwaitRejects, FailAttempt, DataTypes, PastAttempts, Stages, Current, Attempts
<1>4. Places'
  BY <1>0 DEF AwaitRejects, FailAttempt, Emit, Places, Current
<1>5. Slots'
  BY <1>0 DEF AwaitRejects, FailAttempt, Emit, AttemptTypes, Places, Slots, Current, slots
<1>6. DataTypes'
  BY <1>0 DEF AwaitRejects, FailAttempt, Emit, DataTypes, Events, slots, outside
<1>7. AttemptTypes'
  BY <1>0 DEF AwaitRejects, FailAttempt, AttemptTypes, Conts
<1> QED BY <1>1, <1>2, <1>3, <1>4, <1>5, <1>6, <1>7 DEF IInv, TypeOK

\* Every step keeps the inductive invariant.
LEMMA StepInv ==
  ASSUME IInv, [Next]_vars
  PROVE  IInv'
<1>1. CASE DeadlineFires
  BY <1>1, EndsHereKeeps DEF DeadlineFires, EndsHere
<1>2. CASE Quit
  BY <1>2, EndsHereKeeps DEF Quit, EndsHere
<1>3. CASE Resume
  BY <1>3, ResumeConnectingKeeps, ResumeConnectedKeeps, ResumeRegisteredKeeps,
     ResumeDisconnectedKeeps, ResumeReconnectingKeeps, ResumeErrorKeeps DEF Resume
<1>4. CASE \E a \in Attempts : ConnectResolves(a) \/ RegisterResolves(a) \/ AwaitRejects(a)
  BY <1>4, ConnectResolvesKeeps, RegisterResolvesKeeps, AwaitRejectsKeeps
<1>5. CASE UNCHANGED vars
  BY <1>5 DEF vars, slots, outside, attempts, IInv, TypeOK, FlagTypes, DataTypes, AttemptTypes,
     PastAttempts, Stages, Places, Slots, Current
<1> QED BY <1>1, <1>2, <1>3, <1>4, <1>5, ConnectKeeps, BackoffElapsesKeeps, DropsKeeps DEF Next

\* IInv holds in every reachable state.
THEOREM Invariance == Spec => []IInv
<1> QED BY InitInv, StepInv, PTL DEF Spec

\* Type correctness, for every retry budget.
THEOREM TypeCorrect == Spec => []TypeOK
<1>1. IInv => TypeOK
  BY DEF IInv
<1> QED BY <1>1, Invariance, PTL

\* A client that reports "registered" has its live attempt's queue, entities and
\* capabilities, inside every handler as well as between tasks.
THEOREM Usable == Spec => []RegisteredIsUsable
<1>1. IInv => RegisteredIsUsable
  <2> SUFFICES ASSUME IInv, state = "registered"
               PROVE  /\ link = "attempt" /\ Current # 0 /\ ~settled[Current]
                      /\ {queue, store, capabilities} = {Current}
    BY DEF RegisteredIsUsable
  <2>1. DataTypes /\ Stages /\ Places /\ Slots
    BY DEF IInv, TypeOK
  <2>2. link = "attempt" /\ Current # 0
    BY <2>1 DEF DataTypes, Stages, Current
  <2>3. at \in {"idle", "connected", "registered"}
    BY <2>1, <2>2 DEF DataTypes, Events, Places
  <2> QED BY <2>1, <2>2, <2>3 DEF Places, Slots
<1> QED BY <1>1, Invariance, PTL

\* Between tasks no shared slot is left to an attempt that failed, or taken by one that
\* settled late.
THEOREM Live == Spec => []SlotsAreLive
<1>1. IInv => SlotsAreLive
  BY DEF IInv, TypeOK, DataTypes, Stages, Places, Slots, SlotsAreLive, Current
<1> QED BY <1>1, Invariance, PTL

\* Between tasks every transport is closed but the live attempt's.
THEOREM Leakproof == Spec => []NothingLeaks
<1>1. IInv => NothingLeaks
  <2> SUFFICES ASSUME IInv, at = "idle", NEW a \in 1..attemptCount, ~closed[a]
               PROVE  a = Current /\ link = "attempt"
    BY DEF NothingLeaks
  <2>1. DataTypes /\ PastAttempts /\ Stages
    BY DEF IInv, TypeOK
  <2>2. a \in Attempts /\ attemptCount # 0
    BY <2>1, ConnectionAssumption DEF DataTypes, Attempts
  <2>3. a = attemptCount
    BY <2>1, <2>2, ConnectionAssumption DEF DataTypes, PastAttempts
  <2> QED BY <2>1, <2>2, <2>3 DEF DataTypes, Stages, Current
<1> QED BY <1>1, Invariance, PTL

-----------------------------------------------------------------------------
(* Refinement: each step is a step of LifecycleContract or none.           *)

lifecycle == <<event, attemptCount, failures, promise, ended>>

\* What a step owes the contract.
Tells == Told' /\ [Contract!Next]_lifecycle

LEMMA InitTold == Init => Told /\ Contract!Init
<1> SUFFICES ASSUME Init PROVE Told /\ Contract!Init
  OBVIOUS
<1>1. Told
  BY DEF Init, Told
<1>2. Contract!Init
  BY DEF Init, Contract!Init
<1> QED BY <1>1, <1>2

\* An event handed out before the end is delivered.
LEMMA EmitDelivers ==
  ASSUME NEW e, ~ended, Emit(e)
  PROVE  at' = e /\ event' = e
BY Zenon DEF Emit

\* The live attempt awaits something, or has registered.
LEMMA LiveAttempt ==
  ASSUME IInv, link = "attempt"
  PROVE  /\ Current \in Attempts
         /\ at = "idle" => cont[Current] \in {"connecting", "registering", "done"}
<1>0. DataTypes /\ AttemptTypes /\ Stages /\ Places
  BY DEF IInv, TypeOK
<1>1. Current \in Attempts
  BY <1>0, ConnectionAssumption DEF DataTypes, Stages, Current, Attempts
<1> QED BY <1>0, <1>1 DEF AttemptTypes, Places, Conts

\* The attempts: the first follows connect(), every other one a backoff.
LEMMA StartTells ==
  ASSUME IInv, Told, Connect \/ BackoffElapses
  PROVE  Tells
<1>0. DataTypes /\ AttemptTypes /\ PastAttempts /\ Stages
  BY DEF IInv, TypeOK
<1>1. ~ended /\ ~ended' /\ ~torndown /\ ~torndown' /\ link' # "none" /\ link' # "waiting"
  BY <1>0 DEF Connect, BackoffElapses, StartAttempt, Told, Stages
<1>2. Told'
  BY <1>1 DEF Connect, BackoffElapses, StartAttempt, Emit, Told
<1>3. /\ \/ event = "none" /\ promise = "none" /\ promise' = "pending"
         \/ event = "reconnecting" /\ UNCHANGED promise
      /\ attemptCount' = attemptCount + 1 /\ UNCHANGED ended
  BY <1>0, <1>1 DEF Connect, BackoffElapses, StartAttempt, Told, Stages, outside
<1>4. \/ event' = "connecting" /\ UNCHANGED failures
      \/ Contract!Fails
  <2>1. \/ Emit("connecting") /\ UNCHANGED failures
        \/ failures < MaxRetries /\ failures' = failures + 1 /\ Emit("reconnecting")
        \/ failures >= MaxRetries /\ UNCHANGED failures /\ Emit("error")
    BY DEF Connect, BackoffElapses, StartAttempt
  <2>2. failures \in Nat
    BY <1>0, ConnectionAssumption DEF DataTypes
  <2> QED BY <1>1, <2>1, <2>2, EmitDelivers, ConnectionAssumption DEF Contract!Fails
<1>5. Contract!Starts
  BY <1>1, <1>3, <1>4 DEF Contract!Starts
<1> QED BY <1>2, <1>5 DEF Tells, Contract!Next

\* Between two events the contract sees nothing, or the success.
LEMMA ResumeTells ==
  ASSUME IInv, Told, Resume
  PROVE  Tells
<1>0. DataTypes /\ AttemptTypes /\ PastAttempts /\ Stages /\ Places
  BY DEF IInv, TypeOK
<1>1. CASE ResumeConnecting
  <2>0. /\ at = "connecting" /\ at' = "idle" /\ UNCHANGED <<event, ended, torndown, promise, link>>
        /\ link = "attempt" => cont'[Current'] = "connecting"
    BY <1>0, <1>1, LiveAttempt DEF ResumeConnecting, outside, AttemptTypes, Current
  <2>1. Told'
    BY <1>0, <2>0 DEF Told, Stages
  <2> QED BY <1>1, <2>1 DEF ResumeConnecting, outside, lifecycle, Tells
<1>2. CASE ResumeConnected
  <2>0. /\ at = "connected" /\ at' = "idle" /\ UNCHANGED <<event, ended, torndown, promise, link>>
        /\ link = "attempt" => cont'[Current'] = "registering"
    BY <1>0, <1>2, LiveAttempt DEF ResumeConnected, outside, AttemptTypes, Current
  <2>1. Told'
    BY <1>0, <2>0 DEF Told, Stages
  <2> QED BY <1>2, <2>1 DEF ResumeConnected, outside, lifecycle, Tells
<1>3. CASE ResumeRegistered
  <2>0. /\ at = "registered" /\ at' = "idle" /\ UNCHANGED <<event, ended, torndown, link>>
        /\ promise' = "pending" => promise = "pending" /\ link = "over"
        /\ link = "attempt" => cont'[Current'] = "done"
    BY <1>0, <1>3 DEF ResumeRegistered, outside, attempts, Current, Stages, Places
  <2>1. Told'
    BY <1>0, <2>0 DEF Told, Stages
  <2> QED BY <1>0, <1>3, <2>1
          DEF ResumeRegistered, Told, Stages, outside, lifecycle, Tells, Contract!Next,
              Contract!Succeeds
<1>4. CASE ResumeDisconnected
  <2>1. Told'
    BY <1>0, <1>4 DEF ResumeDisconnected, Fails, Emit, Told, Stages, outside
  <2>2. CASE link = "over"
    BY <1>4, <2>1, <2>2 DEF ResumeDisconnected, outside, lifecycle, Tells
  <2>3. CASE link # "over"
    <3>1. ~ended /\ event = "disconnected" /\ failures \in Nat
      BY <1>0, <1>4, <2>3, ConnectionAssumption DEF ResumeDisconnected, Told, Stages, DataTypes
    <3>2. Contract!Fails
      BY <1>4, <2>3, <3>1, EmitDelivers, ConnectionAssumption
         DEF ResumeDisconnected, Fails, Contract!Fails
    <3> QED BY <1>4, <2>1, <3>1, <3>2
            DEF ResumeDisconnected, outside, Tells, Contract!Next, Contract!Loses
  <2> QED BY <2>2, <2>3
<1>5. CASE ResumeReconnecting
  <2>1. Told'
    BY <1>0, <1>5 DEF ResumeReconnecting, Told, Stages, outside
  <2> QED BY <1>5, <2>1 DEF ResumeReconnecting, outside, lifecycle, Tells
<1>6. CASE ResumeError
  <2>1. Told'
    BY <1>0, <1>6 DEF ResumeError, Reject, Sever, Told, Stages, Places
  <2> QED BY <1>0, <1>6, <2>1
          DEF ResumeError, Reject, Sever, Told, Stages, Places, lifecycle, Tells,
              Contract!Next, Contract!Ends, Contract!RejectsLate
<1> QED BY <1>1, <1>2, <1>3, <1>4, <1>5, <1>6 DEF Resume

\* What the network does to an attempt; a zombie tells nothing.
LEMMA AttemptTells ==
  ASSUME IInv, Told, NEW a \in Attempts,
         ConnectResolves(a) \/ RegisterResolves(a) \/ AwaitRejects(a)
  PROVE  Tells
<1>0. DataTypes /\ AttemptTypes /\ PastAttempts /\ Stages /\ Places
  BY DEF IInv, TypeOK
<1>1. CASE settled[a]
  <2>1. /\ at = "idle" /\ at' = "idle"
        /\ \E c \in Conts : cont' = [cont EXCEPT ![a] = c]
        /\ UNCHANGED <<event, state, link, promise, torndown, ended, settled,
                       attemptCount, failures>>
    BY <1>1 DEF ConnectResolves, RegisterResolves, AwaitRejects, FailAttempt, Conts, outside
  <2>2. link = "attempt" => cont'[Current] = cont[Current]
    BY <1>0, <1>1, <2>1 DEF Places, AttemptTypes, Current
  <2>3. Told'
    BY <2>1, <2>2 DEF Told, Current
  <2> QED BY <2>1, <2>3 DEF lifecycle, Tells
<1>2. CASE ~settled[a]
  <2>1. a = Current /\ link = "attempt" /\ ~ended /\ ~torndown /\ at = "idle"
    BY <1>0, <1>2, ConnectionAssumption
       DEF ConnectResolves, RegisterResolves, AwaitRejects, DataTypes, PastAttempts, Stages,
           Current, Attempts, Told
  <2>2. Told'
    BY <1>2, <2>1 DEF ConnectResolves, RegisterResolves, AwaitRejects, FailAttempt, Emit, Told
  <2>3. Contract!Advances
    BY <1>2, <2>1 DEF ConnectResolves, RegisterResolves, AwaitRejects, FailAttempt, Emit, Told,
       Contract!Advances, outside
  <2> QED BY <2>2, <2>3 DEF Tells, Contract!Next
<1> QED BY <1>1, <1>2

\* The live link is lost.
LEMMA DropsTells ==
  ASSUME IInv, Told, Drops
  PROVE  Tells
<1>0. AttemptTypes /\ Stages /\ Places
  BY DEF IInv, TypeOK
<1>1. ~ended /\ ~torndown
  BY <1>0 DEF Drops, Told, Stages
<1>2. Told'
  BY <1>1 DEF Drops, FailAttempt, Emit, Told
<1>3. Contract!Advances
  BY <1>1, LiveAttempt, EmitDelivers DEF Drops, FailAttempt, Told, Contract!Advances, outside
<1> QED BY <1>2, <1>3 DEF Tells, Contract!Next

\* The end: a farewell, unless nothing was begun or the error has been told.
LEMMA EndTells ==
  ASSUME IInv, Told, ~torndown, EndsHere
  PROVE  Tells
<1>0. DataTypes /\ Stages /\ Places
  BY DEF IInv, TypeOK
<1>1. ~ended /\ ended' /\ torndown' /\ UNCHANGED <<at, attemptCount, failures>>
  BY <1>0 DEF EndsHere, Sever, Told
<1>2. CASE link \in {"attempt", "waiting"}
  <2>1. event' = "bye" /\ link' = "over"
        /\ promise' = IF promise = "pending" THEN "rejected" ELSE promise
    BY <1>2 DEF EndsHere, Farewell, Reject
  <2>2. at # "error" /\ event \notin {"none", "error"}
    BY <1>0, <1>1, <1>2, LiveAttempt DEF Told, Stages, Places, DataTypes, Events
  <2>3. Told'
    BY <1>1, <2>1, <2>2 DEF Told
  <2> QED BY <1>1, <2>1, <2>2, <2>3 DEF Tells, Contract!Next, Contract!Ends
<1>3. CASE link \notin {"attempt", "waiting"}
  <2>1. UNCHANGED <<event, link, promise>>
    BY <1>3 DEF EndsHere, Farewell, outside
  <2>2. \/ link = "none" /\ event = "none" /\ promise = "none" /\ at = "idle"
        \/ link = "over" /\ event = "error" /\ at = "error"
    BY <1>0, <1>1, <1>3 DEF Told, Stages, DataTypes
  <2>3. Told'
    BY <1>1, <2>1, <2>2 DEF Told
  <2> QED BY <1>1, <2>1, <2>2, <2>3 DEF Tells, Contract!Next, Contract!Ends
<1> QED BY <1>2, <1>3

\* Every step refines the contract.
LEMMA StepTells ==
  ASSUME IInv, Told, [Next]_vars
  PROVE  Tells
<1>1. CASE DeadlineFires
  <2>1. ~torndown
    BY <1>1 DEF DeadlineFires, Told
  <2> QED BY <1>1, <2>1, EndTells DEF DeadlineFires, EndsHere
<1>2. CASE Quit
  BY <1>2, EndTells DEF Quit, EndsHere
<1>3. CASE UNCHANGED vars
  BY <1>3 DEF vars, outside, attempts, Told, Tells, lifecycle, Current
<1> QED BY <1>1, <1>2, <1>3, StartTells, ResumeTells, AttemptTells, DropsTells DEF Next

\* IrcClient implements its lifecycle contract: the grammar of the events, the retry
\* budget and the promise of connect(), wherever quit() is called.
THEOREM Refinement == Spec => KeepsLifecycle
<1>1. Told /\ IInv /\ [Next]_vars => Told' /\ [Contract!Next]_lifecycle
  BY StepTells DEF Tells
<1> QED BY <1>1, InitTold, Invariance, PTL
        DEF Spec, KeepsLifecycle, Contract!Spec, lifecycle, Contract!lifecycle
=============================================================================
