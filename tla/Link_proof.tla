----------------------------- MODULE Link_proof -----------------------------
(***************************************************************************)
(* Proofs about Link: its types, and that no stale movement is replayed.   *)
(***************************************************************************)
EXTENDS Link, TLAPS

-----------------------------------------------------------------------------
(* What the gate's operators do to a gate *)

\* A step of the gate inside one session: nothing happens to its key, or it goes
\* on to a later epoch and forgets its command.
Advances(g, h) ==
  /\ h \in GateState
  /\ h.session = g.session
  /\ \/ h = g
     \/ h.epoch > g.epoch /\ h.desired = None

\* A later step of an advance is an advance.
LEMMA AdvancesTransitive ==
  ASSUME NEW f \in GateState, NEW g, NEW h, Advances(f, g), Advances(g, h)
  PROVE  Advances(f, h)
BY DEF Advances, GateState

\* Invalidate forgets the command and enters the next epoch.
LEMMA InvalidateAdvances ==
  ASSUME NEW g \in GateState
  PROVE  /\ Invalidate(g) \in GateState
         /\ Invalidate(g).session = g.session
         /\ Invalidate(g).epoch = g.epoch + 1
         /\ Invalidate(g).desired = None
         /\ Advances(g, Invalidate(g))
BY DEF Invalidate, GateState, Request, NoSequence, Advances

\* Connect enters the session it is given, with no command.
LEMMA ConnectFacts ==
  ASSUME NEW g \in GateState, NEW s \in Nat
  PROVE  /\ Connect(g, s) \in GateState
         /\ Connect(g, s).session = s
         /\ Connect(g, s).desired = None
<1>1. [g EXCEPT !.session = s] \in GateState
  BY DEF GateState
<1>2. [g EXCEPT !.session = s].session = s
  BY DEF GateState
<1> QED BY <1>1, <1>2, InvalidateAdvances DEF Connect

\* SetReady and Expire advance a gate.
LEMMA SetReadyAdvances ==
  ASSUME NEW g \in GateState, NEW b \in BOOLEAN
  PROVE  Advances(g, SetReady(g, b))
<1>1. [g EXCEPT !.ready = b] \in GateState
  BY DEF GateState
<1>2. /\ [g EXCEPT !.ready = b].session = g.session
      /\ [g EXCEPT !.ready = b].epoch = g.epoch
  BY DEF GateState
<1> QED BY <1>1, <1>2, InvalidateAdvances DEF SetReady, Advances, GateState

LEMMA ExpireAdvances ==
  ASSUME NEW g \in GateState, NEW l \in BOOLEAN
  PROVE  Advances(g, Expire(g, l))
BY InvalidateAdvances DEF Expire, Advances

\* Accept changes neither session nor epoch, and the command it takes carries
\* exactly them.
LEMMA AcceptFacts ==
  ASSUME NEW g \in GateState, NEW c \in Command
  PROVE  /\ Accept(g, c) \in GateState
         /\ Accept(g, c).session = g.session
         /\ Accept(g, c).epoch = g.epoch
         /\ \/ Accept(g, c).desired = g.desired
            \/ Accept(g, c).desired = None
            \/ /\ Accept(g, c).desired = c.value
               /\ c.session = g.session /\ c.epoch = g.epoch
               /\ g.session # NoSession
BY DEF Accept, Admits, GateState, Command, Request

\* Loading GENERATION advances the gate, and leaves it alone only if it is the
\* generation the gate knows.
LEMMA GenerationAdvances ==
  ASSUME TypeOK
  PROVE  /\ Advances(gate, AfterGeneration)
         /\ AfterGeneration = gate => generation = GENERATION
BY InvalidateAdvances DEF AfterGeneration, Advances, GateState, TypeOK

\* What Frame and the worker make of the gate when they refresh it.
LEMMA RefreshAdvances ==
  ASSUME TypeOK, NEW l \in BOOLEAN
  PROVE  /\ Advances(gate, Expire(Refreshed, l))
         /\ Advances(gate, Expire(AfterFlags(AfterGeneration, INPUT_ACTIVE, RUNNING), l))
         /\ Expire(AfterFlags(AfterGeneration, INPUT_ACTIVE, RUNNING), l) = gate
              => generation = GENERATION
<1> DEFINE f == AfterFlags(AfterGeneration, INPUT_ACTIVE, RUNNING)
<1>0. gate \in GateState
  BY DEF TypeOK
<1>1. /\ Advances(gate, AfterGeneration)
      /\ GENERATION # generation => AfterGeneration.epoch > gate.epoch
  BY <1>0, InvalidateAdvances DEF AfterGeneration, Advances, GateState
<1>2. AfterGeneration \in GateState
  BY <1>1 DEF Advances
<1>3. Advances(AfterGeneration, f)
  BY <1>2, SetReadyAdvances DEF AfterFlags, Known, TypeOK
<1>4. Advances(f, Expire(f, l))
  BY <1>3, ExpireAdvances DEF Advances
<1>5. Advances(gate, f)
  BY <1>0, <1>1, <1>3, AdvancesTransitive
<1>6. Advances(gate, Expire(f, l))
  BY <1>0, <1>4, <1>5, AdvancesTransitive
<1>7. Expire(f, l) = gate => AfterGeneration.epoch <= gate.epoch
  <2>1. Advances(AfterGeneration, Expire(f, l))
    BY <1>2, <1>3, <1>4, AdvancesTransitive
  <2>2. Expire(f, l).epoch >= AfterGeneration.epoch
    BY <2>1, <1>2 DEF Advances, GateState
  <2> QED BY <2>2, <1>0, <1>2 DEF GateState
<1>8. Advances(gate, Refreshed)
  BY <1>0, SetReadyAdvances DEF Refreshed, AfterFlags, Known
<1>9. Advances(gate, Expire(Refreshed, l))
  BY <1>0, <1>8, ExpireAdvances, AdvancesTransitive DEF Advances
<1>10. AfterGeneration.epoch <= gate.epoch => generation = GENERATION
  BY <1>0, <1>1, <1>2 DEF GateState
<1> QED BY <1>0, <1>1, <1>6, <1>7, <1>9, <1>10 DEF GateState

-----------------------------------------------------------------------------
(* Type correctness *)

LEMMA TypeInit == Init => TypeOK
<1> SUFFICES ASSUME Init PROVE TypeOK
  OBVIOUS
<1>1. NewGate \in GateState
  BY DEF NewGate, GateState, Request, NoSession, NoSequence
<1>2. NoInput \in [value : Request, at : Moment]
  BY DEF NoInput, Request, Moment, NoSession
<1>3. None \in Request
  BY DEF Request
<1> QED BY <1>1, <1>2, <1>3 DEF Init, PluginLoaded, TypeOK

LEMMA TypeGameCallback == TypeOK /\ GameCallback => TypeOK'
<1> SUFFICES ASSUME TypeOK, GameCallback PROVE TypeOK'
  OBVIOUS
<1> DEFINE Atomics == /\ INPUT_ACTIVE \in BOOLEAN /\ RUNNING \in BOOLEAN
                      /\ OBSERVED \in SUBSET Channels /\ GENERATION \in Nat
                      /\ game \in {"idle", "clear", "bump", "activate", "frame"}
<1>0. Atomics
  BY DEF TypeOK
<1>1. UNCHANGED <<frame, stateVars, workerVars, pipeVars, bridgeVars>>
  BY DEF GameCallback
<1>2. Atomics'
  <2>1. \/ \E running \in BOOLEAN : TelemetryEvent(running)
        \/ ClearObserved
        \/ BumpGeneration
        \/ \E c \in Channels, known \in BOOLEAN : TelemetryChannel(c, known)
        \/ \E active \in BOOLEAN : ActiveCallback(active)
        \/ FrameActivates
    BY <1>0 DEF GameCallback
  <2>2. ASSUME \/ \E running \in BOOLEAN : TelemetryEvent(running)
               \/ ClearObserved
               \/ BumpGeneration
        PROVE  Atomics'
    BY <1>0, <2>2 DEF TelemetryEvent, ClearObserved, BumpGeneration
  <2>3. ASSUME \/ \E c \in Channels, known \in BOOLEAN : TelemetryChannel(c, known)
               \/ \E active \in BOOLEAN : ActiveCallback(active)
               \/ FrameActivates
        PROVE  Atomics'
    BY <1>0, <2>3 DEF TelemetryChannel, ActiveCallback, FrameActivates
  <2> QED BY <2>1, <2>2, <2>3
<1> QED BY <1>1, <1>2
        DEF TypeOK, stateVars, workerVars, pipeVars, bridgeVars

LEMMA TypeInput == TypeOK /\ Input => TypeOK'
<1> SUFFICES ASSUME TypeOK, Input PROVE TypeOK'
  OBVIOUS
<1>1. CASE FrameContended
  BY <1>1 DEF FrameContended, NoInput, TypeOK, Request, Moment, NoSession,
              stateVars, workerVars, pipeVars, bridgeVars
<1>2. CASE \E lapsed \in BOOLEAN : Frame(lapsed)
  <2>1. PICK lapsed \in BOOLEAN : Frame(lapsed)
    BY <1>2
  <2>2. gate' \in GateState
    BY <2>1, RefreshAdvances DEF Frame, Advances
  <2>3. frame' \in [value : Request, at : Moment]
    BY <2>1, <2>2 DEF Frame, NoInput, Held, MomentOf, Request, Moment, NoSession,
                      GateState, TypeOK
  <2> QED BY <2>1, <2>2, <2>3
          DEF Frame, TypeOK, workerVars, pipeVars, bridgeVars
<1> QED BY <1>1, <1>2 DEF Input

LEMMA TypeWorker == TypeOK /\ Worker => TypeOK'
<1> SUFFICES ASSUME TypeOK, Worker PROVE TypeOK'
  OBVIOUS
<1> USE DEF TypeOK, gameVars, stateVars, pipeVars, bridgeVars
<1>1. CASE WorkerOpens
  BY <1>1 DEF WorkerOpens
<1>2. CASE WorkerFindsNoPipe
  BY <1>2, ConnectFacts DEF WorkerFindsNoPipe, Disconnect, NoSession, workerVars
<1>3. CASE WorkerConnects
  BY <1>3, ConnectFacts DEF WorkerConnects
<1>4. CASE RefreshLoadsGeneration
  BY <1>4, GenerationAdvances DEF RefreshLoadsGeneration, Advances
<1>5. CASE RefreshLoadsActive
  BY <1>5 DEF RefreshLoadsActive
<1>6. CASE RefreshLoadsRunning
  BY <1>6 DEF RefreshLoadsRunning
<1>7. CASE \E lapsed \in BOOLEAN : WorkerReadsStatus(lapsed)
  <2>1. PICK lapsed \in BOOLEAN : WorkerReadsStatus(lapsed)
    BY <1>7
  <2>2. gate' \in GateState
    BY <2>1, RefreshAdvances DEF WorkerReadsStatus, Advances
  <2>3. status' \in Status
    BY <2>1, <2>2 DEF WorkerReadsStatus, Status, GateState
  <2> QED BY <2>1, <2>2, <2>3 DEF WorkerReadsStatus
<1>8. CASE \E lapsed \in BOOLEAN : WorkerAccepts(lapsed)
  <2>1. PICK lapsed \in BOOLEAN : WorkerAccepts(lapsed)
    BY <1>8
  <2>2. Expire(Refreshed, lapsed) \in GateState
    BY RefreshAdvances DEF Advances
  <2>3. gate' \in GateState
    BY <2>1, <2>2, AcceptFacts DEF WorkerAccepts
  <2>4. /\ sequence' \in Nat /\ command' = Nothing /\ worker' = "status"
        /\ load' = "none" /\ loaded' = {}
        /\ UNCHANGED <<gameVars, frame, generation, status, sessions, pipeVars,
                       bridgeVars>>
    BY <2>1 DEF WorkerAccepts
  <2> QED BY <2>3, <2>4
<1>9. CASE WorkerSends
  BY <1>9 DEF WorkerSends
<1>10. CASE WorkerReceives
  BY <1>10 DEF WorkerReceives
<1>11. CASE WorkerBreaks
  <2>1. /\ client' = FALSE /\ toPlugin' = Nothing /\ status' = Nothing
        /\ sequence' = 0 /\ worker' = "disconnect"
    BY <1>11 DEF WorkerBreaks
  <2>2. UNCHANGED <<gameVars, frame, stateVars, load, loaded, command, sessions,
                    pipe, toBridge, bridgeVars>>
    BY <1>11 DEF WorkerBreaks
  <2>3. /\ client' \in BOOLEAN /\ toPlugin' \in Command \cup {Nothing}
        /\ status' \in Status \cup {Nothing} /\ sequence' \in Nat
        /\ worker' # "accept"
        /\ worker' \in {"closed", "connect", "status", "send", "receive", "accept",
                        "disconnect"}
    BY <2>1
  <2> QED BY <2>2, <2>3
<1>12. CASE WorkerDisconnects
  BY <1>12, ConnectFacts DEF WorkerDisconnects, Disconnect, NoSession
<1> QED BY <1>1, <1>2, <1>3, <1>4, <1>5, <1>6, <1>7, <1>8, <1>9, <1>10, <1>11,
           <1>12 DEF Worker

LEMMA TypeBridge == TypeOK /\ Bridge => TypeOK'
<1> SUFFICES ASSUME TypeOK, Bridge PROVE TypeOK'
  OBVIOUS
<1> USE DEF TypeOK, gameVars, stateVars, workerVars, pipeVars, Request
<1>1. CASE BridgeStarts
  BY <1>1 DEF BridgeStarts
<1>2. CASE BridgeAccepts
  BY <1>2 DEF BridgeAccepts
<1>3. CASE \E lapsed \in BOOLEAN : BridgeServes(lapsed)
  <2>1. PICK lapsed \in BOOLEAN : BridgeServes(lapsed)
    BY <1>3
  <2>2. toBridge \in Status
    BY <2>1 DEF BridgeServes
  <2>3. position' \in Request
    BY <2>1 DEF BridgeServes
  <2>4. binding' \in Binding
    BY <2>1, <2>2 DEF BridgeServes, BindingOf, Binding, Status
  <2>5. previous' \in [session : Nat, sequence : Nat]
    BY <2>1, <2>2 DEF BridgeServes, Status
  <2>6. toPlugin' \in Command \cup {Nothing}
    BY <2>1, <2>2, <2>3 DEF BridgeServes, Reply, Command, Status
  <2>7. /\ toBridge' = Nothing
        /\ UNCHANGED <<gameVars, frame, stateVars, workerVars, pipe, client, bridge>>
    BY <2>1 DEF BridgeServes
  <2> QED BY <2>3, <2>4, <2>5, <2>6, <2>7
<1>4. CASE BridgeBreaks
  <2>1. /\ position' = None /\ binding' = Nothing /\ pipe' = "absent"
        /\ toBridge' = Nothing /\ toPlugin' = Nothing
        /\ bridge' = "recreate" /\ previous' = Nothing
        /\ UNCHANGED <<gameVars, frame, stateVars, workerVars, client>>
    BY <1>4 DEF BridgeBreaks
  <2> QED BY <2>1
<1>5. CASE BridgeRecreates
  BY <1>5 DEF BridgeRecreates
<1>6. CASE BridgeEnds
  BY <1>6 DEF BridgeEnds
<1>7. CASE \E control \in Controls : StalkMoves(control)
  <2>1. PICK control \in Controls : StalkMoves(control)
    BY <1>7
  <2>2. position' \in Movement
    BY <2>1 DEF StalkMoves, Movement, MomentOf, Moment, GateState
  <2> QED BY <2>1, <2>2 DEF StalkMoves
<1>8. CASE StalkReleases
  BY <1>8 DEF StalkReleases
<1> QED BY <1>1, <1>2, <1>3, <1>4, <1>5, <1>6, <1>7, <1>8 DEF Bridge

LEMMA TypeGameRestarts == TypeOK /\ GameRestarts => TypeOK'
<1> SUFFICES ASSUME TypeOK, GameRestarts PROVE TypeOK'
  OBVIOUS
<1>1. NewGate \in GateState
  BY DEF NewGate, GateState, Request, NoSession, NoSequence
<1>2. NoInput \in [value : Request, at : Moment]
  BY DEF NoInput, Request, Moment, NoSession
<1> QED BY <1>1, <1>2 DEF GameRestarts, TypeOK, bridgeVars

\* Every variable of the link keeps its type, whatever the bounds, the controls
\* and the channels are.
THEOREM TypeCorrect == Spec => []TypeOK
<1>1. Init => TypeOK
  BY TypeInit
<1>2. TypeOK /\ [Next]_vars => TypeOK'
  <2> SUFFICES ASSUME TypeOK, [Next]_vars PROVE TypeOK'
    OBVIOUS
  <2>1. CASE UNCHANGED vars
    BY <2>1 DEF vars, gameVars, stateVars, workerVars, pipeVars, bridgeVars, TypeOK
  <2> QED BY <2>1, TypeGameCallback, TypeInput, TypeWorker, TypeBridge,
             TypeGameRestarts DEF Next
<1> QED BY <1>1, <1>2, PTL DEF Spec

-----------------------------------------------------------------------------
(* Keys stay reached, and requests stay fresh, as the gate moves on *)

HasKey(k) == k.session \in Nat /\ k.epoch \in Nat

\* The gate keeps its key and what it knows of GENERATION, or leaves its key for
\* good: n sessions were given out before the step.
MovesOn(g, h, n, seen, seenNext, now, nowNext) ==
  \/ /\ h.session = g.session /\ h.epoch = g.epoch
     /\ seenNext = seen /\ nowNext >= now
  \/ h.session = g.session /\ h.epoch > g.epoch
  \/ h.session = NoSession
  \/ h.session > n

\* What the gate has reached stays reached.
LEMMA ReachedStable ==
  ASSUME NEW k, NEW g, NEW h, HasKey(k), HasKey(g), HasKey(h),
         NEW n \in Nat, NEW m \in Nat, n <= m,
         NEW seen, NEW seenNext, NEW now, NEW nowNext,
         MovesOn(g, h, n, seen, seenNext, now, nowNext),
         Reached(k, g, n)
  PROVE  Reached(k, h, m)
BY DEF HasKey, MovesOn, Reached, NoSession

\* A request that is fresh for a reached key stays fresh for it.
LEMMA FreshStable ==
  ASSUME NEW k, NEW g, NEW h, HasKey(k), HasKey(g), HasKey(h),
         NEW v \in Request, NEW n \in Nat,
         NEW seen \in Nat, NEW seenNext \in Nat, NEW now \in Nat, NEW nowNext \in Nat,
         MovesOn(g, h, n, seen, seenNext, now, nowNext),
         Reached(k, g, n),
         Fresh(k, v, g, seen, now)
  PROVE  Fresh(k, v, h, seenNext, nowNext)
<1> SUFFICES ASSUME v # None, k.session = h.session, k.epoch = h.epoch
             PROVE  /\ v.made.session = k.session /\ v.made.epoch = k.epoch
                    /\ seenNext <= v.made.generation
                    /\ v.made.generation <= nowNext
  BY DEF Fresh
<1>1. v.made.generation \in Nat
  BY DEF Request, Movement, Moment
<1>2. /\ h.session = g.session /\ h.epoch = g.epoch
      /\ seenNext = seen /\ nowNext >= now
  BY DEF HasKey, MovesOn, Reached, NoSession
<1> QED BY <1>1, <1>2 DEF Fresh

\* Every step of the gate leaves what the others hold reached and fresh, for the
\* components of IInv that the step does not write itself.
LEMMA Undisturbed ==
  ASSUME IInv, TypeOK', sessions <= sessions',
         MovesOn(gate, gate', sessions, generation, generation', GENERATION, GENERATION')
  PROVE  /\ \A k \in Status \cup Command \cup Binding :
              Reached(k, gate, sessions) => Reached(k, gate', sessions')
         /\ \A k \in Status \cup Command \cup Binding, v \in Request :
              Reached(k, gate, sessions) /\ Fresh(k, v, gate, generation, GENERATION)
                => Fresh(k, v, gate', generation', GENERATION')
<1>1. \A k \in Status \cup Command \cup Binding : HasKey(k)
  BY DEF HasKey, Status, Command, Binding
<1>2. HasKey(gate) /\ HasKey(gate')
  BY DEF IInv, TypeOK, GateState, HasKey
<1>3. /\ sessions \in Nat /\ sessions' \in Nat
      /\ generation \in Nat /\ generation' \in Nat
      /\ GENERATION \in Nat /\ GENERATION' \in Nat
  BY DEF IInv, TypeOK
<1>4. ASSUME NEW k \in Status \cup Command \cup Binding, Reached(k, gate, sessions)
      PROVE  Reached(k, gate', sessions')
  BY <1>1, <1>2, <1>3, <1>4, ReachedStable
<1>5. ASSUME NEW k \in Status \cup Command \cup Binding, NEW v \in Request,
             Reached(k, gate, sessions), Fresh(k, v, gate, generation, GENERATION)
      PROVE  Fresh(k, v, gate', generation', GENERATION')
  BY <1>1, <1>2, <1>3, <1>5, FreshStable
<1> QED BY <1>4, <1>5

\* A step that writes no new packet, binding or position, and lets the worker
\* wait on no other than before, keeps the part of IInv about them.
LEMMA PacketsKept ==
  ASSUME IInv, TypeOK', sessions <= sessions',
         MovesOn(gate, gate', sessions, generation, generation', GENERATION, GENERATION'),
         worker' \in {"send", "receive"} =>
           worker \in {"send", "receive"} /\ status' = status,
         worker' = "accept" => worker = "accept" /\ command' = command,
         toBridge' \in {toBridge, Nothing}, toPlugin' \in {toPlugin, Nothing},
         binding' \in {binding, Nothing}, position' \in {position, None}
  PROVE  PacketsReached' /\ PacketsFresh'
<1> DEFINE Keys == Status \cup Command \cup Binding
<1>1. /\ \A k \in Keys : Reached(k, gate, sessions) => Reached(k, gate', sessions')
      /\ \A k \in Keys, v \in Request :
           Reached(k, gate, sessions) /\ Fresh(k, v, gate, generation, GENERATION)
             => Fresh(k, v, gate', generation', GENERATION')
  BY Undisturbed
<1>2. /\ toBridge' # Nothing => toBridge' = toBridge /\ toBridge \in Keys
      /\ toPlugin' # Nothing => /\ toPlugin' = toPlugin /\ toPlugin \in Keys
                                /\ toPlugin.value \in Request
      /\ binding' # Nothing => binding' = binding /\ binding \in Keys
      /\ worker = "accept" => command \in Keys /\ command.value \in Request
      /\ position \in Request
  BY DEF IInv, TypeOK, Command
<1> HIDE DEF Keys
<1>3. /\ worker' \in {"send", "receive"} =>
           status' \in Status /\ Reached(status', gate', sessions')
      /\ toBridge' # Nothing => Reached(toBridge', gate', sessions')
      /\ toPlugin' # Nothing => Reached(toPlugin', gate', sessions')
      /\ worker' = "accept" => Reached(command', gate', sessions')
      /\ binding' # Nothing => Reached(binding', gate', sessions')
  <2>1. worker \in {"send", "receive"} => status \in Status /\ status \in Keys
    BY DEF IInv, PacketsReached, Keys
  <2> QED BY <1>1, <1>2, <2>1 DEF IInv, PacketsReached
<1>4. \A k : Fresh(k, None, gate', generation', GENERATION')
  BY DEF Fresh
<1>5. binding' # Nothing => Fresh(binding', position', gate', generation', GENERATION')
  BY <1>1, <1>2, <1>4 DEF IInv, PacketsReached, PacketsFresh
<1>6. toPlugin' # Nothing =>
        Fresh(toPlugin', toPlugin'.value, gate', generation', GENERATION')
  BY <1>1, <1>2 DEF IInv, PacketsReached, PacketsFresh
<1>7. worker' = "accept" =>
        Fresh(command', command'.value, gate', generation', GENERATION')
  BY <1>1, <1>2 DEF IInv, PacketsReached, PacketsFresh
<1> QED BY <1>3, <1>5, <1>6, <1>7 DEF PacketsReached, PacketsFresh

\* A step that advances the gate without a new command keeps the command fresh.
LEMMA DesiredKept ==
  ASSUME IInv, TypeOK', Advances(gate, gate'),
         gate' = gate => generation' = generation,
         GENERATION' >= GENERATION
  PROVE  DesiredFresh'
<1>1. CASE gate'.desired = None
  BY <1>1 DEF DesiredFresh, Fresh
<1>2. CASE gate' = gate /\ gate.desired # None
  <2>1. gate.desired.made.generation \in Nat
    BY <1>2 DEF IInv, TypeOK, GateState, Request, Movement, Moment
  <2> QED BY <1>2, <2>1 DEF IInv, TypeOK, DesiredFresh, Fresh
<1> QED BY <1>1, <1>2 DEF Advances

-----------------------------------------------------------------------------
(* The inductive invariant, actor by actor *)

\* An advance of the gate moves it on.
LEMMA AdvancesMovesOn ==
  ASSUME TypeOK, Advances(gate, gate'), gate' = gate => generation' = generation,
         GENERATION' >= GENERATION
  PROVE  MovesOn(gate, gate', sessions, generation, generation', GENERATION, GENERATION')
BY DEF Advances, MovesOn

LEMMA GameCallbackKeeps == IInv /\ GameCallback /\ TypeOK' => IInv'
<1> SUFFICES ASSUME IInv, GameCallback, TypeOK' PROVE IInv'
  OBVIOUS
<1>1. UNCHANGED <<frame, stateVars, workerVars, pipeVars, bridgeVars>>
  BY DEF GameCallback
<1>2. GENERATION' >= GENERATION
  <2>1. GENERATION \in Nat
    BY DEF IInv, TypeOK
  <2>2. GENERATION' = GENERATION \/ GENERATION' = GENERATION + 1
    BY DEF GameCallback, TelemetryEvent, ClearObserved, BumpGeneration,
           TelemetryChannel, ActiveCallback, FrameActivates
  <2> QED BY <2>1, <2>2
<1>3. Advances(gate, gate') /\ generation' = generation /\ generation' <= GENERATION'
  BY <1>1, <1>2 DEF stateVars, Advances, IInv, TypeOK
<1>4. DesiredFresh'
  BY <1>2, <1>3, DesiredKept
<1>5. PacketsReached' /\ PacketsFresh'
  <2>1. MovesOn(gate, gate', sessions, generation, generation', GENERATION, GENERATION')
    BY <1>2, <1>3, AdvancesMovesOn DEF IInv
  <2>2. sessions <= sessions'
    BY <1>1 DEF workerVars, IInv, TypeOK
  <2> QED BY <1>1, <2>1, <2>2, PacketsKept DEF workerVars, pipeVars, bridgeVars
<1> QED BY <1>1, <1>3, <1>4, <1>5
        DEF IInv, WorkerInSession, NoStaleReplay, stateVars, workerVars

LEMMA InputKeeps == IInv /\ Input /\ TypeOK' => IInv'
<1> SUFFICES ASSUME IInv, Input, TypeOK' PROVE IInv'
  OBVIOUS
<1>1. CASE FrameContended
  <2>1. /\ UNCHANGED <<GENERATION, gate, generation, worker, sessions>>
        /\ UNCHANGED <<status, command, toBridge, toPlugin, binding, position>>
        /\ frame'.value = None
    BY <1>1 DEF FrameContended, NoInput, stateVars, workerVars, pipeVars, bridgeVars
  <2>2. /\ Advances(gate, gate') /\ GENERATION' >= GENERATION
        /\ sessions <= sessions'
    BY <2>1 DEF Advances, IInv, TypeOK
  <2>3. PacketsReached' /\ PacketsFresh' /\ DesiredFresh'
    BY <2>1, <2>2, AdvancesMovesOn, PacketsKept, DesiredKept DEF IInv
  <2> QED BY <2>1, <2>3 DEF IInv, WorkerInSession, NoStaleReplay
<1>2. CASE \E lapsed \in BOOLEAN : Frame(lapsed)
  <2>1. PICK lapsed \in BOOLEAN : Frame(lapsed)
    BY <1>2
  <2>2. /\ UNCHANGED <<GENERATION, worker, sessions>>
        /\ UNCHANGED <<status, command, toBridge, toPlugin, binding, position>>
        /\ generation' = GENERATION
    BY <2>1 DEF Frame, workerVars, pipeVars, bridgeVars
  <2>3. /\ Advances(gate, gate')
        /\ gate' = gate => generation' = generation
    BY <2>1, <2>2, RefreshAdvances DEF Frame, IInv
  <2>4. GENERATION' >= GENERATION /\ sessions <= sessions' /\ generation' <= GENERATION'
    BY <2>2 DEF IInv, TypeOK
  <2>5. PacketsReached' /\ PacketsFresh' /\ DesiredFresh'
    BY <2>2, <2>3, <2>4, AdvancesMovesOn, PacketsKept, DesiredKept DEF IInv
  <2>6. WorkerInSession'
    BY <2>2, <2>3 DEF IInv, WorkerInSession, Advances
  <2>7. NoStaleReplay'
    <3>1. CASE Held(gate') = None
      BY <2>1, <3>1 DEF Frame, NoStaleReplay, NoInput
    <3>2. CASE Held(gate') # None
      <4>1. /\ frame'.value = gate'.desired /\ gate'.desired # None
            /\ frame'.at = [session |-> gate'.session, epoch |-> gate'.epoch,
                            generation |-> GENERATION]
        BY <2>1, <3>2 DEF Frame, Held, MomentOf
      <4>2. gate'.desired.made \in Moment
        BY <4>1 DEF TypeOK, GateState, Request, Movement
      <4>3. /\ gate'.desired.made.session = gate'.session
            /\ gate'.desired.made.epoch = gate'.epoch
            /\ gate'.desired.made.generation = GENERATION
        BY <2>2, <2>5, <4>1, <4>2 DEF DesiredFresh, Fresh, Moment, IInv, TypeOK
      <4>4. frame'.value.made = frame'.at
        BY <4>1, <4>2, <4>3 DEF Moment
      <4> QED BY <4>4 DEF NoStaleReplay
    <3> QED BY <3>1, <3>2
  <2> QED BY <2>4, <2>5, <2>6, <2>7 DEF IInv
<1> QED BY <1>1, <1>2 DEF Input

\* The steps of the worker that do not touch a packet: the gate advances, enters a
\* new session or leaves its own.
LEMMA WorkerGateSteps ==
  ASSUME IInv, TypeOK',
         \/ WorkerOpens \/ WorkerFindsNoPipe \/ WorkerConnects
         \/ RefreshLoadsGeneration \/ RefreshLoadsActive \/ RefreshLoadsRunning
         \/ WorkerDisconnects \/ WorkerBreaks
  PROVE  IInv'
<1>1. /\ UNCHANGED <<GENERATION, frame>>
      /\ UNCHANGED <<command, toBridge, binding, position>>
      /\ toPlugin' \in {toPlugin, Nothing}
      /\ worker' \in {"send", "receive"} =>
           worker \in {"send", "receive"} /\ status' = status
      /\ worker' = "accept" => worker = "accept"
  BY DEF WorkerOpens, WorkerFindsNoPipe, WorkerConnects, RefreshLoadsGeneration,
         RefreshLoadsActive, RefreshLoadsRunning, WorkerDisconnects, WorkerBreaks,
         gameVars, workerVars, pipeVars, bridgeVars
<1>2. /\ generation \in Nat /\ GENERATION \in Nat /\ sessions \in Nat
      /\ gate \in GateState /\ generation <= GENERATION
  BY DEF IInv, TypeOK
<1>3. CASE WorkerFindsNoPipe \/ WorkerDisconnects
  <2>1. /\ gate'.session = NoSession /\ gate'.desired = None
        /\ UNCHANGED <<generation, sessions>>
        /\ worker' = "closed"
    BY <1>2, <1>3, ConnectFacts
       DEF WorkerFindsNoPipe, WorkerDisconnects, Disconnect, NoSession, workerVars
  <2>2. PacketsReached' /\ PacketsFresh'
    BY <1>1, <1>2, <2>1, PacketsKept DEF MovesOn
  <2> QED BY <1>1, <1>2, <2>1, <2>2
          DEF IInv, WorkerInSession, DesiredFresh, Fresh, NoStaleReplay, NoSession
<1>4. CASE WorkerConnects
  <2>1. /\ gate'.session = sessions' /\ gate'.desired = None
        /\ sessions' = sessions + 1 /\ generation' = generation
        /\ worker' = "status"
    BY <1>2, <1>4, ConnectFacts DEF WorkerConnects
  <2>2. PacketsReached' /\ PacketsFresh'
    BY <1>1, <1>2, <2>1, PacketsKept DEF MovesOn
  <2> QED BY <1>1, <1>2, <2>1, <2>2
          DEF IInv, WorkerInSession, DesiredFresh, Fresh, NoStaleReplay, NoSession
<1>5. CASE \/ WorkerOpens \/ RefreshLoadsGeneration \/ RefreshLoadsActive
           \/ RefreshLoadsRunning \/ WorkerBreaks
  <2>1. /\ Advances(gate, gate')
        /\ gate' = gate => generation' = generation
        /\ generation' <= GENERATION'
    <3>1. CASE RefreshLoadsGeneration
      BY <1>1, <1>2, <3>1, GenerationAdvances DEF RefreshLoadsGeneration, IInv
    <3>2. CASE ~RefreshLoadsGeneration
      BY <1>1, <1>2, <1>5, <3>2
         DEF WorkerOpens, RefreshLoadsActive, RefreshLoadsRunning, WorkerBreaks,
             stateVars, Advances
    <3> QED BY <3>1, <3>2
  <2>2. sessions' = sessions
    BY <1>5 DEF WorkerOpens, RefreshLoadsGeneration, RefreshLoadsActive,
                RefreshLoadsRunning, WorkerBreaks
  <2>3. worker' \in {"status", "send", "receive", "accept"} => worker' = worker
    BY <1>5 DEF WorkerOpens, RefreshLoadsGeneration, RefreshLoadsActive,
                RefreshLoadsRunning, WorkerBreaks
  <2>4. PacketsReached' /\ PacketsFresh' /\ DesiredFresh'
    BY <1>1, <1>2, <2>1, <2>2, AdvancesMovesOn, PacketsKept, DesiredKept DEF IInv
  <2>5. WorkerInSession'
    BY <2>1, <2>2, <2>3 DEF IInv, WorkerInSession, Advances
  <2> QED BY <1>1, <2>1, <2>4, <2>5 DEF IInv, NoStaleReplay
<1> QED BY <1>3, <1>4, <1>5

\* A status is read from the gate as it is then, so its key is the gate's.
LEMMA WorkerReadsStatusKeeps ==
  ASSUME IInv, TypeOK', NEW lapsed \in BOOLEAN, WorkerReadsStatus(lapsed)
  PROVE  IInv'
<1>1. /\ UNCHANGED <<GENERATION, generation, sessions, frame>>
      /\ UNCHANGED <<command, toBridge, toPlugin, binding, position>>
      /\ worker = "status" /\ worker' = "send"
      /\ status' = [session |-> gate'.session, epoch |-> gate'.epoch,
                    sequence |-> sequence, ready |-> gate'.ready]
  BY DEF WorkerReadsStatus, gameVars, pipeVars, bridgeVars
<1>2. Advances(gate, gate')
  BY RefreshAdvances DEF WorkerReadsStatus, IInv
<1>3. /\ GENERATION' >= GENERATION /\ generation' = generation
      /\ sessions' = sessions /\ sessions \in Nat
  BY <1>1 DEF IInv, TypeOK
<1>4. DesiredFresh'
  BY <1>2, <1>3, DesiredKept
<1>5. MovesOn(gate, gate', sessions, generation, generation', GENERATION, GENERATION')
  BY <1>2, <1>3, AdvancesMovesOn DEF IInv
<1>6. WorkerInSession'
  BY <1>1, <1>2 DEF IInv, WorkerInSession, Advances
<1>7. status' \in Status
  BY <1>1 DEF IInv, TypeOK, Status, GateState
<1>8. Reached(status', gate', sessions')
  BY <1>1, <1>3, <1>6 DEF Reached, WorkerInSession, TypeOK, GateState
<1>9. /\ \A k \in Status \cup Command \cup Binding :
           Reached(k, gate, sessions) => Reached(k, gate', sessions')
      /\ \A k \in Status \cup Command \cup Binding, v \in Request :
           Reached(k, gate, sessions) /\ Fresh(k, v, gate, generation, GENERATION)
             => Fresh(k, v, gate', generation', GENERATION')
  BY <1>3, <1>5, Undisturbed
<1>10. /\ toBridge # Nothing => toBridge \in Status
       /\ toPlugin # Nothing => toPlugin \in Command /\ toPlugin.value \in Request
       /\ binding # Nothing => binding \in Binding
       /\ position \in Request
  BY DEF IInv, TypeOK, Command
<1>11. PacketsReached' /\ PacketsFresh'
  BY <1>1, <1>7, <1>8, <1>9, <1>10 DEF IInv, PacketsReached, PacketsFresh
<1> QED BY <1>1, <1>4, <1>6, <1>11 DEF IInv, NoStaleReplay

\* Sending and receiving only move a packet.
LEMMA WorkerExchangeKeeps ==
  ASSUME IInv, TypeOK', WorkerSends \/ WorkerReceives
  PROVE  IInv'
<1>1. UNCHANGED <<frame, gate, generation, GENERATION, sessions, binding, position>>
  BY DEF WorkerSends, WorkerReceives, gameVars, stateVars, pipeVars, bridgeVars
<1>2. CASE WorkerSends
  <2>1. /\ worker = "send" /\ worker' = "receive" /\ toBridge' = status
        /\ UNCHANGED <<status, command, toPlugin>>
    BY <1>2 DEF WorkerSends
  <2> QED BY <1>1, <2>1
          DEF IInv, WorkerInSession, PacketsReached, PacketsFresh, DesiredFresh,
              NoStaleReplay
<1>3. CASE WorkerReceives
  <2>1. /\ worker = "receive" /\ worker' = "accept"
        /\ toPlugin # Nothing /\ command' = toPlugin /\ toPlugin' = Nothing
        /\ UNCHANGED toBridge
    BY <1>3 DEF WorkerReceives
  <2> QED BY <1>1, <2>1
          DEF IInv, WorkerInSession, PacketsReached, PacketsFresh, DesiredFresh,
              NoStaleReplay
<1> QED BY <1>2, <1>3

\* The gate takes a command of its own session and epoch only, and such a command
\* is fresh; a gate that the refresh advanced is past every command's epoch.
LEMMA WorkerAcceptsKeeps ==
  ASSUME IInv, TypeOK', NEW lapsed \in BOOLEAN, WorkerAccepts(lapsed)
  PROVE  IInv'
<1> DEFINE g == Expire(Refreshed, lapsed)
<1>1. /\ UNCHANGED <<GENERATION, generation, sessions, frame>>
      /\ UNCHANGED <<status, toBridge, toPlugin, binding, position>>
      /\ worker = "accept" /\ worker' = "status"
      /\ gate' = Accept(g, command)
  BY DEF WorkerAccepts, gameVars, pipeVars, bridgeVars
<1>2. Advances(gate, g)
  BY RefreshAdvances DEF IInv
<1>3. g \in GateState /\ command \in Command
  BY <1>1, <1>2 DEF Advances, IInv, TypeOK
<1> HIDE DEF g
<1>4. /\ gate'.session = g.session /\ gate'.epoch = g.epoch
      /\ \/ gate'.desired = g.desired
         \/ gate'.desired = None
         \/ /\ gate'.desired = command.value
            /\ command.session = g.session /\ command.epoch = g.epoch
            /\ g.session # NoSession
  BY <1>1, <1>3, AcceptFacts
<1>5. /\ generation \in Nat /\ GENERATION \in Nat /\ sessions \in Nat
      /\ gate \in GateState /\ gate' \in GateState
  BY DEF IInv, TypeOK
<1>6. MovesOn(gate, gate', sessions, generation, generation', GENERATION, GENERATION')
  BY <1>1, <1>2, <1>4, <1>5 DEF Advances, MovesOn
<1>7. PacketsReached' /\ PacketsFresh'
  BY <1>1, <1>5, <1>6, PacketsKept
<1>8. DesiredFresh'
  <2>1. CASE gate'.desired = None
    BY <2>1 DEF DesiredFresh, Fresh
  <2>2. CASE gate'.desired = g.desired /\ gate'.desired # None
    <3>1. g = gate
      BY <1>2, <2>2 DEF Advances
    <3> QED BY <1>1, <1>4, <2>2, <3>1 DEF IInv, DesiredFresh, Fresh
  <2>3. CASE /\ gate'.desired = command.value
             /\ command.session = g.session /\ command.epoch = g.epoch
             /\ g.session # NoSession
    <3>1. /\ Reached(command, gate, sessions)
          /\ Fresh(command, command.value, gate, generation, GENERATION)
      BY <1>1 DEF IInv, PacketsReached, PacketsFresh
    <3>2. g.session = gate.session /\ g.epoch = gate.epoch
      BY <1>2, <1>3, <1>5, <2>3, <3>1 DEF Advances, Reached, GateState, Command
    <3> QED BY <1>1, <1>4, <2>3, <3>1, <3>2 DEF DesiredFresh, Fresh
  <2> QED BY <1>4, <2>1, <2>2, <2>3
<1>9. WorkerInSession'
  BY <1>1, <1>2, <1>4 DEF IInv, WorkerInSession, Advances
<1> QED BY <1>1, <1>7, <1>8, <1>9 DEF IInv, NoStaleReplay

LEMMA WorkerKeeps == IInv /\ Worker /\ TypeOK' => IInv'
<1> SUFFICES ASSUME IInv, Worker, TypeOK' PROVE IInv'
  OBVIOUS
<1>1. CASE \E lapsed \in BOOLEAN : WorkerReadsStatus(lapsed)
  BY <1>1, WorkerReadsStatusKeeps
<1>2. CASE \E lapsed \in BOOLEAN : WorkerAccepts(lapsed)
  BY <1>2, WorkerAcceptsKeeps
<1>3. CASE WorkerSends \/ WorkerReceives
  BY <1>3, WorkerExchangeKeeps
<1>4. CASE \/ WorkerOpens \/ WorkerFindsNoPipe \/ WorkerConnects
           \/ RefreshLoadsGeneration \/ RefreshLoadsActive \/ RefreshLoadsRunning
           \/ WorkerDisconnects \/ WorkerBreaks
  BY <1>4, WorkerGateSteps
<1> QED BY <1>1, <1>2, <1>3, <1>4 DEF Worker

\* The bridge answers with a position only under a binding that the position is
\* fresh for; a movement is fresh for every binding the moment it is made.
LEMMA BridgeKeeps == IInv /\ Bridge /\ TypeOK' => IInv'
<1> SUFFICES ASSUME IInv, Bridge, TypeOK' PROVE IInv'
  OBVIOUS
<1>1. UNCHANGED <<gate, generation, GENERATION, sessions, worker, frame, status, command>>
  BY DEF Bridge, BridgeStarts, BridgeAccepts, BridgeServes, BridgeBreaks,
         BridgeRecreates, BridgeEnds, StalkMoves, StalkReleases,
         gameVars, stateVars, workerVars
<1>2. /\ WorkerInSession' /\ NoStaleReplay' /\ DesiredFresh'
      /\ generation' <= GENERATION'
  BY <1>1 DEF IInv, WorkerInSession, NoStaleReplay, DesiredFresh
<1>3. CASE \/ BridgeStarts \/ BridgeAccepts \/ BridgeBreaks
           \/ BridgeRecreates \/ BridgeEnds \/ StalkReleases
  <2>1. /\ toBridge' \in {toBridge, Nothing} /\ toPlugin' \in {toPlugin, Nothing}
        /\ binding' \in {binding, Nothing} /\ position' \in {position, None}
    BY <1>3 DEF BridgeStarts, BridgeAccepts, BridgeBreaks, BridgeRecreates,
                BridgeEnds, StalkReleases, pipeVars
  <2>2. \A k : Fresh(k, None, gate, generation, GENERATION)
    BY DEF Fresh
  <2> QED BY <1>1, <1>2, <2>1, <2>2 DEF IInv, PacketsReached, PacketsFresh
<1>4. CASE \E lapsed \in BOOLEAN : BridgeServes(lapsed)
  <2>1. PICK lapsed \in BOOLEAN : BridgeServes(lapsed)
    BY <1>4
  <2>2. /\ toBridge # Nothing /\ toBridge' = Nothing
        /\ binding' = BindingOf(toBridge)
        /\ position' = None \/ (position' = position /\ binding = binding')
        /\ \/ toPlugin' = Nothing
           \/ toPlugin' = Reply(toBridge, position') \/ toPlugin' = Reply(toBridge, None)
    BY <2>1 DEF BridgeServes
  <2>3. toBridge \in Status /\ Reached(toBridge, gate, sessions)
    BY <2>2 DEF IInv, TypeOK, PacketsReached
  <2>4. /\ binding'.session = toBridge.session /\ binding'.epoch = toBridge.epoch
        /\ binding' \in Binding
    BY <2>2, <2>3 DEF BindingOf, Binding, Status
  <2>5. Fresh(binding', position', gate, generation, GENERATION)
    <3>1. CASE position' = None
      BY <3>1 DEF Fresh
    <3>2. CASE position' = position /\ binding = binding'
      <4>1. binding # Nothing
        BY <2>4, <3>2, NothingAssumption
      <4> QED BY <3>2, <4>1 DEF IInv, PacketsFresh
    <3> QED BY <2>2, <3>1, <3>2
  <2>6. Reached(binding', gate, sessions)
    BY <2>3, <2>4 DEF Reached
  <2>7. toPlugin' # Nothing =>
          /\ toPlugin'.session = toBridge.session /\ toPlugin'.epoch = toBridge.epoch
          /\ toPlugin'.value = position' \/ toPlugin'.value = None
    BY <2>2 DEF Reply
  <2>8. toPlugin' # Nothing =>
          /\ Reached(toPlugin', gate, sessions)
          /\ Fresh(toPlugin', toPlugin'.value, gate, generation, GENERATION)
    BY <2>3, <2>4, <2>5, <2>7 DEF Reached, Fresh
  <2> QED BY <1>1, <1>2, <2>2, <2>5, <2>6, <2>8 DEF IInv, PacketsReached, PacketsFresh
<1>5. CASE \E control \in Controls : StalkMoves(control)
  <2>1. /\ UNCHANGED <<toBridge, toPlugin, binding>>
        /\ position'.made = [session |-> gate.session, epoch |-> gate.epoch,
                             generation |-> GENERATION]
    BY <1>5 DEF StalkMoves, MomentOf, pipeVars
  <2>2. \A k : Fresh(k, position', gate, generation, GENERATION)
    BY <2>1 DEF IInv, TypeOK, Fresh
  <2> QED BY <1>1, <1>2, <2>1, <2>2 DEF IInv, PacketsReached, PacketsFresh
<1> QED BY <1>3, <1>4, <1>5 DEF Bridge

\* A new game process starts without a session; what it finds in the pipe and in
\* the bridge is of sessions that never come back.
LEMMA GameRestartsKeeps == IInv /\ GameRestarts /\ TypeOK' => IInv'
<1> SUFFICES ASSUME IInv, GameRestarts, TypeOK' PROVE IInv'
  OBVIOUS
<1>1. /\ gate'.session = NoSession /\ gate'.desired = None
      /\ generation' = 0 /\ GENERATION' = 1 /\ frame'.value = None
      /\ worker' = "closed" /\ sessions' = sessions
      /\ toPlugin' = Nothing /\ UNCHANGED <<toBridge, binding, position>>
  BY DEF GameRestarts, NewGate, NoInput, bridgeVars
<1>2. sessions \in Nat
  BY DEF IInv, TypeOK
<1>3. PacketsReached' /\ PacketsFresh'
  BY <1>1, <1>2, PacketsKept DEF MovesOn
<1> QED BY <1>1, <1>2, <1>3
        DEF IInv, WorkerInSession, DesiredFresh, Fresh, NoStaleReplay, NoSession

-----------------------------------------------------------------------------
(* The theorems *)

LEMMA Inductive == Spec => []IInv
<1>1. Init => IInv
  <2> SUFFICES ASSUME Init PROVE IInv
    OBVIOUS
  <2>1. TypeOK
    BY TypeInit
  <2> QED BY <2>1
          DEF Init, PluginLoaded, NewGate, NoInput, NoSession, IInv, WorkerInSession,
              PacketsReached, PacketsFresh, DesiredFresh, Fresh, NoStaleReplay
<1>2. IInv /\ [Next]_vars /\ TypeOK' => IInv'
  <2> SUFFICES ASSUME IInv, [Next]_vars, TypeOK' PROVE IInv'
    OBVIOUS
  <2>1. CASE UNCHANGED vars
    BY <2>1 DEF vars, gameVars, stateVars, workerVars, pipeVars, bridgeVars, IInv,
                WorkerInSession, PacketsReached, PacketsFresh, DesiredFresh,
                NoStaleReplay
  <2> QED BY <2>1, GameCallbackKeeps, InputKeeps, WorkerKeeps, BridgeKeeps,
             GameRestartsKeeps DEF Next
<1> QED BY <1>1, <1>2, TypeCorrect, PTL DEF Spec

\* For every number of sessions, exchanges, game-state changes and failures: an
\* input frame asserts a control only for a movement that the bridge read in the
\* session, epoch and generation of the frame (input_callback, State::refresh,
\* InputGate::accept, BridgeState::reply).
THEOREM NoReplay == Spec => []NoStaleReplay
<1>1. IInv => NoStaleReplay
  BY DEF IInv
<1> QED BY <1>1, Inductive, PTL

\* The command the gate holds between two frames is as fresh as the gate.
THEOREM HeldCommandFresh == Spec => []DesiredIsFresh
<1>1. IInv => DesiredIsFresh
  BY DEF IInv, DesiredFresh, Fresh, DesiredIsFresh
<1> QED BY <1>1, Inductive, PTL

-----------------------------------------------------------------------------
(* The link implements FreshInput, actor by actor *)

\* Nothing that FreshInput has changes.
Invisible == UNCHANGED <<GENERATION, generation, gate, sessions, frame>>

LEMMA InvisibleStutters ==
  ASSUME Invisible
  PROVE  UNCHANGED Promise!vars
BY DEF Invisible, Promise!vars

\* A step that advances the gate and gives nothing new is the end of an era,
\* unless it leaves the gate as it is.
LEMMA AdvanceEndsEra ==
  ASSUME TypeOK, TypeOK', Advances(gate, gate'), gate' # gate,
         UNCHANGED <<GENERATION, sessions>>,
         generation' \in {generation, GENERATION},
         frame'.value \in {frame.value, None}
  PROVE  Promise!EraEnds
BY DEF Advances, Promise!EraEnds, Promise!Later

\* A movement is its control and the moment it was made in.
LEMMA MovementFields ==
  ASSUME NEW v \in Movement
  PROVE  /\ v = [control |-> v.control, made |-> v.made]
         /\ v.made = [session |-> v.made.session, epoch |-> v.made.epoch,
                      generation |-> v.made.generation]
         /\ v.control \in Controls /\ v.made.generation \in Nat
BY DEF Movement, Moment

\* The game's callbacks are invisible but for the last store of a change.
LEMMA GameCallbackImplements ==
  ASSUME TypeOK, GameCallback
  PROVE  Promise!GameChanges \/ Invisible
<1>1. UNCHANGED <<generation, gate, sessions, frame>>
  BY DEF GameCallback, stateVars, workerVars
<1>2. GENERATION' \in {GENERATION, GENERATION + 1}
  BY DEF GameCallback, TelemetryEvent, ClearObserved, BumpGeneration,
         TelemetryChannel, ActiveCallback, FrameActivates
<1> QED BY <1>1, <1>2 DEF Promise!GameChanges, Invisible

\* A frame gives what the gate holds after its refresh, and then the plugin has
\* seen the game's state, or it gives nothing.
LEMMA InputImplements ==
  ASSUME TypeOK, TypeOK', Input
  PROVE  Promise!EraEnds \/ Promise!Gives \/ Promise!Withholds
<1>1. CASE FrameContended
  BY <1>1 DEF FrameContended, stateVars, workerVars, NoInput, Promise!Withholds
<1>2. CASE \E lapsed \in BOOLEAN : Frame(lapsed)
  <2>1. PICK lapsed \in BOOLEAN : Frame(lapsed)
    BY <1>2
  <2>2. /\ UNCHANGED <<GENERATION, sessions>> /\ generation' = GENERATION
        /\ frame'.value = Held(gate')
    BY <2>1 DEF Frame, workerVars, NoInput
  <2>3. /\ Advances(gate, gate')
        /\ gate' = gate => generation = GENERATION
    BY <2>1, RefreshAdvances DEF Frame
  <2>4. frame'.value \in {gate'.desired, None}
    BY <2>2 DEF Held
  <2>5. CASE gate' = gate
    BY <2>2, <2>3, <2>4, <2>5 DEF Promise!Gives, Promise!Withholds
  <2>6. CASE gate' # gate
    <3>1. frame'.value = None
      BY <2>3, <2>4, <2>6 DEF Advances
    <3> QED BY <2>2, <2>3, <2>6, <3>1, AdvanceEndsEra
  <2> QED BY <2>5, <2>6
<1> QED BY <1>1, <1>2 DEF Input

\* The gate takes a movement of the era it is in, or takes nothing: a refresh that
\* ends the era in the same step leaves it with no command.
LEMMA WorkerAcceptsImplements ==
  ASSUME IInv, TypeOK', NEW lapsed \in BOOLEAN, WorkerAccepts(lapsed)
  PROVE  \/ Promise!EraEnds \/ Promise!Holds \/ Promise!Drops
         \/ UNCHANGED Promise!vars
<1> DEFINE g == Expire(Refreshed, lapsed)
<1>1. /\ UNCHANGED <<GENERATION, generation, sessions, frame>>
      /\ worker = "accept" /\ gate' = Accept(g, command)
  BY DEF WorkerAccepts, gameVars
<1>2. Advances(gate, g)
  BY RefreshAdvances DEF IInv
<1>3. g \in GateState /\ command \in Command
  BY <1>1, <1>2 DEF Advances, IInv, TypeOK
<1> HIDE DEF g
<1>4. /\ gate'.session = g.session /\ gate'.epoch = g.epoch
      /\ \/ gate'.desired = g.desired
         \/ gate'.desired = None
         \/ /\ gate'.desired = command.value
            /\ command.session = g.session /\ command.epoch = g.epoch
            /\ g.session # NoSession
  BY <1>1, <1>3, AcceptFacts
<1>5. /\ Reached(command, gate, sessions)
      /\ Fresh(command, command.value, gate, generation, GENERATION)
  BY <1>1 DEF IInv, PacketsReached, PacketsFresh
<1>6. gate \in GateState /\ gate' \in GateState /\ TypeOK
  BY DEF IInv, TypeOK
<1>7. CASE g = gate
  <2>1. gate'.session = gate.session /\ gate'.epoch = gate.epoch
    BY <1>4, <1>7
  <2>2. CASE gate'.desired = gate.desired
    BY <1>1, <2>1, <2>2 DEF Promise!vars
  <2>3. CASE gate'.desired = None
    BY <1>1, <2>1, <2>3 DEF Promise!Drops
  <2>4. CASE /\ gate'.desired = command.value /\ command.value # None
             /\ command.session = gate.session /\ command.epoch = gate.epoch
             /\ gate.session # NoSession
    <3> DEFINE v == command.value
    <3>1. v \in Movement
      BY <1>3, <2>4 DEF Command, Request
    <3>2. /\ v.made.session = gate.session /\ v.made.epoch = gate.epoch
          /\ generation <= v.made.generation /\ v.made.generation <= GENERATION
      BY <1>5, <2>4 DEF Fresh
    <3>3. gate'.desired = v
      BY <2>4
    <3> HIDE DEF v
    <3>4. v.made.generation \in generation..GENERATION
      <4>1. v.made.generation \in Nat
        BY <3>1, MovementFields
      <4> QED BY <1>6, <3>2, <4>1 DEF TypeOK
    <3>5. v = [control |-> v.control,
               made |-> [session |-> gate.session, epoch |-> gate.epoch,
                         generation |-> v.made.generation]]
      BY <3>1, <3>2, MovementFields
    <3>6. v.control \in Controls
      BY <3>1, MovementFields
    <3> QED BY <1>1, <2>1, <2>4, <3>3, <3>4, <3>5, <3>6
            DEF Promise!Holds, NoSession
  <2> QED BY <1>4, <1>7, <2>2, <2>3, <2>4
<1>8. CASE g # gate
  <2>1. /\ g.session = gate.session /\ g.epoch > gate.epoch /\ g.desired = None
    BY <1>2, <1>8 DEF Advances
  <2>2. ~(command.session = g.session /\ command.epoch = g.epoch)
    BY <1>3, <1>5, <1>6, <2>1 DEF Reached, GateState, Command
  <2>3. gate'.desired = None
    BY <1>4, <2>1, <2>2
  <2> QED BY <1>1, <1>4, <2>1, <2>3 DEF Promise!EraEnds, Promise!Later
<1> QED BY <1>7, <1>8

\* Connecting and disconnecting end an era, so does a refresh that finds the game
\* in another state; the rest of the worker's loop is invisible.
LEMMA WorkerImplements ==
  ASSUME IInv, TypeOK', Worker
  PROVE  \/ Promise!EraEnds \/ Promise!Holds \/ Promise!Drops
         \/ UNCHANGED Promise!vars
<1>1. CASE \/ WorkerOpens \/ RefreshLoadsActive \/ RefreshLoadsRunning
           \/ WorkerSends \/ WorkerReceives \/ WorkerBreaks
  <2>1. Invisible
    BY <1>1 DEF WorkerOpens, RefreshLoadsActive, RefreshLoadsRunning, WorkerSends,
                WorkerReceives, WorkerBreaks, gameVars, stateVars, Invisible
  <2> QED BY <2>1, InvisibleStutters
<1>2. CASE WorkerFindsNoPipe \/ WorkerDisconnects
  <2>1. gate \in GateState
    BY DEF IInv, TypeOK
  <2>2. gate'.session = NoSession /\ gate'.desired = None
    BY <1>2, <2>1, ConnectFacts
       DEF WorkerFindsNoPipe, WorkerDisconnects, Disconnect, NoSession
  <2>3. UNCHANGED <<GENERATION, generation, sessions, frame>>
    BY <1>2 DEF WorkerFindsNoPipe, WorkerDisconnects, workerVars, gameVars
  <2> QED BY <2>2, <2>3 DEF Promise!EraEnds, Promise!Later, NoSession
<1>3. CASE WorkerConnects
  <2>1. /\ gate'.session = sessions' /\ gate'.desired = None
        /\ sessions' = sessions + 1 /\ sessions \in Nat
        /\ UNCHANGED <<GENERATION, generation, frame>>
    BY <1>3, ConnectFacts DEF WorkerConnects, gameVars, IInv, TypeOK
  <2> QED BY <2>1 DEF Promise!EraEnds, Promise!Later
<1>4. ASSUME NEW lapsed \in BOOLEAN,
             RefreshLoadsGeneration \/ WorkerReadsStatus(lapsed)
      PROVE  Promise!EraEnds \/ UNCHANGED Promise!vars
  <2>1. /\ UNCHANGED <<GENERATION, sessions, frame>>
        /\ generation' \in {generation, GENERATION}
    BY <1>4 DEF RefreshLoadsGeneration, WorkerReadsStatus, gameVars
  <2>2. Advances(gate, gate') /\ (gate' = gate => generation' = generation)
    BY <1>4, GenerationAdvances, RefreshAdvances
       DEF RefreshLoadsGeneration, WorkerReadsStatus, IInv
  <2>3. CASE gate' = gate
    BY <2>1, <2>2, <2>3 DEF Promise!vars
  <2>4. CASE gate' # gate
    BY <2>1, <2>2, <2>4, AdvanceEndsEra DEF IInv
  <2> QED BY <2>3, <2>4
<1> QED BY <1>1, <1>2, <1>3, <1>4, WorkerAcceptsImplements DEF Worker

\* The bridge only makes movements, which FreshInput does not have until they are
\* held.
LEMMA BridgeImplements ==
  ASSUME Bridge
  PROVE  Invisible
BY DEF Bridge, BridgeStarts, BridgeAccepts, BridgeServes, BridgeBreaks,
       BridgeRecreates, BridgeEnds, StalkMoves, StalkReleases,
       gameVars, stateVars, workerVars, Invisible

\* The four threads, with every failure, implement the promise of FreshInput.
THEOREM LinkImplementsFreshInput == Spec => ImplementsFreshInput
<1>1. Init => Promise!Init
  BY DEF Init, PluginLoaded, NewGate, NoInput, NoSession, Promise!Init
<1>2. IInv /\ TypeOK' /\ [Next]_vars => [Promise!Next]_Promise!vars
  <2> SUFFICES ASSUME IInv, TypeOK', [Next]_vars
               PROVE  Promise!Next \/ UNCHANGED Promise!vars
    OBVIOUS
  <2>1. TypeOK
    BY DEF IInv
  <2>2. CASE GameCallback
    BY <2>1, <2>2, GameCallbackImplements, InvisibleStutters DEF Promise!Next
  <2>3. CASE Input
    BY <2>1, <2>3, InputImplements DEF Promise!Next
  <2>4. CASE Worker
    BY <2>4, WorkerImplements DEF Promise!Next
  <2>5. CASE Bridge
    BY <2>5, BridgeImplements, InvisibleStutters
  <2>6. CASE GameRestarts
    <3>1. /\ GENERATION' = 1 /\ generation' = 0
          /\ gate' = NewGate /\ frame' = NoInput /\ sessions' = sessions
      BY <2>6 DEF GameRestarts
    <3>2. Promise!GameRestarts
      BY <3>1 DEF NewGate, NoInput, NoSession, Promise!GameRestarts
    <3> QED BY <3>2 DEF Promise!Next
  <2>7. CASE UNCHANGED vars
    <3>1. Invisible
      BY <2>7 DEF vars, gameVars, stateVars, workerVars, Invisible
    <3> QED BY <3>1, InvisibleStutters
  <2> QED BY <2>2, <2>3, <2>4, <2>5, <2>6, <2>7 DEF Next
<1> QED BY <1>1, <1>2, Inductive, TypeCorrect, PTL
        DEF Spec, ImplementsFreshInput, Promise!Spec

-----------------------------------------------------------------------------
(* The pipe, actor by actor *)

\* A packet is not the absence of one.
LEMMA PacketsAreSomething ==
  /\ Nothing \notin Status /\ Nothing \notin Command
  /\ \A s \in Status, v \in Request :
       /\ Reply(s, v) \in Command /\ Reply(s, v) # Nothing
       /\ Answers(Reply(s, v), s)
BY NothingAssumption DEF Reply, Answers, Status, Command

\* Neither a callback nor a frame touches the pipe.
LEMMA GamePipe ==
  ASSUME PipeInv, GameCallback \/ Input \/ UNCHANGED vars
  PROVE  PipeInv'
<1>1. UNCHANGED <<worker, status, pipe, client, toBridge, toPlugin, bridge>>
  BY DEF GameCallback, Input, Frame, FrameContended, vars, workerVars, pipeVars,
         bridgeVars
<1> QED BY <1>1 DEF PipeInv, PipeEnds, StatusOutstanding, OnePacket, StatusSent,
                    AnswersOutstanding

LEMMA WorkerPipe ==
  ASSUME IInv, PipeInv, Worker
  PROVE  PipeInv'
<1> USE DEF PipeInv, PipeEnds, StatusOutstanding, OnePacket, StatusSent,
            AnswersOutstanding
<1>1. CASE WorkerOpens
  BY <1>1 DEF WorkerOpens, bridgeVars
<1>2. CASE \/ WorkerFindsNoPipe \/ WorkerConnects \/ RefreshLoadsGeneration
           \/ RefreshLoadsActive \/ RefreshLoadsRunning
           \/ \E lapsed \in BOOLEAN : WorkerAccepts(lapsed)
  <2>1. /\ UNCHANGED <<status, pipe, client, toBridge, toPlugin, bridge>>
        /\ \/ worker' = worker
           \/ worker \in {"connect", "accept"} /\ worker' = "status"
    BY <1>2 DEF WorkerFindsNoPipe, WorkerConnects, RefreshLoadsGeneration,
                RefreshLoadsActive, RefreshLoadsRunning, WorkerAccepts,
                workerVars, pipeVars, bridgeVars
  <2> QED BY <2>1
<1>3. CASE \E lapsed \in BOOLEAN : WorkerReadsStatus(lapsed)
  <2>1. PICK lapsed \in BOOLEAN : WorkerReadsStatus(lapsed)
    BY <1>3
  <2>2. status' \in Status
    <3>1. gate' \in GateState /\ sequence \in Nat
      BY <2>1, RefreshAdvances DEF WorkerReadsStatus, Advances, IInv, TypeOK
    <3> QED BY <2>1, <3>1 DEF WorkerReadsStatus, Status, GateState
  <2>3. /\ worker = "status" /\ worker' = "send"
        /\ UNCHANGED <<pipe, client, toBridge, toPlugin, bridge>>
    BY <2>1 DEF WorkerReadsStatus, pipeVars, bridgeVars
  <2> QED BY <2>2, <2>3, PacketsAreSomething
<1>4. CASE WorkerSends
  BY <1>4 DEF WorkerSends, bridgeVars
<1>5. CASE WorkerReceives
  BY <1>5 DEF WorkerReceives, bridgeVars
<1>6. CASE WorkerBreaks
  BY <1>6 DEF WorkerBreaks, bridgeVars
<1>7. CASE WorkerDisconnects
  BY <1>7 DEF WorkerDisconnects, pipeVars, bridgeVars
<1> QED BY <1>1, <1>2, <1>3, <1>4, <1>5, <1>6, <1>7 DEF Worker

\* The bridge puts an answer into the pipe where it took a status out of it.
LEMMA BridgePipe ==
  ASSUME IInv, TypeOK', PipeInv, Bridge
  PROVE  PipeInv'
<1> USE DEF PipeInv, PipeEnds, StatusOutstanding, OnePacket, StatusSent,
            AnswersOutstanding
<1>1. CASE BridgeStarts \/ BridgeRecreates
  BY <1>1 DEF BridgeStarts, BridgeRecreates, workerVars
<1>2. CASE \/ BridgeAccepts \/ StalkReleases
           \/ \E control \in Controls : StalkMoves(control)
  BY <1>2 DEF BridgeAccepts, StalkMoves, StalkReleases, workerVars, pipeVars
<1>3. CASE \E lapsed \in BOOLEAN : BridgeServes(lapsed)
  <2>1. PICK lapsed \in BOOLEAN : BridgeServes(lapsed)
    BY <1>3
  <2>2. /\ toBridge # Nothing /\ toBridge' = Nothing
        /\ UNCHANGED <<worker, status, pipe, client, bridge>>
        /\ ~client => toPlugin' = Nothing
        /\ client => \/ toPlugin' = Reply(toBridge, position')
                     \/ toPlugin' = Reply(toBridge, None)
    BY <2>1 DEF BridgeServes, workerVars
  <2>3. /\ toBridge \in Status /\ position' \in Request /\ None \in Request
    BY <2>2 DEF IInv, TypeOK, Request
  <2>4. client => toPlugin' # Nothing /\ Answers(toPlugin', toBridge)
    BY <2>2, <2>3, PacketsAreSomething
  <2> QED BY <2>2, <2>4
<1>4. CASE BridgeBreaks \/ BridgeEnds
  <2>1. /\ pipe' = "absent" /\ toBridge' = Nothing
        /\ toPlugin' \in {toPlugin, Nothing}
        /\ UNCHANGED <<worker, status, client>>
    BY <1>4 DEF BridgeBreaks, BridgeEnds, workerVars
  <2> QED BY <2>1
<1> QED BY <1>1, <1>2, <1>3, <1>4 DEF Bridge

LEMMA PipeInductive == Spec => []PipeInv
<1>1. Init => PipeInv
  BY DEF Init, PluginLoaded, PipeInv, PipeEnds, StatusOutstanding, OnePacket,
         StatusSent, AnswersOutstanding
<1>2. IInv /\ TypeOK' /\ PipeInv /\ [Next]_vars => PipeInv'
  <2> SUFFICES ASSUME IInv, TypeOK', PipeInv, [Next]_vars PROVE PipeInv'
    OBVIOUS
  <2>1. CASE GameRestarts
    BY <2>1 DEF GameRestarts, bridgeVars, PipeInv, PipeEnds, StatusOutstanding, OnePacket,
                StatusSent, AnswersOutstanding
  <2> QED BY <2>1, GamePipe, WorkerPipe, BridgePipe DEF Next
<1> QED BY <1>1, <1>2, Inductive, TypeCorrect, PTL DEF Spec

\* No answer of an earlier exchange or connection is ever left for a later one
\* (the worker drops its handle, reset_server the instance).
THEOREM NoLeftoverAnswer == Spec => []AnswersOutstanding
<1>1. PipeInv => AnswersOutstanding
  BY DEF PipeInv
<1> QED BY <1>1, PipeInductive, PTL

\* The two ends never wait for each other with nothing in the pipe.
THEOREM NeverMutualWait == Spec => []NoMutualWait
<1>1. PipeInv => NoMutualWait
  BY DEF PipeInv, OnePacket, NoMutualWait
<1> QED BY <1>1, PipeInductive, PTL
=============================================================================
