-------------------------------- MODULE Link --------------------------------
(***************************************************************************)
(* The path of one held control from the stalk to the game:                *)
(*                                                                         *)
(*   HID reader --(mutex)--> bridge server --pipe--> plugin worker         *)
(*        --(mutex)--> input gate <--(try_lock, atomics)-- game thread     *)
(*                                                                         *)
(* Four threads of two processes, the atomics the game's callbacks write,  *)
(* the two mutexes, the pipe, and the failures the code handles: either    *)
(* process dying, any pipe operation missing its deadline, leases lapsing  *)
(* and HID errors.  There is no clock: every deadline and lease may pass   *)
(* whenever it is running, which includes every timing of the real one.    *)
(*                                                                         *)
(* A movement of the stalk carries, as an auxiliary component `made', the  *)
(* session, the epoch and the GENERATION the plugin was in when the bridge *)
(* read it.  No step's effect on the program's own state depends on it.    *)
(***************************************************************************)
EXTENDS Gate, FiniteSets

CONSTANTS
  Controls,          \* positions of the control that hold an input asserted
  Channels,          \* the boolean channels that readiness waits for
  Nothing,           \* no packet, no binding
  MaxGeneration,     \* bound: game-state changes of one game run
  MaxSession,        \* bound: pipe connections
  MaxSequence,       \* bound: exchanges of one connection after the first
  MaxIdleEpoch,      \* bound: disconnects repeated while no bridge listens
  MaxFaults          \* bound: failures of one behaviour

ASSUME LinkAssumption ==
  /\ MaxGeneration \in Nat
  /\ MaxSession \in Nat
  /\ MaxSequence \in Nat
  /\ MaxIdleEpoch \in Nat
  /\ MaxFaults \in Nat

VARIABLES
  \* The plugin, written by the game thread without a lock
  INPUT_ACTIVE, RUNNING, OBSERVED, GENERATION,
  game,              \* where the game thread is inside a callback
  frame,             \* what the last input frame gave to the game
  \* The plugin, under its mutex
  gate, generation,
  \* The plugin's worker thread
  worker,            \* where it is in its loop
  load,              \* the atomic `refresh' loads next; "none": unlocked
  loaded,            \* the flags this `refresh' found set so far
  sequence, status, command,
  sessions,          \* connections so far: next_session is never repeated
  \* The pipe: one instance, one client, one packet each way at most
  pipe, client, toBridge, toPlugin,
  \* The bridge
  bridge, binding, position, previous,
  faults             \* failures so far, for the bound only

gameVars   == <<INPUT_ACTIVE, RUNNING, OBSERVED, GENERATION, game>>
stateVars  == <<gate, generation>>
workerVars == <<worker, load, loaded, sequence, status, command, sessions>>
pipeVars   == <<pipe, client, toBridge, toPlugin>>
bridgeVars == <<bridge, binding, position, previous>>
vars == <<gameVars, frame, stateVars, workerVars, pipeVars, bridgeVars, faults>>

-----------------------------------------------------------------------------
(* Packets and movements *)

Moment   == [session : Nat, epoch : Nat, generation : Nat]
Movement == [control : Controls, made : Moment]
Request  == Movement \cup {None}
Status   == [session : Nat, epoch : Nat, sequence : Nat, ready : BOOLEAN]
Command  == [session : Nat, epoch : Nat, sequence : Nat, value : Request]
Binding  == [session : Nat, epoch : Nat]

\* The moment a gate g is in, for the game's present GENERATION.
MomentOf(g) ==
  [session |-> g.session, epoch |-> g.epoch, generation |-> GENERATION]

BindingOf(s) == [session |-> s.session, epoch |-> s.epoch]

Reply(s, request) ==
  [session |-> s.session, epoch |-> s.epoch, sequence |-> s.sequence,
   value |-> request]

\* The worker's check that a command answers the status it sent.
Answers(c, s) ==
  /\ c.session = s.session
  /\ c.sequence = s.sequence
  /\ c.epoch = s.epoch

\* What a frame gives to the game, with the moment it was given in.
NoInput ==
  [value |-> None, at |-> [session |-> NoSession, epoch |-> 1, generation |-> 1]]

ASSUME NothingAssumption == Nothing \notin Binding \cup Status \cup Command

-----------------------------------------------------------------------------
(* Init *)

\* A plugin that the game has just loaded.
PluginLoaded ==
  /\ INPUT_ACTIVE = FALSE /\ RUNNING = FALSE /\ OBSERVED = {}
  /\ GENERATION = 1 /\ game = "idle"
  /\ frame = NoInput
  /\ gate = NewGate /\ generation = 0
  /\ worker = "closed" /\ load = "none" /\ loaded = {} /\ sequence = 0
  /\ status = Nothing /\ command = Nothing

Init ==
  /\ PluginLoaded
  /\ sessions = 0
  /\ pipe = "absent" /\ client = FALSE
  /\ toBridge = Nothing /\ toPlugin = Nothing
  /\ bridge = "down" /\ binding = Nothing /\ position = None
  /\ previous = Nothing
  /\ faults = 0

-----------------------------------------------------------------------------
(* A step that is a failure if `failed', and otherwise costs nothing. *)

Fails(failed) ==
  IF failed THEN faults < MaxFaults /\ faults' = faults + 1
            ELSE UNCHANGED faults

-----------------------------------------------------------------------------
(* The game thread: SCS callbacks that touch only the atomics.  A callback  *)
(* writes its flags first and GENERATION last, one store at a time.         *)

TelemetryEvent(running) ==
  /\ game = "idle" /\ GENERATION < MaxGeneration
  /\ RUNNING' = running
  /\ game' = "clear"
  /\ UNCHANGED <<INPUT_ACTIVE, OBSERVED, GENERATION>>

ClearObserved ==
  /\ game = "clear"
  /\ \E c \in OBSERVED : OBSERVED' = OBSERVED \ {c}
  /\ UNCHANGED <<INPUT_ACTIVE, RUNNING, GENERATION, game>>

\* fetch_add: the last step of telemetry_event, active_callback and of a first
\* input frame, which goes on to the frame itself.
BumpGeneration ==
  /\ \/ game = "clear" /\ OBSERVED = {} /\ game' = "idle"
     \/ game = "bump" /\ game' = "idle"
     \/ game = "activate" /\ game' = "frame"
  /\ GENERATION' = GENERATION + 1
  /\ UNCHANGED <<INPUT_ACTIVE, RUNNING, OBSERVED>>

\* A value arrives, or the channel reports that it has none.
TelemetryChannel(c, known) ==
  /\ game = "idle"
  /\ OBSERVED' = IF known THEN OBSERVED \cup {c} ELSE OBSERVED \ {c}
  /\ UNCHANGED <<INPUT_ACTIVE, RUNNING, GENERATION, game>>

ActiveCallback(active) ==
  /\ game = "idle" /\ GENERATION < MaxGeneration
  /\ active # INPUT_ACTIVE
  /\ INPUT_ACTIVE' = active
  /\ game' = "bump"
  /\ UNCHANGED <<RUNNING, OBSERVED, GENERATION>>

FrameActivates ==
  /\ game = "idle" /\ GENERATION < MaxGeneration
  /\ ~INPUT_ACTIVE
  /\ INPUT_ACTIVE' = TRUE
  /\ game' = "activate"
  /\ UNCHANGED <<RUNNING, OBSERVED, GENERATION>>

GameCallback ==
  /\ \/ /\ \/ \E running \in BOOLEAN : TelemetryEvent(running)
           \/ ClearObserved
           \/ BumpGeneration
           \/ \E c \in Channels : TelemetryChannel(c, TRUE)
           \/ \E active \in BOOLEAN : ActiveCallback(active)
           \/ FrameActivates
        /\ Fails(FALSE)
     \/ (\E c \in OBSERVED : TelemetryChannel(c, FALSE)) /\ Fails(TRUE)
  /\ UNCHANGED <<frame, stateVars, workerVars, pipeVars, bridgeVars>>

-----------------------------------------------------------------------------
(* State::refresh.  GENERATION is loaded first, so that flags written after  *)
(* it was read can only be newer than the generation the gate remembers.     *)

Known == Channels \subseteq OBSERVED

\* Mutant of AfterGeneration: only the flags are compared, so that a pause that
\* began and ended between two refreshes goes unnoticed.
AfterGenerationUnchecked == gate

\* What refresh makes of the gate when it loads GENERATION ...
AfterGeneration ==
  IF GENERATION # generation THEN Invalidate(gate) ELSE gate

\* ... and when it has loaded every flag (update_ready).
AfterFlags(g, active, running) == SetReady(g, active /\ running /\ Known)

-----------------------------------------------------------------------------
(* The input frame, on the game thread *)

Locked == load # "none"

FrameDue == game = "frame" \/ (game = "idle" /\ INPUT_ACTIVE)

\* try_lock succeeds: the whole refresh happens under the mutex, and no other
\* thread writes the atomics meanwhile.
Frame(lapsed) ==
  /\ Fails(lapsed)
  /\ FrameDue /\ ~Locked
  /\ gate' = Expire(AfterFlags(AfterGeneration, INPUT_ACTIVE, RUNNING), lapsed)
  /\ generation' = GENERATION
  /\ frame' = IF Held(gate') = None THEN NoInput
              ELSE [value |-> Held(gate'), at |-> MomentOf(gate')]
  /\ game' = "idle"
  /\ UNCHANGED <<INPUT_ACTIVE, RUNNING, OBSERVED, GENERATION,
                 workerVars, pipeVars, bridgeVars>>

\* try_lock fails: every input is released for this frame.
FrameContended ==
  /\ FrameDue /\ Locked
  /\ frame' = NoInput
  /\ game' = "idle"
  /\ UNCHANGED <<INPUT_ACTIVE, RUNNING, OBSERVED, GENERATION,
                 stateVars, workerVars, pipeVars, bridgeVars, faults>>

-----------------------------------------------------------------------------
(* The worker thread *)

\* ClientOptions::open: the single pipe instance is free.
WorkerOpens ==
  /\ worker = "closed" /\ pipe = "free" /\ sessions < MaxSession
  /\ pipe' = "busy" /\ client' = TRUE
  /\ worker' = "connect"
  /\ UNCHANGED <<gameVars, frame, stateVars, load, loaded, sequence, status,
                 command, sessions, toBridge, toPlugin, bridgeVars, faults>>

\* The loop disconnects the gate again after every failed open.
WorkerFindsNoPipe ==
  /\ worker = "closed" /\ pipe # "free" /\ gate.epoch < MaxIdleEpoch
  /\ gate' = Disconnect(gate)
  /\ UNCHANGED <<gameVars, frame, generation,
                 workerVars, pipeVars, bridgeVars, faults>>

WorkerConnects ==
  /\ worker = "connect"
  /\ sessions' = sessions + 1
  /\ gate' = Connect(gate, sessions')
  /\ worker' = "status"
  /\ UNCHANGED <<gameVars, frame, generation, sequence,
                 load, loaded, status, command, pipeVars, bridgeVars, faults>>

\* The mutex is taken, for a status or to accept a command.
RefreshLoadsGeneration ==
  /\ worker \in {"status", "accept"} /\ load = "none"
  /\ gate' = AfterGeneration
  /\ generation' = GENERATION
  /\ load' = "INPUT_ACTIVE"
  /\ UNCHANGED <<gameVars, frame, worker, loaded, sequence, status, command,
                 sessions, pipeVars, bridgeVars, faults>>

RefreshLoadsActive ==
  /\ load = "INPUT_ACTIVE"
  /\ loaded' = IF INPUT_ACTIVE THEN {"INPUT_ACTIVE"} ELSE {}
  /\ load' = "RUNNING"
  /\ UNCHANGED <<gameVars, frame, stateVars, worker, sequence, status, command,
                 sessions, pipeVars, bridgeVars, faults>>

RefreshLoadsRunning ==
  /\ load = "RUNNING"
  /\ loaded' = IF RUNNING THEN loaded \cup {"RUNNING"} ELSE loaded
  /\ load' = "OBSERVED"
  /\ UNCHANGED <<gameVars, frame, stateVars, worker, sequence, status, command,
                 sessions, pipeVars, bridgeVars, faults>>

Refreshed == AfterFlags(gate, "INPUT_ACTIVE" \in loaded, "RUNNING" \in loaded)

WorkerReadsStatus(lapsed) ==
  /\ Fails(lapsed)
  /\ worker = "status" /\ load = "OBSERVED"
  /\ gate' = Expire(Refreshed, lapsed)
  /\ status' = [session |-> gate'.session, epoch |-> gate'.epoch,
                sequence |-> sequence, ready |-> gate'.ready]
  /\ load' = "none" /\ loaded' = {}
  /\ worker' = "send"
  /\ UNCHANGED <<gameVars, frame, generation,
                 sequence, command, sessions, pipeVars, bridgeVars>>

WorkerSends ==
  /\ worker = "send" /\ pipe = "busy" /\ sequence <= MaxSequence
  /\ toBridge' = status
  /\ worker' = "receive"
  /\ UNCHANGED <<gameVars, frame, stateVars, load, loaded, sequence, status, command,
                 sessions, pipe, client, toPlugin, bridgeVars, faults>>

WorkerReceives ==
  /\ worker = "receive" /\ toPlugin # Nothing /\ Answers(toPlugin, status)
  /\ command' = toPlugin
  /\ status' = Nothing
  /\ toPlugin' = Nothing
  /\ worker' = "accept"
  /\ UNCHANGED <<gameVars, frame, stateVars, load, loaded, sequence, sessions,
                 pipe, client, toBridge, bridgeVars, faults>>

WorkerAccepts(lapsed) ==
  /\ Fails(lapsed)
  /\ worker = "accept" /\ load = "OBSERVED"
  /\ gate' = Accept(Expire(Refreshed, lapsed), command)
  /\ sequence' = sequence + 1
  /\ command' = Nothing
  /\ load' = "none" /\ loaded' = {}
  /\ worker' = "status"
  /\ UNCHANGED <<gameVars, frame, generation,
                 status, sessions, pipeVars, bridgeVars>>

\* A failed or late send, a failed or late receive or an answer to another
\* status ends the connection: the client handle is dropped, then the gate
\* disconnected.
WorkerBreaks ==
  /\ \/ worker = "send"
     \/ worker = "receive" /\ (toPlugin # Nothing => ~Answers(toPlugin, status))
  /\ Fails(pipe = "busy" /\ sequence <= MaxSequence)
  /\ client' = FALSE
  /\ toPlugin' = Nothing
  /\ status' = Nothing /\ sequence' = 0
  /\ worker' = "disconnect"
  /\ UNCHANGED <<gameVars, frame, stateVars, load, loaded, command, sessions,
                 pipe, toBridge, bridgeVars>>

\* Mutant of WorkerDisconnects: the gate keeps its session and its command.
WorkerForgetsToDisconnect ==
  /\ worker = "disconnect"
  /\ worker' = "closed"
  /\ UNCHANGED <<gameVars, frame, stateVars, load, loaded, sequence, status,
                 command, sessions, pipeVars, bridgeVars, faults>>

WorkerDisconnects ==
  /\ worker = "disconnect"
  /\ gate' = Disconnect(gate)
  /\ worker' = "closed"
  /\ UNCHANGED <<gameVars, frame, generation,
                 load, loaded, sequence, status, command, sessions, pipeVars,
                 bridgeVars, faults>>

Worker ==
  \/ WorkerOpens \/ WorkerFindsNoPipe \/ WorkerConnects
  \/ RefreshLoadsGeneration \/ RefreshLoadsActive \/ RefreshLoadsRunning
  \/ \E lapsed \in BOOLEAN : WorkerReadsStatus(lapsed) \/ WorkerAccepts(lapsed)
  \/ WorkerSends \/ WorkerReceives \/ WorkerBreaks \/ WorkerDisconnects

-----------------------------------------------------------------------------
(* The bridge *)

\* A bridge process starts: the only pipe instance must be creatable.
BridgeStarts ==
  /\ bridge = "down" /\ pipe = "absent" /\ ~client
  /\ pipe' = "free"
  /\ bridge' = "accept"
  /\ UNCHANGED <<gameVars, frame, stateVars, workerVars, client, toBridge,
                 toPlugin, binding, position, previous, faults>>

BridgeAccepts ==
  /\ bridge = "accept" /\ pipe = "busy"
  /\ bridge' = "serve"
  /\ UNCHANGED <<gameVars, frame, stateVars, workerVars, pipeVars, binding,
                 position, previous, faults>>

\* The three `ensure's on a status (its kind is given by its direction).
InOrder(s) ==
  previous # Nothing =>
    s.session = previous.session /\ s.sequence > previous.sequence

\* Mutant of BridgeServes: a status that is not ready is not answered.
BridgeServesReady(lapsed) ==
  /\ Fails(lapsed)
  /\ bridge = "serve" /\ toBridge # Nothing /\ InOrder(toBridge)
  /\ previous' = [session |-> toBridge.session, sequence |-> toBridge.sequence]
  /\ binding' = BindingOf(toBridge)
  /\ position' = IF binding # binding' \/ lapsed THEN None ELSE position
  /\ toPlugin' = IF client /\ toBridge.ready THEN Reply(toBridge, position')
                 ELSE Nothing
  /\ toBridge' = Nothing
  /\ UNCHANGED <<gameVars, frame, stateVars, workerVars, pipe, client, bridge>>

\* One exchange: receive, BridgeState::reply under the reader's mutex, send.
\* The HID lease may have lapsed, which resets the decoders.  A reply to a
\* client that is gone is lost with the pipe instance.
BridgeServes(lapsed) ==
  /\ Fails(lapsed)
  /\ bridge = "serve" /\ toBridge # Nothing /\ InOrder(toBridge)
  /\ previous' = [session |-> toBridge.session, sequence |-> toBridge.sequence]
  /\ binding' = BindingOf(toBridge)
  /\ position' = IF binding # binding' \/ lapsed THEN None ELSE position
  /\ toPlugin' = IF client
                 THEN Reply(toBridge, IF toBridge.ready THEN position' ELSE None)
                 ELSE Nothing
  /\ toBridge' = Nothing
  /\ UNCHANGED <<gameVars, frame, stateVars, workerVars, pipe, client, bridge>>

\* Mutant of BridgeBreaks: the instance is reused with the bytes it holds.
BridgeBreaksKeepingBytes ==
  /\ bridge = "serve"
  /\ Fails(client /\ (toBridge # Nothing => InOrder(toBridge)))
  /\ position' = None /\ binding' = Nothing
  /\ pipe' = "absent"
  /\ bridge' = "recreate" /\ previous' = Nothing
  /\ UNCHANGED <<gameVars, frame, stateVars, workerVars, client, toBridge, toPlugin>>

\* A failed or late operation, or an out-of-order status, ends the connection,
\* whether a status has arrived or not; reset_server then discards the instance
\* with every byte in it.
BridgeBreaks ==
  /\ bridge = "serve"
  /\ Fails(client /\ (toBridge # Nothing => InOrder(toBridge)))
  /\ position' = None /\ binding' = Nothing
  /\ pipe' = "absent" /\ toBridge' = Nothing /\ toPlugin' = Nothing
  /\ bridge' = "recreate" /\ previous' = Nothing
  /\ UNCHANGED <<gameVars, frame, stateVars, workerVars, client>>

\* A first instance can be created once the old client closed its handle.
BridgeRecreates ==
  /\ bridge = "recreate" /\ ~client
  /\ pipe' = "free"
  /\ bridge' = "accept"
  /\ UNCHANGED <<gameVars, frame, stateVars, workerVars, client, toBridge,
                 toPlugin, binding, position, previous, faults>>

\* Ctrl+C, the time limit, a pipe that could not be recreated in time, or a
\* crash.  The handles close, but what was already written stays readable.
BridgeEnds ==
  /\ Fails(TRUE)
  /\ bridge # "down"
  /\ bridge' = "down"
  /\ pipe' = "absent" /\ toBridge' = Nothing
  /\ binding' = Nothing /\ position' = None /\ previous' = Nothing
  /\ UNCHANGED <<gameVars, frame, stateVars, workerVars, client, toPlugin>>

-----------------------------------------------------------------------------
(* The HID reader thread of the bridge, one report at a time *)

\* A report the decoders take as a new position of the control.
StalkMoves(control) ==
  /\ bridge # "down"
  /\ position' = [control |-> control, made |-> MomentOf(gate)]
  /\ UNCHANGED <<gameVars, frame, stateVars, workerVars, pipeVars, bridge,
                 binding, previous, faults>>

\* The control returns to its neutral position, the report is invalid, the read
\* failed, or reports stopped for longer than the HID lease.
StalkReleases ==
  /\ position # None
  /\ position' = None
  /\ UNCHANGED <<gameVars, frame, stateVars, workerVars, pipeVars, bridge,
                 binding, previous, faults>>

Bridge ==
  \/ BridgeStarts \/ BridgeAccepts
  \/ \E lapsed \in BOOLEAN : BridgeServes(lapsed)
  \/ BridgeBreaks \/ BridgeRecreates \/ BridgeEnds
  \/ \E control \in Controls : StalkMoves(control)
  \/ StalkReleases

-----------------------------------------------------------------------------
\* The game process ends at any point and is started again.
GameRestarts ==
  /\ Fails(TRUE)
  /\ INPUT_ACTIVE' = FALSE /\ RUNNING' = FALSE /\ OBSERVED' = {}
  /\ GENERATION' = 1 /\ game' = "idle"
  /\ frame' = NoInput
  /\ gate' = NewGate /\ generation' = 0
  /\ worker' = "closed" /\ load' = "none" /\ loaded' = {} /\ sequence' = 0
  /\ status' = Nothing /\ command' = Nothing
  /\ client' = FALSE /\ toPlugin' = Nothing
  /\ UNCHANGED <<sessions, pipe, toBridge, bridgeVars>>

Input == FrameContended \/ \E lapsed \in BOOLEAN : Frame(lapsed)

Next == GameCallback \/ Input \/ Worker \/ Bridge \/ GameRestarts

Spec == Init /\ [][Next]_vars

-----------------------------------------------------------------------------
(* Properties *)

GateState ==
  [session : Nat, epoch : Nat, ready : BOOLEAN,
   sequence : Nat \cup {NoSequence}, received : BOOLEAN, desired : Request]

\* Every variable keeps its type.
TypeOK ==
  /\ INPUT_ACTIVE \in BOOLEAN /\ RUNNING \in BOOLEAN
  /\ OBSERVED \in SUBSET Channels /\ GENERATION \in Nat
  /\ game \in {"idle", "clear", "bump", "activate", "frame"}
  /\ frame \in [value : Request, at : Moment]
  /\ gate \in GateState
  /\ generation \in Nat
  /\ worker \in {"closed", "connect", "status", "send", "receive", "accept",
                 "disconnect"}
  /\ load \in {"none", "INPUT_ACTIVE", "RUNNING", "OBSERVED"}
  /\ loaded \in SUBSET {"INPUT_ACTIVE", "RUNNING"}
  /\ sequence \in Nat /\ sessions \in Nat
  /\ status \in Status \cup {Nothing}
  /\ command \in Command \cup {Nothing}
  /\ worker = "accept" => command \in Command
  /\ pipe \in {"absent", "free", "busy"} /\ client \in BOOLEAN
  /\ toBridge \in Status \cup {Nothing}
  /\ toPlugin \in Command \cup {Nothing}
  /\ bridge \in {"down", "accept", "serve", "recreate"}
  /\ binding \in Binding \cup {Nothing}
  /\ position \in Request
  /\ previous \in [session : Nat, sequence : Nat] \cup {Nothing}

\* An input frame asserts a control only for a movement that the bridge read in
\* the very session, gate epoch and game-state generation the frame is in: no
\* movement made before a pause, a resume, a telemetry or focus loss, a lapsed
\* lease, a reconnect or a restart of either process is ever replayed after it.
NoStaleReplay ==
  frame.value # None => frame.value.made = frame.at

\* The command the gate holds is as fresh as the gate itself, at every point
\* between two frames.
DesiredIsFresh ==
  gate.desired # None =>
    /\ gate.session # NoSession
    /\ gate.desired.made.session = gate.session
    /\ gate.desired.made.epoch = gate.epoch
    /\ gate.desired.made.generation >= generation

\* An answer in the pipe answers the status the worker is waiting on: no frame
\* of an earlier connection or exchange is left for a later one (reset_server).
AnswersOutstanding ==
  toPlugin # Nothing => worker = "receive" /\ Answers(toPlugin, status)

\* While both ends are connected and wait for each other, one of the two
\* directions holds a packet: the exchange never stalls with an empty pipe.
NoMutualWait ==
  worker = "receive" /\ pipe = "busy" /\ bridge = "serve" =>
    toBridge # Nothing \/ toPlugin # Nothing

-----------------------------------------------------------------------------
(* Fairness.  The worker is a thread that the system schedules and whose     *)
(* every operation has a deadline; the game finishes its callbacks and calls *)
(* the input callback every frame while the device is active.                *)

GameThread == Input \/ (game \in {"clear", "bump", "activate"} /\ GameCallback)

FairSpec == Spec /\ WF_vars(Worker) /\ WF_vars(GameThread)

\* Once the bridge is gone, the game is given no input any more, unless the
\* bridge returns first or the game stops asking for input (bridge.rs: "the
\* plugin releases inputs on connection loss").
ReleasedAfterBridgeEnds ==
  bridge = "down" ~> frame.value = None \/ bridge # "down" \/ ~INPUT_ACTIVE

-----------------------------------------------------------------------------
(* The link implements what FreshInput promises.  The plugin holds the        *)
(* gate's command, the game was given the input of its last frame.            *)

Promise ==
  INSTANCE FreshInput
  WITH now <- GENERATION, seen <- generation,
       session <- gate.session, epoch <- gate.epoch, last <- sessions,
       held <- gate.desired, given <- frame.value

\* Every step of the four threads, and every failure, is one of the steps of
\* FreshInput or invisible to it: no interleaving of a refresh, a frame and an
\* exchange carries a movement over into another era, holds a movement again that
\* an era's end dropped, or gives the game one while it is in a state that the
\* plugin has not seen.
ImplementsFreshInput == Promise!Spec

-----------------------------------------------------------------------------
(* The inductive invariant behind NoStaleReplay.  A key is the session and   *)
(* epoch that a packet, the bridge's binding or the gate carries.            *)

\* The gate g was once in the epoch of k, the n-th session being the last.
Reached(k, g, n) ==
  /\ k.session # NoSession /\ k.session <= n
  /\ k.session = g.session => k.epoch <= g.epoch

\* If gate g is still in the epoch of k, request v was made in that epoch, after
\* the plugin saw generation `seen' and no later than generation `now'.
Fresh(k, v, g, seen, now) ==
  v # None /\ k.session = g.session /\ k.epoch = g.epoch =>
    /\ v.made.session = k.session /\ v.made.epoch = k.epoch
    /\ seen <= v.made.generation /\ v.made.generation <= now

WorkerInSession ==
  /\ gate.session <= sessions
  /\ worker \in {"status", "send", "receive", "accept"} =>
       gate.session = sessions /\ sessions # NoSession

PacketsReached ==
  /\ worker \in {"send", "receive"} =>
       status \in Status /\ Reached(status, gate, sessions)
  /\ toBridge # Nothing => Reached(toBridge, gate, sessions)
  /\ toPlugin # Nothing => Reached(toPlugin, gate, sessions)
  /\ worker = "accept" =>
       Reached(command, gate, sessions)
  /\ binding # Nothing => Reached(binding, gate, sessions)

PacketsFresh ==
  /\ binding # Nothing => Fresh(binding, position, gate, generation, GENERATION)
  /\ toPlugin # Nothing =>
       Fresh(toPlugin, toPlugin.value, gate, generation, GENERATION)
  /\ worker = "accept" =>
       Fresh(command, command.value, gate, generation, GENERATION)

DesiredFresh ==
  /\ Fresh(gate, gate.desired, gate, generation, GENERATION)
  /\ gate.desired # None => gate.session # NoSession

IInv ==
  /\ TypeOK
  /\ generation <= GENERATION
  /\ WorkerInSession
  /\ PacketsReached
  /\ PacketsFresh
  /\ DesiredFresh
  /\ NoStaleReplay

-----------------------------------------------------------------------------
(* The inductive invariant behind AnswersOutstanding and NoMutualWait: who    *)
(* may hold which end of the pipe, and which packet is where.                 *)

\* The worker has a handle exactly while it is in a connection, and no packet
\* outlives the pipe instance it was written to.
PipeEnds ==
  /\ client <=> worker \notin {"closed", "disconnect"}
  /\ toPlugin # Nothing => client
  /\ pipe # "busy" => toBridge = Nothing
  /\ pipe = "free" => ~client
  /\ bridge = "recreate" => pipe = "absent"

\* A status in the pipe is the one the worker waits on, unless it is gone.
StatusOutstanding ==
  toBridge # Nothing /\ client =>
    worker = "receive" /\ toBridge = status /\ toPlugin = Nothing

OnePacket ==
  worker = "receive" /\ pipe = "busy" =>
    toBridge # Nothing \/ toPlugin # Nothing

StatusSent == worker \in {"send", "receive"} => status # Nothing

PipeInv ==
  /\ PipeEnds /\ StatusOutstanding /\ OnePacket /\ StatusSent
  /\ AnswersOutstanding
=============================================================================
