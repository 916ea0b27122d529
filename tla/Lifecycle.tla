----------------------------- MODULE Lifecycle -----------------------------
(***************************************************************************)
(* How the plugin starts and stops: the game initializes and shuts down    *)
(* its input and its telemetry API, each on its own and in any order, on   *)
(* one thread; input initialization starts the worker thread, and input    *)
(* shutdown, or a registration that fails, joins it.  Calls that return    *)
(* at once (a wrong version, a second initialization) change nothing.      *)
(*                                                                         *)
(* What crosses the pipe is left to Link: the gate keeps only whose        *)
(* connection it serves, whether it is ready, whether it has inputs to     *)
(* assert (held, or of an action it is about), and whether it has begun a  *)
(* sweep of MIST that it must end with OFF, in any state; the phases of a  *)
(* sweep are in Mist.  A section under the plugin's mutex is one step.  A  *)
(* lease may be over whenever it is looked at.                             *)
(***************************************************************************)
EXTENDS Naturals, FiniteSets

CONSTANTS
  Channels,    \* the telemetry channels
  Required,    \* those without which the gate is not ready
  MaxStarts    \* bound: threads that are started

ASSUME LifecycleAssumption ==
  /\ IsFiniteSet(Channels) /\ Required \subseteq Channels
  /\ MaxStarts \in Nat

Threads == 1..MaxStarts
Events  == {"paused", "started"}
Everything == Events \cup Channels
Nobody  == 0

VARIABLES
  input, telemetry,   \* INPUT_INITIALIZED, TELEMETRY_INITIALIZED
  call,               \* where the game's thread is within an API call
  device, registered, \* what the game will call back
  flags,              \* the atomics that callbacks write and refresh reads
  gate,               \* what matters here of State and its InputGate
  fault, poisoned,    \* FAULT; the plugin's mutex is poisoned
  slot,               \* the thread in WORKER, or Nobody
  stop,               \* the threads whose stop flag is set
  threads,            \* where each thread is
  output,             \* what the last frame asserted
  since               \* history: what telemetry told since it was installed

gameVars   == <<input, telemetry, call, device, registered>>
workerVars == <<slot, stop, threads>>
vars == <<gameVars, flags, gate, fault, poisoned, workerVars, output, since>>

-----------------------------------------------------------------------------
(* The gate and the plugin's state, under the mutex *)

\* Inputs are forgotten; that a sweep must be ended is not.
Invalidated(g) == [g EXCEPT !.desired = FALSE]

\* Mutant of Connected: the gate is given the session after this.
ConnectedToNext(g, session) == [Invalidated(g) EXCEPT !.session = session + 1]

Connected(g, session) == [Invalidated(g) EXCEPT !.session = session]
Disconnected(g) == Connected(g, Nobody)

SetReady(g, ready) ==
  IF g.ready = ready THEN g ELSE [Invalidated(g) EXCEPT !.ready = ready]

\* `refresh' with the atomics f.
Refreshed(g, f) ==
  SetReady(IF f.moved THEN Invalidated(g) ELSE g,
           f.active /\ f.running /\ f.installed /\ Required \subseteq f.observed)

\* `expire' at an unknown time.
LeasedOrNot(g) == {g, Invalidated(g)}

Shown(g) == g.ready /\ g.session # Nobody /\ g.desired

\* Mist::apply: MIST may begin a sweep or end it and another mode ends it; without
\* inputs what is left of a sweep is ended, when OFF is seen or has had its time.
Swept(g) ==
  {[g EXCEPT !.sweep = s] :
     s \in IF Shown(g) THEN BOOLEAN ELSE {g.sweep, FALSE}}

\* `outputs': with no inputs to assert, ready or not, OFF for as long as a sweep
\* must be ended.
Asserted(g) ==
  IF Shown(g) THEN "inputs" ELSE IF g.sweep THEN "off" ELSE "nothing"

\* lock() fails for ever once the mutex is poisoned.
UnderLock(g) == gate' = IF poisoned THEN gate ELSE g

-----------------------------------------------------------------------------
(* The worker thread *)

Goes(t, there) == threads' = [threads EXCEPT ![t] = there]

WorkerLooks(t) ==
  /\ threads[t] = "looking"
  /\ Goes(t, IF t \in stop THEN "ending" ELSE "opening")
  /\ UNCHANGED <<gate, flags>>

WorkerOpens(t) ==
  /\ threads[t] = "opening"
  /\ \/ Goes(t, "closing") /\ UNCHANGED gate
     \/ /\ Goes(t, IF poisoned THEN "ending" ELSE "serving")
        /\ UnderLock(Connected(gate, t))
  /\ UNCHANGED flags

\* The status is made; sending it may fail.
WorkerAsks(t) ==
  /\ threads[t] = "serving"
  /\ IF t \in stop THEN Goes(t, "closing") /\ UNCHANGED <<gate, flags>>
     ELSE IF poisoned THEN Goes(t, "ending") /\ UNCHANGED <<gate, flags>>
     ELSE /\ \E there \in {"waiting", "closing"} : Goes(t, there)
          /\ gate' \in LeasedOrNot(Refreshed(gate, flags))
          /\ flags' = [flags EXCEPT !.moved = FALSE]

\* The command has come, or will not.
WorkerAccepts(t) ==
  /\ threads[t] = "waiting"
  /\ \/ Goes(t, "closing") /\ UNCHANGED <<gate, flags>>
     \/ poisoned /\ Goes(t, "ending") /\ UNCHANGED <<gate, flags>>
     \/ /\ ~poisoned /\ Goes(t, "serving")
        /\ LET g == Refreshed(gate, flags) IN
           \E held \in {g.desired, FALSE} \cup
                       (IF g.session = t /\ g.ready THEN BOOLEAN ELSE {}) :
             gate' = [g EXCEPT !.desired = held]
        /\ flags' = [flags EXCEPT !.moved = FALSE]

\* Mutant of WorkerCloses: the connection is gone and the gate is not told.
WorkerClosesOnly(t) ==
  threads[t] = "closing" /\ Goes(t, "looking") /\ UNCHANGED <<gate, flags>>

WorkerCloses(t) ==
  /\ threads[t] = "closing" /\ Goes(t, "looking")
  /\ UnderLock(Disconnected(gate)) /\ UNCHANGED flags

WorkerEnds(t) ==
  /\ threads[t] = "ending" /\ Goes(t, "gone")
  /\ UnderLock(Disconnected(gate)) /\ UNCHANGED flags

Worker(t) ==
  /\ \/ WorkerLooks(t) \/ WorkerOpens(t) \/ WorkerAsks(t)
     \/ WorkerAccepts(t) \/ WorkerCloses(t) \/ WorkerEnds(t)
  /\ UNCHANGED <<gameVars, fault, poisoned, slot, stop, output, since>>

-----------------------------------------------------------------------------
(* The input API *)

\* Up to the start of the worker.  set_cruise_unit invalidates for a new unit.
InputInit ==
  /\ call = "none" /\ ~input
  /\ input' = TRUE /\ fault' = FALSE /\ call' = "start"
  /\ UnderLock(gate) \/ UnderLock(Invalidated(gate))
  /\ UNCHANGED <<telemetry, device, registered, flags, poisoned>>
  /\ UNCHANGED <<workerVars, output, since>>

\* Runtime or thread cannot be made, or a worker is there.
WorkerStartFails ==
  /\ call = "start" /\ call' = "none" /\ input' = FALSE
  /\ UNCHANGED <<telemetry, device, registered, flags, gate, fault, poisoned>>
  /\ UNCHANGED <<workerVars, output, since>>

WorkerStarts ==
  /\ call = "start" /\ slot = Nobody /\ call' = "device"
  /\ \E t \in Threads :
       /\ threads[t] = "none" /\ \A u \in 1..t - 1 : threads[u] # "none"
       /\ slot' = t /\ Goes(t, "looking")
  /\ UNCHANGED <<input, telemetry, device, registered, flags, gate, fault>>
  /\ UNCHANGED <<poisoned, stop, output, since>>

\* Mutant of RegisterDevice: a refusal leaves the worker running.
RegisterDeviceOrNot ==
  /\ call = "device" /\ call' = "none"
  /\ \E accepted \in BOOLEAN : device' = accepted /\ input' = accepted
  /\ UNCHANGED <<telemetry, registered, flags, gate, fault, poisoned>>
  /\ UNCHANGED <<workerVars, output, since>>

RegisterDevice ==
  /\ call = "device"
  /\ \/ call' = "none" /\ device' = TRUE
     \/ call' = "stop" /\ UNCHANGED device
  /\ UNCHANGED <<input, telemetry, registered, flags, gate, fault, poisoned>>
  /\ UNCHANGED <<workerVars, output, since>>

\* The game calls the device back no more.
InputShutdown ==
  /\ call = "none" /\ input
  /\ input' = FALSE /\ call' = "disconnect"
  /\ device' = FALSE /\ output' = "nothing"
  /\ flags' = [flags EXCEPT !.active = FALSE, !.moved = TRUE]
  /\ UNCHANGED <<telemetry, registered, gate, fault, poisoned>>
  /\ UNCHANGED <<workerVars, since>>

ShutdownDisconnects ==
  /\ call = "disconnect" /\ call' = "stop"
  /\ UnderLock(SetReady(Disconnected(gate), FALSE))
  /\ UNCHANGED <<input, telemetry, device, registered, flags, fault, poisoned>>
  /\ UNCHANGED <<workerVars, output, since>>

\* Mutant of StopWorker: the thread is not told.
StopWorkerUntold ==
  /\ call = "stop" /\ call' = "join" /\ UNCHANGED stop
  /\ UNCHANGED <<input, telemetry, device, registered, flags, gate, fault>>
  /\ UNCHANGED <<poisoned, slot, threads, output, since>>

StopWorker ==
  /\ call = "stop" /\ call' = "join"
  /\ stop' = stop \cup ({slot} \ {Nobody})
  /\ UNCHANGED <<input, telemetry, device, registered, flags, gate, fault>>
  /\ UNCHANGED <<poisoned, slot, threads, output, since>>

\* Mutant of JoinWorker: the thread is detached.
JoinWorkerNever ==
  /\ call = "join" /\ call' = "none"
  /\ slot' = Nobody /\ input' = FALSE
  /\ UNCHANGED <<telemetry, device, registered, flags, gate, fault, poisoned>>
  /\ UNCHANGED <<stop, threads, output, since>>

JoinWorker ==
  /\ call = "join" /\ call' = "none"
  /\ slot # Nobody => threads[slot] = "gone"
  /\ slot' = Nobody /\ input' = FALSE
  /\ UNCHANGED <<telemetry, device, registered, flags, gate, fault, poisoned>>
  /\ UNCHANGED <<stop, threads, output, since>>

-----------------------------------------------------------------------------
(* The telemetry API *)

TelemetryInit ==
  /\ call = "none" /\ ~telemetry
  /\ telemetry' = TRUE /\ call' = "registrations"
  /\ UnderLock(gate) \/ UnderLock(Invalidated(gate))
  /\ UNCHANGED <<input, device, registered, flags, fault, poisoned>>
  /\ UNCHANGED <<workerVars, output, since>>

\* The events first, then the channels.
Registers(r) ==
  /\ call = "registrations" /\ r \notin registered
  /\ r \in Events \/ Events \subseteq registered
  /\ registered' = registered \cup {r}
  /\ call' = IF registered' = Everything THEN "installed" ELSE call
  /\ UNCHANGED <<input, telemetry, device, flags, gate, fault, poisoned>>
  /\ UNCHANGED <<workerVars, output, since>>

\* Mutant of RegistrationFails: the events stay registered.
RegistrationFailsKeepingEvents ==
  /\ call = "registrations" /\ call' = "none"
  /\ registered' = registered \cap Events /\ telemetry' = FALSE
  /\ UNCHANGED <<input, device, flags, gate, fault, poisoned>>
  /\ UNCHANGED <<workerVars, output, since>>

\* One registration fails, and those before are undone.
RegistrationFails ==
  /\ call = "registrations" /\ call' = "none"
  /\ registered' = {} /\ telemetry' = FALSE
  /\ UNCHANGED <<input, device, flags, gate, fault, poisoned>>
  /\ UNCHANGED <<workerVars, output, since>>

\* The game calls telemetry back no more.
TelemetryShutdown ==
  /\ call = "none" /\ telemetry
  /\ telemetry' = FALSE /\ registered' = {} /\ call' = "installed"
  /\ UNCHANGED <<input, device, flags, gate, fault, poisoned>>
  /\ UNCHANGED <<workerVars, output, since>>

\* Mutant of Stored: what telemetry told before is kept.
StoredInstalledOnly(store) ==
  CASE store = "installed" -> [flags EXCEPT !.installed = telemetry]
    [] store = "moved"     -> [flags EXCEPT !.moved = TRUE]
    [] OTHER               -> flags

\* The stores that both end with, one atomic after the other.
Stored(store) ==
  CASE store = "installed" -> [flags EXCEPT !.installed = telemetry]
    [] store = "running"   -> [flags EXCEPT !.running = FALSE]
    [] store = "observed"  -> [flags EXCEPT !.observed = {}]
    [] store = "moved"     -> [flags EXCEPT !.moved = TRUE]

AfterStore == [installed |-> "running", running |-> "observed",
               observed |-> "moved", moved |-> "none"]

TelemetryStores ==
  /\ call \in DOMAIN AfterStore
  /\ flags' = Stored(call) /\ call' = AfterStore[call]
  /\ since' = {}
  /\ UNCHANGED <<input, telemetry, device, registered, gate, fault, poisoned>>
  /\ UNCHANGED <<workerVars, output>>

-----------------------------------------------------------------------------
(* The game's callbacks, each as a whole; Link has their stores *)

ActiveCallback(active) ==
  /\ call = "none" /\ device
  /\ flags' = [flags EXCEPT !.active = active,
                            !.moved = @ \/ active # flags.active]
  /\ UNCHANGED <<gameVars, gate, fault, poisoned, workerVars, output, since>>

TelemetryEvent(event) ==
  /\ call = "none" /\ event \in registered
  /\ flags' = [flags EXCEPT !.running = (event = "started"),
                            !.observed = {}, !.moved = TRUE]
  /\ since' = {event}
  /\ UNCHANGED <<gameVars, gate, fault, poisoned, workerVars, output>>

\* A channel has a value; that it may have none is in Link.
TelemetryChannel(channel) ==
  /\ call = "none" /\ channel \in registered
  /\ flags' = [flags EXCEPT !.observed = @ \cup {channel}]
  /\ since' = since \cup {channel}
  /\ UNCHANGED <<gameVars, gate, fault, poisoned, workerVars, output>>

\* The first call of input_callback in a frame; the lock may be refused.
Frame ==
  /\ call = "none" /\ device
  /\ LET f == [flags EXCEPT !.active = TRUE, !.moved = @ \/ ~flags.active]
         g == Refreshed(gate, f)
     IN  \/ output' = "nothing" /\ flags' = f /\ UNCHANGED gate
         \/ /\ ~poisoned /\ flags' = [f EXCEPT !.moved = FALSE]
            /\ \/ gate' = g /\ output' = "nothing"
               \/ /\ ~fault
                  /\ \E h \in LeasedOrNot(g) :
                       gate' \in Swept(h) /\ output' = Asserted(h)
  /\ UNCHANGED <<gameVars, fault, poisoned, workerVars, since>>

\* A panic in a callback, which `boundary' catches; within the mutex it poisons.
Panics ==
  /\ call = "none" /\ (device \/ registered # {})
  /\ fault' = TRUE /\ poisoned' \in {TRUE, poisoned}
  /\ UNCHANGED <<gameVars, flags, gate, workerVars, output, since>>

-----------------------------------------------------------------------------

Init ==
  /\ input = FALSE /\ telemetry = FALSE /\ call = "none"
  /\ device = FALSE /\ registered = {}
  /\ flags = [active |-> FALSE, running |-> FALSE, installed |-> FALSE,
              observed |-> {}, moved |-> TRUE]
  /\ gate = [session |-> Nobody, ready |-> FALSE, desired |-> FALSE,
             sweep |-> FALSE]
  /\ fault = FALSE /\ poisoned = FALSE
  /\ slot = Nobody /\ stop = {} /\ threads = [t \in Threads |-> "none"]
  /\ output = "nothing" /\ since = {}

\* What a call of the game goes on with.
CallGoesOn ==
  \/ WorkerStartFails \/ WorkerStarts \/ RegisterDevice
  \/ ShutdownDisconnects \/ StopWorker \/ JoinWorker
  \/ \E r \in Everything : Registers(r)
  \/ RegistrationFails \/ TelemetryStores

Next ==
  \/ \E t \in Threads : Worker(t)
  \/ InputInit \/ InputShutdown \/ TelemetryInit \/ TelemetryShutdown
  \/ CallGoesOn
  \/ \E active \in BOOLEAN : ActiveCallback(active)
  \/ \E event \in Events : TelemetryEvent(event)
  \/ \E channel \in Channels : TelemetryChannel(channel)
  \/ Frame \/ Panics

Spec == Init /\ [][Next]_vars

\* Threads run, every operation on the pipe has a deadline, and the game's
\* functions return.
FairSpec ==
  Spec /\ WF_vars(CallGoesOn) /\ \A t \in Threads : WF_vars(Worker(t))

-----------------------------------------------------------------------------
(* Properties *)

Alive(t) == threads[t] \notin {"none", "gone"}

\* Every variable keeps its type.
TypeOK ==
  /\ input \in BOOLEAN /\ telemetry \in BOOLEAN
  /\ call \in {"none", "start", "device", "disconnect", "stop", "join",
               "registrations"} \cup DOMAIN AfterStore
  /\ device \in BOOLEAN /\ registered \subseteq Everything
  /\ flags \in [active : BOOLEAN, running : BOOLEAN, installed : BOOLEAN,
                observed : SUBSET Channels, moved : BOOLEAN]
  /\ gate \in [session : Threads \cup {Nobody},
               ready : BOOLEAN, desired : BOOLEAN, sweep : BOOLEAN]
  /\ fault \in BOOLEAN /\ poisoned \in BOOLEAN
  /\ slot \in Threads \cup {Nobody} /\ stop \subseteq Threads
  /\ threads \in [Threads -> {"none", "looking", "opening", "serving",
                              "waiting", "closing", "ending", "gone"}]
  /\ output \in {"nothing", "off", "inputs"} /\ since \subseteq Everything

\* Between two calls of the game a worker runs only if it is the one in WORKER
\* and the input API is initialized, so that the game may unload the plugin.
\* docs/game-integration.md:67: "DLL shutdown joins its bounded worker before
\* unloading; it never leaves plugin code running in a detached thread."
NoDetachedWorker ==
  call = "none" => \A t \in Threads : Alive(t) => input /\ slot = t

\* The gate serves only a connection that a worker still has: a worker that ends
\* leaves no session behind, nor takes the next worker's away.
SessionIsConnected ==
  gate.session # Nobody /\ ~poisoned
    => threads[gate.session] \in {"serving", "waiting", "closing"}

\* Between two calls the game has all of the plugin's registrations of an API or
\* none, and the plugin knows which, whatever registration failed.
\* scripts/probe_plugin.py:152: "failed init must roll back registrations"
AllOrNothing ==
  call = "none" => /\ registered = (IF telemetry THEN Everything ELSE {})
                   /\ device <=> input

Fresh == telemetry /\ Required \cup {"started"} \subseteq since

\* A frame asserts inputs, and begins a sweep, only on what telemetry told after
\* its last initialization and since the game runs, whatever was known before.
\* Without that it asserts at most the OFF that ends a sweep begun before, across
\* pauses, disconnections and shutdowns.
\* docs/game-integration.md:66: "Inactive/paused game state and unavailable
\* subscribed telemetry disable normal output. Inputs are released at the next
\* available input callback, with bounded OFF cleanup for interrupted MIST."
AssertsOnFreshTelemetry ==
  [][/\ Frame /\ output' # "nothing"
          => Fresh \/ (output' = "off" /\ gate.sweep)
     /\ gate'.sweep /\ ~gate.sweep => Fresh]_vars

\* Every call of the game returns; in particular the join of the worker.
CallsReturn == call # "none" ~> call = "none"
=============================================================================
