-------------------------- MODULE Lifecycle_proof --------------------------
(***************************************************************************)
(* Proofs about starting and stopping the plugin, for any channels, any    *)
(* number of starts and any registration that fails.                       *)
(***************************************************************************)
EXTENDS Lifecycle, TLAPS

States == {"none", "looking", "opening", "serving", "waiting", "closing",
           "ending", "gone"}

Stores == {"installed", "running", "observed", "moved"}

\* Calls in which the input API is as the flag says, and those in which a worker
\* is there and the device is not.
Settled  == {"none", "registrations"} \cup Stores
Changing == {"device", "disconnect", "stop", "join"}

\* A thread that is alive is the one in WORKER, and where a call has got to says
\* whether there is one.
Placed ==
  /\ threads \in [Threads -> States] /\ slot \in Threads \cup {Nobody}
  /\ call \in Settled \cup Changing \cup {"start"}
  /\ \A t \in Threads : Alive(t) => t = slot
  /\ call \in Settled => (input <=> slot # Nobody)
  /\ call \in {"start", "device"} => input
  /\ call = "start" => slot = Nobody
  /\ call \in Changing => slot # Nobody

LEMMA NobodyIsNoThread == Nobody \notin Threads
BY DEF Nobody, Threads

LEMMA StoreNames == DOMAIN AfterStore = Stores
BY DEF AfterStore, Stores

LEMMA PlacedInit == Init => Placed
BY NobodyIsNoThread DEF Init, Placed, States, Alive, Settled, Changing, Stores

\* A step of a thread leaves it alive or ends it, and changes no other.
LEMMA WorkerMoves ==
  ASSUME NEW t \in Threads, threads \in [Threads -> States], Worker(t)
  PROVE  /\ Alive(t)
         /\ threads' \in [Threads -> States]
         /\ \A u \in Threads : u # t => threads'[u] = threads[u]
BY DEF Worker, WorkerLooks, WorkerOpens, WorkerAsks, WorkerAccepts,
       WorkerCloses, WorkerEnds, Goes, Alive, States

LEMMA PlacedStep == Placed /\ [Next]_vars => Placed'
<1> SUFFICES ASSUME Placed, [Next]_vars PROVE Placed'
  OBVIOUS
<1> USE NobodyIsNoThread
<1>1. ASSUME NEW t \in Threads, Worker(t) PROVE Placed'
  <2>1. UNCHANGED <<gameVars, slot>>
    BY <1>1 DEF Worker
  <2>2. QED
    BY <1>1, <2>1, WorkerMoves DEF Placed, Alive, gameVars
<1>2. CASE InputInit
  BY <1>2 DEF InputInit, workerVars, Placed, Alive, Settled, Changing, Stores
<1>3. CASE InputShutdown
  BY <1>3 DEF InputShutdown, workerVars, Placed, Alive, Settled, Changing,
     Stores
<1>4. CASE TelemetryInit \/ TelemetryShutdown
  BY <1>4 DEF TelemetryInit, TelemetryShutdown, workerVars, Placed, Alive,
     Settled, Changing, Stores
<1>5. CASE WorkerStartFails
  BY <1>5 DEF WorkerStartFails, workerVars, Placed, Alive, Settled, Changing,
     Stores
<1>6. CASE WorkerStarts
  <2>1. PICK t \in Threads :
          /\ threads[t] = "none" /\ slot' = t
          /\ threads' = [threads EXCEPT ![t] = "looking"]
    BY <1>6 DEF WorkerStarts, Goes
  <2>2. /\ slot = Nobody /\ call = "start" /\ call' = "device"
        /\ input /\ input'
    BY <1>6 DEF WorkerStarts, Placed
  <2>3. threads' \in [Threads -> States]
    BY <2>1 DEF Placed, States
  <2>4. \A u \in Threads : ~Alive(u)
    BY <2>2 DEF Placed
  <2>5. \A u \in Threads : Alive(u)' => u = t
    BY <2>1, <2>4 DEF Placed, Alive
  <2>6. QED
    BY <2>1, <2>2, <2>3, <2>5 DEF Placed, Settled, Changing, Stores
<1>7. CASE RegisterDevice
  BY <1>7 DEF RegisterDevice, workerVars, Placed, Alive, Settled, Changing,
     Stores
<1>8. CASE ShutdownDisconnects \/ StopWorker
  BY <1>8 DEF ShutdownDisconnects, StopWorker, workerVars, Placed, Alive,
     Settled, Changing, Stores
<1>9. CASE JoinWorker
  <2>1. /\ call = "join" /\ call' = "none" /\ input' = FALSE
        /\ slot' = Nobody /\ threads' = threads
        /\ slot # Nobody => threads[slot] = "gone"
    BY <1>9 DEF JoinWorker
  <2>2. \A t \in Threads : ~Alive(t)
    BY <2>1 DEF Placed, Alive
  <2>3. \A t \in Threads : ~Alive(t)'
    BY <2>1, <2>2 DEF Alive
  <2>4. QED
    BY <2>1, <2>3 DEF Placed, Settled, Changing, Stores
<1>10. CASE (\E r \in Everything : Registers(r)) \/ RegistrationFails
  BY <1>10 DEF Registers, RegistrationFails, workerVars, Placed, Alive,
     Settled, Changing, Stores
<1>11. CASE TelemetryStores
  <2>1. call \in Stores /\ call' \in Settled
    BY <1>11, StoreNames DEF TelemetryStores, AfterStore, Stores, Settled
  <2>2. QED
    BY <1>11, <2>1 DEF TelemetryStores, workerVars, Placed, Alive, Settled,
       Changing, Stores
<1>12. CASE UNCHANGED <<gameVars, workerVars>>
  BY <1>12 DEF gameVars, workerVars, Placed, Alive
<1>13. QED
  BY <1>1, <1>2, <1>3, <1>4, <1>5, <1>6, <1>7, <1>8, <1>9, <1>10, <1>11, <1>12
     DEF Next, CallGoesOn, vars, ActiveCallback, TelemetryEvent,
         TelemetryChannel, Frame, Panics

\* Between two calls of the game no thread of the plugin runs but the one that
\* the next shutdown joins (worker.rs:94-104, lib.rs:105-115).
THEOREM NoDetached == Spec => []NoDetachedWorker
<1>1. Placed => NoDetachedWorker
  BY NobodyIsNoThread DEF Placed, NoDetachedWorker, Settled
<1>2. QED
  BY <1>1, PlacedInit, PlacedStep, PTL DEF Spec

-----------------------------------------------------------------------------

\* What the game has registered, by where a call has got to.
Accounted ==
  /\ call \in Settled => (device <=> input)
  /\ call \in Changing \cup {"start"} => ~device
  /\ call = "registrations" => telemetry
  /\ call # "registrations"
       => registered = (IF telemetry THEN Everything ELSE {})

LEMMA AccountedInit == Init => Accounted
BY DEF Init, Accounted, Settled, Changing, Stores

LEMMA AccountedStep == Accounted /\ Placed /\ [Next]_vars => Accounted'
<1> SUFFICES ASSUME Accounted, Placed, [Next]_vars PROVE Accounted'
  OBVIOUS
<1>1. ASSUME NEW t \in Threads, Worker(t) PROVE Accounted'
  BY <1>1 DEF Worker, gameVars, Accounted
<1>2. CASE InputInit \/ InputShutdown
  BY <1>2 DEF InputInit, InputShutdown, Accounted, Settled, Changing, Stores
<1>3. CASE TelemetryInit \/ TelemetryShutdown
  BY <1>3 DEF TelemetryInit, TelemetryShutdown, Accounted, Settled, Changing,
     Stores
<1>4. CASE WorkerStartFails \/ WorkerStarts
  BY <1>4 DEF WorkerStartFails, WorkerStarts, Accounted, Settled, Changing,
     Stores
<1>5. CASE RegisterDevice
  <2>1. input
    BY <1>5 DEF RegisterDevice, Placed
  <2>2. QED
    BY <1>5, <2>1 DEF RegisterDevice, Accounted, Settled, Changing, Stores
<1>6. CASE ShutdownDisconnects \/ StopWorker \/ JoinWorker
  <2>1. CASE ShutdownDisconnects
    BY <2>1 DEF ShutdownDisconnects, Accounted, Settled, Changing, Stores
  <2>2. CASE StopWorker
    BY <2>2 DEF StopWorker, Accounted, Settled, Changing, Stores
  <2>3. CASE JoinWorker
    BY <2>3 DEF JoinWorker, Accounted, Settled, Changing, Stores
  <2>4. QED
    BY <1>6, <2>1, <2>2, <2>3
<1>7. ASSUME NEW r \in Everything, Registers(r) PROVE Accounted'
  BY <1>7 DEF Registers, Accounted, Settled, Changing, Stores
<1>8. CASE RegistrationFails
  BY <1>8 DEF RegistrationFails, Accounted, Settled, Changing, Stores
<1>9. CASE TelemetryStores
  <2>1. call \in Stores /\ call' \in Stores \cup {"none"}
    BY <1>9, StoreNames DEF TelemetryStores, AfterStore, Stores
  <2>2. QED
    BY <1>9, <2>1 DEF TelemetryStores, Accounted, Settled, Changing, Stores
<1>10. CASE UNCHANGED gameVars
  BY <1>10 DEF gameVars, Accounted
<1>11. QED
  BY <1>1, <1>2, <1>3, <1>4, <1>5, <1>6, <1>7, <1>8, <1>9, <1>10
     DEF Next, CallGoesOn, vars, ActiveCallback, TelemetryEvent,
         TelemetryChannel, Frame, Panics

\* Whatever registration fails and whenever, the game is left with all of an
\* API's registrations or none of them (lib.rs:106-115, 303-318).
THEOREM RolledBack == Spec => []AllOrNothing
<1>1. Accounted => AllOrNothing
  BY DEF Accounted, AllOrNothing, Settled
<1>2. QED
  BY <1>1, PlacedInit, PlacedStep, AccountedInit, AccountedStep, PTL DEF Spec

-----------------------------------------------------------------------------

Serving == {"serving", "waiting", "closing"}

IsGate(g) == /\ DOMAIN g = {"session", "ready", "desired", "sweep"}
             /\ g.session \in Threads \cup {Nobody}

\* SessionIsConnected with what it needs to be inductive.
Connection ==
  /\ IsGate(gate)
  /\ gate.session # Nobody /\ ~poisoned => threads[gate.session] \in Serving

\* Of what is done to a gate, only the two ends of a connection change whose
\* it is.
LEMMA GateSessions ==
  ASSUME NEW g, IsGate(g)
  PROVE  /\ IsGate(Invalidated(g)) /\ Invalidated(g).session = g.session
         /\ \A s \in Threads \cup {Nobody} :
              IsGate(Connected(g, s)) /\ Connected(g, s).session = s
         /\ \A ready : /\ IsGate(SetReady(g, ready))
                       /\ SetReady(g, ready).session = g.session
         /\ \A held : LET h == [g EXCEPT !.desired = held] IN
                        IsGate(h) /\ h.session = g.session
         /\ \A h \in Swept(g) : IsGate(h) /\ h.session = g.session
<1> DEFINE h == Invalidated(g)
<1>1. IsGate(h) /\ h.session = g.session
  BY DEF IsGate, Invalidated
<1>2. ASSUME NEW s \in Threads \cup {Nobody}
      PROVE  IsGate(Connected(g, s)) /\ Connected(g, s).session = s
  <2> HIDE DEF h
  <2>1. Connected(g, s) = [h EXCEPT !.session = s]
    BY DEF Connected, h
  <2>2. QED
    BY <1>1, <2>1 DEF IsGate
<1>3. ASSUME NEW ready
      PROVE  /\ IsGate(SetReady(g, ready))
             /\ SetReady(g, ready).session = g.session
  <2> HIDE DEF h
  <2>1. SetReady(g, ready) \in {g, [h EXCEPT !.ready = ready]}
    BY DEF SetReady, h
  <2>2. QED
    BY <1>1, <2>1 DEF IsGate
<1>4. ASSUME NEW held
      PROVE  LET k == [g EXCEPT !.desired = held] IN
               IsGate(k) /\ k.session = g.session
  BY DEF IsGate
<1>5. ASSUME NEW k \in Swept(g) PROVE IsGate(k) /\ k.session = g.session
  <2>1. PICK s : k = [g EXCEPT !.sweep = s]
    BY <1>5 DEF Swept
  <2>2. QED
    BY <2>1 DEF IsGate
<1>6. QED
  BY <1>1, <1>2, <1>3, <1>4, <1>5

LEMMA RefreshedSession ==
  ASSUME NEW g, NEW f, IsGate(g)
  PROVE  IsGate(Refreshed(g, f)) /\ Refreshed(g, f).session = g.session
<1> DEFINE h == IF f.moved THEN Invalidated(g) ELSE g
           ready == /\ f.active /\ f.running /\ f.installed
                    /\ Required \subseteq f.observed
<1>1. IsGate(h) /\ h.session = g.session
  BY GateSessions
<1>2. Refreshed(g, f) = SetReady(h, ready)
  BY DEF Refreshed
<1> HIDE DEF h, ready
<1>3. QED
  BY <1>1, <1>2, GateSessions

LEMMA ConnectionInit == Init => Connection
BY DEF Init, Connection, IsGate

\* A gate whose session stays, while the threads do.
LEMMA SessionStays ==
  ASSUME Connection, IsGate(gate'), UNCHANGED threads, poisoned => poisoned',
         gate'.session \in {gate.session, Nobody}
  PROVE  Connection'
BY DEF Connection

LEMMA ConnectionStep == Connection /\ Placed /\ [Next]_vars => Connection'
<1> SUFFICES ASSUME Connection, Placed, [Next]_vars PROVE Connection'
  OBVIOUS
<1>0. IsGate(gate)
  BY DEF Connection
<1>1. ASSUME NEW t \in Threads, Worker(t) PROVE Connection'
  <2>1. UNCHANGED poisoned
    BY <1>1 DEF Worker
  <2>2. CASE WorkerLooks(t)
    <3>1. gate.session = t => poisoned
      BY <2>2, NobodyIsNoThread DEF WorkerLooks, Connection, Serving
    <3>2. QED
      BY <2>1, <2>2, <3>1 DEF WorkerLooks, Goes, Connection, Placed, IsGate
  <2>3. CASE WorkerOpens(t)
    <3>1. gate.session = t => poisoned
      BY <2>3, NobodyIsNoThread DEF WorkerOpens, Connection, Serving
    <3>2. CASE Goes(t, "closing") /\ UNCHANGED gate
      BY <2>1, <3>1, <3>2 DEF Goes, Connection, Placed, IsGate
    <3>3. CASE /\ Goes(t, IF poisoned THEN "ending" ELSE "serving")
               /\ UnderLock(Connected(gate, t))
      <4>1. /\ IsGate(Connected(gate, t))
            /\ Connected(gate, t).session = t
        BY <1>0, GateSessions
      <4>2. CASE poisoned
        BY <1>0, <2>1, <3>3, <4>2 DEF UnderLock, Connection, IsGate
      <4>3. CASE ~poisoned
        <5>1. gate' = Connected(gate, t) /\ threads'[t] = "serving"
          BY <3>3, <4>3 DEF UnderLock, Goes, Placed
        <5>2. QED
          BY <4>1, <5>1 DEF Connection, Serving
      <4>4. QED
        BY <4>2, <4>3
    <3>4. QED
      BY <2>3, <3>2, <3>3 DEF WorkerOpens
  <2>4. CASE WorkerAsks(t)
    <3>1. IsGate(gate') /\ gate'.session = gate.session
      <4>1. /\ IsGate(Refreshed(gate, flags))
            /\ Refreshed(gate, flags).session = gate.session
        BY <1>0, RefreshedSession
      <4>2. /\ IsGate(Invalidated(Refreshed(gate, flags)))
            /\ Invalidated(Refreshed(gate, flags)).session = gate.session
        BY <4>1, GateSessions
      <4>3. gate' = gate \/ gate' \in LeasedOrNot(Refreshed(gate, flags))
        BY <2>4 DEF WorkerAsks
      <4>4. QED
        BY <1>0, <4>1, <4>2, <4>3 DEF LeasedOrNot
    <3>2. threads'[t] \in Serving \/ poisoned
      BY <2>4 DEF WorkerAsks, Goes, Placed, Serving
    <3>3. \A u \in Threads : u # t => threads'[u] = threads[u]
      BY <1>1, WorkerMoves DEF Placed
    <3>4. QED
      BY <2>1, <3>1, <3>2, <3>3 DEF Connection, IsGate
  <2>5. CASE WorkerAccepts(t)
    <3>1. IsGate(gate') /\ gate'.session = gate.session
      <4> DEFINE g == Refreshed(gate, flags)
      <4>1. IsGate(g) /\ g.session = gate.session
        BY <1>0, RefreshedSession
      <4>2. UNCHANGED gate \/ \E held : gate' = [g EXCEPT !.desired = held]
        BY <2>5 DEF WorkerAccepts
      <4> HIDE DEF g
      <4>3. \A held : LET k == [g EXCEPT !.desired = held] IN
                      IsGate(k) /\ k.session = gate.session
        BY <4>1, GateSessions
      <4>4. QED
        BY <1>0, <4>2, <4>3
    <3>2. threads'[t] \in Serving \/ poisoned
      BY <2>5 DEF WorkerAccepts, Goes, Placed, Serving
    <3>3. \A u \in Threads : u # t => threads'[u] = threads[u]
      BY <1>1, WorkerMoves DEF Placed
    <3>4. QED
      BY <2>1, <3>1, <3>2, <3>3 DEF Connection, IsGate
  <2>6. CASE WorkerCloses(t) \/ WorkerEnds(t)
    <3>1. /\ IsGate(Disconnected(gate))
          /\ Disconnected(gate).session = Nobody
      BY <1>0, GateSessions DEF Disconnected
    <3>2. gate' = IF poisoned THEN gate ELSE Disconnected(gate)
      BY <2>6 DEF WorkerCloses, WorkerEnds, UnderLock
    <3>3. QED
      BY <1>0, <2>1, <3>1, <3>2 DEF Connection, IsGate
  <2>7. QED
    BY <1>1, <2>2, <2>3, <2>4, <2>5, <2>6 DEF Worker
<1>2. CASE InputInit \/ TelemetryInit
  <2>1. UNCHANGED <<threads, poisoned>> /\ gate' \in {gate, Invalidated(gate)}
    BY <1>2 DEF InputInit, TelemetryInit, UnderLock, workerVars
  <2>2. QED
    BY <1>0, <2>1, GateSessions, SessionStays
<1>3. CASE WorkerStarts
  <2>1. UNCHANGED <<gate, poisoned>>
    BY <1>3 DEF WorkerStarts
  <2>2. PICK t \in Threads :
          threads[t] = "none" /\ threads' = [threads EXCEPT ![t] = "looking"]
    BY <1>3 DEF WorkerStarts, Goes
  <2>3. gate.session = t => poisoned
    BY <2>2, NobodyIsNoThread DEF Connection, Serving
  <2>4. QED
    BY <2>1, <2>2, <2>3 DEF Connection, Placed, IsGate
<1>4. CASE ShutdownDisconnects
  <2>1. /\ IsGate(Disconnected(gate))
        /\ Disconnected(gate).session = Nobody
    BY <1>0, GateSessions DEF Disconnected
  <2>2. /\ IsGate(SetReady(Disconnected(gate), FALSE))
        /\ SetReady(Disconnected(gate), FALSE).session = Nobody
    BY <2>1, GateSessions
  <2>3. /\ UNCHANGED <<threads, poisoned>>
        /\ gate' \in {gate, SetReady(Disconnected(gate), FALSE)}
    BY <1>4 DEF ShutdownDisconnects, UnderLock, workerVars
  <2>4. QED
    BY <1>0, <2>2, <2>3, SessionStays
<1>5. CASE Frame
  <2>1. /\ UNCHANGED <<threads, poisoned>>
        /\ \/ gate' = gate
           \/ \E f : gate' = Refreshed(gate, f)
           \/ \E f : \E g \in LeasedOrNot(Refreshed(gate, f)) : gate' \in Swept(g)
    BY <1>5 DEF Frame, workerVars
  <2>2. \A f : \A g \in LeasedOrNot(Refreshed(gate, f)) :
                IsGate(g) /\ g.session = gate.session
    BY <1>0, RefreshedSession, GateSessions DEF LeasedOrNot
  <2>3. \A f : Refreshed(gate, f) \in LeasedOrNot(Refreshed(gate, f))
    BY DEF LeasedOrNot
  <2>4. IsGate(gate') /\ gate'.session = gate.session
    BY <1>0, <2>1, <2>2, <2>3, GateSessions
  <2>5. QED
    BY <2>1, <2>4, SessionStays
<1>6. CASE UNCHANGED <<gate, threads, poisoned>>
  BY <1>0, <1>6, SessionStays
<1>7. CASE Panics
  <2>1. UNCHANGED <<gate, threads>> /\ poisoned' \in {TRUE, poisoned}
    BY <1>7 DEF Panics, workerVars
  <2>2. poisoned => poisoned'
    BY <2>1
  <2>3. QED
    BY <1>0, <2>1, <2>2, SessionStays
<1>8. ASSUME \/ UNCHANGED vars \/ InputShutdown \/ TelemetryShutdown
             \/ WorkerStartFails \/ RegisterDevice \/ StopWorker \/ JoinWorker
             \/ \E r \in Everything : Registers(r)
             \/ RegistrationFails \/ TelemetryStores
             \/ \E active \in BOOLEAN : ActiveCallback(active)
             \/ \E event \in Events : TelemetryEvent(event)
             \/ \E channel \in Channels : TelemetryChannel(channel)
      PROVE  UNCHANGED <<gate, threads, poisoned>>
  BY <1>8
     DEF vars, workerVars, InputShutdown, TelemetryShutdown,
         WorkerStartFails, RegisterDevice, StopWorker, JoinWorker, Registers,
         RegistrationFails, TelemetryStores, ActiveCallback, TelemetryEvent,
         TelemetryChannel
<1>9. QED
  BY <1>1, <1>2, <1>3, <1>4, <1>5, <1>6, <1>7, <1>8 DEF Next, CallGoesOn

\* The gate never serves a connection that no worker has, in particular not that
\* of a worker of before a shutdown (worker.rs:80-88, lib.rs:134-140).
THEOREM NoSessionLeft == Spec => []SessionIsConnected
<1>1. Connection => SessionIsConnected
  BY DEF Connection, SessionIsConnected, Serving
<1>2. QED
  BY <1>1, PlacedInit, PlacedStep, ConnectionInit, ConnectionStep, PTL DEF Spec

-----------------------------------------------------------------------------
(* Types *)

FlagSet ==
  [active : BOOLEAN, running : BOOLEAN, installed : BOOLEAN,
   observed : SUBSET Channels, moved : BOOLEAN]

GateSet ==
  [session : Threads \cup {Nobody}, ready : BOOLEAN, desired : BOOLEAN,
   sweep : BOOLEAN]

OutputSet == {"nothing", "off", "inputs"}

\* The types of the data: Placed and Accounted have those of the control.
DataTyped ==
  /\ flags \in FlagSet /\ gate \in GateSet
  /\ telemetry \in BOOLEAN /\ input \in BOOLEAN /\ device \in BOOLEAN
  /\ fault \in BOOLEAN /\ poisoned \in BOOLEAN
  /\ registered \subseteq Everything
  /\ stop \subseteq Threads /\ output \in OutputSet
  /\ since \subseteq Everything

LEMMA GateTyped ==
  ASSUME NEW g \in GateSet
  PROVE  /\ Invalidated(g) \in GateSet
         /\ \A s \in Threads \cup {Nobody} : Connected(g, s) \in GateSet
         /\ \A ready \in BOOLEAN :
              /\ SetReady(g, ready) \in GateSet
              /\ SetReady(g, ready).ready = ready
         /\ \A held \in BOOLEAN : [g EXCEPT !.desired = held] \in GateSet
         /\ Swept(g) \subseteq GateSet /\ Asserted(g) \in OutputSet
<1> DEFINE h == Invalidated(g)
<1>1. h \in GateSet
  BY DEF GateSet, Invalidated
<1> HIDE DEF h
<1>2. ASSUME NEW s \in Threads \cup {Nobody} PROVE Connected(g, s) \in GateSet
  <2>1. Connected(g, s) = [h EXCEPT !.session = s]
    BY DEF Connected, h
  <2> QED BY <1>1, <2>1 DEF GateSet
<1>3. ASSUME NEW ready \in BOOLEAN
      PROVE  SetReady(g, ready) \in GateSet /\ SetReady(g, ready).ready = ready
  <2>1. SetReady(g, ready) =
          IF g.ready = ready THEN g ELSE [h EXCEPT !.ready = ready]
    BY DEF SetReady, h
  <2>2. [h EXCEPT !.ready = ready] \in GateSet
        /\ [h EXCEPT !.ready = ready].ready = ready
    BY <1>1 DEF GateSet
  <2> QED BY <2>1, <2>2
<1>4. ASSUME NEW held \in BOOLEAN
      PROVE  [g EXCEPT !.desired = held] \in GateSet
  BY DEF GateSet
<1>5. Swept(g) \subseteq GateSet
  <2>1. \A s \in BOOLEAN : [g EXCEPT !.sweep = s] \in GateSet
    BY DEF GateSet
  <2>2. g.sweep \in BOOLEAN
    BY DEF GateSet
  <2> QED BY <2>1, <2>2 DEF Swept
<1>6. Asserted(g) \in OutputSet
  BY DEF Asserted, OutputSet
<1> QED BY <1>1, <1>2, <1>3, <1>4, <1>5, <1>6 DEF h

\* What keeps a gate's sweep and whether it has inputs that may be shown.
LEMMA SweepKept ==
  ASSUME NEW g \in GateSet
  PROVE  /\ Invalidated(g).sweep = g.sweep /\ ~Shown(Invalidated(g))
         /\ \A s : Connected(g, s).sweep = g.sweep
         /\ \A ready \in BOOLEAN : SetReady(g, ready).sweep = g.sweep
         /\ \A held \in BOOLEAN : [g EXCEPT !.desired = held].sweep = g.sweep
<1> DEFINE h == Invalidated(g)
<1>1. h \in GateSet /\ h.sweep = g.sweep /\ ~h.desired
  BY DEF GateSet, Invalidated
<1> HIDE DEF h
<1>2. ASSUME NEW s PROVE Connected(g, s).sweep = g.sweep
  <2>1. Connected(g, s) = [h EXCEPT !.session = s]
    BY DEF Connected, h
  <2> QED BY <1>1, <2>1 DEF GateSet
<1>3. ASSUME NEW ready \in BOOLEAN PROVE SetReady(g, ready).sweep = g.sweep
  <2>1. SetReady(g, ready) =
          IF g.ready = ready THEN g ELSE [h EXCEPT !.ready = ready]
    BY DEF SetReady, h
  <2>2. [h EXCEPT !.ready = ready].sweep = h.sweep
    BY <1>1 DEF GateSet
  <2> QED BY <1>1, <2>1, <2>2
<1>4. ASSUME NEW held \in BOOLEAN
      PROVE  [g EXCEPT !.desired = held].sweep = g.sweep
  BY DEF GateSet
<1>5. ~Shown(h)
  BY <1>1 DEF Shown
<1>6. Invalidated(g).sweep = g.sweep /\ ~Shown(Invalidated(g))
  BY <1>1, <1>5 DEF h
<1> HIDE DEF h
<1> QED BY <1>2, <1>3, <1>4, <1>6

LEMMA RefreshedTyped ==
  ASSUME NEW g \in GateSet, NEW f \in FlagSet
  PROVE  /\ Refreshed(g, f) \in GateSet
         /\ Refreshed(g, f).ready =>
              f.running /\ f.installed /\ Required \subseteq f.observed
         /\ LeasedOrNot(Refreshed(g, f)) \subseteq GateSet
         /\ Refreshed(g, f).sweep = g.sweep
<1> DEFINE h == IF f.moved THEN Invalidated(g) ELSE g
           ready == /\ f.active /\ f.running /\ f.installed
                    /\ Required \subseteq f.observed
<1>1. h \in GateSet /\ h.sweep = g.sweep
  BY GateTyped, SweepKept
<1>2. ready \in BOOLEAN /\ (ready => /\ f.running /\ f.installed
                                     /\ Required \subseteq f.observed)
  BY DEF FlagSet
<1>3. Refreshed(g, f) = SetReady(h, ready)
  BY DEF Refreshed
<1> HIDE DEF h, ready
<1>4. /\ Refreshed(g, f) \in GateSet /\ Refreshed(g, f).ready = ready
      /\ Refreshed(g, f).sweep = g.sweep
  <2>1. SetReady(h, ready) \in GateSet /\ SetReady(h, ready).ready = ready
    BY <1>1, <1>2, GateTyped
  <2>2. SetReady(h, ready).sweep = h.sweep
    BY <1>1, <1>2, SweepKept
  <2> QED BY <1>1, <1>3, <2>1, <2>2
<1> QED BY <1>2, <1>4, GateTyped DEF LeasedOrNot

LEMMA DataInit == Init => DataTyped
<1> SUFFICES ASSUME Init PROVE DataTyped
  OBVIOUS
<1>1. flags \in FlagSet
  BY DEF Init, FlagSet
<1>2. gate \in GateSet
  BY DEF Init, GateSet
<1> QED BY <1>1, <1>2 DEF Init, DataTyped, OutputSet

\* A thread changes the gate and takes note that the generation has moved.
LEMMA WorkerData ==
  ASSUME DataTyped, NEW t \in Threads, Worker(t)
  PROVE  /\ gate' \in GateSet /\ gate'.sweep = gate.sweep /\ flags' \in FlagSet
         /\ flags'.running = flags.running
         /\ flags'.installed = flags.installed
         /\ flags'.observed = flags.observed
<1>1. gate \in GateSet /\ flags \in FlagSet
  BY DEF DataTyped
<1>2. /\ [flags EXCEPT !.moved = FALSE] \in FlagSet
      /\ [flags EXCEPT !.moved = FALSE].running = flags.running
      /\ [flags EXCEPT !.moved = FALSE].installed = flags.installed
      /\ [flags EXCEPT !.moved = FALSE].observed = flags.observed
  BY <1>1 DEF FlagSet
<1>3. flags' \in {flags, [flags EXCEPT !.moved = FALSE]}
  BY DEF Worker, WorkerLooks, WorkerOpens, WorkerAsks, WorkerAccepts,
         WorkerCloses, WorkerEnds
<1>4. gate' \in GateSet /\ gate'.sweep = gate.sweep
  <2>1. CASE WorkerLooks(t)
    BY <1>1, <2>1 DEF WorkerLooks
  <2>2. CASE WorkerOpens(t)
    BY <1>1, <2>2, GateTyped, SweepKept DEF WorkerOpens, UnderLock
  <2>3. CASE WorkerAsks(t)
    <3>1. UNCHANGED gate \/ gate' \in LeasedOrNot(Refreshed(gate, flags))
      BY <2>3 DEF WorkerAsks
    <3> QED BY <1>1, <3>1, RefreshedTyped, SweepKept DEF LeasedOrNot
  <2>4. CASE WorkerAccepts(t)
    <3> DEFINE g == Refreshed(gate, flags)
    <3>1. g \in GateSet /\ g.desired \in BOOLEAN /\ g.sweep = gate.sweep
      BY <1>1, RefreshedTyped DEF GateSet
    <3>2. \/ UNCHANGED gate
          \/ \E held \in {g.desired} \cup BOOLEAN :
               gate' = [g EXCEPT !.desired = held]
      BY <2>4 DEF WorkerAccepts
    <3> HIDE DEF g
    <3>3. UNCHANGED gate \/ \E held \in BOOLEAN : gate' = [g EXCEPT !.desired = held]
      BY <3>1, <3>2
    <3>4. \A held \in BOOLEAN : /\ [g EXCEPT !.desired = held] \in GateSet
                                /\ [g EXCEPT !.desired = held].sweep = g.sweep
      BY <3>1, GateTyped, SweepKept
    <3> QED BY <1>1, <3>1, <3>3, <3>4
  <2>5. CASE WorkerCloses(t) \/ WorkerEnds(t)
    BY <1>1, <2>5, GateTyped, SweepKept
       DEF WorkerCloses, WorkerEnds, UnderLock, Disconnected
  <2> QED BY <2>1, <2>2, <2>3, <2>4, <2>5 DEF Worker
<1> QED BY <1>2, <1>3, <1>4, <1>1

\* A frame tells the game that the device is active; it asserts inputs and begins
\* a sweep only if the refreshed gate is ready, and OFF only of a sweep.
LEMMA FrameData ==
  ASSUME DataTyped, Frame
  PROVE  /\ gate' \in GateSet /\ flags' \in FlagSet /\ output' \in OutputSet
         /\ flags'.running = flags.running
         /\ flags'.installed = flags.installed
         /\ flags'.observed = flags.observed
         /\ \/ flags.running /\ flags.installed /\ Required \subseteq flags.observed
            \/ /\ output' = "nothing" \/ (output' = "off" /\ gate.sweep)
               /\ gate'.sweep => gate.sweep
<1> DEFINE f == [flags EXCEPT !.active = TRUE, !.moved = @ \/ ~flags.active]
           g == Refreshed(gate, f)
<1>1. gate \in GateSet /\ flags \in FlagSet
  BY DEF DataTyped
<1>2. /\ f \in FlagSet /\ f.running = flags.running
      /\ f.installed = flags.installed /\ f.observed = flags.observed
  BY <1>1 DEF FlagSet
<1> HIDE DEF f
<1>3. /\ [f EXCEPT !.moved = FALSE] \in FlagSet
      /\ [f EXCEPT !.moved = FALSE].running = f.running
      /\ [f EXCEPT !.moved = FALSE].installed = f.installed
      /\ [f EXCEPT !.moved = FALSE].observed = f.observed
  BY <1>2 DEF FlagSet
<1>4. /\ g \in GateSet /\ LeasedOrNot(g) \subseteq GateSet /\ g.sweep = gate.sweep
      /\ g.ready => /\ f.running /\ f.installed /\ Required \subseteq f.observed
  BY <1>1, <1>2, RefreshedTyped
<1>5. \/ output' = "nothing" /\ flags' = f /\ UNCHANGED gate
      \/ /\ flags' = [f EXCEPT !.moved = FALSE]
         /\ \/ gate' = g /\ output' = "nothing"
            \/ \E h \in LeasedOrNot(g) :
                 gate' \in Swept(h) /\ output' = Asserted(h)
  BY DEF Frame, f
<1> HIDE DEF g
<1>6. flags' \in {f, [f EXCEPT !.moved = FALSE]}
  BY <1>5
<1>7. CASE gate' \in {gate, g} /\ output' = "nothing"
  BY <1>1, <1>2, <1>3, <1>4, <1>6, <1>7 DEF OutputSet
<1>8. ASSUME NEW h \in LeasedOrNot(g), gate' \in Swept(h), output' = Asserted(h)
      PROVE  /\ gate' \in GateSet /\ output' \in OutputSet
             /\ \/ g.ready
                \/ /\ output' = "nothing" \/ (output' = "off" /\ gate.sweep)
                   /\ gate'.sweep => gate.sweep
  <2>1. h \in GateSet /\ h.sweep = gate.sweep /\ (Shown(h) => g.ready)
    BY <1>4, SweepKept DEF LeasedOrNot, Shown
  <2>2. gate' \in GateSet /\ output' \in OutputSet
    BY <1>8, <2>1, GateTyped
  <2>3. CASE ~Shown(h)
    <3>1. PICK s \in {h.sweep, FALSE} : gate' = [h EXCEPT !.sweep = s]
      BY <1>8, <2>3 DEF Swept
    <3>2. gate'.sweep = s
      BY <2>1, <3>1 DEF GateSet
    <3> QED BY <1>8, <2>1, <2>2, <2>3, <3>2 DEF Asserted
  <2> QED BY <2>1, <2>2, <2>3
<1> QED BY <1>2, <1>3, <1>4, <1>5, <1>6, <1>7, <1>8

\* The flags' types, and of the flags and the history the telemetry stores.
LEMMA StoresData ==
  ASSUME DataTyped, Placed, TelemetryStores
  PROVE  /\ flags' \in FlagSet /\ since' = {}
         /\ \/ /\ call = "installed" /\ call' = "running"
               /\ flags'.installed = telemetry
            \/ /\ call = "running" /\ call' = "observed"
               /\ ~flags'.running /\ flags'.installed = flags.installed
            \/ /\ call = "observed" /\ call' = "moved"
               /\ flags'.running = flags.running
               /\ flags'.installed = flags.installed /\ flags'.observed = {}
            \/ /\ call = "moved" /\ call' = "none"
               /\ flags'.running = flags.running
               /\ flags'.installed = flags.installed
               /\ flags'.observed = flags.observed
<1>1. /\ call \in Stores /\ flags' = Stored(call) /\ since' = {}
      /\ call' = AfterStore[call]
  BY StoreNames DEF TelemetryStores
<1>2. flags \in FlagSet /\ telemetry \in BOOLEAN
  BY DEF DataTyped
<1>3. CASE call = "installed"
  BY <1>1, <1>2, <1>3 DEF Stored, AfterStore, FlagSet
<1>4. CASE call = "running"
  BY <1>1, <1>2, <1>4 DEF Stored, AfterStore, FlagSet
<1>5. CASE call = "observed"
  BY <1>1, <1>2, <1>5 DEF Stored, AfterStore, FlagSet
<1>6. CASE call = "moved"
  BY <1>1, <1>2, <1>6 DEF Stored, AfterStore, FlagSet
<1> QED BY <1>1, <1>3, <1>4, <1>5, <1>6 DEF Stores

LEMMA DataStep == DataTyped /\ Placed /\ [Next]_vars => DataTyped'
<1> SUFFICES ASSUME DataTyped, Placed, [Next]_vars PROVE DataTyped'
  OBVIOUS
<1>1. ASSUME NEW t \in Threads, Worker(t) PROVE DataTyped'
  <2>1. UNCHANGED <<gameVars, fault, poisoned, slot, stop, output, since>>
    BY <1>1 DEF Worker
  <2> QED BY <1>1, <2>1, WorkerData DEF DataTyped, gameVars
<1>2. CASE InputInit \/ TelemetryInit
  <2>1. gate' \in GateSet
    BY <1>2, GateTyped DEF InputInit, TelemetryInit, UnderLock, DataTyped
  <2> QED BY <1>2, <2>1 DEF InputInit, TelemetryInit, DataTyped, workerVars
<1>3. CASE InputShutdown
  <2>1. [flags EXCEPT !.active = FALSE, !.moved = TRUE] \in FlagSet
    BY DEF DataTyped, FlagSet
  <2> QED BY <1>3, <2>1 DEF InputShutdown, DataTyped, workerVars, OutputSet
<1>4. CASE TelemetryShutdown \/ WorkerStartFails \/ RegisterDevice \/ JoinWorker
             \/ RegistrationFails
  <2>1. device' \in BOOLEAN /\ input' \in BOOLEAN /\ telemetry' \in BOOLEAN
    BY <1>4 DEF TelemetryShutdown, WorkerStartFails, RegisterDevice,
                JoinWorker, RegistrationFails, DataTyped
  <2>2. registered' \in {registered, {}} /\ stop' = stop
        /\ UNCHANGED <<flags, gate, fault, poisoned, output, since>>
    BY <1>4 DEF TelemetryShutdown, WorkerStartFails, RegisterDevice,
                JoinWorker, RegistrationFails, workerVars
  <2> QED BY <2>1, <2>2 DEF DataTyped
<1>5. CASE WorkerStarts
  BY <1>5 DEF WorkerStarts, DataTyped
<1>6. CASE ShutdownDisconnects
  <2>1. Disconnected(gate) \in GateSet
    BY GateTyped DEF Disconnected, DataTyped
  <2>2. gate' \in GateSet
    BY <1>6, <2>1, GateTyped DEF ShutdownDisconnects, UnderLock, DataTyped
  <2> QED BY <1>6, <2>2 DEF ShutdownDisconnects, DataTyped, workerVars
<1>7. CASE StopWorker
  <2>1. stop' \subseteq Threads
    BY <1>7 DEF StopWorker, Placed, DataTyped
  <2> QED BY <1>7, <2>1 DEF StopWorker, DataTyped
<1>8. ASSUME NEW r \in Everything, Registers(r) PROVE DataTyped'
  BY <1>8 DEF Registers, DataTyped, workerVars
<1>9. CASE TelemetryStores
  BY <1>9, StoresData DEF TelemetryStores, DataTyped, workerVars
<1>10. ASSUME NEW active \in BOOLEAN, ActiveCallback(active) PROVE DataTyped'
  <2>1. flags' \in FlagSet
    BY <1>10 DEF ActiveCallback, DataTyped, FlagSet
  <2> QED BY <1>10, <2>1 DEF ActiveCallback, DataTyped, gameVars, workerVars
<1>11. ASSUME NEW event \in Events, TelemetryEvent(event) PROVE DataTyped'
  <2>1. flags' \in FlagSet
    BY <1>11 DEF TelemetryEvent, DataTyped, FlagSet
  <2> QED BY <1>11, <2>1
          DEF TelemetryEvent, DataTyped, gameVars, workerVars, Everything
<1>12. ASSUME NEW c \in Channels, TelemetryChannel(c) PROVE DataTyped'
  <2>1. flags' \in FlagSet
    BY <1>12 DEF TelemetryChannel, DataTyped, FlagSet
  <2> QED BY <1>12, <2>1
          DEF TelemetryChannel, DataTyped, gameVars, workerVars, Everything
<1>13. CASE Frame
  <2>1. UNCHANGED <<gameVars, fault, poisoned, workerVars, since>>
    BY <1>13 DEF Frame
  <2> QED BY <1>13, <2>1, FrameData DEF DataTyped, gameVars, workerVars
<1>14. CASE Panics
  BY <1>14 DEF Panics, DataTyped, gameVars, workerVars
<1>15. CASE UNCHANGED vars
  BY <1>15 DEF vars, DataTyped, gameVars, workerVars
<1> QED BY <1>1, <1>2, <1>3, <1>4, <1>5, <1>6, <1>7, <1>8, <1>9, <1>10, <1>11,
           <1>12, <1>13, <1>14, <1>15 DEF Next, CallGoesOn

\* Every variable keeps its type, through every call that fails and every
\* thread that is started.
THEOREM TypeCorrect == Spec => []TypeOK
<1>1. Placed /\ DataTyped => TypeOK
  BY StoreNames
     DEF Placed, DataTyped, TypeOK, FlagSet, GateSet, OutputSet, States, Settled,
         Changing, Stores
<1> QED BY <1>1, PlacedInit, PlacedStep, DataInit, DataStep, PTL DEF Spec

-----------------------------------------------------------------------------
(* What the flags know *)

\* What the flags say has been told since telemetry was last installed, but for
\* those of the four stores that an initialization or a shutdown has still to
\* make.
Told ==
  /\ call # "installed" =>
       (flags.installed => telemetry /\ call # "registrations")
  /\ call \notin {"installed", "running"} =>
       (flags.running => "started" \in since)
  /\ call \notin {"installed", "running", "observed"} =>
       flags.observed \subseteq since
  /\ call \in {"observed", "moved"} => ~flags.running
  /\ call = "moved" => flags.observed = {}

LEMMA ToldInit == Init => Told
BY DEF Init, Told

\* Steps of a call that has nothing to do with telemetry.
LEMMA ToldElsewhere ==
  ASSUME Told, UNCHANGED <<telemetry, since>>,
         flags'.running = flags.running, flags'.installed = flags.installed,
         flags'.observed = flags.observed,
         \/ call' = call
         \/ /\ call \notin Stores \cup {"registrations"}
            /\ call' \notin Stores \cup {"registrations"}
  PROVE  Told'
BY DEF Told, Stores

LEMMA ToldStep == Told /\ DataTyped /\ Placed /\ [Next]_vars => Told'
<1> SUFFICES ASSUME Told, DataTyped, Placed, [Next]_vars PROVE Told'
  OBVIOUS
<1>1. ASSUME NEW t \in Threads, Worker(t) PROVE Told'
  <2>1. UNCHANGED <<telemetry, call, since>>
    BY <1>1 DEF Worker, gameVars
  <2> QED BY <1>1, <2>1, WorkerData, ToldElsewhere
<1>2. CASE Frame
  <2>1. UNCHANGED <<telemetry, call, since>>
    BY <1>2 DEF Frame, gameVars
  <2> QED BY <1>2, <2>1, FrameData, ToldElsewhere
<1>3. CASE InputShutdown
  <2>1. /\ flags'.running = flags.running
        /\ flags'.installed = flags.installed
        /\ flags'.observed = flags.observed
    BY <1>3 DEF InputShutdown, DataTyped, FlagSet
  <2>2. /\ UNCHANGED <<telemetry, since>>
        /\ call \notin Stores \cup {"registrations"}
        /\ call' \notin Stores \cup {"registrations"}
    BY <1>3 DEF InputShutdown, Stores
  <2> QED BY <2>1, <2>2, ToldElsewhere
<1>4. CASE InputInit \/ WorkerStartFails \/ WorkerStarts \/ RegisterDevice
             \/ ShutdownDisconnects \/ StopWorker \/ JoinWorker
  <2>1. /\ UNCHANGED <<telemetry, since, flags>>
        /\ call \notin Stores \cup {"registrations"}
        /\ call' \notin Stores \cup {"registrations"}
    BY <1>4 DEF InputInit, WorkerStartFails, WorkerStarts, RegisterDevice,
                ShutdownDisconnects, StopWorker, JoinWorker, Stores
  <2> QED BY <2>1, ToldElsewhere
<1>5. CASE TelemetryInit
  <2>1. /\ call = "none" /\ ~telemetry /\ call' = "registrations"
        /\ UNCHANGED <<flags, since>>
    BY <1>5 DEF TelemetryInit
  <2> QED BY <2>1 DEF Told
<1>6. ASSUME NEW r \in Everything, Registers(r) PROVE Told'
  <2>1. /\ call = "registrations" /\ call' \in {"registrations", "installed"}
        /\ UNCHANGED <<flags, since, telemetry>>
    BY <1>6 DEF Registers
  <2> QED BY <2>1 DEF Told
<1>7. CASE RegistrationFails
  <2>1. /\ call = "registrations" /\ call' = "none"
        /\ UNCHANGED <<flags, since>>
    BY <1>7 DEF RegistrationFails
  <2> QED BY <2>1 DEF Told
<1>8. CASE TelemetryShutdown
  <2>1. call' = "installed"
    BY <1>8 DEF TelemetryShutdown
  <2> QED BY <2>1 DEF Told
<1>9. CASE TelemetryStores
  <2>1. UNCHANGED telemetry
    BY <1>9 DEF TelemetryStores
  <2> QED BY <1>9, <2>1, StoresData DEF Told
<1>10. ASSUME NEW active \in BOOLEAN, ActiveCallback(active) PROVE Told'
  <2>1. /\ flags'.running = flags.running
        /\ flags'.installed = flags.installed
        /\ flags'.observed = flags.observed
        /\ UNCHANGED <<telemetry, call, since>>
    BY <1>10 DEF ActiveCallback, DataTyped, FlagSet, gameVars
  <2> QED BY <2>1, ToldElsewhere
<1>11. ASSUME NEW event \in Events, TelemetryEvent(event) PROVE Told'
  <2>1. /\ flags'.running = (event = "started")
        /\ flags'.installed = flags.installed
        /\ flags'.observed = {} /\ since' = {event} /\ call = "none"
        /\ UNCHANGED <<telemetry, call>>
    BY <1>11 DEF TelemetryEvent, DataTyped, FlagSet, gameVars
  <2> QED BY <2>1 DEF Told
<1>12. ASSUME NEW c \in Channels, TelemetryChannel(c) PROVE Told'
  <2>1. /\ flags'.running = flags.running
        /\ flags'.installed = flags.installed
        /\ flags'.observed = flags.observed \cup {c}
        /\ since' = since \cup {c} /\ call = "none"
        /\ UNCHANGED <<telemetry, call>>
    BY <1>12 DEF TelemetryChannel, DataTyped, FlagSet, gameVars
  <2> QED BY <2>1 DEF Told
<1>13. CASE Panics
  <2>1. UNCHANGED <<flags, telemetry, call, since>>
    BY <1>13 DEF Panics, gameVars
  <2> QED BY <2>1 DEF Told
<1>14. CASE UNCHANGED vars
  <2>1. UNCHANGED <<flags, telemetry, call, since>>
    BY <1>14 DEF vars, gameVars
  <2> QED BY <2>1 DEF Told
<1> QED BY <1>1, <1>2, <1>3, <1>4, <1>5, <1>6, <1>7, <1>8, <1>9, <1>10, <1>11,
           <1>12, <1>13, <1>14 DEF Next, CallGoesOn

\* A frame is the only step that begins a sweep.
LEMMA OnlyFramesSweep ==
  ASSUME DataTyped, [Next]_vars, gate'.sweep, ~gate.sweep
  PROVE  Frame
<1>0. gate \in GateSet
  BY DEF DataTyped
<1>1. ASSUME NEW t \in Threads, Worker(t) PROVE FALSE
  BY <1>1, WorkerData
<1>2. CASE InputInit \/ TelemetryInit
  BY <1>0, <1>2, SweepKept DEF InputInit, TelemetryInit, UnderLock
<1>3. CASE ShutdownDisconnects
  <2> DEFINE h == Disconnected(gate)
  <2>1. h \in GateSet /\ h.sweep = gate.sweep
    BY <1>0, GateTyped, SweepKept DEF Disconnected
  <2> HIDE DEF h
  <2>2. gate' \in {gate, SetReady(h, FALSE)}
    BY <1>3 DEF ShutdownDisconnects, UnderLock, h
  <2> QED BY <2>1, <2>2, SweepKept
<1> QED BY <1>1, <1>2, <1>3
        DEF Next, CallGoesOn, vars, workerVars, InputShutdown,
            TelemetryShutdown, WorkerStartFails, WorkerStarts, RegisterDevice,
            StopWorker, JoinWorker, Registers, RegistrationFails,
            TelemetryStores, ActiveCallback, TelemetryEvent, TelemetryChannel,
            Panics

\* Inputs are asserted, and sweeps begun, on what telemetry told since it was last
\* initialized and since the game runs, in whatever order the two APIs come and
\* go; what else a frame asserts is the OFF of a sweep (lib.rs:154-182;
\* protocol/lib.rs:217-225, mist.rs:28-36).
THEOREM FreshTelemetry == Spec => AssertsOnFreshTelemetry
<1> DEFINE Asserts == Frame /\ output' # "nothing"
                        => Fresh \/ (output' = "off" /\ gate.sweep)
           Begins  == gate'.sweep /\ ~gate.sweep => Fresh
<1>1. ASSUME Told, DataTyped, Frame
      PROVE  Asserts /\ Begins
  <2>1. call = "none"
    BY <1>1 DEF Frame
  <2>2. flags.running /\ flags.installed /\ Required \subseteq flags.observed
          => Fresh
    BY <1>1, <2>1 DEF Told, Fresh
  <2> QED BY <1>1, <2>2, FrameData
<1>2. Told /\ DataTyped /\ [Next]_vars => [Asserts /\ Begins]_vars
  BY <1>1, OnlyFramesSweep
<1> QED BY <1>2, PlacedInit, PlacedStep, DataInit, DataStep, ToldInit, ToldStep,
           PTL DEF Spec, AssertsOnFreshTelemetry
=============================================================================
