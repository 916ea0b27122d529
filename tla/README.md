# StalkShift verification

TLA+ models of StalkShift, the program that lets a MOZA multifunction stalk
drive Euro Truck Simulator 2 and American Truck Simulator.  The models are
translated from the Rust source (`src/crates`), model-checked with TLC on small
instances, and the theorems about them are proved with TLAPS for every value of
their constants.

Paths below are relative to the repository.  The repository is the reference:
where its documents and its code disagree, the modules follow the code and the
disagreement is a run of its own (see *Findings*).

## 1. The system

```
 MOZA stalk            stalkshift.exe bridge                 plugin DLL in the game
 ----------   HID   -------------------------   pipe   ---------------------------------
   reports  ------> reader thread                       worker thread "stalkshift-ipc"
                      | decoders                          | Status -> , <- Command
                      v  (mutex BridgeState)              v  (mutex State)
                    server loop  <---- Status -----    InputGate { Mist, Actions }
                                 ----- Command ---->      ^ try_lock        ^ refresh
                                                        input_callback   atomics written by
                                                        (game thread)    telemetry callbacks
```

The plugin asks and the bridge answers: every 50 ms the worker sends a status
(session, epoch, sequence, ready) and waits for the command that carries the
same three numbers.  All timing is in the code's constants: `INTERVAL` 50 ms,
`IO_TIMEOUT` 300 ms, `LEASE` 600 ms, `PULSE` 150 ms, `REPEAT` 300 ms,
`ACK`/`ACK_TIMEOUT`/`HID_LEASE` 1000 ms, numeric samples 500 ms.

### Components

| Component | State | Operations | What makes it correct |
|---|---|---|---|
| **Command link**: `plugin/worker.rs`, `protocol/pipe.rs`, `bridge.rs` server loop | worker position, session and sequence numbers; the pipe instance and the bytes in it; the bridge's binding and previous status | connect, send, receive, accept, disconnect; accept, reply, reset_server | no stale command reaches the game; an answer answers the outstanding status; nobody waits for somebody who waits; a dead bridge releases the inputs |
| **Input gate admission**: `protocol/lib.rs` `InputGate` | session, epoch, readiness, sequence, lease, desired mask | connect, disconnect, set_ready, accept, invalidate, expire, outputs | a command is used only in the epoch and session it answers |
| **MIST sequence**: `protocol/mist.rs` | phase, its start, `needs_park` | observe/apply, invalidate, enter | a sweep is always parked again, and happens once per selection |
| **Selector and parking brake**: `protocol/actions.rs` | last position and press, pulse deadlines, `parking_quiet_until`, two waits | apply, pulse, brake_settled | one gear at a time; one brake toggle per entry or exit of P; the brake ends as the lever asks |
| **Cruise control actions**: `protocol/actions.rs` | cruise bits, repeat deadline, requested speed, pending step | press, repeat, automatic adjustment | never oscillates, never fights the driver |
| **Input masks and statuses**: `protocol/controls.rs`, `protocol/lib.rs` | none (pure functions) | auxiliary_inputs, valid_inputs, encode/decode | what the bridge sends, the plugin accepts |
| **HID decoders**: `core/*.rs` | last positions, armed flags, pulse bits | decode, reset | no movement is invented by a reset or a reconnect |
| **Bridge state and HID reader**: `bridge.rs` | decoders, time of the last report, binding | update, fault, reply, reset | a silent or failing device releases everything |
| **Plugin lifecycle**: `plugin/lib.rs`, `plugin/worker.rs` | INPUT/TELEMETRY_INITIALIZED, FAULT, the worker's handle and stop flag | init, shutdown and their rollbacks | no callback after shutdown; shutdown ends; a second init works |
| **Event dispatch**: `plugin/state.rs` `Dispatch` | the events of a frame, cursor | begin, pop | an event for every input, releases before presses, in a frame that may be cut off |
| **Numeric telemetry**: `plugin/state.rs`, `plugin/lib.rs` | number and time per channel, as two atomics | sample, read with expiry | an expired or torn sample is not used |
| **Installer**: `release/setup/Setup.ps1` | files, profile edits, backup records | install, uninstall, rollback | a failed install restores everything; uninstall restores the driver's own bindings |
| **Capture format**: `capture/lib.rs` | position in a recording | visit_reports | accepts exactly the well-formed recordings |
| game identity and units, SDK bindings, HID access and recording, command line, scripts | | | not modelled, see section 7 |

### How they interact, and what is hard

- Two processes and four threads.  The game thread must never block: its input
  callback uses `try_lock` and gives a frame without inputs when the worker has
  the mutex; its telemetry callbacks take no lock and write several atomics one
  after the other, `GENERATION` last.  `refresh` loads them one at a time,
  `GENERATION` first.
- Every input that is held in the game is a promise that has to be revoked when
  something breaks: the bridge or the game dies, the pipe misses a deadline, a
  lease lapses, the game pauses, the device stops reporting.
- The game toggles several things on a *press* (a frame with the input after one
  without), so that a release in the wrong frame is an action of its own.
- The selector and MIST act on telemetry that answers their own earlier outputs,
  late, or never.
- Reconnects, restarts and pauses may come between any two of these steps.

`PROJECT.json` lists each hazard at the line where it bites, with the properties
that cover it or the reason why none does.

## 2. The modules

| Module | Models | Extends |
|---|---|---|
| `FreshInput` | abstract: what the link promises, without its threads, packets and failures | |
| `Gate` | the admission rules of `InputGate` as operators on a record | |
| `Link` | worker, bridge server, pipe, game callbacks, input frame, HID reader, failures; implements `FreshInput` | `Gate` |
| `Mist` | `Mist` and every call the gate makes of it, with time | |
| `Dispatch` | `Dispatch`: the events of a frame on their way to the game, composed with `Mist` | `Mist` |
| `Selector` | the lever and brake part of `Actions`, with time and the game's brake | |
| `CruiseUnit` | the arithmetic between road limits, displayed units and set speeds | |
| `Cruise` | the cruise control part of `Actions`, with time, the game's set speed and its driver | `CruiseUnit` |
| `Lifecycle` | the game's initializations and shutdowns, registrations, the worker thread's life, panics | |
| `Stalk` | the HID decoders, `BridgeState`, the reader thread, and the masks of `controls.rs` | |
| `Installer` | `Setup.ps1`: installation, rollback and removal, write by write, and the driver's edits between them | |
| `MCLink`, `MCMist`, `MCDispatch`, `MCSelector`, `MCCruise`, `MCStalk`, `MCLifecycle`, `MCInstaller` | instances for TLC | each its module |
| `Link_proof`, `Mist_proof`, `Dispatch_proof`, `Selector_proof`, `Cruise_proof` (also about `CruiseUnit`), `Stalk_proof`, `Lifecycle_proof`, `Installer_proof` | theorems | each its module |

The modules meet at the gate: `Stalk` ends with the command the bridge sends,
`Link` carries it into the gate as something opaque, and `Mist`, `Selector` and
`Cruise` are what a frame makes of its parts.  `Mist`, `Selector` and `Cruise` share
no state except through `desired` and the invalidation, and no input of the game;
each therefore has `Accept`, `Invalidate` and `Frame` of its own, over its part of
`InputGate`.

### Gate and Link

`Gate` writes each method of `InputGate` as an operator from gates to gates:
`Connect`, `Disconnect`, `SetReady`, `Expire`, `Invalidate`, `Admits`/`Accept`
and `Held`.  What a command asks for is opaque there: admission never looks into
it.

`Link` is the path of one held control.  Its state is the program's:

- the plugin's atomics `INPUT_ACTIVE`, `RUNNING`, `OBSERVED`, `GENERATION`, and
  `game`, the point a callback has reached between two stores;
- under the plugin's mutex, `gate` and `generation`;
- the worker's program counter `worker`, and inside the mutex `load`, the atomic
  that `refresh` reads next, with the flags `loaded` so far.  `load # "none"` is
  "the mutex is taken": a frame then fails its `try_lock` (`FrameContended`);
- the single pipe instance: whether it exists, is free or busy, whether the
  client's handle is open, and at most one packet each way;
- the bridge's `binding`, `previous` and the stalk `position` that its reader
  thread keeps.

Game callbacks are interleaved store by store and `refresh` on the worker load by
load.  A frame's `refresh` is one step, because the game thread that writes the
atomics is the thread that runs it and the mutex keeps the worker out.  A reply
of the bridge is one step since `BridgeState::reply` holds the reader's mutex.

A movement carries `made`, the session, epoch and generation in which the bridge
read it.  No guard and no other variable depends on it: it only lets
`NoStaleReplay` say what "stale" means.

There is no clock in `Link`: any deadline or lease that is running may pass at any
step (`Fails(TRUE)`), which contains all real timings.  What depends on the
*lengths* of the leases is not modelled (section 7).

### FreshInput

The abstract specification of the link.  The game lives in *eras*: a session, an
epoch of the session, and a state of the game, counted by `now` and, as far as the
plugin has seen it, by `seen`.  `EraEnds` takes what is held away, `Later` says that no
era comes again, and `Gives` hands over only what is held, once the plugin has seen the
game's present state.  Nothing of worker, pipe, packets, leases or bridge is in it.
`Link!Promise` maps it: `GENERATION`, `generation`, the gate's session, epoch and
`desired`, the last session, and the value of the last frame.  The bridge's part of
`Link` is all stutters; a crash of the game is `GameRestarts`.

### Mist

The record `mist` is the Rust struct (`since` counts ticks or is `NotSet`, the
`None` of the code).  `Frame` is `InputGate::outputs` as far as it concerns MIST,
`Invalidate` is `InputGate::invalidate` (any pause, reconnect, lapsed lease, and
every 50 ms on an idle worker), `Accept` a command of the bridge, `Tick` one unit
of time.  The game is external: it may acknowledge any wiper mode in any frame
or none, which contains what the game really does.

### Dispatch

`Begins` is the first call of a frame: a whole `Mist!Frame` and `Dispatch::begin`, whose
two passes over the inputs become two sets, `pending.release` and `pending.assert`.
The order of `pop` within a pass is that of the indices and matters to nobody, so
`TakesRelease` and `TakesAssertion` take any, but nothing asserted while something is
left to release.  Between two events the worker goes on with the gate (`WorkerCalls`)
and time passes; a frame may find the mutex taken (`BeginsContended`), and the next may
begin before the last was read to its end.  The inputs are the wiper modes, the ones
that exclude each other and whose last value the game keeps; for the other inputs
`Laid` is the same.  `given` is what the game has been told is on; `swept` and `cut` are
history.

### Selector

The record `actions` is the lever, press, pulse and brake part of the Rust
`Actions`: deadlines count down in ticks (`pulse`, `quiet`), waits count up
(`park_wait`, `release_park_wait`).  `Applied` is `Actions::apply` in the order of
the code: movement of the lever, override by a manual press, the wait to apply,
the wait to release, the press itself.  The game is external: its brake toggles
on a press, and telemetry reports it up to `Lag` ticks late, or not at all.  A
tick is the bridge's interval, in which at most one command is accepted; frames
come at any rate up to `MaxGap` ticks apart.  The driver's own brake key is not
part of the instance: with it, the brake is not the selector's alone and
`BrakeFollowsLever` would be about the driver.

`credit`, `want`, `settle` and `split` are history: what the lever's entries still
account for, what the last of them asks for, how long ago the last toggle really was,
and whether a frame that found the mutex taken fell into a press of the brake.

### Cruise and CruiseUnit

The record `actions` is the other part of `Actions`: `pulse` counts down, `repeat`
and the time of `auto_pending` count up until they no longer matter (REPEAT, ACK).
`Applied` follows `Actions::apply` from the first press to the stored `previous`,
and `Adjusted` follows `adjust` branch by branch; each way out of it is an operator
of its own (`Waiting`, `Refused`, `Acknowledged`, `Yielded`, `Stepped`).  A request
is any mask that `valid_inputs` lets through.

The game is external.  Its set speed moves by five units or to the next multiple of
five on a press (`Stepping`: both, as the program is told only the result), or not at
all, when the game refuses; telemetry reports the set speed up to `Lag` ticks late
and the limit when it changes, and either sample may be missing or too old
(`SampleLost`).  The driver of the truck may use the keyboard or brake
(`DriverSets`).  Speeds are in units and become millimetres per second, the
program's numbers, through `Reported`.  A constant set of `Drivers` says who uses
what, so that one run covers combinations without their product; who drives is
chosen in `Init`.

`trend`, `keyed` and `own` are history: where the adjustment last stepped to, and
which of the reported speeds the keyboard has no part in.

### Stalk

A report is the set of controls it shows, named by group and position.  The
decoders' records keep what the Rust structs keep; `Fed`, `Reset`, `Disconnected`
and `Replied` are `BridgeState`'s methods, and `Answer` the command built from it by
`auxiliary_inputs` and its siblings.  `valid_inputs` is the plugin's check of it.
The reader thread and the server interleave under the bridge's mutex: reports,
garbled reports, a read error, the retry that opens the handle again, the exchange
with the plugin, the end of a connection.  The plugin's side is a binding that
changes (`PluginMoves`); `Link` models how.

The device is external and modelled from how the decoders use it and from the
recorded reports among the tests: it reports on every change and repeats its last
report, in order, while its handle is open; a latched control shows its position and
pulses it when it is moved, and a new pulse in a group replaces the old one.  A
driver is a set of latched controls he `moves` and a set of held ones he `holds`.

### Lifecycle

The game's thread runs one API call at a time; `call` is where it is in it, and
callbacks come between calls (`ActiveCallback`, `TelemetryEvent`,
`TelemetryChannel`, `Frame`).  `InputInit` and `TelemetryInit` go up to the first
thing that may fail; from there `CallGoesOn` follows the code: `WorkerStarts`,
`RegisterDevice` with its rollback through `StopWorker` and `JoinWorker`, `Registers`
one event or channel at a time, `RegistrationFails` at any of them,
`TelemetryStores` one atomic at a time, while the worker goes on.  A thread is at one
of eight positions of the closure in `worker.rs`; each of its steps up to an operation
on the pipe is one.  A thread's number is its session: it connects more than once, but
nothing compares two of its sessions.  `Panics` is what `boundary` makes of a panic in
a callback, with the mutex held or not; a poisoned mutex stays so.

The gate is reduced to whose session it serves, whether it is ready, whether it has
inputs to assert and whether a sweep of MIST must be ended (`sweep`, the `needs_park` of
`mist.rs`); `Gate` and `Link` have the rest, and the stores of the
callbacks.  `Frame` follows `InputGate::outputs`: with inputs to show it asserts them
(`Shown`), and without them, ready and connected or not, it asserts OFF for as long as
`sweep` stands (`Asserted`); `Invalidated` forgets the inputs and keeps the sweep, so
that its OFF outlives pauses, disconnections and both shutdowns.  When OFF is
acknowledged or has had its time is any frame (`Swept`); the phases are in `Mist`.  `since` is history: what telemetry has told since it was installed.

### Installer

Each step is one write: of the DLL, the settings, a profile, a backup or a record.  It
is done, or it fails (`Breaks`) and leaves the file as it was or cut short; then either
the nearest `catch` goes on (`Handler`, by the position in the script) or the process
is gone.  `Puts`, `BacksUp` and `Writes` are the three kinds of a write and
`Write-Preserved`, `Copy-Item`, `Remove-Item` and `WriteAllText` are instances of them.
`job` holds the script's variables, `Record` is `Read-Record` with its fallback to the
record of version 1.0, and `SaveRecord` and `RetireLegacy` are the two writes of
`Save-Record`.  The rollback undoes the profile, the DLL and the settings from the run's
own backup directory `Here`; the removal goes by what the record says.  Files are
compared by their contents where the script compares hashes.

Between two runs the driver edits a profile or the settings and replaces or removes the
DLL (`DriverEdits`).  Setup may find a fresh game, one with another program's DLL and a
settings file, or what version 1.0 left.  The model is of ETS2; ATS uses the same code
with a record of its own and no version 1.0, and shares no file with it.

`own` and `loose` are history: what each file contained when Setup had not written it,
and the files whose own content Setup does not restore by itself, with the reasons in
`Abandoned` and `Overwritten` (section 6).

## 3. The runs

| Run | Instance | Checks | Shows |
|---|---|---|---|
| `link` | 2 connections, 2 exchanges each, 3 changes of the game's state, 1 failure, 2 idle disconnects | `TypeOK`, `NoStaleReplay`, `DesiredIsFresh`, `AnswersOutstanding`, `NoMutualWait`, `ImplementsFreshInput` | pauses and focus changes at every point of `refresh` and of an exchange; reconnects, crashes and restarts of either process with bytes in the pipe |
| `link_release` | one connection, with fairness | `ReleasedAfterBridgeEnds` | a dead bridge releases what it held |
| `mist` | `Dispatch` over three wiper modes, `ACK_TIMEOUT` 6 ticks, with fairness | `TypeOK`, `SweepIsParked`, `SweepsOnce`, `AttemptEnds`, `NeverBoth`, `GameParked` | every interruption of a sweep, also between two events of a frame |
| `mist_rearm` | `Mist` alone, the same times | `NonMistRearms` **violated** | a re-arm during parking is lost |
| `selector` | P, N and D and the push at each and at none, 75 ms ticks (PULSE 2, REPEAT 4, ACK 13), telemetry up to 225 ms late, frames up to 150 ms apart, contended frames, with fairness | `TypeOK`, `OneGear`, `OneWait`, `OnePressUnlessSplit`, `BrakeFollowsLever`, `WaitsEnd` | the brake follows the lever, one press per entry, and waits exclude each other and end |
| `selector_refused` | 50 ms ticks, contended frames | `OnePressPerEntry` **violated** | one entry presses twice |
| `stalk` | 4 drivers, `HID_LEASE` 2 ticks, 2 bindings | `TypeOK`, `AnswerIsActual`, `HoldsAreFresh`, `OnlyCruiseConflicts` | the bridge asks only for what the hands do now, through resets, silence, USB loss and garbled reports |
| `stalk_refused` | the driver of the rear controls | `AnswerIsValid` **violated** | ON/OFF with the pull is a command the plugin cannot decode |
| `cruise` | 4 drivers, 3 speeds, 2 limits, short times in the code's order, with fairness | `TypeOK`, `OneDirection`, `NeverOscillates`, `YieldsToDriver`, `NeverEngages`, `StepsArePresses`, `SettlesAtLimit` | the adjustment reaches the limit or stops, and gives way |
| `cruise_limit` | a driver without the keyboard | `StopsOnlyWhenRefused` **violated** | a limit that changes at the wrong moment stops the adjustment |
| `lifecycle` | 3 threads, 2 channels of which 1 is required, with fairness | `TypeOK`, `NoDetachedWorker`, `SessionIsConnected`, `AllOrNothing`, `AssertsOnFreshTelemetry`, `CallsReturn` | any order of initializations, shutdowns, failures and panics leaves nothing behind, and every call returns |
| `installer` | 2 profiles, 2 installations, 1 edit of the driver, 2 failed or final writes, any number of removals | `TypeOK`, `NothingLost`, `RestoresOwn`, `RollsBack` | an error or a kill at every write, retries of either action, reinstallation and the upgrade from 1.0 |

### Bounds, and why they are enough

- `MaxSession`, `MaxSequence`, `MaxGeneration`: the numbers are only compared for
  equality and order.  A stale packet needs two of whatever it crosses: two
  connections, two exchanges (sequences 0 and 1), and state changes before, between
  and after them.  `NoStaleReplay`, `DesiredIsFresh` and `TypeOK` are proved without
  the bounds.
- `MaxFaults` counts the failures of one behaviour: a deadline that passes although
  the packet is there, a lease that lapses, a crash, a channel that loses its value.
  A stop that follows from another (the peer's handle is closed) costs nothing.
- `MaxIdleEpoch` caps the disconnects a worker repeats every 50 ms while nobody
  listens; each only adds one to the epoch.
- One control and one channel: `refresh` treats all channels alike and the link
  never looks into a mask.
- `Mist`, `Dispatch`: six ticks leave room to be early, in time and late in each phase.
- `Selector`: 75 ms ticks divide PULSE, REPEAT and, up to the rounding of ACK (975 ms),
  the deadline, and keep the graph small enough for liveness.  D and R differ in nothing
  but their name, so one of them stands for both.  The push comes at any position, and
  at none: after a reset the decoder takes a push from a report that shows no position,
  and otherwise remembers the last one it saw.
  `Lag < REPEAT` and `MaxGap <= REPEAT - PULSE` are the conditions under which the
  code's timing works: a toggle reaches telemetry, and a frame sees the input released,
  before the brake counts as settled.  The second is not guaranteed by anything, and
  section 6 says what happens without it.
  A contended frame within a brake press would end `OnePressPerEntry` at once
  (`selector_refused`), so `split` excuses the behaviours that had one, and only those:
  contended frames at other times are part of what the run shows.

- `Stalk`: a binding is only compared with the last one, so two changes suffice.
  The lease's length matters only against the silence of the device: two ticks let it
  be alive, late and lapsed.  The decoders of different groups share no state but
  the report, and what they share (one conflict resets all) needs two groups in one
  pair of hands, which each of the drivers has.
- `Cruise`: PULSE 1, REPEAT 2, ACK 3 and telemetry up to 2 ticks late keep the code's
  order, with telemetry as late as a repetition; the speeds are on the grid (45) and
  off it on either side of a limit (43, 48), the limits round to a target inside and
  below the speeds, so that steps are taken, refused and overshoot.  Frames that find
  the mutex taken are in one driver's hands only: while a toggle's pulse runs, such
  a frame makes two presses of it, as `selector_refused` shows for the brake, and
  `NeverEngages` would fail for that reason.

- `Lifecycle`: `MaxStarts` 3 lets a thread follow one that a shutdown joined and one
  that a failed registration joined.  A required and an optional channel tell a
  registration that fails early from one that fails late.  The theorems hold without
  the bounds.

- `Installer`: two installations are what it takes for the second to find the first's
  record, to edit the same or another profile and to fail half way; a third finds the
  second's record just as the second finds the first's.  Two faults let a rollback fail
  and a record be cut short after that.  The profiles are interchangeable (symmetry).
  With two edits of the driver, the run takes too long to repeat regularly (31.6 million
  states); it shows nothing else.  `TypeOK` and `NothingLost` are proved without the
  bounds.

### Deadlock

Every run checks for it.  The bounded instances never stop, since the game and
the HID reader can always move; `NoMutualWait` is the useful form of deadlock
freedom for the two ends of the pipe.

### Fairness

- `Link`: `WF(Worker)` because the worker is a thread of its own whose every
  operation has a deadline; `WF(GameThread)` because the game finishes a callback
  it is in and calls the input callback every frame while the device is active.
  No fairness for the bridge, the driver or failures.
- `Dispatch`: `WF` on the first call of an uncontended frame, on the calls that read the
  frame, and on time.  None on acknowledgements, which may stay away for ever, nor on
  commands.
- `Cruise`: `WF` on an uncontended frame, on the report of the set speed and on time.
  None on the limit's reports, the driver or the loss of samples; `SettlesAtLimit` is
  conditional on a limit and a stalk that come to rest.
- `Lifecycle`: `WF` on what the game's call goes on with, since the plugin's functions
  run to their end, and on each worker, whose every operation on the pipe has a
  deadline.  None on callbacks or on the game's next call.
- `Stalk`, `Installer`: none; they have no liveness property.
- `Selector`: `WF` on an uncontended frame (the worker has the mutex for
  microseconds of each 50 ms), on time and on telemetry.

## 4. Properties

Safety over the whole link: `NoStaleReplay` (a frame asserts only a movement made
in the very session, epoch and generation the frame is in), `DesiredIsFresh` (the
same for the gate between frames), `AnswersOutstanding` (what is in the pipe for the
worker answers the very status it waits on), `NoMutualWait`; refinement:
`ImplementsFreshInput`, which adds to the first two what may happen to a held movement
at all: it comes anew in a live era, is dropped, or stays; liveness:
`ReleasedAfterBridgeEnds`.

MIST: `SweepIsParked` (while LOW of a sweep was the last thing asserted, the
sequence knows that it must park), `SweepsOnce` (MIST that stays selected sweeps
once), `AttemptEnds` (parking never outlasts its deadline, however often the gate
is invalidated meanwhile).

Dispatch: `NeverBoth` (the game never has two wiper modes on, at no event of a frame),
`GameParked` (once the sequence no longer knows that it must park, the game was given
what ends the sweep, or the event that does is in the frame being read).

Selector: `OneGear`, `OneWait`, `OnePressPerEntry`, `OnePressUnlessSplit`,
`BrakeFollowsLever`, `WaitsEnd`.

Installer: `NothingLost` (the last content of each file that was not Setup's is in place
or in a backup), `RollsBack` (a rollback that ends has every file as before),
`RestoresOwn` (after a removal the driver has his own files again, retries and
reinstallations included).

Stalk: `AnswerIsActual` (a command holds only positions the driver set and controls
he holds, however the reader, the server and the lease interleave), `HoldsAreFresh`
(what was held before a reset does not act until it was released),
`OnlyCruiseConflicts` (the only masks the plugin refuses are ON/OFF with the pull).

Cruise: `OneDirection`; `NeverOscillates` (no step back from where the last one led,
unless the limit moved, a sample was missing or the mode was switched, off and on
again in one frame included),
`YieldsToDriver` (no step from a speed the keyboard had a part in),
`NeverEngages`, `StepsArePresses` (each step of a running adjustment is a press to
the game) and `SettlesAtLimit`.

Lifecycle: `NoDetachedWorker` (between calls a worker runs only if it is the one in
`WORKER`, so the DLL may be unloaded), `SessionIsConnected` (the gate never serves a
connection that its worker has left), `AllOrNothing` (registrations are complete or
undone), `AssertsOnFreshTelemetry` (no input is asserted and no sweep begun on what
telemetry told before it was installed again or the game was paused; without fresh
telemetry a frame asserts at most the OFF of a sweep begun before) and `CallsReturn` (in particular the join).

Each property of a passing run has a mutant in `PROJECT.json`: a
plausible bug in a mapped definition that makes TLC find the property violated.

## 5. Proofs

| Theorem | States |
|---|---|
| `Link_proof!TypeCorrect` | `Spec => []TypeOK` |
| `Link_proof!NoReplay` | `Spec => []NoStaleReplay` |
| `Link_proof!HeldCommandFresh` | `Spec => []DesiredIsFresh` |
| `Link_proof!NoLeftoverAnswer` | `Spec => []AnswersOutstanding` |
| `Link_proof!NeverMutualWait` | `Spec => []NoMutualWait` |
| `Link_proof!LinkImplementsFreshInput` | `Spec => ImplementsFreshInput`, the refinement |
| `Mist_proof!TypeCorrect` | `Spec => []TypeOK` |
| `Mist_proof!AlwaysParked` | `Spec => []SweepIsParked` |
| `Mist_proof!NeverRepeats` | `Spec => SweepsOnce`, an action property |
| `Dispatch_proof!DispatchIsMist` | `DispatchSpec => Spec`: delivery event by event leaves `Mist` as it is, and with it every theorem above |
| `Dispatch_proof!DispatchTypeCorrect` | `DispatchSpec => []DispatchTypeOK` |
| `Dispatch_proof!ModesExclusive` | `DispatchSpec => []NeverBoth` |
| `Dispatch_proof!GameIsParked` | `DispatchSpec => []GameParked` |
| `Selector_proof!TypeCorrect` | `Spec => []TypeOK` |
| `Selector_proof!NeverTwoGears` | `Spec => []OneGear` |
| `Selector_proof!NeverTwoWaits` | `Spec => []OneWait` |
| `Selector_proof!OnePressEach` | `Spec => []OnePressUnlessSplit` |
| `Selector_proof!BrakeIsAsWanted` | `Spec => []BrakeFollowsLever`, if `Lag < REPEAT` and `PULSE + MaxGap <= REPEAT` |
| `Cruise_proof!CruiseOneDirection` | `Spec => []OneDirection` |
| `Cruise_proof!CruiseTypeCorrect` | `Spec => []TypeOK` |
| `Cruise_proof!StepsCount` | `Spec => StepsArePresses`, an action property, if `PULSE + MaxGap <= REPEAT` |
| `Cruise_proof!NeverStepsBack` | `Spec => NeverOscillates`, an action property |
| `Cruise_proof!DriverIsObeyed` | `Spec => YieldsToDriver`, an action property |
| `Cruise_proof!OnlyDriverEngages` | `Spec => NeverEngages`, an action property, if no frame is contended for a driver who uses the ring or the lever |
| `Cruise_proof!TargetReachable` | for every accepted limit and either unit, the target is a multiple of five units, the greatest not above the displayed limit, to a millimetre per second |
| `Stalk_proof!TypeCorrect` | `Spec => []TypeOK` |
| `Stalk_proof!AsksWhatIsDone` | `Spec => []AnswerIsActual` |
| `Stalk_proof!HoldsMustBeReleased` | `Spec => []HoldsAreFresh` |
| `Stalk_proof!OneOfEachGroup` | `Spec => []OnlyCruiseConflicts` |
| `Lifecycle_proof!TypeCorrect` | `Spec => []TypeOK` |
| `Lifecycle_proof!FreshTelemetry` | `Spec => AssertsOnFreshTelemetry`, an action property |
| `Lifecycle_proof!NoDetached` | `Spec => []NoDetachedWorker` |
| `Lifecycle_proof!RolledBack` | `Spec => []AllOrNothing` |
| `Lifecycle_proof!NoSessionLeft` | `Spec => []SessionIsConnected` |
| `Installer_proof!TypeCorrect` | `Spec => []TypeOK` |
| `Installer_proof!NothingIsLost` | `Spec => []NothingLost` |
| `Installer_proof!RollbackIsComplete` | `Spec => RollsBack`, an action property |
| `Installer_proof!OwnComesBack` | `Spec => []RestoresOwn` |

**Link.**  Assumptions: `LinkAssumption` (the bounds are natural numbers) and
`NothingAssumption` (`Nothing` is not a binding).  No value of a bound matters.  `NoStaleReplay` is about a frame; a stale
movement could hide anywhere on its way there, so `IInv` follows it.  A *key* is the
session and epoch a packet, the bridge's binding or the gate carries.
`PacketsReached`: every key in flight is one the gate has been in, so an invalidation
puts it into the past for good (the epoch only grows; a new connection or process has a
larger session).  `PacketsFresh`: while the gate is still at a packet's key, the
movement in it was made at that key, not before the generation the plugin last
loaded.  `DesiredFresh` is the same for the gate.  A frame loads the present
generation; if it differs, the epoch moves on and the command is gone; if not, the
movement's generation is squeezed between the two, and so equal.

The exchange is a second invariant, `PipeInv`: what each end of the pipe believes is
outstanding (`StatusOutstanding`, `StatusSent`) and that at most one packet is under way
(`OnePacket`); `NoMutualWait` follows from it.  The refinement takes the steps of `Link`
one by one to a step of `FreshInput` or a stutter under `IInv`: a refresh that finds a new
generation, a lapsed lease, a disconnect and a connect are `EraEnds`, a command that is
accepted is `Holds`, and a frame is `Gives`, `Withholds` or the end of an era.

**Mist.**  Assumption: `MistAssumption`.  `IInv` ties `needs_park` to the phases in which LOW is or may be
on (`ParkNeeded`), the frame's output to the phase (`SweepNeedsPark`) and the history
of the sweep to the phases left (`NotSwept`).

**Dispatch.**  Assumption: `MistAssumption`.  A step of delivery is a step of `Mist` or a
stutter of it, so `Mist_proof`'s invariant is there to build on.  `DispatchInv` adds
that what is on in the game and not the frame's own mode is among what is still to be
released when something is to be asserted (`ReleasedFirst`), and that a frame has one
mode (`OneAsserted`).

**Selector.**  Assumption: `SelectorAssumption`.  `IInv` adds to the type the exclusion of the two waits and
`OnePulse`, that at most one gear's pulse runs: the output alone is not inductive,
because the next frame asserts what still runs.

`OnePressEach` adds `CreditKept`: as long as no press was split, every press the game saw
had its entry or push, a pulse of the brake that runs is one the last frame asserted,
so that the next frame is no new press, and a wait has an entry to answer.  It
needs no relation between the times.

`BrakeIsAsWanted` does (`Timely`): telemetry is not wrong for as long as the plugin lets a
toggle settle, and a frame falls between the end of a pulse and the end of that time.
With the code's 150 and 300 ms, frames may be 150 ms apart, and section 6 tells what
happens beyond.  `FollowInv` is about clocks that run together (`Clocked`): what is left
of a pulse, the time the plugin waits after it (`quiet`), what is left of that time also
when an invalidation has made the plugin forget it (`settle`), the frame that asserted
the brake last, and how long telemetry has been wrong.  When a wait acts, `quiet` is over,
hence telemetry is right and the game has seen the input released: the toggle it sends is
needed and counts.  `Followed` ties the waits to the lever and to what its last entry or
exit asks for.

**Cruise.**  `OneDirection` needs no assumption.  `SingleInv` says of the pulses what `OneDirection` says of
the output, for a frame asserts what is left of earlier pulses; it needs that a command
never asks for both directions.  There is one lemma for each operator of `Actions`
(`PressedSingle` to `AppliedSingle`), because a pulse that starts in one direction
must clear the other in every one of them.

`CruiseTypeCorrect` uses `CruiseAssumption`; `StepsCount` also that the game asks for
input often enough, `PULSE + MaxGap <= REPEAT`: with the code's 150 and 300 ms, at least
every 150 ms.  Its invariant, `CruiseInv`, ties three clocks together: the pulse of a
direction started no earlier than the clock of the repetition (`Timed`), and the last
frame asserted a direction no longer ago than that clock and the time since that frame
say (`Told`).  A step waits for `REPEAT`, and by then the game has been given a frame
without the input.  The lemmas from `PressedIs` to `AppliedIs` say of each operator what
it does to pulses and clocks; a hold that goes on through an adjustment is why `Timed`
also says that what the driver holds is not pressed while the adjustment is on.

`NeverStepsBack` and `DriverIsObeyed` share `SteppingInv`.  After a step in one direction
an adjustment waits for it, or is stopped, or sees its target in that direction from
the speed it saw last, or is content with that speed (`Turned`).  The plugin takes speeds
less than 100 mm/s apart for the same; that they are the same follows from the speeds the
game reports, which are a unit apart (`ReportsDiffer`), and the sampled and the remembered
speed are of those (`Seen`).  This is needed: an adjustment that stepped up to
240 mm/s above its target is content there, and a drift of 20 more would make it step down.
`DriverIsObeyed` proves more than `YieldsToDriver` says: the step is taken from the
remembered speed itself.  Both properties except the frame in which the switch is
pressed (`Toggles`).  The proof asked for it: one report may hold the switch together with
the pull, which turns an adjustment off and on again within one frame, so that it
remembers nothing and its first step may go the other way.

`OnlyDriverEngages` follows a press of the two inputs that can engage cruise to its end:
it runs only where the last frame has already asserted it (`Shown`), so that a frame
without a movement presses neither; and up and down do nothing while cruise is off
(`OffStaysOff`).  It assumes `Uncontended`: a frame without input in the middle of a press
makes two of it (section 6).

**CruiseUnit.**  The limits are those `adjust` accepts, 1 to 100000 mm/s.  `DisplayedNear`
bounds the rounding of the limit by half a unit; the target then differs from what
telemetry reports of the same speed by the rounding of one division.

**Stalk.**  Assumption: `StalkAssumption`; no number of sessions, no length of the lease and
no set of controls in use matters.  Every answer is what the decoders remember or
nothing (`AnswerIs`), so `Remembered` says what the memory is worth: `Matches`, while
the handle is good, that each decoder knows the position the control is in or none, and
no hold that is not held; `Fresh`, while the binding is the plugin's, that what a decoder
takes for released has been released since the plugin last changed; `Orderly`, what the
conflict masks keep true of one report after another; and that `last_report` is the
device's silence until it reaches the lease.  Everything that can happen to the device
is brought to one form first (`Follows`: a control that moved pulses, and the rear ring
does not move under its spring), so that the lemmas about feeding a decoder
(`OrderlyFed`, `MatchesFed`, `FreshFed`) are stated once for all of its steps.

**Lifecycle.**  `NoDetachedWorker` is about the times between calls; `Placed` says for each
point *within* a call which thread may be alive (only the one in `WORKER`), when there
is one, and what `INPUT_INITIALIZED` is.  `Accounted` does the same for the
registrations: all or none except while they are being made, and no device while
the input API is on its way up or down.
`Connection` adds to `SessionIsConnected` the type of the gate; it needs `Placed`, since
a thread that has not started has no session to leave behind.  `Told` is for
`AssertsOnFreshTelemetry`: the flags say only what telemetry told since it was last
installed, but for those of the four stores that an initialization or a shutdown has
still to make; and only a frame, which no call is in the middle of, begins a sweep
(`OnlyFramesSweep`) or asserts anything.  A frame whose refreshed gate is not ready shows
no inputs, also when it keeps a sweep (`FrameData`, `SweepKept`).  It needs
the types of the data (`DataTyped`).  No value of `MaxStarts`
and no set of channels matters.

**Installer.**  Assumptions: `InstallerAssumption` (the file names and the marks for "none"
and "cut short" differ) and `ContentsAssumption` (neither mark is a content or a record).
No number of profiles, installations, edits or faults matters.  `NothingLost` alone is not
inductive: a removal overwrites a file with what a record names, so the record must be
known to be right.  `Stored` is what is true of the disk between and within runs: a
file's own content is where it was or in a backup (`AllSafe`, `Secured`); a profile is the
driver's latest version with or without its bindings (`OwnContents`); a record's entry
whose modified version is the driver's latest, unbound, has the bound one in its backup
(`EntriesSound`); directories that were not used are empty (`Unused`).  `Running` is what
an installation has done when it comes to each of its writes (`Installing`): above all
that no file is written before it is secured.  The proof has one lemma for each kind of
write (`PutsStored`, `BacksUpStored`, `WritesStored`), for its outcome done and its
outcome broken, and one for each action, which only has to show that its write is
harmless.  `RollsBack` needs a second invariant, `Undoable`, on top of it: no profile but
the run's own is changed, and what the run has written, profile, settings or DLL, is in
its own backup as it was when the run began, so that what a rollback finds is enough and
is not an earlier run's.

`RestoresOwn` needs a third, `Restorable`, because a removal goes by what it recognises: it
restores a profile if that still has the content the record calls modified, and the
settings if they are the ones the record calls installed.  `ProfilesCovered` says that a
profile that is not the driver's own is always so recognisable, except the one an
installation is at, before its record is written; `SettingsCovered` says the same of the
settings, with the backup the record names.  That backup must survive every later
installation, which takes another number (`BackupKept`), and the settings must not be
written before they are saved (`InstallOrder`).  `Removed` is what a removal has done when
it comes to each of its steps.  `ProfilesCovered`, `SettingsCovered` and `Removed` claim
nothing when the record cannot be read, for Setup then stops.  The proof builds on the
other two invariants: what is in a backup is right by `Stored`, and a failed
installation puts back what it found by `Undoable`.

Only model-checked: the liveness properties `ReleasedAfterBridgeEnds`, `AttemptEnds`,
`WaitsEnd`, `SettlesAtLimit` and `CallsReturn` (fairness and ENABLED are out of the prover's
reach).  Every other property of a passing run is a theorem.

## 6. Findings

| Run | Code | What it shows |
|---|---|---|
| `mist_rearm` | `mist.rs:88` | a MIST selected again while the last sweep is still being parked after an interruption never sweeps |
| `selector_refused` | `plugin/lib.rs:178` | a frame that finds the mutex taken asserts nothing; to the game this is a release, and the next frame a new press: one entry of P presses the brake twice |
| `stalk_refused` | `core/auxiliary.rs:51` | the conflict mask leaves ON/OFF out: turning it while the lever is pulled makes a mask that `valid_inputs` refuses, and the connection ends |
| `cruise_limit` | `actions.rs:234` | a limit that changes across the set speed while a step is on its way makes the step count as an overshoot; the adjustment stops although the game refused nothing |

The quotes they contradict are in `PROJECT.json`.

Seen while modelling, each a consequence of the code at the line, without a run:

- `actions.rs:114`: `brake_settled` looks at the clock only, so a hitch longer than
  REPEAT after a toggle lets the brake count as settled although no frame has released
  the input; the next toggle is no press, and the brake stays against the lever.  TLC
  shows it, as a violation of `BrakeFollowsLever`, with `MaxGap` 3 (frames 225 ms apart)
  or more in `MCSelector.cfg`.
- `plugin/lib.rs:72`: a panic while the plugin's mutex is held poisons it for good;
  `scs_input_init` clears `FAULT` and succeeds, but every `lock` and `try_lock` fails, so
  the worker ends at its first connection and no input is asserted until the game is
  restarted.
- `plugin/lib.rs:178`: a contended frame releases any held input for a frame; a high
  beam that is held toggles again.
- `protocol/lib.rs:153`: an invalidation replaces `Actions`, and with it
  `parking_quiet_until`: after a pause or reconnect the next entry of P may toggle the
  brake before an earlier toggle has reached telemetry.
- `actions.rs:72`: a push below D while the brake's pulse runs only prolongs the
  pulse, so the game sees one press instead of two.
- `actions.rs:139`: a rising toggle clears no pulse of resume, so both could be asserted;
  the bridge never asks for resume, and a pull clears both.
- `core/wipers.rs:39` (and its siblings): a reset forgets the last pulse, so a position
  pulse that outlives a reset restores the position, although docs say that positions
  start unknown.
- `actions.rs:249`: switching the adjustment on clears a manual press's pulse, and its
  first step may come in the same frame; the game then sees one press, not two.
- `Setup.ps1:302-310`: an installation that is killed after it edited the profile and
  before `Save-Record`, or whose rollback fails at the profile, leaves the edit in no
  record.  The backup exists, but no later run restores it (`Abandoned`).
- `Setup.ps1:43`: a record is written in place.  One cut short cannot be parsed, and every
  later run ends at line 17 or 21, also a removal, before it has looked at anything.
- `Setup.ps1:223,232`: a removal that is cut off within the write of the settings or of a
  profile leaves them torn; its retry compares the hash, takes them for the driver's edit
  and leaves them.
- `Setup.ps1:43-49`: the new record is written before the record of 1.0 is retired.  When
  the second write fails, the rollback restores the files but not the first record, which
  says Installed; when the process dies between the two, both records say Installed, in
  which window an old uninstaller may do what the comment at 44-45 rules out.
- `Setup.ps1:283-286`: a reinstallation keeps the first backup of the settings, so what
  the driver made of them between the two is in the second backup, but is not what a
  removal restores (`Overwritten`).

## 7. Not modelled

Game identity and units (two string comparisons and a settings file), SDK bindings
(declarations), HID access and recording (operating-system I/O), the command line
and the build scripts.  The capture format is a sequential validator that reads one line
after the other and stops at the first that is wrong: what could go wrong in it, a unit
test reaches.

The lengths of the leases together, that is how old a movement may be when the game sees
it and whether `reset_server` can end a healthy bridge: `Link` would need a clock beside
its threads, which multiplies a graph that is millions of states without one.  Safety
does not depend on them, since every lease may lapse at any step.

In `Installer`: finding games and profiles, the questions to the player (their answers are
arbitrary), `Start`, the second game, and attributes of files (`Write-Preserved` keeps
them).  The package is good (`Check-Package` ends Setup before it writes otherwise) and
nobody tampers with backups, so the hashes of backups always match unless a write of one
was cut off, and then the installation did not go on.

In `Lifecycle`, which inputs are held is left out, so that any of them may begin a sweep,
and so is the time after which its OFF is given up: `Mist` has both.

In `Link`, the worker's stop flag, its join and `FAULT` are
left out (`Lifecycle` has them): every game restart stands for a shutdown at any point.  Packet bytes are
left out of `Link`: a packet is delivered whole or not at all, because both ends
read exactly 56 bytes and drop the connection otherwise.

In `Stalk`, report bytes and bit numbers are left out: a report is the set of its
controls.  In `Cruise`, the expiry of a sample is any moment (`SampleLost`) and not
500 ms after its report; a sample and its time, two atomics, are read on the thread
that writes them, since every frame refreshes before it acts, so that a torn pair can
only reach a status, never a press.  Negative set speeds, which the game does not
report, and the speed and gear samples, which only the status shows, are left out.

## 8. Plan

In order of how much of the program's behaviour depends on it:

1. *(done)* `Gate`, `Link`, `Mist`, `Selector` and their proofs.
2. *(done)* `Stalk` with the proofs of all its invariants; `CruiseUnit` and `Cruise`
   with the proofs of one direction, of the types, of the steps and of the target.
3. *(done)* `Lifecycle` and the proofs of all its safety properties.
4. *(done)* `FreshInput`, the abstract link, and the proof that `Link` implements it;
   the invariant of the exchange.
5. *(done)* `Dispatch` over `Mist`, with the proofs that modes exclude each other and
   that the game is left parked.
6. *(done)* `Installer` and the proofs that nothing of the driver's is lost, that a
   rollback is complete and that a removal restores what was the driver's.
7. *(done)* The selector's timing, and the action properties of `Cruise`.
8. What is left: the lengths of the leases in `Link`, which would give it a clock, and
   with it the age of a movement that the game sees.
