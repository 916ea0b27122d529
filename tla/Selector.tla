------------------------------ MODULE Selector ------------------------------
(***************************************************************************)
(* The gear lever and the parking brake in the DLL (the part of Actions    *)
(* that is not about cruise control): positions and presses become timed   *)
(* pulses of the game's inputs, and entering or leaving P waits for brake  *)
(* telemetry before it decides on one toggle of the brake.                 *)
(*                                                                         *)
(* The game's side is modelled from how the plugin uses it: the brake      *)
(* toggles on a press, which is a frame with the input after one without,  *)
(* and telemetry reports the brake up to Lag ticks late.  Frames come at   *)
(* any rate, with at most MaxGap ticks from one to the next, and commands  *)
(* as often as the lever moves.                                            *)
(***************************************************************************)
EXTENDS Integers

CONSTANTS
  Gears,            \* positions of the lever in this instance
  PULSE, REPEAT, ACK,   \* in ticks
  Lag, MaxGap,      \* in ticks; bounds on telemetry and on frames
  Contention,       \* whether a frame may find the plugin's mutex taken
  Presses           \* whether the lever is also pushed below D

Lower == {"N", "D", "R"}      \* NEUTRAL, DRIVE, REVERSE

ASSUME SelectorAssumption ==
  /\ Gears \subseteq Lower \cup {"P"}
  /\ PULSE \in Nat \ {0} /\ REPEAT \in Nat /\ ACK \in Nat
  /\ PULSE < REPEAT /\ REPEAT < ACK
  /\ Lag \in Nat /\ MaxGap \in Nat
  /\ Contention \in BOOLEAN /\ Presses \in BOOLEAN

VARIABLES
  actions,     \* the plugin's Actions
  desired,     \* the last accepted command: lever position, pushed below D
  output,      \* the inputs the last frame asserted
  gap,         \* ticks since the last frame
  brake,       \* the game's parking brake
  parking,     \* what telemetry last said of it
  lag,         \* ticks for which telemetry has been wrong
  \* History, which no step of the program depends on:
  credit,      \* presses of the brake that an entry still accounts for
  want,        \* the brake the last entry or exit of P asks for
  settle,      \* `quiet', but not forgotten by an invalidation
  split        \* whether a frame without inputs fell into a press of the brake

pluginVars  == <<actions, desired>>
gameVars    == <<brake, parking, lag>>
historyVars == <<credit, want, settle, split>>
vars == <<pluginVars, output, gap, gameVars, historyVars>>

-----------------------------------------------------------------------------
(* Actions *)

Unknown == "unknown"     \* no position known, or no telemetry
NotSet  == -1            \* Option::None of a wait
Inputs  == Lower \cup {"brake"}

NewActions ==
  [gear |-> Unknown, pressed |-> FALSE, pulse |-> [i \in Inputs |-> 0],
   quiet |-> 0, park_wait |-> NotSet, release_park_wait |-> NotSet]

\* Mutant of Pulsed: an earlier toggle need not settle.
PulsedUnsettled(a, inputs) ==
  [a EXCEPT !.pulse = [i \in Inputs |-> IF i \in inputs THEN PULSE ELSE @[i]]]

Pulsed(a, inputs) ==
  [a EXCEPT !.pulse = [i \in Inputs |-> IF i \in inputs THEN PULSE ELSE @[i]],
            !.quiet = IF "brake" \in inputs THEN REPEAT ELSE @]

\* Mutant of GearsCleared: the pulse of the last position runs on.
GearsKept(a) == a

GearsCleared(a) ==
  [a EXCEPT !.pulse = [i \in Inputs |-> IF i \in Lower THEN 0 ELSE @[i]]]

\* Mutant of Moved: entering P leaves the wait for a release pending.
MovedKeepingRelease(a, gear) ==
  IF gear = a.gear THEN a
  ELSE IF gear = "P"
  THEN [Pulsed(GearsCleared(a), {"N"}) EXCEPT !.park_wait = 0]
  ELSE [Pulsed(GearsCleared(a), {gear} \cap Lower) EXCEPT
          !.park_wait = NotSet,
          !.release_park_wait =
             IF gear = Unknown THEN NotSet ELSE IF a.gear = "P" THEN 0 ELSE @]

\* The lever is found in another position.
Moved(a, gear) ==
  IF gear = a.gear THEN a
  ELSE IF gear = "P"
  THEN [Pulsed(GearsCleared(a), {"N"}) EXCEPT
          !.park_wait = 0, !.release_park_wait = NotSet]
  ELSE [Pulsed(GearsCleared(a), {gear} \cap Lower) EXCEPT
          !.park_wait = NotSet,
          !.release_park_wait =
             IF gear = Unknown THEN NotSet ELSE IF a.gear = "P" THEN 0 ELSE @]

\* Mutant of Overridden: a manual press does not end the selector's work.
NotOverridden(a) == a

\* A manual press takes precedence over the selector's waits.
Overridden(a) ==
  [a EXCEPT !.park_wait = NotSet, !.release_park_wait = NotSet]

\* Mutant of ParkWaited: each frame without telemetry begins the wait anew.
ParkWaitedAnew(a, gear, settled, observed) ==
  IF a.park_wait = NotSet THEN a
  ELSE IF gear # "P" \/ a.park_wait >= ACK THEN [a EXCEPT !.park_wait = NotSet]
  ELSE IF ~settled \/ observed = Unknown THEN [a EXCEPT !.park_wait = 0]
  ELSE [(IF observed = "off" THEN Pulsed(a, {"brake"}) ELSE a)
          EXCEPT !.park_wait = NotSet]

\* A wait for telemetry ends at its deadline, or with telemetry once the brake
\* has settled; then the brake is toggled if it is not as `wanted'.
ParkWaited(a, gear, settled, observed) ==
  IF a.park_wait = NotSet THEN a
  ELSE IF gear # "P" \/ a.park_wait >= ACK THEN [a EXCEPT !.park_wait = NotSet]
  ELSE IF ~settled \/ observed = Unknown THEN a
  ELSE [(IF observed = "off" THEN Pulsed(a, {"brake"}) ELSE a)
          EXCEPT !.park_wait = NotSet]

ReleaseWaited(a, settled, observed) ==
  IF a.release_park_wait = NotSet THEN a
  ELSE IF a.release_park_wait >= ACK
  THEN [a EXCEPT !.release_park_wait = NotSet]
  ELSE IF ~settled \/ observed = Unknown THEN a
  ELSE [(IF observed = "on" THEN Pulsed(a, {"brake"}) ELSE a)
          EXCEPT !.release_park_wait = NotSet]

\* What a command's lever and press make of Actions before telemetry is used.
Taken(a, command) ==
  LET moved == Moved(a, command.gear) IN
  IF command.pressed /\ ~a.pressed THEN Overridden(moved) ELSE moved

Waited(a, command, observed) ==
  LET settled == a.quiet = 0 IN
  ReleaseWaited(ParkWaited(a, command.gear, settled, observed),
                settled, observed)

\* `apply', for the lever and the brake.
Applied(a, command, observed) ==
  LET waited == Waited(Taken(a, command), command, observed)
      pressed == IF command.pressed /\ ~a.pressed
                 THEN Pulsed(waited, {"brake"}) ELSE waited
  IN  [pressed EXCEPT !.gear = command.gear, !.pressed = command.pressed]

Asserted(a) == {i \in Inputs : a.pulse[i] > 0}

-----------------------------------------------------------------------------
(* The plugin's handlers *)

\* What the bridge can ask for: a push at any position, and at none after a
\* reset, since the decoder remembers the position it saw last and takes a push
\* from any report, and the gate admits both together.
Commands ==
  [gear : Gears \cup {Unknown}, pressed : IF Presses THEN BOOLEAN ELSE {FALSE}]

NoCommand == [gear |-> Unknown, pressed |-> FALSE]

Init ==
  /\ actions = NewActions /\ desired = NoCommand
  /\ output = {} /\ gap = 0
  /\ brake \in {"on", "off"} /\ parking = Unknown /\ lag = 0
  /\ credit = 0 /\ want = Unknown /\ settle = 0 /\ split = FALSE

\* InputGate::accept, when the gate is ready.
Accept(command) ==
  /\ desired' = command
  /\ UNCHANGED <<actions, output, gap, gameVars, historyVars>>

\* InputGate::invalidate.
Invalidate ==
  /\ actions' = NewActions /\ desired' = NoCommand
  /\ want' = Unknown
  /\ UNCHANGED <<output, gap, gameVars, credit, settle, split>>

\* What the driver has done with the lever since the last frame.
EntersPark == desired.gear = "P" /\ actions.gear # "P"
LeavesPark == desired.gear # "P" /\ actions.gear = "P"
Pushes     == desired.pressed /\ ~actions.pressed

TimedOut ==
  LET taken == Taken(actions, desired) IN
  taken.park_wait >= ACK \/ taken.release_park_wait >= ACK

\* An invalidation made the plugin forget a toggle that has not settled.
Forgotten == settle > actions.quiet

\* A press of the game's input: asserted in a frame after one without it.
BrakePressed == "brake" \in output' \ output

\* The game takes the inputs of a frame, and toggles its brake on a press.
GameTakesInput ==
  /\ brake' = IF ~BrakePressed THEN brake
              ELSE IF brake = "on" THEN "off" ELSE "on"
  /\ gap' = 0
  /\ UNCHANGED <<parking, lag>>

\* InputGate::outputs.
Frame ==
  /\ actions' = Applied(actions, desired, parking)
  /\ output' = Asserted(actions')
  /\ GameTakesInput
  /\ LET entered == EntersPark \/ LeavesPark \/ Pushes IN
     credit' = IF ~BrakePressed THEN (IF entered THEN 1 ELSE credit)
               ELSE IF entered THEN 0 ELSE IF credit = 1 THEN 0 ELSE -1
  /\ settle' = IF actions'.quiet = REPEAT THEN REPEAT ELSE settle
  /\ want' = IF Pushes \/ TimedOut \/ Forgotten \/ desired.gear = Unknown
             THEN Unknown
             ELSE IF EntersPark THEN "on"
             ELSE IF LeavesPark THEN "off" ELSE want
  /\ UNCHANGED <<desired, split>>

\* input_callback when the worker has the mutex: a frame without any input.
FrameContended ==
  /\ Contention
  /\ output' = {}
  /\ GameTakesInput
  /\ split' = (split \/ actions.pulse["brake"] > 0)
  /\ UNCHANGED <<pluginVars, credit, want, settle>>

-----------------------------------------------------------------------------
(* The game and time *)

TelemetryReports ==
  /\ parking' = brake /\ lag' = 0
  /\ UNCHANGED <<pluginVars, output, gap, brake, historyVars>>

\* The channel reports that it has no value.
TelemetryLost ==
  /\ parking' = Unknown /\ lag' = 0
  /\ UNCHANGED <<pluginVars, output, gap, brake, historyVars>>

Wrong == parking \notin {brake, Unknown}

\* Mutant of Down: a deadline that has passed is not cleared.
DownPast(n) == n - 1

Down(n) == IF n = 0 THEN 0 ELSE n - 1
Up(n) == IF n = NotSet \/ n = ACK THEN n ELSE n + 1

Tick ==
  /\ gap < MaxGap /\ (Wrong => lag < Lag)
  /\ gap' = gap + 1
  /\ lag' = IF Wrong THEN lag + 1 ELSE 0
  /\ actions' = [actions EXCEPT
       !.pulse = [i \in Inputs |-> Down(@[i])],
       !.quiet = Down(@),
       !.park_wait = Up(@),
       !.release_park_wait = Up(@)]
  /\ settle' = Down(settle)
  /\ UNCHANGED <<desired, output, brake, parking, credit, want, split>>

Next ==
  \/ \E command \in Commands : Accept(command)
  \/ Invalidate
  \/ Frame \/ FrameContended
  \/ TelemetryReports \/ TelemetryLost
  \/ Tick

Spec == Init /\ [][Next]_vars

\* The game calls for input every frame, not every call finds the mutex taken,
\* and its telemetry is never late for ever.
FairSpec ==
  Spec /\ WF_vars(Frame) /\ WF_vars(TelemetryReports) /\ WF_vars(Tick)

-----------------------------------------------------------------------------
(* Properties *)

Waits == {NotSet} \cup 0..ACK

\* Every variable keeps its type.
TypeOK ==
  /\ actions \in
       [gear : Lower \cup {"P", Unknown}, pressed : BOOLEAN,
        pulse : [Inputs -> 0..PULSE], quiet : 0..REPEAT,
        park_wait : Waits, release_park_wait : Waits]
  /\ desired \in Commands
  /\ output \in SUBSET Inputs /\ gap \in 0..MaxGap
  /\ brake \in {"on", "off"} /\ parking \in {"on", "off", Unknown}
  /\ lag \in 0..Lag
  /\ credit \in -1..1 /\ want \in {"on", "off", Unknown}
  /\ settle \in 0..REPEAT /\ split \in BOOLEAN

\* The game is never asked for two gears at once, however fast the lever moves
\* through its positions while the pulse of the last one still runs.
OneGear ==
  \A i, j \in output \cap Lower : i = j

\* The selector is never waiting both to apply and to release the brake, so it
\* cannot answer one movement with two toggles.
OneWait ==
  actions.park_wait = NotSet \/ actions.release_park_wait = NotSet

\* Each press of the brake that the game sees answers an entry or an exit of P,
\* or a push below D, and each of those is answered at most once.
\* docs/controls-en.md:57-58: "Toggle the parking brake once", "No further
\* parking-brake toggles".
OnePressPerEntry == credit >= 0

\* The same as long as no frame found the mutex taken while the brake was being
\* pressed; such frames at any other time do no harm.
OnePressUnlessSplit == ~split => OnePressPerEntry

\* When the selector's work is over and telemetry has caught up, the brake is as
\* the last entry or exit of P asks for, unless the driver pushed below D since,
\* the lever was lost, the deadline passed without telemetry, the gate was
\* invalidated before an earlier press had settled, or a press was split.
BrakeFollowsLever ==
  /\ want # Unknown /\ ~split
  /\ actions.park_wait = NotSet /\ actions.release_park_wait = NotSet
  => brake = want

\* With telemetry or without, the selector's waits for it end: a toggle is never
\* left to happen at any later time.
WaitsEnd ==
  /\ actions.park_wait # NotSet ~> actions.park_wait = NotSet
  /\ actions.release_park_wait # NotSet ~> actions.release_park_wait = NotSet

-----------------------------------------------------------------------------
(* The inductive invariant behind OneGear and OneWait *)

\* At most one gear's pulse runs: what a later frame asserts is decided now.
OnePulse ==
  \A i, j \in Lower : actions.pulse[i] > 0 /\ actions.pulse[j] > 0 => i = j

IInv == TypeOK /\ OneWait /\ OnePulse /\ OneGear
=============================================================================
