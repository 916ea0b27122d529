--------------------------- MODULE Selector_proof ---------------------------
(***************************************************************************)
(* Proofs about the gear lever and the parking brake: one gear at a time,  *)
(* one wait at a time, one press of the brake per entry and a brake that   *)
(* follows the lever, for every length of the pulses and waits and         *)
(* whatever telemetry, frames and commands do; the last one if telemetry   *)
(* and frames are timely.                                                  *)
(***************************************************************************)
EXTENDS Selector, TLAPS

Pulses == [Inputs -> 0..PULSE]

\* The Actions that the plugin can hold between two calls.
ActionsType ==
  [gear : Lower \cup {"P", Unknown}, pressed : BOOLEAN, pulse : Pulses,
   quiet : 0..REPEAT, park_wait : Waits, release_park_wait : Waits]

\* OneWait and OnePulse, of any Actions.
Exclusive(a) ==
  /\ a.park_wait = NotSet \/ a.release_park_wait = NotSet
  /\ \A i, j \in Lower : a.pulse[i] > 0 /\ a.pulse[j] > 0 => i = j

Sound(a) == a \in ActionsType /\ Exclusive(a)

-----------------------------------------------------------------------------
(* One field at a time: what a change of a field makes of an Actions. *)

LEMMA WaitValues == NotSet \in Waits /\ 0 \in Waits /\ 0 # NotSet
BY SelectorAssumption DEF Waits, NotSet

LEMMA SetPulse ==
  ASSUME NEW a \in ActionsType, NEW p \in Pulses
  PROVE  LET b == [a EXCEPT !.pulse = p] IN
         /\ b \in ActionsType
         /\ b.pulse = p /\ b.gear = a.gear /\ b.pressed = a.pressed
         /\ b.quiet = a.quiet
         /\ b.park_wait = a.park_wait
         /\ b.release_park_wait = a.release_park_wait
BY DEF ActionsType

LEMMA SetQuiet ==
  ASSUME NEW a \in ActionsType, NEW q \in 0..REPEAT
  PROVE  LET b == [a EXCEPT !.quiet = q] IN
         /\ b \in ActionsType
         /\ b.pulse = a.pulse /\ b.gear = a.gear /\ b.pressed = a.pressed
         /\ b.quiet = q
         /\ b.park_wait = a.park_wait
         /\ b.release_park_wait = a.release_park_wait
BY DEF ActionsType

LEMMA SetParkWait ==
  ASSUME NEW a \in ActionsType, NEW w \in Waits
  PROVE  LET b == [a EXCEPT !.park_wait = w] IN
         /\ b \in ActionsType
         /\ b.pulse = a.pulse /\ b.gear = a.gear /\ b.pressed = a.pressed
         /\ b.quiet = a.quiet
         /\ b.park_wait = w
         /\ b.release_park_wait = a.release_park_wait
BY DEF ActionsType

LEMMA SetReleaseWait ==
  ASSUME NEW a \in ActionsType, NEW w \in Waits
  PROVE  LET b == [a EXCEPT !.release_park_wait = w] IN
         /\ b \in ActionsType
         /\ b.pulse = a.pulse /\ b.gear = a.gear /\ b.pressed = a.pressed
         /\ b.quiet = a.quiet
         /\ b.park_wait = a.park_wait
         /\ b.release_park_wait = w
BY DEF ActionsType

LEMMA SetCommand ==
  ASSUME NEW a \in ActionsType, NEW g \in Lower \cup {"P", Unknown},
         NEW p \in BOOLEAN
  PROVE  LET b == [a EXCEPT !.gear = g, !.pressed = p] IN
         /\ b \in ActionsType
         /\ b.pulse = a.pulse /\ b.park_wait = a.park_wait
         /\ b.release_park_wait = a.release_park_wait
<1>1. [a EXCEPT !.gear = g] \in ActionsType
  BY DEF ActionsType
<1>2. [a EXCEPT !.gear = g, !.pressed = p]
        = [[a EXCEPT !.gear = g] EXCEPT !.pressed = p]
  BY DEF ActionsType
<1>3. [[a EXCEPT !.gear = g] EXCEPT !.pressed = p] \in ActionsType
  BY <1>1 DEF ActionsType
<1> QED BY <1>1, <1>2, <1>3 DEF ActionsType

\* Both waits are changed.
WithWaits(a, v, w) == [a EXCEPT !.park_wait = v, !.release_park_wait = w]

LEMMA SetWaits ==
  ASSUME NEW a \in ActionsType, NEW v \in Waits, NEW w \in Waits
  PROVE  /\ WithWaits(a, v, w) \in ActionsType
         /\ WithWaits(a, v, w).pulse = a.pulse
         /\ WithWaits(a, v, w).park_wait = v
         /\ WithWaits(a, v, w).release_park_wait = w
<1> DEFINE b == [a EXCEPT !.park_wait = v]
<1>1. /\ b \in ActionsType /\ b.pulse = a.pulse /\ b.park_wait = v
  BY SetParkWait
<1>2. WithWaits(a, v, w) = [b EXCEPT !.release_park_wait = w]
  BY DEF ActionsType, WithWaits
<1> HIDE DEF b
<1> DEFINE c == [b EXCEPT !.release_park_wait = w]
<1>3. /\ c \in ActionsType /\ c.pulse = b.pulse
      /\ c.park_wait = b.park_wait /\ c.release_park_wait = w
  BY <1>1, SetReleaseWait
<1>4. WithWaits(a, v, w) = c
  BY <1>2
<1> HIDE DEF c
<1> QED BY <1>1, <1>3, <1>4

-----------------------------------------------------------------------------
(* The methods of Actions *)

\* A pulse of some inputs leaves the other pulses and both waits alone.
LEMMA PulsedType ==
  ASSUME NEW a \in ActionsType, NEW inputs \in SUBSET Inputs
  PROVE  /\ Pulsed(a, inputs) \in ActionsType
         /\ \A i \in Inputs : Pulsed(a, inputs).pulse[i]
              = IF i \in inputs THEN PULSE ELSE a.pulse[i]
         /\ Pulsed(a, inputs).park_wait = a.park_wait
         /\ Pulsed(a, inputs).release_park_wait = a.release_park_wait
<1> DEFINE p == [i \in Inputs |-> IF i \in inputs THEN PULSE ELSE a.pulse[i]]
           q == IF "brake" \in inputs THEN REPEAT ELSE a.quiet
           b == [a EXCEPT !.pulse = p]
<1>1. PULSE \in 0..PULSE /\ REPEAT \in 0..REPEAT
  BY SelectorAssumption
<1>2. a.pulse \in Pulses /\ a.quiet \in 0..REPEAT
  BY DEF ActionsType
<1>3. p \in Pulses /\ q \in 0..REPEAT
  BY <1>1, <1>2 DEF Pulses
<1>4. Pulsed(a, inputs) = [b EXCEPT !.quiet = q]
  BY DEF Pulsed, ActionsType
<1>5. \A i \in Inputs : p[i] = IF i \in inputs THEN PULSE ELSE a.pulse[i]
  OBVIOUS
<1> HIDE DEF p, q
<1>6. /\ b \in ActionsType /\ b.pulse = p /\ b.park_wait = a.park_wait
      /\ b.release_park_wait = a.release_park_wait
  BY <1>3, SetPulse
<1> HIDE DEF b
<1>7. /\ [b EXCEPT !.quiet = q] \in ActionsType
      /\ [b EXCEPT !.quiet = q].pulse = b.pulse
      /\ [b EXCEPT !.quiet = q].park_wait = b.park_wait
      /\ [b EXCEPT !.quiet = q].release_park_wait = b.release_park_wait
  BY <1>3, <1>6, SetQuiet
<1> QED BY <1>4, <1>5, <1>6, <1>7

LEMMA PulsedBrake ==
  ASSUME NEW a, Sound(a)
  PROVE  /\ Sound(Pulsed(a, {"brake"}))
         /\ Pulsed(a, {"brake"}).park_wait = a.park_wait
         /\ Pulsed(a, {"brake"}).release_park_wait = a.release_park_wait
<1>1. {"brake"} \in SUBSET Inputs /\ \A i \in Lower : i \in Inputs /\ i # "brake"
  BY DEF Inputs, Lower
<1>2. \A i \in Lower : Pulsed(a, {"brake"}).pulse[i] = a.pulse[i]
  BY <1>1, PulsedType DEF Sound
<1> QED BY <1>1, <1>2, PulsedType DEF Sound, Exclusive

\* The pulse of the lever's new position is the only gear pulse.
LEMMA PulsedGear ==
  ASSUME NEW a \in ActionsType, NEW gears \in SUBSET Lower,
         \A i, j \in gears : i = j,
         NEW b, b = Pulsed(GearsCleared(a), gears)
  PROVE  /\ b \in ActionsType
         /\ \A i, j \in Lower : b.pulse[i] > 0 /\ b.pulse[j] > 0 => i = j
         /\ b.park_wait = a.park_wait
         /\ b.release_park_wait = a.release_park_wait
<1> DEFINE p == [i \in Inputs |-> IF i \in Lower THEN 0 ELSE a.pulse[i]]
           c == [a EXCEPT !.pulse = p]
<1>1. p \in Pulses
  BY SelectorAssumption DEF ActionsType, Pulses
<1>2. GearsCleared(a) = c
  BY DEF GearsCleared, ActionsType
<1>3. \A i \in Lower : p[i] = 0
  BY DEF Inputs, Lower
<1> HIDE DEF p
<1>4. /\ c \in ActionsType /\ c.pulse = p /\ c.park_wait = a.park_wait
      /\ c.release_park_wait = a.release_park_wait
  BY <1>1, SetPulse
<1> HIDE DEF c
<1>5. gears \in SUBSET Inputs /\ Lower \subseteq Inputs
  BY DEF Inputs
<1>6. b = Pulsed(c, gears)
  BY <1>2
<1>7. /\ b \in ActionsType
      /\ \A i \in Inputs : b.pulse[i] = IF i \in gears THEN PULSE ELSE c.pulse[i]
      /\ b.park_wait = c.park_wait /\ b.release_park_wait = c.release_park_wait
  BY <1>4, <1>5, <1>6, PulsedType
<1>8. \A i \in Lower : b.pulse[i] > 0 => i \in gears
  BY <1>3, <1>4, <1>5, <1>7
<1> QED BY <1>4, <1>7, <1>8

\* A movement of the lever ends the wait of the other direction.
LEMMA MovedSound ==
  ASSUME NEW a, Sound(a), NEW gear \in Lower \cup {"P", Unknown}
  PROVE  Sound(Moved(a, gear))
<1> USE WaitValues
<1>1. a \in ActionsType
  BY DEF Sound
<1>2. CASE gear = a.gear
  BY <1>2 DEF Moved
<1>3. CASE gear # a.gear /\ gear = "P"
  <2> DEFINE b == Pulsed(GearsCleared(a), {"N"})
  <2>1. {"N"} \in SUBSET Lower /\ \A i, j \in {"N"} : i = j
    BY DEF Lower
  <2>2. /\ b \in ActionsType
        /\ \A i, j \in Lower : b.pulse[i] > 0 /\ b.pulse[j] > 0 => i = j
    BY <1>1, <2>1, PulsedGear
  <2>3. Moved(a, gear) = WithWaits(b, 0, NotSet)
    BY <1>3 DEF Moved, WithWaits
  <2> HIDE DEF b
  <2>4. LET c == WithWaits(b, 0, NotSet) IN
        /\ c \in ActionsType
        /\ c.pulse = b.pulse /\ c.release_park_wait = NotSet
    BY <2>2, SetWaits
  <2> QED BY <2>2, <2>3, <2>4 DEF Sound, Exclusive
<1>4. CASE gear # a.gear /\ gear # "P"
  <2> DEFINE b == Pulsed(GearsCleared(a), {gear} \cap Lower)
             w == IF gear = Unknown THEN NotSet
                  ELSE IF a.gear = "P" THEN 0 ELSE a.release_park_wait
  <2>1. /\ {gear} \cap Lower \in SUBSET Lower
        /\ \A i, j \in {gear} \cap Lower : i = j
    OBVIOUS
  <2>2. /\ b \in ActionsType
        /\ \A i, j \in Lower : b.pulse[i] > 0 /\ b.pulse[j] > 0 => i = j
        /\ b.release_park_wait = a.release_park_wait
    BY <1>1, <2>1, PulsedGear
  <2>3. w \in Waits
    BY <1>1 DEF ActionsType
  <2>4. Moved(a, gear) = WithWaits(b, NotSet, w)
    BY <1>4, <2>2 DEF Moved, ActionsType, WithWaits
  <2> HIDE DEF b, w
  <2>5. LET c == WithWaits(b, NotSet, w) IN
        /\ c \in ActionsType
        /\ c.pulse = b.pulse /\ c.park_wait = NotSet
    BY <2>2, <2>3, SetWaits
  <2> QED BY <2>2, <2>4, <2>5 DEF Sound, Exclusive
<1> QED BY <1>2, <1>3, <1>4

LEMMA TakenSound ==
  ASSUME NEW a, Sound(a), NEW command, command.gear \in Lower \cup {"P", Unknown}
  PROVE  Sound(Taken(a, command))
<1> DEFINE b == Moved(a, command.gear)
<1>1. Sound(b)
  BY MovedSound
<1> HIDE DEF b
<1>2. LET c == WithWaits(b, NotSet, NotSet) IN
      c \in ActionsType /\ c.pulse = b.pulse /\ c.park_wait = NotSet
  BY <1>1, WaitValues, SetWaits DEF Sound
<1>3. Sound(Overridden(b))
  BY <1>1, <1>2 DEF Overridden, WithWaits, Sound, Exclusive
<1> QED BY <1>1, <1>3 DEF Taken, b

\* Ending a wait, with or without a toggle, starts no other.
LEMMA ParkWaitEnded ==
  ASSUME NEW a, Sound(a)
  PROVE  Sound([a EXCEPT !.park_wait = NotSet])
<1>1. LET b == [a EXCEPT !.park_wait = NotSet] IN
      b \in ActionsType /\ b.pulse = a.pulse /\ b.park_wait = NotSet
  BY WaitValues, SetParkWait DEF Sound
<1> QED BY <1>1 DEF Sound, Exclusive

LEMMA ReleaseWaitEnded ==
  ASSUME NEW a, Sound(a)
  PROVE  Sound([a EXCEPT !.release_park_wait = NotSet])
<1>1. LET b == [a EXCEPT !.release_park_wait = NotSet] IN
      b \in ActionsType /\ b.pulse = a.pulse /\ b.release_park_wait = NotSet
  BY WaitValues, SetReleaseWait DEF Sound
<1> QED BY <1>1 DEF Sound, Exclusive

LEMMA WaitedSound ==
  ASSUME NEW a, Sound(a), NEW gear, NEW settled, NEW observed
  PROVE  /\ Sound(ParkWaited(a, gear, settled, observed))
         /\ Sound(ReleaseWaited(a, settled, observed))
<1> DEFINE toggled == Pulsed(a, {"brake"})
<1>1. Sound(toggled)
  BY PulsedBrake
<1> HIDE DEF toggled
<1>2. /\ Sound([toggled EXCEPT !.park_wait = NotSet])
      /\ Sound([toggled EXCEPT !.release_park_wait = NotSet])
      /\ Sound([a EXCEPT !.park_wait = NotSet])
      /\ Sound([a EXCEPT !.release_park_wait = NotSet])
  BY <1>1, ParkWaitEnded, ReleaseWaitEnded
<1>3. \/ ParkWaited(a, gear, settled, observed) = a
      \/ ParkWaited(a, gear, settled, observed) = [a EXCEPT !.park_wait = NotSet]
      \/ ParkWaited(a, gear, settled, observed)
           = [toggled EXCEPT !.park_wait = NotSet]
  BY DEF ParkWaited, toggled
<1>4. \/ ReleaseWaited(a, settled, observed) = a
      \/ ReleaseWaited(a, settled, observed)
           = [a EXCEPT !.release_park_wait = NotSet]
      \/ ReleaseWaited(a, settled, observed)
           = [toggled EXCEPT !.release_park_wait = NotSet]
  BY DEF ReleaseWaited, toggled
<1> QED BY <1>2, <1>3, <1>4

\* A frame's `apply', from the command to the press.
LEMMA AppliedSound ==
  ASSUME NEW a, Sound(a), NEW command \in Commands, NEW observed
  PROVE  Sound(Applied(a, command, observed))
<1>1. /\ command.gear \in Lower \cup {"P", Unknown}
      /\ command.pressed \in BOOLEAN
  BY SelectorAssumption DEF Commands, Lower
<1> DEFINE taken == Taken(a, command)
           settled == taken.quiet = 0
           parked == ParkWaited(taken, command.gear, settled, observed)
           waited == ReleaseWaited(parked, settled, observed)
           pressed == IF command.pressed /\ ~a.pressed
                      THEN Pulsed(waited, {"brake"}) ELSE waited
<1>2. Sound(taken)
  BY <1>1, TakenSound
<1> HIDE DEF taken, settled
<1>3. Sound(parked)
  BY <1>2, WaitedSound
<1> HIDE DEF parked
<1>4. Sound(waited)
  BY <1>3, WaitedSound
<1> HIDE DEF waited
<1>5. Sound(pressed)
  BY <1>4, PulsedBrake
<1>6. Applied(a, command, observed)
        = [pressed EXCEPT !.gear = command.gear, !.pressed = command.pressed]
  BY DEF Applied, Waited, pressed, waited, parked, settled, taken
<1> HIDE DEF pressed
<1>7. LET b == [pressed EXCEPT !.gear = command.gear,
                               !.pressed = command.pressed] IN
      /\ b \in ActionsType
      /\ b.pulse = pressed.pulse /\ b.park_wait = pressed.park_wait
      /\ b.release_park_wait = pressed.release_park_wait
  BY <1>1, <1>5, SetCommand DEF Sound
<1> QED BY <1>5, <1>6, <1>7 DEF Sound, Exclusive

LEMMA NewActionsSound == Sound(NewActions)
<1>1. [i \in Inputs |-> 0] \in Pulses
  BY SelectorAssumption DEF Pulses
<1>2. NewActions \in ActionsType
  BY <1>1, WaitValues, SelectorAssumption DEF NewActions, ActionsType
<1> QED BY <1>2 DEF Sound, Exclusive, NewActions, Inputs

\* Time takes every deadline and wait further, and starts none.
LEMMA TickSound ==
  ASSUME NEW a, Sound(a),
         NEW b, b = [a EXCEPT !.pulse = [i \in Inputs |-> Down(@[i])],
                              !.quiet = Down(@),
                              !.park_wait = Up(@),
                              !.release_park_wait = Up(@)]
  PROVE  Sound(b)
<1> USE SelectorAssumption
<1>1. a \in ActionsType
  BY DEF Sound
<1> DEFINE p == [i \in Inputs |-> Down(a.pulse[i])]
           q == Down(a.quiet)
           v == Up(a.park_wait)
           w == Up(a.release_park_wait)
           c == [a EXCEPT !.pulse = p]
           d == [c EXCEPT !.quiet = q]
           e == WithWaits(d, v, w)
<1>2. b = e
  BY <1>1 DEF ActionsType, WithWaits
<1>3. \A n \in 0..PULSE : Down(n) \in 0..PULSE /\ (Down(n) > 0 => n > 0)
  BY DEF Down
<1>4. p \in Pulses
  BY <1>1, <1>3 DEF ActionsType, Pulses
<1>5. \A i \in Lower : p[i] > 0 => a.pulse[i] > 0
  BY <1>1, <1>3 DEF ActionsType, Pulses, Inputs
<1>6. q \in 0..REPEAT
  BY <1>1 DEF ActionsType, Down
<1>7. \A x \in Waits : Up(x) \in Waits /\ (x = NotSet => Up(x) = NotSet)
  BY DEF Waits, Up, NotSet
<1>8. /\ v \in Waits /\ w \in Waits
      /\ a.park_wait = NotSet => v = NotSet
      /\ a.release_park_wait = NotSet => w = NotSet
  BY <1>1, <1>7 DEF ActionsType
<1> HIDE DEF p, q, v, w
<1>9. c \in ActionsType /\ c.pulse = p
  BY <1>1, <1>4, SetPulse
<1> HIDE DEF c
<1>10. d \in ActionsType /\ d.pulse = p
  BY <1>6, <1>9, SetQuiet
<1> HIDE DEF d
<1>11. /\ e \in ActionsType /\ e.pulse = p
       /\ e.park_wait = v /\ e.release_park_wait = w
  BY <1>8, <1>10, SetWaits
<1> HIDE DEF e
<1>12. \A i, j \in Lower : b.pulse[i] > 0 /\ b.pulse[j] > 0 => i = j
  BY <1>2, <1>5, <1>11 DEF Sound, Exclusive
<1>13. b.park_wait = NotSet \/ b.release_park_wait = NotSet
  BY <1>2, <1>8, <1>11 DEF Sound, Exclusive
<1> QED BY <1>2, <1>11, <1>12, <1>13 DEF Sound, Exclusive

-----------------------------------------------------------------------------
(* The invariant *)

\* IInv, of the plugin's part and of the rest.
LEMMA Parts ==
  IInv <=>
    /\ Sound(actions) /\ OneGear
    /\ desired \in Commands
    /\ output \in SUBSET Inputs /\ gap \in 0..MaxGap
    /\ brake \in {"on", "off"} /\ parking \in {"on", "off", Unknown}
    /\ lag \in 0..Lag
    /\ credit \in -1..1 /\ want \in {"on", "off", Unknown}
    /\ settle \in 0..REPEAT /\ split \in BOOLEAN
BY DEF IInv, TypeOK, OneWait, OnePulse, Sound, Exclusive, ActionsType, Pulses

LEMMA PartsPrimed ==
  IInv' <=>
    /\ Sound(actions') /\ OneGear'
    /\ desired' \in Commands
    /\ output' \in SUBSET Inputs /\ gap' \in 0..MaxGap
    /\ brake' \in {"on", "off"} /\ parking' \in {"on", "off", Unknown}
    /\ lag' \in 0..Lag
    /\ credit' \in -1..1 /\ want' \in {"on", "off", Unknown}
    /\ settle' \in 0..REPEAT /\ split' \in BOOLEAN
BY DEF IInv, TypeOK, OneWait, OnePulse, Sound, Exclusive, ActionsType, Pulses

LEMMA NoCommandType == NoCommand \in Commands
BY DEF NoCommand, Commands

\* A frame gives at most the one gear whose pulse runs.
LEMMA FramePreserves ==
  ASSUME IInv, Frame
  PROVE  IInv'
<1>1. Sound(actions')
  BY Parts, AppliedSound DEF Frame
<1>2. OneGear' /\ output' \in SUBSET Inputs
  BY <1>1 DEF OneGear, Asserted, Frame, Sound, Exclusive
<1>3. gap' \in 0..MaxGap
  BY SelectorAssumption DEF Frame, GameTakesInput
<1>4. brake' \in {"on", "off"}
  BY Parts DEF Frame, GameTakesInput
<1>5. credit' \in -1..1
  BY Parts DEF Frame
<1>6. want' \in {"on", "off", Unknown}
  BY Parts DEF Frame
<1>7. settle' \in 0..REPEAT
  BY Parts, SelectorAssumption DEF Frame
<1>8. UNCHANGED <<desired, parking, lag, split>>
  BY DEF Frame, GameTakesInput
<1> QED BY <1>1, <1>2, <1>3, <1>4, <1>5, <1>6, <1>7, <1>8, Parts, PartsPrimed

\* Every step keeps the invariant.
LEMMA Preserved ==
  ASSUME IInv, [Next]_vars
  PROVE  IInv'
<1> USE SelectorAssumption
<1>1. ASSUME NEW command \in Commands, Accept(command)
      PROVE  IInv'
  <2>1. UNCHANGED <<actions, output, gap, gameVars, historyVars>>
    BY <1>1 DEF Accept
  <2>2. desired' \in Commands
    BY <1>1 DEF Accept
  <2> QED BY <2>1, <2>2, Parts, PartsPrimed DEF gameVars, historyVars, OneGear
<1>2. CASE Invalidate
  <2>1. Sound(actions')
    BY <1>2, NewActionsSound DEF Invalidate
  <2>2. desired' \in Commands /\ want' \in {"on", "off", Unknown}
    BY <1>2, NoCommandType DEF Invalidate
  <2>3. UNCHANGED <<output, gap, gameVars, credit, settle, split>>
    BY <1>2 DEF Invalidate
  <2> QED BY <2>1, <2>2, <2>3, Parts, PartsPrimed DEF gameVars, OneGear
<1>3. CASE Frame
  BY <1>3, FramePreserves
<1>4. CASE FrameContended
  <2>1. /\ output' = {} /\ gap' = 0 /\ brake' \in {"on", "off"}
        /\ UNCHANGED <<parking, lag>>
    BY <1>4, Parts DEF FrameContended, GameTakesInput
  <2>2. UNCHANGED <<pluginVars, credit, want, settle>>
    BY <1>4 DEF FrameContended
  <2>3. split' \in BOOLEAN
    BY <1>4 DEF FrameContended
  <2> QED BY <2>1, <2>2, <2>3, Parts, PartsPrimed DEF pluginVars, historyVars, OneGear
<1>5. CASE TelemetryReports \/ TelemetryLost
  <2>1. /\ parking' \in {"on", "off", Unknown} /\ lag' \in 0..Lag
        /\ UNCHANGED <<pluginVars, output, gap, brake, historyVars>>
    BY <1>5, Parts DEF TelemetryReports, TelemetryLost
  <2> QED BY <2>1, Parts, PartsPrimed DEF pluginVars, historyVars, OneGear
<1>6. CASE Tick
  <2>1. Sound(actions')
    BY <1>6, Parts, TickSound DEF Tick
  <2>2. gap' \in 0..MaxGap /\ lag' \in 0..Lag
    BY <1>6, Parts DEF Tick
  <2>3. settle' \in 0..REPEAT
    <3>1. settle \in 0..REPEAT /\ settle' = Down(settle)
      BY <1>6, Parts DEF Tick
    <3> QED BY <3>1 DEF Down
  <2>4. UNCHANGED <<desired, output, brake, parking, credit, want, split>>
    BY <1>6 DEF Tick
  <2> QED BY <2>1, <2>2, <2>3, <2>4, Parts, PartsPrimed DEF OneGear
<1>7. CASE UNCHANGED vars
  BY <1>7, Parts, PartsPrimed DEF vars, pluginVars, gameVars, historyVars, OneGear
<1> QED BY <1>1, <1>2, <1>3, <1>4, <1>5, <1>6, <1>7 DEF Next

\* The invariant holds throughout.
LEMMA Inductive == Spec => []IInv
<1>1. Init => IInv
  <2> SUFFICES ASSUME Init PROVE IInv
    OBVIOUS
  <2>1. Sound(actions) /\ desired \in Commands
    BY NewActionsSound, NoCommandType DEF Init
  <2>2. OneGear /\ output \in SUBSET Inputs
    BY DEF Init, OneGear
  <2>3. gap \in 0..MaxGap /\ lag \in 0..Lag /\ settle \in 0..REPEAT
    BY SelectorAssumption DEF Init
  <2>4. /\ brake \in {"on", "off"} /\ parking \in {"on", "off", Unknown}
        /\ credit \in -1..1 /\ want \in {"on", "off", Unknown}
    BY DEF Init
  <2>5. split \in BOOLEAN
    BY DEF Init
  <2> QED BY <2>1, <2>2, <2>3, <2>4, <2>5, Parts
<1>2. IInv /\ [Next]_vars => IInv'
  BY Preserved
<1> QED BY <1>1, <1>2, PTL DEF Spec

-----------------------------------------------------------------------------
(* Theorems *)

\* Every variable of the selector keeps its type: no deadline of actions.rs is
\* ever later than the constant that sets it.
THEOREM TypeCorrect == Spec => []TypeOK
<1>1. IInv => TypeOK
  BY DEF IInv
<1> QED BY <1>1, Inductive, PTL

\* The game is never asked for two gears in one frame (actions.rs, `apply').
THEOREM NeverTwoGears == Spec => []OneGear
<1>1. IInv => OneGear
  BY DEF IInv
<1> QED BY <1>1, Inductive, PTL

\* The waits to apply and to release the brake are never pending together
\* (actions.rs, `apply').
THEOREM NeverTwoWaits == Spec => []OneWait
<1>1. IInv => OneWait
  BY DEF IInv
<1> QED BY <1>1, Inductive, PTL

-----------------------------------------------------------------------------
(* What the methods of Actions do to the brake: its pulse, the time until it *)
(* has settled, and the two waits.                                           *)

SameBrake(a, b) ==
  b.pulse["brake"] = a.pulse["brake"] /\ b.quiet = a.quiet

\* The brake is toggled, whatever it was before.
Toggled(b) == b.pulse["brake"] = PULSE /\ b.quiet = REPEAT

SameWaits(a, b) ==
  b.park_wait = a.park_wait /\ b.release_park_wait = a.release_park_wait

NoWaits(a) == a.park_wait = NotSet /\ a.release_park_wait = NotSet

SameLever(a, b) == b.gear = a.gear /\ b.pressed = a.pressed

\* `pulse' of some inputs.
LEMMA PulsedIs ==
  ASSUME NEW a \in ActionsType, NEW inputs \in SUBSET Inputs
  PROVE  LET b == Pulsed(a, inputs) IN
         /\ b \in ActionsType /\ SameWaits(a, b) /\ SameLever(a, b)
         /\ IF "brake" \in inputs THEN Toggled(b) ELSE SameBrake(a, b)
<1> DEFINE p == [i \in Inputs |-> IF i \in inputs THEN PULSE ELSE a.pulse[i]]
           q == IF "brake" \in inputs THEN REPEAT ELSE a.quiet
           b == [a EXCEPT !.pulse = p]
           c == [b EXCEPT !.quiet = q]
<1>1. p \in Pulses /\ q \in 0..REPEAT
  BY SelectorAssumption DEF ActionsType, Pulses
<1>2. p["brake"] = IF "brake" \in inputs THEN PULSE ELSE a.pulse["brake"]
  BY DEF Inputs
<1>3. Pulsed(a, inputs) = c
  BY DEF Pulsed, ActionsType
<1> HIDE DEF p
<1>4. b \in ActionsType /\ b.pulse = p /\ b.quiet = a.quiet
      /\ SameWaits(a, b) /\ SameLever(a, b)
  BY <1>1, SetPulse DEF SameWaits, SameLever
<1> HIDE DEF b, q
<1>5. c \in ActionsType /\ c.pulse = b.pulse /\ c.quiet = q
      /\ SameWaits(b, c) /\ SameLever(b, c)
  BY <1>1, <1>4, SetQuiet DEF SameWaits, SameLever
<1> HIDE DEF c
<1> QED BY <1>2, <1>3, <1>4, <1>5
        DEF q, SameBrake, Toggled, SameWaits, SameLever

\* Both waits are changed, and nothing else.
LEMMA WithWaitsIs ==
  ASSUME NEW a \in ActionsType, NEW v \in Waits, NEW w \in Waits
  PROVE  LET b == WithWaits(a, v, w) IN
         /\ b \in ActionsType /\ SameBrake(a, b) /\ SameLever(a, b)
         /\ b.park_wait = v /\ b.release_park_wait = w
<1> DEFINE b == [a EXCEPT !.park_wait = v]
           c == [b EXCEPT !.release_park_wait = w]
<1>1. b \in ActionsType /\ b.park_wait = v /\ SameBrake(a, b) /\ SameLever(a, b)
  BY SetParkWait DEF SameBrake, SameLever
<1> HIDE DEF b
<1>2. c \in ActionsType /\ c.park_wait = v /\ c.release_park_wait = w
      /\ SameBrake(a, c) /\ SameLever(a, c)
  BY <1>1, SetReleaseWait DEF SameBrake, SameLever
<1>3. WithWaits(a, v, w) = c
  BY DEF WithWaits, ActionsType, b
<1> HIDE DEF c
<1> QED BY <1>2, <1>3

\* A movement of the lever presses gears, never the brake; what it asks of the
\* brake is only waited for.
LEMMA MovedIs ==
  ASSUME NEW a \in ActionsType, NEW gear \in Lower \cup {"P", Unknown}
  PROVE  LET b == Moved(a, gear) IN
         /\ b \in ActionsType /\ SameBrake(a, b) /\ b.pressed = a.pressed
         /\ \/ gear = a.gear /\ SameWaits(a, b)
            \/ /\ gear # a.gear /\ gear = "P"
               /\ b.park_wait = 0 /\ b.release_park_wait = NotSet
            \/ /\ gear # a.gear /\ gear # "P" /\ b.park_wait = NotSet
               /\ b.release_park_wait =
                    IF gear = Unknown THEN NotSet
                    ELSE IF a.gear = "P" THEN 0 ELSE a.release_park_wait
<1> DEFINE p == [i \in Inputs |-> IF i \in Lower THEN 0 ELSE a.pulse[i]]
           c == [a EXCEPT !.pulse = p]
           gears == IF gear = "P" THEN {"N"} ELSE {gear} \cap Lower
           d == Pulsed(c, gears)
           w == IF gear = Unknown THEN NotSet
                ELSE IF a.gear = "P" THEN 0 ELSE a.release_park_wait
<1>1. p \in Pulses /\ p["brake"] = a.pulse["brake"]
  BY SelectorAssumption DEF ActionsType, Pulses, Inputs, Lower
<1>2. GearsCleared(a) = c
  BY DEF GearsCleared, ActionsType
<1> HIDE DEF p
<1>3. c \in ActionsType /\ SameBrake(a, c) /\ SameWaits(a, c) /\ SameLever(a, c)
  BY <1>1, SetPulse DEF SameBrake, SameWaits, SameLever
<1>4. gears \in SUBSET Inputs /\ "brake" \notin gears
  BY DEF Inputs, Lower
<1>5. Moved(a, gear) =
        IF gear = a.gear THEN a
        ELSE IF gear = "P" THEN WithWaits(d, 0, NotSet)
        ELSE WithWaits(d, NotSet, w)
  <2> HIDE DEF c
  <2>1. CASE gear = a.gear
    BY <2>1 DEF Moved
  <2>2. CASE gear # a.gear /\ gear = "P"
    BY <1>2, <2>2 DEF Moved, WithWaits
  <2>3. CASE gear # a.gear /\ gear # "P"
    <3>1. d \in ActionsType /\ SameWaits(a, d)
      BY <1>3, <1>4, PulsedIs DEF SameWaits
    <3> QED BY <1>2, <2>3, <3>1
            DEF Moved, WithWaits, SameWaits, ActionsType
  <2> QED BY <2>1, <2>2, <2>3
<1> HIDE DEF c, gears
<1>6. d \in ActionsType /\ SameBrake(a, d) /\ SameWaits(a, d)
      /\ SameLever(a, d)
  BY <1>3, <1>4, PulsedIs DEF SameBrake, SameWaits, SameLever
<1>7. w \in Waits
  BY WaitValues DEF ActionsType
<1> HIDE DEF d, w
<1>8. /\ LET e == WithWaits(d, 0, NotSet) IN
         /\ e \in ActionsType /\ SameBrake(d, e) /\ SameLever(d, e)
         /\ e.park_wait = 0 /\ e.release_park_wait = NotSet
      /\ LET e == WithWaits(d, NotSet, w) IN
         /\ e \in ActionsType /\ SameBrake(d, e) /\ SameLever(d, e)
         /\ e.park_wait = NotSet /\ e.release_park_wait = w
  BY <1>6, <1>7, WaitValues, WithWaitsIs
<1>9. CASE gear = a.gear
  BY <1>5, <1>9 DEF SameBrake, SameWaits
<1>10. CASE gear # a.gear /\ gear = "P"
  BY <1>5, <1>6, <1>8, <1>10 DEF SameBrake, SameLever
<1>11. CASE gear # a.gear /\ gear # "P"
  BY <1>5, <1>6, <1>8, <1>11 DEF SameBrake, SameLever, w
<1> QED BY <1>9, <1>10, <1>11

\* A command's lever and push.
LEMMA TakenIs ==
  ASSUME NEW a \in ActionsType, NEW command \in Commands
  PROVE  LET b == Taken(a, command)
             m == Moved(a, command.gear) IN
         /\ b \in ActionsType /\ SameBrake(a, b)
         /\ IF command.pressed /\ ~a.pressed THEN NoWaits(b)
            ELSE b = m
<1> DEFINE m == Moved(a, command.gear)
<1>1. command.gear \in Lower \cup {"P", Unknown}
  BY SelectorAssumption DEF Commands, Lower
<1>2. m \in ActionsType /\ SameBrake(a, m)
  BY <1>1, MovedIs
<1> HIDE DEF m
<1>3. LET e == WithWaits(m, NotSet, NotSet) IN
      /\ e \in ActionsType /\ SameBrake(m, e) /\ NoWaits(e)
  BY <1>2, WaitValues, WithWaitsIs DEF NoWaits
<1>4. Overridden(m) = WithWaits(m, NotSet, NotSet)
  BY DEF Overridden, WithWaits
<1> QED BY <1>2, <1>3, <1>4 DEF Taken, m, SameBrake

\* A wait ends with a toggle or without, or goes on.
LEMMA ParkWaitedIs ==
  ASSUME NEW a \in ActionsType, NEW gear, NEW settled \in BOOLEAN, NEW observed
  PROVE  LET b == ParkWaited(a, gear, settled, observed) IN
         /\ b \in ActionsType /\ b.release_park_wait = a.release_park_wait
         /\ \/ /\ SameBrake(a, b) /\ b.park_wait = a.park_wait
               /\ a.park_wait = NotSet \/ ~settled \/ observed = Unknown
            \/ /\ SameBrake(a, b) /\ b.park_wait = NotSet
               /\ a.park_wait # NotSet /\ (gear # "P" \/ a.park_wait >= ACK)
            \/ /\ a.park_wait # NotSet /\ b.park_wait = NotSet
               /\ settled /\ observed # Unknown
               /\ IF observed = "off" THEN Toggled(b) ELSE SameBrake(a, b)
<1> DEFINE t == Pulsed(a, {"brake"})
           decided == IF observed = "off" THEN t ELSE a
           b == ParkWaited(a, gear, settled, observed)
<1>1. t \in ActionsType /\ Toggled(t) /\ SameWaits(a, t)
  BY PulsedIs DEF Inputs
<1>2. CASE a.park_wait = NotSet
  BY <1>2 DEF ParkWaited, SameBrake
<1>3. CASE a.park_wait # NotSet /\ (gear # "P" \/ a.park_wait >= ACK)
  <2>1. b = [a EXCEPT !.park_wait = NotSet]
    BY <1>3 DEF ParkWaited
  <2> HIDE DEF b
  <2> QED BY <1>3, <2>1, WaitValues, SetParkWait DEF SameBrake, b
<1>4. CASE /\ a.park_wait # NotSet /\ ~(gear # "P" \/ a.park_wait >= ACK)
           /\ ~settled \/ observed = Unknown
  BY <1>4 DEF ParkWaited, SameBrake
<1>5. CASE /\ a.park_wait # NotSet /\ ~(gear # "P" \/ a.park_wait >= ACK)
           /\ settled /\ observed # Unknown
  <2>1. b = [decided EXCEPT !.park_wait = NotSet]
    BY <1>5 DEF ParkWaited
  <2>2. /\ decided \in ActionsType /\ SameWaits(a, decided)
        /\ IF observed = "off" THEN Toggled(decided) ELSE SameBrake(a, decided)
    BY <1>1 DEF SameBrake, SameWaits
  <2> HIDE DEF b, decided
  <2>3. /\ b \in ActionsType /\ SameBrake(decided, b) /\ b.park_wait = NotSet
        /\ b.release_park_wait = decided.release_park_wait
    BY <2>1, <2>2, WaitValues, SetParkWait DEF SameBrake
  <2> QED BY <1>5, <2>2, <2>3 DEF SameBrake, SameWaits, Toggled, b
<1> QED BY <1>2, <1>3, <1>4, <1>5

LEMMA ReleaseWaitedIs ==
  ASSUME NEW a \in ActionsType, NEW settled \in BOOLEAN, NEW observed
  PROVE  LET b == ReleaseWaited(a, settled, observed) IN
         /\ b \in ActionsType /\ b.park_wait = a.park_wait
         /\ \/ /\ SameBrake(a, b) /\ b.release_park_wait = a.release_park_wait
               /\ a.release_park_wait = NotSet \/ ~settled \/ observed = Unknown
            \/ /\ SameBrake(a, b) /\ b.release_park_wait = NotSet
               /\ a.release_park_wait # NotSet /\ a.release_park_wait >= ACK
            \/ /\ a.release_park_wait # NotSet /\ b.release_park_wait = NotSet
               /\ settled /\ observed # Unknown
               /\ IF observed = "on" THEN Toggled(b) ELSE SameBrake(a, b)
<1> DEFINE t == Pulsed(a, {"brake"})
           decided == IF observed = "on" THEN t ELSE a
           b == ReleaseWaited(a, settled, observed)
<1>1. t \in ActionsType /\ Toggled(t) /\ SameWaits(a, t)
  BY PulsedIs DEF Inputs
<1>2. CASE a.release_park_wait = NotSet
  BY <1>2 DEF ReleaseWaited, SameBrake
<1>3. CASE a.release_park_wait # NotSet /\ a.release_park_wait >= ACK
  <2>1. b = [a EXCEPT !.release_park_wait = NotSet]
    BY <1>3 DEF ReleaseWaited
  <2> HIDE DEF b
  <2> QED BY <1>3, <2>1, WaitValues, SetReleaseWait DEF SameBrake, b
<1>4. CASE /\ a.release_park_wait # NotSet /\ ~(a.release_park_wait >= ACK)
           /\ ~settled \/ observed = Unknown
  BY <1>4 DEF ReleaseWaited, SameBrake
<1>5. CASE /\ a.release_park_wait # NotSet /\ ~(a.release_park_wait >= ACK)
           /\ settled /\ observed # Unknown
  <2>1. b = [decided EXCEPT !.release_park_wait = NotSet]
    BY <1>5 DEF ReleaseWaited
  <2>2. /\ decided \in ActionsType /\ SameWaits(a, decided)
        /\ IF observed = "on" THEN Toggled(decided) ELSE SameBrake(a, decided)
    BY <1>1 DEF SameBrake, SameWaits
  <2> HIDE DEF b, decided
  <2>3. /\ b \in ActionsType /\ SameBrake(decided, b)
        /\ b.release_park_wait = NotSet /\ b.park_wait = decided.park_wait
    BY <2>1, <2>2, WaitValues, SetReleaseWait DEF SameBrake
  <2> QED BY <1>5, <2>2, <2>3 DEF SameBrake, SameWaits, Toggled, b
<1> QED BY <1>2, <1>3, <1>4, <1>5

\* `apply' as a whole: a push toggles the brake and ends the waits; otherwise it
\* is toggled only where a wait is decided, once the last toggle has settled.
LEMMA AppliedIs ==
  ASSUME NEW a, Sound(a), NEW command \in Commands,
         NEW observed \in {"on", "off", Unknown}
  PROVE  LET b == Applied(a, command, observed)
             t == Taken(a, command) IN
         /\ b \in ActionsType
         /\ b.gear = command.gear /\ b.pressed = command.pressed
         /\ t \in ActionsType
         /\ t.park_wait = NotSet \/ t.release_park_wait = NotSet
         /\ \/ /\ command.pressed /\ ~a.pressed
               /\ Toggled(b) /\ NoWaits(b)
            \/ /\ ~(command.pressed /\ ~a.pressed)
               /\ \/ /\ SameBrake(a, b) /\ SameWaits(t, b)
                     /\ NoWaits(t) \/ a.quiet # 0 \/ observed = Unknown
                  \/ /\ SameBrake(a, b) /\ NoWaits(b) /\ ~NoWaits(t)
                     /\ \/ t.park_wait # NotSet /\ command.gear # "P"
                        \/ t.park_wait >= ACK
                        \/ t.release_park_wait >= ACK
                  \/ /\ NoWaits(b) /\ ~NoWaits(t)
                     /\ a.quiet = 0 /\ observed # Unknown
                     /\ IF observed = (IF t.park_wait # NotSet THEN "on"
                                       ELSE "off")
                        THEN SameBrake(a, b) ELSE Toggled(b)
<1> DEFINE push == command.pressed /\ ~a.pressed
           t == Taken(a, command)
           settled == t.quiet = 0
           parked == ParkWaited(t, command.gear, settled, observed)
           waited == ReleaseWaited(parked, settled, observed)
           pressed == IF push THEN Pulsed(waited, {"brake"}) ELSE waited
           b == [pressed EXCEPT !.gear = command.gear,
                                !.pressed = command.pressed]
<1>1. /\ command.gear \in Lower \cup {"P", Unknown}
      /\ command.pressed \in BOOLEAN
  BY SelectorAssumption DEF Commands, Lower
<1>2. /\ t \in ActionsType /\ SameBrake(a, t) /\ (push => NoWaits(t))
      /\ t.park_wait = NotSet \/ t.release_park_wait = NotSet
  <2>1. Sound(t)
    BY <1>1, TakenSound
  <2>2. SameBrake(a, t) /\ (push => NoWaits(t))
    BY TakenIs DEF Sound
  <2> HIDE DEF t, push
  <2> QED BY <2>1, <2>2 DEF Sound, Exclusive
<1>3. Applied(a, command, observed) = b
  BY DEF Applied, Waited
<1> HIDE DEF t
<1>4. settled \in BOOLEAN /\ (settled <=> a.quiet = 0)
  BY <1>2 DEF SameBrake
<1> HIDE DEF settled
<1>5. /\ parked \in ActionsType
      /\ parked.release_park_wait = t.release_park_wait
      /\ \/ /\ SameBrake(t, parked) /\ parked.park_wait = t.park_wait
            /\ t.park_wait = NotSet \/ ~settled \/ observed = Unknown
         \/ /\ SameBrake(t, parked) /\ parked.park_wait = NotSet
            /\ t.park_wait # NotSet
            /\ command.gear # "P" \/ t.park_wait >= ACK
         \/ /\ t.park_wait # NotSet /\ parked.park_wait = NotSet
            /\ settled /\ observed # Unknown
            /\ IF observed = "off" THEN Toggled(parked) ELSE SameBrake(t, parked)
  BY <1>2, <1>4, ParkWaitedIs
<1> HIDE DEF parked
<1>6. /\ waited \in ActionsType /\ waited.park_wait = parked.park_wait
      /\ \/ /\ SameBrake(parked, waited)
            /\ waited.release_park_wait = parked.release_park_wait
            /\ parked.release_park_wait = NotSet \/ ~settled \/ observed = Unknown
         \/ /\ SameBrake(parked, waited) /\ waited.release_park_wait = NotSet
            /\ parked.release_park_wait # NotSet
            /\ parked.release_park_wait >= ACK
         \/ /\ parked.release_park_wait # NotSet
            /\ waited.release_park_wait = NotSet
            /\ settled /\ observed # Unknown
            /\ IF observed = "on" THEN Toggled(waited)
               ELSE SameBrake(parked, waited)
  BY <1>4, <1>5, ReleaseWaitedIs
<1> HIDE DEF waited
<1>7. /\ pressed \in ActionsType /\ SameWaits(waited, pressed)
      /\ IF push THEN Toggled(pressed) ELSE SameBrake(waited, pressed)
  <2> HIDE DEF push
  <2>1. LET c == Pulsed(waited, {"brake"}) IN
        c \in ActionsType /\ SameWaits(waited, c) /\ Toggled(c)
    BY <1>6, PulsedIs DEF Inputs
  <2>2. SameWaits(waited, waited) /\ SameBrake(waited, waited)
    BY DEF SameWaits, SameBrake
  <2> QED BY <1>6, <2>1, <2>2
<1> HIDE DEF pressed
<1>8. /\ b \in ActionsType /\ b.gear = command.gear /\ b.pressed = command.pressed
      /\ SameWaits(pressed, b) /\ SameBrake(pressed, b)
  BY <1>1, <1>7 DEF ActionsType, SameWaits, SameBrake
<1> HIDE DEF b
\* What has become of the waits and of the brake before the push.
<1>9. CASE NoWaits(t)
  <2>1. SameBrake(a, waited) /\ NoWaits(waited)
    BY <1>2, <1>5, <1>6, <1>9 DEF NoWaits, SameBrake
  <2>2. NoWaits(b) /\ SameWaits(t, b)
    BY <1>7, <1>8, <1>9, <2>1 DEF NoWaits, SameWaits
  <2>3. IF push THEN Toggled(b) ELSE SameBrake(a, b)
    BY <1>7, <1>8, <2>1 DEF SameBrake, Toggled
  <2> QED BY <1>2, <1>3, <1>8, <1>9, <2>2, <2>3 DEF t
<1>10. CASE ~NoWaits(t)
  <2>1. ~push /\ SameBrake(waited, b) /\ SameWaits(waited, b)
    BY <1>2, <1>7, <1>8, <1>10 DEF SameBrake, SameWaits
  <2>2. CASE t.park_wait # NotSet
    <3>1. t.release_park_wait = NotSet
      BY <1>2, <2>2
    <3>2. SameBrake(parked, waited) /\ waited.release_park_wait = NotSet
          /\ waited.park_wait = parked.park_wait
      BY <1>5, <1>6, <3>1
    <3>3. SameWaits(parked, b) /\ SameBrake(parked, b)
          /\ parked.release_park_wait = NotSet
      BY <1>5, <2>1, <3>1, <3>2 DEF SameBrake, SameWaits
    <3>4. CASE /\ SameBrake(t, parked) /\ parked.park_wait = t.park_wait
               /\ ~settled \/ observed = Unknown
      <4>1. SameBrake(a, b) /\ SameWaits(t, b)
        BY <1>2, <3>1, <3>3, <3>4 DEF SameBrake, SameWaits
      <4> QED BY <1>2, <1>3, <1>4, <1>8, <2>1, <3>4, <4>1 DEF t
    <3>5. CASE /\ SameBrake(t, parked) /\ parked.park_wait = NotSet
               /\ command.gear # "P" \/ t.park_wait >= ACK
      <4>1. SameBrake(a, b) /\ NoWaits(b)
        BY <1>2, <3>1, <3>3, <3>5 DEF SameBrake, SameWaits, NoWaits
      <4> QED BY <1>2, <1>3, <1>8, <1>10, <2>1, <2>2, <3>5, <4>1 DEF t
    <3>6. CASE /\ parked.park_wait = NotSet /\ settled /\ observed # Unknown
               /\ IF observed = "off" THEN Toggled(parked)
                  ELSE SameBrake(t, parked)
      <4>1. NoWaits(b)
        BY <3>1, <3>3, <3>6 DEF SameWaits, NoWaits
      <4>2. IF observed = "on" THEN SameBrake(a, b) ELSE Toggled(b)
        BY <1>2, <3>3, <3>6 DEF SameBrake, Toggled
      <4> QED BY <1>2, <1>3, <1>4, <1>8, <1>10, <2>1, <2>2, <3>6, <4>1, <4>2
              DEF t
    <3> QED BY <1>5, <2>2, <3>4, <3>5, <3>6
  <2>3. CASE t.park_wait = NotSet
    <3>1. t.release_park_wait # NotSet
      BY <1>10, <2>3 DEF NoWaits
    <3>2. SameBrake(t, parked) /\ parked.park_wait = NotSet
          /\ parked.release_park_wait = t.release_park_wait
      BY <1>5, <2>3
    <3>3. SameBrake(a, parked) /\ b.park_wait = NotSet
      BY <1>2, <1>6, <2>1, <3>2 DEF SameBrake, SameWaits
    <3>4. CASE /\ SameBrake(parked, waited)
               /\ waited.release_park_wait = parked.release_park_wait
               /\ ~settled \/ observed = Unknown
      <4>1. SameBrake(a, b) /\ SameWaits(t, b)
        BY <2>1, <2>3, <3>2, <3>3, <3>4 DEF SameBrake, SameWaits
      <4> QED BY <1>2, <1>3, <1>4, <1>8, <2>1, <3>4, <4>1 DEF t
    <3>5. CASE /\ SameBrake(parked, waited) /\ waited.release_park_wait = NotSet
               /\ parked.release_park_wait >= ACK
      <4>1. SameBrake(a, b) /\ NoWaits(b)
        BY <2>1, <3>3, <3>5 DEF SameBrake, SameWaits, NoWaits
      <4> QED BY <1>2, <1>3, <1>8, <1>10, <2>1, <3>2, <3>5, <4>1 DEF t
    <3>6. CASE /\ waited.release_park_wait = NotSet /\ settled
               /\ observed # Unknown
               /\ IF observed = "on" THEN Toggled(waited)
                  ELSE SameBrake(parked, waited)
      <4>1. NoWaits(b)
        BY <2>1, <3>3, <3>6 DEF SameWaits, NoWaits
      <4>2. IF observed = "off" THEN SameBrake(a, b) ELSE Toggled(b)
        BY <2>1, <3>3, <3>6 DEF SameBrake, Toggled
      <4> QED BY <1>2, <1>3, <1>4, <1>8, <1>10, <2>1, <2>3, <3>6, <4>1, <4>2
              DEF t
    <3> QED BY <1>6, <3>1, <3>2, <3>4, <3>5, <3>6
  <2> QED BY <2>2, <2>3
<1> QED BY <1>9, <1>10

\* The clocks of the brake and the waits, as long as time takes them.
LEMMA TickIs ==
  ASSUME NEW a \in ActionsType,
         NEW b, b = [a EXCEPT !.pulse = [i \in Inputs |-> Down(@[i])],
                              !.quiet = Down(@),
                              !.park_wait = Up(@),
                              !.release_park_wait = Up(@)]
  PROVE  /\ b.pulse["brake"] = Down(a.pulse["brake"])
         /\ b.quiet = Down(a.quiet) /\ b.gear = a.gear
         /\ b.park_wait = NotSet <=> a.park_wait = NotSet
         /\ b.release_park_wait = NotSet <=> a.release_park_wait = NotSet
<1>1. /\ b.pulse = [i \in Inputs |-> Down(a.pulse[i])]
      /\ b.quiet = Down(a.quiet) /\ b.gear = a.gear
      /\ b.park_wait = Up(a.park_wait)
      /\ b.release_park_wait = Up(a.release_park_wait)
  BY DEF ActionsType
<1>2. \A w \in Waits : Up(w) = NotSet <=> w = NotSet
  BY SelectorAssumption DEF Waits, Up, NotSet
<1> QED BY <1>1, <1>2 DEF Inputs, ActionsType

-----------------------------------------------------------------------------
(* Presses of the brake are accounted for *)

\* A wait is an entry that is still to be answered.  What is pressed is already
\* asserted, so that no press is seen twice; a frame without inputs splits it.
CreditKept ==
  ~split =>
    /\ credit >= 0
    /\ actions.pulse["brake"] > 0 => "brake" \in output
    /\ ~NoWaits(actions) => credit = 1

\* Waits begin where the lever enters or leaves P.
LEMMA WaitsBegin ==
  ASSUME Sound(actions), desired \in Commands,
         ~NoWaits(Taken(actions, desired))
  PROVE  EntersPark \/ LeavesPark \/ ~NoWaits(actions)
<1>1. desired.gear \in Lower \cup {"P", Unknown}
  BY SelectorAssumption DEF Commands, Lower
<1>2. ~NoWaits(Moved(actions, desired.gear))
  BY TakenIs DEF Sound
<1> QED BY <1>1, <1>2, MovedIs
        DEF Sound, NoWaits, SameWaits, EntersPark, LeavesPark

\* A frame presses the brake only when it toggles it: for a push, or for a wait
\* that ends with it.
LEMMA FramePress ==
  ASSUME IInv, Frame, actions.pulse["brake"] > 0 => "brake" \in output
  PROVE  /\ BrakePressed =>
              Toggled(actions') /\ NoWaits(actions')
                /\ (Pushes \/ ~NoWaits(Taken(actions, desired)))
         /\ "brake" \in output' <=> actions'.pulse["brake"] > 0
         /\ ~NoWaits(actions') => ~NoWaits(Taken(actions, desired))
<1>1. /\ Sound(actions) /\ desired \in Commands
      /\ parking \in {"on", "off", Unknown}
      /\ actions' = Applied(actions, desired, parking)
      /\ output' = Asserted(actions')
  BY Parts DEF Frame
<1>2. "brake" \in output' <=> actions'.pulse["brake"] > 0
  BY <1>1 DEF Asserted, Inputs
<1>3. actions.pulse["brake"] \in 0..PULSE
  BY <1>1 DEF Sound, ActionsType, Pulses, Inputs
<1> DEFINE t == Taken(actions, desired)
<1>4. \/ Toggled(actions') /\ NoWaits(actions') /\ (Pushes \/ ~NoWaits(t))
      \/ /\ SameBrake(actions, actions')
         /\ ~NoWaits(actions') => ~NoWaits(t)
  BY <1>1, AppliedIs DEF Pushes, NoWaits, SameWaits
<1> HIDE DEF t
<1>5. BrakePressed => ~SameBrake(actions, actions')
  BY <1>2, <1>3 DEF BrakePressed, SameBrake
<1> QED BY <1>2, <1>4, <1>5 DEF t

LEMMA CreditInit == Init => CreditKept
BY DEF Init, CreditKept, NewActions, NoWaits, Inputs

LEMMA CreditStep == IInv /\ CreditKept /\ [Next]_vars => CreditKept'
<1> SUFFICES ASSUME IInv, CreditKept, [Next]_vars, ~split' PROVE CreditKept'
  BY DEF CreditKept
<1>1. CASE UNCHANGED <<actions, output, credit, split>>
  BY <1>1 DEF CreditKept, NoWaits
<1>2. CASE Invalidate
  BY <1>2 DEF Invalidate, NewActions, CreditKept, NoWaits, Inputs
<1>3. CASE Frame
  <2>1. ~split
    BY <1>3 DEF Frame
  <2>2. /\ credit \in 0..1 /\ credit \in -1..1
        /\ actions.pulse["brake"] > 0 => "brake" \in output
        /\ ~NoWaits(actions) => credit = 1
    BY <2>1, Parts DEF CreditKept
  <2>3. /\ BrakePressed => NoWaits(actions')
                             /\ (Pushes \/ ~NoWaits(Taken(actions, desired)))
        /\ actions'.pulse["brake"] > 0 => "brake" \in output'
        /\ ~NoWaits(actions') => ~NoWaits(Taken(actions, desired))
    BY <1>3, <2>2, FramePress
  <2> DEFINE entered == EntersPark \/ LeavesPark \/ Pushes
  <2>4. ~NoWaits(Taken(actions, desired)) => entered \/ ~NoWaits(actions)
    BY Parts, WaitsBegin
  <2>5. credit' = IF ~BrakePressed THEN (IF entered THEN 1 ELSE credit)
                  ELSE IF entered THEN 0 ELSE IF credit = 1 THEN 0 ELSE -1
    BY <1>3 DEF Frame
  <2>6. CASE BrakePressed
    <3>1. entered \/ credit = 1
      BY <2>2, <2>3, <2>4, <2>6
    <3>2. credit' = 0 /\ NoWaits(actions')
      BY <2>3, <2>5, <2>6, <3>1
    <3> QED BY <2>3, <3>2 DEF CreditKept
  <2>7. CASE ~BrakePressed
    <3>1. credit' >= 0 /\ (entered \/ credit = 1 => credit' = 1)
      BY <2>2, <2>5, <2>7
    <3>2. ~NoWaits(actions') => credit' = 1
      BY <2>2, <2>3, <2>4, <3>1
    <3> QED BY <2>3, <3>1, <3>2 DEF CreditKept
  <2> QED BY <2>6, <2>7
<1>4. CASE FrameContended
  <2>1. /\ ~split /\ ~(actions.pulse["brake"] > 0)
        /\ actions' = actions /\ credit' = credit
    BY <1>4 DEF FrameContended, pluginVars
  <2> QED BY <2>1 DEF CreditKept, NoWaits
<1>5. CASE Tick
  <2>1. /\ output' = output /\ credit' = credit /\ ~split
        /\ NoWaits(actions') <=> NoWaits(actions)
        /\ actions'.pulse["brake"] = Down(actions.pulse["brake"])
    BY <1>5, Parts, TickIs DEF Tick, Sound, NoWaits
  <2>2. actions.pulse["brake"] \in 0..PULSE
    BY Parts DEF Sound, ActionsType, Pulses, Inputs
  <2>3. actions'.pulse["brake"] > 0 => actions.pulse["brake"] > 0
    BY <2>1, <2>2 DEF Down
  <2> QED BY <2>1, <2>3 DEF CreditKept
<1> QED BY <1>1, <1>2, <1>3, <1>4, <1>5
        DEF Next, Accept, TelemetryReports, TelemetryLost, vars, pluginVars,
            historyVars

-----------------------------------------------------------------------------
(* The brake follows the lever *)

\* What the game's telemetry and frames must keep to: it is not wrong for as
\* long as the plugin lets a toggle settle, and in that time there is a frame
\* after the pulse.
Timely == Lag < REPEAT /\ PULSE + MaxGap <= REPEAT

\* Clocks that run together: a pulse and the time it takes to settle, the
\* plugin's memory of that time and what is left of it, the last frame that
\* asserted the brake, and telemetry that has not caught up with the last press.
Clocked ==
  /\ actions.pulse["brake"] > 0 =>
       actions.quiet >= actions.pulse["brake"] + (REPEAT - PULSE)
  /\ actions.quiet <= settle
  /\ want # Unknown => settle = actions.quiet
  /\ "brake" \in output => settle + gap > REPEAT - PULSE
  /\ ~split /\ Wrong => lag + settle >= REPEAT

\* The waits and what they are for.
Followed ==
  /\ actions.park_wait # NotSet => actions.gear = "P"
  /\ actions.release_park_wait # NotSet => actions.gear # "P"
  /\ want # Unknown /\ ~split =>
       /\ actions.park_wait # NotSet => want = "on"
       /\ actions.release_park_wait # NotSet => want = "off"
       /\ NoWaits(actions) => brake = want

FollowInv == Clocked /\ Followed

LEMMA FollowInit == Init => FollowInv
BY SelectorAssumption
   DEF Init, FollowInv, Clocked, Followed, NewActions, Wrong, Inputs

LEMMA FollowTypes ==
  ASSUME IInv
  PROVE  /\ actions.pulse["brake"] \in 0..PULSE /\ actions.quiet \in 0..REPEAT
         /\ settle \in 0..REPEAT /\ gap \in 0..MaxGap /\ lag \in 0..Lag
         /\ PULSE \in Nat /\ REPEAT \in Nat /\ PULSE < REPEAT /\ PULSE > 0
         /\ Lag \in Nat /\ MaxGap \in Nat /\ ACK \in Nat
BY Parts, SelectorAssumption DEF Sound, ActionsType, Pulses, Inputs

\* In a frame in which nothing is left to settle, telemetry that is known is
\* right, and the game sees the brake's input as released.
LEMMA Settled ==
  ASSUME Timely, IInv, Clocked, ~split, settle = 0
  PROVE  parking \in {brake, Unknown} /\ "brake" \notin output
<1>1. ~Wrong
  BY FollowTypes DEF Timely, Clocked
<1>2. "brake" \notin output
  BY FollowTypes DEF Timely, Clocked
<1> QED BY <1>1, <1>2 DEF Wrong

LEMMA FrameClocked ==
  ASSUME IInv, CreditKept, Clocked, Frame
  PROVE  Clocked'
<1>1. /\ settle' = IF actions'.quiet = REPEAT THEN REPEAT ELSE settle
      /\ gap' = 0 /\ parking' = parking /\ lag' = lag /\ split' = split
      /\ brake' = IF ~BrakePressed THEN brake
                  ELSE IF brake = "on" THEN "off" ELSE "on"
      /\ "brake" \in output' <=> actions'.pulse["brake"] > 0
  BY DEF Frame, GameTakesInput, Asserted, Inputs
<1>2. Toggled(actions') \/ SameBrake(actions, actions')
  BY Parts, AppliedIs DEF Frame
<1>3. actions'.pulse["brake"] > 0 =>
        actions'.quiet >= actions'.pulse["brake"] + (REPEAT - PULSE)
  BY <1>2, FollowTypes DEF Clocked, Toggled, SameBrake
<1>4. actions'.quiet <= settle'
  BY <1>1, <1>2, FollowTypes DEF Clocked, Toggled, SameBrake
<1>5. want' # Unknown => settle' = actions'.quiet
  <2>1. want' # Unknown => ~Forgotten
    BY DEF Frame
  <2>2. ~Forgotten => settle = actions.quiet
    BY FollowTypes DEF Forgotten, Clocked
  <2> QED BY <1>1, <1>2, <2>1, <2>2, FollowTypes DEF Toggled, SameBrake
<1>6. "brake" \in output' => settle' + gap' > REPEAT - PULSE
  <2>1. settle' \in 0..REPEAT /\ actions'.pulse["brake"] \in Int
        /\ actions'.quiet \in Int
    BY <1>1, <1>2, FollowTypes DEF Toggled, SameBrake
  <2> QED BY <1>1, <1>3, <1>4, <2>1, FollowTypes
<1>7. ~split' /\ Wrong' => lag' + settle' >= REPEAT
  <2>1. CASE ~split /\ BrakePressed
    <3>1. Toggled(actions')
      BY <2>1, FramePress DEF CreditKept
    <3> QED BY <1>1, <3>1, FollowTypes DEF Toggled
  <2>2. CASE ~split /\ ~BrakePressed
    <3>1. Wrong' <=> Wrong
      BY <1>1, <2>2 DEF Wrong
    <3> QED BY <1>1, <2>2, <3>1, FollowTypes DEF Clocked
  <2> QED BY <1>1, <2>1, <2>2
<1> QED BY <1>3, <1>4, <1>5, <1>6, <1>7 DEF Clocked

\* What the last frame's waits have become of the lever's movement.
LEMMA FrameFollowed ==
  ASSUME Timely, IInv, CreditKept, FollowInv, Frame
  PROVE  Followed'
<1> DEFINE t == Taken(actions, desired)
           m == Moved(actions, desired.gear)
<1>1. /\ Sound(actions) /\ desired \in Commands
      /\ parking \in {"on", "off", Unknown} /\ brake \in {"on", "off"}
      /\ want \in {"on", "off", Unknown}
      /\ actions' = Applied(actions, desired, parking)
      /\ desired' = desired /\ split' = split
      /\ desired.gear \in Lower \cup {"P", Unknown}
  BY Parts, SelectorAssumption DEF Frame, Commands, Lower
<1>2. /\ actions'.gear = desired.gear
      /\ NoWaits(actions') \/ (~Pushes /\ SameWaits(t, actions'))
  BY <1>1, AppliedIs DEF Pushes
<1>3. ~Pushes => t = m
  BY <1>1, TakenIs DEF Sound, Pushes
<1>4. /\ m.park_wait # NotSet =>
           /\ desired.gear = "P"
           /\ EntersPark \/ actions.park_wait # NotSet
      /\ m.release_park_wait # NotSet =>
           /\ desired.gear # "P"
           /\ LeavesPark \/ actions.release_park_wait # NotSet
      /\ NoWaits(m) =>
           /\ ~EntersPark
           /\ LeavesPark => desired.gear = Unknown
           /\ ~LeavesPark /\ desired.gear # Unknown => NoWaits(actions)
  <2>1. /\ actions.park_wait # NotSet => actions.gear = "P"
        /\ actions.release_park_wait # NotSet => actions.gear # "P"
    BY DEF FollowInv, Followed
  <2>2. actions \in ActionsType
    BY <1>1 DEF Sound
  <2> DEFINE g == desired.gear
  <2>3. \/ g = actions.gear /\ SameWaits(actions, m)
        \/ /\ g # actions.gear /\ g = "P"
           /\ m.park_wait = 0 /\ m.release_park_wait = NotSet
        \/ /\ g # actions.gear /\ g # "P" /\ m.park_wait = NotSet
           /\ m.release_park_wait =
                IF g = Unknown THEN NotSet
                ELSE IF actions.gear = "P" THEN 0 ELSE actions.release_park_wait
    BY <1>1, <2>2, MovedIs
  <2> HIDE DEF m
  <2> QED BY <2>1, <2>3, WaitValues
          DEF NoWaits, SameWaits, EntersPark, LeavesPark, Unknown
<1> HIDE DEF m
<1>5. /\ actions'.park_wait # NotSet => actions'.gear = "P"
      /\ actions'.release_park_wait # NotSet => actions'.gear # "P"
  BY <1>2, <1>3, <1>4 DEF NoWaits, SameWaits
<1>6. ASSUME want' # Unknown, ~split'
      PROVE  /\ actions'.park_wait # NotSet => want' = "on"
             /\ actions'.release_park_wait # NotSet => want' = "off"
             /\ NoWaits(actions') => brake' = want'
  <2>1. /\ ~Pushes /\ ~TimedOut /\ ~Forgotten /\ desired.gear # Unknown
        /\ want' = IF EntersPark THEN "on"
                   ELSE IF LeavesPark THEN "off" ELSE want
    BY <1>6 DEF Frame
  <2>2. t = m
    BY <1>3, <2>1
  <2>3. ~(t.park_wait >= ACK) /\ ~(t.release_park_wait >= ACK)
    BY <2>1 DEF TimedOut
  <2>4. ~split /\ ~(EntersPark /\ LeavesPark)
    BY <1>1, <1>6 DEF EntersPark, LeavesPark
  \* What is waited for is what is wanted.
  <2>5. /\ t.park_wait # NotSet => want' = "on"
        /\ t.release_park_wait # NotSet => want' = "off"
        /\ NoWaits(t) => want' = want /\ NoWaits(actions)
    <3>1. /\ ~EntersPark /\ ~LeavesPark => want' = want
          /\ EntersPark => want' = "on" /\ (LeavesPark => want' = "off")
      BY <2>1, <2>4
    <3>2. /\ want # Unknown /\ actions.park_wait # NotSet => want = "on"
          /\ want # Unknown /\ actions.release_park_wait # NotSet => want = "off"
      BY <2>4 DEF FollowInv, Followed
    <3>3. /\ EntersPark => desired.gear = "P"
          /\ LeavesPark => desired.gear # "P"
      BY DEF EntersPark, LeavesPark
    <3> QED BY <1>4, <1>6, <2>1, <2>2, <3>1, <3>2, <3>3
  <2>6. ASSUME NoWaits(actions')
        PROVE  brake' = want'
    <3>1. brake' = IF ~BrakePressed THEN brake
                   ELSE IF brake = "on" THEN "off" ELSE "on"
      BY DEF Frame, GameTakesInput
    <3>2. /\ actions.pulse["brake"] > 0 => "brake" \in output
          /\ "brake" \in output' <=> actions'.pulse["brake"] > 0
          /\ BrakePressed => ~NoWaits(t)
      BY <2>1, <2>4, FramePress DEF CreditKept
    <3>3. CASE NoWaits(t)
      <4>1. want # Unknown /\ want' = want /\ NoWaits(actions)
        BY <1>6, <2>5, <3>3
      <4>2. brake = want
        BY <2>4, <4>1 DEF FollowInv, Followed
      <4> QED BY <3>1, <3>2, <3>3, <4>1, <4>2
    <3>4. CASE ~NoWaits(t)
      <4> DEFINE wanted == IF t.park_wait # NotSet THEN "on" ELSE "off"
      <4>1. /\ actions.quiet = 0 /\ parking # Unknown
            /\ IF parking = wanted THEN SameBrake(actions, actions')
               ELSE Toggled(actions')
        <5>1. ~(t.park_wait # NotSet /\ desired.gear # "P")
          BY <1>4, <2>2
        <5>2. ~SameWaits(t, actions')
          BY <2>6, <3>4 DEF NoWaits, SameWaits
        <5> HIDE DEF t
        <5>3. ~(desired.pressed /\ ~actions.pressed)
          BY <2>1 DEF Pushes
        <5>4. \/ /\ SameBrake(actions, actions') /\ SameWaits(t, actions')
              \/ \/ t.park_wait # NotSet /\ desired.gear # "P"
                 \/ t.park_wait >= ACK
                 \/ t.release_park_wait >= ACK
              \/ /\ actions.quiet = 0 /\ parking # Unknown
                 /\ IF parking = (IF t.park_wait # NotSet THEN "on" ELSE "off")
                    THEN SameBrake(actions, actions') ELSE Toggled(actions')
          BY <1>1, <5>3, AppliedIs DEF t
        <5> QED BY <2>3, <5>1, <5>2, <5>4
      <4>2. wanted = want'
        <5> HIDE DEF t
        <5> QED BY <2>5, <3>4 DEF NoWaits
      <4> HIDE DEF wanted, t
      <4>3. settle = 0
        BY <2>1, <4>1, FollowTypes DEF Forgotten, FollowInv, Clocked
      <4>4. parking = brake /\ "brake" \notin output
        BY <2>4, <4>1, <4>3, Settled DEF FollowInv
      <4>5. actions.pulse["brake"] = 0
        BY <3>2, <4>4, FollowTypes
      <4>6. CASE parking = wanted
        <5>1. ~BrakePressed
          BY <3>2, <4>1, <4>5, <4>6 DEF SameBrake, BrakePressed
        <5> QED BY <3>1, <4>2, <4>4, <4>6, <5>1
      <4>7. CASE parking # wanted
        <5>1. BrakePressed
          BY <3>2, <4>1, <4>4, <4>7, FollowTypes DEF Toggled, BrakePressed
        <5>2. wanted \in {"on", "off"}
          BY DEF wanted
        <5> QED BY <1>1, <3>1, <4>2, <4>4, <4>7, <5>1, <5>2
      <4> QED BY <4>6, <4>7
    <3> QED BY <3>3, <3>4
  <2>7. NoWaits(actions') \/ SameWaits(t, actions')
    BY <1>2
  <2> HIDE DEF t
  <2> QED BY <2>5, <2>6, <2>7 DEF NoWaits, SameWaits
<1> QED BY <1>5, <1>6 DEF Followed

LEMMA TickFollow ==
  ASSUME IInv, FollowInv, Tick
  PROVE  FollowInv'
<1>1. /\ actions'.pulse["brake"] = Down(actions.pulse["brake"])
      /\ actions'.quiet = Down(actions.quiet)
      /\ actions'.gear = actions.gear
      /\ actions'.park_wait = NotSet <=> actions.park_wait = NotSet
      /\ actions'.release_park_wait = NotSet
           <=> actions.release_park_wait = NotSet
  BY Parts, TickIs DEF Tick, Sound
<1>2. /\ settle' = Down(settle) /\ gap' = gap + 1
      /\ lag' = IF Wrong THEN lag + 1 ELSE 0
      /\ UNCHANGED <<output, brake, parking, want, split>>
  BY DEF Tick
<1>3. Wrong' <=> Wrong
  BY <1>2 DEF Wrong
<1>4. actions'.pulse["brake"] > 0 =>
        actions'.quiet >= actions'.pulse["brake"] + (REPEAT - PULSE)
  BY <1>1, FollowTypes DEF FollowInv, Clocked, Down
<1>5. /\ actions'.quiet <= settle'
      /\ want' # Unknown => settle' = actions'.quiet
  BY <1>1, <1>2, FollowTypes DEF FollowInv, Clocked, Down
<1>6. "brake" \in output' => settle' + gap' > REPEAT - PULSE
  BY <1>2, FollowTypes DEF FollowInv, Clocked, Down
<1>7. ~split' /\ Wrong' => lag' + settle' >= REPEAT
  BY <1>2, <1>3, FollowTypes DEF FollowInv, Clocked, Down
<1>8. Followed'
  BY <1>1, <1>2 DEF FollowInv, Followed, NoWaits
<1> QED BY <1>4, <1>5, <1>6, <1>7, <1>8 DEF FollowInv, Clocked

LEMMA FollowStep ==
  ASSUME Timely, IInv, CreditKept, FollowInv, [Next]_vars
  PROVE  FollowInv'
<1>1. ASSUME NEW command \in Commands, Accept(command)
      PROVE  FollowInv'
  BY <1>1 DEF Accept, gameVars, historyVars, FollowInv, Clocked, Followed,
              Wrong, NoWaits
<1>2. CASE Invalidate
  <2>1. /\ actions' = NewActions /\ want' = Unknown
        /\ UNCHANGED <<output, gap, brake, parking, lag, settle, split>>
    BY <1>2 DEF Invalidate, gameVars
  <2>2. /\ actions'.pulse["brake"] = 0 /\ actions'.quiet = 0
        /\ actions'.park_wait = NotSet /\ actions'.release_park_wait = NotSet
    BY <2>1 DEF NewActions, Inputs
  <2>3. Wrong' <=> Wrong
    BY <2>1 DEF Wrong
  <2> QED BY <2>1, <2>2, <2>3, FollowTypes DEF FollowInv, Clocked, Followed
<1>3. CASE Frame
  BY <1>3, FrameClocked, FrameFollowed DEF FollowInv
<1>4. CASE FrameContended
  <2>1. /\ output' = {} /\ gap' = 0 /\ brake' = brake
        /\ UNCHANGED <<actions, parking, lag, want, settle>>
        /\ split => split'
    BY <1>4 DEF FrameContended, GameTakesInput, BrakePressed, pluginVars
  <2> QED BY <2>1 DEF FollowInv, Clocked, Followed, Wrong, NoWaits
<1>5. CASE TelemetryReports \/ TelemetryLost
  <2>1. /\ ~Wrong' /\ UNCHANGED <<actions, output, gap, brake, want, settle>>
        /\ split' = split
    BY <1>5 DEF TelemetryReports, TelemetryLost, Wrong, pluginVars, historyVars
  <2> QED BY <2>1 DEF FollowInv, Clocked, Followed, NoWaits
<1>6. CASE Tick
  BY <1>6, TickFollow
<1>7. CASE UNCHANGED vars
  BY <1>7 DEF vars, pluginVars, gameVars, historyVars, FollowInv, Clocked,
              Followed, Wrong, NoWaits
<1> QED BY <1>1, <1>2, <1>3, <1>4, <1>5, <1>6, <1>7 DEF Next

\* Each press of the brake that the game sees answers an entry or an exit of P
\* or a push below D, and each of those is answered at most once, unless a frame
\* without inputs fell into a press (actions.rs, `apply').
THEOREM OnePressEach == Spec => []OnePressUnlessSplit
<1>1. CreditKept => OnePressUnlessSplit
  BY DEF CreditKept, OnePressUnlessSplit, OnePressPerEntry
<1> QED BY <1>1, Inductive, CreditInit, CreditStep, PTL DEF Spec

\* Once the selector's work is over, the brake is as the last entry or exit of P
\* asked for, if telemetry and frames are no slower than the plugin takes them to
\* be (actions.rs, `apply': what is decided, is decided on telemetry of a brake
\* that has settled).
THEOREM BrakeIsAsWanted ==
  ASSUME Timely
  PROVE  Spec => []BrakeFollowsLever
<1>1. FollowInv => BrakeFollowsLever
  BY DEF FollowInv, Followed, BrakeFollowsLever, NoWaits
<1>2. IInv /\ CreditKept /\ FollowInv /\ [Next]_vars => FollowInv'
  BY FollowStep
<1> QED BY <1>1, <1>2, Inductive, CreditInit, CreditStep, FollowInit, PTL DEF Spec
=============================================================================
