------------------------------- MODULE Cruise -------------------------------
(***************************************************************************)
(* Cruise control in the DLL (the part of Actions that Selector leaves     *)
(* out): ON/OFF and the pull become one pulse each, up and down repeat     *)
(* while they are held, and the automatic adjustment steps the game's set  *)
(* speed towards the road limit, waiting for telemetry after each step.    *)
(*                                                                         *)
(* The game's side is modelled from how the plugin uses it: its set speed  *)
(* changes on a press, which is a frame with the input after one without,  *)
(* and telemetry reports it up to Lag ticks late.  Its driver may change   *)
(* the set speed with the keyboard too.  Frames are at most MaxGap ticks   *)
(* apart.                                                                  *)
(***************************************************************************)
EXTENDS CruiseUnit

Speed    == {"up", "down"}
Inputs   == {"toggle", "resume"} \cup Speed
Engaging == {"toggle", "resume", "pull"}

CONSTANTS
  Unit,             \* the unit the installer chose
  PULSE, REPEAT, ACK,   \* in ticks
  Lag, MaxGap,      \* in ticks; bounds on telemetry and on frames
  Drivers,          \* what a driver uses of the stalks, what speeds he sets
                    \* otherwise, and whether frames may find the mutex taken
  Speeds,           \* the speeds the game can be set to, in units
  Limits            \* the road limits on the way, in units

ASSUME CruiseAssumption ==
  /\ Unit \in Units
  /\ PULSE \in Nat \ {0} /\ REPEAT \in Nat /\ ACK \in Nat
  /\ PULSE < REPEAT /\ REPEAT < ACK
  /\ Lag \in Nat /\ MaxGap \in Nat
  /\ Speeds \subseteq Nat \ {0} /\ Limits \subseteq Nat \ {0}
  /\ Drivers \subseteq
       [uses : SUBSET (Inputs \cup {"pull", "auto"}),
        keyboard : SUBSET ({0} \cup Speeds), contention : BOOLEAN]

VARIABLES
  driver,      \* which of Drivers it is; never changes
  actions,     \* the plugin's Actions
  desired,     \* the last accepted command
  output,      \* the inputs the last frame asserted
  gap,         \* ticks since the last frame
  motion,      \* the samples of the set speed and the road limit
  set,         \* the game's set speed in units, 0 when cruise is off
  lag,         \* ticks for which the sample of the set speed has been wrong
  \* History, which no step of the program depends on:
  trend,       \* direction of the last automatic step towards this target
  keyed,       \* whether the keyboard was used since the last report
  own          \* the reported set speed that the keyboard has no part in

historyVars == <<trend, keyed, own>>
vars == <<driver, actions, desired, output, gap, motion, set, lag, historyVars>>

-----------------------------------------------------------------------------
(* Actions *)

UNKNOWN_NUMBER == -1     \* abstracts i32::MIN: no sample, or an old one
NotSet == -1             \* Option::None
NoStep == [before |-> NotSet, sent |-> NotSet, sign |-> 0]


NewActions ==
  [previous |-> {}, pulse |-> [i \in Inputs |-> 0], repeat |-> NotSet,
   automatic |-> FALSE, auto_target |-> NotSet, auto_pending |-> NoStep,
   auto_blocked |-> FALSE, last_cruise |-> NotSet]

Abs(n)  == IF n < 0 THEN -n ELSE n
Sign(n) == IF n > 0 THEN 1 ELSE IF n < 0 THEN -1 ELSE 0

\* `clear' of some inputs and `pulse' of others.
Pressed(a, cleared, inputs) ==
  [a EXCEPT !.pulse = [i \in Inputs |->
     IF i \in inputs THEN PULSE ELSE IF i \in cleared THEN 0 ELSE @[i]]]

\* Mutant of Pulled: the pull acts as long as it is held.
PulledWhileHeld(a, wanted, cruise) ==
  IF "pull" \notin wanted \/ cruise = UNKNOWN_NUMBER THEN a
  ELSE Pressed(a, {"toggle", "resume"},
               IF cruise > 0 THEN {"toggle"} ELSE {"resume"})

\* A pull cancels or resumes, by what the sample says.
Pulled(a, wanted, cruise) ==
  IF "pull" \notin wanted \ a.previous \/ cruise = UNKNOWN_NUMBER THEN a
  ELSE Pressed(a, {"toggle", "resume"},
               IF cruise > 0 THEN {"toggle"} ELSE {"resume"})

\* Mutant of Repeated: the other direction's pulse runs on.
RepeatedBoth(a, wanted) ==
  LET manual == wanted \cap Speed IN
  IF manual = {}
  THEN IF a.previous \cap Speed = {} THEN a ELSE [a EXCEPT !.repeat = NotSet]
  ELSE IF manual = a.previous \cap Speed /\ a.repeat \in 0..REPEAT - 1
  THEN [a EXCEPT !.automatic = FALSE]
  ELSE [Pressed(a, {}, manual) EXCEPT !.automatic = FALSE, !.repeat = 0]

\* Up and down: a press at once, and again every REPEAT.
Repeated(a, wanted) ==
  LET manual == wanted \cap Speed IN
  IF manual = {}
  THEN IF a.previous \cap Speed = {} THEN a ELSE [a EXCEPT !.repeat = NotSet]
  ELSE IF manual = a.previous \cap Speed /\ a.repeat \in 0..REPEAT - 1
  THEN [a EXCEPT !.automatic = FALSE]
  ELSE [Pressed(a, Speed, manual) EXCEPT !.automatic = FALSE, !.repeat = 0]

\* Any other cruise control ends the adjustment, and its switch toggles it.
Switched(a, rising) ==
  LET manual == IF rising \cap Engaging = {} THEN a
                ELSE [a EXCEPT !.automatic = FALSE] IN
  IF "auto" \notin rising THEN manual
  ELSE [Pressed(manual, Speed, {}) EXCEPT
          !.automatic = ~@, !.auto_pending = NoStep, !.auto_blocked = FALSE,
          !.auto_target = NotSet, !.last_cruise = NotSet]

-----------------------------------------------------------------------------
(* The automatic adjustment (`adjust') *)

\* The driver has taken over.
Yielded(a) == [Pressed(a, Speed, {}) EXCEPT !.automatic = FALSE]

\* Cruise is off, or a sample is missing.
Waiting(a) ==
  [Pressed(a, Speed, {}) EXCEPT
     !.auto_pending = NoStep, !.auto_target = NotSet, !.last_cruise = NotSet]

Aimed(a, target) ==
  IF a.auto_target = target THEN a
  ELSE [a EXCEPT !.auto_target = target, !.auto_blocked = FALSE]

\* Mutant of Stepped: it does not wait for REPEAT.
SteppedEarly(a, cruise, target) ==
  LET seen == [a EXCEPT !.last_cruise = cruise]
      sign == Sign(target - cruise) IN
  IF a.auto_blocked \/ Abs(target - cruise) <= 250
  THEN seen
  ELSE [Pressed(seen, Speed, IF sign > 0 THEN {"up"} ELSE {"down"}) EXCEPT
          !.repeat = 0,
          !.auto_pending = [before |-> cruise, sent |-> 0, sign |-> sign]]

\* The next step, unless it is too early or there is none to make.
Stepped(a, cruise, target) ==
  LET seen == [a EXCEPT !.last_cruise = cruise]
      sign == Sign(target - cruise) IN
  IF \/ a.auto_blocked
     \/ Abs(target - cruise) <= 250
     \/ a.repeat \in 0..REPEAT - 1
  THEN seen
  ELSE [Pressed(seen, Speed, IF sign > 0 THEN {"up"} ELSE {"down"}) EXCEPT
          !.repeat = 0,
          !.auto_pending = [before |-> cruise, sent |-> 0, sign |-> sign]]

\* Mutant of Refused: a refused step is waited for without end.
RefusedForever(a) == a

\* The set speed has not moved since the step.
Refused(a) ==
  IF a.auto_pending.sent < ACK THEN a
  ELSE [a EXCEPT !.auto_blocked = TRUE, !.auto_pending = NoStep]

\* Mutant of Acknowledged: a step past the target does not block the next.
AcknowledgedUnblocked(a, cruise, target) ==
  LET step == a.auto_pending
      delta == cruise - step.before
      acked == [a EXCEPT !.auto_pending = NoStep] IN
  IF Sign(delta) # step.sign \/ Abs(delta) > Step(Unit) + 312
  THEN Yielded(acked)
  ELSE Stepped(acked, cruise, target)

\* The set speed has moved since the step: by it, or by the driver.
Acknowledged(a, cruise, target) ==
  LET step == a.auto_pending
      delta == cruise - step.before
      acked == [a EXCEPT !.auto_pending = NoStep] IN
  IF Sign(delta) # step.sign \/ Abs(delta) > Step(Unit) + 312
  THEN Yielded(acked)
  ELSE Stepped([acked EXCEPT !.auto_blocked =
                  \/ @
                  \/ /\ Sign(target - cruise) # step.sign
                     /\ Abs(target - cruise) > 250],
               cruise, target)

\* Mutant of Unexpected: only a drop of the set speed is noticed.
UnexpectedDrop(a, cruise) ==
  a.last_cruise # NotSet /\ a.last_cruise - cruise > 100

\* The set speed has moved without a step.
Unexpected(a, cruise) ==
  a.last_cruise # NotSet /\ Abs(a.last_cruise - cruise) > 100

\* Mutant of Adjusted: a sample that is missing is taken for a value.
AdjustedBlindly(a, cruise, limit) ==
  LET target == Target(Unit, limit)
      aimed == Aimed(a, target) IN
  IF cruise = 0 \/ target <= 0 THEN Waiting(a)
  ELSE IF aimed.auto_pending # NoStep
  THEN IF Abs(cruise - aimed.auto_pending.before) < 100
       THEN Refused(aimed) ELSE Acknowledged(aimed, cruise, target)
  ELSE IF Unexpected(aimed, cruise) THEN Yielded(aimed)
  ELSE Stepped(aimed, cruise, target)

\* `adjust'.
Adjusted(a, cruise, limit) ==
  LET target == Target(Unit, limit)
      aimed == Aimed(a, target) IN
  IF cruise <= 0 \/ limit \notin 1..100000 THEN Waiting(a)
  ELSE IF target <= 0 THEN a
  ELSE IF aimed.auto_pending # NoStep
  THEN IF Abs(cruise - aimed.auto_pending.before) < 100
       THEN Refused(aimed) ELSE Acknowledged(aimed, cruise, target)
  ELSE IF Unexpected(aimed, cruise) THEN Yielded(aimed)
  ELSE Stepped(aimed, cruise, target)

-----------------------------------------------------------------------------

\* `apply', for cruise control.
Applied(a, wanted, samples) ==
  LET rising == wanted \ a.previous
      toggled == Pressed(a, {}, rising \cap {"toggle", "resume"})
      pulled == Pulled(toggled, wanted, samples.cruise)
      switched == Switched(Repeated(pulled, wanted), rising)
      adjusted ==
        IF switched.automatic
        THEN Adjusted(switched, samples.cruise, samples.limit)
        ELSE [switched EXCEPT !.auto_pending = NoStep, !.last_cruise = NotSet]
  IN  [adjusted EXCEPT !.previous = wanted]

Asserted(a) == {i \in Inputs : a.pulse[i] > 0}

-----------------------------------------------------------------------------
(* The plugin's handlers *)

\* What a valid request may hold (valid_inputs).
Commands ==
  {c \in SUBSET driver.uses : ~(Speed \subseteq c)
                             /\ \A i, j \in c \cap Engaging : i = j}

\* InputGate::accept, when the gate is ready.
Accept(command) ==
  /\ desired' = command /\ desired' # desired
  /\ UNCHANGED <<driver, actions, output, gap, motion, set, lag, historyVars>>

\* InputGate::invalidate.
Invalidate ==
  /\ actions' = NewActions /\ desired' = {}
  /\ trend' = 0
  /\ UNCHANGED <<driver, output, gap, motion, set, lag, keyed, own>>

\* What the game takes for a press.
Presses == output' \ output

\* The speed on the other side of a step: to the next multiple of five units, or
\* by five units.
Stepping(s, sign) ==
  {s + sign * 5,
   IF sign > 0 THEN (s \div 5 + 1) * 5 ELSE ((s - 1) \div 5) * 5}

\* What a press may make of the set speed, a refusal included.
AfterPress(s, input) ==
  CASE input = "toggle" -> IF s > 0 THEN {0} ELSE {0} \cup Speeds
    [] input = "resume" -> IF s > 0 THEN {s} ELSE {0} \cup Speeds
    [] input = "up"     -> IF s = 0 THEN {0}
                           ELSE {s} \cup (Stepping(s, 1) \cap Speeds)
    [] input = "down"   -> IF s = 0 THEN {0}
                           ELSE {s} \cup (Stepping(s, -1) \cap Speeds)

\* The game takes the inputs of a frame in the order of their indices.
GameTakesInput ==
  LET after(input, speeds) ==
        IF input \notin Presses THEN speeds
        ELSE UNION {AfterPress(s, input) : s \in speeds}
  IN  /\ set' \in after("down", after("up",
                    after("resume", after("toggle", {set}))))
      /\ gap' = 0

\* A new automatic step in a frame.
Steps == /\ actions'.auto_pending # actions.auto_pending
         /\ actions'.auto_pending.sent = 0

\* A press of the adjustment's switch reaches a frame.
Toggles == "auto" \in desired \ actions.previous

\* InputGate::outputs.
Frame ==
  /\ actions' = Applied(actions, desired, motion)
  /\ output' = Asserted(actions')
  /\ GameTakesInput
  /\ trend' = IF Steps THEN actions'.auto_pending.sign
              ELSE IF \/ ~actions'.automatic \/ Toggles
                      \/ actions'.auto_target # actions.auto_target
              THEN 0 ELSE trend
  \* While a step is outstanding nobody can tell whose change it is.
  /\ own' = IF \/ ~actions.automatic \/ actions.auto_pending # NoStep
                \/ NotSet \in {actions.last_cruise, actions'.last_cruise}
            THEN motion.cruise ELSE own
  /\ UNCHANGED <<driver, desired, motion, lag, keyed>>

\* input_callback when the worker has the mutex: a frame without any input.
FrameContended ==
  /\ driver.contention
  /\ output' = {} /\ gap' = 0
  /\ UNCHANGED <<driver, actions, desired, motion, set, lag, historyVars>>

-----------------------------------------------------------------------------
(* The game and time *)

Cruising == IF set = 0 THEN 0 ELSE Reported(Unit, set)

ReportsCruise ==
  /\ motion' = [motion EXCEPT !.cruise = Cruising] /\ lag' = 0
  /\ keyed' = FALSE
  /\ own' = IF keyed \/ motion.cruise = Cruising THEN own ELSE Cruising
  /\ UNCHANGED <<driver, actions, desired, output, gap, set, trend>>

ReportsLimit(l) ==
  /\ motion' = [motion EXCEPT !.limit = Reported(Unit, l)]
  /\ motion' # motion
  /\ UNCHANGED <<driver, actions, desired, output, gap, set, lag, historyVars>>

\* A sample has no value, or it is too old to be used.
SampleLost(sample) ==
  /\ motion' = [motion EXCEPT ![sample] = UNKNOWN_NUMBER]
  /\ lag' = IF sample = "cruise" THEN 0 ELSE lag
  /\ UNCHANGED <<driver, actions, desired, output, gap, set, historyVars>>

\* The driver sets another speed without the stalk, or brakes, which cancels.
DriverSets(s) ==
  /\ s # set
  /\ set' = s
  /\ keyed' = TRUE
  /\ UNCHANGED <<driver, actions, desired, output, gap, motion, lag>>
  /\ UNCHANGED <<trend, own>>

Wrong == motion.cruise \notin {Cruising, UNKNOWN_NUMBER}

Down(n) == IF n = 0 THEN 0 ELSE n - 1
Up(n, most) == IF n \in {NotSet, most} THEN n ELSE n + 1

Tick ==
  /\ gap < MaxGap /\ (Wrong => lag < Lag)
  /\ gap' = gap + 1
  /\ lag' = IF Wrong THEN lag + 1 ELSE 0
  /\ actions' = [actions EXCEPT
       !.pulse = [i \in Inputs |-> Down(@[i])],
       !.repeat = Up(@, REPEAT),
       !.auto_pending.sent = Up(@, ACK)]
  /\ UNCHANGED <<driver, desired, output, motion, set, historyVars>>

Init ==
  /\ driver \in Drivers
  /\ actions = NewActions /\ desired = {} /\ output = {} /\ gap = 0
  /\ motion = [cruise |-> UNKNOWN_NUMBER, limit |-> UNKNOWN_NUMBER]
  /\ set \in {0} \cup Speeds /\ lag = 0
  /\ trend = 0 /\ keyed = FALSE /\ own = UNKNOWN_NUMBER

Next ==
  \/ \E command \in Commands : Accept(command)
  \/ Invalidate
  \/ Frame \/ FrameContended
  \/ ReportsCruise \/ \E l \in Limits : ReportsLimit(l)
  \/ \E sample \in {"cruise", "limit"} : SampleLost(sample)
  \/ \E s \in driver.keyboard : DriverSets(s)
  \/ Tick

Spec == Init /\ [][Next]_vars

\* The game calls for input every frame and its telemetry is not late for ever.
FairSpec ==
  Spec /\ WF_vars(Frame) /\ WF_vars(ReportsCruise) /\ WF_vars(Tick)

-----------------------------------------------------------------------------
(* Properties *)

\* Every variable keeps its type.
TypeOK ==
  /\ driver \in Drivers /\ actions.previous \in Commands
  /\ actions.pulse \in [Inputs -> 0..PULSE]
  /\ actions.repeat \in {NotSet} \cup 0..REPEAT
  /\ actions.automatic \in BOOLEAN /\ actions.auto_blocked \in BOOLEAN
  /\ actions.auto_target \in {NotSet} \cup Nat
  /\ actions.auto_pending = NoStep \/
       /\ actions.auto_pending.before \in Nat
       /\ actions.auto_pending.sent \in 0..ACK
       /\ actions.auto_pending.sign \in {-1, 1}
  /\ actions.last_cruise \in {NotSet} \cup Nat
  /\ desired \in Commands /\ output \in SUBSET Inputs
  /\ gap \in 0..MaxGap /\ lag \in 0..Lag
  /\ motion \in [cruise : Nat \cup {UNKNOWN_NUMBER},
                 limit : Nat \cup {UNKNOWN_NUMBER}]
  /\ set \in {0} \cup Speeds
  /\ trend \in {-1, 0, 1} /\ keyed \in BOOLEAN
  /\ own \in Nat \cup {UNKNOWN_NUMBER}

\* The game is never asked to raise and to lower its speed in one frame, whoever
\* of the driver and the adjustment asked for each.
OneDirection == ~(Speed \subseteq output)

\* The adjustment never steps back from where it stepped to: between two steps
\* in opposite directions the limit changed, a sample was missing or the mode
\* was switched.  A step that overshoots is not undone (actions.rs:226).
NeverOscillates ==
  [][Steps /\ ~Toggles /\ actions'.auto_target = actions.auto_target
     => trend \in {0, actions'.auto_pending.sign}]_vars

\* Once the driver has set another speed and telemetry shows it, an adjustment
\* that had seen the speed before takes no further step from there.
\* docs/controls-en.md:106: "An unexpected change to the cruise target also
\* gives control back to you."
YieldsToDriver ==
  [][(/\ Steps /\ ~Toggles /\ actions.automatic
       /\ actions.auto_pending = NoStep /\ actions.last_cruise # NotSet)
      => motion.cruise \in {own, actions.last_cruise}]_vars

\* Cruise is engaged or resumed only in a frame in which the driver has moved
\* the ring or the lever: a pull that cancelled does not resume, and no movement
\* engages twice.  docs/controls-en.md:108: "It never enables or resumes cruise
\* by itself."
NeverEngages ==
  [][set = 0 /\ set' > 0 /\ gap' = 0 /\ Presses # {}
     => (desired \ actions.previous) \cap Engaging # {}]_vars

\* Each step of an adjustment that was on already is a press the game can see:
\* its input was released between this step and the one before, or whatever the
\* driver did.  (Not so for a first step within the pulse of a manual press.)
StepsArePresses ==
  [][Steps /\ actions.automatic => Presses \cap Speed # {}]_vars

\* The adjustment is stopped only by a step that the game refused or that went
\* past the limit.  docs/controls-en.md:106: "If the game refuses a speed
\* change, adjustment stops until the limit changes".
StopsOnlyWhenRefused ==
  [][~actions.auto_blocked /\ actions'.auto_blocked
     => \/ motion.cruise = actions.auto_pending.before
        \/ Sign(actions'.auto_target - actions.auto_pending.before)
             = actions.auto_pending.sign]_vars

Settled ==
  \/ ~actions.automatic \/ actions.auto_blocked
  \/ motion.cruise <= 0 \/ motion.limit = UNKNOWN_NUMBER
  \/ Abs(Target(Unit, motion.limit) - motion.cruise) <= 250

\* When the limit no longer changes and the driver no longer interferes, the
\* adjustment comes to an end: at the limit, stopped or switched off.
SettlesAtLimit ==
  <>[][UNCHANGED <<motion.limit, desired>>]_vars => []<>Settled
=============================================================================
