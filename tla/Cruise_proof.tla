---------------------------- MODULE Cruise_proof ----------------------------
(***************************************************************************)
(* Proofs that the game is never asked to raise and to lower its speed in  *)
(* one frame, for every length of a pulse, a repetition and an             *)
(* acknowledgement, every driver, unit, speed and limit; of what the       *)
(* conversion of a road limit promises the adjustment, for every limit the *)
(* plugin accepts; of the types of the variables; that each automatic step *)
(* is a press the game can see; that the adjustment never steps back,      *)
(* gives way to the driver, and never turns cruise on.                     *)
(***************************************************************************)
EXTENDS Cruise, TLAPS

Fields == {"previous", "pulse", "repeat", "automatic", "auto_target",
           "auto_pending", "auto_blocked", "last_cruise"}

\* At most one of the two directions has a pulse.
Single(a) ==
  /\ DOMAIN a = Fields /\ DOMAIN a.pulse = Inputs
  /\ a.pulse["up"] = 0 \/ a.pulse["down"] = 0

\* The inductive invariant: OneDirection alone is not inductive, for a frame
\* asserts what is left of the pulses of earlier frames.
SingleInv ==
  /\ ~(Speed \subseteq desired)
  /\ Single(actions)
  /\ OneDirection

-----------------------------------------------------------------------------
(* The operators of Actions *)

\* `clear' and `pulse': a new pulse in one direction clears the other.
LEMMA PressedSingle ==
  ASSUME NEW a, NEW cleared, NEW inputs, Single(a),
         ~(Speed \subseteq inputs),
         inputs \cap Speed # {} => Speed \subseteq cleared
  PROVE  Single(Pressed(a, cleared, inputs))
<1>1. DOMAIN Pressed(a, cleared, inputs) = Fields
  BY DEF Single, Pressed
<1>2. Pressed(a, cleared, inputs).pulse =
        [i \in Inputs |-> IF i \in inputs THEN PULSE
                          ELSE IF i \in cleared THEN 0 ELSE a.pulse[i]]
  BY DEF Single, Pressed, Fields
<1>3. QED
  BY <1>1, <1>2 DEF Single, Inputs, Speed

\* `adjust' gives up without an input.
LEMMA YieldedSingle ==
  ASSUME NEW a, Single(a)
  PROVE  Single(Yielded(a)) /\ Single(Waiting(a))
<1> DEFINE b == Pressed(a, Speed, {})
<1>1. Single(b)
  BY PressedSingle DEF Speed
<1>2. Single([b EXCEPT !.automatic = FALSE])
  BY <1>1 DEF Single, Fields
<1>3. Single([b EXCEPT !.auto_pending = NoStep, !.auto_target = NotSet,
                       !.last_cruise = NotSet])
  <2> HIDE DEF b
  <2> QED BY <1>1 DEF Single, Fields
<1>4. QED
  BY <1>2, <1>3 DEF Yielded, Waiting

\* A pull presses neither direction.
LEMMA PulledSingle ==
  ASSUME NEW a, NEW wanted, NEW cruise, Single(a)
  PROVE  Single(Pulled(a, wanted, cruise))
<1>1. Single(Pressed(a, {"toggle", "resume"}, {"toggle"}))
  BY PressedSingle DEF Speed
<1>2. Single(Pressed(a, {"toggle", "resume"}, {"resume"}))
  BY PressedSingle DEF Speed
<1>3. QED
  BY <1>1, <1>2 DEF Pulled

\* The driver's direction replaces the other, whoever asked for that.
LEMMA RepeatedSingle ==
  ASSUME NEW a, NEW wanted, Single(a), ~(Speed \subseteq wanted)
  PROVE  Single(Repeated(a, wanted))
<1> DEFINE manual == wanted \cap Speed
           b == Pressed(a, Speed, manual)
<1>1. Single(b)
  BY PressedSingle DEF Speed
<1>2. Single([b EXCEPT !.automatic = FALSE, !.repeat = 0])
  <2> HIDE DEF b
  <2> QED BY <1>1 DEF Single, Fields
<1>3. /\ Single([a EXCEPT !.repeat = NotSet])
      /\ Single([a EXCEPT !.automatic = FALSE])
  BY DEF Single, Fields
<1>4. QED
  BY <1>2, <1>3 DEF Repeated

\* The switch clears both directions.
LEMMA SwitchedSingle ==
  ASSUME NEW a, NEW rising, Single(a)
  PROVE  Single(Switched(a, rising))
<1> DEFINE manual == IF rising \cap Engaging = {} THEN a
                     ELSE [a EXCEPT !.automatic = FALSE]
           b == Pressed(manual, Speed, {})
           c == [b EXCEPT !.automatic = ~@, !.auto_pending = NoStep,
                          !.auto_blocked = FALSE, !.auto_target = NotSet,
                          !.last_cruise = NotSet]
<1>1. Single(manual)
  BY DEF Single, Fields
<1>2. Single(b)
  <2> HIDE DEF manual
  <2> QED BY <1>1, PressedSingle DEF Speed
<1>3. Single(c)
  <2> HIDE DEF b
  <2> QED BY <1>2 DEF Single, Fields
<1>4. Switched(a, rising) \in {manual, c}
  BY DEF Switched
<1> HIDE DEF manual, c
<1>5. QED
  BY <1>1, <1>3, <1>4

\* An automatic step clears both directions and presses one.
LEMMA SteppedSingle ==
  ASSUME NEW a, NEW cruise, NEW target, Single(a)
  PROVE  Single(Stepped(a, cruise, target))
<1> DEFINE seen == [a EXCEPT !.last_cruise = cruise]
           sign == Sign(target - cruise)
           b == Pressed(seen, Speed, IF sign > 0 THEN {"up"} ELSE {"down"})
           pending == [before |-> cruise, sent |-> 0, sign |-> sign]
           c == [b EXCEPT !.repeat = 0, !.auto_pending = pending]
<1>1. Single(seen)
  BY DEF Single, Fields
<1>2. Single(b)
  <2> DEFINE up == sign > 0
  <2> HIDE DEF seen
  <2>1. Single(Pressed(seen, Speed, {"up"}))
    BY <1>1, PressedSingle DEF Speed
  <2>2. Single(Pressed(seen, Speed, {"down"}))
    BY <1>1, PressedSingle DEF Speed
  <2> HIDE DEF up
  <2>3. QED
    BY <2>1, <2>2 DEF up
<1>3. Single(c)
  <2> HIDE DEF b, pending
  <2> QED BY <1>2 DEF Single, Fields
<1>4. Stepped(a, cruise, target) \in {seen, c}
  BY Zenon DEF Stepped
<1> HIDE DEF seen, c
<1>5. QED
  BY <1>1, <1>3, <1>4

\* The rest of `adjust' changes no pulse.
LEMMA AdjustedSingle ==
  ASSUME NEW a, NEW cruise, NEW limit, Single(a)
  PROVE  Single(Adjusted(a, cruise, limit))
<1> DEFINE target == Target(Unit, limit)
           aimed == Aimed(a, target)
           step == aimed.auto_pending
           acked == [aimed EXCEPT !.auto_pending = NoStep]
           past == [acked EXCEPT !.auto_blocked =
                      \/ @
                      \/ /\ Sign(target - cruise) # step.sign
                         /\ Abs(target - cruise) > 250]
           blocked == [aimed EXCEPT !.auto_blocked = TRUE,
                                    !.auto_pending = NoStep]
<1> HIDE DEF target
<1>1. Single(aimed)
  BY DEF Aimed, Single, Fields
<1> HIDE DEF aimed
<1>2. Single(acked) /\ Single(blocked)
  BY <1>1 DEF Single, Fields
<1>3. Single(past)
  <2> HIDE DEF acked
  <2> QED BY <1>2 DEF Single, Fields
<1>4. Single(Refused(aimed))
  <2> HIDE DEF blocked
  <2>1. Refused(aimed) \in {aimed, blocked}
    BY DEF Refused, blocked
  <2>2. QED
    BY <1>1, <1>2, <2>1
<1>5. Acknowledged(aimed, cruise, target)
        \in {Yielded(acked), Stepped(past, cruise, target)}
  BY Zenon DEF Acknowledged
<1>6. /\ Single(Yielded(acked)) /\ Single(Yielded(aimed))
      /\ Single(Waiting(a))
  BY <1>1, <1>2, YieldedSingle
<1>7. /\ Single(Stepped(past, cruise, target))
      /\ Single(Stepped(aimed, cruise, target))
  <2> HIDE DEF past
  <2> QED BY <1>1, <1>3, SteppedSingle
<1>8. Single(Acknowledged(aimed, cruise, target))
  <2> HIDE DEF acked, past
  <2> QED BY <1>5, <1>6, <1>7
<1> DEFINE known ==
             IF aimed.auto_pending # NoStep
             THEN IF Abs(cruise - aimed.auto_pending.before) < 100
                  THEN Refused(aimed) ELSE Acknowledged(aimed, cruise, target)
             ELSE IF Unexpected(aimed, cruise) THEN Yielded(aimed)
             ELSE Stepped(aimed, cruise, target)
<1>9. Single(known)
  <2> HIDE DEF aimed
  <2>1. known \in {Refused(aimed), Acknowledged(aimed, cruise, target),
                   Yielded(aimed), Stepped(aimed, cruise, target)}
    OBVIOUS
  <2> HIDE DEF known, acked, past, blocked
  <2>2. QED
    BY <1>4, <1>6, <1>7, <1>8, <2>1
<1>10. Adjusted(a, cruise, limit) \in {Waiting(a), a, known}
  <2> DEFINE off == cruise <= 0 \/ limit \notin 1..100000
             none == target <= 0
  <2>1. Adjusted(a, cruise, limit) =
          IF off THEN Waiting(a) ELSE IF none THEN a ELSE known
    BY DEF Adjusted, target, aimed
  <2> HIDE DEF off, none, known
  <2>2. QED
    BY <2>1
<1>11. QED
  <2> HIDE DEF aimed, acked, past, blocked, known
  <2> QED BY <1>6, <1>9, <1>10

\* `apply' as a whole.
LEMMA AppliedSingle ==
  ASSUME NEW a, NEW wanted, NEW samples, Single(a), ~(Speed \subseteq wanted)
  PROVE  Single(Applied(a, wanted, samples))
<1> DEFINE rising == wanted \ a.previous
           toggled == Pressed(a, {}, rising \cap {"toggle", "resume"})
           pulled == Pulled(toggled, wanted, samples.cruise)
           repeated == Repeated(pulled, wanted)
           switched == Switched(repeated, rising)
           manual == [switched EXCEPT !.auto_pending = NoStep,
                                      !.last_cruise = NotSet]
           adjusted == Adjusted(switched, samples.cruise, samples.limit)
           last == IF switched.automatic THEN adjusted ELSE manual
           result == [last EXCEPT !.previous = wanted]
<1>1. Single(toggled)
  BY PressedSingle DEF Speed
<1> HIDE DEF toggled
<1>2. Single(pulled)
  BY <1>1, PulledSingle
<1> HIDE DEF pulled
<1>3. Single(repeated)
  BY <1>2, RepeatedSingle
<1> HIDE DEF repeated
<1>4. Single(switched)
  BY <1>3, SwitchedSingle
<1> HIDE DEF switched
<1>5. Single(manual)
  BY <1>4 DEF Single, Fields
<1>6. Single(adjusted)
  BY <1>4, AdjustedSingle
<1>7. Single(last)
  <2> HIDE DEF manual, adjusted
  <2> QED BY <1>5, <1>6
<1> HIDE DEF last
<1>8. Single(result)
  BY <1>7 DEF Single, Fields
<1>9. Applied(a, wanted, samples) = result
  BY Zenon DEF Applied, result, last, switched, repeated, pulled, toggled
<1>10. QED
  <2> HIDE DEF result
  <2> QED BY <1>8, <1>9

-----------------------------------------------------------------------------
(* The specification *)

LEMMA SingleInit == Init => SingleInv
<1> SUFFICES ASSUME Init PROVE SingleInv
  OBVIOUS
<1>1. Single(NewActions)
  BY DEF Single, NewActions, Fields, Inputs, Speed
<1>2. QED
  BY <1>1 DEF Init, SingleInv, OneDirection, Speed

LEMMA SingleStep == SingleInv /\ [Next]_vars => SingleInv'
<1> SUFFICES ASSUME SingleInv, [Next]_vars PROVE SingleInv'
  OBVIOUS
<1>1. ASSUME NEW command \in Commands, Accept(command)
      PROVE  SingleInv'
  BY <1>1 DEF Accept, Commands, SingleInv, OneDirection
<1>2. CASE Invalidate
  <2>1. Single(NewActions)
    BY DEF Single, NewActions, Fields, Inputs, Speed
  <2>2. QED
    BY <1>2, <2>1 DEF Invalidate, SingleInv, OneDirection, Speed
<1>3. CASE Frame
  <2>1. /\ actions' = Applied(actions, desired, motion)
        /\ output' = Asserted(actions') /\ desired' = desired
    BY <1>3 DEF Frame
  <2>2. Single(actions')
    BY <2>1, AppliedSingle DEF SingleInv
  <2>3. OneDirection'
    BY <2>1, <2>2 DEF Single, Asserted, OneDirection, Speed
  <2>4. QED
    BY <2>1, <2>2, <2>3 DEF SingleInv
<1>4. CASE FrameContended
  BY <1>4 DEF FrameContended, SingleInv, OneDirection, Speed
<1>5. CASE Tick
  <2>1. /\ DOMAIN actions' = Fields /\ DOMAIN actions'.pulse = Inputs
        /\ \A i \in Inputs : actions'.pulse[i] = Down(actions.pulse[i])
    BY <1>5 DEF Tick, SingleInv, Single, Fields
  <2>2. Single(actions')
    BY <2>1 DEF Down, SingleInv, Single, Inputs, Speed
  <2>3. QED
    BY <1>5, <2>2 DEF Tick, SingleInv, OneDirection
<1>6. CASE UNCHANGED <<desired, actions, output>>
  BY <1>6 DEF SingleInv, OneDirection
<1>7. QED
  BY <1>1, <1>2, <1>3, <1>4, <1>5, <1>6
     DEF Next, vars, ReportsCruise, ReportsLimit, SampleLost, DriverSets

\* The game is never asked to raise and to lower its speed in one frame
\* (actions.rs:162, 174, 200, 231, 242, 255: whatever presses one direction
\* clears both).
THEOREM CruiseOneDirection == Spec => []OneDirection
<1>1. SingleInv => OneDirection
  BY DEF SingleInv
<1>2. QED
  BY <1>1, SingleInit, SingleStep, PTL DEF Spec

-----------------------------------------------------------------------------
(* The road limit as a set speed *)

\* The limits that `adjust' accepts, in millimetres per second.
MostLimit == 100000
Accepted == 1..MostLimit

LEMMA AcceptedIs ==
  ASSUME NEW limit \in Accepted
  PROVE  limit \in Int /\ 1 <= limit /\ limit <= 100000
<1>1. MostLimit \in Int
  BY DEF MostLimit
<1>2. limit \in Int /\ 1 <= limit /\ limit <= MostLimit
  BY <1>1 DEF Accepted
<1> QED BY <1>2 DEF MostLimit

\* A displayed limit is within half a unit of the limit, and not so great that
\* `i32' could not hold its target (the program computes in `i64').
LEMMA DisplayedNear ==
  ASSUME NEW unit \in Units, NEW limit \in Accepted
  PROVE  LET d == Displayed(unit, limit) IN
         /\ d \in 0..400
         /\ 2 * (d * Numerator(unit) - limit * Denominator(unit))
              <= Numerator(unit)
         /\ 2 * (limit * Denominator(unit) - d * Numerator(unit))
              <= Numerator(unit)
<1> DEFINE d == Displayed(unit, limit)
<1>1. CASE unit = "Kmh"
  <2>1. Numerator(unit) = 10000 /\ Denominator(unit) = 36
    BY <1>1 DEF Numerator, Denominator
  <2>2. d = (limit * 36 + 5000) \div 10000
    BY <2>1 DEF Displayed
  <2> HIDE DEF d
  <2>3. limit \in Int /\ 1 <= limit /\ limit <= 100000
    BY AcceptedIs
  <2> DEFINE x == limit * 36 + 5000
  <2>4. x \in Nat /\ x <= 3605000
    BY <2>3
  <2> HIDE DEF x
  <2>5. d \in Nat /\ 10000 * d <= x /\ x < 10000 * d + 10000
    BY <2>2, <2>4 DEF x
  <2>6. 0 <= d /\ d <= 400
    BY <2>4, <2>5
  <2>7. /\ 2 * (d * 10000 - limit * 36) <= 10000
        /\ 2 * (limit * 36 - d * 10000) <= 10000
    <3>1. 10000 * d <= limit * 36 + 5000
          /\ limit * 36 + 5000 < 10000 * d + 10000
      BY <2>5 DEF x
    <3> QED BY <2>3, <2>5, <3>1
  <2>8. QED
    BY <2>1, <2>5, <2>6, <2>7 DEF d
<1>2. CASE unit = "Mph"
  <2>1. Numerator(unit) = 44704 /\ Denominator(unit) = 100
    BY <1>2 DEF Numerator, Denominator
  <2>2. d = (limit * 100 + 22352) \div 44704
    BY <2>1 DEF Displayed
  <2> HIDE DEF d
  <2>3. limit \in Int /\ 1 <= limit /\ limit <= 100000
    BY AcceptedIs
  <2> DEFINE x == limit * 100 + 22352
  <2>4. x \in Nat /\ x <= 10022352
    BY <2>3
  <2> HIDE DEF x
  <2>5. d \in Nat /\ 44704 * d <= x /\ x < 44704 * d + 44704
    BY <2>2, <2>4 DEF x
  <2>6. 0 <= d /\ d <= 400
    BY <2>4, <2>5
  <2>7. /\ 2 * (d * 44704 - limit * 100) <= 44704
        /\ 2 * (limit * 100 - d * 44704) <= 44704
    <3>1. 44704 * d <= limit * 100 + 22352
          /\ limit * 100 + 22352 < 44704 * d + 44704
      BY <2>5 DEF x
    <3> QED BY <2>3, <2>5, <3>1
  <2>8. QED
    BY <2>1, <2>5, <2>6, <2>7 DEF d
<1>3. QED
  BY <1>1, <1>2 DEF Units

\* The target is a speed that the game can be stepped to by fives: telemetry
\* reports that speed within a millimetre per second of the target, far inside
\* the 250 within which `adjust' is content; and the speed is the greatest such
\* that is not above the displayed limit.
THEOREM TargetReachable ==
  ASSUME NEW unit \in Units, NEW limit \in Accepted
  PROVE  \E units \in 0..400 :
           /\ units % 5 = 0
           /\ units <= Displayed(unit, limit)
           /\ Displayed(unit, limit) < units + 5
           /\ Reported(unit, units) - Target(unit, limit) \in 0..1
<1> DEFINE d == Displayed(unit, limit)
           u == (d \div 5) * 5
<1>1. d \in 0..400
  BY DisplayedNear
<1> HIDE DEF d
<1>2. u \in 0..400 /\ u % 5 = 0 /\ u <= d /\ d < u + 5
  BY <1>1
<1>3. Target(unit, limit) = (u * Numerator(unit)) \div Denominator(unit)
  BY DEF Target, d
<1> HIDE DEF u
<1>4. Reported(unit, u) - Target(unit, limit) \in 0..1
  <2>1. CASE unit = "Kmh"
    BY <1>2, <1>3, <2>1 DEF Reported, Numerator, Denominator
  <2>2. CASE unit = "Mph"
    BY <1>2, <1>3, <2>2 DEF Reported, Numerator, Denominator
  <2>3. QED
    BY <2>1, <2>2 DEF Units
<1>5. QED
  BY <1>2, <1>4 DEF d

-----------------------------------------------------------------------------
(* Types *)

StepSet == {NoStep} \cup [before : Nat, sent : 0..ACK, sign : {-1, 1}]

ActionSet ==
  [previous : SUBSET (Inputs \cup {"pull", "auto"}),
   pulse : [Inputs -> 0..PULSE], repeat : {NotSet} \cup 0..REPEAT,
   automatic : BOOLEAN, auto_target : {NotSet} \cup Nat,
   auto_pending : StepSet, auto_blocked : BOOLEAN,
   last_cruise : {NotSet} \cup Nat]

Samples == Nat \cup {UNKNOWN_NUMBER}

\* Nothing but pulses differs.
SameBut(a, b) ==
  /\ b.previous = a.previous /\ b.repeat = a.repeat
  /\ b.automatic = a.automatic /\ b.auto_target = a.auto_target
  /\ b.auto_pending = a.auto_pending /\ b.auto_blocked = a.auto_blocked
  /\ b.last_cruise = a.last_cruise

LEMMA PressedIs ==
  ASSUME NEW a \in ActionSet, NEW cleared, NEW inputs
  PROVE  LET b == Pressed(a, cleared, inputs) IN
         /\ b \in ActionSet /\ SameBut(a, b)
         /\ \A i \in Inputs :
              b.pulse[i] = IF i \in inputs THEN PULSE
                           ELSE IF i \in cleared THEN 0 ELSE a.pulse[i]
<1> DEFINE p == [i \in Inputs |-> IF i \in inputs THEN PULSE
                                  ELSE IF i \in cleared THEN 0 ELSE a.pulse[i]]
<1>1. a.pulse \in [Inputs -> 0..PULSE] /\ PULSE \in 0..PULSE /\ 0 \in 0..PULSE
  BY CruiseAssumption DEF ActionSet
<1>2. p \in [Inputs -> 0..PULSE]
  BY <1>1
<1>3. Pressed(a, cleared, inputs) = [a EXCEPT !.pulse = p]
  BY DEF Pressed
<1>4. \A i \in Inputs : p[i] = IF i \in inputs THEN PULSE
                               ELSE IF i \in cleared THEN 0 ELSE a.pulse[i]
  OBVIOUS
<1> HIDE DEF p
<1>5. /\ [a EXCEPT !.pulse = p] \in ActionSet
      /\ SameBut(a, [a EXCEPT !.pulse = p])
      /\ [a EXCEPT !.pulse = p].pulse = p
  BY <1>2 DEF ActionSet, SameBut
<1> QED BY <1>3, <1>4, <1>5

\* A pull moves no speed.
LEMMA PulledIs ==
  ASSUME NEW a \in ActionSet, NEW wanted, NEW cruise
  PROVE  LET b == Pulled(a, wanted, cruise) IN
         /\ b \in ActionSet /\ SameBut(a, b)
         /\ \A i \in Speed : b.pulse[i] = a.pulse[i]
<1> DEFINE off == Pressed(a, {"toggle", "resume"}, {"toggle"})
           on == Pressed(a, {"toggle", "resume"}, {"resume"})
<1>1. /\ off \in ActionSet /\ SameBut(a, off)
      /\ \A i \in Speed : off.pulse[i] = a.pulse[i]
  BY PressedIs DEF Inputs, Speed
<1>2. /\ on \in ActionSet /\ SameBut(a, on)
      /\ \A i \in Speed : on.pulse[i] = a.pulse[i]
  BY PressedIs DEF Inputs, Speed
<1>3. Pulled(a, wanted, cruise) \in {a, off, on}
  BY DEF Pulled
<1>4. SameBut(a, a)
  BY DEF SameBut
<1> HIDE DEF off, on
<1> QED BY <1>1, <1>2, <1>3, <1>4

\* The driver's direction is pressed, or was less than REPEAT ago, and takes
\* over; otherwise the clock of the repetition may be stopped.
LEMMA RepeatedIs ==
  ASSUME NEW a \in ActionSet, NEW wanted
  PROVE  LET b == Repeated(a, wanted) IN
         /\ b \in ActionSet /\ b.auto_pending = a.auto_pending
         /\ b.previous = a.previous
         /\ \/ /\ wanted \cap Speed = {} /\ b.automatic = a.automatic
               /\ \A i \in Speed : b.pulse[i] = a.pulse[i]
               /\ b.repeat = a.repeat
                    \/ (a.previous \cap Speed # {} /\ b.repeat = NotSet)
            \/ /\ wanted \cap Speed # {} /\ ~b.automatic
               /\ b.repeat = a.repeat /\ b.repeat \in 0..REPEAT - 1
               /\ \A i \in Speed : b.pulse[i] = a.pulse[i]
            \/ /\ wanted \cap Speed # {} /\ ~b.automatic
               /\ b.repeat = 0
<1> DEFINE manual == wanted \cap Speed
           stopped == [a EXCEPT !.repeat = NotSet]
           going == [a EXCEPT !.automatic = FALSE]
           b == Pressed(a, Speed, manual)
           pressed == [b EXCEPT !.automatic = FALSE, !.repeat = 0]
<1>1. /\ stopped \in ActionSet /\ stopped.auto_pending = a.auto_pending
      /\ stopped.previous = a.previous /\ stopped.automatic = a.automatic
      /\ stopped.pulse = a.pulse /\ stopped.repeat = NotSet
  BY DEF ActionSet
<1>2. /\ going \in ActionSet /\ going.auto_pending = a.auto_pending
      /\ going.previous = a.previous /\ ~going.automatic
      /\ going.pulse = a.pulse /\ going.repeat = a.repeat
  BY DEF ActionSet
<1>3. /\ b \in ActionSet /\ b.auto_pending = a.auto_pending
      /\ b.previous = a.previous
  BY PressedIs DEF SameBut
<1>4. 0 \in 0..REPEAT
  BY CruiseAssumption
<1> HIDE DEF b
<1>5. /\ pressed \in ActionSet /\ pressed.auto_pending = a.auto_pending
      /\ pressed.previous = a.previous /\ ~pressed.automatic
      /\ pressed.repeat = 0
  BY <1>3, <1>4 DEF ActionSet
<1>6. Repeated(a, wanted) =
        IF manual = {}
        THEN IF a.previous \cap Speed = {} THEN a ELSE stopped
        ELSE IF manual = a.previous \cap Speed /\ a.repeat \in 0..REPEAT - 1
        THEN going ELSE pressed
  BY DEF Repeated, b
<1> HIDE DEF stopped, going, pressed
<1> QED BY <1>1, <1>2, <1>5, <1>6

\* The switch turns the adjustment on with no speed pressed.
LEMMA SwitchedIs ==
  ASSUME NEW a \in ActionSet, NEW rising
  PROVE  LET b == Switched(a, rising) IN
         /\ b \in ActionSet /\ b.repeat = a.repeat
         /\ b.previous = a.previous
         /\ \/ /\ b.automatic \in {a.automatic, FALSE}
               /\ b.auto_pending = a.auto_pending
               /\ \A i \in Speed : b.pulse[i] = a.pulse[i]
            \/ /\ b.auto_pending = NoStep
               /\ \A i \in Speed : b.pulse[i] = 0
<1> DEFINE manual == IF rising \cap Engaging = {} THEN a
                     ELSE [a EXCEPT !.automatic = FALSE]
           b == Pressed(manual, Speed, {})
           c == [b EXCEPT !.automatic = ~b.automatic, !.auto_pending = NoStep,
                          !.auto_blocked = FALSE, !.auto_target = NotSet,
                          !.last_cruise = NotSet]
<1>1. /\ manual \in ActionSet /\ manual.repeat = a.repeat
      /\ manual.automatic \in {a.automatic, FALSE}
      /\ manual.auto_pending = a.auto_pending /\ manual.pulse = a.pulse
      /\ manual.previous = a.previous
  BY DEF ActionSet
<1> HIDE DEF manual
<1>2. /\ b \in ActionSet /\ b.repeat = a.repeat /\ b.previous = a.previous
      /\ \A i \in Speed : b.pulse[i] = 0
  BY <1>1, PressedIs DEF SameBut, Inputs, Speed
<1> HIDE DEF b
<1>3. /\ c \in ActionSet /\ c.repeat = a.repeat /\ c.auto_pending = NoStep
      /\ c.pulse = b.pulse /\ c.previous = a.previous
  BY <1>2 DEF ActionSet, StepSet
<1>4. Switched(a, rising) \in {manual, c}
  BY DEF Switched, manual, b
<1> HIDE DEF c
<1> QED BY <1>1, <1>2, <1>3, <1>4

\* What `adjust' does to the pulses and the clock: it ends presses and steps, or
\* gives up, or it takes a step, no sooner than REPEAT after the last press.
Waits(a, b) ==
  /\ b.previous = a.previous /\ b.repeat = a.repeat
  /\ b.automatic \in {a.automatic, FALSE}
  /\ b.auto_pending \in {a.auto_pending, NoStep}
  /\ \A i \in Speed : b.pulse[i] \in {a.pulse[i], 0}

Moves(a, b) ==
  /\ a.repeat \notin 0..REPEAT - 1
  /\ b.previous = a.previous /\ b.repeat = 0 /\ b.automatic = a.automatic
  /\ \E i \in Speed : b.pulse[i] = PULSE

LEMMA TargetIs ==
  ASSUME NEW limit \in Int
  PROVE  Target(Unit, limit) \in Int
<1>1. Unit \in {"Kmh", "Mph"}
  BY CruiseAssumption DEF Units
<1>2. CASE Unit = "Kmh"
  BY <1>2 DEF Target, Displayed, Numerator, Denominator
<1>3. CASE Unit = "Mph"
  BY <1>3 DEF Target, Displayed, Numerator, Denominator
<1> QED BY <1>1, <1>2, <1>3

LEMMA GivesUpIs ==
  ASSUME NEW a \in ActionSet
  PROVE  /\ Yielded(a) \in ActionSet /\ Waits(a, Yielded(a))
         /\ ~Yielded(a).automatic
         /\ Waiting(a) \in ActionSet /\ Waits(a, Waiting(a))
<1> DEFINE b == Pressed(a, Speed, {})
           y == [b EXCEPT !.automatic = FALSE]
           w == [b EXCEPT !.auto_pending = NoStep, !.auto_target = NotSet,
                          !.last_cruise = NotSet]
<1>1. /\ b \in ActionSet /\ SameBut(a, b)
      /\ \A i \in Speed : b.pulse[i] = 0
  BY PressedIs DEF Inputs, Speed
<1> HIDE DEF b
<1>2. /\ y \in ActionSet /\ Waits(a, y) /\ ~y.automatic
      /\ w \in ActionSet /\ Waits(a, w)
  BY <1>1 DEF ActionSet, StepSet, SameBut, Waits
<1>3. Yielded(a) = y /\ Waiting(a) = w
  BY DEF Yielded, Waiting, b
<1> HIDE DEF y, w
<1> QED BY <1>2, <1>3

LEMMA SteppedIs ==
  ASSUME NEW a \in ActionSet, NEW cruise \in Nat, NEW target \in Int
  PROVE  LET b == Stepped(a, cruise, target) IN
         /\ b \in ActionSet
         /\ (Waits(a, b) /\ b.auto_pending = a.auto_pending) \/ Moves(a, b)
<1> DEFINE seen == [a EXCEPT !.last_cruise = cruise]
           sign == Sign(target - cruise)
           press == IF sign > 0 THEN {"up"} ELSE {"down"}
           b == Pressed(seen, Speed, press)
           pending == [before |-> cruise, sent |-> 0, sign |-> sign]
           c == [b EXCEPT !.repeat = 0, !.auto_pending = pending]
           stays == \/ a.auto_blocked
                    \/ Abs(target - cruise) <= 250
                    \/ a.repeat \in 0..REPEAT - 1
<1>1. seen \in ActionSet /\ Waits(a, seen) /\ seen.repeat = a.repeat
      /\ seen.automatic = a.automatic /\ seen.auto_pending = a.auto_pending
      /\ seen.previous = a.previous
  BY DEF ActionSet, Waits
<1>2. Stepped(a, cruise, target) = IF stays THEN seen ELSE c
  BY Zenon DEF Stepped
<1>3. ~stays => sign \in {-1, 1}
  BY DEF Abs, Sign
<1>4. press \in {{"up"}, {"down"}}
  OBVIOUS
<1>5. ~stays => a.repeat \notin 0..REPEAT - 1
  OBVIOUS
<1> HIDE DEF seen, press, stays, sign
<1>6. /\ b \in ActionSet /\ b.automatic = a.automatic
      /\ b.previous = a.previous
      /\ \E i \in Speed : b.pulse[i] = PULSE
  <2>1. b \in ActionSet /\ SameBut(seen, b)
    BY <1>1, PressedIs
  <2>2. \A i \in Inputs : i \in press => b.pulse[i] = PULSE
    BY <1>1, PressedIs
  <2> HIDE DEF b
  <2> QED BY <1>1, <1>4, <2>1, <2>2 DEF SameBut, Inputs, Speed
<1> HIDE DEF b
<1>7. ~stays => pending \in StepSet
  BY <1>3, CruiseAssumption DEF StepSet
<1>0. 0 \in {NotSet} \cup 0..REPEAT
  BY CruiseAssumption
<1> HIDE DEF pending
<1>8. ~stays => /\ c \in ActionSet /\ c.repeat = 0 /\ c.pulse = b.pulse
                /\ c.automatic = a.automatic /\ c.previous = a.previous
  BY <1>0, <1>6, <1>7 DEF ActionSet
<1> HIDE DEF c
<1>9. CASE stays
  BY <1>1, <1>2, <1>9
<1>10. CASE ~stays
  BY <1>2, <1>5, <1>6, <1>8, <1>10 DEF Moves
<1> QED BY <1>9, <1>10

LEMMA AdjustedIs ==
  ASSUME NEW a \in ActionSet, NEW cruise \in Samples, NEW limit \in Samples
  PROVE  LET b == Adjusted(a, cruise, limit) IN
         b \in ActionSet /\ (Waits(a, b) \/ Moves(a, b))
<1> DEFINE target == Target(Unit, limit)
           aimed == Aimed(a, target)
           step == aimed.auto_pending
           acked == [aimed EXCEPT !.auto_pending = NoStep]
           beyond == \/ acked.auto_blocked
                     \/ /\ Sign(target - cruise) # step.sign
                        /\ Abs(target - cruise) > 250
           past == [acked EXCEPT !.auto_blocked = beyond]
           blocked == [aimed EXCEPT !.auto_blocked = TRUE,
                                    !.auto_pending = NoStep]
           far == limit \notin 1..100000
           off == cruise <= 0 \/ far
           none == target <= 0
           known ==
             IF aimed.auto_pending # NoStep
             THEN IF Abs(cruise - aimed.auto_pending.before) < 100
                  THEN Refused(aimed) ELSE Acknowledged(aimed, cruise, target)
             ELSE IF Unexpected(aimed, cruise) THEN Yielded(aimed)
             ELSE Stepped(aimed, cruise, target)
<1>1. target \in Int
  BY TargetIs DEF Samples, UNKNOWN_NUMBER
<1>2. Adjusted(a, cruise, limit) =
        IF off THEN Waiting(a) ELSE IF none THEN a ELSE known
  BY DEF Adjusted
<1>3. Waits(a, a)
  BY DEF Waits
<1>4. CASE off
  <2> HIDE DEF off, none, known
  <2>1. Adjusted(a, cruise, limit) = Waiting(a)
    BY <1>2, <1>4
  <2> QED BY <2>1, GivesUpIs
<1>5. CASE ~off /\ none
  <2> HIDE DEF off, none, known
  <2> QED BY <1>2, <1>3, <1>5
<1>6. CASE ~off /\ ~none
  <2> HIDE DEF target, far
  <2>0. ~(cruise <= 0) /\ ~(target <= 0)
    BY <1>6
  <2> HIDE DEF off, none
  <2>1. cruise \in Nat /\ target \in Nat
    BY <1>1, <2>0 DEF Samples, UNKNOWN_NUMBER
  <2>2. aimed \in ActionSet /\ Waits(a, aimed)
        /\ aimed.automatic = a.automatic
    BY <2>1 DEF Aimed, ActionSet, Waits
  <2> HIDE DEF aimed
  <2>3. /\ acked \in ActionSet /\ Waits(aimed, acked)
        /\ acked.automatic = aimed.automatic
        /\ blocked \in ActionSet /\ Waits(aimed, blocked)
    BY <2>2 DEF ActionSet, StepSet, Waits
  <2> HIDE DEF acked, blocked
  <2>4. beyond \in BOOLEAN
    BY <2>3 DEF ActionSet
  <2> HIDE DEF beyond
  <2>5. past \in ActionSet /\ Waits(aimed, past)
        /\ past.automatic = aimed.automatic
    BY <2>3, <2>4 DEF ActionSet, Waits
  <2> HIDE DEF past
  <2>6. Refused(aimed) \in {aimed, blocked}
    BY DEF Refused, blocked
  <2>7. Acknowledged(aimed, cruise, target)
          \in {Yielded(acked), Stepped(past, cruise, target)}
    BY Zenon DEF Acknowledged, acked, past, beyond, step
  <2>8. known \in {aimed, blocked, Yielded(acked), Yielded(aimed),
                   Stepped(past, cruise, target),
                   Stepped(aimed, cruise, target)}
    BY <2>6, <2>7
  <2> HIDE DEF known
  <2>9. ASSUME NEW b \in ActionSet, Waits(aimed, b)
        PROVE  Waits(a, b)
    BY <2>2, <2>9 DEF Waits
  <2>10. ASSUME NEW b \in ActionSet, Waits(aimed, b),
                b.automatic = aimed.automatic
         PROVE  LET c == Stepped(b, cruise, target) IN
                c \in ActionSet /\ (Waits(a, c) \/ Moves(a, c))
    <3> DEFINE c == Stepped(b, cruise, target)
    <3>1. c \in ActionSet /\ (Waits(b, c) \/ Moves(b, c))
      BY <2>1, SteppedIs
    <3> HIDE DEF c
    <3>2. Waits(a, b) /\ b.automatic = a.automatic
      BY <2>2, <2>9, <2>10
    <3>3. Waits(a, c) \/ Moves(a, c)
      BY <3>1, <3>2 DEF Waits, Moves
    <3> QED BY <3>1, <3>3 DEF c
  <2>11. ASSUME NEW b \in ActionSet, Waits(aimed, b)
         PROVE  Yielded(b) \in ActionSet /\ Waits(a, Yielded(b))
    <3>1. Yielded(b) \in ActionSet /\ Waits(b, Yielded(b))
      BY GivesUpIs
    <3> QED BY <2>9, <2>11, <3>1 DEF Waits
  <2>12. Waits(aimed, aimed)
    BY DEF Waits
  <2>13. known \in ActionSet /\ (Waits(a, known) \/ Moves(a, known))
    BY <2>2, <2>3, <2>5, <2>8, <2>9, <2>10, <2>11, <2>12
  <2>14. Adjusted(a, cruise, limit) = known
    BY <1>2, <1>6
  <2> QED BY <2>13, <2>14
<1> HIDE DEF off, none
<1> QED BY <1>4, <1>5, <1>6

-----------------------------------------------------------------------------
(* Presses and their clock *)

\* A direction's pulse started with the clock of the repetition; without a
\* clock, it was the driver who pressed, and the adjustment is off.  What the
\* driver holds is pressed with the adjustment off.
Timed(a) ==
  /\ \A i \in Speed :
       a.pulse[i] = 0 \/ (a.repeat # NotSet /\ a.repeat + a.pulse[i] <= PULSE)
         \/ (a.repeat = NotSet /\ ~a.automatic)
  /\ a.automatic /\ a.previous \cap Speed # {} =>
       \A i \in Speed : a.pulse[i] = 0

\* The last frame asserted a direction no longer ago than that clock says.
Told ==
  \A i \in output \cap Speed :
    \/ ~actions.automatic
    \/ /\ actions.repeat # NotSet /\ actions.repeat < PULSE + gap
       /\ actions.previous \cap Speed = {}

\* Of `apply': types are kept, pulses are timed, and a new step of an adjustment
\* that was on comes no sooner than REPEAT after the last press, when nothing
\* of it is left to hold.
LEMMA AppliedIs ==
  ASSUME NEW a \in ActionSet, Timed(a),
         NEW wanted \in SUBSET (Inputs \cup {"pull", "auto"}),
         NEW samples \in [cruise : Samples, limit : Samples]
  PROVE  LET b == Applied(a, wanted, samples) IN
         /\ b \in ActionSet /\ b.previous = wanted /\ Timed(b)
         /\ b.auto_pending \in {a.auto_pending, NoStep}
              \/ /\ \E i \in Speed : b.pulse[i] = PULSE
                 /\ \/ ~a.automatic \/ a.previous \cap Speed # {}
                    \/ a.repeat \notin 0..REPEAT - 1
<1> DEFINE rising == wanted \ a.previous
           toggled == Pressed(a, {}, rising \cap {"toggle", "resume"})
           pulled == Pulled(toggled, wanted, samples.cruise)
           repeated == Repeated(pulled, wanted)
           switched == Switched(repeated, rising)
           manual == [switched EXCEPT !.auto_pending = NoStep,
                                      !.last_cruise = NotSet]
           adjusted == Adjusted(switched, samples.cruise, samples.limit)
           last == IF switched.automatic THEN adjusted ELSE manual
           result == [last EXCEPT !.previous = wanted]
<1>1. /\ toggled \in ActionSet /\ SameBut(a, toggled)
      /\ \A i \in Speed : toggled.pulse[i] = a.pulse[i]
  BY PressedIs DEF Inputs, Speed
<1> HIDE DEF toggled
<1>2. /\ pulled \in ActionSet /\ SameBut(a, pulled)
      /\ \A i \in Speed : pulled.pulse[i] = a.pulse[i]
  BY <1>1, PulledIs DEF SameBut
<1> HIDE DEF pulled
<1>3. /\ repeated \in ActionSet /\ repeated.auto_pending = a.auto_pending
      /\ repeated.previous = a.previous
      /\ \/ /\ wanted \cap Speed = {} /\ repeated.automatic = a.automatic
            /\ \A i \in Speed : repeated.pulse[i] = a.pulse[i]
            /\ repeated.repeat = a.repeat
                 \/ (a.previous \cap Speed # {} /\ repeated.repeat = NotSet)
         \/ /\ wanted \cap Speed # {} /\ ~repeated.automatic
            /\ repeated.repeat = a.repeat /\ repeated.repeat \in 0..REPEAT - 1
            /\ \A i \in Speed : repeated.pulse[i] = a.pulse[i]
         \/ /\ wanted \cap Speed # {} /\ ~repeated.automatic
            /\ repeated.repeat = 0
  BY <1>2, RepeatedIs DEF SameBut
<1> HIDE DEF repeated
<1>4. /\ switched \in ActionSet /\ switched.repeat = repeated.repeat
      /\ switched.previous = a.previous
      /\ \/ /\ switched.automatic \in {repeated.automatic, FALSE}
            /\ switched.auto_pending = repeated.auto_pending
            /\ \A i \in Speed : switched.pulse[i] = repeated.pulse[i]
         \/ /\ switched.auto_pending = NoStep
            /\ \A i \in Speed : switched.pulse[i] = 0
  BY <1>3, SwitchedIs
<1> HIDE DEF switched
<1>5. /\ manual \in ActionSet /\ manual.repeat = switched.repeat
      /\ manual.pulse = switched.pulse
      /\ manual.automatic = switched.automatic
      /\ manual.auto_pending = NoStep
  BY <1>4 DEF ActionSet, StepSet
<1>6. /\ adjusted \in ActionSet
      /\ Waits(switched, adjusted) \/ Moves(switched, adjusted)
  BY <1>4, AdjustedIs
<1> HIDE DEF manual, adjusted
<1>7. last \in ActionSet
  BY <1>5, <1>6
<1> DEFINE moved == switched.automatic /\ Moves(switched, last)
<1>8. \/ /\ last.repeat = switched.repeat
         /\ last.automatic \in {switched.automatic, FALSE}
         /\ last.auto_pending \in {switched.auto_pending, NoStep}
         /\ \A i \in Speed : last.pulse[i] \in {switched.pulse[i], 0}
      \/ moved
  BY <1>5, <1>6 DEF Waits
<1> HIDE DEF last
<1>9. /\ result \in ActionSet /\ result.previous = wanted
      /\ result.pulse = last.pulse /\ result.repeat = last.repeat
      /\ result.automatic = last.automatic
      /\ result.auto_pending = last.auto_pending
  BY <1>7 DEF ActionSet
<1>10. Applied(a, wanted, samples) = result
  BY Zenon DEF Applied, result, last, switched, repeated, pulled, toggled,
               adjusted, manual
<1> HIDE DEF result
<1>11. /\ PULSE \in Nat /\ REPEAT \in Nat /\ PULSE < REPEAT /\ 0 < REPEAT
       /\ NotSet # 0 /\ NotSet \notin 0..REPEAT - 1 /\ 0 \in 0..REPEAT - 1
  BY CruiseAssumption DEF NotSet
<1>12. \A b \in ActionSet : \A i \in Speed : b.pulse[i] \in 0..PULSE
  BY DEF ActionSet, Speed, Inputs
\* What is pressed after the driver's part of the handler.
<1>13. \A i \in Speed :
         switched.pulse[i] = 0
           \/ (switched.repeat # NotSet
                 /\ switched.repeat + switched.pulse[i] <= PULSE)
           \/ (switched.repeat = NotSet /\ ~switched.automatic)
  <2> TAKE i \in Speed
  <2>1. CASE switched.pulse[i] = 0
    BY <2>1
  <2>2. CASE switched.pulse[i] # 0
    <3>1. /\ switched.automatic \in {repeated.automatic, FALSE}
          /\ switched.pulse[i] = repeated.pulse[i]
      BY <1>4, <2>2
    <3>2. repeated.pulse[i] \in 0..PULSE
      BY <1>3, <1>12
    <3>3. CASE wanted \cap Speed = {}
      BY <1>3, <1>4, <2>2, <3>1, <3>3 DEF Timed
    <3>4. CASE wanted \cap Speed # {} /\ repeated.repeat = 0
      BY <1>4, <1>11, <3>1, <3>2, <3>4
    <3>5. CASE /\ wanted \cap Speed # {} /\ ~repeated.automatic
               /\ repeated.repeat = a.repeat
               /\ \A j \in Speed : repeated.pulse[j] = a.pulse[j]
      BY <1>4, <2>2, <3>1, <3>5 DEF Timed
    <3> QED BY <1>3, <3>3, <3>4, <3>5
  <2> QED BY <2>1, <2>2
<1>14. switched.automatic /\ wanted \cap Speed # {} =>
         /\ \A i \in Speed : switched.pulse[i] = 0
         /\ switched.repeat \in 0..REPEAT - 1
  BY <1>3, <1>4, <1>11
<1>15. Timed(result)
  <2>1. CASE moved
    <3>1. result.repeat = 0 /\ switched.repeat \notin 0..REPEAT - 1
      BY <1>9, <2>1 DEF Moves
    <3>2. wanted \cap Speed = {}
      BY <1>14, <2>1, <3>1
    <3>3. \A i \in Speed : result.pulse[i] \in 0..PULSE
      BY <1>9, <1>12
    <3> QED BY <1>9, <1>11, <3>1, <3>2, <3>3 DEF Timed
  <2>2. CASE ~moved
    <3>1. /\ result.repeat = switched.repeat
          /\ result.automatic \in {switched.automatic, FALSE}
          /\ \A i \in Speed : result.pulse[i] \in {switched.pulse[i], 0}
      BY <1>8, <1>9, <2>2
    <3> QED BY <1>9, <1>13, <1>14, <3>1 DEF Timed
  <2> QED BY <2>1, <2>2
<1>16. result.auto_pending \in {a.auto_pending, NoStep}
         \/ /\ \E i \in Speed : result.pulse[i] = PULSE
            /\ \/ ~a.automatic \/ a.previous \cap Speed # {}
               \/ a.repeat \notin 0..REPEAT - 1
  <2>1. CASE moved
    <3>1. /\ \E i \in Speed : result.pulse[i] = PULSE
          /\ switched.repeat \notin 0..REPEAT - 1 /\ switched.automatic
      BY <1>9, <2>1 DEF Moves
    <3>2. wanted \cap Speed = {}
      BY <1>14, <3>1
    <3>3. repeated.repeat = a.repeat \/ a.previous \cap Speed # {}
      BY <1>3, <3>2
    <3> QED BY <1>4, <3>1, <3>3
  <2>2. CASE ~moved
    BY <1>3, <1>4, <1>8, <1>9, <2>2
  <2> QED BY <2>1, <2>2
<1> QED BY <1>9, <1>10, <1>15, <1>16

-----------------------------------------------------------------------------
(* The types of the variables *)

Typed ==
  /\ driver \in Drivers
  /\ actions \in ActionSet /\ actions.previous \in Commands
  /\ desired \in Commands /\ output \in SUBSET Inputs
  /\ gap \in 0..MaxGap /\ lag \in 0..Lag
  /\ motion \in [cruise : Samples, limit : Samples]
  /\ set \in {0} \cup Speeds
  /\ trend \in {-1, 0, 1} /\ keyed \in BOOLEAN /\ own \in Samples

\* The inductive invariant: types, and what times the presses.
CruiseInv == Typed /\ Timed(actions) /\ Told

LEMMA CommandsAre ==
  ASSUME Typed
  PROVE  /\ {} \in Commands
         /\ \A c \in Commands : c \in SUBSET (Inputs \cup {"pull", "auto"})
<1>1. driver.uses \in SUBSET (Inputs \cup {"pull", "auto"})
  BY CruiseAssumption DEF Typed
<1> QED BY <1>1 DEF Commands, Speed

LEMMA NewActionsAre == NewActions \in ActionSet /\ Timed(NewActions)
<1>1. NewActions \in ActionSet
  <2>1. 0 \in 0..PULSE
    BY CruiseAssumption
  <2> QED BY <2>1 DEF NewActions, ActionSet, StepSet
<1>2. Timed(NewActions)
  BY DEF NewActions, Timed, Speed, Inputs
<1> QED BY <1>1, <1>2

LEMMA ReportedIs ==
  ASSUME NEW n \in Nat
  PROVE  Reported(Unit, n) \in Nat
<1>1. Unit \in {"Kmh", "Mph"}
  BY CruiseAssumption DEF Units
<1>2. CASE Unit = "Kmh"
  BY <1>2 DEF Reported, Numerator, Denominator
<1>3. CASE Unit = "Mph"
  BY <1>3 DEF Reported, Numerator, Denominator
<1> QED BY <1>1, <1>2, <1>3

LEMMA CruisingIs == Typed => Cruising \in Nat
<1>1. Typed => set \in Nat
  BY CruiseAssumption DEF Typed
<1> QED BY <1>1, ReportedIs DEF Cruising

\* No press takes the set speed to one that the game cannot be set to.
LEMMA GameSetsSpeeds ==
  ASSUME set \in {0} \cup Speeds, GameTakesInput
  PROVE  set' \in {0} \cup Speeds /\ gap' = 0
<1> DEFINE All == {0} \cup Speeds
           After(input, speeds) ==
             IF input \notin Presses THEN speeds
             ELSE UNION {AfterPress(s, input) : s \in speeds}
<1>1. ASSUME NEW s \in All, NEW input \in Inputs
      PROVE  AfterPress(s, input) \subseteq All
  <2>1. CASE input \in {"toggle", "resume"}
    BY <1>1, <2>1 DEF AfterPress
  <2>2. CASE input \in {"up", "down"}
    BY <1>1, <2>2 DEF AfterPress
  <2> QED BY <2>1, <2>2 DEF Inputs, Speed
<1> HIDE DEF All
<1>2. ASSUME NEW speeds \in SUBSET All, NEW input \in Inputs
      PROVE  After(input, speeds) \in SUBSET All
  BY <1>1
<1>3. /\ set' \in After("down", After("up",
                    After("resume", After("toggle", {set}))))
      /\ gap' = 0
  BY DEF GameTakesInput
<1>4. {set} \in SUBSET All
  BY DEF All
<1>5. /\ "toggle" \in Inputs /\ "resume" \in Inputs
      /\ "up" \in Inputs /\ "down" \in Inputs
  BY DEF Inputs, Speed
<1> HIDE DEF After
<1>6. After("toggle", {set}) \in SUBSET All
  BY <1>2, <1>4, <1>5
<1>7. After("resume", After("toggle", {set})) \in SUBSET All
  BY <1>2, <1>5, <1>6
<1>8. After("up", After("resume", After("toggle", {set}))) \in SUBSET All
  BY <1>2, <1>5, <1>7
<1>9. After("down", After("up", After("resume", After("toggle", {set}))))
        \in SUBSET All
  BY <1>2, <1>5, <1>8
<1> QED BY <1>3, <1>9 DEF All

LEMMA CruiseInit == Init => CruiseInv
<1> SUFFICES ASSUME Init PROVE CruiseInv
  OBVIOUS
<1>1. {} \in Commands
  BY DEF Init, Commands, Speed
<1>2. actions.previous = {}
  BY DEF Init, NewActions
<1>3. 0 \in 0..MaxGap /\ 0 \in 0..Lag
  BY CruiseAssumption
<1>4. Typed
  BY <1>1, <1>2, <1>3, NewActionsAre DEF Init, Typed, Samples
<1>5. Told
  BY DEF Init, Told
<1> QED BY <1>4, <1>5, NewActionsAre DEF Init, CruiseInv

\* What `apply' does to the invariant, and what a new step says.
LEMMA CruiseFrame ==
  ASSUME CruiseInv, Frame
  PROVE  CruiseInv'
<1> DEFINE b == actions'
<1>1. /\ actions' = Applied(actions, desired, motion)
      /\ output' = Asserted(actions') /\ GameTakesInput
      /\ UNCHANGED <<driver, desired, motion, lag, keyed>>
  BY DEF Frame
<1>2. /\ actions \in ActionSet /\ Timed(actions)
      /\ desired \in SUBSET (Inputs \cup {"pull", "auto"})
      /\ motion \in [cruise : Samples, limit : Samples]
  BY CommandsAre DEF CruiseInv, Typed
<1>3. actions' \in ActionSet /\ actions'.previous = desired /\ Timed(actions')
  BY <1>1, <1>2, AppliedIs
<1>4. set' \in {0} \cup Speeds /\ gap' = 0
  BY <1>1, GameSetsSpeeds DEF CruiseInv, Typed
<1>5. output' \in SUBSET Inputs
  BY <1>1 DEF Asserted
<1>6. trend' \in {-1, 0, 1}
  <2>1. actions'.auto_pending.sign \in {-1, 0, 1}
    BY <1>3 DEF ActionSet, StepSet, NoStep
  <2> QED BY <2>1 DEF Frame, CruiseInv, Typed
<1>7. own' \in Samples
  BY <1>2 DEF Frame, CruiseInv, Typed
<1>8. Commands' = Commands
  BY <1>1 DEF Commands
<1>9. 0 \in 0..MaxGap
  BY CruiseAssumption
<1>10. Typed'
  BY <1>1, <1>3, <1>4, <1>5, <1>6, <1>7, <1>8, <1>9 DEF CruiseInv, Typed
<1>11. Told'
  <2> SUFFICES ASSUME NEW i \in output' \cap Speed, actions'.automatic
               PROVE  /\ actions'.repeat # NotSet
                      /\ actions'.repeat < PULSE + gap'
                      /\ actions'.previous \cap Speed = {}
    BY DEF Told
  <2>1. actions'.pulse[i] \in 0..PULSE /\ actions'.pulse[i] > 0
    BY <1>1, <1>3 DEF Asserted, ActionSet, Inputs, Speed
  <2>2. /\ actions'.repeat # NotSet
        /\ actions'.repeat + actions'.pulse[i] <= PULSE
        /\ actions'.previous \cap Speed = {}
    BY <1>3, <2>1 DEF Timed
  <2>3. actions'.repeat \in Nat /\ PULSE \in Nat
    BY <1>3, <2>2, CruiseAssumption DEF ActionSet
  <2> QED BY <1>4, <2>1, <2>2, <2>3
<1> QED BY <1>3, <1>10, <1>11 DEF CruiseInv

LEMMA CruiseTick ==
  ASSUME CruiseInv, Tick
  PROVE  CruiseInv'
<1>1. /\ driver' = driver /\ desired' = desired /\ output' = output
      /\ motion' = motion /\ set' = set
      /\ trend' = trend /\ keyed' = keyed /\ own' = own
  BY DEF Tick, historyVars
<1>2. gap' = gap + 1 /\ gap' \in 0..MaxGap
  BY CruiseAssumption DEF Tick, CruiseInv, Typed
<1>3. lag' \in 0..Lag
  BY CruiseAssumption DEF Tick, CruiseInv, Typed
<1>4. /\ PULSE \in Nat /\ REPEAT \in Nat /\ ACK \in Nat
  BY CruiseAssumption
<1> DEFINE pulse == [i \in Inputs |-> Down(actions.pulse[i])]
           repeat == Up(actions.repeat, REPEAT)
           sent == Up(actions.auto_pending.sent, ACK)
           pending == [actions.auto_pending EXCEPT !.sent = sent]
<1>5. /\ actions \in ActionSet
      /\ actions.pulse \in [Inputs -> 0..PULSE]
      /\ actions.repeat \in {NotSet} \cup 0..REPEAT
      /\ actions.auto_pending \in StepSet
  BY DEF CruiseInv, Typed, ActionSet
<1>6. actions' = [actions EXCEPT !.pulse = pulse, !.repeat = repeat,
                                 !.auto_pending.sent = sent]
  BY <1>5 DEF Tick, ActionSet, StepSet, NoStep
<1>7. pulse \in [Inputs -> 0..PULSE]
  BY <1>4, <1>5 DEF Down
<1>8. repeat \in {NotSet} \cup 0..REPEAT
  BY <1>4, <1>5 DEF Up, NotSet
<1>9. pending \in StepSet
  BY <1>4, <1>5 DEF Up, NotSet, NoStep, StepSet
<1> HIDE DEF pulse, repeat, sent
<1>10. actions' = [actions EXCEPT !.pulse = pulse, !.repeat = repeat,
                                  !.auto_pending = pending]
  BY <1>5, <1>6 DEF ActionSet
<1> HIDE DEF pending
<1>11. /\ actions' \in ActionSet /\ actions'.pulse = pulse
       /\ actions'.repeat = repeat
       /\ actions'.automatic = actions.automatic
       /\ actions'.previous = actions.previous
  BY <1>5, <1>7, <1>8, <1>9, <1>10 DEF ActionSet
<1>12. Commands' = Commands
  BY <1>1 DEF Commands
<1>13. Typed'
  BY <1>1, <1>2, <1>3, <1>11, <1>12 DEF CruiseInv, Typed
<1>14. \A i \in Speed :
         pulse[i] = IF actions.pulse[i] = 0 THEN 0 ELSE actions.pulse[i] - 1
  BY DEF pulse, Down, Inputs, Speed
<1>15. /\ actions.repeat = NotSet => repeat = NotSet
       /\ actions.repeat # NotSet => /\ repeat # NotSet
                                     /\ repeat <= actions.repeat + 1
  BY <1>4, <1>5 DEF repeat, Up, NotSet
<1>16. Timed(actions')
  <2>1. ASSUME NEW i \in Speed
        PROVE  \/ actions'.pulse[i] = 0
               \/ (actions'.repeat # NotSet
                     /\ actions'.repeat + actions'.pulse[i] <= PULSE)
               \/ (actions'.repeat = NotSet /\ ~actions'.automatic)
    <3>1. CASE actions.pulse[i] = 0
      BY <1>11, <1>14, <3>1
    <3>2. CASE actions.pulse[i] # 0 /\ actions.repeat = NotSet
      BY <1>11, <1>15, <3>2 DEF CruiseInv, Timed
    <3>3. CASE actions.pulse[i] # 0 /\ actions.repeat # NotSet
      <4>1. actions.repeat + actions.pulse[i] <= PULSE
        BY <3>3 DEF CruiseInv, Timed
      <4>2. /\ actions.pulse[i] \in Nat /\ actions.repeat \in Nat
            /\ repeat \in Nat
        BY <1>5, <1>8, <1>15, <3>3 DEF Inputs, Speed
      <4>3. pulse[i] = actions.pulse[i] - 1 /\ repeat <= actions.repeat + 1
            /\ repeat # NotSet
        BY <1>14, <1>15, <3>3
      <4>4. repeat + pulse[i] <= PULSE
        BY <1>4, <4>1, <4>2, <4>3
      <4> QED BY <1>11, <4>3, <4>4
    <3> QED BY <3>1, <3>2, <3>3
  <2>2. actions'.automatic /\ actions'.previous \cap Speed # {} =>
          \A i \in Speed : actions'.pulse[i] = 0
    BY <1>11, <1>14 DEF CruiseInv, Timed
  <2> QED BY <2>1, <2>2 DEF Timed
<1>17. Told'
  <2> SUFFICES ASSUME NEW i \in output \cap Speed, actions.automatic
               PROVE  /\ repeat # NotSet /\ repeat < PULSE + (gap + 1)
                      /\ actions.previous \cap Speed = {}
    BY <1>1, <1>2, <1>11 DEF Told
  <2>1. /\ actions.repeat # NotSet /\ actions.repeat < PULSE + gap
        /\ actions.previous \cap Speed = {}
    BY DEF CruiseInv, Told
  <2>2. /\ actions.repeat \in Nat /\ repeat \in Nat /\ gap \in Nat
    BY <1>5, <1>8, <1>15, <2>1, CruiseAssumption DEF CruiseInv, Typed
  <2> QED BY <1>4, <1>15, <2>1, <2>2
<1> QED BY <1>13, <1>16, <1>17 DEF CruiseInv

LEMMA CruiseStep == CruiseInv /\ [Next]_vars => CruiseInv'
<1> SUFFICES ASSUME CruiseInv, [Next]_vars PROVE CruiseInv'
  OBVIOUS
<1>1. driver' = driver => Commands' = Commands
  BY DEF Commands
<1>2. 0 \in 0..MaxGap /\ 0 \in 0..Lag
  BY CruiseAssumption
<1>3. ASSUME actions' = actions, output' = output \/ output' = {}, gap' = gap
      PROVE  Timed(actions') /\ Told'
  BY <1>3 DEF CruiseInv, Told, Timed
<1>4. ASSUME NEW command \in Commands, Accept(command)
      PROVE  CruiseInv'
  BY <1>1, <1>3, <1>4 DEF Accept, CruiseInv, Typed, historyVars
<1>5. CASE Invalidate
  <2>1. actions'.previous = {} /\ ~actions'.automatic
    BY <1>5 DEF Invalidate, NewActions
  <2>2. Typed'
    BY <1>1, <1>5, <2>1, CommandsAre, NewActionsAre
       DEF Invalidate, CruiseInv, Typed
  <2>3. Told'
    BY <2>1 DEF Told
  <2>4. Timed(actions')
    BY <1>5, NewActionsAre DEF Invalidate
  <2> QED BY <2>2, <2>3, <2>4 DEF CruiseInv
<1>6. CASE Frame
  BY <1>6, CruiseFrame
<1>7. CASE FrameContended
  <2>1. Typed'
    BY <1>1, <1>2, <1>7 DEF FrameContended, CruiseInv, Typed, historyVars
  <2>2. Told' /\ Timed(actions')
    BY <1>7 DEF FrameContended, CruiseInv, Told, Timed
  <2> QED BY <2>1, <2>2 DEF CruiseInv
<1>8. CASE ReportsCruise
  <2>1. Cruising \in Samples
    BY CruisingIs DEF CruiseInv, Samples
  <2>2. motion' \in [cruise : Samples, limit : Samples]
    BY <1>8, <2>1 DEF ReportsCruise, CruiseInv, Typed
  <2>3. own' \in Samples
    BY <1>8, <2>1 DEF ReportsCruise, CruiseInv, Typed
  <2> QED BY <1>1, <1>2, <1>3, <1>8, <2>2, <2>3
          DEF ReportsCruise, CruiseInv, Typed
<1>9. ASSUME NEW l \in Limits, ReportsLimit(l)
      PROVE  CruiseInv'
  <2>1. Reported(Unit, l) \in Samples
    BY ReportedIs, CruiseAssumption DEF Samples
  <2>2. motion' \in [cruise : Samples, limit : Samples]
    BY <1>9, <2>1 DEF ReportsLimit, CruiseInv, Typed
  <2> QED BY <1>1, <1>3, <1>9, <2>2
          DEF ReportsLimit, CruiseInv, Typed, historyVars
<1>10. ASSUME NEW sample \in {"cruise", "limit"}, SampleLost(sample)
       PROVE  CruiseInv'
  <2>1. motion' \in [cruise : Samples, limit : Samples]
    BY <1>10 DEF SampleLost, CruiseInv, Typed, Samples
  <2>2. lag' \in 0..Lag
    BY <1>2, <1>10 DEF SampleLost, CruiseInv, Typed
  <2> QED BY <1>1, <1>3, <1>10, <2>1, <2>2
          DEF SampleLost, CruiseInv, Typed, historyVars
<1>11. ASSUME NEW s \in driver.keyboard, DriverSets(s)
       PROVE  CruiseInv'
  <2>1. s \in {0} \cup Speeds
    BY CruiseAssumption DEF CruiseInv, Typed
  <2> QED BY <1>1, <1>3, <1>11, <2>1 DEF DriverSets, CruiseInv, Typed
<1>12. CASE Tick
  BY <1>12, CruiseTick
<1>13. CASE UNCHANGED vars
  BY <1>1, <1>3, <1>13 DEF vars, CruiseInv, Typed, historyVars
<1> QED BY <1>4, <1>5, <1>6, <1>7, <1>8, <1>9, <1>10, <1>11, <1>12, <1>13
        DEF Next

\* Every variable keeps its type: what a frame, a tick or a lost sample makes of
\* the pulses, the clocks and the outstanding step of `Actions', and what the
\* game makes of its presses.
THEOREM CruiseTypeCorrect == Spec => []TypeOK
<1>1. CruiseInv => TypeOK
  <2> SUFFICES ASSUME CruiseInv PROVE TypeOK
    OBVIOUS
  <2>1. actions \in ActionSet /\ actions.auto_pending \in StepSet
    BY DEF CruiseInv, Typed, ActionSet
  <2>2. \/ actions.auto_pending = NoStep
        \/ /\ actions.auto_pending.before \in Nat
           /\ actions.auto_pending.sent \in 0..ACK
           /\ actions.auto_pending.sign \in {-1, 1}
    BY <2>1 DEF StepSet
  <2>3. /\ actions.pulse \in [Inputs -> 0..PULSE]
        /\ actions.repeat \in {NotSet} \cup 0..REPEAT
        /\ actions.automatic \in BOOLEAN /\ actions.auto_blocked \in BOOLEAN
        /\ actions.auto_target \in {NotSet} \cup Nat
        /\ actions.last_cruise \in {NotSet} \cup Nat
    BY <2>1 DEF ActionSet
  <2> QED BY <2>2, <2>3 DEF CruiseInv, Typed, TypeOK, Samples
<1>2. QED
  BY <1>1, CruiseInit, CruiseStep, PTL DEF Spec

-----------------------------------------------------------------------------
(* Steps and presses *)

\* No other step of the system looks like a step of the adjustment.
LEMMA StepsAreFrames ==
  ASSUME CruiseInv, Next, Steps
  PROVE  Frame
<1>1. ASSUME actions' = actions PROVE FALSE
  BY <1>1 DEF Steps
<1>2. ASSUME Invalidate PROVE FALSE
  BY <1>2 DEF Invalidate, NewActions, NoStep, Steps, NotSet
<1>3. ASSUME Tick PROVE FALSE
  <2>1. actions.auto_pending \in StepSet /\ actions \in ActionSet
    BY DEF CruiseInv, Typed, ActionSet
  <2>2. actions'.auto_pending =
          [actions.auto_pending EXCEPT
             !.sent = Up(actions.auto_pending.sent, ACK)]
    BY <1>3, <2>1 DEF Tick, ActionSet
  <2>3. actions'.auto_pending.sent = Up(actions.auto_pending.sent, ACK)
    BY <2>1, <2>2 DEF StepSet, NoStep
  <2>4. actions.auto_pending.sent \in {NotSet} \cup 0..ACK
    BY <2>1 DEF StepSet, NoStep
  <2>5. Up(actions.auto_pending.sent, ACK) # 0
    BY <2>4, CruiseAssumption DEF Up, NotSet
  <2> QED BY <2>3, <2>5 DEF Steps
<1> QED BY <1>1, <1>2, <1>3
        DEF Next, Accept, FrameContended, ReportsCruise, ReportsLimit,
            SampleLost, DriverSets

\* A step of an adjustment that was on comes when the game has seen its input
\* released, as long as it asks for input often enough: twice in REPEAT, the
\* pulse included.  (actions.rs:237 waits for REPEAT after the last press.)
THEOREM StepsCount ==
  ASSUME PULSE + MaxGap <= REPEAT
  PROVE  Spec => StepsArePresses
<1>1. ASSUME CruiseInv, [Next]_vars
      PROVE  [Steps /\ actions.automatic => Presses \cap Speed # {}]_vars
  <2> SUFFICES ASSUME Next, Steps, actions.automatic
               PROVE  Presses \cap Speed # {}
    BY <1>1
  <2>1. Frame
    BY <1>1, StepsAreFrames
  <2>2. /\ actions' = Applied(actions, desired, motion)
        /\ output' = Asserted(actions')
    BY <2>1 DEF Frame
  <2>3. /\ actions \in ActionSet /\ Timed(actions)
        /\ desired \in SUBSET (Inputs \cup {"pull", "auto"})
        /\ motion \in [cruise : Samples, limit : Samples]
    BY <1>1, CommandsAre DEF CruiseInv, Typed
  <2>4. NoStep.sent # 0
    BY DEF NoStep, NotSet
  <2>5. /\ \E i \in Speed : actions'.pulse[i] = PULSE
        /\ \/ ~actions.automatic \/ actions.previous \cap Speed # {}
           \/ actions.repeat \notin 0..REPEAT - 1
    BY <2>2, <2>3, <2>4, AppliedIs DEF Steps
  <2>6. PICK i \in Speed : actions'.pulse[i] = PULSE
    BY <2>5
  <2>7. i \in output'
    BY <2>2, <2>6, CruiseAssumption DEF Asserted, Inputs, Speed
  <2>8. ASSUME i \in output PROVE FALSE
    <3>1. /\ actions.repeat # NotSet /\ actions.repeat < PULSE + gap
          /\ actions.previous \cap Speed = {}
      BY <1>1, <2>8 DEF CruiseInv, Told
    <3>2. /\ actions.repeat \in Nat /\ actions.repeat \notin 0..REPEAT - 1
      BY <2>3, <2>5, <3>1, CruiseAssumption DEF ActionSet
    <3>3. gap \in 0..MaxGap
      BY <1>1 DEF CruiseInv, Typed
    <3> QED BY <3>1, <3>2, <3>3, CruiseAssumption
  <2> QED BY <2>6, <2>7, <2>8 DEF Presses
<1>2. QED
  BY <1>1, CruiseInit, CruiseStep, PTL DEF Spec, StepsArePresses

-----------------------------------------------------------------------------
(* Steps and the driver *)

\* What telemetry can report of the set speed.
Cruises == {0} \cup {Reported(Unit, s) : s \in Speeds}

\* Two reported set speeds that differ are a unit apart, more than the 100 mm/s
\* that `adjust' takes for the same speed.
LEMMA ReportsDiffer ==
  ASSUME NEW c \in Cruises, NEW d \in Cruises, Abs(c - d) <= 100
  PROVE  c = d
<1> DEFINE R(s) == Reported(Unit, s)
<1>1. Unit \in {"Kmh", "Mph"}
  BY CruiseAssumption DEF Units
<1>2. ASSUME NEW s \in Nat, NEW t \in Nat, s < t
      PROVE  R(s) \in Nat /\ R(t) \in Nat /\ R(t) - R(s) > 100
  <2>1. CASE Unit = "Kmh"
    BY <1>2, <2>1 DEF Reported, Numerator, Denominator
  <2>2. CASE Unit = "Mph"
    BY <1>2, <2>2 DEF Reported, Numerator, Denominator
  <2> QED BY <1>1, <2>1, <2>2
<1>3. R(0) = 0
  BY <1>1 DEF Reported, Numerator, Denominator
<1>4. \A e \in Cruises : \E s \in Nat : e = R(s)
  BY <1>3, CruiseAssumption DEF Cruises
<1>5. PICK s \in Nat, t \in Nat : c = R(s) /\ d = R(t)
  BY <1>4
<1> HIDE DEF R
<1>6. CASE s < t
  BY <1>2, <1>5, <1>6 DEF Abs
<1>7. CASE t < s
  BY <1>2, <1>5, <1>7 DEF Abs
<1> QED BY <1>5, <1>6, <1>7

LEMMA CruisesAre == \A c \in Cruises : c \in Nat
  BY ReportedIs, CruiseAssumption DEF Cruises

\* From a speed one sees the target in a step's direction, or is there.
Heads(target, cruise, sign) ==
  Sign(target - cruise) = sign \/ Abs(target - cruise) <= 250

\* After a step in direction d towards its target, an adjustment waits for that
\* step, or is stopped, or sees the target in the same direction.
Turned(a, d) ==
  d # 0 =>
    /\ a.automatic /\ a.auto_target # NotSet
    /\ a.auto_pending # NoStep => a.auto_pending.sign = d
    /\ a.auto_pending = NoStep /\ ~a.auto_blocked =>
         /\ a.last_cruise # NotSet
         /\ Heads(a.auto_target, a.last_cruise, d)

\* Nothing of the adjustment differs, but that it may be off.
Keeps(a, b) ==
  /\ b.automatic \in {a.automatic, FALSE}
  /\ b.auto_target = a.auto_target /\ b.auto_pending = a.auto_pending
  /\ b.auto_blocked = a.auto_blocked /\ b.last_cruise = a.last_cruise

LEMMA RepeatedKeeps ==
  ASSUME NEW a \in ActionSet, NEW wanted
  PROVE  Keeps(a, Repeated(a, wanted))
<1> DEFINE manual == wanted \cap Speed
           stopped == [a EXCEPT !.repeat = NotSet]
           going == [a EXCEPT !.automatic = FALSE]
           b == Pressed(a, Speed, manual)
           pressed == [b EXCEPT !.automatic = FALSE, !.repeat = 0]
<1>1. Keeps(a, a) /\ Keeps(a, stopped) /\ Keeps(a, going)
  BY DEF ActionSet, Keeps
<1>2. b \in ActionSet /\ SameBut(a, b)
  BY PressedIs
<1>3. Repeated(a, wanted) \in {a, stopped, going, pressed}
  BY DEF Repeated
<1> HIDE DEF stopped, going, b
<1>4. Keeps(a, pressed)
  BY <1>2 DEF ActionSet, SameBut, Keeps
<1> HIDE DEF pressed
<1> QED BY <1>1, <1>3, <1>4

\* The switch starts afresh; any other control leaves the adjustment's memory.
LEMMA SwitchedKeeps ==
  ASSUME NEW a \in ActionSet, NEW rising
  PROVE  LET b == Switched(a, rising) IN
         IF "auto" \notin rising THEN Keeps(a, b)
         ELSE b.auto_pending = NoStep /\ b.last_cruise = NotSet
<1> DEFINE manual == IF rising \cap Engaging = {} THEN a
                     ELSE [a EXCEPT !.automatic = FALSE]
           b == Pressed(manual, Speed, {})
           c == [b EXCEPT !.automatic = ~b.automatic, !.auto_pending = NoStep,
                          !.auto_blocked = FALSE, !.auto_target = NotSet,
                          !.last_cruise = NotSet]
<1>1. manual \in ActionSet /\ Keeps(a, manual)
  BY DEF ActionSet, Keeps
<1>2. Switched(a, rising) = IF "auto" \notin rising THEN manual ELSE c
  BY DEF Switched
<1> HIDE DEF manual
<1>3. b \in ActionSet
  BY <1>1, PressedIs
<1> HIDE DEF b
<1>4. c.auto_pending = NoStep /\ c.last_cruise = NotSet
  BY <1>3 DEF ActionSet
<1> HIDE DEF c
<1> QED BY <1>1, <1>2, <1>4

LEMMA SteppedTurns ==
  ASSUME NEW a \in ActionSet, NEW cruise \in Nat, NEW target \in Nat
  PROVE  LET b == Stepped(a, cruise, target) IN
         /\ b.automatic = a.automatic /\ b.auto_target = a.auto_target
         /\ b.auto_blocked = a.auto_blocked /\ b.last_cruise = cruise
         /\ \/ /\ b.auto_pending = a.auto_pending
            \/ /\ ~a.auto_blocked /\ Abs(target - cruise) > 250
               /\ b.auto_pending # NoStep
               /\ b.auto_pending.sign = Sign(target - cruise)
<1> DEFINE seen == [a EXCEPT !.last_cruise = cruise]
           sign == Sign(target - cruise)
           press == IF sign > 0 THEN {"up"} ELSE {"down"}
           b == Pressed(seen, Speed, press)
           pending == [before |-> cruise, sent |-> 0, sign |-> sign]
           c == [b EXCEPT !.repeat = 0, !.auto_pending = pending]
           stays == \/ a.auto_blocked
                    \/ Abs(target - cruise) <= 250
                    \/ a.repeat \in 0..REPEAT - 1
<1>1. /\ seen \in ActionSet
      /\ seen.automatic = a.automatic /\ seen.auto_target = a.auto_target
      /\ seen.auto_pending = a.auto_pending
      /\ seen.auto_blocked = a.auto_blocked /\ seen.last_cruise = cruise
  BY DEF ActionSet
<1>2. Stepped(a, cruise, target) = IF stays THEN seen ELSE c
  BY Zenon DEF Stepped
<1>3. ~stays => ~a.auto_blocked /\ Abs(target - cruise) > 250
  BY DEF Abs
<1>4. pending # NoStep /\ pending.sign = Sign(target - cruise)
  BY DEF NoStep, NotSet
<1> HIDE DEF seen, stays, press, pending
<1>5. b \in ActionSet /\ SameBut(seen, b)
  BY <1>1, PressedIs
<1> HIDE DEF b
<1>6. /\ c.automatic = b.automatic /\ c.auto_target = b.auto_target
      /\ c.auto_blocked = b.auto_blocked /\ c.last_cruise = b.last_cruise
      /\ c.auto_pending = pending
  BY <1>5 DEF ActionSet
<1> HIDE DEF c
<1>7. CASE stays
  BY <1>1, <1>2, <1>7
<1>8. CASE ~stays
  BY <1>1, <1>2, <1>3, <1>4, <1>5, <1>6, <1>8 DEF SameBut
<1> QED BY <1>7, <1>8

LEMMA GivesUpTurns ==
  ASSUME NEW a \in ActionSet
  PROVE  /\ ~Yielded(a).automatic
         /\ Yielded(a).auto_pending = a.auto_pending
         /\ Yielded(a).last_cruise = a.last_cruise
         /\ Waiting(a).auto_pending = NoStep
         /\ Waiting(a).auto_target = NotSet
         /\ Waiting(a).last_cruise = NotSet
<1> DEFINE b == Pressed(a, Speed, {})
<1>1. b \in ActionSet /\ SameBut(a, b)
  BY PressedIs
<1> HIDE DEF b
<1>2. Yielded(a) = [b EXCEPT !.automatic = FALSE]
  BY DEF Yielded, b
<1>3. Waiting(a) = [b EXCEPT !.auto_pending = NoStep, !.auto_target = NotSet,
                             !.last_cruise = NotSet]
  BY DEF Waiting, b
<1> QED BY <1>1, <1>2, <1>3 DEF ActionSet, SameBut

\* A step that `adjust' takes, in a handler that begins with a and ends with b.
StepsTo(a, b) ==
  b.auto_pending # a.auto_pending /\ b.auto_pending.sent = 0

\* Of `adjust': a step it takes towards the target it had is in direction d,
\* that of the step before, and one that no step is outstanding for is taken
\* from the speed it saw last.  If it takes none, the next will be so.
Adjusts(a, b, cruise, d) ==
  /\ b.last_cruise \in {NotSet} \cup Cruises
  /\ StepsTo(a, b) =>
       /\ b.automatic /\ b.auto_target # NotSet /\ b.auto_pending # NoStep
       /\ b.auto_target = a.auto_target => d \in {0, b.auto_pending.sign}
       /\ a.auto_pending = NoStep /\ a.last_cruise # NotSet =>
            cruise = a.last_cruise
  /\ ~StepsTo(a, b) /\ b.automatic /\ b.auto_target = a.auto_target =>
       Turned(b, d)

LEMMA AdjustedTurns ==
  ASSUME NEW a \in ActionSet, a.automatic, NEW limit \in Samples,
         a.last_cruise \in {NotSet} \cup Cruises,
         NEW cruise \in {UNKNOWN_NUMBER} \cup Cruises,
         NEW d \in {-1, 0, 1}, Turned(a, d)
  PROVE  Adjusts(a, Adjusted(a, cruise, limit), cruise, d)
<1> DEFINE target == Target(Unit, limit)
           aimed == Aimed(a, target)
           step == aimed.auto_pending
           acked == [aimed EXCEPT !.auto_pending = NoStep]
           beyond == \/ acked.auto_blocked
                     \/ /\ Sign(target - cruise) # step.sign
                        /\ Abs(target - cruise) > 250
           past == [acked EXCEPT !.auto_blocked = beyond]
           blocked == [aimed EXCEPT !.auto_blocked = TRUE,
                                    !.auto_pending = NoStep]
           far == limit \notin 1..100000
           off == cruise <= 0 \/ far
           none == target <= 0
           known ==
             IF aimed.auto_pending # NoStep
             THEN IF Abs(cruise - aimed.auto_pending.before) < 100
                  THEN Refused(aimed) ELSE Acknowledged(aimed, cruise, target)
             ELSE IF Unexpected(aimed, cruise) THEN Yielded(aimed)
             ELSE Stepped(aimed, cruise, target)
<1>0. NoStep.sent # 0
  BY DEF NoStep, NotSet
<1>1. cruise \in Samples /\ target \in Int
  BY CruisesAre, TargetIs DEF Samples, UNKNOWN_NUMBER
<1>2. PICK b : b = Adjusted(a, cruise, limit)
  OBVIOUS
<1> SUFFICES Adjusts(a, b, cruise, d)
  BY <1>2
<1>3. b = IF off THEN Waiting(a) ELSE IF none THEN a ELSE known
  <2>1. Adjusted(a, cruise, limit) =
          IF off THEN Waiting(a) ELSE IF none THEN a ELSE known
    BY DEF Adjusted
  <2> HIDE DEF off, none, known
  <2> QED BY <1>2, <2>1
<1>4. CASE off
  <2> HIDE DEF off, none, known
  <2>1. b = Waiting(a)
    BY <1>3, <1>4
  <2>2. b.auto_pending = NoStep /\ b.auto_target = NotSet
        /\ b.last_cruise = NotSet
    BY <2>1, GivesUpTurns
  <2> QED BY <1>0, <2>2 DEF Adjusts, StepsTo, Turned
<1>5. CASE ~off /\ none
  <2> HIDE DEF off, none, known
  <2>1. b = a
    BY <1>3, <1>5
  <2> QED BY <2>1 DEF Adjusts, StepsTo
<1>6. CASE ~off /\ ~none
  <2>1. b = known
    <3> HIDE DEF off, none, known
    <3> QED BY <1>3, <1>6
  <2>2. cruise \in Nat /\ cruise \in Cruises /\ target \in Nat
        /\ target # NotSet
    <3> HIDE DEF far
    <3>1. ~(cruise <= 0) /\ ~(target <= 0)
      BY <1>6
    <3> HIDE DEF off, none, known, target
    <3> QED BY <1>1, <3>1, CruisesAre DEF UNKNOWN_NUMBER, NotSet
  <2> HIDE DEF target, far, off, none, known
  <2>3. /\ aimed \in ActionSet /\ aimed.automatic
        /\ aimed.auto_pending = a.auto_pending
        /\ aimed.last_cruise = a.last_cruise
        /\ aimed.auto_target = target
        /\ a.auto_target = target => aimed = a
    BY <2>2 DEF Aimed, ActionSet
  <2> HIDE DEF aimed
  <2>4. /\ acked \in ActionSet /\ acked.auto_pending = NoStep
        /\ acked.last_cruise = a.last_cruise
        /\ acked.automatic /\ acked.auto_target = target
    BY <2>3 DEF ActionSet, StepSet
  <2>5. /\ blocked.auto_pending = NoStep /\ blocked.auto_blocked
        /\ blocked.last_cruise = a.last_cruise
        /\ blocked.automatic /\ blocked.auto_target = target
    BY <2>3 DEF ActionSet
  <2> HIDE DEF acked, blocked
  <2>6. beyond \in BOOLEAN
    BY <2>4 DEF ActionSet
  <2>7. ~beyond => Heads(target, cruise, step.sign)
    BY <2>2 DEF Heads, Abs
  <2> HIDE DEF beyond
  <2>8. /\ past \in ActionSet /\ past.auto_pending = NoStep
        /\ past.auto_blocked = beyond
        /\ past.automatic /\ past.auto_target = target
    BY <2>4, <2>6 DEF ActionSet
  <2> HIDE DEF past
  \* The step is refused, or still outstanding.
  <2>9. CASE b = aimed /\ step # NoStep
    BY <2>3, <2>9 DEF Adjusts, StepsTo
  <2>10. CASE b = blocked
    BY <1>0, <2>5, <2>10 DEF Adjusts, StepsTo, Turned
  \* The driver has taken over.
  <2>11. CASE b = Yielded(acked) \/ (b = Yielded(aimed) /\ step = NoStep)
    <3>1. /\ ~b.automatic /\ b.auto_pending = NoStep
          /\ b.last_cruise = a.last_cruise
      BY <2>3, <2>4, <2>11, GivesUpTurns
    <3> QED BY <1>0, <3>1 DEF Adjusts, StepsTo
  \* The step is acknowledged.
  <2>12. CASE b = Stepped(past, cruise, target) /\ step # NoStep
    <3>1. /\ b.automatic /\ b.auto_target = target
          /\ b.auto_blocked = beyond /\ b.last_cruise = cruise
          /\ \/ b.auto_pending = NoStep
             \/ /\ ~beyond /\ Abs(target - cruise) > 250
                /\ b.auto_pending # NoStep
                /\ b.auto_pending.sign = Sign(target - cruise)
      BY <2>2, <2>8, <2>12, SteppedTurns
    <3>2. b.auto_pending # NoStep => b.auto_pending.sign = step.sign
      BY <2>2, <2>7, <3>1 DEF Heads, Abs
    <3>3. d # 0 => step.sign = d
      BY <2>3, <2>12 DEF Turned
    <3>4. StepsTo(a, b) => b.auto_pending # NoStep
      BY <1>0 DEF StepsTo
    <3>5. a.auto_pending # NoStep
      BY <2>3, <2>12
    <3>6. cruise # NotSet
      BY <2>2 DEF NotSet
    <3>7. Turned(b, d)
      BY <2>2, <2>7, <3>1, <3>2, <3>3, <3>6 DEF Turned
    <3> QED BY <2>2, <3>1, <3>2, <3>3, <3>4, <3>5, <3>7 DEF Adjusts
  \* There was no step outstanding.
  <2>13. CASE /\ b = Stepped(aimed, cruise, target) /\ step = NoStep
              /\ ~Unexpected(aimed, cruise)
    <3>1. /\ b.automatic /\ b.auto_target = target
          /\ b.auto_blocked = aimed.auto_blocked /\ b.last_cruise = cruise
          /\ \/ b.auto_pending = NoStep
             \/ /\ ~aimed.auto_blocked /\ Abs(target - cruise) > 250
                /\ b.auto_pending # NoStep
                /\ b.auto_pending.sign = Sign(target - cruise)
      BY <2>2, <2>3, <2>13, SteppedTurns
    <3>2. a.last_cruise # NotSet => cruise = a.last_cruise
      <4> SUFFICES ASSUME a.last_cruise # NotSet PROVE cruise = a.last_cruise
        OBVIOUS
      <4>1. a.last_cruise \in Cruises /\ a.last_cruise \in Nat
        BY CruisesAre
      <4>2. ~(Abs(a.last_cruise - cruise) > 100)
        BY <2>3, <2>13 DEF Unexpected
      <4>3. Abs(a.last_cruise - cruise) <= 100
        BY <2>2, <4>1, <4>2 DEF Abs
      <4> QED BY <2>2, <4>1, <4>3, ReportsDiffer
    <3>3. a.auto_target = target /\ d # 0 /\ ~aimed.auto_blocked =>
            Heads(target, cruise, d)
      BY <2>3, <2>13, <3>2 DEF Turned
    <3>4. StepsTo(a, b) => b.auto_pending # NoStep
      BY <1>0 DEF StepsTo
    <3>5. cruise # NotSet
      BY <2>2 DEF NotSet
    <3>6. a.auto_target = target /\ d # 0 /\ b.auto_pending # NoStep =>
            b.auto_pending.sign = d
      BY <2>2, <3>1, <3>3 DEF Heads, Abs
    <3>7. a.auto_target = target => Turned(b, d)
      BY <2>2, <3>1, <3>3, <3>5, <3>6 DEF Turned
    <3> QED BY <2>2, <3>1, <3>2, <3>4, <3>6, <3>7 DEF Adjusts
  <2>14. Refused(aimed) \in {aimed, blocked}
    BY DEF Refused, blocked
  <2>15. Acknowledged(aimed, cruise, target)
           \in {Yielded(acked), Stepped(past, cruise, target)}
    BY Zenon DEF Acknowledged, acked, past, beyond
  <2>16. \/ b = aimed /\ step # NoStep
         \/ b = blocked
         \/ b = Yielded(acked) \/ (b = Yielded(aimed) /\ step = NoStep)
         \/ b = Stepped(past, cruise, target) /\ step # NoStep
         \/ /\ b = Stepped(aimed, cruise, target) /\ step = NoStep
            /\ ~Unexpected(aimed, cruise)
    BY <2>1, <2>14, <2>15 DEF known
  <2> QED BY <2>9, <2>10, <2>11, <2>12, <2>13, <2>16
<1> HIDE DEF off, none
<1> QED BY <1>4, <1>5, <1>6

\* Of `apply': what Adjusts says of a step, and of the memory without one.  The
\* switch forgets the direction of the last step.
LEMMA AppliedTurns ==
  ASSUME NEW a \in ActionSet, NEW wanted,
         NEW samples \in [cruise : Samples, limit : Samples],
         samples.cruise \in {UNKNOWN_NUMBER} \cup Cruises,
         a.last_cruise \in {NotSet} \cup Cruises,
         NEW d \in {-1, 0, 1}, Turned(a, d),
         NEW b, b = Applied(a, wanted, samples)
  PROVE  /\ b.last_cruise \in {NotSet} \cup Cruises
         /\ StepsTo(a, b) =>
              b.automatic /\ b.auto_target # NotSet /\ b.auto_pending # NoStep
         /\ "auto" \notin wanted \ a.previous /\ a.automatic =>
              Adjusts(a, b, samples.cruise, d)
         /\ ~a.automatic => d = 0
<1> DEFINE rising == wanted \ a.previous
           toggled == Pressed(a, {}, rising \cap {"toggle", "resume"})
           pulled == Pulled(toggled, wanted, samples.cruise)
           repeated == Repeated(pulled, wanted)
           switched == Switched(repeated, rising)
           manual == [switched EXCEPT !.auto_pending = NoStep,
                                      !.last_cruise = NotSet]
           adjusted == Adjusted(switched, samples.cruise, samples.limit)
           last == IF switched.automatic THEN adjusted ELSE manual
           result == [last EXCEPT !.previous = wanted]
           e == IF "auto" \in rising THEN 0 ELSE d
<1>1. toggled \in ActionSet /\ SameBut(a, toggled)
  BY PressedIs
<1> HIDE DEF toggled
<1>2. pulled \in ActionSet /\ Keeps(a, pulled)
  <2>1. pulled \in ActionSet /\ SameBut(toggled, pulled)
    BY <1>1, PulledIs
  <2> HIDE DEF pulled
  <2>2. SameBut(a, pulled)
    BY <1>1, <2>1 DEF SameBut
  <2> QED BY <2>1, <2>2, Zenon DEF SameBut, Keeps
<1> HIDE DEF pulled
<1>3. repeated \in ActionSet /\ Keeps(a, repeated)
  BY <1>2, RepeatedIs, RepeatedKeeps DEF Keeps
<1> HIDE DEF repeated
<1>4. /\ switched \in ActionSet
      /\ IF "auto" \notin rising THEN Keeps(a, switched)
         ELSE switched.auto_pending = NoStep /\ switched.last_cruise = NotSet
  <2>1. switched \in ActionSet
    BY <1>3, SwitchedIs
  <2>2. IF "auto" \notin rising THEN Keeps(repeated, switched)
        ELSE switched.auto_pending = NoStep /\ switched.last_cruise = NotSet
    BY <1>3, SwitchedKeeps
  <2> HIDE DEF switched, rising
  <2> QED BY <1>3, <2>1, <2>2 DEF Keeps
<1> HIDE DEF switched
<1>5. /\ manual \in ActionSet /\ manual.automatic = switched.automatic
      /\ manual.auto_pending = NoStep /\ manual.last_cruise = NotSet
  BY <1>4 DEF ActionSet, StepSet
<1>6. switched.last_cruise \in {NotSet} \cup Cruises
  BY <1>4 DEF Keeps
<1>7. switched.automatic => Turned(switched, e)
  BY <1>4 DEF Turned, Keeps
<1>8. e \in {-1, 0, 1}
  OBVIOUS
<1> HIDE DEF e
<1>9. switched.automatic =>
        adjusted \in ActionSet /\ Adjusts(switched, adjusted, samples.cruise, e)
  BY <1>4, <1>6, <1>7, <1>8, AdjustedIs, AdjustedTurns
<1> HIDE DEF manual, adjusted
<1>10. last \in ActionSet
  BY <1>5, <1>9
<1>11. b = result
  BY Zenon DEF Applied, result, last, switched, repeated, pulled, toggled,
               adjusted, manual
<1>12. /\ b.automatic = last.automatic /\ b.auto_target = last.auto_target
       /\ b.auto_pending = last.auto_pending
       /\ b.auto_blocked = last.auto_blocked
       /\ b.last_cruise = last.last_cruise
  BY <1>10, <1>11 DEF ActionSet
<1> HIDE DEF result
<1>13. NoStep.sent # 0
  BY DEF NoStep, NotSet
<1>14. ~a.automatic => d = 0
  BY DEF Turned
<1>15. CASE ~switched.automatic
  <2>1. /\ ~b.automatic /\ b.auto_pending = NoStep
        /\ b.last_cruise = NotSet
    BY <1>5, <1>12, <1>15
  <2>2. ~StepsTo(a, b)
    BY <1>13, <2>1 DEF StepsTo
  <2> QED BY <1>14, <2>1, <2>2 DEF Adjusts
<1>16. CASE switched.automatic
  <2>1. Adjusts(switched, b, samples.cruise, e)
    BY <1>9, <1>12, <1>16 DEF Adjusts, StepsTo, Turned
  <2>2. StepsTo(a, b) => StepsTo(switched, b)
    BY <1>4, <1>13 DEF StepsTo, Keeps
  <2>3. "auto" \notin rising /\ a.automatic =>
          Adjusts(a, b, samples.cruise, d)
    <3> SUFFICES ASSUME "auto" \notin rising, a.automatic
                 PROVE  Adjusts(a, b, samples.cruise, d)
      OBVIOUS
    <3>1. Keeps(a, switched) /\ e = d
      BY <1>4 DEF e
    <3> QED BY <2>1, <3>1 DEF Adjusts, StepsTo, Keeps
  <2> QED BY <1>14, <2>1, <2>2, <2>3 DEF Adjusts
<1> QED BY <1>15, <1>16

\* The inductive invariant: the speeds the plugin reads and remembers are ones
\* the game can be set to, and a step's direction is what Turned says.
Seen ==
  /\ motion.cruise \in {UNKNOWN_NUMBER} \cup Cruises
  /\ actions.last_cruise \in {NotSet} \cup Cruises
  /\ Turned(actions, trend)

SteppingInv == CruiseInv /\ Seen

LEMMA SteppingInit == Init => SteppingInv
<1> SUFFICES ASSUME Init PROVE Seen
  BY CruiseInit DEF SteppingInv
<1> QED BY DEF Init, Seen, Turned, NewActions

\* What a frame's step is, under the invariant.
LEMMA FrameTurns ==
  ASSUME SteppingInv, Frame
  PROVE  /\ actions'.last_cruise \in {NotSet} \cup Cruises
         /\ Steps =>
              /\ actions'.automatic /\ actions'.auto_target # NotSet
              /\ actions'.auto_pending # NoStep
         /\ ~Toggles /\ actions.automatic =>
              Adjusts(actions, actions', motion.cruise, trend)
         /\ ~actions.automatic => trend = 0
         /\ Steps <=> StepsTo(actions, actions')
<1>1. /\ actions \in ActionSet /\ trend \in {-1, 0, 1}
      /\ motion \in [cruise : Samples, limit : Samples]
  BY DEF SteppingInv, CruiseInv, Typed
<1>2. actions' = Applied(actions, desired, motion)
  BY DEF Frame
<1>3. Steps <=> StepsTo(actions, actions')
  BY DEF Steps, StepsTo
<1> QED BY <1>1, <1>2, <1>3, AppliedTurns DEF SteppingInv, Seen, Toggles

LEMMA SteppingStep == SteppingInv /\ [Next]_vars => SteppingInv'
<1> SUFFICES ASSUME SteppingInv, [Next]_vars PROVE Seen'
  BY CruiseStep DEF SteppingInv
<1>1. Cruises' = Cruises /\ Cruising \in Cruises
  BY DEF Cruises, Cruising, SteppingInv, CruiseInv, Typed
<1>2. ASSUME actions' = actions, trend' = trend,
             motion'.cruise \in {UNKNOWN_NUMBER} \cup Cruises
      PROVE  Seen'
  BY <1>2 DEF SteppingInv, Seen, Turned
<1>3. motion \in [cruise : Samples, limit : Samples]
      /\ motion.cruise \in {UNKNOWN_NUMBER} \cup Cruises
  BY DEF SteppingInv, CruiseInv, Typed, Seen
<1>4. ASSUME NEW command \in Commands, Accept(command)
      PROVE  Seen'
  BY <1>2, <1>3, <1>4 DEF Accept, historyVars
<1>5. CASE Invalidate
  BY <1>3, <1>5 DEF Invalidate, Seen, NewActions, Turned
<1>6. CASE Frame
  <2>1. /\ trend' = IF Steps THEN actions'.auto_pending.sign
                    ELSE IF \/ ~actions'.automatic \/ Toggles
                            \/ actions'.auto_target # actions.auto_target
                    THEN 0 ELSE trend
        /\ motion' = motion
    BY <1>6 DEF Frame
  <2>2. Turned(actions', trend')
    <3>1. CASE Steps
      BY <1>6, <2>1, <3>1, FrameTurns DEF Turned
    <3>2. CASE /\ ~Steps /\ actions'.automatic /\ ~Toggles
               /\ actions'.auto_target = actions.auto_target
      <4>1. trend' = trend
        BY <2>1, <3>2
      <4>2. CASE actions.automatic
        <5>1. /\ ~StepsTo(actions, actions')
              /\ Adjusts(actions, actions', motion.cruise, trend)
          BY <1>6, <3>2, <4>2, FrameTurns
        <5> QED BY <3>2, <4>1, <5>1 DEF Adjusts
      <4>3. CASE ~actions.automatic
        BY <1>6, <4>1, <4>3, FrameTurns DEF Turned
      <4> QED BY <4>2, <4>3
    <3>3. CASE ~Steps /\ trend' = 0
      BY <3>3 DEF Turned
    <3> QED BY <2>1, <3>1, <3>2, <3>3
  <2> QED BY <1>3, <1>6, <2>1, <2>2, FrameTurns DEF Seen
<1>7. CASE FrameContended
  BY <1>2, <1>3, <1>7 DEF FrameContended, historyVars
<1>8. CASE ReportsCruise
  BY <1>1, <1>2, <1>3, <1>8 DEF ReportsCruise
<1>9. ASSUME NEW l \in Limits, ReportsLimit(l)
      PROVE  Seen'
  BY <1>2, <1>3, <1>9 DEF ReportsLimit, historyVars
<1>10. ASSUME NEW sample \in {"cruise", "limit"}, SampleLost(sample)
       PROVE  Seen'
  BY <1>2, <1>3, <1>10 DEF SampleLost, historyVars
<1>11. ASSUME NEW s \in driver.keyboard, DriverSets(s)
       PROVE  Seen'
  BY <1>2, <1>3, <1>11 DEF DriverSets
<1>12. CASE Tick
  <2> DEFINE step == actions.auto_pending
             step1 == [step EXCEPT !.sent = Up(step.sent, ACK)]
  <2>1. actions \in ActionSet /\ step \in StepSet
    BY DEF SteppingInv, CruiseInv, Typed, ActionSet
  <2>2. /\ actions'.automatic = actions.automatic
        /\ actions'.auto_target = actions.auto_target
        /\ actions'.auto_pending = step1
        /\ actions'.auto_blocked = actions.auto_blocked
        /\ actions'.last_cruise = actions.last_cruise
        /\ motion' = motion /\ trend' = trend
    BY <1>12, <2>1 DEF Tick, ActionSet, historyVars
  <2>3. step1.sign = step.sign /\ (step1 = NoStep => step = NoStep)
        /\ (step = NoStep => step1 = NoStep)
    <3>1. CASE step = NoStep
      BY <3>1 DEF NoStep, NotSet, Up
    <3>2. CASE step # NoStep
      <4>1. step \in [before : Nat, sent : 0..ACK, sign : {-1, 1}]
        BY <2>1, <3>2 DEF StepSet
      <4>2. step1.before = step.before /\ step.before \in Nat
            /\ step1.sign = step.sign
        BY <4>1
      <4>3. NoStep.before \notin Nat
        BY DEF NoStep, NotSet
      <4> QED BY <3>2, <4>2, <4>3
    <3> QED BY <3>1, <3>2
  <2> HIDE DEF step1
  <2> QED BY <1>3, <2>2, <2>3 DEF SteppingInv, Seen, Turned
<1>13. CASE UNCHANGED vars
  BY <1>2, <1>3, <1>13 DEF vars, historyVars
<1> QED BY <1>4, <1>5, <1>6, <1>7, <1>8, <1>9, <1>10, <1>11, <1>12, <1>13
        DEF Next

\* Between two automatic steps in opposite directions the limit changed, a
\* sample was missing or the mode was switched, whatever the game makes of a
\* step and whatever the driver does (actions.rs:226 stops at an overshoot).
THEOREM NeverStepsBack == Spec => NeverOscillates
<1>1. ASSUME SteppingInv, [Next]_vars
      PROVE  [Steps /\ ~Toggles /\ actions'.auto_target = actions.auto_target
              => trend \in {0, actions'.auto_pending.sign}]_vars
  <2> SUFFICES ASSUME Next, Steps, ~Toggles,
                      actions'.auto_target = actions.auto_target
               PROVE  trend \in {0, actions'.auto_pending.sign}
    BY <1>1
  <2>1. Frame
    BY <1>1, StepsAreFrames DEF SteppingInv
  <2>2. StepsTo(actions, actions')
    BY <1>1, <2>1, FrameTurns
  <2>3. CASE actions.automatic
    BY <1>1, <2>1, <2>2, <2>3, FrameTurns DEF Adjusts
  <2>4. CASE ~actions.automatic
    BY <1>1, <2>1, <2>4, FrameTurns
  <2> QED BY <2>3, <2>4
<1>2. QED
  BY <1>1, SteppingInit, SteppingStep, PTL DEF Spec, NeverOscillates

\* With no step outstanding, an adjustment that has seen the set speed steps
\* only from what it saw: a change by the driver, of a unit or more, ends it
\* first.
THEOREM DriverIsObeyed == Spec => YieldsToDriver
<1>1. ASSUME SteppingInv, [Next]_vars
      PROVE  [(/\ Steps /\ ~Toggles /\ actions.automatic
                /\ actions.auto_pending = NoStep
                /\ actions.last_cruise # NotSet)
               => motion.cruise \in {own, actions.last_cruise}]_vars
  <2> SUFFICES ASSUME Next, Steps, ~Toggles, actions.automatic,
                      actions.auto_pending = NoStep,
                      actions.last_cruise # NotSet
               PROVE  motion.cruise = actions.last_cruise
    BY <1>1
  <2>1. Frame
    BY <1>1, StepsAreFrames DEF SteppingInv
  <2> QED BY <1>1, <2>1, FrameTurns DEF Adjusts
<1>2. QED
  BY <1>1, SteppingInit, SteppingStep, PTL DEF Spec, YieldsToDriver

-----------------------------------------------------------------------------
(* Who engages cruise *)

Engages == {"toggle", "resume"}

\* Neither of the two inputs that can engage cruise is pressed or released.
SameEngaging(a, b) ==
  b \in ActionSet /\ \A i \in Engages : b.pulse[i] = a.pulse[i]

LEMMA SpeedPressesSame ==
  ASSUME NEW a \in ActionSet, NEW cleared \in SUBSET Speed,
         NEW inputs \in SUBSET Speed
  PROVE  SameEngaging(a, Pressed(a, cleared, inputs))
  BY PressedIs DEF SameEngaging, Engages, Inputs, Speed

LEMMA RepeatedSame ==
  ASSUME NEW a \in ActionSet, NEW wanted
  PROVE  SameEngaging(a, Repeated(a, wanted))
<1> DEFINE manual == wanted \cap Speed
           stopped == [a EXCEPT !.repeat = NotSet]
           going == [a EXCEPT !.automatic = FALSE]
           b == Pressed(a, Speed, manual)
           pressed == [b EXCEPT !.automatic = FALSE, !.repeat = 0]
<1>1. Repeated(a, wanted) \in {a, stopped, going, pressed}
  BY DEF Repeated
<1>2. stopped.pulse = a.pulse /\ going.pulse = a.pulse
  BY DEF ActionSet
<1>3. b \in ActionSet /\ SameEngaging(a, b)
  <2>1. SameEngaging(a, b)
    BY SpeedPressesSame
  <2> QED BY <2>1 DEF SameEngaging
<1> HIDE DEF stopped, going, b
<1>4. pressed.pulse = b.pulse
  BY <1>3 DEF ActionSet
<1>5. Repeated(a, wanted) \in ActionSet
  BY RepeatedIs
<1> HIDE DEF pressed
<1> QED BY <1>1, <1>2, <1>3, <1>4, <1>5 DEF SameEngaging

LEMMA SwitchedSame ==
  ASSUME NEW a \in ActionSet, NEW rising
  PROVE  SameEngaging(a, Switched(a, rising))
<1> DEFINE manual == IF rising \cap Engaging = {} THEN a
                     ELSE [a EXCEPT !.automatic = FALSE]
           b == Pressed(manual, Speed, {})
           c == [b EXCEPT !.automatic = ~b.automatic, !.auto_pending = NoStep,
                          !.auto_blocked = FALSE, !.auto_target = NotSet,
                          !.last_cruise = NotSet]
<1>1. manual \in ActionSet /\ manual.pulse = a.pulse
  BY DEF ActionSet
<1>2. Switched(a, rising) \in {manual, c}
  BY DEF Switched
<1> HIDE DEF manual
<1>3. b \in ActionSet /\ SameEngaging(manual, b)
  <2>1. SameEngaging(manual, b)
    BY <1>1, SpeedPressesSame
  <2> QED BY <2>1 DEF SameEngaging
<1> HIDE DEF b
<1>4. c.pulse = b.pulse
  BY <1>3 DEF ActionSet
<1>5. Switched(a, rising) \in ActionSet
  BY SwitchedIs
<1> HIDE DEF c
<1> QED BY <1>1, <1>2, <1>3, <1>4, <1>5 DEF SameEngaging

LEMMA GivesUpSame ==
  ASSUME NEW a \in ActionSet
  PROVE  SameEngaging(a, Yielded(a)) /\ SameEngaging(a, Waiting(a))
<1> DEFINE b == Pressed(a, Speed, {})
<1>1. b \in ActionSet /\ SameEngaging(a, b)
  <2>1. SameEngaging(a, b)
    BY SpeedPressesSame
  <2> QED BY <2>1 DEF SameEngaging
<1> HIDE DEF b
<1>2. Yielded(a) = [b EXCEPT !.automatic = FALSE]
  BY DEF Yielded, b
<1>3. Waiting(a) = [b EXCEPT !.auto_pending = NoStep, !.auto_target = NotSet,
                             !.last_cruise = NotSet]
  BY DEF Waiting, b
<1>4. Yielded(a).pulse = b.pulse /\ Waiting(a).pulse = b.pulse
  BY <1>1, <1>2, <1>3 DEF ActionSet
<1> QED BY <1>1, <1>4, GivesUpIs DEF SameEngaging

LEMMA SteppedSame ==
  ASSUME NEW a \in ActionSet, NEW cruise \in Nat, NEW target \in Int
  PROVE  SameEngaging(a, Stepped(a, cruise, target))
<1> DEFINE seen == [a EXCEPT !.last_cruise = cruise]
           sign == Sign(target - cruise)
           press == IF sign > 0 THEN {"up"} ELSE {"down"}
           b == Pressed(seen, Speed, press)
           pending == [before |-> cruise, sent |-> 0, sign |-> sign]
           c == [b EXCEPT !.repeat = 0, !.auto_pending = pending]
<1>1. seen \in ActionSet /\ seen.pulse = a.pulse
  BY DEF ActionSet
<1>2. Stepped(a, cruise, target) \in {seen, c}
  BY Zenon DEF Stepped
<1>3. press \in SUBSET Speed
  BY DEF Speed
<1> HIDE DEF seen, press, pending
<1>4. b \in ActionSet /\ SameEngaging(seen, b)
  <2>1. SameEngaging(seen, b)
    BY <1>1, <1>3, SpeedPressesSame
  <2> QED BY <2>1 DEF SameEngaging
<1> HIDE DEF b
<1>5. c.pulse = b.pulse
  BY <1>4 DEF ActionSet
<1>6. Stepped(a, cruise, target) \in ActionSet
  BY SteppedIs
<1> HIDE DEF c
<1> QED BY <1>1, <1>2, <1>4, <1>5, <1>6 DEF SameEngaging

LEMMA AdjustedSame ==
  ASSUME NEW a \in ActionSet, NEW cruise \in Samples, NEW limit \in Samples
  PROVE  SameEngaging(a, Adjusted(a, cruise, limit))
<1> DEFINE target == Target(Unit, limit)
           aimed == Aimed(a, target)
           step == aimed.auto_pending
           acked == [aimed EXCEPT !.auto_pending = NoStep]
           beyond == \/ acked.auto_blocked
                     \/ /\ Sign(target - cruise) # step.sign
                        /\ Abs(target - cruise) > 250
           past == [acked EXCEPT !.auto_blocked = beyond]
           blocked == [aimed EXCEPT !.auto_blocked = TRUE,
                                    !.auto_pending = NoStep]
           far == limit \notin 1..100000
           off == cruise <= 0 \/ far
           none == target <= 0
           known ==
             IF aimed.auto_pending # NoStep
             THEN IF Abs(cruise - aimed.auto_pending.before) < 100
                  THEN Refused(aimed) ELSE Acknowledged(aimed, cruise, target)
             ELSE IF Unexpected(aimed, cruise) THEN Yielded(aimed)
             ELSE Stepped(aimed, cruise, target)
<1>1. target \in Int
  BY TargetIs DEF Samples, UNKNOWN_NUMBER
<1>2. PICK b : b = Adjusted(a, cruise, limit)
  OBVIOUS
<1> SUFFICES SameEngaging(a, b)
  BY <1>2
<1>3. b = IF off THEN Waiting(a) ELSE IF none THEN a ELSE known
  <2>1. Adjusted(a, cruise, limit) =
          IF off THEN Waiting(a) ELSE IF none THEN a ELSE known
    BY DEF Adjusted
  <2> HIDE DEF off, none, known
  <2> QED BY <1>2, <2>1
<1>4. CASE off
  <2> HIDE DEF off, none, known
  <2> QED BY <1>3, <1>4, GivesUpSame
<1>5. CASE ~off /\ none
  <2> HIDE DEF off, none, known
  <2> QED BY <1>3, <1>5 DEF SameEngaging
<1>6. CASE ~off /\ ~none
  <2>1. b = known
    <3> HIDE DEF off, none, known
    <3> QED BY <1>3, <1>6
  <2>2. cruise \in Nat /\ target \in Nat
    <3> HIDE DEF far
    <3>1. ~(cruise <= 0) /\ ~(target <= 0)
      BY <1>6
    <3> HIDE DEF off, none, known, target
    <3> QED BY <1>1, <3>1 DEF Samples, UNKNOWN_NUMBER
  <2> HIDE DEF target, far, off, none, known
  <2>3. aimed \in ActionSet /\ aimed.pulse = a.pulse
    BY <2>2 DEF Aimed, ActionSet
  <2> HIDE DEF aimed
  <2>4. /\ acked \in ActionSet /\ acked.pulse = a.pulse
        /\ blocked \in ActionSet /\ blocked.pulse = a.pulse
    BY <2>3 DEF ActionSet, StepSet
  <2> HIDE DEF acked, blocked
  <2>5. beyond \in BOOLEAN
    BY <2>4 DEF ActionSet
  <2> HIDE DEF beyond
  <2>6. past \in ActionSet /\ past.pulse = a.pulse
    BY <2>4, <2>5 DEF ActionSet
  <2> HIDE DEF past
  <2>7. Refused(aimed) \in {aimed, blocked}
    BY DEF Refused, blocked
  <2>8. Acknowledged(aimed, cruise, target)
          \in {Yielded(acked), Stepped(past, cruise, target)}
    BY Zenon DEF Acknowledged, acked, past, beyond
  <2>9. b \in {aimed, blocked, Yielded(acked), Yielded(aimed),
               Stepped(past, cruise, target), Stepped(aimed, cruise, target)}
    BY <2>1, <2>7, <2>8 DEF known
  <2>10. /\ SameEngaging(acked, Yielded(acked))
         /\ SameEngaging(aimed, Yielded(aimed))
         /\ SameEngaging(past, Stepped(past, cruise, target))
         /\ SameEngaging(aimed, Stepped(aimed, cruise, target))
    BY <2>2, <2>3, <2>4, <2>6, GivesUpSame, SteppedSame
  <2> QED BY <2>3, <2>4, <2>6, <2>9, <2>10 DEF SameEngaging
<1> HIDE DEF off, none
<1> QED BY <1>4, <1>5, <1>6

\* Of `apply': only the driver's hand on the ring or the lever presses them.
LEMMA AppliedSame ==
  ASSUME NEW a \in ActionSet, NEW wanted,
         NEW samples \in [cruise : Samples, limit : Samples],
         (wanted \ a.previous) \cap Engaging = {}
  PROVE  \A i \in Engages : Applied(a, wanted, samples).pulse[i] = a.pulse[i]
<1> DEFINE rising == wanted \ a.previous
           toggled == Pressed(a, {}, rising \cap {"toggle", "resume"})
           pulled == Pulled(toggled, wanted, samples.cruise)
           repeated == Repeated(pulled, wanted)
           switched == Switched(repeated, rising)
           manual == [switched EXCEPT !.auto_pending = NoStep,
                                      !.last_cruise = NotSet]
           adjusted == Adjusted(switched, samples.cruise, samples.limit)
           last == IF switched.automatic THEN adjusted ELSE manual
           result == [last EXCEPT !.previous = wanted]
<1>1. SameEngaging(a, toggled) /\ toggled.previous = a.previous
  <2>1. rising \cap {"toggle", "resume"} = {}
    BY DEF Engaging
  <2> QED BY <2>1, PressedIs, SpeedPressesSame DEF SameBut
<1> HIDE DEF toggled
<1>2. SameEngaging(a, pulled)
  <2>1. pulled = toggled
    BY <1>1 DEF Pulled, Engaging
  <2> QED BY <1>1, <2>1
<1> HIDE DEF pulled
<1>3. SameEngaging(a, repeated)
  BY <1>2, RepeatedSame DEF SameEngaging
<1> HIDE DEF repeated
<1>4. SameEngaging(a, switched)
  BY <1>3, SwitchedSame DEF SameEngaging
<1> HIDE DEF switched
<1>5. manual \in ActionSet /\ manual.pulse = switched.pulse
  BY <1>4 DEF ActionSet, StepSet, SameEngaging
<1>6. SameEngaging(switched, adjusted)
  BY <1>4, AdjustedSame DEF SameEngaging
<1> HIDE DEF manual, adjusted
<1>7. SameEngaging(a, last)
  BY <1>4, <1>5, <1>6 DEF SameEngaging
<1>8. Applied(a, wanted, samples) = result
  BY Zenon DEF Applied, result, last, switched, repeated, pulled, toggled,
               adjusted, manual
<1> HIDE DEF last
<1>9. result.pulse = last.pulse
  BY <1>7 DEF ActionSet, SameEngaging
<1> HIDE DEF result
<1> QED BY <1>7, <1>8, <1>9 DEF SameEngaging

\* The inductive invariant: a press that may engage cruise runs only where the
\* last frame has told the game of it, and only for a driver who uses the ring
\* or the lever.
Shown ==
  \A i \in Engages :
    actions.pulse[i] > 0 => i \in output /\ driver.uses \cap Engaging # {}

EngagingInv == CruiseInv /\ Shown

\* A frame without input between two with it makes one press two; it is excluded
\* where it would engage cruise.
Uncontended ==
  \A d \in Drivers : d.contention => d.uses \cap Engaging = {}

LEMMA EngagingInit == Init => EngagingInv
<1> SUFFICES ASSUME Init PROVE Shown
  BY CruiseInit DEF EngagingInv
<1> QED BY DEF Init, Shown, NewActions, Engages, Inputs

\* A frame's presses come from the driver's hand or were told before.
LEMMA FrameShows ==
  ASSUME EngagingInv, Frame
  PROVE  /\ Shown'
         /\ (desired \ actions.previous) \cap Engaging = {} =>
              Presses \cap Engages = {}
<1>1. /\ actions' = Applied(actions, desired, motion)
      /\ output' = Asserted(actions') /\ driver' = driver
  BY DEF Frame
<1>2. /\ actions \in ActionSet /\ desired \in SUBSET driver.uses
      /\ motion \in [cruise : Samples, limit : Samples]
  BY DEF EngagingInv, CruiseInv, Typed, Commands
<1>3. \A i \in Engages : actions'.pulse[i] > 0 <=> i \in output'
  BY <1>1 DEF Asserted, Engages, Inputs
<1>4. CASE (desired \ actions.previous) \cap Engaging = {}
  <2>1. \A i \in Engages : actions'.pulse[i] = actions.pulse[i]
    BY <1>1, <1>2, <1>4, AppliedSame
  <2> QED BY <1>1, <1>3, <2>1 DEF EngagingInv, Shown, Presses
<1>5. CASE (desired \ actions.previous) \cap Engaging # {}
  <2>1. driver.uses \cap Engaging # {}
    BY <1>2, <1>5
  <2> QED BY <1>1, <1>3, <1>5, <2>1 DEF Shown
<1> QED BY <1>4, <1>5

LEMMA EngagingStep ==
  ASSUME Uncontended
  PROVE  EngagingInv /\ [Next]_vars => EngagingInv'
<1> SUFFICES ASSUME EngagingInv, [Next]_vars PROVE Shown'
  BY CruiseStep DEF EngagingInv
<1>1. ASSUME UNCHANGED <<driver, actions, output>>
      PROVE  Shown'
  BY <1>1 DEF EngagingInv, Shown
<1>2. CASE Invalidate
  BY <1>2 DEF Invalidate, Shown, NewActions, Engages, Inputs
<1>3. CASE Frame
  BY <1>3, FrameShows
<1>4. CASE FrameContended
  <2>1. driver \in Drivers /\ driver.contention
    BY <1>4 DEF FrameContended, EngagingInv, CruiseInv, Typed
  <2>2. driver.uses \cap Engaging = {}
    BY <2>1 DEF Uncontended
  <2>3. \A i \in Engages : ~(actions'.pulse[i] > 0)
    BY <1>4, <2>2 DEF FrameContended, EngagingInv, Shown
  <2> QED BY <2>3 DEF Shown
<1>5. CASE Tick
  <2>1. actions.pulse \in [Inputs -> 0..PULSE] /\ PULSE \in Nat
    BY CruiseAssumption DEF EngagingInv, CruiseInv, Typed, ActionSet
  <2>2. /\ actions'.pulse = [i \in Inputs |-> Down(actions.pulse[i])]
        /\ driver' = driver /\ output' = output
    BY <1>5 DEF Tick, EngagingInv, CruiseInv, Typed, ActionSet
  <2>3. \A i \in Engages : actions'.pulse[i] > 0 => actions.pulse[i] > 0
    BY <2>1, <2>2 DEF Down, Engages, Inputs
  <2> QED BY <2>2, <2>3 DEF EngagingInv, Shown
<1> QED BY <1>1, <1>2, <1>3, <1>4, <1>5
        DEF Next, Accept, ReportsCruise, ReportsLimit, SampleLost, DriverSets,
            vars

\* Up and down do nothing while cruise is off.
LEMMA OffStaysOff ==
  ASSUME set = 0, GameTakesInput, Presses \cap Engages = {}
  PROVE  set' = 0
<1> DEFINE After(input, speeds) ==
             IF input \notin Presses THEN speeds
             ELSE UNION {AfterPress(s, input) : s \in speeds}
<1>1. set' \in After("down", After("up",
                 After("resume", After("toggle", {set}))))
  BY DEF GameTakesInput
<1>2. "toggle" \notin Presses /\ "resume" \notin Presses
  BY DEF Engages
<1>3. After("resume", After("toggle", {set})) = {0}
  BY <1>2
<1>4. AfterPress(0, "up") = {0} /\ AfterPress(0, "down") = {0}
  BY DEF AfterPress
<1>5. After("up", {0}) = {0} /\ After("down", {0}) = {0}
  BY <1>4
<1> HIDE DEF After
<1> QED BY <1>1, <1>3, <1>5

\* The adjustment never turns cruise on, and no movement of the driver's does it
\* twice: whatever it presses, and however long the driver holds the lever.
THEOREM OnlyDriverEngages ==
  ASSUME Uncontended
  PROVE  Spec => NeverEngages
<1>1. ASSUME EngagingInv, [Next]_vars
      PROVE  [set = 0 /\ set' > 0 /\ gap' = 0 /\ Presses # {}
              => (desired \ actions.previous) \cap Engaging # {}]_vars
  <2> SUFFICES ASSUME Next, set = 0, set' > 0, Presses # {}
               PROVE  (desired \ actions.previous) \cap Engaging # {}
    BY <1>1
  <2>1. Frame
    <3>1. set' # set
      OBVIOUS
    <3>2. output' # output
      BY DEF Presses
    <3> QED BY <3>1, <3>2
            DEF Next, Accept, Invalidate, FrameContended, ReportsCruise,
                ReportsLimit, SampleLost, DriverSets, Tick
  <2>2. ASSUME (desired \ actions.previous) \cap Engaging = {}
        PROVE  FALSE
    <3>1. Presses \cap Engages = {}
      BY <1>1, <2>1, <2>2, FrameShows
    <3>2. set' = 0
      BY <2>1, <3>1, OffStaysOff DEF Frame
    <3> QED BY <3>2
  <2> QED BY <2>2
<1>2. QED
  BY <1>1, EngagingInit, EngagingStep, PTL DEF Spec, NeverEngages
=============================================================================
