---------------------------- MODULE CruiseUnit ----------------------------
(***************************************************************************)
(* CruiseUnit: road limits in millimetres per second become the greatest   *)
(* cruise speed the game can be stepped to, a multiple of five displayed   *)
(* units (km/h or mph) that is not above the limit.                        *)
(***************************************************************************)
EXTENDS Integers

Units == {"Kmh", "Mph"}

\* Numerator and denominator of one unit in millimetres per second.
Numerator(unit)   == IF unit = "Kmh" THEN 10000 ELSE 44704
Denominator(unit) == IF unit = "Kmh" THEN 36 ELSE 100

\* The limit as the game displays it, in whole units.
Displayed(unit, limit) ==
  (limit * Denominator(unit) + Numerator(unit) \div 2) \div Numerator(unit)

\* `target'.
Target(unit, limit) ==
  ((Displayed(unit, limit) \div 5) * 5 * Numerator(unit)) \div Denominator(unit)

\* `step'.
Step(unit) == (5 * Numerator(unit)) \div Denominator(unit)

\* What the SDK's speed of so many displayed units becomes: a float in metres
\* per second, rounded to millimetres.
Reported(unit, units) ==
  (2 * units * Numerator(unit) + Denominator(unit))
    \div (2 * Denominator(unit))
=============================================================================
