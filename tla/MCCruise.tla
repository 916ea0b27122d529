------------------------------ MODULE MCCruise ------------------------------
(* TLC instances of Cruise. *)
EXTENDS Cruise

\* On the grid of five units, and off it on either side of a limit.
MCSpeeds == {43, 45, 48}
MCLimits == {41, 46}

Driver(uses, keyboard, contention) ==
  [uses |-> uses, keyboard |-> keyboard, contention |-> contention]

\* The switch beside manual steps, the lever with the ring, the switch beside
\* the keyboard, and beside the brake with frames that have no input.
MCDrivers ==
  {Driver({"auto", "up"}, {}, FALSE), Driver({"pull", "toggle"}, {}, FALSE),
   Driver({"auto"}, {43, 48}, FALSE), Driver({"auto"}, {0}, TRUE)}

NoKeyboard == {Driver({"auto", "up", "down"}, {}, FALSE)}
=============================================================================
