SPECIFICATION Spec
CONSTANTS
  Gears <- MCGears
  PULSE = 3
  REPEAT = 6
  ACK = 20
  Lag = 5
  MaxGap = 3
  Contention = TRUE
  Presses = TRUE
INVARIANT OnePressPerEntry
