SPECIFICATION FairSpec
CONSTANTS
  Gears <- MCGears
  PULSE = 2
  REPEAT = 4
  ACK = 13
  Lag = 3
  MaxGap = 2
  Contention = TRUE
  Presses = TRUE
INVARIANTS TypeOK OneGear OneWait OnePressUnlessSplit BrakeFollowsLever
PROPERTY WaitsEnd
