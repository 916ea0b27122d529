SPECIFICATION FairSpec
CONSTANTS
  Unit = "Kmh"
  PULSE = 1
  REPEAT = 2
  ACK = 3
  Lag = 2
  MaxGap = 1
  Drivers <- MCDrivers
  Speeds <- MCSpeeds
  Limits <- MCLimits
INVARIANTS TypeOK OneDirection
PROPERTIES NeverOscillates YieldsToDriver NeverEngages StepsArePresses SettlesAtLimit
