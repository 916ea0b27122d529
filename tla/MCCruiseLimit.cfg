SPECIFICATION Spec
CONSTANTS
  Unit = "Kmh"
  PULSE = 1
  REPEAT = 2
  ACK = 3
  Lag = 2
  MaxGap = 1
  Drivers <- NoKeyboard
  Speeds <- MCSpeeds
  Limits <- MCLimits
PROPERTY StopsOnlyWhenRefused
