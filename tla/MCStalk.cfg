SPECIFICATION Spec
CONSTANTS
  Drivers <- AllDrivers
  HID_LEASE = 2
  MaxBinding = 2
INVARIANTS TypeOK AnswerIsActual HoldsAreFresh OnlyCruiseConflicts
