SPECIFICATION Spec
CONSTANTS
  Drivers <- RearOnly
  HID_LEASE = 2
  MaxBinding = 2
INVARIANTS AnswerIsValid
