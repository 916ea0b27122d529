SPECIFICATION DispatchFairSpec
CONSTANTS
  None = None
  MistRequest = MistRequest
  Off = Off
  Low = Low
  High = High
  Unknown = Unknown
  Direct <- MCDirect
  ACK_TIMEOUT = 6
INVARIANTS TypeOK SweepIsParked NeverBoth GameParked
PROPERTIES SweepsOnce AttemptEnds
