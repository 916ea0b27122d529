SPECIFICATION Spec
CONSTANTS
  None = None
  MistRequest = MistRequest
  Off = Off
  Low = Low
  Unknown = Unknown
  Direct <- MCDirect
  ACK_TIMEOUT = 6
PROPERTY NonMistRearms
