SPECIFICATION Spec
CONSTANTS
  None = None
  Nothing = Nothing
  Controls = {left}
  Channels = {wipers}
  MaxGeneration = 4
  MaxSession = 2
  MaxSequence = 1
  MaxIdleEpoch = 2
  MaxFaults = 1
INVARIANTS TypeOK NoStaleReplay DesiredIsFresh AnswersOutstanding NoMutualWait
PROPERTY ImplementsFreshInput
