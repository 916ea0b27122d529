SPECIFICATION FairSpec
CONSTANTS
  None = None
  Nothing = Nothing
  Controls = {left}
  Channels = {wipers}
  MaxGeneration = 3
  MaxSession = 1
  MaxSequence = 1
  MaxIdleEpoch = 0
  MaxFaults = 1
PROPERTIES
  ReleasedAfterBridgeEnds
