SPECIFICATION FairSpec
CONSTANTS
  Channels = {"wipers", "cruise"}
  Required = {"wipers"}
  MaxStarts = 3
INVARIANTS TypeOK NoDetachedWorker SessionIsConnected AllOrNothing
PROPERTIES AssertsOnFreshTelemetry CallsReturn
