SPECIFICATION FairSpec
CONSTANTS
  Start = 2
  Horizon = 4
  Lookback = 1
  CatchupMax = 1
  PublishDelay = 1
  BackfillSpan = 1
  BackfillBatch = 2
  BackfillWorkers = 2
  Retries = 1
  Week = 2
  CompactInterval = 1
  CompactOlderThan = 1
  PruneRetention = 4
  SignalWindow = 2
  MaxSlips = 1
PROPERTIES
  CatchesUp
