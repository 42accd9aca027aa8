SPECIFICATION Spec
CONSTANTS
  Start = 2
  Horizon = 4
  Lookback = 2
  CatchupMax = 2
  PublishDelay = 1
  BackfillSpan = 2
  BackfillBatch = 2
  BackfillWorkers = 2
  Retries = 0
  Week = 2
  CompactInterval = 1
  CompactOlderThan = 2
  PruneRetention = 4
  SignalWindow = 2
  MaxSlips = 1
INVARIANTS
  CursorIsHonest
  BackfillIsHonest
  RecountsArePaidFor
  RepositoriesUntilCompaction
PROPERTIES
  MaintenanceKeepsWeeks
