\* Two replicas boot together, three goroutines share a client, two installations
\* come and go, a pool of two installations is minted again.
SPECIFICATION MCSpec
CONSTANTS
  Replicas = {"r", "s"}
  LastVersion = 2
  Jobs = {"j"}
  MaxFailures = 2
  Goroutines = {"c", "d", "e"}
  MaxMints = 4
  MaxExpiries = 2
  InstallIds = {"i", "k"}
  Owners = {"o", "p"}
  MaxEvents = 4
  MaxTroubles = 1
  Callers = {"c"}
  Installs = {1, 2}
  Churn = {}
  HasPAT = FALSE
  Gens = {0, 1}
  MaxPoolRetries = 2
  TokenLife = 1
  ExpiryBuffer = 1
  ResetFallback = 1
  RefreshDedup = 1
  Resets = {0}
CHECK_DEADLOCK FALSE
INVARIANTS
  MigratesOnce
  WritesPrecedeClose
  MintsOncePerExpiry
  RowsFollowGitHub
  PoolNeverEmptied
PROPERTIES
  EveryReplicaStarts
