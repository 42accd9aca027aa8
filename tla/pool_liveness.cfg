\* One goroutine, one installation that comes and goes, a PAT.
SPECIFICATION FairSpec
CONSTANTS
  a = a
  b = b
  Callers = {a}
  Installs = {1}
  Churn = {1}
  HasPAT = TRUE
  Gens = {0, 1}
  MaxPoolRetries = 2
  TokenLife = 1
  ExpiryBuffer = 1
  ResetFallback = 1
  RefreshDedup = 1
  Resets = {0}
INVARIANTS
  TypeOK
PROPERTIES
  CallsEnd
  UnusableLeaves
