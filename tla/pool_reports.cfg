\* Two goroutines, one installation and a PAT: reports race each other, and a refresh
\* races the client cache.
SPECIFICATION MCSpec
CONSTANTS
  a = a
  b = b
  Callers = {a, b}
  Installs = {1}
  Churn = {}
  HasPAT = TRUE
  Gens = {0, 1}
  MaxPoolRetries = 2
  TokenLife = 1
  ExpiryBuffer = 1
  ResetFallback = 1
  RefreshDedup = 1
  Resets = {0, 1}
SYMMETRY CallerSymmetry
INVARIANTS
  RejectedRests
  PresentedIsCached
