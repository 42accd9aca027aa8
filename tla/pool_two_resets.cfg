\* Two goroutines present the one token and are told different resets.
SPECIFICATION HSpec
CONSTANTS
  a = a
  b = b
  Callers = {a, b}
  Installs = {1}
  Churn = {}
  HasPAT = FALSE
  Gens = {0, 1}
  MaxPoolRetries = 1
  TokenLife = 5
  ExpiryBuffer = 1
  ResetFallback = 3
  RefreshDedup = 1
  Resets = {1, 2}
SYMMETRY CallerSymmetry
INVARIANTS
  HonoursReset
