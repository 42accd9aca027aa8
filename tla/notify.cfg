SPECIFICATION Spec
CONSTANTS
  Tenants <- MCTenants
  a1 = a1
  a2 = a2
  b1 = b1
  Watchlists = {a1, a2, b1}
  Owner <- MCOwner
  PlanOf <- MCPlanOf
  DigestDay <- MCDigestDay
  Installed = {}
  Summaries = {{"pr"}}
  Mailable = {"a"}
  MaxPerEmail = 1
  Day = 1
  WeekDays = 2
  Horizon = 2
  MaxEvents = 2
  MaxAdding = 2
  MaxEdits = 1
  MaxSlips = 1
SYMMETRY WatchlistSymmetry
CHECK_DEADLOCK FALSE
INVARIANTS
  SentIsCovered
  RepeatsArePaidFor
  DigestsAWeekApart
