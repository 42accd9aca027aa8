SPECIFICATION MCSpec
CONSTANTS
  Tenants = {"t"}
  Addresses = {"a"}
  Requests = {"q", "r"}
  Rate = {1, 2}
  AnonRate = 1
  Second = 2
  BurstShare = 2
  MinBurst = 1
  MaxBurst = 1
  AddressWindow = 2
  HourWindow = 2
  BurstWindow = 1
  Horizon = 5
  MaxAsked = 3
  Tabs = {"x", "y"}
  Ids = {1, 2, 3, 4, 5, 6, 7, 8, 9, 10, 11, 12}
  MaxVisits = 3
  MaxFaults = 1
CHECK_DEADLOCK FALSE
INVARIANTS
  RetrySuffices
  LessThanTwoWindows
  
PROPERTIES
  ImplementsFixedWindow
  LoadsEnd
