\* One instance, restarted at any time, scores two contributors one by one.
SPECIFICATION Spec
CONSTANTS
  s1 = s1
  s2 = s2
  a = a
  b = b
  c = c
  Scorers = {s1}
  Contributors = {a, b}
  BatchSize = 2
  Concurrency = 1
  Tokens = 2
  Reserve = 1
  Floor = 0
  Mortal = {s1}
INVARIANTS
  OwedWorkIsHeld
PROPERTIES
  UrgencyKept
