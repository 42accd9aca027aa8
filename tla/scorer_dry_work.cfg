\* An attempt that exhausts the last token of the pool.
SPECIFICATION Spec
CONSTANTS
  s1 = s1
  s2 = s2
  a = a
  b = b
  c = c
  Scorers = {s1}
  Contributors = {a, b}
  BatchSize = 2
  Concurrency = 1
  Tokens = 2
  Reserve = 1
  Floor = 0
  Mortal = {}
PROPERTIES
  DryWorkReturns
