\* Batches of one, a pool that runs dry and recovers.
SPECIFICATION FairSpec
CONSTANTS
  s1 = s1
  s2 = s2
  a = a
  b = b
  c = c
  Scorers = {s1}
  Contributors = {a, b}
  BatchSize = 1
  Concurrency = 1
  Tokens = 2
  Reserve = 1
  Floor = 0
  Mortal = {}
PROPERTIES
  NewcomerServed
  StaleRenewed
