SPECIFICATION Spec
CONSTANTS
  s1 = s1
  s2 = s2
  s3 = s3
  w1 = w1
  w2 = w2
  r1 = r1
  j1 = j1
  j2 = j2
  j3 = j3
  Slot = {s1}
  Owner = {w1, w2}
  OwnerOf <- ProcessOf
  Replica = {r1}
  JobId = {j1, j2, j3}
  Key = {"k1"}
  MaxAttempts = 2
  DeployCap = 1
  MaxGiveBacks = 0
INVARIANTS
  OneOpenPerKey
  PeriodicBurst
SYMMETRY RowSymmetry
CHECK_DEADLOCK FALSE
