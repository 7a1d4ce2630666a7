CONSTANTS
  s1 = s1
  s2 = s2
  w1 = w1
  w2 = w2
  d1 = d1
  d2 = d2
  Owner = {w1, w2}
  Slot = {s1}
  OwnerOf <- ProcessOf
  Key = {d1}
  Dep = {d1}
  Effects <- CreateAndAttach
  MaxAttempts = 2
  DeployCap = 10
  MaxClaims = 2
  MaxAsks = 0
SPECIFICATION Spec
INVARIANT RemovedWasNeverCreated
CHECK_DEADLOCK FALSE
