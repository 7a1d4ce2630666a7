CONSTANTS
  s1 = s1
  s2 = s2
  w1 = w1
  w2 = w2
  d1 = d1
  d2 = d2
  Owner = {w1, w2}
  Slot = {s1}
  OwnerOf <- ProcessOf
  Key = {d1, d2}
  Dep = {d1, d2}
  Effects <- CreateOnly
  MaxAttempts = 1
  DeployCap = 10
  MaxClaims = 1
  MaxAsks = 2
SYMMETRY DeploymentSymmetry
SPECIFICATION Spec
INVARIANTS  UnknownHasCause StopSettlesLedger
CHECK_DEADLOCK FALSE
