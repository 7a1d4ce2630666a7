CONSTANTS
  s1 = s1
  s2 = s2
  w1 = w1
  w2 = w2
  d1 = d1
  d2 = d2
  Owner = {w1, w2}
  Slot = {s1}
  OwnerOf <- ProcessOf
  Key = {d1, d2}
  Dep = {d1, d2}
  Effects <- CreateOnly
  MaxAttempts = 2
  DeployCap = 10
  MaxClaims = 2
  MaxAsks = 2
SYMMETRY DeploymentSymmetry
SPECIFICATION Spec
INVARIANT SenderHoldsRole
CHECK_DEADLOCK FALSE
