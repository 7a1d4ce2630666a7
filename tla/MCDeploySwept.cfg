CONSTANTS
  s1 = s1
  s2 = s2
  w1 = w1
  w2 = w2
  d1 = d1
  d2 = d2
  Owner = {w1, w2}
  Slot = {s1}
  OwnerOf <- ProcessOf
  Key = {d1}
  Dep = {d1}
  Effects <- VersionAndTag
  MaxAttempts = 2
  DeployCap = 10
  MaxClaims = 3
  MaxAsks = 1
SPECIFICATION SweptSpec
INVARIANTS AppliedOnce AppliedMeansAll ResolvedTruthfully
PROPERTY NeverForgotten
CHECK_DEADLOCK FALSE
