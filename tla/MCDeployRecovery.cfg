CONSTANTS
  s1 = s1
  s2 = s2
  w1 = w1
  w2 = w2
  d1 = d1
  d2 = d2
  Owner = {w1, w2}
  Slot = {s1, s2}
  OwnerOf <- ProcessOf
  Key = {d1}
  Dep = {d1}
  Effects <- CreateAndAttach
  MaxAttempts = 2
  DeployCap = 10
  MaxClaims = 2
  MaxAsks = 0
SYMMETRY ProcessSymmetry
SPECIFICATION Spec
INVARIANTS TypeOK AppliedOnce ReleasedIsQuiet DoneHasLanded UnknownHasCause
CHECK_DEADLOCK FALSE
