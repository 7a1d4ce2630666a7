SPECIFICATION FairSpec
CONSTANTS
  s1 = s1
  s2 = s2
  s3 = s3
  w1 = w1
  w2 = w2
  r1 = r1
  j1 = j1
  j2 = j2
  j3 = j3
  Slot = {s1, s2, s3}
  Owner = {w1, w2}
  OwnerOf <- ProcessOf
  Replica = {}
  JobId = {j1}
  Key = {"k1"}
  MaxAttempts = 3
  DeployCap = 1
  MaxGiveBacks = 1
INVARIANTS
  TypeOK
  SingleHolder
  AttemptsAtClaimAreCurrent
  QueuedIsClaimable
PROPERTIES
  WritesInLeaseOrder
  FinishedIsFinal
  OpenJobFinishes
CHECK_DEADLOCK FALSE
