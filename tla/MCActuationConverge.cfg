\* One admin, who quarantines and then releases; no fault; orderly pods.
SPECIFICATION OrderedSpec
CONSTANTS
  Pod = {p1, p2}
  Named = {p1, p2}
  Admin = {a1}
  Handler = {h1}
  None = None
  Batch = 2
  MaxAttempts = 2
  MaxDecisions = 2
  MaxFaults = 0
INVARIANT ConvergesOnDecision
CHECK_DEADLOCK FALSE
