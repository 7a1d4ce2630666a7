\* Two scans of one account, two scan workers, two projectors, two faults.
SPECIFICATION Spec
CONSTANTS
  Worker = {w1, w2}
  Projector = {p1, p2}
  None = None
  c1 = c1
  c2 = c2
  Connector = {c1}
  ConnectorOf <- OneAccount
  MaxRuns = 2
  ScanMaxAttempts = 1
  MaxProjectionAttempts = 2
  MaxWrites = 2
  MaxFaults = 2
SYMMETRY Interchangeable
INVARIANTS TypeOK ReadsWhatWasPublished JobHoldsBarrier NeverSuperseded
PROPERTY ImplementsSerial
CHECK_DEADLOCK FALSE
