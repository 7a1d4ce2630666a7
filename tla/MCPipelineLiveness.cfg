\* Two accounts, two scan workers, one projector that may crash.
SPECIFICATION FairSpec
CONSTANTS
  Worker = {w1, w2}
  Projector = {p1}
  None = None
  c1 = c1
  c2 = c2
  Connector = {c1, c2}
  ConnectorOf <- TwoAccounts
  MaxRuns = 2
  ScanMaxAttempts = 2
  MaxProjectionAttempts = 2
  MaxWrites = 0
  MaxFaults = 1
PROPERTIES ScansEnd ProjectionsEnd BarrierFreed
CHECK_DEADLOCK FALSE
