\* Two pods, one of which reports without a name; two requests race; one fault.
SPECIFICATION FairSpec
CONSTANTS
  Pod = {p1, p2}
  Named = {p1}
  Admin = {a1}
  Handler = {h1, h2}
  None = None
  Batch = 2
  MaxAttempts = 2
  MaxDecisions = 2
  MaxFaults = 1
INVARIANTS TypeOK AppliedWasDone FoldedOnce WithinAttempts
PROPERTIES ClosedIsFinal LiveLeaseIsItsHolders InstructionsClose
CHECK_DEADLOCK FALSE
