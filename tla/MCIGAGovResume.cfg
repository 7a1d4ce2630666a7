CONSTANTS
  Fact = {document, owner, boundary}
  MaxOps = 4
SPECIFICATION Spec
INVARIANTS TypeOK ResumeNeverSkips ResumeRepeatsOnlyUnseen UnknownResolved
CHECK_DEADLOCK FALSE
