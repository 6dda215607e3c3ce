CONSTANTS
  Call = {c1, c2}
  Kind = "webhook"
  Unconditional = "yes"
  NoVersion = NoVersion
  MaxEdits = 2
  MaxFaults = 1
SPECIFICATION FairSpec
INVARIANT FaultExplained
PROPERTIES PatchKeepsEdits CancelReturns
CHECK_DEADLOCK FALSE
