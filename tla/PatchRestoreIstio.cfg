CONSTANTS
  Call = {c1}
  Kind = "istio"
  Unconditional = "no"
  NoVersion = NoVersion
  MaxEdits = 0
  MaxFaults = 0
SPECIFICATION Spec
INVARIANT AlwaysRestored
CHECK_DEADLOCK FALSE
