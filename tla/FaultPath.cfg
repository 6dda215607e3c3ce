CONSTANTS
  v1 = v1
  v2 = v2
  vs = vs
  p1 = p1
  p2 = p2
  VU <- VirtualUsers
  Setup <- SetupUsers
  Pod <- Pods
  MaxCalls = 2
  Cases <- Scripts
  Numerals <- Ports
SPECIFICATION Spec
INVARIANTS  RightPort CountsAgree GaugeExplained
CHECK_DEADLOCK FALSE
