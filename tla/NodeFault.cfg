CONSTANTS
  Call = {c1, c2}
  Node = {n1}
  NoCall = NoCall
  MaxFaults = 1
SPECIFICATION FairSpec
INVARIANTS LeftoversExplained HeldWhileDrained
PROPERTIES OwnPodDeleted CancelReturns
