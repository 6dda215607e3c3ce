CONSTANTS
  alice = alice
  bob = bob
  own = own
  shared = shared
  VU <- Users
  Pod <- Pods
  Targets <- Aims
  Attached = {own}
  FaultyCall <- Faults
SPECIFICATION FairSpec
INVARIANTS TypeOK OkMeansApplied AloneUndisturbed
PROPERTIES VisitEnds 
CHECK_DEADLOCK FALSE
