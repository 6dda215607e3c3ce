CONSTANTS
  MaxFaults = 2
  MaxCrashes = 1
SPECIFICATION FairSpec
INVARIANTS TypeOK OutcomeHonest
PROPERTIES KeepsPromise SignalEnds
