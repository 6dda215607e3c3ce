CONSTANTS
  Direct = FALSE
  MaxFaults = 2
  MaxCrashes = 1
  MaxInflight = 2
SPECIFICATION FairSpec
INVARIANTS TypeOK RulesAccounted NoBlackhole 
PROPERTIES  KeepsPromise SignalStops ProxyFailureEnds
