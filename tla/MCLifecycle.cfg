CONSTANTS
  Services <- MCServices
  Unset = Unset
  MaxSignalsAndRuns = 3
  MaxRuns = 2
  Hosts <- MCHosts
  Names <- MCNames
  ServiceOf <- MCServiceOf
  Obstacles <- MCObstacles
  MaxFailures = 1
SPECIFICATION MCSpec
INVARIANTS
  ServesWhole
  DiscoveryAgrees
PROPERTIES
  SignalIsObeyed
  EveryServerIsFound
CHECK_DEADLOCK FALSE
