\* Clusters with one or no fault that change between two such states; up to two calls fail.
SPECIFICATION Spec
CONSTANTS
  MaxFaults = 1
  Clusters <- MCClusters
  MaxSeen = 2
  MaxFailures = 2
INVARIANTS TypeOK SteadyIsReported AllClearWasClear ErrorsHaveReasons
