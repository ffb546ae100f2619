SPECIFICATION Spec
CONSTANTS
  Workers = {w1}
  MaxFaults = 0
  MaxTrips = 2
INVARIANTS
  FailureReachesRequest
