SPECIFICATION FairSpec
CONSTANTS
  Workers = {w1, w2}
  MaxFaults = 2
  MaxTrips = 2
INVARIANTS
  TripsCountedOnce
  ProofStands
  ClaimStands
PROPERTIES
  OverdueBookingsClose
