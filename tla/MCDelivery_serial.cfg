SPECIFICATION Spec
CONSTANTS
  Workers = {w1}
  MaxFaults = 2
  MaxTrips = 2
INVARIANTS
  TypeOK
  RequestFollowsBooking
  DeliveredIsCounted
PROPERTIES
  StatusesFollowTables
