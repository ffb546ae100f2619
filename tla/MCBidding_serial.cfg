SPECIFICATION FairSpec
CONSTANTS
  Drivers = {d1, d2}
  BidIds = {b1, b2}
  Workers = {w1}
  Prices = {p1, p2}
  Null = Null
  MaxIdles = 1
  MaxFaults = 1
  MaxBookings = 2
INVARIANTS
  OneAward
  StatusMatchesBids
PROPERTIES
  StaleRequestsEnd
  ImplementsDeal
