SPECIFICATION Spec
CONSTANTS
  Drivers = {d1, d2}
  BidIds = {b1, b2}
  Workers = {w1}
  Prices = {p1}
  Null = Null
  MaxIdles = 1
  MaxFaults = 0
  MaxBookings = 2
SYMMETRY Symmetry
PROPERTIES
  SweepFailsOnlyIdle
